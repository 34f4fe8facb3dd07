------------------------------ MODULE Manifest ------------------------------
(***************************************************************************)
(* The listing of what an image ships: image/manifest.py.                  *)
(*                                                                         *)
(* A path is a sequence of components, a component a sequence of code      *)
(* points; its name in a manifest has a slash between them.  A tree maps   *)
(* its paths to [dir, ino, links, to]: `to` is the path a link to a        *)
(* directory leads to, the path itself of anything else.  Links out of the *)
(* image and to links are left out.  An object of a manifest is kept as    *)
(* its name and the token of its inode, 0 without one.  A name that        *)
(* check_name refuses (no UTF-8, a control character, the manifest's own)  *)
(* fails the build instead, and no tree here has one.                      *)
(***************************************************************************)
EXTENDS Integers, Sequences, FiniteSets, SequencesExt, FiniteSetsExt

Slash == 47
Name(path) == FoldLeft(LAMBDA name, part : IF name = <<>> THEN part ELSE name \o <<Slash>> \o part, <<>>, path)

\* Python's order of bytes and of lists: the first difference decides.
Below(x, y) ==
  LET differ == {k \in 1..Len(x) : k <= Len(y) /\ x[k] # y[k]}
  IN  IF differ = {} THEN Len(x) < Len(y) ELSE x[Min(differ)] < y[Min(differ)]
PathBelow(p, q) ==
  LET differ == {k \in 1..Len(p) : k <= Len(q) /\ p[k] # q[k]}
  IN  IF differ = {} THEN Len(p) < Len(q) ELSE Below(p[Min(differ)], q[Min(differ)])

\* A finite set in an order that is total on it.
Sorted(S, Before(_, _)) ==
  [k \in 1..Cardinality(S) |-> CHOOSE x \in S : Cardinality({y \in S : Before(y, x)}) = k - 1]

(***************************************************************************)
(* scope: names, those another covers left out                             *)
(***************************************************************************)
CoversMutant(covered, name) == IsPrefix(covered, name)

Covers(covered, name) == name = covered \/ IsPrefix(covered \o <<Slash>>, name)

Scope(roots) ==
  LET names == Sorted({Name(r) : r \in roots}, Below)
      Keep(kept, name) == IF \E k \in DOMAIN kept : Covers(kept[k], name) THEN kept ELSE Append(kept, name)
  IN  IF roots = {} \/ <<>> \in roots THEN <<<<>>>> ELSE FoldLeft(Keep, <<>>, names)

(***************************************************************************)
(* entries and hardlink_tokens                                             *)
(***************************************************************************)
\* Depth first, children in the order of their own names.
Listed(tree) ==
  LET Children(p) == {q \in DOMAIN tree : Len(q) = Len(p) + 1 /\ IsPrefix(p, q)}
      under[p \in DOMAIN tree \cup {<<>>}] ==
        LET children == Sorted(Children(p), PathBelow)
            With(found, q) == found \o <<q>> \o (IF tree[q].dir THEN under[q] ELSE <<>>)
        IN  FoldLeft(With, <<>>, children)
  IN  under

\* Where a name leads: links above its last component are followed.
Place(tree, name) ==
  FoldLeft(LAMBDA at, part : Append(IF at \in DOMAIN tree THEN tree[at].to ELSE at, part), <<>>, name)

\* What is found: its name, below the root as it was given, and its place.
\* A root that the image does not have is skipped.
Entries(tree, roots) ==
  LET under == Listed(tree)
      Of(found, name) ==
        LET root == CHOOSE r \in roots \cup {<<>>} : Name(r) = name
            top == Place(tree, root)
            places == IF root = <<>> THEN under[<<>>]
                      ELSE IF top \notin DOMAIN tree THEN <<>>
                      ELSE <<top>> \o (IF tree[top].dir THEN under[top] ELSE <<>>)
            Found(place) == [path |-> root \o SubSeq(place, Len(top) + 1, Len(place)), place |-> place]
        IN  found \o [k \in DOMAIN places |-> Found(places[k])]
  IN  FoldLeft(Of, <<>>, Scope(roots))

\* Inodes with a second name in this manifest, in the order it reaches them.
Tokens(tree, found) ==
  LET Inode(k) == tree[found[k].place]
      Names(i) == {k \in DOMAIN found : Inode(k).ino = i /\ Inode(k).links > 1 /\ ~Inode(k).dir}
      shared == {i \in {Inode(k).ino : k \in DOMAIN found} : Cardinality(Names(i)) > 1}
  IN  [i \in shared |-> Cardinality({j \in shared : Min(Names(j)) <= Min(Names(i))})]

\* What is found, with the tokens of the inodes that have one.
Objects(tree, found, tokens) ==
  LET Token(i) == IF i \in DOMAIN tokens THEN tokens[i] ELSE 0
  IN  [k \in DOMAIN found |-> [path |-> found[k].path, token |-> Token(tree[found[k].place].ino)]]
Recorded(tree, found) == Objects(tree, found, Tokens(tree, found))
Records(part) == Recorded(part.tree, Entries(part.tree, part.roots))

(***************************************************************************)
(* merge: the parts of a disk, the last that lists a name taken            *)
(***************************************************************************)

Highest(records) == Max({0} \cup {records[k].token : k \in DOMAIN records})

Merge(listings) ==
  LET Offset(i) == MapThenSumSet(LAMBDA j : Highest(listings[j]), 1..i - 1)
      Carried(r, i) == IF r.token = 0 THEN 0 ELSE r.token + Offset(i)
      Into(objects, i) ==
        [p \in {listings[i][k].path : k \in DOMAIN listings[i]} |->
           Carried(listings[i][CHOOSE k \in DOMAIN listings[i] : listings[i][k].path = p], i)] @@ objects
      objects == FoldLeft(Into, << >>, [i \in DOMAIN listings |-> i])
      order == Sorted(DOMAIN objects, PathBelow)
  IN  [k \in DOMAIN order |-> [path |-> order[k], token |-> objects[order[k]]]]

-----------------------------------------------------------------------------
Under(root, path) == IsPrefix(root, path)
\* A root below another goes with that one, even where that one is a link and lists nothing below it.
Reached(part) ==
  LET Outermost == {r \in part.roots : \A other \in part.roots : Under(other, r) => other = r}
      Held(r) == {p \in DOMAIN part.tree : Under(Place(part.tree, r), p)}
  IN  IF part.roots = {} \/ <<>> \in part.roots THEN DOMAIN part.tree
      ELSE UNION {{r \o SubSeq(p, Len(Place(part.tree, r)) + 1, Len(p)) : p \in Held(r)} : r \in Outermost}

\* What a directory holds follows it at once.
ContentsFollow(records) ==
  \A k, m \in DOMAIN records :
    k < m /\ Under(records[k].path, records[m].path) =>
      \A j \in k..m : Under(records[k].path, records[j].path)

(* Each part lists what its roots reach, once, every directory before what *)
(* it holds and nothing between them; so does the whole.  In the whole a   *)
(* name stands for the last part that lists it, and two names are said to  *)
(* be one inode exactly when they stand for the same part, where they are, *)
(* and hardlinks made them: not a directory that a root behind a link      *)
(* reaches a second time.                                                  *)
ListsReached(records, reached) ==
  /\ Len(records) = Cardinality(reached)
  /\ {records[k].path : k \in DOMAIN records} = reached
  /\ ContentsFollow(records)
StandsFor(parts, p) == Max({i \in DOMAIN parts : p \in Reached(parts[i])})
SameInode(parts, p, q) ==
  \E i \in {StandsFor(parts, p)} :
    /\ i = StandsFor(parts, q)
    /\ LET Inode(name) == parts[i].tree[Place(parts[i].tree, name)]
       IN  Inode(p).ino = Inode(q).ino /\ ~Inode(p).dir /\ Inode(p).links > 1
SoundWith(parts, listings, whole) ==
  /\ \A i \in DOMAIN parts : ListsReached(listings[i], Reached(parts[i]))
  /\ ListsReached(whole, UNION {Reached(parts[i]) : i \in DOMAIN parts})
  /\ \A k, m \in DOMAIN whole :
       k # m => (whole[k].token # 0 /\ whole[k].token = whole[m].token <=>
                   SameInode(parts, whole[k].path, whole[m].path))
Whole(parts, listings) == SoundWith(parts, listings, Merge(listings))
ManifestSoundFor(parts) == Whole(parts, [i \in DOMAIN parts |-> Records(parts[i])])
=============================================================================
