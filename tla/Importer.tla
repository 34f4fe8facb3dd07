----------------------------- MODULE Importer -----------------------------
(***************************************************************************)
(* One imported package in the packages repository (tools/importer.py):    *)
(* its commits on the upstream-rpm branch, which mirrors the               *)
(* distribution's, and its commits on main, where the verbs and the people *)
(* who maintain it work.                                                   *)
(*                                                                         *)
(* A package directory is what upstream put there, the Release: of its     *)
(* spec, the local modification it carries and whether it holds conflict   *)
(* markers.  A release is the sequence of its numbers without the dist     *)
(* tag: <<6, 1>> is 6.1.  The metadata keep the release and the date of    *)
(* the upstream commit they came with, which no two commits share.         *)
(***************************************************************************)
EXTENDS Integers, FiniteSets, Sequences

CONSTANTS
  Mirrored,   \* commits on upstream-rpm at most
  Length      \* commits on main at most

ImporterAssumption == Mirrored \in Nat /\ Length \in Nat

VARIABLES
  autorelease,  \* whether the spec uses %autorelease
  mirror,       \* upstream-rpm: [dir, release]
  main,         \* main: [upstream, rebuild, dir, json]
  outcome       \* how the last verb ended

importerVars == <<autorelease, mirror, main, outcome>>

NoUpstream == 0     \* a commit without an X-Upstream-Commit trailer
NoChange   == 0     \* a directory without a local modification

Pristine(content, release) ==
  [content |-> content, release |-> release, ours |-> NoChange, marked |-> FALSE]

Last(s)  == s[Len(s)]
Tip      == Last(main)
Greatest(S) == CHOOSE n \in S : \A k \in S : k <= n

ImporterInit ==
  /\ autorelease \in BOOLEAN
  /\ mirror = << [dir |-> Pristine(1, <<1>>), release |-> <<1>>] >>
  /\ main = << >> /\ outcome = "none"

----------------------------------------------------------------------------
(* The history of the package.                                             *)

\* What git log says of a path: the paths commit i of main changed.
Changes(i, part) ==
  IF i = 1 THEN TRUE
  ELSE IF part = "dir" THEN main[i].dir # main[i - 1].dir ELSE main[i].json # main[i - 1].json

Touches(i) == Changes(i, "dir") \/ Changes(i, "json")

\* import_commit() and upstream_anchor()
ImportCommit(head) ==
  Greatest({i \in 1 .. head : main[i].upstream # NoUpstream /\ Touches(i)})

Anchor == main[ImportCommit(Len(main))].upstream

\* A faulty comparison that looks at the package's sources only.
ResetsToImportMutant(i) ==
  LET base == ImportCommit(i)
  IN base # i /\ main[i].dir = main[base].dir

\* resets_to_import()
ResetsToImport(i) ==
  LET base == ImportCommit(i)
  IN base # i /\ main[i].dir = main[base].dir /\ main[i].json = main[base].json

\* local_bump()
LocalBump(head) ==
  LET anchor == ImportCommit(head)
      resets == {anchor} \cup {i \in anchor + 1 .. head : Touches(i) /\ ResetsToImport(i)}
  IN Cardinality({i \in Greatest(resets) + 1 .. head : Changes(i, "dir") \/ main[i].rebuild})

\* bumped_release()
Bumped(release, bump) ==
  IF bump = 0 THEN Append(release, 1) ELSE [release EXCEPT ![Len(release)] = bump + 1]

\* The metadata replay() writes for an upstream commit: predict_dist() and
\* project_build_fields() of what the mirror has, whatever main had before.
Predicted(u) == [release |-> mirror[u].release, date |-> u]

Commit(c) == main' = Append(main, c)

----------------------------------------------------------------------------
(* The mirror.  update_upstreams() takes what upstream has up to its       *)
(* newest published build; of the commits on the way some were never       *)
(* built, and one of those that also changes nothing is left out.          *)

Import(before, number, changed, bumped, built) ==
  LET dir == Pristine(before.dir.content + (IF changed THEN 1 ELSE 0),
                      IF bumped THEN <<before.dir.release[1] + 1>> ELSE before.dir.release)
  IN [dir |-> dir,
      release |-> CASE ~built -> before.release
                    [] built /\ autorelease -> <<number>>
                    [] OTHER -> dir.release]

UpdateUpstreams ==
  /\ \E unbuilt \in 0 .. 1, changed, bumped, minor \in BOOLEAN :
       /\ Len(mirror) + unbuilt < Mirrored
       /\ bumped = ~autorelease             \* no two builds share a release
       /\ minor => unbuilt = 1 /\ ~autorelease
       /\ LET first == Import(Last(mirror), Len(mirror) + 1, TRUE, minor, FALSE)
              last  == IF unbuilt = 1 THEN first ELSE Last(mirror)
          IN mirror' = mirror \o (IF unbuilt = 1 THEN <<first>> ELSE << >>)
                         \o <<Import(last, Len(mirror) + unbuilt + 1, changed, bumped, TRUE)>>
  /\ outcome' = "none"
  /\ UNCHANGED <<autorelease, main>>

----------------------------------------------------------------------------
(* replay(): the mirror's commits one by one onto main.                    *)

\* A three-way merge of one line.
Line(base, theirs, ours) ==
  CASE ours = base   -> {theirs}
    [] theirs = base -> {ours}
    [] theirs = ours -> {ours}
    [] OTHER         -> {}

\* git cherry-pick -n: upstream's change between two mirrored directories
\* on top of ours.  Where both changed the package they may have met.
Merges(base, theirs, ours) ==
  LET clean == {[content |-> theirs.content, release |-> r, ours |-> ours.ours, marked |-> ours.marked] :
                  r \in Line(base.release, theirs.release, ours.release)}
      meets == \/ clean = {}
               \/ ours.ours # NoChange /\ theirs.content # base.content
  IN clean \cup (IF meets
                 THEN {[content |-> theirs.content, release |-> ours.release,
                        ours |-> ours.ours, marked |-> TRUE]}
                 ELSE {})

\* Every history replay() may make of the mirror's commits after u.
Replays(commits, first, takeUpstream) ==
  LET Dirs(u, ours) ==
        IF takeUpstream /\ u = first THEN {mirror[u].dir}
        ELSE IF u = 1 THEN {mirror[u].dir}
        ELSE Merges(mirror[u - 1].dir, mirror[u].dir, ours)
      Made(u, dir) == [upstream |-> u, rebuild |-> FALSE, dir |-> dir, json |-> Predicted(u)]
      chains[u \in first - 1 .. Len(mirror)] ==
        IF u < first THEN {commits}
        ELSE UNION {{Append(h, Made(u, d)) :
                       d \in Dirs(u, IF h = << >> THEN mirror[1].dir ELSE Last(h).dir)} :
                    h \in chains[u - 1]}
  IN chains[Len(mirror)]

Fits == Len(main) + Len(mirror) - Anchor <= Length

\* import_()
ImportPackage ==
  /\ main = << >>
  /\ main' \in Replays(<< >>, 1, FALSE)
  /\ outcome' = "none"
  /\ UNCHANGED <<autorelease, mirror>>

\* is_modified(): anything but the Release: line differs.
IsModified(ours, theirs) ==
  ours # theirs /\ ours # [theirs EXCEPT !.release = ours.release]

\* update() as it was before it knew a bump from a modification.
UpdateMutant ==
  /\ main # << >> /\ Anchor < Len(mirror) /\ Fits
  /\ main' \in Replays(main, Anchor + 1, Tip.dir # mirror[Anchor].dir)
  /\ outcome' = "updated"
  /\ UNCHANGED <<autorelease, mirror>>

\* update(): a delta that is a Release: bump only gives way to upstream's.
Update ==
  /\ main # << >> /\ Anchor < Len(mirror) /\ Fits
  /\ LET base == mirror[Anchor].dir
         releaseOnly == Tip.dir # base /\ ~IsModified(Tip.dir, base)
     IN main' \in Replays(main, Anchor + 1, releaseOnly)
  /\ outcome' = "updated"
  /\ UNCHANGED <<autorelease, mirror>>

\* sync() when upstream has moved ...
SyncForward ==
  /\ main # << >> /\ Anchor < Len(mirror) /\ Fits
  /\ main' \in Replays(main, Anchor + 1, TRUE)
  /\ outcome' = "synced"
  /\ UNCHANGED <<autorelease, mirror>>

\* ... and when it has not: back to the commit that imported the package.
SyncBack ==
  /\ main # << >> /\ Anchor = Len(mirror)
  /\ LET base == main[ImportCommit(Len(main))]
     IN IF Tip.dir = base.dir /\ Tip.json = base.json
        THEN /\ outcome' = "already in sync"
             /\ UNCHANGED main
        ELSE /\ Len(main) < Length
             /\ Commit([upstream |-> NoUpstream, rebuild |-> FALSE, dir |-> base.dir, json |-> base.json])
             /\ outcome' = "synced"
  /\ UNCHANGED <<autorelease, mirror>>

----------------------------------------------------------------------------
(* Local commits.                                                          *)

\* rebuild()
Rebuild ==
  /\ main # << >> /\ ~Tip.dir.marked /\ Len(main) < Length
  /\ LET prev == LocalBump(Len(main))
         json == [Tip.json EXCEPT !.release = Bumped(@, prev)]
     IN Commit([upstream |-> NoUpstream, rebuild |-> autorelease, json |-> json,
                dir |-> IF autorelease THEN Tip.dir
                        ELSE [Tip.dir EXCEPT !.release = Bumped(@, prev)]])
  /\ outcome' = "none"
  /\ UNCHANGED <<autorelease, mirror>>

\* A person changes the package the way docs/user/importer.md asks for: the
\* Release: one further and the metadata recomputed from what was built
\* (rpm_metadata()).  A modification is named by the commit that made it.
Modify ==
  /\ main # << >> /\ ~Tip.dir.marked /\ Len(main) < Length
  /\ \E ours \in {NoChange, Len(main) + 1} :
       /\ ours # Tip.dir.ours
       /\ LET prev == LocalBump(Len(main))
              base == main[ImportCommit(Len(main))].json.release
              dir  == [Tip.dir EXCEPT !.ours = ours,
                                       !.release = IF autorelease THEN @ ELSE Bumped(@, prev)]
          IN Commit([upstream |-> NoUpstream, rebuild |-> FALSE, dir |-> dir,
                     json |-> [Tip.json EXCEPT !.release =
                                 IF autorelease THEN Append(base, prev + 1) ELSE dir.release]])
  /\ outcome' = "none"
  /\ UNCHANGED <<autorelease, mirror>>

ImporterNext ==
  \/ UpdateUpstreams \/ ImportPackage \/ Update \/ SyncForward \/ SyncBack
  \/ Rebuild \/ Modify

ImporterSpec == ImporterInit /\ [][ImporterNext]_importerVars

----------------------------------------------------------------------------
(* check_commit(), rule by rule; a package is never native here.           *)

ReleaseBumpOk(i) ==
  main[i].dir.release = Bumped(main[i - 1].dir.release, LocalBump(i - 1))

LocalCommitOk(i) ==
  LET reset    == ResetsToImport(i)
      jsonOnly == ~Changes(i, "dir")
      base     == main[ImportCommit(i)].json.release
      bump     == LocalBump(i)
  IN /\ Changes(i, "json")
     /\ Changes(i, "dir") /\ ~reset /\ ~autorelease => ReleaseBumpOk(i)
     /\ jsonOnly /\ ~reset => autorelease /\ main[i].rebuild
     /\ autorelease => main[i].json.release = (IF bump = 0 THEN base ELSE Append(base, bump))

ImportOk(i) ==
  LET was == main[i - 1].json.release
      now == main[i].json.release
  IN autorelease /\ i > 1 /\ Len(was) = 1 /\ Len(now) = 1 => now = was \/ now[1] > was[1]

RebuildOk(i) == main[i].rebuild => autorelease /\ ~Changes(i, "dir") /\ Changes(i, "json")

CommitOk(i) ==
  /\ IF main[i].upstream # NoUpstream THEN ImportOk(i) ELSE LocalCommitOk(i)
  /\ RebuildOk(i)

----------------------------------------------------------------------------
ImporterTypeOK ==
  /\ autorelease \in BOOLEAN
  /\ \A i \in DOMAIN mirror : mirror[i].dir = Pristine(mirror[i].dir.content, mirror[i].dir.release)
  /\ \A i \in DOMAIN main : main[i].upstream \in 0 .. Len(mirror) /\ main[i].json.date \in 1 .. Len(mirror)
  /\ outcome \in {"none", "updated", "synced", "already in sync"}

(* Whatever the verbs and the documented way of changing a package make of *)
(* its history, `check` accepts every commit of it: a release counts the   *)
(* local commits since the import or since a commit that went back to it,  *)
(* and the verbs and the check agree on which those are.                   *)
VerbsPassCheck == \A i \in DOMAIN main : CommitOk(i)

(* update() never drops a local modification on its own, and says so when  *)
(* it could not place it: afterwards the package still carries it, or      *)
(* holds conflict markers.                                                 *)
UpdateKeepsOurs ==
  [][outcome' = "updated" /\ main # << >> => Last(main').dir.marked \/ Last(main').dir.ours = Tip.dir.ours]_importerVars

(* sync()'s docstring: "Afterwards `diff` is empty and `list` shows the    *)
(* package clean."  The directory is the mirror's at the anchor.           *)
SyncLeavesUpstream ==
  outcome \in {"synced", "already in sync"} => Tip.dir = mirror[Anchor].dir
=============================================================================
