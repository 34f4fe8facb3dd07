------------------------------ MODULE Overlay ------------------------------
(***************************************************************************)
(* Filesystem layers between two forms (rootfs/rootfs.py).  A build step   *)
(* writes into an overlayfs upper directory, whose deletions are whiteout  *)
(* nodes and opaque directories; Buck keeps regular files only, so         *)
(* capture() rewrites both, and names Buck cannot store, as marker files.  *)
(* The next step mounts the stored deltas again with sidecar layers that   *)
(* bring the native form back.                                             *)
(*                                                                         *)
(* A path is a sequence of names, a name a sequence of the pieces of text  *)
(* the code looks at.  A layer is a function from its paths to nodes; its  *)
(* root is not among them.                                                 *)
(***************************************************************************)
EXTENDS Naturals, SequencesExt

CONSTANTS
  Trees,      \* the sets of paths a build may use, each closed under parents
  MaxLayers

VARIABLES
  tree,       \* the paths this image uses
  native,     \* history: the upper directories as overlayfs left them, bottom first
  stored      \* the deltas capture() made of them, bottom first

overlayVars == <<tree, native, stored>>

Dir == [kind |-> "dir", data |-> 0, opaque |-> FALSE]
OpaqueDir == [Dir EXCEPT !.opaque = TRUE]
Whiteout == [kind |-> "whiteout", data |-> 0, opaque |-> FALSE]
File(d) == [kind |-> "file", data |-> d, opaque |-> FALSE]
Marker == File(0)

Parent(p) == Front(p)
Name(p) == Last(p)
Ancestors(p) == {SubSeq(p, 1, n) : n \in 1..Len(p)}   \* p itself among them

\* mkdir(parents=True): `layer` with the directories that lead to what it has.
WithParents(layer) ==
  LET dirs == UNION {Ancestors(Parent(p)) : p \in DOMAIN layer}
  IN  [p \in dirs \cup DOMAIN layer |-> IF p \in DOMAIN layer THEN layer[p] ELSE Dir]

----------------------------------------------------------------------------
(* Names.                                                                  *)

Esc == ".esc."
Wh  == ".wh."
OpaqueName == <<Wh, Wh, "opq">>

\* str.replace() of the two pieces <<"%", code>>; occurrences cannot overlap.
Percent(name, code, char) ==
  FlattenSeq([i \in DOMAIN name |->
    IF i > 1 /\ name[i] = code /\ name[i - 1] = "%" THEN <<>>
    ELSE IF i < Len(name) /\ name[i] = "%" /\ name[i + 1] = code THEN <<char>>
    ELSE <<name[i]>>])

Escape(name) ==
  IF ~Contains(name, "\\") /\ Head(name) # Esc THEN name
  ELSE <<Esc>> \o FlattenSeq([i \in DOMAIN name |->
         CASE name[i] = "%"  -> <<"%", "25">>
           [] name[i] = "\\" -> <<"%", "5C">>
           [] OTHER          -> <<name[i]>>])

EscapedName(name) == Head(name) = Esc

Unescape(name) == Percent(Percent(Tail(name), "5C", "\\"), "25", "%")

\* What a stored name means, and the name it is about.
Classify(name) ==
  LET true == IF EscapedName(name) THEN Unescape(name) ELSE name
  IN  CASE true = OpaqueName -> [kind |-> "opaque", name |-> <<>>]
        [] true # OpaqueName /\ Head(true) = Wh -> [kind |-> "whiteout", name |-> Tail(true)]
        [] OTHER -> [kind |-> "normal", name |-> true]

Escaped(p) == [i \in DOMAIN p |-> Escape(p[i])]

----------------------------------------------------------------------------
(* overlayfs: what a stack of native layers, top first, shows.             *)

\* Whether `layer` hides what lies below it at p.
Hides(layer, p) ==
  \E q \in Ancestors(p) \cap DOMAIN layer : layer[q].kind # "dir" \/ layer[q].opaque

View(layers) ==
  LET Top(p) == {i \in DOMAIN layers : /\ p \in DOMAIN layers[i]
                                       /\ \A j \in 1..(i - 1) : ~Hides(layers[j], p)}
      At(p)  == layers[CHOOSE i \in Top(p) : \A j \in Top(p) : i <= j][p]
      shown  == {p \in UNION {DOMAIN layers[i] : i \in DOMAIN layers} :
                   Top(p) # {} /\ At(p).kind # "whiteout"}
  IN  [p \in shown |-> [kind |-> At(p).kind, data |-> At(p).data]]

----------------------------------------------------------------------------
(* capture().                                                              *)

\* A faulty _in_lower that looks for the true names.
InLowerMutant(lower, p) == p \in DOMAIN lower

\* _in_lower: an entry has its true path's escaped form in a stored layer.
InLower(lower, p) == Escaped(p) \in DOMAIN lower

\* The marker files of an upper directory, and its entries under stored names.
\* `lowers` is <<>> both for no lower layers and for a bind: nothing is below.
Capture(upper, lowers, bind) ==
  LET entries   == {p \in DOMAIN upper : upper[p].kind # "whiteout"}
      whiteouts == DOMAIN upper \ entries
      kept      == {p \in entries : /\ upper[p].opaque
                                    /\ \/ bind
                                       \/ \E i \in DOMAIN lowers : InLower(lowers[i], p)}
      MarkerOf(p) == Append(Escaped(Parent(p)), Escape(<<Wh>> \o Name(p)))
      markers   == {MarkerOf(p) : p \in whiteouts}
                     \cup {Append(Escaped(p), OpaqueName) : p \in kept}
      At(s)     == upper[CHOOSE p \in entries : Escaped(p) = s]
  IN  [s \in markers \cup {Escaped(p) : p \in entries} |->
         IF s \in markers THEN Marker ELSE [At(s) EXCEPT !.opaque = FALSE]]

\* deletions()
Deletions(delta) == {s \in DOMAIN delta : Classify(Name(s)).kind # "normal"}

----------------------------------------------------------------------------
(* _markers() and _thaw(): the sidecar layers of one delta.                *)

InsideEscaped(s) == \E i \in DOMAIN Parent(s) : EscapedName(s[i])

\* The true path of s, whose first escaped name is the one at position n.
Thawed(s, n) == [i \in DOMAIN s |-> IF i < n THEN s[i] ELSE Classify(s[i]).name]

\* What thawing makes of the escaped entry e and everything below it.
Thaw(delta, e) ==
  LET below == {s \in DOMAIN delta : IsPrefix(e, s)}
      Kind(s) == IF s = e THEN "normal" ELSE Classify(Name(s)).kind
      Native(s) == Thawed(s, Len(e))
      opaque == {Native(Parent(s)) : s \in {u \in below : Kind(u) = "opaque"}}
      gone   == {Native(s) : s \in {u \in below : Kind(u) = "whiteout"}}
      plain  == {s \in below : Kind(s) = "normal"}
  IN  [p \in gone \cup {Native(s) : s \in plain} |->
         IF p \in gone THEN Whiteout
         ELSE [delta[CHOOSE s \in plain : Native(s) = p] EXCEPT !.opaque = p \in opaque]]

\* Layers over disjoint paths, as one.
Joined(layers) ==
  [p \in UNION {DOMAIN l : l \in layers} |-> (CHOOSE l \in layers : p \in DOMAIN l)[p]]

WhiteoutsAt(paths) == [p \in paths |-> Whiteout]

\* Above a delta, its markers and its deletion targets are whiteouts ...
Hide(special, gone) == special \cup gone

Above(delta) ==
  LET reached == {s \in DOMAIN delta : ~InsideEscaped(s)}
      Kind(s) == Classify(Name(s)).kind
      escaped == {s \in reached : Kind(s) = "normal" /\ EscapedName(Name(s))}
      special == {s \in reached : Kind(s) # "normal"} \cup escaped
      gone    == {Append(Parent(s), Classify(Name(s)).name) :
                    s \in {u \in reached : Kind(u) = "whiteout"}}
  IN  WithParents(Joined({WhiteoutsAt(Hide(special, gone))} \cup {Thaw(delta, e) : e \in escaped}))

\* ... and below it lie the directories it makes opaque.
Below(delta) ==
  LET opaque == {Parent(s) : s \in {u \in DOMAIN delta :
                   ~InsideEscaped(u) /\ Classify(Name(u)).kind = "opaque"}}
  IN  WithParents([p \in opaque |-> OpaqueDir])

\* _reconstruct(): the lowerdir list for stored deltas given bottom first.
Reconstruct(deltas) ==
  FlattenSeq([i \in DOMAIN deltas |->
    LET d == Reverse(deltas)[i] IN <<Above(d), d, Below(d)>>])

----------------------------------------------------------------------------
(* Builds.                                                                 *)

Init ==
  /\ tree \in Trees
  /\ native = <<>>
  /\ stored = <<>>

\* What one step over `shown` can leave in an upper directory: overlayfs makes a
\* whiteout only of something that is there.
Uppers(shown, d) ==
  {u \in UNION {[D -> {Dir, OpaqueDir, Whiteout, File(d)}] : D \in SUBSET tree} :
     /\ \A p \in DOMAIN u : \A q \in Ancestors(p) \ {p} : q \in DOMAIN u /\ u[q].kind = "dir"
     /\ \A p \in DOMAIN u : u[p].kind = "whiteout" => p \in shown}

\* An image's first layer is written through a bind: nothing is below it and
\* overlayfs marks nothing.
FirstLayer ==
  /\ stored = <<>>
  /\ \E u \in Uppers({}, 1) :
       /\ \A p \in DOMAIN u : ~u[p].opaque
       /\ native' = <<u>>
       /\ stored' = <<Capture(u, <<>>, TRUE)>>
  /\ UNCHANGED tree

\* A later one is the upper directory over everything stored before.
NextLayer ==
  /\ Len(stored) \in 1..(MaxLayers - 1)
  /\ \E u \in Uppers(DOMAIN View(Reconstruct(stored)), Len(stored) + 1) :
       /\ native' = Append(native, u)
       /\ stored' = Append(stored, Capture(u, stored, FALSE))
  /\ UNCHANGED tree

Next == FirstLayer \/ NextLayer

Spec == Init /\ [][Next]_overlayVars

----------------------------------------------------------------------------

\* The deltas stored for a chain of layers, mounted again, show the files the
\* build steps left, and nothing else: deletions, opaque directories, and names
\* that needed escaping included, through any number of layers.  Deltas without
\* a deletion, and without such a name, show them undecoded too, which is how
\* the sandbox stacks the layers of a box.
CapturedTreeReturns ==
  /\ View(Reconstruct(stored)) = View(Reverse(native))
  /\ (\A i \in DOMAIN stored :
        Deletions(stored[i]) = {} /\ \A s \in DOMAIN stored[i] : ~EscapedName(Name(s)))
     => View(Reverse(stored)) = View(Reverse(native))
=============================================================================
