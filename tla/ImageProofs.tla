----------------------------- MODULE ImageProofs -----------------------------
(***************************************************************************)
(* What goes into an initrd (KernelModules.tla), for any images, patterns  *)
(* and dependencies; where things lie in an archive (Cpio.tla), for any    *)
(* entries; the order of versions and what boots (Versions.tla), for any   *)
(* versions and images.                                                    *)
(***************************************************************************)
EXTENDS KernelModules, Cpio, Versions, SequenceTheorems, FiniteSetTheorems, WellFoundedInduction, TLAPS

-----------------------------------------------------------------------------
(* Of naturals that have a property, one is the first.                     *)
LEMMA LeastNatural ==
  ASSUME NEW X, X \subseteq Nat, X # {}
  PROVE  \E i \in X : \A k \in X : i <= k
<1>1. PICK i \in X : \A k \in X : ~(<<k, i>> \in OpToRel(<, Nat))
  BY WFMin, NatLessThanWellFounded, Zenon
<1>2. ASSUME NEW k \in X PROVE i <= k
  <2>1. k \in Nat /\ i \in Nat
    OBVIOUS
  <2>2. ~(k < i)
    BY <1>1, <2>1, Zenon DEF OpToRel
  <2> QED BY <2>1, <2>2
<1> QED BY <1>2

LEMMA FirstIs ==
  ASSUME NEW places, places \subseteq Nat, places # {}
  PROVE  First(places) \in places /\ \A k \in places : First(places) <= k
BY LeastNatural DEF First

\* A function of a natural may be given by its first value and by each from the
\* one before.
IsRecursive(V, base, Step, n, f) ==
  f \in [0..n -> V] /\ f[0] = base /\ \A i \in 1..n : f[i] = Step[i][f[i - 1]]

LEMMA Recursion ==
  ASSUME NEW V, NEW base \in V, NEW Step \in [Nat -> [V -> V]], NEW n \in Nat
  PROVE  \E f : IsRecursive(V, base, Step, n, f)
<1> DEFINE Part(k) == \E f \in [0..k -> V] : f[0] = base /\ \A i \in 1..k : f[i] = Step[i][f[i - 1]]
           X == {k \in Nat : ~Part(k)}
<1>1. ASSUME X # {} PROVE FALSE
  <2>1. PICK k \in X : \A j \in X : k <= j
    <3>1. X \subseteq Nat
      OBVIOUS
    <3> QED BY <1>1, <3>1, LeastNatural
  <2>2. CASE k = 0
    <3> DEFINE f == [i \in 0..0 |-> base]
    <3>1. f \in [0..0 -> V] /\ f[0] = base /\ 1..0 = {}
      OBVIOUS
    <3>2. Part(0)
      <4> HIDE DEF f
      <4> QED BY <3>1
    <3> QED BY <2>1, <2>2, <3>2
  <2>3. CASE k # 0
    <3>1. k - 1 \in Nat /\ k \in Nat /\ Part(k - 1)
      <4>1. k \in Nat /\ k - 1 \in Nat
        BY <2>3
      <4>2. k - 1 \notin X
        <5> HIDE DEF X
        <5> QED BY <2>1, <4>1
      <4> HIDE DEF Part
      <4> QED BY <4>1, <4>2
    <3>2. PICK f \in [0..k - 1 -> V] : f[0] = base /\ \A i \in 1..k - 1 : f[i] = Step[i][f[i - 1]]
      BY <3>1
    <3> DEFINE g == [i \in 0..k |-> IF i = k THEN Step[k][f[k - 1]] ELSE f[i]]
    <3>3. g \in [0..k -> V]
      <4>1. f[k - 1] \in V /\ Step[k] \in [V -> V]
        BY <3>1, <3>2
      <4> QED BY <3>1, <3>2, <4>1
    <3>4. g[0] = base
      BY <2>3, <3>1, <3>2
    <3>5. ASSUME NEW i \in 1..k PROVE g[i] = Step[i][g[i - 1]]
      <4>1. g[i - 1] = f[i - 1]
        BY <3>1, <3>5
      <4>2. CASE i = k
        BY <3>1, <4>1, <4>2
      <4>3. CASE i # k
        <5>1. i \in 1..k - 1
          BY <3>1, <4>3
        <5> QED BY <3>2, <4>1, <4>3, <5>1
      <4> QED BY <4>2, <4>3
    <3>6. Part(k)
      <4> HIDE DEF g
      <4> QED BY <3>3, <3>4, <3>5
    <3> QED BY <2>1, <3>6
  <2> QED BY <2>2, <2>3
<1> QED BY <1>1 DEF IsRecursive

-----------------------------------------------------------------------------
(* Patterns                                                                *)

\* The last pattern to match decides, as one after the other they override.
LEMMA KeepsIsLastSays ==
  ASSUME NEW patterns \in Seq([matches : SUBSET Module, exclude : BOOLEAN]), NEW m
  PROVE  Keeps(patterns, m) <=> LastSays(patterns, m)
<1> DEFINE N == Len(patterns)
           Round(i, b) == IF m \in patterns[i].matches THEN ~patterns[i].exclude ELSE b
           Def(f) == f = [i \in 0..N |-> IF i = 0 THEN FALSE ELSE Round(i, f[i - 1])]
<1>1. \E f : Def(f)
  <2> DEFINE Step == [i \in Nat |-> [b \in BOOLEAN |-> i \in 1..N /\ Round(i, b)]]
  <2>1. Step \in [Nat -> [BOOLEAN -> BOOLEAN]]
    <3>1. \A i \in Nat, b \in BOOLEAN : (i \in 1..N /\ Round(i, b)) \in BOOLEAN
      OBVIOUS
    <3> HIDE DEF Round, N
    <3>2. \A i \in Nat : [b \in BOOLEAN |-> i \in 1..N /\ Round(i, b)] \in [BOOLEAN -> BOOLEAN]
      BY <3>1, Zenon
    <3> DEFINE G(i) == [b \in BOOLEAN |-> i \in 1..N /\ Round(i, b)]
    <3>3. \A i \in Nat : G(i) \in [BOOLEAN -> BOOLEAN]
      BY <3>2
    <3>4. Step = [i \in Nat |-> G(i)]
      BY Zenon
    <3> HIDE DEF G, Step
    <3> QED BY <3>3, <3>4
  <2>2. N \in Nat
    OBVIOUS
  <2> DEFINE none == FALSE
  <2>3. \E f : IsRecursive(BOOLEAN, none, Step, N, f)
    <3>1. none \in BOOLEAN
      OBVIOUS
    <3> HIDE DEF Step, N, none
    <3> QED BY <2>1, <2>2, <3>1, Recursion
  <2>4. PICK f \in [0..N -> BOOLEAN] : f[0] = none /\ \A i \in 1..N : f[i] = Step[i][f[i - 1]]
    <3> HIDE DEF Step, N, none
    <3> QED BY <2>3 DEF IsRecursive
  <2>5. ASSUME NEW i \in 0..N PROVE f[i] = (IF i = 0 THEN FALSE ELSE Round(i, f[i - 1]))
    <3>1. CASE i = 0
      BY <2>4, <3>1
    <3>2. CASE i # 0
      <4>1. i \in 1..N /\ i \in Nat /\ i - 1 \in 0..N
        BY <2>2, <3>2
      <4>2. f[i - 1] \in BOOLEAN
        BY <4>1
      <4>3. patterns[i].exclude \in BOOLEAN
        BY <4>1
      <4>4. f[i] = Step[i][f[i - 1]]
        BY <2>4, <4>1
      <4>5. f[i] = Round(i, f[i - 1])
        BY <4>1, <4>2, <4>3, <4>4
      <4> QED BY <3>2, <4>5
    <3> QED BY <3>1, <3>2
  <2>6. Def(f)
    <3> HIDE DEF N, Round
    <3> QED BY <2>5
  <2> QED BY <2>6
<1>2. PICK f : Def(f) /\ Keeps(patterns, m) = f[N]
  BY <1>1 DEF Keeps
<1> DEFINE Says(k) == \E i \in 1..k : /\ m \in patterns[i].matches /\ ~patterns[i].exclude
                                      /\ \A j \in i + 1..k : m \notin patterns[j].matches
           X == {k \in 0..N : ~(f[k] <=> Says(k))}
<1>3. N \in Nat
  OBVIOUS
<1>4. ASSUME X # {} PROVE FALSE
  <2>1. PICK k \in X : \A j \in X : k <= j
    <3>1. X \subseteq Nat
      OBVIOUS
    <3> HIDE DEF X
    <3> QED BY <1>4, <3>1, LeastNatural
  <2>2. k \in 0..N /\ ~(f[k] <=> Says(k))
    BY <2>1
  <2>3. k # 0
    BY <1>2, <1>3, <2>2
  <2>4. k - 1 \in 0..N /\ k \in 1..N /\ k - 1 \notin X
    <3> HIDE DEF X
    <3> QED BY <1>3, <2>1, <2>2, <2>3
  <2>5. f[k - 1] <=> Says(k - 1)
    BY <2>4
  <2>6. f[k] = Round(k, f[k - 1])
    BY <1>2, <2>3, <2>4
  <2>7. CASE m \in patterns[k].matches
    <3>1. Says(k) <=> ~patterns[k].exclude
      BY <2>4, <2>7
    <3> QED BY <2>2, <2>6, <2>7, <3>1
  <2>8. CASE m \notin patterns[k].matches
    <3>1. Says(k) <=> Says(k - 1)
      BY <2>4, <2>8
    <3> QED BY <2>2, <2>5, <2>6, <2>8, <3>1
  <2> QED BY <2>7, <2>8
<1>5. f[N] <=> Says(N)
  BY <1>3, <1>4
<1>6. Says(N) <=> LastSays(patterns, m)
  BY DEF LastSays
<1> QED BY <1>2, <1>5, <1>6

-----------------------------------------------------------------------------
(* Links                                                                   *)

Nodes == [kind : {"file", "dir", "link"}, target : Path, absolute : BOOLEAN, up : Nat]
IsNodes(tree) == DOMAIN tree \subseteq Path /\ \A p \in DOMAIN tree : tree[p] \in Nodes

LEMMA TreesAreNodes == ASSUME NEW tree, IsTree(tree) PROVE IsNodes(tree)
BY DEF IsTree, IsNodes, Nodes

LEMMA LinksAre ==
  ASSUME NEW tree, NEW path \in Path, NEW at \in Nat
  PROVE  /\ LinksFrom(tree, path, at) \subseteq Nat
         /\ \A n : n \in LinksFrom(tree, path, at) <=>
                     n \in Nat /\ at < n /\ n <= Len(path) /\ IsLink(tree, SubSeq(path, 1, n))
BY DEF LinksFrom, Path

LEMMA RelativeIsPrefix ==
  ASSUME NEW tree, IsNodes(tree), NEW path \in Path, NEW n \in 1..Len(path), IsLink(tree, SubSeq(path, 1, n))
  PROVE  \E k \in 0..n - 1 : RelativeTo(tree, SubSeq(path, 1, n)) = SubSeq(path, 1, k)
<1> DEFINE link == SubSeq(path, 1, n)
<1>0. 0 \in 0..n - 1 /\ n \in Nat
  BY DEF Path
<1>1. link \in DOMAIN tree /\ link \in Path /\ Len(link) = n /\ \A i \in 1..n : link[i] = path[i]
  BY DEF IsLink, Path
<1>2. tree[link].up \in Nat /\ tree[link].absolute \in BOOLEAN
  BY <1>1 DEF IsNodes, Nodes
<1>3. CASE tree[link].absolute
  <2>1. RelativeTo(tree, link) = <<>> /\ SubSeq(path, 1, 0) = <<>>
    BY <1>3 DEF RelativeTo, Path
  <2> HIDE DEF link
  <2> QED BY <1>0, <2>1 DEF link
<1>4. CASE ~tree[link].absolute
  <2>1. RelativeTo(tree, link) = SubSeq(link, 1, n - 1 - tree[link].up)
    BY <1>1, <1>4 DEF RelativeTo
  <2> DEFINE k == n - 1 - tree[link].up
  <2>2. CASE k >= 1
    <3>1. k \in 1..n - 1 /\ k \in 0..n - 1
      BY <1>2, <2>2
    <3>2. SubSeq(link, 1, k) = SubSeq(path, 1, k)
      BY <1>1, <3>1 DEF Path
    <3> QED BY <2>1, <3>1, <3>2
  <2>3. CASE k < 1
    <3>1. k \in Int
      BY <1>2
    <3>2. SubSeq(link, 1, k) = <<>> /\ SubSeq(path, 1, 0) = <<>>
      BY <1>1, <2>3, <3>1 DEF Path
    <3> HIDE DEF link
    <3> QED BY <1>0, <2>1, <3>2 DEF link
  <2> QED BY <1>2, <2>2, <2>3
<1> QED BY <1>2, <1>3, <1>4

LEMMA ReplacedIs ==
  ASSUME NEW tree, IsNodes(tree), NEW path \in Path, NEW n \in 1..Len(path), IsLink(tree, SubSeq(path, 1, n))
  PROVE  /\ Replaced(tree, path, n) \in Path
         /\ \E k \in 0..n - 1 :
              /\ Len(RelativeTo(tree, SubSeq(path, 1, n))) = k
              /\ k <= Len(Replaced(tree, path, n))
              /\ \A j \in 1..k : SubSeq(Replaced(tree, path, n), 1, j) = SubSeq(path, 1, j)
<1> DEFINE link == SubSeq(path, 1, n)
           target == tree[link].target
           rest == SubSeq(path, n + 1, Len(path))
<1>1. PICK k \in 0..n - 1 : RelativeTo(tree, link) = SubSeq(path, 1, k)
  BY RelativeIsPrefix
<1>2. target \in Path /\ rest \in Path /\ SubSeq(path, 1, k) \in Path /\ Len(SubSeq(path, 1, k)) = k
  <2>1. target \in Path
    BY DEF IsNodes, Nodes, IsLink
  <2>2. rest \in Path /\ SubSeq(path, 1, k) \in Path /\ Len(SubSeq(path, 1, k)) = k
    BY DEF Path
  <2> QED BY <2>1, <2>2
<1> DEFINE first == SubSeq(path, 1, k)
<1>3. Replaced(tree, path, n) = first \o target \o rest
  BY <1>1 DEF Replaced
<1>4. /\ first \o target \o rest \in Path
      /\ Len(first \o target \o rest) = k + Len(target) + Len(rest)
      /\ \A j \in 1..k : (first \o target \o rest)[j] = path[j]
  <2>1. first \o target \in Path /\ Len(first \o target) = k + Len(target) /\ \A j \in 1..k : (first \o target)[j] = first[j]
    <3>1. /\ first \in Seq(STRING) /\ target \in Seq(STRING) /\ Len(first) = k
          /\ Len(target) \in Nat /\ k \in Nat
      BY <1>2 DEF Path
    <3> HIDE DEF first, target
    <3>2. /\ Len(first \o target) = k + Len(target)
          /\ \A i \in 1..k + Len(target) : (first \o target)[i] = IF i <= k THEN first[i] ELSE target[i - k]
      BY <3>1, ConcatProperties
    <3>3. first \o target \in Path
      BY <3>1, ConcatProperties DEF Path
    <3> QED BY <3>1, <3>2, <3>3
  <2>2. \A j \in 1..k : first[j] = path[j]
    BY DEF Path
  <2> HIDE DEF first, target, rest
  <2> DEFINE front == first \o target
  <2>3. front \o rest \in Path /\ Len(front \o rest) = Len(front) + Len(rest)
        /\ \A j \in 1..Len(front) : (front \o rest)[j] = front[j]
    <3>1. front \in Path /\ rest \in Path
      BY <1>2, <2>1
    <3> HIDE DEF front
    <3> QED BY <3>1 DEF Path
  <2>4. Len(target) \in Nat /\ Len(rest) \in Nat
    BY <1>2 DEF Path
  <2> QED BY <2>1, <2>2, <2>3, <2>4
<1> DEFINE whole == first \o target \o rest
<1>5. k <= Len(whole)
  <2>1. Len(target) \in Nat /\ Len(rest) \in Nat /\ k \in Nat
    BY <1>2 DEF Path
  <2> HIDE DEF target, rest, first
  <2> QED BY <1>4, <2>1
<1>6. ASSUME NEW j \in 1..k PROVE SubSeq(whole, 1, j) = SubSeq(path, 1, j)
  <2>1. j <= Len(path) /\ j <= Len(whole) /\ j \in Nat
    <3> HIDE DEF whole
    <3> QED BY <1>5 DEF Path
  <2>2. \A i \in 1..j : whole[i] = path[i]
    <3>1. \A i \in 1..j : i \in 1..k
      OBVIOUS
    <3>2. \A i \in 1..k : whole[i] = path[i]
      BY <1>4
    <3> HIDE DEF whole
    <3> QED BY <3>1, <3>2
  <2>3. whole \in Path
    BY <1>4
  <2> HIDE DEF whole
  <2> QED BY <2>1, <2>2, <2>3 DEF Path
<1> HIDE DEF whole, first, target, rest
<1>7. Replaced(tree, path, n) = whole
  BY <1>3 DEF whole
<1>8. whole \in Path
  BY <1>4 DEF whole
<1>9. Len(RelativeTo(tree, SubSeq(path, 1, n))) = k
  BY <1>1, <1>2 DEF link
<1> QED BY <1>5, <1>6, <1>7, <1>8, <1>9

LEMMA FollowedIsPath ==
  ASSUME NEW tree, IsNodes(tree), NEW path \in Path
  PROVE  Followed(tree, path) \in Path
<1>1. ASSUME LinksFrom(tree, path, 0) # {} PROVE First(LinksFrom(tree, path, 0)) \in 1..Len(path)
                                   /\ IsLink(tree, SubSeq(path, 1, First(LinksFrom(tree, path, 0))))
  <2>1. First(LinksFrom(tree, path, 0)) \in LinksFrom(tree, path, 0)
    BY <1>1, LinksAre, FirstIs
  <2>2. Len(path) \in Nat
    BY DEF Path
  <2> QED BY <2>1, <2>2, LinksAre
<1> QED BY <1>1, ReplacedIs DEF Followed

LEMMA TrailIs ==
  ASSUME LinkDepth \in Nat, NEW tree, IsNodes(tree), NEW path \in Path
  PROVE  /\ Trail(tree, path) \in [0..LinkDepth -> Path]
         /\ Trail(tree, path)[0] = path
         /\ \A n \in 1..LinkDepth : Trail(tree, path)[n] = Followed(tree, Trail(tree, path)[n - 1])
<1> DEFINE Def(f) == f = [n \in 0..LinkDepth |-> IF n = 0 THEN path ELSE Followed(tree, f[n - 1])]
           Step == [n \in Nat |-> [p \in Path |-> Followed(tree, p)]]
<1>1. LinkDepth \in Nat
  OBVIOUS
<1>2. Step \in [Nat -> [Path -> Path]]
  BY FollowedIsPath
<1>3. \E f : IsRecursive(Path, path, Step, LinkDepth, f)
  <2> HIDE DEF Step
  <2> QED BY <1>1, <1>2, Recursion
<1>4. PICK f : IsRecursive(Path, path, Step, LinkDepth, f)
  BY <1>3
<1>5. Def(f)
  <2>1. f \in [0..LinkDepth -> Path] /\ f[0] = path
    BY <1>4 DEF IsRecursive
  <2>2. \A n \in 0..LinkDepth : n # 0 => f[n] = Followed(tree, f[n - 1])
    <3>1. \A n \in 1..LinkDepth : f[n] = Step[n][f[n - 1]]
      BY <1>4 DEF IsRecursive
    <3>2. \A n \in 0..LinkDepth : n # 0 => n \in 1..LinkDepth /\ n \in Nat /\ f[n - 1] \in Path
      BY <1>1, <2>1
    <3> QED BY <3>1, <3>2
  <2> QED BY <2>1, <2>2
<1>6. PICK g : Def(g) /\ Trail(tree, path) = g
  BY <1>5 DEF Trail
<1>7. g[0] = path /\ \A n \in 1..LinkDepth : g[n] = Followed(tree, g[n - 1])
  BY <1>1, <1>6
<1>8. \A n \in 0..LinkDepth : g[n] \in Path
  <2> DEFINE X == {n \in 0..LinkDepth : g[n] \notin Path}
  <2>1. ASSUME X # {} PROVE FALSE
    <3>1. PICK n \in X : \A j \in X : n <= j
      <4>1. X \subseteq Nat
        BY <1>1
      <4> HIDE DEF X
      <4> QED BY <2>1, <4>1, LeastNatural
    <3>2. n # 0 /\ n \in 0..LinkDepth
      BY <1>7
    <3>3. n \in 1..LinkDepth /\ n - 1 \in 0..LinkDepth /\ n - 1 \notin X
      <4> HIDE DEF X
      <4> QED BY <1>1, <3>1, <3>2
    <3>4. g[n - 1] \in Path
      BY <3>3
    <3> QED BY <1>7, <3>3, <3>4, FollowedIsPath
  <2> QED BY <2>1
<1> QED BY <1>6, <1>7, <1>8

\* Where there are no more links a trail stays.
LEMMA TrailSettles ==
  ASSUME LinkDepth \in Nat, NEW tree, IsNodes(tree), NEW path \in Path, NEW k \in 0..LinkDepth,
         LinksFrom(tree, Trail(tree, path)[k], 0) = {}
  PROVE  \A n \in k..LinkDepth : Trail(tree, path)[n] = Trail(tree, path)[k]
<1> DEFINE t == Trail(tree, path)
           X == {n \in k..LinkDepth : t[n] # t[k]}
<1>1. LinkDepth \in Nat /\ \A n \in 1..LinkDepth : t[n] = Followed(tree, t[n - 1])
  BY TrailIs
<1>2. ASSUME X # {} PROVE FALSE
  <2>1. PICK n \in X : \A j \in X : n <= j
    <3>1. X \subseteq Nat
      BY <1>1
    <3> HIDE DEF X
    <3> QED BY <1>2, <3>1, LeastNatural
  <2>2. n \in k + 1..LinkDepth /\ t[n] # t[k]
    <3> HIDE DEF t
    <3> QED BY <1>1
  <2>3. n \in 1..LinkDepth /\ n - 1 \in k..LinkDepth
    BY <1>1, <2>2
  <2>4. t[n - 1] = t[k]
    <3>1. n - 1 \notin X
      <4> HIDE DEF X
      <4> QED BY <1>1, <2>1, <2>2
    <3> QED BY <2>3, <3>1
  <2>5. Followed(tree, t[k]) = t[k]
    BY DEF Followed
  <2> HIDE DEF t
  <2> QED BY <1>1, <2>2, <2>3, <2>4, <2>5
<1> QED BY <1>2

\* The first link of a path.
LinkOn(tree, path) == SubSeq(path, 1, First(LinksFrom(tree, path, 0)))

LEMMA LinkOnIs ==
  ASSUME NEW tree, NEW path \in Path, LinksFrom(tree, path, 0) # {}
  PROVE  /\ First(LinksFrom(tree, path, 0)) \in 1..Len(path)
         /\ IsLink(tree, LinkOn(tree, path))
         /\ \A k \in 1..First(LinksFrom(tree, path, 0)) - 1 : ~IsLink(tree, SubSeq(path, 1, k))
<1> DEFINE n == First(LinksFrom(tree, path, 0))
<1>1. n \in LinksFrom(tree, path, 0) /\ \A k \in LinksFrom(tree, path, 0) : n <= k
  BY LinksAre, FirstIs
<1>2. n \in Nat /\ 0 < n /\ n <= Len(path) /\ IsLink(tree, SubSeq(path, 1, n)) /\ Len(path) \in Nat
  BY <1>1, LinksAre DEF Path
<1>3. ASSUME NEW k \in 1..n - 1, IsLink(tree, SubSeq(path, 1, k)) PROVE FALSE
  <2>1. k \in Nat /\ 0 < k /\ k <= Len(path) /\ k < n
    BY <1>2
  <2>2. k \in LinksFrom(tree, path, 0)
    BY <1>3, <2>1, LinksAre
  <2> HIDE DEF n
  <2> QED BY <1>1, <1>2, <2>1, <2>2
<1> QED BY <1>2, <1>3 DEF LinkOn

\* What of a path has to be carried: its first link, or what it is without one.
Shipped(tree, ships, path) ==
  IF LinksFrom(tree, path, 0) # {} THEN LinkOn(tree, path) \in ships
  ELSE path \in DOMAIN tree => path \in ships

\* What is carried is found below directories.
Within(tree, ships) == [p \in ships \cup Parents(ships) |-> IF p \in ships THEN tree[p] ELSE Directory]

LEMMA WithinIs ==
  ASSUME NEW tree, IsTree(tree), NEW ships, ships \subseteq DOMAIN tree
  PROVE  /\ IsNodes(Within(tree, ships))
         /\ DOMAIN Within(tree, ships) \subseteq DOMAIN tree
         /\ ships \subseteq DOMAIN Within(tree, ships)
         /\ \A p \in ships : Within(tree, ships)[p] = tree[p]
         /\ \A p : IsLink(Within(tree, ships), p) <=> p \in ships /\ IsLink(tree, p)
<1>1. IsNodes(tree)
  BY TreesAreNodes
<1>2. Parents(ships) \subseteq DOMAIN tree
  <2>1. ASSUME NEW q \in Parents(ships) PROVE q \in DOMAIN tree
    <3>1. PICK p \in ships : \E n \in 1..Len(p) - 1 : q = SubSeq(p, 1, n)
      BY DEF Parents
    <3> QED BY <3>1 DEF IsTree
  <2> QED BY <2>1
<1>3. Directory \in Nodes /\ Directory.kind # "link"
  BY DEF Directory, Nodes, Path
<1> HIDE DEF Directory
<1>4. ships \cup Parents(ships) \subseteq DOMAIN tree
  BY <1>2
<1> DEFINE in == Within(tree, ships)
<1>5. /\ DOMAIN in = ships \cup Parents(ships)
      /\ \A p \in ships : in[p] = tree[p]
      /\ \A p \in DOMAIN in : p \notin ships => in[p] = Directory
  BY DEF Within
<1> HIDE DEF in
<1>6. IsNodes(in)
  BY <1>1, <1>3, <1>4, <1>5 DEF IsNodes
<1>7. \A p : IsLink(in, p) <=> p \in ships /\ IsLink(tree, p)
  BY <1>3, <1>4, <1>5 DEF IsLink
<1> QED BY <1>4, <1>5, <1>6, <1>7 DEF in

\* A path that is shipped leads on as it does in the image.
LEMMA FollowsWithin ==
  ASSUME NEW tree, IsTree(tree), NEW ships, ships \subseteq DOMAIN tree, NEW path \in Path,
         Shipped(tree, ships, path)
  PROVE  /\ LinksFrom(Within(tree, ships), path, 0) = {} <=> LinksFrom(tree, path, 0) = {}
         /\ Followed(Within(tree, ships), path) = Followed(tree, path)
<1> DEFINE in == Within(tree, ships)
<1>1. /\ \A p \in ships : in[p] = tree[p]
      /\ \A p : IsLink(in, p) <=> p \in ships /\ IsLink(tree, p)
  BY WithinIs
<1> HIDE DEF in
<1>2. LinksFrom(in, path, 0) \subseteq LinksFrom(tree, path, 0)
  BY <1>1 DEF LinksFrom
<1>3. CASE LinksFrom(tree, path, 0) = {}
  <2>1. Followed(in, path) = path /\ Followed(tree, path) = path
    BY <1>2, <1>3 DEF Followed
  <2> QED BY <1>2, <1>3, <2>1 DEF in
<1>4. CASE LinksFrom(tree, path, 0) # {}
  <2> DEFINE n == First(LinksFrom(tree, path, 0))
  <2>1. LinkOn(tree, path) \in ships /\ LinkOn(tree, path) = SubSeq(path, 1, n)
    BY <1>4 DEF Shipped, LinkOn
  <2>2. n \in LinksFrom(tree, path, 0) /\ \A k \in LinksFrom(tree, path, 0) : n <= k
    BY <1>4, LinksAre, FirstIs
  <2>3. n \in LinksFrom(in, path, 0)
    <3>1. n \in Nat /\ 0 < n /\ n <= Len(path) /\ IsLink(tree, SubSeq(path, 1, n))
      BY <2>2, LinksAre
    <3>2. IsLink(in, SubSeq(path, 1, n))
      BY <1>1, <2>1, <3>1
    <3> QED BY <3>1, <3>2, LinksAre
  <2>4. First(LinksFrom(in, path, 0)) = n
    <3> DEFINE m == First(LinksFrom(in, path, 0))
    <3>1. m \in LinksFrom(in, path, 0) /\ \A k \in LinksFrom(in, path, 0) : m <= k
      BY <2>3, LinksAre, FirstIs
    <3>2. m <= n /\ n <= m /\ m \in Nat /\ n \in Nat
      <4> HIDE DEF m, n
      <4> QED BY <1>2, <2>2, <2>3, <3>1, LinksAre
    <3> QED BY <3>2
  <2>5. in[SubSeq(path, 1, n)] = tree[SubSeq(path, 1, n)]
    BY <1>1, <2>1
  <2> HIDE DEF n
  <2>6. Replaced(in, path, n) = Replaced(tree, path, n)
    BY <2>5 DEF Replaced, RelativeTo
  <2>7. Followed(in, path) = Replaced(in, path, n) /\ Followed(tree, path) = Replaced(tree, path, n)
    BY <1>4, <2>3, <2>4 DEF Followed, n
  <2> QED BY <1>4, <2>3, <2>6, <2>7 DEF in
<1> QED BY <1>3, <1>4

\* What is shipped resolves from there to what it is in the image.
LEMMA ResolvesWithin ==
  ASSUME LinkDepth \in Nat, NEW tree, IsTree(tree), NEW ships, ships \subseteq DOMAIN tree, NEW path \in Path,
         \A n \in 0..LinkDepth : Shipped(tree, ships, Trail(tree, path)[n])
  PROVE  Resolve(Within(tree, ships), path) = Resolve(tree, path)
<1> DEFINE in == Within(tree, ships)
           t == Trail(tree, path)
           u == Trail(in, path)
           X == {n \in 0..LinkDepth : u[n] # t[n]}
<1>1. IsNodes(tree) /\ IsNodes(in) /\ LinkDepth \in Nat
  BY TreesAreNodes, WithinIs
<1>2. t \in [0..LinkDepth -> Path] /\ t[0] = path /\ \A n \in 1..LinkDepth : t[n] = Followed(tree, t[n - 1])
  BY <1>1, TrailIs
<1>3. u \in [0..LinkDepth -> Path] /\ u[0] = path /\ \A n \in 1..LinkDepth : u[n] = Followed(in, u[n - 1])
  <2> HIDE DEF in
  <2> QED BY <1>1, TrailIs
<1>4. \A n \in 0..LinkDepth : Followed(in, t[n]) = Followed(tree, t[n])
  BY <1>2, FollowsWithin
<1>5. ASSUME X # {} PROVE FALSE
  <2> HIDE DEF t, u, in
  <2>1. PICK n \in X : \A j \in X : n <= j
    <3>1. X \subseteq Nat
      BY <1>1
    <3> HIDE DEF X
    <3> QED BY <1>5, <3>1, LeastNatural
  <2>2. n \in 1..LinkDepth /\ u[n] # t[n]
    BY <1>1, <1>2, <1>3
  <2>3. n - 1 \in 0..LinkDepth
    BY <1>1, <2>2
  <2>4. u[n - 1] = t[n - 1]
    <3>1. n - 1 \notin X
      <4> HIDE DEF X
      <4> QED BY <1>1, <2>1, <2>2
    <3> QED BY <2>3, <3>1
  <2> QED BY <1>2, <1>3, <1>4, <2>2, <2>3, <2>4
<1> DEFINE end == t[LinkDepth]
<1>6. u[LinkDepth] = end /\ end \in Path
  <2> HIDE DEF t, u
  <2> QED BY <1>1, <1>2, <1>5
<1>7. Shipped(tree, ships, end)
  BY <1>1
<1>8. LinksFrom(in, end, 0) = {} <=> LinksFrom(tree, end, 0) = {}
  BY <1>6, <1>7, FollowsWithin
<1>9. LinksFrom(tree, end, 0) = {} => (end \in DOMAIN in <=> end \in DOMAIN tree)
  BY <1>7, WithinIs DEF Shipped
<1> HIDE DEF t, u, in
<1>10. Resolve(in, path) = (IF LinksFrom(in, end, 0) = {} /\ end \in DOMAIN in THEN end ELSE Nowhere)
  BY <1>6 DEF Resolve, u
<1>11. Resolve(tree, path) = (IF LinksFrom(tree, end, 0) = {} /\ end \in DOMAIN tree THEN end ELSE Nowhere)
  BY DEF Resolve, t
<1> QED BY <1>8, <1>9, <1>10, <1>11 DEF in

-----------------------------------------------------------------------------
(* The inductive invariant of initrd_modules().                            *)

Names(es) == {e[1] : e \in es}

\* Nothing is there before the closure begins, ...
BeginInv ==
  /\ doing # "starting" => inquiry \in Inquiry
  /\ doing \in {"starting", "selecting"} =>
       todo = {} /\ seen = {} /\ modules = {} /\ missing = {} /\ neededBy = {}
  /\ doing \in {"starting", "selecting", "closing"} => packing = {} /\ walk = <<>> /\ carried = {}
  /\ doing \in {"packing", "packed"} => todo = {}

\* ... what a seed needs is seen or listed, and nothing else is, ...
ClosureInv ==
  doing \notin {"starting", "selecting"} =>
    /\ seen = modules \cup missing
    /\ \A m \in modules : Answered(m)
    /\ \A m \in missing : ~Answered(m)
    /\ Seeds \subseteq seen \cup Names(todo)
    /\ \A m \in modules : Image.needs[m] \subseteq seen \cup Names(todo)
    /\ seen \cup Names(todo) \subseteq Needed(Seeds)
    /\ neededBy = {e \in Module \X modules : e[1] \in Image.needs[e[2]]}

TrailOf(p) == Trail(Image.tree, p)
ShippedNow(path) == Shipped(Image.tree, carried, path)

\* ... a walk has carried every link before the one it is at, and every walk that
\* has ended all of its path, ...
CarryInv ==
  doing \in {"packing", "packed"} =>
    \A p \in ToCarry :
      \/ p \in packing
      \/ walk # <<>> /\ walk.from = p
      \/ \A n \in 0..LinkDepth : ShippedNow(TrailOf(p)[n])

WalkInv ==
  walk # <<>> =>
    /\ walk.at <= Len(walk.path)
    /\ walk.path = TrailOf(walk.from)[walk.links]
    /\ \A k \in 1..walk.at : ~IsLink(Image.tree, SubSeq(walk.path, 1, k))
    /\ \A n \in 0..walk.links - 1 : ShippedNow(TrailOf(walk.from)[n])

\* ... and what is reported in the end is so.
PackedInv ==
  doing = "packed" =>
    /\ packing = {} /\ walk = <<>>
    /\ packed.entries = Entries
    /\ packed.missing = missing \ Linked
    /\ packed.absent = {f \in Firmware : Matches(f) = {}}

ModulesInv == ModulesTypeOK /\ BeginInv /\ ClosureInv /\ CarryInv /\ WalkInv /\ PackedInv

\* What is said of the image alone stays as long as the image does.
LEMMA SameImage ==
  ASSUME inquiry' = inquiry
  PROVE  /\ Image' = Image /\ Seeds' = Seeds /\ Linked' = Linked
         /\ Needed(Seeds)' = Needed(Seeds)
         /\ \A m : Answered(m)' = Answered(m)
         /\ \A p : TrailOf(p)' = TrailOf(p)
         /\ \A f : Matches(f)' = Matches(f)
<1>1. Image' = Image /\ Seeds' = Seeds /\ Linked' = Linked
  BY DEF Image, Seeds, Picked, Linked
<1>2. \A m : Answered(m)' = Answered(m)
  BY <1>1 DEF Answered
<1>3. Needed(Seeds)' = Needed(Seeds)
  BY <1>1 DEF Needed, IsClosed, Answered
<1>4. \A p : TrailOf(p)' = TrailOf(p)
  BY <1>1 DEF TrailOf
<1>5. \A f : Matches(f)' = Matches(f)
  BY <1>1 DEF Matches
<1> QED BY <1>1, <1>2, <1>3, <1>4, <1>5

LEMMA SamePaths ==
  ASSUME inquiry' = inquiry, modules' = modules
  PROVE  ToCarry' = ToCarry /\ Firmware' = Firmware
<1>1. Image' = Image /\ \A f : Matches(f)' = Matches(f)
  BY SameImage
<1>2. Firmware' = Firmware
  BY <1>1 DEF Firmware
<1> QED BY <1>1, <1>2 DEF ToCarry

LEMMA SameClosure ==
  ASSUME ClosureInv, doing \notin {"starting", "selecting"}, UNCHANGED <<inquiry, todo, closureVars>>
  PROVE  ClosureInv'
<1>1. /\ Image' = Image /\ Seeds' = Seeds /\ Needed(Seeds)' = Needed(Seeds)
      /\ \A m : Answered(m)' = Answered(m)
  BY SameImage
<1> QED BY <1>1 DEF ClosureInv, closureVars, Names

\* What is asked for is an image with its types.
LEMMA ImageIs ==
  ASSUME KmodAssumption, inquiry \in Inquiry
  PROVE  /\ IsTree(Image.tree) /\ IsNodes(Image.tree)
         /\ Seeds \subseteq Module /\ Linked \subseteq Module
         /\ \A m \in Module : Image.needs[m] \subseteq Module /\ Image.where[m] \in Path
         /\ \A m \in Module : \A f \in Image.firmware[m] : Image.files[f] \subseteq Path
         /\ inquiry.patterns \in Seq([matches : SUBSET Module, exclude : BOOLEAN])
<1>1. IsTree(Image.tree)
  BY DEF KmodAssumption, Image
<1>2. /\ Image.found \subseteq Module
      /\ \A m \in Module : Image.needs[m] \subseteq Module /\ Image.where[m] \in Path
      /\ \A m \in Module : \A f \in Image.firmware[m] : Image.files[f] \subseteq Path
      /\ inquiry.patterns \in Seq([matches : SUBSET Module, exclude : BOOLEAN])
  <2>1. /\ Image.needs \in [Module -> SUBSET Module] /\ Image.where \in [Module -> Path]
        /\ Image.found \subseteq Module
    BY DEF KmodAssumption, Image
  <2>2. /\ \A m \in Module : \A f \in Image.firmware[m] : Image.files[f] \subseteq Path
        /\ inquiry.patterns \in Seq([matches : SUBSET Module, exclude : BOOLEAN])
    BY DEF KmodAssumption, Image
  <2> QED BY <2>1, <2>2
<1>3. Seeds \subseteq Module /\ Linked \subseteq Module
  BY <1>2 DEF Seeds, Picked, Linked
<1> QED BY <1>1, <1>2, <1>3, TreesAreNodes

LEMMA CarriedPaths ==
  ASSUME KmodAssumption, inquiry \in Inquiry, modules \subseteq Module
  PROVE  ToCarry \subseteq Path
<1>1. \A m \in modules : Image.where[m] \in Path
  BY ImageIs
<1>2. ASSUME NEW f \in Firmware PROVE Matches(f) \subseteq Path
  <2>1. PICK m \in modules : f \in Image.firmware[m]
    BY DEF Firmware
  <2>2. Image.files[f] \subseteq Path
    BY <2>1, ImageIs
  <2> QED BY <2>2 DEF Matches
<1> QED BY <1>1, <1>2 DEF ToCarry

\* What is needed contains the seeds, and with an installed module what that needs.
LEMMA NeededIs ==
  ASSUME KmodAssumption, inquiry \in Inquiry
  PROVE  /\ Seeds \subseteq Needed(Seeds) /\ Needed(Seeds) \subseteq Module
         /\ \A m \in Needed(Seeds) : Answered(m) => Image.needs[m] \subseteq Needed(Seeds)
         /\ \A ms \in SUBSET Module : Seeds \subseteq ms /\ IsClosed(ms) => Needed(Seeds) \subseteq ms
<1>1. Seeds \subseteq Module /\ \A m \in Module : Image.needs[m] \subseteq Module
  BY ImageIs
<1> HIDE DEF Seeds
<1>2. ASSUME NEW m \in Needed(Seeds), Answered(m), NEW d \in Image.needs[m] PROVE d \in Needed(Seeds)
  <2>1. m \in Module /\ d \in Module
    BY <1>1 DEF Needed
  <2>2. ASSUME NEW ms \in SUBSET Module, Seeds \subseteq ms, IsClosed(ms) PROVE d \in ms
    <3>1. m \in ms
      BY <2>2 DEF Needed
    <3> QED BY <1>2, <2>2, <3>1 DEF IsClosed
  <2> QED BY <2>1, <2>2 DEF Needed
<1>3. Seeds \subseteq Needed(Seeds) /\ Needed(Seeds) \subseteq Module
  BY <1>1 DEF Needed
<1>4. \A ms \in SUBSET Module : Seeds \subseteq ms /\ IsClosed(ms) => Needed(Seeds) \subseteq ms
  BY DEF Needed
<1> QED BY <1>2, <1>3, <1>4

LEMMA ModulesInitInv == ASSUME ModulesInit PROVE ModulesInv
BY DEF ModulesInit, ModulesInv, ModulesTypeOK, BeginInv, ClosureInv, CarryInv, WalkInv, PackedInv

LEMMA AskInv == ASSUME ModulesInv, Ask PROVE ModulesInv'
<1>1. ModulesTypeOK'
  BY DEF ModulesInv, ModulesTypeOK, BeginInv, Ask, closureVars
<1>2. BeginInv'
  BY DEF ModulesInv, BeginInv, Ask, closureVars
<1>3. ClosureInv' /\ CarryInv' /\ WalkInv' /\ PackedInv'
  BY DEF ModulesInv, BeginInv, ClosureInv, CarryInv, WalkInv, PackedInv, Ask
<1> QED BY <1>1, <1>2, <1>3 DEF ModulesInv

LEMMA SelectInv == ASSUME KmodAssumption, ModulesInv, Select PROVE ModulesInv'
<1> USE DEF ModulesInv
<1>1. /\ doing = "selecting" /\ doing' \in {"failed", "closing"} /\ inquiry \in Inquiry /\ inquiry' = inquiry
      /\ seen' = {} /\ modules' = {} /\ missing' = {} /\ neededBy' = {} /\ packing' = {} /\ walk' = <<>> /\ carried' = {}
      /\ todo' = {<<m, Patterns>> : m \in Seeds}
  BY DEF Select, BeginInv, closureVars
<1>2. Names(todo') = Seeds
  <2>1. ASSUME NEW m \in Seeds PROVE m \in Names(todo')
    <3>1. <<m, Patterns>> \in todo' /\ <<m, Patterns>>[1] = m
      BY <1>1
    <3> QED BY <3>1 DEF Names
  <2>2. ASSUME NEW e \in todo' PROVE e[1] \in Seeds
    BY <1>1
  <2> QED BY <2>1, <2>2 DEF Names
<1>3. /\ Image' = Image /\ Seeds' = Seeds /\ Needed(Seeds)' = Needed(Seeds)
      /\ Seeds \subseteq Module /\ Seeds \subseteq Needed(Seeds)
  BY <1>1, SameImage, NeededIs, ImageIs
<1>4. ModulesTypeOK'
  <2>1. todo' \in SUBSET (Module \X (Module \cup {Patterns}))
    BY <1>1, <1>3
  <2> QED BY <1>1, <2>1 DEF ModulesTypeOK
<1>5. BeginInv'
  BY <1>1 DEF BeginInv
<1>6. ClosureInv'
  BY <1>1, <1>2, <1>3 DEF ClosureInv, Names
<1>7. CarryInv' /\ WalkInv' /\ PackedInv'
  BY <1>1 DEF CarryInv, WalkInv, PackedInv
<1> QED BY <1>4, <1>5, <1>6, <1>7

LEMMA PopInv == ASSUME KmodAssumption, ModulesInv, Pop PROVE ModulesInv'
<1> USE DEF ModulesInv
<1>1. /\ doing = "closing" /\ doing' = "closing" /\ inquiry \in Inquiry /\ inquiry' = inquiry
      /\ packing' = {} /\ walk' = <<>> /\ carried' = {}
  BY DEF Pop, BeginInv
<1>2. /\ Image' = Image /\ Seeds' = Seeds /\ Needed(Seeds)' = Needed(Seeds)
      /\ \A m : Answered(m)' = Answered(m)
  BY <1>1, SameImage
<1>3. PICK e \in todo : SkipSeen(e) \/ Lack(e) \/ Include(e)
  BY DEF Pop
<1> DEFINE m == e[1]
           new == {<<d, m>> : d \in Image.needs[m] \ seen'}
<1>4. /\ m \in Module /\ Image.needs[m] \subseteq Module /\ m \in Names(todo) /\ m \in Needed(Seeds)
      /\ todo \subseteq Module \X (Module \cup {Patterns})
  <2>1. m \in Module /\ todo \subseteq Module \X (Module \cup {Patterns})
    BY DEF ModulesTypeOK
  <2>2. m \in Names(todo)
    BY DEF Names
  <2>3. m \in Needed(Seeds)
    BY <1>1, <2>2 DEF ClosureInv
  <2>4. Image.needs[m] \subseteq Module
    BY <1>1, <2>1, ImageIs
  <2> QED BY <2>1, <2>2, <2>3, <2>4
<1>5. m \in seen' /\ seen' \subseteq seen \cup {m} /\ seen \subseteq seen'
  BY <1>3 DEF SkipSeen, Lack, Include, closureVars
<1>6. todo \ {e} \subseteq todo' /\ (todo' = todo \ {e} \/ (Answered(m) /\ todo' = (todo \ {e}) \cup new))
  BY <1>2, <1>3 DEF SkipSeen, Lack, Include
<1>7. /\ Names(todo) \subseteq seen' \cup Names(todo')
      /\ Names(todo') \subseteq Needed(Seeds)
  <2>1. ASSUME NEW x \in todo PROVE x[1] \in seen' \cup Names(todo')
    BY <1>5, <1>6 DEF Names
  <2>2. ASSUME NEW x \in todo' PROVE x[1] \in Needed(Seeds)
    <3>1. CASE x \in todo
      BY <1>1, <3>1 DEF ClosureInv, Names
    <3>2. CASE x \in new /\ Answered(m)
      <4>1. x[1] \in Image.needs[m]
        BY <3>2
      <4> QED BY <1>1, <1>4, <3>2, <4>1, NeededIs
    <3> QED BY <1>6, <3>1, <3>2
  <2> QED BY <2>1, <2>2 DEF Names
<1>8. ModulesTypeOK'
  <2>1. todo' \in SUBSET (Module \X (Module \cup {Patterns}))
    <3>1. new \subseteq Module \X (Module \cup {Patterns})
      BY <1>4
    <3> HIDE DEF new, m
    <3> QED BY <1>4, <1>6, <3>1
  <2>2. seen' \subseteq Module /\ modules' \subseteq Module /\ missing' \subseteq Module
    BY <1>3, <1>4 DEF SkipSeen, Lack, Include, closureVars, ModulesTypeOK
  <2>3. neededBy' \subseteq Module \X Module
    BY <1>3, <1>4 DEF SkipSeen, Lack, Include, closureVars, ModulesTypeOK
  <2> QED BY <1>1, <2>1, <2>2, <2>3 DEF ModulesTypeOK
<1>9. BeginInv'
  BY <1>1 DEF BeginInv
<1>10. ClosureInv'
  <2>1. /\ seen' = modules' \cup missing'
        /\ \A x \in modules' : Answered(x)
        /\ \A x \in missing' : ~Answered(x)
    BY <1>1, <1>3 DEF SkipSeen, Lack, Include, closureVars, ClosureInv
  <2>2. Seeds \subseteq seen' \cup Names(todo')
    BY <1>1, <1>5, <1>7 DEF ClosureInv
  <2>3. ASSUME NEW x \in modules' PROVE Image.needs[x] \subseteq seen' \cup Names(todo')
    <3>1. CASE x \in modules
      BY <1>1, <1>5, <1>7, <3>1 DEF ClosureInv
    <3>2. CASE x \notin modules
      <4>1. x = m /\ todo' = (todo \ {e}) \cup new
        BY <1>2, <1>3, <2>3, <3>2 DEF SkipSeen, Lack, Include, closureVars
      <4>2. ASSUME NEW d \in Image.needs[m] PROVE d \in seen' \cup Names(todo')
        <5>1. CASE d \notin seen'
          <6>1. <<d, m>> \in todo' /\ <<d, m>>[1] = d
            BY <4>1, <5>1
          <6> QED BY <6>1 DEF Names
        <5> QED BY <5>1
      <4> QED BY <4>1, <4>2
    <3> QED BY <3>1, <3>2
  <2>4. seen' \cup Names(todo') \subseteq Needed(Seeds)
    BY <1>1, <1>4, <1>5, <1>7 DEF ClosureInv
  <2>5. neededBy' = {x \in Module \X modules' : x[1] \in Image.needs[x[2]]}
    <3>1. neededBy = {x \in Module \X modules : x[1] \in Image.needs[x[2]]}
      BY <1>1 DEF ClosureInv
    <3>2. CASE modules' = modules /\ neededBy' = neededBy
      BY <3>1, <3>2
    <3>3. CASE modules' = modules \cup {m} /\ neededBy' = neededBy \cup {<<d, m>> : d \in Image.needs[m]}
      <4> DEFINE all == {x \in Module \X modules' : x[1] \in Image.needs[x[2]]}
      <4>1. ASSUME NEW x \in neededBy' PROVE x \in all
        BY <1>4, <3>1, <3>3
      <4>2. ASSUME NEW x \in all PROVE x \in neededBy'
        <5>1. PICK d \in Module, y \in modules' : x = <<d, y>>
          OBVIOUS
        <5>2. d \in Image.needs[y]
          BY <5>1
        <5>3. CASE y = m
          BY <3>3, <5>1, <5>2, <5>3
        <5>4. CASE y \in modules
          BY <3>1, <3>3, <5>1, <5>2, <5>4
        <5> QED BY <3>3, <5>3, <5>4
      <4> HIDE DEF all
      <4>3. neededBy' = all
        BY <4>1, <4>2
      <4> QED BY <4>3 DEF all
    <3> QED BY <1>3, <3>2, <3>3 DEF SkipSeen, Lack, Include, closureVars
  <2> QED BY <1>1, <1>2, <2>1, <2>2, <2>3, <2>4, <2>5 DEF ClosureInv, Names
<1>11. CarryInv' /\ WalkInv' /\ PackedInv'
  BY <1>1 DEF CarryInv, WalkInv, PackedInv
<1> QED BY <1>8, <1>9, <1>10, <1>11

LEMMA ClosedInv == ASSUME KmodAssumption, ModulesInv, Closed PROVE ModulesInv'
<1> USE DEF ModulesInv
<1>1. /\ doing = "closing" /\ doing' \in {"packing", "failed"} /\ inquiry \in Inquiry
      /\ UNCHANGED <<inquiry, todo, closureVars, walk, carried, packed>>
      /\ todo = {} /\ packing = {} /\ walk = <<>> /\ carried = {}
      /\ packing' = packing \/ packing' = ToCarry
      /\ doing' = "packing" => packing' = ToCarry
  BY DEF Closed, BeginInv
<1>2. ToCarry' = ToCarry /\ ToCarry \subseteq Path /\ ClosureInv'
  <2>1. modules' = modules /\ modules \subseteq Module
    BY <1>1 DEF closureVars, ModulesTypeOK
  <2>2. ClosureInv'
    BY <1>1, SameClosure
  <2> QED BY <1>1, <2>1, <2>2, SamePaths, CarriedPaths
<1>3. ModulesTypeOK'
  BY <1>1, <1>2 DEF ModulesTypeOK, closureVars
<1>4. BeginInv' /\ WalkInv' /\ PackedInv'
  BY <1>1 DEF BeginInv, WalkInv, PackedInv
<1>5. CarryInv'
  BY <1>1, <1>2 DEF CarryInv
<1> QED BY <1>2, <1>3, <1>4, <1>5

LEMMA CarryingInv == ASSUME KmodAssumption, ModulesInv, Carry PROVE ModulesInv'
<1> USE DEF ModulesInv
<1>1. PICK p \in packing : packing' = packing \ {p} /\ walk' = [from |-> p, path |-> p, at |-> 0, links |-> 0]
  BY DEF Carry
<1>2. /\ doing = "packing" /\ doing' = "packing" /\ inquiry \in Inquiry /\ walk = <<>>
      /\ UNCHANGED <<inquiry, todo, closureVars, carried, packed>>
  BY DEF Carry, BeginInv
<1>3. p \in Path /\ LinkDepth \in Nat
  BY DEF ModulesTypeOK, KmodAssumption
<1>4. /\ Image' = Image /\ ToCarry' = ToCarry /\ ClosureInv' /\ \A q : TrailOf(q)' = TrailOf(q)
      /\ TrailOf(p)[0] = p
  <2>1. modules' = modules
    BY <1>2 DEF closureVars
  <2>2. ClosureInv'
    BY <1>2, SameClosure
  <2>3. TrailOf(p)[0] = p
    BY <1>2, <1>3, TrailIs, ImageIs DEF TrailOf
  <2> QED BY <1>2, <2>1, <2>2, <2>3, SamePaths, SameImage
<1>5. walk' # <<>> /\ walk'.from = p /\ walk'.path = p /\ walk'.at = 0 /\ walk'.links = 0
  BY <1>1
<1>6. ModulesTypeOK'
  <2>1. walk' \in [from : Path, path : Path, at : Nat, links : 0..LinkDepth]
    BY <1>1, <1>3
  <2> QED BY <1>1, <1>2, <1>4, <2>1 DEF ModulesTypeOK, closureVars
<1>7. BeginInv' /\ PackedInv'
  BY <1>2 DEF BeginInv, PackedInv
<1>8. CarryInv'
  BY <1>1, <1>2, <1>4, <1>5 DEF CarryInv, ShippedNow, TrailOf
<1>9. WalkInv'
  <2>1. Len(p) \in Nat
    BY <1>3 DEF Path
  <2> QED BY <1>4, <1>5, <2>1 DEF WalkInv
<1> QED BY <1>4, <1>6, <1>7, <1>8, <1>9

\* What was behind a walk has no links: the ones ahead are all.
LEMMA AheadIsAll ==
  ASSUME KmodAssumption, ModulesInv, walk # <<>>
  PROVE  Ahead = LinksFrom(Image.tree, walk.path, 0) /\ walk.path \in Path /\ walk.at \in Nat
<1>1. walk.path \in Path /\ walk.at \in Nat /\ \A k \in 1..walk.at : ~IsLink(Image.tree, SubSeq(walk.path, 1, k))
  BY DEF ModulesInv, ModulesTypeOK, WalkInv
<1>2. ASSUME NEW n, n \in LinksFrom(Image.tree, walk.path, 0) PROVE n \in LinksFrom(Image.tree, walk.path, walk.at)
  <2>1. n \in Nat /\ 0 < n /\ n <= Len(walk.path) /\ IsLink(Image.tree, SubSeq(walk.path, 1, n))
    BY <1>1, <1>2, LinksAre
  <2>2. walk.at < n
    BY <1>1, <2>1
  <2> QED BY <1>1, <2>1, <2>2, LinksAre
<1>3. ASSUME NEW n, n \in LinksFrom(Image.tree, walk.path, walk.at) PROVE n \in LinksFrom(Image.tree, walk.path, 0)
  <2>1. n \in Nat /\ walk.at < n /\ n <= Len(walk.path) /\ IsLink(Image.tree, SubSeq(walk.path, 1, n))
    BY <1>1, <1>3, LinksAre
  <2>2. 0 < n
    BY <1>1, <2>1
  <2> QED BY <1>1, <2>1, <2>2, LinksAre
<1> QED BY <1>1, <1>2, <1>3 DEF Ahead

LEMMA ShipsMore ==
  ASSUME NEW tree, NEW ships, NEW more, ships \subseteq more, NEW path, Shipped(tree, ships, path)
  PROVE  Shipped(tree, more, path)
BY DEF Shipped

LEMMA ChaseInv == ASSUME KmodAssumption, ModulesInv, Chase PROVE ModulesInv'
<1> USE DEF ModulesInv
<1> DEFINE n == First(Ahead)
           link == SubSeq(walk.path, 1, n)
           on == Replaced(Image.tree, walk.path, n)
           at == Len(RelativeTo(Image.tree, link))
           Then(q) == Shipped(Image.tree, carried', q)
<1>1. /\ doing = "packing" /\ doing' = "packing" /\ inquiry \in Inquiry
      /\ UNCHANGED <<inquiry, todo, closureVars, packing, packed>>
      /\ walk # <<>> /\ walk.links < LinkDepth /\ Ahead # {}
      /\ carried' = carried \cup {link}
      /\ walk' = [walk EXCEPT !.path = on, !.at = at, !.links = @ + 1]
  BY DEF Chase, Walking, BeginInv
<1>2. /\ walk \in [from : Path, path : Path, at : Nat, links : 0..LinkDepth]
      /\ walk.from \in Path /\ walk.path \in Path /\ walk.links \in 0..LinkDepth /\ LinkDepth \in Nat
  BY <1>1 DEF ModulesTypeOK, KmodAssumption
<1>3. /\ Image' = Image /\ ToCarry' = ToCarry /\ ClosureInv' /\ \A q : TrailOf(q)' = TrailOf(q)
  <2>1. modules' = modules
    BY <1>1 DEF closureVars
  <2>2. ClosureInv'
    BY <1>1, SameClosure
  <2> QED BY <1>1, <2>1, <2>2, SamePaths, SameImage
<1>4. IsNodes(Image.tree)
  BY <1>1, ImageIs
<1>5. /\ Ahead = LinksFrom(Image.tree, walk.path, 0)
      /\ n \in 1..Len(walk.path) /\ link = LinkOn(Image.tree, walk.path) /\ IsLink(Image.tree, link)
      /\ \A k \in 1..n - 1 : ~IsLink(Image.tree, SubSeq(walk.path, 1, k))
  <2>1. Ahead = LinksFrom(Image.tree, walk.path, 0)
    BY <1>1, AheadIsAll
  <2> QED BY <1>1, <1>2, <2>1, LinkOnIs DEF LinkOn
<1> HIDE DEF n
<1>6. on \in Path /\ at \in 0..n - 1 /\ at <= Len(on) /\ \A j \in 1..at : SubSeq(on, 1, j) = SubSeq(walk.path, 1, j)
  BY <1>2, <1>4, <1>5, ReplacedIs, SMTT(30)
<1>7. at \in Nat /\ \A j \in 1..at : ~IsLink(Image.tree, SubSeq(on, 1, j))
  <2>1. n \in Nat /\ at \in Nat
    BY <1>2, <1>5, <1>6 DEF Path
  <2>2. \A j \in 1..at : j \in 1..n - 1
    <3> HIDE DEF at
    <3> QED BY <1>6, <2>1
  <2> HIDE DEF at, on
  <2> QED BY <1>5, <1>6, <2>1, <2>2
<1> HIDE DEF link, on, at
<1>8. /\ walk' \in [from : Path, path : Path, at : Nat, links : 0..LinkDepth] /\ walk' # <<>>
      /\ walk'.from = walk.from /\ walk'.path = on /\ walk'.at = at /\ walk'.links = walk.links + 1
  <2>1. walk' \in [from : Path, path : Path, at : Nat, links : 0..LinkDepth]
        /\ walk'.from = walk.from /\ walk'.path = on /\ walk'.at = at /\ walk'.links = walk.links + 1
    <3>1. walk.links + 1 \in 0..LinkDepth
      BY <1>1, <1>2
    <3>2. walk' = [from |-> walk.from, path |-> on, at |-> at, links |-> walk.links + 1]
      BY <1>1, <1>2
    <3> QED BY <1>2, <1>6, <1>7, <3>1, <3>2
  <2>2. walk' # <<>>
    <3>1. DOMAIN walk' = {"from", "path", "at", "links"}
      BY <2>1
    <3> QED BY <3>1
  <2> QED BY <2>1, <2>2
<1>9. TrailOf(walk.from)[walk.links + 1] = on
  <2>1. walk.links + 1 \in 1..LinkDepth /\ (walk.links + 1) - 1 = walk.links
    BY <1>1, <1>2
  <2>2. TrailOf(walk.from)[walk.links + 1] = Followed(Image.tree, TrailOf(walk.from)[walk.links])
    <3>1. \A k \in 1..LinkDepth : Trail(Image.tree, walk.from)[k] = Followed(Image.tree, Trail(Image.tree, walk.from)[k - 1])
      <4>1. walk.from \in Path
        BY <1>2
      <4> QED BY <1>2, <1>4, <4>1, TrailIs
    <3> QED BY <2>1, <3>1 DEF TrailOf
  <2>3. TrailOf(walk.from)[walk.links] = walk.path
    BY <1>1 DEF WalkInv
  <2> QED BY <1>1, <1>5, <2>2, <2>3 DEF Followed, on, n
<1>10. Then(walk.path) /\ \A p : ShippedNow(p) => Then(p) /\ ShippedNow(p)'
  <2>1. Then(walk.path)
    BY <1>1, <1>5 DEF Shipped
  <2>2. \A p : Shipped(Image.tree, carried, p) => Then(p)
    BY <1>1, ShipsMore
  <2>3. \A p : Then(p) => ShippedNow(p)'
    BY <1>3 DEF ShippedNow
  <2> QED BY <2>1, <2>2, <2>3 DEF ShippedNow
<1>11. ModulesTypeOK'
  <2>1. carried' \subseteq DOMAIN Image'.tree
    BY <1>1, <1>3, <1>5 DEF ModulesTypeOK, IsLink
  <2> QED BY <1>1, <1>8, <2>1 DEF ModulesTypeOK, closureVars
<1>12. BeginInv' /\ PackedInv'
  BY <1>1 DEF BeginInv, PackedInv
<1>13. CarryInv'
  BY <1>1, <1>3, <1>8, <1>10 DEF CarryInv, ShippedNow, TrailOf
<1>14. WalkInv'
  <2>1. \A k \in 0..walk.links + 1 - 1 : k \in 0..walk.links - 1 \/ k = walk.links
    BY <1>2
  <2>2. TrailOf(walk.from)[walk.links] = walk.path /\ \A k \in 0..walk.links - 1 : ShippedNow(TrailOf(walk.from)[k])
    BY <1>1 DEF WalkInv
  <2>3. \A k \in 0..walk'.links - 1 : Then(TrailOf(walk.from)[k])
    <3> HIDE DEF Then
    <3>1. ASSUME NEW k \in 0..walk'.links - 1 PROVE Then(TrailOf(walk.from)[k])
      <4>1. CASE k = walk.links
        BY <1>10, <2>2, <4>1
      <4>2. CASE k \in 0..walk.links - 1
        BY <1>10, <2>2, <4>2
      <4>3. walk'.links = walk.links + 1 /\ walk.links \in Nat
        BY <1>2, <1>8
      <4>4. k = walk.links \/ k \in 0..walk.links - 1
        BY <4>3
      <4> QED BY <4>1, <4>2, <4>4
    <3> QED BY <3>1
  <2>4. \A k \in 0..walk'.links - 1 : ShippedNow(TrailOf(walk.from)[k])'
    BY <1>3, <1>8, <2>3 DEF ShippedNow, TrailOf
  <2>5. walk'.path = TrailOf(walk.from)'[walk'.links]
    BY <1>3, <1>8, <1>9 DEF TrailOf
  <2> QED BY <1>3, <1>6, <1>7, <1>8, <2>4, <2>5 DEF WalkInv, TrailOf
<1> QED BY <1>3, <1>11, <1>12, <1>13, <1>14

LEMMA ArriveInv == ASSUME KmodAssumption, ModulesInv, Arrive PROVE ModulesInv'
<1> USE DEF ModulesInv
<1> DEFINE Then(q) == Shipped(Image.tree, carried', q)
<1>1. /\ doing = "packing" /\ doing' = "packing" /\ inquiry \in Inquiry
      /\ UNCHANGED <<inquiry, todo, closureVars, packing, packed>>
      /\ walk # <<>> /\ walk.links < LinkDepth /\ Ahead = {}
      /\ carried' = carried \cup ({walk.path} \cap DOMAIN Image.tree)
      /\ walk' = <<>>
  BY DEF Arrive, Walking, BeginInv
<1>2. /\ walk \in [from : Path, path : Path, at : Nat, links : 0..LinkDepth]
      /\ walk.from \in Path /\ walk.path \in Path /\ walk.links \in 0..LinkDepth /\ LinkDepth \in Nat
  BY <1>1 DEF ModulesTypeOK, KmodAssumption
<1>3. /\ Image' = Image /\ ToCarry' = ToCarry /\ ClosureInv' /\ \A q : TrailOf(q)' = TrailOf(q)
  <2>1. modules' = modules
    BY <1>1 DEF closureVars
  <2>2. ClosureInv'
    BY <1>1, SameClosure
  <2> QED BY <1>1, <2>1, <2>2, SamePaths, SameImage
<1>4. LinksFrom(Image.tree, walk.path, 0) = {}
  BY <1>1, AheadIsAll
<1>5. Then(walk.path) /\ \A p : ShippedNow(p) => Then(p) /\ ShippedNow(p)'
  <2>1. Then(walk.path)
    BY <1>1, <1>4 DEF Shipped
  <2>2. \A p : Shipped(Image.tree, carried, p) => Then(p)
    BY <1>1, ShipsMore
  <2>3. \A p : Then(p) => ShippedNow(p)'
    BY <1>3 DEF ShippedNow
  <2> QED BY <2>1, <2>2, <2>3 DEF ShippedNow
<1>6. \A n \in 0..LinkDepth : Then(TrailOf(walk.from)[n])
  <2>1. IsNodes(Image.tree) /\ TrailOf(walk.from)[walk.links] = walk.path
    BY <1>1, ImageIs DEF WalkInv
  <2>2. \A n \in walk.links..LinkDepth : TrailOf(walk.from)[n] = TrailOf(walk.from)[walk.links]
    <3>1. LinksFrom(Image.tree, Trail(Image.tree, walk.from)[walk.links], 0) = {}
      BY <1>4, <2>1 DEF TrailOf
    <3> DEFINE l == walk.links
    <3>2. l \in 0..LinkDepth /\ LinksFrom(Image.tree, Trail(Image.tree, walk.from)[l], 0) = {}
      BY <1>2, <3>1
    <3> HIDE DEF l
    <3>3. \A n \in l..LinkDepth : Trail(Image.tree, walk.from)[n] = Trail(Image.tree, walk.from)[l]
      <4>1. walk.from \in Path
        BY <1>2
      <4>2. IsNodes(Image.tree)
        BY <2>1
      <4>3. l \in 0..LinkDepth
        BY <3>2
      <4>4. LinkDepth \in Nat
        BY <1>2
      <4>5. LinksFrom(Image.tree, Trail(Image.tree, walk.from)[l], 0) = {}
        BY <3>2
      <4> QED BY <4>1, <4>2, <4>3, <4>4, <4>5, TrailSettles
    <3> QED BY <3>3 DEF l, TrailOf
  <2>3. \A n \in 0..walk.links - 1 : ShippedNow(TrailOf(walk.from)[n])
    BY <1>1 DEF WalkInv
  <2>4. \A n \in 0..LinkDepth : n \in walk.links..LinkDepth \/ n \in 0..walk.links - 1
    BY <1>2
  <2> HIDE DEF Then
  <2> QED BY <1>5, <2>1, <2>2, <2>3, <2>4
<1>7. ModulesTypeOK'
  BY <1>1, <1>3 DEF ModulesTypeOK, closureVars
<1>8. BeginInv' /\ WalkInv' /\ PackedInv'
  BY <1>1 DEF BeginInv, WalkInv, PackedInv
<1>9. CarryInv'
  <2>1. ASSUME NEW p \in ToCarry
        PROVE  p \in packing \/ \A n \in 0..LinkDepth : ShippedNow(TrailOf(p)[n])'
    <3>1. CASE walk.from = p
      <4>1. \A n \in 0..LinkDepth : Then(TrailOf(p)[n])
        BY <1>6, <3>1
      <4> QED BY <1>3, <4>1 DEF ShippedNow, TrailOf
    <3>2. CASE \A n \in 0..LinkDepth : ShippedNow(TrailOf(p)[n])
      <4>1. \A n \in 0..LinkDepth : Then(TrailOf(p)[n])
        <5> HIDE DEF Then
        <5> QED BY <1>5, <3>2
      <4> QED BY <1>3, <4>1 DEF ShippedNow, TrailOf
    <3> QED BY <1>1, <3>1, <3>2 DEF CarryInv
  <2> QED BY <1>1, <1>3, <2>1 DEF CarryInv
<1> QED BY <1>3, <1>7, <1>8, <1>9

LEMMA GiveUpInv == ASSUME KmodAssumption, ModulesInv, GiveUp PROVE ModulesInv'
<1> USE DEF ModulesInv
<1>1. /\ doing = "packing" /\ doing' = "failed"
      /\ UNCHANGED <<inquiry, todo, closureVars, packing, walk, carried, packed>>
  BY DEF GiveUp
<1>2. Image' = Image /\ ClosureInv' /\ \A q : TrailOf(q)' = TrailOf(q)
  BY <1>1, SameClosure, SameImage
<1>3. ModulesTypeOK'
  BY <1>1, <1>2 DEF ModulesTypeOK, closureVars
<1>4. WalkInv'
  BY <1>1, <1>2 DEF WalkInv, ShippedNow
<1>5. BeginInv' /\ CarryInv' /\ PackedInv'
  BY <1>1 DEF BeginInv, CarryInv, PackedInv
<1> QED BY <1>2, <1>3, <1>4, <1>5

LEMMA PackInv == ASSUME KmodAssumption, ModulesInv, Pack PROVE ModulesInv'
<1> USE DEF ModulesInv
<1>1. /\ doing = "packing" /\ doing' = "packed" /\ packing = {} /\ walk = <<>>
      /\ packed' = [entries |-> Entries, missing |-> missing \ Linked,
                    absent |-> {f \in Firmware : Matches(f) = {}}, unmatched |-> Unmatched]
      /\ UNCHANGED <<inquiry, todo, closureVars, packing, walk, carried>>
  BY DEF Pack
<1>2. /\ Image' = Image /\ Linked' = Linked /\ ToCarry' = ToCarry /\ Firmware' = Firmware
      /\ ClosureInv' /\ \A q : TrailOf(q)' = TrailOf(q)
      /\ \A f : Matches(f)' = Matches(f)
  <2>1. modules' = modules
    BY <1>1 DEF closureVars
  <2>2. ClosureInv'
    BY <1>1, SameClosure
  <2> QED BY <1>1, <2>1, <2>2, SamePaths, SameImage
<1>3. ModulesTypeOK'
  BY <1>1, <1>2 DEF ModulesTypeOK, closureVars
<1>4. BeginInv' /\ WalkInv'
  BY <1>1 DEF BeginInv, WalkInv
<1>5. CarryInv'
  BY <1>1, <1>2 DEF CarryInv, ShippedNow
<1>6. PackedInv'
  <2>1. Entries' = Entries
    BY <1>1, <1>2 DEF Entries
  <2>2. missing' = missing
    BY <1>1 DEF closureVars
  <2> QED BY <1>1, <1>2, <2>1, <2>2 DEF PackedInv
<1> QED BY <1>2, <1>3, <1>4, <1>5, <1>6

LEMMA StutterInv == ASSUME ModulesInv, UNCHANGED modulesVars PROVE ModulesInv'
<1> USE DEF ModulesInv
<1>1. UNCHANGED <<inquiry, doing, todo, seen, modules, missing, neededBy, packing, walk, carried, packed>>
  BY DEF modulesVars
<1>2. /\ Image' = Image /\ Linked' = Linked /\ ToCarry' = ToCarry /\ Firmware' = Firmware
      /\ \A q : TrailOf(q)' = TrailOf(q)
      /\ \A f : Matches(f)' = Matches(f)
  BY <1>1, SamePaths, SameImage
<1>3. ModulesTypeOK'
  BY <1>1, <1>2 DEF ModulesTypeOK
<1>4. BeginInv'
  BY <1>1 DEF BeginInv
<1>5. ClosureInv'
  <2>1. CASE doing \in {"starting", "selecting"}
    BY <1>1, <2>1 DEF ClosureInv
  <2>2. CASE doing \notin {"starting", "selecting"}
    BY <1>1, <2>2, SameClosure DEF closureVars
  <2> QED BY <2>1, <2>2
<1>6. CarryInv' /\ WalkInv'
  BY <1>1, <1>2 DEF CarryInv, WalkInv, ShippedNow
<1>7. PackedInv'
  <2>1. Entries' = Entries
    BY <1>1, <1>2 DEF Entries
  <2> QED BY <1>1, <1>2, <2>1 DEF PackedInv
<1> QED BY <1>3, <1>4, <1>5, <1>6, <1>7

THEOREM ModulesInvariance == ModulesSpec => []ModulesInv
<1>1. ModulesInit => ModulesInv
  BY ModulesInitInv
<1>2. ModulesInv /\ [ModulesNext]_modulesVars => ModulesInv'
  <2> SUFFICES ASSUME ModulesInv, [ModulesNext]_modulesVars PROVE ModulesInv'
    OBVIOUS
  <2>1. CASE Ask
    BY <2>1, AskInv
  <2>2. CASE Select
    BY <2>2, SelectInv, KmodAssumption
  <2>3. CASE Pop
    BY <2>3, PopInv, KmodAssumption
  <2>4. CASE Closed
    BY <2>4, ClosedInv, KmodAssumption
  <2>5. CASE Carry
    BY <2>5, CarryingInv, KmodAssumption
  <2>6. CASE Chase
    BY <2>6, ChaseInv, KmodAssumption
  <2>7. CASE Arrive
    BY <2>7, ArriveInv, KmodAssumption
  <2>8. CASE GiveUp
    BY <2>8, GiveUpInv, KmodAssumption
  <2>9. CASE Pack
    BY <2>9, PackInv, KmodAssumption
  <2>10. CASE UNCHANGED modulesVars
    BY <2>10, StutterInv
  <2> QED BY <2>1, <2>2, <2>3, <2>4, <2>5, <2>6, <2>7, <2>8, <2>9, <2>10 DEF ModulesNext
<1> QED BY <1>1, <1>2, PTL DEF ModulesSpec

-----------------------------------------------------------------------------
(* What an initrd has in the end.                                          *)

\* A complete worklist has seen what is needed and no more.
LEMMA ClosedIsNeeded ==
  ASSUME KmodAssumption, ModulesInv, doing = "packed"
  PROVE  seen = Needed(Seeds) /\ modules = {m \in seen : Answered(m)} /\ missing = {m \in seen : ~Answered(m)}
<1>1. inquiry \in Inquiry /\ todo = {} /\ seen \subseteq Module
  BY DEF ModulesInv, BeginInv, ModulesTypeOK
<1>2. Names(todo) = {}
  BY <1>1 DEF Names
<1>3. /\ seen = modules \cup missing
      /\ \A m \in modules : Answered(m) /\ Image.needs[m] \subseteq seen
      /\ \A m \in missing : ~Answered(m)
      /\ Seeds \subseteq seen /\ seen \subseteq Needed(Seeds)
  BY <1>2 DEF ModulesInv, ClosureInv
<1>4. IsClosed(seen)
  BY <1>3 DEF IsClosed
<1>5. Needed(Seeds) \subseteq seen
  BY <1>1, <1>3, <1>4, NeededIs
<1> QED BY <1>3, <1>5

\* All that was to be carried is found in what is.
LEMMA CarriedResolves ==
  ASSUME KmodAssumption, ModulesInv, doing = "packed", NEW p \in ToCarry
  PROVE  Resolve(packed.entries, p) = Resolve(Image.tree, p)
<1>1. inquiry \in Inquiry /\ packing = {} /\ walk = <<>> /\ packed.entries = Entries
  BY DEF ModulesInv, BeginInv, PackedInv
<1>2. p \in Path /\ IsTree(Image.tree) /\ carried \subseteq DOMAIN Image.tree /\ LinkDepth \in Nat
  <2>1. modules \subseteq Module /\ carried \subseteq DOMAIN Image.tree
    BY DEF ModulesInv, ModulesTypeOK
  <2>2. p \in Path
    BY <1>1, <2>1, CarriedPaths
  <2> QED BY <1>1, <2>1, <2>2, ImageIs DEF KmodAssumption
<1>3. \A n \in 0..LinkDepth : Shipped(Image.tree, carried, Trail(Image.tree, p)[n])
  BY <1>1 DEF ModulesInv, CarryInv, ShippedNow, TrailOf
<1>4. packed.entries = Within(Image.tree, carried)
  BY <1>1 DEF Entries, Within
<1>5. Resolve(Within(Image.tree, carried), p) = Resolve(Image.tree, p)
  BY <1>2, <1>3, ResolvesWithin
<1> QED BY <1>4, <1>5

LEMMA InvIsComplete == ASSUME KmodAssumption, ModulesInv PROVE InitrdComplete
<1> SUFFICES ASSUME doing = "packed" PROVE InitrdComplete
  BY DEF InitrdComplete
<1> DEFINE selected == {m \in Image.found : LastSays(inquiry.patterns, m)}
           seeds == selected \cup IF Image.firmwared THEN Linked ELSE {}
           all == Needed(seeds)
           got == {m \in all : Answered(m)}
           firmware == IF Image.firmwared THEN UNION {Image.firmware[m] : m \in got} ELSE {}
           candidates == UNION {Image.files[f] : f \in firmware}
           wanted == {Image.where[m] : m \in got \ Linked}
                       \cup {p \in candidates : Resolve(Image.tree, p) # Nowhere}
<1>1. inquiry \in Inquiry /\ modules \subseteq Module /\ seen \subseteq Module
  BY DEF ModulesInv, BeginInv, ModulesTypeOK
<1>2. seeds = Seeds
  <2>1. inquiry.patterns \in Seq([matches : SUBSET Module, exclude : BOOLEAN])
    BY <1>1, ImageIs
  <2>2. \A m \in Image.found : Keeps(inquiry.patterns, m) <=> LastSays(inquiry.patterns, m)
    BY <2>1, KeepsIsLastSays
  <2>3. selected = Picked
    BY <2>2 DEF Picked
  <2> HIDE DEF selected
  <2> QED BY <2>3 DEF Seeds
<1> HIDE DEF seeds
<1>3. all = seen /\ got = modules
  <2>1. all = seen
    BY <1>2, ClosedIsNeeded
  <2> HIDE DEF all
  <2> QED BY <2>1, ClosedIsNeeded
<1> HIDE DEF all
<1> HIDE DEF got
<1>4. firmware = Firmware
  BY <1>3 DEF Firmware
<1> HIDE DEF firmware
<1>5. wanted \subseteq ToCarry
  <2>1. ASSUME NEW m \in got \ Linked PROVE Image.where[m] \in ToCarry
    <3>1. m \in modules /\ Image.where[m] # BuiltIn
      BY <1>1, <1>3 DEF Linked
    <3> QED BY <3>1 DEF ToCarry
  <2>2. ASSUME NEW p \in candidates, Resolve(Image.tree, p) # Nowhere PROVE p \in ToCarry
    <3>1. PICK f \in Firmware : p \in Image.files[f]
      BY <1>4
    <3>2. p \in Matches(f)
      BY <2>2, <3>1 DEF Matches, IsThere
    <3> QED BY <3>1, <3>2 DEF ToCarry
  <2> QED BY <2>1, <2>2
<1>6. \A p \in wanted : Resolve(packed.entries, p) = Resolve(Image.tree, p)
  BY <1>5, CarriedResolves
<1>7. packed.missing = {m \in all : Image.where[m] = Nowhere}
  <2>1. packed.missing = missing \ Linked
    BY DEF ModulesInv, PackedInv
  <2>2. missing = {m \in seen : ~Answered(m)}
    BY ClosedIsNeeded
  <2>3. Nowhere # BuiltIn
    BY DEF Nowhere, BuiltIn
  <2>4. \A m \in seen : (~Answered(m) /\ m \notin Linked) <=> Image.where[m] = Nowhere
    BY <1>1, <2>3 DEF Answered, Linked
  <2> QED BY <1>3, <2>1, <2>2, <2>4
<1>8. packed.absent = {f \in firmware : \A p \in Image.files[f] : ~IsThere(Image.tree, p)}
  <2>1. packed.absent = {f \in Firmware : Matches(f) = {}}
    BY DEF ModulesInv, PackedInv
  <2>2. \A f : Matches(f) = {} <=> \A p \in Image.files[f] : ~IsThere(Image.tree, p)
    BY DEF Matches
  <2> QED BY <1>4, <2>1, <2>2
<1>9. neededBy = {e \in Module \X got : e[1] \in Image.needs[e[2]]}
  <2>1. neededBy = {e \in Module \X modules : e[1] \in Image.needs[e[2]]}
    BY DEF ModulesInv, ClosureInv
  <2> QED BY <1>3, <2>1
<1> QED BY <1>6, <1>7, <1>8, <1>9 DEF InitrdComplete, seeds, all, got, firmware

\* What an initrd is packed with is what its patterns select and those modules need
\* and load, found there as in the image through links in any name, and what it
\* reports to lack is what is not there, whatever image, patterns and dependencies
\* and whatever order the worklist of closure() and carry() took (kmod.py).
THEOREM InitrdsAreComplete == ModulesSpec => []InitrdComplete
<1>1. ModulesInv => InitrdComplete
  BY InvIsComplete, KmodAssumption
<1> QED BY <1>1, ModulesInvariance, PTL

-----------------------------------------------------------------------------
(* Archives                                                                *)

LEMMA RoundupIs ==
  ASSUME NEW n \in Nat
  PROVE  /\ Roundup(n, 4) \in Nat /\ n <= Roundup(n, 4) /\ Roundup(n, 4) % 4 = 0
         /\ n % 4 = 0 => Roundup(n, 4) = n
         /\ Roundup(n, Block) \in Nat /\ n <= Roundup(n, Block) /\ Roundup(n, Block) % Block = 0
         /\ Roundup(n, Block) % 4 = 0
BY DEF Roundup, Block

Entry == [name : Nat, size : Nat]
Placed == [at : Nat, name : Nat, namesize : Nat, size : Nat, data : Nat, next : Nat]

\* A record is where it is put, does not overlap itself, and is aligned.
LEMMA RecordIs ==
  ASSUME NEW at \in Nat, NEW entry \in Entry, NEW flag \in BOOLEAN
  PROVE  LET r == Record(at, entry, flag) IN
         /\ r \in Placed /\ r.at = at /\ r.name = entry.name /\ r.size = entry.size
         /\ r.data = Roundup(at + Header + r.namesize, 4) /\ r.next = Roundup(r.data + r.size, 4)
         /\ r.at < r.next
         /\ r.data >= r.at + Header + entry.name + 1
         /\ r.data + entry.size <= r.next
         /\ r.namesize <= PathMax \/ entry.name >= PathMax
         /\ flag /\ entry.size >= Block => r.data % Block = 0 \/ r.namesize = entry.name + 1
<1> DEFINE r == Record(at, entry, flag)
           plain == entry.name + 1
           end == Roundup(at + Header + plain, Block)
           padded == end - (at + Header)
           namesize == NameSize(at, entry, flag)
           data == Roundup(at + Header + namesize, 4)
<1>1. entry.name \in Nat /\ entry.size \in Nat
  BY DEF Entry
<1>2. end \in Nat /\ at + Header + plain <= end /\ end % Block = 0 /\ end % 4 = 0
  <2>1. at + Header + plain \in Nat
    BY <1>1 DEF Header
  <2> HIDE DEF plain
  <2> QED BY <2>1, RoundupIs
<1>3. padded \in Nat /\ plain <= padded /\ at + Header + padded = end
  <2> HIDE DEF end
  <2> QED BY <1>1, <1>2 DEF Header
<1>4. namesize = IF flag /\ entry.size >= Block /\ padded <= PathMax THEN padded ELSE plain
  BY DEF NameSize
<1> HIDE DEF padded, end
<1>5. /\ namesize \in Nat /\ plain <= namesize
      /\ namesize <= PathMax \/ entry.name >= PathMax
  BY <1>1, <1>3, <1>4 DEF PathMax
<1> HIDE DEF namesize
<1>6. data \in Nat /\ at + Header + namesize <= data
  <2>1. at + Header + namesize \in Nat
    BY <1>5 DEF Header
  <2> QED BY <2>1, RoundupIs
<1>7. flag /\ entry.size >= Block => data % Block = 0 \/ namesize = plain
  <2>1. CASE namesize = padded
    <3>1. data = end
      BY <1>2, <1>3, <2>1, RoundupIs
    <3> QED BY <1>2, <3>1
  <2> QED BY <1>4, <2>1
<1> HIDE DEF data
<1>8. Roundup(data + entry.size, 4) \in Nat /\ data + entry.size <= Roundup(data + entry.size, 4)
  BY <1>1, <1>6, RoundupIs
<1>9. /\ r.at = at /\ r.name = entry.name /\ r.namesize = namesize /\ r.size = entry.size
      /\ r.data = data /\ r.next = Roundup(data + entry.size, 4)
      /\ r = [at |-> at, name |-> entry.name, namesize |-> namesize, size |-> entry.size,
              data |-> data, next |-> Roundup(data + entry.size, 4)]
  BY DEF Record, namesize, data
<1>10. r \in Placed
  BY <1>1, <1>5, <1>6, <1>8, <1>9 DEF Placed
<1>11. r.at < r.next /\ r.data >= r.at + Header + entry.name + 1
  BY <1>1, <1>5, <1>6, <1>8, <1>9 DEF Header
<1>12. data = Roundup(at + Header + namesize, 4)
  BY DEF data
<1> HIDE DEF r
<1> QED BY <1>1, <1>5, <1>7, <1>8, <1>9, <1>10, <1>11, <1>12 DEF r

\* What is written: each record follows the one before.
Before(records, i) == IF i = 1 THEN 0 ELSE records[i - 1].next
Laid(records, entries, flag) ==
  /\ records \in Seq(Placed) /\ Len(records) = Len(entries) + 1
  /\ \A i \in 1..Len(entries) : records[i] = Record(Before(records, i), entries[i], flag)
  /\ records[Len(records)] = Record(Before(records, Len(records)), Trailer, FALSE)

LEMMA PutIs ==
  ASSUME NEW records \in Seq(Placed), NEW entry \in Entry, NEW flag \in BOOLEAN
  PROVE  LET more == Put(records, entry, flag) IN
         /\ more \in Seq(Placed) /\ Len(more) = Len(records) + 1
         /\ \A i \in 1..Len(records) : more[i] = records[i]
         /\ more[Len(more)] = Record(Before(more, Len(more)), entry, flag)
<1> DEFINE at == IF records = <<>> THEN 0 ELSE records[Len(records)].next
           r == Record(at, entry, flag)
           more == Append(records, r)
<1>1. at \in Nat
  <2>1. CASE records # <<>>
    <3>1. records[Len(records)] \in Placed
      BY <2>1
    <3> QED BY <2>1, <3>1 DEF Placed
  <2> QED BY <2>1
<1> HIDE DEF at
<1>2. r \in Placed
  BY <1>1, RecordIs
<1> HIDE DEF r
<1>3. more \in Seq(Placed) /\ Len(more) = Len(records) + 1 /\ more[Len(records) + 1] = r
      /\ \A i \in 1..Len(records) : more[i] = records[i]
  BY <1>2
<1>4. Before(more, Len(more)) = at
  <2>1. CASE records = <<>>
    BY <1>3, <2>1 DEF Before, at
  <2>2. CASE records # <<>>
    <3>1. Len(records) \in 1..Len(records) /\ Len(more) # 1 /\ Len(more) - 1 = Len(records)
      BY <1>3, <2>2
    <3> QED BY <1>3, <2>2, <3>1 DEF Before, at
  <2> QED BY <2>1, <2>2
<1>5. Put(records, entry, flag) = more
  BY DEF Put, r, at
<1> HIDE DEF more
<1> QED BY <1>3, <1>4, <1>5 DEF r

LEMMA WrittenIs ==
  ASSUME NEW entries \in Seq(Entry), NEW flag \in BOOLEAN
  PROVE  Laid(Written(entries, flag), entries, flag)
<1> DEFINE N == Len(entries)
           Def(f) == f = [n \in 0..N |-> IF n = 0 THEN <<>> ELSE Put(f[n - 1], entries[n], flag)]
           Step == [n \in Nat |-> [records \in Seq(Placed) |-> IF n \in 1..N THEN Put(records, entries[n], flag) ELSE records]]
           base == <<>>
<1>1. N \in Nat /\ base \in Seq(Placed)
  OBVIOUS
<1>2. Step \in [Nat -> [Seq(Placed) -> Seq(Placed)]]
  <2>1. ASSUME NEW n \in Nat, NEW records \in Seq(Placed)
        PROVE  (IF n \in 1..N THEN Put(records, entries[n], flag) ELSE records) \in Seq(Placed)
    <3>1. CASE n \in 1..N
      <4>1. entries[n] \in Entry
        BY <3>1
      <4> QED BY <3>1, <4>1, PutIs
    <3> QED BY <3>1
  <2> QED BY <2>1
<1>3. \E f : IsRecursive(Seq(Placed), base, Step, N, f)
  <2> HIDE DEF Step, N, base
  <2> QED BY <1>1, <1>2, Recursion
<1>4. PICK f : IsRecursive(Seq(Placed), base, Step, N, f)
  BY <1>3
<1>5. /\ f \in [0..N -> Seq(Placed)] /\ f[0] = base
      /\ \A n \in 1..N : f[n] = Put(f[n - 1], entries[n], flag)
  <2>1. f \in [0..N -> Seq(Placed)] /\ f[0] = base /\ \A n \in 1..N : f[n] = Step[n][f[n - 1]]
    BY <1>4 DEF IsRecursive
  <2>2. \A n \in 1..N : n \in Nat /\ f[n - 1] \in Seq(Placed)
    BY <1>1, <2>1
  <2> QED BY <2>1, <2>2
<1>6. Def(f)
  <2>1. \A n \in 0..N : n # 0 => n \in 1..N
    BY <1>1
  <2>2. \A n \in 0..N : f[n] = IF n = 0 THEN <<>> ELSE Put(f[n - 1], entries[n], flag)
    BY <1>5, <2>1
  <2> HIDE DEF N
  <2> QED BY <1>5, <2>2
<1>7. PICK g : Def(g) /\ Written(entries, flag) = Put(g[N], Trailer, FALSE)
  BY <1>6 DEF Written
<1>8. g[0] = <<>> /\ \A n \in 1..N : g[n] = Put(g[n - 1], entries[n], flag)
  BY <1>1, <1>7
<1> DEFINE Good(n) == /\ g[n] \in Seq(Placed) /\ Len(g[n]) = n
                      /\ \A i \in 1..n : g[n][i] = Record(Before(g[n], i), entries[i], flag)
           X == {n \in 0..N : ~Good(n)}
<1>9. ASSUME X # {} PROVE FALSE
  <2>1. PICK n \in X : \A j \in X : n <= j
    <3>1. X \subseteq Nat
      BY <1>1
    <3> HIDE DEF X
    <3> QED BY <1>9, <3>1, LeastNatural
  <2>2. n \in 0..N /\ ~Good(n)
    BY <2>1
  <2>3. n # 0
    <3>1. <<>> \in Seq(Placed) /\ Len(<<>>) = 0 /\ 1..0 = {}
      OBVIOUS
    <3>2. Good(0)
      BY <1>8, <3>1
    <3> HIDE DEF Good
    <3> QED BY <2>2, <3>2
  <2>4. n \in 1..N /\ n - 1 \in 0..N /\ Good(n - 1)
    <3>1. n \in 1..N /\ n - 1 \in 0..N /\ n - 1 \notin X
      <4> HIDE DEF X, Good
      <4> QED BY <1>1, <2>1, <2>2, <2>3
    <3> HIDE DEF Good
    <3> QED BY <3>1
  <2> DEFINE records == g[n - 1]
             more == g[n]
  <2>5. /\ records \in Seq(Placed) /\ Len(records) = n - 1
        /\ \A i \in 1..n - 1 : records[i] = Record(Before(records, i), entries[i], flag)
    BY <2>4
  <2>6. more = Put(records, entries[n], flag) /\ entries[n] \in Entry
    BY <1>8, <2>4
  <2> HIDE DEF more, records
  <2>7. /\ more \in Seq(Placed) /\ Len(more) = n /\ \A i \in 1..n - 1 : more[i] = records[i]
        /\ more[n] = Record(Before(more, n), entries[n], flag)
    <3>1. n \in Nat /\ n - 1 \in Nat /\ (n - 1) + 1 = n
      BY <2>4
    <3>2. LET put == Put(records, entries[n], flag) IN
          /\ put \in Seq(Placed) /\ Len(put) = Len(records) + 1
          /\ \A i \in 1..Len(records) : put[i] = records[i]
          /\ put[Len(put)] = Record(Before(put, Len(put)), entries[n], flag)
      BY <2>5, <2>6, PutIs
    <3> HIDE DEF Good
    <3> QED BY <2>5, <2>6, <3>1, <3>2
  <2>8. \A i \in 1..n - 1 : Before(more, i) = Before(records, i)
    <3>1. \A i \in 1..n - 1 : i # 1 => i - 1 \in 1..n - 1
      BY <2>4
    <3> HIDE DEF Good
    <3> QED BY <2>7, <3>1 DEF Before
  <2>9. \A i \in 1..n : i \in 1..n - 1 \/ i = n
    BY <2>4
  <2> QED BY <2>2, <2>5, <2>7, <2>8, <2>9 DEF more
<1>10. Good(N)
  BY <1>1, <1>9
<1> DEFINE records == g[N]
           whole == Put(records, Trailer, FALSE)
<1>11. /\ records \in Seq(Placed) /\ Len(records) = N
       /\ \A i \in 1..N : records[i] = Record(Before(records, i), entries[i], flag)
  BY <1>10
<1> HIDE DEF records
<1>12. Trailer \in Entry
  BY DEF Trailer, Entry
<1> HIDE DEF N
<1>13. /\ whole \in Seq(Placed) /\ Len(whole) = N + 1 /\ \A i \in 1..N : whole[i] = records[i]
       /\ whole[Len(whole)] = Record(Before(whole, Len(whole)), Trailer, FALSE)
  BY <1>11, <1>12, PutIs
<1> HIDE DEF whole
<1>14. \A i \in 1..N : Before(whole, i) = Before(records, i)
  BY <1>1, <1>13 DEF Before
<1>15. Laid(whole, entries, flag)
  BY <1>11, <1>13, <1>14 DEF Laid, N
<1> QED BY <1>7, <1>15 DEF whole, records

\* Places in an archive: a record begins where the one before it ends.
LEMMA PlacesAre ==
  ASSUME NEW entries \in Seq(Entry), NEW flag \in BOOLEAN, NEW records, Laid(records, entries, flag)
  PROVE  /\ \A i \in 1..Len(records) : records[i].at = Before(records, i) /\ records[i].at \in Nat
         /\ \A i \in 1..Len(records) : records[i].data = Roundup(records[i].at + Header + records[i].namesize, 4)
         /\ \A i \in 1..Len(records) : records[i].next = Roundup(records[i].data + records[i].size, 4)
         /\ \A i \in 1..Len(records) : records[i].at < records[i].next
         /\ \A i, j \in 1..Len(records) : i < j => records[i].at < records[j].at
<1> DEFINE N == Len(entries)
<1>1. N \in Nat /\ records \in Seq(Placed) /\ Len(records) = N + 1
  BY DEF Laid
<1>2. ASSUME NEW i \in 1..N + 1 PROVE Before(records, i) \in Nat
  <2>1. CASE i # 1
    <3>1. records[i - 1] \in Placed
      BY <1>1, <2>1
    <3> QED BY <2>1, <3>1 DEF Before, Placed
  <2> QED BY <2>1 DEF Before
<1>3. ASSUME NEW i \in 1..N + 1
      PROVE  \E entry \in Entry, f \in BOOLEAN : records[i] = Record(Before(records, i), entry, f)
  <2>1. CASE i = N + 1
    <3>1. Trailer \in Entry
      BY DEF Trailer, Entry
    <3> QED BY <1>1, <2>1, <3>1 DEF Laid
  <2>2. CASE i # N + 1
    <3>1. i \in 1..N /\ entries[i] \in Entry
      BY <1>1, <2>2
    <3> QED BY <3>1 DEF Laid
  <2> QED BY <2>1, <2>2
<1> HIDE DEF N
<1>4. ASSUME NEW i \in 1..N + 1
      PROVE  /\ records[i].at = Before(records, i) /\ records[i].at \in Nat
             /\ records[i].data = Roundup(records[i].at + Header + records[i].namesize, 4)
             /\ records[i].next = Roundup(records[i].data + records[i].size, 4)
             /\ records[i].at < records[i].next
  <2>1. Before(records, i) \in Nat
    BY <1>2
  <2>2. PICK entry \in Entry, f \in BOOLEAN : records[i] = Record(Before(records, i), entry, f)
    BY <1>3
  <2> QED BY <2>1, <2>2, RecordIs
<1> DEFINE X == {j \in 1..N + 1 : \E i \in 1..j - 1 : ~(records[i].at < records[j].at)}
<1>5. ASSUME X # {} PROVE FALSE
  <2>1. PICK j \in X : \A k \in X : j <= k
    <3>1. X \subseteq Nat
      BY <1>1
    <3> HIDE DEF X
    <3> QED BY <1>5, <3>1, LeastNatural
  <2>2. PICK i \in 1..j - 1 : ~(records[i].at < records[j].at)
    BY <2>1
  <2>3. j \in 1..N + 1 /\ j - 1 \in 1..N + 1 /\ j # 1 /\ i \in 1..N + 1
    BY <1>1, <2>1, <2>2
  <2>4. records[j].at = records[j - 1].next /\ records[j - 1].at < records[j - 1].next
    BY <1>4, <2>3 DEF Before
  <2>5. i # j - 1
    BY <2>2, <2>4
  <2>6. j - 1 \notin X
    <3> HIDE DEF X
    <3> QED BY <1>1, <2>1, <2>3
  <2>7. i \in 1..(j - 1) - 1
    BY <1>1, <2>2, <2>3, <2>5
  <2>8. records[i].at < records[j - 1].at
    BY <2>3, <2>6, <2>7
  <2>9. records[i].at \in Nat /\ records[j - 1].at \in Nat /\ records[j].at \in Nat
    BY <1>4, <2>3
  <2> QED BY <2>2, <2>4, <2>8, <2>9
<1>6. \A i, j \in 1..N + 1 : i < j => records[i].at < records[j].at
  <2>1. ASSUME NEW i \in 1..N + 1, NEW j \in 1..N + 1, i < j PROVE records[i].at < records[j].at
    <3>1. i \in 1..j - 1
      BY <1>1, <2>1
    <3> QED BY <1>5, <3>1
  <2> QED BY <2>1
<1> QED BY <1>1, <1>4, <1>6

\* What read() has yielded after k records of an archive that begins at `start`.
Yielded(records, start, k) ==
  [i \in 1..k |-> [name |-> records[i].name, size |-> records[i].size, data |-> start + records[i].data]]
Reading(records, start, k) ==
  [off |-> start + records[k + 1].at, ended |-> FALSE, found |-> Yielded(records, start, k)]

\* A turn that finds itself at a record yields it and goes to the next.
LEMMA TurnIs ==
  ASSUME NEW entries \in Seq(Entry), NEW flag \in BOOLEAN, NEW records, Laid(records, entries, flag),
         NEW start \in Nat, NEW k \in 0..Len(entries)
  PROVE  ReadTurn(records, start, Reading(records, start, k)) =
           IF k = Len(entries) THEN [Reading(records, start, k) EXCEPT !.ended = TRUE]
           ELSE Reading(records, start, k + 1)
<1> DEFINE N == Len(entries)
           reading == Reading(records, start, k)
           headers == {r \in Range(records) : start + r.at = reading.off}
           record == records[k + 1]
           data == Align(start, reading.off + Header + record.namesize)
           more == [name |-> record.name, size |-> record.size, data |-> data]
<1>1. /\ N \in Nat /\ Len(records) = N + 1 /\ k \in Nat /\ k + 1 \in 1..N + 1
      /\ DOMAIN records = 1..N + 1 /\ \A i \in 1..N + 1 : records[i] \in Placed
  BY DEF Laid
<1> HIDE DEF N
<1>2. reading.off = start + record.at
  BY DEF Reading
<1> HIDE DEF reading
<1>3. headers = {record}
  <2>1. record \in Range(records)
    BY <1>1 DEF Range
  <2>2. ASSUME NEW r \in Range(records), start + r.at = reading.off PROVE r = record
    <3>1. PICK i \in 1..N + 1 : r = records[i]
      BY <1>1 DEF Range
    <3>2. records[i].at = records[k + 1].at
      <4>1. records[i].at \in Nat /\ records[k + 1].at \in Nat
        BY <1>1, PlacesAre
      <4> QED BY <1>2, <2>2, <3>1, <4>1, SMTT(30)
    <3>3. ~(i < k + 1) /\ ~(k + 1 < i)
      BY <1>1, <3>2, PlacesAre
    <3> QED BY <1>1, <3>1, <3>3
  <2> HIDE DEF record
  <2> QED BY <1>2, <2>1, <2>2
<1>4. data = start + record.data /\ Align(start, data + record.size) = start + record.next
  <2>1. /\ record.data = Roundup(record.at + Header + record.namesize, 4)
        /\ record.next = Roundup(record.data + record.size, 4)
    BY <1>1, PlacesAre
  <2>2. record \in Placed
    BY <1>1
  <2> HIDE DEF record
  <2>3. /\ (reading.off + Header + record.namesize) - start = record.at + Header + record.namesize
        /\ ((start + record.data) + record.size) - start = record.data + record.size
    BY <1>2, <2>2 DEF Placed, Header
  <2> QED BY <2>1, <2>3 DEF Align
<1>5. record.at = records[Len(records)].at <=> k = N
  <2>1. CASE k = N
    BY <1>1, <2>1
  <2>2. CASE k # N
    <3>1. k + 1 < N + 1 /\ N + 1 \in 1..N + 1
      BY <1>1, <2>2
    <3>2. record.at < records[N + 1].at /\ record.at \in Nat /\ records[N + 1].at \in Nat
      BY <1>1, <3>1, PlacesAre
    <3> QED BY <1>1, <2>2, <3>2
  <2> QED BY <2>1, <2>2
<1>6. ReadTurn(records, start, reading) =
        IF record.at = records[Len(records)].at THEN [reading EXCEPT !.ended = TRUE]
        ELSE [off |-> Align(start, data + record.size), ended |-> FALSE, found |-> Append(reading.found, more)]
  <2> HIDE DEF record
  <2>1. (CHOOSE r \in {record} : TRUE) = record
    OBVIOUS
  <2> QED BY <1>3, <2>1 DEF ReadTurn, headers, data
<1>7. CASE k = N
  BY <1>5, <1>6, <1>7 DEF reading, N
<1>8. CASE k # N
  <2>1. k + 1 \in 1..N /\ (k + 1) + 1 \in 1..N + 1 /\ (k + 1) + 1 # 1 /\ ((k + 1) + 1) - 1 = k + 1
    BY <1>1, <1>8
  <2>2. records[(k + 1) + 1].at = record.next
    <3>1. records[(k + 1) + 1].at = Before(records, (k + 1) + 1)
      BY <1>1, <2>1, PlacesAre
    <3> QED BY <2>1, <3>1 DEF Before
  <2>3. Append(reading.found, more) = Yielded(records, start, k + 1)
    <3>1. reading.found = Yielded(records, start, k)
      BY DEF reading, Reading
    <3> DEFINE Y(i) == [name |-> records[i].name, size |-> records[i].size, data |-> start + records[i].data]
    <3>2. more = Y(k + 1)
      BY <1>4
    <3> HIDE DEF more
    <3>3. Yielded(records, start, k) = [i \in 1..k |-> Y(i)] /\ Yielded(records, start, k + 1) = [i \in 1..k + 1 |-> Y(i)]
      BY DEF Yielded
    <3> HIDE DEF Y
    <3>4. Append([i \in 1..k |-> Y(i)], Y(k + 1)) = [i \in 1..k + 1 |-> Y(i)]
      BY <1>1
    <3> QED BY <3>1, <3>2, <3>3, <3>4
  <2> HIDE DEF data, more, record
  <2>4. ReadTurn(records, start, reading) =
          [off |-> start + record.next, ended |-> FALSE, found |-> Yielded(records, start, k + 1)]
    BY <1>4, <1>5, <1>6, <1>8, <2>3
  <2>5. Reading(records, start, k + 1) =
          [off |-> start + record.next, ended |-> FALSE, found |-> Yielded(records, start, k + 1)]
    BY <2>2 DEF Reading
  <2> QED BY <1>8, <2>4, <2>5 DEF reading, N
<1> QED BY <1>7, <1>8

\* Reading from the start of an archive yields what was written, and ends.
LEMMA ReadIs ==
  ASSUME NEW entries \in Seq(Entry), NEW flag \in BOOLEAN, NEW records, Laid(records, entries, flag),
         NEW start \in Nat
  PROVE  Read(records, start) = [Reading(records, start, Len(entries)) EXCEPT !.ended = TRUE]
<1> DEFINE N == Len(entries)
           base == [off |-> start, ended |-> FALSE, found |-> <<>>]
           Def(f) == f = [n \in 0..Len(records) |-> IF n = 0 THEN base ELSE ReadTurn(records, start, f[n - 1])]
           end == [Reading(records, start, N) EXCEPT !.ended = TRUE]
           f == [n \in 0..N + 1 |-> IF n = N + 1 THEN end ELSE Reading(records, start, n)]
<1>1. N \in Nat /\ Len(records) = N + 1
  BY DEF Laid
<1>2. Reading(records, start, 0) = base
  <2>1. records[1].at = 0
    <3>1. records[1].at = Before(records, 1)
      BY <1>1, PlacesAre
    <3> QED BY <3>1 DEF Before
  <2>2. Yielded(records, start, 0) = <<>>
    BY DEF Yielded
  <2>3. 0 + 1 = 1 /\ start + 0 = start
    OBVIOUS
  <2>4. Reading(records, start, 0) = [off |-> start + records[1].at, ended |-> FALSE, found |-> <<>>]
    BY <2>2, <2>3 DEF Reading
  <2> QED BY <2>1, <2>3, <2>4
<1>3. \A k \in 0..N : ReadTurn(records, start, Reading(records, start, k)) =
                        IF k = N THEN end ELSE Reading(records, start, k + 1)
  BY TurnIs
<1> HIDE DEF end, base, N
<1>4. f[0] = base /\ f[N + 1] = end
  BY <1>1, <1>2
<1>5. ASSUME NEW n \in 1..N + 1 PROVE f[n] = ReadTurn(records, start, f[n - 1])
  <2>1. n - 1 \in 0..N /\ n - 1 # N + 1 /\ (n - 1 = N <=> n = N + 1) /\ (n - 1) + 1 = n /\ n - 1 \in 0..N + 1 /\ n \in 0..N + 1
    BY <1>1
  <2>2. f[n - 1] = Reading(records, start, n - 1)
    BY <2>1
  <2>3. f[n] = IF n = N + 1 THEN end ELSE Reading(records, start, n)
    BY <2>1
  <2> HIDE DEF f
  <2> QED BY <1>3, <2>1, <2>2, <2>3
<1>6. Def(f)
  <2>1. \A n \in 0..Len(records) : n # 0 => n \in 1..N + 1
    BY <1>1
  <2>2. f = [n \in 0..Len(records) |-> f[n]]
    BY <1>1
  <2> HIDE DEF f
  <2> QED BY <1>4, <1>5, <2>1, <2>2
<1>7. PICK g : Def(g) /\ Read(records, start) = g[Len(records)]
  <2> HIDE DEF f
  <2> QED BY <1>6 DEF Read, base
<1>8. \A n \in 1..N + 1 : g[n] = ReadTurn(records, start, g[n - 1])
  BY <1>1, <1>7
<1> DEFINE X == {n \in 0..N + 1 : g[n] # f[n]}
<1>9. ASSUME X # {} PROVE FALSE
  <2>0. g[0] = f[0]
    BY <1>1, <1>4, <1>7
  <2> HIDE DEF f
  <2>1. PICK n \in X : \A j \in X : n <= j
    <3>1. X \subseteq Nat
      BY <1>1
    <3> HIDE DEF X
    <3> QED BY <1>9, <3>1, LeastNatural
  <2>2. n \in 1..N + 1 /\ n - 1 \in 0..N + 1 /\ g[n] # f[n]
    BY <1>1, <2>0, <2>1
  <2>3. g[n - 1] = f[n - 1]
    <3>1. n - 1 \notin X
      <4> HIDE DEF X
      <4> QED BY <1>1, <2>1, <2>2
    <3> QED BY <2>2, <3>1
  <2> QED BY <1>5, <1>8, <2>2, <2>3
<1> HIDE DEF f
<1>10. g[N + 1] = f[N + 1]
  BY <1>1, <1>9
<1> QED BY <1>1, <1>4, <1>7, <1>10 DEF end, N

\* What add_dir, add_symlink and add_file write for any entries is what read() yields,
\* wherever the archive begins; no payload overlaps what follows, payloads that file
\* systems may share begin at a block, and no name field is stretched beyond what the
\* kernel accepts (archive/cpio.py).
THEOREM LayoutsAreSound ==
  \A entries \in Seq(Entry), blockAlign \in BOOLEAN, start \in Nat : LayoutSoundFor(entries, blockAlign, start)
<1> SUFFICES ASSUME NEW entries \in Seq(Entry), NEW blockAlign \in BOOLEAN, NEW start \in Nat
             PROVE  LayoutSoundFor(entries, blockAlign, start)
  OBVIOUS
<1> DEFINE N == Len(entries)
           records == Written(entries, blockAlign)
           read == Read(records, start)
           found == read.found
<1>1. Laid(records, entries, blockAlign)
  BY WrittenIs
<1> HIDE DEF records
<1>2. read = [Reading(records, start, N) EXCEPT !.ended = TRUE]
  BY <1>1, ReadIs
<1> HIDE DEF read
<1>3. read.ended /\ found = Yielded(records, start, N) /\ N \in Nat /\ Len(records) = N + 1
  BY <1>1, <1>2 DEF Reading, Laid
<1> HIDE DEF found
<1>4. Len(found) = N /\ DOMAIN found = 1..N
  BY <1>3 DEF Yielded
<1>5. ASSUME NEW i \in 1..N
      PROVE  /\ found[i] = [name |-> entries[i].name, size |-> entries[i].size, data |-> start + records[i].data]
             /\ records[i].data >= records[i].at + Header + entries[i].name + 1
             /\ records[i].data + entries[i].size <= records[i + 1].at
             /\ records[i].namesize <= PathMax \/ entries[i].name >= PathMax
             /\ blockAlign /\ entries[i].size >= Block =>
                  \/ records[i].data % Block = 0
                  \/ records[i].namesize = entries[i].name + 1
  <2>1. i + 1 \in 1..N + 1 /\ i \in 1..N + 1 /\ i + 1 # 1 /\ (i + 1) - 1 = i /\ entries[i] \in Entry
    BY <1>3
  <2>2. records[i] = Record(Before(records, i), entries[i], blockAlign) /\ Before(records, i) \in Nat
    <3>1. records[i] = Record(Before(records, i), entries[i], blockAlign)
      BY <1>1 DEF Laid
    <3>2. records[i].at = Before(records, i) /\ records[i].at \in Nat
      BY <1>1, <1>3, <2>1, PlacesAre
    <3> QED BY <3>1, <3>2
  <2>3. records[i + 1].at = records[i].next
    <3>1. records[i + 1].at = Before(records, i + 1)
      BY <1>1, <1>3, <2>1, PlacesAre
    <3> QED BY <2>1, <3>1 DEF Before
  <2>4. /\ records[i].name = entries[i].name /\ records[i].size = entries[i].size
        /\ records[i].data >= records[i].at + Header + entries[i].name + 1
        /\ records[i].data + entries[i].size <= records[i].next
        /\ records[i].namesize <= PathMax \/ entries[i].name >= PathMax
        /\ blockAlign /\ entries[i].size >= Block =>
             records[i].data % Block = 0 \/ records[i].namesize = entries[i].name + 1
    BY <2>1, <2>2, RecordIs
  <2>5. found[i] = [name |-> records[i].name, size |-> records[i].size, data |-> start + records[i].data]
    BY <1>3 DEF Yielded
  <2> HIDE DEF N
  <2> QED BY <2>3, <2>4, <2>5
<1> HIDE DEF N
<1> QED BY <1>3, <1>4, <1>5 DEF LayoutSoundFor, N, records, read, found

-----------------------------------------------------------------------------
(* Versions.  That compare is an order is shown of one turn of its loop    *)
(* first: of three versions, a turn leaves all three comparisons open and  *)
(* got as far, or decides them as an order would (Together3).  Turns get   *)
(* on, so compare is the function its recursion describes, and the place   *)
(* where an order would fail first is none.                                *)

\* A run of characters of an alphabet ends in one place.
EndsAt(s, i, alphabet, e) ==
  /\ e \in i..Len(s) + 1
  /\ \A k \in i..e - 1 : s[k] \in alphabet
  /\ e <= Len(s) => s[e] \notin alphabet

\* It ends somewhere, and nowhere else.
LEMMA EndIs ==
  ASSUME NEW s \in Seq(Nat), NEW i \in 1..Len(s) + 1, NEW alphabet
  PROVE  /\ \E e : EndsAt(s, i, alphabet, e)
         /\ \A d, e : EndsAt(s, i, alphabet, d) /\ EndsAt(s, i, alphabet, e) => d = e
<1> DEFINE X == {k \in i..Len(s) + 1 : k <= Len(s) => s[k] \notin alphabet}
<1>0. Len(s) \in Nat /\ i \in Nat
  OBVIOUS
<1>1. X \subseteq Nat /\ Len(s) + 1 \in X
  BY <1>0
<1>2. PICK e \in X : \A k \in X : e <= k
  <2>1. X # {}
    BY <1>1
  <2> HIDE DEF X
  <2> QED BY <1>1, <2>1, LeastNatural
<1>3. EndsAt(s, i, alphabet, e)
  <2>1. ASSUME NEW k \in i..e - 1 PROVE s[k] \in alphabet
    BY <1>0, <1>2
  <2> QED BY <1>0, <1>2, <2>1 DEF EndsAt
<1>4. ASSUME NEW d, NEW f, EndsAt(s, i, alphabet, d), EndsAt(s, i, alphabet, f) PROVE d = f
  <2>1. d \in i..Len(s) + 1 /\ f \in i..Len(s) + 1
    BY <1>4 DEF EndsAt
  <2>2. ~(d < f)
    <3>1. SUFFICES ASSUME d < f PROVE FALSE
      OBVIOUS
    <3>2. d \in i..f - 1 /\ d <= Len(s)
      BY <1>0, <2>1, <3>1
    <3> QED BY <1>4, <3>2 DEF EndsAt
  <2>3. ~(f < d)
    <3>1. SUFFICES ASSUME f < d PROVE FALSE
      OBVIOUS
    <3>2. f \in i..d - 1 /\ f <= Len(s)
      BY <1>0, <2>1, <3>1
    <3> QED BY <1>4, <3>2 DEF EndsAt
  <2> QED BY <1>0, <2>1, <2>2, <2>3
<1> QED BY <1>3, <1>4

\* PrefixEnd is where.
LEMMA PrefixEndIs ==
  ASSUME NEW s \in Seq(Nat), NEW i \in 1..Len(s) + 1, NEW alphabet
  PROVE  /\ EndsAt(s, i, alphabet, PrefixEnd(s, i, alphabet))
         /\ \A e : EndsAt(s, i, alphabet, e) => e = PrefixEnd(s, i, alphabet)
<1>1. PrefixEnd(s, i, alphabet) = CHOOSE e \in i..Len(s) + 1 : EndsAt(s, i, alphabet, e)
  BY DEF PrefixEnd, EndsAt
<1>2. PICK e : EndsAt(s, i, alphabet, e)
  BY EndIs
<1>3. e \in i..Len(s) + 1
  BY <1>2 DEF EndsAt
<1>4. EndsAt(s, i, alphabet, PrefixEnd(s, i, alphabet))
  BY <1>1, <1>2, <1>3, Zenon
<1> QED BY <1>4, EndIs

\* SkipSeparators is where the characters of no meaning end.
LEMMA SkipIs ==
  ASSUME NEW s \in Seq(Nat), NEW i \in 1..Len(s) + 1
  PROVE  /\ EndsAt(s, i, Nat \ Valid, SkipSeparators(s, i))
         /\ \A e : EndsAt(s, i, Nat \ Valid, e) => e = SkipSeparators(s, i)
<1>0. Len(s) \in Nat /\ \A k \in 1..Len(s) : s[k] \in Nat
  OBVIOUS
<1>1. \A e : e \in i..Len(s) + 1 =>
        (EndsAt(s, i, Nat \ Valid, e) <=>
           (\A k \in i..e - 1 : s[k] \notin Valid) /\ (e <= Len(s) => s[e] \in Valid))
  <2> SUFFICES ASSUME NEW e \in i..Len(s) + 1
               PROVE  EndsAt(s, i, Nat \ Valid, e) <=>
                        (\A k \in i..e - 1 : s[k] \notin Valid) /\ (e <= Len(s) => s[e] \in Valid)
    OBVIOUS
  <2>1. \A k \in i..e - 1 : s[k] \in Nat
    BY <1>0
  <2>2. e <= Len(s) => s[e] \in Nat
    BY <1>0
  <2> QED BY <2>1, <2>2 DEF EndsAt
<1>2. PICK e : EndsAt(s, i, Nat \ Valid, e)
  BY EndIs
<1>3. e \in i..Len(s) + 1
  BY <1>2 DEF EndsAt
<1> DEFINE Stops(d) == (\A k \in i..d - 1 : s[k] \notin Valid) /\ (d <= Len(s) => s[d] \in Valid)
<1>4. SkipSeparators(s, i) = CHOOSE d \in i..Len(s) + 1 : Stops(d)
  BY DEF SkipSeparators
<1>5. Stops(e)
  BY <1>1, <1>2, <1>3
<1>6. SkipSeparators(s, i) \in i..Len(s) + 1 /\ Stops(SkipSeparators(s, i))
  <2> HIDE DEF Stops
  <2> QED BY <1>3, <1>4, <1>5, Zenon
<1>7. EndsAt(s, i, Nat \ Valid, SkipSeparators(s, i))
  BY <1>1, <1>6
<1> QED BY <1>7, EndIs

\* Of two sequences one is first where they first differ, or ends there.
Precedes(x, y) ==
  \E k \in 1..Len(y) :
    /\ k <= Len(x) + 1
    /\ \A m \in 1..k - 1 : x[m] = y[m]
    /\ k <= Len(x) => x[k] < y[k]

\* Nothing precedes what precedes it, nor itself.
LEMMA PrecedesIs ==
  ASSUME NEW x \in Seq(Nat), NEW y \in Seq(Nat)
  PROVE  /\ ~(Precedes(x, y) /\ Precedes(y, x))
         /\ Precedes(x, y) => x # y
<1>1. \A s \in {x, y} : Len(s) \in Nat /\ \A k \in 1..Len(s) : s[k] \in Nat
  OBVIOUS
<1>2. ASSUME Precedes(x, y), Precedes(y, x) PROVE FALSE
  <2>1. PICK k \in 1..Len(y) : /\ k <= Len(x) + 1 /\ \A m \in 1..k - 1 : x[m] = y[m]
                               /\ k <= Len(x) => x[k] < y[k]
    BY <1>2 DEF Precedes
  <2>2. PICK n \in 1..Len(x) : /\ n <= Len(y) + 1 /\ \A m \in 1..n - 1 : y[m] = x[m]
                               /\ n <= Len(y) => y[n] < x[n]
    BY <1>2 DEF Precedes
  <2>3. CASE k < n
    <3>1. k \in 1..n - 1 /\ k <= Len(x) /\ x[k] \in Nat /\ y[k] \in Nat
      BY <1>1, <2>1, <2>2, <2>3
    <3> QED BY <2>1, <2>2, <3>1
  <2>4. CASE n < k
    <3>1. n \in 1..k - 1 /\ n <= Len(y) /\ x[n] \in Nat /\ y[n] \in Nat
      BY <1>1, <2>1, <2>2, <2>4
    <3> QED BY <2>1, <2>2, <3>1
  <2>5. CASE k = n
    <3>1. k <= Len(x) /\ n <= Len(y) /\ x[k] \in Nat /\ y[k] \in Nat
      BY <1>1, <2>1, <2>2, <2>5
    <3> QED BY <2>1, <2>2, <2>5, <3>1
  <2> QED BY <1>1, <2>1, <2>2, <2>3, <2>4, <2>5
<1>3. ASSUME Precedes(x, y), x = y PROVE FALSE
  BY <1>2, <1>3
<1> QED BY <1>2, <1>3

\* What precedes what precedes a string precedes it.
LEMMA PrecedesOn ==
  ASSUME NEW x \in Seq(Nat), NEW y \in Seq(Nat), NEW z \in Seq(Nat), Precedes(x, y), Precedes(y, z)
  PROVE  Precedes(x, z)
<1>1. \A s \in {x, y, z} : Len(s) \in Nat /\ \A k \in 1..Len(s) : s[k] \in Nat
  OBVIOUS
<1>2. PICK k \in 1..Len(y) : /\ k <= Len(x) + 1 /\ \A m \in 1..k - 1 : x[m] = y[m]
                             /\ k <= Len(x) => x[k] < y[k]
  BY DEF Precedes
<1>3. PICK n \in 1..Len(z) : /\ n <= Len(y) + 1 /\ \A m \in 1..n - 1 : y[m] = z[m]
                             /\ n <= Len(y) => y[n] < z[n]
  BY DEF Precedes
<1>4. CASE k < n
  <2>1. k \in 1..n - 1 /\ k \in 1..Len(z) /\ y[k] = z[k]
    BY <1>1, <1>2, <1>3, <1>4
  <2>2. \A m \in 1..k - 1 : x[m] = z[m]
    BY <1>1, <1>2, <1>3, <1>4
  <2> QED BY <1>2, <2>1, <2>2 DEF Precedes
<1>5. CASE n < k
  <2>1. n \in 1..k - 1 /\ n <= Len(y) /\ x[n] = y[n] /\ n <= Len(x) + 1
    BY <1>1, <1>2, <1>3, <1>5, SMTT(30)
  <2>2. \A m \in 1..n - 1 : x[m] = z[m]
    BY <1>1, <1>2, <1>3, <1>5
  <2> QED BY <1>3, <2>1, <2>2 DEF Precedes
<1>6. CASE k = n
  <2>1. \A m \in 1..n - 1 : x[m] = z[m]
    BY <1>1, <1>2, <1>3, <1>6
  <2>2. ASSUME n <= Len(x) PROVE x[n] < z[n]
    <3>1. x[n] \in Nat /\ n <= Len(y)
      BY <1>1, <1>2, <1>6, <2>2
    <3>2. y[n] \in Nat /\ z[n] \in Nat
      BY <1>1, <3>1
    <3>3. x[n] < y[n] /\ y[n] < z[n]
      BY <1>2, <1>3, <1>6, <2>2, <3>1
    <3> QED BY <3>1, <3>2, <3>3
  <2> QED BY <1>2, <1>3, <1>6, <2>1, <2>2 DEF Precedes
<1> QED BY <1>1, <1>2, <1>3, <1>4, <1>5, <1>6

\* Lexicographic says which of two strings precedes the other.
LEMMA LexicographicIs ==
  ASSUME NEW x \in Seq(Nat), NEW y \in Seq(Nat)
  PROVE  /\ Lexicographic(x, y) = IF Precedes(x, y) THEN -1 ELSE IF Precedes(y, x) THEN 1 ELSE 0
         /\ ~Precedes(x, y) /\ ~Precedes(y, x) => x = y
<1> DEFINE differ == {k \in 1..Len(x) : k <= Len(y) /\ x[k] # y[k]}
<1>1. \A s \in {x, y} : Len(s) \in Nat /\ \A k \in 1..Len(s) : s[k] \in Nat
  OBVIOUS
<1>2. CASE differ = {}
  <2>1. \A k \in 1..Len(x) : k <= Len(y) => x[k] = y[k]
    BY <1>2
  <2>2. Lexicographic(x, y) = Sign(Len(x), Len(y))
    BY <1>2 DEF Lexicographic
  <2>3. Len(x) < Len(y) => Precedes(x, y)
    <3> SUFFICES ASSUME Len(x) < Len(y) PROVE Precedes(x, y)
      OBVIOUS
    <3>1. Len(x) + 1 \in 1..Len(y) /\ (Len(x) + 1) - 1 = Len(x) /\ ~(Len(x) + 1 <= Len(x))
      BY <1>1
    <3>2. \A m \in 1..Len(x) : x[m] = y[m]
      BY <1>1, <2>1
    <3> DEFINE k == Len(x) + 1
    <3>3. k \in 1..Len(y) /\ k <= Len(x) + 1 /\ ~(k <= Len(x)) /\ \A m \in 1..k - 1 : x[m] = y[m]
      BY <1>1, <3>1, <3>2
    <3> HIDE DEF k
    <3> QED BY <3>3 DEF Precedes
  <2>4. Len(y) < Len(x) => Precedes(y, x)
    <3> SUFFICES ASSUME Len(y) < Len(x) PROVE Precedes(y, x)
      OBVIOUS
    <3>1. Len(y) + 1 \in 1..Len(x) /\ (Len(y) + 1) - 1 = Len(y) /\ ~(Len(y) + 1 <= Len(y))
      BY <1>1
    <3>2. \A m \in 1..Len(y) : y[m] = x[m]
      BY <1>1, <2>1
    <3> DEFINE k == Len(y) + 1
    <3>3. k \in 1..Len(x) /\ k <= Len(y) + 1 /\ ~(k <= Len(y)) /\ \A m \in 1..k - 1 : y[m] = x[m]
      BY <1>1, <3>1, <3>2
    <3> HIDE DEF k
    <3> QED BY <3>3 DEF Precedes
  <2>5. Len(x) = Len(y) => x = y
    <3> SUFFICES ASSUME Len(x) = Len(y) PROVE x = y
      OBVIOUS
    <3>1. \A k \in 1..Len(x) : x[k] = y[k]
      BY <1>1, <2>1
    <3> QED BY <3>1, SeqEqual
  <2> QED BY <1>1, <2>2, <2>3, <2>4, <2>5, PrecedesIs DEF Sign
<1>3. CASE differ # {}
  <2>1. PICK k \in differ : \A m \in differ : k <= m
    <3>1. differ \subseteq Nat
      BY <1>1
    <3> HIDE DEF differ
    <3> QED BY <1>3, <3>1, LeastNatural
  <2>2. (CHOOSE n \in differ : \A m \in differ : n <= m) = k
    <3>1. differ \subseteq Nat
      BY <1>1
    <3>2. \A n \in differ : (\A m \in differ : n <= m) => n = k
      <4> HIDE DEF differ
      <4> SUFFICES ASSUME NEW n \in differ, \A m \in differ : n <= m PROVE n = k
        OBVIOUS
      <4>1. n <= k /\ k <= n /\ n \in Nat /\ k \in Nat
        BY <2>1, <3>1
      <4> QED BY <4>1
    <3> HIDE DEF differ
    <3> QED BY <2>1, <3>2
  <2>3. Lexicographic(x, y) = Sign(x[k], y[k])
    <3>1. Lexicographic(x, y) =
            LET n == CHOOSE n \in differ : \A m \in differ : n <= m IN Sign(x[n], y[n])
      BY <1>3 DEF Lexicographic
    <3> HIDE DEF differ
    <3> QED BY <2>2, <3>1
  <2>4. /\ k \in 1..Len(x) /\ k \in 1..Len(y) /\ x[k] # y[k] /\ x[k] \in Nat /\ y[k] \in Nat
        /\ \A m \in 1..k - 1 : x[m] = y[m]
    <3>1. k \in 1..Len(x) /\ k \in 1..Len(y) /\ x[k] # y[k]
      BY <1>1
    <3>2. x[k] \in Nat /\ y[k] \in Nat
      BY <1>1, <3>1
    <3>3. ASSUME NEW m \in 1..k - 1 PROVE x[m] = y[m]
      <4>1. m \in 1..Len(x) /\ m <= Len(y) /\ ~(k <= m)
        BY <1>1, <3>1
      <4>2. m \notin differ
        <5> HIDE DEF differ
        <5> QED BY <2>1, <4>1
      <4> QED BY <4>1, <4>2
    <3> QED BY <3>1, <3>2, <3>3
  <2> HIDE DEF differ
  <2>7. k <= Len(x) + 1 /\ k <= Len(y) + 1
    BY <1>1, <2>4
  <2>5. x[k] < y[k] => Precedes(x, y)
    BY <2>4, <2>7 DEF Precedes
  <2>6. y[k] < x[k] => Precedes(y, x)
    BY <2>4, <2>7 DEF Precedes
  <2> QED BY <2>3, <2>4, <2>5, <2>6, PrecedesIs DEF Sign
<1> QED BY <1>2, <1>3

\* How three things are that compare as these numbers say.
Between(a, b, c) ==
  /\ a <= 0 /\ b <= 0 => c <= 0 /\ (a < 0 \/ b < 0 => c < 0)
  /\ a >= 0 /\ b >= 0 => c >= 0 /\ (a > 0 \/ b > 0 => c > 0)

\* Strings are in one order, and only equal ones are level.
LEMMA LexicographicOrders ==
  ASSUME NEW x \in Seq(Nat), NEW y \in Seq(Nat), NEW z \in Seq(Nat)
  PROVE  /\ Lexicographic(x, y) \in {-1, 0, 1}
         /\ Lexicographic(y, x) = -Lexicographic(x, y)
         /\ Lexicographic(x, y) = 0 <=> x = y
         /\ Between(Lexicographic(x, y), Lexicographic(y, z), Lexicographic(x, z))
<1>1. /\ Precedes(x, y) /\ Precedes(y, z) => Precedes(x, z)
      /\ Precedes(z, y) /\ Precedes(y, x) => Precedes(z, x)
  BY PrecedesOn
<1>2. \A s, t \in {x, y, z} : ~(Precedes(s, t) /\ Precedes(t, s)) /\ ~Precedes(s, s)
  BY PrecedesIs
<1>3. \A s, t \in {x, y, z} :
        /\ Lexicographic(s, t) = IF Precedes(s, t) THEN -1 ELSE IF Precedes(t, s) THEN 1 ELSE 0
        /\ ~Precedes(s, t) /\ ~Precedes(t, s) => s = t
  BY LexicographicIs
<1>4. Lexicographic(x, y) \in {-1, 0, 1} /\ Lexicographic(y, x) = -Lexicographic(x, y)
  BY <1>2, <1>3
<1>5. Lexicographic(x, y) = 0 <=> x = y
  BY <1>2, <1>3
<1>6. Between(Lexicographic(x, y), Lexicographic(y, z), Lexicographic(x, z))
  BY <1>1, <1>2, <1>3 DEF Between
<1> QED BY <1>4, <1>5, <1>6

\* So are naturals.
LEMMA SignOrders ==
  ASSUME NEW x \in Nat, NEW y \in Nat, NEW z \in Nat
  PROVE  /\ Sign(x, y) \in {-1, 0, 1} /\ Sign(y, x) = -Sign(x, y) /\ (Sign(x, y) = 0 <=> x = y)
         /\ Between(Sign(x, y), Sign(y, z), Sign(x, z))
BY DEF Sign, Between

Significant(s) == SubSeq(s, PrefixEnd(s, 1, {Zero}), Len(s))

\* What is left of a number without its zeros.
LEMMA SignificantIs ==
  ASSUME NEW s \in Seq(Nat)
  PROVE  Significant(s) \in Seq(Nat)
<1>1. 1 \in 1..Len(s) + 1 /\ Len(s) \in Nat
  OBVIOUS
<1>2. PrefixEnd(s, 1, {Zero}) \in 1..Len(s) + 1
  BY <1>1, PrefixEndIs DEF EndsAt
<1>3. \A k \in PrefixEnd(s, 1, {Zero})..Len(s) : s[k] \in Nat
  BY <1>1, <1>2
<1>4. PrefixEnd(s, 1, {Zero}) \in Int /\ Len(s) \in Int
  BY <1>1, <1>2
<1> QED BY <1>3, <1>4, SubSeqProperties DEF Significant

\* So are numbers by their digits.
LEMMA DigitsOrder ==
  ASSUME NEW x \in Seq(Nat), NEW y \in Seq(Nat), NEW z \in Seq(Nat)
  PROVE  /\ CompareDigits(x, y) \in {-1, 0, 1}
         /\ CompareDigits(y, x) = -CompareDigits(x, y)
         /\ Between(CompareDigits(x, y), CompareDigits(y, z), CompareDigits(x, z))
<1>1. \A s \in {x, y, z} : Significant(s) \in Seq(Nat) /\ Len(Significant(s)) \in Nat
  BY SignificantIs
<1>2. \A s, t \in {x, y, z} : CompareDigits(s, t) =
        IF Len(Significant(s)) # Len(Significant(t)) THEN Sign(Len(Significant(s)), Len(Significant(t)))
        ELSE Lexicographic(Significant(s), Significant(t))
  BY DEF CompareDigits, Significant
<1> DEFINE a == Significant(x)
           b == Significant(y)
           c == Significant(z)
<1>3. /\ Lexicographic(a, b) \in {-1, 0, 1} /\ Lexicographic(b, c) \in {-1, 0, 1} /\ Lexicographic(a, c) \in {-1, 0, 1}
      /\ Lexicographic(b, a) = -Lexicographic(a, b)
      /\ Between(Lexicographic(a, b), Lexicographic(b, c), Lexicographic(a, c))
  BY <1>1, LexicographicOrders
<1> HIDE DEF a, b, c
<1>4. Len(a) \in Nat /\ Len(b) \in Nat /\ Len(c) \in Nat
  BY <1>1 DEF a, b, c
<1>5. /\ CompareDigits(x, y) = IF Len(a) # Len(b) THEN Sign(Len(a), Len(b)) ELSE Lexicographic(a, b)
      /\ CompareDigits(y, x) = IF Len(b) # Len(a) THEN Sign(Len(b), Len(a)) ELSE Lexicographic(b, a)
      /\ CompareDigits(y, z) = IF Len(b) # Len(c) THEN Sign(Len(b), Len(c)) ELSE Lexicographic(b, c)
      /\ CompareDigits(x, z) = IF Len(a) # Len(c) THEN Sign(Len(a), Len(c)) ELSE Lexicographic(a, c)
  BY <1>2 DEF a, b, c
<1>6. CompareDigits(x, y) \in {-1, 0, 1} /\ CompareDigits(y, x) = -CompareDigits(x, y)
  BY <1>3, <1>4, <1>5 DEF Sign
<1>7. Between(CompareDigits(x, y), CompareDigits(y, z), CompareDigits(x, z))
  BY <1>3, <1>4, <1>5 DEF Sign, Between
<1> QED BY <1>6, <1>7

\* Where a turn has got to in two versions.
Seen(l, r) == [verdict : {-1, 0, 1, Open}, i : 1..Len(l) + 1, j : 1..Len(r) + 1]
\* The same, from the other side.
Mirrored(s) == [verdict |-> IF s.verdict = Open THEN Open ELSE -s.verdict, i |-> s.j, j |-> s.i]

\* How three versions have been compared: a with b, b with c, and a with c.
Together3(x, y, z) ==
  /\ x.verdict = Open /\ y.verdict = Open => z.verdict = Open /\ z.i = x.i /\ x.j = y.i /\ z.j = y.j
  /\ x.verdict = Open /\ y.verdict # Open => y.verdict # 0 /\ z.verdict = y.verdict
  /\ x.verdict # Open /\ y.verdict = Open => x.verdict # 0 /\ z.verdict = x.verdict
  /\ x.verdict # Open /\ y.verdict # Open =>
       /\ x.verdict <= 0 /\ y.verdict <= 0 => z.verdict <= 0 /\ (x.verdict < 0 \/ y.verdict < 0 => z.verdict < 0)
       /\ x.verdict >= 0 /\ y.verdict >= 0 =>
            z.verdict # Open /\ z.verdict >= 0 /\ (x.verdict > 0 \/ y.verdict > 0 => z.verdict > 0)

\* A part of a turn goes on from where the one before got to, unless it has decided.
LEMMA PartsOn ==
  ASSUME NEW a, NEW b, NEW c,
         NEW x \in Seen(a, b), NEW y \in Seen(b, c), NEW z \in Seen(a, c),
         NEW xx \in Seen(a, b), NEW yy \in Seen(b, c), NEW zz \in Seen(a, c),
         Together3(x, y, z),
         x.verdict # Open => xx = x, y.verdict # Open => yy = y, z.verdict # Open => zz = z,
         x.verdict = Open /\ y.verdict = Open /\ z.verdict = Open => Together3(xx, yy, zz)
  PROVE  Together3(xx, yy, zz)
<1>1. \A v \in {x.verdict, y.verdict, z.verdict, xx.verdict, yy.verdict, zz.verdict} : v \in {-1, 0, 1, 2}
  BY DEF Seen, Open
<1>2. CASE x.verdict = Open /\ y.verdict = Open
  BY <1>2 DEF Together3
<1>3. CASE x.verdict = Open /\ y.verdict # Open
  BY <1>1, <1>3 DEF Together3, Open
<1>4. CASE x.verdict # Open /\ y.verdict = Open
  BY <1>1, <1>4 DEF Together3, Open
<1>5. CASE x.verdict # Open /\ y.verdict # Open
  BY <1>1, <1>5 DEF Together3, Open
<1> QED BY <1>2, <1>3, <1>4, <1>5

Positions(l) == 1..Len(l) + 1

\* What there is to say of where a turn is.
LEMMA AtIs ==
  ASSUME NEW l \in Seq(Nat), NEW r \in Seq(Nat), NEW i \in Positions(l), NEW j \in Positions(r)
  PROVE  At(i, j) \in Seen(l, r) /\ At(i, j).verdict = Open /\ At(i, j).i = i /\ At(i, j).j = j
         /\ \A v \in {-1, 0, 1} : Decided(v) \in Seen(l, r) /\ Decided(v).verdict = v /\ v # Open
         /\ \A s \in Seen(l, r) : s.verdict = Open => s = At(s.i, s.j)
<1>1. 1 \in Positions(l) /\ 1 \in Positions(r)
  BY DEF Positions
<1>2. ASSUME NEW s \in Seen(l, r), s.verdict = Open PROVE s = At(s.i, s.j)
  BY <1>2 DEF Seen, At
<1> QED BY <1>1, <1>2 DEF At, Seen, Decided, Open, Positions

\* Take.
LEMMA TakeIs ==
  ASSUME NEW l \in Seq(Nat), NEW r \in Seq(Nat), NEW s \in Seen(l, r), NEW c
  PROVE  LET t == Take(s, l, r, c) IN
         /\ t \in Seen(l, r)
         /\ s.verdict # Open => t = s
         /\ s.verdict = Open /\ t.verdict = Open =>
              /\ Has(l, s.i, c) = Has(r, s.j, c)
              /\ t = IF Has(l, s.i, c) THEN At(s.i + 1, s.j + 1) ELSE s
         /\ s.verdict = Open /\ t.verdict # Open =>
              /\ Has(l, s.i, c) # Has(r, s.j, c)
              /\ t = Decided(IF Has(l, s.i, c) THEN -1 ELSE 1)
<1>1. s.i \in Positions(l) /\ s.j \in Positions(r) /\ Len(l) \in Nat /\ Len(r) \in Nat
  BY DEF Seen, Positions
<1>2. /\ Has(l, s.i, c) => s.i + 1 \in Positions(l)
      /\ Has(r, s.j, c) => s.j + 1 \in Positions(r)
  <2>1. (Has(l, s.i, c) => s.i <= Len(l)) /\ (Has(r, s.j, c) => s.j <= Len(r))
    BY DEF Has
  <2> QED BY <1>1, <2>1 DEF Positions
<1>7. Has(l, s.i, c) \in BOOLEAN /\ Has(r, s.j, c) \in BOOLEAN
  BY DEF Has
<1>3. CASE s.verdict # Open
  BY <1>3 DEF Take
<1>4. CASE s.verdict = Open /\ Has(l, s.i, c) # Has(r, s.j, c)
  <2>1. Take(s, l, r, c) = Decided(IF Has(l, s.i, c) THEN -1 ELSE 1)
    BY <1>4, <1>7 DEF Take
  <2> QED BY <1>1, <1>4, <2>1, AtIs
<1>5. CASE s.verdict = Open /\ Has(l, s.i, c) /\ Has(r, s.j, c)
  <2>1. Take(s, l, r, c) = At(s.i + 1, s.j + 1)
    BY <1>5 DEF Take
  <2> QED BY <1>2, <1>5, <2>1, AtIs
<1>6. CASE s.verdict = Open /\ ~Has(l, s.i, c) /\ ~Has(r, s.j, c)
  <2>1. Take(s, l, r, c) = s
    BY <1>6 DEF Take
  <2>2. Has(l, s.i, c) = Has(r, s.j, c)
    BY <1>6, <1>7
  <2> QED BY <1>6, <2>1, <2>2
<1> QED BY <1>3, <1>4, <1>5, <1>6, <1>7

\* A marker is taken alike from either side,
LEMMA TakeMirrors ==
  ASSUME NEW l \in Seq(Nat), NEW r \in Seq(Nat), NEW s \in Seen(l, r), NEW c
  PROVE  Take(Mirrored(s), r, l, c) = Mirrored(Take(s, l, r, c)) /\ Mirrored(s) \in Seen(r, l)
<1>1. Mirrored(s) \in Seen(r, l) /\ Mirrored(s).i = s.j /\ Mirrored(s).j = s.i
      /\ (Mirrored(s).verdict = Open <=> s.verdict = Open)
  BY DEF Mirrored, Seen, Open
<1>2. Has(l, s.i, c) \in BOOLEAN /\ Has(r, s.j, c) \in BOOLEAN
  BY DEF Has
<1>3. CASE s.verdict # Open
  BY <1>1, <1>3 DEF Take
<1>4. CASE s.verdict = Open /\ Has(l, s.i, c) /\ Has(r, s.j, c)
  <2>1. Take(s, l, r, c) = At(s.i + 1, s.j + 1) /\ Take(Mirrored(s), r, l, c) = At(s.j + 1, s.i + 1)
    BY <1>1, <1>4 DEF Take
  <2> QED BY <1>1, <2>1 DEF Mirrored, At
<1>5. CASE s.verdict = Open /\ ~Has(l, s.i, c) /\ ~Has(r, s.j, c)
  <2>1. Take(s, l, r, c) = s /\ Take(Mirrored(s), r, l, c) = Mirrored(s)
    BY <1>1, <1>5 DEF Take
  <2> QED BY <1>1, <2>1
<1>6. CASE s.verdict = Open /\ Has(l, s.i, c) /\ ~Has(r, s.j, c)
  <2>1. Take(s, l, r, c) = Decided(-1) /\ Take(Mirrored(s), r, l, c) = Decided(1)
    BY <1>1, <1>6 DEF Take
  <2> QED BY <1>1, <2>1 DEF Mirrored, Decided, Open
<1>7. CASE s.verdict = Open /\ ~Has(l, s.i, c) /\ Has(r, s.j, c)
  <2>1. Take(s, l, r, c) = Decided(1) /\ Take(Mirrored(s), r, l, c) = Decided(-1)
    BY <1>1, <1>7 DEF Take
  <2> QED BY <1>1, <2>1 DEF Mirrored, Decided, Open
<1> QED BY <1>1, <1>2, <1>3, <1>4, <1>5, <1>6, <1>7

\* and alike of three versions.
LEMMA TakeOn ==
  ASSUME NEW a \in Seq(Nat), NEW b \in Seq(Nat), NEW c \in Seq(Nat),
         NEW x \in Seen(a, b), NEW y \in Seen(b, c), NEW z \in Seen(a, c), NEW ch,
         Together3(x, y, z)
  PROVE  Together3(Take(x, a, b, ch), Take(y, b, c, ch), Take(z, a, c, ch))
<1> DEFINE xx == Take(x, a, b, ch)
           yy == Take(y, b, c, ch)
           zz == Take(z, a, c, ch)
<1>1. ASSUME x.verdict = Open, y.verdict = Open, z.verdict = Open
      PROVE  Together3(xx, yy, zz)
  <2>1. z.i = x.i /\ x.j = y.i /\ z.j = y.j
    BY <1>1 DEF Together3
  <2> DEFINE A == Has(a, x.i, ch)
             B == Has(b, x.j, ch)
             C == Has(c, y.j, ch)
  <2>2. /\ xx.verdict = Open => A = B /\ xx = IF A THEN At(x.i + 1, x.j + 1) ELSE x
        /\ xx.verdict # Open => A # B /\ xx = Decided(IF A THEN -1 ELSE 1)
    BY <1>1, TakeIs
  <2>3. /\ yy.verdict = Open => B = C /\ yy = IF B THEN At(y.i + 1, y.j + 1) ELSE y
        /\ yy.verdict # Open => B # C /\ yy = Decided(IF B THEN -1 ELSE 1)
    BY <1>1, <2>1, TakeIs
  <2>4. /\ zz.verdict = Open => A = C /\ zz = IF A THEN At(z.i + 1, z.j + 1) ELSE z
        /\ zz.verdict # Open => A # C /\ zz = Decided(IF A THEN -1 ELSE 1)
    BY <1>1, <2>1, TakeIs
  <2>5. A \in BOOLEAN /\ B \in BOOLEAN /\ C \in BOOLEAN
    BY DEF Has
  <2> HIDE DEF A, B, C, xx, yy, zz
  <2> QED BY <1>1, <2>1, <2>2, <2>3, <2>4, <2>5 DEF Together3, At, Decided, Open
<1>2. /\ xx \in Seen(a, b) /\ yy \in Seen(b, c) /\ zz \in Seen(a, c)
      /\ x.verdict # Open => xx = x
      /\ y.verdict # Open => yy = y
      /\ z.verdict # Open => zz = z
  BY TakeIs
<1> HIDE DEF xx, yy, zz
<1>3. Together3(xx, yy, zz)
  BY <1>1, <1>2, PartsOn
<1> QED BY <1>3 DEF xx, yy, zz

\* Ended.
LEMMA EndedIs ==
  ASSUME NEW l \in Seq(Nat), NEW r \in Seq(Nat), NEW s \in Seen(l, r)
  PROVE  LET t == Ended(s, l, r) IN
         /\ t \in Seen(l, r)
         /\ s.verdict # Open => t = s
         /\ s.verdict = Open /\ t.verdict = Open => t = s /\ s.i <= Len(l) /\ s.j <= Len(r)
         /\ Ended(Mirrored(s), r, l) = Mirrored(t)
<1>1. /\ Mirrored(s).i = s.j /\ Mirrored(s).j = s.i
      /\ (Mirrored(s).verdict = Open <=> s.verdict = Open)
  BY DEF Mirrored, Seen, Open
<1>2. CASE s.verdict # Open \/ (s.i <= Len(l) /\ s.j <= Len(r))
  BY <1>1, <1>2 DEF Ended
<1>3. CASE s.verdict = Open /\ ~(s.i <= Len(l) /\ s.j <= Len(r))
  <2> DEFINE v == IF s.i <= Len(l) THEN 1 ELSE IF s.j <= Len(r) THEN -1 ELSE 0
  <2>1. Ended(s, l, r) = Decided(v) /\ Ended(Mirrored(s), r, l) = Decided(-v)
    BY <1>1, <1>3 DEF Ended
  <2>2. v \in {-1, 0, 1}
    OBVIOUS
  <2> HIDE DEF v
  <2>3. Decided(v) \in Seen(l, r) /\ Decided(v).verdict = v /\ v # Open
    <3>1. 1 \in Positions(l) /\ 1 \in Positions(r)
      BY DEF Positions
    <3> QED BY <2>2, <3>1, AtIs
  <2>4. Decided(-v) = Mirrored(Decided(v))
    BY <2>2 DEF Mirrored, Decided, Open
  <2> QED BY <1>3, <2>1, <2>3, <2>4
<1> QED BY <1>2, <1>3

\* Of three versions, what ends before what is ended is ended too.
LEMMA EndedOn ==
  ASSUME NEW a \in Seq(Nat), NEW b \in Seq(Nat), NEW c \in Seq(Nat),
         NEW x \in Seen(a, b), NEW y \in Seen(b, c), NEW z \in Seen(a, c),
         Together3(x, y, z)
  PROVE  Together3(Ended(x, a, b), Ended(y, b, c), Ended(z, a, c))
<1> DEFINE xx == Ended(x, a, b)
           yy == Ended(y, b, c)
           zz == Ended(z, a, c)
<1>1. ASSUME x.verdict = Open, y.verdict = Open, z.verdict = Open
      PROVE  Together3(xx, yy, zz)
  <2>1. z.i = x.i /\ x.j = y.i /\ z.j = y.j
    BY <1>1 DEF Together3
  <2> DEFINE A == x.i <= Len(a)
             B == x.j <= Len(b)
             C == y.j <= Len(c)
  <2>2. /\ xx = IF A /\ B THEN x ELSE Decided(IF A THEN 1 ELSE IF B THEN -1 ELSE 0)
        /\ yy = IF B /\ C THEN y ELSE Decided(IF B THEN 1 ELSE IF C THEN -1 ELSE 0)
        /\ zz = IF A /\ C THEN z ELSE Decided(IF A THEN 1 ELSE IF C THEN -1 ELSE 0)
    BY <1>1, <2>1 DEF Ended
  <2>3. A \in BOOLEAN /\ B \in BOOLEAN /\ C \in BOOLEAN
    OBVIOUS
  <2> HIDE DEF A, B, C, xx, yy, zz
  <2> QED BY <1>1, <2>1, <2>2, <2>3 DEF Together3, Decided, Open
<1>2. /\ xx \in Seen(a, b) /\ yy \in Seen(b, c) /\ zz \in Seen(a, c)
      /\ x.verdict # Open => xx = x
      /\ y.verdict # Open => yy = y
      /\ z.verdict # Open => zz = z
  BY EndedIs
<1> HIDE DEF xx, yy, zz
<1>3. Together3(xx, yy, zz)
  BY <1>1, <1>2, PartsOn
<1> QED BY <1>3 DEF xx, yy, zz

\* Runs of digits and of letters.
LEMMA WordIs ==
  ASSUME NEW s \in Seq(Nat), NEW i \in Positions(s), NEW alphabet
  PROVE  LET w == WordOf(s, i, alphabet) IN
         /\ w \in Seq(Nat) /\ i + Len(w) \in Positions(s)
         /\ i + Len(w) = PrefixEnd(s, i, alphabet)
         /\ \A k \in 1..Len(w) : w[k] = s[i + k - 1] /\ w[k] \in alphabet
         /\ w = <<>> <=> Len(w) = 0
         /\ w # <<>> <=> i <= Len(s) /\ s[i] \in alphabet
<1> DEFINE e == PrefixEnd(s, i, alphabet)
           w == WordOf(s, i, alphabet)
<1>1. e \in i..Len(s) + 1 /\ (\A k \in i..e - 1 : s[k] \in alphabet) /\ (e <= Len(s) => s[e] \notin alphabet)
  BY PrefixEndIs DEF EndsAt, Positions
<1> HIDE DEF e
<1>2. Len(s) \in Nat /\ i \in Nat \ {0} /\ i <= Len(s) + 1 /\ e \in Nat
  BY <1>1 DEF Positions
<1>3. \A k \in i..e - 1 : s[k] \in Nat
  BY <1>1, <1>2
<1>4. w = SubSeq(s, i, e - 1) /\ e - 1 \in Int /\ i \in Int
  BY <1>1, <1>2 DEF WordOf, e
<1> HIDE DEF w
<1>5. /\ w \in Seq(Nat)
      /\ Len(w) = IF i <= e - 1 THEN (e - 1) - i + 1 ELSE 0
      /\ \A k \in 1..(e - 1) - i + 1 : w[k] = s[i + k - 1]
  BY <1>3, <1>4, SubSeqProperties
<1>6. Len(w) = e - i
  BY <1>1, <1>2, <1>5
<1>7. \A k \in 1..Len(w) : w[k] = s[i + k - 1] /\ w[k] \in alphabet
  <2> SUFFICES ASSUME NEW k \in 1..Len(w) PROVE w[k] = s[i + k - 1] /\ w[k] \in alphabet
    OBVIOUS
  <2>1. k \in 1..(e - 1) - i + 1 /\ i + k - 1 \in i..e - 1
    BY <1>2, <1>6
  <2> QED BY <1>1, <1>5, <2>1
<1>8. i + Len(w) = e /\ e \in Positions(s)
  BY <1>1, <1>2, <1>6 DEF Positions
<1>9. w = <<>> <=> Len(w) = 0
  BY <1>5
<1>10. Len(w) # 0 <=> i <= Len(s) /\ s[i] \in alphabet
  <2>1. Len(w) # 0 => i <= Len(s) /\ s[i] \in alphabet
    <3>1. Len(w) # 0 => i \in i..e - 1 /\ i <= Len(s)
      BY <1>1, <1>2, <1>6
    <3> QED BY <1>1, <3>1
  <2>2. Len(w) = 0 => e = i
    BY <1>2, <1>6
  <2> QED BY <1>1, <2>1, <2>2
<1> QED BY <1>5, <1>7, <1>8, <1>9, <1>10 DEF w, e

NumberOrder(p, q) == IF <<>> \in {p, q} THEN Sign(Len(p), Len(q)) ELSE CompareDigits(p, q)

\* A number is after none, and numbers are in one order.
LEMMA NumberOrders ==
  ASSUME NEW x \in Seq(Nat), NEW y \in Seq(Nat), NEW z \in Seq(Nat)
  PROVE  /\ NumberOrder(x, y) \in {-1, 0, 1} /\ NumberOrder(y, x) = -NumberOrder(x, y)
         /\ NumberOrder(x, y) = 0 => (x = <<>> <=> y = <<>>)
         /\ x = <<>> /\ y # <<>> => NumberOrder(x, y) = -1
         /\ Between(NumberOrder(x, y), NumberOrder(y, z), NumberOrder(x, z))
<1>1. \A s \in {x, y, z} : Len(s) \in Nat /\ (s = <<>> <=> Len(s) = 0)
  OBVIOUS
<1>2. \A s, t \in {x, y, z} : NumberOrder(s, t) = IF s = <<>> \/ t = <<>> THEN Sign(Len(s), Len(t)) ELSE CompareDigits(s, t)
  BY DEF NumberOrder
<1>3. /\ \A s, t \in {x, y, z} : CompareDigits(s, t) \in {-1, 0, 1} /\ CompareDigits(t, s) = -CompareDigits(s, t)
      /\ Between(CompareDigits(x, y), CompareDigits(y, z), CompareDigits(x, z))
  BY DigitsOrder
<1> HIDE DEF NumberOrder
<1>4. NumberOrder(x, y) \in {-1, 0, 1} /\ NumberOrder(y, x) = -NumberOrder(x, y)
  BY <1>1, <1>2, <1>3 DEF Sign
<1>5. /\ NumberOrder(x, y) = 0 => (x = <<>> <=> y = <<>>)
      /\ x = <<>> /\ y # <<>> => NumberOrder(x, y) = -1
  BY <1>1, <1>2, <1>3 DEF Sign
<1>6. Between(NumberOrder(x, y), NumberOrder(y, z), NumberOrder(x, z))
  BY <1>1, <1>2, <1>3, SMTT(30) DEF Sign, Between
<1> QED BY <1>4, <1>5, <1>6

\* How two runs compare that are a number, or else a word.
NumberAt(s, i) == WordOf(s, i, Digits)
LettersAt(s, i) == WordOf(s, i, Letters)
RunAt(s, i) == IF NumberAt(s, i) # <<>> THEN NumberAt(s, i) ELSE LettersAt(s, i)
RunOrder(l, i, r, j) ==
  IF NumberAt(l, i) # <<>> \/ NumberAt(r, j) # <<>> THEN NumberOrder(NumberAt(l, i), NumberAt(r, j))
  ELSE Lexicographic(LettersAt(l, i), LettersAt(r, j))

\* So are runs, a number being after a word.
LEMMA RunOrders ==
  ASSUME NEW a \in Seq(Nat), NEW b \in Seq(Nat), NEW c \in Seq(Nat),
         NEW i \in Positions(a), NEW j \in Positions(b), NEW k \in Positions(c)
  PROVE  /\ RunOrder(a, i, b, j) \in {-1, 0, 1} /\ RunOrder(b, j, a, i) = -RunOrder(a, i, b, j)
         /\ RunOrder(a, i, b, j) = 0 => (NumberAt(a, i) = <<>> <=> NumberAt(b, j) = <<>>)
         /\ Between(RunOrder(a, i, b, j), RunOrder(b, j, c, k), RunOrder(a, i, c, k))
<1> DEFINE x == NumberAt(a, i)
           y == NumberAt(b, j)
           z == NumberAt(c, k)
           xw == LettersAt(a, i)
           yw == LettersAt(b, j)
           zw == LettersAt(c, k)
<1>1. \A s \in {x, y, z, xw, yw, zw} : s \in Seq(Nat)
  BY WordIs DEF NumberAt, LettersAt
<1>2. /\ RunOrder(a, i, b, j) = IF x # <<>> \/ y # <<>> THEN NumberOrder(x, y) ELSE Lexicographic(xw, yw)
      /\ RunOrder(b, j, a, i) = IF x # <<>> \/ y # <<>> THEN NumberOrder(y, x) ELSE Lexicographic(yw, xw)
      /\ RunOrder(b, j, c, k) = IF y # <<>> \/ z # <<>> THEN NumberOrder(y, z) ELSE Lexicographic(yw, zw)
      /\ RunOrder(a, i, c, k) = IF x # <<>> \/ z # <<>> THEN NumberOrder(x, z) ELSE Lexicographic(xw, zw)
  BY DEF RunOrder
<1> HIDE DEF x, y, z, xw, yw, zw
<1>3. /\ \A s, t \in {x, y, z} :
            /\ NumberOrder(s, t) \in {-1, 0, 1} /\ NumberOrder(t, s) = -NumberOrder(s, t)
            /\ NumberOrder(s, t) = 0 => (s = <<>> <=> t = <<>>)
            /\ s = <<>> /\ t # <<>> => NumberOrder(s, t) = -1
      /\ Between(NumberOrder(x, y), NumberOrder(y, z), NumberOrder(x, z))
  BY <1>1, NumberOrders
<1>4. /\ \A s, t \in {xw, yw, zw} :
            Lexicographic(s, t) \in {-1, 0, 1} /\ Lexicographic(t, s) = -Lexicographic(s, t)
      /\ Between(Lexicographic(xw, yw), Lexicographic(yw, zw), Lexicographic(xw, zw))
  BY <1>1, LexicographicOrders
<1>5. RunOrder(a, i, b, j) \in {-1, 0, 1} /\ RunOrder(b, j, a, i) = -RunOrder(a, i, b, j)
  BY <1>2, <1>3, <1>4
<1>6. RunOrder(a, i, b, j) = 0 => (x = <<>> <=> y = <<>>)
  BY <1>2, <1>3
<1>7. Between(RunOrder(a, i, b, j), RunOrder(b, j, c, k), RunOrder(a, i, c, k))
  <2>1. CASE x = <<>> /\ y = <<>> /\ z = <<>>
    BY <1>2, <1>4, <2>1
  <2>2. CASE ~(x = <<>> /\ y = <<>> /\ z = <<>>)
    <3>1. CASE (x # <<>> /\ y # <<>>) \/ (y # <<>> /\ z # <<>>) \/ (x # <<>> /\ z # <<>>)
      BY <1>2, <1>3, <3>1
    <3>2. CASE x # <<>> /\ y = <<>> /\ z = <<>>
      BY <1>2, <1>3, <1>4, <3>2 DEF Between
    <3>3. CASE x = <<>> /\ y # <<>> /\ z = <<>>
      BY <1>2, <1>3, <1>4, <3>3 DEF Between
    <3>4. CASE x = <<>> /\ y = <<>> /\ z # <<>>
      BY <1>2, <1>3, <1>4, <3>4 DEF Between
    <3>5. \/ (x # <<>> /\ y # <<>>) \/ (y # <<>> /\ z # <<>>) \/ (x # <<>> /\ z # <<>>)
          \/ x # <<>> /\ y = <<>> /\ z = <<>>
          \/ x = <<>> /\ y # <<>> /\ z = <<>>
          \/ x = <<>> /\ y = <<>> /\ z # <<>>
      BY <2>2, Zenon
    <3> QED BY <3>1, <3>2, <3>3, <3>4, <3>5, Zenon
  <2> QED BY <2>1, <2>2, Zenon
<1> QED BY <1>5, <1>6, <1>7 DEF x, y

\* A run is got past where the other compares the same, and else decides.
LEMMA RunsIs ==
  ASSUME NEW l \in Seq(Nat), NEW r \in Seq(Nat), NEW s \in Seen(l, r)
  PROVE  /\ s.verdict # Open => RunsOf(s, l, r) = s
         /\ s.verdict = Open => RunsOf(s, l, r) =
              IF RunOrder(l, s.i, r, s.j) = 0 THEN At(s.i + Len(RunAt(l, s.i)), s.j + Len(RunAt(r, s.j)))
              ELSE Decided(RunOrder(l, s.i, r, s.j))
         /\ RunsOf(s, l, r) \in Seen(l, r)
         /\ RunsOf(Mirrored(s), r, l) = Mirrored(RunsOf(s, l, r))
<1>1. /\ Mirrored(s).i = s.j /\ Mirrored(s).j = s.i
      /\ (Mirrored(s).verdict = Open <=> s.verdict = Open)
      /\ s.i \in Positions(l) /\ s.j \in Positions(r)
  BY DEF Mirrored, Seen, Open, Positions
<1>2. CASE s.verdict # Open
  BY <1>1, <1>2 DEF RunsOf
<1>3. CASE s.verdict = Open
  <2> DEFINE i == s.i
             j == s.j
             order == RunOrder(l, i, r, j)
             x == NumberAt(l, i)
             y == NumberAt(r, j)
             u == LettersAt(l, i)
             v == LettersAt(r, j)
  <2>1. RunsOf(s, l, r) =
          IF <<x, y>> # <<<<>>, <<>>>> THEN Past(i + Len(x), j + Len(y), NumberOrder(x, y))
          ELSE Past(i + Len(u), j + Len(v), Lexicographic(u, v))
    BY <1>3 DEF RunsOf, NumberAt, LettersAt, NumberOrder
  <2>2. RunsOf(Mirrored(s), r, l) =
          IF <<y, x>> # <<<<>>, <<>>>> THEN Past(j + Len(y), i + Len(x), NumberOrder(y, x))
          ELSE Past(j + Len(v), i + Len(u), Lexicographic(v, u))
    BY <1>1, <1>3 DEF RunsOf, NumberAt, LettersAt, NumberOrder
  <2>3. /\ order \in {-1, 0, 1} /\ RunOrder(r, j, l, i) = -order
        /\ order = 0 => (x = <<>> <=> y = <<>>)
    BY <1>1, RunOrders
  <2>4. /\ order = IF x # <<>> \/ y # <<>> THEN NumberOrder(x, y) ELSE Lexicographic(u, v)
        /\ RunOrder(r, j, l, i) = IF x # <<>> \/ y # <<>> THEN NumberOrder(y, x) ELSE Lexicographic(v, u)
    BY DEF RunOrder
  <2>5. /\ RunAt(l, i) = IF x # <<>> THEN x ELSE u
        /\ RunAt(r, j) = IF y # <<>> THEN y ELSE v
    BY DEF RunAt
  <2>6. i + Len(RunAt(l, i)) \in Positions(l) /\ j + Len(RunAt(r, j)) \in Positions(r)
    <3>1. /\ i + Len(x) \in Positions(l) /\ i + Len(u) \in Positions(l)
          /\ j + Len(y) \in Positions(r) /\ j + Len(v) \in Positions(r)
      BY <1>1, WordIs DEF NumberAt, LettersAt
    <3> QED BY <2>5, <3>1
  <2> HIDE DEF x, y, u, v, i, j, order
  <2>7. \A p, q : Past(p, q, order) = IF order = 0 THEN At(p, q) ELSE Decided(order)
    BY DEF Past
  <2>8. \A p, q : Past(p, q, -order) = IF order = 0 THEN At(p, q) ELSE Decided(-order)
    BY <2>3 DEF Past
  <2>9. <<x, y>> = <<<<>>, <<>>>> <=> x = <<>> /\ y = <<>>
    OBVIOUS
  <2>10. RunsOf(s, l, r) = IF order = 0 THEN At(i + Len(RunAt(l, i)), j + Len(RunAt(r, j))) ELSE Decided(order)
    BY <2>1, <2>3, <2>4, <2>5, <2>7, <2>9
  <2>11. <<y, x>> = <<<<>>, <<>>>> <=> x = <<>> /\ y = <<>>
    OBVIOUS
  <2>12. RunsOf(Mirrored(s), r, l) =
           IF order = 0 THEN At(j + Len(RunAt(r, j)), i + Len(RunAt(l, i))) ELSE Decided(-order)
    BY <2>2, <2>3, <2>4, <2>5, <2>8, <2>11
  <2>13. RunsOf(s, l, r) \in Seen(l, r)
    <3>1. CASE order = 0
      <4>1. At(i + Len(RunAt(l, i)), j + Len(RunAt(r, j))) \in Seen(l, r)
        BY <2>6, AtIs
      <4> QED BY <2>10, <3>1, <4>1
    <3>2. CASE order # 0
      <4>1. Decided(order) \in Seen(l, r)
        BY <1>1, <2>3, AtIs
      <4> QED BY <2>10, <3>2, <4>1
    <3> QED BY <3>1, <3>2
  <2>14. \A p, q : Mirrored(At(p, q)) = At(q, p)
    BY DEF Mirrored, At
  <2>15. Mirrored(Decided(order)) = Decided(-order)
    BY <2>3 DEF Mirrored, Decided, Open
  <2>16. RunsOf(Mirrored(s), r, l) = Mirrored(RunsOf(s, l, r))
    BY <2>10, <2>12, <2>14, <2>15
  <2> QED BY <1>3, <2>10, <2>13, <2>16 DEF i, j, order
<1> QED BY <1>2, <1>3

\* Of three versions, two pairs whose runs decide decide for the third.
LEMMA RunsOn ==
  ASSUME NEW a \in Seq(Nat), NEW b \in Seq(Nat), NEW c \in Seq(Nat),
         NEW x \in Seen(a, b), NEW y \in Seen(b, c), NEW z \in Seen(a, c),
         Together3(x, y, z)
  PROVE  Together3(RunsOf(x, a, b), RunsOf(y, b, c), RunsOf(z, a, c))
<1> DEFINE xx == RunsOf(x, a, b)
           yy == RunsOf(y, b, c)
           zz == RunsOf(z, a, c)
<1>1. ASSUME x.verdict = Open, y.verdict = Open, z.verdict = Open
      PROVE  Together3(xx, yy, zz)
  <2>1. /\ z.i = x.i /\ x.j = y.i /\ z.j = y.j
        /\ x.i \in Positions(a) /\ x.j \in Positions(b) /\ y.j \in Positions(c)
    BY <1>1 DEF Together3, Seen, Positions
  <2> DEFINE A == RunOrder(a, x.i, b, x.j)
             B == RunOrder(b, x.j, c, y.j)
             C == RunOrder(a, x.i, c, y.j)
             p == x.i + Len(RunAt(a, x.i))
             q == x.j + Len(RunAt(b, x.j))
             t == y.j + Len(RunAt(c, y.j))
  <2>2. /\ xx = IF A = 0 THEN At(p, q) ELSE Decided(A)
        /\ yy = IF B = 0 THEN At(q, t) ELSE Decided(B)
        /\ zz = IF C = 0 THEN At(p, t) ELSE Decided(C)
    BY <1>1, <2>1, RunsIs
  <2>3. A \in {-1, 0, 1} /\ B \in {-1, 0, 1} /\ C \in {-1, 0, 1} /\ Between(A, B, C)
    BY <2>1, RunOrders
  <2> HIDE DEF A, B, C, p, q, t, xx, yy, zz
  <2> QED BY <2>2, <2>3 DEF Together3, At, Decided, Open, Between
<1>2. /\ xx \in Seen(a, b) /\ yy \in Seen(b, c) /\ zz \in Seen(a, c)
      /\ x.verdict # Open => xx = x
      /\ y.verdict # Open => yy = y
      /\ z.verdict # Open => zz = z
  BY RunsIs
<1> HIDE DEF xx, yy, zz
<1>3. Together3(xx, yy, zz)
  BY <1>1, <1>2, PartsOn
<1> QED BY <1>3 DEF xx, yy, zz

\* The markers are taken alike from either side,
LEMMA MarkedIs ==
  ASSUME NEW l \in Seq(Nat), NEW r \in Seq(Nat), NEW s \in Seen(l, r)
  PROVE  Marked(s, l, r) \in Seen(l, r) /\ Marked(Mirrored(s), r, l) = Mirrored(Marked(s, l, r))
<1> DEFINE s1 == Take(s, l, r, Dash)
           s2 == Take(s1, l, r, Caret)
           s3 == Take(s2, l, r, Dot)
<1>1. s1 \in Seen(l, r) /\ Take(Mirrored(s), r, l, Dash) = Mirrored(s1)
  BY TakeIs, TakeMirrors
<1> HIDE DEF s1
<1>2. s2 \in Seen(l, r) /\ Take(Mirrored(s1), r, l, Caret) = Mirrored(s2)
  BY <1>1, TakeIs, TakeMirrors
<1> HIDE DEF s2
<1>3. s3 \in Seen(l, r) /\ Take(Mirrored(s2), r, l, Dot) = Mirrored(s3)
  BY <1>2, TakeIs, TakeMirrors
<1>4. Marked(s, l, r) = s3
  BY DEF Marked, s1, s2
<1>5. Marked(Mirrored(s), r, l) = Take(Take(Take(Mirrored(s), r, l, Dash), r, l, Caret), r, l, Dot)
  BY DEF Marked
<1> HIDE DEF s3
<1> QED BY <1>1, <1>2, <1>3, <1>4, <1>5

\* and alike of three versions.
LEMMA MarkedOn ==
  ASSUME NEW a \in Seq(Nat), NEW b \in Seq(Nat), NEW c \in Seq(Nat),
         NEW x \in Seen(a, b), NEW y \in Seen(b, c), NEW z \in Seen(a, c),
         Together3(x, y, z)
  PROVE  Together3(Marked(x, a, b), Marked(y, b, c), Marked(z, a, c))
<1> DEFINE x1 == Take(x, a, b, Dash)
           y1 == Take(y, b, c, Dash)
           z1 == Take(z, a, c, Dash)
           x2 == Take(x1, a, b, Caret)
           y2 == Take(y1, b, c, Caret)
           z2 == Take(z1, a, c, Caret)
<1>1. Together3(x1, y1, z1) /\ x1 \in Seen(a, b) /\ y1 \in Seen(b, c) /\ z1 \in Seen(a, c)
  BY TakeOn, TakeIs
<1> HIDE DEF x1, y1, z1
<1>2. Together3(x2, y2, z2) /\ x2 \in Seen(a, b) /\ y2 \in Seen(b, c) /\ z2 \in Seen(a, c)
  BY <1>1, TakeOn, TakeIs
<1> HIDE DEF x2, y2, z2
<1>3. Together3(Take(x2, a, b, Dot), Take(y2, b, c, Dot), Take(z2, a, c, Dot))
  BY <1>2, TakeOn
<1>4. /\ Marked(x, a, b) = Take(x2, a, b, Dot)
      /\ Marked(y, b, c) = Take(y2, b, c, Dot)
      /\ Marked(z, a, c) = Take(z2, a, c, Dot)
  BY DEF Marked, x1, y1, z1, x2, y2, z2
<1> QED BY <1>3, <1>4

\* So is a turn as a whole, from either side,
LEMMA TurnIsOne ==
  ASSUME NEW l \in Seq(Nat), NEW r \in Seq(Nat), NEW s \in Seen(l, r)
  PROVE  Turn(s, l, r) \in Seen(l, r) /\ Turn(Mirrored(s), r, l) = Mirrored(Turn(s, l, r))
<1> DEFINE s1 == Take(s, l, r, Tilde)
           s2 == Ended(s1, l, r)
           s3 == Marked(s2, l, r)
           s4 == RunsOf(s3, l, r)
<1>1. s1 \in Seen(l, r) /\ Take(Mirrored(s), r, l, Tilde) = Mirrored(s1)
  BY TakeIs, TakeMirrors
<1> HIDE DEF s1
<1>2. s2 \in Seen(l, r) /\ Ended(Mirrored(s1), r, l) = Mirrored(s2)
  BY <1>1, EndedIs
<1> HIDE DEF s2
<1>3. s3 \in Seen(l, r) /\ Marked(Mirrored(s2), r, l) = Mirrored(s3)
  BY <1>2, MarkedIs
<1> HIDE DEF s3
<1>4. s4 \in Seen(l, r) /\ RunsOf(Mirrored(s3), r, l) = Mirrored(s4)
  BY <1>3, RunsIs
<1>5. Turn(s, l, r) = s4
  BY DEF Turn, s1, s2, s3
<1>6. Turn(Mirrored(s), r, l) =
        RunsOf(Marked(Ended(Take(Mirrored(s), r, l, Tilde), r, l), r, l), r, l)
  BY DEF Turn
<1> HIDE DEF s4
<1> QED BY <1>1, <1>2, <1>3, <1>4, <1>5, <1>6

\* and of three versions.
LEMMA TurnOn ==
  ASSUME NEW a \in Seq(Nat), NEW b \in Seq(Nat), NEW c \in Seq(Nat),
         NEW x \in Seen(a, b), NEW y \in Seen(b, c), NEW z \in Seen(a, c),
         Together3(x, y, z)
  PROVE  Together3(Turn(x, a, b), Turn(y, b, c), Turn(z, a, c))
<1> DEFINE x1 == Take(x, a, b, Tilde)
           y1 == Take(y, b, c, Tilde)
           z1 == Take(z, a, c, Tilde)
           x2 == Ended(x1, a, b)
           y2 == Ended(y1, b, c)
           z2 == Ended(z1, a, c)
           x3 == Marked(x2, a, b)
           y3 == Marked(y2, b, c)
           z3 == Marked(z2, a, c)
<1>1. Together3(x1, y1, z1) /\ x1 \in Seen(a, b) /\ y1 \in Seen(b, c) /\ z1 \in Seen(a, c)
  BY TakeOn, TakeIs
<1> HIDE DEF x1, y1, z1
<1>2. Together3(x2, y2, z2) /\ x2 \in Seen(a, b) /\ y2 \in Seen(b, c) /\ z2 \in Seen(a, c)
  BY <1>1, EndedOn, EndedIs
<1> HIDE DEF x2, y2, z2
<1>3. Together3(x3, y3, z3) /\ x3 \in Seen(a, b) /\ y3 \in Seen(b, c) /\ z3 \in Seen(a, c)
  BY <1>2, MarkedOn, MarkedIs
<1> HIDE DEF x3, y3, z3
<1>4. Together3(RunsOf(x3, a, b), RunsOf(y3, b, c), RunsOf(z3, a, c))
  BY <1>3, RunsOn
<1>5. /\ Turn(x, a, b) = RunsOf(x3, a, b)
      /\ Turn(y, b, c) = RunsOf(y3, b, c)
      /\ Turn(z, a, c) = RunsOf(z3, a, c)
  BY DEF Turn, x1, y1, z1, x2, y2, z2, x3, y3, z3
<1> QED BY <1>4, <1>5

\* A turn of the loop, whose parts that decide nothing go on.
TurnFrom(l, i, r, j) == Turn(At(SkipSeparators(l, i), SkipSeparators(r, j)), l, r)

\* Markers are got past, or there are none.
LEMMA MarkedGoesOn ==
  ASSUME NEW l \in Seq(Nat), NEW r \in Seq(Nat), NEW s \in Seen(l, r), s.verdict = Open,
         Marked(s, l, r).verdict = Open
  PROVE  \/ Marked(s, l, r).i > s.i
         \/ Marked(s, l, r) = s /\ \A c \in {Dash, Caret, Dot} : ~Has(l, s.i, c)
<1> DEFINE s1 == Take(s, l, r, Dash)
           s2 == Take(s1, l, r, Caret)
           s3 == Take(s2, l, r, Dot)
<1>1. Marked(s, l, r) = s3
  BY DEF Marked
<1>2. s1 \in Seen(l, r)
  BY TakeIs
<1>3. s2 \in Seen(l, r) /\ (s1.verdict # Open => s2 = s1)
  <2> HIDE DEF s1
  <2> QED BY <1>2, TakeIs
<1>4. s2.verdict # Open => s3 = s2
  <2> HIDE DEF s2
  <2> QED BY <1>3, TakeIs
<1>5. s1.verdict = Open /\ s2.verdict = Open /\ s3.verdict = Open
  <2> HIDE DEF s1, s2, s3
  <2> QED BY <1>1, <1>3, <1>4
<1>6. s1 = IF Has(l, s.i, Dash) THEN At(s.i + 1, s.j + 1) ELSE s
  BY <1>5, TakeIs
<1>7. s2 = IF Has(l, s1.i, Caret) THEN At(s1.i + 1, s1.j + 1) ELSE s1
  <2> HIDE DEF s1
  <2> QED BY <1>2, <1>5, TakeIs
<1>8. s3 = IF Has(l, s2.i, Dot) THEN At(s2.i + 1, s2.j + 1) ELSE s2
  <2> HIDE DEF s2
  <2> QED BY <1>3, <1>5, TakeIs
<1>9. s.i \in Nat /\ s1.i \in Nat /\ s2.i \in Nat
  BY <1>2, <1>3 DEF Seen
<1> HIDE DEF s1, s2, s3
<1>10. \A p, q : At(p, q).i = p
  BY DEF At
<1>11. CASE Has(l, s.i, Dash)
  <2>1. s1.i = s.i + 1 /\ (s2.i = s1.i \/ s2.i = s1.i + 1) /\ (s3.i = s2.i \/ s3.i = s2.i + 1)
    BY <1>6, <1>7, <1>8, <1>10, <1>11
  <2> QED BY <1>1, <1>9, <2>1
<1>12. CASE ~Has(l, s.i, Dash) /\ Has(l, s.i, Caret)
  <2>1. s1.i = s.i /\ s2.i = s1.i + 1 /\ (s3.i = s2.i \/ s3.i = s2.i + 1)
    BY <1>6, <1>7, <1>8, <1>10, <1>12
  <2> QED BY <1>1, <1>9, <2>1
<1>13. CASE ~Has(l, s.i, Dash) /\ ~Has(l, s.i, Caret) /\ Has(l, s.i, Dot)
  <2>1. s2 = s /\ s3.i = s2.i + 1
    BY <1>6, <1>7, <1>8, <1>10, <1>13
  <2> QED BY <1>1, <1>9, <2>1
<1>14. CASE ~Has(l, s.i, Dash) /\ ~Has(l, s.i, Caret) /\ ~Has(l, s.i, Dot)
  BY <1>1, <1>6, <1>7, <1>8, <1>14
<1> QED BY <1>11, <1>12, <1>13, <1>14

\* A turn that does not decide has gone through all of its parts.
LEMMA TurnParts ==
  ASSUME NEW l \in Seq(Nat), NEW r \in Seq(Nat), NEW s \in Seen(l, r), Turn(s, l, r).verdict = Open
  PROVE  LET s1 == Take(s, l, r, Tilde)
             s3 == Marked(s1, l, r)
         IN  /\ s1 \in Seen(l, r) /\ s1.verdict = Open /\ s3 \in Seen(l, r) /\ s3.verdict = Open
             /\ s.verdict = Open
             /\ s1 = IF Has(l, s.i, Tilde) THEN At(s.i + 1, s.j + 1) ELSE s
             /\ s1.i <= Len(l) /\ s1.j <= Len(r)
             /\ Turn(s, l, r) = At(s3.i + Len(RunAt(l, s3.i)), s3.j + Len(RunAt(r, s3.j)))
<1> DEFINE s1 == Take(s, l, r, Tilde)
           s2 == Ended(s1, l, r)
           s3 == Marked(s2, l, r)
           s4 == RunsOf(s3, l, r)
<1>1. Turn(s, l, r) = s4
  BY DEF Turn
<1>2. s1 \in Seen(l, r) /\ (s.verdict # Open => s1 = s)
  BY TakeIs
<1>3. /\ s2 \in Seen(l, r) /\ (s1.verdict # Open => s2 = s1)
      /\ s1.verdict = Open /\ s2.verdict = Open => s2 = s1 /\ s1.i <= Len(l) /\ s1.j <= Len(r)
  <2> HIDE DEF s1
  <2> QED BY <1>2, EndedIs
<1>4. s3 \in Seen(l, r) /\ (s2.verdict # Open => s3 = s2)
  <2> HIDE DEF s2
  <2>1. s2.verdict # Open => Marked(s2, l, r) = s2
    BY DEF Marked, Take
  <2> QED BY <1>3, <2>1, MarkedIs
<1>5. /\ s3.verdict # Open => s4 = s3
      /\ s3.verdict = Open => s4 =
           IF RunOrder(l, s3.i, r, s3.j) = 0 THEN At(s3.i + Len(RunAt(l, s3.i)), s3.j + Len(RunAt(r, s3.j)))
           ELSE Decided(RunOrder(l, s3.i, r, s3.j))
  <2> HIDE DEF s3
  <2> QED BY <1>4, RunsIs
<1>6. s.verdict = Open /\ s1.verdict = Open /\ s2.verdict = Open /\ s3.verdict = Open /\ s4.verdict = Open
  <2> HIDE DEF s1, s2, s3, s4
  <2> QED BY <1>1, <1>2, <1>3, <1>4, <1>5
<1>7. s2 = s1 /\ s1.i <= Len(l) /\ s1.j <= Len(r)
  <2> HIDE DEF s1, s2
  <2> QED BY <1>3, <1>6
<1>8. s1 = IF Has(l, s.i, Tilde) THEN At(s.i + 1, s.j + 1) ELSE s
  BY <1>6, TakeIs
<1>9. s4 = At(s3.i + Len(RunAt(l, s3.i)), s3.j + Len(RunAt(r, s3.j)))
  <2>1. s3.i \in Positions(l) /\ s3.j \in Positions(r)
    BY <1>4 DEF Seen, Positions
  <2> HIDE DEF s3, s4
  <2>2. RunOrder(l, s3.i, r, s3.j) \in {-1, 0, 1}
    BY <2>1, RunOrders
  <2>3. RunOrder(l, s3.i, r, s3.j) # 0 => s4.verdict # Open
    BY <1>5, <1>6, <2>2 DEF Decided, Open
  <2> QED BY <1>5, <1>6, <2>3
<1>10. s3 = Marked(s1, l, r)
  BY <1>7
<1> HIDE DEF s1, s2, s3, s4
<1> QED BY <1>1, <1>2, <1>4, <1>6, <1>7, <1>8, <1>9, <1>10 DEF s1

\* A turn that does not decide gets on.
LEMMA Progress ==
  ASSUME NEW l \in Seq(Nat), NEW r \in Seq(Nat), NEW i \in Positions(l), NEW j \in Positions(r)
  PROVE  /\ TurnFrom(l, i, r, j) \in Seen(l, r)
         /\ TurnFrom(l, i, r, j).verdict = Open => TurnFrom(l, i, r, j).i > i
         /\ TurnFrom(r, j, l, i) = Mirrored(TurnFrom(l, i, r, j))
<1> DEFINE p == SkipSeparators(l, i)
           q == SkipSeparators(r, j)
           s == At(p, q)
           t == Turn(s, l, r)
<1>1. /\ p \in i..Len(l) + 1 /\ (p <= Len(l) => l[p] \in Valid)
      /\ q \in j..Len(r) + 1 /\ i \in Nat \ {0} /\ j \in Nat \ {0} /\ Len(l) \in Nat /\ Len(r) \in Nat
  <2>1. EndsAt(l, i, Nat \ Valid, p) /\ EndsAt(r, j, Nat \ Valid, q)
    BY SkipIs DEF Positions
  <2>2. \A k \in 1..Len(l) : l[k] \in Nat
    OBVIOUS
  <2>3. i \in Nat \ {0} /\ j \in Nat \ {0} /\ Len(l) \in Nat /\ Len(r) \in Nat
    BY DEF Positions
  <2> HIDE DEF p, q
  <2>4. p \in i..Len(l) + 1 /\ q \in j..Len(r) + 1 /\ (p <= Len(l) => l[p] \notin Nat \ Valid)
    BY <2>1 DEF EndsAt
  <2>5. p <= Len(l) => l[p] \in Nat
    BY <2>2, <2>3, <2>4
  <2> QED BY <2>3, <2>4, <2>5
<1>2. p \in Positions(l) /\ q \in Positions(r)
  BY <1>1 DEF Positions
<1>3. s \in Seen(l, r) /\ s.verdict = Open /\ s.i = p /\ s.j = q /\ Mirrored(s) = At(q, p)
  BY <1>2, AtIs DEF Mirrored, At
<1>4. t = TurnFrom(l, i, r, j) /\ TurnFrom(r, j, l, i) = Turn(At(q, p), r, l)
  BY DEF TurnFrom
<1> HIDE DEF p, q, s
<1>5. t \in Seen(l, r) /\ Turn(Mirrored(s), r, l) = Mirrored(t)
  BY <1>3, TurnIsOne
<1>6. ASSUME t.verdict = Open PROVE t.i > i
  <2> DEFINE s1 == Take(s, l, r, Tilde)
             s3 == Marked(s1, l, r)
  <2>1. /\ s1 \in Seen(l, r) /\ s1.verdict = Open /\ s3 \in Seen(l, r) /\ s3.verdict = Open
        /\ s1 = IF Has(l, s.i, Tilde) THEN At(s.i + 1, s.j + 1) ELSE s
        /\ s1.i <= Len(l)
        /\ t = At(s3.i + Len(RunAt(l, s3.i)), s3.j + Len(RunAt(r, s3.j)))
    BY <1>3, <1>6, TurnParts
  <2> HIDE DEF s1
  <2>2. s3.i > s1.i \/ (s3 = s1 /\ \A c \in {Dash, Caret, Dot} : ~Has(l, s1.i, c))
    BY <2>1, MarkedGoesOn
  <2> HIDE DEF s3, t
  <2>3. s1.i \in Nat /\ s3.i \in Positions(l) /\ s3.i \in Nat
    BY <2>1, SMTT(30) DEF Seen, Positions
  <2>4. RunAt(l, s3.i) \in Seq(Nat) /\ Len(RunAt(l, s3.i)) \in Nat
    <3>1. NumberAt(l, s3.i) \in Seq(Nat) /\ LettersAt(l, s3.i) \in Seq(Nat)
      BY <2>3, WordIs DEF NumberAt, LettersAt
    <3> QED BY <3>1 DEF RunAt
  <2>5. t.i = s3.i + Len(RunAt(l, s3.i))
    BY <2>1 DEF At
  <2>6. CASE Has(l, s.i, Tilde)
    <3>1. s1.i = p + 1
      BY <1>3, <2>1, <2>6 DEF At
    <3> QED BY <1>1, <2>2, <2>3, <2>4, <2>5, <3>1
  <2>7. CASE ~Has(l, s.i, Tilde)
    <3>1. s1.i = p /\ p <= Len(l) /\ l[p] # Tilde
      BY <1>3, <2>1, <2>7 DEF Has
    <3>2. CASE s3.i > s1.i
      BY <1>1, <2>3, <2>4, <2>5, <3>1, <3>2
    <3>3. CASE s3 = s1 /\ \A c \in {Dash, Caret, Dot} : ~Has(l, s1.i, c)
      <4>1. l[p] \in Digits \cup Letters
        BY <1>1, <3>1, <3>3 DEF Valid, Has
      <4>2. RunAt(l, p) # <<>>
        <5>1. l[p] \in Digits => NumberAt(l, p) # <<>>
          BY <1>2, <3>1, WordIs DEF NumberAt
        <5>2. l[p] \in Letters => LettersAt(l, p) # <<>>
          BY <1>2, <3>1, WordIs DEF LettersAt
        <5> QED BY <4>1, <5>1, <5>2 DEF RunAt
      <4>3. s3.i = p
        BY <3>1, <3>3
      <4>4. Len(RunAt(l, p)) # 0
        <5>1. RunAt(l, p) \in Seq(Nat)
          BY <2>4, <4>3
        <5> QED BY <4>2, <5>1
      <4> QED BY <1>1, <2>4, <2>5, <4>3, <4>4
    <3> QED BY <2>2, <3>2, <3>3
  <2> QED BY <2>6, <2>7
<1> HIDE DEF t
<1> QED BY <1>3, <1>4, <1>5, <1>6

\* What Compare decides from each pair of positions on.
Pairs(l, r) == Positions(l) \X Positions(r)
Later(l, r, f, p) ==
  LET t == TurnFrom(l, p[1], r, p[2]) IN IF t.verdict # Open THEN t.verdict ELSE f[<<t.i, t.j>>]
IsOrder(l, r, f) == f = [p \in Pairs(l, r) |-> Later(l, r, f, p)]

\* So from any pair of positions it gets to a later one, or decides.
LEMMA PairIs ==
  ASSUME NEW l \in Seq(Nat), NEW r \in Seq(Nat), NEW p \in Pairs(l, r)
  PROVE  LET t == TurnFrom(l, p[1], r, p[2]) IN
         /\ p[1] \in Positions(l) /\ p[2] \in Positions(r) /\ p = <<p[1], p[2]>>
         /\ t \in Seen(l, r)
         /\ t.verdict = Open => t.i > p[1] /\ <<t.i, t.j>> \in Pairs(l, r)
         /\ t.verdict # Open => t.verdict \in {-1, 0, 1}
<1> DEFINE t == TurnFrom(l, p[1], r, p[2])
<1>1. p[1] \in Positions(l) /\ p[2] \in Positions(r) /\ p = <<p[1], p[2]>>
  BY DEF Pairs
<1>2. t \in Seen(l, r) /\ (t.verdict = Open => t.i > p[1])
  BY <1>1, Progress
<1> HIDE DEF t
<1>3. <<t.i, t.j>> \in Pairs(l, r) /\ (t.verdict # Open => t.verdict \in {-1, 0, 1})
  BY <1>2 DEF Seen, Pairs, Positions
<1> QED BY <1>1, <1>2, <1>3 DEF t

\* Hence there is a function such as compare looks for,
LEMMA OrderExists ==
  ASSUME NEW l \in Seq(Nat), NEW r \in Seq(Nat)
  PROVE  \E f : IsOrder(l, r, f)
<1> DEFINE P == Pairs(l, r)
           V == [P -> {-1, 0, 1}]
           base == [p \in P |-> 0]
           More(g) == [p \in P |-> Later(l, r, g, p)]
           Step == [n \in Nat |-> [g \in V |-> More(g)]]
           N == Len(l) + 1
<1>1. base \in V
  OBVIOUS
<1>2. ASSUME NEW g \in V PROVE More(g) \in V
  <2>1. ASSUME NEW p \in P PROVE Later(l, r, g, p) \in {-1, 0, 1}
    <3> DEFINE t == TurnFrom(l, p[1], r, p[2])
    <3>1. (t.verdict = Open => <<t.i, t.j>> \in P) /\ (t.verdict # Open => t.verdict \in {-1, 0, 1})
      BY PairIs
    <3>2. Later(l, r, g, p) = IF t.verdict # Open THEN t.verdict ELSE g[<<t.i, t.j>>]
      BY DEF Later
    <3> HIDE DEF t, P
    <3> QED BY <3>1, <3>2
  <2> HIDE DEF P
  <2> QED BY <2>1
<1> HIDE DEF base
<1>3. Step \in [Nat -> [V -> V]]
  <2> HIDE DEF More, V
  <2>1. [g \in V |-> More(g)] \in [V -> V]
    BY <1>2
  <2> QED BY <2>1
<1>4. N + 1 \in Nat
  OBVIOUS
<1>5. PICK g : IsRecursive(V, base, Step, N + 1, g)
  <2> HIDE DEF V, Step, N
  <2> QED BY <1>1, <1>3, <1>4, Recursion
<1>6. \A n \in 0..N + 1 : g[n] \in V
  <2> HIDE DEF V
  <2> QED BY <1>5 DEF IsRecursive
<1>7. ASSUME NEW n \in 0..N PROVE g[n + 1] = More(g[n])
  <2>1. n + 1 \in 1..N + 1 /\ (n + 1) - 1 = n /\ n \in 0..N + 1 /\ n + 1 \in Nat
    BY <1>4
  <2>2. g[n + 1] = Step[n + 1][g[n]] /\ g[n] \in V
    <3> HIDE DEF V, Step, N
    <3> QED BY <1>5, <1>6, <2>1 DEF IsRecursive
  <2> HIDE DEF V, More, N
  <2> QED BY <2>1, <2>2
<1> DEFINE Same(n) == \A p \in P : p[1] > N - n => g[n + 1][p] = g[n][p]
           X == {n \in 0..N : ~Same(n)}
<1>8. ASSUME X # {} PROVE FALSE
  <2>1. PICK n \in X : \A k \in X : n <= k
    <3>1. X \subseteq Nat
      OBVIOUS
    <3> HIDE DEF X
    <3> QED BY <1>8, <3>1, LeastNatural
  <2>2. n \in 0..N /\ ~Same(n)
    OBVIOUS
  <2>3. PICK p \in P : p[1] > N - n /\ g[n + 1][p] # g[n][p]
    BY <2>2
  <2>4. p[1] \in 1..N /\ Len(l) \in Nat
    <3>1. p[1] \in Positions(l)
      BY PairIs
    <3> HIDE DEF P
    <3> QED BY <3>1 DEF Positions
  <2>5. n # 0
    BY <2>3, <2>4
  <2>6. n - 1 \in 0..N /\ (n - 1) + 1 = n /\ N - (n - 1) = (N - n) + 1
    BY <2>2, <2>4, <2>5
  <2>7. Same(n - 1)
    <3>1. n - 1 \notin X
      <4> HIDE DEF X
      <4> QED BY <2>1, <2>2, <2>6
    <3> HIDE DEF Same
    <3> QED BY <2>6, <3>1
  <2> DEFINE t == TurnFrom(l, p[1], r, p[2])
  <2>8. t.verdict = Open => t.i > p[1] /\ <<t.i, t.j>> \in P /\ t \in Seen(l, r)
    BY PairIs
  <2>9. g[n + 1][p] = Later(l, r, g[n], p) /\ g[n][p] = Later(l, r, g[n - 1], p)
    <3>1. g[n + 1] = More(g[n]) /\ g[n] = More(g[n - 1])
      <4> HIDE DEF More, N
      <4> QED BY <1>7, <2>2, <2>6
    <3> HIDE DEF P
    <3> QED BY <3>1
  <2>10. t.verdict = Open => g[n][<<t.i, t.j>>] = g[n - 1][<<t.i, t.j>>]
    <3> SUFFICES ASSUME t.verdict = Open PROVE g[n][<<t.i, t.j>>] = g[n - 1][<<t.i, t.j>>]
      OBVIOUS
    <3>1. t.i \in Nat
      BY <2>8 DEF Seen
    <3> HIDE DEF t, P
    <3>2. t.i > N - (n - 1)
      BY <2>2, <2>3, <2>4, <2>6, <2>8, <3>1
    <3>3. <<t.i, t.j>>[1] = t.i
      OBVIOUS
    <3> QED BY <2>6, <2>7, <2>8, <3>2, <3>3
  <2>11. Later(l, r, g[n], p) = Later(l, r, g[n - 1], p)
    <3>1. \A h : Later(l, r, h, p) = IF t.verdict # Open THEN t.verdict ELSE h[<<t.i, t.j>>]
      BY DEF Later
    <3> HIDE DEF t
    <3> QED BY <2>10, <3>1
  <2> QED BY <2>3, <2>9, <2>11
<1>9. N \in 0..N /\ N - N = 0 /\ N + 1 \in 0..N + 1 /\ N \in 0..N + 1
  BY <1>4
<1>10. g[N + 1] = g[N]
  <2>1. Same(N)
    <3> HIDE DEF Same, N
    <3> QED BY <1>8, <1>9
  <2>2. ASSUME NEW p \in P PROVE p[1] > 0
    <3>1. p[1] \in Positions(l)
      BY PairIs
    <3> HIDE DEF P
    <3> QED BY <3>1 DEF Positions
  <2>3. g[N + 1] \in V /\ g[N] \in V
    BY <1>6, <1>9
  <2> HIDE DEF N, P
  <2> QED BY <1>9, <2>1, <2>2, <2>3
<1>11. g[N] = More(g[N])
  <2> HIDE DEF More, N
  <2> QED BY <1>7, <1>9, <1>10
<1> QED BY <1>11 DEF IsOrder

\* which is what the turn from a pair of positions makes of it,
LEMMA OrderAt ==
  ASSUME NEW l \in Seq(Nat), NEW r \in Seq(Nat), NEW f, IsOrder(l, r, f),
         NEW i \in Positions(l), NEW j \in Positions(r)
  PROVE  LET t == TurnFrom(l, i, r, j) IN
         f[<<i, j>>] = IF t.verdict # Open THEN t.verdict ELSE f[<<t.i, t.j>>]
<1>1. <<i, j>> \in Pairs(l, r) /\ <<i, j>>[1] = i /\ <<i, j>>[2] = j
  BY DEF Pairs
<1>2. f = [p \in Pairs(l, r) |-> Later(l, r, f, p)]
  BY DEF IsOrder
<1>3. f[<<i, j>>] = Later(l, r, f, <<i, j>>)
  BY <1>1, <1>2
<1> QED BY <1>1, <1>3 DEF Later

\* and compare is one.
LEMMA CompareIs ==
  ASSUME NEW l \in Seq(Nat), NEW r \in Seq(Nat)
  PROVE  \E f : IsOrder(l, r, f) /\ Compare(l, r) = f[<<1, 1>>]
<1> DEFINE Def(g) == g = [p \in (1..Len(l) + 1) \X (1..Len(r) + 1) |->
                            LET t == Turn(At(SkipSeparators(l, p[1]), SkipSeparators(r, p[2])), l, r)
                            IN  IF t.verdict # Open THEN t.verdict ELSE g[<<t.i, t.j>>]]
<1>1. ASSUME NEW g PROVE Def(g) <=> IsOrder(l, r, g)
  BY DEF IsOrder, Later, TurnFrom, Pairs, Positions
<1>2. Compare(l, r) = (CHOOSE g : Def(g))[<<1, 1>>]
  BY DEF Compare
<1> HIDE DEF Def
<1>3. PICK f : Def(f)
  BY <1>1, OrderExists
<1>4. Def(CHOOSE g : Def(g))
  BY <1>3, Zenon
<1> QED BY <1>1, <1>2, <1>4

\* What holds of positions if it holds of all that come later, holds of all.
LEMMA OrderValues ==
  ASSUME NEW l \in Seq(Nat), NEW r \in Seq(Nat), NEW f, IsOrder(l, r, f)
  PROVE  \A i \in Positions(l), j \in Positions(r) : f[<<i, j>>] \in {-1, 0, 1}
<1> DEFINE Bad(n) == \E i \in Positions(l), j \in Positions(r) : n = (Len(l) + 1) - i /\ f[<<i, j>>] \notin {-1, 0, 1}
           X == {n \in Nat : Bad(n)}
<1>1. ASSUME X # {} PROVE FALSE
  <2>1. PICK n \in X : \A k \in X : n <= k
    <3>1. X \subseteq Nat
      OBVIOUS
    <3> HIDE DEF X
    <3> QED BY <1>1, <3>1, LeastNatural
  <2>2. PICK i \in Positions(l), j \in Positions(r) : n = (Len(l) + 1) - i /\ f[<<i, j>>] \notin {-1, 0, 1}
    OBVIOUS
  <2> DEFINE t == TurnFrom(l, i, r, j)
  <2>3. t \in Seen(l, r) /\ (t.verdict = Open => t.i > i)
    BY Progress
  <2>4. f[<<i, j>>] = IF t.verdict # Open THEN t.verdict ELSE f[<<t.i, t.j>>]
    BY OrderAt
  <2> HIDE DEF t
  <2>5. t.i \in Positions(l) /\ t.j \in Positions(r) /\ t.verdict \in {-1, 0, 1, Open}
    BY <2>3 DEF Seen, Positions
  <2>6. t.verdict = Open /\ f[<<t.i, t.j>>] \notin {-1, 0, 1}
    BY <2>2, <2>4, <2>5
  <2>7. Bad((Len(l) + 1) - t.i)
    BY <2>5, <2>6
  <2>8. (Len(l) + 1) - t.i \in Nat /\ (Len(l) + 1) - t.i < n /\ n \in Nat
    BY <2>2, <2>3, <2>5, <2>6, SMTT(30) DEF Positions
  <2>9. (Len(l) + 1) - t.i \in X
    <3> HIDE DEF Bad
    <3> QED BY <2>7, <2>8
  <2> HIDE DEF X
  <2> QED BY <2>1, <2>8, <2>9
<1>2. ASSUME NEW i \in Positions(l), NEW j \in Positions(r), f[<<i, j>>] \notin {-1, 0, 1} PROVE FALSE
  <2>1. (Len(l) + 1) - i \in Nat
    BY DEF Positions
  <2>2. Bad((Len(l) + 1) - i)
    BY <1>2
  <2> HIDE DEF Bad
  <2> QED BY <1>1, <2>1, <2>2
<1> QED BY <1>2

\* From either side compare says the same.
LEMMA OrderMirrors ==
  ASSUME NEW l \in Seq(Nat), NEW r \in Seq(Nat), NEW f, IsOrder(l, r, f), NEW g, IsOrder(r, l, g)
  PROVE  \A i \in Positions(l), j \in Positions(r) : g[<<j, i>>] = -f[<<i, j>>]
<1> DEFINE Bad(n) == \E i \in Positions(l), j \in Positions(r) : n = (Len(l) + 1) - i /\ g[<<j, i>>] # -f[<<i, j>>]
           X == {n \in Nat : Bad(n)}
<1>1. ASSUME X # {} PROVE FALSE
  <2>1. PICK n \in X : \A k \in X : n <= k
    <3>1. X \subseteq Nat
      OBVIOUS
    <3> HIDE DEF X
    <3> QED BY <1>1, <3>1, LeastNatural
  <2>2. PICK i \in Positions(l), j \in Positions(r) : n = (Len(l) + 1) - i /\ g[<<j, i>>] # -f[<<i, j>>]
    OBVIOUS
  <2> DEFINE t == TurnFrom(l, i, r, j)
             u == TurnFrom(r, j, l, i)
  <2>3. t \in Seen(l, r) /\ (t.verdict = Open => t.i > i) /\ u = Mirrored(t)
    BY Progress
  <2>4. f[<<i, j>>] = IF t.verdict # Open THEN t.verdict ELSE f[<<t.i, t.j>>]
    BY OrderAt
  <2>5. g[<<j, i>>] = IF u.verdict # Open THEN u.verdict ELSE g[<<u.i, u.j>>]
    BY OrderAt
  <2> HIDE DEF t, u
  <2>6. t.i \in Positions(l) /\ t.j \in Positions(r) /\ t.verdict \in {-1, 0, 1, Open}
    BY <2>3 DEF Seen, Positions
  <2>7. /\ t.verdict # Open => u.verdict = -t.verdict /\ u.verdict # Open
        /\ t.verdict = Open => u.verdict = Open
        /\ u.i = t.j /\ u.j = t.i
    BY <2>3, <2>6 DEF Mirrored, Open
  <2>8. t.verdict = Open /\ g[<<t.j, t.i>>] # -f[<<t.i, t.j>>]
    BY <2>2, <2>4, <2>5, <2>7
  <2>9. Bad((Len(l) + 1) - t.i)
    BY <2>6, <2>8
  <2>10. (Len(l) + 1) - t.i \in Nat /\ (Len(l) + 1) - t.i < n /\ n \in Nat
    BY <2>2, <2>3, <2>6, <2>8, SMTT(30) DEF Positions
  <2>11. (Len(l) + 1) - t.i \in X
    <3> HIDE DEF Bad
    <3> QED BY <2>9, <2>10
  <2> HIDE DEF X
  <2> QED BY <2>1, <2>10, <2>11
<1>2. ASSUME NEW i \in Positions(l), NEW j \in Positions(r), g[<<j, i>>] # -f[<<i, j>>] PROVE FALSE
  <2>1. (Len(l) + 1) - i \in Nat
    BY DEF Positions
  <2>2. Bad((Len(l) + 1) - i)
    BY <1>2
  <2> HIDE DEF Bad
  <2> QED BY <1>1, <2>1, <2>2
<1> QED BY <1>2

\* A turn of three comparisons.
LEMMA TurnsTogether ==
  ASSUME NEW a \in Seq(Nat), NEW b \in Seq(Nat), NEW c \in Seq(Nat),
         NEW i \in Positions(a), NEW j \in Positions(b), NEW k \in Positions(c)
  PROVE  Together3(TurnFrom(a, i, b, j), TurnFrom(b, j, c, k), TurnFrom(a, i, c, k))
<1> DEFINE p == SkipSeparators(a, i)
           q == SkipSeparators(b, j)
           t == SkipSeparators(c, k)
<1>1. p \in Positions(a) /\ q \in Positions(b) /\ t \in Positions(c)
  <2>1. EndsAt(a, i, Nat \ Valid, p) /\ EndsAt(b, j, Nat \ Valid, q) /\ EndsAt(c, k, Nat \ Valid, t)
    BY SkipIs DEF Positions
  <2> HIDE DEF p, q, t
  <2> QED BY <2>1 DEF EndsAt, Positions
<1> HIDE DEF p, q, t
<1>2. At(p, q) \in Seen(a, b) /\ At(q, t) \in Seen(b, c) /\ At(p, t) \in Seen(a, c)
  BY <1>1, AtIs
<1>3. Together3(At(p, q), At(q, t), At(p, t))
  BY DEF Together3, At
<1>4. Together3(Turn(At(p, q), a, b), Turn(At(q, t), b, c), Turn(At(p, t), a, c))
  BY <1>2, <1>3, TurnOn
<1> QED BY <1>4 DEF TurnFrom, p, q, t

\* What it says of two pairs of three versions it says of the third.
LEMMA OrdersOn ==
  ASSUME NEW a \in Seq(Nat), NEW b \in Seq(Nat), NEW c \in Seq(Nat),
         NEW f, IsOrder(a, b, f), NEW g, IsOrder(b, c, g), NEW h, IsOrder(a, c, h)
  PROVE  \A i \in Positions(a), j \in Positions(b), k \in Positions(c) :
           Between(f[<<i, j>>], g[<<j, k>>], h[<<i, k>>])
<1> DEFINE Bad(n) == \E i \in Positions(a), j \in Positions(b), k \in Positions(c) :
                       n = (Len(a) + 1) - i /\ ~Between(f[<<i, j>>], g[<<j, k>>], h[<<i, k>>])
           X == {n \in Nat : Bad(n)}
<1>1. ASSUME X # {} PROVE FALSE
  <2>1. PICK n \in X : \A m \in X : n <= m
    <3>1. X \subseteq Nat
      OBVIOUS
    <3> HIDE DEF X
    <3> QED BY <1>1, <3>1, LeastNatural
  <2>2. PICK i \in Positions(a), j \in Positions(b), k \in Positions(c) :
          n = (Len(a) + 1) - i /\ ~Between(f[<<i, j>>], g[<<j, k>>], h[<<i, k>>])
    OBVIOUS
  <2> DEFINE x == TurnFrom(a, i, b, j)
             y == TurnFrom(b, j, c, k)
             z == TurnFrom(a, i, c, k)
  <2>3. x \in Seen(a, b) /\ y \in Seen(b, c) /\ z \in Seen(a, c) /\ (x.verdict = Open => x.i > i)
    BY Progress
  <2>4. Together3(x, y, z)
    BY TurnsTogether
  <2>5. /\ f[<<i, j>>] = IF x.verdict # Open THEN x.verdict ELSE f[<<x.i, x.j>>]
        /\ g[<<j, k>>] = IF y.verdict # Open THEN y.verdict ELSE g[<<y.i, y.j>>]
        /\ h[<<i, k>>] = IF z.verdict # Open THEN z.verdict ELSE h[<<z.i, z.j>>]
    BY OrderAt
  <2> HIDE DEF x, y, z
  <2>6. /\ x.i \in Positions(a) /\ x.j \in Positions(b) /\ y.j \in Positions(c)
        /\ \A v \in {x.verdict, y.verdict, z.verdict} : v \in {-1, 0, 1, 2}
    BY <2>3 DEF Seen, Positions, Open
  <2>7. f[<<i, j>>] \in {-1, 0, 1} /\ g[<<j, k>>] \in {-1, 0, 1} /\ h[<<i, k>>] \in {-1, 0, 1}
    BY OrderValues
  <2>8. CASE x.verdict = Open /\ y.verdict = Open
    <3>1. z.verdict = Open /\ z.i = x.i /\ x.j = y.i /\ z.j = y.j
      BY <2>4, <2>8 DEF Together3
    <3>2. ~Between(f[<<x.i, x.j>>], g[<<x.j, y.j>>], h[<<x.i, y.j>>])
      BY <2>2, <2>5, <2>8, <3>1
    <3>3. Bad((Len(a) + 1) - x.i)
      BY <2>6, <3>2
    <3>4. (Len(a) + 1) - x.i \in Nat /\ (Len(a) + 1) - x.i < n /\ n \in Nat
      <4>1. x.i \in Positions(a) /\ i \in Positions(a) /\ x.i > i /\ n = (Len(a) + 1) - i
        BY <2>2, <2>3, <2>6, <2>8
      <4> HIDE DEF Bad, X
      <4> QED BY <4>1, SMTT(30) DEF Positions
    <3>5. (Len(a) + 1) - x.i \in X
      <4> HIDE DEF Bad
      <4> QED BY <3>3, <3>4
    <3> HIDE DEF X
    <3> QED BY <2>1, <3>4, <3>5
  <2>9. CASE x.verdict = Open /\ y.verdict # Open
    <3>1. y.verdict # 0 /\ z.verdict = y.verdict
      BY <2>4, <2>9 DEF Together3
    <3>2. g[<<j, k>>] # 0 /\ h[<<i, k>>] = g[<<j, k>>]
      BY <2>5, <2>9, <3>1
    <3> QED BY <2>2, <2>7, <3>2 DEF Between
  <2>10. CASE x.verdict # Open /\ y.verdict = Open
    <3>1. x.verdict # 0 /\ z.verdict = x.verdict
      BY <2>4, <2>10 DEF Together3
    <3>2. f[<<i, j>>] # 0 /\ h[<<i, k>>] = f[<<i, j>>]
      BY <2>5, <2>10, <3>1
    <3> QED BY <2>2, <2>7, <3>2 DEF Between
  <2>11. CASE x.verdict # Open /\ y.verdict # Open
    <3>1. f[<<i, j>>] = x.verdict /\ g[<<j, k>>] = y.verdict
      BY <2>5, <2>11
    <3>2. z.verdict # Open => h[<<i, k>>] = z.verdict
      BY <2>5
    <3>3. x.verdict \in {-1, 0, 1} /\ y.verdict \in {-1, 0, 1}
      BY <2>7, <3>1
    <3> QED BY <2>2, <2>4, <2>6, <2>11, <3>1, <3>2, <3>3 DEF Between, Together3, Open
  <2> QED BY <2>8, <2>9, <2>10, <2>11
<1>2. ASSUME NEW i \in Positions(a), NEW j \in Positions(b), NEW k \in Positions(c),
             ~Between(f[<<i, j>>], g[<<j, k>>], h[<<i, k>>])
      PROVE  FALSE
  <2>1. (Len(a) + 1) - i \in Nat
    BY DEF Positions
  <2>2. Bad((Len(a) + 1) - i)
    BY <1>2
  <2> HIDE DEF Bad
  <2> QED BY <1>1, <2>1, <2>2
<1> QED BY <1>2

\* Comparing versions orders them.
LEMMA CompareOrders ==
  ASSUME NEW a \in Seq(Nat), NEW b \in Seq(Nat), NEW c \in Seq(Nat)
  PROVE  /\ Compare(a, b) \in {-1, 0, 1} /\ Compare(b, a) = -Compare(a, b)
         /\ Between(Compare(a, b), Compare(b, c), Compare(a, c))
<1>1. 1 \in Positions(a) /\ 1 \in Positions(b) /\ 1 \in Positions(c)
  BY DEF Positions
<1>2. PICK f : IsOrder(a, b, f) /\ Compare(a, b) = f[<<1, 1>>]
  BY CompareIs
<1>3. PICK g : IsOrder(b, c, g) /\ Compare(b, c) = g[<<1, 1>>]
  BY CompareIs
<1>4. PICK h : IsOrder(a, c, h) /\ Compare(a, c) = h[<<1, 1>>]
  BY CompareIs
<1>5. PICK e : IsOrder(b, a, e) /\ Compare(b, a) = e[<<1, 1>>]
  BY CompareIs
<1>6. f[<<1, 1>>] \in {-1, 0, 1}
  BY <1>1, <1>2, OrderValues
<1>7. e[<<1, 1>>] = -f[<<1, 1>>]
  BY <1>1, <1>2, <1>5, OrderMirrors
<1>8. Between(f[<<1, 1>>], g[<<1, 1>>], h[<<1, 1>>])
  BY <1>1, <1>2, <1>3, <1>4, OrdersOn
<1> QED BY <1>2, <1>3, <1>4, <1>5, <1>6, <1>7, <1>8

\* What leads up to a version is before it.
LEMMA TakeSame ==
  ASSUME NEW y, NEW x, NEW n \in Nat, n <= Len(y), n <= Len(x), NEW i \in 1..n, NEW c, y[i] = x[i]
  PROVE  Take(At(i, i), y, x, c) = IF Has(x, i, c) THEN At(i + 1, i + 1) ELSE At(i, i)
<1>1. Has(y, i, c) = Has(x, i, c)
  BY DEF Has
<1> QED BY <1>1 DEF Take, At

\* The characters of a word.
LEMMA WordAt ==
  ASSUME NEW s \in Seq(Nat), NEW i \in Positions(s), NEW alphabet
  PROVE  \A k \in 1..Len(WordOf(s, i, alphabet)) : WordOf(s, i, alphabet)[k] = s[i + k - 1]
BY WordIs

\* The runs of a version and of what leads up to it are the same.
LEMMA RunsSame ==
  ASSUME NEW x \in Seq(Nat), NEW y \in Seq(Nat), Len(y) = Len(x) + 1, \A k \in 1..Len(x) : y[k] = x[k],
         y[Len(y)] = Tilde, NEW i \in 1..Len(x)
  PROVE  \E k \in Positions(x) : k >= i /\ RunsOf(At(i, i), y, x) = At(k, k)
<1>1. Len(x) \in Nat /\ i \in Positions(x) /\ i \in Positions(y)
  BY DEF Positions
<1>2. ASSUME NEW alphabet, Tilde \notin alphabet PROVE WordOf(y, i, alphabet) = WordOf(x, i, alphabet)
  <2> DEFINE e == PrefixEnd(x, i, alphabet)
             u == WordOf(x, i, alphabet)
             v == WordOf(y, i, alphabet)
  <2>1. EndsAt(x, i, alphabet, e)
    BY <1>1, PrefixEndIs DEF Positions
  <2> HIDE DEF e
  <2>2. e \in i..Len(x) + 1 /\ (\A k \in i..e - 1 : x[k] \in alphabet) /\ (e <= Len(x) => x[e] \notin alphabet)
    BY <2>1 DEF EndsAt
  <2>3. EndsAt(y, i, alphabet, e)
    <3>1. ASSUME NEW k \in i..e - 1 PROVE y[k] \in alphabet
      <4>1. k \in 1..Len(x)
        BY <1>1, <2>2
      <4> QED BY <2>2, <4>1
    <3>2. ASSUME e <= Len(y) PROVE y[e] \notin alphabet
      <4>1. CASE e <= Len(x)
        BY <1>1, <2>2, <4>1
      <4>2. CASE e = Len(y)
        BY <1>2, <4>2
      <4> QED BY <1>1, <2>2, <4>1, <4>2, SMTT(30)
    <3>3. e \in i..Len(y) + 1
      BY <1>1, <2>2
    <3> QED BY <3>1, <3>2, <3>3 DEF EndsAt
  <2>4. e = PrefixEnd(y, i, alphabet)
    BY <1>1, <2>3, PrefixEndIs DEF Positions
  <2>5. u \in Seq(Nat) /\ v \in Seq(Nat)
    BY <1>1, WordIs
  <2>6. Len(u) \in Nat /\ Len(v) \in Nat /\ i + Len(u) = e /\ i + Len(v) = e
    BY <1>1, <2>4, <2>5, WordIs, SMTT(30) DEF e
  <2>7. \A k \in 1..Len(u) : u[k] = x[i + k - 1]
    BY <1>1, WordAt, SMTT(30)
  <2>8. \A k \in 1..Len(v) : v[k] = y[i + k - 1]
    BY <1>1, WordAt, SMTT(30)
  <2> HIDE DEF u, v
  <2>9. Len(u) = Len(v)
    BY <1>1, <2>6
  <2>10. \A k \in 1..Len(u) : i + k - 1 \in 1..Len(x)
    BY <1>1, <2>2, <2>6
  <2>11. \A k \in 1..Len(u) : u[k] = v[k]
    BY <2>7, <2>8, <2>9, <2>10
  <2>12. u = v
    BY <2>5, <2>9, <2>11, SeqEqual
  <2> QED BY <2>12 DEF u, v
<1>3. NumberAt(y, i) = NumberAt(x, i) /\ LettersAt(y, i) = LettersAt(x, i)
  <2>1. Tilde \notin Digits /\ Tilde \notin Letters
    BY DEF Tilde, Digits, Letters
  <2> QED BY <1>2, <2>1 DEF NumberAt, LettersAt
<1>4. RunAt(y, i) = RunAt(x, i)
  BY <1>3 DEF RunAt
<1>5. At(i, i) \in Seen(y, x) /\ At(i, i).verdict = Open /\ At(i, i).i = i /\ At(i, i).j = i
  BY <1>1, AtIs
<1>6. NumberAt(x, i) \in Seq(Nat) /\ LettersAt(x, i) \in Seq(Nat)
      /\ i + Len(NumberAt(x, i)) \in Positions(x) /\ i + Len(LettersAt(x, i)) \in Positions(x)
  BY <1>1, WordIs DEF NumberAt, LettersAt
<1>7. RunOrder(y, i, x, i) = 0
  <2>1. Lexicographic(LettersAt(x, i), LettersAt(x, i)) = 0
    BY <1>6, LexicographicOrders
  <2>2. NumberOrder(NumberAt(x, i), NumberAt(x, i)) = 0
    <3>1. \A n \in {-1, 0, 1} : n = -n => n = 0
      OBVIOUS
    <3>2. /\ NumberOrder(NumberAt(x, i), NumberAt(x, i)) \in {-1, 0, 1}
          /\ NumberOrder(NumberAt(x, i), NumberAt(x, i)) = -NumberOrder(NumberAt(x, i), NumberAt(x, i))
      BY <1>6, NumberOrders
    <3> QED BY <3>1, <3>2
  <2> QED BY <1>3, <2>1, <2>2 DEF RunOrder
<1>8. RunsOf(At(i, i), y, x) = At(i + Len(RunAt(x, i)), i + Len(RunAt(x, i)))
  BY <1>4, <1>5, <1>7, RunsIs
<1>9. i + Len(RunAt(x, i)) \in Positions(x) /\ i + Len(RunAt(x, i)) >= i
  <2>1. Len(RunAt(x, i)) \in Nat
    BY <1>6, SMTT(30) DEF RunAt
  <2> QED BY <1>6, <2>1 DEF RunAt
<1> QED BY <1>8, <1>9

\* So the tilde decides, at the end.
LEMMA TildeIsBefore ==
  ASSUME NEW x \in Seq(Nat), x # <<>>, x[Len(x)] \in Digits \cup Letters
  PROVE  Compare(x \o <<Tilde>>, x) = -1
<1> DEFINE y == x \o <<Tilde>>
           N == Len(x)
<1>1. /\ y \in Seq(Nat) /\ Len(y) = N + 1 /\ N \in Nat \ {0} /\ y[Len(y)] = Tilde
      /\ \A k \in 1..N : y[k] = x[k] /\ x[k] \in Nat
  BY DEF Tilde
<1> HIDE DEF y
<1>2. x[N] \notin {Tilde, Dash, Caret, Dot} /\ x[N] \in Valid /\ Tilde \in Valid
  <2>1. \A c \in Digits \cup Letters : c \notin {Tilde, Dash, Caret, Dot} /\ c \in Valid
    BY DEF Digits, Letters, Tilde, Dash, Caret, Dot, Valid
  <2>2. Tilde \in Valid
    BY DEF Valid
  <2> QED BY <2>1, <2>2
\* Wherever a turn begins before the end it ends nearer to it, in both alike.
<1>3. ASSUME NEW i \in 1..N
      PROVE  \E k \in Positions(x) : TurnFrom(y, i, x, i) = At(k, k)
  <2> DEFINE e == SkipSeparators(x, i)
  <2>0. i \in 1..Len(x) + 1 /\ i \in 1..Len(y) + 1
    BY <1>1
  <2>1. EndsAt(x, i, Nat \ Valid, e)
    BY <2>0, SkipIs
  <2> HIDE DEF e
  <2>2. e \in i..N
    <3>1. e \in i..N + 1 /\ (\A k \in i..e - 1 : x[k] \in Nat \ Valid)
      BY <2>1 DEF EndsAt
    <3>2. e # N + 1
      <4>1. SUFFICES ASSUME e = N + 1 PROVE FALSE
        OBVIOUS
      <4>2. N \in i..e - 1
        BY <1>1, <4>1
      <4> QED BY <1>2, <3>1, <4>2
    <3> QED BY <1>1, <3>1, <3>2
  <2>3. EndsAt(y, i, Nat \ Valid, e)
    <3>1. ASSUME NEW k \in i..e - 1 PROVE y[k] \in Nat \ Valid
      <4>1. k \in 1..N
        BY <1>1, <2>2
      <4>2. x[k] \in Nat \ Valid
        BY <2>1 DEF EndsAt
      <4> QED BY <1>1, <4>1, <4>2
    <3>2. y[e] = x[e] /\ x[e] \notin Nat \ Valid
      <4>1. e \in 1..N /\ e <= Len(x)
        BY <1>1, <2>2
      <4> QED BY <1>1, <2>1, <4>1 DEF EndsAt
    <3>3. e \in i..Len(y) + 1
      BY <1>1, <2>2
    <3> QED BY <3>1, <3>2, <3>3 DEF EndsAt
  <2>4. SkipSeparators(y, i) = e
    BY <1>1, <2>0, <2>3, SkipIs
  <2>5. TurnFrom(y, i, x, i) = Turn(At(e, e), y, x)
    BY <2>4 DEF TurnFrom, e
  \* No marker is the last character.
  <2>6. ASSUME NEW k \in 1..N, NEW c \in {Tilde, Dash, Caret, Dot}
        PROVE  \E m \in 1..N : Take(At(k, k), y, x, c) = At(m, m)
    <3>1. Take(At(k, k), y, x, c) = IF Has(x, k, c) THEN At(k + 1, k + 1) ELSE At(k, k)
      <4>1. N <= Len(y) /\ N <= Len(x) /\ N \in Nat /\ y[k] = x[k]
        BY <1>1
      <4> HIDE DEF N
      <4> QED BY <4>1, TakeSame
    <3>2. CASE Has(x, k, c)
      <4>1. k # N
        BY <1>2, <3>2 DEF Has
      <4>2. k + 1 \in 1..N
        BY <1>1, <4>1
      <4> QED BY <3>1, <3>2, <4>2
    <3>3. CASE ~Has(x, k, c)
      BY <3>1, <3>3
    <3> QED BY <3>2, <3>3
  <2>7. e \in 1..N
    BY <1>1, <2>2
  <2>8. PICK k1 \in 1..N : Take(At(e, e), y, x, Tilde) = At(k1, k1)
    BY <2>6, <2>7
  <2>9. Ended(At(k1, k1), y, x) = At(k1, k1)
    BY <1>1 DEF Ended, At
  <2>10. PICK k2 \in 1..N : Take(At(k1, k1), y, x, Dash) = At(k2, k2)
    BY <2>6
  <2>11. PICK k3 \in 1..N : Take(At(k2, k2), y, x, Caret) = At(k3, k3)
    BY <2>6
  <2>12. PICK k4 \in 1..N : Take(At(k3, k3), y, x, Dot) = At(k4, k4)
    BY <2>6
  <2>13. PICK k \in Positions(x) : RunsOf(At(k4, k4), y, x) = At(k, k)
    BY <1>1, RunsSame
  <2>14. Turn(At(e, e), y, x) = At(k, k)
    BY <2>8, <2>9, <2>10, <2>11, <2>12, <2>13 DEF Turn, Marked
  <2> QED BY <2>5, <2>14
<1>4. TurnFrom(y, N + 1, x, N + 1) = Decided(-1)
  <2>1. SkipSeparators(x, N + 1) = N + 1
    <3>1. EndsAt(x, N + 1, Nat \ Valid, N + 1)
      BY <1>1 DEF EndsAt
    <3>2. N + 1 \in 1..Len(x) + 1
      BY <1>1
    <3> QED BY <3>1, <3>2, SkipIs
  <2>2. SkipSeparators(y, N + 1) = N + 1
    <3>1. EndsAt(y, N + 1, Nat \ Valid, N + 1)
      BY <1>1, <1>2 DEF EndsAt
    <3>2. N + 1 \in 1..Len(y) + 1
      BY <1>1
    <3> QED BY <1>1, <3>1, <3>2, SkipIs
  <2>3. Has(y, N + 1, Tilde) /\ ~Has(x, N + 1, Tilde)
    BY <1>1 DEF Has
  <2>4. Take(At(N + 1, N + 1), y, x, Tilde) = Decided(-1)
    BY <2>3 DEF Take, At
  <2>5. Turn(At(N + 1, N + 1), y, x) = Decided(-1)
    <3> DEFINE s == Decided(-1)
    <3>1. s.verdict # Open
      BY DEF Decided, Open
    <3> HIDE DEF s
    <3>2. Ended(s, y, x) = s /\ RunsOf(s, y, x) = s /\ \A c : Take(s, y, x, c) = s
      BY <3>1 DEF Ended, RunsOf, Take
    <3>3. Marked(s, y, x) = s
      BY <3>2 DEF Marked
    <3> QED BY <2>4, <3>2, <3>3 DEF Turn, s
  <2> QED BY <2>1, <2>2, <2>5 DEF TurnFrom
<1>5. PICK f : IsOrder(y, x, f) /\ Compare(y, x) = f[<<1, 1>>]
  BY <1>1, CompareIs
<1>6. \A i \in 1..N + 1 : i \in Positions(x) /\ i \in Positions(y)
  BY <1>1 DEF Positions
<1> DEFINE X == {n \in Nat : \E i \in 1..N + 1 : n = (N + 1) - i /\ f[<<i, i>>] # -1}
<1>7. ASSUME X # {} PROVE FALSE
  <2>1. PICK n \in X : \A m \in X : n <= m
    <3>1. X \subseteq Nat
      OBVIOUS
    <3> HIDE DEF X
    <3> QED BY <1>7, <3>1, LeastNatural
  <2>2. PICK i \in 1..N + 1 : n = (N + 1) - i /\ f[<<i, i>>] # -1
    OBVIOUS
  <2> DEFINE t == TurnFrom(y, i, x, i)
  <2>3. f[<<i, i>>] = IF t.verdict # Open THEN t.verdict ELSE f[<<t.i, t.j>>]
    BY <1>1, <1>5, <1>6, OrderAt
  <2>4. CASE i = N + 1
    BY <1>4, <2>2, <2>3, <2>4 DEF Decided, Open
  <2>5. CASE i # N + 1
    <3>1. i \in 1..N
      BY <1>1, <2>5
    <3>2. PICK k \in Positions(x) : t = At(k, k)
      BY <1>3, <3>1
    <3>3. t.verdict = Open => t.i > i
      BY <1>1, <1>6, Progress
    <3> HIDE DEF t
    <3>4. t.verdict = Open /\ t.i = k /\ t.j = k /\ k > i
      BY <3>2, <3>3 DEF At
    <3>5. f[<<k, k>>] # -1
      BY <2>2, <2>3, <3>4
    <3>6. k \in 1..N + 1 /\ (N + 1) - k \in Nat /\ (N + 1) - k < n
      BY <1>1, <2>2, <3>4 DEF Positions
    <3>7. (N + 1) - k \in X
      BY <3>5, <3>6
    <3>8. n \in Nat
      OBVIOUS
    <3> HIDE DEF X
    <3> QED BY <2>1, <3>6, <3>7, <3>8
  <2> QED BY <2>4, <2>5
<1>8. f[<<1, 1>>] = -1
  <2>1. 1 \in 1..N + 1 /\ (N + 1) - 1 \in Nat
    BY <1>1
  <2> QED BY <1>7, <2>1
<1> QED BY <1>5, <1>8 DEF y

\* The values of what leads up to each place of a number.
IsValues(s, v) ==
  /\ v \in [0..Len(s) -> Nat] /\ v[0] = 0
  /\ \A n \in 1..Len(s) : v[n] = 10 * v[n - 1] + (s[n] - Zero)

\* The digits of a number.
LEMMA DigitsAre ==
  ASSUME NEW s \in Seq(Digits)
  PROVE  /\ Len(s) \in Nat /\ s \in Seq(Nat)
         /\ \A n \in 1..Len(s) : s[n] \in Digits /\ s[n] \in Nat /\ s[n] - Zero \in 0..9
<1>1. \A d \in Digits : d \in Nat /\ d - Zero \in 0..9
  BY DEF Digits, Zero
<1>2. Len(s) \in Nat /\ \A n \in 1..Len(s) : s[n] \in Digits
  OBVIOUS
<1>3. s \in Seq(Nat)
  <2>1. s \in [1..Len(s) -> Nat]
    BY <1>1, <1>2
  <2> QED BY <1>2, <2>1
<1> QED BY <1>1, <1>2, <1>3

\* ValueOf is the last of them.
LEMMA ValuesAre ==
  ASSUME NEW s \in Seq(Digits)
  PROVE  \E v : IsValues(s, v) /\ ValueOf(s) = v[Len(s)]
<1> DEFINE N == Len(s)
           Digit == [n \in Nat |-> IF n \in 1..N THEN s[n] - Zero ELSE 0]
           Step == [n \in Nat |-> [w \in Nat |-> 10 * w + Digit[n]]]
           IsValue(v) == v = [n \in 0..N |-> IF n = 0 THEN 0 ELSE 10 * v[n - 1] + (s[n] - Zero)]
<1>0. N \in Nat
  BY DigitsAre
<1>1. \A n \in Nat : Digit[n] \in Nat
  BY DigitsAre, SMTT(30)
<1>2. \A n \in 1..N : Digit[n] = s[n] - Zero /\ n \in Nat
  OBVIOUS
<1> HIDE DEF Digit
<1>3. Step \in [Nat -> [Nat -> Nat]]
  <2>1. ASSUME NEW n \in Nat PROVE [w \in Nat |-> 10 * w + Digit[n]] \in [Nat -> Nat]
    BY <1>1
  <2> QED BY <2>1
<1>4. PICK v : IsRecursive(Nat, 0, Step, N, v)
  <2> HIDE DEF Step, N
  <2> QED BY <1>0, <1>3, Recursion
<1>5. v \in [0..N -> Nat] /\ v[0] = 0 /\ \A n \in 1..N : v[n] = Step[n][v[n - 1]]
  BY <1>4 DEF IsRecursive
<1>6. \A n \in 1..N : v[n] = 10 * v[n - 1] + (s[n] - Zero)
  <2> SUFFICES ASSUME NEW n \in 1..N PROVE v[n] = 10 * v[n - 1] + (s[n] - Zero)
    OBVIOUS
  <2>1. n - 1 \in 0..N /\ n \in Nat
    BY <1>0
  <2>2. v[n - 1] \in Nat
    BY <1>5, <2>1
  <2>3. Step[n][v[n - 1]] = 10 * v[n - 1] + Digit[n]
    BY <2>1, <2>2
  <2> QED BY <1>2, <1>5, <2>3
<1>7. IsValue(v)
  <2>1. \A n \in 0..N : v[n] = IF n = 0 THEN 0 ELSE 10 * v[n - 1] + (s[n] - Zero)
    <3> SUFFICES ASSUME NEW n \in 0..N, n # 0 PROVE v[n] = 10 * v[n - 1] + (s[n] - Zero)
      BY <1>5
    <3>1. n \in 1..N
      BY <1>0
    <3> QED BY <1>6, <3>1
  <2> HIDE DEF N
  <2> QED BY <1>5, <2>1
<1>8. ValueOf(s) = (CHOOSE w : IsValue(w))[N]
  BY DEF ValueOf
<1> DEFINE w == CHOOSE w : IsValue(w)
<1>9. IsValue(w)
  <2> HIDE DEF IsValue
  <2> QED BY <1>7
<1> HIDE DEF w
<1>10. w = v
  <2> DEFINE X == {n \in 0..N : w[n] # v[n]}
  <2>1. ASSUME X # {} PROVE FALSE
    <3>1. PICK n \in X : \A m \in X : n <= m
      <4>1. X \subseteq Nat
        BY <1>0
      <4> HIDE DEF X
      <4> QED BY <2>1, <4>1, LeastNatural
    <3>2. n \in 0..N /\ w[n] # v[n]
      OBVIOUS
    <3>3. n # 0
      <4>1. w[0] = 0
        BY <1>0, <1>9
      <4> QED BY <1>5, <3>2, <4>1
    <3>4. n - 1 \in 0..N /\ ~(n <= n - 1) /\ n \in 1..N
      BY <1>0, <3>2, <3>3
    <3>5. w[n - 1] = v[n - 1]
      BY <3>1, <3>4
    <3>6. w[n] = 10 * w[n - 1] + (s[n] - Zero)
      BY <1>9, <3>2, <3>3
    <3> QED BY <1>6, <3>2, <3>4, <3>5, <3>6
  <2>2. \A n \in 0..N : w[n] = v[n]
    BY <2>1
  <2>3. w = [n \in 0..N |-> w[n]]
    BY <1>9
  <2> HIDE DEF N, X, IsValue
  <2> QED BY <1>5, <2>2, <2>3
<1> QED BY <1>5, <1>6, <1>8, <1>10 DEF IsValues, w

\* What leads a number up to a place leads it on.
LEMMA LeadOn ==
  ASSUME NEW x \in Seq(Digits), NEW v, IsValues(x, v), NEW y \in Seq(Digits), NEW w, IsValues(y, w),
         NEW p \in 0..Len(x), NEW q \in 0..Len(y), Len(x) - p = Len(y) - q, w[q] > v[p]
  PROVE  w[Len(y)] > v[Len(x)]
<1>0. Len(x) \in Nat /\ Len(y) \in Nat
  BY DigitsAre
<1> DEFINE N == Len(x) - p
           X == {m \in 0..N : ~(w[q + m] > v[p + m])}
<1>1. N \in Nat /\ \A m \in 0..N : p + m \in 0..Len(x) /\ q + m \in 0..Len(y) /\ m \in Nat
  BY <1>0
<1>2. ASSUME X # {} PROVE FALSE
  <2>1. PICK m \in X : \A k \in X : m <= k
    <3>1. X \subseteq Nat
      BY <1>1
    <3> HIDE DEF X
    <3> QED BY <1>2, <3>1, LeastNatural
  <2>2. m \in 0..N /\ ~(w[q + m] > v[p + m])
    OBVIOUS
  <2>3. m # 0
    BY <2>2
  <2>4. m - 1 \in 0..N /\ ~(m <= m - 1)
    BY <1>1, <2>2, <2>3
  <2>5. w[q + (m - 1)] > v[p + (m - 1)]
    <3>1. m - 1 \notin X
      <4> HIDE DEF X, N
      <4> QED BY <2>1, <2>4
    <3> QED BY <2>4, <3>1
  <2>6. /\ p + m \in 1..Len(x) /\ q + m \in 1..Len(y)
        /\ (p + m) - 1 = p + (m - 1) /\ (q + m) - 1 = q + (m - 1)
    BY <1>0, <1>1, <2>2, <2>3
  <2>7. v[p + m] = 10 * v[p + (m - 1)] + (x[p + m] - Zero) /\ w[q + m] = 10 * w[q + (m - 1)] + (y[q + m] - Zero)
    BY <2>6 DEF IsValues
  <2>8. v[p + (m - 1)] \in Nat /\ w[q + (m - 1)] \in Nat
    BY <1>1, <2>4 DEF IsValues
  <2>9. x[p + m] - Zero \in 0..9 /\ y[q + m] - Zero \in 0..9
    BY <2>6, DigitsAre
  <2>10. \A a, b \in Nat, c, d \in 0..9 : a > b => 10 * a + c > 10 * b + d
    OBVIOUS
  <2>11. w[q + m] > v[p + m]
    BY <2>5, <2>7, <2>8, <2>9, <2>10
  <2> QED BY <2>2, <2>11
<1>3. w[q + N] > v[p + N]
  <2>1. N \in 0..N
    BY <1>1
  <2> HIDE DEF N
  <2> QED BY <1>2, <2>1
<1>4. q + N = Len(y) /\ p + N = Len(x)
  BY <1>0
<1> QED BY <1>3, <1>4

\* Numbers that are alike from a place on are as they are up to it.
AlikeFrom(x, p, y, q, n) ==
  p + n <= Len(x) /\ q + n <= Len(y) /\ \A m \in 1..n : x[p + m] = y[q + m]

\* So what follows alike is worth the same.
LEMMA LeadAlike ==
  ASSUME NEW x \in Seq(Digits), NEW v, IsValues(x, v), NEW y \in Seq(Digits), NEW w, IsValues(y, w),
         NEW p \in 0..Len(x), NEW q \in 0..Len(y), v[p] = w[q],
         NEW N \in Nat, AlikeFrom(x, p, y, q, N)
  PROVE  v[p + N] = w[q + N]
<1> USE DEF AlikeFrom
<1>0. Len(x) \in Nat /\ Len(y) \in Nat
  BY DigitsAre
<1> DEFINE X == {m \in 0..N : v[p + m] # w[q + m]}
<1>1. \A m \in 0..N : p + m \in 0..Len(x) /\ q + m \in 0..Len(y) /\ m \in Nat
  BY <1>0
<1>2. ASSUME X # {} PROVE FALSE
  <2>1. PICK m \in X : \A k \in X : m <= k
    <3>1. X \subseteq Nat
      BY <1>1
    <3> HIDE DEF X
    <3> QED BY <1>2, <3>1, LeastNatural
  <2>2. m \in 0..N /\ v[p + m] # w[q + m]
    OBVIOUS
  <2>3. m # 0
    BY <2>2
  <2>4. m - 1 \in 0..N /\ ~(m <= m - 1) /\ m \in 1..N
    BY <1>1, <2>2, <2>3
  <2>5. v[p + (m - 1)] = w[q + (m - 1)]
    <3>1. m - 1 \notin X
      <4> HIDE DEF X
      <4> QED BY <2>1, <2>4
    <3> QED BY <2>4, <3>1
  <2>6. /\ p + m \in 1..Len(x) /\ q + m \in 1..Len(y)
        /\ (p + m) - 1 = p + (m - 1) /\ (q + m) - 1 = q + (m - 1)
    BY <1>0, <1>1, <2>2, <2>3
  <2>7. v[p + m] = 10 * v[p + (m - 1)] + (x[p + m] - Zero) /\ w[q + m] = 10 * w[q + (m - 1)] + (y[q + m] - Zero)
    BY <2>6 DEF IsValues
  <2> QED BY <2>2, <2>4, <2>5, <2>7
<1>3. N \in 0..N
  OBVIOUS
<1> QED BY <1>2, <1>3

\* The zeros that lead a number are worth nothing, and what follows them is.
LEMMA ZerosLead ==
  ASSUME NEW s \in Seq(Digits), NEW v, IsValues(s, v)
  PROVE  LET e == PrefixEnd(s, 1, {Zero})
             a == Significant(s)
         IN  /\ e \in 1..Len(s) + 1 /\ v[e - 1] = 0 /\ \A n \in e..Len(s) : v[n] > 0
             /\ a \in Seq(Nat) /\ Len(a) = Len(s) + 1 - e /\ \A k \in 1..Len(a) : a[k] = s[e - 1 + k]
<1> DEFINE e == PrefixEnd(s, 1, {Zero})
           a == Significant(s)
<1>0. Len(s) \in Nat /\ s \in Seq(Nat) /\ 1 \in 1..Len(s) + 1
  BY DigitsAre
<1>1. EndsAt(s, 1, {Zero}, e)
  BY <1>0, PrefixEndIs
<1>a. a = SubSeq(s, e, Len(s))
  BY DEF Significant
<1> HIDE DEF e, a
<1>2. e \in 1..Len(s) + 1 /\ (\A k \in 1..e - 1 : s[k] = Zero) /\ (e <= Len(s) => s[e] # Zero)
  BY <1>1 DEF EndsAt
<1>3. v[e - 1] = 0
  <2> DEFINE X == {n \in 0..e - 1 : v[n] # 0}
  <2>1. ASSUME X # {} PROVE FALSE
    <3>1. PICK n \in X : \A m \in X : n <= m
      <4>1. X \subseteq Nat
        BY <1>0, <1>2
      <4> HIDE DEF X
      <4> QED BY <2>1, <4>1, LeastNatural
    <3>2. n \in 0..e - 1 /\ v[n] # 0
      OBVIOUS
    <3>3. n # 0
      BY <3>2 DEF IsValues
    <3>4. n - 1 \in 0..e - 1 /\ ~(n <= n - 1) /\ n \in 1..e - 1 /\ n \in 1..Len(s)
      BY <1>0, <1>2, <3>2, <3>3
    <3>5. v[n - 1] = 0
      BY <3>1, <3>4
    <3>6. v[n] = 10 * v[n - 1] + (s[n] - Zero) /\ s[n] = Zero
      BY <1>2, <3>4 DEF IsValues
    <3> QED BY <3>2, <3>5, <3>6 DEF Zero
  <2>2. e - 1 \in 0..e - 1
    BY <1>2
  <2> QED BY <2>1, <2>2
<1>4. \A n \in e..Len(s) : v[n] > 0
  <2> DEFINE X == {n \in e..Len(s) : ~(v[n] > 0)}
  <2>1. ASSUME X # {} PROVE FALSE
    <3>1. PICK n \in X : \A m \in X : n <= m
      <4>1. X \subseteq Nat
        BY <1>0, <1>2
      <4> HIDE DEF X
      <4> QED BY <2>1, <4>1, LeastNatural
    <3>2. n \in e..Len(s) /\ ~(v[n] > 0)
      OBVIOUS
    <3>3. n \in 1..Len(s) /\ n - 1 \in 0..Len(s)
      BY <1>0, <1>2, <3>2
    <3>4. v[n] = 10 * v[n - 1] + (s[n] - Zero) /\ v[n - 1] \in Nat /\ s[n] - Zero \in 0..9 /\ s[n] \in Nat
      BY <3>3, DigitsAre DEF IsValues
    <3>5. CASE n = e
      <4>1. s[n] # Zero
        BY <1>0, <1>2, <3>2, <3>5
      <4>2. \A m, c \in Nat : c # 48 /\ c - 48 \in 0..9 => 10 * m + (c - 48) > 0
        OBVIOUS
      <4>3. v[n] > 0
        BY <3>4, <4>1, <4>2 DEF Zero
      <4> QED BY <3>2, <4>3
    <3>6. CASE n # e
      <4>1. n - 1 \in e..Len(s) /\ ~(n <= n - 1)
        BY <1>0, <1>2, <3>2, <3>6
      <4>2. v[n - 1] > 0
        BY <3>1, <4>1
      <4>3. \A m \in Nat, c \in 0..9 : m > 0 => 10 * m + c > 0
        OBVIOUS
      <4>4. v[n] > 0
        BY <3>4, <4>2, <4>3
      <4> QED BY <3>2, <4>4
    <3> QED BY <3>5, <3>6
  <2> QED BY <2>1
<1>5. a \in Seq(Nat) /\ Len(a) = Len(s) + 1 - e /\ \A k \in 1..Len(a) : a[k] = s[e - 1 + k]
  <2>1. a \in Seq(Nat)
    BY SignificantIs, <1>0 DEF a
  <2>2. Len(a) = Len(s) + 1 - e
    BY <1>0, <1>2, <1>a
  <2>3. ASSUME NEW k \in 1..Len(a) PROVE a[k] = s[e - 1 + k]
    <3>1. a[k] = s[e + k - 1] /\ e + k - 1 = e - 1 + k
      BY <1>0, <1>2, <1>a, <2>2
    <3> QED BY <3>1
  <2> QED BY <2>1, <2>2, <2>3
<1> QED BY <1>2, <1>3, <1>4, <1>5 DEF e, a

\* The longer of two numbers without zeros is the larger, and of two as long the later.
LEMMA ValuesBelow ==
  ASSUME NEW x \in Seq(Digits), NEW y \in Seq(Digits)
  PROVE  LET a == Significant(x)
             b == Significant(y)
         IN  /\ Len(a) < Len(b) => ValueOf(x) < ValueOf(y)
             /\ Len(a) = Len(b) /\ Precedes(a, b) => ValueOf(x) < ValueOf(y)
             /\ a = b => ValueOf(x) = ValueOf(y)
<1> DEFINE a == Significant(x)
           b == Significant(y)
           e == PrefixEnd(x, 1, {Zero})
           f == PrefixEnd(y, 1, {Zero})
<1>1. PICK v : IsValues(x, v) /\ ValueOf(x) = v[Len(x)]
  BY ValuesAre
<1>2. PICK w : IsValues(y, w) /\ ValueOf(y) = w[Len(y)]
  BY ValuesAre
<1>3. /\ e \in 1..Len(x) + 1 /\ v[e - 1] = 0
      /\ a \in Seq(Nat) /\ Len(a) = Len(x) + 1 - e /\ \A k \in 1..Len(a) : a[k] = x[e - 1 + k]
  BY <1>1, ZerosLead
<1>4. /\ f \in 1..Len(y) + 1 /\ w[f - 1] = 0 /\ \A n \in f..Len(y) : w[n] > 0
      /\ b \in Seq(Nat) /\ Len(b) = Len(y) + 1 - f /\ \A k \in 1..Len(b) : b[k] = y[f - 1 + k]
  BY <1>2, ZerosLead
<1>5. Len(x) \in Nat /\ Len(y) \in Nat
  BY DigitsAre
<1> HIDE DEF a, b, e, f
<1>0. e \in Nat /\ f \in Nat
  BY <1>3, <1>4, <1>5
<1>6. /\ e - 1 \in 0..Len(x) /\ f - 1 \in 0..Len(y)
      /\ Len(x) - (e - 1) = Len(a) /\ Len(y) - (f - 1) = Len(b) /\ Len(a) \in Nat /\ Len(b) \in Nat
  BY <1>3, <1>4, <1>5
<1>7. ASSUME Len(a) < Len(b) PROVE ValueOf(x) < ValueOf(y)
  <2> DEFINE q == Len(y) - Len(a)
  <2>1. q \in f..Len(y) /\ q \in 0..Len(y) /\ Len(y) - q = Len(a)
    BY <1>4, <1>5, <1>6, <1>7
  <2> HIDE DEF q
  <2>2. w[q] > v[e - 1]
    BY <1>3, <1>4, <2>1
  <2>3. w[Len(y)] > v[Len(x)]
    BY <1>1, <1>2, <1>6, <2>1, <2>2, LeadOn
  <2> QED BY <1>1, <1>2, <2>3, <1>5 DEF IsValues
<1>8. ASSUME Len(a) = Len(b), Precedes(a, b) PROVE ValueOf(x) < ValueOf(y)
  <2>1. PICK k \in 1..Len(b) : /\ k <= Len(a) + 1 /\ \A m \in 1..k - 1 : a[m] = b[m]
                               /\ k <= Len(a) => a[k] < b[k]
    BY <1>8 DEF Precedes
  <2> DEFINE E == e - 1
             F == f - 1
             K == k - 1
             p == E + K
             q == F + K
  <2>2. /\ K \in Nat /\ E + K <= Len(x) /\ F + K <= Len(y) /\ E \in Nat /\ F \in Nat
        /\ E \in 0..Len(x) /\ F \in 0..Len(y) /\ v[E] = 0 /\ w[F] = 0
        /\ \A m \in 1..K : m \in 1..Len(a) /\ m \in 1..Len(b)
    BY <1>0, <1>3, <1>4, <1>5, <1>6, <1>8, SMTT(30)
  <2>3. \A m \in 1..K : x[E + m] = y[F + m]
    <3> SUFFICES ASSUME NEW m \in 1..K PROVE x[E + m] = y[F + m]
      OBVIOUS
    <3>1. a[m] = b[m] /\ a[m] = x[e - 1 + m] /\ b[m] = y[f - 1 + m]
      BY <1>3, <1>4, <2>1, <2>2
    <3> QED BY <3>1
  <2>5. k = K + 1 /\ k \in 1..Len(a)
    BY <1>5, <1>6, <1>8
  <2>6. a[k] = x[E + k] /\ b[k] = y[F + k]
    BY <1>3, <1>4, <2>5
  <2>a. Len(x) - E = Len(a) /\ Len(y) - F = Len(a) /\ Len(a) \in Nat
    BY <1>6, <1>8
  <2> HIDE DEF E, F, K
  <2>f. AlikeFrom(x, E, y, F, K)
    BY <2>2, <2>3 DEF AlikeFrom
  <2>4. v[p] = w[q]
    BY <1>1, <1>2, <2>2, <2>f, LeadAlike
  <2>b. /\ p + 1 \in 1..Len(x) /\ q + 1 \in 1..Len(y) /\ (p + 1) - 1 = p /\ (q + 1) - 1 = q
        /\ p + 1 = E + k /\ q + 1 = F + k /\ p \in 0..Len(x) /\ q \in 0..Len(y)
        /\ p + 1 \in 0..Len(x) /\ q + 1 \in 0..Len(y) /\ Len(x) - (p + 1) = Len(y) - (q + 1)
    <3>1. k \in Nat /\ 1 <= k /\ k <= Len(a)
      BY <2>5, <2>a
    <3>2. p + 1 = E + k /\ q + 1 = F + k /\ p \in Nat /\ q \in Nat
      BY <2>2, <2>5, <3>1
    <3>3. Len(x) = E + Len(a) /\ Len(y) = F + Len(a)
      BY <1>5, <2>2, <2>a
    <3> HIDE DEF p, q
    <3> QED BY <1>5, <2>2, <2>a, <3>1, <3>2, <3>3, SMTT(30)
  <2> HIDE DEF p, q
  <2>7. v[p + 1] = 10 * v[p] + (x[p + 1] - Zero) /\ w[q + 1] = 10 * w[q] + (y[q + 1] - Zero) /\ v[p] \in Nat
    BY <1>1, <1>2, <2>b DEF IsValues
  <2>c. k <= Len(a)
    BY <2>5, <2>a
  <2>d. x[p + 1] < y[q + 1]
    BY <2>1, <2>6, <2>b, <2>c
  <2>8. x[p + 1] \in Nat /\ y[q + 1] \in Nat
    BY <2>b, DigitsAre
  <2>9. \A m, c, d \in Nat : c < d => 10 * m + (d - 48) > 10 * m + (c - 48)
    OBVIOUS
  <2>10. w[q + 1] > v[p + 1]
    BY <2>4, <2>7, <2>d, <2>8, <2>9 DEF Zero
  <2> DEFINE P == p + 1
             Q == q + 1
  <2>e. P \in 0..Len(x) /\ Q \in 0..Len(y) /\ Len(x) - P = Len(y) - Q /\ w[Q] > v[P]
    BY <2>b, <2>10
  <2> HIDE DEF P, Q
  <2>11. w[Len(y)] > v[Len(x)]
    BY <1>1, <1>2, <2>e, LeadOn
  <2> QED BY <1>1, <1>2, <2>11, <1>5 DEF IsValues
<1>9. ASSUME a = b PROVE ValueOf(x) = ValueOf(y)
  <2> DEFINE E == e - 1
             F == f - 1
             N == Len(a)
  <2>1. /\ N \in Nat /\ E + N = Len(x) /\ F + N = Len(y)
        /\ E \in 0..Len(x) /\ F \in 0..Len(y) /\ E + N <= Len(x) /\ F + N <= Len(y)
    BY <1>0, <1>5, <1>6, <1>9
  <2>2. v[E] = w[F] /\ \A m \in 1..N : x[E + m] = y[F + m]
    BY <1>3, <1>4, <1>9
  <2> HIDE DEF E, F, N
  <2>f. AlikeFrom(x, E, y, F, N)
    BY <2>1, <2>2 DEF AlikeFrom
  <2>3. v[E + N] = w[F + N]
    BY <1>1, <1>2, <2>1, <2>2, <2>f, LeadAlike
  <2> QED BY <1>1, <1>2, <2>1, <2>3
<1> QED BY <1>7, <1>8, <1>9 DEF a, b

\* A value is a natural.
LEMMA ValueIs ==
  ASSUME NEW x \in Seq(Digits)
  PROVE  ValueOf(x) \in Nat
<1>1. PICK v : IsValues(x, v) /\ ValueOf(x) = v[Len(x)]
  BY ValuesAre
<1>2. Len(x) \in 0..Len(x)
  BY DigitsAre
<1> QED BY <1>1, <1>2 DEF IsValues

\* So CompareDigits orders numbers by their values.
LEMMA DigitsInOrder ==
  ASSUME NEW x \in Seq(Digits), NEW y \in Seq(Digits)
  PROVE  CompareDigits(x, y) = Sign(ValueOf(x), ValueOf(y))
<1> DEFINE a == Significant(x)
           b == Significant(y)
           m == ValueOf(x)
           n == ValueOf(y)
<1>1. CompareDigits(x, y) = IF Len(a) # Len(b) THEN Sign(Len(a), Len(b)) ELSE Lexicographic(a, b)
  BY DEF CompareDigits, Significant
<1>2. a \in Seq(Nat) /\ b \in Seq(Nat)
  BY DigitsAre, SignificantIs
<1>3. /\ Len(a) < Len(b) => m < n
      /\ Len(a) = Len(b) /\ Precedes(a, b) => m < n
      /\ a = b => m = n
  BY ValuesBelow
<1>4. /\ Len(b) < Len(a) => n < m
      /\ Len(b) = Len(a) /\ Precedes(b, a) => n < m
  BY ValuesBelow
<1>5. m \in Nat /\ n \in Nat
  BY ValueIs
<1> HIDE DEF a, b, m, n
<1>6. Len(a) \in Nat /\ Len(b) \in Nat
  BY <1>2
<1>7. /\ Lexicographic(a, b) = IF Precedes(a, b) THEN -1 ELSE IF Precedes(b, a) THEN 1 ELSE 0
      /\ ~Precedes(a, b) /\ ~Precedes(b, a) => a = b
  BY <1>2, LexicographicIs
<1>8. CompareDigits(x, y) = Sign(m, n)
  <2>1. CASE Len(a) # Len(b)
    BY <1>1, <1>3, <1>4, <1>5, <1>6, <2>1 DEF Sign
  <2>2. CASE Len(a) = Len(b)
    BY <1>1, <1>3, <1>4, <1>5, <1>7, <2>2 DEF Sign
  <2> QED BY <2>1, <2>2
<1> QED BY <1>8 DEF m, n

\* Two numbers are compared in one turn.
LEMMA NumbersInOrder ==
  ASSUME NEW x \in Seq(Nat), NEW y \in Seq(Nat), AllDigits(x), AllDigits(y)
  PROVE  Compare(x, y) = Sign(ValueOf(x), ValueOf(y))
<1>1. ASSUME NEW s \in Seq(Nat), AllDigits(s)
      PROVE  /\ s \in Seq(Digits) /\ Len(s) \in Nat \ {0}
             /\ 1 \in Positions(s) /\ Len(s) + 1 \in Positions(s) /\ 1 <= Len(s)
             /\ \A k \in 1..Len(s) : s[k] \in Digits
  <2>1. Len(s) \in Nat /\ \A k \in 1..Len(s) : s[k] \in Digits
    BY <1>1 DEF AllDigits
  <2>2. Len(s) # 0
    BY <1>1 DEF AllDigits
  <2>3. s \in [1..Len(s) -> Digits]
    BY <2>1
  <2>4. s \in Seq(Digits)
    BY <2>1, <2>3
  <2> QED BY <2>1, <2>2, <2>4 DEF Positions
<1>2. ASSUME NEW s \in Seq(Nat), AllDigits(s)
      PROVE  /\ SkipSeparators(s, 1) = 1 /\ SkipSeparators(s, Len(s) + 1) = Len(s) + 1
             /\ NumberAt(s, 1) = s
             /\ \A c \in {Tilde, Dash, Caret, Dot} : ~Has(s, 1, c) /\ ~Has(s, Len(s) + 1, c)
  <2>1. /\ s \in Seq(Digits) /\ Len(s) \in Nat \ {0} /\ 1 \in 1..Len(s) + 1 /\ Len(s) + 1 \in 1..Len(s) + 1
        /\ \A k \in 1..Len(s) : s[k] \in Digits
    BY <1>1, <1>2 DEF Positions
  <2>2. \A d \in Digits : d \in Valid /\ d \notin {Tilde, Dash, Caret, Dot}
    BY DEF Digits, Valid, Tilde, Dash, Caret, Dot
  <2>3. s[1] \in Digits
    BY <2>1
  <2>4. SkipSeparators(s, 1) = 1
    <3>1. EndsAt(s, 1, Nat \ Valid, 1)
      BY <2>1, <2>2, <2>3 DEF EndsAt
    <3> QED BY <2>1, <3>1, SkipIs
  <2>5. SkipSeparators(s, Len(s) + 1) = Len(s) + 1
    <3>1. EndsAt(s, Len(s) + 1, Nat \ Valid, Len(s) + 1)
      BY <2>1 DEF EndsAt
    <3> QED BY <2>1, <3>1, SkipIs
  <2>6. NumberAt(s, 1) = s
    <3>1. EndsAt(s, 1, Digits, Len(s) + 1)
      BY <2>1 DEF EndsAt
    <3>2. PrefixEnd(s, 1, Digits) = Len(s) + 1
      BY <2>1, <3>1, PrefixEndIs
    <3>3. NumberAt(s, 1) = SubSeq(s, 1, Len(s))
      <4>1. (Len(s) + 1) - 1 = Len(s)
        BY <2>1
      <4> QED BY <3>2, <4>1 DEF NumberAt, WordOf
    <3>4. SubSeq(s, 1, Len(s)) = s
      <4> DEFINE u == SubSeq(s, 1, Len(s))
      <4>1. u \in Seq(Nat) /\ Len(u) = Len(s) /\ \A k \in 1..Len(u) : u[k] = s[k]
        BY <2>1
      <4> HIDE DEF u
      <4>2. u = s
        BY <4>1, SeqEqual
      <4> QED BY <4>2 DEF u
    <3> QED BY <3>3, <3>4
  <2>7. \A c \in {Tilde, Dash, Caret, Dot} : ~Has(s, 1, c) /\ ~Has(s, Len(s) + 1, c)
    BY <2>1, <2>2, <2>3 DEF Has
  <2> QED BY <2>4, <2>5, <2>6, <2>7
<1> DEFINE M == Len(x)
           N == Len(y)
<1>3. /\ x \in Seq(Digits) /\ y \in Seq(Digits) /\ M \in Nat \ {0} /\ N \in Nat \ {0}
      /\ 1 \in Positions(x) /\ 1 \in Positions(y) /\ M + 1 \in Positions(x) /\ N + 1 \in Positions(y)
      /\ 1 <= M /\ 1 <= N
  BY <1>1
\* No marker is taken where there is none.
<1>4. ASSUME NEW i, NEW j, \A c \in {Tilde, Dash, Caret, Dot} : ~Has(x, i, c) /\ ~Has(y, j, c)
      PROVE  /\ Take(At(i, j), x, y, Tilde) = At(i, j) /\ Marked(At(i, j), x, y) = At(i, j)
             /\ \A s : s.verdict # Open => Marked(s, x, y) = s /\ RunsOf(s, x, y) = s
  <2>1. At(i, j).i = i /\ At(i, j).j = j
    BY DEF At
  <2>2. \A c \in {Tilde, Dash, Caret, Dot} : Take(At(i, j), x, y, c) = At(i, j)
    BY <1>4, <2>1 DEF Take
  <2>3. Marked(At(i, j), x, y) = At(i, j)
    BY <2>2 DEF Marked
  <2>4. ASSUME NEW s, s.verdict # Open PROVE Marked(s, x, y) = s /\ RunsOf(s, x, y) = s
    <3>1. \A c : Take(s, x, y, c) = s
      BY <2>4 DEF Take
    <3>2. Marked(s, x, y) = s
      BY <3>1 DEF Marked
    <3>3. RunsOf(s, x, y) = s
      BY <2>4 DEF RunsOf
    <3> QED BY <3>2, <3>3
  <2> QED BY <2>2, <2>3, <2>4
<1>5. /\ At(1, 1) \in Seen(x, y) /\ At(1, 1).verdict = Open /\ At(1, 1).i = 1 /\ At(1, 1).j = 1
      /\ At(M + 1, N + 1).verdict = Open /\ At(M + 1, N + 1).i = M + 1 /\ At(M + 1, N + 1).j = N + 1
      /\ \A v \in {-1, 0, 1} : Decided(v).verdict = v /\ v # Open
  BY <1>3, AtIs
<1> DEFINE order == CompareDigits(x, y)
<1>6. TurnFrom(x, 1, y, 1) = IF order = 0 THEN At(M + 1, N + 1) ELSE Decided(order)
  <2>1. TurnFrom(x, 1, y, 1) = Turn(At(1, 1), x, y)
    BY <1>2 DEF TurnFrom
  <2>2. Take(At(1, 1), x, y, Tilde) = At(1, 1) /\ Marked(At(1, 1), x, y) = At(1, 1)
    BY <1>2, <1>4
  <2>3. Ended(At(1, 1), x, y) = At(1, 1)
    BY <1>3, <1>5 DEF Ended
  <2>4. Turn(At(1, 1), x, y) = RunsOf(At(1, 1), x, y)
    BY <2>2, <2>3 DEF Turn
  <2>5. NumberAt(x, 1) = x /\ NumberAt(y, 1) = y /\ x # <<>> /\ y # <<>>
    BY <1>2 DEF AllDigits
  <2>6. RunOrder(x, 1, y, 1) = order /\ RunAt(x, 1) = x /\ RunAt(y, 1) = y
    BY <2>5 DEF RunOrder, NumberOrder, RunAt
  <2>7. RunsOf(At(1, 1), x, y) = IF order = 0 THEN At(1 + M, 1 + N) ELSE Decided(order)
    BY <1>5, <2>6, RunsIs
  <2>8. 1 + M = M + 1 /\ 1 + N = N + 1
    BY <1>3
  <2> QED BY <2>1, <2>4, <2>7, <2>8
<1>7. TurnFrom(x, M + 1, y, N + 1) = Decided(0)
  <2>1. TurnFrom(x, M + 1, y, N + 1) = Turn(At(M + 1, N + 1), x, y)
    BY <1>2 DEF TurnFrom
  <2>2. Take(At(M + 1, N + 1), x, y, Tilde) = At(M + 1, N + 1)
    BY <1>2, <1>4
  <2>3. Ended(At(M + 1, N + 1), x, y) = Decided(0)
    BY <1>3, <1>5 DEF Ended
  <2>4. Marked(Decided(0), x, y) = Decided(0) /\ RunsOf(Decided(0), x, y) = Decided(0)
    BY <1>2, <1>4, <1>5
  <2> QED BY <2>1, <2>2, <2>3, <2>4 DEF Turn
<1>8. PICK f : IsOrder(x, y, f) /\ Compare(x, y) = f[<<1, 1>>]
  BY CompareIs
<1>9. order \in {-1, 0, 1}
  BY DigitsOrder
<1> HIDE DEF order
<1>10. f[<<M + 1, N + 1>>] = 0
  <2> DEFINE m == M + 1
             n == N + 1
             t == TurnFrom(x, m, y, n)
  <2>1. m \in Positions(x) /\ n \in Positions(y) /\ t = Decided(0)
    BY <1>3, <1>7
  <2> HIDE DEF m, n
  <2>2. f[<<m, n>>] = 0
    <3>1. Decided(0).verdict = 0 /\ 0 # Open
      BY <1>5
    <3>2. f[<<m, n>>] = IF t.verdict # Open THEN t.verdict ELSE f[<<t.i, t.j>>]
      BY <1>8, <2>1, OrderAt
    <3> HIDE DEF t
    <3> QED BY <2>1, <3>1, <3>2
  <2> QED BY <2>2 DEF m, n
<1>11. f[<<1, 1>>] = order
  <2> DEFINE t == TurnFrom(x, 1, y, 1)
  <2>1. f[<<1, 1>>] = IF t.verdict # Open THEN t.verdict ELSE f[<<t.i, t.j>>]
    BY <1>3, <1>8, OrderAt
  <2> HIDE DEF t
  <2>2. t = IF order = 0 THEN At(M + 1, N + 1) ELSE Decided(order)
    BY <1>6 DEF t
  <2>3. CASE order = 0
    BY <1>5, <1>10, <2>1, <2>2, <2>3
  <2>4. CASE order # 0
    BY <1>5, <1>9, <2>1, <2>2, <2>4
  <2> QED BY <2>3, <2>4
<1> QED BY <1>3, <1>8, <1>11, DigitsInOrder DEF order

\* What is known of an order of some things.
Orders(S, order) ==
  \A x, y, z \in S :
    /\ order[<<x, y>>] \in {-1, 0, 1} /\ order[<<y, x>>] = -order[<<x, y>>]
    /\ Between(order[<<x, y>>], order[<<y, z>>], order[<<x, z>>])
Below(S, order, x) == {y \in S : order[<<y, x>>] < 0}

\* The number of those before a thing says where it stands.
LEMMA PlacesOrder ==
  ASSUME NEW S, IsFiniteSet(S), NEW order, Orders(S, order), NEW x \in S, NEW y \in S
  PROVE  /\ Cardinality(Below(S, order, x)) \in Nat
         /\ order[<<x, y>>] = Sign(Cardinality(Below(S, order, x)), Cardinality(Below(S, order, y)))
<1>1. ASSUME NEW u \in S
      PROVE  IsFiniteSet(Below(S, order, u)) /\ Cardinality(Below(S, order, u)) \in Nat
  <2>1. Below(S, order, u) \subseteq S
    BY DEF Below
  <2>2. IsFiniteSet(Below(S, order, u))
    BY <2>1, FS_Subset
  <2> QED BY <2>2, FS_CardinalityType
<1>2. ASSUME NEW u \in S, NEW w \in S, order[<<u, w>>] < 0
      PROVE  Cardinality(Below(S, order, u)) < Cardinality(Below(S, order, w))
  <2>1. u \in Below(S, order, w)
    BY <1>2 DEF Below
  <2>2. u \notin Below(S, order, u)
    <3>1. order[<<u, u>>] \in {-1, 0, 1} /\ order[<<u, u>>] = -order[<<u, u>>]
      BY DEF Orders
    <3> QED BY <3>1 DEF Below
  <2>3. Below(S, order, u) \subseteq Below(S, order, w)
    <3> SUFFICES ASSUME NEW t \in S, order[<<t, u>>] < 0 PROVE order[<<t, w>>] < 0
      BY DEF Below
    <3>1. Between(order[<<t, u>>], order[<<u, w>>], order[<<t, w>>])
      BY DEF Orders
    <3>2. order[<<t, u>>] \in {-1, 0, 1} /\ order[<<u, w>>] \in {-1, 0, 1} /\ order[<<t, w>>] \in {-1, 0, 1}
      BY DEF Orders
    <3> QED BY <1>2, <3>1, <3>2 DEF Between
  <2>4. /\ Cardinality(Below(S, order, u)) <= Cardinality(Below(S, order, w))
        /\ Cardinality(Below(S, order, u)) = Cardinality(Below(S, order, w))
             => Below(S, order, u) = Below(S, order, w)
    BY <1>1, <2>3, FS_Subset
  <2> QED BY <1>1, <2>1, <2>2, <2>4
<1>3. ASSUME order[<<x, y>>] = 0
      PROVE  Cardinality(Below(S, order, x)) = Cardinality(Below(S, order, y))
  <2>1. ASSUME NEW u \in S, NEW w \in S, order[<<u, w>>] = 0 PROVE Below(S, order, u) \subseteq Below(S, order, w)
    <3> SUFFICES ASSUME NEW t \in S, order[<<t, u>>] < 0 PROVE order[<<t, w>>] < 0
      BY DEF Below
    <3>1. Between(order[<<t, u>>], order[<<u, w>>], order[<<t, w>>])
      BY DEF Orders
    <3>2. order[<<t, u>>] \in {-1, 0, 1} /\ order[<<t, w>>] \in {-1, 0, 1}
      BY DEF Orders
    <3> QED BY <2>1, <3>1, <3>2 DEF Between
  <2>2. order[<<y, x>>] = 0
    <3>1. order[<<y, x>>] \in {-1, 0, 1} /\ order[<<x, y>>] = -order[<<y, x>>]
      BY DEF Orders
    <3> QED BY <1>3, <3>1
  <2>3. Below(S, order, x) = Below(S, order, y)
    BY <1>3, <2>1, <2>2
  <2> QED BY <2>3
<1>4. order[<<x, y>>] \in {-1, 0, 1} /\ order[<<y, x>>] = -order[<<x, y>>]
  BY DEF Orders
<1> DEFINE m == Cardinality(Below(S, order, x))
           n == Cardinality(Below(S, order, y))
<1>5. m \in Nat /\ n \in Nat
  BY <1>1
<1>6. /\ order[<<x, y>>] < 0 => m < n
      /\ order[<<y, x>>] < 0 => n < m
      /\ order[<<x, y>>] = 0 => m = n
  BY <1>2, <1>3
<1> HIDE DEF m, n
<1>7. order[<<x, y>>] = Sign(m, n)
  BY <1>4, <1>5, <1>6 DEF Sign
<1> QED BY <1>5, <1>7 DEF m, n

\* Of some things one is the last.
LEMMA OneIsNewest ==
  ASSUME NEW S, IsFiniteSet(S), S # {}, NEW order, Orders(S, order)
  PROVE  \E x \in S : \A y \in S : order[<<y, x>>] <= 0
<1> DEFINE N == Cardinality(S)
           Place(x) == Cardinality(Below(S, order, x))
           X == {n \in Nat : \E x \in S : n = N - Place(x)}
<1>1. ASSUME NEW x \in S PROVE Place(x) \in Nat /\ N \in Nat /\ Place(x) <= N
  <2>1. Below(S, order, x) \subseteq S
    BY DEF Below
  <2> QED BY <2>1, FS_Subset, FS_CardinalityType
<1>2. ASSUME NEW x \in S, NEW y \in S PROVE order[<<y, x>>] = Sign(Place(y), Place(x))
  BY PlacesOrder
<1> HIDE DEF N, Place
<1>3. PICK n \in X : \A m \in X : n <= m
  <2>1. PICK x \in S : TRUE
    OBVIOUS
  <2>2. N - Place(x) \in Nat
    BY <1>1
  <2>3. X # {} /\ X \subseteq Nat
    BY <2>2
  <2> HIDE DEF X
  <2> QED BY <2>3, LeastNatural
<1>4. PICK x \in S : n = N - Place(x)
  OBVIOUS
<1>5. ASSUME NEW y \in S PROVE order[<<y, x>>] <= 0
  <2>1. N - Place(y) \in X
    BY <1>1
  <2>2. Place(y) <= Place(x)
    <3>1. n <= N - Place(y)
      <4> HIDE DEF X
      <4> QED BY <1>3, <2>1
    <3> QED BY <1>1, <1>4, <3>1
  <2> QED BY <1>1, <1>2, <2>2 DEF Sign
<1> QED BY <1>5

\* compare is such an order.
LEMMA CompareIsOne ==
  ASSUME NEW versions \in SUBSET Seq(Nat)
  PROVE  Orders(versions, [p \in versions \X versions |-> Compare(p[1], p[2])])
<1> DEFINE order == [p \in versions \X versions |-> Compare(p[1], p[2])]
<1>1. \A x, y \in versions : order[<<x, y>>] = Compare(x, y)
  OBVIOUS
<1> HIDE DEF order
<1>2. \A x, y, z \in versions :
        /\ Compare(x, y) \in {-1, 0, 1} /\ Compare(y, x) = -Compare(x, y)
        /\ Between(Compare(x, y), Compare(y, z), Compare(x, z))
  BY CompareOrders
<1>3. Orders(versions, order)
  <2> SUFFICES ASSUME NEW x \in versions, NEW y \in versions, NEW z \in versions
               PROVE  /\ order[<<x, y>>] \in {-1, 0, 1} /\ order[<<y, x>>] = -order[<<x, y>>]
                      /\ Between(order[<<x, y>>], order[<<y, z>>], order[<<x, z>>])
    BY DEF Orders
  <2>1. /\ order[<<x, y>>] = Compare(x, y) /\ order[<<y, x>>] = Compare(y, x)
        /\ order[<<y, z>>] = Compare(y, z) /\ order[<<x, z>>] = Compare(x, z)
    BY <1>1
  <2> QED BY <1>2, <2>1
<1> QED BY <1>3 DEF order

\* So it says of two versions what their places say.
LEMMA StandsAt ==
  ASSUME NEW versions \in SUBSET Seq(Nat), IsFiniteSet(versions), NEW x \in versions, NEW y \in versions
  PROVE  /\ Places(versions)[x] \in Nat
         /\ Compare(x, y) = Sign(Places(versions)[x], Places(versions)[y])
<1> DEFINE order == [p \in versions \X versions |-> Compare(p[1], p[2])]
<1>1. \A u, w \in versions : order[<<u, w>>] = Compare(u, w)
  OBVIOUS
<1>2. Orders(versions, order)
  BY CompareIsOne
<1> HIDE DEF order
<1>3. ASSUME NEW u \in versions PROVE Places(versions)[u] = Cardinality(Below(versions, order, u))
  <2>1. {t \in versions : Compare(t, u) < 0} = Below(versions, order, u)
    BY <1>1 DEF Below
  <2> QED BY <2>1 DEF Places
<1>4. /\ Cardinality(Below(versions, order, x)) \in Nat
      /\ order[<<x, y>>] = Sign(Cardinality(Below(versions, order, x)), Cardinality(Below(versions, order, y)))
  BY <1>2, PlacesOrder
<1> QED BY <1>1, <1>3, <1>4

(* Over any versions, compare is one order: of any two it says what their  *)
(* places say, and so no maximum depends on the order versions are met in; *)
(* numbers are in the order of their values, of any length and with any    *)
(* zeros before them; and what leads up to a version, after a tilde, is    *)
(* before it.  (compare in image/version.py.)                              *)
THEOREM VersionsAreOrdered ==
  ASSUME NEW versions \in SUBSET Seq(Nat), IsFiniteSet(versions), NEW x \in versions
  PROVE  OrderFor(versions, Places(versions), x)
<1>1. x \in Seq(Nat) /\ \A y \in versions : y \in Seq(Nat)
  OBVIOUS
<1>2. ASSUME NEW y \in versions PROVE Compare(x, y) = Sign(Places(versions)[x], Places(versions)[y])
  BY StandsAt
<1>3. \A y \in versions : AllDigits(x) /\ AllDigits(y) => Compare(x, y) = Sign(ValueOf(x), ValueOf(y))
  BY <1>1, NumbersInOrder
<1>4. x # <<>> /\ x[Len(x)] \in Digits \cup Letters => Compare(x \o <<Tilde>>, x) = -1
  BY <1>1, TildeIsBefore
<1> QED BY <1>2, <1>3, <1>4 DEF OrderFor

-----------------------------------------------------------------------------
(* What boots                                                              *)

\* Candidates are in the order of their releases, and of their paths in one.
LEMMA CandidatesOrder ==
  ASSUME NEW kind, \A u \in kind : u.release \in Seq(Nat) /\ u.path \in Seq(Nat)
  PROVE  Orders(kind, [p \in kind \X kind |-> CandidateCompare(p[1], p[2])])
<1> DEFINE order == [p \in kind \X kind |-> CandidateCompare(p[1], p[2])]
<1>1. \A x, y \in kind : order[<<x, y>>] = CandidateCompare(x, y)
  OBVIOUS
<1> HIDE DEF order
<1>2. ASSUME NEW x \in kind, NEW y \in kind, NEW z \in kind
      PROVE  /\ CandidateCompare(x, y) \in {-1, 0, 1} /\ CandidateCompare(y, x) = -CandidateCompare(x, y)
             /\ Between(CandidateCompare(x, y), CandidateCompare(y, z), CandidateCompare(x, z))
  <2> DEFINE a == Compare(x.release, y.release)
             b == Compare(y.release, z.release)
             c == Compare(x.release, z.release)
             d == Lexicographic(x.path, y.path)
             e == Lexicographic(y.path, z.path)
             f == Lexicographic(x.path, z.path)
  <2>1. a \in {-1, 0, 1} /\ Compare(y.release, x.release) = -a /\ Between(a, b, c)
    BY CompareOrders
  <2>2. b \in {-1, 0, 1} /\ c \in {-1, 0, 1}
    BY CompareOrders
  <2>3. d \in {-1, 0, 1} /\ Lexicographic(y.path, x.path) = -d /\ Between(d, e, f)
    BY LexicographicOrders
  <2>4. e \in {-1, 0, 1} /\ f \in {-1, 0, 1}
    BY LexicographicOrders
  <2>5. /\ CandidateCompare(x, y) = IF a # 0 THEN a ELSE d
        /\ CandidateCompare(y, z) = IF b # 0 THEN b ELSE e
        /\ CandidateCompare(x, z) = IF c # 0 THEN c ELSE f
        /\ CandidateCompare(y, x) = IF -a # 0 THEN -a ELSE -d
    BY <2>1, <2>3 DEF CandidateCompare
  <2> HIDE DEF a, b, c, d, e, f
  <2>6. (IF -a # 0 THEN -a ELSE -d) = -(IF a # 0 THEN a ELSE d)
    BY <2>1, <2>3
  <2>7. Between(IF a # 0 THEN a ELSE d, IF b # 0 THEN b ELSE e, IF c # 0 THEN c ELSE f)
    BY <2>1, <2>2, <2>3, <2>4 DEF Between
  <2> QED BY <2>1, <2>3, <2>5, <2>6, <2>7
<1>3. Orders(kind, order)
  <2> SUFFICES ASSUME NEW x \in kind, NEW y \in kind, NEW z \in kind
               PROVE  /\ order[<<x, y>>] \in {-1, 0, 1} /\ order[<<y, x>>] = -order[<<x, y>>]
                      /\ Between(order[<<x, y>>], order[<<y, z>>], order[<<x, z>>])
    BY DEF Orders
  <2>1. /\ order[<<x, y>>] = CandidateCompare(x, y) /\ order[<<y, x>>] = CandidateCompare(y, x)
        /\ order[<<y, z>>] = CandidateCompare(y, z) /\ order[<<x, z>>] = CandidateCompare(x, z)
    BY <1>1
  <2> QED BY <1>2, <2>1
<1> QED BY <1>3 DEF order

\* What is chosen has no newer one.
LEMMA NewestIs ==
  ASSUME NEW kind, IsFiniteSet(kind), kind # {}, \A u \in kind : u.release \in Seq(Nat) /\ u.path \in Seq(Nat)
  PROVE  Newest(kind) \in kind /\ \A y \in kind : Compare(y.release, Newest(kind).release) <= 0
<1> DEFINE order == [p \in kind \X kind |-> CandidateCompare(p[1], p[2])]
<1>1. \A x, y \in kind : order[<<x, y>>] = CandidateCompare(x, y)
  OBVIOUS
<1>2. Orders(kind, order)
  BY CandidatesOrder
<1> HIDE DEF order
<1>3. \E x \in kind : \A y \in kind : CandidateCompare(y, x) <= 0
  <2>1. PICK x \in kind : \A y \in kind : order[<<y, x>>] <= 0
    BY <1>2, OneIsNewest
  <2>2. \A y \in kind : CandidateCompare(y, x) <= 0
    BY <1>1, <2>1
  <2> QED BY <2>2
<1>4. Newest(kind) \in kind /\ \A y \in kind : CandidateCompare(y, Newest(kind)) <= 0
  BY <1>3, Zenon DEF Newest
<1>5. ASSUME NEW y \in kind PROVE Compare(y.release, Newest(kind).release) <= 0
  <2> DEFINE c == Compare(y.release, Newest(kind).release)
  <2>1. CandidateCompare(y, Newest(kind)) <= 0
    BY <1>4
  <2>2. CandidateCompare(y, Newest(kind)) = IF c # 0 THEN c ELSE Lexicographic(y.path, Newest(kind).path)
    BY DEF CandidateCompare
  <2> HIDE DEF c
  <2>3. c <= 0
    BY <2>1, <2>2
  <2> QED BY <2>3 DEF c
<1> QED BY <1>4, <1>5

(* What boots is the newest of an image's unified kernel images, or of its *)
(* kernels where it has none of those, with an initrd made for that        *)
(* release, or nothing: never an older one, nor with another's initrd.     *)
(* (_select in image/boot.py.)                                             *)
THEOREM TheNewestBoots ==
  ASSUME NEW versions \in SUBSET Seq(Nat), IsFiniteSet(versions), NEW image,
         IsFiniteSet(image.ukis), IsFiniteSet(image.modules), IsFiniteSet(image.boot),
         \A u \in image.ukis \cup image.modules \cup image.boot :
           u.release \in versions /\ u.path \in Seq(Nat) \ {<<>>}
  PROVE  BootsNewestFor(image, Places(versions))
<1> DEFINE place == Places(versions)
           kind == IF Ukis(image) # {} THEN Ukis(image) ELSE Kernels(image)
           x == Newest(kind)
           newest == NewestOf(kind, place)
           initrd == IF Ukis(image) # {} /\ x.initrd THEN x.path ELSE MatchingInitrd(image, x.release)
<1>1. IsFiniteSet(kind) /\ kind \subseteq image.ukis \cup image.modules \cup image.boot
  <2>1. Ukis(image) \subseteq image.ukis /\ Kernels(image) \subseteq image.modules \cup image.boot
    BY DEF Ukis, Kernels
  <2>2. IsFiniteSet(image.modules \cup image.boot)
    BY FS_Union
  <2> QED BY <2>1, <2>2, FS_Subset
<1>2. \A u \in kind : u.release \in versions /\ u.release \in Seq(Nat) /\ u.path \in Seq(Nat) /\ u.path # <<>>
  BY <1>1
<1>3. kind = {} => Selected(image) = Nothing
  BY DEF Selected
<1>4. kind # {} => Selected(image) = Chosen(x, initrd)
  BY DEF Selected, ChosenUki, ChosenKernel
<1>5. \A u \in Ukis(image) : u \in kind
  OBVIOUS
<1>6. ASSUME kind # {} PROVE x \in newest /\ x \in kind
  <2> HIDE DEF kind, place
  <2>1. x \in kind /\ \A y \in kind : Compare(y.release, x.release) <= 0
    BY <1>1, <1>2, <1>6, NewestIs
  <2> HIDE DEF x
  <2>2. ASSUME NEW y \in kind PROVE place[y.release] <= place[x.release]
    <3>1. /\ place[y.release] \in Nat /\ place[x.release] \in Nat
          /\ Compare(y.release, x.release) = Sign(place[y.release], place[x.release])
      <4> DEFINE u == y.release
                 w == x.release
      <4>1. u \in versions /\ w \in versions
        BY <1>2, <2>1
      <4> HIDE DEF u, w
      <4>2. /\ Places(versions)[u] \in Nat /\ Places(versions)[w] \in Nat
            /\ Compare(u, w) = Sign(Places(versions)[u], Places(versions)[w])
        BY <4>1, StandsAt
      <4> QED BY <4>2 DEF place, u, w
    <3>2. Compare(y.release, x.release) <= 0
      BY <2>1
    <3> QED BY <3>1, <3>2 DEF Sign
  <2> QED BY <2>1, <2>2 DEF NewestOf
<1>7. kind # {} /\ Ukis(image) # {} => x \in Ukis(image)
  BY <1>6
<1>8. \A u \in newest : u \in kind
  BY DEF NewestOf
<1>9. Boots(image, newest, Selected(image))
  <2>1. CASE kind = {}
    BY <1>3, <1>8, <2>1 DEF Boots
  <2>2. CASE kind # {}
    <3>1. Selected(image) = Chosen(x, initrd) /\ x \in newest /\ x \in kind /\ x.path # <<>>
      BY <1>2, <1>4, <1>6, <2>2
    <3>2. initrd = None => MatchingInitrd(image, x.release) = None
      BY <3>1 DEF None
    <3>3. initrd = MatchingInitrd(image, x.release) \/ (x \in Ukis(image) /\ x.initrd /\ initrd = x.path)
      BY <1>7, <2>2
    <3> HIDE DEF x, kind, newest, initrd
    <3>4. CASE initrd = None
      <4>1. Selected(image) = Nothing
        BY <3>1, <3>4 DEF Chosen
      <4>2. \A u \in newest : MatchingInitrd(image, u.release) = None \/ \E y \in newest : y # u
        BY <3>1, <3>2, <3>4
      <4> QED BY <4>1, <4>2 DEF Boots
    <3>5. CASE initrd # None
      <4>1. Selected(image) = [release |-> x.release, kernel |-> x.path, initrd |-> initrd]
        BY <3>1, <3>5 DEF Chosen
      <4>2. /\ Selected(image).release = x.release /\ Selected(image).kernel = x.path
            /\ Selected(image).initrd = initrd
        BY <4>1
      <4>3. Selected(image) # Nothing
        BY <3>5, <4>2 DEF Nothing
      <4> QED BY <3>1, <3>3, <4>2, <4>3 DEF Boots
    <3> QED BY <3>4, <3>5
  <2> QED BY <2>1, <2>2
<1> QED BY <1>9 DEF BootsNewestFor
==============================================================================
