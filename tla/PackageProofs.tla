--------------------------- MODULE PackageProofs ---------------------------
(***************************************************************************)
(* How packages come from an archive into a box (Supply.tla), for any      *)
(* archive, boxes, mirrors and length of time, from there into a root      *)
(* (InstallRoot.tla), for any packages and number of layers, how what is   *)
(* pinned moves on (Catalog.tla), for any repositories and boxes, and what *)
(* a plan delivers (Plan.tla), for any request.                            *)
(***************************************************************************)
EXTENDS Supply, InstallRoot, Catalog, Plan, FiniteSetTheorems, WellFoundedInduction, TLAPS

\* Of naturals that have a property, one is the first.
LEMMA Least ==
  ASSUME NEW X, X \subseteq Nat, X # {}
  PROVE  \E i \in X : \A k \in X : i <= k
<1>1. PICK i \in X : \A k \in X : ~(<<k, i>> \in OpToRel(<, Nat))
  BY WFMin, NatLessThanWellFounded, Zenon
<1>2. ASSUME NEW k \in X PROVE i <= k
  <2>1. k \in Nat /\ i \in Nat
    OBVIOUS
  <2>2. ~(k < i)
    BY <1>1, <2>1, Zenon DEF OpToRel
  <2> QED BY <2>1, <2>2
<1> QED BY <1>2

(***************************************************************************)
(* From an archive into a box: the inductive invariant dates what is       *)
(* pinned and what locks keep, and says that what a lock selects is listed *)
(* by what it keeps.                                                       *)
(***************************************************************************)
Snapshot == [signed : Release \cup {Unsigned}, index : Release \cup {Forged}, at : Nat \cup {Never}]
Lock == [packages : SUBSET Package, kept : SUBSET Snapshot]

SupplyTypes ==
  /\ SupplyTypeOK
  /\ system \in {"deb", "alpm", "rpm"} /\ rolling \in BOOLEAN
  /\ locks \in [Box -> Lock]

\* A pin has a date, of a day that has come, unless the mirror has none; what a
\* lock keeps always has one, ...
DateInv ==
  /\ pin # NoPin => pin \in Snapshot /\ pin.at \in (IF rolling THEN {Never} ELSE 0..today)
  /\ \A b \in Box :
       IsFiniteSet(locks[b].kept) /\ \A k \in locks[b].kept : ~rolling /\ k.at \in 0..today

\* ... lists all that the lock selects, ...
KeptInv ==
  system # "rpm" /\ ~rolling =>
    \A b \in Box : \A p \in locks[b].packages : \E k \in locks[b].kept : p \in Listed(k.index)

\* ... and nothing is built before there is a pin.
PinnedInv == pin = NoPin => \A b \in Box : built[b].verdict # "accepted"

SupplyInv == SupplyTypes /\ DateInv /\ KeptInv /\ PinnedInv /\ OnlyVouched

LEMMA SupplyInitInv == ASSUME SupplyAssumption, SupplyInit PROVE SupplyInv
<1>1. SupplyTypes
  BY DEF SupplyAssumption, SupplyInit, SupplyTypes, SupplyTypeOK, Lock, NoLock, NotBuilt
<1>2. DateInv /\ KeptInv
  BY FS_EmptySet DEF SupplyInit, DateInv, KeptInv, NoLock
<1>3. PinnedInv /\ OnlyVouched
  BY DEF SupplyInit, PinnedInv, OnlyVouched, NotBuilt
<1> QED BY <1>1, <1>2, <1>3 DEF SupplyInv

\* Every system pins what has a type and the date that was asked for.
LEMMA SnapshotTyped ==
  ASSUME SupplyAssumption, SupplyTypes, NEW date \in Nat \cup {Never}, NEW s \in Snapshots(date)
  PROVE  s \in Snapshot /\ s.at = date
  BY DEF SupplyTypes, Snapshots, Releases, Databases, Streams, Snapshot

\* What a box is resolved to is listed by what its lock keeps, if it keeps anything.
LEMMA ResolvedKept ==
  ASSUME SupplyAssumption, SupplyTypes, NEW s \in Snapshot, NEW l \in Resolved(s)
  PROVE  /\ l \in Lock /\ l.packages \subseteq Listed(s.index)
         /\ l.kept = IF system # "rpm" /\ s.at # Never THEN {s} ELSE {}
<1>1. Listed(s.index) \subseteq Package
  BY DEF Listed, SupplyAssumption, Snapshot
<1>2. Recorded(s) \subseteq Snapshot
  BY DEF Recorded
<1> QED BY <1>1, <1>2 DEF Resolved, Recorded, Lock

LEMMA RefreshKeeps == ASSUME SupplyAssumption, SupplyInv, Refresh PROVE SupplyInv'
<1> USE DEF SupplyInv
<1>1. PICK asked \in SUBSET Box,
           date \in IF rolling THEN {Never} ELSE {t \in 0..today : pin = NoPin \/ pin.at <= t} :
        \E s \in Snapshots(date) : \E made \in [asked -> Resolved(s)] :
          /\ pin' = s
          /\ locks' = [b \in Box |-> IF b \in asked THEN made[b] ELSE locks[b]]
          /\ built' = [b \in Box |-> IF b \in asked THEN NotBuilt ELSE built[b]]
  BY DEF Refresh
<1>2. PICK s \in Snapshots(date) : \E made \in [asked -> Resolved(s)] :
          /\ pin' = s
          /\ locks' = [b \in Box |-> IF b \in asked THEN made[b] ELSE locks[b]]
          /\ built' = [b \in Box |-> IF b \in asked THEN NotBuilt ELSE built[b]]
  BY <1>1
<1>3. PICK made \in [asked -> Resolved(s)] :
        /\ locks' = [b \in Box |-> IF b \in asked THEN made[b] ELSE locks[b]]
        /\ built' = [b \in Box |-> IF b \in asked THEN NotBuilt ELSE built[b]]
  BY <1>2
<1>4. UNCHANGED <<system, rolling, today>>
  BY DEF Refresh
<1>5. today \in Nat /\ MaxDay \in Nat /\ today <= MaxDay
  BY DEF SupplyTypes, SupplyTypeOK, SupplyAssumption
<1>6. date \in (IF rolling THEN {Never} ELSE 0..today)
  OBVIOUS
<1>7. date \in Nat \cup {Never}
  BY <1>5, <1>6
<1>8. s \in Snapshot /\ s.at = date /\ pin' = s
  BY <1>2, <1>7, SnapshotTyped
<1>9. \A b \in asked :
        /\ made[b] \in Lock /\ made[b].packages \subseteq Listed(s.index)
        /\ made[b].kept = IF system # "rpm" /\ s.at # Never THEN {s} ELSE {}
  BY <1>8, ResolvedKept
<1>10. SupplyTypes'
  <2>1. locks' \in [Box -> Lock]
    BY <1>3, <1>9 DEF SupplyTypes
  <2>2. built' \in [Box -> [verdict : {"none", "accepted", "refused"}, at : 0..MaxDay]]
    BY <1>3, <1>5 DEF SupplyTypes, SupplyTypeOK, NotBuilt
  <2>3. \A b \in Box : locks'[b].packages \subseteq Package
    BY <2>1 DEF Lock
  <2>4. pin' \in [signed : Release \cup {Unsigned}, index : Release \cup {Forged}, at : (0..MaxDay) \cup {Never}]
    BY <1>5, <1>6, <1>8 DEF Snapshot
  <2> QED BY <1>4, <2>1, <2>2, <2>3, <2>4 DEF SupplyTypes, SupplyTypeOK
<1>11. DateInv'
  <2>1. pin' \in Snapshot /\ pin'.at \in (IF rolling' THEN {Never} ELSE 0..today')
    BY <1>4, <1>6, <1>8
  <2>2. ASSUME NEW b \in Box
        PROVE  IsFiniteSet(locks'[b].kept) /\ \A k \in locks'[b].kept : ~rolling' /\ k.at \in 0..today'
    <3>1. CASE b \in asked
      <4>1. locks'[b].kept \in {{}, {s}} /\ (locks'[b].kept # {} => s.at # Never)
        BY <1>3, <1>9, <3>1
      <4>2. IsFiniteSet({}) /\ IsFiniteSet({s})
        BY FS_EmptySet, FS_Singleton
      <4>3. IsFiniteSet(locks'[b].kept)
        BY <4>1, <4>2
      <4> QED BY <1>4, <1>6, <1>8, <4>1, <4>3
    <3>2. CASE b \notin asked
      BY <1>3, <1>4, <3>2 DEF DateInv
    <3> QED BY <3>1, <3>2
  <2> QED BY <2>1, <2>2 DEF DateInv
<1>12. KeptInv'
  <2> SUFFICES ASSUME system # "rpm", ~rolling, NEW b \in Box, NEW p \in locks'[b].packages
               PROVE  \E k \in locks'[b].kept : p \in Listed(k.index)
    BY <1>4 DEF KeptInv, Listed
  <2>1. CASE b \in asked
    <3>1. s.at # Never
      BY <1>5, <1>6, <1>8 DEF SupplyAssumption
    <3>2. locks'[b].kept = {s} /\ p \in Listed(s.index)
      BY <1>3, <1>9, <2>1, <3>1
    <3> QED BY <3>2
  <2>2. CASE b \notin asked
    BY <1>3, <2>2 DEF KeptInv
  <2> QED BY <2>1, <2>2
<1>13. PinnedInv'
  BY <1>8 DEF PinnedInv, SupplyAssumption, Snapshot
<1>14. OnlyVouched'
  <2>1. \A b \in Box :
          \/ built'[b] = NotBuilt
          \/ built'[b] = built[b] /\ locks'[b] = locks[b]
    BY <1>3
  <2> QED BY <1>4, <2>1 DEF OnlyVouched, NotBuilt
<1> QED BY <1>10, <1>11, <1>12, <1>13, <1>14

LEMMA NextDayKeeps == ASSUME SupplyAssumption, SupplyInv, NextDay PROVE SupplyInv'
<1> USE DEF SupplyInv, NextDay
<1>1. SupplyTypes'
  BY DEF SupplyTypes, SupplyTypeOK, SupplyAssumption
<1>2. today \in Nat /\ 0..today \subseteq 0..today'
  BY DEF SupplyTypes, SupplyTypeOK
<1>3. DateInv'
  BY <1>2 DEF DateInv
<1>4. KeptInv' /\ PinnedInv' /\ OnlyVouched'
  BY DEF KeptInv, Listed, PinnedInv, OnlyVouched
<1> QED BY <1>1, <1>3, <1>4

\* The image of a finite set of boxes is finite.
LEMMA RetainedFinite == ASSUME SupplyAssumption, SupplyInv PROVE IsFiniteSet(Retained)
<1> DEFINE X == {c \in Box : ~(locks[c].packages \subseteq Listed(pin.index))}
           f == [b \in X |-> locks[b].kept]
           T == {locks[b].kept : b \in X}
<1>1. IsFiniteSet(X)
  BY FS_Subset DEF SupplyAssumption
<1>2. f \in Surjection(X, T)
  BY DEF Surjection
<1>3. IsFiniteSet(T)
  BY <1>1, <1>2, FS_Surjection
<1>4. \A t \in T : IsFiniteSet(t)
  BY DEF SupplyInv, DateInv
<1>5. IsFiniteSet(UNION T)
  BY <1>3, <1>4, FS_UNION
<1> QED BY <1>5 DEF Retained

\* An order of the generations is a sequence that has one of each.
LEMMA OrderTyped ==
  ASSUME SupplyAssumption, SupplyInv, NEW order \in Orders
  PROVE  /\ Len(order) \in Nat
         /\ \A i \in 1..Len(order) : order[i] \in Retained
         /\ \A g \in Retained :
              SameFiles(g, pin) \/ \E i \in 1..Len(order) : SameFiles(g, order[i])
<1>1. PICK gs \in Generations : /\ order \in [1..Cardinality(gs) -> gs]
                                /\ \A g \in gs : \E i \in DOMAIN order : order[i] = g
  BY DEF Orders
<1>2. gs \subseteq Retained
  BY DEF Generations
<1>3. Cardinality(gs) \in Nat
  BY <1>2, RetainedFinite, FS_Subset, FS_CardinalityType
<1>4. Len(order) = Cardinality(gs) /\ DOMAIN order = 1..Len(order)
  BY <1>1, <1>3
<1>5. ASSUME NEW g \in Retained, ~SameFiles(g, pin)
      PROVE  \E i \in 1..Len(order) : SameFiles(g, order[i])
  <2>1. Cardinality({h \in gs : SameFiles(g, h)}) = 1
    BY <1>5 DEF Generations
  <2>2. {h \in gs : SameFiles(g, h)} # {}
    BY <2>1, FS_EmptySet
  <2> QED BY <1>1, <1>4, <2>2
<1> QED BY <1>1, <1>2, <1>3, <1>4, <1>5

\* What is read was pinned or recorded, and judged as of a day up to this one.
LEMMA ReadTyped ==
  ASSUME SupplyAssumption, SupplyInv, pin # NoPin, NEW order \in Orders, NEW packages,
         NEW g \in Consulted(order, packages)
  PROVE  /\ g = pin \/ g \in Retained
         /\ g \in Snapshot /\ AsOf(g) \in 0..today
         /\ rolling => AsOf(g) = today
         /\ ~rolling => AsOf(g) = g.at
<1>1. g = pin \/ g \in Retained
  BY OrderTyped DEF Consulted
<1>2. today \in Nat /\ Never \notin Nat
  BY DEF SupplyInv, SupplyTypes, SupplyTypeOK, SupplyAssumption
<1>3. CASE g = pin
  BY <1>1, <1>2, <1>3 DEF SupplyInv, DateInv, AsOf
<1>4. CASE g \in Retained
  <2>1. PICK b \in Box : g \in locks[b].kept
    BY <1>4 DEF Retained
  <2>2. g \in Snapshot /\ ~rolling /\ g.at \in 0..today
    BY <2>1 DEF SupplyInv, DateInv, SupplyTypes, Lock
  <2> QED BY <1>1, <1>2, <2>2 DEF AsOf
<1> QED BY <1>1, <1>3, <1>4

\* What is accepted was vouched for.
LEMMA AcceptedVouched ==
  ASSUME SupplyAssumption, SupplyInv, pin # NoPin, NEW order \in Orders,
         NEW packages, Accepts(order, packages), NEW p \in packages
  PROVE  IF system = "deb"
           THEN \E r \in OfDeclaredKey : \E date \in From[r]..Until[r] :
                  /\ Suite[r] = Wanted /\ p \in Holds[r] /\ date <= today
                  /\ rolling => date = today
           ELSE p \in Genuine
<1>1. CASE system = "deb"
  <2>1. /\ \A g \in Consulted(order, packages) : VouchedFor(g, AsOf(g))
        /\ packages \subseteq Stated(Consulted(order, packages))
    BY <1>1 DEF Accepts
  <2>2. PICK g \in Consulted(order, packages) : p \in Listed(g.index)
    BY <2>1 DEF Stated
  <2>3. VouchedFor(g, AsOf(g)) /\ AsOf(g) \in 0..today /\ (rolling => AsOf(g) = today)
    BY <2>1, ReadTyped
  <2>4. g.signed \in OfDeclaredKey /\ g.index = g.signed /\ Suite[g.signed] = Wanted
    BY <2>3 DEF VouchedFor
  <2>5. p \in Holds[g.signed]
    BY <2>2, <2>4 DEF Listed, SupplyAssumption
  <2>6. AsOf(g) \in From[g.signed]..Until[g.signed] /\ AsOf(g) <= today
    <3>1. From[g.signed] <= AsOf(g) /\ Until[g.signed] >= AsOf(g)
      BY <2>3 DEF VouchedFor
    <3>2. From[g.signed] \in Nat /\ Until[g.signed] \in Nat /\ today \in Nat
      BY <2>4 DEF SupplyAssumption, SupplyInv, SupplyTypes, SupplyTypeOK
    <3> QED BY <2>3, <3>1, <3>2
  <2>7. \E date \in From[g.signed]..Until[g.signed] :
          /\ Suite[g.signed] = Wanted /\ p \in Holds[g.signed] /\ date <= today
          /\ rolling => date = today
    BY <2>3, <2>4, <2>5, <2>6
  <2> QED BY <1>1, <2>4, <2>7
<1>2. CASE system = "alpm"
  BY <1>2 DEF Accepts, Trusted
<1>3. CASE system = "rpm"
  BY <1>3 DEF Accepts
<1> QED BY <1>1, <1>2, <1>3 DEF SupplyInv, SupplyTypes

LEMMA BuildBoxKeeps ==
  ASSUME SupplyAssumption, SupplyInv, NEW b \in Box, BuildBox(b) PROVE SupplyInv'
<1>1. PICK order \in Orders :
        built' = [built EXCEPT ![b] =
          [verdict |-> IF Accepts(order, locks[b].packages) THEN "accepted" ELSE "refused", at |-> today]]
  BY DEF BuildBox
<1>2. pin # NoPin /\ UNCHANGED <<system, rolling, today, pin, locks, lies>>
  BY DEF BuildBox
<1>3. built \in [Box -> [verdict : {"none", "accepted", "refused"}, at : 0..MaxDay]] /\ today \in 0..MaxDay
  BY DEF SupplyInv, SupplyTypes, SupplyTypeOK
<1>4. built' \in [Box -> [verdict : {"none", "accepted", "refused"}, at : 0..MaxDay]]
  BY <1>1, <1>3
<1>5. SupplyTypes'
  BY <1>2, <1>4 DEF SupplyInv, SupplyTypes, SupplyTypeOK
<1>6. DateInv' /\ KeptInv' /\ PinnedInv'
  BY <1>2 DEF SupplyInv, DateInv, KeptInv, PinnedInv, Listed
<1>7. OnlyVouched'
  <2> SUFFICES ASSUME NEW c \in Box, built'[c].verdict = "accepted", NEW p \in locks[c].packages
               PROVE  IF system = "deb"
                        THEN \E r \in OfDeclaredKey : \E date \in From[r]..Until[r] :
                               /\ Suite[r] = Wanted /\ p \in Holds[r] /\ date <= built'[c].at
                               /\ rolling => date = built'[c].at
                        ELSE p \in Genuine
    BY <1>2 DEF OnlyVouched
  <2>1. CASE c = b
    <3>1. Accepts(order, locks[b].packages) /\ built'[c].at = today
      BY <1>1, <1>3, <2>1
    <3> QED BY <1>2, <2>1, <3>1, AcceptedVouched
  <2>2. CASE c # b
    <3>1. built'[c] = built[c]
      BY <1>1, <1>3, <2>2
    <3> QED BY <3>1 DEF SupplyInv, OnlyVouched
  <2> QED BY <2>1, <2>2
<1> QED BY <1>5, <1>6, <1>7 DEF SupplyInv

LEMMA SupplyNextInv == ASSUME SupplyAssumption, SupplyInv, [SupplyNext]_supplyVars PROVE SupplyInv'
<1>1. CASE UNCHANGED supplyVars
  BY <1>1 DEF SupplyInv, SupplyTypes, SupplyTypeOK, DateInv, KeptInv, Listed, PinnedInv, OnlyVouched, supplyVars
<1> QED BY <1>1, RefreshKeeps, NextDayKeeps, BuildBoxKeeps DEF SupplyNext

\* The first of a sequence that has what is looked for.
LEMMA LeastIndex ==
  ASSUME NEW n \in Nat, NEW X, X \subseteq 1..n, X # {}
  PROVE  \E i \in X : \A k \in 1..(i - 1) : k \notin X
<1>1. X \subseteq Nat
  OBVIOUS
<1>2. PICK i \in X : \A k \in X : i <= k
  BY <1>1, Least
<1>3. ASSUME NEW k \in 1..(i - 1) PROVE k \notin X
  BY <1>1, <1>2
<1> QED BY <1>3

\* Whatever the order, a lock finds its packages in what is read.
LEMMA LockIsStated ==
  ASSUME SupplyAssumption, SupplyInv, system # "rpm", ~rolling,
         NEW b \in Box, NEW order \in Orders, NEW p \in locks[b].packages
  PROVE  p \in Stated(Consulted(order, locks[b].packages))
<1> DEFINE read == Consulted(order, locks[b].packages)
<1>1. CASE p \in Listed(pin.index)
  BY <1>1 DEF Stated, Consulted
<1>2. CASE p \notin Listed(pin.index)
  <2>1. PICK k \in locks[b].kept : p \in Listed(k.index)
    BY DEF SupplyInv, KeptInv
  <2>2. k \in Retained /\ ~SameFiles(k, pin)
    BY <1>2, <2>1 DEF Retained, SameFiles, Listed
  <2>3. Len(order) \in Nat /\ \E i \in 1..Len(order) : SameFiles(k, order[i])
    BY <2>2, OrderTyped
  <2> DEFINE X == {i \in 1..Len(order) : p \in Listed(order[i].index)}
  <2>4. X # {} /\ X \subseteq 1..Len(order)
    BY <2>1, <2>3 DEF SameFiles
  <2>5. PICK i \in X : \A j \in 1..(i - 1) : j \notin X
    <3> HIDE DEF X
    <3> QED BY <2>3, <2>4, LeastIndex
  <2>6. \A j \in 1..(i - 1) : p \notin Listed(order[j].index)
    BY <2>3, <2>5
  <2>7. order[i] \in read
    BY <1>2, <2>5, <2>6 DEF Consulted
  <2> QED BY <2>5, <2>7 DEF Stated
<1> QED BY <1>1, <1>2

LEMMA LocksOutlive == ASSUME SupplyAssumption, SupplyInv PROVE LockOutlivesPin
<1> SUFFICES ASSUME NEW b \in Box, built[b].verdict = "accepted", ~rolling,
                    system = "deb" => \A g \in {pin} \cup UNION {locks[c].kept : c \in Box} : VouchedFor(g, g.at),
                    system = "alpm" => \A p \in locks[b].packages : Trusted(p),
                    NEW order \in Orders
             PROVE  Accepts(order, locks[b].packages)
  BY DEF LockOutlivesPin
<1>1. pin # NoPin
  BY DEF SupplyInv, PinnedInv
<1>2. CASE system = "deb"
  <2>1. ASSUME NEW g \in Consulted(order, locks[b].packages) PROVE VouchedFor(g, AsOf(g))
    <3>1. AsOf(g) = g.at /\ (g = pin \/ g \in Retained)
      BY <1>1, ReadTyped
    <3>2. g \in {pin} \cup UNION {locks[c].kept : c \in Box}
      BY <3>1 DEF Retained
    <3> QED BY <1>2, <3>1, <3>2
  <2> QED BY <1>2, <2>1, LockIsStated DEF Accepts
<1>3. CASE system = "alpm"
  BY <1>3, LockIsStated DEF Accepts
<1>4. CASE system = "rpm"
  BY <1>4 DEF Accepts, SupplyInv, OnlyVouched
<1> QED BY <1>2, <1>3, <1>4 DEF SupplyInv, SupplyTypes

\* What is built was vouched for by somebody who was declared, whatever mirrors and
\* the archive serve; and a lock that was built can be built after its pin has moved.
THEOREM SupplyIsSound == ASSUME SupplyAssumption PROVE SupplySpec => []SupplySound
<1>1. SupplyInit => SupplyInv
  BY SupplyInitInv
<1>2. SupplyInv /\ [SupplyNext]_supplyVars => SupplyInv'
  BY SupplyNextInv
<1>3. SupplyInv => SupplySound
  BY LocksOutlive DEF SupplySound, SupplyInv
<1> QED BY <1>1, <1>2, <1>3, PTL DEF SupplySpec

(***************************************************************************)
(* Into a root: what a stack of layers shows is a recursion over them, of  *)
(* which the proofs need that it exists, that there is one, and what the   *)
(* next layer does to it.                                                  *)
(***************************************************************************)
Marks == RootPaths \cup Packages \cup {"parked", "deny", "uninitialized", "scripted", "left", "link", "whiteout"}
Layer == [RootPaths -> SUBSET Marks]

\* What Stacked chooses: for each number of layers, those laid over each other.
StackIs(ls, f) ==
  f = [k \in 0..Len(ls) |-> IF k = 0 THEN EmptyLayer ELSE Over(ls[k], f[k - 1])]

LEMMA StackExists == ASSUME NEW ls \in Seq(Layer) PROVE \E f : StackIs(ls, f)
<1> DEFINE Part(n, f) == f = [k \in 0..n |-> IF k = 0 THEN EmptyLayer ELSE Over(ls[k], f[k - 1])]
           X == {n \in Nat : ~ \E f : Part(n, f)}
<1>1. ASSUME X # {} PROVE FALSE
  <2>1. PICK n \in X : \A k \in X : n <= k
    <3> HIDE DEF X
    <3>1. X \subseteq Nat
      BY DEF X
    <3> QED BY <1>1, <3>1, Least
  <2>2. CASE n = 0
    <3> DEFINE f == [k \in 0..0 |-> EmptyLayer]
    <3>1. Part(0, f)
      OBVIOUS
    <3> QED BY <2>1, <2>2, <3>1
  <2>3. CASE n # 0
    <3>1. n \in Nat /\ n - 1 \in Nat
      BY <2>1, <2>3
    <3>2. n - 1 \notin X
      <4> HIDE DEF X
      <4> QED BY <2>1, <3>1
    <3>3. PICK f : Part(n - 1, f)
      BY <3>1, <3>2
    <3> DEFINE g == [k \in 0..n |-> IF k = n THEN Over(ls[n], f[n - 1]) ELSE f[k]]
    <3>4. \A k \in 0..(n - 1) : f[k] = IF k = 0 THEN EmptyLayer ELSE Over(ls[k], f[k - 1])
      BY <3>1, <3>3
    <3>5. ASSUME NEW k \in 0..n PROVE g[k] = IF k = 0 THEN EmptyLayer ELSE Over(ls[k], g[k - 1])
      <4>1. CASE k = n
        BY <2>3, <3>1, <4>1
      <4>2. CASE k # n
        <5>1. k \in 0..(n - 1) /\ (k # 0 => k - 1 \in 0..n /\ k - 1 # n)
          BY <3>1, <4>2
        <5>2. g[k] = f[k] /\ (k # 0 => g[k - 1] = f[k - 1])
          BY <4>2, <5>1
        <5> QED BY <3>4, <5>1, <5>2
      <4> QED BY <4>1, <4>2
    <3>6. Part(n, g)
      BY <3>1, <3>5
    <3> QED BY <2>1, <3>6
  <2> QED BY <2>2, <2>3
<1>2. Len(ls) \in Nat
  OBVIOUS
<1>3. \E f : Part(Len(ls), f)
  BY <1>1, <1>2
<1> QED BY <1>3 DEF StackIs

LEMMA StackUnique ==
  ASSUME NEW ls \in Seq(Layer), NEW f, NEW g, StackIs(ls, f), StackIs(ls, g)
  PROVE  f = g
<1> DEFINE X == {n \in 0..Len(ls) : f[n] # g[n]}
<1>1. \A n \in 0..Len(ls) : /\ f[n] = IF n = 0 THEN EmptyLayer ELSE Over(ls[n], f[n - 1])
                            /\ g[n] = IF n = 0 THEN EmptyLayer ELSE Over(ls[n], g[n - 1])
  BY DEF StackIs
<1>2. ASSUME X # {} PROVE FALSE
  <2>1. PICK n \in X : \A k \in X : n <= k
    <3>1. X \subseteq Nat
      OBVIOUS
    <3> HIDE DEF X
    <3> QED BY <1>2, <3>1, Least
  <2>2. n \in 0..Len(ls) /\ n # 0
    BY <1>1, <2>1
  <2>3. n - 1 \in 0..Len(ls) /\ n - 1 \notin X
    BY <2>1, <2>2
  <2> QED BY <1>1, <2>1, <2>2, <2>3
<1>3. \A n \in 0..Len(ls) : f[n] = g[n]
  BY <1>2
<1>4. /\ f = [k \in 0..Len(ls) |-> f[k]]
      /\ g = [k \in 0..Len(ls) |-> g[k]]
  BY DEF StackIs
<1> QED BY <1>3, <1>4

LEMMA StackedIs ==
  ASSUME NEW ls \in Seq(Layer), NEW f, StackIs(ls, f)
  PROVE  Stacked(ls) = f[Len(ls)]
<1>1. Stacked(ls) = (CHOOSE g : StackIs(ls, g))[Len(ls)]
  BY DEF Stacked, StackIs
<1>2. StackIs(ls, CHOOSE g : StackIs(ls, g))
  OBVIOUS
<1>3. f = CHOOSE g : StackIs(ls, g)
  BY <1>2, StackUnique
<1> QED BY <1>1, <1>3

LEMMA StackedNothing == Stacked(<<>>) = EmptyLayer
<1>1. <<>> \in Seq(Layer) /\ Len(<<>>) = 0
  OBVIOUS
<1>2. PICK f : StackIs(<<>>, f)
  BY <1>1, StackExists
<1>3. f[0] = EmptyLayer
  BY <1>1, <1>2 DEF StackIs
<1> QED BY <1>1, <1>2, <1>3, StackedIs

LEMMA StackedAppend ==
  ASSUME NEW ls \in Seq(Layer), NEW u \in Layer
  PROVE  Stacked(Append(ls, u)) = Over(u, Stacked(ls))
<1> DEFINE n == Len(ls)
           ms == Append(ls, u)
<1>1. n \in Nat /\ ms \in Seq(Layer) /\ Len(ms) = n + 1 /\ ms[n + 1] = u /\ \A k \in 1..n : ms[k] = ls[k]
  OBVIOUS
<1>2. PICK f : StackIs(ls, f)
  BY StackExists
<1> DEFINE g == [k \in 0..(n + 1) |-> IF k = n + 1 THEN Over(u, f[n]) ELSE f[k]]
<1>3. \A k \in 0..n : f[k] = IF k = 0 THEN EmptyLayer ELSE Over(ls[k], f[k - 1])
  BY <1>2 DEF StackIs
<1>4. \A k \in 0..(n + 1) : g[k] = IF k = 0 THEN EmptyLayer ELSE Over(ms[k], g[k - 1])
  <2> HIDE DEF n, ms
  <2> QED BY <1>1, <1>3
<1>5. StackIs(ms, g)
  BY <1>1, <1>4 DEF StackIs
<1>6. Stacked(ls) = f[n] /\ Stacked(ms) = g[n + 1]
  BY <1>1, <1>2, <1>5, StackedIs
<1> QED BY <1>1, <1>6

(***************************************************************************)
(* The inductive invariant follows an install through its steps.           *)
(***************************************************************************)
Late == {"remark", "park", "scrub", "normalize", "finish"}

InstallTypes ==
  /\ manager \in {"deb", "alpm", "rpm"} /\ box \in BOOLEAN /\ linked \in BOOLEAN /\ failed \in BOOLEAN
  /\ layers \in Seq(Layer) /\ Len(layers) <= Bounded /\ upper \in Layer
  /\ spec \in [packages : SUBSET Packages, docs : BOOLEAN]
  /\ putAside \in [policy : SUBSET Marks, fresh : BOOLEAN]
  /\ step \in {"idle", "mark", "lay down", "deny", "transaction", "allow", "stopped"} \cup Late

\* What each step of a driver can count on: who takes it, and with what.
StepInv ==
  /\ step \in {"idle", "mark"} => upper = EmptyLayer
  /\ step \in {"lay down", "deny", "allow"} => manager = "deb"
  /\ step \in {"lay down", "deny", "allow"} \/ (step = "transaction" /\ manager # "rpm") => spec.packages # {}
  /\ step \notin {"allow", "stopped"} => ~failed
  /\ step \notin {"idle", "stopped"} => Len(layers) < Bounded
  /\ step \notin {"idle", "mark", "stopped"} => (putAside.fresh <=> ~Layered)

\* A whiteout hides something, and never these.
WhiteoutInv ==
  /\ \A p \in RootPaths : upper[p] = Whiteout => Below[p] # Nothing
  /\ upper[Database] # Whiteout /\ upper[MachineId] # Whiteout

\* Any root that is done is as the property says, whatever is laid over it.
BelowInv ==
  /\ Below \in Layer /\ \A p \in RootPaths : Below[p] # Whiteout
  /\ Below[Policy] # {"deny"}
  /\ Layered =>
       /\ "parked" \in Below[Database] /\ Known(Below[Database]) # {}
       /\ Below[Leftover] = Nothing /\ Below[Scripted] = Nothing /\ Below[MachineId] # Nothing
       /\ layers[1][MachineId] = {"uninitialized"}
       /\ ~linked /\ (\E p \in Known(layers[1][Database]) : Policy \in Ships[p]) => Below[Policy] = {Policy}
       /\ box => Naive(layers) = Below

\* The database: nobody writes it before the transaction, which registers its packages.
DatabaseInv ==
  /\ step \in {"mark", "lay down"} \/ (step = "transaction" /\ manager # "deb") => upper[Database] = Nothing
  /\ step = "allow" /\ ~failed => Known(Root[Database]) # {}
  /\ step \in {"remark", "park"} =>
       /\ Root[Database] = Nothing \/ Known(Root[Database]) # {}
       /\ manager = "deb" => Root[Database] # Nothing
  /\ step \in {"scrub", "normalize", "finish"} => "parked" \in Root[Database] /\ Known(Root[Database]) # {}
  /\ ~Layered => Known(upper[Database]) \subseteq spec.packages

\* The policy: denied only while deb's transaction runs, when it is put aside.
Denied == manager = "deb" /\ step \in {"transaction", "allow"}
PolicyInv ==
  /\ Denied => putAside.policy \notin {{"deny"}, Whiteout}
  /\ ~Denied => Root[Policy] # {"deny"}
  /\ \/ ~linked /\ Below[Policy] = {Policy} /\ step # "stopped"
     \/ ~linked /\ ~Layered /\ Policy \in Shipped /\ (step \in {"deny"} \cup Late \/ Denied)
     => IF Denied THEN putAside.policy = {Policy} ELSE Root[Policy] = {Policy}

\* What comes with an install goes with it.
LeftoverInv ==
  /\ step \in {"normalize", "finish"} => Root[Leftover] = Nothing
  /\ step = "finish" => Root[Scripted] = Nothing

\* Nothing to install leaves nothing, or does not get far.
NothingInv ==
  spec.packages = {} /\ manager # "rpm" /\ step \notin {"idle", "stopped"} =>
    IF Layered THEN \A p \in RootPaths \ {Config} : upper[p] = Nothing
    ELSE /\ step \in {"mark", "remark", "park"}
         /\ step # "mark" => manager = "alpm" /\ Root[Database] = Nothing

\* What was installed is there, and what was left out of a first root is not.
FilesInv ==
  /\ step \in Late \/ (step = "allow" /\ ~failed) => \A f \in Unpacked \ {Policy} : upper[f] = {f}
  /\ ~Layered /\ ~spec.docs => upper[Doc] = Nothing
  /\ ~Layered /\ step \in {"park", "scrub", "normalize", "finish"} => upper[MachineId] = {"uninitialized"}

InstallInv ==
  /\ InstallTypes /\ StepInv /\ WhiteoutInv /\ BelowInv /\ DatabaseInv
  /\ PolicyInv /\ LeftoverInv /\ NothingInv /\ FilesInv /\ InstallSound
\* What an overlay shows of a path.
LEMMA OverAt ==
  ASSUME NEW u, NEW b, NEW p \in RootPaths
  PROVE  Over(u, b)[p] = IF u[p] = Nothing THEN b[p] ELSE IF u[p] = Whiteout THEN Nothing ELSE u[p]
  BY DEF Over

LEMMA OverLayer == ASSUME NEW u \in Layer, NEW b \in Layer PROVE Over(u, b) \in Layer
  BY DEF Over, Layer, Nothing

LEMMA OwnPaths ==
  /\ {Doc, License, Policy, MachineId, Database, Leftover, Scripted, Config} \subseteq RootPaths
  /\ \A p \in RootPaths : {p} \in SUBSET Marks
  /\ {Database, "parked", "deny", "uninitialized", "scripted", "left", "link", "whiteout"} \subseteq Marks
  /\ Packages \subseteq Marks
  BY DEF RootPaths, Marks

\* A package's file is its own mark, but for a policy that is a link.
LEMMA FileIs ==
  ASSUME NEW p \in RootPaths
  PROVE  /\ p # Policy \/ ~linked => FileOf(p) = {p}
         /\ FileOf(p) \in SUBSET Marks /\ FileOf(p) # Nothing
         /\ p # "whiteout" => FileOf(p) # Whiteout
         /\ p = Policy => FileOf(p) # {"deny"} /\ FileOf(p) # Whiteout
<1>1. FileOf(p) = IF p = Policy /\ linked THEN {Policy, "link"} ELSE {p}
  BY DEF FileOf, PolicyLink
<1>2. Policy \in Marks /\ "link" \in Marks /\ {p} \in SUBSET Marks
  BY OwnPaths DEF Marks
<1> QED BY <1>1, <1>2 DEF Nothing, Whiteout, Policy

LEMMA ShippedPaths ==
  ASSUME InstallAssumption, InstallTypes
  PROVE  /\ Shipped \subseteq RootPaths /\ Unpacked \subseteq Shipped
         /\ Shipped \cap {MachineId, Database, Leftover, Scripted, Config, "whiteout"} = {}
         /\ spec.packages = {} => Unpacked = {}
         /\ Policy \in Shipped => Policy \in Unpacked
<1>1. spec.packages \subseteq Packages
  BY DEF InstallTypes
<1>2. Shipped \subseteq UNION {Ships[p] : p \in Packages}
  BY <1>1 DEF Shipped
<1>3. Shipped \subseteq RootPaths
  BY <1>2, Zenon DEF RootPaths
<1>4. Unpacked \subseteq Shipped /\ (Policy \in Shipped => Policy \in Unpacked)
  BY DEF Unpacked, Policy, Doc
<1>5. Shipped \cap {MachineId, Database, Leftover, Scripted, Config, "whiteout"} = {}
  BY <1>1 DEF Shipped, InstallAssumption
<1>6. spec.packages = {} => Unpacked = {}
  BY <1>4 DEF Shipped
<1> QED BY <1>3, <1>4, <1>5, <1>6

\* The upper layer stays as it is, but for some paths.
SameBut(ps) == \A p \in RootPaths \ ps : upper'[p] = upper[p]

LEMMA RootSame ==
  ASSUME layers' = layers, NEW ps, SameBut(ps)
  PROVE  \A p \in RootPaths \ ps : Root'[p] = Root[p]
<1>1. Root' = Over(upper', Below)
  BY DEF Root, Below
<1>2. \A p \in RootPaths \ ps : Over(upper', Below)[p] = Over(upper, Below)[p]
  BY OverAt DEF SameBut
<1> QED BY <1>1, <1>2 DEF Root

LEMMA RootAt ==
  ASSUME layers' = layers, NEW p \in RootPaths
  PROVE  /\ Root[p] = IF upper[p] = Nothing THEN Below[p] ELSE IF upper[p] = Whiteout THEN Nothing ELSE upper[p]
         /\ Root'[p] = IF upper'[p] = Nothing THEN Below[p] ELSE IF upper'[p] = Whiteout THEN Nothing ELSE upper'[p]
<1>1. Root' = Over(upper', Below)
  BY DEF Root, Below
<1> QED BY <1>1, OverAt DEF Root

LEMMA WrittenIs ==
  ASSUME InstallTypes, NEW q \in RootPaths, NEW c \in SUBSET Marks, upper' = Written(q, c)
  PROVE  upper' \in Layer /\ upper'[q] = c /\ SameBut({q})
  BY DEF InstallTypes, Written, Layer, SameBut

LEMMA UnlinkedIs ==
  ASSUME InstallTypes, NEW q \in RootPaths, upper' = Unlinked({q})
  PROVE  /\ upper' \in Layer /\ SameBut({q})
         /\ upper'[q] = IF Below[q] # Nothing THEN Whiteout ELSE Nothing
<1>1. Whiteout \in SUBSET Marks /\ Nothing \in SUBSET Marks
  BY OwnPaths DEF Whiteout, Nothing
<1> QED BY <1>1 DEF InstallTypes, Unlinked, Layer, SameBut

\* Until an install is finished the layers below are the same.
LEMMA BelowSame == ASSUME UNCHANGED <<linked, layers, box>>, BelowInv PROVE BelowInv' /\ Below' = Below /\ Layered' = Layered
  BY DEF BelowInv, Below, Layered

LEMMA SoundMeanwhile ==
  ASSUME PolicyInv', step' # "idle" PROVE InstallSound'
  BY DEF PolicyInv, InstallSound, Denied

LEMMA InstallInitInv == ASSUME InstallAssumption, InstallInit PROVE InstallInv
<1> USE DEF InstallInit
<1>1. Below = EmptyLayer /\ ~Layered
  BY StackedNothing DEF Below, Layered
<1>2. EmptyLayer \in Layer /\ \A p \in RootPaths : EmptyLayer[p] = Nothing
  BY DEF EmptyLayer, Layer, Nothing
<1>3. InstallTypes
  <2>1. layers \in Seq(Layer) /\ Len(layers) <= Bounded
    BY DEF InstallAssumption
  <2>2. /\ spec \in [packages : SUBSET Packages, docs : BOOLEAN]
        /\ putAside \in [policy : SUBSET Marks, fresh : BOOLEAN]
    BY DEF NoInstall, NotKept, Nothing
  <2>3. manager \in {"deb", "alpm", "rpm"} /\ box \in BOOLEAN /\ linked \in BOOLEAN /\ failed \in BOOLEAN
    OBVIOUS
  <2> QED BY <1>2, <2>1, <2>2, <2>3 DEF InstallTypes
<1>4. \A p \in RootPaths : Root[p] = Nothing
  BY <1>1, <1>2, OverAt DEF Root
<1>5. Nothing # Whiteout /\ Nothing # {"deny"} /\ Known(Nothing) = {}
  BY DEF Nothing, Whiteout, Known
<1>6. StepInv /\ WhiteoutInv /\ BelowInv
  BY <1>1, <1>2, <1>5, OwnPaths DEF StepInv, WhiteoutInv, BelowInv
<1>7. DatabaseInv /\ PolicyInv
  BY <1>1, <1>2, <1>4, <1>5, OwnPaths DEF DatabaseInv, PolicyInv, Denied, Shipped, NoInstall, Late
<1>8. LeftoverInv /\ NothingInv /\ FilesInv
  BY <1>1, <1>2, OwnPaths DEF LeftoverInv, NothingInv, FilesInv, Late, NoInstall
<1>9. InstallSound
  BY <1>1, <1>4, <1>5, OwnPaths DEF InstallSound
<1> QED BY <1>3, <1>6, <1>7, <1>8, <1>9 DEF InstallInv

LEMMA BeginKeeps == ASSUME InstallAssumption, InstallInv, BeginInstall PROVE InstallInv'
<1> USE DEF InstallInv
<1>1. /\ step = "idle" /\ step' = "mark" /\ upper = EmptyLayer /\ upper' = EmptyLayer /\ putAside' = NotKept
      /\ UNCHANGED <<manager, box, linked, layers, failed>> /\ ~failed
      /\ spec' \in [packages : SUBSET Packages, docs : BOOLEAN] /\ Len(layers) < Bounded
  BY DEF BeginInstall, StepInv
<1>2. BelowInv' /\ Below' = Below /\ Layered' = Layered
  BY <1>1, BelowSame
<1>3. Root' = Root
  BY <1>1, <1>2 DEF Root
<1>4. EmptyLayer \in Layer /\ \A p \in RootPaths : EmptyLayer[p] = Nothing
  BY DEF EmptyLayer, Layer, Nothing
<1>5. Nothing # Whiteout /\ Nothing # {"deny"} /\ Known(Nothing) = {}
  BY DEF Nothing, Whiteout, Known
<1>6. InstallTypes'
  BY <1>1, <1>4 DEF InstallTypes, NotKept, Nothing
<1>7. StepInv' /\ WhiteoutInv'
  BY <1>1, <1>4, <1>5, OwnPaths DEF StepInv, WhiteoutInv
<1>8. DatabaseInv'
  BY <1>1, <1>4, <1>5, OwnPaths DEF DatabaseInv, Late
<1>9. PolicyInv'
  BY <1>1, <1>2, <1>3, OwnPaths DEF PolicyInv, Denied, Late
<1>10. LeftoverInv' /\ NothingInv' /\ FilesInv'
  BY <1>1, <1>2, <1>4, OwnPaths DEF LeftoverInv, NothingInv, FilesInv, Late
<1> QED BY <1>1, <1>2, <1>6, <1>7, <1>8, <1>9, <1>10, SoundMeanwhile

LEMMA MarkKeeps == ASSUME InstallAssumption, InstallInv, Mark PROVE InstallInv'
<1> USE DEF InstallInv
<1>1. step = "mark" /\ upper = EmptyLayer /\ ~failed /\ UNCHANGED <<manager, box, linked, layers, spec>>
  BY DEF Mark, Stop, StepInv
<1>2. BelowInv' /\ Below' = Below /\ Layered' = Layered
  BY <1>1, BelowSame
<1>3. EmptyLayer \in Layer /\ \A p \in RootPaths : EmptyLayer[p] = Nothing
  BY DEF EmptyLayer, Layer, Nothing
<1>4. \A p \in RootPaths : Root[p] = Below[p]
  BY <1>1, <1>3, OverAt DEF Root
<1>5. ~Layered => Below = EmptyLayer
  BY StackedNothing DEF Below, Layered
<1>6. Nothing # Whiteout /\ Nothing # {"deny"} /\ Known(Nothing) = {} /\ Nothing # {"uninitialized"} /\ {"uninitialized"} # Whiteout
  BY DEF Nothing, Whiteout, Known
<1>7. CASE step' = "stopped"
  <2>1. upper' = upper /\ UNCHANGED putAside /\ failed' \in BOOLEAN
    BY <1>1, <1>7 DEF Mark, Stop
  <2>2. Root' = Root
    BY <1>2, <2>1 DEF Root
  <2>3. InstallTypes'
    BY <1>1, <1>7, <2>1 DEF InstallTypes, Stop
  <2>4. StepInv' /\ WhiteoutInv'
    BY <1>1, <1>2, <1>3, <1>6, <1>7, <2>1, OwnPaths DEF StepInv, WhiteoutInv
  <2>5. DatabaseInv' /\ PolicyInv' /\ LeftoverInv' /\ NothingInv' /\ FilesInv'
    BY <1>1, <1>2, <1>3, <1>6, <1>7, <2>1, <2>2, OwnPaths DEF DatabaseInv, PolicyInv, Denied, LeftoverInv, NothingInv, FilesInv, Late
  <2> QED BY <1>2, <1>7, <2>3, <2>4, <2>5, SoundMeanwhile
<1>8. CASE step' # "stopped"
  <2>1. /\ ~(manager = "deb" /\ spec.packages = {} /\ FreshRoot) /\ failed' = failed
        /\ putAside' = [putAside EXCEPT !.fresh = Root[MachineId] = Nothing]
        /\ upper' = IF Root[MachineId] = Nothing THEN Written(MachineId, {"uninitialized"}) ELSE upper
        /\ step' = IF manager = "rpm" THEN "transaction"
                   ELSE IF spec.packages = {} THEN "remark"
                   ELSE IF manager = "deb" THEN "lay down" ELSE "transaction"
    BY <1>8 DEF Mark, Stop
  <2>2. (Root[MachineId] = Nothing) <=> ~Layered
    BY <1>2, <1>3, <1>4, <1>5, OwnPaths DEF BelowInv
  <2>3. putAside' \in [policy : SUBSET Marks, fresh : BOOLEAN] /\ (putAside'.fresh <=> ~Layered)
    BY <2>1, <2>2 DEF InstallTypes
  <2>4. /\ upper' \in Layer /\ SameBut({MachineId}) 
        /\ upper'[MachineId] = IF Layered THEN Nothing ELSE {"uninitialized"}
    <3>1. CASE Layered
      BY <1>1, <1>3, <2>1, <2>2, <3>1, OwnPaths DEF SameBut
    <3>2. CASE ~Layered
      <4>1. MachineId \in RootPaths /\ {"uninitialized"} \in SUBSET Marks
        BY OwnPaths
      <4>2. upper' = Written(MachineId, {"uninitialized"})
        BY <2>1, <2>2, <3>2
      <4> QED BY <3>2, <4>1, <4>2, WrittenIs
    <3> QED BY <3>1, <3>2
  <2>5. \A p \in RootPaths \ {MachineId} : upper'[p] = Nothing /\ Root'[p] = Below[p]
    BY <1>1, <1>3, <1>4, <2>4, RootSame DEF SameBut
  <2>6. Database \in RootPaths \ {MachineId} /\ Policy \in RootPaths \ {MachineId} /\ Doc \in RootPaths \ {MachineId}
    BY OwnPaths DEF Database, MachineId, Policy, Doc
  <2>7. InstallTypes'
    BY <1>1, <2>1, <2>3, <2>4 DEF InstallTypes, Late
  <2>8. StepInv' /\ WhiteoutInv'
    BY <1>1, <1>2, <1>6, <2>1, <2>3, <2>4, <2>5, <2>6 DEF StepInv, WhiteoutInv
  <2>9. Layered => Below[Database] # Nothing
    BY <1>6 DEF BelowInv
  <2>10. DatabaseInv'
    BY <1>1, <1>2, <1>4, <1>5, <1>6, <2>1, <2>5, <2>6, <2>9 DEF DatabaseInv, BelowInv, FreshRoot
  <2>11. PolicyInv'
    BY <1>1, <1>2, <1>4, <1>6, <2>1, <2>5, <2>6 DEF PolicyInv, Denied, BelowInv, Late, Shipped
  <2>12. LeftoverInv'
    BY <2>1 DEF LeftoverInv
  <2>13. NothingInv'
    <3>1. Layered => \A p \in RootPaths : upper'[p] = Nothing
      BY <2>4, <2>5
    <3>2. ~Layered => Root'[Database] = Nothing /\ FreshRoot
      BY <1>3, <1>4, <1>5, <2>5, <2>6 DEF FreshRoot
    <3> QED BY <1>1, <1>2, <2>1, <3>1, <3>2 DEF NothingInv, InstallTypes
  <2>14. FilesInv'
    <3>1. step' \in Late \/ (step' = "allow" /\ ~failed') => spec'.packages = {}
      BY <1>1, <2>1 DEF Late
    <3>2. spec'.packages = {} => Unpacked' = {}
      BY <1>1 DEF Unpacked, Shipped
    <3>3. step' \notin {"park", "scrub", "normalize", "finish"}
      BY <2>1
    <3> QED BY <2>5, <2>6, <3>1, <3>2, <3>3 DEF FilesInv
  <2> QED BY <1>2, <2>1, <2>7, <2>8, <2>10, <2>11, <2>12, <2>13, <2>14, SoundMeanwhile
<1> QED BY <1>7, <1>8

\* The marks are different things.
LEMMA MarksDiffer ==
  /\ Nothing # Whiteout /\ Nothing # {"deny"} /\ Nothing # {"uninitialized"} /\ {"uninitialized"} # Whiteout
  /\ {"deny"} # Whiteout /\ {"scripted"} # Whiteout /\ {"left"} # Whiteout /\ Known(Nothing) = {}
  /\ \A p : {p} # Nothing
  /\ {Policy} # {"deny"} /\ {Policy} # Whiteout /\ {Config} # Whiteout
  BY DEF Nothing, Whiteout, Known, Policy, Config

LEMMA PathsDiffer ==
  /\ Policy \notin {Doc, License, MachineId, Database, Leftover, Scripted, Config}
  /\ Database \notin {Doc, License, MachineId, Leftover, Scripted, Config}
  /\ MachineId \notin {Doc, License, Leftover, Scripted, Config}
  /\ Leftover \notin {Doc, License, Scripted, Config}
  /\ Doc \notin {License, Scripted, Config}
  /\ Scripted # Config /\ License # Scripted
  BY DEF Policy, Doc, License, MachineId, Database, Leftover, Scripted, Config

\* A parked database knows the same packages.
LEMMA ParkedIs ==
  ASSUME InstallAssumption, NEW db
  PROVE  /\ Parked(Known(db)) \in SUBSET Marks
         /\ Known(Parked(Known(db))) = Known(db) /\ "parked" \in Parked(Known(db))
         /\ Parked(Known(db)) # Nothing /\ Parked(Known(db)) # Whiteout
<1>1. Packages \cap {Database, "parked"} = {}
  BY DEF InstallAssumption
<1>2. Packages \subseteq Marks /\ Database \in Marks /\ "parked" \in Marks
  BY OwnPaths
<1> QED BY <1>1, <1>2 DEF Parked, Known, Nothing, Whiteout

\* Nothing is below the first layer.
LEMMA FirstIsFirst ==
  ASSUME ~Layered PROVE \A p \in RootPaths : Below[p] = Nothing
  BY StackedNothing DEF Layered, Below, EmptyLayer

LEMMA RootIsLayer ==
  ASSUME InstallTypes, BelowInv
  PROVE  Root \in Layer /\ \A p \in RootPaths : Root[p] # Whiteout
<1>1. Root \in Layer
  BY OverLayer DEF Root, InstallTypes, BelowInv
<1>2. \A p \in RootPaths : Root[p] # Whiteout
  BY OverAt, MarksDiffer DEF Root, BelowInv
<1> QED BY <1>1, <1>2

LEMMA LayDownKeeps == ASSUME InstallAssumption, InstallInv, LayDown PROVE InstallInv'
<1> USE DEF InstallInv
<1>1. /\ step = "lay down" /\ step' = "deny" /\ manager = "deb" /\ ~failed /\ spec.packages # {}
      /\ UNCHANGED <<manager, box, linked, layers, spec, putAside, failed>> /\ upper[Database] = Nothing
  BY DEF LayDown, StepInv, DatabaseInv
<1>2. BelowInv' /\ Below' = Below /\ Layered' = Layered
  BY <1>1, BelowSame
<1>3. upper' = [p \in RootPaths |->
       CASE p = Database -> Parked(Known(Root[Database]))
         [] FreshRoot /\ p \in Shipped -> IF ~spec.docs /\ p \in {Doc, License} THEN Nothing ELSE FileOf(p)
         [] OTHER -> upper[p]]
  BY DEF LayDown
<1>4. Database \notin Shipped /\ "whiteout" \notin Shipped /\ Shipped \subseteq RootPaths
  BY ShippedPaths
<1>5. /\ upper'[Database] = Parked(Known(Root[Database]))
      /\ \A p \in RootPaths \ {Database} :
           upper'[p] = IF FreshRoot /\ p \in Shipped THEN IF ~spec.docs /\ p \in {Doc, License} THEN Nothing ELSE FileOf(p)
                       ELSE upper[p]
  BY <1>3, <1>4, OwnPaths
<1>6. upper' \in Layer
  <2>1. \A p \in RootPaths : upper[p] \in SUBSET Marks /\ FileOf(p) \in SUBSET Marks
    BY FileIs DEF InstallTypes, Layer
  <2>2. Nothing \in SUBSET Marks /\ Parked(Known(Root[Database])) \in SUBSET Marks
    BY ParkedIs DEF Nothing
  <2>3. \A p \in RootPaths : upper'[p] \in SUBSET Marks
    BY <1>5, <2>1, <2>2
  <2> QED BY <1>3, <2>3 DEF Layer
<1>7. InstallTypes'
  BY <1>1, <1>6 DEF InstallTypes
<1>8. StepInv'
  BY <1>1, <1>2 DEF StepInv
<1>9. WhiteoutInv'
  <2>1. ASSUME NEW p \in RootPaths, upper'[p] = Whiteout PROVE p # Database /\ upper[p] = Whiteout
    <3>1. p # Database
      BY <1>5, <2>1, ParkedIs
    <3>2. FileOf(p) = Whiteout => p = "whiteout"
      BY FileIs
    <3> QED BY <1>4, <1>5, <2>1, <3>1, <3>2, MarksDiffer
  <2> QED BY <1>2, <2>1, OwnPaths DEF WhiteoutInv
<1>10. ~Layered => Root[Database] = Nothing /\ FreshRoot
  BY <1>1, FirstIsFirst, OwnPaths, OverAt DEF FreshRoot, Root
<1>11. DatabaseInv'
  <2>1. ~Layered => Known(upper'[Database]) \subseteq spec.packages
    BY <1>5, <1>10, ParkedIs, MarksDiffer
  <2> QED BY <1>1, <1>2, <2>1 DEF DatabaseInv, Late
<1>12. PolicyInv'
  <2>1. Policy \in RootPaths \ {Database} /\ Policy \notin {Doc, License}
    BY OwnPaths, PathsDiffer
  <2>2. CASE FreshRoot /\ Policy \in Shipped
    <3>1. upper'[Policy] = FileOf(Policy) /\ FileOf(Policy) # Nothing /\ FileOf(Policy) # Whiteout
      BY <1>5, <2>1, <2>2, FileIs
    <3>2. Root'[Policy] = FileOf(Policy)
      BY <1>1, <2>1, <3>1, RootAt
    <3>3. FileOf(Policy) # {"deny"} /\ (~linked => FileOf(Policy) = {Policy})
      BY <2>1, FileIs
    <3> QED BY <1>1, <3>2, <3>3 DEF PolicyInv, Denied, Late
  <2>3. CASE ~(FreshRoot /\ Policy \in Shipped)
    <3>1. upper'[Policy] = upper[Policy]
      BY <1>5, <2>1, <2>3
    <3>2. Root'[Policy] = Root[Policy]
      BY <1>1, <2>1, <3>1, RootAt
    <3>3. ~linked /\ Below'[Policy] = {Policy} => Root[Policy] = {Policy}
      BY <1>1, <1>2 DEF PolicyInv, Denied
    <3>4. Shipped' = Shipped
      BY <1>1 DEF Shipped
    <3>5. ~Layered => Policy \notin Shipped
      BY <1>10, <2>3
    <3>6. Root[Policy] # {"deny"} /\ UNCHANGED <<linked, manager>> /\ step' = "deny" /\ step = "lay down"
      BY <1>1 DEF PolicyInv, Denied
    <3>7. ~Denied'
      BY <3>6 DEF Denied
    <3> QED BY <1>2, <3>2, <3>3, <3>4, <3>5, <3>6, <3>7 DEF PolicyInv
  <2> QED BY <2>2, <2>3
<1>13. LeftoverInv' /\ NothingInv'
  BY <1>1 DEF LeftoverInv, NothingInv
<1>14. FilesInv'
  <2>1. ~Layered /\ ~spec.docs => upper'[Doc] = Nothing
    BY <1>5, OwnPaths, PathsDiffer DEF FilesInv
  <2> QED BY <1>1, <1>2, <2>1 DEF FilesInv, Late
<1> QED BY <1>1, <1>2, <1>7, <1>8, <1>9, <1>11, <1>12, <1>13, <1>14, SoundMeanwhile

LEMMA DenyKeeps == ASSUME InstallAssumption, InstallInv, Deny PROVE InstallInv'
<1> USE DEF InstallInv
<1>1. /\ step = "deny" /\ step' = "transaction" /\ manager = "deb" /\ ~failed /\ spec.packages # {}
      /\ UNCHANGED <<manager, box, linked, layers, spec, failed>>
      /\ putAside' = [putAside EXCEPT !.policy = IF Root[Policy] = PolicyLink THEN Nothing ELSE Root[Policy]]
      /\ upper' = Written(Policy, {"deny"})
  BY DEF Deny, StepInv
<1>2. BelowInv' /\ Below' = Below /\ Layered' = Layered
  BY <1>1, BelowSame
<1>3. Policy \in RootPaths /\ {"deny"} \in SUBSET Marks
  BY OwnPaths
<1>4. upper' \in Layer /\ upper'[Policy] = {"deny"} /\ SameBut({Policy})
  BY <1>1, <1>3, WrittenIs
<1>5. Root[Policy] \in SUBSET Marks /\ Root[Policy] \notin {{"deny"}, Whiteout}
  <2>1. Root \in Layer /\ Root[Policy] # Whiteout
    BY <1>3, RootIsLayer
  <2>2. Root[Policy] # {"deny"}
    BY <1>1 DEF PolicyInv, Denied
  <2> QED BY <1>3, <2>1, <2>2 DEF Layer
<1>6. /\ putAside' \in [policy : SUBSET Marks, fresh : BOOLEAN] /\ putAside'.fresh = putAside.fresh
      /\ putAside'.policy \notin {{"deny"}, Whiteout}
      /\ Root[Policy] = {Policy} => putAside'.policy = {Policy}
  <2>1. Nothing \in SUBSET Marks /\ Nothing \notin {{"deny"}, Whiteout}
    BY MarksDiffer DEF Nothing
  <2>2. {Policy} # PolicyLink
    BY DEF Policy, PolicyLink
  <2> QED BY <1>1, <1>5, <2>1, <2>2 DEF InstallTypes
<1>7. InstallTypes'
  BY <1>1, <1>4, <1>6 DEF InstallTypes
<1>8. StepInv'
  BY <1>1, <1>2, <1>6 DEF StepInv
<1>9. WhiteoutInv'
  BY <1>2, <1>4, MarksDiffer, OwnPaths, PathsDiffer DEF WhiteoutInv, SameBut
<1>10. upper'[Database] = upper[Database] /\ upper'[Doc] = upper[Doc]
  BY <1>4, OwnPaths, PathsDiffer DEF SameBut
<1>11. DatabaseInv'
  BY <1>1, <1>2, <1>10 DEF DatabaseInv, Late
<1>12. PolicyInv'
  <2>1. Shipped' = Shipped
    BY <1>1 DEF Shipped
  <2> QED BY <1>1, <1>2, <1>5, <1>6, <2>1 DEF PolicyInv, Denied
<1>13. LeftoverInv' /\ NothingInv' /\ FilesInv'
  BY <1>1, <1>2, <1>10 DEF LeftoverInv, NothingInv, FilesInv, Late
<1> QED BY <1>1, <1>2, <1>7, <1>8, <1>9, <1>11, <1>12, <1>13, SoundMeanwhile

\* What an install leaves in its layer.
LEMMA InstallsIs ==
  ASSUME InstallAssumption, InstallInv, Installs
  PROVE  /\ upper' \in Layer
         /\ upper'[Database] = Known(Root[Database]) \cup spec.packages \cup {Database}
         /\ \A f \in Unpacked : upper'[f] = FileOf(f)
         /\ \A p \in {Doc, License, Policy} \ Unpacked : upper'[p] = upper[p]
         /\ upper'[MachineId] \in {upper[MachineId], {"scripted"}}
         /\ \A p \in RootPaths : upper'[p] = Whiteout => upper[p] = Whiteout \/ Below[p] # Nothing
<1> USE DEF InstallInv
<1>1. PICK scripted \in SUBSET {MachineId, Scripted}, deleted \in SUBSET UNION {Ships[p] : p \in Packages} :
        /\ deleted \cap ({Doc, License, Policy} \cup Unpacked) = {}
        /\ upper' = [p \in RootPaths |->
             CASE p = Database -> Known(Root[Database]) \cup spec.packages \cup {Database}
               [] p \in Unpacked -> FileOf(p)
               [] p = Leftover -> {"left"}
               [] p \in scripted -> {"scripted"}
               [] p \in deleted -> Unlinked({p})[p]
               [] OTHER -> upper[p]]
  BY DEF Installs
<1>2. /\ Unpacked \subseteq RootPaths /\ Unpacked \cap {MachineId, Database, Leftover, Scripted, "whiteout"} = {}
      /\ deleted \cap ({MachineId, Database, Leftover, Scripted} \cup Unpacked) = {}
  <2>1. \A p \in Packages : Ships[p] \cap {MachineId, Database, Leftover, Scripted} = {}
    BY DEF InstallAssumption
  <2> QED BY <1>1, <2>1, ShippedPaths
<1>3. \A p \in RootPaths : Unlinked({p})[p] = IF Below[p] # Nothing THEN Whiteout ELSE Nothing
  BY DEF Unlinked
<1>4. /\ upper'[Database] = Known(Root[Database]) \cup spec.packages \cup {Database}
      /\ \A p \in RootPaths \ {Database} :
           upper'[p] = IF p \in Unpacked THEN FileOf(p) ELSE IF p = Leftover THEN {"left"} ELSE IF p \in scripted THEN {"scripted"}
                       ELSE IF p \in deleted THEN IF Below[p] # Nothing THEN Whiteout ELSE Nothing
                       ELSE upper[p]
  BY <1>1, <1>2, <1>3, OwnPaths, PathsDiffer
<1>5. upper'[Database] \in SUBSET Marks /\ upper'[Database] # Whiteout
  <2>1. spec.packages \subseteq Packages /\ Packages \subseteq Marks /\ Database \in Marks /\ Database # "whiteout"
    BY OwnPaths DEF InstallTypes, Database
  <2> QED BY <1>4, <2>1 DEF Known, Whiteout
<1>6. upper' \in Layer
  <2>1. \A p \in RootPaths : upper[p] \in SUBSET Marks
    BY DEF InstallTypes, Layer
  <2>2. {"left"} \in SUBSET Marks /\ {"scripted"} \in SUBSET Marks /\ Whiteout \in SUBSET Marks /\ Nothing \in SUBSET Marks
    BY OwnPaths DEF Whiteout, Nothing
  <2>3. \A p \in RootPaths : upper'[p] \in SUBSET Marks
    BY <1>4, <1>5, <2>1, <2>2, FileIs
  <2> QED BY <1>1, <2>3 DEF Layer
<1>7. \A f \in Unpacked : upper'[f] = FileOf(f)
  BY <1>2, <1>4
<1>8. \A p \in {Doc, License, Policy} \ Unpacked : upper'[p] = upper[p]
  BY <1>1, <1>4, OwnPaths, PathsDiffer, <1>2
<1>9. upper'[MachineId] \in {upper[MachineId], {"scripted"}}
  BY <1>1, <1>2, <1>4, OwnPaths, PathsDiffer
<1>10. ASSUME NEW p \in RootPaths, upper'[p] = Whiteout PROVE upper[p] = Whiteout \/ Below[p] # Nothing
  <2>1. p # Database
    BY <1>5, <1>10
  <2>2. p \notin Unpacked
    <3>1. FileOf(p) = Whiteout => p = "whiteout"
      BY FileIs
    <3> QED BY <1>2, <1>7, <1>10, <3>1
  <2> QED BY <1>4, <1>10, <2>1, <2>2, MarksDiffer
<1> QED BY <1>4, <1>6, <1>7, <1>8, <1>9, <1>10

\* The transaction that installs something, of any of the three.
LEMMA TransactionKeeps ==
  ASSUME InstallAssumption, InstallInv, Installs, step = "transaction", spec.packages # {},
         UNCHANGED <<manager, box, linked, layers, spec, putAside, failed>>,
         step' = IF manager = "deb" THEN "allow" ELSE "remark"
  PROVE  InstallInv'
<1> USE DEF InstallInv
<1>1. ~failed /\ step' \in {"allow", "remark"} /\ (step' = "allow" <=> manager = "deb")
  BY DEF StepInv
<1>2. BelowInv' /\ Below' = Below /\ Layered' = Layered
  BY BelowSame
<1>3. Unpacked' = Unpacked /\ Shipped' = Shipped
  BY DEF Unpacked, Shipped
<1>4. InstallTypes'
  BY <1>1, InstallsIs DEF InstallTypes, Late
<1>5. StepInv'
  BY <1>1, <1>2 DEF StepInv
<1>6. Database # "whiteout" /\ upper'[Database] = Known(Root[Database]) \cup spec.packages \cup {Database}
  BY InstallsIs DEF Database
<1>7. WhiteoutInv'
  <2>1. upper'[Database] # Whiteout
    BY <1>6 DEF Whiteout
  <2>2. upper'[MachineId] # Whiteout
    BY InstallsIs, MarksDiffer DEF WhiteoutInv
  <2>3. \A p \in RootPaths : upper'[p] = Whiteout => Below[p] # Nothing
    BY InstallsIs DEF WhiteoutInv
  <2> QED BY <1>2, <2>1, <2>2, <2>3 DEF WhiteoutInv
<1>8. DatabaseInv'
  <2>1. Known(upper'[Database]) = Known(Root[Database]) \cup spec.packages
    <3>1. Database \notin Packages /\ spec.packages \subseteq Packages
      BY DEF InstallAssumption, InstallTypes
    <3> QED BY <1>6, <3>1 DEF Known
  <2>2. upper'[Database] # Nothing /\ upper'[Database] # Whiteout
    BY <1>6 DEF Nothing, Whiteout
  <2>3. Root'[Database] = upper'[Database]
    BY <2>2, OwnPaths, RootAt
  <2>4. ~Layered => Known(Root[Database]) \subseteq spec.packages
    <3>1. ~Layered => Root[Database] = upper[Database] \/ Root[Database] = Nothing
      BY FirstIsFirst, OwnPaths, OverAt DEF Root
    <3> QED BY <3>1, MarksDiffer DEF DatabaseInv
  <2> QED BY <1>1, <1>2, <2>1, <2>2, <2>3, <2>4 DEF DatabaseInv
<1>9. PolicyInv'
  <2>1. CASE manager = "deb"
    BY <1>1, <1>2, <1>3, <2>1 DEF PolicyInv, Denied, Late
  <2>2. CASE manager # "deb"
    <3>1. CASE Policy \in Unpacked
      <4>1. upper'[Policy] = FileOf(Policy)
        BY <3>1, InstallsIs
      <4>2. /\ FileOf(Policy) \notin {Nothing, Whiteout, {"deny"}}
            /\ ~linked => FileOf(Policy) = {Policy}
        BY FileIs, OwnPaths
      <4>3. Root'[Policy] = FileOf(Policy)
        BY <4>1, <4>2, OwnPaths, RootAt
      <4> QED BY <1>1, <2>2, <4>2, <4>3 DEF PolicyInv, Denied
    <3>2. CASE Policy \notin Unpacked
      <4>1. upper'[Policy] = upper[Policy]
        BY <3>2, InstallsIs
      <4>2. Root'[Policy] = Root[Policy]
        BY <4>1, OwnPaths, RootAt
      <4>3. Policy \notin Shipped
        BY <3>2, ShippedPaths
      <4> QED BY <1>1, <1>2, <1>3, <2>2, <4>2, <4>3 DEF PolicyInv, Denied
    <3> QED BY <3>1, <3>2
  <2> QED BY <2>1, <2>2
<1>10. LeftoverInv' /\ NothingInv'
  BY <1>1 DEF LeftoverInv, NothingInv
<1>11. FilesInv'
  <2>1. \A f \in Unpacked \ {Policy} : upper'[f] = {f}
    BY InstallsIs, FileIs, ShippedPaths
  <2>2. ~spec.docs => upper'[Doc] = upper[Doc]
    <3>1. ~spec.docs => Doc \notin Unpacked
      BY DEF Unpacked
    <3> QED BY <3>1, InstallsIs
  <2> QED BY <1>1, <1>2, <1>3, <2>1, <2>2 DEF FilesInv
<1> QED BY <1>1, <1>2, <1>4, <1>5, <1>7, <1>8, <1>9, <1>10, <1>11, SoundMeanwhile

LEMMA AptKeeps == ASSUME InstallAssumption, InstallInv, AptInstall PROVE InstallInv'
<1>1. spec.packages # {}
  BY DEF AptInstall, InstallInv, StepInv
<1> QED BY <1>1, TransactionKeeps DEF AptInstall

LEMMA PacmanKeeps == ASSUME InstallAssumption, InstallInv, PacmanInstall PROVE InstallInv'
<1>1. spec.packages # {}
  BY DEF PacmanInstall, InstallInv, StepInv
<1> QED BY <1>1, TransactionKeeps DEF PacmanInstall

LEMMA DnfKeeps == ASSUME InstallAssumption, InstallInv, DnfInstall PROVE InstallInv'
<1>1. CASE spec.packages # {}
  BY <1>1, TransactionKeeps DEF DnfInstall
<1>2. CASE spec.packages = {}
  <2> USE DEF InstallInv
  <2>1. /\ step = "transaction" /\ step' = "remark" /\ manager = "rpm" /\ ~failed
        /\ UNCHANGED <<manager, box, linked, layers, spec, putAside, failed, upper>>
    BY <1>2 DEF DnfInstall, StepInv
  <2>2. BelowInv' /\ Below' = Below /\ Layered' = Layered
    BY <2>1, BelowSame
  <2>3. Root' = Root /\ Shipped' = Shipped /\ Unpacked' = Unpacked
    BY <2>1, <2>2 DEF Root, Shipped, Unpacked
  <2>4. Shipped = {} /\ Unpacked = {}
    BY <1>2, ShippedPaths DEF Shipped
  <2>5. InstallTypes'
    BY <2>1 DEF InstallTypes, Late
  <2>6. StepInv' /\ WhiteoutInv'
    BY <2>1, <2>2 DEF StepInv, WhiteoutInv
  <2>7. Root[Database] = Below[Database]
    BY <2>1, OwnPaths, OverAt DEF DatabaseInv, Root
  <2>8. Root[Database] = Nothing \/ Known(Root[Database]) # {}
    BY <2>7, FirstIsFirst, OwnPaths DEF BelowInv
  <2>9. DatabaseInv'
    BY <2>1, <2>2, <2>3, <2>8 DEF DatabaseInv
  <2>10. PolicyInv'
    BY <2>1, <2>2, <2>3, <2>4 DEF PolicyInv, Denied
  <2>11. LeftoverInv' /\ NothingInv'
    BY <2>1 DEF LeftoverInv, NothingInv
  <2>12. FilesInv'
    BY <2>1, <2>2, <2>3, <2>4 DEF FilesInv
  <2> QED BY <2>1, <2>2, <2>5, <2>6, <2>9, <2>10, <2>11, <2>12, SoundMeanwhile
<1> QED BY <1>1, <1>2

LEMMA FailInstallKeeps == ASSUME InstallAssumption, InstallInv, FailInstall PROVE InstallInv'
<1> USE DEF InstallInv
<1>1. /\ step = "transaction" /\ spec.packages # {} /\ failed' = TRUE
      /\ step' = IF manager = "deb" THEN "allow" ELSE "stopped"
      /\ UNCHANGED <<manager, box, linked, layers, spec, putAside, upper>>
  BY DEF FailInstall, Stop
<1>2. BelowInv' /\ Below' = Below /\ Layered' = Layered
  BY <1>1, BelowSame
<1>3. Root' = Root /\ Shipped' = Shipped /\ Unpacked' = Unpacked
  BY <1>1, <1>2 DEF Root, Shipped, Unpacked
<1>4. step' \in {"allow", "stopped"} /\ (step' = "allow" <=> manager = "deb")
  BY <1>1
<1>5. InstallTypes'
  BY <1>1 DEF InstallTypes
<1>6. StepInv' /\ WhiteoutInv'
  BY <1>1, <1>2, <1>4 DEF StepInv, WhiteoutInv
<1>7. DatabaseInv'
  BY <1>1, <1>2, <1>4 DEF DatabaseInv
<1>8. PolicyInv'
  BY <1>1, <1>2, <1>3, <1>4 DEF PolicyInv, Denied, Late
<1>9. LeftoverInv' /\ NothingInv' /\ FilesInv'
  BY <1>1, <1>2, <1>4 DEF LeftoverInv, NothingInv, FilesInv, Late
<1> QED BY <1>2, <1>4, <1>5, <1>6, <1>7, <1>8, <1>9, SoundMeanwhile

LEMMA AllowKeeps == ASSUME InstallAssumption, InstallInv, Allow PROVE InstallInv'
<1> USE DEF InstallInv
<1>1. /\ step = "allow" /\ manager = "deb" /\ spec.packages # {}
      /\ UNCHANGED <<manager, box, linked, layers, spec, putAside, failed>>
      /\ upper' = IF putAside.policy # Nothing THEN Written(Policy, putAside.policy) ELSE Unlinked({Policy})
      /\ step' = IF failed THEN "stopped" ELSE "remark"
  BY DEF Allow, StepInv
<1>2. BelowInv' /\ Below' = Below /\ Layered' = Layered
  BY <1>1, BelowSame
<1>3. Policy \in RootPaths /\ putAside.policy \in SUBSET Marks /\ putAside.policy \notin {{"deny"}, Whiteout}
  BY <1>1, OwnPaths DEF InstallTypes, PolicyInv, Denied
<1>4. /\ upper' \in Layer /\ SameBut({Policy})
      /\ upper'[Policy] = IF putAside.policy # Nothing THEN putAside.policy ELSE IF Below[Policy] # Nothing THEN Whiteout ELSE Nothing
  <2>1. CASE putAside.policy # Nothing
    <3>1. upper' = Written(Policy, putAside.policy)
      BY <1>1, <2>1
    <3> QED BY <1>3, <2>1, <3>1, WrittenIs
  <2>2. CASE putAside.policy = Nothing
    <3>1. upper' = Unlinked({Policy})
      BY <1>1, <2>2
    <3> QED BY <1>3, <2>2, <3>1, UnlinkedIs
  <2> QED BY <2>1, <2>2
<1>5. Root'[Policy] = putAside.policy
  BY <1>1, <1>3, <1>4, RootAt, MarksDiffer
<1>6. /\ upper'[Database] = upper[Database] /\ upper'[MachineId] = upper[MachineId] /\ upper'[Doc] = upper[Doc]
      /\ Root'[Database] = Root[Database]
  <2>1. Database \in RootPaths \ {Policy} /\ MachineId \in RootPaths \ {Policy} /\ Doc \in RootPaths \ {Policy}
    BY OwnPaths, PathsDiffer
  <2>2. \A p \in RootPaths \ {Policy} : Root'[p] = Root[p]
    BY <1>1, <1>4, RootSame
  <2> QED BY <1>4, <2>1, <2>2 DEF SameBut
<1>7. InstallTypes'
  BY <1>1, <1>4 DEF InstallTypes, Late
<1>8. StepInv'
  BY <1>1, <1>2 DEF StepInv
<1>9. WhiteoutInv'
  BY <1>2, <1>3, <1>4, <1>6, MarksDiffer DEF WhiteoutInv, SameBut
<1>10. DatabaseInv'
  <2>1. ~failed => Known(Root'[Database]) # {} /\ Root'[Database] # Nothing
    BY <1>1, <1>6, MarksDiffer DEF DatabaseInv
  <2> QED BY <1>1, <1>2, <1>6, <2>1 DEF DatabaseInv
<1>11. Shipped' = Shipped /\ Unpacked' = Unpacked /\ Unpacked \subseteq RootPaths
  BY <1>1, ShippedPaths DEF Shipped, Unpacked
<1>12. PolicyInv'
  BY <1>1, <1>2, <1>3, <1>5, <1>11 DEF PolicyInv, Denied
<1>13. LeftoverInv' /\ NothingInv'
  BY <1>1 DEF LeftoverInv, NothingInv
<1>14. FilesInv'
  <2>1. ~failed => \A f \in Unpacked \ {Policy} : upper'[f] = {f}
    BY <1>1, <1>4, <1>11 DEF FilesInv, SameBut
  <2> QED BY <1>1, <1>2, <1>6, <1>11, <2>1 DEF FilesInv, Late
<1>15. step' # "idle"
  BY <1>1
<1> QED BY <1>2, <1>7, <1>8, <1>9, <1>10, <1>12, <1>13, <1>14, <1>15, SoundMeanwhile

LEMMA RemarkKeeps == ASSUME InstallAssumption, InstallInv, Remark PROVE InstallInv'
<1> USE DEF InstallInv
<1>1. /\ step = "remark" /\ step' = "park" /\ ~failed /\ UNCHANGED <<manager, box, linked, layers, spec, putAside, failed>>
      /\ upper' = IF putAside.fresh THEN Written(MachineId, {"uninitialized"}) ELSE upper
      /\ (putAside.fresh <=> ~Layered)
  BY DEF Remark, StepInv
<1>2. BelowInv' /\ Below' = Below /\ Layered' = Layered
  BY <1>1, BelowSame
<1>3. /\ upper' \in Layer /\ SameBut({MachineId}) /\ (Layered => upper' = upper)
      /\ (~Layered => upper'[MachineId] = {"uninitialized"})
  <2>1. CASE putAside.fresh
    <3>1. MachineId \in RootPaths /\ {"uninitialized"} \in SUBSET Marks
      BY OwnPaths
    <3>2. upper' = Written(MachineId, {"uninitialized"})
      BY <1>1, <2>1
    <3> QED BY <1>1, <2>1, <3>1, <3>2, WrittenIs
  <2>2. CASE ~putAside.fresh
    BY <1>1, <2>2 DEF InstallTypes, SameBut
  <2> QED BY <2>1, <2>2
<1>4. /\ \A p \in RootPaths \ {MachineId} : upper'[p] = upper[p] /\ Root'[p] = Root[p]
      /\ Database \in RootPaths \ {MachineId} /\ Policy \in RootPaths \ {MachineId} /\ Doc \in RootPaths \ {MachineId}
  BY <1>1, <1>3, OwnPaths, PathsDiffer, RootSame DEF SameBut
<1>5. Shipped' = Shipped /\ Unpacked' = Unpacked /\ Unpacked \subseteq RootPaths \ {MachineId}
  BY <1>1, ShippedPaths DEF Shipped, Unpacked
<1>6. InstallTypes'
  BY <1>1, <1>3 DEF InstallTypes, Late
<1>7. StepInv'
  BY <1>1, <1>2 DEF StepInv
<1>8. WhiteoutInv'
  <2>1. upper'[MachineId] # Whiteout
    BY <1>3, MarksDiffer DEF WhiteoutInv
  <2> QED BY <1>2, <1>4, <2>1 DEF WhiteoutInv
<1>9. DatabaseInv'
  BY <1>1, <1>2, <1>4 DEF DatabaseInv
<1>10. PolicyInv'
  BY <1>1, <1>2, <1>4, <1>5 DEF PolicyInv, Denied, Late
<1>11. LeftoverInv' /\ NothingInv'
  BY <1>1, <1>2, <1>3, <1>4 DEF LeftoverInv, NothingInv
<1>12. FilesInv'
  BY <1>1, <1>2, <1>3, <1>4, <1>5 DEF FilesInv, Late
<1> QED BY <1>1, <1>2, <1>6, <1>7, <1>8, <1>9, <1>10, <1>11, <1>12, SoundMeanwhile

\* Either driver's parking: stop without a database, or leave a parked one that knows the same.
LEMMA ParkingKeeps ==
  ASSUME InstallAssumption, InstallInv, step = "park", Root[Database] # Nothing, step' = "scrub",
         UNCHANGED <<manager, box, linked, layers, spec, putAside, failed>>,
         \/ upper' = Written(Database, Parked(Known(Root[Database])))
            /\ (manager = "rpm" \/ "parked" \notin Root[Database])
         \/ upper' = upper /\ "parked" \in Root[Database]
  PROVE  InstallInv'
<1> USE DEF InstallInv
<1>1. ~failed /\ (putAside.fresh <=> ~Layered) /\ Known(Root[Database]) # {}
  BY DEF StepInv, DatabaseInv
<1>2. BelowInv' /\ Below' = Below /\ Layered' = Layered
  BY BelowSame
<1>3. /\ upper' \in Layer /\ SameBut({Database}) /\ upper'[Database] # Whiteout
      /\ \/ upper'[Database] = Parked(Known(Root[Database])) /\ (manager = "rpm" \/ "parked" \notin Root[Database])
         \/ upper' = upper /\ "parked" \in Root[Database]
  <2>1. CASE upper' = upper /\ "parked" \in Root[Database]
    BY <2>1 DEF InstallTypes, SameBut, WhiteoutInv
  <2>2. CASE upper' = Written(Database, Parked(Known(Root[Database]))) /\ (manager = "rpm" \/ "parked" \notin Root[Database])
    <3>1. Database \in RootPaths /\ Parked(Known(Root[Database])) \in SUBSET Marks
          /\ Parked(Known(Root[Database])) # Whiteout
      BY OwnPaths, ParkedIs
    <3> QED BY <2>2, <3>1, WrittenIs
  <2> QED BY <2>1, <2>2
<1>4. /\ \A p \in RootPaths \ {Database} : upper'[p] = upper[p] /\ Root'[p] = Root[p]
      /\ MachineId \in RootPaths \ {Database} /\ Policy \in RootPaths \ {Database} /\ Doc \in RootPaths \ {Database}
  BY <1>3, OwnPaths, PathsDiffer, RootSame DEF SameBut
<1>5. "parked" \in Root'[Database] /\ Known(Root'[Database]) = Known(Root[Database])
  <2>1. CASE upper'[Database] = Parked(Known(Root[Database]))
    BY <2>1, ParkedIs, OwnPaths, RootAt
  <2>2. CASE upper' = upper /\ "parked" \in Root[Database]
    BY <2>2, OwnPaths, RootAt
  <2> QED BY <1>3, <2>1, <2>2
<1>6. Shipped' = Shipped /\ Unpacked' = Unpacked /\ Unpacked \subseteq RootPaths \ {Database}
  BY ShippedPaths DEF Shipped, Unpacked
<1>7. InstallTypes'
  BY <1>3 DEF InstallTypes, Late
<1>8. StepInv'
  BY <1>1, <1>2 DEF StepInv
<1>9. WhiteoutInv'
  BY <1>2, <1>3, <1>4 DEF WhiteoutInv
<1>10. DatabaseInv'
  <2>1. ASSUME ~Layered PROVE Known(upper'[Database]) \subseteq spec.packages
    <3>1. Root[Database] = upper[Database]
      BY <2>1, FirstIsFirst, OwnPaths, OverAt DEF Root, WhiteoutInv
    <3> QED BY <1>3, <2>1, <3>1, ParkedIs DEF DatabaseInv
  <2> QED BY <1>1, <1>2, <1>5, <2>1 DEF DatabaseInv
<1>11. PolicyInv'
  BY <1>2, <1>4, <1>6 DEF PolicyInv, Denied, Late
<1>12. LeftoverInv'
  BY DEF LeftoverInv
<1>13. NothingInv'
  <2>1. ASSUME spec.packages = {}, manager # "rpm" PROVE Layered /\ upper' = upper
    <3>1. Layered
      BY <2>1 DEF NothingInv
    <3>2. upper[Database] = Nothing
      BY <2>1, <3>1, OwnPaths, PathsDiffer DEF NothingInv
    <3>3. Root[Database] = Below[Database] /\ "parked" \in Below[Database]
      BY <3>1, <3>2, OwnPaths, OverAt DEF Root, BelowInv
    <3> QED BY <1>3, <2>1, <3>1, <3>3
  <2> QED BY <1>2, <2>1 DEF NothingInv
<1>14. FilesInv'
  BY <1>2, <1>4, <1>6 DEF FilesInv, Late
<1> QED BY <1>2, <1>7, <1>8, <1>9, <1>10, <1>11, <1>12, <1>13, <1>14, SoundMeanwhile

\* An install that gives up before it is done.
LEMMA StopKeeps ==
  ASSUME InstallAssumption, InstallInv, Stop, upper' = upper, step \in Late
  PROVE  InstallInv'
<1> USE DEF InstallInv
<1>1. step' = "stopped" /\ failed' = TRUE /\ UNCHANGED <<manager, box, linked, layers, spec, putAside, upper>>
  BY DEF Stop
<1>2. BelowInv' /\ Below' = Below /\ Layered' = Layered
  BY <1>1, BelowSame
<1>3. Root' = Root
  BY <1>1, <1>2 DEF Root
<1>4. InstallTypes'
  BY <1>1 DEF InstallTypes
<1>5. StepInv' /\ WhiteoutInv'
  BY <1>1, <1>2 DEF StepInv, WhiteoutInv
<1>6. DatabaseInv'
  BY <1>1, <1>2 DEF DatabaseInv
<1>7. PolicyInv'
  BY <1>1, <1>3 DEF PolicyInv, Denied, Late
<1>8. LeftoverInv' /\ NothingInv' /\ FilesInv'
  BY <1>1, <1>2 DEF LeftoverInv, NothingInv, FilesInv, Late
<1> QED BY <1>1, <1>2, <1>4, <1>5, <1>6, <1>7, <1>8, SoundMeanwhile

LEMMA ParkKeeps == ASSUME InstallAssumption, InstallInv, Park PROVE InstallInv'
<1>1. /\ step = "park" /\ manager # "rpm"
      /\ IF Root[Database] = Nothing /\ manager = "alpm" THEN Stop /\ UNCHANGED upper
         ELSE /\ upper' = IF Root[Database] # Nothing /\ "parked" \notin Root[Database]
                          THEN Written(Database, Parked(Known(Root[Database]))) ELSE upper
              /\ step' = "scrub"
              /\ UNCHANGED <<manager, box, linked, layers, spec, putAside, failed>>
  BY DEF Park
<1>2. CASE Root[Database] = Nothing
  <2>1. manager = "alpm"
    BY <1>1, <1>2 DEF InstallInv, DatabaseInv, InstallTypes
  <2> QED BY <1>1, <1>2, <2>1, StopKeeps DEF Late
<1>3. CASE Root[Database] # Nothing
  <2>1. /\ step' = "scrub" /\ UNCHANGED <<manager, box, linked, layers, spec, putAside, failed>>
        /\ upper' = IF "parked" \notin Root[Database] THEN Written(Database, Parked(Known(Root[Database]))) ELSE upper
    BY <1>1, <1>3
  <2>2. CASE "parked" \in Root[Database]
    BY <1>1, <1>3, <2>1, <2>2, ParkingKeeps
  <2>3. CASE "parked" \notin Root[Database]
    BY <1>1, <1>3, <2>1, <2>3, ParkingKeeps
  <2> QED BY <2>2, <2>3
<1> QED BY <1>2, <1>3

LEMMA ParkRpmKeeps == ASSUME InstallAssumption, InstallInv, ParkRpm PROVE InstallInv'
<1>1. /\ step = "park" /\ manager = "rpm"
      /\ IF Root[Database] = Nothing THEN Stop /\ UNCHANGED upper
         ELSE /\ upper' = Written(Database, Parked(Known(Root[Database])))
              /\ step' = "scrub"
              /\ UNCHANGED <<manager, box, linked, layers, spec, putAside, failed>>
  BY DEF ParkRpm
<1>2. CASE Root[Database] = Nothing
  BY <1>1, <1>2, StopKeeps DEF Late
<1>3. CASE Root[Database] # Nothing
  BY <1>1, <1>3, ParkingKeeps
<1> QED BY <1>2, <1>3

LEMMA ScrubKeeps == ASSUME InstallAssumption, InstallInv, Scrub PROVE InstallInv'
<1> USE DEF InstallInv
<1>1. /\ step = "scrub" /\ step' = "normalize" /\ ~failed /\ (putAside.fresh <=> ~Layered)
      /\ UNCHANGED <<manager, box, linked, layers, spec, putAside, failed>>
      /\ upper' = IF manager = "deb" /\ spec.packages = {} THEN upper ELSE Unlinked({Leftover})
  BY DEF Scrub, StepInv
<1>2. BelowInv' /\ Below' = Below /\ Layered' = Layered
  BY <1>1, BelowSame
<1>3. spec.packages = {} /\ manager # "rpm" => Layered /\ \A p \in RootPaths \ {Config} : upper[p] = Nothing
  BY <1>1 DEF NothingInv
<1>4. Leftover \in RootPaths /\ Leftover # Config
  BY OwnPaths, PathsDiffer
<1>5. /\ upper' \in Layer /\ SameBut({Leftover})
      /\ Root'[Leftover] = Nothing
      /\ upper'[Leftover] = Whiteout => Below[Leftover] # Nothing
      /\ Layered => upper'[Leftover] = Nothing
  <2>1. CASE manager = "deb" /\ spec.packages = {}
    <3>1. Layered /\ upper' = upper /\ upper[Leftover] = Nothing
      BY <1>1, <1>3, <1>4, <2>1
    <3>2. Below[Leftover] = Nothing
      BY <3>1 DEF BelowInv
    <3> QED BY <1>1, <1>4, <3>1, <3>2, RootAt, MarksDiffer DEF InstallTypes, SameBut
  <2>2. CASE ~(manager = "deb" /\ spec.packages = {})
    <3>1. upper' = Unlinked({Leftover})
      BY <1>1, <2>2
    <3>2. /\ upper' \in Layer /\ SameBut({Leftover})
          /\ upper'[Leftover] = IF Below[Leftover] # Nothing THEN Whiteout ELSE Nothing
      BY <1>4, <3>1, UnlinkedIs
    <3>3. Layered => Below[Leftover] = Nothing
      BY DEF BelowInv
    <3> QED BY <1>1, <1>4, <3>2, <3>3, RootAt, MarksDiffer
  <2> QED BY <2>1, <2>2
<1>6. /\ \A p \in RootPaths \ {Leftover} : upper'[p] = upper[p] /\ Root'[p] = Root[p]
      /\ MachineId \in RootPaths \ {Leftover} /\ Policy \in RootPaths \ {Leftover}
      /\ Doc \in RootPaths \ {Leftover} /\ Database \in RootPaths \ {Leftover}
  BY <1>1, <1>5, OwnPaths, PathsDiffer, RootSame DEF SameBut
<1>7. Shipped' = Shipped /\ Unpacked' = Unpacked /\ Unpacked \subseteq RootPaths \ {Leftover}
  BY <1>1, ShippedPaths DEF Shipped, Unpacked
<1>8. InstallTypes'
  BY <1>1, <1>5 DEF InstallTypes, Late
<1>9. StepInv'
  BY <1>1, <1>2 DEF StepInv
<1>10. WhiteoutInv'
  BY <1>2, <1>5, <1>6 DEF WhiteoutInv
<1>11. DatabaseInv'
  BY <1>1, <1>2, <1>6 DEF DatabaseInv
<1>12. PolicyInv'
  BY <1>1, <1>2, <1>6, <1>7 DEF PolicyInv, Denied, Late
<1>13. LeftoverInv'
  BY <1>1, <1>5 DEF LeftoverInv
<1>14. NothingInv'
  BY <1>1, <1>2, <1>3, <1>4, <1>5, <1>6 DEF NothingInv
<1>15. FilesInv'
  BY <1>1, <1>2, <1>6, <1>7 DEF FilesInv, Late
<1> QED BY <1>1, <1>2, <1>8, <1>9, <1>10, <1>11, <1>12, <1>13, <1>14, <1>15, SoundMeanwhile

LEMMA NormalizeKeeps == ASSUME InstallAssumption, InstallInv, Normalize PROVE InstallInv'
<1> USE DEF InstallInv
<1>1. /\ step = "normalize" /\ step' = "finish" /\ ~failed /\ (putAside.fresh <=> ~Layered)
      /\ UNCHANGED <<manager, box, linked, layers, spec, putAside, failed>>
      /\ upper' = [Unlinked({Scripted}) EXCEPT ![Config] = IF box THEN {Config} ELSE @]
  BY DEF Normalize, StepInv
<1>2. BelowInv' /\ Below' = Below /\ Layered' = Layered
  BY <1>1, BelowSame
<1>3. Scripted \in RootPaths /\ Config \in RootPaths /\ Scripted # Config
  BY OwnPaths, PathsDiffer
<1>4. \A p \in RootPaths : upper'[p] = IF p = Config THEN (IF box THEN {Config} ELSE upper[Config])
                                       ELSE IF p = Scripted THEN (IF Below[Scripted] # Nothing THEN Whiteout ELSE Nothing)
                                       ELSE upper[p]
  BY <1>1, <1>3 DEF Unlinked
<1>5. upper' \in Layer
  <2>1. Whiteout \in SUBSET Marks /\ Nothing \in SUBSET Marks /\ {Config} \in SUBSET Marks
    BY <1>3, OwnPaths DEF Whiteout, Nothing
  <2>2. \A p \in RootPaths : upper'[p] \in SUBSET Marks
    BY <1>3, <1>4, <2>1 DEF InstallTypes, Layer
  <2>3. upper' = [p \in RootPaths |-> upper'[p]]
    BY <1>1 DEF Unlinked
  <2> QED BY <2>2, <2>3 DEF Layer
<1>6. SameBut({Config, Scripted})
  BY <1>4 DEF SameBut
<1>7. Root'[Scripted] = Nothing
  <2>1. upper'[Scripted] = IF Below[Scripted] # Nothing THEN Whiteout ELSE Nothing
    BY <1>3, <1>4
  <2>2. Root'[Scripted] = IF upper'[Scripted] = Nothing THEN Below[Scripted]
                          ELSE IF upper'[Scripted] = Whiteout THEN Nothing ELSE upper'[Scripted]
    BY <1>1, <1>3, RootAt
  <2> QED BY <2>1, <2>2, MarksDiffer
<1>8. /\ \A p \in RootPaths \ {Config, Scripted} : upper'[p] = upper[p] /\ Root'[p] = Root[p]
      /\ \A p \in {MachineId, Policy, Doc, Database, Leftover} : p \in RootPaths \ {Config, Scripted}
  BY <1>1, <1>6, OwnPaths, PathsDiffer, RootSame DEF SameBut
<1>9. Shipped' = Shipped /\ Unpacked' = Unpacked /\ Unpacked \subseteq RootPaths \ {Config, Scripted}
  BY <1>1, ShippedPaths DEF Shipped, Unpacked
<1>10. InstallTypes'
  BY <1>1, <1>5 DEF InstallTypes, Late
<1>11. StepInv'
  BY <1>1, <1>2 DEF StepInv
<1>12. WhiteoutInv'
  <2>1. \A p \in RootPaths : upper'[p] = Whiteout => Below[p] # Nothing
    BY <1>3, <1>4, MarksDiffer DEF WhiteoutInv
  <2> QED BY <1>2, <1>8, <2>1 DEF WhiteoutInv
<1>13. DatabaseInv'
  BY <1>1, <1>2, <1>8 DEF DatabaseInv
<1>14. PolicyInv'
  BY <1>1, <1>2, <1>8, <1>9 DEF PolicyInv, Denied, Late
<1>15. LeftoverInv'
  BY <1>1, <1>7, <1>8 DEF LeftoverInv
<1>16. NothingInv'
  <2>1. Layered => upper'[Scripted] = Nothing
    BY <1>3, <1>4 DEF BelowInv
  <2> QED BY <1>1, <1>2, <1>8, <2>1 DEF NothingInv
<1>17. FilesInv'
  BY <1>1, <1>2, <1>8, <1>9 DEF FilesInv, Late
<1> QED BY <1>1, <1>2, <1>10, <1>11, <1>12, <1>13, <1>14, <1>15, <1>16, <1>17, SoundMeanwhile

\* Laid over the others without whiteouts of its own, a layer needs none to say what the root is.
LEMMA NaiveAppend ==
  ASSUME NEW ls \in Seq(Layer), NEW u \in Layer, \A p \in RootPaths : u[p] # Whiteout
  PROVE  Naive(Append(ls, u)) = Over(u, Naive(ls))
<1> DEFINE n == Len(ls)
           ms == Append(ls, u)
           Says(l, p) == {k \in DOMAIN l : l[k][p] \notin {Nothing, Whiteout}}
           Last(s) == CHOOSE k \in s : \A j \in s : j <= k
<1>1. n \in Nat /\ DOMAIN ls = 1..n /\ DOMAIN ms = 1..(n + 1) /\ ms[n + 1] = u /\ \A k \in 1..n : ms[k] = ls[k]
  OBVIOUS
<1>2. ASSUME NEW p \in RootPaths
      PROVE  (IF Says(ms, p) = {} THEN Nothing ELSE ms[Last(Says(ms, p))][p])
               = IF u[p] = Nothing THEN (IF Says(ls, p) = {} THEN Nothing ELSE ls[Last(Says(ls, p))][p])
                 ELSE IF u[p] = Whiteout THEN Nothing ELSE u[p]
  <2>1. Says(ms, p) = Says(ls, p) \cup (IF u[p] = Nothing THEN {} ELSE {n + 1})
    <3> HIDE DEF n, ms
    <3>1. \A k \in 1..(n + 1) : k \in Says(ms, p) <=> IF k = n + 1 THEN u[p] # Nothing ELSE k \in Says(ls, p)
      BY <1>1
    <3>2. Says(ms, p) \subseteq 1..(n + 1) /\ Says(ls, p) \subseteq 1..n
      BY <1>1
    <3> HIDE DEF Says
    <3> QED BY <1>1, <3>1, <3>2
  <2>2. CASE u[p] # Nothing
    <3>1. n + 1 \in Says(ms, p) /\ \A j \in Says(ms, p) : j \in 1..(n + 1)
      BY <1>1, <2>1, <2>2
    <3> HIDE DEF Says, n, ms
    <3>2. \A j \in Says(ms, p) : j <= n + 1
      BY <1>1, <3>1
    <3>3. Last(Says(ms, p)) \in Says(ms, p) /\ n + 1 <= Last(Says(ms, p))
      BY <3>1, <3>2
    <3>4. Last(Says(ms, p)) = n + 1
      <4> HIDE DEF Last
      <4> QED BY <1>1, <3>1, <3>3
    <3> QED BY <1>1, <2>2, <3>1, <3>4
  <2>3. CASE u[p] = Nothing
    <3>1. Says(ms, p) = Says(ls, p)
      BY <2>1, <2>3
    <3>2. Says(ls, p) \subseteq 1..n
      BY <1>1
    <3> HIDE DEF Says, n, ms
    <3>3. ASSUME Says(ls, p) # {} PROVE Last(Says(ls, p)) \in Says(ls, p)
      <4> DEFINE Y == {n - k : k \in Says(ls, p)}
      <4>1. Y \subseteq Nat /\ Y # {}
        BY <1>1, <3>2, <3>3
      <4>2. PICK i \in Y : \A k \in Y : i <= k
        <5> HIDE DEF Y
        <5> QED BY <4>1, Least
      <4>3. PICK k \in Says(ls, p) : i = n - k
        BY <4>2
      <4>4. \A j \in Says(ls, p) : j <= k
        <5>1. \A j \in Says(ls, p) : n - k <= n - j
          BY <4>2, <4>3
        <5> QED BY <1>1, <3>2, <4>3, <5>1
      <4> QED BY <4>3, <4>4
    <3>4. Says(ls, p) # {} => ms[Last(Says(ls, p))] = ls[Last(Says(ls, p))]
      <4> HIDE DEF Last
      <4> QED BY <1>1, <3>2, <3>3
    <3> HIDE DEF Last
    <3> QED BY <2>3, <3>1, <3>4
  <2> QED BY <2>2, <2>3
<1>3. /\ Naive(ms) = [p \in RootPaths |-> IF Says(ms, p) = {} THEN Nothing ELSE ms[Last(Says(ms, p))][p]]
      /\ Naive(ls) = [p \in RootPaths |-> IF Says(ls, p) = {} THEN Nothing ELSE ls[Last(Says(ls, p))][p]]
  BY DEF Naive
<1> HIDE DEF Says, Last, ms
<1>4. \A p \in RootPaths : Naive(ms)[p] = Over(u, Naive(ls))[p]
  BY <1>2, <1>3, OverAt
<1>5. Naive(ms) = [p \in RootPaths |-> Naive(ms)[p]]
  BY <1>3
<1>6. Over(u, Naive(ls)) = [p \in RootPaths |-> Over(u, Naive(ls))[p]]
  BY DEF Over
<1>7. Naive(ms) = Over(u, Naive(ls))
  BY <1>4, <1>5, <1>6
<1> QED BY <1>7 DEF ms

LEMMA NaiveNothing == Naive(<<>>) = EmptyLayer
  BY DEF Naive, EmptyLayer

LEMMA FinishKeeps == ASSUME InstallAssumption, InstallInv, FinishInstall PROVE InstallInv'
<1> USE DEF InstallInv
<1>1. CASE Layered /\ box /\ Deletions # {}
  BY <1>1, StopKeeps DEF FinishInstall, Late
<1>2. CASE ~(Layered /\ box /\ Deletions # {})
  <2>1. /\ step = "finish" /\ step' = "idle" /\ ~failed /\ (putAside.fresh <=> ~Layered)
        /\ layers' = Append(layers, upper) /\ upper' = EmptyLayer
        /\ UNCHANGED <<manager, box, linked, spec, putAside, failed>>
    BY <1>2 DEF FinishInstall, StepInv
  <2>2. /\ layers \in Seq(Layer) /\ upper \in Layer /\ Len(layers) \in Nat
        /\ layers' \in Seq(Layer) /\ Len(layers') = Len(layers) + 1 /\ layers'[Len(layers')] = upper
        /\ layers'[1] = IF Layered THEN layers[1] ELSE upper
    BY <2>1 DEF InstallTypes, Layered
  <2>3. Below' = Root /\ Layered'
    BY <2>1, <2>2, StackedAppend DEF Below, Root, Layered
  <2>4. EmptyLayer \in Layer /\ \A p \in RootPaths : EmptyLayer[p] = Nothing
    BY DEF EmptyLayer, Layer, Nothing
  <2>5. Root' = Over(EmptyLayer, Root)
    BY <2>1, <2>3 DEF Root
  <2>6. \A p \in RootPaths : Root'[p] = Root[p]
    BY <2>4, <2>5, OverAt
  <2>7. /\ "parked" \in Root[Database] /\ Known(Root[Database]) # {}
        /\ Root[Leftover] = Nothing /\ Root[Scripted] = Nothing /\ Root[Policy] # {"deny"}
    BY <2>1 DEF DatabaseInv, LeftoverInv, PolicyInv, Denied
  <2>8. Root[MachineId] # Nothing
    <3>1. CASE Layered
      BY <3>1, OverAt, OwnPaths DEF BelowInv, WhiteoutInv, Root
    <3>2. CASE ~Layered
      <4>1. upper[MachineId] = {"uninitialized"}
        BY <2>1, <3>2 DEF FilesInv
      <4> QED BY <4>1, OverAt, OwnPaths, MarksDiffer DEF Root
    <3> QED BY <3>1, <3>2
  <2>9. layers'[1][MachineId] = {"uninitialized"}
    BY <2>1, <2>2 DEF BelowInv, FilesInv
  <2>10. ~linked /\ (\E p \in Known(layers'[1][Database]) : Policy \in Ships[p]) => Root[Policy] = {Policy}
    <3>1. ASSUME ~linked, Layered, \E p \in Known(layers[1][Database]) : Policy \in Ships[p] PROVE Below[Policy] = {Policy}
      BY <3>1 DEF BelowInv
    <3>2. ASSUME ~Layered, \E p \in Known(upper[Database]) : Policy \in Ships[p] PROVE Policy \in Shipped
      BY <3>2 DEF DatabaseInv, Shipped
    <3> QED BY <2>1, <2>2, <3>1, <3>2 DEF PolicyInv, Denied, Late
  <2>11. box => Naive(layers') = Root
    <3>1. ASSUME box PROVE \A p \in RootPaths : upper[p] # Whiteout
      <4>1. CASE Layered
        BY <1>2, <3>1, <4>1 DEF Deletions
      <4>2. CASE ~Layered
        BY <4>2, FirstIsFirst DEF WhiteoutInv
      <4> QED BY <4>1, <4>2
    <3>2. ASSUME box PROVE Naive(layers) = Below
      BY <3>2, NaiveNothing, StackedNothing DEF BelowInv, Layered, Below
    <3> QED BY <2>1, <2>2, <3>1, <3>2, NaiveAppend DEF Root
  <2>12. BelowInv'
    <3>1. Below' \in Layer /\ \A p \in RootPaths : Below'[p] # Whiteout
      BY <2>3, RootIsLayer
    <3> QED BY <2>1, <2>3, <2>7, <2>8, <2>9, <2>10, <2>11, <3>1 DEF BelowInv
  <2>13. InstallTypes'
    <3>1. Len(layers') <= Bounded
      BY <2>1, <2>2 DEF StepInv, InstallAssumption
    <3> QED BY <2>1, <2>2, <2>4, <3>1 DEF InstallTypes
  <2>14. StepInv' /\ WhiteoutInv'
    BY <2>1, <2>4, OwnPaths, MarksDiffer DEF StepInv, WhiteoutInv
  <2>15. DatabaseInv'
    BY <2>1, <2>3 DEF DatabaseInv
  <2>16. PolicyInv'
    BY <2>1, <2>3, <2>6, <2>7, OwnPaths DEF PolicyInv, Denied, Late
  <2>17. LeftoverInv' /\ NothingInv' /\ FilesInv'
    BY <2>1, <2>3 DEF LeftoverInv, NothingInv, FilesInv, Late
  <2>18. InstallSound'
    <3>1. Below'[Leftover] = Nothing /\ Below'[Scripted] = Nothing /\ "parked" \in Below'[Database]
          /\ Known(Below'[Database]) # {} /\ Root'[Policy] # {"deny"}
      BY <2>3, <2>6, <2>7, OwnPaths
    <3>2. spec'.packages = {} /\ manager' # "rpm" => \A p \in RootPaths \ {Config} : layers'[Len(layers')][p] = Nothing
      BY <2>1, <2>2 DEF NothingInv
    <3>3. ASSUME NEW p \in spec'.packages
          PROVE  Ships[p] \ (IF spec'.docs THEN {} ELSE {Doc}) \subseteq
                   {f \in RootPaths : Below'[f] # Nothing} \cup {Policy}
      <4>1. ASSUME NEW f \in Ships[p] \ (IF spec.docs THEN {} ELSE {Doc}), f # Policy
            PROVE  f \in RootPaths /\ Root[f] # Nothing
        <5>1. f \in Unpacked /\ f \in RootPaths /\ f # "whiteout"
          BY <2>1, <3>3, <4>1, ShippedPaths DEF Unpacked, Shipped
        <5>2. upper[f] = {f}
          BY <2>1, <4>1, <5>1 DEF FilesInv, Late
        <5>3. {f} # Whiteout /\ {f} # Nothing
          BY <5>1 DEF Whiteout, Nothing
        <5> QED BY <5>1, <5>2, <5>3, OverAt DEF Root
      <4> QED BY <2>1, <2>3, <4>1
    <3>4. ~spec'.docs /\ Len(layers') = 1 => Below'[Doc] = Nothing
      <4>1. Len(layers') = 1 => ~Layered
        BY <2>2 DEF Layered
      <4>2. ~Layered /\ ~spec.docs => Root[Doc] = Nothing
        BY OverAt, OwnPaths, FirstIsFirst DEF FilesInv, Root
      <4> QED BY <2>1, <2>3, <4>1, <4>2
    <3> QED BY <2>1, <2>3, <2>9, <2>10, <2>11, <3>1, <3>2, <3>3, <3>4 DEF InstallSound
  <2> QED BY <2>12, <2>13, <2>14, <2>15, <2>16, <2>17, <2>18
<1> QED BY <1>1, <1>2

LEMMA InstallNextInv == ASSUME InstallAssumption, InstallInv, [InstallNext]_installVars PROVE InstallInv'
<1>1. CASE UNCHANGED installVars
  <2> USE <1>1 DEF installVars, InstallInv
  <2>1. InstallTypes'
    BY DEF InstallTypes
  <2>2. Below' = Below /\ Layered' = Layered /\ Root' = Root /\ Shipped' = Shipped /\ Unpacked' = Unpacked
    BY DEF Below, Root, Layered, Shipped, Unpacked
  <2>3. StepInv' /\ WhiteoutInv' /\ BelowInv'
    BY <2>2 DEF StepInv, WhiteoutInv, BelowInv
  <2>4. DatabaseInv' /\ PolicyInv' /\ LeftoverInv'
    BY <2>2 DEF DatabaseInv, PolicyInv, Denied, LeftoverInv
  <2>5. NothingInv'
    BY <2>2 DEF NothingInv
  <2>6. FilesInv'
    BY <2>2 DEF FilesInv
  <2>7. InstallSound'
    BY <2>2 DEF InstallSound
  <2> QED BY <2>1, <2>3, <2>4, <2>5, <2>6, <2>7
<1>2. CASE InstallNext
  BY <1>2, BeginKeeps, MarkKeeps, LayDownKeeps, DenyKeeps, AptKeeps, PacmanKeeps, DnfKeeps, FailInstallKeeps,
     AllowKeeps, RemarkKeeps, ParkKeeps, ParkRpmKeeps, ScrubKeeps, NormalizeKeeps, FinishKeeps DEF InstallNext
<1> QED BY <1>1, <1>2

\* A root that any sequence of installs leaves, in a box or not, with any of the three
\* package systems, failures between included, is its packages and nothing of the build:
\* InstallSound, for all packages and for any number of layers.
THEOREM InstallsAreSound == ASSUME InstallAssumption PROVE InstallSpec => []InstallSound
<1>1. InstallInit => InstallInv
  BY InstallInitInv
<1>2. InstallInv /\ [InstallNext]_installVars => InstallInv'
  BY InstallNextInv
<1>3. InstallInv => InstallSound
  BY DEF InstallInv
<1> QED BY <1>1, <1>2, <1>3, PTL DEF InstallSpec

(***************************************************************************)
(* A refresh of the catalog: the inductive invariant says what each file   *)
(* holds at each moment of a refresh - what it would be put back to, whose *)
(* turn has passed, which pins are still as they were found - so that a    *)
(* failure at any of them leaves locks that match.                         *)
(***************************************************************************)
Files == {Buck} \cup Repo \cup Boxes \cup GoReleases \cup SigningKey
Pins == [Repo -> 1..Days]
Move == [group : SUBSET Repo, day : 1..Days]
Run == [at : Ends \cup {"advance", "rewrite", "write"}, pass : Nat, boxes : SUBSET Boxes, repos : SUBSET Repo,
        go : SUBSET GoReleases, advance : BOOLEAN, moves : SUBSET Move, todo : SUBSET (Files \ {Buck}),
        found : Pins \cup {<<>>}]

Running == refresh.at \notin Ends
Advancing == refresh.at \in {"advance", "rewrite"}

CatalogTypes ==
  /\ DOMAIN checkout = Files /\ checkout[Buck] \in Pins
  /\ DOMAIN originals \subseteq Files /\ Before(Buck) \in Pins
  /\ refresh \in Run
  /\ Running => refresh.found \in Pins
  /\ Advancing => refresh.pass \in DOMAIN Kinds

\* What a failure would put back belongs together, as did what an end left.
RestoreInv ==
  /\ ~Running => originals = <<>>
  /\ refresh.at # "torn" => \A r \in Repo : Before(r) = Before(Buck)[r]

\* Locks that have been written are of the pins that were advanced, ...
WrittenInv ==
  /\ Advancing => refresh.repos \cup refresh.boxes \subseteq refresh.todo
  /\ Running => \A r \in Repo \ refresh.todo : checkout[r] = PinOf(r)
  /\ Running \/ refresh.at = "done" => \A b \in refresh.boxes \ refresh.todo : checkout[b] = ResolvedLock(b)
  /\ refresh.at = "done" => refresh.todo = {}
  /\ refresh.todo \cap Repo # {} => refresh.boxes \subseteq refresh.todo

\* ... none of which has met another, ...
ApartInv ==
  Running \/ refresh.at = "done" =>
    /\ \A r, s \in Repo : Series[r] = Series[s] => (refresh.found[r] = refresh.found[s] <=> PinOf(r) = PinOf(s))
    /\ \A i \in Archives : \A r \in Kinds[i] : PinOf(r) >= refresh.found[r]

\* ... nor will by a rewrite that is still to be done.
MovesInv ==
  refresh.at = "rewrite" =>
    /\ \A m \in refresh.moves :
         /\ m.group # {} /\ m.group \subseteq refresh.repos \cap Kinds[refresh.pass]
         /\ \A r \in m.group : Group(r) = m.group
         /\ \A r \in m.group, s \in Repo \ m.group : Series[r] = Series[s] => PinOf(s) # m.day
         /\ refresh.pass \in Archives => \A r \in m.group : m.day >= PinOf(r)
    /\ \A m, n \in refresh.moves : m # n =>
         /\ m.group \cap n.group = {}
         /\ \A r \in m.group, s \in n.group : Series[r] = Series[s] => m.day # n.day

CatalogInv == CatalogTypes /\ RestoreInv /\ WrittenInv /\ ApartInv /\ MovesInv


\* The files are apart.
LEMMA FilesApart ==
  ASSUME CatalogAssumption
  PROVE  /\ Buck \in Files /\ Repo \subseteq Files \ {Buck} /\ Boxes \subseteq Files \ {Buck}
         /\ GoReleases \subseteq Files \ {Buck} /\ SigningKey \subseteq Files \ {Buck}
         /\ Repo \cap Boxes = {} /\ Repo \cap GoReleases = {} /\ Repo \cap SigningKey = {}
         /\ Boxes \cap GoReleases = {} /\ Boxes \cap SigningKey = {} /\ GoReleases \cap SigningKey = {}
  BY DEF CatalogAssumption, Files

\* A write changes one file and forgets nothing of what was there before.
LEMMA WriteFileIs ==
  ASSUME DOMAIN checkout = Files, DOMAIN originals \subseteq Files,
         NEW f \in Files, NEW c, WriteFile(f, c)
  PROVE  /\ DOMAIN checkout' = Files /\ checkout'[f] = c /\ \A g \in Files \ {f} : checkout'[g] = checkout[g]
         /\ DOMAIN originals' \subseteq Files
         /\ \A g \in Files : Before(g)' = Before(g)
<1>1. checkout' = [checkout EXCEPT ![f] = c] /\ originals' = [g \in DOMAIN originals \cup {f} |-> Before(g)]
  BY DEF WriteFile, Remember
<1>2. /\ DOMAIN originals' = DOMAIN originals \cup {f}
      /\ \A g \in DOMAIN originals' : originals'[g] = IF g \in DOMAIN originals THEN originals[g] ELSE checkout[f]
  BY <1>1 DEF Before
<1>3. DOMAIN checkout' = Files /\ checkout'[f] = c /\ \A g \in Files \ {f} : checkout'[g] = checkout[g]
  BY <1>1
<1>4. \A g \in Files : Before(g)' = Before(g)
  BY <1>2, <1>3 DEF Before
<1> QED BY <1>2, <1>3, <1>4

\* Groups are classes.
LEMMA GroupIs ==
  ASSUME NEW r \in Repo
  PROVE  /\ r \in Group(r) /\ Group(r) \subseteq Repo
         /\ \A s \in Group(r) : Series[s] = Series[r] /\ PinOf(s) = PinOf(r) /\ Group(s) = Group(r)
         /\ \A s \in Repo : Series[s] = Series[r] /\ s \notin Group(r) => PinOf(s) # PinOf(r)
  BY DEF Group

LEMMA DayIs ==
  ASSUME NEW r \in Repo, NEW s \in Group(r)
  PROVE  Day(Group(r)) = PinOf(s)
<1>1. (CHOOSE t \in Group(r) : TRUE) \in Group(r)
  OBVIOUS
<1> QED BY <1>1, GroupIs DEF Day

LEMMA CatalogInitInv == ASSUME CatalogAssumption, CatalogInit PROVE CatalogInv
<1>1. PICK pins \in [Repo -> 1..Since] :
        /\ checkout = [f \in Files |->
                         CASE f = Buck -> pins
                           [] f \in Repo -> pins[f]
                           [] f \in Boxes -> [r \in Deps[f] |-> pins[r]]
                           [] f \in GoReleases -> 1
                           [] OTHER -> 0]
        /\ originals = <<>> /\ refresh = Resting
  BY DEF CatalogInit, Files
<1>2. /\ refresh.at = "idle" /\ refresh.repos = {} /\ refresh.boxes = {} /\ refresh.todo = {}
      /\ ~Running /\ ~Advancing
  BY <1>1 DEF Resting, Running, Advancing, Ends
<1>3. DOMAIN checkout = Files /\ checkout[Buck] = pins /\ \A r \in Repo : checkout[r] = pins[r]
  BY <1>1, FilesApart
<1>4. pins \in Pins
  BY DEF CatalogAssumption, Pins
<1>5. DOMAIN originals = {} /\ \A f : Before(f) = checkout[f]
  BY <1>1 DEF Before
<1>6. CatalogTypes
  <2>1. refresh \in Run
    BY <1>1 DEF Resting, Run, Ends
  <2> QED BY <1>2, <1>3, <1>4, <1>5, <2>1 DEF CatalogTypes
<1>7. RestoreInv /\ WrittenInv /\ ApartInv /\ MovesInv
  BY <1>1, <1>2, <1>3, <1>5 DEF RestoreInv, WrittenInv, ApartInv, MovesInv
<1> QED BY <1>6, <1>7 DEF CatalogInv

LEMMA StartKeeps == ASSUME CatalogAssumption, CatalogInv, StartRefresh PROVE CatalogInv'
<1> USE DEF CatalogInv
<1>1. PICK boxes \in SUBSET Boxes, go \in BOOLEAN, advance \in BOOLEAN :
        LET plan == Plan(boxes, go) IN
        /\ refresh.at \in Ends \ {"torn"}
        /\ refresh' = [Resting EXCEPT
             !.at = IF advance /\ plan.repos # {} THEN "advance" ELSE "write", !.pass = 1,
             !.boxes = plan.boxes, !.repos = plan.repos, !.go = plan.go, !.advance = advance,
             !.todo = UNION Range(Regenerated(plan)), !.found = checkout[Buck]]
        /\ UNCHANGED <<checkout, originals>>
  BY DEF StartRefresh
<1> DEFINE plan == Plan(boxes, go)
<1>2. plan.boxes \subseteq Boxes /\ plan.repos \subseteq Repo /\ plan.go \subseteq GoReleases
  BY DEF Plan, CatalogAssumption
<1>3. UNION Range(Regenerated(plan)) = MissingKeys(plan.repos) \cup plan.repos \cup plan.go \cup plan.boxes
  <2> DEFINE a == MissingKeys(plan.repos)
             b == plan.repos
             c == plan.go
             d == plan.boxes
  <2>1. Range(Regenerated(plan)) = Range(<<a, b, c, d>>)
    BY DEF Regenerated
  <2> HIDE DEF a, b, c, d
  <2>2. Range(<<a, b, c, d>>) = {a, b, c, d}
    BY DEF Range
  <2>3. UNION {a, b, c, d} = a \cup b \cup c \cup d
    OBVIOUS
  <2> QED BY <2>1, <2>2, <2>3 DEF a, b, c, d
<1>4. MissingKeys(plan.repos) \subseteq SigningKey
  BY DEF MissingKeys
<1> HIDE DEF plan
<1>5. /\ refresh.at \in Ends \ {"torn"} /\ refresh'.at \in {"advance", "write"} /\ refresh'.pass = 1
      /\ refresh'.boxes = plan.boxes /\ refresh'.repos = plan.repos /\ refresh'.todo = UNION Range(Regenerated(plan))
      /\ refresh'.found = checkout[Buck] /\ UNCHANGED <<checkout, originals>>
  BY <1>1 DEF Resting, plan
<1>6. refresh'.todo \subseteq Files \ {Buck} /\ plan.repos \cup plan.boxes \subseteq refresh'.todo
  BY <1>2, <1>3, <1>4, <1>5, FilesApart
<1>7. originals = <<>> /\ DOMAIN originals = {}
  BY <1>5 DEF RestoreInv, Running
<1>8. \A f : Before(f) = checkout[f] /\ Before(f)' = Before(f)
  BY <1>5, <1>7 DEF Before
<1>9. \A r \in Repo : checkout[r] = PinOf(r)
  BY <1>5, <1>8 DEF RestoreInv, PinOf
<1>10. CatalogTypes'
  <2>1. 1 \in DOMAIN Kinds
    BY DEF CatalogAssumption
  <2>2. refresh' \in Run
    <3>1. checkout[Buck] \in Pins
      BY DEF CatalogTypes
    <3>2. UNION Range(Regenerated(plan)) \in SUBSET (Files \ {Buck})
      BY <1>5, <1>6
    <3> QED BY <1>1, <1>2, <3>1, <3>2 DEF Resting, Run, plan
  <2> QED BY <1>5, <1>8, <2>1, <2>2 DEF CatalogTypes
<1>11. RestoreInv'
  BY <1>5, <1>8, <1>9 DEF RestoreInv, Running, Ends, PinOf
<1>12. WrittenInv'
  BY <1>5, <1>6, <1>9 DEF WrittenInv, PinOf
<1>13. ApartInv'
  <2>1. \A i \in Archives : \A r \in Kinds[i] : PinOf(r) \in Nat
    BY DEF CatalogTypes, CatalogAssumption, Pins, PinOf
  <2> QED BY <1>5, <2>1 DEF ApartInv, PinOf
<1>14. MovesInv'
  BY <1>5 DEF MovesInv
<1> QED BY <1>10, <1>11, <1>12, <1>13, <1>14

LEMMA VerifyKeeps == ASSUME CatalogAssumption, CatalogInv, Verify PROVE CatalogInv'
<1> USE DEF CatalogInv
<1>1. /\ refresh.at \in Ends \ {"torn"} /\ refresh'.at \in {"verified", "stale"}
      /\ refresh'.repos = {} /\ refresh'.boxes = {} /\ refresh'.todo = {} /\ UNCHANGED <<checkout, originals>>
  BY DEF Verify, Resting
<1>2. ~Running /\ ~Running' /\ ~Advancing'
  BY <1>1 DEF Running, Advancing, Ends
<1>3. \A f : Before(f)' = Before(f)
  BY <1>1 DEF Before
<1>4. CatalogTypes'
  <2>1. refresh' \in Run
    <3>1. \E x \in {"verified", "stale"} : refresh' = [Resting EXCEPT !.at = x]
      BY DEF Verify
    <3>2. Resting \in Run
      BY DEF Resting, Run, Ends
    <3>3. {"verified", "stale"} \subseteq Ends
      BY DEF Ends
    <3> QED BY <3>1, <3>2, <3>3 DEF Run
  <2> QED BY <1>1, <1>2, <1>3, <2>1 DEF CatalogTypes
<1>5. RestoreInv'
  BY <1>1, <1>2, <1>3 DEF RestoreInv
<1>6. WrittenInv' /\ ApartInv' /\ MovesInv'
  BY <1>1, <1>2 DEF WrittenInv, ApartInv, MovesInv
<1> QED BY <1>4, <1>5, <1>6

LEMMA PlanKeeps == ASSUME CatalogAssumption, CatalogInv, PlanAdvance PROVE CatalogInv'
<1> USE DEF CatalogInv
<1> DEFINE pass == refresh.pass
           movable == {g \in Groups(pass) : Movable(g)}
<1>1. PICK served \in [Kinds[pass] -> 1..Days], wanted \in [movable -> 1..Days] :
        LET moves == {[group |-> g, day |-> wanted[g]] : g \in {h \in movable : wanted[h] # Day(h)}} IN
        /\ \A g \in movable : wanted[g] \in Newest(pass, g, served)
        /\ ~Collides(pass, moves)
        /\ refresh' = [refresh EXCEPT !.at = "rewrite", !.moves = moves]
  BY DEF PlanAdvance
<1> DEFINE moves == {[group |-> g, day |-> wanted[g]] : g \in {h \in movable : wanted[h] # Day(h)}}
<1>2. /\ \A g \in movable : wanted[g] \in Newest(pass, g, served)
      /\ ~Collides(pass, moves)
      /\ refresh' = [refresh EXCEPT !.at = "rewrite", !.moves = moves]
      /\ refresh.at = "advance" /\ refresh \in Run /\ UNCHANGED <<checkout, originals>>
  BY <1>1 DEF PlanAdvance, CatalogTypes
<1>3. pass \in DOMAIN Kinds /\ Kinds[pass] \subseteq Repo
  BY <1>2 DEF CatalogTypes, Advancing, CatalogAssumption, Run
<1>4. ASSUME NEW m \in moves
      PROVE  /\ m.day \in 1..Days /\ m.group \in movable
             /\ \E r \in Kinds[pass] : r \in Repo /\ m.group = Group(r)
             /\ m.group \subseteq refresh.repos /\ m.day = wanted[m.group]
  <2>1. PICK g \in movable : m = [group |-> g, day |-> wanted[g]]
    OBVIOUS
  <2>2. g \in Groups(pass) /\ Movable(g)
    BY <2>1
  <2>3. m.group = g /\ m.day = wanted[g]
    BY <2>1
  <2> HIDE DEF movable, moves
  <2>4. wanted[g] \in 1..Days
    BY <2>1
  <2> QED BY <1>3, <2>1, <2>2, <2>3, <2>4 DEF Groups, Movable
<1>5. ASSUME NEW m \in moves, NEW n \in moves, m # n PROVE m.group # n.group
  <2>1. PICK g \in movable : m = [group |-> g, day |-> wanted[g]]
    OBVIOUS
  <2>2. PICK h \in movable : n = [group |-> h, day |-> wanted[h]]
    OBVIOUS
  <2> QED BY <1>5, <2>1, <2>2
<1>6. refresh'.at = "rewrite" /\ refresh'.moves = moves /\ refresh'.pass = pass
      /\ refresh'.repos = refresh.repos /\ refresh'.boxes = refresh.boxes /\ refresh'.todo = refresh.todo
      /\ refresh'.found = refresh.found
  <2> HIDE DEF moves
  <2> QED BY <1>2 DEF Run
<1> HIDE DEF moves, movable
<1>7. \A f : Before(f)' = Before(f)
  BY <1>2 DEF Before
<1>8. \A r : Group(r)' = Group(r) /\ PinOf(r)' = PinOf(r)
  BY <1>2 DEF Group, PinOf
<1>9. moves \subseteq Move
  <2>1. ASSUME NEW m \in moves PROVE m \in Move
    <3>1. m = [group |-> m.group, day |-> m.day]
      BY DEF moves
    <3>2. m.group \subseteq Repo /\ m.day \in 1..Days
      BY <1>4, GroupIs
    <3> QED BY <3>1, <3>2 DEF Move
  <2> QED BY <2>1
<1>12. CatalogTypes' /\ RestoreInv'
  <2>1. refresh' \in Run
    BY <1>2, <1>9 DEF Run
  <2> QED BY <1>2, <1>3, <1>6, <1>7, <2>1 DEF CatalogTypes, RestoreInv, Running, Advancing, Ends
<1>10. WrittenInv' /\ ApartInv'
  BY <1>2, <1>6, <1>8 DEF WrittenInv, ApartInv, Running, Advancing, Ends, PinOf, ResolvedLock
<1>11. MovesInv'
  <2>1. ASSUME NEW m \in moves
        PROVE  /\ m.group # {} /\ m.group \subseteq refresh.repos \cap Kinds[pass]
               /\ \A r \in m.group : Group(r) = m.group
               /\ \A r \in m.group, s \in Repo \ m.group : Series[r] = Series[s] => PinOf(s) # m.day
               /\ pass \in Archives => \A r \in m.group : m.day >= PinOf(r)
    <3>1. PICK q \in Kinds[pass] : q \in Repo /\ m.group = Group(q)
      BY <1>4
    <3>2. m.group # {} /\ m.group \subseteq Repo /\ \A r \in m.group : r \in Repo /\ Series[r] = Series[q] /\ Group(r) = m.group
      BY <3>1, GroupIs
    <3>3. m.group \subseteq Kinds[pass]
      BY <1>3, <3>1, <3>2 DEF CatalogAssumption
    <3>5. ASSUME NEW r \in m.group, NEW s \in Repo \ m.group, Series[r] = Series[s] PROVE PinOf(s) # m.day
      <4>1. s \in Kinds[pass] /\ s \in Group(s) /\ s \in Repo
        BY <1>3, <3>2, <3>3, <3>5, GroupIs DEF CatalogAssumption
      <4>2. Group(s) \in Groups(pass) \ {m.group} /\ Alike(Group(s), m.group)
        BY <3>5, <4>1 DEF Groups, Alike
      <4>3. Day(Group(s)) # m.day
        BY <1>2, <4>2 DEF Collides
      <4> QED BY <4>1, <4>3, DayIs
    <3>6. ASSUME pass \in Archives, NEW r \in m.group PROVE m.day >= PinOf(r)
      <4>1. m.day \in NewestArchive(m.group, served)
        BY <1>2, <1>4, <3>6 DEF Newest
      <4>2. PICK t \in m.group : m.day = Max({served[t], Day(m.group)})
        BY <4>1 DEF NewestArchive
      <4>3. Day(m.group) = PinOf(r) /\ PinOf(r) \in Nat
        <5>1. r \in Repo
          BY <3>2
        <5> QED BY <3>1, <5>1, DayIs DEF CatalogTypes, Pins, PinOf
      <4>4. served[t] \in Nat
        BY <3>3
      <4>5. \A a, b \in Nat : Max({a, b}) >= b
        <5>1. ASSUME NEW a \in Nat, NEW b \in Nat PROVE \E x \in {a, b} : \A y \in {a, b} : x >= y
          <6>1. CASE a >= b
            BY <6>1
          <6>2. CASE b >= a
            BY <6>2
          <6> QED BY <6>1, <6>2
        <5> QED BY <5>1 DEF Max
      <4> QED BY <4>2, <4>3, <4>4, <4>5
    <3> QED BY <1>4, <3>2, <3>3, <3>5, <3>6
  <2>2. ASSUME NEW m \in moves, NEW n \in moves, m # n
        PROVE  /\ m.group \cap n.group = {}
               /\ \A r \in m.group, s \in n.group : Series[r] = Series[s] => m.day # n.day
    <3>1. m.group # n.group /\ (\A r \in m.group : Group(r) = m.group) /\ (\A r \in n.group : Group(r) = n.group)
      BY <1>5, <2>1, <2>2
    <3>2. m.group \cap n.group = {}
      BY <3>1
    <3>3. ASSUME NEW r \in m.group, NEW s \in n.group, Series[r] = Series[s] PROVE m.day # n.day
      <4>1. Alike(n.group, m.group) /\ n \in moves \ {m}
        BY <2>2, <3>3 DEF Alike
      <4> QED BY <1>2, <4>1 DEF Collides
    <3> QED BY <3>2, <3>3
  <2> QED BY <1>6, <1>8, <2>1, <2>2 DEF MovesInv
<1> QED BY <1>10, <1>11, <1>12

LEMMA RewriteKeeps == ASSUME CatalogAssumption, CatalogInv, Rewrite PROVE CatalogInv'
<1> USE DEF CatalogInv
<1>1. PICK m \in refresh.moves :
        /\ WriteFile(Buck, [r \in Repo |-> IF r \in Group(CHOOSE s \in m.group : TRUE) THEN m.day ELSE PinOf(r)])
        /\ refresh' = [refresh EXCEPT !.moves = @ \ {m}]
  BY DEF Rewrite
<1>2. /\ refresh.at = "rewrite" /\ refresh'.at = "rewrite" /\ refresh'.moves = refresh.moves \ {m}
      /\ refresh'.pass = refresh.pass /\ refresh'.repos = refresh.repos /\ refresh'.boxes = refresh.boxes
      /\ refresh'.todo = refresh.todo /\ refresh'.found = refresh.found
  <2>1. refresh.at = "rewrite"
    BY DEF Rewrite
  <2>2. refresh' = [refresh EXCEPT !.moves = refresh.moves \ {m}] /\ refresh \in Run
    BY <1>1 DEF CatalogTypes
  <2> QED BY <2>1, <2>2 DEF Run
<1>3. /\ m \in Move /\ m.group # {} /\ m.group \subseteq refresh.repos \cap Kinds[refresh.pass]
      /\ \A r \in m.group : Group(r) = m.group
      /\ \A r \in m.group, s \in Repo \ m.group : Series[r] = Series[s] => PinOf(s) # m.day
      /\ refresh.pass \in Archives => \A r \in m.group : m.day >= PinOf(r)
      /\ \A n \in refresh.moves \ {m} :
           /\ m.group \cap n.group = {}
           /\ \A r \in m.group, s \in n.group : Series[r] = Series[s] => m.day # n.day
  BY <1>2 DEF MovesInv, CatalogTypes, Run
<1>4. Group(CHOOSE s \in m.group : TRUE) = m.group
  BY <1>3
<1> DEFINE pins == [r \in Repo |-> IF r \in m.group THEN m.day ELSE PinOf(r)]
<1>5. WriteFile(Buck, pins)
  BY <1>1, <1>4
<1>6. pins \in Pins /\ m.day \in 1..Days /\ m.group \subseteq Repo
  BY <1>3 DEF Move, Pins, CatalogTypes, PinOf
<1>7. /\ DOMAIN checkout' = Files /\ checkout'[Buck] = pins /\ \A g \in Files \ {Buck} : checkout'[g] = checkout[g]
      /\ DOMAIN originals' \subseteq Files /\ \A g \in Files : Before(g)' = Before(g)
  <2> HIDE DEF pins
  <2> QED BY <1>5, FilesApart, WriteFileIs DEF CatalogTypes
<1>8. \A r \in Repo : PinOf(r)' = IF r \in m.group THEN m.day ELSE PinOf(r)
  BY <1>7 DEF PinOf
<1> HIDE DEF pins
<1>9. CatalogTypes'
  <2>1. refresh' \in Run
    <3>1. refresh' = [refresh EXCEPT !.moves = refresh.moves \ {m}] /\ refresh \in Run
      BY <1>1 DEF CatalogTypes
    <3> QED BY <3>1 DEF Run
  <2> QED BY <1>2, <1>6, <1>7, <2>1, FilesApart DEF CatalogTypes, Running, Advancing, Ends
<1>10. RestoreInv'
  BY <1>2, <1>7, FilesApart DEF RestoreInv, Running, Ends
<1>11. refresh.repos \cup refresh.boxes \subseteq refresh.todo
  BY <1>2 DEF WrittenInv, Advancing
<1>12. WrittenInv'
  <2>1. ASSUME NEW r \in Repo \ refresh.todo PROVE checkout'[r] = PinOf(r)'
    <3>1. checkout[r] = PinOf(r) /\ r \notin m.group
      BY <1>2, <1>3, <1>11 DEF WrittenInv, Running, Ends
    <3> QED BY <1>7, <1>8, <3>1, FilesApart
  <2> QED BY <1>2, <1>11, <2>1 DEF WrittenInv
<1>13. ApartInv'
  <2>1. /\ \A r, s \in Repo : Series[r] = Series[s] => (refresh.found[r] = refresh.found[s] <=> PinOf(r) = PinOf(s))
        /\ \A i \in Archives : \A r \in Kinds[i] : PinOf(r) >= refresh.found[r]
    BY <1>2 DEF ApartInv, Running, Ends
  <2>2. \A r, s \in Repo : Series[r] = Series[s] => (PinOf(r) = PinOf(s) <=> PinOf(r)' = PinOf(s)')
    <3>1. ASSUME NEW r \in m.group, NEW s \in m.group PROVE PinOf(r) = PinOf(s)
      BY <1>3, <1>6, <3>1, GroupIs
    <3>2. ASSUME NEW r \in m.group, NEW s \in Repo \ m.group, Series[r] = Series[s] PROVE PinOf(r) # PinOf(s)
      BY <1>3, <1>6, <3>2, GroupIs
    <3>3. ASSUME NEW r \in Repo, NEW s \in Repo, Series[r] = Series[s]
          PROVE  PinOf(r) = PinOf(s) <=> PinOf(r)' = PinOf(s)'
      <4>1. CASE r \in m.group /\ s \in m.group
        BY <1>8, <3>1, <4>1
      <4>2. CASE r \in m.group /\ s \notin m.group
        BY <1>3, <1>8, <3>2, <3>3, <4>2
      <4>3. CASE r \notin m.group /\ s \in m.group
        BY <1>3, <1>8, <3>2, <3>3, <4>3
      <4>4. CASE r \notin m.group /\ s \notin m.group
        BY <1>8, <4>4
      <4> QED BY <4>1, <4>2, <4>3, <4>4
    <3> QED BY <3>3
  <2>3. ASSUME NEW i \in Archives, NEW r \in Kinds[i] PROVE PinOf(r)' >= refresh.found[r]
    <3>1. r \in Repo /\ PinOf(r) \in Nat /\ refresh.found[r] \in Nat
      BY <1>2 DEF CatalogAssumption, CatalogTypes, Pins, PinOf, Running, Ends
    <3>2. r \in m.group => i = refresh.pass
      BY <1>2, <1>3 DEF CatalogAssumption, CatalogTypes, Advancing
    <3>3. r \in m.group => m.day >= PinOf(r)
      BY <1>3, <2>3, <3>2
    <3> QED BY <1>6, <1>8, <2>1, <3>1, <3>3
  <2> QED BY <1>2, <2>1, <2>2, <2>3 DEF ApartInv
<1>14. MovesInv'
  <2>1. ASSUME NEW n \in refresh.moves \ {m}
        PROVE  /\ n.group # {} /\ n.group \subseteq refresh.repos \cap Kinds[refresh.pass]
               /\ \A r \in n.group : Group(r)' = n.group
               /\ \A r \in n.group, s \in Repo \ n.group : Series[r] = Series[s] => PinOf(s)' # n.day
               /\ refresh.pass \in Archives => \A r \in n.group : n.day >= PinOf(r)'
    <3>1. /\ n.group # {} /\ n.group \subseteq refresh.repos \cap Kinds[refresh.pass]
          /\ \A r \in n.group : Group(r) = n.group
          /\ \A r \in n.group, s \in Repo \ n.group : Series[r] = Series[s] => PinOf(s) # n.day
          /\ refresh.pass \in Archives => \A r \in n.group : n.day >= PinOf(r)
          /\ n.group \cap m.group = {} /\ n.group \subseteq Repo
      BY <1>2, <1>3 DEF MovesInv, CatalogTypes, Run
    <3>2. \A r \in n.group : PinOf(r)' = PinOf(r)
      BY <1>8, <3>1
    <3>3. ASSUME NEW r \in n.group PROVE Group(r)' = n.group
      <4>1. Group(r)' = {s \in Repo : Series[s] = Series[r] /\ PinOf(s)' = PinOf(r)}
        BY <3>2 DEF Group
      <4>2. ASSUME NEW s \in Repo, Series[s] = Series[r] PROVE PinOf(s)' = PinOf(r) <=> PinOf(s) = PinOf(r)
        <5>1. CASE s \in m.group
          <6>1. PinOf(r) # m.day /\ r \notin m.group
            BY <1>3, <3>1, <4>2, <5>1
          <6>2. PinOf(s) # PinOf(r)
            BY <1>6, <1>3, <3>1, <4>2, <5>1, <6>1, GroupIs
          <6> QED BY <1>8, <5>1, <6>1, <6>2
        <5>2. CASE s \notin m.group
          BY <1>8, <5>2
        <5> QED BY <5>1, <5>2
      <4>3. n.group = {s \in Repo : Series[s] = Series[r] /\ PinOf(s) = PinOf(r)}
        BY <3>1 DEF Group
      <4> QED BY <4>1, <4>2, <4>3
    <3>4. ASSUME NEW r \in n.group, NEW s \in Repo \ n.group, Series[r] = Series[s] PROVE PinOf(s)' # n.day
      BY <1>3, <1>8, <3>1, <3>4
    <3> QED BY <3>1, <3>2, <3>3, <3>4
  <2>3. \A n, o \in refresh.moves : n # o =>
          /\ n.group \cap o.group = {}
          /\ \A r \in n.group, s \in o.group : Series[r] = Series[s] => n.day # o.day
    BY <1>2 DEF MovesInv
  <2> QED BY <1>2, <2>1, <2>3 DEF MovesInv
<1> QED BY <1>9, <1>10, <1>12, <1>13, <1>14

LEMMA NextPassKeeps == ASSUME CatalogAssumption, CatalogInv, NextPass PROVE CatalogInv'
<1> USE DEF CatalogInv
<1>1. /\ refresh.at = "rewrite" /\ UNCHANGED <<checkout, originals>>
      /\ refresh'.at = IF refresh.pass < Len(Kinds) THEN "advance" ELSE "write"
      /\ refresh'.pass = refresh.pass + 1 /\ refresh'.repos = refresh.repos /\ refresh'.boxes = refresh.boxes
      /\ refresh'.todo = refresh.todo /\ refresh'.found = refresh.found /\ refresh' \in Run
  <2>1. /\ refresh.at = "rewrite" /\ UNCHANGED <<checkout, originals>>
        /\ refresh' = [refresh EXCEPT !.at = IF refresh.pass < Len(Kinds) THEN "advance" ELSE "write",
                                      !.pass = refresh.pass + 1]
    BY DEF NextPass
  <2>2. refresh \in Run
    BY DEF CatalogTypes
  <2>3. refresh' \in Run
    <3>1. \E x \in {"advance", "write"} : refresh' = [refresh EXCEPT !.at = x, !.pass = refresh.pass + 1]
      BY <2>1
    <3>2. refresh.pass + 1 \in Nat
      BY <2>2 DEF Run
    <3>3. PICK x \in {"advance", "write"} : refresh' = [refresh EXCEPT !.at = x, !.pass = refresh.pass + 1]
      BY <3>1
    <3> DEFINE next == refresh.pass + 1
    <3> HIDE DEF next
    <3>4. next \in Nat => [refresh EXCEPT !.at = x, !.pass = next] \in Run
      BY <2>2 DEF Run
    <3> QED BY <3>2, <3>3, <3>4 DEF next
  <2> QED BY <2>1, <2>2, <2>3 DEF Run
<1>2. refresh'.at \in {"advance", "write"}
  BY <1>1
<1>3. \A f : Before(f)' = Before(f)
  BY <1>1 DEF Before
<1>4. refresh'.at = "advance" => refresh'.pass \in DOMAIN Kinds
  BY <1>1 DEF CatalogTypes, Advancing, CatalogAssumption
<1>5. CatalogTypes'
  BY <1>1, <1>2, <1>3, <1>4 DEF CatalogTypes, Running, Advancing, Ends
<1>6. RestoreInv'
  BY <1>1, <1>2, <1>3 DEF RestoreInv, Running, Ends
<1>7. WrittenInv'
  BY <1>1, <1>2 DEF WrittenInv, Running, Advancing, Ends, PinOf, ResolvedLock
<1>8. ApartInv' /\ MovesInv'
  BY <1>1, <1>2 DEF ApartInv, MovesInv, Running, Ends, PinOf
<1> QED BY <1>5, <1>6, <1>7, <1>8


LEMMA WriteKeeps == ASSUME CatalogAssumption, CatalogInv, WriteNext PROVE CatalogInv'
<1> USE DEF CatalogInv
<1>0. PICK f \in refresh.todo :
        /\ refresh.at = "write" /\ Turn(f) /\ (\E content \in ContentsOf(f) : WriteFile(f, content))
        /\ refresh' = [refresh EXCEPT !.todo = @ \ {f}]
  BY DEF WriteNext
<1>1. PICK content \in ContentsOf(f) : WriteFile(f, content)
  BY <1>0
<1>2. /\ refresh.at = "write" /\ refresh'.at = "write" /\ refresh'.todo = refresh.todo \ {f}
      /\ refresh'.repos = refresh.repos /\ refresh'.boxes = refresh.boxes /\ refresh'.found = refresh.found
      /\ refresh' \in Run
  <2>1. refresh \in Run
    BY DEF CatalogTypes
  <2> QED BY <1>0, <2>1 DEF Run
<1>3. f \in Files \ {Buck} /\ f \in Repo \cup Boxes \cup GoReleases \cup SigningKey
  BY DEF CatalogTypes, Run, Files
<1>4. /\ DOMAIN checkout' = Files /\ checkout'[f] = content /\ \A g \in Files \ {f} : checkout'[g] = checkout[g]
      /\ DOMAIN originals' \subseteq Files /\ \A g \in Files : Before(g)' = Before(g)
  BY <1>1, <1>3, WriteFileIs DEF CatalogTypes
<1>5. checkout'[Buck] = checkout[Buck] /\ \A r \in Repo : PinOf(r)' = PinOf(r)
  BY <1>3, <1>4, FilesApart DEF PinOf
<1>6. CatalogTypes'
  BY <1>2, <1>4, <1>5, FilesApart DEF CatalogTypes, Running, Advancing, Ends
<1>7. RestoreInv'
  BY <1>2, <1>4, FilesApart DEF RestoreInv, Running, Ends
<1>8. f \in Repo => content = PinOf(f)
  BY FilesApart DEF ContentsOf
<1>9. f \in Boxes => content = ResolvedLock(f)
  BY FilesApart DEF ContentsOf
<1>10. refresh.boxes \subseteq Boxes
  BY DEF CatalogTypes, Run
<1>11. WrittenInv'
  <2>1. ASSUME NEW r \in Repo \ refresh'.todo PROVE checkout'[r] = PinOf(r)'
    <3>1. CASE r = f
      BY <1>4, <1>5, <1>8, <3>1
    <3>2. CASE r # f
      <4>1. checkout[r] = PinOf(r)
        BY <1>2, <3>2 DEF WrittenInv, Running, Ends
      <4> QED BY <1>4, <1>5, <3>2, <4>1, FilesApart
    <3> QED BY <3>1, <3>2
  <2>2. ASSUME NEW b \in refresh'.boxes \ refresh'.todo PROVE checkout'[b] = ResolvedLock(b)'
    <3>1. b \in Boxes /\ Deps[b] \subseteq Repo
      BY <1>2, <1>10 DEF CatalogAssumption
    <3>2. f \notin Repo
      BY <1>2, <2>2, <3>1, FilesApart DEF WrittenInv
    <3>3. ResolvedLock(b)' = ResolvedLock(b)
      BY <1>4, <3>1, <3>2, FilesApart DEF ResolvedLock
    <3>4. CASE b = f
      BY <1>4, <1>9, <3>1, <3>3, <3>4
    <3>5. CASE b # f
      <4>1. checkout[b] = ResolvedLock(b)
        BY <1>2, <2>2, <3>5 DEF WrittenInv, Running, Ends
      <4> QED BY <1>4, <3>1, <3>3, <3>5, <4>1, FilesApart
    <3> QED BY <3>4, <3>5
  <2>3. refresh'.todo \cap Repo # {} => refresh'.boxes \subseteq refresh'.todo
    <3>1. ASSUME NEW r \in refresh.todo \cap Repo PROVE f \notin Boxes
      <4> DEFINE order == <<SigningKey, Repo, GoReleases, Boxes>>
                 rank(g) == CHOOSE i \in DOMAIN order : g \in order[i]
      <4>1. rank(f) <= rank(r)
        BY <1>0 DEF Turn
      <4>2. DOMAIN order = 1..4 /\ order[1] = SigningKey /\ order[2] = Repo /\ order[3] = GoReleases /\ order[4] = Boxes
        OBVIOUS
      <4> HIDE DEF order
      <4>3. \A i \in DOMAIN order : r \in order[i] => i = 2
        BY <4>2, FilesApart
      <4>4. rank(r) = 2
        <5>1. 2 \in DOMAIN order /\ r \in order[2]
          BY <4>2
        <5> QED BY <4>3, <5>1
      <4>5. f \in Boxes => rank(f) = 4
        <5>1. \A i \in DOMAIN order : f \in Boxes /\ f \in order[i] => i = 4
          BY <4>2, FilesApart
        <5>2. 4 \in DOMAIN order /\ (f \in Boxes => f \in order[4])
          BY <4>2
        <5> QED BY <5>1, <5>2
      <4> HIDE DEF rank
      <4> QED BY <4>1, <4>4, <4>5
    <3> QED BY <1>2, <1>10, <3>1 DEF WrittenInv
  <2> QED BY <1>2, <2>1, <2>2, <2>3 DEF WrittenInv, Advancing
<1>12. ApartInv'
  <2>1. \A i \in Archives : Kinds[i] \subseteq Repo
    BY DEF CatalogAssumption
  <2> QED BY <1>2, <1>5, <2>1 DEF ApartInv, Running, Ends
<1>13. MovesInv'
  BY <1>2 DEF MovesInv
<1> QED BY <1>6, <1>7, <1>11, <1>12, <1>13

LEMMA FinishRefreshKeeps == ASSUME CatalogAssumption, CatalogInv, FinishRefresh PROVE CatalogInv'
<1> USE DEF CatalogInv
<1>1. /\ refresh.at = "write" /\ refresh.todo = {} /\ originals' = <<>> /\ UNCHANGED checkout
      /\ refresh'.at = "done" /\ refresh'.todo = {} /\ refresh'.boxes = refresh.boxes /\ refresh'.found = refresh.found
      /\ refresh' \in Run
  <2>1. refresh \in Run
    BY DEF CatalogTypes
  <2> QED BY <2>1 DEF FinishRefresh, Run, Ends
<1>2. DOMAIN originals' = {} /\ \A f : Before(f)' = checkout[f]
  BY <1>1 DEF Before
<1>3. \A r \in Repo : checkout[r] = PinOf(r)
  BY <1>1 DEF WrittenInv, Running, Ends
<1>4. CatalogTypes'
  BY <1>1, <1>2 DEF CatalogTypes, Running, Advancing, Ends
<1>5. RestoreInv'
  BY <1>1, <1>2, <1>3 DEF RestoreInv, PinOf
<1>6. WrittenInv'
  <2>1. \A b \in refresh.boxes \ refresh.todo : checkout[b] = ResolvedLock(b)
    BY <1>1 DEF WrittenInv, Running, Ends
  <2> QED BY <1>1, <2>1 DEF WrittenInv, Running, Advancing, Ends, ResolvedLock
<1>7. ApartInv' /\ MovesInv'
  BY <1>1 DEF ApartInv, MovesInv, Running, Ends, PinOf
<1> QED BY <1>4, <1>5, <1>6, <1>7

LEMMA FailRefreshKeeps == ASSUME CatalogAssumption, CatalogInv, FailRefresh PROVE CatalogInv'
<1> USE DEF CatalogInv
<1>1. PICK refused \in SUBSET DOMAIN originals :
        /\ checkout' = [f \in DOMAIN checkout |->
                          IF f \in DOMAIN originals \ refused THEN originals[f] ELSE checkout[f]]
        /\ refresh' = [refresh EXCEPT !.at = IF refused = {} THEN "restored" ELSE "torn"]
        /\ originals' = <<>> /\ Running
  BY DEF FailRefresh, Running
<1>2. /\ refresh'.at = (IF refused = {} THEN "restored" ELSE "torn") /\ refresh'.todo = refresh.todo
      /\ refresh'.boxes = refresh.boxes /\ refresh' \in Run
  <2>1. refresh \in Run
    BY DEF CatalogTypes
  <2> QED BY <1>1, <2>1 DEF Run, Ends
<1>3. DOMAIN checkout' = Files /\ DOMAIN originals' = {} /\ \A f : Before(f)' = checkout'[f]
  BY <1>1 DEF Before, CatalogTypes
<1>4. /\ refused = {} => \A f \in Files : checkout'[f] = Before(f)
      /\ checkout'[Buck] \in {Before(Buck), checkout[Buck]}
  BY <1>1, FilesApart DEF Before, CatalogTypes
<1>5. ~Running' /\ ~Advancing' /\ refresh'.at # "done"
  BY <1>2 DEF Running, Advancing, Ends
<1>6. CatalogTypes'
  BY <1>2, <1>3, <1>4, <1>5 DEF CatalogTypes
<1>7. RestoreInv'
  <2>1. refresh'.at # "torn" => refused = {}
    BY <1>2
  <2>2. \A r \in Repo : Before(r) = Before(Buck)[r]
    BY <1>1 DEF RestoreInv, Running, Ends
  <2> QED BY <1>1, <1>3, <1>4, <1>5, <2>1, <2>2, FilesApart DEF RestoreInv
<1>8. WrittenInv' /\ ApartInv' /\ MovesInv'
  BY <1>2, <1>5 DEF WrittenInv, ApartInv, MovesInv, Advancing
<1> QED BY <1>6, <1>7, <1>8

LEMMA CatalogNextInv == ASSUME CatalogAssumption, CatalogInv, [CatalogNext]_catalogVars PROVE CatalogInv'
<1>1. CASE UNCHANGED catalogVars
  BY <1>1 DEF catalogVars, CatalogInv, CatalogTypes, RestoreInv, WrittenInv, ApartInv, MovesInv,
       Before, Running, Advancing, PinOf, ResolvedLock, Group
<1>2. CASE CatalogNext
  BY <1>2, StartKeeps, VerifyKeeps, PlanKeeps, RewriteKeeps, NextPassKeeps, WriteKeeps, FinishRefreshKeeps,
     FailRefreshKeeps DEF CatalogNext
<1> QED BY <1>1, <1>2

LEMMA CatalogInvSound == ASSUME CatalogAssumption, CatalogInv PROVE CatalogSound
<1> USE DEF CatalogInv
<1>1. LocksMatchPins
  <2>1. refresh.at \in Ends \ {"torn"} => \A r \in Repo : checkout[r] = PinOf(r)
    <3>1. refresh.at \in Ends => \A f : Before(f) = checkout[f]
      BY DEF RestoreInv, Running, Before
    <3> QED BY <3>1 DEF RestoreInv, PinOf
  <2>2. refresh.at = "done" => \A b \in refresh.boxes : checkout[b] = ResolvedLock(b)
    BY DEF WrittenInv
  <2> QED BY <2>1, <2>2 DEF LocksMatchPins
<1>2. PinsStayApart
  BY DEF ApartInv, PinsStayApart
<1> QED BY <1>1, <1>2 DEF CatalogSound

\* Refreshes of a catalog one after the other, of any selection and with whatever the
\* mirrors serve, leave pins, locks and boxes that belong together, wherever they fail:
\* CatalogSound, for all repositories, boxes and series.
THEOREM RefreshesAreSound == ASSUME CatalogAssumption PROVE CatalogSpec => []CatalogSound
<1>1. CatalogInit => CatalogInv
  BY CatalogInitInv
<1>2. CatalogInv /\ [CatalogNext]_catalogVars => CatalogInv'
  BY CatalogNextInv
<1>3. CatalogInv => CatalogSound
  BY CatalogInvSound
<1> QED BY <1>1, <1>2, <1>3, PTL DEF CatalogSpec


(***************************************************************************)
(* From names to a lock (Plan.tla), for any request: what a plan says of   *)
(* priorities is what APT's pins, the order in which alpm has the          *)
(* databases and dnf's priorities make of them.                            *)
(***************************************************************************)
Request(w) ==
  /\ w.system \in {"deb", "alpm", "rpm"}
  /\ \E n \in Nat : w.repos \in [1..n -> [priority : Int, holds : [Names(w) -> Nat]]]

\* A lock is a solution that was accepted, each package from a candidate.
LEMMA LockIs ==
  ASSUME NEW w, NEW lock \in Locks(w)
  PROVE  \E added : \E pick \in [added -> DOMAIN w.repos] :
           /\ Solves(w, added) /\ Accepted(w, added)
           /\ \A n \in added : pick[n] \in Candidates(w, n)
           /\ {e.name : e \in lock} = added
           /\ \A e \in lock : e = Entry(w, e.name, pick[e.name])
<1>1. PICK added \in {a \in Solutions(w) : Accepted(w, a)} :
        lock \in {{Entry(w, n, pick[n]) : n \in added} :
                    pick \in {f \in [added -> DOMAIN w.repos] : \A n \in added : f[n] \in Candidates(w, n)}}
  BY DEF Locks
<1>2. PICK pick \in {f \in [added -> DOMAIN w.repos] : \A n \in added : f[n] \in Candidates(w, n)} :
        lock = {Entry(w, n, pick[n]) : n \in added}
  BY <1>1
<1>3. Solves(w, added)
  BY <1>1 DEF Solutions
<1>4. \A e \in lock : e.name \in added /\ e = Entry(w, e.name, pick[e.name])
  BY <1>2 DEF Entry
<1>5. \A n \in added : Entry(w, n, pick[n]) \in lock /\ Entry(w, n, pick[n]).name = n
  BY <1>2 DEF Entry
<1> QED BY <1>1, <1>2, <1>3, <1>4, <1>5

\* A pin is higher exactly where the priority is lower: what has the highest
\* pin has the lowest number.
LEMMA HighestPin ==
  ASSUME NEW w, Request(w), NEW i \in DOMAIN w.repos, NEW k \in DOMAIN w.repos,
         AptPin(w, k) <= AptPin(w, i)
  PROVE  Priority(w, i) <= Priority(w, k)
<1> DEFINE priorities == {Priority(w, j) : j \in DOMAIN w.repos}
           Under(j) == {p \in priorities : p < Priority(w, j)}
<1>1. \A j \in DOMAIN w.repos : Priority(w, j) \in Int
  BY DEF Request, Priority
<1>2. IsFiniteSet(priorities)
  <2>1. IsFiniteSet(DOMAIN w.repos)
    <3>1. PICK n \in Nat : w.repos \in [1..n -> [priority : Int, holds : [Names(w) -> Nat]]]
      BY DEF Request
    <3>2. DOMAIN w.repos = 1..n
      BY <3>1
    <3>3. IsFiniteSet(1..n)
      BY FS_Interval
    <3> QED BY <3>2, <3>3
  <2>2. [j \in DOMAIN w.repos |-> Priority(w, j)] \in Surjection(DOMAIN w.repos, priorities)
    BY DEF Surjection
  <2> QED BY <2>1, <2>2, FS_Surjection
<1>3. \A j \in DOMAIN w.repos : IsFiniteSet(Under(j)) /\ Cardinality(Under(j)) \in Nat
  BY <1>2, FS_Subset, FS_CardinalityType
<1>4. Cardinality(priorities) \in Nat
  BY <1>2, FS_CardinalityType
<1>5. SUFFICES ASSUME Priority(w, k) < Priority(w, i) PROVE FALSE
  BY <1>1
<1>6. Under(k) \subseteq Under(i) /\ Priority(w, k) \in Under(i) \ Under(k)
  BY <1>1, <1>5
<1>7. Cardinality(Under(k)) < Cardinality(Under(i))
  <2>1. Cardinality(Under(k)) <= Cardinality(Under(i))
    BY <1>3, <1>6, FS_Subset
  <2>2. Cardinality(Under(k)) # Cardinality(Under(i))
    BY <1>3, <1>6, FS_Subset
  <2>3. Cardinality(Under(k)) \in Nat /\ Cardinality(Under(i)) \in Nat
    BY <1>3
  <2> HIDE DEF Under
  <2> QED BY <2>1, <2>2, <2>3
<1>8. AptPin(w, k) = 1001 + Cardinality(priorities) - Cardinality(Under(k))
      /\ AptPin(w, i) = 1001 + Cardinality(priorities) - Cardinality(Under(i))
  BY DEF AptPin
<1> HIDE DEF priorities, Under
<1> QED BY <1>3, <1>4, <1>7, <1>8

\* Whichever the system, a candidate is of the lowest priority number there is.
LEMMA CandidatePriority ==
  ASSUME NEW w, Request(w), NEW n, NEW i \in Candidates(w, n)
  PROVE  \A k \in Held(w, n) : Priority(w, i) <= Priority(w, k)
<1> SUFFICES ASSUME NEW k \in Held(w, n) PROVE Priority(w, i) <= Priority(w, k)
  OBVIOUS
<1>1. CASE w.system = "deb"
  <2>1. i \in Held(w, n) /\ AptPin(w, k) <= AptPin(w, i)
    BY <1>1 DEF Candidates, AptCandidates, First, NewestAmong
  <2> QED BY <2>1, HighestPin DEF Held
<1>2. CASE w.system = "alpm"
  <2>1. i \in Held(w, n) /\ (k # i => Earlier(w, i, k))
    BY <1>2 DEF Candidates, AlpmCandidates, First
  <2>2. Priority(w, i) \in Int /\ Priority(w, k) \in Int
    BY <2>1 DEF Request, Priority, Held
  <2> QED BY <2>1, <2>2 DEF Earlier
<1>3. CASE w.system = "rpm"
  BY <1>3 DEF Candidates, DnfCandidates, NewestAmong
<1> QED BY <1>1, <1>2, <1>3 DEF Request

\* Only rpm takes what answers a name for the name, and then only what takes
\* away what has it goes unnoticed.
LEMMA AskedIsThere ==
  ASSUME NEW w, Request(w), NEW added, Solves(w, added), Accepted(w, added), NEW asked \in w.install
  PROVE  (\E n \in After(w, added) : Satisfies(w, n, asked)) \/ Unnoticed(w, added, asked)
<1>1. CASE w.system = "rpm"
  <2>1. PICK n \in added \cup Carried(w) : Satisfies(w, n, asked)
    BY <1>1 DEF Accepted, DnfAccepts, Undelivered
  <2>2. n \in After(w, added) \/ n \in Removed(w, added)
    BY DEF After
  <2> QED BY <1>1, <2>1, <2>2 DEF Unnoticed
<1>2. CASE w.system # "rpm"
  BY <1>2 DEF Solves, Answers
<1> QED BY <1>1, <1>2

(* Whatever the solvers answer, as far as their documentation lets them, a *)
(* plan that is accepted delivers what it was asked for and what that      *)
(* needs, from the repositories of the lowest priority number, over the    *)
(* layers below (plan.py of the three package systems).                    *)
THEOREM PlansDeliver == \A w : Request(w) => DeliversFor(w)
<1> SUFFICES ASSUME NEW w, Request(w), NEW lock \in Locks(w)
             PROVE  LET added == {e.name : e \in lock}
                        root == After(w, added)
                    IN /\ \A asked \in w.install :
                            (\E n \in root : Satisfies(w, n, asked)) \/ Unnoticed(w, added, asked)
                       /\ \A n \in root : \A need \in w.needs[n] : \E m \in root : Satisfies(w, m, need)
                       /\ w.system # "rpm" => Carried(w) \subseteq root
                       /\ \A e \in lock : \A i \in Held(w, e.name) : Priority(w, e.repo) <= Priority(w, i)
  BY DEF DeliversFor
<1>1. PICK added :
        \E pick \in [added -> DOMAIN w.repos] :
          /\ Solves(w, added) /\ Accepted(w, added)
          /\ \A n \in added : pick[n] \in Candidates(w, n)
          /\ {e.name : e \in lock} = added
          /\ \A e \in lock : e = Entry(w, e.name, pick[e.name])
  BY LockIs
<1>2. PICK pick \in [added -> DOMAIN w.repos] :
        /\ \A n \in added : pick[n] \in Candidates(w, n)
        /\ \A e \in lock : e = Entry(w, e.name, pick[e.name])
  BY <1>1
<1>3. \A asked \in w.install :
        (\E n \in After(w, added) : Satisfies(w, n, asked)) \/ Unnoticed(w, added, asked)
  BY <1>1, AskedIsThere
<1>4. \A n \in After(w, added) : \A need \in w.needs[n] : \E m \in After(w, added) : Satisfies(w, m, need)
  BY <1>1 DEF Solves
<1>5. w.system # "rpm" => Carried(w) \subseteq After(w, added)
  <2>1. w.system # "rpm" => Removed(w, added) = {}
    BY <1>1 DEF Request, Accepted, AptAccepts, AlpmAccepts
  <2> QED BY <2>1 DEF After
<1>6. \A e \in lock : \A i \in Held(w, e.name) : Priority(w, e.repo) <= Priority(w, i)
  <2> SUFFICES ASSUME NEW e \in lock PROVE \A i \in Held(w, e.name) : Priority(w, e.repo) <= Priority(w, i)
    OBVIOUS
  <2>1. e.repo = pick[e.name] /\ e.name \in added
    BY <1>1, <1>2 DEF Entry
  <2> QED BY <1>2, <2>1, CandidatePriority
<1> QED BY <1>1, <1>3, <1>4, <1>5, <1>6
=============================================================================
