----------------------------- MODULE ToolsProofs -----------------------------
(***************************************************************************)
(* The tools that run by themselves: a sandbox that enters its namespace   *)
(* (Namespace.tla), the runs that open pull requests (BotGate.tla), the    *)
(* upload of a disk image (SnapshotUpload.tla) and the history of an       *)
(* imported package (Importer.tla).                                        *)
(***************************************************************************)
EXTENDS
  Namespace, BotGate, SnapshotUpload, Importer,
  FiniteSetTheorems, SequenceTheorems, WellFoundedInduction, TLAPS

(***************************************************************************)
(* The namespace of a sandbox                                              *)
(***************************************************************************)
NamespaceTypes ==
  /\ parent \in {"start", "unshare", "tell", "wait"} \cup Ended
  /\ child \in {"none", "read"} \cup Files \cup Ended
  /\ sent \in BOOLEAN /\ unshared \in BOOLEAN
  /\ writers \in SUBSET {"parent"}
  /\ maps \subseteq Files

\* The parent has the only write end, from the fork until it has told or died ...
PipeInv ==
  /\ writers # {} <=> parent \in {"unshare", "tell"}
  /\ parent = "wait" => sent

\* ... and has a child as long as it needs one; it goes on only after that one is done.
ParentInv ==
  /\ parent = "start" => child = "none"
  /\ parent \in {"unshare", "tell", "wait"} => child # "none"
  /\ parent = "done" => child \in {"none", "done"}

\* The child has written the files before its next one.
ProgressInv ==
  /\ child = "gid_map" => maps = {"setgroups"}
  /\ child = "uid_map" => maps = {"setgroups", "gid_map"}
  /\ child = "done" => maps = Files
  /\ child \in {"none", "read", "setgroups"} => maps = {}

NamespaceInv == NamespaceTypes /\ PipeInv /\ ParentInv /\ ProgressInv

LEMMA NamespaceInitInv == NamespaceInit => NamespaceInv
  BY DEF NamespaceInit, NamespaceInv, NamespaceTypes, PipeInv, ParentInv, ProgressInv, Files, Ended

LEMMA NamespaceNextInv == NamespaceInv /\ [NamespaceNext]_namespaceVars => NamespaceInv'
<1> SUFFICES ASSUME NamespaceInv, [NamespaceNext]_namespaceVars PROVE NamespaceInv'
  OBVIOUS
<1> USE DEF NamespaceInv, NamespaceTypes, PipeInv, ParentInv, ProgressInv, Files, Ended
<1>1. CASE StayOutside
  BY <1>1 DEF StayOutside
<1>2. CASE Fork
  BY <1>2 DEF Fork
<1>3. CASE Unshare
  BY <1>3 DEF Unshare
<1>4. CASE Tell
  BY <1>4 DEF Tell
<1>5. CASE Wait
  BY <1>5 DEF Wait
<1>6. CASE ReadByte
  BY <1>6 DEF ReadByte
<1>7. CASE WriteMap
  <2>1. CASE Takes(child)
    <3>1. maps' = maps \cup {child} /\ child' = Follows[child] /\ UNCHANGED <<parent, sent, writers, unshared>>
      BY <1>7, <2>1 DEF WriteMap
    <3>2. child \in {"setgroups", "gid_map", "uid_map"}
      BY <1>7 DEF WriteMap
    <3>3. child' = IF child = "setgroups" THEN "gid_map" ELSE IF child = "gid_map" THEN "uid_map" ELSE "done"
      BY <3>1, <3>2 DEF Follows
    <3> QED BY <3>1, <3>2, <3>3
  <2>2. CASE ~Takes(child)
    BY <1>7, <2>2 DEF WriteMap
  <2> QED BY <2>1, <2>2
<1>8. CASE KillEither
  BY <1>8 DEF KillEither
<1>9. CASE UNCHANGED namespaceVars
  BY <1>9 DEF namespaceVars
<1> QED BY <1>1, <1>2, <1>3, <1>4, <1>5, <1>6, <1>7, <1>8, <1>9 DEF NamespaceNext

(* Whichever process is killed and whenever, nobody goes on half mapped    *)
(* and nobody waits for one that is gone (unprivileged_user_namespace).    *)
THEOREM Handshake == NamespaceSpec => []HandshakeSound
<1>1. NamespaceInv => HandshakeSound
  BY DEF NamespaceInv, NamespaceTypes, PipeInv, ParentInv, ProgressInv, HandshakeSound
<1> QED BY NamespaceInitInv, NamespaceNextInv, <1>1, PTL DEF NamespaceSpec

(***************************************************************************)
(* The gate of the bots                                                    *)
(***************************************************************************)
\* One open item of a kind, and none of the other kind beside it.
AtMostOne ==
  /\ \A p, q \in Open(pulls) : p = q
  /\ \A i, j \in Open(issues) : i = j
  /\ Open(pulls) = {} \/ Open(issues) = {}

\* Between the gate and what a run opens, nobody else has opened anything; what
\* it waits for is its own pull request, if that is still open.
GatePassed ==
  /\ stage \in {"change", "report", "push", "create"} => Open(pulls) = {} /\ Open(issues) = {}
  /\ stage = "wait" =>
       /\ Open(issues) = {} /\ branch = started
       /\ \A p \in Open(pulls) : p.run = started /\ ~p.draft
  /\ stage \in {"push", "create", "wait"} => commit = started
  /\ stage = "create" => branch = started /\ ~amended

\* What is open is what the branch holds, and a broken change is not tested.
BranchHolds ==
  \A p \in Open(pulls) : branch = p.run /\ (p.draft => ~p.tested /\ ~amended)

BotShapes ==
  /\ pulls \subseteq [run : Nat, open : BOOLEAN, draft : BOOLEAN, tested : BOOLEAN]
  /\ issues \subseteq [run : Nat, open : BOOLEAN]
  /\ started \in Nat

GateInv == BotShapes /\ AtMostOne /\ GatePassed /\ BranchHolds

LEMMA GateInit == BotInit => GateInv
BY DEF BotInit, GateInv, BotShapes, AtMostOne, GatePassed, BranchHolds, Open

\* Steps that open nothing and leave the branch alone.
LEMMA StillSteps ==
  ASSUME GateInv, StartRun \/ Gate \/ Change \/ RunKilled
  PROVE  GateInv'
<1>1. UNCHANGED <<branch, amended, pulls, issues>> /\ started' \in Nat
  BY DEF StartRun, Gate, Change, RunKilled, GateInv, BotShapes
<1>2. GatePassed'
  <2>1. CASE StartRun \/ RunKilled
    BY <2>1 DEF StartRun, RunKilled, GatePassed
  <2>2. CASE Gate
    BY <2>2 DEF Gate, Blocked, GatePassed, Open
  <2>3. CASE Change
    BY <2>3 DEF Change, GateInv, GatePassed, Open, NoCommit
  <2>4. QED
    BY <2>1, <2>2, <2>3
<1>3. QED
  BY <1>1, <1>2 DEF GateInv, BotShapes, AtMostOne, BranchHolds, Open

LEMMA ReportStep ==
  ASSUME GateInv, Report
  PROVE  GateInv'
<1> DEFINE i == [run |-> started, open |-> TRUE]
<1>1. Open(pulls)' = {} /\ Open(issues)' = {i}
  <2>1. i.open /\ pulls' = pulls /\ issues' = issues \cup {i}
    BY DEF Report
  <2>2. Open(pulls) = {} /\ Open(issues) = {}
    BY DEF Report, GateInv, GatePassed
  <2>3. QED
    BY <2>1, <2>2 DEF Open
<1>2. BotShapes'
  <2>1. i \in [run : Nat, open : BOOLEAN]
    BY DEF GateInv, BotShapes
  <2>2. issues' = issues \cup {i}
    BY DEF Report
  <2> HIDE DEF i
  <2>3. QED
    BY <2>1, <2>2 DEF Report, GateInv, BotShapes
<1>3. stage' = "idle"
  BY DEF Report
<1>4. QED
  BY <1>1, <1>2, <1>3 DEF GateInv, AtMostOne, GatePassed, BranchHolds

LEMMA PushStep ==
  ASSUME GateInv, Push
  PROVE  GateInv'
<1>1. Open(pulls)' = {} /\ Open(issues)' = {}
  BY DEF Push, GateInv, GatePassed, Open
<1>2. QED
  BY <1>1 DEF Push, GateInv, BotShapes, AtMostOne, GatePassed, BranchHolds

LEMMA CreateStep ==
  ASSUME GateInv, Create
  PROVE  GateInv'
<1> DEFINE p == [run |-> started, open |-> TRUE, draft |-> status = "failed", tested |-> FALSE]
<1>1. Open(pulls)' = {p} /\ Open(issues)' = {}
  <2>1. p.open /\ pulls' = pulls \cup {p} /\ issues' = issues
    BY DEF Create
  <2>2. Open(pulls) = {} /\ Open(issues) = {}
    BY DEF Create, GateInv, GatePassed
  <2>3. QED
    BY <2>1, <2>2 DEF Open
<1>2. BotShapes'
  <2>1. p \in [run : Nat, open : BOOLEAN, draft : BOOLEAN, tested : BOOLEAN]
    BY DEF GateInv, BotShapes
  <2>2. pulls' = pulls \cup {p}
    BY DEF Create
  <2> HIDE DEF p
  <2>3. QED
    BY <2>1, <2>2 DEF Create, GateInv, BotShapes
<1>3. branch' = started /\ started' = started /\ commit' = started /\ ~amended'
  BY DEF Create, GateInv, GatePassed
<1>4. stage' = IF p.draft THEN "idle" ELSE "wait"
  BY DEF Create
<1>5. p.run = started /\ ~p.tested
  OBVIOUS
<1> HIDE DEF p
<1>6. QED
  BY <1>1, <1>2, <1>3, <1>4, <1>5 DEF GateInv, AtMostOne, GatePassed, BranchHolds

\* The second push tests the run's own pull request, no other.
LEMMA CIStep ==
  ASSUME GateInv, StartCI
  PROVE  GateInv'
<1> DEFINE Tested(p) == IF p.run = started /\ p.open THEN [p EXCEPT !.tested = TRUE] ELSE p
<1>1. pulls' = {Tested(p) : p \in pulls} /\ UNCHANGED <<issues, started>>
      /\ stage' = "idle" /\ branch' = started
  BY DEF StartCI, GateInv, GatePassed
<1>2. ASSUME NEW p \in pulls
      PROVE  /\ Tested(p).run = p.run /\ (Tested(p).open <=> p.open)
             /\ (Tested(p).draft <=> p.draft)
             /\ Tested(p) \in [run : Nat, open : BOOLEAN, draft : BOOLEAN, tested : BOOLEAN]
  BY DEF GateInv, BotShapes
<1>3. ASSUME NEW q \in Open(pulls)'
      PROVE  \E p \in Open(pulls) : q = Tested(p) /\ q.run = started /\ ~q.draft
  <2>1. PICK p \in pulls : q = Tested(p)
    BY <1>1 DEF Open
  <2>2. p \in Open(pulls)
    BY <1>2, <2>1 DEF Open
  <2>3. p.run = started /\ ~p.draft
    BY <2>2 DEF StartCI, GateInv, GatePassed
  <2>4. QED
    BY <1>2, <2>1, <2>2, <2>3
<1>4. BotShapes'
  BY <1>1, <1>2 DEF GateInv, BotShapes
<1>5. Open(issues)' = {}
  BY <1>1 DEF StartCI, GateInv, GatePassed, Open
<1> HIDE DEF Tested
<1>6. QED
  BY <1>1, <1>3, <1>4, <1>5 DEF GateInv, AtMostOne, GatePassed, BranchHolds

\* Settling only takes away from what is open.
LEMMA SettleStep ==
  ASSUME GateInv, Settle
  PROVE  GateInv'
<1>1. Open(pulls)' \subseteq Open(pulls) /\ Open(issues)' \subseteq Open(issues)
  <2>1. CASE \E p \in Open(pulls) :
               pulls' = (pulls \ {p}) \cup {[p EXCEPT !.open = FALSE]} /\ UNCHANGED issues
    BY <2>1 DEF GateInv, BotShapes, Open
  <2>2. CASE \E i \in Open(issues) :
               issues' = (issues \ {i}) \cup {[i EXCEPT !.open = FALSE]} /\ UNCHANGED pulls
    BY <2>2 DEF GateInv, BotShapes, Open
  <2>3. QED
    BY <2>1, <2>2 DEF Settle
<1>2. BotShapes'
  BY DEF Settle, GateInv, BotShapes, Open
<1>3. UNCHANGED <<started, stage, commit, status, branch, amended>>
  BY DEF Settle
<1>4. QED
  BY <1>1, <1>2, <1>3 DEF GateInv, AtMostOne, GatePassed, BranchHolds

LEMMA GateNext == GateInv /\ [BotNext]_botVars => GateInv'
<1> SUFFICES ASSUME GateInv, [BotNext]_botVars PROVE GateInv'
  OBVIOUS
<1>1. CASE UNCHANGED botVars
  BY <1>1 DEF botVars, GateInv, BotShapes, AtMostOne, GatePassed, BranchHolds, Open
<1>2. QED
  BY <1>1, StillSteps, ReportStep, PushStep, CreateStep, CIStep, SettleStep DEF BotNext

LEMMA OneMember ==
  ASSUME NEW S, \A x, y \in S : x = y
  PROVE  IsFiniteSet(S) /\ Cardinality(S) \in 0..1 /\ (S = {} => Cardinality(S) = 0)
<1>1. CASE S = {}
  BY <1>1, FS_EmptySet
<1>2. CASE S # {}
  <2>1. PICK x : x \in S
    BY <1>2
  <2>2. S = {x}
    BY <2>1
  <2>3. QED
    BY <2>2, FS_Singleton
<1>3. QED
  BY <1>1, <1>2

\* However many runs there are, and whenever they are killed or what they opened
\* is settled: one item of a kind is open at a time, the branch of an open pull
\* request holds what its run committed, and a draft is never tested.
THEOREM InFlight == BotSpec => []OneInFlight
<1>1. ASSUME GateInv PROVE OneInFlight
  <2>1. Cardinality(Open(pulls)) + Cardinality(Open(issues)) <= 1
    <3>1. /\ \A p, q \in Open(pulls) : p = q
          /\ \A i, j \in Open(issues) : i = j
          /\ Open(pulls) = {} \/ Open(issues) = {}
      BY <1>1 DEF GateInv, AtMostOne
    <3>2. Cardinality(Open(pulls)) \in 0..1 /\ (Open(pulls) = {} => Cardinality(Open(pulls)) = 0)
      BY <3>1, OneMember
    <3>3. Cardinality(Open(issues)) \in 0..1 /\ (Open(issues) = {} => Cardinality(Open(issues)) = 0)
      BY <3>1, OneMember
    <3>4. QED
      BY <3>1, <3>2, <3>3
  <2>2. QED
    BY <1>1, <2>1 DEF GateInv, BranchHolds, OneInFlight
<1>2. QED
  BY <1>1, GateInit, GateNext, PTL DEF BotSpec

(***************************************************************************)
(* The upload of a disk image                                              *)
(***************************************************************************)
LEMMA DivBounds ==
  ASSUME NEW u \in Nat, NEW n \in Nat \ {0}
  PROVE  u \div n \in Nat /\ (u \div n) * n <= u /\ u < (u \div n) * n + n
OBVIOUS

LEMMA DivExact ==
  ASSUME NEW u \in Nat, NEW n \in Nat \ {0}, u % n = 0
  PROVE  (u \div n) * n = u
OBVIOUS

LEMMA MulLess ==
  ASSUME NEW a \in Nat, NEW b \in Nat, NEW n \in Nat \ {0}, a * n < b * n + n
  PROVE  a <= b
OBVIOUS

LEMMA MulMono ==
  ASSUME NEW a \in Nat, NEW b \in Nat, NEW n \in Nat, a <= b
  PROVE  a * n \in Nat /\ b * n \in Nat /\ a * n <= b * n /\ (a + 1) * n = a * n + n
OBVIOUS

LEMMA DivMul ==
  ASSUME NEW a \in Nat, NEW n \in Nat \ {0}
  PROVE  a * n \in Nat /\ (a * n) \div n = a
<1>1. a * n \in Nat
  BY MulMono
<1> DEFINE q == (a * n) \div n
<1>2. q \in Nat /\ q * n <= a * n /\ a * n < q * n + n
  BY <1>1, DivBounds
<1> HIDE DEF q
<1>3. a <= q
  BY <1>2, MulLess
<1>4. q * n \in Nat
  BY <1>2, MulMono
<1>5. q * n < a * n + n
  BY <1>1, <1>2, <1>4
<1>6. q <= a
  BY <1>2, <1>5, MulLess
<1> QED BY <1>1, <1>2, <1>3, <1>6 DEF q

\* The least of naturals is one of them.
LEMMA MinOfNaturals ==
  ASSUME NEW X, X \subseteq Nat, X # {}
  PROVE  Min(X) \in X /\ \A x \in X : Min(X) <= x
<1>1. PICK i \in X : \A k \in X : ~(<<k, i>> \in OpToRel(<, Nat))
  BY WFMin, NatLessThanWellFounded, Zenon
<1>2. ASSUME NEW k \in X PROVE i <= k
  <2>1. ~(k < i)
    <3>1. k \in Nat /\ i \in Nat
      OBVIOUS
    <3> QED BY <1>1, <3>1, Zenon DEF OpToRel
  <2> QED BY <2>1
<1>3. \E x \in X : \A y \in X : x <= y
  BY <1>2
<1> QED BY <1>3 DEF Min

\* The blocks in the snapshot or on their way, and those of the disk the walk has
\* passed that have data, but for what it is to read yet.
Sent == stored \cup DOMAIN pending
Walked == offset \div BlockUnits
Due == {b \in Blocks : b < Walked /\ NonZero(b)} \ queue

\* The walk is between blocks, and what it is to read is behind it.
WalkInv ==
  /\ offset = Walked * BlockUnits /\ \A b \in queue : b < Walked
  /\ walker = "check" => Sent = {} /\ Walked = 0 /\ queue = {} /\ snapshot = "none"
  /\ walker = "drain" => queue = {} /\ \A u \in offset..(Units - 1) : ~Allocated(u)

\* While no failure is known, what is sent is what is due, each counted once, and a
\* block whose future says so has arrived.
SentInv ==
  walker \in {"check", "walk", "drain"} =>
    /\ Sent = Due
    /\ written = Cardinality(Sent)
    /\ \A b \in DOMAIN pending : pending[b] = "done" => b \in stored

\* Nothing is under way when a snapshot has been completed.
EndInv ==
  /\ walker \in {"register", "ended"} => snapshot = "completed"
  /\ snapshot = "completed" => walker \in {"register", "failed", "ended"} /\ DOMAIN pending = {}

UploadInv == UploadTypeOK /\ WalkInv /\ SentInv /\ EndInv /\ CompletedIsDisk

\* The disk is a number of whole blocks.
DiskBlocks == Units \div BlockUnits

LEMMA WholeBlocks ==
  ASSUME UploadAssumption
  PROVE  /\ DiskBlocks \in Nat /\ DiskBlocks * BlockUnits = Units
         /\ Blocks = {b \in Nat : b < DiskBlocks}
         /\ IsFiniteSet(Blocks) /\ Cardinality(Blocks) \in Nat
<1>1. DiskBlocks \in Nat /\ DiskBlocks * BlockUnits = Units
  BY DivBounds, DivExact DEF UploadAssumption, DiskBlocks
<1>2. Blocks = 0..(DiskBlocks - 1)
  BY DEF Blocks, DiskBlocks
<1>3. IsFiniteSet(Blocks)
  BY <1>1, <1>2, FS_Interval
<1> QED BY <1>1, <1>2, <1>3, FS_CardinalityType

LEMMA FiniteBlocks ==
  ASSUME UploadAssumption, NEW X, X \subseteq Blocks
  PROVE  IsFiniteSet(X) /\ Cardinality(X) \in 0..Cardinality(Blocks)
<1>1. IsFiniteSet(X) /\ Cardinality(X) <= Cardinality(Blocks)
  BY WholeBlocks, FS_Subset
<1> QED BY <1>1, WholeBlocks, FS_CardinalityType

LEMMA UploadInitInv == ASSUME UploadAssumption, UploadInit PROVE UploadInv
<1>1. Sent = {} /\ DOMAIN pending = {} /\ stored = {}
  BY DEF UploadInit, Sent
<1>2. Cardinality(Blocks) \in Nat /\ Cardinality({}) = 0
  BY WholeBlocks, FS_EmptySet
<1>3. UploadTypeOK
  <2>1. offset \in 0..Units /\ written \in 0..Cardinality(Blocks) /\ changed \in 0..Cardinality(Blocks)
    BY <1>2 DEF UploadInit, UploadAssumption
  <2> QED BY <1>1, <2>1 DEF UploadInit, UploadTypeOK
<1>4. Walked = 0 /\ offset = Walked * BlockUnits
  <2>1. 0 * BlockUnits = 0
    BY DEF UploadAssumption
  <2>2. (0 * BlockUnits) \div BlockUnits = 0
    BY DivMul DEF UploadAssumption
  <2> QED BY <2>1, <2>2 DEF UploadInit, Walked
<1>5. WalkInv
  BY <1>1, <1>4 DEF UploadInit, WalkInv
<1>6. Due = {}
  BY <1>4, WholeBlocks DEF Due
<1>7. SentInv
  BY <1>1, <1>2, <1>6 DEF SentInv, UploadInit
<1>8. EndInv /\ CompletedIsDisk
  BY <1>1, <1>2 DEF UploadInit, EndInv, CompletedIsDisk, UploadAssumption
<1> QED BY <1>3, <1>5, <1>7, <1>8 DEF UploadInv

\* What the walk finds next: an extent, and only holes before it.
LEMMA Extent ==
  ASSUME UploadAssumption, UploadInv, \E u \in offset..(Units - 1) : Allocated(u)
  PROVE  /\ ExtentStart \in offset..(Units - 1) /\ ExtentEnd \in (ExtentStart + 1)..Units
         /\ \A u \in offset..(ExtentStart - 1) : ~Allocated(u)
<1> DEFINE X == {u \in offset..(Units - 1) : Allocated(u)}
           Y == {u \in ExtentStart..(Units - 1) : ~Allocated(u)} \cup {Units}
<1>1. offset \in Nat /\ Units \in Nat
  BY DEF UploadInv, UploadTypeOK, UploadAssumption
<1>2. X \subseteq Nat /\ X # {}
  BY <1>1
<1>3. ExtentStart \in X /\ \A x \in X : ExtentStart <= x
  <2> HIDE DEF X
  <2>1. Min(X) \in X /\ \A x \in X : Min(X) <= x
    BY <1>2, MinOfNaturals
  <2> QED BY <2>1 DEF ExtentStart, X
<1>4. Y \subseteq Nat /\ Y # {}
  BY <1>1, <1>3
<1>5. ExtentEnd \in Y
  <2> HIDE DEF Y
  <2>1. Min(Y) \in Y
    BY <1>4, MinOfNaturals
  <2> QED BY <2>1 DEF ExtentEnd, Y
<1>6. ExtentStart \in offset..(Units - 1) /\ Allocated(ExtentStart)
  BY <1>3
<1>7. ExtentEnd = Units \/ (ExtentEnd \in ExtentStart..(Units - 1) /\ ExtentEnd # ExtentStart)
  BY <1>5, <1>6
<1>8. ExtentEnd \in (ExtentStart + 1)..Units
  BY <1>1, <1>6, <1>7
<1>9. \A u \in offset..(ExtentStart - 1) : ~Allocated(u)
  <2>1. \A u \in offset..(Units - 1) : u < ExtentStart => u \notin X
    BY <1>1, <1>3
  <2> QED BY <1>1, <1>6, <2>1
<1> QED BY <1>6, <1>8, <1>9

\* ... and the blocks of it.
LEMMA ExtentInBlocks ==
  ASSUME UploadAssumption, UploadInv, \E u \in offset..(Units - 1) : Allocated(u)
  PROVE  LET first == ExtentStart \div BlockUnits
             end == RoundUp(ExtentEnd)
         IN  /\ first \in Nat /\ end \in Nat /\ Walked \in Nat
             /\ Walked <= first /\ first < end /\ end <= DiskBlocks
             /\ \A b \in Blocks : Walked <= b /\ b < first => ~NonZero(b)
<1> DEFINE first == ExtentStart \div BlockUnits
           end == RoundUp(ExtentEnd)
<1>1. BlockUnits \in Nat \ {0} /\ Units \in Nat /\ offset \in Nat
  BY DEF UploadInv, UploadTypeOK, UploadAssumption
<1>2. /\ ExtentStart \in offset..(Units - 1) /\ ExtentEnd \in (ExtentStart + 1)..Units
      /\ \A u \in offset..(ExtentStart - 1) : ~Allocated(u)
  BY Extent
<1>3. ExtentStart \in Nat /\ ExtentEnd \in Nat /\ ExtentEnd + BlockUnits - 1 \in Nat
  BY <1>1, <1>2
<1>4. first \in Nat /\ first * BlockUnits <= ExtentStart /\ ExtentStart < first * BlockUnits + BlockUnits
  BY <1>1, <1>3, DivBounds
<1>5. /\ end \in Nat /\ end * BlockUnits <= ExtentEnd + BlockUnits - 1
      /\ ExtentEnd + BlockUnits - 1 < end * BlockUnits + BlockUnits
  BY <1>1, <1>3, DivBounds DEF RoundUp
<1>6. Walked \in Nat /\ offset = Walked * BlockUnits
  BY <1>1, DivBounds DEF UploadInv, WalkInv, Walked
<1> HIDE DEF first, end
<1>7. first * BlockUnits \in Nat /\ end * BlockUnits \in Nat /\ (first + 1) * BlockUnits = first * BlockUnits + BlockUnits
  BY <1>1, <1>4, <1>5, MulMono
<1>8. Walked <= first
  <2>1. Walked * BlockUnits < first * BlockUnits + BlockUnits
    BY <1>1, <1>2, <1>4, <1>6, <1>7
  <2> QED BY <1>1, <1>4, <1>6, <2>1, MulLess
<1>9. first < end
  <2>1. (first + 1) * BlockUnits < end * BlockUnits + BlockUnits
    BY <1>1, <1>2, <1>3, <1>4, <1>5, <1>7
  <2>2. first + 1 <= end
    BY <1>1, <1>4, <1>5, <2>1, MulLess
  <2> QED BY <1>4, <1>5, <2>2
<1>10. end <= DiskBlocks
  <2>1. end * BlockUnits < DiskBlocks * BlockUnits + BlockUnits
    BY <1>1, <1>2, <1>3, <1>5, <1>7, WholeBlocks
  <2> QED BY <1>1, <1>5, <2>1, MulLess, WholeBlocks
<1>11. ASSUME NEW b \in Blocks, Walked <= b, b < first PROVE ~NonZero(b)
  <2>1. b \in Nat
    BY WholeBlocks
  <2>2. Walked * BlockUnits <= b * BlockUnits /\ b * BlockUnits \in Nat
    BY <1>1, <1>6, <1>11, <2>1, MulMono
  <2>3. (b + 1) * BlockUnits <= first * BlockUnits /\ (b + 1) * BlockUnits \in Nat
    <3>1. b + 1 \in Nat /\ b + 1 <= first
      BY <1>4, <1>11, <2>1
    <3> QED BY <1>1, <1>4, <3>1, MulMono
  <2>4. \A u \in UnitsOf(b) : u \in offset..(ExtentStart - 1)
    BY <1>1, <1>3, <1>4, <1>6, <1>7, <2>2, <2>3 DEF UnitsOf
  <2> QED BY <1>2, <2>4 DEF NonZero, Allocated
<1> QED BY <1>4, <1>5, <1>6, <1>8, <1>9, <1>10, <1>11 DEF first, end

LEMMA WalkedTyped == ASSUME UploadAssumption, UploadInv PROVE Walked \in Nat /\ offset = Walked * BlockUnits
  BY DivBounds DEF UploadAssumption, UploadInv, UploadTypeOK, WalkInv, Walked

\* Of what is neither of the walk nor of the pool: only whether a snapshot is
\* completed, and an image registered of it, depends on where the main thread is.
LEMMA ElsewhereKeeps ==
  ASSUME UploadAssumption, UploadInv, Start \/ NameTaken \/ Abort \/ Register \/ UploadKilled
  PROVE  UploadInv'
<1> USE DEF UploadInv
<1>1. UNCHANGED <<disk, compressed, sizeLies, offset, queue, written, stored, changed>>
  BY DEF Start, NameTaken, Abort, Register, UploadKilled
<1>2. pending' = pending \/ (DOMAIN pending' = {} /\ walker' = "failed")
  BY DEF Start, NameTaken, Abort, Register, UploadKilled
<1>3. UploadTypeOK'
  <2>1. name' \in {"free", "taken"} /\ image' \in BOOLEAN
    BY DEF UploadTypeOK, Start, NameTaken, Abort, Register, UploadKilled
  <2>2. /\ walker' \in {"check", "walk", "drain", "register", "abort", "failed", "ended"}
        /\ snapshot' \in {"none", "pending", "completed"}
    BY DEF UploadTypeOK, Start, NameTaken, Abort, Register, UploadKilled
  <2>3. DOMAIN pending' \subseteq Blocks /\ \A b \in DOMAIN pending' : pending'[b] \in {"queued", "running", "done", "failed"}
    BY <1>2 DEF UploadTypeOK
  <2> QED BY <1>1, <2>1, <2>2, <2>3 DEF UploadTypeOK, Blocks
<1>4. Walked' = Walked /\ (walker' # "failed" => Sent' = Sent /\ Due' = Due)
  BY <1>1, <1>2 DEF Walked, Sent, Due, NonZero, UnitsOf, Blocks
<1>5. walker' \in {"check", "walk", "drain"} => pending' = pending /\ (walker' = walker \/ (walker = "check" /\ walker' = "walk"))
  BY SMT DEF Start, NameTaken, Abort, Register, UploadKilled
<1>6. WalkInv'
  BY <1>1, <1>4, <1>5 DEF WalkInv, Start, NameTaken, Abort, Register, UploadKilled, Allocated
<1>7. SentInv'
  BY <1>1, <1>4, <1>5 DEF SentInv
<1>8. EndInv'
  BY <1>2 DEF EndInv, WalkInv, CompletedIsDisk, Start, NameTaken, Abort, Register, UploadKilled
<1>9. CompletedIsDisk'
  <2>1. Cardinality(DOMAIN pending') <= 2 * Jobs
    <3>1. Cardinality({}) = 0
      BY FS_EmptySet
    <3> QED BY <1>2, <3>1 DEF CompletedIsDisk, UploadAssumption
  <2>2. snapshot' = "completed" => snapshot = "completed"
    BY DEF Start, NameTaken, Abort, Register, UploadKilled
  <2>3. image' => snapshot' = "completed"
    BY DEF EndInv, CompletedIsDisk, Start, NameTaken, Abort, Register, UploadKilled
  <2> QED BY <1>1, <2>1, <2>2, <2>3 DEF CompletedIsDisk, NonZero, UnitsOf, Blocks
<1> QED BY <1>3, <1>6, <1>7, <1>8, <1>9

LEMMA SeekKeeps == ASSUME UploadAssumption, UploadInv, Seek PROVE UploadInv'
<1> USE DEF UploadInv
<1> DEFINE first == ExtentStart \div BlockUnits
           end == RoundUp(ExtentEnd)
<1>1. /\ walker = "walk" /\ queue = {} /\ queue' = first..(end - 1) /\ offset' = end * BlockUnits
      /\ UNCHANGED <<disk, compressed, sizeLies, name, walker, pending, written, stored, snapshot, changed, image>>
  BY DEF Seek, ExtentBlocks
<1>2. /\ first \in Nat /\ end \in Nat /\ Walked \in Nat
      /\ Walked <= first /\ first < end /\ end <= DiskBlocks
      /\ \A b \in Blocks : Walked <= b /\ b < first => ~NonZero(b)
  BY ExtentInBlocks DEF Seek
<1> HIDE DEF first, end
<1>3. Walked' = end /\ offset' = Walked' * BlockUnits
  BY <1>1, <1>2, DivMul DEF Walked, UploadAssumption
<1>4. queue' \subseteq Blocks /\ \A b \in queue' : b < Walked'
  BY <1>1, <1>2, <1>3, WholeBlocks
<1>5. offset' \in 0..Units
  <2>1. end * BlockUnits <= DiskBlocks * BlockUnits /\ end * BlockUnits \in Nat
    BY <1>2, MulMono, WholeBlocks DEF UploadAssumption
  <2> QED BY <1>1, <2>1, WholeBlocks DEF UploadAssumption
<1>6. Due' = Due
  <2>1. \A b : b \in Blocks <=> b \in Nat /\ b < DiskBlocks
    BY WholeBlocks
  <2>2. \A b \in Blocks : NonZero(b)' <=> NonZero(b)
    BY <1>1 DEF NonZero, UnitsOf
  <2>3. ASSUME NEW b \in Blocks, NonZero(b) PROVE (b < Walked' /\ b \notin queue') <=> (b < Walked /\ b \notin queue)
    <3>1. b \in Nat
      BY <2>1
    <3>2. b < Walked \/ first <= b
      BY <1>2, <2>3, <3>1
    <3> QED BY <1>1, <1>2, <1>3, <3>1, <3>2
  <2>4. Blocks' = Blocks
    BY DEF Blocks
  <2> QED BY <2>2, <2>3, <2>4 DEF Due
<1>7. UploadTypeOK'
  BY <1>1, <1>4, <1>5 DEF UploadTypeOK, Blocks
<1>8. WalkInv'
  BY <1>1, <1>3, <1>4 DEF WalkInv
<1>9. Sent' = Sent
  BY <1>1 DEF Sent
<1>10. SentInv'
  BY <1>1, <1>6, <1>9 DEF SentInv
<1>11. EndInv' /\ CompletedIsDisk'
  BY <1>1 DEF EndInv, CompletedIsDisk
<1> QED BY <1>7, <1>8, <1>10, <1>11

LEMMA WalkEndsKeeps == ASSUME UploadAssumption, UploadInv, WalkEnds PROVE UploadInv'
<1> USE DEF UploadInv, WalkEnds
<1>1. UploadTypeOK'
  BY DEF UploadTypeOK, Blocks
<1>2. Sent' = Sent /\ Due' = Due /\ Walked' = Walked
  BY DEF Sent, Due, Walked, NonZero, UnitsOf, Blocks
<1>3. WalkInv'
  BY <1>2 DEF WalkInv, Allocated
<1>4. SentInv'
  BY <1>2 DEF SentInv
<1>5. EndInv' /\ CompletedIsDisk'
  BY DEF EndInv, CompletedIsDisk
<1> QED BY <1>1, <1>3, <1>4, <1>5

\* The next block to read.
LEMMA NextBlock ==
  ASSUME UploadAssumption, UploadInv, queue # {}
  PROVE  Min(queue) \in queue /\ Min(queue) \in Blocks
<1>1. queue \subseteq Blocks /\ queue \subseteq Nat
  BY WholeBlocks DEF UploadInv, UploadTypeOK
<1> QED BY <1>1, MinOfNaturals

LEMMA SkipZerosKeeps == ASSUME UploadAssumption, UploadInv, SkipZeros PROVE UploadInv'
<1> USE DEF UploadInv, SkipZeros
<1>1. Min(queue) \in queue /\ ~NonZero(Min(queue))
  BY NextBlock
<1>2. UploadTypeOK'
  BY DEF UploadTypeOK, Blocks
<1>3. Sent' = Sent /\ Walked' = Walked
  BY DEF Sent, Walked
<1>4. Due' = Due
  BY <1>1, <1>3 DEF Due, NonZero, UnitsOf, Blocks
<1>5. WalkInv'
  BY <1>3 DEF WalkInv
<1>6. SentInv'
  BY <1>3, <1>4 DEF SentInv
<1>7. EndInv' /\ CompletedIsDisk'
  BY DEF EndInv, CompletedIsDisk
<1> QED BY <1>2, <1>5, <1>6, <1>7

LEMMA WorkerTakesKeeps == ASSUME UploadAssumption, UploadInv, WorkerTakes PROVE UploadInv'
<1> USE DEF UploadInv
<1>1. PICK b \in DOMAIN pending : pending' = [pending EXCEPT ![b] = "running"]
  BY DEF WorkerTakes
<1>2. UNCHANGED <<disk, compressed, sizeLies, name, walker, offset, queue, written, stored, snapshot, changed, image>>
  BY DEF WorkerTakes
<1>3. DOMAIN pending' = DOMAIN pending
  BY <1>1
<1>4. \A c \in DOMAIN pending : pending'[c] = pending[c] \/ pending'[c] = "running"
  BY <1>1
<1>5. UploadTypeOK'
  BY <1>2, <1>3, <1>4 DEF UploadTypeOK, Blocks
<1>6. Sent' = Sent /\ Walked' = Walked /\ Due' = Due
  BY <1>2, <1>3 DEF Sent, Walked, Due, NonZero, UnitsOf, Blocks
<1>7. WalkInv'
  BY <1>2, <1>6 DEF WalkInv, Allocated
<1>8. SentInv'
  BY <1>2, <1>3, <1>4, <1>6 DEF SentInv
<1>9. EndInv' /\ CompletedIsDisk'
  BY <1>2, <1>3 DEF EndInv, CompletedIsDisk, NonZero, UnitsOf, Blocks
<1> QED BY <1>5, <1>7, <1>8, <1>9

LEMMA WorkerEndsKeeps == ASSUME UploadAssumption, UploadInv, WorkerEnds PROVE UploadInv'
<1> USE DEF UploadInv
<1>1. PICK b \in DOMAIN pending, future \in {"done", "failed"}, arrived \in BOOLEAN :
        /\ future = "done" => arrived
        /\ pending' = [pending EXCEPT ![b] = future]
        /\ stored' = IF arrived THEN stored \cup {b} ELSE stored
  BY DEF WorkerEnds, Running
<1>2. UNCHANGED <<disk, compressed, sizeLies, name, walker, offset, queue, written, snapshot, changed, image>>
  BY DEF WorkerEnds
<1>3. DOMAIN pending' = DOMAIN pending
  BY <1>1
<1>4. stored \subseteq stored' /\ stored' \subseteq stored \cup {b}
  BY <1>1
<1>5. \A c \in DOMAIN pending : pending'[c] = pending[c] \/ (pending'[c] = future /\ (future = "done" => c \in stored'))
  BY <1>1
<1>6. UploadTypeOK'
  BY <1>2, <1>3, <1>4, <1>5 DEF UploadTypeOK, Blocks
<1>7. Sent' = Sent /\ Walked' = Walked /\ Due' = Due
  BY <1>2, <1>3, <1>4 DEF Sent, Walked, Due, NonZero, UnitsOf, Blocks
<1>8. WalkInv'
  BY <1>2, <1>7 DEF WalkInv, Allocated
<1>9. SentInv'
  BY <1>2, <1>3, <1>4, <1>5, <1>7 DEF SentInv
<1>10. EndInv' /\ CompletedIsDisk'
  BY <1>1, <1>2, <1>3 DEF EndInv, CompletedIsDisk
<1> QED BY <1>6, <1>8, <1>9, <1>10

LEMMA SubmitKeeps == ASSUME UploadAssumption, UploadInv, Submit PROVE UploadInv'
<1> USE DEF UploadInv
<1> DEFINE b == Min(queue)
           full == Cardinality(DOMAIN pending) >= 2 * Jobs
           rest == IF full THEN Without(Done) ELSE pending
<1>1. /\ walker = "walk" /\ b \in queue /\ b \in Blocks /\ NonZero(b) /\ (full => Done # {})
      /\ UNCHANGED <<disk, compressed, sizeLies, name, offset, stored, snapshot, changed, image>>
  BY NextBlock DEF Submit
<1>2. CASE full /\ Failed(Done)
  <2>1. walker' = "abort" /\ UNCHANGED <<queue, pending, written>>
    BY <1>2 DEF Submit
  <2>2. UploadTypeOK'
    BY <1>1, <2>1 DEF UploadTypeOK, Blocks
  <2>3. WalkInv' /\ SentInv'
    BY <1>1, <2>1 DEF WalkInv, SentInv, Walked
  <2>4. EndInv' /\ CompletedIsDisk'
    BY <1>1, <2>1 DEF EndInv, CompletedIsDisk
  <2> QED BY <2>2, <2>3, <2>4
<1>3. CASE ~(full /\ Failed(Done))
  <2>1. /\ queue' = queue \ {b} /\ written' = written + 1 /\ walker' = walker
        /\ pending' = [c \in DOMAIN rest \cup {b} |-> IF c = b THEN "queued" ELSE rest[c]]
    BY <1>3 DEF Submit
  <2>2. /\ DOMAIN rest \subseteq DOMAIN pending /\ \A c \in DOMAIN rest : rest[c] = pending[c]
        /\ \A c \in DOMAIN pending \ DOMAIN rest : pending[c] = "done"
    BY <1>3 DEF Without, Failed, Done
  <2> HIDE DEF rest
  <2>3. DOMAIN pending' = DOMAIN rest \cup {b} /\ \A c \in DOMAIN pending' : pending'[c] = IF c = b THEN "queued" ELSE pending[c]
    BY <2>1, <2>2
  <2>4. DOMAIN pending' \subseteq Blocks
    BY <1>1, <2>2, <2>3 DEF UploadTypeOK
  <2>5. Sent' = Sent \cup {b} /\ b \notin Sent
    <3>1. Sent = Due /\ \A c \in DOMAIN pending : pending[c] = "done" => c \in stored
      BY <1>1 DEF SentInv
    <3> QED BY <1>1, <2>2, <2>3, <3>1 DEF Sent, Due
  <2>6. Due' = Due \cup {b} /\ Walked' = Walked
    <3>1. Walked' = Walked /\ b < Walked
      BY <1>1 DEF Walked, WalkInv
    <3> QED BY <1>1, <2>1, <3>1 DEF Due, NonZero, UnitsOf, Blocks
  <2>7. written' = Cardinality(Sent') /\ written' \in 0..Cardinality(Blocks)
    <3>1. Sent \subseteq Blocks /\ Sent' \subseteq Blocks
      BY <1>1, <2>4 DEF Sent, UploadTypeOK
    <3>2. Cardinality(Sent') = Cardinality(Sent) + 1
      BY <2>5, <3>1, FiniteBlocks, FS_AddElement
    <3>3. Cardinality(Sent') \in 0..Cardinality(Blocks)
      BY <3>1, FiniteBlocks
    <3> QED BY <1>1, <2>1, <3>2, <3>3 DEF SentInv
  <2>8. UploadTypeOK'
    <3>1. \A c \in DOMAIN pending' : pending'[c] \in {"queued", "running", "done", "failed"}
      BY <2>2, <2>3 DEF UploadTypeOK
    <3> QED BY <1>1, <2>1, <2>4, <2>7, <3>1 DEF UploadTypeOK, Blocks
  <2>9. WalkInv'
    BY <1>1, <2>1, <2>6 DEF WalkInv
  <2>10. SentInv'
    <3>1. \A c \in DOMAIN pending' : pending'[c] = "done" => c \in stored'
      BY <1>1, <2>2, <2>3 DEF SentInv
    <3> QED BY <1>1, <2>5, <2>6, <2>7, <3>1 DEF SentInv
  <2>11. EndInv'
    BY <1>1, <2>1 DEF EndInv
  <2>12. Cardinality(DOMAIN pending') <= 2 * Jobs
    <3>1. DOMAIN pending \subseteq Blocks /\ DOMAIN rest \subseteq Blocks
      BY <2>2 DEF UploadTypeOK
    <3>2. /\ IsFiniteSet(DOMAIN pending) /\ IsFiniteSet(DOMAIN rest)
          /\ Cardinality(DOMAIN pending) \in Nat /\ Cardinality(DOMAIN rest) \in Nat
      BY <3>1, FiniteBlocks, FS_CardinalityType
    <3>3. Cardinality(DOMAIN rest) < 2 * Jobs
      <4>1. CASE ~full
        BY <3>2, <4>1 DEF rest, UploadAssumption
      <4>2. CASE full
        <5>1. DOMAIN rest = DOMAIN pending \ Done /\ Done # {} /\ Done \subseteq DOMAIN pending
          BY <1>1, <4>2 DEF rest, Without, Done
        <5>2. DOMAIN rest # DOMAIN pending /\ DOMAIN rest \in SUBSET DOMAIN pending
          BY <5>1
        <5>3. Cardinality(DOMAIN rest) <= Cardinality(DOMAIN pending) /\ Cardinality(DOMAIN rest) # Cardinality(DOMAIN pending)
          BY <3>2, <5>2, FS_Subset
        <5> QED BY <3>2, <5>3 DEF CompletedIsDisk, UploadAssumption
      <4> QED BY <4>1, <4>2
    <3>4. Cardinality(DOMAIN pending') <= Cardinality(DOMAIN rest) + 1
      <4>1. Cardinality(DOMAIN rest \cup {b}) <= Cardinality(DOMAIN rest) + 1
        BY <3>2, FS_AddElement
      <4> QED BY <2>3, <4>1
    <3>5. Cardinality(DOMAIN pending') \in Nat
      BY <2>4, FiniteBlocks, FS_CardinalityType
    <3> QED BY <3>2, <3>3, <3>4, <3>5 DEF UploadAssumption
  <2>13. CompletedIsDisk'
    BY <1>1, <2>12 DEF EndInv, CompletedIsDisk
  <2> QED BY <2>8, <2>9, <2>10, <2>11, <2>13
<1> QED BY <1>2, <1>3

LEMMA CompleteKeeps == ASSUME UploadAssumption, UploadInv, Complete PROVE UploadInv'
<1> USE DEF UploadInv
<1>1. /\ walker = "drain" /\ DOMAIN pending = Done
      /\ UNCHANGED <<disk, compressed, sizeLies, name, offset, queue, written, stored, image>>
  BY DEF Complete
<1>2. CASE Failed(Done)
  <2>1. walker' = "failed" /\ UNCHANGED <<pending, snapshot, changed>>
    BY <1>2 DEF Complete
  <2>2. UploadTypeOK'
    BY <1>1, <2>1 DEF UploadTypeOK, Blocks
  <2>3. WalkInv' /\ SentInv'
    BY <1>1, <2>1 DEF WalkInv, SentInv, Walked
  <2>4. EndInv' /\ CompletedIsDisk'
    BY <1>1, <2>1 DEF EndInv, CompletedIsDisk
  <2> QED BY <2>2, <2>3, <2>4
<1>3. CASE ~Failed(Done)
  <2>1. walker' = "register" /\ pending' = Without(Done) /\ snapshot' = "completed" /\ changed' = written
    BY <1>3 DEF Complete
  <2>2. DOMAIN pending' = {}
    BY <1>1, <2>1 DEF Without
  <2>3. UploadTypeOK'
    BY <1>1, <2>1, <2>2 DEF UploadTypeOK, Blocks
  <2>4. WalkInv' /\ SentInv' /\ EndInv'
    BY <1>1, <2>1, <2>2 DEF WalkInv, SentInv, EndInv, Walked
  <2>5. \A c \in DOMAIN pending : c \in stored
    BY <1>1, <1>3 DEF SentInv, Failed, Done
  <2>6. stored = Due /\ written = Cardinality(stored)
    BY <1>1, <2>5 DEF SentInv, Sent
  <2>7. \A c \in Blocks : NonZero(c) => c < Walked
    <3> SUFFICES ASSUME NEW c \in Blocks, NonZero(c), ~(c < Walked) PROVE FALSE
      OBVIOUS
    <3>1. c \in Nat /\ Walked \in Nat /\ Walked <= c /\ offset = Walked * BlockUnits
      BY WholeBlocks, WalkedTyped
    <3>2. Walked * BlockUnits <= c * BlockUnits /\ c * BlockUnits \in Nat /\ offset \in Nat
      BY <3>1, MulMono DEF UploadAssumption
    <3>3. PICK u \in UnitsOf(c) : disk[u] = "data"
      BY DEF NonZero
    <3>4. c + 1 \in Nat /\ c + 1 <= DiskBlocks
      BY WholeBlocks
    <3>5. (c + 1) * BlockUnits <= Units /\ (c + 1) * BlockUnits \in Nat
      BY <3>4, WholeBlocks, MulMono DEF UploadAssumption
    <3>6. u \in offset..(Units - 1)
      BY <3>1, <3>2, <3>3, <3>5 DEF UnitsOf, UploadAssumption
    <3> QED BY <1>1, <3>3, <3>6 DEF WalkInv, Allocated
  <2>8. stored = {c \in Blocks : NonZero(c)}
    <3>1. queue = {}
      BY <1>1 DEF WalkInv
    <3> QED BY <2>6, <2>7, <3>1 DEF Due
  <2>9. CompletedIsDisk'
    <3>1. Cardinality(DOMAIN pending') <= 2 * Jobs
      BY <2>2, FS_EmptySet DEF UploadAssumption
    <3> QED BY <1>1, <2>1, <2>6, <2>8, <3>1 DEF CompletedIsDisk, NonZero, UnitsOf, Blocks
  <2> QED BY <2>3, <2>4, <2>9
<1> QED BY <1>2, <1>3

LEMMA UploadNextInv == ASSUME UploadAssumption, UploadInv, [UploadNext]_uploadVars PROVE UploadInv'
<1>1. CASE UNCHANGED uploadVars
  BY <1>1 DEF uploadVars, UploadInv, UploadTypeOK, WalkInv, SentInv, EndInv, CompletedIsDisk,
              Sent, Due, Walked, NonZero, UnitsOf, Blocks, Allocated
<1> QED BY <1>1, ElsewhereKeeps, SeekKeeps, WalkEndsKeeps, SkipZerosKeeps, SubmitKeeps, WorkerTakesKeeps,
           WorkerEndsKeeps, CompleteKeeps DEF UploadNext

\* Whatever the disk, the pool and the failures: a snapshot is completed only as the
\* disk, an image registered only of it, and few blocks are in memory.
THEOREM UploadsAreSound == ASSUME UploadAssumption PROVE UploadSpec => []CompletedIsDisk
<1>1. UploadInit => UploadInv
  BY UploadInitInv
<1>2. UploadInv /\ [UploadNext]_uploadVars => UploadInv'
  BY UploadNextInv
<1>3. UploadInv => CompletedIsDisk
  BY DEF UploadInv
<1> QED BY <1>1, <1>2, <1>3, PTL DEF UploadSpec

(***************************************************************************)
(* An imported package                                                     *)
(***************************************************************************)
Number == Seq(Nat) \ {<<>>}
Dir == [content : Nat, release : Number, ours : Nat, marked : BOOLEAN]
Fields == [release : Number, date : Nat]
Mirror == [dir : Dir, release : Number]
History == [upstream : Nat, rebuild : BOOLEAN, dir : Dir, json : Fields]

\* A build has one number, of which %autorelease never takes one back.
MirrorIs(s) ==
  /\ s \in Seq(Mirror) /\ s # <<>>
  /\ \A u \in 1 .. Len(s) :
       /\ s[u].dir = Pristine(s[u].dir.content, s[u].dir.release)
       /\ Len(s[u].dir.release) = 1 /\ Len(s[u].release) = 1
       /\ autorelease => s[u].release[1] \in 1 .. u
  /\ autorelease =>
       \A u \in 2 .. Len(s) : s[u].release = s[u - 1].release \/ s[u].release[1] > s[u - 1].release[1]

MirrorInv == autorelease \in BOOLEAN /\ MirrorIs(mirror)

\* A commit of the mirror comes with that commit's metadata, later ones later; a
\* local one keeps the date of the last, ...
ImportInv(i) ==
  IF main[i].upstream # NoUpstream
  THEN /\ main[i].upstream \in 1 .. Len(mirror) /\ main[i].json = Predicted(main[i].upstream) /\ ~main[i].rebuild
       /\ i > 1 => main[i - 1].json.date < main[i].upstream
  ELSE i > 1 /\ main[i].json.date = main[ImportCommit(i)].upstream

\* ... and either goes back to the import or counts one further.
LocalInv(i) ==
  main[i].upstream = NoUpstream =>
    /\ Changes(i, "json")
    /\ main[i].rebuild => autorelease /\ ~Changes(i, "dir")
    /\ ResetsToImport(i) \/ Changes(i, "dir") \/ main[i].rebuild

BumpInv(i) ==
  /\ LocalBump(i) = 0 => main[i].upstream # NoUpstream \/ ResetsToImport(i)
  /\ LocalBump(i) > 0 =>
       /\ ~ResetsToImport(i)
       /\ Len(main[i].json.release) > 1 /\ Last(main[i].json.release) = LocalBump(i)
       /\ ~autorelease => Len(main[i].dir.release) > 1 /\ Last(main[i].dir.release) = LocalBump(i)

CommitsInv ==
  /\ main \in Seq(History)
  /\ \A i \in 1 .. Len(main) : ImportInv(i) /\ LocalInv(i) /\ BumpInv(i)

ImporterInv == MirrorInv /\ CommitsInv /\ VerbsPassCheck

\* A set of naturals has a least member, a bounded one a greatest.
LEMMA LeastIs ==
  ASSUME NEW X, X \subseteq Nat, X # {}
  PROVE  \E i \in X : \A k \in X : i <= k
<1>1. PICK i \in X : \A k \in X : ~(<<k, i>> \in OpToRel(<, Nat))
  BY WFMin, NatLessThanWellFounded, Zenon
<1>2. ASSUME NEW k \in X PROVE i <= k
  <2>1. k \in Nat /\ i \in Nat
    OBVIOUS
  <2>2. ~(k < i)
    BY <1>1, <2>1, Zenon DEF OpToRel
  <2> QED BY <2>1, <2>2
<1> QED BY <1>2

LEMMA GreatestIs ==
  ASSUME NEW n \in Nat, NEW S \in SUBSET (0 .. n), S # {}
  PROVE  Greatest(S) \in S /\ \A k \in S : k <= Greatest(S)
<1> DEFINE T == {n - k : k \in S}
<1>1. T \subseteq Nat /\ T # {}
  <2>1. ASSUME NEW k \in S PROVE n - k \in Nat
    <3>1. k \in 0 .. n
      OBVIOUS
    <3> QED BY <3>1
  <2> QED BY <2>1, Zenon
<1>2. PICK t \in T : \A s \in T : t <= s
  BY <1>1, LeastIs, Zenon
<1>3. PICK m \in S : t = n - m
  OBVIOUS
<1>4. \A k \in S : k <= m
  <2> TAKE k \in S
  <2>1. n - k \in T
    OBVIOUS
  <2>2. k \in 0 .. n /\ m \in 0 .. n
    OBVIOUS
  <2>3. n - m <= n - k
    BY <1>2, <1>3, <2>1
  <2> QED BY <2>2, <2>3
<1> QED BY <1>3, <1>4, Zenon DEF Greatest

\* -- What counts
LEMMA CommitTyped ==
  ASSUME CommitsInv, NEW i \in 1 .. Len(main)
  PROVE  /\ main[i] \in History /\ main[i].upstream \in Nat /\ main[i].rebuild \in BOOLEAN
         /\ main[i].dir \in Dir /\ main[i].dir.release \in Number
         /\ main[i].json \in Fields /\ main[i].json.release \in Number /\ main[i].json.date \in Nat
<1>1. main[i] \in History
  BY DEF CommitsInv
<1> QED BY <1>1 DEF History, Dir, Fields

\* Each commit changes the package, and the last one with a trailer imported it.
LEMMA CommitTouches ==
  ASSUME MirrorInv, CommitsInv, NEW i \in 1 .. Len(main)
  PROVE  Touches(i)
<1>1. CASE i = 1
  BY <1>1 DEF Touches, Changes
<1>2. CASE i # 1 /\ main[i].upstream = NoUpstream
  BY <1>2 DEF Touches, CommitsInv, LocalInv
<1>3. CASE i # 1 /\ main[i].upstream # NoUpstream
  <2>1. main[i].json.date = main[i].upstream /\ main[i - 1].json.date < main[i].upstream
    <3>1. ImportInv(i) /\ i > 1
      BY <1>3 DEF CommitsInv
    <3> QED BY <1>3, <3>1 DEF ImportInv, Predicted
  <2>2. main[i - 1].json.date \in Nat
    <3>1. i - 1 \in 1 .. Len(main)
      BY <1>3 DEF CommitsInv
    <3> QED BY <3>1, CommitTyped
  <2>3. main[i].upstream \in Nat
    BY CommitTyped
  <2>4. main[i].json # main[i - 1].json
    BY <2>1, <2>2, <2>3
  <2> QED BY <2>4, <1>3 DEF Touches, Changes
<1> QED BY <1>1, <1>2, <1>3

\* import_commit() is the last commit with a trailer.
LEMMA ImportCommitIs ==
  ASSUME MirrorInv, CommitsInv, NEW i \in 1 .. Len(main)
  PROVE  /\ ImportCommit(i) \in 1 .. i /\ main[ImportCommit(i)].upstream # NoUpstream
         /\ \A j \in 1 .. i : main[j].upstream # NoUpstream => j <= ImportCommit(i)
<1> DEFINE S == {j \in 1 .. i : main[j].upstream # NoUpstream /\ Touches(j)}
<1>1. Len(main) \in Nat /\ i \in Nat
  BY DEF CommitsInv
<1>2. \A j \in 1 .. i : Touches(j)
  BY CommitTouches, <1>1
<1>3. 1 \in S
  BY <1>1, <1>2 DEF CommitsInv, ImportInv
<1>4. S \in SUBSET (0 .. i) /\ S # {}
  BY <1>3
<1>5. Greatest(S) \in S /\ \A k \in S : k <= Greatest(S)
  BY <1>1, <1>4, GreatestIs
<1>6. ImportCommit(i) = Greatest(S)
  BY DEF ImportCommit
<1> QED BY <1>2, <1>5, <1>6

\* A bump counts the commits since the last that was an import or went back to one.
LEMMA LocalBumpIs ==
  ASSUME MirrorInv, CommitsInv, NEW i \in 1 .. Len(main)
  PROVE  \E z \in ImportCommit(i) .. i :
           /\ z = ImportCommit(i) \/ ResetsToImport(z)
           /\ \A j \in z + 1 .. i : main[j].upstream = NoUpstream /\ ~ResetsToImport(j)
           /\ LocalBump(i) = i - z
<1> DEFINE a == ImportCommit(i)
           R == {a} \cup {j \in a + 1 .. i : Touches(j) /\ ResetsToImport(j)}
           z == Greatest(R)
           C == {j \in z + 1 .. i : Changes(j, "dir") \/ main[j].rebuild}
<1>1. Len(main) \in Nat /\ i \in Nat
  BY DEF CommitsInv
<1>2. a \in 1 .. i /\ \A j \in 1 .. i : main[j].upstream # NoUpstream => j <= a
  BY ImportCommitIs
<1> HIDE DEF a
<1>3. R \in SUBSET (0 .. i) /\ a \in R
  BY <1>1, <1>2
<1>4. z \in R /\ \A k \in R : k <= z
  BY <1>1, <1>3, GreatestIs
<1> HIDE DEF z
<1>5. z \in a .. i /\ z \in 1 .. i
  BY <1>1, <1>2, <1>3, <1>4
<1>6. ASSUME NEW j \in z + 1 .. i
      PROVE  main[j].upstream = NoUpstream /\ ~ResetsToImport(j) /\ (Changes(j, "dir") \/ main[j].rebuild)
  <2>1. j \in 1 .. Len(main) /\ j \in 1 .. i /\ j \in a + 1 .. i /\ ~(j <= a) /\ ~(j <= z)
    BY <1>1, <1>2, <1>5
  <2>2. Touches(j) /\ LocalInv(j)
    BY <2>1, CommitTouches DEF CommitsInv
  <2>3. j \notin R
    BY <1>4, <2>1
  <2>4. ~ResetsToImport(j)
    BY <2>1, <2>2, <2>3
  <2>5. main[j].upstream = NoUpstream
    BY <1>2, <2>1
  <2> QED BY <2>2, <2>4, <2>5 DEF LocalInv
<1>7. C = z + 1 .. i
  BY <1>6
<1>8. Cardinality(C) = i - z
  <2>1. z + 1 \in Int /\ i \in Int /\ (z + 1 > i => i - z = 0) /\ i - (z + 1) + 1 = i - z
    BY <1>1, <1>5
  <2>2. Cardinality(z + 1 .. i) = IF z + 1 > i THEN 0 ELSE i - (z + 1) + 1
    BY <2>1, FS_Interval, Zenon
  <2>3. CASE z + 1 > i
    BY <1>7, <2>1, <2>2, <2>3, Zenon
  <2>4. CASE ~(z + 1 > i)
    BY <1>7, <2>1, <2>2, <2>4, Zenon
  <2> QED BY <2>3, <2>4, Zenon
<1>9. LocalBump(i) = Cardinality(C)
  BY DEF LocalBump, a, z
<1> QED BY <1>4, <1>5, <1>6, <1>8, <1>9 DEF a
\* What is said of a commit depends on none that came after it.
Kept == Len(main) <= Len(main') /\ \A k \in 1 .. Len(main) : main'[k] = main[k]

LEMMA ChangesStay ==
  ASSUME CommitsInv, Kept, NEW i \in 1 .. Len(main)
  PROVE  /\ \A part : Changes(i, part)' <=> Changes(i, part)
         /\ Touches(i)' <=> Touches(i)
<1>1. i # 1 => i - 1 \in 1 .. Len(main)
  BY DEF CommitsInv
<1>2. main'[i] = main[i] /\ (i # 1 => main'[i - 1] = main[i - 1])
  BY <1>1 DEF Kept
<1> QED BY <1>2 DEF Changes, Touches

LEMMA HistoryStays ==
  ASSUME MirrorInv, CommitsInv, Kept, NEW i \in 1 .. Len(main)
  PROVE  /\ ImportCommit(i)' = ImportCommit(i)
         /\ ResetsToImport(i)' <=> ResetsToImport(i)
         /\ LocalBump(i)' = LocalBump(i)
<1>1. Len(main) \in Nat /\ i \in Nat
  BY DEF CommitsInv
<1>2. ASSUME NEW j \in 1 .. i
      PROVE  /\ ImportCommit(j)' = ImportCommit(j) /\ ImportCommit(j) \in 1 .. j
             /\ ResetsToImport(j)' <=> ResetsToImport(j)
  <2> DEFINE S == {k \in 1 .. j : main[k].upstream # NoUpstream /\ Touches(k)}
  <2>1. j \in 1 .. Len(main) /\ j \in Nat /\ \A k \in 1 .. j : k \in 1 .. Len(main)
    BY <1>1
  <2>2. \A k \in 1 .. j : main'[k] = main[k] /\ (Touches(k)' <=> Touches(k))
    BY <2>1, ChangesStay DEF Kept
  <2>3. S' = S
    BY <2>2
  <2>4. ImportCommit(j) = Greatest(S) /\ ImportCommit(j)' = Greatest(S')
    BY DEF ImportCommit, Greatest
  <2>5. ImportCommit(j)' = ImportCommit(j)
    BY <2>3, <2>4
  <2>6. ImportCommit(j) \in 1 .. j
    BY <2>1, ImportCommitIs
  <2>7. main'[j] = main[j] /\ main'[ImportCommit(j)] = main[ImportCommit(j)]
    BY <2>1, <2>2, <2>6
  <2> QED BY <2>5, <2>6, <2>7 DEF ResetsToImport
<1> DEFINE a == ImportCommit(i)
           R == {a} \cup {j \in a + 1 .. i : Touches(j) /\ ResetsToImport(j)}
           C(z) == {j \in z + 1 .. i : Changes(j, "dir") \/ main[j].rebuild}
<1>3. i \in 1 .. i /\ a' = a /\ a \in 1 .. i
  BY <1>1, <1>2
<1>4. \A j \in a + 1 .. i : (Touches(j)' <=> Touches(j)) /\ (ResetsToImport(j)' <=> ResetsToImport(j))
  <2> TAKE j \in a + 1 .. i
  <2>1. j \in 1 .. i /\ j \in 1 .. Len(main)
    BY <1>1, <1>3
  <2> QED BY <1>2, <2>1, ChangesStay
<1>5. R' = R
  BY <1>3, <1>4
<1>6. Greatest(R) \in 1 .. i /\ Greatest(R)' = Greatest(R)
  <2>1. R \in SUBSET (0 .. i) /\ a \in R /\ R \subseteq 1 .. i
    BY <1>1, <1>3
  <2>2. Greatest(R) \in R
    BY <1>1, <2>1, GreatestIs
  <2> HIDE DEF R
  <2>3. Greatest(R)' = Greatest(R')
    BY DEF Greatest
  <2> QED BY <1>5, <2>1, <2>2, <2>3
<1> DEFINE z == Greatest(R)
<1> HIDE DEF z
<1>7. z \in 1 .. i /\ z' = z
  BY <1>6 DEF z
<1>8. \A j \in z + 1 .. i : (Changes(j, "dir")' <=> Changes(j, "dir")) /\ main'[j] = main[j]
  <2> TAKE j \in z + 1 .. i
  <2>1. j \in 1 .. Len(main)
    BY <1>1, <1>7
  <2> QED BY <2>1, ChangesStay DEF Kept
<1>9. C(z)' = C(z)
  BY <1>7, <1>8
<1>10. LocalBump(i) = Cardinality(C(z)) /\ LocalBump(i)' = Cardinality(C(z)')
  BY DEF LocalBump, z
<1> QED BY <1>2, <1>3, <1>9, <1>10

LEMMA CommitStays ==
  ASSUME MirrorInv, CommitsInv, Kept, UNCHANGED autorelease, NEW i \in 1 .. Len(main)
  PROVE  /\ LocalInv(i)' /\ BumpInv(i)'
         /\ main[i].upstream = NoUpstream => ImportInv(i)'
         /\ CommitOk(i) => CommitOk(i)'
<1>1. main'[i] = main[i] /\ ImportCommit(i) \in 1 .. Len(main) /\ Len(main) \in Nat
  BY ImportCommitIs DEF Kept, CommitsInv
<1>2. main'[ImportCommit(i)] = main[ImportCommit(i)]
  BY <1>1 DEF Kept
<1>3. i # 1 => i - 1 \in 1 .. Len(main) /\ main'[i - 1] = main[i - 1] /\ LocalBump(i - 1)' = LocalBump(i - 1)
  <2> SUFFICES ASSUME i # 1
               PROVE  i - 1 \in 1 .. Len(main) /\ main'[i - 1] = main[i - 1] /\ LocalBump(i - 1)' = LocalBump(i - 1)
    OBVIOUS
  <2>1. i - 1 \in 1 .. Len(main)
    BY <1>1
  <2> QED BY <2>1, HistoryStays DEF Kept
<1>4. /\ ImportCommit(i)' = ImportCommit(i) /\ LocalBump(i)' = LocalBump(i)
      /\ ResetsToImport(i)' <=> ResetsToImport(i)
  BY HistoryStays
<1>5. (Changes(i, "dir")' <=> Changes(i, "dir")) /\ (Changes(i, "json")' <=> Changes(i, "json"))
  BY ChangesStay
<1>6. LocalInv(i) /\ BumpInv(i) /\ ImportInv(i)
  BY DEF CommitsInv
<1>7. LocalInv(i)'
  BY <1>1, <1>4, <1>5, <1>6 DEF LocalInv
<1>8. BumpInv(i)'
  BY <1>1, <1>4, <1>6 DEF BumpInv
<1>9. main[i].upstream = NoUpstream => ImportInv(i)'
  BY <1>1, <1>2, <1>4, <1>6 DEF ImportInv
<1>10. ASSUME CommitOk(i) PROVE CommitOk(i)'
  <2>1. CASE i = 1
    <3>1. main[1].upstream # NoUpstream /\ ~main[1].rebuild
      BY <2>1, <1>6 DEF ImportInv
    <3> QED BY <1>1, <2>1, <3>1 DEF CommitOk, ImportOk, RebuildOk
  <2>2. CASE i # 1
    <3>1. ImportOk(i) => ImportOk(i)'
      BY <1>1, <1>3, <2>2 DEF ImportOk
    <3>2. LocalCommitOk(i) => LocalCommitOk(i)'
      BY <1>1, <1>2, <1>3, <1>4, <1>5, <2>2 DEF LocalCommitOk, ReleaseBumpOk
    <3>3. RebuildOk(i) => RebuildOk(i)'
      BY <1>1, <1>5 DEF RebuildOk
    <3> QED BY <1>1, <1>10, <3>1, <3>2, <3>3 DEF CommitOk
  <2> QED BY <2>1, <2>2
<1> QED BY <1>7, <1>8, <1>9, <1>10

LEMMA BumpedIs ==
  ASSUME NEW r \in Number, NEW b \in Nat, b > 0 => Len(r) > 1
  PROVE  /\ Bumped(r, b) \in Number /\ Len(Bumped(r, b)) > 1 /\ Last(Bumped(r, b)) = b + 1
         /\ (b > 0 => Last(r) = b) => Bumped(r, b) # r
<1>1. r \in Seq(Nat) /\ Len(r) \in Nat /\ Len(r) > 0
  BY DEF Number
<1>2. CASE b = 0
  <2>1. Bumped(r, b) = Append(r, 1)
    BY <1>2 DEF Bumped
  <2>2. Append(r, 1) \in Seq(Nat) /\ Len(Append(r, 1)) = Len(r) + 1 /\ Append(r, 1)[Len(r) + 1] = 1
    BY <1>1
  <2> QED BY <1>1, <1>2, <2>1, <2>2 DEF Number, Last
<1>3. CASE b > 0
  <2>1. Bumped(r, b) = [r EXCEPT ![Len(r)] = b + 1]
    BY <1>3 DEF Bumped
  <2>2. /\ [r EXCEPT ![Len(r)] = b + 1] \in Seq(Nat) /\ Len([r EXCEPT ![Len(r)] = b + 1]) = Len(r)
        /\ [r EXCEPT ![Len(r)] = b + 1][Len(r)] = b + 1
    BY <1>1
  <2>3. Last(Bumped(r, b)) = b + 1
    BY <2>1, <2>2 DEF Last
  <2>4. Bumped(r, b) \in Number /\ Len(Bumped(r, b)) > 1
    <3>1. Bumped(r, b) \in Seq(Nat) /\ Len(Bumped(r, b)) > 1
      BY <1>1, <1>3, <2>1, <2>2
    <3> QED BY <3>1 DEF Number
  <2>5. Last(r) = b => Bumped(r, b) # r
    BY <2>3
  <2> QED BY <1>3, <2>3, <2>4, <2>5
<1> QED BY <1>2, <1>3

\* Of sequences.
LEMMA AppendedIs ==
  ASSUME NEW S, NEW s \in Seq(S), NEW e \in S
  PROVE  /\ Append(s, e) \in Seq(S) /\ Len(s) \in Nat /\ Len(Append(s, e)) = Len(s) + 1
         /\ Append(s, e)[Len(s) + 1] = e /\ \A u \in 1 .. Len(s) : Append(s, e)[u] = s[u]
  BY AppendProperties

LEMMA AppendIs ==
  ASSUME NEW r \in Seq(Nat), NEW b \in Nat
  PROVE  /\ Append(r, b) \in Seq(Nat) /\ Len(Append(r, b)) = Len(r) + 1 /\ Append(r, b)[Len(r) + 1] = b
         /\ \A i \in 1 .. Len(r) : Append(r, b)[i] = r[i]
  BY AppendedIs

LEMMA ExceptIs ==
  ASSUME NEW s \in Seq(Nat), NEW n \in 1 .. Len(s), NEW b \in Nat
  PROVE  /\ [s EXCEPT ![n] = b] \in Seq(Nat) /\ Len([s EXCEPT ![n] = b]) = Len(s)
         /\ \A i \in 1 .. Len(s) : [s EXCEPT ![n] = b][i] = IF i = n THEN b ELSE s[i]
OBVIOUS

\* One bump on top of another.
LEMMA BumpedAgain ==
  ASSUME NEW r \in Number, Len(r) = 1, NEW b \in Nat, b > 0
  PROVE  Bumped(Append(r, b), b) = Append(r, b + 1)
<1> DEFINE s == Append(r, b)
           t == Append(r, b + 1)
<1>1. r \in Seq(Nat) /\ b + 1 \in Nat /\ Len(r) \in Nat
  BY DEF Number
<1>2. s \in Seq(Nat) /\ Len(s) = Len(r) + 1 /\ \A i \in 1 .. Len(r) : s[i] = r[i]
  BY <1>1, AppendIs
<1>3. t \in Seq(Nat) /\ Len(t) = Len(r) + 1 /\ t[Len(r) + 1] = b + 1 /\ \A i \in 1 .. Len(r) : t[i] = r[i]
  BY <1>1, AppendIs
<1> HIDE DEF s, t
<1>4. PICK n \in 1 .. Len(s) : n = Len(s)
  BY <1>1, <1>2
<1>5. PICK c \in Nat : c = b + 1
  BY <1>1
<1> DEFINE x == [s EXCEPT ![n] = c]
<1>6. x \in Seq(Nat) /\ Len(x) = Len(s) /\ \A i \in 1 .. Len(s) : x[i] = IF i = n THEN c ELSE s[i]
  BY <1>2, ExceptIs
<1>7. Bumped(s, b) = x
  BY <1>4, <1>5 DEF Bumped
<1> HIDE DEF x
<1>8. \A i \in 1 .. Len(x) : x[i] = t[i]
  BY <1>1, <1>2, <1>3, <1>4, <1>5, <1>6
<1>9. x = t
  <2>1. Len(x) = Len(t)
    BY <1>2, <1>3, <1>6
  <2> QED BY <1>3, <1>6, <1>8, <2>1, SeqEqual, Zenon
<1> QED BY <1>9, <1>7 DEF s, t

\* What a commit goes back to, if it does.
LEMMA BaseIs ==
  ASSUME MirrorInv, CommitsInv, NEW i \in 1 .. Len(main)
  PROVE  LET base == main[ImportCommit(i)] IN
         /\ base.upstream \in 1 .. Len(mirror) /\ base.json = Predicted(base.upstream)
         /\ base.json.release = mirror[base.upstream].release /\ Len(base.json.release) = 1
         /\ main[i].json.date = base.upstream
         /\ LocalBump(i) \in Nat
         /\ LocalBump(i) = 0 => main[i].dir = base.dir /\ main[i].json = base.json
<1> DEFINE a == ImportCommit(i)
<1>1. a \in 1 .. i /\ a \in 1 .. Len(main) /\ main[a].upstream # NoUpstream
      /\ \A j \in 1 .. i : main[j].upstream # NoUpstream => j <= a
  <2>1. Len(main) \in Nat
    BY DEF CommitsInv
  <2> QED BY <2>1, ImportCommitIs
<1>2. main[a].upstream \in 1 .. Len(mirror) /\ main[a].json = Predicted(main[a].upstream)
  BY <1>1 DEF CommitsInv, ImportInv
<1>3. /\ Len(mirror[main[a].upstream].release) = 1
      /\ main[a].json.release = mirror[main[a].upstream].release
      /\ main[a].json.date = main[a].upstream
  BY <1>2 DEF MirrorInv, MirrorIs, Predicted
<1>4. i \in 1 .. i /\ i \in Nat
  BY DEF CommitsInv
<1>5. main[i].upstream # NoUpstream => a = i
  BY <1>1, <1>4
<1>6. main[i].json.date = main[a].upstream
  BY <1>3, <1>5 DEF CommitsInv, ImportInv
<1>7. LocalBump(i) \in Nat
  BY <1>1, <1>4, LocalBumpIs
<1>8. LocalBump(i) = 0 => main[i].dir = main[a].dir /\ main[i].json = main[a].json
  BY <1>5 DEF CommitsInv, BumpInv, ResetsToImport
<1> QED BY <1>2, <1>3, <1>6, <1>7, <1>8

\* -- A local commit
LEMMA LocalCommitIs ==
  ASSUME MirrorInv, CommitsInv, main # <<>>, NEW c \in History, main' = Append(main, c),
         c.upstream = NoUpstream, c.json # Tip.json, NEW n \in Nat, n = Len(main) + 1
  PROVE  /\ Kept /\ main' \in Seq(History) /\ Len(main') = n /\ main'[n] = c /\ main'[n - 1] = Tip
         /\ ImportCommit(n)' = ImportCommit(n - 1)
         /\ ResetsToImport(n)' <=> /\ c.dir = main[ImportCommit(n - 1)].dir
                                   /\ c.json = main[ImportCommit(n - 1)].json
         /\ ResetsToImport(n)' => LocalBump(n)' = 0
         /\ ~ResetsToImport(n)' /\ (c.dir # Tip.dir \/ c.rebuild) => LocalBump(n)' = LocalBump(n - 1) + 1
<1> DEFINE m == n - 1
<1>1. m \in Nat /\ m \in 1 .. m /\ n \in Nat /\ n # 1 /\ m = Len(main) /\ m + 1 = n
  BY DEF CommitsInv
<1>2. Kept /\ main' \in Seq(History) /\ Len(main') = n /\ main'[n] = c /\ main'[m] = Tip
  BY <1>1 DEF Kept, CommitsInv, Tip, Last
<1>3. PICK a \in 1 .. m : a = ImportCommit(m) /\ main'[a] = main[a]
  BY <1>1, <1>2, ImportCommitIs DEF Kept
<1> DEFINE R == {a} \cup {j \in a + 1 .. m : Touches(j) /\ ResetsToImport(j)}
           C(z) == {j \in z + 1 .. m : Changes(j, "dir") \/ main[j].rebuild}
           RN == {a} \cup {j \in a + 1 .. n : Touches(j)' /\ ResetsToImport(j)'}
           CN(z) == {j \in z + 1 .. n : Changes(j, "dir")' \/ main'[j].rebuild}
<1>4. ImportCommit(n)' = a
  <2>1. \A j \in 1 .. m : main'[j] = main[j] /\ (Touches(j)' <=> Touches(j))
    BY <1>2, ChangesStay DEF Kept
  <2>2. 1 .. n = 1 .. m \cup {n} /\ n \notin 1 .. m
    BY <1>1
  <2>3. {j \in 1 .. n : main'[j].upstream # NoUpstream /\ Touches(j)'}
          = {j \in 1 .. m : main[j].upstream # NoUpstream /\ Touches(j)}
    BY <1>2, <2>1, <2>2
  <2>4. ImportCommit(n)' = Greatest({j \in 1 .. n : main'[j].upstream # NoUpstream /\ Touches(j)'})
    BY DEF ImportCommit, Greatest
  <2>5. a = Greatest({j \in 1 .. m : main[j].upstream # NoUpstream /\ Touches(j)})
    BY <1>3 DEF ImportCommit
  <2> QED BY <2>3, <2>4, <2>5, Zenon
<1>5. ResetsToImport(n)' <=> c.dir = main[a].dir /\ c.json = main[a].json
  <2>1. a # n
    BY <1>1, <1>3
  <2> QED BY <1>2, <1>3, <1>4, <2>1 DEF ResetsToImport
<1>6. Touches(n)' /\ (Changes(n, "dir")' <=> c.dir # Tip.dir)
  BY <1>1, <1>2 DEF Touches, Changes
<1>7. \A j \in 1 .. m : /\ main'[j] = main[j] /\ (ResetsToImport(j)' <=> ResetsToImport(j))
                        /\ Touches(j)' <=> Touches(j)
                        /\ Changes(j, "dir")' <=> Changes(j, "dir")
  BY <1>2, HistoryStays, ChangesStay DEF Kept
<1>8. LocalBump(n)' = Cardinality(CN(Greatest(RN)))
  BY <1>4 DEF LocalBump, Greatest
<1>9. LocalBump(m) = Cardinality(C(Greatest(R)))
  BY <1>3 DEF LocalBump
<1>10. ASSUME ResetsToImport(n)' PROVE LocalBump(n)' = 0
  <2>1. n \in RN /\ RN \in SUBSET (0 .. n)
    BY <1>1, <1>3, <1>6, <1>10
  <2>2. Greatest(RN) \in RN /\ n <= Greatest(RN)
    BY <1>1, <2>1, GreatestIs
  <2>3. Greatest(RN) = n
    BY <1>1, <2>1, <2>2
  <2>4. CN(n) = {}
    BY <1>1
  <2> QED BY <1>8, <2>3, <2>4, FS_EmptySet
<1>11. ASSUME ~ResetsToImport(n)', c.dir # Tip.dir \/ c.rebuild PROVE LocalBump(n)' = LocalBump(m) + 1
  <2>1. a + 1 .. n = a + 1 .. m \cup {n} /\ a + 1 .. m \subseteq 1 .. m
    BY <1>1, <1>3
  <2>2. RN = R
    BY <1>7, <1>11, <2>1
  <2>3. R \in SUBSET (0 .. m) /\ a \in R /\ R \subseteq 1 .. m
    BY <1>1, <1>3
  <2> HIDE DEF R
  <2> DEFINE z == Greatest(R)
  <2>4. z \in 1 .. m
    BY <1>1, <2>3, GreatestIs
  <2> HIDE DEF z
  <2>5. z + 1 .. n = z + 1 .. m \cup {n} /\ z + 1 .. m \subseteq 1 .. m /\ n \notin z + 1 .. m
    BY <1>1, <2>4
  <2>6. CN(z) = C(z) \cup {n} /\ n \notin C(z)
    BY <1>2, <1>6, <1>7, <1>11, <2>5
  <2>7. IsFiniteSet(C(z))
    <3>1. IsFiniteSet(1 .. m) /\ C(z) \subseteq 1 .. m
      BY <1>1, <2>5, FS_Interval
    <3> QED BY <3>1, FS_Subset
  <2>8. Cardinality(CN(z)) = Cardinality(C(z)) + 1
    <3> HIDE DEF C, CN
    <3> QED BY <2>6, <2>7, FS_AddElement, Zenon
  <2> QED BY <1>8, <1>9, <2>2, <2>8 DEF z
<1> QED BY <1>1, <1>2, <1>3, <1>4, <1>5, <1>10, <1>11

LEMMA LocalKeeps ==
  ASSUME ImporterInv, main # <<>>, UNCHANGED <<autorelease, mirror>>,
         NEW base, base = main[ImportCommit(Len(main))], NEW bump, bump = LocalBump(Len(main)),
         NEW c \in History, main' = Append(main, c), c.upstream = NoUpstream,
         c.json # Tip.json, c.json.date = Tip.json.date, c.rebuild => autorelease /\ c.dir = Tip.dir,
         \/ c.dir = base.dir /\ c.json = base.json
         \/ /\ c.dir # Tip.dir \/ c.rebuild
            /\ Len(c.json.release) > 1 /\ Last(c.json.release) = bump + 1
            /\ IF autorelease THEN c.json.release = Append(base.json.release, bump + 1)
               ELSE /\ c.dir.release = Bumped(Tip.dir.release, bump)
                    /\ Len(c.dir.release) > 1 /\ Last(c.dir.release) = bump + 1
  PROVE  ImporterInv'
<1>1. MirrorInv /\ CommitsInv /\ VerbsPassCheck
  BY DEF ImporterInv
<1>2. PICK n \in Nat : n = Len(main) + 1
  BY <1>1 DEF CommitsInv
<1>3. n - 1 = Len(main) /\ n # 1 /\ n > 1 /\ n - 1 \in 1 .. Len(main)
  BY <1>1, <1>2 DEF CommitsInv
<1>4. MirrorInv'
  BY <1>1 DEF MirrorInv, MirrorIs
<1>5. /\ Kept /\ main' \in Seq(History) /\ Len(main') = n /\ main'[n] = c /\ main'[n - 1] = Tip
      /\ ImportCommit(n)' = ImportCommit(n - 1)
      /\ ResetsToImport(n)' <=> c.dir = base.dir /\ c.json = base.json
      /\ ResetsToImport(n)' => LocalBump(n)' = 0
      /\ ~ResetsToImport(n)' /\ (c.dir # Tip.dir \/ c.rebuild) => LocalBump(n)' = bump + 1
  BY <1>1, <1>2, <1>3, LocalCommitIs
<1>6. ImportCommit(n - 1) \in 1 .. Len(main) /\ main'[ImportCommit(n - 1)] = base
  <2>1. ImportCommit(n - 1) \in 1 .. n - 1
    BY <1>1, <1>3, ImportCommitIs
  <2> QED BY <1>2, <1>3, <1>5, <2>1 DEF Kept
<1>7. /\ Len(base.json.release) = 1 /\ Tip.json.date = base.upstream /\ bump \in Nat
  BY <1>1, <1>3, BaseIs DEF Tip, Last
<1>8. /\ Changes(n, "json")'
      /\ Changes(n, "dir")' <=> c.dir # Tip.dir
  BY <1>3, <1>5 DEF Changes
<1>9. LocalBump(n - 1)' = bump
  BY <1>1, <1>3, <1>5, HistoryStays
<1>10. \/ ResetsToImport(n)' /\ LocalBump(n)' = 0 /\ c.json = base.json
       \/ /\ ~ResetsToImport(n)' /\ LocalBump(n)' = bump + 1
          /\ c.dir # Tip.dir \/ c.rebuild
          /\ Len(c.json.release) > 1 /\ Last(c.json.release) = bump + 1
          /\ IF autorelease THEN c.json.release = Append(base.json.release, bump + 1)
             ELSE /\ c.dir.release = Bumped(Tip.dir.release, bump)
                  /\ Len(c.dir.release) > 1 /\ Last(c.dir.release) = bump + 1
  BY <1>5, <1>7
<1>11. ImportInv(n)'
  BY <1>3, <1>5, <1>6, <1>7 DEF ImportInv
<1>12. LocalInv(n)'
  BY <1>5, <1>8, <1>10 DEF LocalInv
<1>13. BumpInv(n)'
  BY <1>5, <1>7, <1>10 DEF BumpInv
<1>14. CommitOk(n)'
  <2>1. RebuildOk(n)'
    BY <1>5, <1>8 DEF RebuildOk
  <2>2. ~Changes(n, "dir")' /\ ~ResetsToImport(n)' => autorelease /\ c.rebuild
    BY <1>5, <1>8, <1>10
  <2>3. ~autorelease /\ ~ResetsToImport(n)' => ReleaseBumpOk(n)'
    BY <1>3, <1>5, <1>9, <1>10 DEF ReleaseBumpOk, Bumped
  <2>4. autorelease => c.json.release = IF LocalBump(n)' = 0 THEN base.json.release
                                        ELSE Append(base.json.release, LocalBump(n)')
    <3>1. CASE ResetsToImport(n)'
      BY <1>10, <3>1
    <3>2. CASE ~ResetsToImport(n)'
      <4>1. LocalBump(n)' = bump + 1 /\ (autorelease => c.json.release = Append(base.json.release, bump + 1))
        BY <1>10, <3>2
      <4>2. bump + 1 # 0
        BY <1>7
      <4> QED BY <4>1, <4>2
    <3> QED BY <3>1, <3>2
  <2>5. LocalCommitOk(n)'
    BY <1>5, <1>6, <1>8, <2>2, <2>3, <2>4 DEF LocalCommitOk
  <2> QED BY <1>5, <2>1, <2>5 DEF CommitOk
<1>15. ASSUME NEW i \in 1 .. Len(main)
       PROVE  ImportInv(i)' /\ LocalInv(i)' /\ BumpInv(i)' /\ CommitOk(i)'
  <2>1. LocalInv(i)' /\ BumpInv(i)' /\ (main[i].upstream = NoUpstream => ImportInv(i)')
    BY <1>1, <1>5, CommitStays
  <2>2. CommitOk(i)'
    <3>1. CommitOk(i)
      BY <1>1 DEF VerbsPassCheck, CommitsInv
    <3> QED BY <1>1, <1>5, <3>1, CommitStays
  <2>3. ASSUME main[i].upstream # NoUpstream PROVE ImportInv(i)'
    <3>1. ImportInv(i) /\ main'[i] = main[i] /\ (i > 1 => main'[i - 1] = main[i - 1])
      BY <1>1, <1>2, <1>5 DEF CommitsInv, Kept
    <3> QED BY <2>3, <3>1 DEF ImportInv, Predicted
  <2> QED BY <2>1, <2>2, <2>3
<1>16. \A i \in 1 .. Len(main') : i \in 1 .. Len(main) \/ i = n
  BY <1>2, <1>3, <1>5
<1>17. CommitsInv'
  BY <1>5, <1>11, <1>12, <1>13, <1>15, <1>16 DEF CommitsInv
<1>18. VerbsPassCheck'
  BY <1>5, <1>14, <1>15, <1>16 DEF VerbsPassCheck
<1> QED BY <1>4, <1>17, <1>18 DEF ImporterInv

\* What is known of where a verb starts.
LEMMA TipIs ==
  ASSUME ImporterInv, main # <<>>
  PROVE  LET m == Len(main)
             base == main[ImportCommit(m)] IN
         /\ m \in 1 .. m /\ m \in Nat /\ Tip = main[m]
         /\ Tip \in History /\ Tip.dir \in Dir /\ Tip.dir.release \in Number
         /\ Tip.json \in Fields /\ Tip.json.release \in Number /\ Tip.json.date \in Nat
         /\ base \in History /\ base.dir \in Dir /\ base.json \in Fields /\ base.json.release \in Number
         /\ Len(base.json.release) = 1 /\ base.upstream \in 1 .. Len(mirror) /\ Anchor = base.upstream
         /\ base.json = Predicted(Anchor) /\ Tip.json.date = Anchor
         /\ LocalBump(m) \in Nat
         /\ LocalBump(m) = 0 => Tip.dir = base.dir /\ Tip.json = base.json
         /\ LocalBump(m) > 0 =>
              /\ Len(Tip.json.release) > 1 /\ Last(Tip.json.release) = LocalBump(m)
              /\ ~autorelease => Len(Tip.dir.release) > 1 /\ Last(Tip.dir.release) = LocalBump(m)
<1>1. MirrorInv /\ CommitsInv
  BY DEF ImporterInv
<1>2. Len(main) \in Nat /\ Len(main) \in 1 .. Len(main) /\ Tip = main[Len(main)]
  BY <1>1 DEF CommitsInv, Tip, Last
<1>3. ImportCommit(Len(main)) \in 1 .. Len(main)
  BY <1>1, <1>2, ImportCommitIs
<1>4. BumpInv(Len(main))
  BY <1>1, <1>2 DEF CommitsInv
<1> QED BY <1>1, <1>2, <1>3, <1>4, CommitTyped, BaseIs DEF BumpInv, Anchor

\* With %autorelease the metadata count from the import's.
LEMMA AutoreleaseIs ==
  ASSUME ImporterInv, main # <<>>, autorelease, LocalBump(Len(main)) > 0
  PROVE  Tip.json.release = Append(main[ImportCommit(Len(main))].json.release, LocalBump(Len(main)))
<1> DEFINE m == Len(main)
<1>1. MirrorInv /\ CommitsInv /\ m \in 1 .. m /\ m \in Nat /\ Tip = main[m]
  BY TipIs DEF ImporterInv
<1>2. ImportCommit(m) \in 1 .. m /\ \A j \in 1 .. m : main[j].upstream # NoUpstream => j <= ImportCommit(m)
  BY <1>1, ImportCommitIs
<1>3. PICK z \in ImportCommit(m) .. m :
        /\ \A j \in z + 1 .. m : main[j].upstream = NoUpstream /\ ~ResetsToImport(j)
        /\ LocalBump(m) = m - z
  BY <1>1, LocalBumpIs
<1>4. m \in z + 1 .. m
  BY <1>1, <1>2, <1>3
<1>5. CommitOk(m) /\ main[m].upstream = NoUpstream
  BY <1>1, <1>3, <1>4 DEF ImporterInv, VerbsPassCheck
<1>6. LocalCommitOk(m)
  BY <1>5 DEF CommitOk
<1>7. LocalBump(m) # 0
  BY TipIs
<1> QED BY <1>1, <1>6, <1>7 DEF LocalCommitOk

\* The mirror grows, and nothing changes for the commits on main.
LEMMA MirrorGrows ==
  ASSUME ImporterInv, UNCHANGED <<autorelease, main>>, MirrorInv',
         Len(mirror) <= Len(mirror'), \A u \in 1 .. Len(mirror) : mirror'[u] = mirror[u]
  PROVE  ImporterInv'
<1>1. MirrorInv /\ CommitsInv /\ VerbsPassCheck
  BY DEF ImporterInv
<1>2. Kept /\ main' = main
  BY <1>1 DEF Kept, CommitsInv
<1>3. Len(mirror) \in Nat /\ Len(mirror') \in Nat
  BY <1>1 DEF MirrorInv, MirrorIs
<1>4. ASSUME NEW i \in 1 .. Len(main) PROVE ImportInv(i)' /\ LocalInv(i)' /\ BumpInv(i)' /\ CommitOk(i)'
  <2>1. LocalInv(i)' /\ BumpInv(i)' /\ (main[i].upstream = NoUpstream => ImportInv(i)')
    BY <1>1, <1>2, CommitStays
  <2>2. CommitOk(i)'
    <3>1. CommitOk(i)
      BY <1>1 DEF VerbsPassCheck, CommitsInv
    <3> QED BY <1>1, <1>2, <3>1, CommitStays
  <2>3. ASSUME main[i].upstream # NoUpstream PROVE ImportInv(i)'
    <3>1. ImportInv(i)
      BY <1>1 DEF CommitsInv
    <3> QED BY <1>2, <1>3, <2>3, <3>1 DEF ImportInv, Predicted
  <2> QED BY <2>1, <2>2, <2>3
<1>5. CommitsInv'
  BY <1>1, <1>2, <1>4 DEF CommitsInv
<1>6. VerbsPassCheck'
  BY <1>1, <1>2, <1>4 DEF VerbsPassCheck, CommitsInv
<1> QED BY <1>5, <1>6 DEF ImporterInv

LEMMA StuttersKeep == ASSUME ImporterInv, UNCHANGED <<autorelease, mirror, main>> PROVE ImporterInv'
<1>1. MirrorInv' /\ Len(mirror) \in Nat /\ mirror' = mirror
  BY DEF ImporterInv, MirrorInv, MirrorIs
<1> QED BY <1>1, MirrorGrows

LEMMA SingleIs == \A n \in Nat : <<n>> \in Number /\ Len(<<n>>) = 1 /\ <<n>>[1] = n
  BY DEF Number

\* What update_upstreams() takes continues the mirror.
LEMMA ImportIs ==
  ASSUME NEW s, MirrorIs(s), autorelease \in BOOLEAN, NEW edited \in BOOLEAN, NEW bumped \in BOOLEAN, NEW built \in BOOLEAN,
         autorelease => ~bumped, NEW number, number = Len(s) + 1
  PROVE  /\ Import(Last(s), number, edited, bumped, built) \in Mirror
         /\ MirrorIs(Append(s, Import(Last(s), number, edited, bumped, built)))
<1> DEFINE b == Last(s)
           c == b.dir.content + (IF edited THEN 1 ELSE 0)
           r == IF bumped THEN <<b.dir.release[1] + 1>> ELSE b.dir.release
           v == CASE ~built -> b.release [] built /\ autorelease -> <<number>> [] OTHER -> r
           e == Import(b, number, edited, bumped, built)
           t == Append(s, e)
<1>1. /\ s \in Seq(Mirror) /\ s # <<>> /\ Len(s) \in Nat /\ Len(s) \in 1 .. Len(s) /\ b = s[Len(s)]
      /\ b \in Mirror
  BY DEF MirrorIs, Last
<1>2. /\ b.dir.content \in Nat /\ b.dir.release \in Number /\ b.release \in Number
      /\ Len(b.dir.release) = 1 /\ Len(b.release) = 1 /\ (autorelease => b.release[1] \in 1 .. Len(s))
  BY <1>1 DEF MirrorIs, Mirror, Dir
<1>3. b.dir.release[1] \in Nat
  BY <1>2 DEF Number
<1>4. e = [dir |-> Pristine(c, r), release |-> v]
  BY DEF Import, Pristine
<1> HIDE DEF b, e
<1>5. c \in Nat
  BY <1>2
<1>6. r \in Number /\ Len(r) = 1
  BY <1>2, <1>3, SingleIs
<1> HIDE DEF c, r
<1>7. v \in Number /\ Len(v) = 1 /\ (autorelease => v = b.release \/ v = <<number>>)
  BY <1>1, <1>2, <1>6, SingleIs
<1> HIDE DEF v
<1>8. e.dir = Pristine(c, r) /\ e.release = v /\ e.dir \in Dir /\ e.dir.content = c /\ e.dir.release = r
  BY <1>4, <1>5, <1>6 DEF Pristine, Dir, NoChange
<1>9. e \in Mirror
  BY <1>4, <1>7, <1>8 DEF Mirror
<1>10. t \in Seq(Mirror) /\ t # <<>> /\ Len(t) = number /\ t[number] = e /\ \A u \in 1 .. Len(s) : t[u] = s[u]
  BY <1>1, <1>9
<1> HIDE DEF t
<1>11. number \in Nat /\ number > 1 /\ number - 1 = Len(s)
  BY <1>1
<1>12. autorelease => v[1] \in 1 .. number /\ (v = b.release \/ v[1] > b.release[1])
  <2> SUFFICES ASSUME autorelease PROVE v[1] \in 1 .. number /\ (v = b.release \/ v[1] > b.release[1])
    OBVIOUS
  <2>1. CASE v = b.release
    BY <1>2, <1>11, <2>1
  <2>2. CASE v = <<number>>
    BY <1>2, <1>11, <2>2
  <2> QED BY <1>7, <2>1, <2>2
<1>13. ASSUME NEW u \in 1 .. Len(t)
       PROVE  /\ t[u].dir = Pristine(t[u].dir.content, t[u].dir.release)
              /\ Len(t[u].dir.release) = 1 /\ Len(t[u].release) = 1
              /\ autorelease => t[u].release[1] \in 1 .. u
  <2>1. CASE u \in 1 .. Len(s)
    BY <1>10, <2>1 DEF MirrorIs
  <2>2. CASE u = number
    BY <1>6, <1>7, <1>8, <1>10, <1>12, <2>2
  <2> QED BY <1>10, <1>11, <2>1, <2>2
<1>14. ASSUME autorelease, NEW u \in 2 .. Len(t)
       PROVE  t[u].release = t[u - 1].release \/ t[u].release[1] > t[u - 1].release[1]
  <2>1. CASE u \in 2 .. Len(s)
    <3>1. u \in 1 .. Len(s) /\ u - 1 \in 1 .. Len(s)
      BY <1>1, <2>1
    <3>2. t[u] = s[u] /\ t[u - 1] = s[u - 1]
      BY <1>10, <3>1
    <3>3. s[u].release = s[u - 1].release \/ s[u].release[1] > s[u - 1].release[1]
      BY <1>14, <2>1 DEF MirrorIs
    <3> QED BY <3>2, <3>3
  <2>2. CASE u = number
    <3>1. t[u].release = v /\ t[u - 1].release = b.release
      BY <1>1, <1>8, <1>10, <1>11, <2>2
    <3> QED BY <1>12, <1>14, <3>1
  <2> QED BY <1>10, <1>11, <2>1, <2>2
<1> QED BY <1>9, <1>10, <1>13, <1>14 DEF MirrorIs, t, e, b

LEMMA UpdateUpstreamsKeeps == ASSUME ImporterInv, UpdateUpstreams PROVE ImporterInv'
<1>1. MirrorIs(mirror) /\ autorelease \in BOOLEAN
  BY DEF ImporterInv, MirrorInv
<1>2. PICK unbuilt \in 0 .. 1, edited \in BOOLEAN, bumped \in BOOLEAN, minor \in BOOLEAN :
        /\ bumped = ~autorelease
        /\ minor => ~autorelease
        /\ LET first == Import(Last(mirror), Len(mirror) + 1, TRUE, minor, FALSE)
               last  == IF unbuilt = 1 THEN first ELSE Last(mirror)
           IN mirror' = mirror \o (IF unbuilt = 1 THEN <<first>> ELSE << >>)
                          \o <<Import(last, Len(mirror) + unbuilt + 1, edited, bumped, TRUE)>>
  BY DEF UpdateUpstreams
<1> DEFINE first == Import(Last(mirror), Len(mirror) + 1, TRUE, minor, FALSE)
<1>3. mirror \in Seq(Mirror) /\ Len(mirror) \in Nat
  BY <1>1 DEF MirrorIs
<1>4. MirrorIs(mirror') /\ Len(mirror) <= Len(mirror') /\ \A u \in 1 .. Len(mirror) : mirror'[u] = mirror[u]
  <2>1. CASE unbuilt = 1
    <3>1. PICK e \in Mirror : e = first /\ MirrorIs(Append(mirror, e))
      BY <1>1, <1>2, ImportIs
    <3>2. PICK s \in Seq(Mirror) : s = Append(mirror, e)
      BY <1>3, AppendedIs, Zenon
    <3>3. Len(s) = Len(mirror) + 1 /\ s[Len(mirror) + 1] = e /\ \A u \in 1 .. Len(mirror) : s[u] = mirror[u]
      BY <1>3, <3>2, AppendedIs
    <3>7. Last(s) = e
      BY <3>3 DEF Last
    <3>4. PICK n \in Mirror : n = Import(Last(s), Len(s) + 1, edited, bumped, TRUE) /\ MirrorIs(Append(s, n))
      BY <1>1, <1>2, <3>1, <3>2, ImportIs
    <3>5. mirror' = mirror \o <<e>> \o <<n>>
      <4>1. n = Import(e, Len(mirror) + unbuilt + 1, edited, bumped, TRUE)
        BY <1>3, <2>1, <3>3, <3>4, <3>7
      <4> QED BY <1>2, <2>1, <3>1, <4>1
    <3>6. mirror' = Append(s, n)
      BY <1>3, <3>2, <3>5, AppendIsConcat
    <3>8. Len(mirror') = Len(s) + 1 /\ \A u \in 1 .. Len(s) : mirror'[u] = s[u]
      BY <3>6, AppendedIs
    <3>9. MirrorIs(mirror')
      BY <3>4, <3>6, Zenon
    <3>10. Len(mirror) <= Len(mirror') /\ \A u \in 1 .. Len(mirror) : mirror'[u] = mirror[u]
      BY <1>3, <3>3, <3>8
    <3> QED BY <3>9, <3>10, Zenon
  <2>2. CASE unbuilt = 0
    <3>1. PICK n \in Mirror : n = Import(Last(mirror), Len(mirror) + 1, edited, bumped, TRUE)
                              /\ MirrorIs(Append(mirror, n))
      BY <1>1, <1>2, ImportIs
    <3>2. mirror' = mirror \o << >> \o <<n>>
      <4>1. n = Import(Last(mirror), Len(mirror) + unbuilt + 1, edited, bumped, TRUE)
        BY <1>3, <2>2, <3>1
      <4> QED BY <1>2, <2>2, <4>1
    <3>3. mirror' = Append(mirror, n)
      BY <1>3, <3>2, AppendIsConcat, ConcatEmptySeq
    <3>4. Len(mirror') = Len(mirror) + 1 /\ \A u \in 1 .. Len(mirror) : mirror'[u] = mirror[u]
      BY <1>3, <3>3, AppendedIs
    <3>5. MirrorIs(mirror')
      BY <3>1, <3>3, Zenon
    <3>6. Len(mirror) <= Len(mirror') /\ \A u \in 1 .. Len(mirror) : mirror'[u] = mirror[u]
      BY <1>3, <3>4
    <3> QED BY <3>5, <3>6, Zenon
  <2> QED BY <2>1, <2>2
<1>5. UNCHANGED <<autorelease, main>>
  BY DEF UpdateUpstreams
<1>6. MirrorInv'
  BY <1>1, <1>4, <1>5 DEF MirrorInv, MirrorIs
<1> QED BY <1>4, <1>5, <1>6, MirrorGrows

\* sync() without news goes back to the import.
LEMMA SyncBackKeeps == ASSUME ImporterInv, SyncBack PROVE ImporterInv'
<1> DEFINE base == main[ImportCommit(Len(main))]
           c == [upstream |-> NoUpstream, rebuild |-> FALSE, dir |-> base.dir, json |-> base.json]
<1>1. CASE UNCHANGED main
  <2>1. UNCHANGED <<autorelease, mirror, main>>
    BY <1>1 DEF SyncBack
  <2> QED BY <2>1, StuttersKeep
<1>2. CASE ~UNCHANGED main
  <2>1. main # <<>> /\ main' = Append(main, c) /\ ~(Tip.dir = base.dir /\ Tip.json = base.json)
        /\ UNCHANGED <<autorelease, mirror>>
    BY <1>2 DEF SyncBack, Commit
  <2>2. base.dir \in Dir /\ base.json \in Fields /\ c \in History
    BY <2>1, TipIs DEF History, NoUpstream
  <2>3. /\ LocalBump(Len(main)) \in Nat /\ Len(base.json.release) = 1
        /\ LocalBump(Len(main)) = 0 => Tip.dir = base.dir /\ Tip.json = base.json
        /\ LocalBump(Len(main)) > 0 => Len(Tip.json.release) > 1
    BY <2>1, TipIs
  <2>4. base.json # Tip.json
    <3> HIDE DEF base
    <3>1. CASE LocalBump(Len(main)) = 0
      BY <2>1, <2>3, <3>1
    <3>2. CASE LocalBump(Len(main)) > 0
      <4>1. Len(Tip.json.release) > 1 /\ ~(1 > 1)
        BY <2>3, <3>2
      <4>2. Tip.json.release # base.json.release
        BY <2>3, <4>1, Zenon
      <4> QED BY <4>2
    <3> QED BY <2>3, <3>1, <3>2
  <2>5. c.json.date = Tip.json.date
    BY <2>1, TipIs DEF Predicted
  <2> HIDE DEF base
  <2>6. c.dir = base.dir /\ c.json = base.json /\ c.upstream = NoUpstream /\ ~c.rebuild
    OBVIOUS
  <2> HIDE DEF c
  <2> QED BY <2>1, <2>2, <2>4, <2>5, <2>6, LocalKeeps DEF base
<1> QED BY <1>1, <1>2

\* rebuild() counts one further, ...
LEMMA RebuildKeeps == ASSUME ImporterInv, Rebuild PROVE ImporterInv'
<1> DEFINE base == main[ImportCommit(Len(main))]
           bump == LocalBump(Len(main))
           json == [Tip.json EXCEPT !.release = Bumped(Tip.json.release, bump)]
           dir == IF autorelease THEN Tip.dir ELSE [Tip.dir EXCEPT !.release = Bumped(Tip.dir.release, bump)]
           c == [upstream |-> NoUpstream, rebuild |-> autorelease, dir |-> dir, json |-> json]
<1>1. main # <<>> /\ main' = Append(main, c) /\ UNCHANGED <<autorelease, mirror>>
  BY DEF Rebuild, Commit
<1>2. /\ Tip.dir \in Dir /\ Tip.dir.release \in Number /\ Tip.json \in Fields /\ Tip.json.release \in Number
      /\ base.json.release \in Number /\ Len(base.json.release) = 1
      /\ bump \in Nat
      /\ bump = 0 => Tip.json = base.json
      /\ bump > 0 =>
           /\ Len(Tip.json.release) > 1 /\ Last(Tip.json.release) = bump
           /\ ~autorelease => Len(Tip.dir.release) > 1 /\ Last(Tip.dir.release) = bump
  BY <1>1, TipIs
<1>3. autorelease \in BOOLEAN
  BY DEF ImporterInv, MirrorInv
<1> DEFINE jr == Bumped(Tip.json.release, bump)
           dr == Bumped(Tip.dir.release, bump)
<1>4. jr \in Number /\ Len(jr) > 1 /\ Last(jr) = bump + 1 /\ jr # Tip.json.release
  BY <1>2, BumpedIs
<1>5. ~autorelease => dr \in Number /\ Len(dr) > 1 /\ Last(dr) = bump + 1 /\ dr # Tip.dir.release
  BY <1>2, BumpedIs
<1>6. autorelease => jr = Append(base.json.release, bump + 1)
  <2> SUFFICES ASSUME autorelease PROVE jr = Append(base.json.release, bump + 1)
    OBVIOUS
  <2>1. CASE bump = 0
    <3>1. jr = Append(Tip.json.release, 1) /\ Tip.json = base.json /\ bump + 1 = 1
      BY <1>2, <2>1 DEF Bumped
    <3> QED BY <3>1
  <2>2. CASE bump > 0
    <3>1. Tip.json.release = Append(base.json.release, bump)
      BY <1>1, <2>2, AutoreleaseIs
    <3> HIDE DEF bump, base
    <3> QED BY <1>2, <2>2, <3>1, BumpedAgain
  <2> QED BY <1>2, <2>1, <2>2
<1> HIDE DEF jr, dr, bump, base
<1>7. json = [release |-> jr, date |-> Tip.json.date] /\ json \in Fields /\ json # Tip.json
  BY <1>2, <1>4 DEF Fields, jr
<1>8. /\ dir \in Dir
      /\ IF autorelease THEN dir = Tip.dir ELSE dir.release = dr /\ dir # Tip.dir
  <2>1. CASE autorelease
    BY <1>2, <2>1
  <2>2. CASE ~autorelease
    BY <1>2, <1>5, <2>2 DEF Dir, dr
  <2> QED BY <2>1, <2>2
<1> HIDE DEF json, dir
<1>9. c \in History /\ c.upstream = NoUpstream /\ c.rebuild = autorelease /\ c.dir = dir /\ c.json = json
  BY <1>3, <1>7, <1>8 DEF History, NoUpstream
<1> HIDE DEF c
<1>10. c.json # Tip.json /\ c.json.date = Tip.json.date /\ c.json.release = jr
  BY <1>7, <1>9
<1>11. \/ c.dir = base.dir /\ c.json = base.json
       \/ /\ c.dir # Tip.dir \/ c.rebuild
          /\ Len(c.json.release) > 1 /\ Last(c.json.release) = bump + 1
          /\ IF autorelease THEN c.json.release = Append(base.json.release, bump + 1)
             ELSE /\ c.dir.release = Bumped(Tip.dir.release, bump)
                  /\ Len(c.dir.release) > 1 /\ Last(c.dir.release) = bump + 1
  BY <1>3, <1>4, <1>5, <1>6, <1>8, <1>9, <1>10 DEF dr
<1>12. c.rebuild => autorelease /\ c.dir = Tip.dir
  BY <1>8, <1>9
<1> QED BY <1>1, <1>9, <1>10, <1>11, <1>12, LocalKeeps DEF base, bump

\* ... and so does a person.
LEMMA ModifyKeeps == ASSUME ImporterInv, Modify PROVE ImporterInv'
<1> DEFINE base == main[ImportCommit(Len(main))]
           bump == LocalBump(Len(main))
           jr == Append(base.json.release, bump + 1)
           dr == Bumped(Tip.dir.release, bump)
<1>1. main # <<>> /\ UNCHANGED <<autorelease, mirror>>
  BY DEF Modify
<1>2. PICK ours \in {NoChange, Len(main) + 1} :
        /\ ours # Tip.dir.ours
        /\ LET dir == [Tip.dir EXCEPT !.ours = ours, !.release = IF autorelease THEN @ ELSE dr]
           IN main' = Append(main, [upstream |-> NoUpstream, rebuild |-> FALSE, dir |-> dir,
                                    json |-> [Tip.json EXCEPT !.release = IF autorelease THEN jr ELSE dir.release]])
  BY DEF Modify, Commit
<1> DEFINE dir == [Tip.dir EXCEPT !.ours = ours, !.release = IF autorelease THEN @ ELSE dr]
           json == [Tip.json EXCEPT !.release = IF autorelease THEN jr ELSE dir.release]
           c == [upstream |-> NoUpstream, rebuild |-> FALSE, dir |-> dir, json |-> json]
<1>3. /\ Tip.dir \in Dir /\ Tip.dir.release \in Number /\ Tip.json \in Fields /\ Tip.json.release \in Number
      /\ base.json.release \in Number /\ Len(base.json.release) = 1
      /\ bump \in Nat /\ Len(main) \in Nat
      /\ bump = 0 => Tip.json = base.json
      /\ bump > 0 =>
           /\ Len(Tip.json.release) > 1 /\ Last(Tip.json.release) = bump
           /\ ~autorelease => Len(Tip.dir.release) > 1 /\ Last(Tip.dir.release) = bump
  BY <1>1, TipIs
<1>4. main' = Append(main, c)
  BY <1>2
<1>5. jr \in Number /\ Len(jr) > 1 /\ Last(jr) = bump + 1
  <2> HIDE DEF bump, base
  <2>1. /\ base.json.release \in Seq(Nat) /\ bump + 1 \in Nat
    BY <1>3 DEF Number
  <2>2. jr \in Seq(Nat) /\ Len(jr) = Len(base.json.release) + 1 /\ jr[Len(base.json.release) + 1] = bump + 1
    BY <2>1, AppendIs
  <2> HIDE DEF jr
  <2>3. Len(jr) > 1 /\ jr[Len(jr)] = bump + 1
    BY <1>3, <2>2
  <2> QED BY <2>2, <2>3 DEF Number, Last
<1>6. ~autorelease => dr \in Number /\ Len(dr) > 1 /\ Last(dr) = bump + 1
  BY <1>3, BumpedIs
<1>7. bump = 0 => Len(Tip.json.release) = 1
  BY <1>3
<1> HIDE DEF jr, dr, bump, base
<1>8. dir \in Dir /\ dir.ours = ours /\ dir.release = (IF autorelease THEN Tip.dir.release ELSE dr)
  <2>1. ours \in Nat
    BY <1>3 DEF NoChange
  <2>2. PICK d \in Dir, e \in Number : d = Tip.dir /\ e = (IF autorelease THEN d.release ELSE dr)
    BY <1>3, <1>6
  <2>3. dir = [d EXCEPT !.ours = ours, !.release = e]
    BY <2>2
  <2>4. dir \in Dir /\ dir.ours = ours /\ dir.release = e
    BY <2>1, <2>3 DEF Dir
  <2> HIDE DEF dir
  <2> QED BY <2>2, <2>4
<1> HIDE DEF dir
<1> DEFINE r == IF autorelease THEN jr ELSE dr
<1>9. r \in Number /\ Len(r) > 1 /\ Last(r) = bump + 1
  BY <1>5, <1>6
<1>10. json = [release |-> r, date |-> Tip.json.date]
  BY <1>3, <1>8 DEF Fields
<1> HIDE DEF r, json
<1>11. json \in Fields /\ json.release = r /\ json.date = Tip.json.date
  BY <1>3, <1>9, <1>10 DEF Fields
<1>12. Tip.json.release # r
  <2>1. CASE bump = 0
    <3>1. Len(Tip.json.release) = 1 /\ ~(1 > 1)
      BY <1>7, <2>1
    <3> QED BY <1>9, <3>1, Zenon
  <2>2. CASE bump > 0
    BY <1>3, <1>9, <2>2
  <2> QED BY <1>3, <2>1, <2>2
<1>13. c \in History /\ c.upstream = NoUpstream /\ ~c.rebuild /\ c.dir = dir /\ c.json = json
  BY <1>8, <1>11 DEF History, NoUpstream
<1> HIDE DEF c
<1>14. c.json # Tip.json /\ c.json.date = Tip.json.date /\ c.dir # Tip.dir
  BY <1>2, <1>8, <1>11, <1>12, <1>13
<1>15. /\ c.dir # Tip.dir \/ c.rebuild
       /\ Len(c.json.release) > 1 /\ Last(c.json.release) = bump + 1
       /\ IF autorelease THEN c.json.release = Append(base.json.release, bump + 1)
          ELSE /\ c.dir.release = Bumped(Tip.dir.release, bump)
               /\ Len(c.dir.release) > 1 /\ Last(c.dir.release) = bump + 1
  <2>1. CASE autorelease
    BY <1>9, <1>11, <1>13, <1>14, <2>1 DEF r, jr
  <2>2. CASE ~autorelease
    BY <1>6, <1>8, <1>9, <1>11, <1>13, <1>14, <2>2 DEF dr
  <2> QED BY <2>1, <2>2
<1> QED BY <1>1, <1>4, <1>13, <1>14, <1>15, LocalKeeps DEF base, bump

\* -- A replay
\* Where replay() may put the mirror's commit u on top of a directory.
Placed(u, first, takeUpstream, ours) ==
  IF takeUpstream /\ u = first THEN {mirror[u].dir}
  ELSE IF u = 1 THEN {mirror[u].dir}
  ELSE Merges(mirror[u - 1].dir, mirror[u].dir, ours)

Made(u, dir) == [upstream |-> u, rebuild |-> FALSE, dir |-> dir, json |-> Predicted(u)]
On(h) == IF h = << >> THEN mirror[1].dir ELSE Last(h).dir

\* The histories that end with the commits up to each.
ChainIs(commits, first, take, n, f) ==
  f = [u \in first - 1 .. n |->
         IF u < first THEN {commits}
         ELSE UNION {{Append(h, Made(u, d)) : d \in Placed(u, first, take, On(h))} : h \in f[u - 1]}]

\* replay() makes a history of every commit on the way.
LEMMA ChainExists ==
  ASSUME NEW commits, NEW first \in Nat, first > 0, NEW take, NEW n \in Nat
  PROVE  \E f : ChainIs(commits, first, take, n, f)
<1> DEFINE Step(f, u) ==
             IF u < first THEN {commits}
             ELSE UNION {{Append(h, Made(u, d)) : d \in Placed(u, first, take, On(h))} : h \in f[u - 1]}
           Part(k, f) == f = [u \in first - 1 .. k |-> Step(f, u)]
           X == {k \in Nat : ~ \E f : Part(k, f)}
<1>1. ASSUME X # {} PROVE FALSE
  <2>1. PICK k \in X : \A j \in X : k <= j
    <3> HIDE DEF X
    <3>1. X \subseteq Nat
      BY DEF X
    <3> QED BY <1>1, <3>1, LeastIs
  <2>2. k \in Nat
    BY <2>1
  <2>3. CASE k < first
    <3> DEFINE f == [u \in first - 1 .. k |-> {commits}]
    <3>1. \A u \in first - 1 .. k : u < first
      BY <2>2, <2>3
    <3>2. Part(k, f)
      BY <3>1
    <3> QED BY <2>1, <3>2
  <2>4. CASE k >= first
    <3>1. k - 1 \in Nat /\ k - 1 \notin X
      <4> HIDE DEF X
      <4> QED BY <2>1, <2>2, <2>4
    <3>2. PICK f : Part(k - 1, f)
      BY <3>1
    <3> DEFINE g == [u \in first - 1 .. k |-> IF u = k THEN Step(f, u) ELSE f[u]]
    <3>3. ASSUME NEW u \in first - 1 .. k PROVE g[u] = Step(g, u)
      <4>1. u - 1 < k /\ u - 1 # k /\ u \in Int
        BY <2>2
      <4>2. u >= first => u - 1 \in first - 1 .. k /\ g[u - 1] = f[u - 1]
        BY <2>2, <4>1
      <4>3. Step(g, u) = Step(f, u)
        <5>1. CASE u < first
          BY <5>1
        <5>2. CASE ~(u < first)
          <6>1. g[u - 1] = f[u - 1]
            BY <4>1, <4>2, <5>2
          <6> HIDE DEF g
          <6> QED BY <6>1
        <5> QED BY <5>1, <5>2
      <4>4. CASE u = k
        <5>1. g[u] = Step(f, u)
          BY <4>4
        <5> QED BY <4>3, <5>1
      <4>5. CASE u # k
        <5>1. u \in first - 1 .. k - 1 /\ g[u] = f[u]
          BY <2>2, <4>5
        <5>2. f[u] = Step(f, u)
          <6> HIDE DEF Step
          <6> QED BY <3>2, <5>1
        <5> QED BY <4>3, <5>1, <5>2
      <4> QED BY <4>4, <4>5
    <3>4. Part(k, g)
      <4> HIDE DEF Step
      <4>1. \A u \in first - 1 .. k : g[u] = Step(g, u)
        BY <3>3
      <4>2. g = [u \in first - 1 .. k |-> g[u]]
        OBVIOUS
      <4> HIDE DEF g
      <4> QED BY <4>1, <4>2
    <3> QED BY <2>1, <3>4
  <2> QED BY <2>2, <2>3, <2>4
<1>2. \E f : Part(n, f)
  BY <1>1
<1> QED BY <1>2 DEF ChainIs
\* Whatever replay() places on a directory of D is in D.
StaysIn(D, first, takeUpstream) ==
  \A u \in first .. Len(mirror) : \A d \in D : Placed(u, first, takeUpstream, d) \subseteq D

\* A replay adds one commit for each of the mirror's, and places none outside D if
\* nothing that is placed on D is.
LEMMA ReplaysAre ==
  ASSUME NEW commits \in Seq(History), NEW first \in Nat, first > 0, Len(mirror) \in Nat, first <= Len(mirror), NEW take,
         \A u \in first .. Len(mirror) : Predicted(u) \in Fields,
         NEW D \in SUBSET Dir, On(commits) \in D,
         StaysIn(D, first, take),
         NEW h \in Replays(commits, first, take)
  PROVE  /\ h \in Seq(History) /\ Len(h) = Len(commits) + Len(mirror) - first + 1
         /\ \A k \in 1 .. Len(commits) : h[k] = commits[k]
         /\ \A k \in Len(commits) + 1 .. Len(h) :
              h[k].dir \in D /\ h[k] = Made(first + (k - Len(commits)) - 1, h[k].dir)
<1> DEFINE l == Len(commits)
           n == Len(mirror)
           Fine(u, g) ==
             /\ g \in Seq(History) /\ Len(g) = l + u - first + 1 /\ On(g) \in D
             /\ \A k \in 1 .. l : g[k] = commits[k]
             /\ \A k \in l + 1 .. Len(g) : g[k].dir \in D /\ g[k] = Made(first + (k - l) - 1, g[k].dir)
<1>1. l \in Nat /\ n \in Nat
  OBVIOUS
<1>2. PICK f : ChainIs(commits, first, take, n, f)
  BY ChainExists
<1> DEFINE c == CHOOSE e : ChainIs(commits, first, take, n, e)
<1>3. ChainIs(commits, first, take, n, c)
  <2> HIDE DEF n
  <2> QED BY <1>2
<1>4. Replays(commits, first, take) = c[n]
  BY DEF Replays, ChainIs, Placed, Made, On
<1> HIDE DEF c
<1>5. \A u \in first - 1 .. n :
        c[u] = IF u < first THEN {commits}
               ELSE UNION {{Append(g, Made(u, d)) : d \in Placed(u, first, take, On(g))} : g \in c[u - 1]}
  BY <1>3 DEF ChainIs
<1>6. \A g \in c[first - 1] : Fine(first - 1, g)
  <2>1. first - 1 \in first - 1 .. n /\ first - 1 < first
    BY <1>1
  <2>2. c[first - 1] = {commits}
    BY <1>5, <2>1
  <2>3. Fine(first - 1, commits)
    BY <1>1
  <2> QED BY <2>2, <2>3
<1>7. ASSUME NEW u \in first .. n, \A g \in c[u - 1] : Fine(u - 1, g)
      PROVE  \A g \in c[u] : Fine(u, g)
  <2> TAKE g \in c[u]
  <2>1. u \in first - 1 .. n /\ ~(u < first) /\ u \in Nat
    BY <1>1
  <2>2. PICK s \in c[u - 1] : \E d \in Placed(u, first, take, On(s)) : g = Append(s, Made(u, d))
    <3>1. c[u] = UNION {{Append(e, Made(u, d)) : d \in Placed(u, first, take, On(e))} : e \in c[u - 1]}
      BY <1>5, <2>1
    <3> QED BY <3>1, Zenon
  <2>3. PICK d \in Placed(u, first, take, On(s)) : g = Append(s, Made(u, d))
    BY <2>2
  <2>4. Fine(u - 1, s)
    BY <1>7
  <2>5. d \in D /\ d \in Dir
    BY <2>4 DEF StaysIn
  <2>6. Made(u, d) \in History /\ Made(u, d).dir = d
    BY <2>1, <2>5 DEF Made, History
  <2>7. PICK m \in History : m = Made(u, d)
    BY <2>6
  <2>8. s \in Seq(History) /\ Len(s) = l + u - first /\ Len(s) \in Nat
    BY <1>1, <2>1, <2>4
  <2>9. /\ g \in Seq(History) /\ g # << >> /\ Len(g) = Len(s) + 1 /\ g[Len(g)] = m
        /\ \A k \in 1 .. Len(s) : g[k] = s[k]
    <3>1. g = Append(s, m) /\ s \in Seq(History)
      BY <2>3, <2>7, <2>8
    <3>2. /\ Append(s, m) \in Seq(History) /\ Len(Append(s, m)) = Len(s) + 1 /\ Append(s, m)[Len(s) + 1] = m
          /\ \A k \in 1 .. Len(s) : Append(s, m)[k] = s[k]
      BY <3>1, AppendedIs
    <3>3. g \in Seq(History) /\ Len(g) = Len(s) + 1 /\ g[Len(s) + 1] = m /\ \A k \in 1 .. Len(s) : g[k] = s[k]
      BY <3>1, <3>2, Zenon
    <3>4. g # << >>
      BY <2>8, <3>3
    <3> QED BY <3>3, <3>4
  <2>10. On(g) = d
    BY <2>6, <2>7, <2>9 DEF On, Last
  <2>11. \A k \in 1 .. l : g[k] = commits[k]
    BY <1>1, <2>1, <2>4, <2>8, <2>9
  <2>12. ASSUME NEW k \in l + 1 .. Len(g) PROVE g[k].dir \in D /\ g[k] = Made(first + (k - l) - 1, g[k].dir)
    <3>1. CASE k = Len(g)
      <4>1. first + (k - l) - 1 = u
        BY <1>1, <2>1, <2>8, <2>9, <3>1
      <4> QED BY <2>5, <2>6, <2>7, <2>9, <3>1, <4>1
    <3>2. CASE k # Len(g)
      <4>1. k \in l + 1 .. Len(s) /\ k \in 1 .. Len(s)
        <5>1. Len(s) >= l /\ k <= Len(s) + 1 /\ k # Len(s) + 1 /\ k \in Int /\ k > l
          BY <1>1, <2>1, <2>8, <2>9, <3>2
        <5> QED BY <1>1, <2>8, <5>1
      <4> QED BY <2>4, <2>9, <4>1
    <3> QED BY <3>1, <3>2
  <2>13. Len(g) = l + u - first + 1
    BY <1>1, <2>1, <2>8, <2>9
  <2> QED BY <2>5, <2>9, <2>10, <2>11, <2>12, <2>13
<1> HIDE DEF Fine
<1>8. \A u \in first - 1 .. n : \A g \in c[u] : Fine(u, g)
  <2> DEFINE X == {u \in first - 1 .. n : ~ \A g \in c[u] : Fine(u, g)}
  <2>1. ASSUME X # {} PROVE FALSE
    <3>1. X \subseteq Nat
      BY <1>1
    <3>2. PICK u \in X : \A v \in X : u <= v
      <4> HIDE DEF X
      <4> QED BY <2>1, <3>1, LeastIs
    <3>3. CASE u = first - 1
      BY <1>6, <3>2, <3>3
    <3>4. CASE u # first - 1
      <4>1. u \in first .. n /\ u - 1 \in first - 1 .. n /\ u - 1 < u
        BY <1>1, <3>2, <3>4
      <4>2. u - 1 \notin X
        <5> HIDE DEF X
        <5> QED BY <3>1, <3>2, <4>1
      <4>3. \A g \in c[u - 1] : Fine(u - 1, g)
        BY <4>1, <4>2
      <4> QED BY <1>7, <3>2, <4>1, <4>3
    <3> QED BY <3>3, <3>4
  <2> QED BY <2>1
<1>9. h \in c[n] /\ n \in first - 1 .. n
  BY <1>1, <1>4
<1>10. Fine(n, h)
  BY <1>8, <1>9
<1> QED BY <1>10 DEF Fine

\* The mirror's commits are directories, and so is what replay() makes of them.
LEMMA MirroredIs ==
  ASSUME MirrorInv, NEW u \in 1 .. Len(mirror)
  PROVE  /\ mirror[u].dir \in Dir /\ mirror[u].dir.content \in Nat /\ mirror[u].dir.release \in Number
         /\ mirror[u].dir.ours = NoChange /\ ~mirror[u].dir.marked
         /\ mirror[u].release \in Number /\ Len(mirror[u].release) = 1
         /\ Predicted(u) \in Fields /\ Predicted(u).release = mirror[u].release /\ Predicted(u).date = u
<1>1. mirror \in Seq(Mirror) /\ Len(mirror) \in Nat
  BY DEF MirrorInv, MirrorIs
<1>2. mirror[u] \in Mirror /\ u \in Nat
  BY <1>1
<1>3. mirror[u].dir = Pristine(mirror[u].dir.content, mirror[u].dir.release) /\ Len(mirror[u].release) = 1
  BY DEF MirrorInv, MirrorIs
<1>4. mirror[u].dir \in Dir /\ mirror[u].release \in Number
  BY <1>2 DEF Mirror
<1>5. mirror[u].dir.ours = NoChange /\ ~mirror[u].dir.marked
  BY <1>3 DEF Pristine
<1>6. Predicted(u) \in Fields /\ Predicted(u).release = mirror[u].release /\ Predicted(u).date = u
  BY <1>2, <1>4 DEF Predicted, Fields
<1>7. mirror[u].dir.content \in Nat /\ mirror[u].dir.release \in Number
  BY <1>4 DEF Dir
<1> QED BY <1>3, <1>4, <1>5, <1>6, <1>7

\* A merge keeps the package's own modification.
LEMMA MergesIs ==
  ASSUME NEW base \in Dir, NEW theirs \in Dir, NEW ours \in Dir, NEW d \in Merges(base, theirs, ours)
  PROVE  d \in Dir /\ d.ours = ours.ours
<1>1. /\ theirs.content \in Nat /\ theirs.release \in Number
      /\ ours.release \in Number /\ ours.ours \in Nat /\ ours.marked \in BOOLEAN
  BY DEF Dir
<1>2. Line(base.release, theirs.release, ours.release) \subseteq {theirs.release, ours.release}
  BY DEF Line
<1> DEFINE Clean(r) == [content |-> theirs.content, release |-> r, ours |-> ours.ours, marked |-> ours.marked]
           met == [content |-> theirs.content, release |-> ours.release, ours |-> ours.ours, marked |-> TRUE]
<1>3. \/ \E r \in Line(base.release, theirs.release, ours.release) : d = Clean(r)
      \/ d = met
  BY DEF Merges
<1>4. ASSUME NEW r \in Line(base.release, theirs.release, ours.release), d = Clean(r)
      PROVE  d \in Dir /\ d.ours = ours.ours
  <2>1. r \in Number
    BY <1>1, <1>2
  <2> QED BY <1>1, <1>4, <2>1 DEF Dir
<1>5. ASSUME d = met PROVE d \in Dir /\ d.ours = ours.ours
  BY <1>1, <1>5 DEF Dir
<1> QED BY <1>3, <1>4, <1>5

\* What is placed on a directory keeps its modification, but for upstream's own.
LEMMA PlacedIs ==
  ASSUME MirrorInv, NEW u \in 1 .. Len(mirror), NEW first, NEW take, NEW ours \in Dir, NEW d \in Placed(u, first, take, ours)
  PROVE  /\ d \in Dir
         /\ u > 1 /\ ~(take /\ u = first) => d.ours = ours.ours
         /\ take /\ u = first => d = mirror[u].dir
<1>1. Len(mirror) \in Nat /\ mirror[u].dir \in Dir
  BY MirroredIs DEF MirrorInv, MirrorIs
<1>2. u # 1 => u - 1 \in 1 .. Len(mirror)
  BY <1>1
<1>3. u # 1 => mirror[u - 1].dir \in Dir
  BY <1>2, MirroredIs
<1>4. CASE d \in Merges(mirror[u - 1].dir, mirror[u].dir, ours) /\ u # 1 /\ ~(take /\ u = first)
  BY <1>1, <1>3, <1>4, MergesIs
<1>5. CASE ~(d \in Merges(mirror[u - 1].dir, mirror[u].dir, ours) /\ u # 1 /\ ~(take /\ u = first))
  BY <1>1, <1>5 DEF Placed
<1> QED BY <1>4, <1>5

\* A commit with a trailer imports the package, and nothing is counted yet.
LEMMA ImportedIs ==
  ASSUME NEW i \in Nat, i > 0, main'[i].upstream # NoUpstream, Touches(i)'
  PROVE  ImportCommit(i)' = i /\ LocalBump(i)' = 0 /\ ~ResetsToImport(i)'
<1> DEFINE S == {j \in 1 .. i : main'[j].upstream # NoUpstream /\ Touches(j)'}
<1>1. S \in SUBSET (0 .. i) /\ i \in S
  OBVIOUS
<1>2. Greatest(S) = i
  <2>1. Greatest(S) \in S /\ i <= Greatest(S)
    BY <1>1, GreatestIs
  <2> QED BY <2>1
<1>3. ImportCommit(i)' = i
  BY <1>2 DEF ImportCommit, Greatest
<1> DEFINE R == {i} \cup {j \in i + 1 .. i : Touches(j)' /\ ResetsToImport(j)'}
           C == {j \in Greatest(R) + 1 .. i : Changes(j, "dir")' \/ main'[j].rebuild}
<1>4. LocalBump(i)' = Cardinality(C)
  BY <1>3 DEF LocalBump, Greatest
<1>5. R = {i} /\ R \in SUBSET (0 .. i)
  OBVIOUS
<1>6. Greatest(R) = i
  BY <1>5, GreatestIs
<1>7. C = {}
  <2> HIDE DEF R
  <2> QED BY <1>6
<1>8. LocalBump(i)' = 0
  BY <1>4, <1>7, FS_EmptySet
<1> QED BY <1>3, <1>8 DEF ResetsToImport

LEMMA ReplayIs ==
  ASSUME ImporterInv, NEW first, first = (IF main = <<>> THEN 1 ELSE Anchor + 1), first <= Len(mirror),
         NEW take, NEW h \in Replays(main, first, take)
  PROVE  /\ first \in Nat /\ first > 0
         /\ h \in Seq(History) /\ Len(h) = Len(main) + Len(mirror) - first + 1
         /\ \A k \in 1 .. Len(main) : h[k] = main[k]
         /\ \A k \in Len(main) + 1 .. Len(h) : h[k] = Made(first + (k - Len(main)) - 1, h[k].dir)
<1>1. MirrorInv /\ CommitsInv
  BY DEF ImporterInv
<1>2. main \in Seq(History) /\ Len(mirror) \in Nat /\ Len(mirror) > 0
  BY <1>1 DEF CommitsInv, MirrorInv, MirrorIs
<1>3. first \in Nat /\ first > 0
  <2>1. CASE main = <<>>
    BY <2>1
  <2>2. CASE main # <<>>
    <3>1. Anchor \in Nat
      BY <1>2, <2>2, TipIs
    <3> QED BY <2>2, <3>1
  <2> QED BY <2>1, <2>2
<1>4. \A u \in first .. Len(mirror) : u \in 1 .. Len(mirror)
  BY <1>2, <1>3
<1>5. On(main) \in Dir
  <2>1. CASE main = <<>>
    BY <1>1, <1>2, <2>1, MirroredIs DEF On
  <2>2. CASE main # <<>>
    BY <2>2, TipIs DEF On, Tip
  <2> QED BY <2>1, <2>2
<1>6. \A u \in first .. Len(mirror) : Predicted(u) \in Fields
  BY <1>1, <1>4, MirroredIs
<1>7. StaysIn(Dir, first, take)
  BY <1>1, <1>4, PlacedIs DEF StaysIn
<1>8. Dir \in SUBSET Dir
  OBVIOUS
<1>9. /\ h \in Seq(History) /\ Len(h) = Len(main) + Len(mirror) - first + 1
      /\ \A k \in 1 .. Len(main) : h[k] = main[k]
      /\ \A k \in Len(main) + 1 .. Len(h) : h[k].dir \in Dir /\ h[k] = Made(first + (k - Len(main)) - 1, h[k].dir)
  BY <1>2, <1>3, <1>5, <1>6, <1>7, <1>8, ReplaysAre
<1> QED BY <1>3, <1>9

\* A replay keeps the invariant, whatever its merges come to.
LEMMA ReplayKeeps ==
  ASSUME ImporterInv, UNCHANGED <<autorelease, mirror>>,
         NEW first, first = (IF main = <<>> THEN 1 ELSE Anchor + 1), first <= Len(mirror),
         NEW take, main' \in Replays(main, first, take)
  PROVE  ImporterInv'
<1>1. MirrorInv /\ CommitsInv /\ VerbsPassCheck
  BY DEF ImporterInv
<1>2. /\ first \in Nat /\ first > 0
      /\ main' \in Seq(History) /\ Len(main') = Len(main) + Len(mirror) - first + 1
      /\ \A k \in 1 .. Len(main) : main'[k] = main[k]
      /\ \A k \in Len(main) + 1 .. Len(main') : main'[k] = Made(first + (k - Len(main)) - 1, main'[k].dir)
  BY ReplayIs
<1>3. Len(mirror) \in Nat /\ Len(main) \in Nat /\ Len(main') \in Nat
  BY <1>1, <1>2 DEF CommitsInv, MirrorInv, MirrorIs
<1>11. first \in Nat /\ first > 0
  BY <1>2
<1>4. Kept
  BY <1>2, <1>3 DEF Kept
<1>5. MirrorInv'
  BY <1>1 DEF MirrorInv, MirrorIs
<1>6. ASSUME NEW i \in 1 .. Len(main)
      PROVE  ImportInv(i)' /\ LocalInv(i)' /\ BumpInv(i)' /\ CommitOk(i)'
  <2>1. LocalInv(i)' /\ BumpInv(i)' /\ (main[i].upstream = NoUpstream => ImportInv(i)')
    BY <1>1, <1>4, CommitStays
  <2>2. CommitOk(i)'
    <3>1. CommitOk(i)
      BY <1>1 DEF VerbsPassCheck, CommitsInv
    <3> QED BY <1>1, <1>4, <3>1, CommitStays
  <2>3. ASSUME main[i].upstream # NoUpstream PROVE ImportInv(i)'
    <3>1. ImportInv(i) /\ main'[i] = main[i] /\ (i > 1 => main'[i - 1] = main[i - 1])
      BY <1>1, <1>2, <1>3 DEF CommitsInv
    <3> QED BY <2>3, <3>1 DEF ImportInv, Predicted
  <2> QED BY <2>1, <2>2, <2>3
<1>7. ASSUME NEW i \in Len(main) + 1 .. Len(main')
      PROVE  ImportInv(i)' /\ LocalInv(i)' /\ BumpInv(i)' /\ CommitOk(i)'
  <2>1. PICK u \in 1 .. Len(mirror) : u = first + (i - Len(main)) - 1
    BY <1>2, <1>3
  <2>2. /\ main'[i].upstream = u /\ ~main'[i].rebuild /\ main'[i].json = Predicted(u)
        /\ i \in Nat /\ i > 0 /\ u # NoUpstream
    <3>1. main'[i] = Made(u, main'[i].dir) /\ i \in Nat /\ i > 0 /\ u \in Nat /\ u > 0
      BY <1>2, <1>3, <2>1
    <3> QED BY <3>1 DEF Made, NoUpstream
  <2>3. main'[i].json.date = u /\ main'[i].json.release = mirror[u].release /\ Predicted(u)' = Predicted(u)
    BY <1>1, <2>2, MirroredIs DEF Predicted
  <2>4. ASSUME i > 1
        PROVE  /\ u - 1 \in 1 .. Len(mirror) /\ main'[i - 1].json.date = u - 1
               /\ Len(main'[i - 1].json.release) = 1 => main'[i - 1].json.release = mirror[u - 1].release
    <3>1. CASE i > Len(main) + 1
      <4>1. i - 1 \in Len(main) + 1 .. Len(main') /\ u - 1 = first + ((i - 1) - Len(main)) - 1 /\ u - 1 \in 1 .. Len(mirror)
        <5>1. /\ i \in Int /\ Len(main) \in Int /\ u \in Int
              /\ Len(main) + 1 < i /\ i <= Len(main') /\ u = first + (i - Len(main)) - 1
          BY <1>3, <2>1, <3>1
        <5>2. u > first /\ u <= Len(mirror)
          BY <1>2, <1>3, <2>1, <5>1
        <5>3. i - 1 \in Len(main) + 1 .. Len(main')
          BY <1>3, <5>1
        <5>4. u - 1 \in 1 .. Len(mirror)
          BY <1>3, <1>11, <5>1, <5>2
        <5>5. u - 1 = first + ((i - 1) - Len(main)) - 1
          <6>1. first \in Int
            BY <1>11
          <6> QED BY <5>1, <6>1
        <5> QED BY <5>3, <5>4, <5>5
      <4>2. main'[i - 1] = Made(u - 1, main'[i - 1].dir)
        BY <1>2, <4>1
      <4>3. main'[i - 1].json = Predicted(u - 1)
        BY <4>2 DEF Made
      <4> QED BY <1>1, <4>1, <4>3, MirroredIs
    <3>2. CASE i = Len(main) + 1
      <4>1. main # <<>> /\ i - 1 = Len(main) /\ i - 1 \in 1 .. Len(main) /\ u = first
        BY <1>1, <1>2, <1>3, <2>1, <2>4, <3>2 DEF CommitsInv
      <4>2. u - 1 = Anchor /\ main'[i - 1] = Tip /\ Anchor \in 1 .. Len(mirror) /\ Tip.json.date = Anchor
        <5>1. main' [i - 1] = main[i - 1] /\ first = Anchor + 1
          BY <1>2, <4>1
        <5>2. Anchor \in 1 .. Len(mirror) /\ Tip = main[Len(main)] /\ Tip.json.date = Anchor
          BY <4>1, TipIs
        <5> QED BY <1>3, <4>1, <5>1, <5>2
      <4>3. ASSUME Len(Tip.json.release) = 1 PROVE Tip.json = Predicted(Anchor)
        <5>1. LocalBump(Len(main)) \in Nat /\ (LocalBump(Len(main)) > 0 => Len(Tip.json.release) > 1)
          BY <4>1, TipIs
        <5>2. LocalBump(Len(main)) = 0
          BY <4>3, <5>1
        <5> QED BY <4>1, <5>2, TipIs
      <4>4. Predicted(Anchor).release = mirror[Anchor].release
        BY <1>1, <4>2, MirroredIs
      <4> QED BY <4>2, <4>3, <4>4
    <3> QED BY <1>3, <3>1, <3>2
  <2>5. Touches(i)'
    <3>1. i # 1 => main'[i].json # main'[i - 1].json
      BY <2>1, <2>2, <2>3, <2>4
    <3> QED BY <3>1 DEF Touches, Changes
  <2>6. ImportCommit(i)' = i /\ LocalBump(i)' = 0
    BY <2>2, <2>5, ImportedIs
  <2>7. ImportInv(i)'
    BY <2>1, <2>2, <2>3, <2>4 DEF ImportInv
  <2>8. LocalInv(i)' /\ BumpInv(i)'
    BY <2>2, <2>6 DEF LocalInv, BumpInv
  <2>9. ImportOk(i)'
    <3> SUFFICES ASSUME autorelease, i > 1, Len(main'[i - 1].json.release) = 1
                 PROVE  \/ main'[i].json.release = main'[i - 1].json.release
                        \/ main'[i].json.release[1] > main'[i - 1].json.release[1]
      BY DEF ImportOk
    <3>1. main'[i - 1].json.release = mirror[u - 1].release /\ u \in 2 .. Len(mirror)
      BY <1>3, <2>1, <2>4
    <3> QED BY <1>1, <2>3, <3>1 DEF MirrorInv, MirrorIs
  <2>10. CommitOk(i)'
    BY <2>2, <2>9 DEF CommitOk, RebuildOk
  <2> QED BY <2>7, <2>8, <2>10
<1>8. \A i \in 1 .. Len(main') : i \in 1 .. Len(main) \/ i \in Len(main) + 1 .. Len(main')
  BY <1>3
<1>9. CommitsInv'
  BY <1>2, <1>6, <1>7, <1>8 DEF CommitsInv
<1>10. VerbsPassCheck'
  BY <1>2, <1>6, <1>7, <1>8 DEF VerbsPassCheck
<1> QED BY <1>5, <1>9, <1>10 DEF ImporterInv

LEMMA ImporterInitInv == ImporterInit => ImporterInv
<1> SUFFICES ASSUME ImporterInit PROVE ImporterInv
  OBVIOUS
<1> DEFINE d == Pristine(1, <<1>>)
           e == [dir |-> d, release |-> <<1>>]
<1>1. autorelease \in BOOLEAN /\ mirror = <<e>> /\ main = <<>>
  BY DEF ImporterInit
<1>2. <<1>> \in Number /\ Len(<<1>>) = 1 /\ <<1>>[1] = 1
  BY SingleIs
<1>3. d.content = 1 /\ d.release = <<1>>
  BY DEF Pristine
<1>4. d \in Dir /\ e \in Mirror /\ e.dir = d /\ e.release = <<1>>
  BY <1>2 DEF Pristine, Dir, Mirror, NoChange
<1> HIDE DEF e
<1>5. mirror \in Seq(Mirror) /\ mirror # <<>> /\ Len(mirror) = 1 /\ mirror[1] = e
  BY <1>1, <1>4
<1>6. \A u \in 1 .. Len(mirror) : u = 1
  BY <1>5
<1>7. 2 .. Len(mirror) = {}
  BY <1>5
<1>8. e.release[1] \in 1 .. 1 /\ Len(e.dir.release) = 1 /\ Len(e.release) = 1
      /\ e.dir = Pristine(e.dir.content, e.dir.release)
  <2>1. 1 \in 1 .. 1
    OBVIOUS
  <2>2. d = Pristine(d.content, d.release)
    BY <1>3
  <2> HIDE DEF d
  <2> QED BY <1>2, <1>3, <1>4, <2>1, <2>2
<1>9. MirrorIs(mirror)
  <2> HIDE DEF d
  <2> QED BY <1>5, <1>6, <1>7, <1>8 DEF MirrorIs
<1>10. MirrorInv
  BY <1>1, <1>9 DEF MirrorInv
<1>11. main \in Seq(History) /\ Len(main) = 0 /\ 1 .. Len(main) = {} /\ DOMAIN main = {}
  BY <1>1
<1>12. CommitsInv /\ VerbsPassCheck
  BY <1>11 DEF CommitsInv, VerbsPassCheck
<1> QED BY <1>10, <1>12 DEF ImporterInv

LEMMA ImporterNextInv == ImporterInv /\ [ImporterNext]_importerVars => ImporterInv'
<1> SUFFICES ASSUME ImporterInv, [ImporterNext]_importerVars PROVE ImporterInv'
  OBVIOUS
<1>1. ASSUME main # <<>>, Anchor < Len(mirror) PROVE Anchor + 1 <= Len(mirror)
  <2>1. Anchor \in Nat /\ Len(mirror) \in Nat
    BY <1>1, TipIs DEF ImporterInv, MirrorInv, MirrorIs
  <2> QED BY <1>1, <2>1
<1>2. CASE UpdateUpstreams
  BY <1>2, UpdateUpstreamsKeeps
<1>3. CASE ImportPackage
  <2>1. 1 <= Len(mirror)
    BY DEF ImporterInv, MirrorInv, MirrorIs
  <2>2. main = <<>> /\ main' \in Replays(main, 1, FALSE) /\ UNCHANGED <<autorelease, mirror>>
    BY <1>3 DEF ImportPackage
  <2> QED BY <2>1, <2>2, ReplayKeeps
<1>4. CASE Update
  <2>1. PICK take : main' \in Replays(main, Anchor + 1, take)
    BY <1>4 DEF Update
  <2> QED BY <1>1, <1>4, <2>1, ReplayKeeps DEF Update
<1>5. CASE SyncForward
  BY <1>1, <1>5, ReplayKeeps DEF SyncForward
<1>6. CASE SyncBack
  BY <1>6, SyncBackKeeps
<1>7. CASE Rebuild
  BY <1>7, RebuildKeeps
<1>8. CASE Modify
  BY <1>8, ModifyKeeps
<1>9. CASE UNCHANGED importerVars
  BY <1>9, StuttersKeep DEF importerVars
<1> QED BY <1>2, <1>3, <1>4, <1>5, <1>6, <1>7, <1>8, <1>9 DEF ImporterNext

\* For every package and history, whatever upstream publishes and however its commits
\* merge: `check` accepts every commit the verbs and the documented bumps make.
THEOREM VerbsAreChecked == ImporterSpec => []VerbsPassCheck
<1>1. ImporterInv => VerbsPassCheck
  BY DEF ImporterInv
<1> QED BY <1>1, ImporterInitInv, ImporterNextInv, PTL DEF ImporterSpec

\* What update() makes of the package's modification, at every commit on the way.
LEMMA UpdateIs ==
  ASSUME ImporterInv, Update PROVE Last(main').dir.ours = Tip.dir.ours
<1> DEFINE base == mirror[Anchor].dir
           releaseOnly == Tip.dir # base /\ ~IsModified(Tip.dir, base)
           D == {d \in Dir : d.ours = Tip.dir.ours}
<1>1. /\ main # <<>> /\ Anchor < Len(mirror)
      /\ main' \in Replays(main, Anchor + 1, releaseOnly)
  BY DEF Update
<1>2. MirrorInv /\ CommitsInv
  BY DEF ImporterInv
<1>3. main \in Seq(History) /\ Len(main) \in Nat /\ Len(mirror) \in Nat
  BY <1>2 DEF CommitsInv, MirrorInv, MirrorIs
<1>4. Anchor \in 1 .. Len(mirror) /\ Tip.dir \in Dir
  BY <1>1, TipIs
<1>5. PICK first \in Nat : first = Anchor + 1
  BY <1>4
<1>6. first > 1 /\ first <= Len(mirror) /\ \A u \in first .. Len(mirror) : u \in 1 .. Len(mirror) /\ u > 1
  BY <1>1, <1>3, <1>4, <1>5
<1>7. releaseOnly => Tip.dir.ours = NoChange
  <2> SUFFICES ASSUME releaseOnly PROVE Tip.dir.ours = NoChange
    OBVIOUS
  <2>1. base \in Dir /\ base.ours = NoChange
    BY <1>2, <1>4, MirroredIs
  <2> HIDE DEF base
  <2>2. Tip.dir = [base EXCEPT !.release = Tip.dir.release]
    BY DEF IsModified
  <2>3. [base EXCEPT !.release = Tip.dir.release].ours = base.ours
    BY <2>1 DEF Dir
  <2> QED BY <2>1, <2>2, <2>3
<1> DEFINE take == releaseOnly
<1>8. ASSUME NEW u \in first .. Len(mirror), NEW d \in D PROVE Placed(u, first, take, d) \subseteq D
  <2>1. mirror[u].dir.ours = NoChange
    BY <1>2, <1>6, MirroredIs
  <2>2. d \in Dir /\ d.ours = Tip.dir.ours
    OBVIOUS
  <2> HIDE DEF releaseOnly
  <2>3. ASSUME NEW e \in Placed(u, first, take, d) PROVE e \in Dir /\ e.ours = Tip.dir.ours
    <3>1. /\ e \in Dir
          /\ ~(take /\ u = first) => e.ours = d.ours
          /\ take /\ u = first => e = mirror[u].dir
      BY <1>2, <1>6, <2>2, PlacedIs
    <3> QED BY <1>7, <2>1, <2>2, <3>1
  <2> QED BY <2>3
<1>9. On(main) \in D
  BY <1>1, <1>4 DEF On, Tip
<1>10. \A u \in first .. Len(mirror) : Predicted(u) \in Fields
  BY <1>2, <1>6, MirroredIs
<1>11. D \in SUBSET Dir
  OBVIOUS
<1>12. main' \in Replays(main, first, take)
  BY <1>1, <1>5
<1> HIDE DEF take, D
<1>13. StaysIn(D, first, take)
  BY <1>8 DEF StaysIn
<1>14. first > 0
  BY <1>6
<1>15. /\ main' \in Seq(History) /\ Len(main') = Len(main) + Len(mirror) - first + 1
       /\ \A k \in Len(main) + 1 .. Len(main') : main'[k].dir \in D
  BY <1>3, <1>6, <1>9, <1>10, <1>11, <1>12, <1>13, <1>14, ReplaysAre
<1>16. Len(main') \in Len(main) + 1 .. Len(main')
  BY <1>3, <1>6, <1>15
<1>17. main'[Len(main')].dir \in D
  BY <1>15, <1>16
<1> QED BY <1>17 DEF D, Last

\* No update drops a package's own modification, however many commits it replays.
THEOREM UpdatesKeepOurs == ImporterSpec => UpdateKeepsOurs
<1> DEFINE Keeps == outcome' = "updated" /\ main # <<>> => Last(main').dir.marked \/ Last(main').dir.ours = Tip.dir.ours
<1>1. ImporterInv /\ ImporterNext => Keeps
  <2> SUFFICES ASSUME ImporterInv, ImporterNext, outcome' = "updated", main # <<>>
               PROVE  Last(main').dir.ours = Tip.dir.ours
    OBVIOUS
  <2>1. CASE Update
    BY <2>1, UpdateIs
  <2>2. CASE UpdateUpstreams \/ ImportPackage \/ SyncForward \/ SyncBack \/ Rebuild \/ Modify
    <3>1. outcome' \in {"none", "synced", "already in sync"}
      BY <2>2 DEF UpdateUpstreams, ImportPackage, SyncForward, SyncBack, Rebuild, Modify
    <3> QED BY <3>1
  <2> QED BY <2>1, <2>2 DEF ImporterNext
<1>2. ImporterInv /\ [ImporterNext]_importerVars => [Keeps]_importerVars
  BY <1>1
<1> QED BY <1>2, ImporterInitInv, ImporterNextInv, PTL DEF ImporterSpec, UpdateKeepsOurs
=============================================================================
