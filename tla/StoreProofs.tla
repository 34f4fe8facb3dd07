---------------------------- MODULE StoreProofs ----------------------------
(***************************************************************************)
(* What TLAPS proves about the local store, for every set of blobs, every  *)
(* size of them and every bound: with any number of threads; and, with     *)
(* one, that it is the cache BlobCache describes and keeps its rows, files *)
(* and bytes in step between calls.                                        *)
(***************************************************************************)
EXTENDS Store, FiniteSetTheorems, TLAPS

-----------------------------------------------------------------------------
(* Sizes.                                                                  *)

LEMMA BytesType ==
  ASSUME NEW S \in SUBSET Blob PROVE Bytes[S] \in Nat
BY BytesAssumption

LEMMA BytesEmptySet == Bytes[{}] = 0
<1>1. Bytes[{} \cup {}] = Bytes[{}] + Bytes[{}]
  BY BytesAssumption
<1>2. QED
  BY <1>1, BytesType

\* What a batch adds to a total that counts P already.
LEMMA BytesOfUnion ==
  ASSUME NEW S \in SUBSET Blob, NEW P \in SUBSET Blob
  PROVE  Bytes[P \cup S] = Bytes[P] + Bytes[S \ P]
<1>1. P \cup S = P \cup (S \ P) /\ P \cap (S \ P) = {}
  OBVIOUS
<1>2. QED
  BY <1>1, BytesAssumption

\* What dropping S takes off a total that counts P.
LEMMA BytesOfDifference ==
  ASSUME NEW S \in SUBSET Blob, NEW P \in SUBSET Blob
  PROVE  Bytes[P \ S] = Bytes[P] - Bytes[S \cap P]
<1>1. P = (P \ S) \cup (S \cap P) /\ (P \ S) \cap (S \cap P) = {}
  OBVIOUS
<1>2. Bytes[P] = Bytes[P \ S] + Bytes[S \cap P]
  BY <1>1, BytesAssumption
<1>3. QED
  BY <1>2, BytesType

-----------------------------------------------------------------------------
(* Types.                                                                  *)

LEMMA DoneType ==
  ASSUME NEW a \in Answers
  PROVE  Done(a) \in Call
BY DEF Done, Call, Steps

LEMMA PuttingType ==
  ASSUME NEW S \in SUBSET Blob, NEW bn \in Bundle \cup {NoBundle}
  PROVE  Putting(S, bn) \in Call
<1>1. Bytes[S \ Present] \in Nat
  BY BytesType
<1>2. QED
  BY <1>1 DEF Putting, Done, Call, Steps, Answers

\* Updating some fields of a call leaves a call.
LEMMA CallUpdate ==
  ASSUME NEW c \in Call, NEW pc \in Steps, NEW G \in SUBSET Blob
  PROVE  /\ [c EXCEPT !.pc = pc] \in Call
         /\ [c EXCEPT !.pc = pc, !.going = G] \in Call
<1>1. [c EXCEPT !.pc = pc] \in Call
  BY DEF Call
<1>2. [c EXCEPT !.pc = pc, !.going = G] \in Call
  BY DEF Call
<1>3. QED
  BY <1>1, <1>2

\* The steps of an eviction keep what the call is storing.
LEMMA CallKeeps ==
  ASSUME NEW c \in Call, NEW pc, NEW G
  PROVE  LET d == [c EXCEPT !.pc = pc, !.going = G]
         IN  /\ d.pc = pc /\ d.going = G /\ d.batch = c.batch
             /\ d.todo = c.todo /\ d.making = c.making
BY DEF Call

LEMMA EvictedType ==
  ASSUME NEW t \in Thread PROVE Evicted(t) \in Steps
BY DEF Evicted, Steps

LEMMA TypeStep ==
  ASSUME TypeOK, NEW t \in Thread, Step(t)
  PROVE  TypeOK'
<1> USE DEF TypeOK
<1>1. ASSUME NEW S \in SUBSET Blob, NEW bn \in Bundle \cup {NoBundle},
             PutBlobs(t, S, bn)
      PROVE  TypeOK'
  BY <1>1, PuttingType DEF PutBlobs
<1>2. ASSUME NEW b \in Blob, WriteFile(t, b) PROVE TypeOK'
  BY <1>2, SMTT(40) DEF WriteFile, Call
<1>w. CASE WriteFails(t)
  BY <1>w, DoneType DEF WriteFails, Answers
<1>3. CASE WrittenAll(t)
  <2>1. [op[t] EXCEPT !.pc = "commit", !.arriving = 0] \in Call
    BY ZenonT(60) DEF Call, Steps
  <2>2. QED
    BY <1>3, <2>1 DEF WrittenAll
<1>4. CASE Commit(t)
  <2>1. op[t].batch \in SUBSET Blob /\ op[t].from \in Bundle \cup {NoBundle}
    BY DEF Call
  <2>2. held' \in Int
    BY <1>4, <2>1, BytesType DEF Commit
  <2>3. op' \in [Thread -> Call]
    <3>1. [op[t] EXCEPT !.pc = "check", !.from = NoBundle, !.making = FALSE] \in Call
      BY ZenonT(60) DEF Call, Steps
    <3>2. QED
      BY <1>4, <3>1 DEF Commit
  <2>4. bundle' \in [Blob -> Bundle \cup {NoBundle}]
    BY <1>4, <2>1 DEF Commit, Coalesced
  <2>5. QED
    BY <1>4, <2>2, <2>3, <2>4 DEF Commit
<1>5. CASE EvictCheck(t)
  BY <1>5, EvictedType, CallUpdate DEF EvictCheck, Steps
<1>6. CASE EvictScan(t)
  <2>1. Evictable(t) \in SUBSET Blob
    BY DEF Evictable, Present
  <2>2. QED
    BY <1>6, <2>1, CallUpdate, ZenonT(60) DEF EvictScan, Steps
<1>7. CASE EvictStat(t)
  <2>1. op[t].going \cap OnDisk \in SUBSET Blob
    BY DEF OnDisk
  <2>2. QED
    BY <1>7, <2>1, CallUpdate, ZenonT(60) DEF EvictStat, Steps
<1>8. CASE EvictChoose(t)
  <2>1. PICK S \in Victims(op[t].going, held + op[t].arriving - LowWater) :
          op' = [op EXCEPT ![t] = [@ EXCEPT
                    !.pc = IF S = {} THEN Evicted(t) ELSE "forget", !.going = S]]
    BY <1>8 DEF EvictChoose
  <2>2. S \in SUBSET Blob
    BY <2>1, SMTT(40) DEF Victims, Call
  <2>3. op' \in [Thread -> Call]
    BY <2>1, <2>2, EvictedType, CallUpdate DEF Steps
  <2>4. QED
    BY <1>8, <2>3 DEF EvictChoose
<1>9. CASE EvictForget(t)
  <2>1. held' \in Int
    BY <1>9, BytesType DEF EvictForget, Forget, Present, Call
  <2>2. op' \in [Thread -> Call]
    BY <1>9, EvictedType, CallUpdate DEF EvictForget
  <2>3. QED
    BY <1>9, <2>1, <2>2 DEF EvictForget, Forget
<1>10. CASE EvictRows(t)
  BY <1>10, DoneType DEF EvictRows, Answers
<1>11. ASSUME NEW b \in Blob, ReadFile(t, b) PROVE TypeOK'
  <2>1. [Done("none") EXCEPT !.pc = "touch", !.batch = {b}] \in Call
    BY DEF Done, Call, Steps, Answers
  <2>2. [Done("none") EXCEPT !.pc = "drop", !.batch = {b}] \in Call
    BY DEF Done, Call, Steps, Answers
  <2>3. Done("absent") \in Call
    BY DoneType DEF Answers
  <2>4. op' \in [Thread -> Call]
    BY <1>11, <2>1, <2>2, <2>3 DEF ReadFile
  <2>5. QED
    BY <1>11, <2>4 DEF ReadFile
<1>12. CASE Touch(t)
  BY <1>12, DoneType DEF Touch, Answers
<1>13. CASE DropBad(t)
  <2>1. held' \in Int
    BY <1>13, BytesType DEF DropBad, Forget, Present, Call
  <2>2. op' \in [Thread -> Call]
    BY <1>13, DoneType DEF DropBad, Answers
  <2>3. QED
    BY <1>13, <2>1, <2>2 DEF DropBad, Forget
<1>14. [Done("none") EXCEPT !.pc = "rows"] \in Call
  BY DEF Done, Call, Steps, Answers
<1>15. ASSUME NEW S \in SUBSET Blob, NEW bn \in Bundle, RememberAll(t, S, bn)
       PROVE  TypeOK'
  BY <1>14, <1>15 DEF RememberAll
<1>16. ASSUME NEW a \in Action, PutResult(t, a) \/ DropResult(t, a)
       PROVE  TypeOK'
  BY <1>14, <1>16, DoneType DEF PutResult, DropResult, Answers
<1>17. CASE Reconcile(t)
  <2>1. held' \in Int
    BY <1>17, BytesType DEF Reconcile, Present
  <2>2. op' \in [Thread -> Call]
    BY <1>17, PuttingType, BlobAssumption DEF Reconcile
  <2>3. QED
    BY <1>17, <2>1, <2>2 DEF Reconcile
<1>18. QED
  BY <1>1, <1>2, <1>w, <1>3, <1>4, <1>5, <1>6, <1>7, <1>8, <1>9, <1>10, <1>11,
     <1>12, <1>13, <1>15, <1>16, <1>17 DEF Step

LEMMA TypeNext == TypeOK /\ [Next]_vars => TypeOK'
<1> SUFFICES ASSUME TypeOK, [Next]_vars PROVE TypeOK'
  OBVIOUS
<1>1. CASE Serve
  BY <1>1 DEF TypeOK, Serve
<1>2. CASE Stop
  BY <1>2, DoneType DEF TypeOK, Stop, Answers
<1>3. CASE DiscardIfOld
  BY <1>3 DEF TypeOK, DiscardIfOld
<1>4. ASSUME NEW b \in Blob, LoseFile(b) \/ CorruptFile(b) PROVE TypeOK'
  BY <1>4 DEF TypeOK, LoseFile, CorruptFile
<1>5. CASE UNCHANGED vars
  BY <1>5 DEF TypeOK, vars
<1>6. QED
  BY <1>1, <1>2, <1>3, <1>4, <1>5, TypeStep DEF Next

\* Every state of the store has the declared shape.
THEOREM TypeCorrect == Spec => []TypeOK
<1>1. Init => TypeOK
  BY DoneType DEF Init, TypeOK, Answers
<1>2. QED
  BY <1>1, TypeNext, PTL DEF Spec

-----------------------------------------------------------------------------
(* The running total.  Inductive as it stands, given the types.            *)

LEMMA HeldForget ==
  ASSUME TypeOK, HeldMatchesIndex, NEW S \in SUBSET Blob, Forget(S),
         phase' = phase
  PROVE  HeldMatchesIndex'
<1>1. Present' = Present \ S
  BY DEF Forget, Present, TypeOK
<1>2. Present \in SUBSET Blob
  BY DEF Present
<1>3. Bytes[Present \ S] = Bytes[Present] - Bytes[S \cap Present]
  BY <1>2, BytesOfDifference
<1>4. QED
  BY <1>1, <1>3 DEF HeldMatchesIndex, Forget

LEMMA HeldStep ==
  ASSUME TypeOK, HeldMatchesIndex, NEW t \in Thread, Step(t)
  PROVE  HeldMatchesIndex'
<1>1. ASSUME UNCHANGED <<phase, row, held>> PROVE HeldMatchesIndex'
  BY <1>1 DEF HeldMatchesIndex, Present
<1>2. CASE Commit(t)
  <2>1. op[t].batch \in SUBSET Blob /\ Present \in SUBSET Blob
    BY DEF TypeOK, Call, Present
  <2>2. Present' = Present \cup op[t].batch
    BY <1>2, <2>1 DEF Commit, Present, TypeOK
  <2>3. Bytes[Present \cup op[t].batch] = Bytes[Present] + Bytes[op[t].batch \ Present]
    BY <2>1, BytesOfUnion
  <2>4. QED
    BY <1>2, <2>2, <2>3 DEF Commit, HeldMatchesIndex
<1>3. CASE EvictForget(t)
  BY <1>3, HeldForget DEF EvictForget, TypeOK, Call
<1>4. CASE DropBad(t)
  BY <1>4, HeldForget DEF DropBad, TypeOK, Call
<1>5. CASE EvictRows(t)
  <2>1. Present' = Present
    BY <1>5 DEF EvictRows, AffordableBlobs, Present, TypeOK
  <2>2. QED
    BY <1>5, <2>1 DEF EvictRows, HeldMatchesIndex
<1>6. ASSUME NEW S \in SUBSET Blob, NEW bn \in Bundle, RememberAll(t, S, bn)
      PROVE  HeldMatchesIndex'
  <2>1. Present' = Present
    BY <1>6 DEF RememberAll, Present, TypeOK
  <2>2. QED
    BY <1>6, <2>1 DEF RememberAll, HeldMatchesIndex
<1>7. CASE Reconcile(t)
  <2>1. Present' = Present \cap OnDisk
    BY <1>7 DEF Reconcile, Present, OnDisk, TypeOK
  <2>2. QED
    BY <1>7, <2>1 DEF Reconcile, HeldMatchesIndex
<1>8. QED
  BY <1>1, <1>2, <1>3, <1>4, <1>5, <1>6, <1>7
  DEF Step, PutBlobs, WriteFile, WriteFails, WrittenAll, EvictCheck, EvictScan, EvictStat,
      EvictChoose, ReadFile, Touch, PutResult, DropResult

LEMMA HeldNext == TypeOK /\ HeldMatchesIndex /\ [Next]_vars => HeldMatchesIndex'
<1> SUFFICES ASSUME TypeOK, HeldMatchesIndex, [Next]_vars
             PROVE  HeldMatchesIndex'
  OBVIOUS
<1>1. CASE Serve \/ \E b \in Blob : CorruptFile(b)
  BY <1>1 DEF Serve, CorruptFile, HeldMatchesIndex, Present
<1>2. CASE Stop \/ DiscardIfOld \/ \E b \in Blob : LoseFile(b)
  BY <1>2 DEF Stop, DiscardIfOld, LoseFile, HeldMatchesIndex
<1>3. CASE UNCHANGED vars
  BY <1>3 DEF vars, HeldMatchesIndex, Present
<1>4. QED
  BY <1>1, <1>2, <1>3, HeldStep DEF Next

\* However puts, evictions and drops interleave, across any number of kills
\* and restarts, Store.held is the size of what the index counts as present.
THEOREM HeldCorrect == Spec => []HeldMatchesIndex
<1>1. Init => HeldMatchesIndex
  BY DEF Init, HeldMatchesIndex
<1>2. QED
  BY <1>1, HeldNext, TypeCorrect, PTL DEF Spec

-----------------------------------------------------------------------------
(* Files without a row.  Inductive once it is known that a put only ever   *)
(* has blobs of its own batch left to write.                               *)

TodoInBatch == \A t \in Thread : op[t].todo \subseteq op[t].batch

LEMMA TodoNext == TypeOK /\ TodoInBatch /\ [Next]_vars => TodoInBatch'
<1> SUFFICES ASSUME TypeOK, TodoInBatch, [Next]_vars PROVE TodoInBatch'
  OBVIOUS
<1>1. ASSUME NEW t \in Thread, Step(t) PROVE TodoInBatch'
  <2>1. SUFFICES op'[t].todo \subseteq op'[t].batch
    <3>1. \E c : op' = [op EXCEPT ![t] = c]
      BY <1>1 DEF Step, PutBlobs, WriteFile, WriteFails, WrittenAll, Commit, EvictCheck,
         EvictScan, EvictStat, EvictChoose, EvictForget, EvictRows, ReadFile,
         Touch, DropBad, RememberAll, PutResult, DropResult, Reconcile
    <3>2. QED
      BY <3>1, SMTT(40) DEF TodoInBatch, TypeOK
  <2>2. CASE \E S \in SUBSET Blob, bn \in Bundle \cup {NoBundle} : PutBlobs(t, S, bn)
    BY <2>2 DEF PutBlobs, Putting, Done, TypeOK
  <2>3. CASE \E b \in Blob : WriteFile(t, b)
    BY <2>3 DEF WriteFile, TypeOK, TodoInBatch, Call
  <2>4. CASE EvictCheck(t)
    BY <2>4 DEF EvictCheck, TypeOK, TodoInBatch, Call
  <2>5. CASE Commit(t)
    BY <2>5 DEF Commit, TypeOK, TodoInBatch, Call
  <2>6. CASE EvictScan(t) \/ EvictStat(t) \/ EvictChoose(t) \/ EvictForget(t)
    <3>1. PICK pc, G : op' = [op EXCEPT ![t] = [@ EXCEPT !.pc = pc, !.going = G]]
      BY <2>6 DEF EvictScan, EvictStat, EvictChoose, EvictForget
    <3>2. op'[t].todo = op[t].todo /\ op'[t].batch = op[t].batch
      BY <3>1, CallKeeps DEF TypeOK
    <3>3. QED
      BY <3>2 DEF TodoInBatch
  <2>7. CASE WrittenAll(t)
    BY <2>7 DEF WrittenAll, TypeOK, TodoInBatch, Call
  <2>8. CASE EvictRows(t) \/ Touch(t) \/ DropBad(t) \/ WriteFails(t)
    BY <2>8 DEF WriteFails, EvictRows, Touch, DropBad, Done, TypeOK
  <2>9. CASE \E b \in Blob : ReadFile(t, b)
    BY <2>9 DEF ReadFile, Done, TypeOK
  <2>10. CASE \/ \E S \in SUBSET Blob, bn \in Bundle : RememberAll(t, S, bn)
              \/ \E a \in Action : PutResult(t, a) \/ DropResult(t, a)
    BY <2>10 DEF RememberAll, PutResult, DropResult, Done, TypeOK
  <2>11. CASE Reconcile(t)
    BY <2>11 DEF Reconcile, Putting, Done, TypeOK
  <2>12. QED
    BY <1>1, <2>2, <2>3, <2>4, <2>5, <2>6, <2>7, <2>8, <2>9, <2>10, <2>11 DEF Step
<1>2. CASE Stop
  BY <1>2 DEF Stop, Done, TodoInBatch
<1>3. CASE UNCHANGED op
  BY <1>3 DEF TodoInBatch
<1>4. QED
  BY <1>1, <1>2, <1>3
  DEF Next, Serve, DiscardIfOld, LoseFile, CorruptFile, vars

\* A step of t that adds no file to those the index does not count leaves none
\* unaccounted for, unless t is the one that was about to commit it.
LEMMA StillWriting ==
  ASSUME NEW t \in Thread,
         op[t].pc \notin {"write", "commit"}
           \/ \A b \in OnDisk' \ Present' : ~Writing(t, b),
         \A u \in Thread \ {t} : op'[u] = op[u],
         OnDisk' \ Present' \subseteq OnDisk \ Present
  PROVE  Unaccounted' \subseteq Unaccounted
BY DEF Unaccounted, Writing

LEMMA UnaccountedForget ==
  ASSUME TypeOK, NEW S \in SUBSET Blob, Forget(S)
  PROVE  OnDisk' \ Present' \subseteq OnDisk \ Present
BY SMTT(40) DEF Forget, OnDisk, Present, TypeOK

LEMMA UnaccountedStep ==
  ASSUME TypeOK, TodoInBatch, NEW t \in Thread, Step(t)
  PROVE  \/ Unaccounted' = {} /\ Reconcile(t)
         \/ Unaccounted' \subseteq Unaccounted /\ UNCHANGED phase
         \/ /\ Unaccounted' \subseteq Unaccounted \cup LeftNow
            /\ phase = "serving" /\ UNCHANGED phase
<1>1. \A u \in Thread \ {t} : op'[u] = op[u]
  <2>1. \E c : op' = [op EXCEPT ![t] = c]
    BY DEF Step, PutBlobs, WriteFile, WriteFails, WrittenAll, Commit, EvictCheck,
       EvictScan, EvictStat, EvictChoose, EvictForget, EvictRows, ReadFile,
       Touch, DropBad, RememberAll, PutResult, DropResult, Reconcile
  <2>2. QED
    BY <2>1, SMTT(40) DEF TypeOK
<1>2. ASSUME op[t].pc \notin {"write", "commit"}, UNCHANGED <<phase, disk, row>>
      PROVE  Unaccounted' \subseteq Unaccounted /\ UNCHANGED phase
  BY <1>1, <1>2, StillWriting DEF OnDisk, Present
<1>3. CASE \E b \in Blob : WriteFile(t, b)
  <2>1. PICK b \in Blob : WriteFile(t, b)
    BY <1>3
  <2>2. op'[t].pc = "write" /\ op'[t].batch = op[t].batch
        /\ op'[t].todo = op[t].todo \ {b}
    BY <2>1 DEF WriteFile, TypeOK, Call
  <2>3. b \in op[t].batch
    BY <2>1 DEF WriteFile, TodoInBatch
  <2>4. OnDisk' = OnDisk \cup {b} /\ Present' = Present
    BY <2>1 DEF WriteFile, OnDisk, Present, TypeOK
  <2>5. Writing(t, b)'
    BY <2>2, <2>3 DEF Writing
  <2>6. ASSUME NEW c \in Blob, Writing(t, c) PROVE Writing(t, c)'
    BY <2>1, <2>2, <2>6 DEF Writing, WriteFile
  <2>7. ASSUME NEW u \in Thread \ {t}, NEW c \in Blob, Writing(u, c)
        PROVE  Writing(u, c)'
    BY <1>1, <2>7 DEF Writing
  <2>8. ASSUME NEW c \in Unaccounted' PROVE c \in Unaccounted
    <3>1. c \in (OnDisk \cup {b}) \ Present /\ c # b /\ \A u \in Thread : ~Writing(u, c)'
      BY <2>4, <2>5, <2>8 DEF Unaccounted
    <3>2. c \in Blob
      BY <3>1 DEF OnDisk
    <3>3. QED
      BY <2>6, <2>7, <3>1, <3>2 DEF Unaccounted
  <2>9. QED
    BY <2>1, <2>8 DEF WriteFile
<1>w. CASE WriteFails(t)
  <2>1. op[t].pc = "write" /\ op'[t].pc = "idle" /\ phase = "serving" /\ phase' = phase
    BY <1>w DEF WriteFails, Done, TypeOK
  <2>2. OnDisk' = OnDisk /\ Present' = Present
    BY <1>w DEF WriteFails, OnDisk, Present
  <2>3. ASSUME NEW c \in Unaccounted' PROVE c \in Unaccounted \cup LeftNow
    <3>1. c \in OnDisk \ Present /\ c \in Blob
      BY <2>2, <2>3 DEF Unaccounted, OnDisk
    <3>2. \A u \in Thread \ {t} : ~Writing(u, c)
      BY <1>1, <2>3 DEF Unaccounted, Writing
    <3>3. CASE Writing(t, c)
      BY <2>1, <3>1, <3>3 DEF LeftNow
    <3>4. QED
      BY <3>1, <3>2, <3>3 DEF Unaccounted
  <2>4. QED
    BY <2>1, <2>3
<1>4. CASE WrittenAll(t)
  <2>1. ASSUME NEW b \in Blob, NEW u \in Thread, Writing(u, b)
        PROVE  Writing(u, b)'
    BY <1>1, <1>4, <2>1 DEF WrittenAll, Writing, TypeOK, Call
  <2>2. OnDisk' = OnDisk /\ Present' = Present /\ phase' = phase
    BY <1>4 DEF WrittenAll, OnDisk, Present
  <2>3. QED
    BY <2>1, <2>2 DEF Unaccounted, OnDisk
<1>5. CASE Commit(t)
  <2>1. OnDisk' = OnDisk /\ Present' = Present \cup op[t].batch
    BY <1>5 DEF Commit, OnDisk, Present, TypeOK, Call
  <2>2. \A b \in OnDisk' \ Present' : ~Writing(t, b)
    BY <2>1 DEF Writing
  <2>3. QED
    BY <1>1, <1>5, <2>1, <2>2, StillWriting DEF Commit
<1>6. CASE EvictForget(t)
  BY <1>1, <1>6, UnaccountedForget, StillWriting DEF EvictForget, TypeOK, Call
<1>7. CASE DropBad(t)
  BY <1>1, <1>7, UnaccountedForget, StillWriting DEF DropBad, TypeOK, Call
<1>8. CASE EvictRows(t)
  <2>1. OnDisk' = OnDisk /\ Present' = Present
    BY <1>8 DEF EvictRows, AffordableBlobs, OnDisk, Present, TypeOK
  <2>2. QED
    BY <1>1, <1>8, <2>1, StillWriting DEF EvictRows
<1>9. CASE \E S \in SUBSET Blob, bn \in Bundle : RememberAll(t, S, bn)
  <2>1. OnDisk' = OnDisk /\ Present' = Present
    BY <1>9 DEF RememberAll, OnDisk, Present, TypeOK
  <2>2. QED
    BY <1>1, <1>9, <2>1, StillWriting DEF RememberAll
<1>10. CASE Reconcile(t)
  <2>1. OnDisk' \ Present' = {}
    BY <1>10 DEF Reconcile, OnDisk, Present, TypeOK
  <2>2. QED
    BY <1>10, <2>1 DEF Unaccounted
<1>11. QED
  BY <1>2, <1>3, <1>w, <1>4, <1>5, <1>6, <1>7, <1>8, <1>9, <1>10
  DEF Step, PutBlobs, EvictCheck, EvictScan, EvictStat, EvictChoose, ReadFile,
      Touch, PutResult, DropResult

\* No process starts with one: what FilesAccounted says of a step that ends in
\* "starting", as an invariant.
SweptAtStart == phase = "starting" => Unaccounted = {}

LEMMA UnaccountedNext ==
  ASSUME TypeOK, TodoInBatch, SweptAtStart, [Next]_vars
  PROVE  /\ SweptAtStart'
         /\ phase' = "serving" => Unaccounted' \subseteq Unaccounted \cup LeftNow
<1>1. CASE \E t \in Thread : Step(t)
  <2>1. PICK t \in Thread : Step(t)
    BY <1>1
  <2>2. Reconcile(t) => phase' = "starting"
    BY DEF Reconcile
  <2>3. QED
    BY <2>1, <2>2, UnaccountedStep DEF SweptAtStart
<1>2. CASE Serve
  <2>1. OnDisk' = OnDisk /\ Present' = Present /\ UNCHANGED op
    BY <1>2 DEF Serve, OnDisk, Present
  <2>2. Unaccounted' = Unaccounted
    BY <2>1 DEF Unaccounted, Writing
  <2>3. QED
    BY <1>2, <2>2 DEF Serve, SweptAtStart
<1>3. CASE Stop \/ DiscardIfOld \/ \E b \in Blob : LoseFile(b)
  BY <1>3 DEF Stop, DiscardIfOld, LoseFile, SweptAtStart
<1>4. CASE (\E b \in Blob : CorruptFile(b)) \/ UNCHANGED vars
  <2>1. OnDisk' = OnDisk /\ Present' = Present /\ UNCHANGED <<op, phase>>
    BY <1>4 DEF CorruptFile, vars, OnDisk, Present, TypeOK
  <2>2. Unaccounted' = Unaccounted
    BY <2>1 DEF Unaccounted, Writing
  <2>3. QED
    BY <2>1, <2>2 DEF SweptAtStart
<1>5. QED
  BY <1>1, <1>2, <1>3, <1>4 DEF Next

\* No process starts with a file the index does not count.  While it serves,
\* one that no put is about to commit was there before the step, or is left by
\* a put one of whose writes fails in the step.
THEOREM UnaccountedCorrect == Spec => FilesAccounted
<1>1. Init => TodoInBatch /\ SweptAtStart
  BY DEF Init, Done, TodoInBatch, SweptAtStart
<1>2. TypeOK /\ TodoInBatch /\ SweptAtStart /\ [Next]_vars => SweptAtStart'
  BY UnaccountedNext
<1>3. TypeOK /\ TodoInBatch /\ SweptAtStart /\ [Next]_vars =>
        [/\ phase' = "starting" => Unaccounted' = {}
         /\ phase' = "serving" => Unaccounted' \subseteq Unaccounted \cup LeftNow]_vars
  BY UnaccountedNext DEF SweptAtStart
<1>4. QED
  BY <1>1, <1>2, <1>3, TodoNext, TypeCorrect, PTL DEF Spec, FilesAccounted

-----------------------------------------------------------------------------
(* The empty blob.  Its file is never the one an eviction or a bad read     *)
(* takes, and the put that __init__ ends with is under way until it is     *)
(* there.                                                                  *)

StoringEmpty(t) ==
  /\ op[t].pc \in {"check", "scan", "stat", "choose", "forget", "write"}
  /\ op[t].making
  /\ Empty \in op[t].todo

EmptySpared ==
  /\ disk[Empty] # "bad"
  /\ \A t \in Thread :
       /\ op[t].pc \in {"stat", "choose", "forget"} => Empty \notin op[t].going
       /\ op[t].pc = "drop" => Empty \notin op[t].batch

EmptyComing ==
  phase = "starting" => Empty \in OnDisk \/ \E t \in Thread : StoringEmpty(t)

EmptyInv == EmptySpared /\ EmptyComing /\ EmptyStays

LEMMA SparedStep ==
  ASSUME TypeOK, EmptySpared, NEW t \in Thread, Step(t)
  PROVE  EmptySpared'
<1> USE BlobAssumption
<1>1. \E c : op' = [op EXCEPT ![t] = c]
  BY ZenonT(60) DEF Step, PutBlobs, WriteFile, WriteFails, WrittenAll, Commit, EvictCheck,
     EvictScan, EvictStat, EvictChoose, EvictForget, EvictRows, ReadFile,
     Touch, DropBad, RememberAll, PutResult, DropResult, Reconcile
<1>2. \A u \in Thread \ {t} : op'[u] = op[u]
  BY <1>1 DEF TypeOK
<1>3. disk'[Empty] # "bad"
  BY ZenonT(60) DEF Step, PutBlobs, WriteFile, WriteFails, WrittenAll, Commit, EvictCheck,
     EvictScan, EvictStat, EvictChoose, EvictForget, EvictRows, ReadFile,
     Touch, DropBad, RememberAll, PutResult, DropResult, Reconcile, Forget,
     EmptySpared, TypeOK
<1>4. SUFFICES /\ op'[t].pc \in {"stat", "choose", "forget"}
                    => Empty \notin op'[t].going
               /\ op'[t].pc = "drop" => Empty \notin op'[t].batch
  BY <1>2, <1>3 DEF EmptySpared
<1>5. CASE EvictScan(t)
  <2>1. op'[t].pc = "stat" /\ op'[t].going = Evictable(t)
    BY <1>5, CallKeeps DEF EvictScan, TypeOK
  <2>2. QED
    BY <2>1, BytesAssumption DEF Evictable
<1>6. CASE EvictStat(t)
  <2>1. op'[t].pc = "choose" /\ op'[t].going = op[t].going \cap OnDisk
    BY <1>6, CallKeeps DEF EvictStat, TypeOK
  <2>2. QED
    BY <1>6, <2>1 DEF EvictStat, EmptySpared
<1>7. CASE EvictChoose(t)
  <2>1. PICK S \in Victims(op[t].going, held + op[t].arriving - LowWater),
             pc \in {Evicted(t), "forget"} :
          op' = [op EXCEPT ![t] = [@ EXCEPT !.pc = pc, !.going = S]]
    BY <1>7 DEF EvictChoose
  <2>2. op'[t].pc = pc /\ op'[t].going = S
    BY <2>1, CallKeeps DEF TypeOK
  <2>3. Empty \notin S
    BY <1>7, <2>1 DEF EvictChoose, Victims, EmptySpared
  <2>4. QED
    BY <2>1, <2>2, <2>3 DEF Evicted
<1>8. CASE EvictForget(t)
  <2>1. op'[t].pc = Evicted(t)
    BY <1>8, CallKeeps DEF EvictForget, TypeOK
  <2>2. QED
    BY <2>1 DEF Evicted
<1>9. CASE \E b \in Blob : ReadFile(t, b)
  <2>1. PICK b \in Blob : ReadFile(t, b)
    BY <1>9
  <2>2. disk[b] \in {"none", "good", "bad"}
    BY DEF TypeOK
  <2>3. \/ op'[t] = Done("absent")
        \/ op'[t] = [Done("none") EXCEPT !.pc = "touch", !.batch = {b}]
        \/ disk[b] = "bad" /\ op'[t] = [Done("none") EXCEPT !.pc = "drop", !.batch = {b}]
    BY <2>1, <2>2 DEF ReadFile, TypeOK
  <2>4. b # Empty \/ disk[b] # "bad"
    BY DEF EmptySpared
  <2>5. \/ op'[t].pc \in {"idle", "touch"}
        \/ op'[t].pc = "drop" /\ op'[t].batch = {b} /\ b # Empty
    <3>1. Done("absent").pc = "idle"
      BY DEF Done
    <3>2. [Done("none") EXCEPT !.pc = "touch", !.batch = {b}].pc = "touch"
      BY DEF Done
    <3>3. LET d == [Done("none") EXCEPT !.pc = "drop", !.batch = {b}]
          IN  d.pc = "drop" /\ d.batch = {b}
      BY DEF Done
    <3>4. QED
      BY <2>3, <2>4, <3>1, <3>2, <3>3
  <2>6. QED
    BY <2>5
<1>10. CASE EvictCheck(t)
  <2>1. PICK pc \in {Evicted(t), "scan"} : op' = [op EXCEPT ![t].pc = pc]
    BY <1>10 DEF EvictCheck
  <2>2. op'[t].pc = pc
    BY <2>1 DEF TypeOK, Call
  <2>3. QED
    BY <2>1, <2>2 DEF Evicted
<1>11. CASE WrittenAll(t) \/ Commit(t) \/ \E b \in Blob : WriteFile(t, b)
  <2>1. WrittenAll(t) => op'[t].pc = "commit"
    BY DEF WrittenAll, TypeOK, Call
  <2>2. Commit(t) => op'[t].pc = "check"
    BY DEF Commit, TypeOK, Call
  <2>3. ASSUME NEW b \in Blob, WriteFile(t, b) PROVE op'[t].pc = "write"
    BY <2>3 DEF WriteFile, TypeOK, Call
  <2>4. QED
    BY <1>11, <2>1, <2>2, <2>3
<1>12. CASE \/ \E S \in SUBSET Blob, bn \in Bundle \cup {NoBundle} : PutBlobs(t, S, bn)
            \/ Reconcile(t)
  <2>1. \E S, bn : op'[t] = Putting(S, bn)
    BY <1>12 DEF PutBlobs, Reconcile, TypeOK
  <2>2. op'[t].pc = "check"
    BY <2>1 DEF Putting, Done
  <2>3. QED
    BY <2>2
<1>13. CASE \/ EvictRows(t) \/ Touch(t) \/ DropBad(t) \/ WriteFails(t)
            \/ \E S \in SUBSET Blob, bn \in Bundle : RememberAll(t, S, bn)
            \/ \E a \in Action : PutResult(t, a) \/ DropResult(t, a)
  BY <1>13, SMTT(40) DEF WriteFails, EvictRows, Touch, DropBad, RememberAll, PutResult,
     DropResult, Done, TypeOK
<1>14. QED
  BY <1>5, <1>6, <1>7, <1>8, <1>9, <1>10, <1>11, <1>12, <1>13, SMTT(40) DEF Step

\* Once on disk the empty blob stays there while a process runs.
LEMMA EmptyKeptStep ==
  ASSUME TypeOK, EmptySpared, NEW t \in Thread, Step(t), phase # "down",
         Empty \in OnDisk
  PROVE  Empty \in OnDisk'
BY BlobAssumption, ZenonT(60)
DEF Step, PutBlobs, WriteFile, WriteFails, WrittenAll, Commit, EvictCheck, EvictScan,
    EvictStat, EvictChoose, EvictForget, EvictRows, ReadFile, Touch, DropBad,
    RememberAll, PutResult, DropResult, Reconcile, Forget, OnDisk, EmptySpared,
    TypeOK

LEMMA ComingStep ==
  ASSUME TypeOK, EmptySpared, EmptyComing, NEW t \in Thread, Step(t)
  PROVE  EmptyComing'
<1> USE BlobAssumption
<1>1. CASE Reconcile(t)
  <2>1. op'[t] = Putting({Empty}, NoBundle)
    BY <1>1 DEF Reconcile, TypeOK
  <2>2. StoringEmpty(t)'
    BY <2>1 DEF StoringEmpty, Putting, Done
  <2>3. QED
    BY <2>2 DEF EmptyComing
<1>2. SUFFICES ASSUME ~Reconcile(t), phase = "starting", Empty \notin OnDisk,
                      NEW u \in Thread, StoringEmpty(u)
               PROVE  Empty \in OnDisk' \/ StoringEmpty(u)'
  <2>1. CASE Reconcile(t)
    BY <1>1, <2>1
  <2>2. CASE ~Reconcile(t)
    <3>1. phase' = phase
      BY <2>2, ZenonT(60) DEF Step, PutBlobs, WriteFile, WriteFails, WrittenAll, Commit, EvictCheck,
         EvictScan, EvictStat, EvictChoose, EvictForget, EvictRows, ReadFile,
         Touch, DropBad, RememberAll, PutResult, DropResult
    <3>2. QED
      BY <1>2, <2>2, <3>1, EmptyKeptStep DEF EmptyComing
  <2>3. QED
    BY <2>1, <2>2
<1>3. CASE u # t
  <2>1. \E c : op' = [op EXCEPT ![t] = c]
    BY DEF Step, PutBlobs, WriteFile, WriteFails, WrittenAll, Commit, EvictCheck,
       EvictScan, EvictStat, EvictChoose, EvictForget, EvictRows, ReadFile,
       Touch, DropBad, RememberAll, PutResult, DropResult, Reconcile
  <2>2. op'[u] = op[u]
    BY <1>3, <2>1 DEF TypeOK
  <2>3. QED
    BY <1>2, <2>2 DEF StoringEmpty
<1>4. CASE u = t
  <2>1. CASE \E b \in Blob : WriteFile(t, b)
    BY <1>2, <1>4, <2>1 DEF WriteFile, StoringEmpty, OnDisk, TypeOK, Call
  <2>2. CASE EvictCheck(t)
    BY <1>2, <1>4, <2>2 DEF EvictCheck, Evicted, StoringEmpty, TypeOK, Call
  <2>3. CASE EvictScan(t) \/ EvictStat(t) \/ EvictChoose(t) \/ EvictForget(t)
    <3>1. PICK pc, G : op' = [op EXCEPT ![t] = [@ EXCEPT !.pc = pc, !.going = G]]
      BY <2>3 DEF EvictScan, EvictStat, EvictChoose, EvictForget
    <3>2. op'[t].todo = op[t].todo /\ op'[t].making = op[t].making
      BY <3>1, CallKeeps DEF TypeOK
    <3>3. op[t] \in Call /\ Evicted(t) = "write"
      BY <1>2, <1>4 DEF TypeOK, StoringEmpty, Evicted
    <3>4. op'[t].pc \in {"stat", "choose", "forget", "write"}
      <4>1. CASE EvictScan(t)
        BY <4>1, <3>3 DEF EvictScan, TypeOK, Call
      <4>2. CASE EvictStat(t)
        BY <4>2, <3>3 DEF EvictStat, TypeOK, Call
      <4>3. CASE EvictChoose(t)
        BY <4>3, <3>3 DEF EvictChoose, TypeOK, Call
      <4>4. CASE EvictForget(t)
        BY <4>4, <3>3 DEF EvictForget, TypeOK, Call
      <4>5. QED
        BY <2>3, <4>1, <4>2, <4>3, <4>4
    <3>5. QED
      BY <1>2, <1>4, <3>2, <3>4 DEF StoringEmpty
  <2>4. op[t].pc \in {"check", "scan", "stat", "choose", "forget", "write"}
        /\ op[t].todo # {}
    BY <1>2, <1>4 DEF StoringEmpty
  <2>5. QED
    BY <1>2, <2>1, <2>2, <2>3, <2>4
    DEF Step, PutBlobs, WriteFails, WrittenAll, Commit, EvictRows, ReadFile, Touch,
        DropBad, RememberAll, PutResult, DropResult
<1>5. QED
  BY <1>3, <1>4

LEMMA EmptyNext == TypeOK /\ EmptyInv /\ [Next]_vars => EmptyInv'
<1> SUFFICES ASSUME TypeOK, EmptyInv, [Next]_vars PROVE EmptyInv'
  OBVIOUS
<1>1. ASSUME NEW t \in Thread, Step(t) PROVE EmptyInv'
  <2>1. EmptySpared' /\ EmptyComing'
    BY <1>1, SparedStep, ComingStep, SMTT(40) DEF EmptyInv
  <2>2. phase' = phase \/ phase' = "starting"
    BY <1>1 DEF Step, PutBlobs, WriteFile, WriteFails, WrittenAll, Commit, EvictCheck,
       EvictScan, EvictStat, EvictChoose, EvictForget, EvictRows, ReadFile,
       Touch, DropBad, RememberAll, PutResult, DropResult, Reconcile
  <2>3. EmptyStays'
    BY <1>1, <2>2, EmptyKeptStep DEF EmptyInv, EmptyStays
  <2>4. QED
    BY <2>1, <2>3 DEF EmptyInv
<1>2. CASE Serve
  <2>1. Empty \in OnDisk
    BY <1>2 DEF Serve, EmptyInv, EmptyComing, StoringEmpty
  <2>2. QED
    BY <1>2, <2>1
    DEF Serve, EmptyInv, EmptySpared, EmptyComing, EmptyStays, OnDisk
<1>3. CASE Stop
  BY <1>3, BlobAssumption
  DEF Stop, Done, EmptyInv, EmptySpared, EmptyComing, EmptyStays, TypeOK
<1>4. CASE DiscardIfOld \/ \E b \in Blob : LoseFile(b)
  BY <1>4, BlobAssumption
  DEF DiscardIfOld, LoseFile, EmptyInv, EmptySpared, EmptyComing, EmptyStays, TypeOK
<1>5. CASE \E b \in Blob : CorruptFile(b)
  BY <1>5, BlobAssumption
  DEF CorruptFile, EmptyInv, EmptySpared, EmptyComing, EmptyStays, StoringEmpty,
      OnDisk, TypeOK
<1>6. CASE UNCHANGED vars
  BY <1>6 DEF vars, EmptyInv, EmptySpared, EmptyComing, EmptyStays, StoringEmpty,
     OnDisk
<1>7. QED
  BY <1>1, <1>2, <1>3, <1>4, <1>5, <1>6 DEF Next

\* From the first request served to the last, the empty blob is on disk.
THEOREM EmptyCorrect == Spec => []EmptyStays
<1>1. Init => EmptyInv
  BY BlobAssumption
  DEF Init, Done, EmptyInv, EmptySpared, EmptyComing, EmptyStays
<1>2. EmptyInv => EmptyStays
  BY DEF EmptyInv
<1>3. QED
  BY <1>1, <1>2, EmptyNext, TypeCorrect, PTL DEF Spec

-----------------------------------------------------------------------------
(* Provenance.                                                             *)

\* Rows go only as far as the index is over its bound.
LEMMA EvictRowsOver ==
  ASSUME TypeOK, NEW t \in Thread, EvictRows(t), NEW b \in Blob,
         bundle[b] # NoBundle, bundle'[b] = NoBundle
  PROVE  row[b] = "absent" /\ RowCount > MaxRows
<1>1. PICK B \in SUBSET AffordableBlobs, R \in SUBSET results :
        /\ \/ Cardinality(B) + Cardinality(R) = 0
           \/ Cardinality(B) + Cardinality(R) <= RowCount - MaxRows
        /\ bundle' = [c \in Blob |-> IF c \in B THEN NoBundle ELSE bundle[c]]
  BY DEF EvictRows
<1>2. b \in B
  BY <1>1
<1>3. IsFiniteSet(B) /\ IsFiniteSet(R)
  BY FiniteAssumption, FS_Subset DEF AffordableBlobs, TypeOK
<1>4. Cardinality(B) \in Nat /\ Cardinality(R) \in Nat /\ Cardinality(B) # 0
  BY <1>2, <1>3, FS_CardinalityType, FS_EmptySet
<1>5. RowCount \in Nat
  <2>1. IsFiniteSet(Rows) /\ IsFiniteSet(results)
    BY FiniteAssumption, FS_Subset DEF Rows, TypeOK
  <2>2. QED
    BY <2>1, FS_CardinalityType DEF RowCount
<1>6. QED
  BY <1>1, <1>2, <1>4, <1>5, BoundsAssumption DEF AffordableBlobs

\* A blob never forgets its bundle before the index is over its row bound, nor
\* while there is a file of it, but for one no row counts: what a put has
\* written and not committed, or left by failing.
THEOREM ProvenanceCorrect == Spec => ProvenanceKept
<1>1. ASSUME TypeOK, [Next]_vars, NEW b \in Blob,
             phase # "down", bundle[b] # NoBundle, bundle'[b] = NoBundle
      PROVE  /\ RowCount > MaxRows
             /\ b \in OnDisk =>
                  b \in Unaccounted \/ \E t \in Thread : Writing(t, b) /\ b \notin Present
  <2>1. PICK t \in Thread : EvictRows(t)
    BY <1>1, BlobAssumption, ZenonT(60)
    DEF Next, Step, PutBlobs, WriteFile, WriteFails, WrittenAll, Commit, Coalesced, EvictCheck,
        EvictScan, EvictStat, EvictChoose, EvictForget, ReadFile, Touch, DropBad,
        RememberAll, PutResult, DropResult, Reconcile, Serve, Stop, DiscardIfOld,
        LoseFile, CorruptFile, vars, TypeOK
  <2>2. row[b] = "absent" /\ RowCount > MaxRows
    BY <1>1, <2>1, EvictRowsOver, SMTT(40)
  <2>3. QED
    BY <2>2 DEF Unaccounted, Present
<1>2. TypeOK /\ [Next]_vars =>
        [\A b \in Blob :
           phase # "down" /\ bundle[b] # NoBundle /\ bundle'[b] = NoBundle
             => /\ RowCount > MaxRows
                /\ b \in OnDisk =>
                     b \in Unaccounted \/ \E t \in Thread : Writing(t, b) /\ b \notin Present]_vars
  BY <1>1
<1>3. QED
  BY <1>2, TypeCorrect, PTL DEF Spec, ProvenanceKept
-----------------------------------------------------------------------------
(* One thread, w: the invariant.                                           *)

\* What holds with any number of threads.
Base == TypeOK /\ HeldMatchesIndex /\ TodoInBatch /\ SweptAtStart /\ EmptyInv

Evicting == {"check", "scan", "stat", "choose", "forget"}

\* What a call has done so far.
CallSeq(w) ==
  /\ op[w].pc # "idle" => op[w].answer = "none"
  /\ op[w].answer # "raised"
  /\ phase = "down" => op[w].pc = "idle" /\ op[w].answer = "none"
  /\ op[w].pc \in Evicting /\ op[w].making => op[w].todo = op[w].batch
  /\ op[w].pc \in {"write", "commit"} => op[w].batch \ op[w].todo \subseteq OnDisk
  /\ op[w].pc = "commit" => op[w].todo = {} /\ op[w].arriving = 0
  /\ op[w].pc = "touch" => op[w].batch \subseteq OnDisk
  /\ op[w].pc = "drop" => \A b \in op[w].batch : disk[b] = "bad"

\* Rows agree with files, and only what may be damaged is.
FilesSeq ==
  /\ phase # "down" => Present \subseteq OnDisk
  /\ \A b \in Blob : disk[b] = "bad" => b \in Corruptible

\* What an eviction under way is about: it is needed, and it sees everything.
EvictSeq(w) ==
  /\ op[w].pc \in Evicting /\ op[w].making => op[w].arriving = Bytes[op[w].batch \ Present]
  /\ op[w].pc \in Evicting /\ ~op[w].making => op[w].arriving = 0
  /\ op[w].pc \in Evicting \ {"check"} => held + op[w].arriving > MaxBytes
  /\ op[w].pc \in {"stat", "choose"} => op[w].going = Evictable(w)
  /\ op[w].pc = "forget" =>
       op[w].going \in Victims(Evictable(w), held + op[w].arriving - LowWater)

\* The bound: kept but at the start of a process and by a batch larger than it.
SpaceSeq(w) ==
  /\ phase = "starting" /\ op[w].pc \in Evicting /\ op[w].making => op[w].batch = {Empty}
  /\ phase = "serving" /\ op[w].pc \in Evicting /\ op[w].making => held <= MaxBytes
  /\ op[w].pc \in {"write", "commit"} /\ Bytes[op[w].batch] <= MaxBytes =>
       held + Bytes[op[w].batch \ Present] <= MaxBytes
  /\ op[w].pc \in Evicting /\ ~op[w].making /\ Bytes[op[w].batch] <= MaxBytes =>
       held <= MaxBytes /\ op[w].batch \subseteq Present
  /\ op[w].pc = "rows" /\ Bytes[op[w].batch] <= MaxBytes => op[w].batch \subseteq Present
  /\ phase # "down" /\ op[w].pc \notin Evicting => held <= MaxBytes

Rest(w) == CallSeq(w) /\ FilesSeq /\ EvictSeq(w) /\ SpaceSeq(w)

SeqInv(w) == Base /\ Rest(w)

-----------------------------------------------------------------------------
(* Sizes and calls.                                                        *)

LEMMA BytesSubset ==
  ASSUME NEW S \in SUBSET Blob, NEW T \in SUBSET S
  PROVE  Bytes[T] <= Bytes[S]
<1>1. T \cup S = S /\ T \in SUBSET Blob /\ S \ T \in SUBSET Blob
  OBVIOUS
<1>2. Bytes[S] = Bytes[T] + Bytes[S \ T]
  BY <1>1, BytesOfUnion
<1>3. QED
  BY <1>1, <1>2, BytesType

LEMMA BytesWithEmpty ==
  ASSUME NEW S \in SUBSET Blob, NEW T \in SUBSET (S \cup {Empty})
  PROVE  Bytes[T] <= Bytes[S]
<1>1. S \cup {Empty} \in SUBSET Blob /\ {Empty} \in SUBSET Blob /\ T \in SUBSET Blob
  BY BlobAssumption
<1>2. Bytes[S \cup {Empty}] = Bytes[S] + Bytes[{Empty} \ S]
  BY <1>1, BytesOfUnion
<1>3. Bytes[{Empty}] = 0
  BY BlobAssumption, BytesAssumption
<1>4. Bytes[{Empty} \ S] <= Bytes[{Empty}]
  BY <1>1, BytesSubset
<1>5. Bytes[T] <= Bytes[S \cup {Empty}]
  BY <1>1, BytesSubset
<1>6. QED
  BY <1>1, <1>2, <1>3, <1>4, <1>5, BytesType

\* The steps of an eviction change where a call is and what is going.
LEMMA SameCall ==
  ASSUME NEW c \in Call, NEW pc, NEW G
  PROVE  LET d == [c EXCEPT !.pc = pc, !.going = G]
         IN  /\ d.pc = pc /\ d.going = G /\ d.batch = c.batch /\ d.todo = c.todo
             /\ d.making = c.making /\ d.arriving = c.arriving /\ d.answer = c.answer
             /\ d.from = c.from
BY DEF Call

\* What is left once the victims of an eviction are gone: room for the batch, or
\* nothing that could go.
LEMMA Room ==
  ASSUME NEW w, Thread = {w}, SeqInv(w), op[w].pc \in {"choose", "forget"},
         NEW S \in Victims(Evictable(w), held + op[w].arriving - LowWater)
  PROVE  /\ S \in SUBSET Present
         /\ Empty \notin S
         /\ op[w].making =>
              /\ S \cap op[w].batch = {}
              /\ Bytes[op[w].batch] <= MaxBytes =>
                   Bytes[Present \ S] + Bytes[op[w].batch \ (Present \ S)] <= MaxBytes
         /\ Bytes[Present \ S] <= MaxBytes
         /\ ~op[w].making => Bytes[op[w].batch] > MaxBytes
<1> DEFINE left == Present \ S
           batch == op[w].batch
<1>1. /\ S \in SUBSET Present /\ left \in SUBSET Blob /\ batch \in SUBSET Blob
      /\ Present \in SUBSET Blob /\ S \in SUBSET Blob
      /\ op[w].making \in BOOLEAN /\ op[w].arriving \in Nat /\ phase # "down"
      /\ phase \in {"starting", "serving"}
  <2>1. op[w] \in Call
    BY DEF SeqInv, Base, TypeOK
  <2>2. batch \in SUBSET Blob /\ op[w].making \in BOOLEAN /\ op[w].arriving \in Nat
    BY <2>1 DEF Call
  <2>3. S \in SUBSET Present /\ Present \in SUBSET Blob
    BY DEF Victims, Evictable, Present
  <2>4. phase # "down" /\ phase \in {"down", "starting", "serving"}
    BY DEF SeqInv, Rest, Base, TypeOK, CallSeq
  <2>5. QED
    BY <2>2, <2>3, <2>4
<1>2. Empty \notin S
  <2>1. Bytes[{Empty}] = 0
    BY BlobAssumption, BytesAssumption
  <2>2. S \subseteq Evictable(w)
    BY DEF Victims
  <2>3. QED
    BY <2>1, <2>2 DEF Evictable
<1>3. /\ held = Bytes[Present]
      /\ held + op[w].arriving > MaxBytes
  BY <1>1 DEF SeqInv, Rest, Base, HeldMatchesIndex, EvictSeq, Evicting
<1>4. Bytes[left] = held - Bytes[S]
  <2>1. S \cap Present = S
    BY <1>1
  <2>2. QED
    BY <1>1, <1>3, <2>1, BytesOfDifference
<1>5. \/ S = Evictable(w)
      \/ Bytes[left] + op[w].arriving <= LowWater
  <2>1. S = Evictable(w) \/ Bytes[S] >= held + op[w].arriving - LowWater
    BY DEF Victims
  <2>2. held \in Int /\ LowWater \in Int /\ Bytes[S] \in Int /\ Bytes[left] \in Int
    BY <1>1, BytesType, BoundsAssumption DEF SeqInv, Base, TypeOK
  <2>3. QED
    BY <1>1, <1>4, <2>1, <2>2
<1>6. ASSUME op[w].making
      PROVE  /\ S \cap batch = {}
             /\ Bytes[batch] <= MaxBytes => Bytes[left] + Bytes[batch \ left] <= MaxBytes
             /\ Bytes[left] <= MaxBytes
  <2>1. S \cap batch = {}
    BY <1>6 DEF Victims, Evictable
  <2>2. batch \ left = batch \ Present
    BY <2>1
  <2>3. op[w].arriving = Bytes[batch \ left]
    BY <1>6, <2>2 DEF SeqInv, Rest, EvictSeq, Evicting
  <2>4. Bytes[left] \in Nat /\ Bytes[batch \ left] \in Nat /\ Bytes[batch] \in Nat
        /\ Bytes[left \cup batch] = Bytes[left] + Bytes[batch \ left]
    BY <1>1, BytesOfUnion, BytesType
  <2>5. CASE Bytes[left] + op[w].arriving <= LowWater
    BY <2>1, <2>3, <2>4, <2>5, BoundsAssumption
  <2>6. CASE S = Evictable(w)
    <3>1. left \subseteq batch \cup {Empty}
      <4>1. ASSUME NEW b \in left, b \notin batch PROVE b = Empty
        <5>1. b \in Present /\ b \notin Evictable(w) /\ b \in Blob
          BY <1>1, <2>6, <4>1
        <5>2. ~(Bytes[{b}] > 0)
          BY <1>6, <4>1, <5>1 DEF Evictable
        <5>3. Bytes[{b}] = 0
          BY <5>1, <5>2, BytesType
        <5>4. QED
          BY <5>1, <5>3, BytesAssumption
      <4>2. QED
        BY <4>1
    <3>2. left \cup batch \in SUBSET (batch \cup {Empty})
      BY <3>1
    <3>3. Bytes[left \cup batch] <= Bytes[batch]
      BY <1>1, <3>2, BytesWithEmpty
    <3>4. Bytes[left] <= MaxBytes
      <4>1. CASE phase = "serving"
        <5>1. held <= MaxBytes
          BY <1>6, <4>1 DEF SeqInv, Rest, SpaceSeq, Evicting
        <5>2. Bytes[left] <= Bytes[Present]
          BY <1>1, BytesSubset
        <5>3. QED
          BY <1>1, <1>3, <5>1, <5>2, BytesType, BoundsAssumption
      <4>2. CASE phase = "starting"
        <5>1. batch = {Empty}
          BY <1>6, <4>2 DEF SeqInv, Rest, SpaceSeq, Evicting
        <5>2. Bytes[batch] = 0
          BY <5>1, BlobAssumption, BytesAssumption
        <5>3. Bytes[left] <= Bytes[batch]
          BY <1>1, <3>1, BytesWithEmpty
        <5>4. QED
          BY <2>4, <5>2, <5>3, BoundsAssumption
      <4>3. QED
        BY <1>1, <4>1, <4>2
    <3>5. QED
      BY <2>1, <2>4, <3>3, <3>4, BoundsAssumption
  <2>7. QED
    BY <1>5, <2>5, <2>6
<1>7. ASSUME ~op[w].making
      PROVE  Bytes[left] <= MaxBytes /\ Bytes[batch] > MaxBytes
  <2>1. op[w].arriving = 0
    BY <1>7 DEF SeqInv, Rest, EvictSeq, Evicting
  <2>2. Bytes[batch] > MaxBytes
    <3>1. Bytes[batch] <= MaxBytes => held <= MaxBytes
      BY <1>7 DEF SeqInv, Rest, SpaceSeq, Evicting
    <3>2. held \in Int /\ Bytes[batch] \in Nat
      BY <1>1, BytesType DEF SeqInv, Base, TypeOK
    <3>3. QED
      BY <1>3, <2>1, <3>1, <3>2, BoundsAssumption
  <2>3. Bytes[left] \in Nat
    BY <1>1, BytesType
  <2>4. CASE Bytes[left] + op[w].arriving <= LowWater
    BY <2>1, <2>2, <2>3, <2>4, BoundsAssumption
  <2>5. CASE S = Evictable(w)
    <3>1. left \subseteq {} \cup {Empty}
      <4>1. ASSUME NEW b \in left PROVE b = Empty
        <5>1. b \in Present /\ b \notin Evictable(w) /\ b \in Blob
          BY <1>1, <2>5, <4>1
        <5>2. ~(Bytes[{b}] > 0)
          BY <1>7, <5>1 DEF Evictable
        <5>3. Bytes[{b}] = 0
          BY <5>1, <5>2, BytesType
        <5>4. QED
          BY <5>1, <5>3, BytesAssumption
      <4>2. QED
        BY <4>1
    <3>2. Bytes[left] <= Bytes[{}]
      BY <3>1, BytesWithEmpty
    <3>3. QED
      BY <2>2, <2>3, <3>2, BytesEmptySet, BoundsAssumption
  <2>6. QED
    BY <1>5, <2>4, <2>5
<1>8. QED
  BY <1>1, <1>2, <1>6, <1>7

-----------------------------------------------------------------------------
(* The invariant is inductive.                                             *)

LEMMA BaseNext == Base /\ [Next]_vars => Base'
BY TypeNext, HeldNext, TodoNext, UnaccountedNext, EmptyNext DEF Base

\* What every step of a call may rely on.
LEMMA Given ==
  ASSUME NEW w, Thread = {w}, SeqInv(w)
  PROVE  /\ op[w] \in Call /\ DOMAIN op = {w}
         /\ op[w].batch \in SUBSET Blob /\ op[w].todo \in SUBSET Blob
         /\ op[w].todo \subseteq op[w].batch
         /\ op[w].making \in BOOLEAN /\ op[w].arriving \in Nat
         /\ phase \in {"down", "starting", "serving"} /\ held \in Int
         /\ disk \in [Blob -> {"none", "good", "bad"}]
         /\ row \in [Blob -> {"none", "absent", "present"}]
         /\ bundle \in [Blob -> Bundle \cup {NoBundle}]
         /\ Present \in SUBSET Blob /\ OnDisk \in SUBSET Blob
         /\ phase # "down" => held = Bytes[Present]
         /\ op[w].pc = "idle" /\ phase = "starting" => OnDisk \subseteq Present
<1>1. op[w] \in Call /\ DOMAIN op = {w}
  BY DEF SeqInv, Base, TypeOK
<1>2. /\ op[w].batch \in SUBSET Blob /\ op[w].todo \in SUBSET Blob
      /\ op[w].making \in BOOLEAN /\ op[w].arriving \in Nat
  BY <1>1 DEF Call
<1>3. op[w].pc = "idle" /\ phase = "starting" => OnDisk \subseteq Present
  BY DEF SeqInv, Base, SweptAtStart, Unaccounted, Writing
<1>4. QED
  BY <1>1, <1>2, <1>3
  DEF SeqInv, Base, TypeOK, TodoInBatch, HeldMatchesIndex, Present, OnDisk

LEMMA PutBlobsRest ==
  ASSUME NEW w, Thread = {w}, SeqInv(w),
         NEW S \in SUBSET Blob, NEW bn \in Bundle \cup {NoBundle}, PutBlobs(w, S, bn)
  PROVE  Rest(w)'
<1>1. op'[w] = Putting(S, bn)
  BY Given DEF PutBlobs
<1>2. /\ op'[w].pc = "check" /\ op'[w].batch = S /\ op'[w].todo = S /\ op'[w].making
      /\ op'[w].arriving = Bytes[S \ Present] /\ op'[w].answer = "none"
  BY <1>1 DEF Putting, Done
<1>3. Present' = Present /\ OnDisk' = OnDisk /\ UNCHANGED <<phase, disk, held>>
      /\ phase = "serving" /\ held <= MaxBytes
  BY DEF PutBlobs, Present, OnDisk, SeqInv, Rest, SpaceSeq, Evicting
<1>4. QED
  BY <1>2, <1>3 DEF SeqInv, Rest, CallSeq, FilesSeq, EvictSeq, SpaceSeq, Evicting

LEMMA WriteRest ==
  ASSUME NEW w, Thread = {w}, SeqInv(w),
         (\E b \in Blob : WriteFile(w, b)) \/ WrittenAll(w)
  PROVE  Rest(w)'
<1>1. CASE \E b \in Blob : WriteFile(w, b)
  <2>1. PICK b \in Blob : WriteFile(w, b)
    BY <1>1
  <2>2. /\ op[w].pc = "write" /\ op'[w].pc = "write" /\ op'[w].batch = op[w].batch
        /\ op'[w].todo = op[w].todo \ {b} /\ op'[w].answer = op[w].answer
    BY <2>1, Given DEF WriteFile, Call
  <2>3. Present' = Present /\ OnDisk' = OnDisk \cup {b} /\ UNCHANGED <<phase, held>>
        /\ \A c \in Blob : disk'[c] = "bad" => disk[c] = "bad"
    BY <2>1, Given DEF WriteFile, Present, OnDisk
  <2>4. CallSeq(w)'
    BY <2>2, <2>3 DEF SeqInv, Rest, CallSeq, Evicting
  <2>5. QED
    BY <2>2, <2>3, <2>4 DEF SeqInv, Rest, FilesSeq, EvictSeq, SpaceSeq, Evicting
<1>2. CASE WrittenAll(w)
  <2>1. /\ op[w].pc = "write" /\ op'[w].pc = "commit" /\ op'[w].batch = op[w].batch
        /\ op[w].todo = {} /\ op'[w].todo = {} /\ op'[w].answer = op[w].answer
        /\ op'[w].arriving = 0
    BY <1>2, Given DEF WrittenAll, Call
  <2>2. Present' = Present /\ OnDisk' = OnDisk /\ UNCHANGED <<phase, disk, held>>
    BY <1>2 DEF WrittenAll, Present, OnDisk
  <2>3. QED
    BY <2>1, <2>2 DEF SeqInv, Rest, CallSeq, FilesSeq, EvictSeq, SpaceSeq, Evicting
<1>3. QED
  BY <1>1, <1>2

LEMMA CommitRest ==
  ASSUME NEW w, Thread = {w}, SeqInv(w), Commit(w)
  PROVE  Rest(w)'
<1>1. /\ op[w].pc = "commit" /\ op'[w].pc = "check" /\ op'[w].batch = op[w].batch
      /\ op'[w].arriving = op[w].arriving /\ ~op'[w].making /\ op'[w].answer = op[w].answer
  BY Given DEF Commit, Call
<1>2. /\ Present' = Present \cup op[w].batch /\ OnDisk' = OnDisk
      /\ UNCHANGED <<phase, disk>> /\ held' = held + Bytes[op[w].batch \ Present]
  BY Given DEF Commit, Present, OnDisk
<1>3. op[w].batch \subseteq OnDisk /\ op[w].arriving = 0 /\ op[w].answer = "none" /\ phase # "down"
  BY <1>1 DEF SeqInv, Rest, CallSeq
<1>4. Bytes[op[w].batch] <= MaxBytes => held' <= MaxBytes
  BY <1>1, <1>2 DEF SeqInv, Rest, SpaceSeq
<1>5. QED
  BY <1>1, <1>2, <1>3, <1>4 DEF SeqInv, Rest, CallSeq, FilesSeq, EvictSeq, SpaceSeq, Evicting

LEMMA CheckRest ==
  ASSUME NEW w, Thread = {w}, SeqInv(w), EvictCheck(w)
  PROVE  Rest(w)'
<1>1. /\ op[w].pc = "check" /\ op'[w].batch = op[w].batch
      /\ op'[w].todo = op[w].todo /\ op'[w].making = op[w].making
      /\ op'[w].arriving = op[w].arriving /\ op'[w].answer = op[w].answer
      /\ op'[w].pc = IF held + op[w].arriving <= MaxBytes THEN Evicted(w) ELSE "scan"
  BY Given DEF EvictCheck, Call
<1>2. Present' = Present /\ OnDisk' = OnDisk /\ UNCHANGED <<phase, disk, held>>
  BY DEF EvictCheck, Present, OnDisk
<1>types. held \in Int /\ op[w].arriving \in Nat /\ MaxBytes \in Nat
  BY Given, BoundsAssumption
<1>3. CASE held + op[w].arriving <= MaxBytes /\ op[w].making
  <2>1. op'[w].pc = "write"
    BY <1>1, <1>3 DEF Evicted
  <2>2. held <= MaxBytes
    BY <1>3, <1>types
  <2>3. op[w].arriving = Bytes[op[w].batch \ Present] /\ op[w].todo = op[w].batch
    BY <1>1, <1>3 DEF SeqInv, Rest, EvictSeq, CallSeq, Evicting
  <2>4. QED
    BY <1>1, <1>2, <1>3, <2>1, <2>2, <2>3
    DEF SeqInv, Rest, CallSeq, FilesSeq, EvictSeq, SpaceSeq, Evicting
<1>4. CASE held + op[w].arriving <= MaxBytes /\ ~op[w].making
  <2>1. op'[w].pc = "rows"
    BY <1>1, <1>4 DEF Evicted
  <2>2. held <= MaxBytes
    <3>1. op[w].arriving = 0
      BY <1>1, <1>4 DEF SeqInv, Rest, EvictSeq, Evicting
    <3>2. QED
      BY <1>4, <3>1, <1>types
  <2>3. QED
    BY <1>1, <1>2, <1>4, <2>1, <2>2
    DEF SeqInv, Rest, CallSeq, FilesSeq, EvictSeq, SpaceSeq, Evicting
<1>5. CASE ~(held + op[w].arriving <= MaxBytes)
  <2>1. op'[w].pc = "scan" /\ held + op[w].arriving > MaxBytes
    BY <1>1, <1>5, <1>types
  <2>2. QED
    BY <1>1, <1>2, <2>1 DEF SeqInv, Rest, CallSeq, FilesSeq, EvictSeq, SpaceSeq, Evicting
<1>6. QED
  BY <1>3, <1>4, <1>5, <1>types

LEMMA ScanRest ==
  ASSUME NEW w, Thread = {w}, SeqInv(w), EvictScan(w) \/ EvictStat(w)
  PROVE  Rest(w)'
<1>1. /\ op[w].pc \in {"scan", "stat"} /\ op'[w].pc \in {"stat", "choose"}
      /\ op'[w].batch = op[w].batch /\ op'[w].todo = op[w].todo
      /\ op'[w].making = op[w].making /\ op'[w].arriving = op[w].arriving
      /\ op'[w].answer = op[w].answer
  <2>1. PICK pc \in {"stat", "choose"} :
          \E G : op' = [op EXCEPT ![w] = [op[w] EXCEPT !.pc = pc, !.going = G]]
    BY DEF EvictScan, EvictStat
  <2>2. PICK G : op' = [op EXCEPT ![w] = [op[w] EXCEPT !.pc = pc, !.going = G]]
    BY <2>1
  <2>3. op'[w] = [op[w] EXCEPT !.pc = pc, !.going = G]
    BY <2>2, Given
  <2>4. QED
    BY <2>3, Given, SameCall DEF EvictScan, EvictStat
<1>2. Present' = Present /\ OnDisk' = OnDisk /\ UNCHANGED <<phase, disk, held>>
  BY DEF EvictScan, EvictStat, Present, OnDisk
<1>3. Evictable(w)' = Evictable(w)
  BY <1>1, <1>2 DEF Evictable
<1>4. op'[w].going = Evictable(w)
  <2>1. CASE EvictScan(w)
    BY <2>1, Given, SameCall DEF EvictScan
  <2>2. CASE EvictStat(w)
    <3>1. op[w].going = Evictable(w) /\ Present \subseteq OnDisk
      BY <2>2 DEF EvictStat, SeqInv, Rest, EvictSeq, FilesSeq, CallSeq
    <3>2. op'[w] = [op[w] EXCEPT !.pc = "choose", !.going = op[w].going \cap OnDisk]
      BY <2>2, Given DEF EvictStat
    <3>g. op'[w].going = op[w].going \cap OnDisk
      BY <3>2, Given, SameCall
    <3>3. QED
      BY <3>1, <3>g DEF Evictable
  <2>3. QED
    BY <2>1, <2>2
<1>5. QED
  BY <1>1, <1>2, <1>3, <1>4 DEF SeqInv, Rest, CallSeq, FilesSeq, EvictSeq, SpaceSeq, Evicting

\* An eviction that is over, with the victims gone.
LEMMA EvictedRest ==
  ASSUME NEW w, Thread = {w}, SeqInv(w), op[w].pc \in {"choose", "forget"},
         NEW S \in Victims(Evictable(w), held + op[w].arriving - LowWater),
         Present' = Present \ S, OnDisk' = OnDisk \ S, phase' = phase,
         held' = Bytes[Present \ S],
         \A b \in Blob : disk'[b] = "bad" => disk[b] = "bad",
         op'[w].pc = Evicted(w), op'[w].batch = op[w].batch, op'[w].todo = op[w].todo,
         op'[w].making = op[w].making, op'[w].answer = op[w].answer,
         op'[w].arriving = op[w].arriving
  PROVE  Rest(w)'
<1>1. Bytes[Present \ S] <= MaxBytes
  BY Room
<1>2. phase # "down" /\ op[w].answer = "none" /\ phase \in {"starting", "serving"}
  BY Given DEF SeqInv, Rest, CallSeq
<1>3. CASE op[w].making
  <2>1. op'[w].pc = "write"
    BY <1>3 DEF Evicted
  <2>2. S \cap op[w].batch = {} /\ op[w].todo = op[w].batch
    BY <1>3, Room DEF SeqInv, Rest, CallSeq, Evicting
  <2>3. Bytes[op[w].batch] <= MaxBytes => held' + Bytes[op[w].batch \ Present'] <= MaxBytes
    BY <1>3, Room
  <2>4. QED
    BY <1>1, <1>2, <2>1, <2>2, <2>3
    DEF SeqInv, Rest, CallSeq, FilesSeq, EvictSeq, SpaceSeq, Evicting
<1>4. CASE ~op[w].making
  <2>1. op'[w].pc = "rows"
    BY <1>4 DEF Evicted
  <2>2. ~(Bytes[op[w].batch] <= MaxBytes)
    <3>1. Bytes[op[w].batch] > MaxBytes
      BY <1>4, Room
    <3>2. op[w].batch \in SUBSET Blob
      BY Given
    <3>3. Bytes[op[w].batch] \in Nat /\ MaxBytes \in Nat
      BY <3>2, BytesType, BoundsAssumption
    <3>4. QED
      BY <3>1, <3>3
  <2>3. QED
    BY <1>1, <1>2, <2>1, <2>2
    DEF SeqInv, Rest, CallSeq, FilesSeq, EvictSeq, SpaceSeq, Evicting
<1>5. QED
  BY <1>3, <1>4

LEMMA ChooseRest ==
  ASSUME NEW w, Thread = {w}, SeqInv(w), EvictChoose(w)
  PROVE  Rest(w)'
<1>1. op[w].pc = "choose" /\ op[w].going = Evictable(w)
  BY SMTT(40) DEF EvictChoose, SeqInv, Rest, EvictSeq
<1>2. PICK S \in Victims(Evictable(w), held + op[w].arriving - LowWater) :
        op' = [op EXCEPT ![w] = [op[w] EXCEPT
                  !.pc = IF S = {} THEN Evicted(w) ELSE "forget", !.going = S]]
  BY <1>1 DEF EvictChoose
<1>3. /\ op'[w].pc = IF S = {} THEN Evicted(w) ELSE "forget"
      /\ op'[w].going = S /\ op'[w].batch = op[w].batch /\ op'[w].todo = op[w].todo
      /\ op'[w].making = op[w].making /\ op'[w].arriving = op[w].arriving
      /\ op'[w].answer = op[w].answer
  <2>1. op'[w] = [op[w] EXCEPT !.pc = IF S = {} THEN Evicted(w) ELSE "forget", !.going = S]
    BY <1>2, Given
  <2>2. QED
    BY <2>1, Given, SameCall
<1>4. Present' = Present /\ OnDisk' = OnDisk /\ UNCHANGED <<phase, disk, held>>
  BY DEF EvictChoose, Present, OnDisk
<1>5. CASE S = {}
  <2>1. Present' = Present \ S /\ OnDisk' = OnDisk \ S /\ op'[w].pc = Evicted(w)
    BY <1>3, <1>4, <1>5
  <2>2. held' = Bytes[Present \ S]
    BY <1>1, <1>4, <1>5, Given DEF SeqInv, Rest, CallSeq
  <2>3. QED
    BY <1>1, <1>3, <1>4, <2>1, <2>2, EvictedRest
<1>6. CASE S # {}
  <2>1. op'[w].pc = "forget"
    BY <1>3, <1>6
  <2>2. Evictable(w)' = Evictable(w)
    BY <1>3, <1>4 DEF Evictable
  <2>3. op'[w].going \in Victims(Evictable(w), held + op[w].arriving - LowWater)'
    BY <1>3, <1>4, <2>2 DEF Victims
  <2>4. QED
    BY <1>1, <1>3, <1>4, <2>1, <2>3
    DEF SeqInv, Rest, CallSeq, FilesSeq, EvictSeq, SpaceSeq, Evicting
<1>7. QED
  BY <1>5, <1>6

LEMMA ForgetRest ==
  ASSUME NEW w, Thread = {w}, SeqInv(w), EvictForget(w)
  PROVE  Rest(w)'
<1> DEFINE S == op[w].going
<1>1. op[w].pc = "forget" /\ S \in Victims(Evictable(w), held + op[w].arriving - LowWater)
  BY DEF EvictForget, SeqInv, Rest, EvictSeq
<1>2. /\ op'[w].pc = Evicted(w) /\ op'[w].batch = op[w].batch /\ op'[w].todo = op[w].todo
      /\ op'[w].making = op[w].making /\ op'[w].arriving = op[w].arriving
      /\ op'[w].answer = op[w].answer
  <2>1. op'[w] = [op[w] EXCEPT !.pc = Evicted(w), !.going = {}]
    BY Given DEF EvictForget
  <2>2. QED
    BY <2>1, Given, SameCall
<1>3. S \in SUBSET Present /\ phase # "down"
  BY <1>1, Room, ZenonT(60) DEF SeqInv, Rest, CallSeq
<1>4. /\ Present' = Present \ S /\ OnDisk' = OnDisk \ S /\ phase' = phase
      /\ \A b \in Blob : disk'[b] = "bad" => disk[b] = "bad"
  BY <1>3, Given DEF EvictForget, Forget, Present, OnDisk
<1>5. held' = Bytes[Present \ S]
  <2>1. Bytes[Present \ S] = Bytes[Present] - Bytes[S \cap Present]
    BY <1>3, Given, BytesOfDifference
  <2>2. QED
    BY <1>3, <2>1, Given DEF EvictForget, Forget
<1>6. QED
  BY <1>1, <1>2, <1>4, <1>5, EvictedRest

\* Steps that leave a call at its end or on its last stretch.
LEMMA EndingRest ==
  ASSUME NEW w, Thread = {w}, SeqInv(w), phase # "down", phase' = phase,
         Present' = Present, OnDisk' = OnDisk, disk' = disk, held' = held,
         op[w].pc \notin Evicting, op'[w].pc \in {"idle", "rows"},
         op'[w].pc = "rows" => op'[w].batch = {} /\ op'[w].answer = "none",
         op'[w].answer # "raised"
  PROVE  Rest(w)'
BY DEF SeqInv, Rest, CallSeq, FilesSeq, EvictSeq, SpaceSeq, Evicting

LEMMA IndexRest ==
  ASSUME NEW w, Thread = {w}, SeqInv(w),
         \/ EvictRows(w) \/ Touch(w) \/ WriteFails(w)
         \/ \E S \in SUBSET Blob, bn \in Bundle : RememberAll(w, S, bn)
         \/ \E a \in Action : PutResult(w, a) \/ DropResult(w, a)
  PROVE  Rest(w)'
<1>1. /\ phase # "down" /\ op[w].pc \notin Evicting
      /\ phase' = phase /\ disk' = disk /\ held' = held /\ OnDisk' = OnDisk
  BY DEF EvictRows, Touch, WriteFails, RememberAll, PutResult, DropResult, OnDisk,
     Evicting, SeqInv, Rest, CallSeq
<1>2. Present' = Present
  BY Given DEF EvictRows, Touch, WriteFails, RememberAll, PutResult, DropResult, Present,
     AffordableBlobs
<1>3. /\ op'[w].pc \in {"idle", "rows"}
      /\ op'[w].pc = "rows" => op'[w].batch = {} /\ op'[w].answer = "none"
      /\ op'[w].answer # "raised"
  <2>1. CASE Touch(w)
    <3>1. op[w].batch \subseteq OnDisk
      BY <2>1 DEF Touch, SeqInv, Rest, CallSeq
    <3>2. op'[w] = Done("bytes")
      BY <2>1, <3>1, Given DEF Touch
    <3>3. QED
      BY <3>2 DEF Done
  <2>2. CASE ~Touch(w)
    <3>1. \/ op'[w] = Done("none")
          \/ op'[w] = [Done("none") EXCEPT !.pc = "rows"]
      BY <2>2, Given DEF EvictRows, WriteFails, RememberAll, PutResult, DropResult
    <3>2. op'[w].batch = {} /\ op'[w].answer = "none" /\ op'[w].pc \in {"idle", "rows"}
      BY <3>1 DEF Done
    <3>3. QED
      BY <3>2
  <2>3. QED
    BY <2>1, <2>2
<1>4. QED
  BY <1>1, <1>2, <1>3, EndingRest

LEMMA ReadRest ==
  ASSUME NEW w, Thread = {w}, SeqInv(w), NEW b \in Blob, ReadFile(w, b)
  PROVE  Rest(w)'
<1>1. Present' = Present /\ OnDisk' = OnDisk /\ UNCHANGED <<phase, disk, held>>
      /\ phase = "serving" /\ op[w].pc = "idle"
  BY DEF ReadFile, Present, OnDisk
<1>2. CASE disk[b] = "none"
  <2>1. op'[w] = Done("absent")
    BY <1>2, Given DEF ReadFile
  <2>2. QED
    BY <1>1, <2>1, EndingRest DEF Done, Evicting
<1>3. CASE disk[b] # "none"
  <2>1. /\ op'[w].pc = IF disk[b] = "good" THEN "touch" ELSE "drop"
        /\ op'[w].batch = {b} /\ op'[w].answer = "none"
    BY <1>3, Given DEF ReadFile, Done
  <2>2. b \in OnDisk /\ disk[b] \in {"good", "bad"}
    BY <1>3, Given DEF OnDisk
  <2>3. QED
    BY <1>1, <2>1, <2>2
    DEF SeqInv, Rest, CallSeq, FilesSeq, EvictSeq, SpaceSeq, Evicting
<1>4. QED
  BY <1>2, <1>3

LEMMA DropRest ==
  ASSUME NEW w, Thread = {w}, SeqInv(w), DropBad(w)
  PROVE  Rest(w)'
<1>1. op'[w] = Done("absent") /\ op[w].pc = "drop" /\ phase' = phase /\ phase # "down"
  BY Given DEF DropBad, SeqInv, Rest, CallSeq
<1>2. /\ Present' = Present \ op[w].batch /\ OnDisk' = OnDisk \ op[w].batch
      /\ \A b \in Blob : disk'[b] = "bad" => disk[b] = "bad"
  BY Given DEF DropBad, Forget, Present, OnDisk
<1>3. held' <= MaxBytes
  <2>1. held <= MaxBytes
    BY <1>1 DEF SeqInv, Rest, SpaceSeq, Evicting
  <2>2. held' = held - Bytes[op[w].batch \cap Present]
    BY DEF DropBad, Forget
  <2>3. Bytes[op[w].batch \cap Present] \in Nat
    BY Given, BytesType
  <2>4. held \in Int /\ MaxBytes \in Int
    BY Given, BoundsAssumption
  <2>5. QED
    BY <2>1, <2>2, <2>3, <2>4
<1>4. QED
  BY <1>1, <1>2, <1>3 DEF SeqInv, Rest, CallSeq, FilesSeq, EvictSeq, SpaceSeq, Evicting, Done

LEMMA ReconcileRest ==
  ASSUME NEW w, Thread = {w}, SeqInv(w), Reconcile(w)
  PROVE  Rest(w)'
<1>1. op'[w] = Putting({Empty}, NoBundle) /\ phase' = "starting"
  BY Given DEF Reconcile
<1>2. /\ op'[w].pc = "check" /\ op'[w].batch = {Empty} /\ op'[w].todo = {Empty}
      /\ op'[w].making /\ op'[w].arriving = Bytes[{Empty} \ Present]
      /\ op'[w].answer = "none"
  BY <1>1 DEF Putting, Done
<1>3. Present' = Present \cap OnDisk /\ OnDisk' = OnDisk \cap Present
      /\ \A b \in Blob : disk'[b] = "bad" => disk[b] = "bad"
  BY Given DEF Reconcile, Present, OnDisk
<1>4. ASSUME NEW P \in SUBSET Blob PROVE Bytes[{Empty} \ P] = 0
  <2>1. {Empty} \ P = {} \/ {Empty} \ P = {Empty}
    OBVIOUS
  <2>2. QED
    BY <2>1, BytesEmptySet, BlobAssumption, BytesAssumption
<1>5. Bytes[{Empty} \ Present] = Bytes[{Empty} \ Present']
  <2>1. Present \in SUBSET Blob /\ Present' \in SUBSET Blob
    BY <1>3, Given
  <2>2. QED
    BY <1>4, <2>1
<1>6. QED
  BY <1>1, <1>2, <1>3, <1>5
  DEF SeqInv, Rest, CallSeq, FilesSeq, EvictSeq, SpaceSeq, Evicting

LEMMA OutsideRest ==
  ASSUME NEW w, Thread = {w}, SeqInv(w),
         Serve \/ Stop \/ DiscardIfOld \/ \E b \in Blob : LoseFile(b) \/ CorruptFile(b)
  PROVE  Rest(w)'
<1>1. CASE Serve
  <2>1. /\ op[w].pc = "idle" /\ op' = op /\ phase' = "serving" /\ phase = "starting"
        /\ Present' = Present /\ OnDisk' = OnDisk /\ UNCHANGED <<disk, held>>
    BY <1>1 DEF Serve, Present, OnDisk
  <2>2. QED
    BY <2>1 DEF SeqInv, Rest, CallSeq, FilesSeq, EvictSeq, SpaceSeq, Evicting
<1>2. CASE Stop
  <2>1. op'[w] = Done("none") /\ phase' = "down" /\ disk' = disk
    BY <1>2 DEF Stop
  <2>2. QED
    BY <2>1 DEF SeqInv, Rest, CallSeq, FilesSeq, EvictSeq, SpaceSeq, Evicting, Done
<1>3. CASE DiscardIfOld \/ \E b \in Blob : LoseFile(b)
  <2>1. /\ op' = op /\ phase = "down" /\ phase' = "down"
        /\ \A b \in Blob : disk'[b] = "bad" => disk[b] = "bad"
    BY <1>3, Given DEF DiscardIfOld, LoseFile
  <2>2. QED
    BY <2>1 DEF SeqInv, Rest, CallSeq, FilesSeq, EvictSeq, SpaceSeq, Evicting
<1>4. CASE \E b \in Blob : CorruptFile(b)
  <2>1. PICK b \in Corruptible :
          disk[b] = "good" /\ disk' = [disk EXCEPT ![b] = "bad"]
          /\ UNCHANGED <<phase, row, held, op>>
    BY <1>4 DEF CorruptFile
  <2>2. /\ Present' = Present /\ OnDisk' = OnDisk
        /\ \A c \in Blob : disk'[c] = "bad" <=> disk[c] = "bad" \/ c = b
    BY <2>1, Given, BlobAssumption DEF Present, OnDisk
  <2>3. Evictable(w)' = Evictable(w)
    BY <2>1, <2>2 DEF Evictable
  <2>4. CallSeq(w)' /\ FilesSeq'
    <3>1. op[w].pc = "drop" => op[w].batch \subseteq Blob
      BY Given
    <3>2. QED
      BY <2>1, <2>2, <3>1 DEF SeqInv, Rest, CallSeq, FilesSeq
  <2>5. QED
    BY <2>1, <2>2, <2>3, <2>4 DEF SeqInv, Rest, EvictSeq, SpaceSeq, Victims
<1>5. QED
  BY <1>1, <1>2, <1>3, <1>4

LEMMA SeqNext ==
  ASSUME NEW w, Thread = {w}
  PROVE  SeqInv(w) /\ [Next]_vars => SeqInv(w)'
<1> SUFFICES ASSUME SeqInv(w), [Next]_vars PROVE Rest(w)'
  BY BaseNext DEF SeqInv
<1>1. CASE Step(w)
  BY <1>1, PutBlobsRest, WriteRest, CommitRest, CheckRest, ScanRest, ChooseRest,
     ForgetRest, IndexRest, ReadRest, DropRest, ReconcileRest DEF Step
<1>2. CASE UNCHANGED vars
  <2>1. Evictable(w)' = Evictable(w)
    BY <1>2 DEF vars, Evictable, Present
  <2>2. QED
    BY <1>2, <2>1
    DEF vars, SeqInv, Rest, CallSeq, FilesSeq, EvictSeq, SpaceSeq, Victims, Present, OnDisk
<1>3. QED
  BY <1>1, <1>2, OutsideRest DEF Next

LEMMA SeqInit ==
  ASSUME NEW w, Thread = {w}
  PROVE  Init => SeqInv(w)
<1> SUFFICES ASSUME Init PROVE SeqInv(w)
  OBVIOUS
<1>1. TypeOK
  BY DoneType DEF Init, TypeOK, Answers
<1>2. EmptyInv
  BY BlobAssumption DEF Init, Done, EmptyInv, EmptySpared, EmptyComing, EmptyStays
<1>3. HeldMatchesIndex /\ TodoInBatch /\ SweptAtStart
  BY DEF Init, Done, HeldMatchesIndex, TodoInBatch, SweptAtStart
<1>4. Rest(w)
  BY DEF Init, Done, Rest, CallSeq, FilesSeq, EvictSeq, SpaceSeq, Evicting
<1>5. QED
  BY <1>1, <1>2, <1>3, <1>4 DEF SeqInv, Base

LEMMA Sequential ==
  ASSUME NEW w, Thread = {w}
  PROVE  Spec => []SeqInv(w)
BY SeqInit, SeqNext, PTL DEF Spec

\* When calls do not overlap, a row marked present has its file between calls.
THEOREM FilesStay ==
  ASSUME NEW w, Thread = {w}
  PROVE  Spec => []RowsHaveFiles
<1>1. SeqInv(w) => RowsHaveFiles
  BY DEF SeqInv, Rest, FilesSeq, RowsHaveFiles, Quiet
<1>2. QED
  BY <1>1, Sequential, PTL

\* When calls do not overlap, the store is within its bound between calls, and
\* a batch that fits is there, files and rows, when put_blobs returns.
THEOREM SpaceStays ==
  ASSUME NEW w, Thread = {w}
  PROVE  Spec => []SpaceKept
<1>1. ASSUME SeqInv(w) PROVE SpaceKept
  <2>1. BoundKept
    BY <1>1 DEF SeqInv, Rest, SpaceSeq, Evicting, BoundKept, Quiet
  <2>2. ASSUME op[w].pc = "rows", Bytes[op[w].batch] <= MaxBytes
        PROVE  op[w].batch \subseteq OnDisk \cap Present
    BY <1>1, <2>2 DEF SeqInv, Rest, CallSeq, FilesSeq, SpaceSeq
  <2>3. QED
    BY <2>1, <2>2 DEF SpaceKept, BatchKept
<1>2. QED
  BY <1>1, Sequential, PTL

-----------------------------------------------------------------------------
(* The store implements the cache.                                         *)

Have == {b \in Present : disk[b] = "good"}
Left == {b \in Blob \ Present : disk[b] = "good"}

LEMMA AnswerIs ==
  ASSUME NEW w, Thread = {w}
  PROVE  LastAnswer = CASE op[w].pc = "touch" -> "bytes"
                        [] op[w].pc = "drop" -> "absent"
                        [] OTHER -> op[w].answer
BY DEF LastAnswer

LEMMA AnswerNext ==
  ASSUME NEW w, Thread = {w}
  PROVE  LastAnswer' = CASE op'[w].pc = "touch" -> "bytes"
                         [] op'[w].pc = "drop" -> "absent"
                         [] OTHER -> op'[w].answer
BY DEF LastAnswer

LEMMA HaveBytes ==
  ASSUME NEW w, Thread = {w}, SeqInv(w)
  PROVE  Have \in SUBSET Blob /\ (phase # "down" => Bytes[Have] <= held)
<1>1. Have \in SUBSET Present /\ Present \in SUBSET Blob
  BY DEF Have, Present
<1>2. QED
  BY <1>1, BytesSubset, Given

Up == phase = "serving"
MappedSame ==
  /\ Up' = Up /\ Have' = Have /\ Left' = Left
  /\ bundle' = bundle /\ LastAnswer' = LastAnswer

\* Calls that only look, or write what no row counts yet, and the checks and
\* choices of an eviction.
LEMMA StutterMaps ==
  ASSUME NEW w, Thread = {w}, SeqInv(w),
         \/ WrittenAll(w) \/ EvictCheck(w) \/ EvictScan(w) \/ EvictStat(w)
         \/ EvictChoose(w) \/ Touch(w) \/ DropBad(w) \/ WriteFails(w)
  PROVE  MappedSame
<1>1. CASE Touch(w)
  <2>1. op'[w] = Done("bytes") /\ op[w].pc = "touch"
    BY <1>1, Given DEF Touch, SeqInv, Rest, CallSeq
  <2>2. LastAnswer' = LastAnswer
    BY <2>1, AnswerIs, AnswerNext DEF Done
  <2>3. QED
    BY <1>1, <2>2 DEF Touch, MappedSame, Up, Have, Left, Present
<1>2. CASE DropBad(w)
  <2>1. op'[w] = Done("absent") /\ op[w].pc = "drop" /\ \A b \in op[w].batch : disk[b] = "bad"
    BY <1>2, Given DEF DropBad, SeqInv, Rest, CallSeq
  <2>2. LastAnswer' = LastAnswer
    BY <2>1, AnswerIs, AnswerNext DEF Done
  <2>3. Have' = Have /\ Left' = Left
    BY <1>2, <2>1, Given DEF DropBad, Forget, Have, Left, Present
  <2>4. QED
    BY <1>2, <2>2, <2>3 DEF DropBad, MappedSame, Up
<1>3. CASE WriteFails(w)
  <2>1. op'[w] = Done("none") /\ op[w].pc = "write" /\ op[w].answer = "none"
    BY <1>3, Given DEF WriteFails, SeqInv, Rest, CallSeq
  <2>2. LastAnswer' = LastAnswer
    BY <2>1, AnswerIs, AnswerNext DEF Done
  <2>3. QED
    BY <1>3, <2>2 DEF WriteFails, MappedSame, Up, Have, Left, Present
<1>4. CASE \/ WrittenAll(w) \/ EvictCheck(w) \/ EvictScan(w) \/ EvictStat(w) \/ EvictChoose(w)
  <2>1. UNCHANGED <<phase, disk, row, bundle>>
    BY <1>4 DEF WrittenAll, EvictCheck, EvictScan, EvictStat, EvictChoose
  <2>2. op[w].pc \notin {"touch", "drop"} /\ op[w].answer = "none"
    BY <1>4 DEF WrittenAll, EvictCheck, EvictScan, EvictStat, EvictChoose, SeqInv, Rest, CallSeq
  <2>3. op'[w].pc \notin {"touch", "drop"} /\ op'[w].answer = op[w].answer
    <3>1. CASE WrittenAll(w) \/ EvictCheck(w)
      <4>1. CASE WrittenAll(w)
        BY <4>1, Given DEF WrittenAll, Call
      <4>2. CASE EvictCheck(w)
        <5>1. PICK pc \in {"scan", "write", "rows"} : op' = [op EXCEPT ![w].pc = pc]
          BY <4>2 DEF EvictCheck, Evicted
        <5>2. op'[w].pc = pc /\ op'[w].answer = op[w].answer
          BY <5>1, Given DEF Call
        <5>3. QED
          BY <5>2
      <4>3. QED
        BY <3>1, <4>1, <4>2
    <3>2. CASE EvictScan(w) \/ EvictStat(w) \/ EvictChoose(w)
      <4>1. PICK pc \in {"stat", "choose", "forget", "write", "rows"} :
              \E G : op' = [op EXCEPT ![w] = [op[w] EXCEPT !.pc = pc, !.going = G]]
        BY <3>2 DEF EvictScan, EvictStat, EvictChoose, Evicted
      <4>2. PICK G : op' = [op EXCEPT ![w] = [op[w] EXCEPT !.pc = pc, !.going = G]]
        BY <4>1
      <4>3. op'[w] = [op[w] EXCEPT !.pc = pc, !.going = G]
        BY <4>2, Given
      <4>4. QED
        BY <4>3, Given, SameCall
    <3>3. QED
      BY <1>4, <3>1, <3>2
  <2>4. LastAnswer' = LastAnswer
    BY <2>2, <2>3, AnswerIs, AnswerNext
  <2>5. QED
    BY <2>1, <2>4 DEF MappedSame, Up, Have, Left, Present
<1>5. QED
  BY <1>1, <1>2, <1>3, <1>4

\* What is left over goes before anything is served.
LEMMA SweepMaps ==
  ASSUME NEW w, Thread = {w}, SeqInv(w), Reconcile(w)
  PROVE  Cache!Sweep
<1>1. op'[w].answer = "none" /\ op'[w].pc = "check"
  BY Given DEF Reconcile, Putting, Done
<1>2. op[w].answer = "none" /\ op[w].pc = "idle"
  BY DEF Reconcile, SeqInv, Rest, CallSeq
<1>3. LastAnswer' = LastAnswer
  BY <1>1, <1>2, AnswerIs, AnswerNext
<1>4. Have' = Have /\ Left' = {}
  BY Given DEF Reconcile, Have, Left, Present, OnDisk
<1>5. QED
  BY <1>3, <1>4 DEF Reconcile, Cache!Sweep, Have, Left

\* A call begins, and with it the answer of the last read is over.
LEMMA BeginMaps ==
  ASSUME NEW w, Thread = {w}, SeqInv(w),
         \/ \E S \in SUBSET Blob, bn \in Bundle \cup {NoBundle} : PutBlobs(w, S, bn)
         \/ \E a \in Action : PutResult(w, a) \/ DropResult(w, a)
  PROVE  Cache!Begin
<1>1. op'[w].pc \notin {"touch", "drop"} /\ op'[w].answer = "none"
  <2>1. CASE \E S \in SUBSET Blob, bn \in Bundle \cup {NoBundle} : PutBlobs(w, S, bn)
    <3>1. PICK S \in SUBSET Blob, bn \in Bundle \cup {NoBundle} : op'[w] = Putting(S, bn)
      BY <2>1, Given DEF PutBlobs
    <3>2. QED
      BY <3>1 DEF Putting, Done
  <2>2. CASE \E a \in Action : PutResult(w, a) \/ DropResult(w, a)
    <3>1. op'[w] = Done("none") \/ op'[w] = [Done("none") EXCEPT !.pc = "rows"]
      BY <2>2, Given DEF PutResult, DropResult
    <3>2. QED
      BY <3>1 DEF Done
  <2>3. QED
    BY <2>1, <2>2
<1>2. LastAnswer' = "none"
  BY <1>1, AnswerNext
<1>3. UNCHANGED <<phase, disk, row, bundle>>
  BY DEF PutBlobs, PutResult, DropResult
<1>4. QED
  BY <1>2, <1>3 DEF Cache!Begin, Present

\* A file is there ahead of the rest of its batch, or the bytes of a row the
\* index already counts are written again.
LEMMA WriteMaps ==
  ASSUME NEW w, Thread = {w}, SeqInv(w), NEW b \in Blob, WriteFile(w, b)
  PROVE  Cache!Arrive(b) \/ Cache!Put({b}, {}, NoBundle)
<1>1. /\ op[w].pc = "write" /\ op'[w].pc = "write" /\ op'[w].answer = op[w].answer
      /\ UNCHANGED <<phase, row, bundle, held>> /\ disk' = [disk EXCEPT ![b] = "good"]
  BY Given DEF WriteFile, Call
<1>2. LastAnswer' = LastAnswer
  BY <1>1, AnswerIs, AnswerNext
<1>3. CASE b \notin Present
  <2>1. Have' = Have /\ b \notin Have /\ Left' = Left \cup {b}
    BY <1>1, <1>3, Given DEF Have, Left, Present
  <2>2. QED
    BY <1>1, <1>2, <2>1 DEF Cache!Arrive, Have, Left
<1>4. CASE b \in Present
  <2>1. Have' = Have \cup {b} /\ Left' = Left \ {b}
    BY <1>1, <1>4, Given DEF Have, Left, Present
  <2>2. Bytes[Have'] <= MaxBytes
    <3>1. Have' \in SUBSET Present
      BY <1>1, Given DEF Have, Present
    <3>2. held <= MaxBytes /\ held = Bytes[Present]
      BY <1>1, Given DEF SeqInv, Rest, SpaceSeq, CallSeq, Evicting
    <3>3. Bytes[Have'] <= Bytes[Present]
      BY <3>1, Given, BytesSubset
    <3>4. Bytes[Have'] \in Nat /\ Bytes[Present] \in Nat
      <4>1. Have' \in SUBSET Blob /\ Present \in SUBSET Blob
        BY <3>1, Given
      <4>2. QED
        BY <4>1, BytesType
    <3>5. QED
      BY <3>2, <3>3, <3>4, BoundsAssumption
  <2>3. bundle' = [c \in Blob |-> IF c \in {b} /\ NoBundle # NoBundle THEN NoBundle ELSE bundle[c]]
    BY <1>1, Given
  <2>4. QED
    BY <1>1, <1>2, <2>1, <2>2, <2>3 DEF Cache!Put, Have, Left
<1>5. QED
  BY <1>3, <1>4

\* The batch is there, but for the files damaged since they were written.
LEMMA CommitMaps ==
  ASSUME NEW w, Thread = {w}, SeqInv(w), Commit(w),
         NEW S, S = op[w].batch, NEW damaged, damaged = {b \in S : disk[b] = "bad"},
         NEW bn, bn = op[w].from
  PROVE  Cache!Put(S, damaged, bn)
<1>1. /\ op[w].pc = "commit" /\ op'[w].pc = "check" /\ op'[w].answer = op[w].answer
      /\ phase # "down" /\ op[w].answer = "none" /\ op[w].batch \subseteq OnDisk
  BY Given DEF Commit, Call, SeqInv, Rest, CallSeq
<1>2. LastAnswer' = LastAnswer
  BY <1>1, AnswerIs, AnswerNext
<1>3. Present' = Present \cup op[w].batch /\ UNCHANGED <<phase, disk>>
  BY Given DEF Commit, Present
<1>4. Have' = (Have \cup S) \ damaged /\ Left' = Left \ S
  BY <1>1, <1>3, Given DEF Have, Left, OnDisk
<1>5. damaged \subseteq Corruptible
  BY Given DEF SeqInv, Rest, FilesSeq
<1>6. ASSUME Bytes[S] <= MaxBytes PROVE Bytes[Have'] <= MaxBytes
  <2>1. held + Bytes[op[w].batch \ Present] <= MaxBytes /\ held = Bytes[Present]
    BY <1>1, <1>6, Given DEF SeqInv, Rest, SpaceSeq
  <2>2. Bytes[Present \cup op[w].batch] = Bytes[Present] + Bytes[op[w].batch \ Present]
    BY Given, BytesOfUnion
  <2>3. Have' \in SUBSET (Present \cup op[w].batch) /\ Present \cup op[w].batch \in SUBSET Blob
    BY <1>3, Given DEF Have
  <2>4. Bytes[Have'] <= Bytes[Present \cup op[w].batch]
    BY <2>3, BytesSubset
  <2>5. Bytes[Have'] \in Nat /\ Bytes[Present \cup op[w].batch] \in Nat
    <3>1. Have' \in SUBSET Blob
      BY <2>3
    <3>2. QED
      BY <2>3, <3>1, BytesType
  <2>6. QED
    BY <2>1, <2>2, <2>4, <2>5, BoundsAssumption
<1>7. bundle' = [b \in Blob |-> IF b \in S /\ bn # NoBundle THEN bn ELSE bundle[b]]
  BY DEF Commit, Coalesced
<1>8. QED
  BY <1>2, <1>3, <1>4, <1>5, <1>6, <1>7 DEF Cache!Put, Have, Left

\* Victims leave the cache; the empty blob is never one.
LEMMA ForgetMaps ==
  ASSUME NEW w, Thread = {w}, SeqInv(w), EvictForget(w),
         NEW S, S = op[w].going
  PROVE  Cache!Lose(S)
<1>1. op[w].pc = "forget"
      /\ op[w].going \in Victims(Evictable(w), held + op[w].arriving - LowWater)
  BY DEF EvictForget, SeqInv, Rest, EvictSeq
<1>2. Empty \notin S
  BY <1>1, Room
<1>3. op'[w] = [op[w] EXCEPT !.pc = Evicted(w), !.going = {}]
  BY Given DEF EvictForget
<1>4. op'[w].pc \notin {"touch", "drop"} /\ op'[w].answer = op[w].answer /\ op[w].answer = "none"
  BY <1>1, <1>3, Given, SameCall DEF Evicted, SeqInv, Rest, CallSeq
<1>5. LastAnswer' = LastAnswer
  BY <1>1, <1>4, AnswerIs, AnswerNext
<1>6. Have' = Have \ S /\ Left' = Left \ S
  BY <1>1, Room, Given DEF EvictForget, Forget, Have, Left, Present
<1>7. QED
  BY <1>2, <1>5, <1>6 DEF EvictForget, Cache!Lose, Have, Left

LEMMA RowsMaps ==
  ASSUME NEW w, Thread = {w}, SeqInv(w), EvictRows(w)
  PROVE  \E S \in SUBSET Blob : Cache!Forget(S)
<1>1. PICK B \in SUBSET AffordableBlobs :
        /\ row' = [b \in Blob |-> IF b \in B THEN "none" ELSE row[b]]
        /\ bundle' = [b \in Blob |-> IF b \in B THEN NoBundle ELSE bundle[b]]
  BY DEF EvictRows
<1>2. op'[w] = Done("none") /\ op[w].pc = "rows" /\ op[w].answer = "none"
  BY Given DEF EvictRows, SeqInv, Rest, CallSeq
<1>3. LastAnswer' = LastAnswer
  BY <1>2, AnswerIs, AnswerNext DEF Done
<1>4. B \in SUBSET Blob /\ B \cap Have = {}
  BY DEF AffordableBlobs, Have, Present
<1>5. Have' = Have /\ Left' = Left
  BY <1>1, Given DEF EvictRows, AffordableBlobs, Have, Left, Present
<1>6. Cache!Forget(B)
  BY <1>1, <1>3, <1>4, <1>5 DEF EvictRows, Cache!Forget, Have, Left
<1>7. QED
  BY <1>4, <1>6

\* A read finds what the cache has, or what is left over.
LEMMA ReadMaps ==
  ASSUME NEW w, Thread = {w}, SeqInv(w), NEW b \in Blob, ReadFile(w, b)
  PROVE  Cache!Get(b)
<1>1. UNCHANGED <<phase, disk, row, bundle>> /\ phase = "serving"
  BY Given DEF ReadFile
<1>2. b \in Have \cup Left <=> disk[b] = "good"
  BY <1>1 DEF Have, Left
<1>3. LastAnswer' = IF b \in Have \cup Left THEN "bytes" ELSE "absent"
  <2>1. CASE disk[b] = "none"
    <3>1. op'[w] = Done("absent")
      BY <2>1, Given DEF ReadFile
    <3>2. QED
      BY <1>2, <2>1, <3>1, AnswerNext DEF Done
  <2>2. CASE disk[b] # "none"
    <3>1. op'[w].pc = IF disk[b] = "good" THEN "touch" ELSE "drop"
      BY <2>2, Given DEF ReadFile, Done
    <3>2. QED
      BY <1>2, <3>1, AnswerNext
  <2>3. QED
    BY <2>1, <2>2
<1>4. QED
  BY <1>1, <1>3 DEF Cache!Get, Have, Left, Present

LEMMA RememberMaps ==
  ASSUME NEW w, Thread = {w}, SeqInv(w),
         NEW S \in SUBSET Blob, NEW bn \in Bundle, RememberAll(w, S, bn)
  PROVE  Cache!Remember(S, bn)
<1>1. op'[w].pc = "rows" /\ op'[w].answer = "none"
  BY Given DEF RememberAll, Done
<1>2. LastAnswer' = "none"
  BY <1>1, AnswerNext
<1>3. Have' = Have /\ Left' = Left
  BY Given DEF RememberAll, Have, Left, Present
<1>4. QED
  BY <1>2, <1>3 DEF RememberAll, Cache!Remember, Have, Left

LEMMA OutsideMaps ==
  ASSUME NEW w, Thread = {w}, SeqInv(w),
         Serve \/ Stop \/ DiscardIfOld \/ \E b \in Blob : LoseFile(b) \/ CorruptFile(b)
  PROVE  Cache!Next
<1>1. CASE Serve
  <2>1. op[w].pc = "idle" /\ phase = "starting" /\ UNCHANGED <<disk, row, bundle, op>>
        /\ phase' = "serving"
    BY <1>1 DEF Serve
  <2>2. Empty \in Have
    <3>1. EmptyStays'
      <4>1. [Next]_vars
        BY <1>1 DEF Next
      <4>2. QED
        BY <4>1, EmptyNext DEF SeqInv, Base, EmptyInv
    <3>2. Empty \in OnDisk
      BY <2>1, <3>1 DEF EmptyStays, OnDisk
    <3>3. disk[Empty] = "good"
      BY <3>2, Given, BlobAssumption DEF OnDisk, SeqInv, Rest, FilesSeq
    <3>4. QED
      BY <2>1, <3>2, <3>3, Given DEF Have
  <2>3. LastAnswer' = LastAnswer
    BY <2>1 DEF LastAnswer
  <2>4. Cache!Open
    <3>1. OnDisk \subseteq Present
      BY <2>1, Given
    <3>2. QED
      BY <2>1, <2>2, <2>3, <3>1 DEF Cache!Open, Have, OnDisk, Present
  <2>5. QED
    BY <2>4 DEF Cache!Next
<1>2. CASE Stop
  <2>1. op'[w] = Done("none")
    BY <1>2 DEF Stop
  <2>2. LastAnswer' = "none"
    BY <2>1, AnswerNext DEF Done
  <2>3. Cache!Close
    BY <1>2, <2>2 DEF Stop, Cache!Close, Present
  <2>4. QED
    BY <2>3 DEF Cache!Next
<1>3. CASE DiscardIfOld
  <2>1. LastAnswer' = LastAnswer
    BY <1>3 DEF DiscardIfOld, LastAnswer
  <2>2. Have' = {} /\ Left' = {}
    BY <1>3 DEF DiscardIfOld, Have, Left, Present
  <2>3. Cache!Discard
    BY <1>3, <2>1, <2>2 DEF DiscardIfOld, Cache!Discard, Have, Left
  <2>4. QED
    BY <2>3 DEF Cache!Next
<1>4. ASSUME NEW b \in Blob, LoseFile(b) \/ CorruptFile(b) PROVE Cache!Next
  <2>1. LastAnswer' = LastAnswer
    BY <1>4 DEF LoseFile, CorruptFile, LastAnswer
  <2>d. /\ \A c \in Blob : disk'[c] = "good" <=> disk[c] = "good" /\ c # b
        /\ Present' = Present
    BY <1>4, Given DEF LoseFile, CorruptFile, Present
  <2>2. Have' = Have \ {b} /\ Left' = Left \ {b}
    BY <2>d, Given DEF Have, Left
  <2>3. phase = "serving" => Empty \notin {b}
    BY <1>4, BlobAssumption DEF LoseFile, CorruptFile
  <2>4. Cache!Lose({b})
    BY <1>4, <2>1, <2>2, <2>3 DEF LoseFile, CorruptFile, Cache!Lose, Have, Left
  <2>5. QED
    BY <2>4 DEF Cache!Next
<1>5. QED
  BY <1>1, <1>2, <1>3, <1>4

LEMMA StepMaps ==
  ASSUME NEW w, Thread = {w}, SeqInv(w), Step(w)
  PROVE  Cache!Next \/ MappedSame
<1>1. CASE \E b \in Blob : WriteFile(w, b)
  BY <1>1, WriteMaps, BlobAssumption DEF Cache!Next
<1>2. CASE Commit(w)
  <2>1. op[w].batch \in SUBSET Blob /\ op[w].from \in Bundle \cup {NoBundle}
    BY Given DEF Call
  <2>2. QED
    <3>1. PICK S \in SUBSET Blob, bn \in Bundle \cup {NoBundle} :
            S = op[w].batch /\ bn = op[w].from
      BY <2>1
    <3>2. PICK damaged \in SUBSET S : damaged = {b \in S : disk[b] = "bad"}
      OBVIOUS
    <3>3. Cache!Put(S, damaged, bn)
      BY <1>2, <3>1, <3>2, CommitMaps
    <3>4. QED
      BY <3>3 DEF Cache!Next
<1>3. CASE EvictForget(w)
  <2>1. op[w].going \in SUBSET Blob
    BY Given DEF Call
  <2>2. QED
    <3>1. PICK S \in SUBSET Blob : S = op[w].going
      BY <2>1
    <3>2. Cache!Lose(S)
      BY <1>3, <3>1, ForgetMaps
    <3>3. QED
      BY <3>2 DEF Cache!Next
<1>4. CASE \E S \in SUBSET Blob, bn \in Bundle : RememberAll(w, S, bn)
  BY <1>4, RememberMaps DEF Cache!Next
<1>5. CASE EvictRows(w) \/ Reconcile(w) \/ \E b \in Blob : ReadFile(w, b)
  BY <1>5, RowsMaps, SweepMaps, ReadMaps DEF Cache!Next
<1>6. CASE \/ \E S \in SUBSET Blob, bn \in Bundle \cup {NoBundle} : PutBlobs(w, S, bn)
           \/ \E a \in Action : PutResult(w, a) \/ DropResult(w, a)
  BY <1>6, BeginMaps DEF Cache!Next
<1>7. QED
  BY <1>1, <1>2, <1>3, <1>4, <1>5, <1>6, StutterMaps DEF Step

\* When calls do not overlap, every step of the store is a step of the cache it
\* stands for, or none: puts arrive whole, reads answer from what is there, only
\* the empty blob never goes, provenance outlives bytes.
THEOREM Implements ==
  ASSUME NEW w, Thread = {w}
  PROVE  Spec => ImplementsCache
<1>1. Init => Cache!Init
  <2> SUFFICES ASSUME Init PROVE Cache!Init
    OBVIOUS
  <2>1. LastAnswer = "none"
    BY AnswerIs DEF Init, Done
  <2>2. QED
    BY <2>1 DEF Init, Cache!Init, Present
<1>2. SeqInv(w) /\ [Next]_vars => [Cache!Next]_(Cache!cacheVars)
  <2> SUFFICES ASSUME SeqInv(w), [Next]_vars
               PROVE  Cache!Next \/ UNCHANGED Cache!cacheVars
    OBVIOUS
  <2>1. CASE Step(w)
    BY <2>1, StepMaps DEF MappedSame, Up, Have, Left, Cache!cacheVars
  <2>2. CASE UNCHANGED vars
    BY <2>2 DEF vars, Cache!cacheVars, Present, LastAnswer
  <2>3. QED
    BY <2>1, <2>2, OutsideMaps DEF Next
<1>3. QED
  BY <1>1, <1>2, Sequential, PTL DEF Spec, ImplementsCache, Cache!Spec
=============================================================================
