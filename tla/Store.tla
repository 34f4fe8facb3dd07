------------------------------- MODULE Store -------------------------------
(***************************************************************************)
(* The shim's local store: remote_cache/store.py.                          *)
(*                                                                         *)
(* Blobs are files in a directory; an SQLite index beside them says which  *)
(* blobs count as present, how large they are, and which bundle each can   *)
(* be fetched from again.  `held` is the process's running total of the    *)
(* bytes the index counts as present.  The index and `held` change under   *)
(* one lock; the files are written, read and touched outside it.  One      *)
(* action per stretch of code another thread cannot interrupt.             *)
(*                                                                         *)
(* Abstracted: a file's contents are the right bytes or wrong ones; the    *)
(* least-recently-used order of files and rows is some order, so what goes *)
(* first is chosen freely; a file is renamed into place by one step, and   *)
(* the temporary name a kill leaves behind is swept like any other file    *)
(* the index does not know.                                                *)
(***************************************************************************)
EXTENDS Integers, FiniteSets

CONSTANTS Blob,       \* the digests clients store
          Empty,      \* the digest of the empty blob, a member of Blob
          Bytes,      \* Bytes[S]: the total size of the blobs in S
          Corruptible, \* the digests whose file may come to hold other bytes
          Bundle,     \* names of bundles in the bucket
          NoBundle,   \* SQL NULL in the column of that name
          Action,     \* action digests
          Thread,     \* the gRPC server's worker threads
          MaxBytes,   \* max_bytes
          LowWater,   \* int(max_bytes * EVICTED_DOWN_TO)
          MaxRows     \* max_rows

\* An empty file cannot hold the wrong bytes at the right size.
ASSUME BlobAssumption ==
  Empty \in Blob /\ Corruptible \subseteq Blob \ {Empty} /\ NoBundle \notin Bundle

\* Sizes add up, and only the empty blob has none.
ASSUME BytesAssumption ==
  /\ Bytes \in [SUBSET Blob -> Nat]
  /\ \A S, T \in SUBSET Blob :
       S \cap T = {} => Bytes[S \cup T] = Bytes[S] + Bytes[T]
  /\ \A b \in Blob : Bytes[{b}] = 0 <=> b = Empty

\* Finitely many digests are ever in play.
ASSUME FiniteAssumption == IsFiniteSet(Blob) /\ IsFiniteSet(Action)

ASSUME BoundsAssumption ==
  MaxBytes \in Nat /\ LowWater \in 0..MaxBytes /\ MaxRows \in Nat

VARIABLES phase,    \* "down", "starting" (in __init__) or "serving"
          disk,     \* what the file under each digest holds, if there is one
          row,      \* the `present` column, or "none" without a row
          bundle,   \* the `bundle` column
          results,  \* the actions with a row in table `result`
          held,     \* Store.held
          op        \* what each thread is in the middle of

vars == <<phase, disk, row, bundle, results, held, op>>

OnDisk == {b \in Blob : disk[b] # "none"}
Present == {b \in Blob : row[b] = "present"}
Rows == {b \in Blob : row[b] # "none"}

Steps == {"idle", "check", "scan", "stat", "choose", "forget",
          "write", "commit", "rows", "touch", "drop"}
Answers == {"none", "bytes", "absent", "raised"}

\* batch: the blobs of the call.  todo: those not written yet.  making: room
\* is being made for `arriving` bytes before writing, as opposed to after.
\* going: what the running eviction has found, then what it drops.
Call == [pc : Steps, batch : SUBSET Blob, from : Bundle \cup {NoBundle},
         todo : SUBSET Blob, making : BOOLEAN, arriving : Nat,
         going : SUBSET Blob, answer : Answers]

Done(answer) ==
  [pc |-> "idle", batch |-> {}, from |-> NoBundle, todo |-> {},
   making |-> FALSE, arriving |-> 0, going |-> {}, answer |-> answer]

TypeOK ==
  /\ phase \in {"down", "starting", "serving"}
  /\ disk \in [Blob -> {"none", "good", "bad"}]
  /\ row \in [Blob -> {"none", "absent", "present"}]
  /\ bundle \in [Blob -> Bundle \cup {NoBundle}]
  /\ results \in SUBSET Action
  /\ held \in Int
  /\ op \in [Thread -> Call]

Init ==
  /\ phase = "down"
  /\ disk = [b \in Blob |-> "none"]
  /\ row = [b \in Blob |-> "none"]
  /\ bundle = [b \in Blob |-> NoBundle]
  /\ results = {}
  /\ held = 0
  /\ op = [t \in Thread |-> Done("none")]

-----------------------------------------------------------------------------
(* Storing blobs: put_blobs.                                               *)

\* What put_blobs does up to its first eviction.  The digests were checked.
Putting(S, bn) ==
  [Done("none") EXCEPT !.pc = "check", !.batch = S, !.from = bn, !.todo = S,
                       !.making = TRUE, !.arriving = Bytes[S \ Present]]

PutBlobs(t, S, bn) ==
  /\ phase = "serving"
  /\ op[t].pc = "idle"
  /\ op' = [op EXCEPT ![t] = Putting(S, bn)]
  /\ UNCHANGED <<phase, disk, row, bundle, results, held>>

WriteFile(t, b) ==
  /\ op[t].pc = "write"
  /\ b \in op[t].todo
  /\ disk' = [disk EXCEPT ![b] = "good"]
  /\ op' = [op EXCEPT ![t].todo = @ \ {b}]
  /\ UNCHANGED <<phase, row, bundle, results, held>>

\* A disk that is full, say: put_blobs ends there, the process serves on, and
\* what it had written of the batch stays.  In __init__ it ends the process,
\* which is Stop.
WriteFails(t) ==
  /\ phase = "serving"
  /\ op[t].pc = "write"
  /\ op[t].todo # {}
  /\ op' = [op EXCEPT ![t] = Done("none")]
  /\ UNCHANGED <<phase, disk, row, bundle, results, held>>

\* The eviction that follows the commit makes room for nothing more.
WrittenAll(t) ==
  /\ op[t].pc = "write"
  /\ op[t].todo = {}
  /\ op' = [op EXCEPT ![t] = [@ EXCEPT !.pc = "commit", !.arriving = 0]]
  /\ UNCHANGED <<phase, disk, row, bundle, results, held>>

\* Mutant: a later put without a bundle writes NULL over the column.
CoalescedMutant(S, bn) ==
  [b \in Blob |-> IF b \in S THEN bn ELSE bundle[b]]

\* The rows of a batch, COALESCEd with the bundle they already name.
Coalesced(S, bn) ==
  [b \in Blob |-> IF b \in S /\ bn # NoBundle THEN bn ELSE bundle[b]]

\* Mutant: a blob of the batch another thread committed meanwhile counts again.
CommitCountMutant(t) ==
  /\ op[t].pc = "commit"
  /\ held' = held + Bytes[op[t].batch]
  /\ row' = [b \in Blob |-> IF b \in op[t].batch THEN "present" ELSE row[b]]
  /\ bundle' = Coalesced(op[t].batch, op[t].from)
  /\ op' = [op EXCEPT ![t] = [@ EXCEPT !.pc = "check", !.from = NoBundle,
                                      !.making = FALSE]]
  /\ UNCHANGED <<phase, disk, results>>

Commit(t) ==
  /\ op[t].pc = "commit"
  /\ held' = held + Bytes[op[t].batch \ Present]
  /\ row' = [b \in Blob |-> IF b \in op[t].batch THEN "present" ELSE row[b]]
  /\ bundle' = Coalesced(op[t].batch, op[t].from)
  /\ op' = [op EXCEPT ![t] = [@ EXCEPT !.pc = "check", !.from = NoBundle,
                                      !.making = FALSE]]
  /\ UNCHANGED <<phase, disk, results>>

-----------------------------------------------------------------------------
(* Evicting: _evict, _forget and _evict_rows.                              *)

\* Where a thread goes when the eviction it was running is over.
Evicted(t) == IF op[t].making THEN "write" ELSE "rows"

\* The bound is compared before the lock is taken.
EvictCheck(t) ==
  /\ op[t].pc = "check"
  /\ op' = [op EXCEPT ![t].pc =
              IF held + op[t].arriving <= MaxBytes THEN Evicted(t) ELSE "scan"]
  /\ UNCHANGED <<phase, disk, row, bundle, results, held>>

\* Mutant: the empty blob is as evictable as any other.
EvictableEmptyMutant(t) ==
  {b \in Present : ~(op[t].making /\ b \in op[t].batch)}

\* Mutant: members of the batch being stored make room for each other.
EvictableKeepMutant(t) == {b \in Present : Bytes[{b}] > 0}

\* Rows present and of some size, none of which is being stored.
Evictable(t) ==
  {b \in Present : Bytes[{b}] > 0 /\ ~(op[t].making /\ b \in op[t].batch)}

EvictScan(t) ==
  /\ op[t].pc = "scan"
  /\ op' = [op EXCEPT ![t] = [@ EXCEPT !.pc = "stat", !.going = Evictable(t)]]
  /\ UNCHANGED <<phase, disk, row, bundle, results, held>>

EvictStat(t) ==
  /\ op[t].pc = "stat"
  /\ op' = [op EXCEPT ![t] = [@ EXCEPT !.pc = "choose",
                                      !.going = op[t].going \cap OnDisk]]
  /\ UNCHANGED <<phase, disk, row, bundle, results, held>>

\* What a pass over `ages` in some order takes: no more once enough is freed.
Victims(ages, over) ==
  {S \in SUBSET ages :
     /\ S = ages \/ Bytes[S] >= over
     /\ S = {} \/ \E last \in S : Bytes[S \ {last}] < over}

EvictChoose(t) ==
  /\ op[t].pc = "choose"
  /\ \E S \in Victims(op[t].going, held + op[t].arriving - LowWater) :
       op' = [op EXCEPT ![t] = [@ EXCEPT
                 !.pc = IF S = {} THEN Evicted(t) ELSE "forget", !.going = S]]
  /\ UNCHANGED <<phase, disk, row, bundle, results, held>>

\* _forget: under the lock, the files go and then the rows say so.
Forget(S) ==
  /\ disk' = [b \in Blob |-> IF b \in S THEN "none" ELSE disk[b]]
  /\ row' = [b \in Blob |-> IF b \in S \cap Present THEN "absent" ELSE row[b]]
  /\ held' = held - Bytes[S \cap Present]

EvictForget(t) ==
  /\ op[t].pc = "forget"
  /\ Forget(op[t].going)
  /\ op' = [op EXCEPT ![t] = [@ EXCEPT !.pc = Evicted(t), !.going = {}]]
  /\ UNCHANGED <<phase, bundle, results>>

\* What the row bound can afford to lose: a row without bytes, or a result.
AffordableBlobs == {b \in Blob : row[b] = "absent"}
RowCount == Cardinality(Rows) + Cardinality(results)

EvictRows(t) ==
  /\ op[t].pc = "rows"
  /\ \E B \in SUBSET AffordableBlobs, R \in SUBSET results :
       LET over == RowCount - MaxRows
           gone == Cardinality(B) + Cardinality(R)
       IN  /\ gone = 0 \/ gone <= over
           /\ gone >= over \/ (B = AffordableBlobs /\ R = results)
           /\ row' = [b \in Blob |-> IF b \in B THEN "none" ELSE row[b]]
           /\ bundle' = [b \in Blob |-> IF b \in B THEN NoBundle ELSE bundle[b]]
           /\ results' = results \ R
  /\ op' = [op EXCEPT ![t] = Done("none")]
  /\ UNCHANGED <<phase, disk, held>>

-----------------------------------------------------------------------------
(* Reading blobs: `blob`.  `has_blobs` moves timestamps only, see above.   *)

\* Mutant: the file is handed out without hashing it.
ReadFileHashMutant(t, b) ==
  /\ phase = "serving"
  /\ op[t].pc = "idle"
  /\ op' = [op EXCEPT ![t] =
       IF disk[b] = "good" THEN [Done("none") EXCEPT !.pc = "touch", !.batch = {b}]
       ELSE Done(disk[b])]
  /\ UNCHANGED <<phase, disk, row, bundle, results, held>>

\* Mutant: the file is touched before it is known to be there.
ReadFileTouchMutant(t, b) ==
  /\ phase = "serving"
  /\ op[t].pc = "idle"
  /\ op' = [op EXCEPT ![t] = [Done("none") EXCEPT !.pc = "touch", !.batch = {b}]]
  /\ UNCHANGED <<phase, disk, row, bundle, results, held>>

ReadFile(t, b) ==
  /\ phase = "serving"
  /\ op[t].pc = "idle"
  /\ op' = [op EXCEPT ![t] =
       CASE disk[b] = "none" -> Done("absent")
         [] disk[b] = "good" -> [Done("none") EXCEPT !.pc = "touch", !.batch = {b}]
         [] disk[b] = "bad"  -> [Done("none") EXCEPT !.pc = "drop", !.batch = {b}]]
  /\ UNCHANGED <<phase, disk, row, bundle, results, held>>

\* os.utime on a path: nothing catches that the file has gone meanwhile.
Touch(t) ==
  /\ op[t].pc = "touch"
  /\ op' = [op EXCEPT ![t] =
              Done(IF op[t].batch \subseteq OnDisk THEN "bytes" ELSE "raised")]
  /\ UNCHANGED <<phase, disk, row, bundle, results, held>>

\* The file did not hash to its name.
DropBad(t) ==
  /\ op[t].pc = "drop"
  /\ Forget(op[t].batch)
  /\ op' = [op EXCEPT ![t] = Done("absent")]
  /\ UNCHANGED <<phase, bundle, results>>

-----------------------------------------------------------------------------
(* The rest of the index.                                                  *)

RememberAll(t, S, bn) ==
  /\ phase = "serving"
  /\ op[t].pc = "idle"
  /\ row' = [b \in Blob |-> IF b \in S /\ row[b] = "none" THEN "absent" ELSE row[b]]
  /\ bundle' = [b \in Blob |-> IF b \in S THEN bn ELSE bundle[b]]
  /\ op' = [op EXCEPT ![t] = [Done("none") EXCEPT !.pc = "rows"]]
  /\ UNCHANGED <<phase, disk, results, held>>

PutResult(t, a) ==
  /\ phase = "serving"
  /\ op[t].pc = "idle"
  /\ results' = results \cup {a}
  /\ op' = [op EXCEPT ![t] = [Done("none") EXCEPT !.pc = "rows"]]
  /\ UNCHANGED <<phase, disk, row, bundle, held>>

DropResult(t, a) ==
  /\ phase = "serving"
  /\ op[t].pc = "idle"
  /\ results' = results \ {a}
  /\ op' = [op EXCEPT ![t] = Done("none")]
  /\ UNCHANGED <<phase, disk, row, bundle, held>>

-----------------------------------------------------------------------------
(* The process, and the directory without it.                              *)

\* Mutant: what a killed put left on disk is not swept.
ReconcileSweepMutant(t) ==
  /\ phase = "down"
  /\ phase' = "starting"
  /\ row' = [b \in Blob |-> IF b \in Present \ OnDisk THEN "absent" ELSE row[b]]
  /\ held' = Bytes[Present \cap OnDisk]
  /\ op' = [op EXCEPT ![t] = Putting({Empty}, NoBundle)]
  /\ UNCHANGED <<disk, bundle, results>>

\* Mutant: a row whose file has gone stays marked present.
ReconcileRowsMutant(t) ==
  /\ phase = "down"
  /\ phase' = "starting"
  /\ disk' = [b \in Blob |-> IF b \in OnDisk \ Present THEN "none" ELSE disk[b]]
  /\ held' = Bytes[Present \cap OnDisk]
  /\ op' = [op EXCEPT ![t] = Putting({Empty}, NoBundle)]
  /\ UNCHANGED <<row, bundle, results>>

\* Store.__init__ up to _reconcile, on the index a previous process left; then
\* the thread that runs it stores the empty blob.
Reconcile(t) ==
  /\ phase = "down"
  /\ phase' = "starting"
  /\ row' = [b \in Blob |-> IF b \in Present \ OnDisk THEN "absent" ELSE row[b]]
  /\ disk' = [b \in Blob |-> IF b \in OnDisk \ Present THEN "none" ELSE disk[b]]
  /\ held' = Bytes[Present \cap OnDisk]
  /\ op' = [op EXCEPT ![t] = Putting({Empty}, NoBundle)]
  /\ UNCHANGED <<bundle, results>>

Serve ==
  /\ phase = "starting"
  /\ \A t \in Thread : op[t].pc = "idle"
  /\ phase' = "serving"
  /\ UNCHANGED <<disk, row, bundle, results, held, op>>

\* Killed or closed: files and committed rows stay.
Stop ==
  /\ phase # "down"
  /\ phase' = "down"
  /\ held' = 0
  /\ op' = [t \in Thread |-> Done("none")]
  /\ UNCHANGED <<disk, row, bundle, results>>

\* The next version of the code discards a store of an older schema.
DiscardIfOld ==
  /\ phase = "down"
  /\ disk' = [b \in Blob |-> "none"]
  /\ row' = [b \in Blob |-> "none"]
  /\ bundle' = [b \in Blob |-> NoBundle]
  /\ results' = {}
  /\ UNCHANGED <<phase, held, op>>

\* A file emptied by hand between two processes.
LoseFile(b) ==
  /\ phase = "down"
  /\ disk' = [disk EXCEPT ![b] = "none"]
  /\ UNCHANGED <<phase, row, bundle, results, held, op>>

\* A file that no longer holds what was written.
CorruptFile(b) ==
  /\ b \in Corruptible /\ disk[b] = "good"
  /\ disk' = [disk EXCEPT ![b] = "bad"]
  /\ UNCHANGED <<phase, row, bundle, results, held, op>>

Step(t) ==
  \/ \E S \in SUBSET Blob, bn \in Bundle \cup {NoBundle} : PutBlobs(t, S, bn)
  \/ \E b \in Blob : WriteFile(t, b)
  \/ WriteFails(t)
  \/ WrittenAll(t)
  \/ Commit(t)
  \/ EvictCheck(t)
  \/ EvictScan(t)
  \/ EvictStat(t)
  \/ EvictChoose(t)
  \/ EvictForget(t)
  \/ EvictRows(t)
  \/ \E b \in Blob : ReadFile(t, b)
  \/ Touch(t)
  \/ DropBad(t)
  \/ \E S \in SUBSET Blob, bn \in Bundle : RememberAll(t, S, bn)
  \/ \E a \in Action : PutResult(t, a) \/ DropResult(t, a)
  \/ Reconcile(t)

Next ==
  \/ \E t \in Thread : Step(t)
  \/ Serve
  \/ Stop
  \/ DiscardIfOld
  \/ \E b \in Blob : LoseFile(b) \/ CorruptFile(b)

Spec == Init /\ [][Next]_vars

-----------------------------------------------------------------------------
(* What holds however many threads there are.                              *)

\* The running total is the size of what the index counts as present, however
\* puts, evictions and drops of the same blobs interleave: the bytes of a blob
\* are added once and subtracted once (put_blobs counts again under the lock,
\* _forget subtracts only rows that were still present).
HeldMatchesIndex == phase # "down" => held = Bytes[Present]

\* t has written b and not committed its row yet.
Writing(t, b) ==
  op[t].pc \in {"write", "commit"} /\ b \in op[t].batch \ op[t].todo

\* Files the index does not count and no put is about to commit.
Unaccounted == {b \in OnDisk \ Present : \A t \in Thread : ~Writing(t, b)}

\* What a put that fails in this step leaves behind.
LeftNow ==
  {b \in Blob : \E t \in Thread :
     Writing(t, b) /\ op[t].pc = "write" /\ op'[t].pc = "idle"}

\* A file the index does not count would sit outside the byte bound forever
\* (_reconcile).  A process starts without one, whatever was killed or lost
\* before; while it serves, each belongs to a put about to commit it, but for
\* those a put of this process wrote before one of its writes failed.
FilesAccounted ==
  [][/\ phase' = "starting" => Unaccounted' = {}
     /\ phase' = "serving" => Unaccounted' \subseteq Unaccounted \cup LeftNow]_vars

\* Clients take the empty blob for granted: from the moment the store serves
\* it is there, and no eviction for room takes it.
EmptyStays == phase = "serving" => Empty \in OnDisk

\* Provenance outlives the bytes.  While a process runs, a blob forgets which
\* bundle carried it only when the index is over its row bound and there is no
\* file of it: never by a later put without a bundle, an eviction or a drop.
\* Except for a file no row counts: _evict_rows reads the column `present` and
\* not the directory, so the bytes a put has written and not committed, or left
\* behind by failing, do not keep the row that names their bundle.
ProvenanceKept ==
  [][\A b \in Blob :
       phase # "down" /\ bundle[b] # NoBundle /\ bundle'[b] = NoBundle
         => /\ RowCount > MaxRows
            /\ b \in OnDisk =>
                 b \in Unaccounted \/ \E t \in Thread : Writing(t, b) /\ b \notin Present]_vars

-----------------------------------------------------------------------------
(* What holds when calls do not overlap, and does not in general.          *)

Quiet == phase = "serving" /\ \A t \in Thread : op[t].pc = "idle"

\* Whether the bytes are on disk is what the column `present` says
\* (store.py:94): between calls a row marked present has its file.
RowsHaveFiles == Quiet => Present \subseteq OnDisk

\* Between calls the store is within its bound (store.py:273: only a batch
\* larger than the whole bound is over it, until the eviction that follows).
BoundKept == Quiet => held <= MaxBytes

\* A batch that fits is all there when put_blobs returns: making room and
\* trimming never take the members of the bundle being stored.
BatchKept ==
  \A t \in Thread :
    op[t].pc = "rows" /\ Bytes[op[t].batch] <= MaxBytes
      => op[t].batch \subseteq OnDisk \cap Present

\* A read answers with the bytes or that there are none; it never fails.
ReadAnswers == \A t \in Thread : op[t].answer # "raised"

\* Both: the bound is kept, and not at the expense of what is being stored.
SpaceKept == BoundKept /\ BatchKept

\* Calls that do not overlap find in the store the cache it stands for: a blob
\* is there when its row and its file say so, a batch is there from its commit,
\* a file without a row is what a put that fails leaves readable until the next
\* start, and a read is answered by the file it opened.
LastAnswer ==
  IF \E t \in Thread : op[t].pc = "touch" THEN "bytes"
  ELSE IF \E t \in Thread : op[t].pc = "drop" THEN "absent"
  ELSE IF \E t \in Thread : op[t].answer # "none"
       THEN op[CHOOSE t \in Thread : op[t].answer # "none"].answer
  ELSE "none"
Cache == INSTANCE BlobCache WITH
  up <- phase = "serving", have <- {b \in Present : disk[b] = "good"}, from <- bundle,
  left <- {b \in Blob \ Present : disk[b] = "good"}, answer <- LastAnswer
ImplementsCache == Cache!Spec
=============================================================================
