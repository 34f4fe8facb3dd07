--------------------------- MODULE SnapshotUpload ---------------------------
(***************************************************************************)
(* Importing a disk into EC2 (image/ami_import.py): the blocks that hold   *)
(* anything but zeros are put by a pool of workers while the main thread   *)
(* walks the disk, then the snapshot is completed and registered.          *)
(*                                                                         *)
(* The disk is a sequence of units, BlockUnits of them to a block: a hole  *)
(* of the file, zeros it holds, or data.  EBS, the pool and the file       *)
(* system's SEEK_DATA are modelled by what the code relies on.             *)
(***************************************************************************)
EXTENDS Naturals, FiniteSetsExt

CONSTANTS
  Units,       \* the size of the disk
  BlockUnits,
  Jobs         \* workers

UploadAssumption ==
  /\ BlockUnits \in Nat \ {0} /\ Jobs \in Nat \ {0}
  /\ Units \in Nat /\ Units % BlockUnits = 0

VARIABLES
  disk,        \* what each unit is
  compressed,  \* whether the file is a zstd stream, and then whether its
  sizeLies,    \* first frame records another size than it has
  name,        \* whether another image has this name: "free" or "taken"
  walker,      \* where the main thread is
  offset,      \* the unit the next extent is looked for from
  queue,       \* blocks of the extent found last still to read
  pending,     \* futures not collected yet: each block's state
  written,     \* blocks submitted
  stored,      \* EBS: the blocks put into the snapshot
  snapshot,    \* EBS: "none", "pending" or "completed"
  changed,     \* EBS: the count the snapshot was completed with
  image        \* EC2: whether the image is registered

uploadVars == <<disk, compressed, sizeLies, name, walker, offset, queue, pending, written,
                stored, snapshot, changed, image>>

Blocks == 0..(Units \div BlockUnits - 1)
UnitsOf(b) == (b * BlockUnits)..((b + 1) * BlockUnits - 1)
NonZero(b) == \E u \in UnitsOf(b) : disk[u] = "data"

\* A faulty rounding that moves past a boundary it is on.
RoundUpMutant(u) == u \div BlockUnits + 1

RoundUp(u) == (u + BlockUnits - 1) \div BlockUnits

UploadInit ==
  /\ disk \in [0..(Units - 1) -> {"hole", "zero", "data"}]
  /\ compressed \in BOOLEAN /\ sizeLies \in BOOLEAN
  /\ sizeLies => compressed
  /\ compressed => \A u \in DOMAIN disk : disk[u] # "hole"
  /\ name \in {"free", "taken"}
  /\ walker = "check" /\ offset = 0 /\ queue = {}
  /\ pending = [b \in {} |-> "queued"]
  /\ written = 0 /\ stored = {} /\ snapshot = "none" /\ changed = 0 /\ image = FALSE

\* main(): the name is looked up before the upload; a snapshot is started.
Start ==
  /\ walker = "check"
  /\ IF name = "taken"
       THEN walker' = "failed" /\ UNCHANGED snapshot
       ELSE walker' = "walk" /\ snapshot' = "pending"
  /\ UNCHANGED <<disk, compressed, sizeLies, name, offset, queue, pending, written, stored,
                 changed, image>>

\* The next data extent of a sparse file at or after `offset`: lseek()'s
\* SEEK_DATA and SEEK_HOLE.  A compressed disk is one stream without holes.
Allocated(u) == disk[u] # "hole"
ExtentStart == Min({u \in offset..(Units - 1) : Allocated(u)})
ExtentEnd == Min({u \in ExtentStart..(Units - 1) : ~Allocated(u)} \cup {Units})

\* A faulty extent that leaves out the block an extent ends in.
ExtentMutant(first, end) == (first \div BlockUnits)..(end \div BlockUnits - 1)

ExtentBlocks(first, end) == (first \div BlockUnits)..(RoundUp(end) - 1)

\* data_blocks(): the next extent ...
Seek ==
  /\ walker = "walk" /\ queue = {}
  /\ \E u \in offset..(Units - 1) : Allocated(u)
  /\ queue' = ExtentBlocks(ExtentStart, ExtentEnd)
  /\ offset' = RoundUp(ExtentEnd) * BlockUnits
  /\ UNCHANGED <<disk, compressed, sizeLies, name, walker, pending, written, stored, snapshot,
                 changed, image>>

\* ... or only a hole is left.  A stream that was not as long as it said ends
\* the command, which waits for the pool first.
WalkEnds ==
  /\ walker = "walk" /\ queue = {}
  /\ \A u \in offset..(Units - 1) : ~Allocated(u)
  /\ walker' = IF sizeLies THEN "abort" ELSE "drain"
  /\ UNCHANGED <<disk, compressed, sizeLies, name, offset, queue, pending, written, stored,
                 snapshot, changed, image>>

SkipZeros ==
  /\ walker = "walk" /\ queue # {}
  /\ ~NonZero(Min(queue))
  /\ queue' = queue \ {Min(queue)}
  /\ UNCHANGED <<disk, compressed, sizeLies, name, walker, offset, pending, written, stored,
                 snapshot, changed, image>>

Done == {b \in DOMAIN pending : pending[b] \in {"done", "failed"}}
Failed(bs) == \E b \in bs : pending[b] = "failed"
Without(bs) == [b \in DOMAIN pending \ bs |-> pending[b]]

\* upload()'s loop: at the bound, it waits for one future at least and takes
\* every result; a failed one raises.  Then the block is submitted.
Submit ==
  LET b == Min(queue)
      full == Cardinality(DOMAIN pending) >= 2 * Jobs
      rest == IF full THEN Without(Done) ELSE pending
  IN  /\ walker = "walk" /\ queue # {}
      /\ NonZero(b)
      /\ full => Done # {}
      /\ IF full /\ Failed(Done)
           THEN walker' = "abort" /\ UNCHANGED <<queue, pending, written>>
           ELSE /\ queue' = queue \ {b}
                /\ pending' = [c \in DOMAIN rest \cup {b} |->
                                 IF c = b THEN "queued" ELSE rest[c]]
                /\ written' = written + 1
                /\ UNCHANGED walker
      /\ UNCHANGED <<disk, compressed, sizeLies, name, offset, stored, snapshot, changed, image>>

Running == {b \in DOMAIN pending : pending[b] = "running"}

\* put(): the pool takes the blocks in the order they were submitted.
WorkerTakes ==
  /\ Cardinality(Running) < Jobs
  /\ \E b \in DOMAIN pending :
       /\ pending[b] = "queued"
       /\ \A c \in DOMAIN pending : pending[c] = "queued" => b <= c
       /\ pending' = [pending EXCEPT ![b] = "running"]
  /\ UNCHANGED <<disk, compressed, sizeLies, name, walker, offset, queue, written, stored,
                 snapshot, changed, image>>

\* The call to `aws` fails before EBS has the block, or after.
WorkerEnds ==
  /\ \E b \in Running, outcome \in {"done", "failed"}, arrived \in BOOLEAN :
       /\ outcome = "done" => arrived
       /\ pending' = [pending EXCEPT ![b] = outcome]
       /\ stored' = IF arrived THEN stored \cup {b} ELSE stored
  /\ UNCHANGED <<disk, compressed, sizeLies, name, walker, offset, queue, written, snapshot,
                 changed, image>>

\* The last results; then complete-snapshot, with the count of blocks written.
Complete ==
  /\ walker = "drain"
  /\ DOMAIN pending = Done
  /\ IF Failed(Done)
       THEN walker' = "failed" /\ UNCHANGED <<pending, snapshot, changed>>
       ELSE /\ walker' = "register" /\ pending' = Without(Done)
            /\ snapshot' = "completed" /\ changed' = written
  /\ UNCHANGED <<disk, compressed, sizeLies, name, offset, queue, written, stored, image>>

\* Leaving the pool's block on an error waits for the futures, then the error goes on.
Abort ==
  /\ walker = "abort"
  /\ DOMAIN pending = Done
  /\ walker' = "failed"
  /\ UNCHANGED <<disk, compressed, sizeLies, name, offset, queue, pending, written, stored,
                 snapshot, changed, image>>

\* register(): EC2 refuses a name that was taken during the upload.
Register ==
  /\ walker = "register"
  /\ IF name = "free" THEN image' = TRUE /\ walker' = "ended"
                      ELSE walker' = "failed" /\ UNCHANGED image
  /\ UNCHANGED <<disk, compressed, sizeLies, name, offset, queue, pending, written, stored,
                 snapshot, changed>>

NameTaken ==
  /\ name = "free" /\ ~image
  /\ name' = "taken"
  /\ UNCHANGED <<disk, compressed, sizeLies, walker, offset, queue, pending, written, stored,
                 snapshot, changed, image>>

\* The command dies; EBS cancels the snapshot an hour later.
UploadKilled ==
  /\ walker \in {"walk", "drain", "abort", "register"}
  /\ walker' = "failed"
  /\ pending' = [b \in {} |-> "queued"]
  /\ UNCHANGED <<disk, compressed, sizeLies, name, offset, queue, written, stored, snapshot,
                 changed, image>>

UploadNext ==
  \/ Start \/ Seek \/ WalkEnds \/ SkipZeros \/ Submit
  \/ WorkerTakes \/ WorkerEnds \/ Complete \/ Abort \/ Register
  \/ NameTaken \/ UploadKilled

UploadSpec == UploadInit /\ [][UploadNext]_uploadVars

----------------------------------------------------------------------------

UploadTypeOK ==
  /\ disk \in [0..(Units - 1) -> {"hole", "zero", "data"}]
  /\ compressed \in BOOLEAN /\ sizeLies \in BOOLEAN /\ image \in BOOLEAN
  /\ name \in {"free", "taken"}
  /\ walker \in {"check", "walk", "drain", "register", "abort", "failed", "ended"}
  /\ offset \in 0..Units /\ queue \subseteq Blocks
  /\ DOMAIN pending \subseteq Blocks
  /\ \A b \in DOMAIN pending : pending[b] \in {"queued", "running", "done", "failed"}
  /\ written \in 0..Cardinality(Blocks) /\ stored \subseteq Blocks
  /\ snapshot \in {"none", "pending", "completed"} /\ changed \in 0..Cardinality(Blocks)

\* A snapshot is completed only as the disk: every block with data, at the start,
\* middle or end of an extent, has arrived, no block of zeros was sent, and the
\* count EBS is told is theirs; no failure of one of many workers is lost, and an
\* image is registered only of such a snapshot.  Meanwhile the blocks in memory
\* stay within two per worker.
CompletedIsDisk ==
  /\ snapshot = "completed" =>
       /\ stored = {b \in Blocks : NonZero(b)}
       /\ changed = Cardinality(stored)
  /\ image => snapshot = "completed"
  /\ Cardinality(DOMAIN pending) <= 2 * Jobs
=============================================================================
