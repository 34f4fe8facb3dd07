\* Two threads, two blobs of equal size and the empty one, a store for one of
\* them: every put makes room by evicting the other.  Results are left out, and
\* batches with the empty blob (SizedPuts), which one thread puts in the run
\* store_sequential.
SPECIFICATION Spec
CONSTANTS
  b0 = b0
  b1 = b1
  b2 = b2
  b3 = b3
  bn1 = bn1
  a1 = a1
  t1 = t1
  t2 = t2
  NoBundle = NoBundle
  Blob <- MCBlobs2
  Empty = b0
  Corruptible = {b1, b2}
  Bytes <- MCBytes
  Bundle = {bn1}
  Action = {}
  Thread = {t1, t2}
  MaxBytes = 4
  LowWater = 3
  MaxRows = 2
INVARIANTS TypeOK HeldMatchesIndex EmptyStays
PROPERTIES FilesAccounted ProvenanceKept
SYMMETRY Symmetry
CONSTRAINT SizedPuts
