\* One thread: calls do not overlap.  Any two of the blobs fit the bound, the
\* three do not.
SPECIFICATION Spec
CONSTANTS
  b0 = b0
  b1 = b1
  b2 = b2
  b3 = b3
  bn1 = bn1
  a1 = a1
  t1 = t1
  t2 = t2
  NoBundle = NoBundle
  Blob <- MCBlobs3
  Empty = b0
  Corruptible = {b1, b3}
  Bytes <- MCBytes
  Bundle = {bn1}
  Action = {a1}
  Thread = {t1}
  MaxBytes = 10
  LowWater = 9
  MaxRows = 3
INVARIANTS RowsHaveFiles SpaceKept
PROPERTIES ImplementsCache
