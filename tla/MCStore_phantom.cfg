\* Two threads and no damaged file: only an eviction takes bytes away.
SPECIFICATION Spec
CONSTANTS
  b0 = b0
  b1 = b1
  b2 = b2
  b3 = b3
  bn1 = bn1
  a1 = a1
  t1 = t1
  t2 = t2
  NoBundle = NoBundle
  Blob <- MCBlobs2
  Empty = b0
  Corruptible = {}
  Bytes <- MCBytes
  Bundle = {bn1}
  Action = {}
  Thread = {t1, t2}
  MaxBytes = 4
  LowWater = 3
  MaxRows = 2
INVARIANT RowsHaveFiles
SYMMETRY Symmetry
