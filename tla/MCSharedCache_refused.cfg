SPECIFICATION MCSpec
CONSTANTS
  b1 = b1
  b2 = b2
  a1 = a1
  a2 = a2
  s1 = s1
  s2 = s2
  t1 = t1
  t2 = t2
  NoBundle = NoBundle
  NoPointer = NoPointer
  NoAction = NoAction
  Gone = Gone
  Unreadable = Unreadable
  Blob = {b1, b2}
  Action = {a1}
  Results <- MCResults
  Shim = {s1, s2}
  Thread = {t1, t2}
  Home <- MCBuilderAndReader
  Builders = {s1}
  MaxTroubles = 2
PROPERTY RefusedIsReuploaded
