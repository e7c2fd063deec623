SPECIFICATION Spec
CONSTANTS
  r1 = r1
  r2 = r2
  r3 = r3
  c1 = c1
  Nobody = Nobody
  Request = {r1, r2}
  Stream = {r2}
  Canceller = {c1}
  Large = {}
  Src <- CountFromOne
  Target <- CancelsSecond
  MaxSpawn = 2
  MaxId = 2
  PipeCap = 1
  MaxSay = 1
  ReaderMayStop = FALSE
  StatusMayFail = FALSE
  ServerCalls = FALSE
INVARIANTS
  CancelsOwn
