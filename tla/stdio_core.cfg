SPECIFICATION Spec
CONSTANTS
  r1 = r1
  r2 = r2
  r3 = r3
  c1 = c1
  Nobody = Nobody
  Request = {r1, r2}
  Stream = {r2}
  Canceller = {c1}
  Large = {r1}
  Src <- SameIds
  Target <- CancelsSecond
  MaxSpawn = 2
  MaxId = 2
  PipeCap = 1
  MaxSay = 2
  ReaderMayStop = TRUE
  StatusMayFail = FALSE
  ServerCalls = TRUE
INVARIANTS
  TypeOK
  OwnMessagesOnly
  AtMostOneAnswer
  WriterHoldsCurrent
  NoEntryLeft
  WaitersWereSent
PROPERTIES
  EntryLeaves
