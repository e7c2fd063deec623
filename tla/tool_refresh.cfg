SPECIFICATION FairSpec
CONSTANTS
  f1 = f1
  r1 = r1
  Nobody = Nobody
  Headers = 2
  Handler = {f1, r1}
  Refresher = {f1}
  Request = {r1}
  Legacy = {1, 2}
  Modern = 3
  Unknown = Unknown
  MaxDeaths = 1
INVARIANTS
  RefreshTypeOK
  RejectedGone
  ListedInSession
PROPERTIES
  IsCache
  IsHandshake
  RefreshEnds
CHECK_DEADLOCK FALSE
