SPECIFICATION FairSpec
CONSTANTS
  n1 = n1
  n2 = n2
  e1 = e1
  e2 = e2
  e3 = e3
  r1 = r1
  r2 = r2
  None = None
  Config = Config
  Torn = Torn
  Name = {n1, n2}
  FromConfig = {n1}
  Edit = {e1, e2, e3}
  Request = {r1}
  Serial = TRUE
INVARIANTS
  TypeOK
  ServedWhileLive
  Agree
PROPERTIES
  SyncedServersStay
  AllEnd
