SPECIFICATION Spec
CONSTANTS
  a = a
  b = b
  s1 = s1
  s2 = s2
  t1 = t1
  t2 = t2
  r1 = r1
  r2 = r2
  f1 = f1
  None = None
  Name = {a, b}
  Server = {s1, s2}
  Tool = {t1, t2}
  Pages <- TwoServers
  Initial <- OneUpstream
  Edits <- TwoEdits
  Allowance <- Profiles
  Request = {r1, r2}
  Refresher = {f1}
SYMMETRY Symmetry
INVARIANTS
  TypeOK
  Confined
  ListedIsCallable
  CachedWhole
PROPERTIES
  StaleOnlyByLateRefresh
