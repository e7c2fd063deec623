SPECIFICATION Spec
CONSTANTS
  c1 = c1
  c2 = c2
  c3 = c3
  c4 = c4
  k1 = k1
  k2 = k2
  None = None
  Unread = Unread
  Torn = Torn
  Garbage = Garbage
  Call = {c1, c2}
  Key = {k1, k2}
  Serial = FALSE
PROPERTIES
  Persists
