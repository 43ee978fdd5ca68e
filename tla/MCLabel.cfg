SPECIFICATION Spec
CONSTANTS
  d1 = d1
  d2 = d2
  dbad = dbad
  t1 = t1
  t2 = t2
  n1 = n1
  n2 = n2
  Domain <- MCDomain
  InvalidDomain <- MCInvalidDomain
  Token <- MCToken
  Name <- MCName
  NoName = NoName
  Chan = {c1, c2, c3, c4}
  NoClient = NoClient
  MaxEntries = 2
  Request = {r1, r2}
  Headers <- MCHeaders
  Absent = Absent
SYMMETRY Symmetry
INVARIANT LabelIsOwn
