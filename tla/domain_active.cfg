CONSTANTS
  u1 = u1
  u2 = u2
  d1 = d1
  d2 = d2
  q1 = q1
  q2 = q2
  Users = {u1}
  Domains = {d1, d2}
  Requests = {q1, q2}
  MaxId = 2
  Grandfathered = none
  LegacyDomain = d1
  None = none
SYMMETRY OnlyRequests
SPECIFICATION Spec
INVARIANTS ActiveHasCertificate
