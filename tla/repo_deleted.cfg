CONSTANTS
  u1 = u1
  u2 = u2
  a1 = a1
  a2 = a2
  h1 = h1
  h2 = h2
  Users = {u1}
  Admin = admin
  q1 = q1
  q2 = q2
  Requests = {q1, q2}
  Apps = {a1}
  Hosts = {h1, h2}
  Slugs = {}
  DefaultHost <- DistinctHosts
  Detections = {FALSE}
  Legacy = {}
  LegacyApp = a1
  Allocatable = 4
  Headroom = 1
  PodUnits = 1
  ReserveUnits = 2
  MaxStamp = 2
  Operations <- WithCron
  Registration = registrationKey
  None = none
SPECIFICATION Spec
PROPERTIES RegisteredKeepsRepo
