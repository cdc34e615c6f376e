CONSTANTS
  g1 = g1
  n1 = n1
  n2 = n2
  GithubAccounts = {g1}
  Names = {n1, n2}
  FirstName <- MCFirstName
  Lower <- MCLower
  EnvAllowlist = {}
  Calls = {q1, q2}
  MaxRows = 2
  MaxGrants = 3
  MaxForeign = 1
  Nobody = nobody
  w1 = w1
  Paths = {"dockerfile", "manifest", "workflow"}
  Template = {"workflow"}
  Writers = {w1}
  Setups = {s1}
  Puts <- MCPuts
  Drops <- MCDrops
  Replaces <- MCReplaces
  MaxCommits = 3
  Tabs = {t1, t2}
  ReturnPaths = {p1, p2}
  HomePath = home
  MaxSignIns = 3
  MaxPushes = 2
  MaxImages = 2
  e1 = e1
  e2 = e2
  d1 = d1
  c1 = c1
  c2 = c2
  Requests = {r1, r2}
  Entries = {e1, e2}
  Digests = {d1}
  DigestOf <- MCDigestOf
  DeployedAt <- MCDeployedAt
  Commits = {c1, c2}
  FinishedAt <- MCFinishedAt
  BuiltFrom <- MCBuiltFrom
  NoCommit = none
  v1 = v1
  v2 = v2
  Viewers = {v1, v2}
  ScopeOf <- MCScopeOf
  Owners = {n1, n2}
  MaxTime = 2
  MaxChanges = 1
  CacheTtl = 2
  Repos = {x1, x2}
  PageRequests = {q1}
  MaxHeads = 2
  ToReview = {2}
  NoRepo = norepo
  AppTabs = {b1, b2}
  MaxSaves = 2
  NoTab = notab
  a1 = a1
  a2 = a2
  ScanOrder <- MCScanOrder
  ScanImages = {i1, i2}
  NoImage = noimage
  EventWindow = 2
  MaxEventTime = 3
  MaxReports = 3
  MaxArrivals = 3
  AlertViewers = {v1, v2}
  AlertScopeOf <- MCAlertScopeOf
  Subjects = {n1}
  AlertTtl = 2
  ListTtl = 2
  MaxAlertTime = 2
  MaxTurns = 2
  ConsentTabs = {t1, t2}
  MaxPolicies = 2
SPECIFICATION MCSpec
VIEW MCView
INVARIANTS ServicesTypeOK ErasureComplete ChainUnbroken OneSetupPull
INVARIANTS SignInHolds LiveIsLatest RunsReachEveryone GreenChecklistBuilds AnsweredWillRun
INVARIANTS SummaryHolds ListsAsFreshAsSaid ChangedAsAgreed
PROPERTIES NothingOverwritten VerifiedStands
CHECK_DEADLOCK FALSE
