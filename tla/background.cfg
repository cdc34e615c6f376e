CONSTANTS
  Digests = {d1, d2}
  RetryWindow = 2
  RetryPause = 1
  KeyRetention = 3
  SendTime = 1
  NoDigest = none
  Owners = {u1, u2}
  Proposers = {u1}
  PreparingLimit = 1
  MaxPlans = 1
  MaxHeads = 2
  PanelTabs = {t1}
  Hosts = {h1}
  NoHost = nohost
  MaxChanges = 0
  MaxImages = 0
  Foci = {"mail", "patch"}
SPECIFICATION MCSpec
INVARIANTS BackgroundTypeOK MailedOnce OnePullRequest
PROPERTIES ProposalKept NoteSettles ErasedPlanPruned
CHECK_DEADLOCK FALSE
