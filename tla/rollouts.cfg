CONSTANTS
  Digests = {d1}
  RetryWindow = 2
  RetryPause = 1
  KeyRetention = 3
  SendTime = 1
  NoDigest = none
  Owners = {u1}
  Proposers = {u1}
  PreparingLimit = 1
  MaxPlans = 1
  MaxHeads = 2
  PanelTabs = {t1, t2}
  Hosts = {h1}
  NoHost = nohost
  MaxChanges = 4
  MaxImages = 1
  Foci = {"panel", "manifests"}
SPECIFICATION MCSpec
INVARIANTS RolloutGoesOn
PROPERTIES PanelCatchesUp RolloutsEnd
CHECK_DEADLOCK FALSE
