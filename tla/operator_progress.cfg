SPECIFICATION OperatorFairSpec
CONSTANTS
  k1 = k1
  k2 = k2
  NoName = NoName
  NoKmd = NoKmd
  DefaultImages = "v1"
  l1 = l1
  l2 = l2
  Names = {k1}
  Namespaces = {"ns1"}
  UserNamespaces <- NoUserNs
  RandomNamespaces <- OneNs
  Images = {"v1"}
  Modes = {"Helm"}
  UserLabels = {"true"}
  EditableFields = {}
  MaxUid = 1
  MaxGen = 1
  MaxLag = 1
  MaxRetry = 1
  MaxConflictRetries = 1
  FaultKinds = {}
  MaxFaults = 0
  Loops = {l1}
  MaxLoad = 2
INVARIANTS OperatorOwnershipInv
PROPERTIES Lifecycle SummaryPublished SummaryLetsGo
CHECK_DEADLOCK FALSE
