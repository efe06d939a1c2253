SPECIFICATION OperatorSpec
CONSTANTS
  k1 = k1
  k2 = k2
  NoName = NoName
  NoKmd = NoKmd
  DefaultImages = "v1"
  l1 = l1
  l2 = l2
  Names = {k1}
  Namespaces = {"ns1"}
  UserNamespaces <- NoUserNs
  RandomNamespaces <- OneNs
  Images = {"v1", "v2"}
  Modes = {"Helm"}
  UserLabels = {"false"}
  EditableFields = {"images"}
  MaxUid = 1
  MaxGen = 2
  MaxLag = 1
  MaxRetry = 0
  MaxConflictRetries = 1
  FaultKinds = {}
  MaxFaults = 0
  Loops = {l1}
  MaxLoad = 1
PROPERTIES ObservedGenerationGrows
CHECK_DEADLOCK FALSE
