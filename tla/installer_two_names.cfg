SPECIFICATION FairSpec
CONSTANTS
  k1 = k1
  k2 = k2
  NoName = NoName
  NoKmd = NoKmd
  DefaultImages = "v1"
  Names = {k1, k2}
  Namespaces = {"ns1", "ns2"}
  UserNamespaces <- NoUserNs
  RandomNamespaces <- OwnNs
  Images = {"v1"}
  Modes = {"Helm", "Karmadactl"}
  UserLabels = {"false"}
  EditableFields = {}
  MaxUid = 1
  MaxGen = 1
  MaxLag = 1
  MaxRetry = 1
  MaxConflictRetries = 2
  FaultKinds = {}
  MaxFaults = 0
PROPERTIES EventuallySettled
CHECK_DEADLOCK FALSE
