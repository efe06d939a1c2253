SPECIFICATION FairSpec
CONSTANTS
  k1 = k1
  k2 = k2
  NoName = NoName
  NoKmd = NoKmd
  DefaultImages = "v1"
  Names = {k1}
  Namespaces = {"ns1", "rnd1"}
  UserNamespaces <- UserNs
  RandomNamespaces <- RandomNs
  Images = {"v1"}
  Modes = {"Helm"}
  UserLabels = {"", "true"}
  EditableFields = {}
  MaxUid = 1
  MaxGen = 1
  MaxLag = 2
  MaxRetry = 1
  MaxConflictRetries = 2
  FaultKinds = {}
  MaxFaults = 0
PROPERTIES EventuallyInstalled
CHECK_DEADLOCK FALSE
