SPECIFICATION Spec
CONSTANTS
  k1 = k1
  k2 = k2
  NoName = NoName
  NoKmd = NoKmd
  DefaultImages = "v1"
  Names = {k1, k2}
  Namespaces = {"ns1", "rnd1"}
  UserNamespaces <- UserNs
  RandomNamespaces <- RandomNs
  Images = {"v1"}
  Modes = {"Helm"}
  UserLabels = {"false"}
  EditableFields = {}
  MaxUid = 1
  MaxGen = 1
  MaxLag = 1
  MaxRetry = 1
  MaxConflictRetries = 2
  FaultKinds = {"chart"}
  MaxFaults = 1
PROPERTIES ControlPlaneKept
CHECK_DEADLOCK FALSE
