SPECIFICATION Spec
CONSTANTS
  k1 = k1
  k2 = k2
  NoName = NoName
  NoKmd = NoKmd
  DefaultImages = "v1"
  Names = {k1}
  Namespaces = {"rnd1", "rnd2"}
  UserNamespaces <- NoUserNs
  RandomNamespaces <- RandomNs2
  Images = {"v1"}
  Modes = {"", "Helm"}
  UserLabels = {"false"}
  EditableFields = {"mode"}
  MaxUid = 2
  MaxGen = 2
  MaxLag = 2
  MaxRetry = 1
  MaxConflictRetries = 2
  FaultKinds = {"endpoint", "crash"}
  MaxFaults = 1
INVARIANTS NoticeInv EditsNoticed OneInstance CompletedMeansDeployed
PROPERTIES ControlPlaneKept NothingForgotten
CHECK_DEADLOCK FALSE
