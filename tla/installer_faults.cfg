SPECIFICATION Spec
CONSTANTS
  k1 = k1
  k2 = k2
  NoName = NoName
  NoKmd = NoKmd
  DefaultImages = "v1"
  Names = {k1}
  Namespaces = {"rnd1"}
  UserNamespaces <- NoUserNs
  RandomNamespaces <- RandomNs
  Images = {"v1"}
  Modes = {"Helm"}
  UserLabels = {"false", "true"}
  EditableFields = {"label", "lateLabel"}
  MaxUid = 1
  MaxGen = 1
  MaxLag = 2
  MaxRetry = 1
  MaxConflictRetries = 2
  FaultKinds = {"api", "chart", "values", "helm", "purge", "crash"}
  MaxFaults = 2
INVARIANTS TypeOK OwnershipInv
PROPERTIES Lifecycle UninstallPrecedesRemoval
CHECK_DEADLOCK FALSE
