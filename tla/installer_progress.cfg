SPECIFICATION FairSpec
CONSTANTS
  k1 = k1
  k2 = k2
  NoName = NoName
  NoKmd = NoKmd
  DefaultImages = "v1"
  Names = {k1}
  Namespaces = {"ns1", "rnd1"}
  UserNamespaces <- UserNs
  RandomNamespaces <- RandomNs
  Images = {"v1"}
  Modes = {"Helm", "Karmadactl"}
  UserLabels = {"", "true"}
  EditableFields = {"mode", "images"}
  MaxUid = 1
  MaxGen = 2
  MaxLag = 2
  MaxRetry = 1
  MaxConflictRetries = 2
  FaultKinds = {"crash"}
  MaxFaults = 1
PROPERTIES DeletionCompletes GenerationObserved EventuallySettled
CHECK_DEADLOCK FALSE
