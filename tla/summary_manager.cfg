SPECIFICATION FairSpec
CONSTANTS
  Nobody = Nobody
  NoSummary = NoSummary
  Gone = Gone
  CoreResources = {}
  PolicyResources = {}
  ResourceNames = {"cpu", "pods"}
  Runs = {1, 2}
  Contents <- Listed
  MaxChanges = 1
  MaxUnits = 2
  MaxFaults = 1
INVARIANTS TypeOK ListersSynced TotalsExact
PROPERTIES CloseEndsAll Settles
CHECK_DEADLOCK FALSE
