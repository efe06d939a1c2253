SPECIFICATION Spec
CONSTANTS
  NoValues = NoValues
  RepoScheme = "http"
  Others = {"other"}
  MaxChanges = 1
  Tokens <- Parts
  ChartSpecs <- Specs
  NodeLists <- Nodes
INVARIANTS TypeOK CachedSuffices ModulesIndependent ImagesDecided JobImagesComplete
PROPERTIES EventuallyFetched
CHECK_DEADLOCK FALSE
