SPECIFICATION RecSpec
CONSTANTS
  Recorders = {"game"}
  Recoverers = {"picker"}
  NBases = 2
  NFiles = 2
  MaxBundles = 1
  MaxCuts = 0
  MaxAtCut = 1
  MeetsCreation = TRUE
INVARIANT RecordingIsLeftAlone
CHECK_DEADLOCK FALSE
