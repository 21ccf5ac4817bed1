SPECIFICATION MCSpec
CONSTANTS
  Host = "host"
  Guests = {"guest"}
  Packs = {"plain", "modded"}
  FirstTicks <- MCTicks
  MapOf <- MCMap
  ServerHas = {"plain"}
  MaxChanges = 1
  Recorders = {"game"}
  Recoverers = {"picker"}
  NBases = 2
  NFiles = 2
  MaxBundles = 2
  MaxCuts = 1
  MaxAtCut = 1
  MeetsCreation = FALSE
  Accounts = {"ann", "bob"}
INVARIANTS
  KeepTypeOK
  StartsAlike
  QuietMeansReady
  NothingFlushedIsLost
  ReplaysAreWhole
  RecordingIsLeftAlone
  AccountsKept
CHECK_DEADLOCK FALSE
