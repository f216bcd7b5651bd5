SPECIFICATION Spec
CONSTANTS
  Jobs = {1}
  Uploads = {1}
  Cancels = {c1}
  Stalls = TRUE
  StaleRoute = FALSE
  StageRoute = {}
  Patches = {}
  MaxCrashes = 0
PROPERTIES CancelReachesRun
