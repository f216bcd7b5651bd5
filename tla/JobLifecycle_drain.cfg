SPECIFICATION FairSpec
CONSTANTS
  Jobs = {1, 2}
  Uploads = {1}
  Cancels = {c1}
  Stalls = FALSE
  StaleRoute = FALSE
  StageRoute = {}
  Patches = {}
  MaxCrashes = 1
PROPERTIES FlagStopsRun EveryJobSettles
