SPECIFICATION WatchedSpec
CONSTANTS
  Jobs = {1}
  Uploads = {}
  Cancels = {c1}
  Stalls = TRUE
  StaleRoute = FALSE
  StageRoute = {"ingested", "summarized"}
  Patches <- StagePatches
  MaxCrashes = 2
PROPERTIES BootLeavesNoneActive OrphansSettle
