SPECIFICATION Spec
CONSTANTS
  Jobs = {1, 2}
  Uploads = {1}
  Cancels = {c1}
  Stalls = FALSE
  StaleRoute = TRUE
  StageRoute = {}
  Patches = {}
  MaxCrashes = 1
INVARIANTS IInv ActiveIsOwned DoneIsOnDisk InterruptedIsUnfinished UploadRunsWithSource
PROPERTIES FinishedWorkStays ImplementsPromise
