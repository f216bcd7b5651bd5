SPECIFICATION FairSpec
CONSTANTS
  Files = {f1, f2}
  NoFile = none
  MaxDrops = 3
  MaxVisits = 2
INVARIANTS DropsAreAccountedFor OneUploadAtATime
PROPERTIES EveryDropIsReported
CHECK_DEADLOCK FALSE
