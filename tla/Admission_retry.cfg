SPECIFICATION Spec
CONSTANTS
  Requests = {1, 2, 3}
  Uploads = {1, 2}
  Keys = {k1}
  Overlap = FALSE
  MaxCrashes = 1
INVARIANTS TypeOK OneReservedJobPerKey AnsweredJobExists NoOrphanKey QueuedSourceIsWhole
CHECK_DEADLOCK FALSE
