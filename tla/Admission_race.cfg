SPECIFICATION Spec
CONSTANTS
  Requests = {1, 2, 3}
  Uploads = {1, 2, 3}
  Keys = {k1}
  Overlap = TRUE
  MaxCrashes = 0
INVARIANTS OneJobPerKey
CHECK_DEADLOCK FALSE
