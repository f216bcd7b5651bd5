SPECIFICATION Spec
CONSTANTS
  Window = 6
  Overlap = 2
  Floor = 3
  Threshold = 12
  MaxOoms = 3
  Recordings <- ManyRecordings
INVARIANTS TypeOK TranscriptIsStitched ProgressIsFull
CHECK_DEADLOCK FALSE
