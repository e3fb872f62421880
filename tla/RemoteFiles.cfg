\* Two uploads to one name that holds a file, a download, and two sessions one
\* after the other; one message each way at a time, so that every side waits.
CONSTANTS
  u1 = u1
  u2 = u2
  d1 = d1
  Uploads = {u1, u2}
  Downloads = {d1}
  Size <- OneByte
  Overwriting = {u1, u2}
  JobLimit = 2
  MaxBytes = 1
  CommandCap = 1
  WireCap = 1
  FirstFiles = {"old"}
  None = None
  MaxSessions = 2
  MaxTransfers = 2
SYMMETRY Alike
SPECIFICATION FilesSpec
INVARIANTS BytesAccounted TransfersTrue
PROPERTIES ContentSafe
CHECK_DEADLOCK FALSE
