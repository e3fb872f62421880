\* One transfer of each kind, two at a time, an upload that overwrites.
CONSTANTS
  fed1 = fed1
  drop1 = drop1
  down1 = down1
  Fed = {fed1}
  Dropped = {drop1}
  Downloads = {down1}
  Overwriting = {fed1}
  Size = 1
  Names = 2
  MaxTransfers = 2
  None = None
SPECIFICATION Spec
INVARIANTS TerminalIsTrue NoOrphan
PROPERTIES ContentStays TransfersEnd
CHECK_DEADLOCK FALSE
