\* A copy beside another copy, a clear, or text of the terminal written or read;
\* calls that fail or hang, other programs, and a close or a restart at any time.
SPECIFICATION MCSpec
CONSTANTS
  Copies = {c1, c2}
  Clears = {k1}
  Writes = {w1}
  Reads = {r1}
  Texts = {s}
  Foreign = {t}
  Exit = Exit
  None = None
INVARIANTS
  NothingLeft
PROPERTIES
  ErasesItsOwn
  AllEnd
CHECK_DEADLOCK FALSE
