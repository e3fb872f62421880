\* One turn whose report is tried twice, two prompts in the queue.
SPECIFICATION Spec
CONSTANTS
  e1 = e1
  e2 = e2
  Enqueuers = {e1, e2}
  Typers = {u1}
  Clearers = {}
  MaxTurns = 1
  Attempts = 2
  MaxQueued = 2
  Verdicts = {"Done"}
  Guesses = {}
  Endings = {}
  None = None
INVARIANTS
  OneReleasePerTurnEnd
CHECK_DEADLOCK FALSE
