\* At most two of four commands, the reports of one turn that are turned away,
\* time out and are tried again, a guess, and a session that may end by its
\* process, a disconnect or stop_all.
SPECIFICATION FewSpec
CONSTANTS
  e1 = e1
  e2 = e2
  Enqueuers = {e1, e2}
  Typers = {u1}
  Clearers = {k1}
  MaxTurns = 1
  Attempts = 2
  MaxQueued = 1
  Verdicts = {"Done"}
  Guesses = {"Idle"}
  Endings = {"exit", "disconnect", "stop"}
  None = None
INVARIANTS
  ClosedOnce
PROPERTIES
  PromptLineSpec
  VerdictStands
  TakenIsTyped
CHECK_DEADLOCK FALSE
