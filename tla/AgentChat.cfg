\* Two turns of one conversation or of two (MCInit chooses), one retry, one
\* hand-over, removal, reload or probe beside them.
SPECIFICATION MCSpec
CONSTANTS
    Turns <- MCTurns
    Threads = {"a", "b"}
    None = None
    ThreadOpen = ThreadOpen
    ModelProbe = ModelProbe
    Retries = 1
    MaxMoves = 1
INVARIANTS
    NoStray
    TurnsAnswered
    StartupGate
PROPERTIES
    StopEnds
CHECK_DEADLOCK FALSE
