\* One tunnel that is started twice, one run at a time, two connections for one
\* slot, and a stop: a restart meets what the run before it has not let go of.
SPECIFICATION FairSpec
CONSTANTS
  Tunnels = {t1}
  Conns = {c1, c2}
  Stoppers = {s1}
  MaxRuns = 2
  MaxActive = 1
  PerTunnel = 1
  Global = 1
  None = None
INVARIANTS
  StopIsFinal
  RowsTrue
  StopReaches
PROPERTIES
  RunsEnd
CHECK_DEADLOCK FALSE
