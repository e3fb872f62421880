\* One device ID, two tokens, agents that may replace each other or name a
\* device that is not theirs, two dials for one pending-dial slot, a join, fewer
\* permits than connections, one restart of the relay.  No symmetry: RendezvousSpec
\* and DialResolves name the dials.
SPECIFICATION FairSpec
CONSTANTS
  Devices = {d1}
  Tokens = {t1, t2}
  None = None
  MaxRegistry = 1
  Persist = TRUE
  Controls = {a1, a2}
  Viewers = {v1, v2}
  Joiners = {j1}
  MaxConnections = 3
  MaxPendingDials = 1
  InviteCap = 1
  MaxRestarts = 1
INVARIANTS
  TablesHold
  PermitsConserved
  OwnersServed
PROPERTIES
  DialResolves
  RendezvousSpec
CHECK_DEADLOCK FALSE
