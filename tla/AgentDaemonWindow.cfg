\* Two launches, or a launch, a poll and a stop, over two windows and two
\* processes, one of which may be killed: the second process replaces the first
\* or finds it serving.
SPECIFICATION MCSpec
CONSTANTS
  l1 = l1
  l2 = l2
  d1 = d1
  d2 = d2
  Daemons = {d1, d2}
  Nobody = Nobody
  MaxKills = 1
  Launches = {l1, l2}
  Polls = {p1}
  Stops = {s1}
  MaxWindows = 2
INVARIANTS
  ShownIsOwned
PROPERTIES
  WindowSettles
CHECK_DEADLOCK FALSE
