\* A service and a window hand one timed and one chained automation over: two
\* exchanges of marks under way, answered in any order, late or never, one
\* window, and a service that is there from the start or started by the window,
\* whose connection may break, and that may die and be started again.
SPECIFICATION MCSpec
CONSTANTS
  Timed = {t}
  Chained = {c}
  Picky = {c}
  Source <- FollowsTimed
  Cap = 1
  Period = 1
  MaxTime = 2
  MaxSyncs = 2
  MaxAsks = 1
  MaxWindows = 1
  MaxServices = 2
INVARIANTS
  
  RecordInOnePlace
PROPERTIES
  ProgressStays
CHECK_DEADLOCK FALSE
