--------------------------- MODULE MCAutomations ---------------------------
(* Instances of Automations for TLC: one automation with a time of its own *)
(* and one that follows it, if any, and the time has come at the start, so *)
(* that few ticks of the clock are needed.                                 *)
EXTENDS Automations

FollowsTimed == [b \in Chained |-> CHOOSE a \in Timed : TRUE]

MCInit == ScheduleInit /\ \A a \in Timed : wnext[a] = now

MCSpec == MCInit /\ [][ScheduleNext]_scheduleVars
=============================================================================
