--------------------------- MODULE MCAgentDaemon ---------------------------
(* Instances of AgentDaemon for TLC. *)
EXTENDS AgentDaemon

CONSTANTS
  l1, l2,   \* the members of Launches
  d1, d2    \* the members of Daemons

Issued == {c \in Commands : stage[c] # "new"}

(* Bound: two launches, or one with the other commands.  Of the launches and
   of the processes, which no definition tells apart, the first come first. *)
Together ==
  /\ l2 \in Issued => Issued = {l1, l2}
  /\ life[d2] # "unborn" => life[d1] # "unborn"

(* A command that is not issued and a process that is not started owe nothing. *)
MCSpec == DaemonInit /\ [][DaemonNext /\ Together']_daemonVars /\ DaemonFairness
=============================================================================
