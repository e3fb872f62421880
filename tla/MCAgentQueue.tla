---------------------------- MODULE MCAgentQueue ----------------------------
(* Instances of AgentQueue for TLC. *)
EXTENDS AgentQueue, TLC

CONSTANTS e1, e2     \* the members of Enqueuers

(* Bound: at most two of the commands are issued, whichever they are; of the
   interchangeable ones e1 comes first.  A command that is not issued owes
   nothing, so the fairness of the others is untouched. *)
Issued == {t \in Prompts \cup Clearers : pc[t] # "idle"}

FewCommands ==
  /\ Cardinality(Issued) <= 2
  /\ e2 \in Issued => e1 \in Issued

FewSpec == Init /\ [][Next /\ FewCommands']_vars /\ Fairness
=============================================================================
