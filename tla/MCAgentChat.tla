----------------------------- MODULE MCAgentChat -----------------------------
(* Two turns, of one conversation or of two. *)
EXTENDS AgentChat

MCTurns == 1..2
MCInit ==
    /\ Init /\ threadOf[1] = "a"
    /\ threadOf[2] = "a" => cli["b"] = cli["a"]
MCSpec == MCInit /\ [][Next]_vars /\ WF_vars(GoesOn)
=============================================================================
