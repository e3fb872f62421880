---------------------------- MODULE AgentSummary ----------------------------
(***************************************************************************)
(* The lifecycle half of AgentSessionSummary: what a session is doing and  *)
(* who said so.  Everything that changes it takes the summary lock, so each *)
(* operator below is one critical section, given as the summary after it.  *)
(*                                                                         *)
(* Source: src-tauri/src/agent.rs.                                         *)
(***************************************************************************)

Lifecycles == {"Working", "NeedsAttention", "Idle", "Done"}
Sources == {"Heuristic", "Integration"}
Summaries == [state : Lifecycles, source : Sources]

(* A CLI that was only opened has no work: a guess, not a report. *)
Launched == [state |-> "Idle", source |-> "Heuristic"]

(* update_state: an official report always wins over a guess, and a guess
   never replaces a report.  The caller learns whether anything changed. *)
Stands(s, source) == s.source = "Integration" /\ source = "Heuristic"

GuessOverrides(s, next, source) ==    \* mutant: a guess may replace a report
  [state |-> next, source |-> source]

UpdateState(s, next, source) ==
  IF Stands(s, source) THEN s ELSE [state |-> next, source |-> source]

(* mark_working_from_input: a submitted prompt starts a turn whoever ended
   the previous one; a bare Enter only answers an open question. *)
MarkWorking(s, submission) ==
  IF \/ submission = "None"
     \/ submission = "BareEnter" /\ s.state # "NeedsAttention"
  THEN s
  ELSE [state |-> "Working", source |-> "Heuristic"]

(* releases_queued_prompt: only an official end of turn frees the session. *)
Releases(s) == s.source = "Integration" /\ s.state \in {"Done", "Idle"}
=============================================================================
