-------------------------- MODULE AgentPromptLine --------------------------
(***************************************************************************)
(* What the prompt queue of one agent session promises whoever asked it to *)
(* hold a prompt: every prompt has one fate.  It is refused, or it is taken *)
(* at once, or it waits in line and is taken when it is first; a prompt     *)
(* that was taken is typed into the terminal once or dropped because the    *)
(* session is gone, and a waiting one disappears only when the whole line   *)
(* is cleared.                                                             *)
(***************************************************************************)
EXTENDS Sequences

CONSTANTS Prompts

VARIABLES
  fate,     \* what became of each prompt
  line      \* the prompts that wait, first come first served

Init ==
  /\ fate = [p \in Prompts |-> "offered"]
  /\ line = <<>>

Move(p, from, to) ==
  /\ fate[p] = from
  /\ fate' = [fate EXCEPT ![p] = to]

(* The session is full, gone, or the prompt is turned away. *)
Refuse(p) == Move(p, "offered", "dropped") /\ UNCHANGED line

TakeNow(p) == Move(p, "offered", "taken") /\ UNCHANGED line

Wait(p) ==
  /\ Move(p, "offered", "waiting")
  /\ line' = Append(line, p)

TakeFirst ==
  /\ line # <<>>
  /\ Move(Head(line), "waiting", "taken")
  /\ line' = Tail(line)

Type(p) == Move(p, "taken", "typed") /\ UNCHANGED line

Drop(p) == Move(p, "taken", "dropped") /\ UNCHANGED line

Clear ==
  /\ line # <<>>
  /\ fate' = [p \in Prompts |-> IF fate[p] = "waiting" THEN "dropped" ELSE fate[p]]
  /\ line' = <<>>

Next ==
  \/ TakeFirst
  \/ Clear
  \/ \E p \in Prompts : Refuse(p) \/ TakeNow(p) \/ Wait(p) \/ Type(p) \/ Drop(p)

Spec == Init /\ [][Next]_<<fate, line>>
=============================================================================
