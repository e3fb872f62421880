----------------------------- MODULE AgentQueue -----------------------------
(***************************************************************************)
(* The prompt queue of one agent session and everything that touches it:   *)
(* agent_enqueue and agent_clear_queue commands, terminal input, the       *)
(* lifecycle reports a CLI's hooks deliver with retries, the end of the    *)
(* process and the user's disconnect.  Each runs on a thread of its own;   *)
(* an action is one critical section of it, because the code takes the     *)
(* session's locks one after another and never two at a time here.         *)
(*                                                                         *)
(* Source: src-tauri/src/agent.rs.  The CLI is external: it reads prompts  *)
(* one at a time, works on one, and starts a hook process when a turn      *)
(* begins (if its integration has such a hook) and when it ends.  What the *)
(* terminal output makes the desktop guess is any guess at any time, so    *)
(* integrated_completion, which only silences guesses, is left out here.   *)
(***************************************************************************)
EXTENDS Integers, Sequences, FiniteSets, AgentSummary

CONSTANTS
  Enqueuers,     \* agent_enqueue commands, each named for its prompt
  Typers,        \* agent_send commands that submit a prompt, likewise
  Clearers,      \* agent_clear_queue commands
  MaxTurns,      \* bound: turns the CLI runs
  Attempts,      \* REPORT_RETRIES
  MaxQueued,     \* MAX_QUEUED_PROMPTS
  Verdicts,      \* what the CLI's hooks report: Idle at launch, Working when
                 \* a turn starts, Done or NeedsAttention when it ends
  Guesses,       \* what the terminal output may lead the desktop to guess
  Endings,       \* how the session may end: "exit", "disconnect", "stop"
  None

(* A hook process is named for its turn and verdict; a report handler for
   its hook and the attempt it serves. *)
Hooks == ({0} \X (Verdicts \cap {"Idle"})) \cup ((1..MaxTurns) \X (Verdicts \ {"Idle"}))
Handlers == Hooks \X (1..Attempts)
HookOf(a) == a[1]
AttemptOf(a) == a[2]
TurnOf(a) == a[1][1]
Verdict(a) == a[1][2]

Prompts == Enqueuers \cup Typers
Threads == Prompts \cup Clearers \cup Handlers

ASSUME QueueAssumption ==
  /\ MaxTurns \in Nat
  /\ Attempts \in Nat \ {0}
  /\ MaxQueued \in Nat \ {0}
  /\ Verdicts \subseteq Lifecycles
  /\ Guesses \subseteq Lifecycles
  /\ Endings \subseteq {"exit", "disconnect", "stop"}
  /\ Enqueuers \cap Typers = {}
  /\ Prompts \cap Clearers = {}
  /\ (Prompts \cup Clearers) \cap Handlers = {}
  /\ None \notin Prompts

VARIABLES
  live,      \* the registry holds the session
  process,   \* the CLI process, as its wait thread sees it
  closed,    \* closed events published
  stopped,   \* stop_all has drained the registry
  ending,    \* progress of a disconnect command
  summary,   \* lifecycle half of the entry's summary
  queue,     \* queued_prompts
  depth,     \* summary.queued_prompts
  shown,     \* the depth of the last queue event
  typed,     \* every prompt written to the terminal, in order
  turn,      \* how many of them the CLI has read
  busy,      \* the CLI works on the one it read last
  hook,      \* each hook process
  tries,     \* reports it has attempted
  pc,        \* where each thread is
  local,     \* the prompt it types, what it read, the depth it publishes
  released   \* history: prompts the reports of a turn took from the queue

sessionVars == <<live, process, closed, stopped, ending>>
queueVars == <<queue, depth, shown>>
cliVars == <<typed, turn, busy>>
hookVars == <<hook, tries>>
vars == <<sessionVars, summary, queueVars, cliVars, hookVars, pc, local, released>>

Labels == {"idle", "choose", "push", "store", "tell", "report", "pop",
           "measure", "get", "write", "mark", "answer", "reject", "done", "failed"}
HookStates == {"unused", "sending", "waiting", "told", "gaveUp"}
Locals == [carry : Prompts \cup {None}, free : BOOLEAN, count : Nat]

TypeOK ==
  /\ live \in BOOLEAN /\ process \in {"running", "exited", "reaped"}
  /\ closed \in 0..1 /\ stopped \in BOOLEAN
  /\ ending \in {"idle", "terminated", "done"}
  /\ summary \in Summaries
  /\ queue \in Seq(Enqueuers) /\ depth \in Nat /\ shown \in Nat
  /\ typed \in Seq(Prompts) /\ turn \in 0..MaxTurns /\ busy \in BOOLEAN
  /\ hook \in [Hooks -> HookStates]
  /\ tries \in [Hooks -> 0..Attempts]
  /\ pc \in [Threads -> Labels]
  /\ local \in [Threads -> Locals]
  /\ released \in [0..MaxTurns -> Nat]

Fresh(t) == [carry |-> IF t \in Prompts THEN t ELSE None, free |-> FALSE, count |-> 0]

Init ==
  /\ live = TRUE /\ process = "running" /\ closed = 0 /\ stopped = FALSE
  /\ ending = "idle"
  /\ summary = Launched
  /\ queue = <<>> /\ depth = 0 /\ shown = 0
  /\ typed = <<>> /\ turn = 0 /\ busy = FALSE
  /\ hook = [h \in Hooks |-> IF h[1] = 0 THEN "sending" ELSE "unused"]
  /\ tries = [h \in Hooks |-> 0]
  /\ pc = [t \in Threads |-> "idle"]
  /\ local = [t \in Threads |-> Fresh(t)]
  /\ released = [n \in 0..MaxTurns |-> 0]

At(t, label) == pc[t] = label
Goto(t, label) == pc' = [pc EXCEPT ![t] = label]

(* A step that only moves its thread.  Locals that go out of scope go back to
   their initial value. *)
Moves(t, label) ==
  /\ Goto(t, label)
  /\ UNCHANGED <<sessionVars, summary, queueVars, cliVars, hookVars, local, released>>

(* The end of a delivery: a report handler still answers its hook, and
   answers "ok" whatever became of the prompt; a command returns. *)
After(t, outcome) == IF t \in Handlers THEN "answer" ELSE outcome

----------------------------------------------------------------------------
(* send_bytes: typing one prompt into the terminal.  agent_send starts     *)
(* here; enqueue and delivery arrive at "get".                             *)
Typing(t) == At(t, "get") \/ (t \in Typers /\ At(t, "idle"))

GetEntry(t) == Typing(t) /\ live /\ Moves(t, "write")

NoEntry(t) == Typing(t) /\ ~live /\ Moves(t, After(t, "failed"))

(* Under the writer lock; the CLI may read the prompt from here on. *)
Write(t) ==
  /\ At(t, "write") /\ process = "running"
  /\ typed' = Append(typed, local[t].carry)
  /\ Goto(t, "mark")
  /\ UNCHANGED <<sessionVars, summary, queueVars, turn, busy, hookVars, local,
                 released>>

WriteFails(t) ==
  At(t, "write") /\ process # "running" /\ Moves(t, After(t, "failed"))

(* mark_working_from_input, under the summary lock, after the write. *)
Mark(t) ==
  /\ At(t, "mark")
  /\ summary' = IF live THEN MarkWorking(summary, "Text") ELSE summary
  /\ Goto(t, After(t, "done"))
  /\ UNCHANGED <<sessionVars, queueVars, cliVars, hookVars, local, released>>

----------------------------------------------------------------------------
(* enqueue: reading the state, looking at the queue and pushing are three  *)
(* critical sections.                                                      *)
EnqueueReads(c) ==
  /\ At(c, "idle") /\ live
  /\ local' = [local EXCEPT ![c].free = Releases(summary)]
  /\ Goto(c, "choose")
  /\ UNCHANGED <<sessionVars, summary, queueVars, cliVars, hookVars, released>>

EnqueueNoSession(c) == At(c, "idle") /\ ~live /\ Moves(c, "failed")

EnqueueChooses(c) ==
  /\ At(c, "choose")
  /\ Goto(c, IF queue = <<>> /\ local[c].free THEN "get" ELSE "push")
  /\ local' = [local EXCEPT ![c].free = FALSE]
  /\ UNCHANGED <<sessionVars, summary, queueVars, cliVars, hookVars, released>>

QueueFull == Len(queue) >= MaxQueued

Push(c) ==
  /\ At(c, "push") /\ ~QueueFull
  /\ queue' = Append(queue, c)
  /\ local' = [local EXCEPT ![c].count = Len(queue) + 1]
  /\ Goto(c, "store")
  /\ UNCHANGED <<sessionVars, summary, depth, shown, cliVars, hookVars, released>>

PushRefused(c) == At(c, "push") /\ QueueFull /\ Moves(c, "failed")

(* store_queue_depth and the queue event, both after the queue unlocked. *)
StoreDepth(t) ==
  /\ At(t, "store")
  /\ depth' = IF live THEN local[t].count ELSE depth
  /\ Goto(t, "tell")
  /\ UNCHANGED <<sessionVars, summary, queue, shown, cliVars, hookVars, local,
                 released>>

TellAndReturn(t) ==     \* mutant: the delivery ends when the depth is published
  /\ At(t, "tell")
  /\ shown' = local[t].count
  /\ local' = [local EXCEPT ![t].count = 0]
  /\ Goto(t, After(t, "done"))
  /\ UNCHANGED <<sessionVars, summary, queue, depth, cliVars, hookVars, released>>

TellDepth(t) ==
  /\ At(t, "tell")
  /\ shown' = local[t].count
  /\ local' = [local EXCEPT ![t].count = 0]
  /\ Goto(t, IF t \in Handlers THEN "get" ELSE "done")
  /\ UNCHANGED <<sessionVars, summary, queue, depth, cliVars, hookVars, released>>

(* clear_queue, which publishes a depth of zero. *)
ClearQueue(k) ==
  /\ At(k, "idle") /\ live
  /\ queue' = <<>>
  /\ Goto(k, "store")
  /\ UNCHANGED <<sessionVars, summary, depth, shown, cliVars, hookVars, local,
                 released>>

ClearNoSession(k) == At(k, "idle") /\ ~live /\ Moves(k, "failed")

----------------------------------------------------------------------------

(* send_report: a hook process connects, and tries again when it is turned *)
(* away (eight reports at a time), when nothing answers within             *)
(* REPORT_TIMEOUT and when the answer is an error.  The handler of an      *)
(* earlier attempt may still be running, or may have finished.             *)
Again(n) == IF n < Attempts THEN "sending" ELSE "gaveUp"

Attempting(h) ==
  /\ hook[h] = "sending" /\ tries[h] < Attempts
  /\ tries' = [tries EXCEPT ![h] = @ + 1]

HookSends(h) ==
  /\ Attempting(h)
  /\ hook' = [hook EXCEPT ![h] = "waiting"]
  /\ Goto(<<h, tries[h] + 1>>, "report")
  /\ UNCHANGED <<sessionVars, summary, queueVars, cliVars, local, released>>

HookTurnedAway(h) ==
  /\ Attempting(h)
  /\ hook' = [hook EXCEPT ![h] = Again(tries[h] + 1)]
  /\ UNCHANGED <<sessionVars, summary, queueVars, cliVars, pc, local, released>>

HookTimesOut(h) ==
  /\ hook[h] = "waiting"
  /\ hook' = [hook EXCEPT ![h] = Again(tries[h])]
  /\ UNCHANGED <<sessionVars, summary, queueVars, cliVars, tries, pc, local,
                 released>>

----------------------------------------------------------------------------
(* handle_report_connection: update_reported_state, then, if the report    *)
(* changed the state and the session came free, deliver_next_queued.       *)
Report(a) ==
  /\ At(a, "report") /\ live
  /\ summary' = UpdateState(summary, Verdict(a), "Integration")
  /\ Goto(a, IF summary' # summary /\ Releases(summary') THEN "pop" ELSE "answer")
  /\ UNCHANGED <<sessionVars, queueVars, cliVars, hookVars, local, released>>

ReportRejected(a) == At(a, "report") /\ ~live /\ Moves(a, "reject")

PopPeeks(a) ==      \* mutant: the prompt is read but never removed
  /\ At(a, "pop") /\ live /\ queue # <<>>
  /\ local' = [local EXCEPT ![a].carry = Head(queue)]
  /\ released' = [released EXCEPT ![TurnOf(a)] = @ + 1]
  /\ Goto(a, "measure")
  /\ UNCHANGED <<sessionVars, summary, queueVars, cliVars, hookVars>>

Pop(a) ==
  /\ At(a, "pop") /\ live /\ queue # <<>>
  /\ local' = [local EXCEPT ![a].carry = Head(queue)]
  /\ queue' = Tail(queue)
  /\ released' = [released EXCEPT ![TurnOf(a)] = @ + 1]
  /\ Goto(a, "measure")
  /\ UNCHANGED <<sessionVars, summary, depth, shown, cliVars, hookVars>>

PopNothing(a) == At(a, "pop") /\ (~live \/ queue = <<>>) /\ Moves(a, "answer")

Measure(a) ==
  /\ At(a, "measure")
  /\ local' = [local EXCEPT ![a].count = Len(queue)]
  /\ Goto(a, "store")
  /\ UNCHANGED <<sessionVars, summary, queueVars, cliVars, hookVars, released>>

(* write_report_response: it reaches the hook only if that still waits. *)
Answers(a, label, outcome) ==
  LET h == HookOf(a) IN
  /\ At(a, label)
  /\ Goto(a, "done")
  /\ hook' = IF hook[h] = "waiting" /\ tries[h] = AttemptOf(a)
             THEN [hook EXCEPT ![h] = outcome] ELSE hook
  /\ local' = [local EXCEPT ![a] = Fresh(a)]
  /\ UNCHANGED <<sessionVars, summary, queueVars, cliVars, tries, released>>

Answer(a) == Answers(a, "answer", "told")

Reject(a) == Answers(a, "reject", Again(AttemptOf(a)))

----------------------------------------------------------------------------
(* The CLI, external, and the guesses its terminal output leads to.        *)
CliReads ==
  /\ process = "running" /\ ~busy /\ turn < Len(typed) /\ turn < MaxTurns
  /\ turn' = turn + 1
  /\ busy' = TRUE
  /\ hook' = IF "Working" \in Verdicts
             THEN [hook EXCEPT ![<<turn + 1, "Working">>] = "sending"] ELSE hook
  /\ UNCHANGED <<sessionVars, summary, queueVars, typed, tries, pc, local, released>>

CliFinishes ==
  /\ process = "running" /\ busy
  /\ busy' = FALSE
  /\ \E verdict \in Verdicts \cap {"Done", "NeedsAttention"} :
       hook' = [hook EXCEPT ![<<turn, verdict>>] = "sending"]
  /\ UNCHANGED <<sessionVars, summary, queueVars, typed, turn, tries, pc, local,
                 released>>

CliExits ==
  /\ process = "running" /\ "exit" \in Endings
  /\ process' = "exited"
  /\ UNCHANGED <<live, closed, stopped, ending, summary, queueVars, cliVars,
                 hookVars, pc, local, released>>

Guess ==
  /\ live
  /\ \E next \in Guesses : summary' = UpdateState(summary, next, "Heuristic")
  /\ UNCHANGED <<sessionVars, queueVars, cliVars, hookVars, pc, local, released>>

----------------------------------------------------------------------------
(* The end of a session.  The wait thread and a disconnect command both    *)
(* remove it, and the one that did publishes it; stop_all drains the       *)
(* registry in silence.                                                    *)
RemoveTwice ==       \* mutant: published without looking at what was removed
  /\ live' = FALSE
  /\ closed' = closed + 1

Remove ==
  /\ live' = FALSE
  /\ closed' = IF live THEN closed + 1 ELSE closed

WaitReturns ==
  /\ process = "exited"
  /\ Remove
  /\ process' = "reaped"
  /\ UNCHANGED <<stopped, ending, summary, queueVars, cliVars, hookVars, pc, local,
                 released>>

DisconnectTerminates ==
  /\ ending = "idle" /\ live /\ "disconnect" \in Endings
  /\ ending' = "terminated"
  /\ UNCHANGED <<live, process, closed, stopped, summary, queueVars, cliVars,
                 hookVars, pc, local, released>>

DisconnectRemoves ==
  /\ ending = "terminated"
  /\ Remove
  /\ ending' = "done"
  /\ UNCHANGED <<process, stopped, summary, queueVars, cliVars, hookVars, pc, local,
                 released>>

StopAll ==
  /\ live /\ "stop" \in Endings
  /\ live' = FALSE
  /\ stopped' = TRUE
  /\ UNCHANGED <<process, closed, ending, summary, queueVars, cliVars, hookVars,
                 pc, local, released>>

----------------------------------------------------------------------------
Enqueue(c) ==
  EnqueueReads(c) \/ EnqueueNoSession(c) \/ EnqueueChooses(c) \/ Push(c) \/ PushRefused(c)

Clear(k) == ClearQueue(k) \/ ClearNoSession(k)

Deliver(t) ==
  \/ StoreDepth(t) \/ TellDepth(t)
  \/ GetEntry(t) \/ NoEntry(t) \/ Write(t) \/ WriteFails(t) \/ Mark(t)

HookStep(h) == HookSends(h) \/ HookTurnedAway(h) \/ HookTimesOut(h)

Handle(a) ==
  \/ Report(a) \/ ReportRejected(a)
  \/ Pop(a) \/ PopNothing(a) \/ Measure(a)
  \/ Answer(a) \/ Reject(a)

Cli == CliReads \/ CliFinishes \/ CliExits \/ Guess

End == WaitReturns \/ DisconnectTerminates \/ DisconnectRemoves \/ StopAll

Next ==
  \/ \E c \in Enqueuers : Enqueue(c)
  \/ \E k \in Clearers : Clear(k)
  \/ \E t \in Threads : Deliver(t)
  \/ \E h \in Hooks : HookStep(h)
  \/ \E a \in Handlers : Handle(a)
  \/ Cli
  \/ End

Spec == Init /\ [][Next]_vars

(* Every thread and hook process that can take a step takes one: no lock is
   held across a step, and the terminal accepts what is written to it.  The
   CLI, the user and the guesses owe nothing. *)
Fairness ==
  /\ \A c \in Enqueuers : WF_vars(At(c, "idle") = FALSE /\ Enqueue(c))
  /\ \A t \in Threads : WF_vars(At(t, "idle") = FALSE /\ Deliver(t))
  /\ \A h \in Hooks : WF_vars(HookStep(h))
  /\ \A a \in Handlers : WF_vars(Handle(a))

FairSpec == Spec /\ Fairness

----------------------------------------------------------------------------
(* The queue never holds more than MAX_QUEUED_PROMPTS, whatever the number
   of commands that found room in it (test a_queue_is_bounded_and_can_be_
   dropped drives one command at a time). *)
QueueBounded == Len(queue) <= MaxQueued

(* The closed event is published exactly once for a session that ended, by
   whichever of the wait thread and the disconnect removed it, and never for
   one that stop_all drained. *)
ClosedOnce == closed = IF live \/ stopped THEN 0 ELSE 1

(* Only a prompt that was really submitted takes an official verdict away;
   no guess does, whatever the reader, the settle check and the watchdog read
   before the report arrived (update_state, mark_working_from_input). *)
VerdictStands ==
  [][summary.source = "Integration" /\ summary'.source = "Heuristic"
       => \E t \in Threads : At(t, "mark") /\ summary'.state = "Working" /\ pc' # pc]_vars

(* Where each queued prompt is, for AgentPromptLine. *)
InSeq(p, s) == \E i \in DOMAIN s : s[i] = p

Holds(t, p) ==
  /\ local[t].carry = p
  /\ IF t \in Handlers THEN pc[t] \in {"measure", "store", "tell", "get", "write"}
                       ELSE pc[t] \in {"get", "write"}

Fate(p) ==
  CASE InSeq(p, typed) -> "typed"
    [] InSeq(p, queue) -> "waiting"
    [] \E t \in Threads : Holds(t, p) -> "taken"
    [] pc[p] \in {"idle", "choose", "push"} -> "offered"
    [] OTHER -> "dropped"

(* A prompt that was taken from the queue, or never had to wait, is typed
   unless the session ends first: nothing between the queue and the terminal
   drops it (deliver_next_queued, send_bytes). *)
TakenIsTyped ==
  \A p \in Enqueuers :
    Fate(p) = "taken" ~> (Fate(p) = "typed" \/ ~live \/ process # "running")

PromptLine == INSTANCE AgentPromptLine
  WITH Prompts <- Enqueuers, fate <- [p \in Enqueuers |-> Fate(p)], line <- queue

(* Every queued prompt has one fate: it is typed at most once, leaves the
   line only from its head or with all the others, and is never lost between
   the queue and the terminal, under any interleaving of commands, repeated
   reports and the end of the session. *)
PromptLineSpec == PromptLine!Spec

----------------------------------------------------------------------------
(* Claims of the code's comments and documentation that the runs refute.   *)

(* "One turn end releases exactly one prompt, so a queue cannot empty itself
   into a CLI that has only reported finishing once." *)
OneReleasePerTurnEnd == \A n \in 0..MaxTurns : released[n] <= 1
=============================================================================
