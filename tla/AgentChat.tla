------------------------------ MODULE AgentChat ------------------------------
(***************************************************************************)
(* The agent conversations (src-tauri/src/agent_chat.rs with the chat      *)
(* window of src/app/useAgentChat.ts): a Claude process for each turn,     *)
(* behind a gate that lets one of them start at a time, its retries when   *)
(* the login is busy, and the Codex servers of CodexServer; and what a     *)
(* person does with the threads: send, stop, answer, hand over to another  *)
(* CLI, remove, reload the window.                                         *)
(*                                                                         *)
(* A hand-over to another account changes nothing that is kept here: the    *)
(* next turn finds the server of the thread whatever account it was started *)
(* under.  Gemini takes Claude's path without the gate and is left out.  The       *)
(* window applies an event when it is sent.                                *)
(***************************************************************************)
EXTENDS CodexServer

CONSTANTS
    ModelProbe,     \* list_models, as the holder of the gate
    Retries,        \* CLAUDE_OAUTH_RETRY_DELAYS_MS.len()
    MaxMoves        \* bound: hand-overs, removals, reloads and probes in a behaviour

ASSUME AgentChatAssumption ==
    /\ ModelProbe \notin Turns /\ ModelProbe # None
    /\ Retries \in Nat /\ MaxMoves \in Nat

CLIs == {"claude", "codex"}

VARIABLES
    cli,            \* the thread's definitionId
    removed,        \* the threads deleted in the window
    lost,           \* the turns a reload of the window has forgotten
    moves,
    gate,           \* who holds claude_startup: a turn, or the model probe
    probe,          \* a model probe runs
    running,        \* AgentChatRegistry.running: the turn of each thread
    claude,         \* the Claude process of each turn
    said,           \* what it has said
    tries           \* the retries of each turn

windowVars == <<cli, removed, lost, moves>>
claudeVars == <<gate, probe, running, claude, said, tries>>
vars == <<work, ended, codexVars, cards, asked, windowVars, claudeVars>>

TypeOK ==
    /\ work \in [Turns -> {"no", "reap", "look", "dead", "spawn", "insert", "opening", "write",
                           "gate", "claim", "run", "left", "sleep", "err", "done"}]
    /\ ended \in [Turns -> Nat]
    /\ server \in [Threads -> Turns \cup {None}]
    /\ proc \in [Turns -> {None, "up", "killed", "gone", "read"}]
    /\ active \in [Turns -> Turns \cup {None}]
    /\ stopping \in [Turns -> {None, "grace", "kill"}]
    /\ running \in [Threads -> Turns \cup {None}]
    /\ claude \in [Turns -> {None, "up", "killed", "gone"}]
    /\ gate \in Turns \cup {None, ModelProbe}
    /\ tries \in [Turns -> 0..Retries]

Init ==
    /\ CodexInit
    /\ work = [t \in Turns |-> "no"] /\ ended = [t \in Turns |-> 0]
    /\ cards = {} /\ asked = {}
    /\ cli \in [Threads -> CLIs]
    /\ removed = {} /\ lost = {} /\ moves = 0
    /\ gate = None /\ probe = FALSE
    /\ running = [h \in Threads |-> None]
    /\ claude = [t \in Turns |-> None]
    /\ said = [t \in Turns |-> {}]
    /\ tries = [t \in Turns |-> 0]

----------------------------------------------------------------------------
(* The window *)

\* runningTurnId: a turn was sent and the window has not heard of its end.
Awaits(t) == work[t] \notin {"no", "err"} /\ t \notin lost /\ ended[t] = 0
Free(h) == h \notin removed /\ \A t \in Turns : threadOf[t] = h => ~Awaits(t)
FirstUnsent(t) == \A u \in Turns : threadOf[u] = threadOf[t] /\ u < t => work[u] # "no"

Send(t) ==
    /\ work[t] = "no" /\ FirstUnsent(t) /\ Free(threadOf[t])
    /\ Goto(t, IF cli[threadOf[t]] = "codex" THEN "reap" ELSE "gate")
    /\ UNCHANGED <<ended, codexVars, cards, asked, claudeVars, windowVars>>

\* handoffThread: the thread keeps its id.
Handoff(h) ==
    /\ moves < MaxMoves /\ moves' = moves + 1 /\ Free(h)
    /\ \E c \in CLIs \ {cli[h]} : cli' = [cli EXCEPT ![h] = c]
    /\ UNCHANGED <<work, ended, codexVars, cards, asked, claudeVars, removed, lost>>

\* Running turns do not survive a reload of the window, their processes do.
Reload ==
    /\ moves < MaxMoves /\ moves' = moves + 1
    /\ lost' = lost \cup {t \in Turns : Awaits(t)}
    /\ UNCHANGED <<work, ended, codexVars, cards, asked, claudeVars, cli, removed>>

KillClaude(h) ==
    /\ claude' = [t \in Turns |-> IF t = running[h] /\ claude[t] = "up" THEN "killed" ELSE claude[t]]
    /\ cards' = cards \ {running[h]}

\* AgentChatRegistry::stop: the turn of the thread's Codex server, or else its
\* Claude turn.  A second stop of a Codex turn changes nothing more and is left out.
Stop(h) ==
    \/ \E t \in InFlight(h) \ stopped :
        /\ StopTurn(t)
        /\ UNCHANGED <<claudeVars, windowVars>>
    \/ /\ InFlight(h) = {} /\ running[h] # None
       /\ KillClaude(h)
       /\ UNCHANGED <<work, ended, codexVars, asked, windowVars, gate, probe, running, said,
                      tries>>

\* agent_chat_close: the turn is stopped, and a server is ended at once.
Remove(h) ==
    /\ moves < MaxMoves /\ moves' = moves + 1
    /\ h \notin removed /\ removed' = removed \cup {h}
    /\ IF InFlight(h) # {} THEN UNCHANGED <<claude, cards>> ELSE KillClaude(h)
    /\ stopped' = stopped \cup InFlight(h)
    /\ stopping' = [t \in Turns |-> IF t \in InFlight(h) /\ stopping[t] = None
                                       /\ opened[on[t]] /\ named[on[t]]
                                    THEN "grace" ELSE stopping[t]]
    /\ CloseServer(h)
    /\ UNCHANGED <<threadOf, work, ended, doomed, on, opened, queued, active, named, given, idle, asked,
                   cli, lost, gate, probe, running, said,
                   tries>>

\* respond: an idle Codex server of the thread hides the turn of Claude.
Respond(t) ==
    /\ t \in cards /\ Awaits(t)
    /\ IF server[threadOf[t]] # None THEN t \in InFlight(threadOf[t])
                                     ELSE running[threadOf[t]] = t
    /\ cards' = cards \ {t}
    /\ UNCHANGED <<work, ended, codexVars, asked, windowVars, claudeVars>>

\* agent_chat_models, behind the gate from its start to its end.
Probe ==
    /\ \/ /\ moves < MaxMoves /\ moves' = moves + 1
          /\ ~probe /\ gate = None /\ probe' = TRUE /\ gate' = ModelProbe
       \/ probe /\ probe' = FALSE /\ gate' = None /\ UNCHANGED moves
    /\ UNCHANGED <<work, ended, codexVars, cards, asked, cli, removed, lost,
                   running, claude, said, tries>>

----------------------------------------------------------------------------
(* send_with_retry for Claude *)

Release(t) == gate' = IF gate = t THEN None ELSE gate

\* The first attempt answers its call, a retry ends the turn.
Refused(t) ==
    IF tries[t] = 0 THEN Goto(t, "err") /\ UNCHANGED ended
                    ELSE Goto(t, "done") /\ Finished(t)

\* The gate opens and the process starts, or does not.
TakeGate(t) ==
    /\ work[t] = "gate" /\ gate = None
    /\ gate' = t /\ claude' = [claude EXCEPT ![t] = "up"]
    /\ Goto(t, "claim")
    /\ UNCHANGED <<ended, codexVars, cards, asked, windowVars, probe, running, said, tries>>

StartFails(t) ==
    /\ work[t] = "gate" /\ gate = None
    /\ Refused(t)
    /\ UNCHANGED <<codexVars, cards, asked, windowVars, claudeVars>>

\* "This conversation is still answering."
ClaimFails(t) ==
    /\ work[t] = "claim" /\ running[threadOf[t]] # None
    /\ claude' = [claude EXCEPT ![t] = None]
    /\ Refused(t) /\ Release(t)
    /\ UNCHANGED <<codexVars, cards, asked, windowVars, probe, running, said, tries>>

\* Mutant: the guard of the gate ends with the call.
ClaimOpensGate(t) ==
    /\ work[t] = "claim" /\ running[threadOf[t]] = None
    /\ running' = [running EXCEPT ![threadOf[t]] = t]
    /\ Goto(t, "run") /\ Release(t)
    /\ UNCHANGED <<ended, codexVars, cards, asked, windowVars, probe, claude, said, tries>>

Claim(t) ==
    /\ work[t] = "claim" /\ running[threadOf[t]] = None
    /\ running' = [running EXCEPT ![threadOf[t]] = t]
    /\ Goto(t, "run")
    /\ UNCHANGED <<ended, codexVars, cards, asked, windowVars, gate, probe, claude, said, tries>>

Talks(t) == work[t] = "run" /\ claude[t] \in {"up", "killed"} /\ "result" \notin said[t]

\* The initialization event opens the gate for the next process.
Started(t) ==
    /\ Talks(t) /\ "init" \notin said[t]
    /\ said' = [said EXCEPT ![t] = @ \cup {"init"}]
    /\ Release(t)
    /\ UNCHANGED <<work, ended, codexVars, cards, asked, windowVars, probe, running, claude, tries>>

\* Text, tool calls, a request for an approval.
Progress(t) ==
    /\ Talks(t) /\ "init" \in said[t]
    /\ said' = [said EXCEPT ![t] = @ \cup {"progress"}]
    /\ \/ UNCHANGED <<cards, asked>>
       \/ /\ t \notin asked /\ asked' = asked \cup {t}
          /\ cards' = IF running[threadOf[t]] = t THEN cards \cup {t} ELSE cards
    /\ UNCHANGED <<work, ended, codexVars, windowVars, gate, probe, running, claude, tries>>

\* The result of the turn, good or bad; its input is closed.
Result(t) ==
    /\ Talks(t)
    /\ \E how \in {{"result"}, {"result", "busy"}} : said' = [said EXCEPT ![t] = @ \cup how]
    /\ cards' = cards \ {t}
    /\ UNCHANGED <<work, ended, codexVars, asked, windowVars, gate, probe, running, claude, tries>>

Exits(t) ==
    /\ work[t] = "run" /\ claude[t] \in {"up", "killed"}
    /\ claude' = [claude EXCEPT ![t] = "gone"]
    /\ UNCHANGED <<work, ended, codexVars, cards, asked, windowVars, gate, probe, running, said, tries>>

\* No more lines: the thread is free for the next turn.
Leave(t) ==
    /\ work[t] = "run" /\ claude[t] = "gone"
    /\ running' = [running EXCEPT ![threadOf[t]] = IF @ = t THEN None ELSE @]
    /\ cards' = cards \ {t} /\ asked' = asked \ {t}
    /\ Goto(t, "left")
    /\ UNCHANGED <<ended, codexVars, windowVars, gate, probe, claude, said, tries>>

\* should_retry_claude_oauth
ShouldRetry(t) == "progress" \notin said[t] /\ "busy" \in said[t] /\ tries[t] < Retries

Retry(t) ==
    /\ work[t] = "left" /\ ShouldRetry(t) /\ Goto(t, "sleep")
    /\ Release(t)
    /\ UNCHANGED <<ended, codexVars, cards, asked, windowVars, probe, running, claude, said, tries>>

Resend(t) ==
    /\ work[t] = "sleep" /\ Goto(t, "gate")
    /\ tries' = [tries EXCEPT ![t] = @ + 1]
    /\ said' = [said EXCEPT ![t] = {}]
    /\ claude' = [claude EXCEPT ![t] = None]
    /\ UNCHANGED <<ended, codexVars, cards, asked, windowVars, gate, probe, running>>

End(t) ==
    /\ work[t] = "left" /\ ~ShouldRetry(t) /\ Goto(t, "done")
    /\ Finished(t) /\ Release(t)
    /\ said' = [said EXCEPT ![t] = {}]
    /\ UNCHANGED <<codexVars, cards, asked, windowVars, probe, running, claude, tries>>

----------------------------------------------------------------------------
GoesOn ==
    \/ CodexGoesOn /\ UNCHANGED <<windowVars, claudeVars>>
    \/ \E t \in Turns :
        \/ TakeGate(t) \/ ClaimFails(t) \/ Claim(t) \/ Leave(t)
        \/ Retry(t) \/ Resend(t) \/ End(t)
        \/ claude[t] = "killed" /\ Exits(t)

May ==
    \/ CodexMay /\ UNCHANGED <<windowVars, claudeVars>>
    \/ \E t \in Turns :
        \/ StartFails(t) \/ Started(t) \/ Progress(t) \/ Result(t)
        \/ claude[t] = "up" /\ Exits(t)
        \/ Send(t) \/ Respond(t)
    \/ \E h \in {threadOf[t] : t \in Turns} : Handoff(h) \/ Stop(h) \/ Remove(h)
    \/ Reload \/ Probe

Next == GoesOn \/ May

\* The tasks of the app go on, and a killed process ends; the CLIs, the
\* person and the window may do nothing more.
Spec == Init /\ [][Next]_vars /\ WF_vars(GoesOn)

----------------------------------------------------------------------------
(* Properties *)

\* Every app-server that lives is the one its thread knows (or is about to be
\* entered), so that a stop, a removal or the end of the app reaches it: sends
\* that race after a reload, reaping and failed writes leave none behind.
NoStray == \A s \in Turns : proc[s] = "up" => server[threadOf[s]] = s \/ work[s] = "insert"

\* A turn the window waits for is worked on: its send is under way, or it is
\* the active turn of a server whose reader has not ended and will report it.
NothingLost ==
    \A t \in Turns : Awaits(t) =>
        \/ work[t] # "done"
        \/ \E s \in Turns : active[s] = t /\ proc[s] # "read"

\* The end of a turn is reported once, whatever of a completion, a refusal, an
\* interrupt, the end of a process and a retry come together.
FinishedOnce == \A t \in Turns : ended[t] <= 1

\* A turn is neither lost nor ended twice.
TurnsAnswered == NothingLost /\ FinishedOnce

\* Of the Claude processes and the model probe one at a time is in its login,
\* and the gate is held by one that still starts, so that it opens again.
Starting == {t \in Turns : work[t] \in {"claim", "run"} /\ claude[t] = "up"
                           /\ said[t] = {}} \cup {p \in {ModelProbe} : probe}
StartupGate ==
    /\ Starting \subseteq {gate}
    /\ gate \in Turns => work[gate] \in {"claim", "run", "left"}

\* A Codex turn that a stop was told of ends: it is interrupted, or killed when
\* it cannot be addressed yet or does not answer in time.
StopEnds == <>[](\A s \in Turns : active[s] \notin stopped)
=============================================================================
