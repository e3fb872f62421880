----------------------------- MODULE CodexServer -----------------------------
(***************************************************************************)
(* The app-servers of Codex, one kept per chat thread from turn to turn    *)
(* (src-tauri/src/agent_chat/codex_server.rs): the map of servers, the     *)
(* state each guards with its lock, the task that reads its lines, and the *)
(* calls of the chat that use it.                                          *)
(*                                                                         *)
(* A server is named by the turn that started it.  What Codex says is      *)
(* reduced to the lines that change a state: its thread is opened or       *)
(* refused, a turn is named, refused, asks for an approval or completes.   *)
(* Every critical section is a step of its own.  AgentChat composes this   *)
(* module with the rest of the chat.                                       *)
(***************************************************************************)
EXTENDS Naturals, FiniteSets

CONSTANTS
    Turns,          \* the turns a person can send
    Threads,        \* the conversations
    None,           \* no turn, no server, no process
    ThreadOpen      \* what a new server works on: RpcPurpose::ThreadOpen

ASSUME CodexServerAssumption ==
    /\ Turns \subseteq Nat /\ IsFiniteSet(Turns)
    /\ None \notin Turns /\ ThreadOpen \notin Turns /\ None # ThreadOpen
    /\ None \notin {"up", "killed", "gone", "read", "grace", "kill"}

VARIABLES
    threadOf,   \* the conversation each turn belongs to; it never changes
    work,       \* where send stands, for each turn
    ended,      \* how many Finished events each turn has had
    doomed,     \* the threads whose idle servers the send of a turn closes
    on,         \* the server each turn was given to
    server,     \* CodexServers.servers: the server of each thread
    proc,       \* the process of each server; "read": its reader has ended
    exited, opened, queued, active, named,  \* the ServerState of each server
    given,      \* what a process works on: its thread to open, or a turn
    idle,       \* nothing happened on the server for IDLE_TIMEOUT
    cards,      \* the turns with an approval waiting for its answer
    asked,      \* the turns that have asked for one
    stopping,   \* the interrupt task of each turn
    stopped     \* the turns in flight that a stop was told of

lockState == <<exited, opened, queued, active, named>>
codexVars == <<doomed, threadOf, on, server, proc, lockState, given, idle, stopping, stopped>>

Goto(t, to) == work' = [work EXCEPT ![t] = to]

Finished(t) == ended' = [ended EXCEPT ![t] = @ + 1]

\* kill_turn: what the process has written can still be read.
Kills(S) == proc' = [s \in Turns |-> IF s \in S /\ proc[s] = "up" THEN "killed" ELSE proc[s]]

\* CodexServers::close, whatever server the thread has by now.
Registered(h) == {server[h]} \ {None}
CloseServer(h) ==
    /\ server' = [server EXCEPT ![h] = None]
    /\ exited' = [s \in Turns |-> exited[s] \/ s \in Registered(h)]
    /\ Kills(Registered(h))

CodexInit ==
    /\ threadOf \in [Turns -> Threads]
    /\ doomed = [t \in Turns |-> {}]
    /\ on = [t \in Turns |-> None]
    /\ server = [h \in Threads |-> None]
    /\ proc = [s \in Turns |-> None]
    /\ exited = [s \in Turns |-> FALSE] /\ opened = [s \in Turns |-> FALSE]
    /\ queued = [s \in Turns |-> FALSE] /\ named = [s \in Turns |-> FALSE]
    /\ active = [s \in Turns |-> None]
    /\ given = [s \in Turns |-> None]
    /\ idle = [s \in Turns |-> FALSE]
    /\ stopping = [t \in Turns |-> None] /\ stopped = {}

----------------------------------------------------------------------------
(* send_turn *)

\* reap_idle collects the threads whose servers have been idle for too long ...
Reap(t) ==
    /\ work[t] = "reap" /\ Goto(t, "look")
    /\ doomed' = [doomed EXCEPT ![t] =
           {h \in Threads : \E s \in Registered(h) :
               active[s] = None /\ ~queued[s] /\ idle[s]}]
    /\ UNCHANGED <<threadOf, ended, on, server, proc, lockState, given, idle, cards, asked,
                   stopping, stopped>>

\* ... and closes the servers of these threads one after the other.
ReapNext(t, h) ==
    /\ work[t] = "look" /\ h \in doomed[t]
    /\ doomed' = [doomed EXCEPT ![t] = @ \ {h}]
    /\ CloseServer(h)
    /\ UNCHANGED <<threadOf, work, ended, on, opened, queued, active, named, given, idle, cards,
                   asked,
                   stopping, stopped>>

Looks(t) == work[t] = "look" /\ doomed[t] = {}

\* The thread has no server, or one that has ended.
Misses(t) ==
    /\ Looks(t)
    /\ \/ server[threadOf[t]] = None /\ Goto(t, "spawn")
       \/ \E s \in Registered(threadOf[t]) : exited[s] /\ Goto(t, "dead")
    /\ UNCHANGED <<ended, codexVars, cards, asked>>

CloseDead(t) ==
    /\ work[t] = "dead" /\ Goto(t, "spawn")
    /\ CloseServer(threadOf[t])
    /\ UNCHANGED <<threadOf, ended, doomed, on, opened, queued, active, named, given, idle,
                   cards, asked,
                   stopping, stopped>>

\* "This conversation is still answering."
Answering(t) ==
    /\ Looks(t)
    /\ \E s \in Registered(threadOf[t]) : ~exited[s] /\ (active[s] # None \/ queued[s])
    /\ Goto(t, "err")
    /\ UNCHANGED <<ended, codexVars, cards, asked>>

\* The server of the thread is free: the turn is its next one.
Reuse(t, s) ==
    /\ Looks(t) /\ server[threadOf[t]] = s
    /\ ~exited[s] /\ active[s] = None /\ ~queued[s]
    /\ active' = [active EXCEPT ![s] = t]
    /\ named' = [named EXCEPT ![s] = FALSE]
    /\ idle' = [idle EXCEPT ![s] = FALSE]
    /\ on' = [on EXCEPT ![t] = s]
    /\ Goto(t, "write")
    /\ UNCHANGED <<threadOf, ended, doomed, server, proc, exited, opened, queued, given, cards,
                   asked,
                   stopping, stopped>>

\* turn/start; a process that was killed may still be written to.
WriteTurn(t) ==
    /\ work[t] = "write" /\ Goto(t, "done")
    /\ given' = [given EXCEPT ![on[t]] = IF proc[on[t]] = "up" THEN t ELSE @]
    /\ UNCHANGED <<threadOf, ended, doomed, on, server, proc, lockState, idle, cards, asked,
                   stopping, stopped>>

WriteTurnFails(t) ==
    /\ work[t] = "write" /\ proc[on[t]] # "up" /\ Goto(t, "err")
    /\ active' = [active EXCEPT ![on[t]] = None]
    /\ named' = [named EXCEPT ![on[t]] = FALSE]
    /\ cards' = cards \ {t} /\ asked' = asked \ {t} /\ stopped' = stopped \ {t}
    /\ CloseServer(threadOf[t])
    /\ UNCHANGED <<threadOf, ended, doomed, on, opened, queued, given, idle, stopping>>

\* A new server, whose first turn waits for its thread; or codex does not start.
Spawn(t) ==
    /\ work[t] = "spawn" /\ Goto(t, "insert")
    /\ proc' = [proc EXCEPT ![t] = "up"]
    /\ active' = [active EXCEPT ![t] = t]
    /\ queued' = [queued EXCEPT ![t] = TRUE]
    /\ on' = [on EXCEPT ![t] = t]
    /\ UNCHANGED <<threadOf, ended, doomed, server, exited, opened, named, given, idle, cards,
                   asked, stopping, stopped>>

SpawnFails(t) ==
    /\ work[t] = "spawn" /\ Goto(t, "err")
    /\ UNCHANGED <<ended, codexVars, cards, asked>>

\* Mutant: the server that was there is forgotten and lives on.
InsertKeepsOld(t) ==
    /\ work[t] = "insert" /\ Goto(t, "opening")
    /\ server' = [server EXCEPT ![threadOf[t]] = t]
    /\ UNCHANGED <<threadOf, ended, doomed, on, proc, lockState, given, idle, cards, asked,
                   stopping, stopped>>

\* From here the reader of the new server runs.
Insert(t) ==
    /\ work[t] = "insert" /\ Goto(t, "opening")
    /\ Kills(Registered(threadOf[t]))
    /\ server' = [server EXCEPT ![threadOf[t]] = t]
    /\ UNCHANGED <<threadOf, ended, doomed, on, lockState, given, idle, cards, asked, stopping,
                   stopped>>

WriteOpening(t) ==
    /\ work[t] = "opening" /\ Goto(t, "done")
    /\ given' = [given EXCEPT ![t] = IF proc[t] = "up" THEN ThreadOpen ELSE @]
    /\ UNCHANGED <<threadOf, ended, doomed, on, server, proc, lockState, idle, cards, asked,
                   stopping, stopped>>

WriteOpeningFails(t) ==
    /\ work[t] = "opening" /\ proc[t] # "up" /\ Goto(t, "err")
    /\ CloseServer(threadOf[t])
    /\ UNCHANGED <<threadOf, ended, doomed, on, opened, queued, active, named, given, idle,
                   cards, asked,
                   stopping, stopped>>

----------------------------------------------------------------------------
(* The process of a server, and the task that reads its lines *)

\* A line on what the process works on; lines of a killed process come late.
Says(s, what) == given[s] = what /\ what # None /\ proc[s] \in {"up", "killed"}

\* A turn has ended: the lock gives it up and the window hears of it.
TakesActive(s) ==
    /\ active' = [active EXCEPT ![s] = None]
    /\ named' = [named EXCEPT ![s] = FALSE]
    /\ cards' = cards \ {active[s]} /\ asked' = asked \ {active[s]}
    /\ stopped' = stopped \ {active[s]}
    /\ IF active[s] = None THEN UNCHANGED ended ELSE Finished(active[s])

Opened(s) ==
    /\ Says(s, ThreadOpen)
    /\ opened' = [opened EXCEPT ![s] = TRUE]
    /\ queued' = [queued EXCEPT ![s] = FALSE]
    /\ given' = [given EXCEPT ![s] = IF queued[s] /\ proc[s] = "up" THEN active[s] ELSE None]
    /\ idle' = [idle EXCEPT ![s] = FALSE]
    /\ UNCHANGED <<threadOf, work, ended, doomed, on, server, proc, exited, active, named, cards,
                   asked,
                   stopping, stopped>>

\* Mutant: the turn is dropped and nobody is told.
RefusesSilently(s) ==
    /\ Says(s, ThreadOpen) /\ Kills({s})
    /\ active' = [active EXCEPT ![s] = None]
    /\ queued' = [queued EXCEPT ![s] = FALSE]
    /\ exited' = [exited EXCEPT ![s] = TRUE]
    /\ given' = [given EXCEPT ![s] = None]
    /\ UNCHANGED <<threadOf, work, ended, doomed, on, server, opened, named, idle, cards, asked,
                   stopping, stopped>>

OpenRefused(s) ==
    /\ Says(s, ThreadOpen) /\ TakesActive(s) /\ Kills({s})
    /\ queued' = [queued EXCEPT ![s] = FALSE]
    /\ exited' = [exited EXCEPT ![s] = TRUE]
    /\ given' = [given EXCEPT ![s] = None]
    /\ idle' = [idle EXCEPT ![s] = FALSE]
    /\ UNCHANGED <<threadOf, work, doomed, on, server, opened, stopping>>

Named(s) ==
    /\ active[s] # None /\ Says(s, active[s])
    /\ named' = [named EXCEPT ![s] = TRUE]
    /\ idle' = [idle EXCEPT ![s] = FALSE]
    /\ UNCHANGED <<threadOf, work, ended, doomed, on, server, proc, exited, opened, queued,
                   active, given,
                   cards, asked, stopping, stopped>>

Asks(s) ==
    /\ active[s] # None /\ Says(s, active[s]) /\ named[s] /\ active[s] \notin asked
    /\ cards' = cards \cup {active[s]} /\ asked' = asked \cup {active[s]}
    /\ idle' = [idle EXCEPT ![s] = FALSE]
    /\ UNCHANGED <<threadOf, work, ended, doomed, on, server, proc, lockState, given, stopping,
                   stopped>>

\* Mutant: the completed turn stays the active one.
CompletesStill(s) ==
    /\ \E t \in Turns : Says(s, t)
    /\ active[s] # None /\ Finished(active[s])
    /\ given' = [given EXCEPT ![s] = None]
    /\ UNCHANGED <<threadOf, work, doomed, on, server, proc, lockState, idle, cards, asked,
                   stopping, stopped>>

\* turn/start is refused, or turn/completed.
Completed(s) ==
    /\ \E t \in Turns : Says(s, t)
    /\ TakesActive(s)
    /\ given' = [given EXCEPT ![s] = None]
    /\ idle' = [idle EXCEPT ![s] = FALSE]
    /\ UNCHANGED <<threadOf, work, doomed, on, server, proc, exited, opened, queued, stopping>>

Dies(s) ==
    /\ proc[s] \in {"up", "killed"}
    /\ proc' = [proc EXCEPT ![s] = "gone"]
    /\ UNCHANGED <<threadOf, work, ended, doomed, on, server, lockState, given, idle, cards,
                   asked, stopping, stopped>>

\* No more lines: a turn still in flight ends as an error.
ReaderEnds(s) ==
    /\ proc[s] = "gone" /\ work[s] # "insert"
    /\ proc' = [proc EXCEPT ![s] = "read"]
    /\ exited' = [exited EXCEPT ![s] = TRUE]
    /\ queued' = [queued EXCEPT ![s] = FALSE]
    /\ given' = [given EXCEPT ![s] = None]
    /\ TakesActive(s)
    /\ UNCHANGED <<threadOf, work, doomed, on, server, opened, idle, stopping>>

\* Fifteen minutes pass.
Age(s) ==
    /\ server[threadOf[s]] = s /\ active[s] = None /\ ~queued[s] /\ ~idle[s]
    /\ idle' = [idle EXCEPT ![s] = TRUE]
    /\ UNCHANGED <<threadOf, work, ended, doomed, on, server, proc, lockState, given, cards,
                   asked, stopping, stopped>>

----------------------------------------------------------------------------
(* stop: an interrupt with a grace period, or the end of the process *)

InFlight(h) == {t \in Turns : \E s \in Registered(h) : active[s] = t}

\* Mutant: a turn without a name is not stopped.
StopsNamed(t) ==
    /\ stopped' = stopped \cup {t}
    /\ stopping' = [stopping EXCEPT ![t] = IF named[on[t]] THEN "grace" ELSE @]
    /\ UNCHANGED <<threadOf, work, ended, doomed, on, server, proc, lockState, given, idle,
                   cards, asked>>

StopTurn(t) ==
    /\ stopped' = stopped \cup {t}
    /\ IF opened[on[t]] /\ named[on[t]]
         THEN /\ stopping' = [stopping EXCEPT ![t] = IF @ = None THEN "grace" ELSE @]
              /\ UNCHANGED <<threadOf, proc, exited>>
         ELSE /\ exited' = [exited EXCEPT ![on[t]] = TRUE]
              /\ Kills({on[t]})
              /\ UNCHANGED stopping
    /\ UNCHANGED <<threadOf, work, ended, doomed, on, server, opened, queued, active, named,
                   given, idle,
                   cards, asked>>

\* The turn is still in flight when the grace period is over ...
GraceEnds(t) ==
    /\ stopping[t] = "grace"
    /\ stopping' = [stopping EXCEPT ![t] = IF active[on[t]] = t THEN "kill" ELSE None]
    /\ UNCHANGED <<threadOf, work, ended, doomed, on, server, proc, lockState, given, idle,
                   cards, asked,
                   stopped>>

\* ... and the server is killed, whatever it does by now.
GraceKills(t) ==
    /\ stopping[t] = "kill"
    /\ stopping' = [stopping EXCEPT ![t] = None]
    /\ exited' = [exited EXCEPT ![on[t]] = TRUE]
    /\ Kills({on[t]})
    /\ UNCHANGED <<threadOf, work, ended, doomed, on, server, opened, queued, active, named,
                   given, idle,
                   cards, asked, stopped>>

----------------------------------------------------------------------------
\* What goes on by itself, and what Codex or the machine may or may not do.
CodexGoesOn ==
    \/ \E t \in Turns :
        \/ Reap(t) \/ Misses(t) \/ CloseDead(t) \/ Answering(t)
        \/ WriteTurn(t) \/ Spawn(t) \/ Insert(t) \/ WriteOpening(t)
        \/ GraceEnds(t) \/ GraceKills(t) \/ ReaderEnds(t)
    \/ \E t \in Turns, h \in Threads : ReapNext(t, h)
    \/ \E t, s \in Turns : Reuse(t, s)
    \/ \E s \in Turns : proc[s] = "killed" /\ Dies(s)

CodexMay ==
    \E s \in Turns :
        \/ WriteTurnFails(s) \/ SpawnFails(s) \/ WriteOpeningFails(s)
        \/ Opened(s) \/ OpenRefused(s) \/ Named(s) \/ Asks(s) \/ Completed(s)
        \/ proc[s] = "up" /\ Dies(s)
        \/ Age(s)
=============================================================================
