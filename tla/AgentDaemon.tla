---------------------------- MODULE AgentDaemon ----------------------------
(***************************************************************************)
(* The desktop window and the background service.  Commands of the window  *)
(* share one connection slot behind an asynchronous lock: a launch starts  *)
(* a service when none answers, everything else only attaches.  A session  *)
(* is named by the launch that asked for it.  A command opens at most one  *)
(* connection that is ever greeted, so a connection is named by the        *)
(* command that opened it.                                                 *)
(*                                                                         *)
(* The service's lines reach a connection in order and at once; what is    *)
(* late is the work of the tasks that wait for them.                       *)
(*                                                                         *)
(* Source: src-tauri/src/agent_daemon/client.rs and server.rs, lib.rs, and *)
(* the session list of src/app/useAgentSessions.ts.                        *)
(***************************************************************************)
EXTENDS DaemonSocket

CONSTANTS
  Launches,    \* agent_launch with "keep in the background"; their sessions
  Polls,       \* agent_sessions
  Stops,       \* agent_daemon_stop
  MaxWindows   \* bound: windows opened, one after the other

Commands == Launches \cup Polls \cup Stops

ASSUME DaemonAssumption ==
  /\ Nobody \notin Commands
  /\ Launches \cap Polls = {} /\ Launches \cap Stops = {} /\ Polls \cap Stops = {}
  /\ MaxWindows \in Nat

VARIABLES
  window,    \* is a window open
  windows,   \* windows opened so far
  stage,     \* where each command is
  lock,      \* the command inside the connection lock
  slot,      \* DaemonClient.connection: who opened the connection kept there
  link,      \* the process a command's own connection leads to
  alive,     \* connections whose reader has not ended
  clients,   \* connections subscribed to their process's events
  known,     \* Connection.sessions
  use,       \* the connection a command sends its request on
  owned,     \* the sessions in each process's registry
  list,      \* the sessions a poll was answered with
  inbox,     \* requests each process has been sent and not yet run
  listed,    \* sessions the window shows as open
  closures   \* closed events seen during each running command

windowVars == <<window, windows>>
lockVars   == <<lock, slot>>
connVars   == <<link, alive, clients, known>>
shownVars  == <<listed, closures>>
daemonVars == <<socketVars, windowVars, lockVars, connVars, shownVars, stage,
                use, owned, inbox, list>>

Maybe(S) == S \cup {Nobody}

PCs == {"new", "attach", "greeting", "ensure", "starting", "hello",
        "greeted", "ready", "checked", "waiting", "answered", "done",
        "failed", "gone"}

DaemonTypeOK ==
  /\ SocketTypeOK
  /\ window \in BOOLEAN
  /\ windows \in 0..MaxWindows
  /\ stage \in [Commands -> PCs]
  /\ lock \in Maybe(Commands)
  /\ slot \in Maybe(Commands)
  /\ link \in [Commands -> Maybe(Daemons)]
  /\ alive \subseteq Commands
  /\ clients \subseteq Commands
  /\ known \in [Commands -> SUBSET Launches]
  /\ use \in [Commands -> Maybe(Commands)]
  /\ owned \in [Daemons -> SUBSET Launches]
  /\ inbox \in [Daemons -> SUBSET Commands]
  /\ list \in [Commands -> SUBSET Launches]
  /\ listed \subseteq Launches
  /\ closures \in [Commands -> SUBSET Launches]

DaemonInit ==
  /\ SocketInit
  /\ window = FALSE
  /\ windows = 0
  /\ stage = [c \in Commands |-> "new"]
  /\ lock = Nobody
  /\ slot = Nobody
  /\ link = [c \in Commands |-> Nobody]
  /\ alive = {}
  /\ clients = {}
  /\ known = [c \in Commands |-> {}]
  /\ use = [c \in Commands |-> Nobody]
  /\ owned = [d \in Daemons |-> {}]
  /\ inbox = [d \in Daemons |-> {}]
  /\ list = [c \in Commands |-> {}]
  /\ listed = {}
  /\ closures = [c \in Commands |-> {}]

Advance(c, from, to) == stage[c] = from /\ stage' = [stage EXCEPT ![c] = to]

Active(c) == stage[c] \notin {"new", "done", "failed", "gone"}

(* The window handles a closed event: the session leaves the list, and     *)
(* every request under way remembers it.                                   *)
SeeClosed(S) ==
  /\ listed' = listed \ S
  /\ closures' = [c \in Commands |-> IF Active(c) THEN closures[c] \cup S
                                                  ELSE closures[c]]

Attends(k, d) == k \in clients /\ link[k] = d

----------------------------------------------------------------------------
(* The window process *)

OpenWindow ==
  /\ ~window /\ windows < MaxWindows
  /\ window' = TRUE
  /\ windows' = windows + 1
  /\ UNCHANGED <<socketVars, lockVars, connVars, shownVars, stage, use, owned,
                 inbox, list>>

(* The process ends: its tasks, locks and connections with it.  What its   *)
(* writer had not written yet is never sent.                               *)
CloseWindow ==
  /\ window
  /\ window' = FALSE
  /\ stage' = [c \in Commands |-> IF Active(c) THEN "gone" ELSE stage[c]]
  /\ lock' = Nobody /\ slot' = Nobody
  /\ link' = [c \in Commands |-> Nobody]
  /\ alive' = {} /\ clients' = {}
  /\ known' = [c \in Commands |-> {}]
  /\ use' = [c \in Commands |-> Nobody]
  /\ list' = [c \in Commands |-> {}]
  /\ listed' = {}
  /\ closures' = [c \in Commands |-> {}]
  /\ inbox' \in {inbox, [d \in Daemons |-> {}]}
  /\ UNCHANGED <<socketVars, windows, owned>>

Begin(c) ==
  /\ window
  /\ Advance(c, "new", "attach")
  /\ UNCHANGED <<socketVars, windowVars, lockVars, connVars, shownVars, use,
                 owned, inbox, list>>

----------------------------------------------------------------------------
(* attached and ensure *)

Held == slot # Nobody /\ slot \in alive

AttachHeld(c) ==
  /\ lock = Nobody
  /\ Held
  /\ Advance(c, "attach", "ready")
  /\ use' = [use EXCEPT ![c] = slot]
  /\ UNCHANGED <<socketVars, windowVars, lockVars, connVars, shownVars, owned,
                 inbox, list>>

Reachable == sock # Nobody /\ Admits(sock)

(* open: connect, start the reader, say Hello.                             *)
Dial(c) ==
  /\ Reachable
  /\ link' = [link EXCEPT ![c] = sock]
  /\ alive' = alive \cup {c}
  /\ UNCHANGED <<clients, known>>

AttachDials(c) ==
  /\ lock = Nobody /\ ~Held
  /\ Advance(c, "attach", "greeting")
  /\ lock' = c /\ slot' = Nobody
  /\ Dial(c)
  /\ UNCHANGED <<socketVars, windowVars, shownVars, use, owned, inbox, list>>

(* attached returned nothing: only a launch goes on to start a process.    *)
Unattached(c) == IF c \in Launches THEN "ensure" ELSE "failed"

AttachMisses(c) ==
  /\ lock = Nobody /\ ~Held /\ ~Reachable
  /\ Advance(c, "attach", Unattached(c))
  /\ slot' = Nobody
  /\ UNCHANGED <<socketVars, windowVars, lock, connVars, shownVars, use,
                 owned, inbox, list>>

(* handle_client: list the sessions, subscribe, reply.                     *)
Greet(c) ==
  LET d == link[c]
  IN  /\ c \in alive /\ Handling(d)
      /\ stage[c] \in {"greeting", "hello"}
      /\ stage' = [stage EXCEPT ![c] = "greeted"]
      /\ list' = [list EXCEPT ![c] = owned[d]]
      /\ clients' = clients \cup {c}
      /\ UNCHANGED <<socketVars, windowVars, lockVars, link, alive, known,
                     shownVars, use, owned, inbox>>

(* The listener was dropped before it accepted, or the process is gone.    *)
GreetingFails(c) ==
  /\ c \in alive /\ ~Admits(link[c])
  /\ \/ Advance(c, "greeting", Unattached(c)) /\ lock' = Nobody
     \/ Advance(c, "hello", "starting") /\ UNCHANGED lock
  /\ alive' = alive \ {c}
  /\ link' = [link EXCEPT ![c] = Nobody]
  /\ UNCHANGED <<socketVars, windowVars, slot, clients, known, shownVars, use,
                 owned, inbox, list>>

HoldLock(c) ==                                                    \* mutant
  /\ Advance(c, "greeted", "ready")
  /\ slot' = c
  /\ known' = [known EXCEPT ![c] = @ \cup list[c]]
  /\ list' = [list EXCEPT ![c] = {}]
  /\ use' = [use EXCEPT ![c] = c]
  /\ UNCHANGED <<socketVars, windowVars, lock, link, alive, clients,
                 shownVars, owned, inbox>>

(* open returns: the slot is filled, over whatever it held.                *)
Opened(c) ==
  /\ Advance(c, "greeted", "ready")
  /\ slot' = c /\ lock' = Nobody
  /\ known' = [known EXCEPT ![c] = @ \cup list[c]]
  /\ list' = [list EXCEPT ![c] = {}]
  /\ use' = [use EXCEPT ![c] = c]
  /\ UNCHANGED <<socketVars, windowVars, link, alive, clients, shownVars,
                 owned, inbox>>

(* ensure takes the lock again and starts a process without another look.  *)
Spawn(c, d) ==
  /\ lock = Nobody
  /\ Advance(c, "ensure", "starting")
  /\ lock' = c
  /\ Become(d, "unborn", "starting")
  /\ UNCHANGED <<sock, told, kills, windowVars, slot, connVars, shownVars,
                 use, owned, inbox, list>>

SpawnFails(c) ==
  /\ lock = Nobody
  /\ Advance(c, "ensure", "failed")
  /\ UNCHANGED <<socketVars, windowVars, lockVars, connVars, shownVars, use,
                 owned, inbox, list>>

EnsureDials(c) ==
  /\ Advance(c, "starting", "hello")
  /\ Dial(c)
  /\ UNCHANGED <<socketVars, windowVars, lockVars, shownVars, use, owned,
                 inbox, list>>

EnsureGivesUp(c) ==
  /\ Advance(c, "starting", "failed")
  /\ lock' = Nobody
  /\ UNCHANGED <<socketVars, windowVars, slot, connVars, shownVars, use, owned,
                 inbox, list>>

----------------------------------------------------------------------------
(* Connection::request *)

Check(c) ==
  /\ Advance(c, "ready", IF use[c] \in alive THEN "checked" ELSE "failed")
  /\ UNCHANGED <<socketVars, windowVars, lockVars, connVars, shownVars, use,
                 owned, inbox, list>>

(* A connection lost since then takes the line and sends it nowhere.       *)
Send(c) ==
  LET d == link[use[c]]
  IN  /\ Advance(c, "checked", "waiting")
      /\ inbox' = IF use[c] \in alive THEN [inbox EXCEPT ![d] = @ \cup {c}]
                                      ELSE inbox
      /\ UNCHANGED <<socketVars, windowVars, lockVars, connVars, shownVars,
                     use, owned, list>>

TimesOut(c) ==
  /\ Advance(c, "waiting", "failed")
  /\ use' = [use EXCEPT ![c] = Nobody]
  /\ UNCHANGED <<socketVars, windowVars, lockVars, connVars, shownVars, owned,
                 inbox, list>>

ReturnBlindly(c) ==                                               \* mutant
  /\ Advance(c, "answered", "done")
  /\ listed' = listed \cup (IF c \in Launches THEN {c} ELSE list[c])
  /\ closures' = [closures EXCEPT ![c] = {}]
  /\ list' = [list EXCEPT ![c] = {}]
  /\ use' = [use EXCEPT ![c] = Nobody]
  /\ UNCHANGED <<socketVars, windowVars, lockVars, connVars, owned, inbox>>

(* The interface takes the answer: what closed meanwhile stays closed.     *)
Return(c) ==
  LET named == IF c \in Launches THEN {c} ELSE list[c]
  IN  /\ Advance(c, "answered", "done")
      /\ listed' = (listed \cup named) \ closures[c]
      /\ closures' = [closures EXCEPT ![c] = {}]
      /\ list' = [list EXCEPT ![c] = {}]
      /\ use' = [use EXCEPT ![c] = Nobody]
      /\ UNCHANGED <<socketVars, windowVars, lockVars, connVars, owned, inbox>>

----------------------------------------------------------------------------
(* dispatch, in the process the request was sent to *)

(* The response reaches the request if it still waits on a live connection. *)
Respond(c, outcome) ==
  stage' = IF stage[c] = "waiting" /\ use[c] \in alive
           THEN [stage EXCEPT ![c] = outcome] ELSE stage

Take(d, c) ==
  /\ Handling(d)
  /\ c \in inbox[d]
  /\ inbox' = [inbox EXCEPT ![d] = @ \ {c}]
  /\ UNCHANGED <<life, sock, kills, windowVars, lockVars, connVars, shownVars,
                 use>>

Launch(d, c) ==
  /\ c \in Launches
  /\ Take(d, c)
  /\ owned' = [owned EXCEPT ![d] = @ \cup {c}]
  /\ Respond(c, "answered")
  /\ UNCHANGED <<told, list>>

LaunchFails(d, c) ==
  /\ c \in Launches
  /\ Take(d, c)
  /\ Respond(c, "failed")
  /\ UNCHANGED <<told, owned, list>>

Sessions(d, c) ==
  /\ c \in Polls
  /\ Take(d, c)
  /\ list' = [list EXCEPT ![c] = owned[d]]
  /\ Respond(c, "answered")
  /\ UNCHANGED <<told, owned>>

Shutdown(d, c) ==
  /\ c \in Stops
  /\ Take(d, c)
  /\ told' = told \cup {d}
  /\ Respond(c, "answered")
  /\ UNCHANGED <<owned, list>>

----------------------------------------------------------------------------
(* What a process's registry publishes, and the connections' readers *)

(* Any event of a session: its ID is noted by every connection.            *)
Speak(d, s) ==
  /\ Handling(d)
  /\ s \in owned[d]
  /\ known' = [k \in Commands |-> IF Attends(k, d) THEN known[k] \cup {s}
                                                   ELSE known[k]]
  /\ UNCHANGED <<socketVars, windowVars, lockVars, link, alive, clients,
                 shownVars, stage, use, owned, inbox, list>>

EndSession(d, s) ==
  /\ Handling(d)
  /\ s \in owned[d]
  /\ owned' = [owned EXCEPT ![d] = @ \ {s}]
  /\ known' = [k \in Commands |-> IF Attends(k, d) THEN known[k] \ {s}
                                                   ELSE known[k]]
  /\ IF \E k \in Commands : Attends(k, d) THEN SeeClosed({s})
                                          ELSE UNCHANGED shownVars
  /\ UNCHANGED <<socketVars, windowVars, lockVars, link, alive, clients, stage,
                 use, inbox, list>>

LoseQuietly(k) ==                                                 \* mutant
  /\ k \in alive /\ stage[k] \notin {"greeting", "hello"}
  /\ life[link[k]] = "gone"
  /\ alive' = alive \ {k}
  /\ link' = [link EXCEPT ![k] = Nobody]
  /\ clients' = clients \ {k}
  /\ stage' = [c \in Commands |-> IF stage[c] = "waiting" /\ use[c] = k
                                  THEN "failed" ELSE stage[c]]
  /\ UNCHANGED <<socketVars, windowVars, lockVars, known, shownVars, use,
                 owned, inbox, list>>

(* End of file: what waits fails, and the sessions heard of are closed.    *)
Lost(k) ==
  /\ k \in alive /\ stage[k] \notin {"greeting", "hello"}
  /\ life[link[k]] = "gone"
  /\ alive' = alive \ {k}
  /\ link' = [link EXCEPT ![k] = Nobody]
  /\ clients' = clients \ {k}
  /\ known' = [known EXCEPT ![k] = {}]
  /\ stage' = [c \in Commands |-> IF stage[c] = "waiting" /\ use[c] = k
                                  THEN "failed" ELSE stage[c]]
  /\ SeeClosed(known[k])
  /\ UNCHANGED <<socketVars, windowVars, lockVars, use, owned, inbox,
                 list>>

----------------------------------------------------------------------------
(* The processes *)

Quiet == UNCHANGED <<windowVars, lockVars, connVars, shownVars, stage, use, list>>

BindSteps(d) ==
  /\ Probe(d) \/ ClearStale(d) \/ Bind(d) \/ Open(d) \/ Unlink(d)
  /\ Quiet /\ UNCHANGED <<owned, inbox>>

ToldToStop(d) ==
  /\ d \in told
  /\ StopListening(d)
  /\ Quiet /\ UNCHANGED <<owned, inbox>>

(* The last tick of a minute without sessions and subscribers; a connection *)
(* that has not been greeted counts for nothing.                           *)
IdleExit(d) ==
  /\ owned[d] = {} /\ inbox[d] = {}
  /\ \A k \in Commands : ~Attends(k, d)
  /\ StopListening(d)
  /\ Quiet /\ UNCHANGED <<owned, inbox>>

StopSessions(d) ==
  /\ StopOwned(d)
  /\ owned' = [owned EXCEPT ![d] = {}]
  /\ Quiet /\ UNCHANGED inbox

EndProcess(d) ==
  /\ Exit(d) \/ Kill(d)
  /\ owned' = [owned EXCEPT ![d] = {}]
  /\ inbox' = [inbox EXCEPT ![d] = {}]
  /\ Quiet

----------------------------------------------------------------------------
Client(c) ==
  \/ AttachHeld(c) \/ AttachDials(c) \/ AttachMisses(c)
  \/ Greet(c) \/ GreetingFails(c) \/ Opened(c)
  \/ (\E d \in Daemons : Spawn(c, d)) \/ SpawnFails(c)
  \/ EnsureDials(c) \/ EnsureGivesUp(c)
  \/ Check(c) \/ Send(c) \/ TimesOut(c) \/ Return(c)
  \/ Lost(c)

Dispatch(d) ==
  \E c \in Commands :
    Launch(d, c) \/ LaunchFails(d, c) \/ Sessions(d, c) \/ Shutdown(d, c)

Process(d) == BindSteps(d) \/ ToldToStop(d) \/ StopSessions(d) \/ Dispatch(d)

DaemonNext ==
  \/ OpenWindow \/ CloseWindow
  \/ \E c \in Commands : Begin(c) \/ Client(c)
  \/ \E d \in Daemons :
       \/ Process(d) \/ IdleExit(d) \/ EndProcess(d)
       \/ \E s \in Launches : Speak(d, s) \/ EndSession(d, s)

DaemonSpec == DaemonInit /\ [][DaemonNext]_daemonVars

(* Tasks and processes that can go on do, and their timers fire; nobody    *)
(* owes a window, a command, an event, an idle minute or a crash.  What is *)
(* owed comes to an end, so fairness of all of it is fairness of each.     *)
Owed ==
  \/ \E c \in Commands :
       \/ AttachHeld(c) \/ AttachDials(c) \/ AttachMisses(c)
       \/ Greet(c) \/ GreetingFails(c) \/ Opened(c)
       \/ (\E d \in Daemons : Spawn(c, d)) \/ SpawnFails(c) \/ EnsureGivesUp(c)
       \/ Check(c) \/ Send(c) \/ TimesOut(c) \/ Return(c) \/ Lost(c)
  \/ \E d \in Daemons : Process(d) \/ (life[d] = "removing" /\ EndProcess(d))

DaemonFairness == WF_daemonVars(Owed)

FairDaemonSpec == DaemonSpec /\ DaemonFairness

----------------------------------------------------------------------------
Owned == UNION {owned[d] : d \in Daemons}

(* While no process has ended, a session the window shows as open is in a  *)
(* registry: neither a launch's answer nor a list that was read before the *)
(* session ended brings it back (reconcileSessionSnapshot and the launch   *)
(* race guard in useAgentSessions.ts).                                     *)
ShownIsOwned ==
  (\A d \in Daemons : life[d] \notin {"removing", "gone"}) => listed \subseteq Owned

(* Every command of the window ends, with an answer or an error, also one  *)
(* that waits for the connection lock of another (DaemonClient::request).  *)
CommandsEnd == <>[](\A c \in Commands : ~Active(c))

(* A session the connection heard of, which went down with its process, is *)
(* closed in the window (Connection::lost).                                *)
LostSessionsClose ==
  \A s \in Launches :
    (s \notin Owned /\ \E k \in alive : s \in known[k]) ~> (s \notin listed)

(* What the window waits for comes, also when the service goes down.        *)
WindowSettles == CommandsEnd /\ LostSessionsClose
=============================================================================
