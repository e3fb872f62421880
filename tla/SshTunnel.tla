----------------------------- MODULE SshTunnel -----------------------------
(***************************************************************************)
(* The registry of SSH tunnels and the runs it admits.  A run is one start *)
(* of a tunnel, named by its generation: a command that reserves the row,  *)
(* waits for a credential, sets a session up and commits, and from then on *)
(* a worker that serves connections until it is told to stop.  Each run    *)
(* has one stop channel, two completion channels (the reservation's and    *)
(* the committed row's) and one russh task that owns the transport.        *)
(*                                                                         *)
(* A start call is taken never to be dropped by its caller.                *)
(*                                                                         *)
(* Source: src-tauri/src/tunnel.rs, and tunnel_start in lib.rs.            *)
(***************************************************************************)
EXTENDS Naturals, FiniteSets

CONSTANTS
  Tunnels,    \* tunnel ids
  Conns,      \* slots for forwarded connections, used again and again
  Stoppers,   \* callers of tunnel_stop
  MaxRuns,    \* bound: starts in one life of the process
  MaxActive,  \* MAX_ACTIVE_TUNNELS
  PerTunnel,  \* MAX_CONNECTIONS_PER_TUNNEL
  Global,     \* MAX_GLOBAL_TUNNEL_CONNECTIONS
  None

Runs == 1..MaxRuns

ASSUME TunnelAssumption ==
  /\ MaxRuns \in Nat /\ MaxActive \in Nat /\ PerTunnel \in Nat /\ Global \in Nat
  /\ IsFiniteSet(Conns)
  /\ None \notin Tunnels \cup Runs

VARIABLES
  row,        \* TunnelRegistry.tunnels
  runs,       \* generations handed out
  exit,       \* stop_all: "no", "sealed", or "told" when every row was
  of,         \* a run's tunnel
  kind,       \* its request's tunnel_type; "local" stands for dynamic too
  prev,       \* TunnelStartReservation.previous
  committed,  \* runs whose reservation is committed
  pc,         \* where the start call or the worker of a run is
  stop,       \* runs whose stop channel is true
  done,       \* completion channels that are true
  permit,     \* who holds the run's tunnel_admission permit
  listening,  \* runs with a bound listener
  link,       \* the russh task of a run and its transport
  gate,       \* runs whose RemoteForwardGate is enabled
  fatal,      \* runs whose Counters.fatal is set
  outcome,    \* the status a worker will publish
  at,         \* where a forwarded connection is
  lease,      \* the permits it holds
  runOf,      \* the run it belongs to
  waits       \* the completion channel a stop waits for

registryVars == <<row, runs, exit>>
startVars    == <<of, kind, prev, committed>>
sessionVars  == <<listening, link, gate>>
endVars      == <<fatal, outcome>>
connVars     == <<at, lease, runOf>>
vars == <<registryVars, startVars, sessionVars, endVars, connVars, pc, stop,
          done, permit, waits>>

NoRow == [gen |-> 0, status |-> "none", owned |-> FALSE]
Rows  == [gen : 0..MaxRuns,
          status : {"none", "starting", "active", "stopped", "error"},
          owned : BOOLEAN]

Starting == {"credential", "bind", "connect", "handshake", "auth", "forward",
             "commit", "leave", "cancel"}
Ending   == {"wind", "drain", "reap"}
PCs      == Starting \cup Ending \cup {"unused", "serve", "finish", "over"}

Admitted         == {r \in Runs : permit[r] # "none"}
TunnelPermits(r) == {c \in Conns : runOf[c] = r /\ "tunnel" \in lease[c]}
GlobalPermits    == {c \in Conns : "global" \in lease[c]}

TypeOK ==
  /\ row \in [Tunnels -> Rows]
  /\ runs \in 0..MaxRuns
  /\ exit \in {"no", "sealed", "told"}
  /\ of \in [Runs -> Tunnels \cup {None}]
  /\ kind \in [Runs -> {"local", "remote"}]
  /\ prev \in [Runs -> Rows] /\ committed \subseteq Runs
  /\ pc \in [Runs -> PCs]
  /\ stop \subseteq Runs /\ listening \subseteq Runs
  /\ gate \subseteq Runs /\ fatal \subseteq Runs
  /\ done \subseteq Runs \X {"start", "run"}
  /\ permit \in [Runs -> {"none", "start", "job", "session", "setup"}]
  /\ link \in [Runs -> {"none", "live", "shut", "cleaned", "gone"}]
  /\ outcome \in [Runs -> {"stopped", "error"}]
  /\ at \in [Conns -> {"idle", "ask", "asked", "open", "leaving"}]
  /\ lease \in [Conns -> SUBSET {"tunnel", "global"}]
  /\ runOf \in [Conns -> Runs \cup {None}]
  /\ waits \in [Stoppers -> (Runs \X {"start", "run"}) \cup {None}]

Init ==
  /\ row = [t \in Tunnels |-> NoRow] /\ runs = 0 /\ exit = "no"
  /\ of = [r \in Runs |-> None] /\ kind = [r \in Runs |-> "local"]
  /\ prev = [r \in Runs |-> NoRow] /\ committed = {}
  /\ pc = [r \in Runs |-> "unused"]
  /\ stop = {} /\ done = {} /\ listening = {} /\ gate = {} /\ fatal = {}
  /\ permit = [r \in Runs |-> "none"]
  /\ link = [r \in Runs |-> "none"]
  /\ outcome = [r \in Runs |-> "stopped"]
  /\ at = [c \in Conns |-> "idle"]
  /\ lease = [c \in Conns |-> {}]
  /\ runOf = [c \in Conns |-> None]
  /\ waits = [s \in Stoppers |-> None]

Go(r, to)     == pc' = [pc EXCEPT ![r] = to]
Hold(r, by)   == permit' = [permit EXCEPT ![r] = by]
Wire(r, to)   == link' = [link EXCEPT ![r] = to]

----------------------------------------------------------------------------
(* The start call.                                                         *)

(* reserve_start, and the hand-over of the permit to the credential job    *)
(* that follows it at once.                                                *)
Reserve(t, k, limit) ==
  /\ Cardinality(Admitted) < limit
  /\ runs < MaxRuns
  /\ LET r == runs + 1 IN
       /\ runs' = r
       /\ row' = [row EXCEPT ![t] = [gen |-> r, status |-> "starting", owned |-> TRUE]]
       /\ of' = [of EXCEPT ![r] = t] /\ kind' = [kind EXCEPT ![r] = k]
       /\ prev' = [prev EXCEPT ![r] = row[t]]
       /\ Go(r, "credential") /\ Hold(r, "job")
  /\ UNCHANGED <<exit, committed, sessionVars, endVars, connVars, stop, done, waits>>

\* Mutant of Start: only an active row is owned.
StartBeside(t, k)  == exit = "no" /\ row[t].status # "active" /\ Reserve(t, k, MaxActive)

Start(t, k) == exit = "no" /\ ~row[t].owned /\ Reserve(t, k, MaxActive)

(* Every stage looks at the stop channel before it does anything else.     *)
Stage(r, stage) == pc[r] = stage /\ r \notin stop

(* A remote tunnel has nothing to bind.                                    *)
Bound(r) == IF kind[r] = "local" THEN Go(r, "bind") /\ Hold(r, "start")
                                 ELSE Go(r, "connect") /\ Hold(r, "session")

CredentialRead(r) ==
  /\ Stage(r, "credential")
  /\ \/ Bound(r)
     \/ Go(r, "leave") /\ Hold(r, "start")
  /\ UNCHANGED <<registryVars, startVars, sessionVars, endVars, connVars, stop, done, waits>>

(* The job of a start that was cancelled goes on with the permit.          *)
DetachedJobEnds(r) ==
  /\ permit[r] = "job" /\ pc[r] # "credential"
  /\ Hold(r, "none")
  /\ UNCHANGED <<registryVars, startVars, sessionVars, endVars, connVars, pc, stop, done, waits>>

Bind(r) ==
  /\ Stage(r, "bind")
  /\ listening' = listening \cup {r}
  /\ Go(r, "connect") /\ Hold(r, "session")
  /\ UNCHANGED <<registryVars, startVars, link, gate, endVars, connVars, stop, done, waits>>

Connect(r) ==
  /\ Stage(r, "connect")
  /\ Wire(r, "live") /\ Go(r, "handshake")
  /\ UNCHANGED <<registryVars, startVars, listening, gate, endVars, connVars, stop, done, permit, waits>>

(* The host answers: to the handshake, the password, the forward request.  *)
HostAgrees(r) ==
  /\ r \notin stop /\ link[r] = "live"
  /\ \/ pc[r] = "handshake" /\ Go(r, "auth")
     \/ pc[r] = "auth" /\ Go(r, IF kind[r] = "remote" THEN "forward" ELSE "commit")
     \/ pc[r] = "forward" /\ Go(r, "commit")
  /\ UNCHANGED <<registryVars, startVars, sessionVars, endVars, connVars, stop, done, permit, waits>>

(* A stage fails, runs out of time or is cancelled.  What it has to undo   *)
(* depends on how far it got; where the start call itself gives the permit *)
(* back once the session is reaped, it is held by the "setup".             *)
GivesUp(r) ==
  \/ /\ pc[r] = "credential" /\ r \in stop
     /\ Go(r, "leave") /\ UNCHANGED <<link, permit>>
  \/ /\ pc[r] \in {"bind", "connect"}
     /\ Go(r, "leave") /\ UNCHANGED <<link, permit>>
  \/ /\ pc[r] = "handshake"
     /\ Go(r, "reap") /\ Wire(r, IF link[r] = "live" THEN "shut" ELSE link[r])
     /\ UNCHANGED permit
  \/ /\ pc[r] = "auth"
     /\ Go(r, "wind") /\ UNCHANGED <<link, permit>>
  \/ /\ pc[r] = "forward"
     /\ Go(r, "wind") /\ Hold(r, "setup") /\ UNCHANGED link

StageFails(r) ==
  /\ GivesUp(r)
  /\ UNCHANGED <<registryVars, startVars, listening, gate, endVars, connVars, stop, done, waits>>

\* Mutant of MayCommit: a stop that came before the commit is not seen.
CommitUnheard(r) ==
  exit = "no" /\ row[of[r]].gen = r /\ row[of[r]].status = "starting"

MayCommit(r) ==
  /\ exit = "no"
  /\ row[of[r]].gen = r /\ row[of[r]].status = "starting" /\ r \notin stop

(* commit_start.  The new row has a completion channel of its own.         *)
Commit(r) ==
  /\ pc[r] = "commit"
  /\ IF MayCommit(r)
       THEN /\ row' = [row EXCEPT ![of[r]].status = "active"]
            /\ gate' = IF kind[r] = "remote" THEN gate \cup {r} ELSE gate
            /\ committed' = committed \cup {r}
            /\ Go(r, "serve") /\ UNCHANGED permit
       ELSE /\ Go(r, "wind") /\ Hold(r, "setup") /\ UNCHANGED <<row, gate, committed>>
  /\ UNCHANGED <<runs, exit, of, kind, prev, listening, link, endVars, connVars, stop, done, waits>>

(* The call returns an error: its listener, its share of the permit and    *)
(* then its reservation are dropped.                                       *)
LeaveStart(r) ==
  /\ pc[r] = "leave"
  /\ listening' = listening \ {r} /\ stop' = stop \cup {r}
  /\ IF permit[r] = "start" \/ (permit[r] = "session" /\ link[r] \in {"none", "gone"})
       THEN Hold(r, "none") ELSE UNCHANGED permit
  /\ Go(r, "cancel")
  /\ UNCHANGED <<registryVars, startVars, link, gate, endVars, connVars, done, waits>>

(* cancel_start: the row goes back to what it showed before.               *)
CancelStart(r) ==
  /\ pc[r] = "cancel" /\ Go(r, "over")
  /\ IF row[of[r]].gen = r /\ row[of[r]].status = "starting"
       THEN /\ row' = [row EXCEPT ![of[r]] = prev[r]]
            /\ done' = done \cup {<<r, "start">>}
       ELSE UNCHANGED <<row, done>>
  /\ UNCHANGED <<runs, exit, startVars, sessionVars, endVars, connVars, stop, permit, waits>>

----------------------------------------------------------------------------
(* The worker.  It looks for a stop first, then at the health of the       *)
(* session, then at the listener.                                          *)

Breaks(r, how) ==
  /\ pc[r] = "serve" /\ Go(r, "wind")
  /\ outcome' = [outcome EXCEPT ![r] = how]
  /\ UNCHANGED <<registryVars, startVars, sessionVars, fatal, connVars, stop, done, permit, waits>>

SeesStop(r)      == r \in stop /\ Breaks(r, "stopped")
\* Mutant of HealthTick: only a tunnel with a listener looks.
HealthUnseen(r)  == r \notin stop /\ r \in listening /\ link[r] # "live" /\ Breaks(r, "error")
HealthTick(r)    == r \notin stop /\ link[r] # "live" /\ Breaks(r, "error")
ListenerFails(r) == r \notin stop /\ r \in listening /\ Breaks(r, "error")

\* Mutant of Wind: the listener is dropped with the worker's closure.
WindOpen(r) ==
  /\ pc[r] = "wind" /\ Go(r, "drain")
  /\ stop' = stop \cup {r} /\ gate' = gate \ {r}
  /\ outcome' = IF r \in committed /\ r \in fatal THEN [outcome EXCEPT ![r] = "error"] ELSE outcome
  /\ UNCHANGED <<registryVars, startVars, listening, link, fatal, connVars, done, permit, waits>>

(* The gate and the listener go before the drain; a start call that has to *)
(* undo its session seals and drains too, and keeps its listener.          *)
Wind(r) ==
  /\ pc[r] = "wind" /\ Go(r, "drain")
  /\ stop' = stop \cup {r} /\ gate' = gate \ {r}
  /\ listening' = IF r \in committed THEN listening \ {r} ELSE listening
  /\ outcome' = IF r \in committed /\ r \in fatal THEN [outcome EXCEPT ![r] = "error"] ELSE outcome
  /\ UNCHANGED <<registryVars, startVars, link, fatal, connVars, done, permit, waits>>

(* wait_for_connections takes all the permits of the run at once.  The     *)
(* polite requests that follow end or time out; the socket is shut anyway. *)
Drain(r) ==
  /\ pc[r] = "drain" /\ TunnelPermits(r) = {}
  /\ Go(r, "reap")
  /\ Wire(r, IF link[r] = "live" THEN "shut" ELSE link[r])
  /\ UNCHANGED <<registryVars, startVars, listening, gate, endVars, connVars, stop, done, permit, waits>>

(* The transport is confirmed closed; only now is the permit released.     *)
Reap(r) ==
  /\ pc[r] = "reap" /\ link[r] \in {"cleaned", "gone"}
  /\ Go(r, IF r \in committed THEN "finish" ELSE "leave")
  /\ IF r \in committed \/ permit[r] = "setup" THEN Hold(r, "none") ELSE UNCHANGED permit
  /\ UNCHANGED <<registryVars, startVars, sessionVars, endVars, connVars, stop, done, waits>>

Finish(r) ==
  /\ pc[r] = "finish" /\ Go(r, "over")
  /\ IF row[of[r]].gen = r
       THEN /\ row' = [row EXCEPT ![of[r]] = [gen |-> r, status |-> outcome[r], owned |-> FALSE]]
            /\ done' = done \cup {<<r, "run">>}
       ELSE UNCHANGED <<row, done>>
  /\ UNCHANGED <<runs, exit, startVars, sessionVars, endVars, connVars, stop, permit, waits>>

----------------------------------------------------------------------------
(* The russh task: external, but for the handler it calls and drops.       *)

LinkDrops(r) ==
  /\ link[r] = "live" /\ Wire(r, "shut")
  /\ UNCHANGED <<registryVars, startVars, listening, gate, endVars, connVars, pc, stop, done, permit, waits>>

(* Handler::disconnected, or the first line of the handler's drop.         *)
LinkCleans(r) ==
  /\ link[r] = "shut" /\ Wire(r, "cleaned")
  /\ UNCHANGED <<registryVars, startVars, listening, gate, endVars, connVars, pc, stop, done, permit, waits>>

(* The handler is gone and with it, if the start call is too, the permit.  *)
LinkGone(r) ==
  /\ link[r] = "cleaned" /\ Wire(r, "gone")
  /\ IF permit[r] = "session" /\ pc[r] \in {"cancel", "over"}
       THEN Hold(r, "none") ELSE UNCHANGED permit
  /\ UNCHANGED <<registryVars, startVars, listening, gate, endVars, connVars, pc, stop, done, waits>>

(* A connection for a bind nobody asked for condemns the tunnel.           *)
WrongBind(r) ==
  /\ r \in gate /\ link[r] = "live"
  /\ fatal' = fatal \cup {r} /\ stop' = stop \cup {r}
  /\ UNCHANGED <<registryVars, startVars, sessionVars, outcome, connVars, pc, done, permit, waits>>

----------------------------------------------------------------------------
(* Forwarded connections.                                                  *)

Put(c, where, permits, r) ==
  /\ at' = [at EXCEPT ![c] = where]
  /\ lease' = [lease EXCEPT ![c] = permits]
  /\ runOf' = [runOf EXCEPT ![c] = r]
Quiet == UNCHANGED <<registryVars, startVars, sessionVars, outcome, pc, done, permit, waits>>

Room(r) == Cardinality(TunnelPermits(r)) < PerTunnel /\ Cardinality(GlobalPermits) < Global

(* The worker accepts: nothing else of the run moves until it has both     *)
(* permits or turned the peer away.                                        *)
Accept(r, c) ==
  /\ pc[r] = "serve" /\ r \in listening /\ r \notin stop
  /\ at[c] = "idle" /\ Room(r)
  /\ Put(c, "open", {"tunnel", "global"}, r)
  /\ Quiet /\ UNCHANGED <<stop, fatal>>

(* The handler of a forwarded connection runs beside the worker: it has    *)
(* looked at the gate and at the stop channel, and takes one at a time.    *)
Knock(r, c) ==
  /\ r \in gate /\ r \notin stop /\ link[r] = "live"
  /\ at[c] = "idle" /\ \A d \in Conns : runOf[d] = r => at[d] \notin {"ask", "asked"}
  /\ Put(c, "ask", {}, r)
  /\ Quiet /\ UNCHANGED <<stop, fatal>>

TakePermits(c) ==
  /\ at[c] = "ask"
  /\ IF Room(runOf[c]) THEN Put(c, "asked", {"tunnel", "global"}, runOf[c])
                       ELSE Put(c, "idle", {}, None)
  /\ Quiet /\ UNCHANGED <<stop, fatal>>

\* Mutant of Recheck: the stop channel was looked at when the peer knocked.
RecheckNothing(c) ==
  at[c] = "asked" /\ Put(c, "open", lease[c], runOf[c]) /\ Quiet /\ UNCHANGED <<stop, fatal>>

(* Stop is looked at once more with both permits in hand.                  *)
Recheck(c) ==
  /\ at[c] = "asked"
  /\ IF runOf[c] \in stop THEN Put(c, "idle", {}, None)
                          ELSE Put(c, "open", lease[c], runOf[c])
  /\ Quiet /\ UNCHANGED <<stop, fatal>>

(* ConnectionLease::drop: the tunnel's own permit goes last.               *)
Leave(c) == Put(c, "leaving", {"tunnel"}, runOf[c])

ConnEnds(c)  == at[c] = "open" /\ Leave(c) /\ Quiet /\ UNCHANGED <<stop, fatal>>
ConnStops(c) == at[c] = "open" /\ runOf[c] \in stop /\ Leave(c) /\ Quiet /\ UNCHANGED <<stop, fatal>>
ConnLeft(c)  == at[c] = "leaving" /\ Put(c, "idle", {}, None) /\ Quiet /\ UNCHANGED <<stop, fatal>>

(* A channel that does not open or close in time condemns the tunnel.      *)
ConnFails(c) ==
  /\ at[c] = "open" /\ Leave(c)
  /\ fatal' = fatal \cup {runOf[c]} /\ stop' = stop \cup {runOf[c]}
  /\ Quiet

----------------------------------------------------------------------------
(* tunnel_stop and stop_all.                                               *)

Channel(t) == <<row[t].gen, IF row[t].status = "starting" THEN "start" ELSE "run">>

Stop(s, t) ==
  /\ waits[s] = None /\ row[t].owned
  /\ waits' = [waits EXCEPT ![s] = Channel(t)]
  /\ stop' = stop \cup {row[t].gen}
  /\ UNCHANGED <<registryVars, startVars, sessionVars, endVars, connVars, pc, done, permit>>

(* The completion is heard, or the wait for it runs out.                   *)
StopReturns(s) ==
  /\ waits[s] # None
  /\ waits' = [waits EXCEPT ![s] = None]
  /\ UNCHANGED <<registryVars, startVars, sessionVars, endVars, connVars, pc, stop, done, permit>>

Seal ==
  /\ exit = "no" /\ exit' = "sealed"
  /\ UNCHANGED <<row, runs, startVars, sessionVars, endVars, connVars, pc, stop, done, permit, waits>>

TellAll ==
  /\ exit = "sealed" /\ exit' = "told"
  /\ stop' = stop \cup {row[t].gen : t \in {u \in Tunnels : row[u].owned}}
  /\ UNCHANGED <<row, runs, startVars, sessionVars, endVars, connVars, pc, done, permit, waits>>

----------------------------------------------------------------------------
StartSteps(r)  == CredentialRead(r) \/ Bind(r) \/ Connect(r) \/ HostAgrees(r)
                  \/ StageFails(r) \/ Commit(r) \/ LeaveStart(r) \/ CancelStart(r)
WorkerSteps(r) == SeesStop(r) \/ HealthTick(r) \/ ListenerFails(r)
                  \/ Wind(r) \/ Drain(r) \/ Reap(r) \/ Finish(r)
LinkSteps(r)   == LinkDrops(r) \/ LinkCleans(r) \/ LinkGone(r) \/ WrongBind(r)
ConnSteps(c)   == TakePermits(c) \/ Recheck(c) \/ ConnEnds(c) \/ ConnStops(c)
                  \/ ConnLeft(c) \/ ConnFails(c)

Next ==
  \/ \E t \in Tunnels, k \in {"local", "remote"} : Start(t, k)
  \/ \E r \in Runs : StartSteps(r) \/ WorkerSteps(r) \/ LinkSteps(r) \/ DetachedJobEnds(r)
  \/ \E r \in Runs, c \in Conns : Accept(r, c) \/ Knock(r, c)
  \/ \E c \in Conns : ConnSteps(c)
  \/ \E s \in Stoppers : StopReturns(s) \/ \E t \in Tunnels : Stop(s, t)
  \/ Seal \/ TellAll

Spec == Init /\ [][Next]_vars

(* Tasks that can go on do and timers fire; the host, its answers, the     *)
(* keyring, the peers, the user and the health of the network owe nothing. *)
Fairness ==
  /\ \A r \in Runs :
       /\ WF_vars(StageFails(r)) /\ WF_vars(Commit(r))
       /\ WF_vars(LeaveStart(r)) /\ WF_vars(CancelStart(r))
       /\ WF_vars(SeesStop(r)) /\ WF_vars(HealthTick(r))
       /\ WF_vars(Wind(r)) /\ WF_vars(Drain(r))
       /\ WF_vars(Reap(r)) /\ WF_vars(Finish(r))
       /\ WF_vars(LinkCleans(r)) /\ WF_vars(LinkGone(r))
  /\ \A c \in Conns :
       WF_vars(TakePermits(c)) /\ WF_vars(Recheck(c)) /\ WF_vars(ConnStops(c)) /\ WF_vars(ConnLeft(c))

FairSpec == Spec /\ Fairness

----------------------------------------------------------------------------
UnderWay(r) == pc[r] \notin {"unused", "over"}

(* An abandoned start leaves its slot to whoever still uses it: the call   *)
(* of the keyring that cannot be cancelled, or the task of the transport   *)
(* that has cleaned up and is about to end (TunnelAdmission).              *)
LeftToOthers(r) == permit[r] = "job" \/ (permit[r] = "session" /\ link[r] = "cleaned")

(* "Becomes true only after the worker has released its listener and SSH   *)
(* session, so a successful Stop command is a safe restart boundary": a    *)
(* run whose completion is published holds no port, transport or served    *)
(* connection, and no slot either, unless its start was abandoned and the  *)
(* slot is left to others.  (ActiveTunnel::completion_tx.)                 *)
RestartBoundary ==
  \A r \in Runs, phase \in {"start", "run"} : <<r, phase>> \in done =>
    /\ r \notin listening /\ r \notin gate
    /\ link[r] \in {"none", "cleaned", "gone"}
    /\ \A c \in Conns : runOf[c] = r => at[c] \notin {"open", "leaving"}
    /\ permit[r] = "none" \/ (phase = "start" /\ LeftToOthers(r))

(* The three semaphores are never overdrawn: a permit travels from the     *)
(* reservation to the job, the setup and the session, and is not copied.   *)
WithinLimits ==
  /\ Cardinality(Admitted) <= MaxActive
  /\ \A r \in Runs : Cardinality(TunnelPermits(r)) <= PerTunnel
  /\ Cardinality(GlobalPermits) <= Global

(* A row is owned exactly while the run it names is under way, and every   *)
(* run under way is named by its tunnel's row: no two runs of a tunnel, no *)
(* phantom row, and no run that Stop cannot reach (owns_worker).           *)
RowHonest ==
  /\ \A t \in Tunnels : row[t].owned <=> row[t].gen # 0 /\ UnderWay(row[t].gen)
  /\ \A r \in Runs : UnderWay(r) => row[of[r]].gen = r

(* Once a run has drained, no connection of it is served and none holds    *)
(* global capacity but one that is about to be refused                     *)
(* (Counters::try_open_connection, ConnectionLease::drop).                 *)
DrainedStaysEmpty ==
  \A c \in Conns : runOf[c] # None /\ pc[runOf[c]] \in {"reap", "finish", "over"} =>
    at[c] \in {"ask", "asked"}

(* Stopping a tunnel means both: what was open is released before Stop     *)
(* returns, and nothing is served that was admitted while it drained.      *)
StopIsFinal == RestartBoundary /\ DrainedStaysEmpty

(* When stop_all is through, every run under way has been told, those that *)
(* were being reserved or committed meanwhile included.                    *)
SealHolds == exit = "told" => \A r \in Runs : UnderWay(r) => r \in stop

(* A row nobody owns shows how the latest run that was committed ended: an *)
(* abandoned start leaves no trace (TunnelStartReservation::drop).         *)
Ended(t) == {r \in committed : of[r] = t /\ pc[r] = "over"}
SummaryKept ==
  \A t \in Tunnels : ~row[t].owned =>
    IF Ended(t) = {} THEN row[t] = NoRow
    ELSE \E r \in Ended(t) :
           /\ \A q \in Ended(t) : q <= r
           /\ row[t] = [gen |-> r, status |-> outcome[r], owned |-> FALSE]

(* The list of tunnels shows what there is, and what there was.            *)
RowsTrue == RowHonest /\ SummaryKept

(* No stop waits on a channel that nobody will write to: commit replaces   *)
(* the row's completion channel only while nobody subscribed to it.        *)
StopHeard ==
  \A s \in Stoppers : waits[s] # None =>
    LET r == waits[s][1] IN
      waits[s] \in done \/ (UnderWay(r) /\ row[of[r]].owned /\ Channel(of[r]) = waits[s])

(* A stop reaches the run it is for, and stop_all every run.               *)
StopReaches == StopHeard /\ SealHolds

(* A run that was told to stop, or whose transport went down while it was  *)
(* served, ends (the stages' deadlines, the health tick and the drain).    *)
RunsEnd ==
  \A r \in Runs :
    (UnderWay(r) /\ (r \in stop \/ (pc[r] = "serve" /\ link[r] # "live"))) ~> (pc[r] = "over")
=============================================================================
