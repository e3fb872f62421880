---------------------------- MODULE RelayServer ----------------------------
(***************************************************************************)
(* The lattice-relay rendezvous server.  An agent registers a device ID on *)
(* a control connection; a viewer dials the ID; the relay invites the      *)
(* agent, which joins the viewer's channel on a third connection; the      *)
(* dialling task then pipes the two sockets together.                      *)
(*                                                                         *)
(* Every accepted connection is one tokio task; it says one first message, *)
(* so a connection is named here by the role its message gives it.  A dial *)
(* draws a random 256-bit channel ID, so a viewer also names its channel.  *)
(* One action is one stretch of a task between two awaits or two locks.    *)
(*                                                                         *)
(* Source: crates/lattice-remote/src/relay_server.rs.                      *)
(***************************************************************************)
EXTENDS RelayRegistry, Sequences

CONSTANTS
  Controls,         \* connections that send Register
  Viewers,          \* connections that send Dial; also their channel IDs
  Joiners,          \* connections that send Join
  MaxConnections,   \* permits of connection_slots
  MaxPendingDials,  \* max_pending_dials
  InviteCap,        \* capacity of an agent's invite queue
  MaxRestarts       \* bound: relay processes killed and started again

Conns == Controls \cup Viewers \cup Joiners

ASSUME RelayAssumption ==
  /\ None \notin Conns
  /\ Controls \cap Viewers = {} /\ Controls \cap Joiners = {}
  /\ Viewers \cap Joiners = {}
  /\ {MaxConnections, MaxPendingDials, InviteCap, MaxRestarts} \subseteq Nat

VARIABLES
  pc,              \* where each connection's task is
  device,          \* the device ID its first message named
  token,           \* the token a Register or Join presented
  agents,          \* RelayState.agents: a device's control connection
  gen,             \* the generation a control connection drew
  generations,     \* RelayState.generations
  cancelled,       \* control connections whose cancel oneshot has fired
  invites,         \* the queue between dial handlers and the forwarder
  offered,         \* channels an Invite was written for
  target,          \* the invite sender a dial handler cloned
  joins,           \* DialState.joins: channel -> device still waiting
  deviceChannels,  \* DialState.device_channels
  channel,         \* the channel whose oneshot sender a joiner took
  answer,          \* the JoinedTransport in, or out of, a dial's oneshot
  slots,           \* free permits of connection_slots
  gone,            \* linked peers that have closed their side
  restarts         \* relay restarts so far

controlVars == <<agents, gen, generations, cancelled, offered>>
dialVars    == <<joins, deviceChannels, answer>>
vars == <<registryVars, pc, device, token, controlVars, invites, target,
          dialVars, channel, slots, gone, restarts>>

ControlStates == {"new", "first", "claimed", "registered", "numbered",
                  "control", "leaving", "closed"}
ViewerStates  == {"new", "first", "found", "reserved", "invited", "answered",
                  "agentTold", "linked", "releasing", "closed"}
JoinerStates  == {"new", "first", "taken", "handed", "closed"}

Maybe(S) == S \cup {None}

TypeOK ==
  /\ RegistryTypeOK
  /\ pc \in [Conns -> ControlStates \cup ViewerStates \cup JoinerStates]
  /\ \A c \in Controls : pc[c] \in ControlStates
  /\ \A v \in Viewers : pc[v] \in ViewerStates
  /\ \A j \in Joiners : pc[j] \in JoinerStates
  /\ device \in [Conns -> Maybe(Devices)]
  /\ token \in [Conns -> Maybe(Tokens)]
  /\ agents \in [Devices -> Maybe(Controls)]
  /\ gen \in [Controls -> Nat]
  /\ generations \in Nat
  /\ cancelled \subseteq Controls
  /\ invites \in [Controls -> Seq(Viewers)]
  /\ offered \subseteq Viewers
  /\ target \in [Viewers -> Maybe(Controls)]
  /\ joins \in [Viewers -> Maybe(Devices)]
  /\ deviceChannels \in [Devices -> Maybe(Viewers)]
  /\ channel \in [Joiners -> Maybe(Viewers)]
  /\ answer \in [Viewers -> Maybe(Joiners)]
  /\ slots \in Nat
  /\ gone \subseteq Viewers \cup Joiners
  /\ restarts \in Nat

Init ==
  /\ RegistryInit
  /\ pc = [c \in Conns |-> "new"]
  /\ device = [c \in Conns |-> None]
  /\ token = [c \in Conns |-> None]
  /\ agents = [d \in Devices |-> None]
  /\ gen = [c \in Controls |-> 0]
  /\ generations = 0
  /\ cancelled = {}
  /\ invites = [c \in Controls |-> <<>>]
  /\ offered = {}
  /\ target = [v \in Viewers |-> None]
  /\ joins = [v \in Viewers |-> None]
  /\ deviceChannels = [d \in Devices |-> None]
  /\ channel = [j \in Joiners |-> None]
  /\ answer = [v \in Viewers |-> None]
  /\ slots = MaxConnections
  /\ gone = {}
  /\ restarts = 0

Goto(c, from, to) == pc[c] = from /\ pc' = [pc EXCEPT ![c] = to]

KeepPermit(c, from) == Goto(c, from, "closed") /\ UNCHANGED slots      \* mutant

(* The task returns: its socket and its connection permit are dropped. *)
Close(c, from) == Goto(c, from, "closed") /\ slots' = slots + 1

----------------------------------------------------------------------------
(* run, and the head of run_connection: every role. *)

Accept(c) ==
  /\ slots > 0
  /\ Goto(c, "new", "first")
  /\ slots' = slots - 1
  /\ UNCHANGED <<registryVars, device, token, controlVars, invites, target,
                 dialVars, channel, gone, restarts>>

Refuse(c) ==                      \* no permit: dropped before negotiation
  /\ slots = 0
  /\ Goto(c, "new", "closed")
  /\ UNCHANGED <<registryVars, device, token, controlVars, invites, target,
                 dialVars, channel, slots, gone, restarts>>

(* Rate limited, a failed handshake, silence, a malformed or invalid first
   message, or a Ping: answered if at all, and closed. *)
EndFirst(c) ==
  /\ Close(c, "first")
  /\ UNCHANGED <<registryVars, device, token, controlVars, invites, target,
                 dialVars, channel, gone, restarts>>

----------------------------------------------------------------------------
(* Register: run_connection, then run_agent_control. *)

Register(c, d, t) ==
  /\ Goto(c, "first", "claimed")
  /\ VerifyOrClaim(d, t)
  /\ device' = [device EXCEPT ![c] = d]
  /\ token' = [token EXCEPT ![c] = t]
  /\ UNCHANGED <<controlVars, invites, target, dialVars, channel, slots,
                 gone, restarts>>

RegisterRefused(c, d, t) ==
  /\ ClaimRefused(d, t)
  /\ Close(c, "first")
  /\ UNCHANGED <<device, token, controlVars, invites, target, dialVars,
                 channel, gone, restarts>>

WriteRegistered(c) ==
  /\ Goto(c, "claimed", "registered")
  /\ Acknowledge(device[c], token[c])
  /\ UNCHANGED <<device, token, controlVars, invites, target, dialVars,
                 channel, slots, gone, restarts>>

WriteRegisteredFails(c) ==
  /\ Close(c, "claimed")
  /\ UNCHANGED <<registryVars, device, token, controlVars, invites, target,
                 dialVars, channel, gone, restarts>>

NextGeneration(c) ==              \* its own lock: not atomic with the insert
  /\ Goto(c, "registered", "numbered")
  /\ generations' = generations + 1
  /\ gen' = [gen EXCEPT ![c] = generations']
  /\ UNCHANGED <<registryVars, device, token, agents, cancelled, offered,
                 invites, target, dialVars, channel, slots, gone, restarts>>

InsertAgent(c) ==
  /\ Goto(c, "numbered", "control")
  /\ agents' = [agents EXCEPT ![device[c]] = c]
  /\ cancelled' = cancelled \cup ({agents[device[c]]} \ {None})
  /\ UNCHANGED <<registryVars, device, token, gen, generations, offered,
                 invites, target, dialVars, channel, slots, gone, restarts>>

Forward(c) ==                     \* the forwarder writes one Invite
  /\ pc[c] = "control" /\ invites[c] # <<>>
  /\ invites' = [invites EXCEPT ![c] = Tail(@)]
  /\ offered' = offered \cup {Head(invites[c])}
  /\ UNCHANGED <<registryVars, pc, device, token, agents, gen, generations,
                 cancelled, target, dialVars, channel, slots, gone, restarts>>

LeaveControl(c) ==
  /\ Goto(c, "control", "leaving")
  /\ UNCHANGED <<registryVars, device, token, controlVars, invites, target,
                 dialVars, channel, slots, gone, restarts>>

(* Replaced by a newer registration: cancel_rx fires. *)
ControlCancelled(c) == c \in cancelled /\ LeaveControl(c)

(* 90 s of silence, a closed or misbehaving agent, a write that failed or
   took longer than CONTROL_WRITE_LIMIT, the forwarder's end. *)
ControlEnds(c) == LeaveControl(c)

StillNamed(c) == agents[device[c]] # None              \* mutant: any entry
Current(c) == agents[device[c]] # None /\ gen[agents[device[c]]] = gen[c]

RemoveAgent(c) ==
  /\ Close(c, "leaving")
  /\ agents' = IF Current(c) THEN [agents EXCEPT ![device[c]] = None] ELSE agents
  /\ UNCHANGED <<registryVars, device, token, gen, generations, cancelled,
                 offered, invites, target, dialVars, channel, gone, restarts>>

----------------------------------------------------------------------------
(* Dial: run_dial. *)

Dial(v, d) ==
  /\ agents[d] # None
  /\ Goto(v, "first", "found")
  /\ device' = [device EXCEPT ![v] = d]
  /\ target' = [target EXCEPT ![v] = agents[d]]
  /\ UNCHANGED <<registryVars, token, controlVars, invites, dialVars,
                 channel, slots, gone, restarts>>

DialOffline(v, d) ==
  /\ agents[d] = None
  /\ Close(v, "first")
  /\ device' = [device EXCEPT ![v] = d]
  /\ UNCHANGED <<registryVars, token, controlVars, invites, target, dialVars,
                 channel, gone, restarts>>

NeverBusy(d) == FALSE             \* mutant: device_channels not consulted
DeviceBusy(d) == deviceChannels[d] # None
DialsFull == Cardinality({v \in Viewers : joins[v] # None}) >= MaxPendingDials

ReserveDial(v) ==
  /\ Goto(v, "found", "reserved")
  /\ ~DeviceBusy(device[v]) /\ ~DialsFull
  /\ deviceChannels' = [deviceChannels EXCEPT ![device[v]] = v]
  /\ joins' = [joins EXCEPT ![v] = device[v]]
  /\ UNCHANGED <<registryVars, device, token, controlVars, invites, target,
                 answer, channel, slots, gone, restarts>>

ReserveRefused(v) ==
  /\ Close(v, "found")
  /\ DeviceBusy(device[v]) \/ DialsFull
  /\ UNCHANGED <<registryVars, device, token, controlVars, invites, target,
                 dialVars, channel, gone, restarts>>

(* try_send on the sender cloned by Dial, which may since have been replaced
   or closed: a receiver lives while its control loop does. *)
Invitable(v) == pc[target[v]] = "control" /\ Len(invites[target[v]]) < InviteCap

SendInvite(v) ==
  /\ Goto(v, "reserved", "invited")
  /\ Invitable(v)
  /\ invites' = [invites EXCEPT ![target[v]] = Append(@, v)]
  /\ UNCHANGED <<registryVars, device, token, controlVars, target, dialVars,
                 channel, slots, gone, restarts>>

InviteRefused(v) ==
  /\ Goto(v, "reserved", "releasing")
  /\ ~Invitable(v)
  /\ UNCHANGED <<registryVars, device, token, controlVars, invites, target,
                 dialVars, channel, slots, gone, restarts>>

TakeAnswer(v) ==
  /\ answer[v] # None
  /\ Goto(v, "invited", "answered")
  /\ UNCHANGED <<registryVars, device, token, controlVars, invites, target,
                 dialVars, channel, slots, gone, restarts>>

NoJoinTimer(v) == FALSE                                \* mutant

(* Mutant: the reservation goes, a transport in the oneshot stays open. *)
ExpiryForgetsAnswer(v) ==
  /\ Goto(v, "invited", "releasing")
  /\ answer' = [answer EXCEPT ![v] = None]
  /\ UNCHANGED <<registryVars, device, token, controlVars, invites, target,
                 joins, deviceChannels, channel, slots, gone, restarts>>

(* JOIN_WAIT_LIMIT: the receiver is dropped, with a transport that reached
   the oneshot between its last poll and its drop. *)
JoinWaitExpires(v) ==
  LET j == answer[v]
  IN /\ pc[v] = "invited"
     /\ pc' = [c \in Conns |-> IF c = v THEN "releasing"
                               ELSE IF c = j THEN "closed" ELSE pc[c]]
     /\ slots' = IF j = None THEN slots ELSE slots + 1
     /\ answer' = [answer EXCEPT ![v] = None]
     /\ UNCHANGED <<registryVars, device, token, controlVars, invites, target,
                    joins, deviceChannels, channel, gone, restarts>>

TellAgent(v) ==                   \* write Linked to the joined transport
  /\ \/ Goto(v, "answered", "agentTold")
     \/ Goto(v, "answered", "releasing")
  /\ UNCHANGED <<registryVars, device, token, controlVars, invites, target,
                 dialVars, channel, slots, gone, restarts>>

TellViewer(v) ==                  \* write Linked to the viewer
  /\ \/ Goto(v, "agentTold", "linked")
     \/ Goto(v, "agentTold", "releasing")
  /\ UNCHANGED <<registryVars, device, token, controlVars, invites, target,
                 dialVars, channel, slots, gone, restarts>>

(* copy_bidirectional returns once both sides are at end of file ... *)
LinkEnds(v) ==
  /\ Goto(v, "linked", "releasing")
  /\ {v, answer[v]} \subseteq gone
  /\ UNCHANGED <<registryVars, device, token, controlVars, invites, target,
                 dialVars, channel, slots, gone, restarts>>

(* ... or at the first read or write error. *)
LinkBreaks(v) ==
  /\ Goto(v, "linked", "releasing")
  /\ UNCHANGED <<registryVars, device, token, controlVars, invites, target,
                 dialVars, channel, slots, gone, restarts>>

(* release_dial, by the drop of DialReservation: each entry only if it is
   still this dial's own. *)
ReleaseReservation(v) ==
  LET d == device[v]
  IN /\ joins' = IF joins[v] = d THEN [joins EXCEPT ![v] = None] ELSE joins
     /\ deviceChannels' = IF deviceChannels[d] = v
                          THEN [deviceChannels EXCEPT ![d] = None]
                          ELSE deviceChannels

(* run_dial returns: the agent transport with its permit, the reservation
   (release_dial) and the viewer's own permit are dropped. *)
ReleaseDial(v) ==
  LET j == answer[v]
  IN /\ pc[v] = "releasing"
     /\ pc' = [c \in Conns |-> IF c \in {v, j} THEN "closed" ELSE pc[c]]
     /\ slots' = IF j = None THEN slots + 1 ELSE slots + 2
     /\ answer' = [answer EXCEPT ![v] = None]
     /\ ReleaseReservation(v)
     /\ UNCHANGED <<registryVars, device, token, controlVars, invites, target,
                    channel, gone, restarts>>

----------------------------------------------------------------------------
(* Join: the last arm of run_connection. *)

(* take_pending_join: the channel is this device's, and is taken once. *)
TakePendingJoin(v, d) == joins[v] = d /\ joins' = [joins EXCEPT ![v] = None]

Join(j, v, d, t) ==
  /\ VerifyOnly(d, t)
  /\ v \in offered /\ TakePendingJoin(v, d)
  /\ Goto(j, "first", "taken")
  /\ device' = [device EXCEPT ![j] = d]
  /\ token' = [token EXCEPT ![j] = t]
  /\ channel' = [channel EXCEPT ![j] = v]
  /\ UNCHANGED <<registryVars, controlVars, invites, target, deviceChannels,
                 answer, slots, gone, restarts>>

JoinRefused(j, v, d, t) ==        \* unauthorized, or the invite expired
  /\ v \in offered
  /\ ~VerifyOnly(d, t) \/ joins[v] # d
  /\ Close(j, "first")
  /\ UNCHANGED <<registryVars, device, token, controlVars, invites, target,
                 dialVars, channel, gone, restarts>>

HandOver(j) ==                    \* channel.send: the receiver still waits
  /\ Goto(j, "taken", "handed")
  /\ pc[channel[j]] \in {"reserved", "invited"}
  /\ answer' = [answer EXCEPT ![channel[j]] = j]
  /\ UNCHANGED <<registryVars, device, token, controlVars, invites, target,
                 joins, deviceChannels, channel, slots, gone, restarts>>

HandOverTooLate(j) ==             \* the receiver is gone: the socket drops
  /\ Close(j, "taken")
  /\ pc[channel[j]] \notin {"reserved", "invited"}
  /\ UNCHANGED <<registryVars, device, token, controlVars, invites, target,
                 dialVars, channel, gone, restarts>>

----------------------------------------------------------------------------
(* The environment. *)

HangUp(c) ==                      \* a linked peer closes its socket
  /\ c \notin gone
  /\ \E v \in Viewers : pc[v] = "linked" /\ c \in {v, answer[v]}
  /\ gone' = gone \cup {c}
  /\ UNCHANGED <<registryVars, pc, device, token, controlVars, invites,
                 target, dialVars, channel, slots, restarts>>

(* A peer that reads end of file closes its own side in turn. *)
FollowHangUp(v) ==
  /\ {v, answer[v]} \cap gone # {}
  /\ \E c \in {v, answer[v]} : HangUp(c)

Restart ==                        \* the relay process dies and is restarted
  /\ restarts < MaxRestarts
  /\ restarts' = restarts + 1
  /\ Reload
  /\ pc' = [c \in Conns |-> IF pc[c] = "new" THEN "new" ELSE "closed"]
  /\ agents' = [d \in Devices |-> None]
  /\ generations' = 0
  /\ joins' = [v \in Viewers |-> None]
  /\ deviceChannels' = [d \in Devices |-> None]
  /\ answer' = [v \in Viewers |-> None]
  /\ slots' = MaxConnections
  /\ UNCHANGED <<device, token, gen, cancelled, offered, invites, target,
                 channel, gone>>

----------------------------------------------------------------------------
ConnStep(c) == Accept(c) \/ Refuse(c) \/ EndFirst(c)

ControlStep(c) ==
  \/ \E d \in Devices, t \in Tokens : Register(c, d, t) \/ RegisterRefused(c, d, t)
  \/ WriteRegistered(c) \/ WriteRegisteredFails(c)
  \/ NextGeneration(c) \/ InsertAgent(c) \/ Forward(c)
  \/ ControlCancelled(c) \/ ControlEnds(c) \/ RemoveAgent(c)

ViewerStep(v) ==
  \/ \E d \in Devices : Dial(v, d) \/ DialOffline(v, d)
  \/ ReserveDial(v) \/ ReserveRefused(v)
  \/ SendInvite(v) \/ InviteRefused(v)
  \/ TakeAnswer(v) \/ JoinWaitExpires(v)
  \/ TellAgent(v) \/ TellViewer(v)
  \/ LinkEnds(v) \/ LinkBreaks(v) \/ ReleaseDial(v)

JoinerStep(j) ==
  \/ \E v \in Viewers, d \in Devices, t \in Tokens :
       Join(j, v, d, t) \/ JoinRefused(j, v, d, t)
  \/ HandOver(j) \/ HandOverTooLate(j)

Next ==
  \/ \E c \in Conns : ConnStep(c)
  \/ \E c \in Controls : ControlStep(c)
  \/ \E v \in Viewers : ViewerStep(v)
  \/ \E j \in Joiners : JoinerStep(j)
  \/ \E c \in Viewers \cup Joiners : HangUp(c)
  \/ Restart

Spec == Init /\ [][Next]_vars

(* Fairness.  tokio runs every ready task and fires every timer, so a task
   that can move does; nobody is obliged to connect, to stay or to leave.  A
   peer that reads end of file closes its side, as the serve loops of
   lattice-agent and the viewer's session loop do. *)
Fairness ==
  /\ \A c \in Conns : WF_vars(EndFirst(c))
  /\ \A c \in Controls :
       /\ WF_vars(WriteRegistered(c) \/ WriteRegisteredFails(c))
       /\ WF_vars(NextGeneration(c)) /\ WF_vars(InsertAgent(c))
       /\ WF_vars(ControlCancelled(c)) /\ WF_vars(RemoveAgent(c))
  /\ \A v \in Viewers :
       /\ WF_vars(ReserveDial(v) \/ ReserveRefused(v))
       /\ WF_vars(SendInvite(v) \/ InviteRefused(v))
       /\ WF_vars(TakeAnswer(v) \/ JoinWaitExpires(v))
       /\ WF_vars(TellAgent(v)) /\ WF_vars(TellViewer(v))
       /\ WF_vars(LinkEnds(v)) /\ WF_vars(ReleaseDial(v))
       /\ WF_vars(FollowHangUp(v))
  /\ \A j \in Joiners : WF_vars(HandOver(j) \/ HandOverTooLate(j))

FairSpec == Spec /\ Fairness

----------------------------------------------------------------------------
(* Properties. *)

(* A dial task that holds, or is giving up, its device's reservation. *)
Dialling(v) ==
  pc[v] \in {"reserved", "invited", "answered", "agentTold", "linked", "releasing"}

(* One dial per device: the device_channels entry and the dial tasks always
   agree, so no two viewers share a device and no entry outlives its dial
   (a leaked entry would answer "busy" for ever). *)
OneDialPerDevice ==
  /\ \A v \in Viewers : Dialling(v) => deviceChannels[device[v]] = v
  /\ \A d \in Devices : deviceChannels[d] # None =>
       Dialling(deviceChannels[d]) /\ device[deviceChannels[d]] = d

(* A pending join belongs to a dial that still holds its reservation, has no
   agent yet, and whose sender no joiner has taken. *)
PendingJoin ==
  \A v \in Viewers : joins[v] # None =>
    /\ Dialling(v) /\ joins[v] = device[v]
    /\ answer[v] = None
    /\ \A j \in Joiners : pc[j] = "taken" => channel[j] # v

(* A joined transport is owned by exactly one dial task, which has not
   returned: neither the socket nor its permit can leak. *)
OneOwnerPerTransport ==
  /\ \A j \in Joiners : pc[j] = "handed" => answer[channel[j]] = j
  /\ \A v \in Viewers : answer[v] # None =>
       Dialling(v) /\ pc[answer[v]] = "handed" /\ channel[answer[v]] = v

(* Whatever a viewer is piped to proved the token that owns the ID the viewer
   dialled, on a relay that could verify it. *)
LinkedToOwner ==
  \A v \in Viewers : pc[v] \in {"answered", "agentTold", "linked"} =>
    LET j == answer[v]
    IN /\ j # None /\ device[j] = device[v]
       /\ healthy /\ tokens[device[v]] = token[j]

(* The token that was acknowledged for a device is the one that is enforced,
   over restarts too, and nobody else is ever linked with a viewer. *)
OwnersServed == AckedOwner /\ LinkedToOwner

(* The permits in use are those of the connections whose socket is open. *)
Open(c) == pc[c] \notin {"new", "closed"}
PermitsConserved == slots + Cardinality({c \in Conns : Open(c)}) = MaxConnections

(* A control loop nobody replaced can be dialled: the table names it.  And
   the table names no connection that is closed or was replaced.  This is
   what the generation check at the end of run_agent_control is for. *)
ReachableControl ==
  /\ \A c \in Controls :
       pc[c] = "control" /\ c \notin cancelled => agents[device[c]] = c
  /\ \A d \in Devices : agents[d] # None =>
       LET c == agents[d]
       IN pc[c] \in {"control", "leaving"} /\ c \notin cancelled /\ device[c] = d

(* The three tables behind the relay's one mutex name only tasks that are
   still there, and every task that counts on being named; and a socket that
   is handed over on the way has one owner. *)
TablesHold ==
  OneDialPerDevice /\ PendingJoin /\ ReachableControl /\ OneOwnerPerTransport

(* Every dial is answered: linked, or told why not. *)
DialResolves ==
  \A v \in Viewers : pc[v] = "found" ~> pc[v] \in {"linked", "closed"}

(* The relay implements the one-attempt-per-device rendezvous. *)
SessionOf(d) ==
  LET v == deviceChannels[d]
  IN [phase |-> IF v = None THEN "free"
                ELSE IF pc[v] \in {"agentTold", "linked"} THEN "linked"
                ELSE IF pc[v] = "releasing" THEN "ending" ELSE "waiting",
      viewer |-> v,
      agent |-> IF v # None /\ pc[v] \in {"agentTold", "linked"}
                THEN answer[v] ELSE None]

Spent == {v \in Viewers : Dialling(v) \/ (pc[v] = "closed" /\ target[v] # None)}

Rendezvous == INSTANCE RelayRendezvous WITH
  session <- [d \in Devices |-> SessionOf(d)], spent <- Spent

RendezvousSpec == Rendezvous!Spec
=============================================================================
