------------------------- MODULE RelayServerProofs -------------------------
(* Machine-checked proofs about RelayServer, for any sets of devices, tokens
   and connections and any limits. *)
EXTENDS RelayServer, FiniteSetTheorems, TLAPS

USE RelayAssumption, RegistryAssumption DEF Conns

(* A task past its first message knows whom it serves: a registered control
   its device and token, a dial its device and the invite sender it cloned, a
   joiner its device, token and channel. *)
Identified ==
  /\ \A c \in Controls : pc[c] \in ControlStates \ {"new", "first", "closed"} =>
       device[c] \in Devices /\ token[c] \in Tokens
  /\ \A v \in Viewers : pc[v] \in ViewerStates \ {"new", "first", "closed"} =>
       device[v] \in Devices /\ target[v] \in Controls
  /\ \A j \in Joiners : pc[j] \in {"taken", "handed"} =>
       device[j] \in Devices /\ token[j] \in Tokens /\ channel[j] \in Viewers

TypeInv == TypeOK /\ Identified

LEMMA TypeStep == TypeInv /\ [Next]_vars => TypeInv'
<1> SUFFICES ASSUME TypeInv, [Next]_vars
             PROVE  TypeInv'
  OBVIOUS
<1> USE DEF TypeInv, Identified, TypeOK, RegistryTypeOK, Maybe, registryVars, controlVars, dialVars,
            ControlStates, ViewerStates, JoinerStates, Goto
<1>1. ASSUME NEW c \in Conns, ConnStep(c)
      PROVE  TypeInv'
  <2>1. CASE Accept(c)
    BY <2>1 DEF Accept
  <2>2. CASE Refuse(c)
    BY <2>2 DEF Refuse
  <2>3. CASE EndFirst(c)
    BY <2>3 DEF EndFirst, Close
  <2> QED BY <1>1, <2>1, <2>2, <2>3 DEF ConnStep
<1>2. ASSUME NEW c \in Controls, ControlStep(c)
      PROVE  TypeInv'
  <2>1. ASSUME NEW d \in Devices, NEW t \in Tokens, Register(c, d, t)
        PROVE  TypeInv'
    <3>1. RegistryTypeOK'
      <4>1. CASE VerifyOwner(d, t)
        BY <4>1 DEF VerifyOwner
      <4>2. CASE ClaimNew(d, t)
        BY <4>2 DEF ClaimNew, SaveTokens
      <4> QED BY <2>1, <4>1, <4>2 DEF Register, VerifyOrClaim
    <3>2. TypeOK'
      BY <2>1, <3>1 DEF Register
    <3> QED BY <2>1, <3>2 DEF Register
  <2>2. ASSUME NEW d \in Devices, NEW t \in Tokens, RegisterRefused(c, d, t)
        PROVE  TypeInv'
    BY <2>2 DEF RegisterRefused, ClaimRefused, Close
  <2>3. CASE WriteRegistered(c)
    <3>1. device[c] \in Devices /\ token[c] \in Tokens
      BY <2>3 DEF WriteRegistered
    <3>2. RegistryTypeOK'
      BY <2>3, <3>1 DEF WriteRegistered, Acknowledge
    <3> QED BY <2>3, <3>2 DEF WriteRegistered
  <2>4. CASE WriteRegisteredFails(c)
    BY <2>4 DEF WriteRegisteredFails, Close
  <2>5. CASE NextGeneration(c)
    BY <2>5 DEF NextGeneration
  <2>6. CASE InsertAgent(c)
    <3>1. agents' \in [Devices -> Maybe(Controls)]
      BY <2>6 DEF InsertAgent
    <3>2. device[c] \in Devices /\ agents[device[c]] \in Maybe(Controls)
      BY <2>6 DEF InsertAgent
    <3>3. cancelled' \subseteq Controls
      BY <2>6, <3>2 DEF InsertAgent
    <3> QED BY <2>6, <3>1, <3>3 DEF InsertAgent
  <2>7. CASE Forward(c)
    BY <2>7 DEF Forward
  <2>8. CASE ControlCancelled(c) \/ ControlEnds(c)
    <3>1. LeaveControl(c)
      BY <2>8 DEF ControlCancelled, ControlEnds
    <3>2. pc' = [pc EXCEPT ![c] = "leaving"]
          /\ UNCHANGED <<registryVars, device, token, controlVars, invites, target,
                         dialVars, channel, slots, gone, restarts>>
      BY <3>1 DEF LeaveControl
    <3>3. pc'[c] \in ControlStates /\ \A d \in Conns : d # c => pc'[d] = pc[d]
      BY <3>2
    <3> QED BY <3>2, <3>3, <3>1 DEF LeaveControl
  <2>9. CASE RemoveAgent(c)
    <3>1. agents' \in [Devices -> Maybe(Controls)]
      BY <2>9 DEF RemoveAgent
    <3> QED BY <2>9, <3>1 DEF RemoveAgent, Close
  <2> QED BY <1>2, <2>1, <2>2, <2>3, <2>4, <2>5, <2>6, <2>7, <2>8, <2>9 DEF ControlStep
<1>3. ASSUME NEW v \in Viewers, ViewerStep(v)
      PROVE  TypeInv'
  <2>1. ASSUME NEW d \in Devices, Dial(v, d)
        PROVE  TypeInv'
    BY <2>1 DEF Dial
  <2>2. ASSUME NEW d \in Devices, DialOffline(v, d)
        PROVE  TypeInv'
    BY <2>2 DEF DialOffline, Close
  <2>3. CASE ReserveDial(v)
    BY <2>3 DEF ReserveDial
  <2>4. CASE ReserveRefused(v)
    BY <2>4 DEF ReserveRefused, Close
  <2>5. CASE SendInvite(v)
    <3>1. target[v] \in Controls
      BY <2>5 DEF SendInvite
    <3>2. invites' \in [Controls -> Seq(Viewers)]
      BY <2>5, <3>1 DEF SendInvite
    <3> QED BY <2>5, <3>2 DEF SendInvite
  <2>6. CASE InviteRefused(v)
    BY <2>6 DEF InviteRefused
  <2>7. CASE TakeAnswer(v) \/ TellAgent(v) \/ TellViewer(v) \/ LinkEnds(v) \/ LinkBreaks(v)
    <3>1. PICK p \in {"invited", "answered", "agentTold", "linked"},
               q \in {"answered", "agentTold", "linked", "releasing"} : Goto(v, p, q)
      BY <2>7 DEF TakeAnswer, TellAgent, TellViewer, LinkEnds, LinkBreaks
    <3>2. UNCHANGED <<registryVars, device, token, controlVars, invites, target,
                      dialVars, channel, slots, gone, restarts>>
      BY <2>7 DEF TakeAnswer, TellAgent, TellViewer, LinkEnds, LinkBreaks
    <3> QED BY <3>1, <3>2
  <2>8. CASE JoinWaitExpires(v)
    <3>1. pc' = [c \in Conns |-> IF c = v THEN "releasing"
                                 ELSE IF c = answer[v] THEN "closed" ELSE pc[c]]
      BY <2>8 DEF JoinWaitExpires
    <3>2. slots' \in Nat /\ answer' \in [Viewers -> Maybe(Joiners)]
      BY <2>8 DEF JoinWaitExpires
    <3>3. UNCHANGED <<registryVars, device, token, controlVars, invites, target,
                      joins, deviceChannels, channel, gone, restarts>>
      BY <2>8 DEF JoinWaitExpires
    <3>4. pc[v] = "invited"
      BY <2>8 DEF JoinWaitExpires
    <3>5. TypeOK'
      BY <3>1, <3>2, <3>3
    <3>6. Identified'
      BY <3>1, <3>3, <3>4
    <3> QED BY <3>5, <3>6
  <2>9. CASE ReleaseDial(v)
    <3>1. joins' \in [Viewers -> Maybe(Devices)]
      BY <2>9 DEF ReleaseDial, ReleaseReservation
    <3>2. deviceChannels' \in [Devices -> Maybe(Viewers)]
      BY <2>9 DEF ReleaseDial, ReleaseReservation
    <3>3. pc' = [c \in Conns |-> IF c \in {v, answer[v]} THEN "closed" ELSE pc[c]]
      BY <2>9 DEF ReleaseDial
    <3>4. UNCHANGED <<registryVars, device, token, controlVars, invites, target,
                      channel, gone, restarts>>
      BY <2>9 DEF ReleaseDial
    <3>5. slots' \in Nat /\ answer' \in [Viewers -> Maybe(Joiners)]
      BY <2>9 DEF ReleaseDial
    <3>6. TypeOK'
      BY <3>1, <3>2, <3>3, <3>4, <3>5
    <3>7. Identified'
      BY <3>3, <3>4
    <3> QED BY <3>6, <3>7
  <2> QED BY <1>3, <2>1, <2>2, <2>3, <2>4, <2>5, <2>6, <2>7, <2>8, <2>9 DEF ViewerStep
<1>4. ASSUME NEW j \in Joiners, JoinerStep(j)
      PROVE  TypeInv'
  <2>1. ASSUME NEW v \in Viewers, NEW d \in Devices, NEW t \in Tokens, Join(j, v, d, t)
        PROVE  TypeInv'
    BY <2>1 DEF Join, TakePendingJoin
  <2>2. ASSUME NEW v \in Viewers, NEW d \in Devices, NEW t \in Tokens, JoinRefused(j, v, d, t)
        PROVE  TypeInv'
    BY <2>2 DEF JoinRefused, Close
  <2>3. CASE HandOver(j)
    BY <2>3 DEF HandOver
  <2>4. CASE HandOverTooLate(j)
    BY <2>4 DEF HandOverTooLate, Close
  <2> QED BY <1>4, <2>1, <2>2, <2>3, <2>4 DEF JoinerStep
<1>5. ASSUME NEW c \in Viewers \cup Joiners, HangUp(c)
      PROVE  TypeInv'
  BY <1>5 DEF HangUp
<1>6. CASE Restart
  <2>1. RegistryTypeOK'
    BY <1>6 DEF Restart, Reload, Unclaimed
  <2>2. \A c \in Conns : pc'[c] \in {"new", "closed"}
    BY <1>6 DEF Restart
  <2>3. pc' \in [Conns -> {"new", "closed"}]
    BY <1>6 DEF Restart
  <2>4. Identified'
    BY <2>2
  <2>5. TypeOK'
    BY <1>6, <2>1, <2>2, <2>3 DEF Restart
  <2> QED BY <2>4, <2>5
<1>7. CASE UNCHANGED vars
  BY <1>7 DEF vars
<1> QED BY <1>1, <1>2, <1>3, <1>4, <1>5, <1>6, <1>7 DEF Next

(* Every state of the relay is well typed: in particular connection permits
   are never overdrawn and a dial's oneshot holds only joined transports. *)
THEOREM TypeCorrect == Spec => []TypeOK
<1>1. Init => TypeInv
  BY DEF Init, RegistryInit, Unclaimed, TypeInv, Identified, TypeOK,
         RegistryTypeOK, Maybe, ControlStates, ViewerStates, JoinerStates
<1>2. TypeInv => TypeOK
  BY DEF TypeInv
<1> QED BY <1>1, <1>2, TypeStep, PTL DEF Spec

----------------------------------------------------------------------------
(* Dials, reservations and joined transports. *)

(* A joiner that took a dial's oneshot sender is the only one that did, and
   the dial had reserved its device by then. *)
Taken(j) == pc[j] \in {"taken", "handed"}

SoleTaker ==
  /\ \A j \in Joiners : Taken(j) => pc[channel[j]] \notin {"new", "first", "found"}
  /\ \A j, k \in Joiners : Taken(j) /\ Taken(k) /\ channel[j] = channel[k] => j = k

DialInv == OneDialPerDevice /\ PendingJoin /\ OneOwnerPerTransport /\ SoleTaker

(* A step that moves no dial and no joiner within its states, and leaves the
   reservation tables alone, preserves DialInv. *)
LEMMA DialFrame ==
  ASSUME TypeInv, DialInv, NEW c \in Conns,
         \/ c \in Controls
         \/ pc[c] \in {"new", "first", "found"} /\ pc'[c] \in {"first", "found", "closed"},
         \A x \in Conns : x # c => pc'[x] = pc[x] /\ device'[x] = device[x],
         UNCHANGED <<joins, deviceChannels, answer, channel>>
  PROVE  DialInv'
<1>0. \A x \in Viewers \cup Joiners :
        \/ pc'[x] = pc[x] /\ device'[x] = device[x]
        \/ pc[x] \in {"new", "first", "found"} /\ pc'[x] \in {"first", "found", "closed"}
  OBVIOUS
<1>3. \A j \in Joiners : /\ pc'[j] = "taken" <=> pc[j] = "taken"
                         /\ pc'[j] = "handed" <=> pc[j] = "handed"
  BY <1>0
<1>4. /\ \A d \in Devices : deviceChannels[d] \in Maybe(Viewers)
      /\ \A j \in Joiners : Taken(j) => channel[j] \in Viewers
      /\ \A v \in Viewers : answer[v] \in Maybe(Joiners)
  BY DEF TypeInv, TypeOK, Identified, Taken
<1>5. OneDialPerDevice'
  BY <1>0, <1>4 DEF DialInv, OneDialPerDevice, Dialling, Maybe
<1>6. PendingJoin'
  BY <1>0, <1>3 DEF DialInv, PendingJoin, Dialling
<1>7. OneOwnerPerTransport'
  BY <1>0, <1>3, <1>4 DEF DialInv, OneOwnerPerTransport, Dialling, Maybe
<1>8. SoleTaker'
  BY <1>0, <1>3, <1>4 DEF DialInv, SoleTaker, Taken
<1> QED BY <1>5, <1>6, <1>7, <1>8 DEF DialInv

(* A dial that moves from one reserving state to another. *)
DialStates == {"reserved", "invited", "answered", "agentTold", "linked", "releasing"}

LEMMA DialMove ==
  ASSUME TypeInv, DialInv, NEW v \in Viewers, pc[v] \in DialStates, pc'[v] \in DialStates,
         \A x \in Conns : x # v => pc'[x] = pc[x],
         UNCHANGED <<device, joins, deviceChannels, answer, channel>>
  PROVE  DialInv'
<1>1. \A x \in Viewers \cup Joiners :
        pc'[x] = pc[x] \/ (x \in Viewers /\ pc[x] \in DialStates /\ pc'[x] \in DialStates)
  OBVIOUS
<1>2. \A j \in Joiners : pc'[j] = pc[j]
  OBVIOUS
<1>3. /\ \A d \in Devices : deviceChannels[d] \in Maybe(Viewers)
      /\ \A j \in Joiners : Taken(j) => channel[j] \in Viewers
      /\ \A w \in Viewers : answer[w] \in Maybe(Joiners)
  BY DEF TypeInv, TypeOK, Identified, Taken
<1>4. OneDialPerDevice'
  BY <1>1, <1>3 DEF DialInv, OneDialPerDevice, Dialling, Maybe, DialStates
<1>5. PendingJoin'
  BY <1>1, <1>2 DEF DialInv, PendingJoin, Dialling, DialStates
<1>6. OneOwnerPerTransport'
  BY <1>1, <1>2, <1>3 DEF DialInv, OneOwnerPerTransport, Dialling, Maybe, DialStates
<1>7. SoleTaker'
  BY <1>1, <1>2, <1>3 DEF DialInv, SoleTaker, Taken, DialStates
<1> QED BY <1>4, <1>5, <1>6, <1>7 DEF DialInv

(* Typing, in the form the steps below use it. *)
LEMMA DialTypes ==
  ASSUME TypeInv
  PROVE  /\ pc \in [Conns -> ControlStates \cup ViewerStates \cup JoinerStates]
         /\ \A d \in Devices : deviceChannels[d] \in Maybe(Viewers)
         /\ \A v \in Viewers : joins[v] \in Maybe(Devices) /\ answer[v] \in Maybe(Joiners)
         /\ \A j \in Joiners : Taken(j) => channel[j] \in Viewers /\ device[j] \in Devices
         /\ \A v \in Viewers : Dialling(v) \/ pc[v] = "found" => device[v] \in Devices
         /\ DOMAIN device = Conns /\ DOMAIN joins = Viewers /\ DOMAIN answer = Viewers
         /\ DOMAIN deviceChannels = Devices /\ DOMAIN channel = Joiners
BY DEF TypeInv, TypeOK, Identified, Taken, Dialling, ViewerStates

LEMMA ReserveDialStep ==
  ASSUME TypeInv, DialInv, NEW v \in Viewers, ReserveDial(v)
  PROVE  DialInv'
<1> USE DEF ReserveDial, Goto, dialVars
<1>1. /\ device[v] \in Devices /\ pc[v] = "found" /\ answer[v] = None
      /\ \A j \in Joiners : Taken(j) => channel[j] # v
  BY DialTypes DEF DialInv, OneOwnerPerTransport, Dialling, SoleTaker
<1>2. /\ \A x \in Conns : pc'[x] = IF x = v THEN "reserved" ELSE pc[x]
      /\ \A w \in Viewers : joins'[w] = IF w = v THEN device[v] ELSE joins[w]
      /\ \A d \in Devices : deviceChannels'[d] = IF d = device[v] THEN v ELSE deviceChannels[d]
      /\ UNCHANGED <<device, answer, channel>>
  BY DialTypes
<1>3. deviceChannels[device[v]] = None
  BY DEF DeviceBusy
<1> HIDE DEF ReserveDial
<1>4. OneDialPerDevice'
  BY <1>1, <1>2, <1>3, DialTypes DEF DialInv, OneDialPerDevice, Dialling, Maybe
<1>5. PendingJoin'
  BY <1>1, <1>2, DialTypes DEF DialInv, PendingJoin, Dialling, Taken
<1>6. OneOwnerPerTransport'
  BY <1>1, <1>2, DialTypes DEF DialInv, OneOwnerPerTransport, Dialling, Maybe
<1>7. SoleTaker'
  BY <1>1, <1>2, DialTypes DEF DialInv, SoleTaker, Taken
<1> QED BY <1>4, <1>5, <1>6, <1>7 DEF DialInv

LEMMA JoinWaitExpiresStep ==
  ASSUME TypeInv, DialInv, NEW v \in Viewers, JoinWaitExpires(v)
  PROVE  DialInv'
<1>1. /\ pc[v] = "invited"
      /\ \A x \in Conns : pc'[x] = IF x = v THEN "releasing"
                                  ELSE IF x = answer[v] THEN "closed" ELSE pc[x]
      /\ \A w \in Viewers : answer'[w] = IF w = v THEN None ELSE answer[w]
      /\ UNCHANGED <<device, joins, deviceChannels, channel>>
  BY DialTypes DEF JoinWaitExpires
<1>2. \A x \in Conns : x = answer[v] => x \in Joiners /\ pc[x] = "handed" /\ channel[x] = v
  BY DialTypes DEF DialInv, OneOwnerPerTransport, Maybe
<1>3. OneDialPerDevice'
  BY <1>1, <1>2, DialTypes DEF DialInv, OneDialPerDevice, Dialling, Maybe
<1>4. PendingJoin'
  BY <1>1, <1>2, DialTypes DEF DialInv, PendingJoin, Dialling
<1>5. OneOwnerPerTransport'
  BY <1>1, <1>2, DialTypes DEF DialInv, OneOwnerPerTransport, Dialling, Maybe, Taken
<1>6. SoleTaker'
  BY <1>1, <1>2, DialTypes DEF DialInv, SoleTaker, Taken
<1> QED BY <1>3, <1>4, <1>5, <1>6 DEF DialInv

LEMMA ReleaseDialStep ==
  ASSUME TypeInv, DialInv, NEW v \in Viewers, ReleaseDial(v)
  PROVE  DialInv'
<1>1. pc[v] = "releasing" /\ device[v] \in Devices /\ deviceChannels[device[v]] = v
  BY DialTypes DEF ReleaseDial, DialInv, OneDialPerDevice, Dialling
<1>2. joins[v] \in {None, device[v]}
  BY <1>1, DialTypes DEF DialInv, PendingJoin
<1>3. \A w \in Viewers : joins'[w] = IF w = v THEN None ELSE joins[w]
  BY <1>1, <1>2, DialTypes DEF ReleaseDial, ReleaseReservation
<1>4. \A d \in Devices : deviceChannels'[d] = IF d = device[v] THEN None ELSE deviceChannels[d]
  BY <1>1, DialTypes DEF ReleaseDial, ReleaseReservation
<1>5. /\ \A x \in Conns : pc'[x] = IF x = v \/ x = answer[v] THEN "closed" ELSE pc[x]
      /\ \A w \in Viewers : answer'[w] = IF w = v THEN None ELSE answer[w]
      /\ UNCHANGED <<device, channel>>
  BY DialTypes DEF ReleaseDial
<1>6. \A x \in Conns : x = answer[v] => x \in Joiners /\ pc[x] = "handed" /\ channel[x] = v
  BY DialTypes DEF DialInv, OneOwnerPerTransport, Maybe
<1>7. OneDialPerDevice'
  BY <1>1, <1>4, <1>5, <1>6, DialTypes DEF DialInv, OneDialPerDevice, Dialling, Maybe
<1>8. PendingJoin'
  BY <1>3, <1>5, <1>6, DialTypes DEF DialInv, PendingJoin, Dialling
<1>9. OneOwnerPerTransport'
  BY <1>5, <1>6, DialTypes DEF DialInv, OneOwnerPerTransport, Dialling, Maybe, Taken
<1>10. SoleTaker'
  BY <1>1, <1>5, <1>6, DialTypes DEF DialInv, SoleTaker, Taken
<1> QED BY <1>7, <1>8, <1>9, <1>10 DEF DialInv

LEMMA JoinStep ==
  ASSUME TypeInv, DialInv, NEW j \in Joiners, NEW v \in Viewers, NEW d \in Devices,
         NEW t \in Tokens, Join(j, v, d, t)
  PROVE  DialInv'
<1>1. joins[v] = d /\ pc[j] = "first"
  BY DEF Join, TakePendingJoin, Goto
<1>2. /\ \A x \in Conns : pc'[x] = IF x = j THEN "taken" ELSE pc[x]
      /\ \A x \in Conns : x # j => device'[x] = device[x]
      /\ \A k \in Joiners : channel'[k] = IF k = j THEN v ELSE channel[k]
      /\ \A w \in Viewers : joins'[w] = IF w = v THEN None ELSE joins[w]
      /\ UNCHANGED <<deviceChannels, answer>>
  BY DialTypes DEF Join, TakePendingJoin, Goto
<1>3. Dialling(v) /\ answer[v] = None /\ \A k \in Joiners : Taken(k) => channel[k] # v
  BY <1>1 DEF DialInv, PendingJoin, OneOwnerPerTransport, Taken
<1>4. OneDialPerDevice'
  BY <1>1, <1>2, DialTypes DEF DialInv, OneDialPerDevice, Dialling, Maybe
<1>5. PendingJoin'
  BY <1>1, <1>2, DialTypes DEF DialInv, PendingJoin, Dialling
<1>6. OneOwnerPerTransport'
  BY <1>1, <1>2, DialTypes DEF DialInv, OneOwnerPerTransport, Dialling, Maybe
<1>7. SoleTaker'
  BY <1>1, <1>2, <1>3, DialTypes DEF DialInv, SoleTaker, Taken, Dialling
<1> QED BY <1>4, <1>5, <1>6, <1>7 DEF DialInv

LEMMA HandOverStep ==
  ASSUME TypeInv, DialInv, NEW j \in Joiners, HandOver(j)
  PROVE  DialInv'
<1> DEFINE v == channel[j]
<1>1. pc[j] = "taken" /\ v \in Viewers /\ pc[v] \in {"reserved", "invited"}
  BY DialTypes DEF HandOver, Goto, Taken
<1>2. /\ \A x \in Conns : pc'[x] = IF x = j THEN "handed" ELSE pc[x]
      /\ \A w \in Viewers : answer'[w] = IF w = v THEN j ELSE answer[w]
      /\ UNCHANGED <<device, joins, deviceChannels, channel>>
  BY DialTypes DEF HandOver, Goto
<1>3. joins[v] = None
  BY <1>1 DEF DialInv, PendingJoin
<1>4. answer[v] = None
  BY <1>1, DialTypes DEF DialInv, OneOwnerPerTransport, SoleTaker, Taken, Maybe
<1>5. \A k \in Joiners : Taken(k) /\ channel[k] = v => k = j
  BY <1>1 DEF DialInv, SoleTaker, Taken
<1> HIDE DEF v
<1>6. OneDialPerDevice'
  BY <1>1, <1>2, DialTypes DEF DialInv, OneDialPerDevice, Dialling, Maybe
<1>7. PendingJoin'
  BY <1>1, <1>2, <1>3, DialTypes DEF DialInv, PendingJoin, Dialling
<1>8. OneOwnerPerTransport'
  BY <1>1, <1>2, <1>4, <1>5, DialTypes
     DEF DialInv, OneOwnerPerTransport, Dialling, Maybe, Taken, v
<1>9. SoleTaker'
  BY <1>1, <1>2, DialTypes DEF DialInv, SoleTaker, Taken
<1> QED BY <1>6, <1>7, <1>8, <1>9 DEF DialInv

LEMMA HandOverTooLateStep ==
  ASSUME TypeInv, DialInv, NEW j \in Joiners, HandOverTooLate(j)
  PROVE  DialInv'
<1>1. /\ pc[j] = "taken"
      /\ \A x \in Conns : pc'[x] = IF x = j THEN "closed" ELSE pc[x]
      /\ UNCHANGED <<device, joins, deviceChannels, answer, channel>>
  BY DialTypes DEF HandOverTooLate, Close, Goto, dialVars
<1>2. OneDialPerDevice'
  BY <1>1, DialTypes DEF DialInv, OneDialPerDevice, Dialling, Maybe
<1>3. PendingJoin'
  BY <1>1, DialTypes DEF DialInv, PendingJoin, Dialling
<1>4. OneOwnerPerTransport'
  BY <1>1, DialTypes DEF DialInv, OneOwnerPerTransport, Dialling, Maybe
<1>5. SoleTaker'
  BY <1>1, DialTypes DEF DialInv, SoleTaker, Taken
<1> QED BY <1>2, <1>3, <1>4, <1>5 DEF DialInv

LEMMA RestartStep == Restart => DialInv'
<1> SUFFICES ASSUME Restart
             PROVE  DialInv'
  OBVIOUS
<1>1. /\ \A x \in Conns : pc'[x] \in {"new", "closed"}
      /\ \A d \in Devices : deviceChannels'[d] = None
      /\ \A v \in Viewers : joins'[v] = None /\ answer'[v] = None
  BY DEF Restart
<1> QED BY <1>1 DEF DialInv, OneDialPerDevice, PendingJoin, OneOwnerPerTransport,
                    SoleTaker, Dialling, Taken

LEMMA DialStep == TypeInv /\ DialInv /\ [Next]_vars => DialInv'
<1> SUFFICES ASSUME TypeInv, DialInv, [Next]_vars
             PROVE  DialInv'
  OBVIOUS
<1> USE DEF Goto, Close, dialVars, controlVars
<1>1. ASSUME NEW c \in Conns, ConnStep(c)
      PROVE  DialInv'
  BY <1>1, DialFrame, DialTypes DEF ConnStep, Accept, Refuse, EndFirst
<1>2. ASSUME NEW c \in Controls, ControlStep(c)
      PROVE  DialInv'
  <2>1. UNCHANGED <<joins, deviceChannels, answer, channel>>
    BY <1>2 DEF ControlStep, Register, RegisterRefused, WriteRegistered, WriteRegisteredFails,
         NextGeneration, InsertAgent, Forward, ControlCancelled, ControlEnds, LeaveControl,
         RemoveAgent
  <2>2. \A x \in Conns : x # c => pc'[x] = pc[x]
    BY <1>2, DialTypes DEF ControlStep, Register, RegisterRefused, WriteRegistered,
         WriteRegisteredFails, NextGeneration, InsertAgent, Forward, ControlCancelled,
         ControlEnds, LeaveControl, RemoveAgent
  <2>3. \A x \in Conns : x # c => device'[x] = device[x]
    BY <1>2, DialTypes DEF ControlStep, Register, RegisterRefused, WriteRegistered,
         WriteRegisteredFails, NextGeneration, InsertAgent, Forward, ControlCancelled,
         ControlEnds, LeaveControl, RemoveAgent
  <2> QED BY <2>1, <2>2, <2>3, DialFrame
<1>3. ASSUME NEW v \in Viewers, ViewerStep(v)
      PROVE  DialInv'
  <2>1. CASE \E d \in Devices : Dial(v, d) \/ DialOffline(v, d)
    BY <2>1, DialFrame, DialTypes DEF Dial, DialOffline
  <2>2. CASE ReserveDial(v)
    BY <2>2, ReserveDialStep
  <2>3. CASE ReserveRefused(v)
    BY <2>3, DialFrame, DialTypes DEF ReserveRefused
  <2>4. CASE \/ SendInvite(v) \/ InviteRefused(v) \/ TakeAnswer(v) \/ TellAgent(v)
             \/ TellViewer(v) \/ LinkEnds(v) \/ LinkBreaks(v)
    <3>1. /\ pc[v] \in DialStates /\ pc'[v] \in DialStates
          /\ \A x \in Conns : x # v => pc'[x] = pc[x]
      BY <2>4, DialTypes DEF SendInvite, InviteRefused, TakeAnswer, TellAgent, TellViewer,
           LinkEnds, LinkBreaks, DialStates
    <3>2. UNCHANGED <<device, joins, deviceChannels, answer, channel>>
      BY <2>4 DEF SendInvite, InviteRefused, TakeAnswer, TellAgent, TellViewer, LinkEnds,
           LinkBreaks
    <3> QED BY <3>1, <3>2, DialMove
  <2>5. CASE JoinWaitExpires(v)
    BY <2>5, JoinWaitExpiresStep
  <2>6. CASE ReleaseDial(v)
    BY <2>6, ReleaseDialStep
  <2> QED BY <1>3, <2>1, <2>2, <2>3, <2>4, <2>5, <2>6 DEF ViewerStep
<1>4. ASSUME NEW j \in Joiners, JoinerStep(j)
      PROVE  DialInv'
  <2>1. ASSUME NEW v \in Viewers, NEW d \in Devices, NEW t \in Tokens,
               Join(j, v, d, t) \/ JoinRefused(j, v, d, t)
        PROVE  DialInv'
    BY <2>1, JoinStep, DialFrame, DialTypes DEF JoinRefused
  <2>2. CASE HandOver(j)
    BY <2>2, HandOverStep
  <2>3. CASE HandOverTooLate(j)
    BY <2>3, HandOverTooLateStep
  <2> QED BY <1>4, <2>1, <2>2, <2>3 DEF JoinerStep
<1>5. CASE (\E c \in Viewers \cup Joiners : HangUp(c)) \/ UNCHANGED vars
  BY <1>5 DEF HangUp, vars, DialInv, OneDialPerDevice, PendingJoin, OneOwnerPerTransport,
              SoleTaker, Dialling, Taken
<1> QED BY <1>1, <1>2, <1>3, <1>4, <1>5, RestartStep DEF Next

LEMMA DialInvariant == Spec => [](TypeInv /\ DialInv)
<1>1. Init => TypeInv /\ DialInv
  BY DEF Init, RegistryInit, Unclaimed, TypeInv, Identified, TypeOK, RegistryTypeOK, Maybe,
         ControlStates, ViewerStates, JoinerStates, DialInv, OneDialPerDevice, PendingJoin,
         OneOwnerPerTransport, SoleTaker, Dialling, Taken
<1> QED BY <1>1, TypeStep, DialStep, PTL DEF Spec

(* The reservation tables and the dial tasks agree: no two dials share a
   device and no reservation outlives its dial. *)
THEOREM DialsExclusive == Spec => []OneDialPerDevice
BY DialInvariant, PTL DEF DialInv

(* A pending join always belongs to a dial that holds its reservation and has
   no agent, and nobody has taken its sender: take_pending_join is taken once. *)
THEOREM PendingJoinsLive == Spec => []PendingJoin
BY DialInvariant, PTL DEF DialInv

(* A joined transport always has exactly one owner, a dial that has not
   returned: no interleaving leaks an agent's socket or its permit. *)
THEOREM TransportsOwned == Spec => []OneOwnerPerTransport
BY DialInvariant, PTL DEF DialInv

----------------------------------------------------------------------------
(* The agent table.  Generations tell apart the control connections that have
   drawn one and are not closed, so the check at the end of run_agent_control
   removes no entry but the connection's own. *)
Numbered(c) == pc[c] \in {"numbered", "control", "leaving"}

ControlInv ==
  /\ \A c \in Controls : Numbered(c) => gen[c] \in 1..generations
  /\ \A a, b \in Controls : Numbered(a) /\ Numbered(b) /\ gen[a] = gen[b] => a = b
  /\ \A c \in cancelled : pc[c] \in {"control", "leaving", "closed"}
  /\ ReachableControl

LEMMA ControlTypes ==
  ASSUME TypeInv
  PROVE  /\ DOMAIN pc = Conns /\ DOMAIN gen = Controls /\ DOMAIN agents = Devices
         /\ DOMAIN device = Conns
         /\ generations \in Nat /\ \A c \in Controls : gen[c] \in Nat
         /\ cancelled \subseteq Controls
         /\ \A d \in Devices : agents[d] \in Maybe(Controls)
         /\ \A c \in Controls : Numbered(c) => device[c] \in Devices
BY DEF TypeInv, TypeOK, Identified, Numbered, ControlStates

(* A step that neither numbers a control connection nor writes the table. *)
LEMMA ControlFrame ==
  ASSUME TypeInv, ControlInv,
         \A c \in Controls :
           \/ pc'[c] = pc[c] /\ (Numbered(c) => device'[c] = device[c])
           \/ /\ pc[c] \in {"new", "first", "claimed", "registered"}
              /\ pc'[c] \in {"first", "claimed", "registered", "closed"}
           \/ pc[c] = "control" /\ pc'[c] = "leaving" /\ device'[c] = device[c],
         UNCHANGED <<agents, gen, generations, cancelled>>
  PROVE  ControlInv'
<1>1. \A c \in Controls : pc'[c] \in {"numbered", "control", "leaving"} =>
        Numbered(c) /\ device'[c] = device[c]
  BY DEF Numbered
<1>2. \A a, b \in Controls :
        (Numbered(a) /\ Numbered(b) /\ gen[a] = gen[b] => a = b)'
  BY <1>1 DEF ControlInv, Numbered
<1>3. (\A c \in Controls : Numbered(c) => gen[c] \in 1..generations)'
  BY <1>1 DEF ControlInv, Numbered
<1>4. (\A c \in cancelled : pc[c] \in {"control", "leaving", "closed"})'
  BY ControlTypes DEF ControlInv
<1>5. ReachableControl'
  BY <1>1, ControlTypes DEF ControlInv, ReachableControl, Numbered, Maybe
<1> QED BY <1>2, <1>3, <1>4, <1>5 DEF ControlInv

LEMMA NextGenerationStep ==
  ASSUME TypeInv, ControlInv, NEW c \in Controls, NextGeneration(c)
  PROVE  ControlInv'
<1>1. /\ pc[c] = "registered"
      /\ \A x \in Controls : pc'[x] = IF x = c THEN "numbered" ELSE pc[x]
      /\ \A x \in Controls : gen'[x] = IF x = c THEN generations + 1 ELSE gen[x]
      /\ generations' = generations + 1
      /\ UNCHANGED <<agents, cancelled, device>>
  BY ControlTypes DEF NextGeneration, Goto
<1>2. \A x \in Controls : Numbered(x) => gen[x] \in 1..generations /\ gen[x] # generations + 1
  BY ControlTypes DEF ControlInv
<1>3. (\A x \in Controls : Numbered(x) => gen[x] \in 1..generations)'
  BY <1>1, <1>2, ControlTypes DEF Numbered
<1>4. (\A a, b \in Controls : Numbered(a) /\ Numbered(b) /\ gen[a] = gen[b] => a = b)'
  BY <1>1, <1>2, ControlTypes DEF ControlInv, Numbered
<1>5. (\A x \in cancelled : pc[x] \in {"control", "leaving", "closed"})'
  BY <1>1, ControlTypes DEF ControlInv
<1>6. ReachableControl'
  BY <1>1, ControlTypes DEF ControlInv, ReachableControl, Maybe
<1> QED BY <1>3, <1>4, <1>5, <1>6 DEF ControlInv

LEMMA InsertAgentStep ==
  ASSUME TypeInv, ControlInv, NEW c \in Controls, InsertAgent(c)
  PROVE  ControlInv'
<1> DEFINE d == device[c]
<1>1. pc[c] = "numbered" /\ d \in Devices /\ c \notin cancelled
  BY ControlTypes DEF InsertAgent, Goto, Numbered, ControlInv
<1>2. /\ \A x \in Controls : pc'[x] = IF x = c THEN "control" ELSE pc[x]
      /\ \A e \in Devices : agents'[e] = IF e = d THEN c ELSE agents[e]
      /\ cancelled' = cancelled \cup ({agents[d]} \ {None})
      /\ UNCHANGED <<gen, generations, device>>
  BY ControlTypes DEF InsertAgent, Goto
<1>3. agents[d] # None => agents[d] \in Controls /\ pc[agents[d]] \in {"control", "leaving"}
  BY <1>1, ControlTypes DEF ControlInv, ReachableControl, Maybe
<1> HIDE DEF d
<1>4. (\A x \in Controls : Numbered(x) => gen[x] \in 1..generations)'
  BY <1>1, <1>2 DEF ControlInv, Numbered
<1>5. (\A a, b \in Controls : Numbered(a) /\ Numbered(b) /\ gen[a] = gen[b] => a = b)'
  BY <1>1, <1>2 DEF ControlInv, Numbered
<1>6. (\A x \in cancelled : pc[x] \in {"control", "leaving", "closed"})'
  BY <1>1, <1>2, <1>3, ControlTypes DEF ControlInv
<1>7. ReachableControl'
  <2>1. ASSUME NEW a \in Controls, pc'[a] = "control", a \notin cancelled'
        PROVE  agents'[device'[a]] = a
    <3>1. CASE a = c
      BY <1>1, <1>2, <3>1 DEF d
    <3>2. CASE a # c
      <4>1. pc[a] = "control" /\ a \notin cancelled /\ device'[a] = device[a]
        BY <1>2, <2>1, <3>2
      <4>2. agents[device[a]] = a /\ device[a] \in Devices
        BY <4>1, ControlTypes DEF ControlInv, ReachableControl, Numbered
      <4>3. device[a] # d
        BY <1>2, <2>1, <4>2
      <4> QED BY <1>2, <4>1, <4>2, <4>3
    <3> QED BY <3>1, <3>2
  <2>2. ASSUME NEW e \in Devices, agents'[e] # None
        PROVE  /\ pc'[agents'[e]] \in {"control", "leaving"}
               /\ agents'[e] \notin cancelled' /\ device'[agents'[e]] = e
    <3>1. CASE e = d
      BY <1>1, <1>2, <1>3, <3>1, ControlTypes DEF d, ControlInv, ReachableControl
    <3>2. CASE e # d
      <4>1. /\ agents[e] \in Controls /\ pc[agents[e]] \in {"control", "leaving"}
            /\ agents[e] \notin cancelled /\ device[agents[e]] = e
        BY <1>2, <2>2, <3>2, ControlTypes DEF ControlInv, ReachableControl, Maybe
      <4>2. agents[e] # c /\ agents[e] # agents[d]
        BY <1>1, <3>2, <4>1, ControlTypes DEF ControlInv, ReachableControl, Maybe
      <4> QED BY <1>2, <3>2, <4>1, <4>2
    <3> QED BY <3>1, <3>2
  <2> QED BY <2>1, <2>2 DEF ReachableControl
<1> QED BY <1>4, <1>5, <1>6, <1>7 DEF ControlInv

LEMMA RemoveAgentStep ==
  ASSUME TypeInv, ControlInv, NEW c \in Controls, RemoveAgent(c)
  PROVE  ControlInv'
<1>1. pc[c] = "leaving" /\ device[c] \in Devices
  BY ControlTypes DEF RemoveAgent, Close, Goto, Numbered
<1>2. /\ \A x \in Controls : pc'[x] = IF x = c THEN "closed" ELSE pc[x]
      /\ UNCHANGED <<gen, generations, cancelled, device>>
  BY ControlTypes DEF RemoveAgent, Close, Goto
<1>3. \A d \in Devices : agents'[d] = IF agents[d] = c THEN None ELSE agents[d]
  <2>1. Current(c) <=> agents[device[c]] = c
    BY <1>1, ControlTypes DEF Current, ControlInv, ReachableControl, Numbered, Maybe
  <2>2. \A d \in Devices : agents[d] = c => d = device[c]
    BY ControlTypes DEF ControlInv, ReachableControl
  <2> QED BY <1>1, <2>1, <2>2, ControlTypes DEF RemoveAgent
<1>4. (\A x \in Controls : Numbered(x) => gen[x] \in 1..generations)'
  BY <1>1, <1>2 DEF ControlInv, Numbered
<1>5. (\A a, b \in Controls : Numbered(a) /\ Numbered(b) /\ gen[a] = gen[b] => a = b)'
  BY <1>1, <1>2 DEF ControlInv, Numbered
<1>6. (\A x \in cancelled : pc[x] \in {"control", "leaving", "closed"})'
  BY <1>1, <1>2, ControlTypes DEF ControlInv
<1>7. ReachableControl'
  BY <1>1, <1>2, <1>3, ControlTypes DEF ControlInv, ReachableControl, Maybe, Numbered
<1> QED BY <1>4, <1>5, <1>6, <1>7 DEF ControlInv

LEMMA ControlStepKept == TypeInv /\ ControlInv /\ [Next]_vars => ControlInv'
<1> SUFFICES ASSUME TypeInv, ControlInv, [Next]_vars
             PROVE  ControlInv'
  OBVIOUS
<1> USE DEF Goto, Close, controlVars
<1>1. ASSUME NEW c \in Conns, ConnStep(c)
      PROVE  ControlInv'
  BY <1>1, ControlFrame, ControlTypes DEF ConnStep, Accept, Refuse, EndFirst
<1>2. ASSUME NEW c \in Controls, ControlStep(c)
      PROVE  ControlInv'
  <2>1. CASE \E d \in Devices, t \in Tokens : Register(c, d, t) \/ RegisterRefused(c, d, t)
    BY <2>1, ControlFrame, ControlTypes DEF Register, RegisterRefused, Numbered
  <2>2. CASE WriteRegistered(c) \/ WriteRegisteredFails(c)
    BY <2>2, ControlFrame, ControlTypes DEF WriteRegistered, WriteRegisteredFails
  <2>3. CASE NextGeneration(c)
    BY <2>3, NextGenerationStep
  <2>4. CASE InsertAgent(c)
    BY <2>4, InsertAgentStep
  <2>5. CASE Forward(c)
    BY <2>5, ControlFrame DEF Forward
  <2>6. CASE ControlCancelled(c) \/ ControlEnds(c)
    BY <2>6, ControlFrame, ControlTypes DEF ControlCancelled, ControlEnds, LeaveControl
  <2>7. CASE RemoveAgent(c)
    BY <2>7, RemoveAgentStep
  <2> QED BY <1>2, <2>1, <2>2, <2>3, <2>4, <2>5, <2>6, <2>7 DEF ControlStep
<1>3. ASSUME NEW v \in Viewers, ViewerStep(v)
      PROVE  ControlInv'
  <2>1. UNCHANGED <<agents, gen, generations, cancelled>>
    BY <1>3 DEF ViewerStep, Dial, DialOffline, ReserveDial, ReserveRefused, SendInvite,
         InviteRefused, TakeAnswer, JoinWaitExpires, TellAgent, TellViewer, LinkEnds,
         LinkBreaks, ReleaseDial
  <2>2. \A c \in Controls : device'[c] = device[c]
    BY <1>3, ControlTypes DEF ViewerStep, Dial, DialOffline, ReserveDial, ReserveRefused,
         SendInvite, InviteRefused, TakeAnswer, JoinWaitExpires, TellAgent, TellViewer,
         LinkEnds, LinkBreaks, ReleaseDial
  <2>3. answer[v] \notin Controls
    BY DEF TypeInv, TypeOK, Maybe
  <2>4. \A c \in Controls : pc'[c] = pc[c]
    BY <1>3, <2>3, ControlTypes DEF ViewerStep, Dial, DialOffline, ReserveDial, ReserveRefused,
         SendInvite, InviteRefused, TakeAnswer, JoinWaitExpires, TellAgent, TellViewer,
         LinkEnds, LinkBreaks, ReleaseDial
  <2> QED BY <2>1, <2>2, <2>4, ControlFrame
<1>4. ASSUME NEW j \in Joiners, JoinerStep(j)
      PROVE  ControlInv'
  <2>1. UNCHANGED <<agents, gen, generations, cancelled>>
    BY <1>4 DEF JoinerStep, Join, JoinRefused, HandOver, HandOverTooLate
  <2>2. \A c \in Controls : pc'[c] = pc[c] /\ device'[c] = device[c]
    BY <1>4, ControlTypes DEF JoinerStep, Join, JoinRefused, HandOver, HandOverTooLate
  <2> QED BY <2>1, <2>2, ControlFrame
<1>5. CASE (\E c \in Viewers \cup Joiners : HangUp(c)) \/ UNCHANGED vars
  BY <1>5, ControlFrame DEF HangUp, vars
<1>6. CASE Restart
  BY <1>6, ControlTypes DEF Restart, ControlInv, ReachableControl, Numbered
<1> QED BY <1>1, <1>2, <1>3, <1>4, <1>5, <1>6 DEF Next

(* A control connection nobody replaced is the one the table names, and the
   table names no connection that is closed or was replaced, however the
   registrations of a device overlap. *)
THEOREM ControlsReachable == Spec => []ReachableControl
<1>1. Init => TypeInv /\ ControlInv
  BY DEF Init, RegistryInit, Unclaimed, TypeInv, Identified, TypeOK, RegistryTypeOK, Maybe,
         ControlStates, ViewerStates, JoinerStates, ControlInv, ReachableControl, Numbered
<1>2. ControlInv => ReachableControl
  BY DEF ControlInv
<1> QED BY <1>1, <1>2, TypeStep, ControlStepKept, PTL DEF Spec

----------------------------------------------------------------------------
(* Ownership of a device ID.  The registry file is what the running relay
   enforces, and a registration being acknowledged is in it; so an
   acknowledged claim survives every restart that can read the file.  Without
   a file the claims live as long as the process. *)
Durable == Persist \/ MaxRestarts = 0

RegistryInv ==
  /\ MaxRestarts = 0 => restarts = 0
  /\ healthy /\ Persist => tokens = disk
  /\ \A c \in Controls : pc[c] = "claimed" => healthy /\ tokens[device[c]] = token[c]
  /\ \A d \in Devices : \A t \in acked[d] :
       /\ acked[d] = {t}
       /\ healthy => tokens[d] = t
       /\ Persist => disk[d] = t

LEMMA RegistryTypes ==
  ASSUME TypeInv
  PROVE  /\ DOMAIN pc = Conns /\ DOMAIN device = Conns /\ DOMAIN token = Conns
         /\ DOMAIN tokens = Devices /\ DOMAIN acked = Devices
         /\ \A d \in Devices : acked[d] \subseteq Tokens
         /\ \A c \in Controls : pc[c] = "claimed" => device[c] \in Devices /\ token[c] \in Tokens
         /\ restarts \in Nat
BY DEF TypeInv, TypeOK, RegistryTypeOK, Identified, ControlStates

LEMMA RegistryFrame ==
  ASSUME TypeInv, RegistryInv, UNCHANGED <<registryVars, restarts>>,
         \A c \in Controls : pc'[c] = "claimed" =>
           pc[c] = "claimed" /\ device'[c] = device[c] /\ token'[c] = token[c]
  PROVE  RegistryInv'
BY DEF RegistryInv, registryVars

LEMMA RegisterStep ==
  ASSUME TypeInv, RegistryInv, NEW c \in Controls, NEW d \in Devices, NEW t \in Tokens,
         Register(c, d, t)
  PROVE  RegistryInv'
<1>1. /\ \A x \in Conns : pc'[x] = IF x = c THEN "claimed" ELSE pc[x]
      /\ \A x \in Conns : device'[x] = IF x = c THEN d ELSE device[x]
      /\ \A x \in Conns : token'[x] = IF x = c THEN t ELSE token[x]
      /\ restarts' = restarts
  BY RegistryTypes DEF Register, Goto
<1>2. CASE VerifyOwner(d, t)
  BY <1>1, <1>2 DEF VerifyOwner, VerifyOnly, RegistryInv, registryVars
<1>3. CASE ClaimNew(d, t)
  <2>1. /\ healthy /\ tokens[d] = None /\ UNCHANGED <<healthy, acked>>
        /\ \A e \in Devices : tokens'[e] = IF e = d THEN t ELSE tokens[e]
        /\ Persist => disk' = tokens'
    BY <1>3, RegistryTypes DEF ClaimNew, SaveTokens
  <2>2. acked[d] = {}
    BY <2>1, RegistryTypes DEF RegistryInv
  <2>3. \A x \in Controls : pc[x] = "claimed" => device[x] \in Devices \ {d}
    BY <2>1, RegistryTypes DEF RegistryInv
  <2>4. \A x \in Controls : pc'[x] = "claimed" => tokens'[device'[x]] = token'[x]
    BY <1>1, <2>1, <2>3 DEF RegistryInv
  <2>5. \A e \in Devices : \A u \in acked[e] :
          acked[e] = {u} /\ tokens'[e] = u /\ (Persist => disk'[e] = u)
    BY <2>1, <2>2 DEF RegistryInv
  <2> QED BY <1>1, <2>1, <2>4, <2>5 DEF RegistryInv
<1> QED BY <1>2, <1>3 DEF Register, VerifyOrClaim

LEMMA AcknowledgeStep ==
  ASSUME TypeInv, RegistryInv, NEW c \in Controls, WriteRegistered(c)
  PROVE  RegistryInv'
<1> DEFINE d == device[c]
           t == token[c]
<1>1. pc[c] = "claimed" /\ d \in Devices /\ healthy /\ tokens[d] = t
  BY RegistryTypes DEF WriteRegistered, Goto, RegistryInv
<1>2. /\ \A x \in Conns : pc'[x] = IF x = c THEN "registered" ELSE pc[x]
      /\ \A e \in Devices : acked'[e] = IF e = d THEN acked[d] \cup {t} ELSE acked[e]
      /\ UNCHANGED <<tokens, disk, healthy, device, token, restarts>>
  BY RegistryTypes DEF WriteRegistered, Goto, Acknowledge
<1>3. acked[d] \subseteq {t}
  BY <1>1 DEF RegistryInv
<1>4. Persist => disk[d] = t
  BY <1>1 DEF RegistryInv
<1> HIDE DEF d, t
<1>5. \A e \in Devices : \A u \in acked'[e] :
        acked'[e] = {u} /\ tokens[e] = u /\ (Persist => disk[e] = u)
  BY <1>1, <1>2, <1>3, <1>4 DEF RegistryInv
<1> QED BY <1>2, <1>5 DEF RegistryInv

LEMMA ReloadStep ==
  ASSUME Durable, TypeInv, RegistryInv, Restart
  PROVE  RegistryInv'
<1>1. Persist /\ MaxRestarts # 0
  BY RegistryTypes DEF Durable, Restart, RegistryInv
<1>2. \A x \in Controls : pc'[x] # "claimed"
  BY DEF Restart
<1>3. UNCHANGED <<disk, acked>> /\ (healthy' => tokens' = disk)
  BY DEF Restart, Reload
<1> QED BY <1>1, <1>2, <1>3 DEF RegistryInv

LEMMA RegistryStep ==
  ASSUME Durable
  PROVE  TypeInv /\ RegistryInv /\ [Next]_vars => RegistryInv'
<1> SUFFICES ASSUME TypeInv, RegistryInv, [Next]_vars
             PROVE  RegistryInv'
  OBVIOUS
<1> USE DEF Goto, Close
<1>1. ASSUME NEW c \in Conns, ConnStep(c)
      PROVE  RegistryInv'
  BY <1>1, RegistryFrame, RegistryTypes DEF ConnStep, Accept, Refuse, EndFirst
<1>2. ASSUME NEW c \in Controls, ControlStep(c)
      PROVE  RegistryInv'
  <2>1. CASE \E d \in Devices, t \in Tokens : Register(c, d, t)
    BY <2>1, RegisterStep
  <2>2. CASE WriteRegistered(c)
    BY <2>2, AcknowledgeStep
  <2>3. CASE \/ \E d \in Devices, t \in Tokens : RegisterRefused(c, d, t)
             \/ WriteRegisteredFails(c) \/ NextGeneration(c) \/ InsertAgent(c) \/ Forward(c)
             \/ ControlCancelled(c) \/ ControlEnds(c) \/ RemoveAgent(c)
    BY <2>3, RegistryFrame, RegistryTypes DEF RegisterRefused, ClaimRefused,
         WriteRegisteredFails, NextGeneration, InsertAgent, Forward, ControlCancelled,
         ControlEnds, LeaveControl, RemoveAgent
  <2> QED BY <1>2, <2>1, <2>2, <2>3 DEF ControlStep
<1>3. ASSUME NEW v \in Viewers, ViewerStep(v)
      PROVE  RegistryInv'
  <2>1. UNCHANGED <<registryVars, restarts, token>>
    BY <1>3 DEF ViewerStep, Dial, DialOffline, ReserveDial, ReserveRefused, SendInvite,
         InviteRefused, TakeAnswer, JoinWaitExpires, TellAgent, TellViewer, LinkEnds,
         LinkBreaks, ReleaseDial
  <2>2. \A c \in Controls : device'[c] = device[c]
    BY <1>3, RegistryTypes DEF ViewerStep, Dial, DialOffline, ReserveDial, ReserveRefused,
         SendInvite, InviteRefused, TakeAnswer, JoinWaitExpires, TellAgent, TellViewer,
         LinkEnds, LinkBreaks, ReleaseDial
  <2>3. answer[v] \notin Controls
    BY DEF TypeInv, TypeOK, Maybe
  <2>4. \A c \in Controls : pc'[c] = pc[c]
    BY <1>3, <2>3, RegistryTypes DEF ViewerStep, Dial, DialOffline, ReserveDial,
         ReserveRefused, SendInvite, InviteRefused, TakeAnswer, JoinWaitExpires, TellAgent,
         TellViewer, LinkEnds, LinkBreaks, ReleaseDial
  <2> QED BY <2>1, <2>2, <2>4, RegistryFrame
<1>4. ASSUME NEW j \in Joiners, JoinerStep(j)
      PROVE  RegistryInv'
  <2>1. UNCHANGED <<registryVars, restarts>>
    BY <1>4 DEF JoinerStep, Join, JoinRefused, HandOver, HandOverTooLate
  <2>2. \A c \in Controls : pc'[c] = pc[c] /\ device'[c] = device[c] /\ token'[c] = token[c]
    BY <1>4, RegistryTypes DEF JoinerStep, Join, JoinRefused, HandOver, HandOverTooLate
  <2> QED BY <2>1, <2>2, RegistryFrame
<1>5. CASE (\E c \in Viewers \cup Joiners : HangUp(c)) \/ UNCHANGED vars
  BY <1>5, RegistryFrame DEF HangUp, vars
<1>6. CASE Restart
  BY <1>6, ReloadStep
<1> QED BY <1>1, <1>2, <1>3, <1>4, <1>5, <1>6 DEF Next

(* verify_or_claim and save_tokens: no device is ever acknowledged to two
   tokens, and what was acknowledged is enforced by the running relay unless
   it refused its own file.  The assumption is the documented one: a relay
   without a state file forgets its claims when it restarts. *)
THEOREM OwnersDurable == ASSUME Durable PROVE Spec => []AckedOwner
<1>1. Init => TypeInv /\ RegistryInv
  BY DEF Init, RegistryInit, Unclaimed, TypeInv, Identified, TypeOK, RegistryTypeOK, Maybe,
         ControlStates, ViewerStates, JoinerStates, RegistryInv
<1>2. RegistryInv => AckedOwner
  BY DEF RegistryInv, AckedOwner
<1>3. TypeInv /\ RegistryInv /\ [Next]_vars => RegistryInv'
  BY RegistryStep
<1> QED BY <1>1, <1>2, <1>3, TypeStep, PTL DEF Spec

----------------------------------------------------------------------------
(* Whom a viewer is linked with. *)
LinkInv ==
  /\ \A j \in Joiners : Taken(j) =>
       healthy /\ tokens[device[j]] = token[j] /\ device[channel[j]] = device[j]
  /\ \A v \in Viewers : pc[v] \in {"answered", "agentTold", "linked"} => answer[v] # None

LEMMA LinkTypes ==
  ASSUME TypeInv
  PROVE  /\ DOMAIN pc = Conns /\ DOMAIN device = Conns /\ DOMAIN token = Conns
         /\ DOMAIN tokens = Devices /\ DOMAIN channel = Joiners /\ DOMAIN answer = Viewers
         /\ \A j \in Joiners : Taken(j) =>
              device[j] \in Devices /\ token[j] \in Tokens /\ channel[j] \in Viewers
         /\ \A v \in Viewers : answer[v] \in Maybe(Joiners)
BY DEF TypeInv, TypeOK, RegistryTypeOK, Identified, Taken

(* A step that takes no join, answers no dial and renames no dial in use. *)
LEMMA LinkFrame ==
  ASSUME TypeInv, DialInv, LinkInv, healthy' = healthy, channel' = channel,
         \A d \in Devices : tokens[d] # None => tokens'[d] = tokens[d],
         \A j \in Joiners : Taken(j)' => Taken(j) /\ device'[j] = device[j] /\ token'[j] = token[j],
         \A v \in Viewers :
           /\ device'[v] = device[v] \/ pc[v] \in {"new", "first", "found"}
           /\ pc'[v] \in {"answered", "agentTold", "linked"} => answer'[v] # None
  PROVE  LinkInv'
<1>1. ASSUME NEW j \in Joiners, Taken(j)'
      PROVE  healthy' /\ tokens'[device'[j]] = token'[j] /\ device'[channel'[j]] = device'[j]
  <2>1. /\ Taken(j) /\ device'[j] = device[j] /\ token'[j] = token[j]
        /\ device[j] \in Devices /\ token[j] \in Tokens /\ channel[j] \in Viewers
    BY <1>1, LinkTypes
  <2>2. healthy /\ tokens[device[j]] = token[j] /\ device[channel[j]] = device[j]
    BY <2>1 DEF LinkInv
  <2>3. device'[channel[j]] = device[channel[j]]
    BY <2>1 DEF DialInv, SoleTaker
  <2> QED BY <2>1, <2>2, <2>3
<1> QED BY <1>1 DEF LinkInv

LEMMA JoinLinks ==
  ASSUME TypeInv, DialInv, LinkInv, NEW j \in Joiners, NEW v \in Viewers, NEW d \in Devices,
         NEW t \in Tokens, Join(j, v, d, t)
  PROVE  LinkInv'
<1>1. healthy /\ tokens[d] = t /\ device[v] = d
  BY DEF Join, TakePendingJoin, VerifyOnly, DialInv, PendingJoin
<1>2. /\ \A x \in Conns : pc'[x] = IF x = j THEN "taken" ELSE pc[x]
      /\ \A x \in Conns : device'[x] = IF x = j THEN d ELSE device[x]
      /\ \A x \in Conns : token'[x] = IF x = j THEN t ELSE token[x]
      /\ \A k \in Joiners : channel'[k] = IF k = j THEN v ELSE channel[k]
      /\ UNCHANGED <<tokens, healthy, answer>>
  BY LinkTypes DEF Join, TakePendingJoin, Goto, registryVars
<1>3. \A k \in Joiners : (Taken(k) =>
        healthy /\ tokens[device[k]] = token[k] /\ device[channel[k]] = device[k])'
  BY <1>1, <1>2, LinkTypes DEF LinkInv, Taken
<1>4. \A w \in Viewers : (pc[w] \in {"answered", "agentTold", "linked"} => answer[w] # None)'
  BY <1>2 DEF LinkInv
<1> QED BY <1>3, <1>4 DEF LinkInv

LEMMA LinkStep == TypeInv /\ DialInv /\ LinkInv /\ [Next]_vars => LinkInv'
<1> SUFFICES ASSUME TypeInv, DialInv, LinkInv, [Next]_vars
             PROVE  LinkInv'
  OBVIOUS
<1> USE DEF Goto, Close, dialVars, registryVars
<1>1. ASSUME NEW c \in Conns, ConnStep(c)
      PROVE  LinkInv'
  BY <1>1, LinkFrame, LinkTypes DEF ConnStep, Accept, Refuse, EndFirst, LinkInv, Taken
<1>2. ASSUME NEW c \in Controls, ControlStep(c)
      PROVE  LinkInv'
  <2>1. /\ \A d \in Devices : tokens[d] # None => tokens'[d] = tokens[d]
        /\ UNCHANGED <<healthy, channel, answer>>
    BY <1>2, LinkTypes DEF ControlStep, Register, VerifyOrClaim, VerifyOwner, ClaimNew,
         RegisterRefused, ClaimRefused, WriteRegistered, Acknowledge, WriteRegisteredFails,
         NextGeneration, InsertAgent, Forward, ControlCancelled, ControlEnds, LeaveControl,
         RemoveAgent
  <2>2. \A x \in Viewers \cup Joiners :
          pc'[x] = pc[x] /\ device'[x] = device[x] /\ token'[x] = token[x]
    BY <1>2, LinkTypes DEF ControlStep, Register, RegisterRefused, WriteRegistered,
         WriteRegisteredFails, NextGeneration, InsertAgent, Forward, ControlCancelled,
         ControlEnds, LeaveControl, RemoveAgent
  <2> QED BY <2>1, <2>2, LinkFrame DEF LinkInv, Taken
<1>3. ASSUME NEW v \in Viewers, ViewerStep(v)
      PROVE  LinkInv'
  <2>1. UNCHANGED <<tokens, healthy, channel, token>>
    BY <1>3 DEF ViewerStep, Dial, DialOffline, ReserveDial, ReserveRefused, SendInvite,
         InviteRefused, TakeAnswer, JoinWaitExpires, TellAgent, TellViewer, LinkEnds,
         LinkBreaks, ReleaseDial
  <2>2. \A x \in Conns : device'[x] = device[x] \/ (x = v /\ pc[x] = "first")
    BY <1>3, LinkTypes DEF ViewerStep, Dial, DialOffline, ReserveDial, ReserveRefused,
         SendInvite, InviteRefused, TakeAnswer, JoinWaitExpires, TellAgent, TellViewer,
         LinkEnds, LinkBreaks, ReleaseDial
  <2>3. \A j \in Joiners : pc'[j] \in {pc[j], "closed"}
    BY <1>3, LinkTypes DEF ViewerStep, Dial, DialOffline, ReserveDial, ReserveRefused,
         SendInvite, InviteRefused, TakeAnswer, JoinWaitExpires, TellAgent, TellViewer,
         LinkEnds, LinkBreaks, ReleaseDial
  <2>4. answer[v] \notin Viewers
    BY LinkTypes DEF Maybe
  <2>5. \A w \in Viewers : pc'[w] \in {"answered", "agentTold", "linked"} => answer'[w] # None
    BY <1>3, <2>4, LinkTypes DEF ViewerStep, Dial, DialOffline, ReserveDial, ReserveRefused,
         SendInvite, InviteRefused, TakeAnswer, JoinWaitExpires, TellAgent, TellViewer,
         LinkEnds, LinkBreaks, ReleaseDial, LinkInv
  <2> QED BY <2>1, <2>2, <2>3, <2>5, LinkFrame DEF Taken
<1>4. ASSUME NEW j \in Joiners, JoinerStep(j)
      PROVE  LinkInv'
  <2>1. CASE \E v \in Viewers, d \in Devices, t \in Tokens : Join(j, v, d, t)
    BY <2>1, JoinLinks
  <2>2. CASE \/ \E v \in Viewers, d \in Devices, t \in Tokens : JoinRefused(j, v, d, t)
             \/ HandOver(j) \/ HandOverTooLate(j)
    <3>1. UNCHANGED <<tokens, healthy, channel, device, token>>
      BY <2>2 DEF JoinRefused, HandOver, HandOverTooLate
    <3>2. \A k \in Joiners : Taken(k)' => Taken(k)
      BY <2>2, LinkTypes DEF JoinRefused, HandOver, HandOverTooLate, Taken
    <3>3. \A w \in Viewers : pc'[w] = pc[w] /\ (answer[w] # None => answer'[w] # None)
      BY <2>2, LinkTypes DEF JoinRefused, HandOver, HandOverTooLate
    <3> QED BY <3>1, <3>2, <3>3, LinkFrame DEF LinkInv
  <2> QED BY <1>4, <2>1, <2>2 DEF JoinerStep
<1>5. CASE (\E c \in Viewers \cup Joiners : HangUp(c)) \/ UNCHANGED vars
  BY <1>5 DEF HangUp, vars, LinkInv, Taken
<1>6. CASE Restart
  BY <1>6 DEF Restart, LinkInv, Taken
<1> QED BY <1>1, <1>2, <1>3, <1>4, <1>5, <1>6 DEF Next

(* take_pending_join and verify_only: a viewer is only ever piped to a
   connection that proved the token owning the device the viewer dialled. *)
THEOREM LinksToOwner == Spec => []LinkedToOwner
<1>1. Init => LinkInv
  BY DEF Init, LinkInv, Taken
<1>2. TypeInv /\ DialInv /\ LinkInv => LinkedToOwner
  <2> SUFFICES ASSUME TypeInv, DialInv, LinkInv, NEW v \in Viewers,
                      pc[v] \in {"answered", "agentTold", "linked"}
               PROVE  LET j == answer[v]
                      IN /\ j # None /\ device[j] = device[v]
                         /\ healthy /\ tokens[device[v]] = token[j]
    BY DEF LinkedToOwner
  <2>1. answer[v] \in Joiners /\ Taken(answer[v]) /\ channel[answer[v]] = v
    BY LinkTypes DEF LinkInv, DialInv, OneOwnerPerTransport, Taken, Maybe
  <2> QED BY <2>1 DEF LinkInv
<1> QED BY <1>1, <1>2, DialInvariant, LinkStep, PTL DEF Spec

(* Both for a relay that keeps a state file, or is not restarted. *)
THEOREM OwnersKept == ASSUME Durable PROVE Spec => []OwnersServed
BY OwnersDurable, LinksToOwner, PTL DEF OwnersServed

(* What the relay's tables promise together: a device has one live dial, a
   pending join belongs to it, the newest control connection is the one a dial
   finds, and a joined transport has one owner. *)
THEOREM TablesConsistent == Spec => []TablesHold
BY DialsExclusive, PendingJoinsLive, ControlsReachable, TransportsOwned, PTL DEF TablesHold
----------------------------------------------------------------------------
(* Connection permits.  The connections that are open are finitely many, as
   each of them took a permit; a dial's task that returns gives back two when
   it owned a joined transport. *)
OpenConns == {c \in Conns : Open(c)}

PermitInv == IsFiniteSet(OpenConns) /\ slots + Cardinality(OpenConns) = MaxConnections

(* What is open, connection by connection, decides what the set is. *)
LEMMA OpenTypes ==
  ASSUME TypeInv
  PROVE  /\ slots \in Nat /\ MaxConnections \in Nat
         /\ \A c \in Conns : Open(c) <=> pc[c] \notin {"new", "closed"}
         /\ \A v \in Viewers : answer[v] # None => answer[v] \in Joiners /\ answer[v] \in Conns
         /\ DOMAIN pc = Conns /\ None \notin Conns
BY DEF TypeInv, TypeOK, Open, Maybe

LEMMA PermitSame ==
  ASSUME PermitInv, slots' = slots, \A c \in Conns : Open(c)' <=> Open(c)
  PROVE  PermitInv'
<1>1. OpenConns' = OpenConns
  BY DEF OpenConns
<1> QED BY <1>1 DEF PermitInv

LEMMA PermitTaken ==
  ASSUME PermitInv, slots \in Nat, NEW c \in Conns, ~Open(c), Open(c)', slots' = slots - 1,
         \A d \in Conns : d # c => (Open(d)' <=> Open(d))
  PROVE  PermitInv'
<1>1. OpenConns' = OpenConns \cup {c} /\ c \notin OpenConns
  BY DEF OpenConns
<1>2. IsFiniteSet(OpenConns') /\ Cardinality(OpenConns') = Cardinality(OpenConns) + 1
  BY <1>1, FS_AddElement DEF PermitInv
<1>3. Cardinality(OpenConns) \in Nat
  BY FS_CardinalityType DEF PermitInv
<1> QED BY <1>2, <1>3 DEF PermitInv

LEMMA PermitReturned ==
  ASSUME PermitInv, slots \in Nat, NEW c \in Conns, Open(c), ~Open(c)', slots' = slots + 1,
         \A d \in Conns : d # c => (Open(d)' <=> Open(d))
  PROVE  PermitInv'
<1>1. OpenConns' = OpenConns \ {c} /\ c \in OpenConns
  BY DEF OpenConns
<1>2. IsFiniteSet(OpenConns') /\ Cardinality(OpenConns') = Cardinality(OpenConns) - 1
  BY <1>1, FS_RemoveElement DEF PermitInv
<1>3. Cardinality(OpenConns) \in Nat
  BY FS_CardinalityType DEF PermitInv
<1> QED BY <1>2, <1>3 DEF PermitInv

LEMMA TwoPermitsReturned ==
  ASSUME PermitInv, slots \in Nat, NEW c \in Conns, NEW d \in Conns, c # d, Open(c), Open(d),
         ~Open(c)', ~Open(d)', slots' = slots + 2,
         \A e \in Conns : e # c /\ e # d => (Open(e)' <=> Open(e))
  PROVE  PermitInv'
<1> DEFINE Rest == OpenConns \ {c}
<1>1. OpenConns' = Rest \ {d} /\ c \in OpenConns /\ d \in Rest
  BY DEF OpenConns
<1>2. IsFiniteSet(Rest) /\ Cardinality(Rest) = Cardinality(OpenConns) - 1
  BY <1>1, FS_RemoveElement DEF PermitInv
<1> HIDE DEF Rest
<1>3. IsFiniteSet(OpenConns') /\ Cardinality(OpenConns') = Cardinality(Rest) - 1
  BY <1>1, <1>2, FS_RemoveElement
<1>4. Cardinality(OpenConns) \in Nat
  BY FS_CardinalityType DEF PermitInv
<1> QED BY <1>2, <1>3, <1>4 DEF PermitInv

(* Close: one connection's task returns. *)
LEMMA PermitClose ==
  ASSUME TypeInv, PermitInv, NEW c \in Conns, NEW from, from \notin {"new", "closed"},
         Close(c, from)
  PROVE  PermitInv'
<1>1. Open(c) /\ ~Open(c)' /\ slots' = slots + 1
  BY OpenTypes DEF Close, Goto, Open
<1>2. \A d \in Conns : d # c => (Open(d)' <=> Open(d))
  BY OpenTypes DEF Close, Goto, Open
<1> QED BY <1>1, <1>2, OpenTypes, PermitReturned

(* A task that goes on keeps its permit. *)
LEMMA PermitGoesOn ==
  ASSUME TypeInv, PermitInv, NEW c \in Conns, NEW from, NEW to, Goto(c, from, to),
         from \notin {"new", "closed"}, to \notin {"new", "closed"}, slots' = slots
  PROVE  PermitInv'
<1>1. \A d \in Conns : Open(d)' <=> Open(d)
  BY OpenTypes DEF Goto, Open
<1> QED BY <1>1, PermitSame

LEMMA PermitExpires ==
  ASSUME TypeInv, DialInv, PermitInv, NEW v \in Viewers, JoinWaitExpires(v)
  PROVE  PermitInv'
<1> USE OpenTypes
<1>1. SUFFICES ASSUME NEW j, j = answer[v]  PROVE PermitInv'
  OBVIOUS
<1>2. /\ pc' = [c \in Conns |-> IF c = v THEN "releasing" ELSE IF c = j THEN "closed" ELSE pc[c]]
      /\ pc[v] = "invited" /\ slots' = IF j = None THEN slots ELSE slots + 1
  BY <1>1 DEF JoinWaitExpires
<1>3. Open(v) /\ Open(v)' /\ \A d \in Conns : d # v /\ d # j => (Open(d)' <=> Open(d))
  BY <1>2 DEF Open
<1>4. CASE j = None
  BY <1>2, <1>3, <1>4, PermitSame
<1>5. CASE j # None
  <2>1. j \in Conns /\ j # v /\ pc[j] = "handed" /\ j \in Joiners
    BY <1>1, <1>5 DEF DialInv, OneOwnerPerTransport
  <2>2. Open(j) /\ ~Open(j)'
    BY <1>2, <2>1 DEF Open
  <2>3. \A d \in Conns : d # j => (Open(d)' <=> Open(d))
    BY <1>3
  <2> QED BY <1>2, <1>5, <2>1, <2>2, <2>3, PermitReturned
<1> QED BY <1>4, <1>5

LEMMA PermitReleases ==
  ASSUME TypeInv, DialInv, PermitInv, NEW v \in Viewers, ReleaseDial(v)
  PROVE  PermitInv'
<1> USE OpenTypes
<1>1. SUFFICES ASSUME NEW j, j = answer[v]  PROVE PermitInv'
  OBVIOUS
<1>2. /\ pc' = [c \in Conns |-> IF c \in {v, j} THEN "closed" ELSE pc[c]]
      /\ pc[v] = "releasing" /\ slots' = IF j = None THEN slots + 1 ELSE slots + 2
  BY <1>1 DEF ReleaseDial
<1>3. Open(v) /\ ~Open(v)' /\ \A d \in Conns : d # v /\ d # j => (Open(d)' <=> Open(d))
  BY <1>2 DEF Open
<1>4. CASE j = None
  BY <1>2, <1>3, <1>4, PermitReturned
<1>5. CASE j # None
  <2>1. j \in Conns /\ j # v /\ pc[j] = "handed" /\ j \in Joiners
    BY <1>1, <1>5 DEF DialInv, OneOwnerPerTransport
  <2>2. Open(j) /\ ~Open(j)'
    BY <1>2, <2>1 DEF Open
  <2> QED BY <1>2, <1>3, <1>5, <2>1, <2>2, TwoPermitsReturned
<1> QED BY <1>4, <1>5

LEMMA PermitStep == TypeInv /\ DialInv /\ PermitInv /\ [Next]_vars => PermitInv'
<1> SUFFICES ASSUME TypeInv, DialInv, PermitInv, [Next]_vars
             PROVE  PermitInv'
  OBVIOUS
<1>1. ASSUME NEW c \in Conns, ConnStep(c)
      PROVE  PermitInv'
  <2>1. CASE Accept(c)
    <3>1. ~Open(c) /\ Open(c)' /\ slots' = slots - 1
      BY <2>1, OpenTypes DEF Accept, Goto, Open
    <3>2. \A d \in Conns : d # c => (Open(d)' <=> Open(d))
      BY <2>1, OpenTypes DEF Accept, Goto, Open
    <3> QED BY <3>1, <3>2, OpenTypes, PermitTaken
  <2>2. CASE Refuse(c)
    <3>1. \A d \in Conns : Open(d)' <=> Open(d)
      BY <2>2, OpenTypes DEF Refuse, Goto, Open
    <3> QED BY <2>2, <3>1, PermitSame DEF Refuse
  <2>3. CASE EndFirst(c)
    BY <2>3, PermitClose DEF EndFirst
  <2> QED BY <1>1, <2>1, <2>2, <2>3 DEF ConnStep
<1>2. ASSUME NEW c \in Controls, ControlStep(c)
      PROVE  PermitInv'
  <2>1. ASSUME NEW d \in Devices, NEW t \in Tokens, Register(c, d, t)
        PROVE  PermitInv'
    BY <2>1, PermitGoesOn DEF Register
  <2>2. ASSUME NEW d \in Devices, NEW t \in Tokens, RegisterRefused(c, d, t)
        PROVE  PermitInv'
    BY <2>2, PermitClose DEF RegisterRefused
  <2>3. CASE WriteRegistered(c) \/ NextGeneration(c) \/ InsertAgent(c) \/ LeaveControl(c)
    BY <2>3, PermitGoesOn DEF WriteRegistered, NextGeneration, InsertAgent, LeaveControl
  <2>4. CASE WriteRegisteredFails(c) \/ RemoveAgent(c)
    BY <2>4, PermitClose DEF WriteRegisteredFails, RemoveAgent
  <2>5. CASE Forward(c)
    BY <2>5, PermitSame DEF Forward, Open
  <2> QED BY <1>2, <2>1, <2>2, <2>3, <2>4, <2>5 DEF ControlStep, ControlCancelled, ControlEnds
<1>3. ASSUME NEW v \in Viewers, ViewerStep(v)
      PROVE  PermitInv'
  <2>1. ASSUME NEW d \in Devices, Dial(v, d) \/ DialOffline(v, d)
        PROVE  PermitInv'
    BY <2>1, PermitGoesOn, PermitClose DEF Dial, DialOffline
  <2>2. CASE ReserveDial(v) \/ SendInvite(v) \/ InviteRefused(v) \/ TakeAnswer(v)
    BY <2>2, PermitGoesOn DEF ReserveDial, SendInvite, InviteRefused, TakeAnswer
  <2>3. CASE ReserveRefused(v)
    BY <2>3, PermitClose DEF ReserveRefused
  <2>4. CASE TellAgent(v) \/ TellViewer(v) \/ LinkEnds(v) \/ LinkBreaks(v)
    BY <2>4, PermitGoesOn DEF TellAgent, TellViewer, LinkEnds, LinkBreaks
  <2> QED BY <1>3, <2>1, <2>2, <2>3, <2>4, PermitExpires, PermitReleases DEF ViewerStep
<1>4. ASSUME NEW j \in Joiners, JoinerStep(j)
      PROVE  PermitInv'
  <2>1. ASSUME NEW v \in Viewers, NEW d \in Devices, NEW t \in Tokens,
               Join(j, v, d, t) \/ JoinRefused(j, v, d, t)
        PROVE  PermitInv'
    BY <2>1, PermitGoesOn, PermitClose DEF Join, JoinRefused
  <2>2. CASE HandOver(j)
    BY <2>2, PermitGoesOn DEF HandOver
  <2>3. CASE HandOverTooLate(j)
    BY <2>3, PermitClose DEF HandOverTooLate
  <2> QED BY <1>4, <2>1, <2>2, <2>3 DEF JoinerStep
<1>5. CASE (\E c \in Viewers \cup Joiners : HangUp(c)) \/ UNCHANGED vars
  BY <1>5, PermitSame DEF HangUp, vars, Open
<1>6. CASE Restart
  <2>1. OpenConns' = {} /\ slots' = MaxConnections
    BY <1>6 DEF Restart, OpenConns, Open
  <2> QED BY <2>1, FS_EmptySet DEF PermitInv
<1> QED BY <1>1, <1>2, <1>3, <1>4, <1>5, <1>6 DEF Next

(* Each open connection holds one permit and each permit that is out belongs to
   an open connection, whoever owns a joined transport when its task returns:
   the relay neither passes its limit nor runs out of permits over time. *)
THEOREM PermitsKept == Spec => []PermitsConserved
<1>1. Init => PermitInv
  <2> SUFFICES ASSUME Init PROVE PermitInv
    OBVIOUS
  <2>1. OpenConns = {} /\ slots = MaxConnections
    BY DEF Init, OpenConns, Open
  <2> QED BY <2>1, FS_EmptySet DEF PermitInv
<1>2. PermitInv => PermitsConserved
  BY DEF PermitInv, PermitsConserved, OpenConns
<1>3. [](TypeInv /\ DialInv) /\ Init /\ [][Next]_vars => []PermitInv
  BY <1>1, PermitStep, PTL
<1> QED BY <1>2, <1>3, DialInvariant, PTL DEF Spec

----------------------------------------------------------------------------
(* The refinement of RelayRendezvous. *)

(* A viewer that has not sent its Dial has not found an agent. *)
Unsent == \A v \in Viewers : pc[v] \in {"new", "first"} => target[v] = None

RendezvousInv == TypeInv /\ DialInv /\ LinkInv /\ Unsent

LEMMA UnsentStep == TypeInv /\ Unsent /\ [Next]_vars => Unsent'
<1> SUFFICES ASSUME TypeInv, Unsent, [Next]_vars, NEW v \in Viewers, pc'[v] \in {"new", "first"}
             PROVE  target'[v] = None
  BY DEF Unsent
<1>0. DOMAIN pc = Conns /\ DOMAIN target = Viewers
  BY DEF TypeInv, TypeOK
<1> USE DEF Goto, Close
<1>1. ASSUME NEW c \in Conns, ConnStep(c)
      PROVE  target' = target /\ pc[v] \in {"new", "first"}
  BY <1>0, <1>1 DEF ConnStep, Accept, Refuse, EndFirst
<1>2. ASSUME NEW c \in Controls, ControlStep(c)
      PROVE  target' = target /\ pc[v] \in {"new", "first"}
  BY <1>0, <1>2 DEF ControlStep, Register, RegisterRefused, WriteRegistered,
     WriteRegisteredFails, NextGeneration, InsertAgent, Forward, ControlCancelled,
     ControlEnds, LeaveControl, RemoveAgent
<1>3. ASSUME NEW w \in Viewers, ViewerStep(w)
      PROVE  target'[v] = target[v] /\ pc[v] \in {"new", "first"}
  <2>1. pc[v] \in {"new", "first"} /\ v # w
    BY <1>0, <1>3 DEF ViewerStep, Dial, DialOffline, ReserveDial, ReserveRefused, SendInvite,
       InviteRefused, TakeAnswer, JoinWaitExpires, TellAgent, TellViewer, LinkEnds, LinkBreaks,
       ReleaseDial
  <2>2. target'[v] = target[v]
    BY <1>0, <1>3, <2>1 DEF ViewerStep, Dial, DialOffline, ReserveDial, ReserveRefused,
       SendInvite, InviteRefused, TakeAnswer, JoinWaitExpires, TellAgent, TellViewer, LinkEnds,
       LinkBreaks, ReleaseDial
  <2> QED BY <2>1, <2>2
<1>4. ASSUME NEW j \in Joiners, JoinerStep(j)
      PROVE  target' = target /\ pc[v] \in {"new", "first"}
  BY <1>0, <1>4 DEF JoinerStep, Join, JoinRefused, HandOver, HandOverTooLate
<1>5. CASE (\E c \in Viewers \cup Joiners : HangUp(c)) \/ UNCHANGED vars
  BY <1>5 DEF HangUp, vars, Unsent
<1>6. CASE Restart
  BY <1>6 DEF Restart, Unsent
<1> QED BY <1>1, <1>2, <1>3, <1>4, <1>5, <1>6 DEF Next, Unsent

LEMMA RendezvousInvariant == Spec => []RendezvousInv
<1>1. Init => LinkInv /\ Unsent
  BY DEF Init, LinkInv, Taken, Unsent
<1> QED BY <1>1, DialInvariant, LinkStep, UnsentStep, PTL DEF Spec, RendezvousInv

Sessions == [d \in Devices |-> SessionOf(d)]

(* The abstract state, seen device by device and viewer by viewer. *)
LEMMA SessionCases ==
  ASSUME TypeInv, DialInv, NEW d \in Devices
  PROVE  LET v == deviceChannels[d]
         IN \/ v = None /\ SessionOf(d) = Rendezvous!Free
            \/ /\ v \in Viewers /\ device[v] = d
               /\ pc[v] \in {"reserved", "invited", "answered"}
               /\ SessionOf(d) = Rendezvous!Phase("waiting", v, None)
            \/ /\ v \in Viewers /\ device[v] = d /\ pc[v] \in {"agentTold", "linked"}
               /\ SessionOf(d) = Rendezvous!Phase("linked", v, answer[v])
            \/ /\ v \in Viewers /\ device[v] = d /\ pc[v] = "releasing"
               /\ SessionOf(d) = Rendezvous!Phase("ending", v, None)
<1>1. deviceChannels[d] \in Maybe(Viewers) /\ (deviceChannels[d] # None =>
        Dialling(deviceChannels[d]) /\ device[deviceChannels[d]] = d)
  BY DialTypes DEF DialInv, OneDialPerDevice
<1> QED BY <1>1 DEF SessionOf, Dialling, Maybe, Rendezvous!Free, Rendezvous!Phase

LEMMA SessionSame ==
  ASSUME NEW d \in Devices, deviceChannels'[d] = deviceChannels[d],
         deviceChannels[d] # None => /\ pc'[deviceChannels[d]] = pc[deviceChannels[d]]
                                     /\ answer'[deviceChannels[d]] = answer[deviceChannels[d]]
  PROVE  SessionOf(d)' = SessionOf(d)
BY DEF SessionOf

LEMMA OtherSessions ==
  ASSUME TypeInv, DialInv, NEW v \in Viewers,
         \A d \in Devices : d # device[v] => deviceChannels'[d] = deviceChannels[d],
         \A w \in Viewers : w # v => pc'[w] = pc[w] /\ answer'[w] = answer[w],
         NEW d \in Devices, d # device[v]
  PROVE  Sessions'[d] = Sessions[d]
<1>1. deviceChannels[d] = None \/ (deviceChannels[d] \in Viewers /\ deviceChannels[d] # v)
  BY SessionCases
<1>2. SessionOf(d)' = SessionOf(d)
  BY <1>1, SessionSame
<1> QED BY <1>2 DEF Sessions

LEMMA SessionsSame ==
  ASSUME TypeInv, DialInv, deviceChannels' = deviceChannels,
         \A w \in Viewers : Dialling(w) => pc'[w] = pc[w] /\ answer'[w] = answer[w]
  PROVE  Sessions' = Sessions
<1>1. ASSUME NEW d \in Devices
      PROVE  SessionOf(d)' = SessionOf(d)
  <2>1. deviceChannels[d] = None \/ (deviceChannels[d] \in Viewers /\ Dialling(deviceChannels[d]))
    BY SessionCases DEF Dialling
  <2> QED BY <2>1, SessionSame
<1> QED BY <1>1 DEF Sessions

(* A dial's own step: its device's session moves, no other. *)
LEMMA DialSession ==
  ASSUME TypeInv, DialInv, NEW v \in Viewers, NEW d \in Devices, d = device[v],
         \A e \in Devices : e # d => deviceChannels'[e] = deviceChannels[e],
         \A w \in Viewers : w # v => pc'[w] = pc[w] /\ answer'[w] = answer[w]
  PROVE  Sessions' = [Sessions EXCEPT ![d] = SessionOf(d)']
<1>1. \A e \in Devices : e # d => Sessions'[e] = Sessions[e]
  BY OtherSessions
<1>2. Sessions'[d] = SessionOf(d)'
  BY DEF Sessions
<1>3. DOMAIN Sessions = Devices /\ Sessions' = [e \in Devices |-> Sessions'[e]]
  BY DEF Sessions
<1>4. Sessions = [e \in Devices |-> Sessions[e]]
  BY DEF Sessions
<1> HIDE DEF Sessions
<1> QED BY <1>1, <1>2, <1>3, <1>4

LEMMA SpentMember ==
  ASSUME NEW v \in Viewers
  PROVE  v \in Spent <=> Dialling(v) \/ (pc[v] = "closed" /\ target[v] # None)
BY DEF Spent

(* The dials whose attempt has begun after a step of one viewer. *)
LEMMA SpentSame ==
  ASSUME \A w \in Viewers : (w \in Spent)' <=> w \in Spent
  PROVE  Spent' = Spent
BY DEF Spent

LEMMA SpentMore ==
  ASSUME NEW v \in Viewers, (v \in Spent)',
         \A w \in Viewers : w # v => ((w \in Spent)' <=> w \in Spent)
  PROVE  Spent' = Spent \cup {v}
BY DEF Spent

LEMMA DialTargets ==
  ASSUME TypeInv
  PROVE  /\ DOMAIN pc = Conns /\ DOMAIN target = Viewers /\ DOMAIN answer = Viewers
         /\ DOMAIN deviceChannels = Devices /\ None \notin Controls
         /\ \A v \in Viewers : pc[v] \in ViewerStates \ {"new", "first", "closed"} =>
              device[v] \in Devices /\ target[v] \in Controls
BY DEF TypeInv, TypeOK, Identified

LEMMA ReserveMaps ==
  ASSUME RendezvousInv, NEW v \in Viewers, NEW d \in Devices, d = device[v], ReserveDial(v)
  PROVE  Rendezvous!Reserve(d, v)
<1> USE DEF RendezvousInv
<1>1. /\ pc[v] = "found" /\ deviceChannels[d] = None
      /\ \A x \in Conns : pc'[x] = IF x = v THEN "reserved" ELSE pc[x]
      /\ \A e \in Devices : deviceChannels'[e] = IF e = d THEN v ELSE deviceChannels[e]
      /\ UNCHANGED <<answer, target>>
  BY DialTargets DEF ReserveDial, Goto, DeviceBusy, ViewerStates
<1>2. Sessions[d] = Rendezvous!Free
  BY <1>1, SessionCases DEF Sessions
<1>3. SessionOf(d)' = Rendezvous!Phase("waiting", v, None)
  BY <1>1 DEF SessionOf, Rendezvous!Phase
<1>4. Sessions' = [Sessions EXCEPT ![d] = Rendezvous!Phase("waiting", v, None)]
  BY <1>1, <1>3, DialSession
<1>5. v \notin Spent
  BY <1>1, SpentMember DEF Dialling
<1>6. Spent' = Spent \cup {v}
  <2>1. (v \in Spent)'
    BY <1>1 DEF Spent, Dialling
  <2>2. \A w \in Viewers : w # v => ((w \in Spent)' <=> w \in Spent)
    BY <1>1 DEF Spent, Dialling
  <2> QED BY <2>1, <2>2, SpentMore
<1> QED BY <1>2, <1>4, <1>5, <1>6 DEF Rendezvous!Reserve, Sessions

LEMMA TurnAwayMaps ==
  ASSUME RendezvousInv, NEW v \in Viewers, ReserveRefused(v)
  PROVE  Rendezvous!TurnAway(v)
<1> USE DEF RendezvousInv
<1>1. /\ pc[v] = "found" /\ target[v] # None
      /\ \A x \in Conns : pc'[x] = IF x = v THEN "closed" ELSE pc[x]
      /\ UNCHANGED <<answer, target, deviceChannels>>
  BY DialTargets DEF ReserveRefused, Close, Goto, ViewerStates, dialVars
<1>2. Sessions' = Sessions
  BY <1>1, SessionsSame DEF Dialling
<1>3. Spent' = Spent \cup {v}
  <2>1. (v \in Spent)'
    BY <1>1 DEF Spent, Dialling
  <2>2. \A w \in Viewers : w # v => ((w \in Spent)' <=> w \in Spent)
    BY <1>1 DEF Spent, Dialling
  <2> QED BY <2>1, <2>2, SpentMore
<1> QED BY <1>2, <1>3 DEF Rendezvous!TurnAway, Sessions

(* A dial that gives up, or whose pipe ends, before it returns. *)
LEMMA FinishMaps ==
  ASSUME RendezvousInv, NEW v \in Viewers, NEW d \in Devices, d = device[v],
         pc[v] \in {"reserved", "invited", "answered", "agentTold", "linked"},
         \A w \in Viewers : pc'[w] = IF w = v THEN "releasing" ELSE pc[w],
         \A w \in Viewers : w # v => answer'[w] = answer[w],
         UNCHANGED <<deviceChannels, target>>
  PROVE  Rendezvous!Finish(d)
<1> USE DEF RendezvousInv
<1>1. deviceChannels[d] = v
  BY DialTargets DEF ViewerStates, DialInv, OneDialPerDevice, Dialling
<1>2. Sessions[d].phase \in {"waiting", "linked"} /\ Sessions[d].viewer = v
  <2>1. Sessions[d] = SessionOf(d)
    BY <1>1 DEF Sessions
  <2> QED BY <1>1, <2>1 DEF SessionOf
<1>3. SessionOf(d)' = Rendezvous!Phase("ending", v, None)
  BY <1>1 DEF SessionOf, Rendezvous!Phase
<1>4. Sessions' = [Sessions EXCEPT ![d] = Rendezvous!Phase("ending", v, None)]
  BY <1>1, <1>3, DialSession
<1>5. Spent' = Spent
  BY SpentSame DEF Spent, Dialling
<1>6. Sessions' = [Sessions EXCEPT ![d] = Rendezvous!Phase("ending", @.viewer, None)]
  BY <1>2, <1>4
<1> QED BY <1>1, <1>2, <1>5, <1>6 DEF Rendezvous!Finish, Sessions

LEMMA LinkMaps ==
  ASSUME RendezvousInv, NEW v \in Viewers, NEW d \in Devices, d = device[v],
         Goto(v, "answered", "agentTold"),
         UNCHANGED <<deviceChannels, answer, target>>
  PROVE  Rendezvous!Link(d, answer[v]) /\ answer[v] \in Joiners
<1> USE DEF RendezvousInv
<1> DEFINE j == answer[v]
<1>1. /\ pc[v] = "answered" /\ deviceChannels[d] = v
      /\ \A w \in Viewers : pc'[w] = IF w = v THEN "agentTold" ELSE pc[w]
  BY DialTargets DEF Goto, ViewerStates, DialInv, OneDialPerDevice, Dialling
<1>2. j \in Joiners /\ j # None /\ channel[j] = v
  BY <1>1, LinkTypes DEF LinkInv, DialInv, OneOwnerPerTransport, Maybe
<1>3. ASSUME NEW e \in Devices
      PROVE  Sessions[e].agent # j
  <2>1. Sessions[e] = SessionOf(e)
    BY DEF Sessions
  <2>2. CASE SessionOf(e).agent = None
    BY <1>2, <2>1, <2>2
  <2>3. CASE /\ deviceChannels[e] \in Viewers /\ pc[deviceChannels[e]] \in {"agentTold", "linked"}
             /\ SessionOf(e).agent = answer[deviceChannels[e]]
    <3>1. answer[deviceChannels[e]] # None /\ channel[answer[deviceChannels[e]]] = deviceChannels[e]
      BY <2>3 DEF LinkInv, DialInv, OneOwnerPerTransport
    <3> QED BY <1>1, <1>2, <2>1, <2>3, <3>1
  <2> QED BY <2>2, <2>3, SessionCases DEF Rendezvous!Free, Rendezvous!Phase
<1>4. Sessions[d] = Rendezvous!Phase("waiting", v, None)
  BY <1>1, SessionCases DEF Sessions
<1>5. SessionOf(d)' = Rendezvous!Phase("linked", v, j)
  BY <1>1 DEF SessionOf, Rendezvous!Phase
<1>6. Sessions' = [Sessions EXCEPT ![d] = Rendezvous!Phase("linked", v, j)]
  BY <1>1, <1>5, DialSession
<1>7. /\ Sessions[d].phase = "waiting"
      /\ Sessions' = [Sessions EXCEPT ![d] = Rendezvous!Phase("linked", @.viewer, j)]
  BY <1>4, <1>6 DEF Rendezvous!Phase
<1>8. Spent' = Spent
  BY <1>1, SpentSame DEF Spent, Dialling
<1> QED BY <1>1, <1>2, <1>3, <1>7, <1>8 DEF Rendezvous!Link, Sessions

LEMMA ReleaseMaps ==
  ASSUME RendezvousInv, NEW v \in Viewers, NEW d \in Devices, d = device[v], ReleaseDial(v)
  PROVE  Rendezvous!Release(d)
<1> USE DEF RendezvousInv
<1>1. /\ pc[v] = "releasing" /\ target[v] # None
      /\ deviceChannels[d] = v
  BY DialTargets DEF ReleaseDial, ViewerStates, DialInv, OneDialPerDevice, Dialling
<1>2. \A e \in Devices : deviceChannels'[e] = IF e = d THEN None ELSE deviceChannels[e]
  BY <1>1, DialTypes DEF ReleaseDial, ReleaseReservation
<1>3. answer[v] \notin Viewers
  BY LinkTypes DEF Maybe
<1>4. /\ \A w \in Viewers : pc'[w] = IF w = v THEN "closed" ELSE pc[w]
      /\ \A w \in Viewers : w # v => answer'[w] = answer[w]
      /\ UNCHANGED target
  BY <1>3, DialTargets DEF ReleaseDial
<1>5. Sessions[d] = Rendezvous!Phase("ending", v, None)
  BY <1>1, SessionCases DEF Sessions
<1>6. SessionOf(d)' = Rendezvous!Free
  BY <1>1, <1>2 DEF SessionOf, Rendezvous!Free
<1>7. Sessions' = [Sessions EXCEPT ![d] = Rendezvous!Free]
  BY <1>1, <1>2, <1>4, <1>6, DialSession
<1>8. Spent' = Spent
  BY <1>1, <1>4, SpentSame DEF Spent, Dialling
<1>9. Sessions[d].phase = "ending"
  BY <1>5 DEF Rendezvous!Phase
<1> QED BY <1>1, <1>7, <1>8, <1>9 DEF Rendezvous!Release, Sessions

LEMMA CrashMaps ==
  ASSUME RendezvousInv, Restart
  PROVE  Rendezvous!Crash
<1>1. /\ \A d \in Devices : deviceChannels'[d] = None
      /\ \A v \in Viewers : pc'[v] = IF pc[v] = "new" THEN "new" ELSE "closed"
      /\ target' = target
  BY DEF Restart
<1>2. Sessions' = [d \in Devices |-> Rendezvous!Free]
  BY <1>1 DEF Sessions, SessionOf, Rendezvous!Free
<1>3. Spent' \subseteq Viewers
  BY DEF Spent
<1>4. ASSUME NEW v \in Viewers, v \in Spent
      PROVE  (v \in Spent)'
  <2>1. pc[v] # "new" /\ target[v] # None
    BY <1>4, DialTargets DEF RendezvousInv, Spent, Dialling, ViewerStates
  <2> QED BY <1>1, <2>1 DEF Spent
<1>5. Spent' \in {S \in SUBSET Viewers : Spent \subseteq S}
  BY <1>3, <1>4 DEF Spent
<1> QED BY <1>2, <1>5 DEF Rendezvous!Crash, Sessions

(* A step that no session and no attempt notices: dials wait as before, and
   a viewer that has not found an agent still has not. *)
Waiting(v) == pc[v] \in {"reserved", "invited", "answered"}

LEMMA StutterMaps ==
  ASSUME TypeInv, DialInv, deviceChannels' = deviceChannels,
         \A v \in Viewers :
           /\ (v \in Spent)' <=> v \in Spent
           /\ Dialling(v) => \/ pc'[v] = pc[v] /\ answer'[v] = answer[v]
                             \/ Waiting(v) /\ Waiting(v)'
  PROVE  UNCHANGED <<Sessions, Spent>>
<1>1. ASSUME NEW d \in Devices
      PROVE  SessionOf(d)' = SessionOf(d)
  <2>1. deviceChannels[d] = None \/ (deviceChannels[d] \in Viewers /\ Dialling(deviceChannels[d]))
    BY SessionCases DEF Dialling
  <2> QED BY <2>1 DEF SessionOf, Waiting
<1> QED BY <1>1, SpentSame DEF Sessions

SessionStep == Rendezvous!Next \/ UNCHANGED <<Sessions, Spent>>

LEMMA ConnMaps ==
  ASSUME RendezvousInv, NEW c \in Conns, ConnStep(c)
  PROVE  UNCHANGED <<Sessions, Spent>>
<1> USE DEF RendezvousInv
<1>1. /\ pc[c] \in {"new", "first"} /\ pc'[c] \in {"first", "closed"}
      /\ \A x \in Conns : x # c => pc'[x] = pc[x]
      /\ UNCHANGED <<deviceChannels, answer, target>>
  BY DialTargets DEF ConnStep, Accept, Refuse, EndFirst, Close, Goto, dialVars
<1>2. ASSUME NEW v \in Viewers
      PROVE  (v \in Spent)' <=> v \in Spent
  BY <1>1 DEF Unsent, Spent, Dialling
<1> QED BY <1>1, <1>2, StutterMaps DEF Dialling

LEMMA ControlMaps ==
  ASSUME RendezvousInv, NEW c \in Controls, ControlStep(c)
  PROVE  UNCHANGED <<Sessions, Spent>>
<1> USE DEF RendezvousInv
<1>1. \A v \in Viewers : pc'[v] = pc[v]
  BY DialTargets DEF ControlStep, Register, RegisterRefused, WriteRegistered,
     WriteRegisteredFails, NextGeneration, InsertAgent, Forward, ControlCancelled, ControlEnds,
     LeaveControl, RemoveAgent, Close, Goto
<1>2. UNCHANGED <<deviceChannels, answer, target>>
  BY DEF ControlStep, Register, RegisterRefused, WriteRegistered, WriteRegisteredFails,
     NextGeneration, InsertAgent, Forward, ControlCancelled, ControlEnds, LeaveControl,
     RemoveAgent, dialVars
<1> QED BY <1>1, <1>2, StutterMaps DEF Spent, Dialling

LEMMA JoinerMaps ==
  ASSUME RendezvousInv, NEW j \in Joiners, JoinerStep(j)
  PROVE  UNCHANGED <<Sessions, Spent>>
<1> USE DEF RendezvousInv
<1>1. \A v \in Viewers : pc'[v] = pc[v]
  BY DialTargets DEF JoinerStep, Join, JoinRefused, HandOver, HandOverTooLate, Close, Goto
<1>2. UNCHANGED <<deviceChannels, target>>
  BY DEF JoinerStep, Join, JoinRefused, HandOver, HandOverTooLate, dialVars
<1>3. \A v \in Viewers : answer'[v] = answer[v] \/ Waiting(v)
  BY DialTargets DEF JoinerStep, Join, JoinRefused, HandOver, HandOverTooLate, dialVars, Waiting
<1> QED BY <1>1, <1>2, <1>3, StutterMaps DEF Spent, Dialling, Waiting

LEMMA ViewerMaps ==
  ASSUME RendezvousInv, NEW v \in Viewers, ViewerStep(v)
  PROVE  SessionStep
<1> USE DEF RendezvousInv, Goto
<1>1. ASSUME NEW d \in Devices, Dial(v, d) \/ DialOffline(v, d)
      PROVE  SessionStep
  <2>1. /\ pc[v] = "first" /\ pc'[v] \in {"found", "closed"}
        /\ pc'[v] = "closed" => target' = target
        /\ \A w \in Viewers : w # v => pc'[w] = pc[w] /\ target'[w] = target[w]
        /\ UNCHANGED <<deviceChannels, answer>>
    BY <1>1, DialTargets DEF Dial, DialOffline, Close, dialVars
  <2>2. ASSUME NEW w \in Viewers
        PROVE  (w \in Spent)' <=> w \in Spent
    BY <2>1 DEF Unsent, Spent, Dialling
  <2> QED BY <2>1, <2>2, StutterMaps DEF Dialling, SessionStep
<1>2. CASE SendInvite(v) \/ TakeAnswer(v)
  <2>1. /\ Waiting(v) /\ Waiting(v)'
        /\ \A w \in Viewers : w # v => pc'[w] = pc[w]
        /\ UNCHANGED <<deviceChannels, answer, target>>
    BY <1>2, DialTargets DEF SendInvite, TakeAnswer, Waiting, dialVars
  <2> QED BY <2>1, StutterMaps DEF Spent, Dialling, Waiting, SessionStep
<1>3. CASE ReserveRefused(v)
  BY <1>3, TurnAwayMaps DEF Rendezvous!Next, SessionStep
<1>4. ASSUME pc[v] \in {"found", "reserved", "invited", "answered", "agentTold", "linked", "releasing"}
      PROVE  \E d \in Devices : d = device[v]
  BY <1>4, DialTargets DEF ViewerStates
<1>5. CASE ReserveDial(v)
  <2>1. PICK d \in Devices : d = device[v]
    BY <1>4, <1>5 DEF ReserveDial
  <2> QED BY <1>5, <2>1, ReserveMaps DEF Rendezvous!Next, SessionStep
<1>6. CASE TellAgent(v) /\ pc'[v] = "agentTold"
  <2>1. PICK d \in Devices : d = device[v]
    BY <1>4, <1>6 DEF TellAgent
  <2>2. Goto(v, "answered", "agentTold") /\ UNCHANGED <<deviceChannels, answer, target>>
    BY <1>6, DialTargets DEF TellAgent, dialVars
  <2>3. Rendezvous!Link(d, answer[v]) /\ answer[v] \in Joiners
    BY <2>1, <2>2, LinkMaps
  <2> QED BY <2>3 DEF Rendezvous!Next, SessionStep
<1>7. CASE TellViewer(v) /\ pc'[v] = "linked"
  <2>1. /\ pc[v] = "agentTold" /\ \A w \in Viewers : w # v => pc'[w] = pc[w]
        /\ UNCHANGED <<deviceChannels, answer, target>>
    BY <1>7, DialTargets DEF TellViewer, dialVars
  <2>2. \A w \in Viewers : (w \in Spent)' <=> w \in Spent
    BY <1>7, <2>1 DEF Spent, Dialling
  <2>3. ASSUME NEW d \in Devices
        PROVE  SessionOf(d)' = SessionOf(d)
    BY <1>7, <2>1, SessionCases DEF SessionOf
  <2> QED BY <2>2, <2>3, SpentSame DEF Sessions, SessionStep
<1>8. CASE \/ InviteRefused(v) \/ JoinWaitExpires(v) \/ LinkEnds(v) \/ LinkBreaks(v)
           \/ TellAgent(v) /\ pc'[v] = "releasing"
           \/ TellViewer(v) /\ pc'[v] = "releasing"
  <2>1. pc[v] \in {"reserved", "invited", "answered", "agentTold", "linked"}
    BY <1>8 DEF InviteRefused, JoinWaitExpires, LinkEnds, LinkBreaks, TellAgent, TellViewer
  <2>2. answer[v] \notin Viewers
    BY LinkTypes DEF Maybe
  <2>3. \A w \in Viewers : pc'[w] = IF w = v THEN "releasing" ELSE pc[w]
    BY <1>8, <2>2, DialTargets
       DEF InviteRefused, JoinWaitExpires, LinkEnds, LinkBreaks, TellAgent, TellViewer
  <2>4. /\ \A w \in Viewers : w # v => answer'[w] = answer[w]
        /\ UNCHANGED <<deviceChannels, target>>
    BY <1>8, DialTargets
       DEF InviteRefused, JoinWaitExpires, LinkEnds, LinkBreaks, TellAgent, TellViewer, dialVars
  <2>5. PICK d \in Devices : d = device[v]
    BY <1>4, <2>1
  <2> QED BY <2>1, <2>3, <2>4, <2>5, FinishMaps DEF Rendezvous!Next, SessionStep
<1>9. CASE ReleaseDial(v)
  <2>1. PICK d \in Devices : d = device[v]
    BY <1>4, <1>9 DEF ReleaseDial
  <2> QED BY <1>9, <2>1, ReleaseMaps DEF Rendezvous!Next, SessionStep
<1>10. /\ TellAgent(v) => pc'[v] \in {"agentTold", "releasing"}
       /\ TellViewer(v) => pc'[v] \in {"linked", "releasing"}
  BY DialTargets DEF TellAgent, TellViewer
<1> QED BY <1>1, <1>2, <1>3, <1>5, <1>6, <1>7, <1>8, <1>9, <1>10 DEF ViewerStep

LEMMA RendezvousStep ==
  RendezvousInv /\ [Next]_vars => [Rendezvous!Next]_<<Sessions, Spent>>
<1> SUFFICES ASSUME RendezvousInv, [Next]_vars
             PROVE  SessionStep
  BY DEF SessionStep
<1>1. ASSUME NEW c \in Viewers \cup Joiners, HangUp(c)
      PROVE  SessionStep
  BY <1>1 DEF HangUp, SessionStep, Sessions, SessionOf, Spent, Dialling, dialVars
<1>2. CASE Restart
  BY <1>2, CrashMaps DEF Rendezvous!Next, SessionStep
<1>3. CASE UNCHANGED vars
  BY <1>3 DEF vars, SessionStep, Sessions, SessionOf, Spent, Dialling, dialVars
<1> QED BY <1>1, <1>2, <1>3, ConnMaps, ControlMaps, JoinerMaps, ViewerMaps DEF Next, SessionStep

(* DialReservation and DialState keep the promise of their comments: one
   attempt per viewer and one session per device, under any interleaving. *)
THEOREM RendezvousKept == Spec => RendezvousSpec
<1>1. Init => Rendezvous!Init
  <2>1. ASSUME Init
        PROVE  Sessions = [d \in Devices |-> Rendezvous!Free]
    BY <2>1 DEF Init, Sessions, SessionOf, Rendezvous!Free
  <2>2. ASSUME Init
        PROVE  Spent = {}
    BY <2>2 DEF Init, Spent, Dialling
  <2> QED BY <2>1, <2>2 DEF Rendezvous!Init, Sessions
<1>2. RendezvousInv /\ [Next]_vars =>
        [Rendezvous!Next]_<<[d \in Devices |-> SessionOf(d)], Spent>>
  BY RendezvousStep DEF Sessions
<1> QED BY <1>1, <1>2, RendezvousInvariant, PTL DEF Spec, RendezvousSpec, Rendezvous!Spec
=============================================================================
