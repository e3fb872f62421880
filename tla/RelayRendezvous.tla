-------------------------- MODULE RelayRendezvous --------------------------
(***************************************************************************)
(* What the relay promises of one device ID: at any time it is free, waits *)
(* for its agent on behalf of one viewer, links that viewer with one       *)
(* agent connection, or is clearing up.  A viewer's attempt, once over, is *)
(* never resumed, and no attempt takes a device from another.              *)
(*                                                                         *)
(* Promised by the comments of DialState and DialReservation in            *)
(* crates/lattice-remote/src/relay_server.rs; RelayServer implements it.   *)
(***************************************************************************)
CONSTANTS Devices, Viewers, Joiners, None

VARIABLES
  session,    \* per device: its phase, viewer and agent connection
  spent       \* the viewers whose one attempt has begun

Free == [phase |-> "free", viewer |-> None, agent |-> None]
Phase(p, v, j) == [phase |-> p, viewer |-> v, agent |-> j]

Init ==
  /\ session = [d \in Devices |-> Free]
  /\ spent = {}

Reserve(d, v) ==
  /\ session[d] = Free
  /\ v \notin spent
  /\ session' = [session EXCEPT ![d] = Phase("waiting", v, None)]
  /\ spent' = spent \cup {v}

TurnAway(v) ==                    \* offline or busy: no session is touched
  /\ spent' = spent \cup {v}
  /\ UNCHANGED session

Link(d, j) ==
  /\ session[d].phase = "waiting"
  /\ \A e \in Devices : session[e].agent # j
  /\ session' = [session EXCEPT ![d] = Phase("linked", @.viewer, j)]
  /\ UNCHANGED spent

Finish(d) ==
  /\ session[d].phase \in {"waiting", "linked"}
  /\ session' = [session EXCEPT ![d] = Phase("ending", @.viewer, None)]
  /\ UNCHANGED spent

Release(d) ==
  /\ session[d].phase = "ending"
  /\ session' = [session EXCEPT ![d] = Free]
  /\ UNCHANGED spent

Crash ==                          \* every attempt under way is over
  /\ session' = [d \in Devices |-> Free]
  /\ spent' \in {S \in SUBSET Viewers : spent \subseteq S}

Next ==
  \/ \E d \in Devices :
       \/ \E v \in Viewers : Reserve(d, v)
       \/ \E j \in Joiners : Link(d, j)
       \/ Finish(d) \/ Release(d)
  \/ \E v \in Viewers : TurnAway(v)
  \/ Crash

Spec == Init /\ [][Next]_<<session, spent>>
=============================================================================
