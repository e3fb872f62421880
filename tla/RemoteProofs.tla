---------------------------- MODULE RemoteProofs ----------------------------
(***************************************************************************)
(* Proofs about RemoteSessions and RemoteFiles, the two models of a remote *)
(* session, one after the other: they share no state, and every definition *)
(* of the second carries names of its own.                                 *)
(*                                                                         *)
(* Sessions, for any number of calls, profiles, slots and reloads.  What a *)
(* call holds is a function of where the call, its supervisor and a stop   *)
(* stand (Life), and what two calls of one profile may hold together is    *)
(* Exclusive: the window plays no part in either.  What the window shows   *)
(* follows from what is left of a call's life and from the ends the window *)
(* has noted where it looks when it takes a row (Lived, Noted).            *)
(*                                                                         *)
(* Files, for any number of transfers and sessions.  The folder is         *)
(* reserved by one upload from its staging to its end (Folder), so what it *)
(* put aside is only given up for content of its own (Publishing); a job   *)
(* that is registered counts its bytes until it committed them (Listed,    *)
(* Accounted); and a completion is only believed by a viewer that has not  *)
(* withdrawn the transfer, which it has before the agent hears of a        *)
(* cancellation (Honest).                                                  *)
(***************************************************************************)
EXTENDS RemoteSessions, RemoteFiles, FiniteSetTheorems, TLAPS

------------------------------------------------------------------------------
(* Sessions. *)

\* What a call holds before its tasks exist, and after it gave up without them.
Unborn(c) ==
    /\ reader[c] = "none" /\ writer[c] = "none"
    /\ stop[c] = "no" /\ stopper[c] = "none" /\ emitted[c] = 0
    /\ c \notin sessions
    /\ c \in slots <=> cmd[c] \in {"admitted", "reserved", "dropping", "releasing"}
    /\ pending[ProfileOf[c]] = c <=> cmd[c] \in {"reserved", "dropping"}

\* Between spawning the tasks and commit: they run behind the gate.
Gated(c) ==
    /\ reader[c] = "gated" /\ writer[c] = "running" /\ sup[c] = "select"
    /\ stop[c] = "no" /\ stopper[c] = "none" /\ emitted[c] = 0
    /\ c \notin sessions /\ c \in slots
    /\ pending[ProfileOf[c]] = c

\* The record of a session is in the registry, nobody has taken it out ...
Registered(c) ==
    /\ c \in slots
    /\ stop[c] = "no" /\ stopper[c] = "none" /\ emitted[c] = 0
    /\ sup[c] \in {"select", "joined"}

\* ... or its supervisor has ...
LeftByItself(c) ==
    /\ stopper[c] = "none"
    /\ sup[c] \in {"removed", "told", "done"}
    /\ c \in slots <=> sup[c] # "done"
    /\ emitted[c] = IF sup[c] = "removed" THEN 0 ELSE 1

\* ... or a disconnect has, or the call that opened it.
TakenOut(c) ==
    /\ c \notin sessions
    /\ stopper[c] \in {"window", "command", "start"}
    /\ sup[c] \in {"select", "joined", "done"}
    /\ stop[c] \in {"freed", "done"} => sup[c] = "done"
    /\ c \in slots <=> stop[c] \in {"closing", "joining"}
    /\ emitted[c] = IF stop[c] = "done" /\ stopper[c] # "start" THEN 1 ELSE 0

Life(c) ==
    /\ cmd[c] \in {"no", "asked", "admitted", "reserved", "dropping", "releasing"} => sup[c] = "none"
    /\ cmd[c] \in {"spawned", "committed", "unstarted", "storing", "unstored", "connected"}
         => sup[c] # "none"
    /\ sup[c] = "none" => Unborn(c)
    /\ sup[c] \notin {"none", "select"} => reader[c] = "ended" /\ writer[c] = "ended"
    /\ cmd[c] = "spawned" => Gated(c)
    /\ sup[c] # "none" /\ cmd[c] # "spawned" =>
         /\ pending[ProfileOf[c]] # c
         /\ c \in sessions => Registered(c)
         /\ c \notin sessions /\ stop[c] = "no" => LeftByItself(c)
         /\ stop[c] # "no" => TakenOut(c)

\* The reservation of a profile is its own, and stands beside no session of it.
Exclusive ==
    /\ \A p \in Profiles : pending[p] # NoCall => ProfileOf[pending[p]] = p
    /\ \A c \in sessions : pending[ProfileOf[c]] = NoCall
    /\ \A c, d \in sessions : ProfileOf[c] = ProfileOf[d] => c = d

Bounded == Cardinality(slots) <= limit

IInv == TypeOK /\ Exclusive /\ Bounded /\ \A c \in Calls : Life(c)
----------------------------------------------------------------------------
(* Types. *)

LEMMA ProfileTypes == \A c \in Calls : ProfileOf[c] \in Profiles /\ c # NoCall
BY NoCallAssumption DEF Profiles

LEMMA TypeInit == Init => TypeOK
BY RemoteSessionsAssumption DEF Init, TypeOK, Steps

LEMMA CommandTypes ==
  ASSUME TypeOK, NEW c \in Calls, Command(c)
  PROVE  TypeOK'
<1> USE ProfileTypes DEF TypeOK, Steps, Advance, registry, tasks, stops, window
<1>1. CASE Admit(c)  BY <1>1 DEF Admit
<1>2. CASE Reserve(c)  BY <1>2 DEF Reserve
<1>3. CASE DialFails(c)  BY <1>3 DEF DialFails
<1>4. CASE Spawn(c)  BY <1>4 DEF Spawn
<1>5. CASE Commit(c)  BY <1>5 DEF Commit
<1>6. CASE Open(c)  BY <1>6 DEF Open
<1>7. CASE CannotOpen(c)  BY <1>7 DEF CannotOpen, Remove
<1>8. CASE Store(c)  BY <1>8 DEF Store, Remove
<1>9. CASE AnswerFailed(c)  BY <1>9 DEF AnswerFailed
<1>10. CASE DropReservation(c)  BY <1>10 DEF DropReservation
<1>11. CASE ReleasePermit(c)  BY <1>11 DEF ReleasePermit
<1> QED BY <1>1, <1>2, <1>3, <1>4, <1>5, <1>6, <1>7, <1>8, <1>9, <1>10, <1>11 DEF Command

LEMMA TaskTypes ==
  ASSUME TypeOK, NEW c \in Calls, Life(c), Tasks(c)
  PROVE  TypeOK'
<1> USE DEF TypeOK, registry, tasks, stops, window
<1>1. CASE Supervise(c)  BY <1>1 DEF Supervise
<1>2. CASE SupervisorRemoves(c)  BY <1>2 DEF SupervisorRemoves
<1>3. CASE SupervisorTells(c)
  <2>1. emitted[c] = 0
    BY <1>3 DEF SupervisorTells, Life, Gated, Registered, LeftByItself, TakenOut
  <2> QED BY <1>3, <2>1 DEF SupervisorTells, Emit
<1>4. CASE SupervisorDrops(c)  BY <1>4 DEF SupervisorDrops
<1>5. CASE Shutdown(c)  BY <1>5 DEF Shutdown
<1>6. CASE Join(c)  BY <1>6 DEF Join
<1>7. CASE Stopped(c)
  <2>1. emitted[c] = 0
    BY <1>7 DEF Stopped, Life, Unborn, Gated, Registered, LeftByItself, TakenOut
  <2> QED BY <1>7, <2>1 DEF Stopped, Emit
<1> QED BY <1>1, <1>2, <1>3, <1>4, <1>5, <1>6, <1>7 DEF Tasks

LEMMA WindowTypes ==
  ASSUME TypeOK,
         \/ Listen \/ List \/ Hydrated \/ Reload
         \/ \E c \in Calls : Answers(c) \/ Connect(c) \/ Disconnect(c) \/ DisconnectAgain(c)
                               \/ ReaderEnds(c) \/ WriterEnds(c)
  PROVE  TypeOK'
<1> USE RemoteSessionsAssumption DEF TypeOK, Steps, registry, tasks, stops, window
<1>1. CASE Listen  BY <1>1 DEF Listen
<1>2. CASE List  BY <1>2 DEF List
<1>3. CASE Hydrated  BY <1>3 DEF Hydrated
<1>4. CASE Reload  BY <1>4 DEF Reload
<1>5. ASSUME NEW c \in Calls, Answers(c)  PROVE TypeOK'
  <2>1. CASE Connected(c)  BY <2>1 DEF Connected
  <2>2. CASE NotConnected(c)  BY <2>2 DEF NotConnected
  <2>3. CASE Closed(c)  BY <2>3 DEF Closed
  <2>4. CASE Disconnected(c)  BY <2>4 DEF Disconnected
  <2> QED BY <1>5, <2>1, <2>2, <2>3, <2>4 DEF Answers
<1>6. ASSUME NEW c \in Calls, Connect(c)  PROVE TypeOK'
  BY <1>6 DEF Connect
<1>7. ASSUME NEW c \in Calls, Disconnect(c)  PROVE TypeOK'
  BY <1>7 DEF Disconnect, Remove
<1>8. ASSUME NEW c \in Calls, DisconnectAgain(c) \/ ReaderEnds(c) \/ WriterEnds(c)
      PROVE TypeOK'
  BY <1>8 DEF DisconnectAgain, ReaderEnds, WriterEnds
<1> QED BY <1>1, <1>2, <1>3, <1>4, <1>5, <1>6, <1>7, <1>8
----------------------------------------------------------------------------
(* What a step of one call leaves of the others. *)

\* Nothing Life looks at changes for d.
Untouched(d) ==
    /\ cmd'[d] = cmd[d] /\ sup'[d] = sup[d]
    /\ reader'[d] = reader[d] /\ writer'[d] = writer[d]
    /\ stop'[d] = stop[d] /\ stopper'[d] = stopper[d] /\ emitted'[d] = emitted[d]
    /\ d \in sessions' <=> d \in sessions
    /\ d \in slots' <=> d \in slots
    /\ pending'[ProfileOf[d]] = d <=> pending[ProfileOf[d]] = d

LEMMA LifeFrame ==
  ASSUME NEW d \in Calls, Life(d), Untouched(d)
  PROVE  Life(d)'
BY DEF Untouched, Life, Unborn, Gated, Registered, LeftByItself, TakenOut

\* A step of c changes what belongs to c, and a reservation that was free or c's.
LEMMA OthersUntouched ==
  ASSUME TypeOK, NEW c \in Calls, Command(c) \/ Tasks(c), NEW d \in Calls, d # c
  PROVE  Untouched(d)
<1> USE ProfileTypes DEF TypeOK, Untouched, Advance, registry, tasks, stops
<1>1. CASE Command(c)
  BY <1>1 DEF Command, Admit, Reserve, DialFails, Spawn, Commit, Committable, Open, CannotOpen,
       Store, Remove, AnswerFailed, DropReservation, ReleasePermit
<1>2. CASE Tasks(c)
  BY <1>2 DEF Tasks, Supervise, SupervisorRemoves, SupervisorTells, SupervisorDrops, Shutdown,
       Join, Stopped, Emit
<1> QED BY <1>1, <1>2

LEMMA CommandLife ==
  ASSUME TypeOK, Exclusive, NEW c \in Calls, Life(c), Command(c)
  PROVE  Life(c)'
<1> USE ProfileTypes DEF TypeOK, Advance, registry, tasks, stops, Life, Unborn, Gated, Registered,
      LeftByItself, TakenOut
<1>1. CASE Admit(c)  BY <1>1 DEF Admit
<1>2. CASE Reserve(c)  BY <1>2 DEF Reserve
<1>3. CASE DialFails(c)  BY <1>3 DEF DialFails
<1>4. CASE Spawn(c)  BY <1>4 DEF Spawn
<1>5. CASE Commit(c)  BY <1>5 DEF Commit
<1>6. CASE Open(c)  BY <1>6 DEF Open
<1>7. CASE CannotOpen(c)  BY <1>7 DEF CannotOpen, Remove
<1>8. CASE Store(c)  BY <1>8 DEF Store, Remove
<1>9. CASE AnswerFailed(c)  BY <1>9 DEF AnswerFailed
<1>10. CASE DropReservation(c)  BY <1>10 DEF DropReservation
<1>11. CASE ReleasePermit(c)  BY <1>11 DEF ReleasePermit
<1> QED BY <1>1, <1>2, <1>3, <1>4, <1>5, <1>6, <1>7, <1>8, <1>9, <1>10, <1>11 DEF Command

LEMMA TaskLife ==
  ASSUME TypeOK, NEW c \in Calls, Life(c), Tasks(c)
  PROVE  Life(c)'
<1> USE DEF TypeOK, registry, tasks, stops, Life, Unborn, Gated, Registered, LeftByItself, TakenOut
<1>1. CASE Supervise(c)  BY <1>1 DEF Supervise
<1>2. CASE SupervisorRemoves(c)  BY <1>2 DEF SupervisorRemoves
<1>3. CASE SupervisorTells(c)  BY <1>3 DEF SupervisorTells, Emit
<1>4. CASE SupervisorDrops(c)  BY <1>4 DEF SupervisorDrops
<1>5. CASE Shutdown(c)  BY <1>5 DEF Shutdown
<1>6. CASE Join(c)  BY <1>6 DEF Join
<1>7. CASE Stopped(c)  BY <1>7 DEF Stopped, Emit
<1> QED BY <1>1, <1>2, <1>3, <1>4, <1>5, <1>6, <1>7 DEF Tasks

\* The window, the agent and the network: they take a record out, end a half, or
\* change nothing a call holds.
Outside ==
    \/ Listen \/ List \/ Hydrated \/ Reload
    \/ \E c \in Calls : Answers(c) \/ Connect(c) \/ Disconnect(c) \/ DisconnectAgain(c)
                          \/ ReaderEnds(c) \/ WriterEnds(c)

LEMMA OutsideLife ==
  ASSUME TypeOK, \A c \in Calls : Life(c), Outside
  PROVE  \A d \in Calls : Life(d)'
<1> USE DEF TypeOK, Steps, registry, tasks, stops, window
<1>1. CASE \/ Listen \/ List \/ Hydrated \/ Reload
           \/ \E c \in Calls : Answers(c) \/ DisconnectAgain(c)
  <2>1. UNCHANGED <<registry, tasks, stops, emitted>>
    BY <1>1 DEF Listen, List, Hydrated, Reload, Answers, Connected, NotConnected, Closed,
         Disconnected, DisconnectAgain
  <2> QED BY <2>1, LifeFrame DEF Untouched
<1>2. ASSUME NEW c \in Calls, Connect(c)
      PROVE  \A d \in Calls : Life(d)'
  <2>1. \A d \in Calls \ {c} : Untouched(d)
    BY <1>2 DEF Connect, Untouched
  <2>2. Life(c)'
    BY <1>2 DEF Connect, Life, Unborn, Gated, Registered, LeftByItself, TakenOut
  <2> QED BY <2>1, <2>2, LifeFrame
<1>3. ASSUME NEW c \in Calls, Disconnect(c)
      PROVE  \A d \in Calls : Life(d)'
  <2>1. \A d \in Calls \ {c} : Untouched(d)
    BY <1>3 DEF Disconnect, Remove, Untouched
  <2>2. Life(c)'
    BY <1>3 DEF Disconnect, Remove, Life, Unborn, Gated, Registered, LeftByItself, TakenOut
  <2> QED BY <2>1, <2>2, LifeFrame
<1>4. ASSUME NEW c \in Calls, ReaderEnds(c) \/ WriterEnds(c)
      PROVE  \A d \in Calls : Life(d)'
  <2>1. \A d \in Calls \ {c} : Untouched(d)
    BY <1>4 DEF ReaderEnds, WriterEnds, Untouched
  <2>2. Life(c)'
    BY <1>4 DEF ReaderEnds, WriterEnds, Life, Unborn, Gated, Registered, LeftByItself, TakenOut
  <2> QED BY <2>1, <2>2, LifeFrame
<1> QED BY <1>1, <1>2, <1>3, <1>4 DEF Outside
----------------------------------------------------------------------------
(* The steps of the two facts that span calls. *)

LEMMA StaysExclusive ==
  ASSUME TypeOK, Exclusive, \A c \in Calls : Life(c), [Next]_vars
  PROVE  Exclusive'
<1> USE ProfileTypes DEF TypeOK, Exclusive, Advance, registry, tasks, stops
<1>1. ASSUME NEW c \in Calls, Command(c)
      PROVE  Exclusive'
  <2>1. CASE Reserve(c)  BY <2>1 DEF Reserve, HasSession
  <2>2. CASE Commit(c)  BY <2>2 DEF Commit, Committable, HasSession
  <2>3. CASE DropReservation(c)  BY <2>3 DEF DropReservation
  <2>4. CASE CannotOpen(c) \/ Store(c)  BY <2>4 DEF CannotOpen, Store, Remove
  <2>5. CASE Admit(c) \/ DialFails(c) \/ Spawn(c) \/ Open(c) \/ AnswerFailed(c) \/ ReleasePermit(c)
    BY <2>5 DEF Admit, DialFails, Spawn, Open, AnswerFailed, ReleasePermit
  <2> QED BY <1>1, <2>1, <2>2, <2>3, <2>4, <2>5 DEF Command
<1>2. ASSUME NEW c \in Calls, Tasks(c)
      PROVE  Exclusive'
  <2>1. pending' = pending /\ sessions' \subseteq sessions
    BY <1>2 DEF Tasks, Supervise, SupervisorRemoves, SupervisorTells, SupervisorDrops,
         Shutdown, Join, Stopped
  <2> QED BY <2>1
<1>3. CASE Outside \/ UNCHANGED vars
  <2>1. pending' = pending /\ sessions' \subseteq sessions
    BY <1>3 DEF Outside, Listen, List, Hydrated, Reload, Answers, Connected, NotConnected, Closed,
         Disconnected, Connect, Disconnect, DisconnectAgain, Remove, ReaderEnds, WriterEnds, vars
  <2> QED BY <2>1
<1> QED BY <1>1, <1>2, <1>3 DEF Next, System, Environment, Outside

LEMMA StaysBounded ==
  ASSUME TypeOK, Bounded, [Next]_vars
  PROVE  Bounded'
<1>1. IsFiniteSet(slots) /\ Cardinality(slots) \in Nat /\ limit \in Nat
  BY RemoteSessionsAssumption, FS_Subset, FS_CardinalityType DEF TypeOK
<1>2. limit' = limit
  BY DEF Next, System, Environment, Command, Tasks, Answers, Admit, Reserve, DialFails, Spawn,
       Commit, Open, CannotOpen, Store, AnswerFailed, DropReservation, ReleasePermit, Supervise,
       SupervisorRemoves, SupervisorTells, SupervisorDrops, Shutdown, Join, Stopped, Connected,
       NotConnected, Closed, Disconnected, Listen, List, Hydrated, Connect, Disconnect,
       DisconnectAgain, ReaderEnds, WriterEnds, Reload, vars
<1>3. ASSUME NEW c \in Calls, Cardinality(slots) < limit, slots' = slots \cup {c}
      PROVE  Bounded'
  <2>1. Cardinality(slots \cup {c}) = IF c \in slots THEN Cardinality(slots)
                                      ELSE Cardinality(slots) + 1
    BY <1>1, FS_AddElement
  <2>2. Cardinality(slots') = Cardinality(slots \cup {c})
    BY <1>3
  <2>3. Cardinality(slots') <= limit
    BY <1>1, <1>3, <2>1, <2>2
  <2> QED BY <1>2, <2>3 DEF Bounded
<1>4. ASSUME slots' \subseteq slots
      PROVE  Bounded'
  <2>1. Cardinality(slots') <= Cardinality(slots)
    BY <1>1, <1>4, FS_Subset
  <2>2. Cardinality(slots') \in Nat
    BY <1>1, <1>4, FS_Subset, FS_CardinalityType
  <2> QED BY <1>1, <1>2, <2>1, <2>2 DEF Bounded
<1>5. ASSUME NEW c \in Calls, Admit(c)
      PROVE  Bounded'
  BY <1>3, <1>4, <1>5 DEF Admit
<1>6. CASE ~\E c \in Calls : Admit(c)
  <2>1. slots' \subseteq slots
    BY <1>6 DEF Next, System, Environment, Command, Tasks, Answers, Reserve, DialFails, Spawn,
         Commit, Open, CannotOpen, Store, AnswerFailed, DropReservation, ReleasePermit, Supervise,
         SupervisorRemoves, SupervisorTells, SupervisorDrops, Shutdown, Join, Stopped, Connected,
         NotConnected, Closed, Disconnected, Listen, List, Hydrated, Connect, Disconnect,
         DisconnectAgain, ReaderEnds, WriterEnds, Reload, vars, registry
  <2> QED BY <1>4, <2>1
<1> QED BY <1>5, <1>6

----------------------------------------------------------------------------
(* The invariant and what follows from it. *)

LEMMA Initially == Init => IInv
<1> SUFFICES ASSUME Init PROVE IInv
  OBVIOUS
<1>1. TypeOK
  BY TypeInit
<1>2. Exclusive
  BY DEF Init, Exclusive
<1>3. Bounded
  BY RemoteSessionsAssumption, FS_EmptySet DEF Init, Bounded
<1>4. ASSUME NEW c \in Calls PROVE Life(c)
  BY ProfileTypes DEF Init, Life, Unborn
<1> QED BY <1>1, <1>2, <1>3, <1>4 DEF IInv

LEMMA Inductive == IInv /\ [Next]_vars => IInv'
<1> SUFFICES ASSUME IInv, [Next]_vars PROVE IInv'
  OBVIOUS
<1>1. TypeOK /\ Exclusive /\ Bounded /\ \A c \in Calls : Life(c)
  BY DEF IInv
<1>2. TypeOK'
  <2>1. CASE UNCHANGED vars
    BY <1>1, <2>1 DEF TypeOK, vars, registry, tasks, stops, window
  <2> QED BY <1>1, <2>1, CommandTypes, TaskTypes, WindowTypes DEF Next, System, Environment
<1>3. \A d \in Calls : Life(d)'
  <2>1. ASSUME NEW c \in Calls, Command(c) \/ Tasks(c)
        PROVE  \A d \in Calls : Life(d)'
    <3>1. Life(c)'
      BY <1>1, <2>1, CommandLife, TaskLife
    <3>2. ASSUME NEW d \in Calls, d # c PROVE Life(d)'
      BY <1>1, <2>1, <3>2, OthersUntouched, LifeFrame
    <3> QED BY <3>1, <3>2
  <2>2. CASE UNCHANGED vars
    BY <1>1, <2>2, LifeFrame DEF Untouched, vars, registry, tasks, stops
  <2> QED BY <1>1, <2>1, <2>2, OutsideLife DEF Next, System, Environment, Outside
<1>4. Exclusive' /\ Bounded'
  BY <1>1, StaysExclusive, StaysBounded
<1> QED BY <1>2, <1>3, <1>4 DEF IInv

LEMMA Invariant == Spec => []IInv
BY Initially, Inductive, PTL DEF Spec

\* Every reachable state is well typed, whatever the calls, the agent and the
\* window do: where a call, its tasks and a stop stand is one of the states the
\* code names.
THEOREM TypeCorrect == Spec => []TypeOK
BY Invariant, PTL DEF IInv

\* remote_connect reserves under the lock, dials without it and registers under
\* it again: however many calls for a profile do so at once, the one that reserved
\* it finds its reservation untouched, and a profile is opened once.
THEOREM AdmissionExclusive == Spec => [](AdmittedCommits /\ OnePerProfile)
<1>1. IInv => AdmittedCommits /\ OnePerProfile
  <2> SUFFICES ASSUME IInv PROVE AdmittedCommits /\ OnePerProfile
    OBVIOUS
  <2> USE ProfileTypes DEF IInv, TypeOK, Exclusive
  <2>1. AdmittedCommits
    BY DEF AdmittedCommits, Committable, HasSession, Life, Gated
  <2>2. OnePerProfile
    BY DEF OnePerProfile
  <2> QED BY <2>1, <2>2
<1> QED BY <1>1, Invariant, PTL

\* A reader or writer that still runs holds one of the slots, and at most as many
\* as there are slots are held: the permit goes back after the last task.
THEOREM SlotsHeld == Spec => []TasksHoldSlot
<1>1. IInv => TasksHoldSlot
  BY DEF IInv, TypeOK, Bounded, TasksHoldSlot, Life, Unborn, Gated, Registered, LeftByItself,
       TakenOut
<1> QED BY <1>1, Invariant, PTL

\* The two together: admission holds from the reservation to the last task.
THEOREM AdmissionHolds == Spec => []Admission
BY AdmissionExclusive, SlotsHeld, PTL DEF Admission

\* Whoever takes the record out - the supervisor, a disconnect of the window, the
\* call that could not store its code - the end of a session is told once.
THEOREM EndToldOnce == Spec => []ToldOnce
<1>1. IInv => ToldOnce
  <2> SUFFICES ASSUME IInv, NEW c \in Calls
               PROVE  /\ emitted[c] <= 1
                      /\ sup[c] = "done" /\ stop[c] \in {"no", "done"} /\ stopper[c] # "start"
                           => emitted[c] = 1
    BY DEF ToldOnce
  <2> QED BY DEF IInv, TypeOK, Life, Unborn, Gated, Registered, LeftByItself, TakenOut
<1> QED BY <1>1, Invariant, PTL
------------------------------------------------------------------------------
(* What the window shows. *)

\* The closed event of a session is on its way, or its end is about to be told.
Ending(c) ==
    c \in events \/ sup[c] = "removed" \/ stop[c] \in {"closing", "joining", "freed"}

Ended(c) == sup[c] # "none" /\ cmd[c] # "spawned" /\ c \notin sessions /\ stopper[c] # "start"

\* A window that was loaded again has heard and asked nothing.
Blank(c) ==
    /\ c \notin rows /\ c \notin events /\ c \notin observed /\ c \notin closedSeen
    /\ attempt[c] # "waiting"

\* What the window goes by.  Only ends that were told are remembered; whatever may still
\* become a row (a row, a listed session, the answer of an attempt) is of a session, or its
\* end was noted where the window looks when it takes it, or will be.
Noted(c) ==
    /\ c \in events \cup observed \cup closedSeen => emitted[c] # 0
    /\ hydration = "off" => Blank(c)
    /\ c \in listed => hydration = "answered"
    /\ c \in rows \cup listed => sup[c] # "none" /\ cmd[c] # "spawned"
    /\ attempt[c] = "no" => cmd[c] = "no"
    /\ attempt[c] = "settled" => cmd[c] \in {"connected", "failed"}
    /\ cmd[c] = "failed" => c \notin sessions
    /\ Ended(c) /\ c \in rows => Ending(c)
    /\ Ended(c) /\ c \in listed => c \in closedSeen \/ Ending(c)
    /\ Ended(c) /\ attempt[c] = "waiting" => c \in observed \/ Ending(c)
    /\ c \in sessions /\ attempt[c] = "settled" =>
         /\ hydration = "answered" => c \in rows \/ c \in listed
         /\ hydration = "done" => c \in rows

\* What Settles says of the end holds at any time, but for what is under way.
Agree(c) ==
    /\ c \in rows => c \in sessions \/ stopper[c] = "start" \/ Ending(c)
    /\ c \in sessions /\ hydration = "done" =>
         c \in rows \/ attempt[c] \in {"waiting", "gone"}
    /\ c \in sessions => c \in slots
    /\ c \in slots =>
         \/ c \in sessions \/ sup[c] \in {"removed", "told"} \/ stop[c] \in {"closing", "joining"}
         \/ cmd[c] \in {"admitted", "reserved", "spawned", "dropping", "releasing"}
RowsFollow == \A c \in Calls : Agree(c)

\* What Life leaves for the window.
Lived(c) ==
    /\ c \in sessions =>
         emitted[c] = 0 /\ stop[c] = "no" /\ sup[c] # "none" /\ cmd[c] # "spawned"
    /\ c \in sessions => stopper[c] = "none" /\ sup[c] \in {"select", "joined"}
    /\ cmd[c] \in {"no", "asked", "admitted", "reserved", "dropping", "releasing"} =>
         sup[c] = "none"
    /\ cmd[c] \in {"spawned", "storing", "committed", "connected"} => sup[c] # "none"
    /\ sup[c] \notin {"none", "select"} => cmd[c] # "spawned"
    /\ stop[c] # "no" => sup[c] # "none" /\ cmd[c] # "spawned"
    /\ emitted[c] # 0 => sup[c] # "none" /\ cmd[c] # "spawned"
    /\ sup[c] = "none" => c \notin sessions /\ emitted[c] = 0
    /\ cmd[c] = "spawned" => c \notin sessions /\ emitted[c] = 0

LEMMA LifeLived ==
  ASSUME NEW c \in Calls, Life(c)
  PROVE  Lived(c)
BY DEF Life, Lived, Unborn, Gated, Registered, LeftByItself, TakenOut

LEMMA NotedStep ==
  ASSUME TypeOK, NEW d \in Calls, Lived(d), Noted(d), [Next]_vars
  PROVE  Noted(d)'
<1> USE DEF TypeOK, Steps, Lived, Noted, Ended, Ending, Blank, registry, tasks, stops,
            window
<1>1. ASSUME NEW c \in Calls, Admit(c)
      PROVE  Noted(d)'
  BY <1>1 DEF Admit, Advance
<1>2. ASSUME NEW c \in Calls, Reserve(c)
      PROVE  Noted(d)'
  BY <1>2 DEF Reserve, Advance
<1>3. ASSUME NEW c \in Calls, DialFails(c)
      PROVE  Noted(d)'
  BY <1>3 DEF DialFails, Advance
<1>4. ASSUME NEW c \in Calls, Spawn(c)
      PROVE  Noted(d)'
  BY <1>4 DEF Spawn, Advance
<1>5. ASSUME NEW c \in Calls, Commit(c)
      PROVE  Noted(d)'
  BY <1>5 DEF Commit, Advance
<1>6. ASSUME NEW c \in Calls, Open(c)
      PROVE  Noted(d)'
  BY <1>6 DEF Open, Advance
<1>7. ASSUME NEW c \in Calls, CannotOpen(c)
      PROVE  Noted(d)'
  BY <1>7 DEF CannotOpen, Advance, Remove
<1>8. ASSUME NEW c \in Calls, Store(c)
      PROVE  Noted(d)'
  BY <1>8 DEF Store, Advance, Remove
<1>9. ASSUME NEW c \in Calls, AnswerFailed(c)
      PROVE  Noted(d)'
  BY <1>9 DEF AnswerFailed, Advance
<1>10. ASSUME NEW c \in Calls, DropReservation(c)
      PROVE  Noted(d)'
  BY <1>10 DEF DropReservation, Advance
<1>11. ASSUME NEW c \in Calls, ReleasePermit(c)
      PROVE  Noted(d)'
  BY <1>11 DEF ReleasePermit, Advance
<1>12. ASSUME NEW c \in Calls, Supervise(c)
      PROVE  Noted(d)'
  BY <1>12 DEF Supervise
<1>13. ASSUME NEW c \in Calls, SupervisorRemoves(c)
      PROVE  Noted(d)'
  BY <1>13 DEF SupervisorRemoves
<1>14. ASSUME NEW c \in Calls, SupervisorTells(c)
      PROVE  Noted(d)'
  BY <1>14 DEF SupervisorTells, Emit
<1>15. ASSUME NEW c \in Calls, SupervisorDrops(c)
      PROVE  Noted(d)'
  BY <1>15 DEF SupervisorDrops
<1>16. ASSUME NEW c \in Calls, Shutdown(c)
      PROVE  Noted(d)'
  BY <1>16 DEF Shutdown
<1>17. ASSUME NEW c \in Calls, Join(c)
      PROVE  Noted(d)'
  BY <1>17 DEF Join
<1>18. ASSUME NEW c \in Calls, Stopped(c)
      PROVE  Noted(d)'
  BY <1>18 DEF Stopped, Emit
<1>19. ASSUME NEW c \in Calls, Connected(c)
      PROVE  Noted(d)'
  BY <1>19 DEF Connected
<1>20. ASSUME NEW c \in Calls, NotConnected(c)
      PROVE  Noted(d)'
  BY <1>20 DEF NotConnected
<1>21. ASSUME NEW c \in Calls, Closed(c)
      PROVE  Noted(d)'
  BY <1>21 DEF Closed
<1>22. ASSUME NEW c \in Calls, Disconnected(c)
      PROVE  Noted(d)'
  BY <1>22 DEF Disconnected
<1>23. ASSUME NEW c \in Calls, Connect(c)
      PROVE  Noted(d)'
  BY <1>23 DEF Connect
<1>24. ASSUME NEW c \in Calls, Disconnect(c)
      PROVE  Noted(d)'
  BY <1>24 DEF Disconnect, Remove
<1>25. ASSUME NEW c \in Calls, DisconnectAgain(c)
      PROVE  Noted(d)'
  BY <1>25 DEF DisconnectAgain
<1>26. ASSUME NEW c \in Calls, ReaderEnds(c)
      PROVE  Noted(d)'
  BY <1>26 DEF ReaderEnds
<1>27. ASSUME NEW c \in Calls, WriterEnds(c)
      PROVE  Noted(d)'
  BY <1>27 DEF WriterEnds
<1>28. CASE Listen
  BY <1>28 DEF Listen
<1>29. CASE List
  BY <1>29 DEF List
<1>30. CASE Hydrated
  BY <1>30 DEF Hydrated
<1>31. CASE Reload
  BY <1>31 DEF Reload
<1>32. CASE UNCHANGED vars
  BY <1>32 DEF vars
<1> QED BY <1>1, <1>2, <1>3, <1>4, <1>5, <1>6, <1>7, <1>8, <1>9, <1>10, <1>11, <1>12,
    <1>13, <1>14, <1>15, <1>16, <1>17, <1>18, <1>19, <1>20, <1>21, <1>22, <1>23, <1>24,
    <1>25, <1>26, <1>27, <1>28, <1>29, <1>30, <1>31, <1>32 DEF Next, System, Environment,
    Command, Tasks, Answers

LEMMA LifeAgrees ==
  ASSUME TypeOK, NEW c \in Calls, Life(c), Noted(c)
  PROVE  Agree(c)
<1>1. c \in rows => c \in sessions \/ stopper[c] = "start" \/ Ending(c)
  BY DEF Noted, Ended
<1>2. c \in sessions /\ hydration = "done" => c \in rows \/ attempt[c] \in {"waiting", "gone"}
  <2>1. c \in sessions => sup[c] # "none" /\ cmd[c] # "no"
    BY LifeLived DEF Lived
  <2> QED BY <2>1 DEF TypeOK, Noted
<1>3. c \in sessions => c \in slots
  BY DEF Life, Unborn, Gated, Registered
<1>4. c \in slots =>
        \/ c \in sessions \/ sup[c] \in {"removed", "told"} \/ stop[c] \in {"closing", "joining"}
        \/ cmd[c] \in {"admitted", "reserved", "spawned", "dropping", "releasing"}
  BY DEF Life, Unborn, LeftByItself, TakenOut
<1> QED BY <1>1, <1>2, <1>3, <1>4 DEF Agree

\* The window's rows and the slots follow the sessions, at any time but for what is under
\* way (stop_remote_session, remove_if_generation, reconcileSessionSnapshot): the safety half
\* of Settles, for any number of calls and reloads.
THEOREM RowsFollowSessions == Spec => []RowsFollow
<1> DEFINE Notes == \A c \in Calls : Noted(c)
<1>1. Init => Notes
  BY DEF Init, Noted, Ended, Ending, Blank
<1>2. IInv /\ Notes /\ [Next]_vars => Notes'
  BY LifeLived, NotedStep DEF IInv
<1>3. IInv /\ Notes => RowsFollow
  BY LifeAgrees DEF IInv, RowsFollow
<1> QED BY <1>1, <1>2, <1>3, Invariant, PTL DEF Spec
------------------------------------------------------------------------------
(* Files. *)

\* A registered job has a thread, and a job nobody admitted has done nothing.
ListedAt(x) ==
  /\ x \in registered => serving /\ pc[x] \notin {"none", "gone"}
  /\ stalled = x => serving /\ requests # <<>>
  /\ row[x] = "none" => call[x] = "idle" /\ x \notin entry

\* An upload holds the folder from its reservation to its end.
FolderPhases == {"reserved", "staged", "receiving", "flushed", "protected", "replaced",
                 "withdrawn", "counted"}
FolderAt(x) == x \in Uploads /\ pc[x] \in FolderPhases => reserved = x

\* What the calls of the file system have done so far, and the claim they rest on.
PublishingAt(x) ==
  x \in Uploads =>
    /\ pc[x] \in {"flushed", "protected", "replaced", "withdrawn", "counted"}
         => lock[x] = "committing"
    /\ pc[x] \in {"flushed", "protected"} => staging[x] = Size[x]
    /\ pc[x] = "protected" => backup[x] # None /\ file = None
    /\ pc[x] = "replaced" => file = x
    /\ pc[x] \in {"replaced", "counted"} => x \in published
    /\ x \in published => pc[x] \in {"replaced", "counted", "leaving", "gone"}
    /\ backup[x] \in Uploads => backup[x] \in published
    /\ pc[x] # "reading"
Filed == file \in Uploads => file \in published

\* What is reserved is what the registered uploads still have to write.
Accounted ==
  /\ IsFiniteSet(Announced(Unwritten))
  /\ activeBytes \in Nat /\ committedBytes \in Nat
  /\ BytesAccounted

\* A transfer the viewer gave up is not completed any more.
Withdrawn(x) == row[x] # "none" /\ x \notin entry
Has(s, m) == \E i \in DOMAIN s : s[i] = m
CancelAsked(x) == Has(requests, Msg("cancel", x))
Told(x) == Has(responses, Msg("complete", x))
HonestAt(x) ==
  x \in Uploads =>
    /\ CancelAsked(x) => Withdrawn(x)
    /\ lock[x] = "cancelling" /\ answerAs[x] = "complete" => Withdrawn(x)
    /\ Told(x) => x \in published \/ Withdrawn(x)
    /\ taking = x => x \in published
    /\ row[x] = "done" => x \in published
SavedAt(x) == x \in Downloads /\ row[x] = "done" => x \in saved

AnsweredAt(x) == answered[x] \in {0, 1} /\ (answered[x] = 1 => lock[x] = "terminal")

Listed == \A x \in Ops : ListedAt(x)
Folder == \A x \in Ops : FolderAt(x)
Publishing == Filed /\ \A x \in Ops : PublishingAt(x)
Honest == \A x \in Ops : HonestAt(x)
Saved == \A x \in Ops : SavedAt(x)
Answered == \A x \in Ops : AnsweredAt(x)

FilesInv ==
  /\ FilesTypeOK /\ Listed /\ Folder /\ Publishing /\ Accounted
  /\ Honest /\ Saved /\ Answered

\* The conjuncts of the type invariant, by the part of the state they are about.
JobsTyped ==
  /\ serving \in BOOLEAN /\ failed \in BOOLEAN /\ stalled \in Ops \cup {None}
  /\ pc \in [Ops -> Phases] /\ registered \subseteq Ops
  /\ reserved \in Uploads \cup {None} /\ published \subseteq Uploads
LocksTyped ==
  /\ lock \in [Ops -> LockStates] /\ answerAs \in [Ops -> {"complete", "error", "silent"}]
  /\ answered \in [Ops -> Nat]
FilesTyped ==
  /\ commands \in [Uploads -> Seq({"chunk", "finish"})]
  /\ file \in Uploads \cup {None, "old"} /\ staging \in [Uploads -> Int]
  /\ backup \in [Uploads -> Uploads \cup {None, "old"}]
WiresTyped ==
  /\ requests \in Seq(Messages({"start", "chunk", "finish", "cancel"}))
  /\ responses \in Seq(Messages({"ready", "start", "data", "complete", "error"}))
ViewTyped ==
  /\ link \in {"open", "closing", "down"} /\ opened \in 1..MaxSessions
  /\ row \in [Ops -> {"none", "running", "done", "cancelled", "error"}]
  /\ entry \subseteq Ops /\ call \in [Ops -> CallStates]
  /\ sent \in [Uploads -> Nat] /\ got \in [Downloads -> {-1, 0, 1}]
  /\ taking \in Ops \cup {None} /\ saved \subseteq Downloads

-------------------------------------------------------------------------------
LEMMA FileNames ==
  /\ Ops = Uploads \cup Downloads /\ Uploads \cap Downloads = {} /\ None \notin Ops
  /\ FirstFiles \subseteq {None, "old"} /\ "old" \notin Ops
  /\ Size \in [Uploads -> Nat] /\ MaxBytes \in Nat /\ IsFiniteSet(Ops)
BY FileJobsAssumption DEF Ops

LEMMA FileCases ==
  ASSUME FilesNext
  PROVE  \/ UNCHANGED hostVars /\ \E o \in Ops :
              \/ Begin(o) \/ Ask(o) \/ ReadyTimeout(o) \/ CheckChunk(o)
              \/ SendChunk(o) \/ CheckFinish(o) \/ SendFinish(o) \/ FinishTimeout(o)
              \/ CallCut(o) \/ CancelTransfer(o) \/ HearReady(o) \/ HearData(o)
              \/ RefuseData(o) \/ HearError(o) \/ HearComplete(o) \/ Complete(o)
         \/ UNCHANGED viewVars /\ \E o \in Ops :
              \/ CancelSeen(o) \/ JobFails(o) \/ ReserveFolder(o) \/ Stage(o)
              \/ TellReady(o) \/ WriteChunk(o) \/ BeginCommit(o) \/ PublishNew(o)
              \/ ProtectOld(o) \/ ReplaceOld(o) \/ RestoreOld(o) \/ CannotPublish(o)
              \/ Record(o) \/ (o \in Uploads /\ Settle(o)) \/ Stream(o) \/ EndStream(o)
              \/ Unregister(o) \/ AdmitJob(o) \/ Reject(o) \/ CommandForNobody(o)
              \/ TakeCommand(o) \/ CommandStalls(o) \/ CommandTooSlow(o) \/ CommandLost(o)
              \/ Cancel(o) \/ CancelSettled(o)
         \/ UNCHANGED hostVars /\ (SessionLost \/ LeaveSession \/ Aborted)
         \/ HostEnds \/ OpenSession
<1>1. ASSUME NEW o \in Ops, ViewerStep(o)
      PROVE  UNCHANGED hostVars /\ \E p \in Ops :
               \/ Begin(p) \/ Ask(p) \/ ReadyTimeout(p) \/ CheckChunk(p)
               \/ SendChunk(p) \/ CheckFinish(p) \/ SendFinish(p) \/ FinishTimeout(p)
               \/ CallCut(p) \/ CancelTransfer(p) \/ HearReady(p) \/ HearData(p)
               \/ RefuseData(p) \/ HearError(p) \/ HearComplete(p) \/ Complete(p)
  BY <1>1 DEF ViewerStep, Begin, Ask, ReadyTimeout, CheckChunk, SendChunk, CheckFinish, SendFinish,
      FinishTimeout, CallCut, CancelTransfer, HearReady, HearData, RefuseData, HearError,
      HearComplete, Complete
<1>2. ASSUME NEW o \in Ops, HostStep(o)
      PROVE  UNCHANGED viewVars /\ \E p \in Ops :
               \/ CancelSeen(p) \/ JobFails(p) \/ ReserveFolder(p) \/ Stage(p)
               \/ TellReady(p) \/ WriteChunk(p) \/ BeginCommit(p) \/ PublishNew(p)
               \/ ProtectOld(p) \/ ReplaceOld(p) \/ RestoreOld(p) \/ CannotPublish(p)
               \/ Record(p) \/ (p \in Uploads /\ Settle(p)) \/ Stream(p) \/ EndStream(p)
               \/ Unregister(p) \/ AdmitJob(p) \/ Reject(p) \/ CommandForNobody(p)
               \/ TakeCommand(p) \/ CommandStalls(p) \/ CommandTooSlow(p) \/ CommandLost(p)
               \/ Cancel(p) \/ CancelSettled(p)
  BY <1>2 DEF HostStep, JobStep, HandlerStep
<1>3. SessionLost \/ LeaveSession \/ Aborted => UNCHANGED hostVars
  BY DEF SessionLost, LeaveSession, Aborted
<1> QED BY <1>1, <1>2, <1>3 DEF FilesNext, SessionStep

\* What a step of the viewer alone, or of the agent alone, leaves alone.
LEMMA HostCases ==
  ASSUME FilesNext
  PROVE  \/ UNCHANGED hostVars
         \/ \E o \in Ops :
              \/ CancelSeen(o) \/ JobFails(o) \/ ReserveFolder(o) \/ Stage(o)
              \/ TellReady(o) \/ WriteChunk(o) \/ BeginCommit(o) \/ PublishNew(o)
              \/ ProtectOld(o) \/ ReplaceOld(o) \/ RestoreOld(o) \/ CannotPublish(o)
              \/ Record(o) \/ (o \in Uploads /\ Settle(o)) \/ Stream(o) \/ EndStream(o)
              \/ Unregister(o) \/ AdmitJob(o) \/ Reject(o) \/ CommandForNobody(o)
              \/ TakeCommand(o) \/ CommandStalls(o) \/ CommandTooSlow(o) \/ CommandLost(o)
              \/ Cancel(o) \/ CancelSettled(o)
         \/ HostEnds \/ OpenSession
BY FileCases

LEMMA ViewCases ==
  ASSUME FilesNext
  PROVE  \/ UNCHANGED viewVars
         \/ \E o \in Ops :
              \/ Begin(o) \/ Ask(o) \/ ReadyTimeout(o) \/ CheckChunk(o)
              \/ SendChunk(o) \/ CheckFinish(o) \/ SendFinish(o) \/ FinishTimeout(o)
              \/ CallCut(o) \/ CancelTransfer(o) \/ HearReady(o) \/ HearData(o)
              \/ RefuseData(o) \/ HearError(o) \/ HearComplete(o) \/ Complete(o)
         \/ SessionLost \/ LeaveSession \/ Aborted \/ OpenSession
<1>1. HostEnds => UNCHANGED viewVars
  BY DEF HostEnds
<1> QED BY <1>1, FileCases

\* The streams, one message at a time.
LEMMA StreamFacts ==
  ASSUME NEW s, NEW M, s \in Seq(M)
  PROVE  /\ \A e, m : Has(Append(s, e), m) => Has(s, m) \/ m = e
         /\ s # <<>> => Has(s, Head(s)) /\ \A m : Has(Tail(s), m) => Has(s, m)
         /\ \A n \in 0..Len(s) : \A m : Has(SubSeq(s, 1, n), m) => Has(s, m)
         /\ \A m : ~Has(<<>>, m)
<1>1. ASSUME NEW e, NEW m, Has(Append(s, e), m)  PROVE Has(s, m) \/ m = e
  <2>1. PICK i \in DOMAIN Append(s, e) : Append(s, e)[i] = m
    BY <1>1 DEF Has
  <2>2. CASE i = Len(s) + 1
    BY <2>1, <2>2
  <2>3. CASE i \in 1..Len(s)
    BY <2>1, <2>3 DEF Has
  <2>4. i \in 1..Len(s) + 1
    OBVIOUS
  <2> QED BY <2>2, <2>3, <2>4
<1>2. s # <<>> => Has(s, Head(s)) /\ \A m : Has(Tail(s), m) => Has(s, m)
  <2> SUFFICES ASSUME s # <<>>  PROVE Has(s, Head(s)) /\ \A m : Has(Tail(s), m) => Has(s, m)
    OBVIOUS
  <2>1. Has(s, Head(s))
    BY DEF Has
  <2>2. ASSUME NEW m, Has(Tail(s), m)  PROVE Has(s, m)
    <3>1. PICK i \in DOMAIN Tail(s) : Tail(s)[i] = m
      BY <2>2 DEF Has
    <3>2. i + 1 \in DOMAIN s /\ s[i + 1] = m
      BY <3>1
    <3> QED BY <3>2 DEF Has
  <2> QED BY <2>1, <2>2
<1>3. ASSUME NEW n \in 0..Len(s), NEW m, Has(SubSeq(s, 1, n), m)  PROVE Has(s, m)
  <2>1. PICK i \in DOMAIN SubSeq(s, 1, n) : SubSeq(s, 1, n)[i] = m
    BY <1>3 DEF Has
  <2>2. i \in DOMAIN s /\ s[i] = m
    BY <2>1
  <2> QED BY <2>2 DEF Has
<1>4. ASSUME NEW m  PROVE ~Has(<<>>, m)
  BY DEF Has
<1> QED BY <1>1, <1>2, <1>3, <1>4

\* A job ends once: whoever claims its lock answers, and nobody claims it again.
LEMMA EndsOnce ==
  ASSUME NEW o \in Ops, NEW kind, FinishWith(o, kind) \/ CancelledAnswer(o), FilesTypeOK
  PROVE  /\ lock[o] \in {"active", "cancelling"} /\ lock' = [lock EXCEPT ![o] = "terminal"]
         /\ answered' = answered \/ answered' = [answered EXCEPT ![o] = @ + 1]
<1>1. answerAs[o] \in {"complete", "error", "silent"}
  BY DEF FilesTypeOK, HostTypeOK
<1>2. CASE CancelledAnswer(o)
  <2>1. CASE answerAs[o] = "complete"
    BY <1>2, <2>1 DEF CancelledAnswer, SendTerminal, Lock
  <2>2. CASE answerAs[o] = "error"
    BY <1>2, <2>2 DEF CancelledAnswer, SendTerminal, Lock
  <2>3. CASE answerAs[o] = "silent"
    BY <1>2, <2>3 DEF CancelledAnswer, SendTerminal, Lock
  <2> QED BY <1>1, <2>1, <2>2, <2>3
<1>3. CASE lock[o] = "active" /\ Lock(o, "terminal") /\ SendTerminal(o, kind)
  BY <1>3 DEF SendTerminal, Lock
<1> QED BY <1>2, <1>3 DEF FinishWith

\* What is on the wires after a step was there before, or was sent by it.
LEMMA Wires ==
  ASSUME FilesTypeOK, NEW o \in Ops, NEW kind, NEW m
  PROVE  /\ Writes(kind, o) /\ Has(requests', m) => Has(requests, m) \/ m = Msg(kind, o)
         /\ HeadIs(kind, o) => Has(requests, Msg(kind, o))
         /\ HeadIs(kind, o) /\ Takes /\ Has(requests', m) => Has(requests, m)
         /\ requests # <<>> /\ Takes /\ Has(requests', m) => Has(requests, m)
         /\ AnswersNow(kind, o) \/ Sends(o, kind) \/ SendFails(o) \/ SendTerminal(o, kind)
              => (Has(responses', m) => Has(responses, m) \/ m = Msg(kind, o))
         /\ SendFails(o) => responses' = responses
         /\ Hears(kind, o) => Has(responses, Msg(kind, o))
         /\ Hears(kind, o) /\ Has(responses', m) => Has(responses, m)
<1>1. requests \in Seq(Messages({"start", "chunk", "finish", "cancel"}))
  BY DEF FilesTypeOK
<1>2. responses \in Seq(Messages({"ready", "start", "data", "complete", "error"}))
  BY DEF FilesTypeOK
<1>3. /\ Has(Append(requests, Msg(kind, o)), m) => Has(requests, m) \/ m = Msg(kind, o)
      /\ requests # <<>> => Has(requests, Head(requests))
      /\ requests # <<>> /\ Has(Tail(requests), m) => Has(requests, m)
  BY <1>1, StreamFacts
<1>4. /\ Has(Append(responses, Msg(kind, o)), m) => Has(responses, m) \/ m = Msg(kind, o)
      /\ responses # <<>> => Has(responses, Head(responses))
      /\ responses # <<>> /\ Has(Tail(responses), m) => Has(responses, m)
  BY <1>2, StreamFacts
<1> QED BY <1>3, <1>4 DEF Writes, HeadIs, Takes, AnswersNow, Sends, SendFails, SendTerminal, Hears

LEMMA MsgIs ==
  ASSUME NEW k, NEW l, NEW o, NEW p, Msg(k, o) = Msg(l, p)  PROVE k = l /\ o = p
BY DEF Msg

LEMMA CancelledReply ==
  ASSUME FilesTypeOK, NEW o \in Ops, CancelledAnswer(o), NEW m, Has(responses', m)
  PROVE  \/ Has(responses, m) \/ m = Msg("error", o)
         \/ m = Msg("complete", o) /\ lock[o] = "cancelling" /\ answerAs[o] = "complete"
<1>1. answerAs[o] \in {"complete", "error", "silent"}
  BY DEF FilesTypeOK, HostTypeOK
<1>2. CASE answerAs[o] = "complete"
  BY <1>2, Wires DEF CancelledAnswer
<1>3. CASE answerAs[o] = "error"
  BY <1>3, Wires DEF CancelledAnswer
<1>4. CASE answerAs[o] = "silent"
  BY <1>4 DEF CancelledAnswer
<1> QED BY <1>1, <1>2, <1>3, <1>4

LEMMA Signals ==
  ASSUME FilesTypeOK, NEW o \in Ops, NEW kind
  PROVE  /\ Sends(o, kind) \/ SendFails(o) \/ SendTerminal(o, kind) \/ AnswersNow(kind, o)
              \/ CancelledAnswer(o) \/ FinishWith(o, kind) => failed' \in BOOLEAN
         /\ SendFails(o) => responses' = responses
<1>1. failed \in BOOLEAN /\ answerAs[o] \in {"complete", "error", "silent"}
  BY DEF FilesTypeOK, HostTypeOK
<1>2. SendFails(o) => failed' \in BOOLEAN /\ responses' = responses
  BY DEF SendFails
<1>3. \A k : Sends(o, k) \/ SendTerminal(o, k) \/ AnswersNow(k, o) => failed' \in BOOLEAN
  BY <1>1, <1>2 DEF Sends, SendTerminal, AnswersNow
<1>4. CancelledAnswer(o) => failed' \in BOOLEAN
  BY <1>1, <1>3 DEF CancelledAnswer
<1> QED BY <1>2, <1>3, <1>4 DEF FinishWith

LEMMA WireKinds ==
  ASSUME FilesTypeOK
  PROVE  /\ \A kind \in {"start", "chunk", "finish", "cancel"}, o \in Ops :
              Writes(kind, o) => requests' \in Seq(Messages({"start", "chunk", "finish", "cancel"}))
         /\ requests # <<>> /\ Takes
              => requests' \in Seq(Messages({"start", "chunk", "finish", "cancel"}))
         /\ \A kind \in {"ready", "start", "data", "complete", "error"}, o \in Ops :
              Sends(o, kind) \/ SendTerminal(o, kind) \/ AnswersNow(kind, o) \/ FinishWith(o, kind)
                \/ CancelledAnswer(o)
                => responses' \in Seq(Messages({"ready", "start", "data", "complete", "error"}))
         /\ \A kind : \A o \in Ops : Hears(kind, o)
              => responses' \in Seq(Messages({"ready", "start", "data", "complete", "error"}))
         /\ \A n \in 0..Len(responses) : SubSeq(responses, 1, n)
              \in Seq(Messages({"ready", "start", "data", "complete", "error"}))
<1> DEFINE Asked == Messages({"start", "chunk", "finish", "cancel"})
           Heard == Messages({"ready", "start", "data", "complete", "error"})
<1>1. /\ \A kind \in {"start", "chunk", "finish", "cancel"}, o \in Ops : Msg(kind, o) \in Asked
      /\ \A kind \in {"ready", "start", "data", "complete", "error"}, o \in Ops :
           Msg(kind, o) \in Heard
  BY DEF Messages, Msg
<1>2. requests \in Seq(Asked) /\ responses \in Seq(Heard)
  BY DEF FilesTypeOK
<1> HIDE DEF Asked, Heard
<1>3. \A kind \in {"start", "chunk", "finish", "cancel"}, o \in Ops :
        Writes(kind, o) => requests' \in Seq(Asked)
  BY <1>1, <1>2 DEF Writes
<1>4. requests # <<>> /\ Takes => requests' \in Seq(Asked)
  BY <1>2 DEF Takes
<1>5. \A kind \in {"ready", "start", "data", "complete", "error"}, o \in Ops :
        Sends(o, kind) \/ SendTerminal(o, kind) \/ AnswersNow(kind, o) => responses' \in Seq(Heard)
  <2> TAKE kind \in {"ready", "start", "data", "complete", "error"}, o \in Ops
  <2>1. Append(responses, Msg(kind, o)) \in Seq(Heard)
    BY <1>1, <1>2
  <2> QED BY <1>2, <2>1 DEF Sends, SendTerminal, SendFails, AnswersNow
<1>6. ASSUME NEW o \in Ops, CancelledAnswer(o)  PROVE responses' \in Seq(Heard)
  <2>1. answerAs[o] \in {"complete", "error", "silent"}
    BY DEF FilesTypeOK, HostTypeOK
  <2> QED BY <1>2, <1>5, <1>6, <2>1 DEF CancelledAnswer
<1>7. \A kind : \A o \in Ops : Hears(kind, o) => responses' \in Seq(Heard)
  BY <1>2 DEF Hears
<1>8. \A n \in 0..Len(responses) : SubSeq(responses, 1, n) \in Seq(Heard)
  BY <1>2
<1> QED BY <1>3, <1>4, <1>5, <1>6, <1>7, <1>8 DEF FinishWith, Asked, Heard

LEMMA JobTypes ==
  ASSUME FilesTypeOK, [FilesNext]_filesVars  PROVE JobsTyped'
<1>t. JobsTyped
  BY DEF FilesTypeOK, HostTypeOK, JobsTyped
<1> USE FileNames, <1>t DEF JobsTyped, Phases, filesVars, hostVars, wires, viewVars, diskVars,
    bytesVars, sessionVars
<1>1. ASSUME NEW o \in Ops, CancelSeen(o)  PROVE JobsTyped'
  BY <1>1, Signals DEF CancelSeen, Gives, Drops, Goto
<1>2. ASSUME NEW o \in Ops, JobFails(o)  PROVE JobsTyped'
  BY <1>2, Signals DEF JobFails, Gives, Drops, Goto
<1>3. ASSUME NEW o \in Ops, ReserveFolder(o)  PROVE JobsTyped'
  BY <1>3 DEF ReserveFolder, Goto, Stays, Cancelled
<1>4. ASSUME NEW o \in Ops, Stage(o)  PROVE JobsTyped'
  BY <1>4 DEF Stage, Goto, Stays
<1>5. ASSUME NEW o \in Ops, TellReady(o)  PROVE JobsTyped'
  BY <1>5 DEF TellReady, Goto, Drops, Sends, SendFails, Lock, Cancelled
<1>6. ASSUME NEW o \in Ops, WriteChunk(o)  PROVE JobsTyped'
  BY <1>6 DEF WriteChunk, Stays, Cancelled
<1>7. ASSUME NEW o \in Ops, BeginCommit(o)  PROVE JobsTyped'
  BY <1>7 DEF BeginCommit, Lock, Goto, Stays
<1>8. ASSUME NEW o \in Ops, PublishNew(o)  PROVE JobsTyped'
  BY <1>8 DEF PublishNew, Commits, Goto, Stays
<1>9. ASSUME NEW o \in Ops, ProtectOld(o)  PROVE JobsTyped'
  BY <1>9 DEF ProtectOld, Commits, Goto, Stays
<1>10. ASSUME NEW o \in Ops, ReplaceOld(o)  PROVE JobsTyped'
  BY <1>10 DEF ReplaceOld, Commits, Goto, Stays
<1>11. ASSUME NEW o \in Ops, RestoreOld(o)  PROVE JobsTyped'
  BY <1>11 DEF RestoreOld, Commits, Goto, Stays
<1>12. ASSUME NEW o \in Ops, CannotPublish(o)  PROVE JobsTyped'
  BY <1>12 DEF CannotPublish, Commits, Goto, Stays
<1>13. ASSUME NEW o \in Ops, Record(o)  PROVE JobsTyped'
  BY <1>13 DEF Record, Goto
<1>14. ASSUME NEW o \in Uploads, Settle(o)  PROVE JobsTyped'
  BY <1>14 DEF Settle, Lock, SendTerminal, Sends, SendFails, Gives, Drops, Goto
<1>15. ASSUME NEW o \in Ops, Stream(o)  PROVE JobsTyped'
  BY <1>15 DEF Stream, Sends, SendFails, Goto, Cancelled
<1>16. ASSUME NEW o \in Ops, EndStream(o)  PROVE JobsTyped'
  BY <1>16, Signals DEF EndStream, Gives, Drops, Goto
<1>17. ASSUME NEW o \in Ops, Unregister(o)  PROVE JobsTyped'
  BY <1>17 DEF Unregister, Goto
<1>18. ASSUME NEW o \in Ops, AdmitJob(o)  PROVE JobsTyped'
  BY <1>18 DEF AdmitJob, Goto
<1>19. ASSUME NEW o \in Ops, Reject(o)  PROVE JobsTyped'
  BY <1>19, Signals DEF Reject, Idle
<1>20. ASSUME NEW o \in Ops, CommandForNobody(o)  PROVE JobsTyped'
  BY <1>20, Signals DEF CommandForNobody, Idle
<1>21. ASSUME NEW o \in Ops, TakeCommand(o)  PROVE JobsTyped'
  BY <1>21 DEF TakeCommand
<1>22. ASSUME NEW o \in Ops, CommandStalls(o)  PROVE JobsTyped'
  BY <1>22 DEF CommandStalls
<1>23. ASSUME NEW o \in Ops, CommandTooSlow(o)  PROVE JobsTyped'
  BY <1>23 DEF CommandTooSlow, Lock
<1>24. ASSUME NEW o \in Ops, CommandLost(o)  PROVE JobsTyped'
  BY <1>24 DEF CommandLost
<1>25. ASSUME NEW o \in Ops, Cancel(o)  PROVE JobsTyped'
  BY <1>25 DEF Cancel, Lock
<1>26. ASSUME NEW o \in Ops, CancelSettled(o)  PROVE JobsTyped'
  BY <1>26, Signals DEF CancelSettled, Idle
<1>27. CASE HostEnds
  BY <1>27 DEF HostEnds, StopJobs
<1>28. CASE OpenSession
  BY <1>28 DEF OpenSession, Reopen
<1>29. CASE UNCHANGED hostVars
  BY <1>29
<1> QED BY <1>1, <1>2, <1>3, <1>4, <1>5, <1>6, <1>7, <1>8, <1>9, <1>10, <1>11, <1>12, <1>13,
    <1>14, <1>15, <1>16, <1>17, <1>18, <1>19, <1>20, <1>21, <1>22, <1>23, <1>24, <1>25, <1>26,
    <1>27, <1>28, <1>29, HostCases DEF filesVars

LEMMA LockTypes ==
  ASSUME FilesTypeOK, [FilesNext]_filesVars  PROVE LocksTyped'
<1>t. LocksTyped
  BY DEF FilesTypeOK, HostTypeOK, LocksTyped
<1> USE FileNames, <1>t DEF LocksTyped, LockStates, filesVars, hostVars, wires, viewVars,
    diskVars, bytesVars, sessionVars
<1>1. ASSUME NEW o \in Ops, CancelSeen(o)  PROVE LocksTyped'
  <2>1. lock[o] \in {"active", "cancelling"} /\ lock' = [lock EXCEPT ![o] = "terminal"]
        /\ (answered' = answered \/ answered' = [answered EXCEPT ![o] = @ + 1])
    BY <1>1, EndsOnce DEF CancelSeen
  <2> QED BY <1>1, <2>1 DEF CancelSeen, Gives
<1>2. ASSUME NEW o \in Ops, JobFails(o)  PROVE LocksTyped'
  <2>1. lock[o] \in {"active", "cancelling"} /\ lock' = [lock EXCEPT ![o] = "terminal"]
        /\ (answered' = answered \/ answered' = [answered EXCEPT ![o] = @ + 1])
    BY <1>2, EndsOnce DEF JobFails
  <2> QED BY <1>2, <2>1 DEF JobFails, Gives
<1>3. ASSUME NEW o \in Ops, ReserveFolder(o)  PROVE LocksTyped'
  BY <1>3 DEF ReserveFolder, Goto, Stays, Cancelled
<1>4. ASSUME NEW o \in Ops, Stage(o)  PROVE LocksTyped'
  BY <1>4 DEF Stage, Goto, Stays
<1>5. ASSUME NEW o \in Ops, TellReady(o)  PROVE LocksTyped'
  BY <1>5 DEF TellReady, Goto, Drops, Sends, SendFails, Lock, Cancelled
<1>6. ASSUME NEW o \in Ops, WriteChunk(o)  PROVE LocksTyped'
  BY <1>6 DEF WriteChunk, Stays, Cancelled
<1>7. ASSUME NEW o \in Ops, BeginCommit(o)  PROVE LocksTyped'
  BY <1>7 DEF BeginCommit, Lock, Goto, Stays
<1>8. ASSUME NEW o \in Ops, PublishNew(o)  PROVE LocksTyped'
  BY <1>8 DEF PublishNew, Commits, Goto, Stays
<1>9. ASSUME NEW o \in Ops, ProtectOld(o)  PROVE LocksTyped'
  BY <1>9 DEF ProtectOld, Commits, Goto, Stays
<1>10. ASSUME NEW o \in Ops, ReplaceOld(o)  PROVE LocksTyped'
  BY <1>10 DEF ReplaceOld, Commits, Goto, Stays
<1>11. ASSUME NEW o \in Ops, RestoreOld(o)  PROVE LocksTyped'
  BY <1>11 DEF RestoreOld, Commits, Goto, Stays
<1>12. ASSUME NEW o \in Ops, CannotPublish(o)  PROVE LocksTyped'
  BY <1>12 DEF CannotPublish, Commits, Goto, Stays
<1>13. ASSUME NEW o \in Ops, Record(o)  PROVE LocksTyped'
  BY <1>13 DEF Record, Goto
<1>14. ASSUME NEW o \in Uploads, Settle(o)  PROVE LocksTyped'
  <2>1. /\ lock' = [lock EXCEPT ![o] = "terminal"] /\ answered' = [answered EXCEPT ![o] = @ + 1]
    BY <1>14 DEF Settle, SendTerminal, Lock
  <2> QED BY <1>14, <2>1 DEF Settle, Gives
<1>15. ASSUME NEW o \in Ops, Stream(o)  PROVE LocksTyped'
  BY <1>15 DEF Stream, Sends, SendFails, Goto, Cancelled
<1>16. ASSUME NEW o \in Ops, EndStream(o)  PROVE LocksTyped'
  <2>1. lock[o] \in {"active", "cancelling"} /\ lock' = [lock EXCEPT ![o] = "terminal"]
        /\ (answered' = answered \/ answered' = [answered EXCEPT ![o] = @ + 1])
    BY <1>16, EndsOnce DEF EndStream
  <2> QED BY <1>16, <2>1 DEF EndStream, Gives
<1>17. ASSUME NEW o \in Ops, Unregister(o)  PROVE LocksTyped'
  BY <1>17 DEF Unregister, Goto
<1>18. ASSUME NEW o \in Ops, AdmitJob(o)  PROVE LocksTyped'
  BY <1>18 DEF AdmitJob, Goto
<1>19. ASSUME NEW o \in Ops, Reject(o)  PROVE LocksTyped'
  BY <1>19 DEF Reject, Idle
<1>20. ASSUME NEW o \in Ops, CommandForNobody(o)  PROVE LocksTyped'
  BY <1>20 DEF CommandForNobody, Idle
<1>21. ASSUME NEW o \in Ops, TakeCommand(o)  PROVE LocksTyped'
  BY <1>21 DEF TakeCommand
<1>22. ASSUME NEW o \in Ops, CommandStalls(o)  PROVE LocksTyped'
  BY <1>22 DEF CommandStalls
<1>23. ASSUME NEW o \in Ops, CommandTooSlow(o)  PROVE LocksTyped'
  BY <1>23 DEF CommandTooSlow, Lock
<1>24. ASSUME NEW o \in Ops, CommandLost(o)  PROVE LocksTyped'
  BY <1>24 DEF CommandLost
<1>25. ASSUME NEW o \in Ops, Cancel(o)  PROVE LocksTyped'
  BY <1>25 DEF Cancel, Lock
<1>26. ASSUME NEW o \in Ops, CancelSettled(o)  PROVE LocksTyped'
  BY <1>26 DEF CancelSettled, Idle
<1>27. CASE HostEnds
  BY <1>27 DEF HostEnds, StopJobs
<1>28. CASE OpenSession
  BY <1>28 DEF OpenSession, Reopen
<1>29. CASE UNCHANGED hostVars
  BY <1>29
<1> QED BY <1>1, <1>2, <1>3, <1>4, <1>5, <1>6, <1>7, <1>8, <1>9, <1>10, <1>11, <1>12, <1>13,
    <1>14, <1>15, <1>16, <1>17, <1>18, <1>19, <1>20, <1>21, <1>22, <1>23, <1>24, <1>25, <1>26,
    <1>27, <1>28, <1>29, HostCases DEF filesVars

LEMMA FileTypes ==
  ASSUME FilesTypeOK, [FilesNext]_filesVars  PROVE FilesTyped'
<1>t. FilesTyped
  BY DEF FilesTypeOK, HostTypeOK, FilesTyped
<1> USE FileNames, <1>t DEF FilesTyped, filesVars, hostVars, wires, viewVars, diskVars,
    bytesVars, sessionVars
<1>1. ASSUME NEW o \in Ops, CancelSeen(o)  PROVE FilesTyped'
  BY <1>1 DEF CancelSeen, CancelledAnswer, SendTerminal, Sends, SendFails, Lock, Gives, Drops,
      Goto
<1>2. ASSUME NEW o \in Ops, JobFails(o)  PROVE FilesTyped'
  BY <1>2 DEF JobFails, FinishWith, CancelledAnswer, SendTerminal, Sends, SendFails, Lock,
      Gives, Drops, Goto
<1>3. ASSUME NEW o \in Ops, ReserveFolder(o)  PROVE FilesTyped'
  BY <1>3 DEF ReserveFolder, Goto, Stays, Cancelled
<1>4. ASSUME NEW o \in Ops, Stage(o)  PROVE FilesTyped'
  BY <1>4 DEF Stage, Goto, Stays
<1>5. ASSUME NEW o \in Ops, TellReady(o)  PROVE FilesTyped'
  BY <1>5 DEF TellReady, Goto, Drops, Sends, SendFails, Lock, Cancelled
<1>6. ASSUME NEW o \in Ops, WriteChunk(o)  PROVE FilesTyped'
  BY <1>6 DEF WriteChunk, Stays, Cancelled
<1>7. ASSUME NEW o \in Ops, BeginCommit(o)  PROVE FilesTyped'
  BY <1>7 DEF BeginCommit, Lock, Goto, Stays
<1>8. ASSUME NEW o \in Ops, PublishNew(o)  PROVE FilesTyped'
  BY <1>8 DEF PublishNew, Commits, Goto, Stays
<1>9. ASSUME NEW o \in Ops, ProtectOld(o)  PROVE FilesTyped'
  BY <1>9 DEF ProtectOld, Commits, Goto, Stays
<1>10. ASSUME NEW o \in Ops, ReplaceOld(o)  PROVE FilesTyped'
  BY <1>10 DEF ReplaceOld, Commits, Goto, Stays
<1>11. ASSUME NEW o \in Ops, RestoreOld(o)  PROVE FilesTyped'
  <2>1. backup[o] \in Uploads \cup {None, "old"} /\ commands' = commands /\ staging' = staging
    BY <1>11 DEF RestoreOld, Commits, Stays
  <2>2. file' = file \/ file' = backup[o]
    BY <1>11 DEF RestoreOld
  <2>3. backup' = backup \/ backup' = [backup EXCEPT ![o] = None]
    BY <1>11 DEF RestoreOld
  <2> QED BY <2>1, <2>2, <2>3
<1>12. ASSUME NEW o \in Ops, CannotPublish(o)  PROVE FilesTyped'
  BY <1>12 DEF CannotPublish, Commits, Goto, Stays
<1>13. ASSUME NEW o \in Ops, Record(o)  PROVE FilesTyped'
  BY <1>13 DEF Record, Goto
<1>14. ASSUME NEW o \in Uploads, Settle(o)  PROVE FilesTyped'
  BY <1>14 DEF Settle, Lock, SendTerminal, Sends, SendFails, Gives, Drops, Goto
<1>15. ASSUME NEW o \in Ops, Stream(o)  PROVE FilesTyped'
  BY <1>15 DEF Stream, Sends, SendFails, Goto, Cancelled
<1>16. ASSUME NEW o \in Ops, EndStream(o)  PROVE FilesTyped'
  BY <1>16 DEF EndStream, FinishWith, CancelledAnswer, SendTerminal, Sends, SendFails, Lock,
      Gives, Drops, Goto
<1>17. ASSUME NEW o \in Ops, Unregister(o)  PROVE FilesTyped'
  BY <1>17 DEF Unregister, Goto
<1>18. ASSUME NEW o \in Ops, AdmitJob(o)  PROVE FilesTyped'
  BY <1>18 DEF AdmitJob, Goto
<1>19. ASSUME NEW o \in Ops, Reject(o)  PROVE FilesTyped'
  BY <1>19 DEF Reject, Idle
<1>20. ASSUME NEW o \in Ops, CommandForNobody(o)  PROVE FilesTyped'
  BY <1>20 DEF CommandForNobody, Idle
<1>21. ASSUME NEW o \in Ops, TakeCommand(o)  PROVE FilesTyped'
  BY <1>21 DEF TakeCommand
<1>22. ASSUME NEW o \in Ops, CommandStalls(o)  PROVE FilesTyped'
  BY <1>22 DEF CommandStalls
<1>23. ASSUME NEW o \in Ops, CommandTooSlow(o)  PROVE FilesTyped'
  BY <1>23 DEF CommandTooSlow, Lock
<1>24. ASSUME NEW o \in Ops, CommandLost(o)  PROVE FilesTyped'
  BY <1>24 DEF CommandLost
<1>25. ASSUME NEW o \in Ops, Cancel(o)  PROVE FilesTyped'
  BY <1>25 DEF Cancel, Lock
<1>26. ASSUME NEW o \in Ops, CancelSettled(o)  PROVE FilesTyped'
  BY <1>26 DEF CancelSettled, Idle
<1>27. CASE HostEnds
  BY <1>27 DEF HostEnds, StopJobs
<1>28. CASE OpenSession
  BY <1>28 DEF OpenSession, Reopen
<1>29. CASE UNCHANGED hostVars
  BY <1>29
<1> QED BY <1>1, <1>2, <1>3, <1>4, <1>5, <1>6, <1>7, <1>8, <1>9, <1>10, <1>11, <1>12, <1>13,
    <1>14, <1>15, <1>16, <1>17, <1>18, <1>19, <1>20, <1>21, <1>22, <1>23, <1>24, <1>25, <1>26,
    <1>27, <1>28, <1>29, HostCases DEF filesVars

LEMMA WireTypes ==
  ASSUME FilesTypeOK, Listed, [FilesNext]_filesVars  PROVE WiresTyped'
<1>t. WiresTyped /\ \A x \in Ops : stalled = x => requests # <<>>
  BY DEF FilesTypeOK, WiresTyped, Listed, ListedAt
<1> USE FileNames, WireKinds, <1>t DEF WiresTyped, HeadIs, filesVars, hostVars, wires,
    viewVars, diskVars, bytesVars, sessionVars
<1>1. ASSUME NEW o \in Ops, Begin(o)  PROVE WiresTyped'
  BY <1>1 DEF Begin, Row, Call
<1>2. ASSUME NEW o \in Ops, Ask(o)  PROVE WiresTyped'
  BY <1>2 DEF Ask, Call
<1>3. ASSUME NEW o \in Ops, ReadyTimeout(o)  PROVE WiresTyped'
  BY <1>3 DEF ReadyTimeout, Fails, Call
<1>4. ASSUME NEW o \in Ops, CheckChunk(o)  PROVE WiresTyped'
  BY <1>4 DEF CheckChunk, Call
<1>5. ASSUME NEW o \in Ops, SendChunk(o)  PROVE WiresTyped'
  BY <1>5 DEF SendChunk, Call
<1>6. ASSUME NEW o \in Ops, CheckFinish(o)  PROVE WiresTyped'
  BY <1>6 DEF CheckFinish, Call
<1>7. ASSUME NEW o \in Ops, SendFinish(o)  PROVE WiresTyped'
  BY <1>7 DEF SendFinish, Call
<1>8. ASSUME NEW o \in Ops, FinishTimeout(o)  PROVE WiresTyped'
  BY <1>8 DEF FinishTimeout, Fails, Call
<1>9. ASSUME NEW o \in Ops, CallCut(o)  PROVE WiresTyped'
  BY <1>9 DEF CallCut, Fails, Call
<1>10. ASSUME NEW o \in Ops, CancelTransfer(o)  PROVE WiresTyped'
  BY <1>10 DEF CancelTransfer, Row
<1>11. ASSUME NEW o \in Ops, HearReady(o)  PROVE WiresTyped'
  BY <1>11 DEF HearReady
<1>12. ASSUME NEW o \in Ops, HearData(o)  PROVE WiresTyped'
  BY <1>12 DEF HearData
<1>13. ASSUME NEW o \in Ops, RefuseData(o)  PROVE WiresTyped'
  BY <1>13 DEF RefuseData, Fails
<1>14. ASSUME NEW o \in Ops, HearError(o)  PROVE WiresTyped'
  BY <1>14 DEF HearError, Fails
<1>15. ASSUME NEW o \in Ops, HearComplete(o)  PROVE WiresTyped'
  BY <1>15 DEF HearComplete
<1>16. ASSUME NEW o \in Ops, Complete(o)  PROVE WiresTyped'
  BY <1>16 DEF Complete, Row
<1>17. ASSUME NEW o \in Ops, CancelSeen(o), UNCHANGED viewVars  PROVE WiresTyped'
  BY <1>17, Signals DEF CancelSeen, Gives, Stays, Idle
<1>18. ASSUME NEW o \in Ops, JobFails(o), UNCHANGED viewVars  PROVE WiresTyped'
  BY <1>18, Signals DEF JobFails, Gives, Stays, Idle
<1>19. ASSUME NEW o \in Ops, ReserveFolder(o), UNCHANGED viewVars  PROVE WiresTyped'
  BY <1>19 DEF ReserveFolder, Goto, Stays, Cancelled
<1>20. ASSUME NEW o \in Ops, Stage(o), UNCHANGED viewVars  PROVE WiresTyped'
  BY <1>20 DEF Stage, Goto, Stays
<1>21. ASSUME NEW o \in Ops, TellReady(o), UNCHANGED viewVars  PROVE WiresTyped'
  BY <1>21, Signals DEF TellReady, Gives, Stays, Idle
<1>22. ASSUME NEW o \in Ops, WriteChunk(o), UNCHANGED viewVars  PROVE WiresTyped'
  BY <1>22 DEF WriteChunk, Stays, Cancelled
<1>23. ASSUME NEW o \in Ops, BeginCommit(o), UNCHANGED viewVars  PROVE WiresTyped'
  BY <1>23 DEF BeginCommit, Lock, Goto, Stays
<1>24. ASSUME NEW o \in Ops, PublishNew(o), UNCHANGED viewVars  PROVE WiresTyped'
  BY <1>24 DEF PublishNew, Commits, Goto, Stays
<1>25. ASSUME NEW o \in Ops, ProtectOld(o), UNCHANGED viewVars  PROVE WiresTyped'
  BY <1>25 DEF ProtectOld, Commits, Goto, Stays
<1>26. ASSUME NEW o \in Ops, ReplaceOld(o), UNCHANGED viewVars  PROVE WiresTyped'
  BY <1>26 DEF ReplaceOld, Commits, Goto, Stays
<1>27. ASSUME NEW o \in Ops, RestoreOld(o), UNCHANGED viewVars  PROVE WiresTyped'
  BY <1>27 DEF RestoreOld, Commits, Goto, Stays
<1>28. ASSUME NEW o \in Ops, CannotPublish(o), UNCHANGED viewVars  PROVE WiresTyped'
  BY <1>28 DEF CannotPublish, Commits, Goto, Stays
<1>29. ASSUME NEW o \in Ops, Record(o), UNCHANGED viewVars  PROVE WiresTyped'
  BY <1>29 DEF Record, Goto
<1>30. ASSUME NEW o \in Uploads, Settle(o), UNCHANGED viewVars  PROVE WiresTyped'
  BY <1>30, Signals DEF Settle, Gives, Stays, Idle
<1>31. ASSUME NEW o \in Ops, Stream(o), UNCHANGED viewVars  PROVE WiresTyped'
  BY <1>31, Signals DEF Stream, Gives, Stays, Idle
<1>32. ASSUME NEW o \in Ops, EndStream(o), UNCHANGED viewVars  PROVE WiresTyped'
  BY <1>32, Signals DEF EndStream, Gives, Stays, Idle
<1>33. ASSUME NEW o \in Ops, Unregister(o), UNCHANGED viewVars  PROVE WiresTyped'
  BY <1>33 DEF Unregister, Goto
<1>34. ASSUME NEW o \in Ops, AdmitJob(o), UNCHANGED viewVars  PROVE WiresTyped'
  BY <1>34 DEF AdmitJob, Goto
<1>35. ASSUME NEW o \in Ops, Reject(o), UNCHANGED viewVars  PROVE WiresTyped'
  BY <1>35, Signals DEF Reject, Gives, Stays, Idle
<1>36. ASSUME NEW o \in Ops, CommandForNobody(o), UNCHANGED viewVars  PROVE WiresTyped'
  BY <1>36, Signals DEF CommandForNobody, Gives, Stays, Idle
<1>37. ASSUME NEW o \in Ops, TakeCommand(o), UNCHANGED viewVars  PROVE WiresTyped'
  BY <1>37 DEF TakeCommand
<1>38. ASSUME NEW o \in Ops, CommandStalls(o), UNCHANGED viewVars  PROVE WiresTyped'
  BY <1>38 DEF CommandStalls
<1>39. ASSUME NEW o \in Ops, CommandTooSlow(o), UNCHANGED viewVars  PROVE WiresTyped'
  BY <1>39 DEF CommandTooSlow, Lock
<1>40. ASSUME NEW o \in Ops, CommandLost(o), UNCHANGED viewVars  PROVE WiresTyped'
  BY <1>40 DEF CommandLost
<1>41. ASSUME NEW o \in Ops, Cancel(o), UNCHANGED viewVars  PROVE WiresTyped'
  BY <1>41 DEF Cancel, Lock
<1>42. ASSUME NEW o \in Ops, CancelSettled(o), UNCHANGED viewVars  PROVE WiresTyped'
  BY <1>42, Signals DEF CancelSettled, Gives, Stays, Idle
<1>43. CASE SessionLost
  BY <1>43 DEF SessionLost, ClosesAll
<1>44. CASE LeaveSession
  BY <1>44 DEF LeaveSession, ClosesAll
<1>45. CASE Aborted
  BY <1>45 DEF Aborted
<1>46. CASE HostEnds
  BY <1>46 DEF HostEnds, StopJobs
<1>47. CASE OpenSession
  BY <1>47 DEF OpenSession, Reopen
<1>48. CASE UNCHANGED filesVars
  BY <1>48
<1> QED BY <1>1, <1>2, <1>3, <1>4, <1>5, <1>6, <1>7, <1>8, <1>9, <1>10, <1>11, <1>12, <1>13,
    <1>14, <1>15, <1>16, <1>17, <1>18, <1>19, <1>20, <1>21, <1>22, <1>23, <1>24, <1>25, <1>26,
    <1>27, <1>28, <1>29, <1>30, <1>31, <1>32, <1>33, <1>34, <1>35, <1>36, <1>37, <1>38, <1>39,
    <1>40, <1>41, <1>42, <1>43, <1>44, <1>45, <1>46, <1>47, <1>48, FileCases

LEMMA ViewTypes ==
  ASSUME FilesTypeOK, [FilesNext]_filesVars  PROVE ViewTyped'
<1>t. ViewTyped
  BY DEF FilesTypeOK, HostTypeOK, ViewTyped
<1> USE FileNames, <1>t DEF ViewTyped, CallStates, filesVars, hostVars, wires, viewVars,
    diskVars, bytesVars, sessionVars
<1>1. ASSUME NEW o \in Ops, Begin(o)  PROVE ViewTyped'
  BY <1>1 DEF Begin, Row, Call
<1>2. ASSUME NEW o \in Ops, Ask(o)  PROVE ViewTyped'
  BY <1>2 DEF Ask, Call
<1>3. ASSUME NEW o \in Ops, ReadyTimeout(o)  PROVE ViewTyped'
  BY <1>3 DEF ReadyTimeout, Fails, Call
<1>4. ASSUME NEW o \in Ops, CheckChunk(o)  PROVE ViewTyped'
  BY <1>4 DEF CheckChunk, Call
<1>5. ASSUME NEW o \in Ops, SendChunk(o)  PROVE ViewTyped'
  BY <1>5 DEF SendChunk, Call
<1>6. ASSUME NEW o \in Ops, CheckFinish(o)  PROVE ViewTyped'
  BY <1>6 DEF CheckFinish, Call
<1>7. ASSUME NEW o \in Ops, SendFinish(o)  PROVE ViewTyped'
  BY <1>7 DEF SendFinish, Call
<1>8. ASSUME NEW o \in Ops, FinishTimeout(o)  PROVE ViewTyped'
  BY <1>8 DEF FinishTimeout, Fails, Call
<1>9. ASSUME NEW o \in Ops, CallCut(o)  PROVE ViewTyped'
  BY <1>9 DEF CallCut, Fails, Call
<1>10. ASSUME NEW o \in Ops, CancelTransfer(o)  PROVE ViewTyped'
  BY <1>10 DEF CancelTransfer, Row
<1>11. ASSUME NEW o \in Ops, HearReady(o)  PROVE ViewTyped'
  BY <1>11 DEF HearReady
<1>12. ASSUME NEW o \in Ops, HearData(o)  PROVE ViewTyped'
  <2>1. got' = [got EXCEPT ![o] = @ + 1] /\ got[o] \in {-1, 0}
    BY <1>12 DEF HearData
  <2>2. got[o] + 1 \in {-1, 0, 1}
    BY <2>1
  <2>3. got' \in [Downloads -> {-1, 0, 1}]
    BY <2>1, <2>2
  <2> QED BY <1>12, <2>3 DEF HearData
<1>13. ASSUME NEW o \in Ops, RefuseData(o)  PROVE ViewTyped'
  BY <1>13 DEF RefuseData, Fails
<1>14. ASSUME NEW o \in Ops, HearError(o)  PROVE ViewTyped'
  BY <1>14 DEF HearError, Fails
<1>15. ASSUME NEW o \in Ops, HearComplete(o)  PROVE ViewTyped'
  BY <1>15 DEF HearComplete
<1>16. ASSUME NEW o \in Ops, Complete(o)  PROVE ViewTyped'
  BY <1>16 DEF Complete, Row
<1>17. CASE SessionLost
  BY <1>17 DEF SessionLost, ClosesAll
<1>18. CASE LeaveSession
  BY <1>18 DEF LeaveSession, ClosesAll
<1>19. CASE Aborted
  BY <1>19 DEF Aborted
<1>20. CASE OpenSession
  BY <1>20, SessionsAssumption DEF OpenSession, Reopen
<1>21. CASE UNCHANGED viewVars
  BY <1>21
<1> QED BY <1>1, <1>2, <1>3, <1>4, <1>5, <1>6, <1>7, <1>8, <1>9, <1>10, <1>11, <1>12, <1>13,
    <1>14, <1>15, <1>16, <1>17, <1>18, <1>19, <1>20, <1>21, ViewCases DEF filesVars

LEMMA ListedStep ==
  ASSUME FilesTypeOK, NEW x \in Ops, Listed, [FilesNext]_filesVars  PROVE ListedAt(x)'
<1>t. /\ DOMAIN pc = Ops /\ DOMAIN lock = Ops /\ DOMAIN answerAs = Ops /\ DOMAIN answered = Ops
      /\ DOMAIN row = Ops /\ DOMAIN call = Ops
      /\ DOMAIN backup = Uploads /\ DOMAIN staging = Uploads
      /\ stalled \in Ops \cup {None} /\ file \in Uploads \cup {None, "old"}
  BY DEF FilesTypeOK, HostTypeOK
<1>r. /\ requests \in Seq(Messages({"start", "chunk", "finish", "cancel"}))
      /\ \A kind : \A o \in Ops : Writes(kind, o) => requests' # <<>>
  BY DEF FilesTypeOK, Writes
<1> USE FileNames, <1>t, <1>r DEF Listed, ListedAt, filesVars, hostVars, wires, viewVars, diskVars,
    bytesVars, sessionVars
<1>1. ASSUME NEW o \in Ops, Begin(o)  PROVE ListedAt(x)'
  BY <1>1 DEF Begin, Row, Call, HeadIs, Takes, AnswersNow
<1>2. ASSUME NEW o \in Ops, Ask(o)  PROVE ListedAt(x)'
  BY <1>2 DEF Ask, Call, HeadIs, Takes, AnswersNow
<1>3. ASSUME NEW o \in Ops, ReadyTimeout(o)  PROVE ListedAt(x)'
  BY <1>3 DEF ReadyTimeout, Fails, Call, HeadIs, Takes, AnswersNow
<1>4. ASSUME NEW o \in Ops, CheckChunk(o)  PROVE ListedAt(x)'
  BY <1>4 DEF CheckChunk, Call, HeadIs, Takes, AnswersNow
<1>5. ASSUME NEW o \in Ops, SendChunk(o)  PROVE ListedAt(x)'
  BY <1>5 DEF SendChunk, Call, HeadIs, Takes, AnswersNow
<1>6. ASSUME NEW o \in Ops, CheckFinish(o)  PROVE ListedAt(x)'
  BY <1>6 DEF CheckFinish, Call, HeadIs, Takes, AnswersNow
<1>7. ASSUME NEW o \in Ops, SendFinish(o)  PROVE ListedAt(x)'
  BY <1>7 DEF SendFinish, Call, HeadIs, Takes, AnswersNow
<1>8. ASSUME NEW o \in Ops, FinishTimeout(o)  PROVE ListedAt(x)'
  BY <1>8 DEF FinishTimeout, Fails, Call, HeadIs, Takes, AnswersNow
<1>9. ASSUME NEW o \in Ops, CallCut(o)  PROVE ListedAt(x)'
  BY <1>9 DEF CallCut, Fails, Call, HeadIs, Takes, AnswersNow
<1>10. ASSUME NEW o \in Ops, CancelTransfer(o)  PROVE ListedAt(x)'
  BY <1>10 DEF CancelTransfer, Row, HeadIs, Takes, AnswersNow
<1>11. ASSUME NEW o \in Ops, HearReady(o)  PROVE ListedAt(x)'
  BY <1>11 DEF HearReady, HeadIs, Takes, AnswersNow
<1>12. ASSUME NEW o \in Ops, HearData(o)  PROVE ListedAt(x)'
  BY <1>12 DEF HearData, HeadIs, Takes, AnswersNow
<1>13. ASSUME NEW o \in Ops, RefuseData(o)  PROVE ListedAt(x)'
  BY <1>13 DEF RefuseData, Fails, HeadIs, Takes, AnswersNow
<1>14. ASSUME NEW o \in Ops, HearError(o)  PROVE ListedAt(x)'
  BY <1>14 DEF HearError, Fails, HeadIs, Takes, AnswersNow
<1>15. ASSUME NEW o \in Ops, HearComplete(o)  PROVE ListedAt(x)'
  BY <1>15 DEF HearComplete, HeadIs, Takes, AnswersNow
<1>16. ASSUME NEW o \in Ops, Complete(o)  PROVE ListedAt(x)'
  BY <1>16 DEF Complete, Row, HeadIs, Takes, AnswersNow
<1>17. ASSUME NEW o \in Ops, CancelSeen(o), UNCHANGED viewVars  PROVE ListedAt(x)'
  BY <1>17 DEF CancelSeen, CancelledAnswer, SendTerminal, Sends, SendFails, Lock, Gives, Drops,
      Goto, HeadIs, Takes, AnswersNow
<1>18. ASSUME NEW o \in Ops, JobFails(o), UNCHANGED viewVars  PROVE ListedAt(x)'
  BY <1>18 DEF JobFails, FinishWith, CancelledAnswer, SendTerminal, Sends, SendFails, Lock,
      Gives, Drops, Goto, HeadIs, Takes, AnswersNow
<1>19. ASSUME NEW o \in Ops, ReserveFolder(o), UNCHANGED viewVars  PROVE ListedAt(x)'
  BY <1>19 DEF ReserveFolder, Goto, Stays, Cancelled, HeadIs, Takes, AnswersNow
<1>20. ASSUME NEW o \in Ops, Stage(o), UNCHANGED viewVars  PROVE ListedAt(x)'
  BY <1>20 DEF Stage, Goto, Stays, HeadIs, Takes, AnswersNow
<1>21. ASSUME NEW o \in Ops, TellReady(o), UNCHANGED viewVars  PROVE ListedAt(x)'
  BY <1>21 DEF TellReady, Goto, Drops, Sends, SendFails, Lock, Cancelled, HeadIs, Takes,
      AnswersNow
<1>22. ASSUME NEW o \in Ops, WriteChunk(o), UNCHANGED viewVars  PROVE ListedAt(x)'
  BY <1>22 DEF WriteChunk, Stays, Cancelled, HeadIs, Takes, AnswersNow
<1>23. ASSUME NEW o \in Ops, BeginCommit(o), UNCHANGED viewVars  PROVE ListedAt(x)'
  BY <1>23 DEF BeginCommit, Lock, Goto, Stays, HeadIs, Takes, AnswersNow
<1>24. ASSUME NEW o \in Ops, PublishNew(o), UNCHANGED viewVars  PROVE ListedAt(x)'
  BY <1>24 DEF PublishNew, Commits, Goto, Stays, HeadIs, Takes, AnswersNow
<1>25. ASSUME NEW o \in Ops, ProtectOld(o), UNCHANGED viewVars  PROVE ListedAt(x)'
  BY <1>25 DEF ProtectOld, Commits, Goto, Stays, HeadIs, Takes, AnswersNow
<1>26. ASSUME NEW o \in Ops, ReplaceOld(o), UNCHANGED viewVars  PROVE ListedAt(x)'
  BY <1>26 DEF ReplaceOld, Commits, Goto, Stays, HeadIs, Takes, AnswersNow
<1>27. ASSUME NEW o \in Ops, RestoreOld(o), UNCHANGED viewVars  PROVE ListedAt(x)'
  BY <1>27 DEF RestoreOld, Commits, Goto, Stays, HeadIs, Takes, AnswersNow
<1>28. ASSUME NEW o \in Ops, CannotPublish(o), UNCHANGED viewVars  PROVE ListedAt(x)'
  BY <1>28 DEF CannotPublish, Commits, Goto, Stays, HeadIs, Takes, AnswersNow
<1>29. ASSUME NEW o \in Ops, Record(o), UNCHANGED viewVars  PROVE ListedAt(x)'
  BY <1>29 DEF Record, Goto, HeadIs, Takes, AnswersNow
<1>30. ASSUME NEW o \in Uploads, Settle(o), UNCHANGED viewVars  PROVE ListedAt(x)'
  BY <1>30 DEF Settle, Lock, SendTerminal, Sends, SendFails, Gives, Drops, Goto, HeadIs, Takes,
      AnswersNow
<1>31. ASSUME NEW o \in Ops, Stream(o), UNCHANGED viewVars  PROVE ListedAt(x)'
  BY <1>31 DEF Stream, Sends, SendFails, Goto, Cancelled, HeadIs, Takes, AnswersNow
<1>32. ASSUME NEW o \in Ops, EndStream(o), UNCHANGED viewVars  PROVE ListedAt(x)'
  BY <1>32 DEF EndStream, FinishWith, CancelledAnswer, SendTerminal, Sends, SendFails, Lock,
      Gives, Drops, Goto, HeadIs, Takes, AnswersNow
<1>33. ASSUME NEW o \in Ops, Unregister(o), UNCHANGED viewVars  PROVE ListedAt(x)'
  BY <1>33 DEF Unregister, Goto, HeadIs, Takes, AnswersNow
<1>34. ASSUME NEW o \in Ops, AdmitJob(o), UNCHANGED viewVars  PROVE ListedAt(x)'
  BY <1>34 DEF AdmitJob, Goto, HeadIs, Takes, AnswersNow
<1>35. ASSUME NEW o \in Ops, Reject(o), UNCHANGED viewVars  PROVE ListedAt(x)'
  BY <1>35 DEF Reject, Idle, HeadIs, Takes, AnswersNow
<1>36. ASSUME NEW o \in Ops, CommandForNobody(o), UNCHANGED viewVars  PROVE ListedAt(x)'
  BY <1>36 DEF CommandForNobody, Idle, HeadIs, Takes, AnswersNow
<1>37. ASSUME NEW o \in Ops, TakeCommand(o), UNCHANGED viewVars  PROVE ListedAt(x)'
  BY <1>37 DEF TakeCommand, HeadIs, Takes, AnswersNow
<1>38. ASSUME NEW o \in Ops, CommandStalls(o), UNCHANGED viewVars  PROVE ListedAt(x)'
  BY <1>38 DEF CommandStalls, HeadIs, Takes, AnswersNow
<1>39. ASSUME NEW o \in Ops, CommandTooSlow(o), UNCHANGED viewVars  PROVE ListedAt(x)'
  BY <1>39 DEF CommandTooSlow, Lock, HeadIs, Takes, AnswersNow
<1>40. ASSUME NEW o \in Ops, CommandLost(o), UNCHANGED viewVars  PROVE ListedAt(x)'
  BY <1>40 DEF CommandLost, HeadIs, Takes, AnswersNow
<1>41. ASSUME NEW o \in Ops, Cancel(o), UNCHANGED viewVars  PROVE ListedAt(x)'
  BY <1>41 DEF Cancel, Lock, HeadIs, Takes, AnswersNow
<1>42. ASSUME NEW o \in Ops, CancelSettled(o), UNCHANGED viewVars  PROVE ListedAt(x)'
  BY <1>42 DEF CancelSettled, Idle, HeadIs, Takes, AnswersNow
<1>43. CASE SessionLost
  BY <1>43 DEF SessionLost, ClosesAll, HeadIs, Takes, AnswersNow
<1>44. CASE LeaveSession
  BY <1>44 DEF LeaveSession, ClosesAll, HeadIs, Takes, AnswersNow
<1>45. CASE Aborted
  BY <1>45 DEF Aborted, HeadIs, Takes, AnswersNow
<1>46. CASE HostEnds
  BY <1>46 DEF HostEnds, StopJobs, HeadIs, Takes, AnswersNow
<1>47. CASE OpenSession
  BY <1>47 DEF OpenSession, Reopen, HeadIs, Takes, AnswersNow
<1>48. CASE UNCHANGED filesVars
  BY <1>48
<1> QED BY <1>1, <1>2, <1>3, <1>4, <1>5, <1>6, <1>7, <1>8, <1>9, <1>10, <1>11, <1>12, <1>13,
    <1>14, <1>15, <1>16, <1>17, <1>18, <1>19, <1>20, <1>21, <1>22, <1>23, <1>24, <1>25, <1>26,
    <1>27, <1>28, <1>29, <1>30, <1>31, <1>32, <1>33, <1>34, <1>35, <1>36, <1>37, <1>38, <1>39,
    <1>40, <1>41, <1>42, <1>43, <1>44, <1>45, <1>46, <1>47, <1>48, FileCases

LEMMA FolderStep ==
  ASSUME FilesTypeOK, NEW x \in Ops, Folder, Publishing, [FilesNext]_filesVars
  PROVE  FolderAt(x)'
<1>t. /\ DOMAIN pc = Ops /\ DOMAIN lock = Ops /\ DOMAIN answerAs = Ops /\ DOMAIN answered = Ops
      /\ DOMAIN row = Ops /\ DOMAIN call = Ops
      /\ DOMAIN backup = Uploads /\ DOMAIN staging = Uploads
      /\ stalled \in Ops \cup {None} /\ file \in Uploads \cup {None, "old"}
  BY DEF FilesTypeOK, HostTypeOK
<1> USE FileNames, <1>t DEF Folder, Publishing, FolderAt, PublishingAt, Filed, filesVars,
    hostVars, wires, viewVars, diskVars, bytesVars, sessionVars, FolderPhases
<1>1. ASSUME NEW o \in Ops, CancelSeen(o)  PROVE FolderAt(x)'
  BY <1>1 DEF CancelSeen, CancelledAnswer, SendTerminal, Sends, SendFails, Lock, Gives, Drops,
      Goto
<1>2. ASSUME NEW o \in Ops, JobFails(o)  PROVE FolderAt(x)'
  BY <1>2 DEF JobFails, FinishWith, CancelledAnswer, SendTerminal, Sends, SendFails, Lock,
      Gives, Drops, Goto
<1>3. ASSUME NEW o \in Ops, ReserveFolder(o)  PROVE FolderAt(x)'
  BY <1>3 DEF ReserveFolder, Goto, Stays, Cancelled
<1>4. ASSUME NEW o \in Ops, Stage(o)  PROVE FolderAt(x)'
  BY <1>4 DEF Stage, Goto, Stays
<1>5. ASSUME NEW o \in Ops, TellReady(o)  PROVE FolderAt(x)'
  BY <1>5 DEF TellReady, Goto, Drops, Sends, SendFails, Lock, Cancelled
<1>6. ASSUME NEW o \in Ops, WriteChunk(o)  PROVE FolderAt(x)'
  BY <1>6 DEF WriteChunk, Stays, Cancelled
<1>7. ASSUME NEW o \in Ops, BeginCommit(o)  PROVE FolderAt(x)'
  BY <1>7 DEF BeginCommit, Lock, Goto, Stays
<1>8. ASSUME NEW o \in Ops, PublishNew(o)  PROVE FolderAt(x)'
  BY <1>8 DEF PublishNew, Commits, Goto, Stays
<1>9. ASSUME NEW o \in Ops, ProtectOld(o)  PROVE FolderAt(x)'
  BY <1>9 DEF ProtectOld, Commits, Goto, Stays
<1>10. ASSUME NEW o \in Ops, ReplaceOld(o)  PROVE FolderAt(x)'
  BY <1>10 DEF ReplaceOld, Commits, Goto, Stays
<1>11. ASSUME NEW o \in Ops, RestoreOld(o)  PROVE FolderAt(x)'
  BY <1>11 DEF RestoreOld, Commits, Goto, Stays
<1>12. ASSUME NEW o \in Ops, CannotPublish(o)  PROVE FolderAt(x)'
  BY <1>12 DEF CannotPublish, Commits, Goto, Stays
<1>13. ASSUME NEW o \in Ops, Record(o)  PROVE FolderAt(x)'
  BY <1>13 DEF Record, Goto
<1>14. ASSUME NEW o \in Uploads, Settle(o)  PROVE FolderAt(x)'
  BY <1>14 DEF Settle, Lock, SendTerminal, Sends, SendFails, Gives, Drops, Goto
<1>15. ASSUME NEW o \in Ops, Stream(o)  PROVE FolderAt(x)'
  BY <1>15 DEF Stream, Sends, SendFails, Goto, Cancelled
<1>16. ASSUME NEW o \in Ops, EndStream(o)  PROVE FolderAt(x)'
  BY <1>16 DEF EndStream, FinishWith, CancelledAnswer, SendTerminal, Sends, SendFails, Lock,
      Gives, Drops, Goto
<1>17. ASSUME NEW o \in Ops, Unregister(o)  PROVE FolderAt(x)'
  BY <1>17 DEF Unregister, Goto
<1>18. ASSUME NEW o \in Ops, AdmitJob(o)  PROVE FolderAt(x)'
  BY <1>18 DEF AdmitJob, Goto
<1>19. ASSUME NEW o \in Ops, Reject(o)  PROVE FolderAt(x)'
  BY <1>19 DEF Reject, Idle
<1>20. ASSUME NEW o \in Ops, CommandForNobody(o)  PROVE FolderAt(x)'
  BY <1>20 DEF CommandForNobody, Idle
<1>21. ASSUME NEW o \in Ops, TakeCommand(o)  PROVE FolderAt(x)'
  BY <1>21 DEF TakeCommand
<1>22. ASSUME NEW o \in Ops, CommandStalls(o)  PROVE FolderAt(x)'
  BY <1>22 DEF CommandStalls
<1>23. ASSUME NEW o \in Ops, CommandTooSlow(o)  PROVE FolderAt(x)'
  BY <1>23 DEF CommandTooSlow, Lock
<1>24. ASSUME NEW o \in Ops, CommandLost(o)  PROVE FolderAt(x)'
  BY <1>24 DEF CommandLost
<1>25. ASSUME NEW o \in Ops, Cancel(o)  PROVE FolderAt(x)'
  BY <1>25 DEF Cancel, Lock
<1>26. ASSUME NEW o \in Ops, CancelSettled(o)  PROVE FolderAt(x)'
  BY <1>26 DEF CancelSettled, Idle
<1>27. CASE HostEnds
  BY <1>27 DEF HostEnds, StopJobs
<1>28. CASE OpenSession
  BY <1>28 DEF OpenSession, Reopen
<1>29. CASE UNCHANGED hostVars
  BY <1>29
<1> QED BY <1>1, <1>2, <1>3, <1>4, <1>5, <1>6, <1>7, <1>8, <1>9, <1>10, <1>11, <1>12, <1>13,
    <1>14, <1>15, <1>16, <1>17, <1>18, <1>19, <1>20, <1>21, <1>22, <1>23, <1>24, <1>25, <1>26,
    <1>27, <1>28, <1>29, HostCases DEF filesVars

LEMMA PublishingStep ==
  ASSUME FilesTypeOK, NEW x \in Ops, Folder, Publishing, [FilesNext]_filesVars
  PROVE  PublishingAt(x)'
<1>t. /\ DOMAIN pc = Ops /\ DOMAIN lock = Ops /\ DOMAIN answerAs = Ops /\ DOMAIN answered = Ops
      /\ DOMAIN row = Ops /\ DOMAIN call = Ops
      /\ DOMAIN backup = Uploads /\ DOMAIN staging = Uploads
      /\ stalled \in Ops \cup {None} /\ file \in Uploads \cup {None, "old"}
  BY DEF FilesTypeOK, HostTypeOK
<1> USE FileNames, <1>t DEF Folder, Publishing, FolderAt, PublishingAt, Filed, filesVars,
    hostVars, wires, viewVars, diskVars, bytesVars, sessionVars, FolderPhases
<1>1. ASSUME NEW o \in Ops, CancelSeen(o)  PROVE PublishingAt(x)'
  BY <1>1 DEF CancelSeen, CancelledAnswer, SendTerminal, Sends, SendFails, Lock, Gives, Drops,
      Goto
<1>2. ASSUME NEW o \in Ops, JobFails(o)  PROVE PublishingAt(x)'
  BY <1>2 DEF JobFails, FinishWith, CancelledAnswer, SendTerminal, Sends, SendFails, Lock,
      Gives, Drops, Goto
<1>3. ASSUME NEW o \in Ops, ReserveFolder(o)  PROVE PublishingAt(x)'
  BY <1>3 DEF ReserveFolder, Goto, Stays, Cancelled
<1>4. ASSUME NEW o \in Ops, Stage(o)  PROVE PublishingAt(x)'
  BY <1>4 DEF Stage, Goto, Stays
<1>5. ASSUME NEW o \in Ops, TellReady(o)  PROVE PublishingAt(x)'
  BY <1>5 DEF TellReady, Goto, Drops, Sends, SendFails, Lock, Cancelled
<1>6. ASSUME NEW o \in Ops, WriteChunk(o)  PROVE PublishingAt(x)'
  BY <1>6 DEF WriteChunk, Stays, Cancelled
<1>7. ASSUME NEW o \in Ops, BeginCommit(o)  PROVE PublishingAt(x)'
  BY <1>7 DEF BeginCommit, Lock, Goto, Stays
<1>8. ASSUME NEW o \in Ops, PublishNew(o)  PROVE PublishingAt(x)'
  BY <1>8 DEF PublishNew, Commits, Goto, Stays
<1>9. ASSUME NEW o \in Ops, ProtectOld(o)  PROVE PublishingAt(x)'
  BY <1>9 DEF ProtectOld, Commits, Goto, Stays
<1>10. ASSUME NEW o \in Ops, ReplaceOld(o)  PROVE PublishingAt(x)'
  BY <1>10 DEF ReplaceOld, Commits, Goto, Stays
<1>11. ASSUME NEW o \in Ops, RestoreOld(o)  PROVE PublishingAt(x)'
  BY <1>11 DEF RestoreOld, Commits, Goto, Stays
<1>12. ASSUME NEW o \in Ops, CannotPublish(o)  PROVE PublishingAt(x)'
  BY <1>12 DEF CannotPublish, Commits, Goto, Stays
<1>13. ASSUME NEW o \in Ops, Record(o)  PROVE PublishingAt(x)'
  BY <1>13 DEF Record, Goto
<1>14. ASSUME NEW o \in Uploads, Settle(o)  PROVE PublishingAt(x)'
  BY <1>14 DEF Settle, Lock, SendTerminal, Sends, SendFails, Gives, Drops, Goto
<1>15. ASSUME NEW o \in Ops, Stream(o)  PROVE PublishingAt(x)'
  BY <1>15 DEF Stream, Sends, SendFails, Goto, Cancelled
<1>16. ASSUME NEW o \in Ops, EndStream(o)  PROVE PublishingAt(x)'
  BY <1>16 DEF EndStream, FinishWith, CancelledAnswer, SendTerminal, Sends, SendFails, Lock,
      Gives, Drops, Goto
<1>17. ASSUME NEW o \in Ops, Unregister(o)  PROVE PublishingAt(x)'
  BY <1>17 DEF Unregister, Goto
<1>18. ASSUME NEW o \in Ops, AdmitJob(o)  PROVE PublishingAt(x)'
  BY <1>18 DEF AdmitJob, Goto
<1>19. ASSUME NEW o \in Ops, Reject(o)  PROVE PublishingAt(x)'
  BY <1>19 DEF Reject, Idle
<1>20. ASSUME NEW o \in Ops, CommandForNobody(o)  PROVE PublishingAt(x)'
  BY <1>20 DEF CommandForNobody, Idle
<1>21. ASSUME NEW o \in Ops, TakeCommand(o)  PROVE PublishingAt(x)'
  BY <1>21 DEF TakeCommand
<1>22. ASSUME NEW o \in Ops, CommandStalls(o)  PROVE PublishingAt(x)'
  BY <1>22 DEF CommandStalls
<1>23. ASSUME NEW o \in Ops, CommandTooSlow(o)  PROVE PublishingAt(x)'
  BY <1>23 DEF CommandTooSlow, Lock
<1>24. ASSUME NEW o \in Ops, CommandLost(o)  PROVE PublishingAt(x)'
  BY <1>24 DEF CommandLost
<1>25. ASSUME NEW o \in Ops, Cancel(o)  PROVE PublishingAt(x)'
  BY <1>25 DEF Cancel, Lock
<1>26. ASSUME NEW o \in Ops, CancelSettled(o)  PROVE PublishingAt(x)'
  BY <1>26 DEF CancelSettled, Idle
<1>27. CASE HostEnds
  BY <1>27 DEF HostEnds, StopJobs
<1>28. CASE OpenSession
  BY <1>28 DEF OpenSession, Reopen
<1>29. CASE UNCHANGED hostVars
  BY <1>29
<1> QED BY <1>1, <1>2, <1>3, <1>4, <1>5, <1>6, <1>7, <1>8, <1>9, <1>10, <1>11, <1>12, <1>13,
    <1>14, <1>15, <1>16, <1>17, <1>18, <1>19, <1>20, <1>21, <1>22, <1>23, <1>24, <1>25, <1>26,
    <1>27, <1>28, <1>29, HostCases DEF filesVars

LEMMA FiledStep ==
  ASSUME FilesTypeOK, Folder, Publishing, [FilesNext]_filesVars  PROVE Filed'
<1>t. /\ DOMAIN pc = Ops /\ DOMAIN lock = Ops /\ DOMAIN answerAs = Ops /\ DOMAIN answered = Ops
      /\ DOMAIN row = Ops /\ DOMAIN call = Ops
      /\ DOMAIN backup = Uploads /\ DOMAIN staging = Uploads
      /\ stalled \in Ops \cup {None} /\ file \in Uploads \cup {None, "old"}
  BY DEF FilesTypeOK, HostTypeOK
<1> USE FileNames, <1>t DEF Publishing, Filed, PublishingAt, filesVars, hostVars, wires,
    viewVars, diskVars, bytesVars, sessionVars
<1>1. ASSUME NEW o \in Ops, CancelSeen(o)  PROVE Filed'
  BY <1>1 DEF CancelSeen, CancelledAnswer, SendTerminal, Sends, SendFails, Lock, Gives, Drops,
      Goto
<1>2. ASSUME NEW o \in Ops, JobFails(o)  PROVE Filed'
  BY <1>2 DEF JobFails, FinishWith, CancelledAnswer, SendTerminal, Sends, SendFails, Lock,
      Gives, Drops, Goto
<1>3. ASSUME NEW o \in Ops, ReserveFolder(o)  PROVE Filed'
  BY <1>3 DEF ReserveFolder, Goto, Stays, Cancelled
<1>4. ASSUME NEW o \in Ops, Stage(o)  PROVE Filed'
  BY <1>4 DEF Stage, Goto, Stays
<1>5. ASSUME NEW o \in Ops, TellReady(o)  PROVE Filed'
  BY <1>5 DEF TellReady, Goto, Drops, Sends, SendFails, Lock, Cancelled
<1>6. ASSUME NEW o \in Ops, WriteChunk(o)  PROVE Filed'
  BY <1>6 DEF WriteChunk, Stays, Cancelled
<1>7. ASSUME NEW o \in Ops, BeginCommit(o)  PROVE Filed'
  BY <1>7 DEF BeginCommit, Lock, Goto, Stays
<1>8. ASSUME NEW o \in Ops, PublishNew(o)  PROVE Filed'
  BY <1>8 DEF PublishNew, Commits, Goto, Stays
<1>9. ASSUME NEW o \in Ops, ProtectOld(o)  PROVE Filed'
  BY <1>9 DEF ProtectOld, Commits, Goto, Stays
<1>10. ASSUME NEW o \in Ops, ReplaceOld(o)  PROVE Filed'
  BY <1>10 DEF ReplaceOld, Commits, Goto, Stays
<1>11. ASSUME NEW o \in Ops, RestoreOld(o)  PROVE Filed'
  BY <1>11 DEF RestoreOld, Commits, Goto, Stays
<1>12. ASSUME NEW o \in Ops, CannotPublish(o)  PROVE Filed'
  BY <1>12 DEF CannotPublish, Commits, Goto, Stays
<1>13. ASSUME NEW o \in Ops, Record(o)  PROVE Filed'
  BY <1>13 DEF Record, Goto
<1>14. ASSUME NEW o \in Uploads, Settle(o)  PROVE Filed'
  BY <1>14 DEF Settle, Lock, SendTerminal, Sends, SendFails, Gives, Drops, Goto
<1>15. ASSUME NEW o \in Ops, Stream(o)  PROVE Filed'
  BY <1>15 DEF Stream, Sends, SendFails, Goto, Cancelled
<1>16. ASSUME NEW o \in Ops, EndStream(o)  PROVE Filed'
  BY <1>16 DEF EndStream, FinishWith, CancelledAnswer, SendTerminal, Sends, SendFails, Lock,
      Gives, Drops, Goto
<1>17. ASSUME NEW o \in Ops, Unregister(o)  PROVE Filed'
  BY <1>17 DEF Unregister, Goto
<1>18. ASSUME NEW o \in Ops, AdmitJob(o)  PROVE Filed'
  BY <1>18 DEF AdmitJob, Goto
<1>19. ASSUME NEW o \in Ops, Reject(o)  PROVE Filed'
  BY <1>19 DEF Reject, Idle
<1>20. ASSUME NEW o \in Ops, CommandForNobody(o)  PROVE Filed'
  BY <1>20 DEF CommandForNobody, Idle
<1>21. ASSUME NEW o \in Ops, TakeCommand(o)  PROVE Filed'
  BY <1>21 DEF TakeCommand
<1>22. ASSUME NEW o \in Ops, CommandStalls(o)  PROVE Filed'
  BY <1>22 DEF CommandStalls
<1>23. ASSUME NEW o \in Ops, CommandTooSlow(o)  PROVE Filed'
  BY <1>23 DEF CommandTooSlow, Lock
<1>24. ASSUME NEW o \in Ops, CommandLost(o)  PROVE Filed'
  BY <1>24 DEF CommandLost
<1>25. ASSUME NEW o \in Ops, Cancel(o)  PROVE Filed'
  BY <1>25 DEF Cancel, Lock
<1>26. ASSUME NEW o \in Ops, CancelSettled(o)  PROVE Filed'
  BY <1>26 DEF CancelSettled, Idle
<1>27. CASE HostEnds
  BY <1>27 DEF HostEnds, StopJobs
<1>28. CASE OpenSession
  BY <1>28 DEF OpenSession, Reopen
<1>29. CASE UNCHANGED hostVars
  BY <1>29
<1> QED BY <1>1, <1>2, <1>3, <1>4, <1>5, <1>6, <1>7, <1>8, <1>9, <1>10, <1>11, <1>12, <1>13,
    <1>14, <1>15, <1>16, <1>17, <1>18, <1>19, <1>20, <1>21, <1>22, <1>23, <1>24, <1>25, <1>26,
    <1>27, <1>28, <1>29, HostCases DEF filesVars

\* The steps that change what is announced.
OtherBytes == (\E o \in Ops : AdmitJob(o) \/ Record(o) \/ Unregister(o)) \/ HostEnds
SameOpen(x) == x \in Unwritten' <=> x \in Unwritten
SameBytes == activeBytes' = activeBytes /\ committedBytes' \in {0, committedBytes}

LEMMA BytesAdd ==
  ASSUME NEW us \in SUBSET Uploads, NEW u \in Uploads \ us, IsFiniteSet(Announced(us))
  PROVE  /\ IsFiniteSet(Announced(us \cup {u}))
         /\ Cardinality(Announced(us \cup {u})) = Cardinality(Announced(us)) + Size[u]
<1> DEFINE own == {u} \X (1..Size[u])
<1>1. Announced(us \cup {u}) = Announced(us) \cup own
  BY DEF Announced
<1>2. Announced(us) \cap own = {}
  BY DEF Announced
<1>3. IsFiniteSet(1..Size[u]) /\ Cardinality(1..Size[u]) = Size[u]
  <2>1. Size[u] \in Nat
    BY FileNames
  <2>2. 1 \in Int /\ Size[u] \in Int
    BY <2>1
  <2>3. IsFiniteSet(1..Size[u]) /\ Cardinality(1..Size[u])
          = IF 1 > Size[u] THEN 0 ELSE Size[u] - 1 + 1
    BY <2>2, FS_Interval
  <2> QED BY <2>1, <2>3
<1>4. IsFiniteSet({u}) /\ Cardinality({u}) = 1
  BY FS_Singleton
<1>5. IsFiniteSet(own) /\ Cardinality(own) = 1 * Size[u]
  <2>1. Cardinality({u} \X (1..Size[u])) = Cardinality({u}) * Cardinality(1..Size[u])
        /\ IsFiniteSet({u} \X (1..Size[u]))
    BY <1>3, <1>4, FS_Product
  <2> QED BY <2>1, <1>3, <1>4
<1>6. /\ IsFiniteSet(Announced(us) \cup own)
      /\ Cardinality(Announced(us) \cup own)
           = Cardinality(Announced(us)) + Cardinality(own) - Cardinality(Announced(us) \cap own)
  BY <1>5, FS_Union
<1>7. Cardinality({}) = 0
  BY FS_EmptySet
<1>8. Cardinality(Announced(us)) \in Nat /\ Size[u] \in Nat
  BY FileNames, FS_CardinalityType
<1>9. Cardinality(own) = Size[u] /\ IsFiniteSet(own)
  BY <1>5, <1>8
<1> HIDE DEF own
<1>10. Cardinality(Announced(us) \cup own) = Cardinality(Announced(us)) + Size[u]
  <2>1. Cardinality(Announced(us) \cap own) = 0
    BY <1>2, <1>7
  <2> QED BY <2>1, <1>6, <1>8, <1>9
<1> QED BY <1>1, <1>6, <1>10

LEMMA BytesRemove ==
  ASSUME NEW us \in SUBSET Uploads, NEW u \in us, IsFiniteSet(Announced(us))
  PROVE  /\ IsFiniteSet(Announced(us \ {u}))
         /\ Cardinality(Announced(us)) = Cardinality(Announced(us \ {u})) + Size[u]
<1>1. Announced(us \ {u}) \subseteq Announced(us)
  BY DEF Announced
<1>2. IsFiniteSet(Announced(us \ {u}))
  BY <1>1, FS_Subset
<1>3. us = (us \ {u}) \cup {u}
  OBVIOUS
<1> QED BY <1>2, <1>3, BytesAdd

LEMMA OpenStep ==
  ASSUME FilesTypeOK, NEW x \in Ops, Listed, Publishing, [FilesNext]_filesVars
  PROVE  OtherBytes \/ SameOpen(x)
<1>t. /\ DOMAIN pc = Ops /\ DOMAIN lock = Ops /\ DOMAIN answerAs = Ops /\ DOMAIN answered = Ops
      /\ DOMAIN row = Ops /\ DOMAIN call = Ops
      /\ DOMAIN backup = Uploads /\ DOMAIN staging = Uploads
      /\ stalled \in Ops \cup {None} /\ file \in Uploads \cup {None, "old"}
  BY DEF FilesTypeOK, HostTypeOK
<1> USE FileNames, <1>t DEF Listed, Publishing, ListedAt, PublishingAt, Unwritten, SameOpen,
    filesVars, hostVars, wires, viewVars, diskVars, bytesVars, sessionVars
<1>1. ASSUME NEW o \in Ops, CancelSeen(o)  PROVE OtherBytes \/ SameOpen(x)
  BY <1>1 DEF CancelSeen, CancelledAnswer, SendTerminal, Sends, SendFails, Lock, Gives, Drops,
      Goto
<1>2. ASSUME NEW o \in Ops, JobFails(o)  PROVE OtherBytes \/ SameOpen(x)
  BY <1>2 DEF JobFails, FinishWith, CancelledAnswer, SendTerminal, Sends, SendFails, Lock,
      Gives, Drops, Goto
<1>3. ASSUME NEW o \in Ops, ReserveFolder(o)  PROVE OtherBytes \/ SameOpen(x)
  BY <1>3 DEF ReserveFolder, Goto, Stays, Cancelled
<1>4. ASSUME NEW o \in Ops, Stage(o)  PROVE OtherBytes \/ SameOpen(x)
  BY <1>4 DEF Stage, Goto, Stays
<1>5. ASSUME NEW o \in Ops, TellReady(o)  PROVE OtherBytes \/ SameOpen(x)
  BY <1>5 DEF TellReady, Goto, Drops, Sends, SendFails, Lock, Cancelled
<1>6. ASSUME NEW o \in Ops, WriteChunk(o)  PROVE OtherBytes \/ SameOpen(x)
  BY <1>6 DEF WriteChunk, Stays, Cancelled
<1>7. ASSUME NEW o \in Ops, BeginCommit(o)  PROVE OtherBytes \/ SameOpen(x)
  BY <1>7 DEF BeginCommit, Lock, Goto, Stays
<1>8. ASSUME NEW o \in Ops, PublishNew(o)  PROVE OtherBytes \/ SameOpen(x)
  BY <1>8 DEF PublishNew, Commits, Goto, Stays
<1>9. ASSUME NEW o \in Ops, ProtectOld(o)  PROVE OtherBytes \/ SameOpen(x)
  BY <1>9 DEF ProtectOld, Commits, Goto, Stays
<1>10. ASSUME NEW o \in Ops, ReplaceOld(o)  PROVE OtherBytes \/ SameOpen(x)
  BY <1>10 DEF ReplaceOld, Commits, Goto, Stays
<1>11. ASSUME NEW o \in Ops, RestoreOld(o)  PROVE OtherBytes \/ SameOpen(x)
  BY <1>11 DEF RestoreOld, Commits, Goto, Stays
<1>12. ASSUME NEW o \in Ops, CannotPublish(o)  PROVE OtherBytes \/ SameOpen(x)
  BY <1>12 DEF CannotPublish, Commits, Goto, Stays
<1>13. ASSUME NEW o \in Ops, Record(o)  PROVE OtherBytes \/ SameOpen(x)
  BY <1>13 DEF OtherBytes
<1>14. ASSUME NEW o \in Uploads, Settle(o)  PROVE OtherBytes \/ SameOpen(x)
  BY <1>14 DEF Settle, Lock, SendTerminal, Sends, SendFails, Gives, Drops, Goto
<1>15. ASSUME NEW o \in Ops, Stream(o)  PROVE OtherBytes \/ SameOpen(x)
  BY <1>15 DEF Stream, Sends, SendFails, Goto, Cancelled
<1>16. ASSUME NEW o \in Ops, EndStream(o)  PROVE OtherBytes \/ SameOpen(x)
  BY <1>16 DEF EndStream, FinishWith, CancelledAnswer, SendTerminal, Sends, SendFails, Lock,
      Gives, Drops, Goto
<1>17. ASSUME NEW o \in Ops, Unregister(o)  PROVE OtherBytes \/ SameOpen(x)
  BY <1>17 DEF OtherBytes
<1>18. ASSUME NEW o \in Ops, AdmitJob(o)  PROVE OtherBytes \/ SameOpen(x)
  BY <1>18 DEF OtherBytes
<1>19. ASSUME NEW o \in Ops, Reject(o)  PROVE OtherBytes \/ SameOpen(x)
  BY <1>19 DEF Reject, Idle
<1>20. ASSUME NEW o \in Ops, CommandForNobody(o)  PROVE OtherBytes \/ SameOpen(x)
  BY <1>20 DEF CommandForNobody, Idle
<1>21. ASSUME NEW o \in Ops, TakeCommand(o)  PROVE OtherBytes \/ SameOpen(x)
  BY <1>21 DEF TakeCommand
<1>22. ASSUME NEW o \in Ops, CommandStalls(o)  PROVE OtherBytes \/ SameOpen(x)
  BY <1>22 DEF CommandStalls
<1>23. ASSUME NEW o \in Ops, CommandTooSlow(o)  PROVE OtherBytes \/ SameOpen(x)
  BY <1>23 DEF CommandTooSlow, Lock
<1>24. ASSUME NEW o \in Ops, CommandLost(o)  PROVE OtherBytes \/ SameOpen(x)
  BY <1>24 DEF CommandLost
<1>25. ASSUME NEW o \in Ops, Cancel(o)  PROVE OtherBytes \/ SameOpen(x)
  BY <1>25 DEF Cancel, Lock
<1>26. ASSUME NEW o \in Ops, CancelSettled(o)  PROVE OtherBytes \/ SameOpen(x)
  BY <1>26 DEF CancelSettled, Idle
<1>27. CASE HostEnds
  BY <1>27 DEF OtherBytes
<1>28. CASE OpenSession
  BY <1>28 DEF OpenSession, Reopen
<1>29. CASE UNCHANGED hostVars
  BY <1>29
<1> QED BY <1>1, <1>2, <1>3, <1>4, <1>5, <1>6, <1>7, <1>8, <1>9, <1>10, <1>11, <1>12, <1>13,
    <1>14, <1>15, <1>16, <1>17, <1>18, <1>19, <1>20, <1>21, <1>22, <1>23, <1>24, <1>25, <1>26,
    <1>27, <1>28, <1>29, HostCases DEF filesVars

LEMMA BytesStep ==
  ASSUME FilesTypeOK, [FilesNext]_filesVars  PROVE OtherBytes \/ SameBytes
<1> USE FileNames DEF SameBytes, filesVars, hostVars, wires, viewVars, diskVars, bytesVars,
    sessionVars
<1>1. ASSUME NEW o \in Ops, CancelSeen(o)  PROVE OtherBytes \/ SameBytes
  BY <1>1 DEF CancelSeen, CancelledAnswer, SendTerminal, Sends, SendFails, Lock, Gives, Drops,
      Goto
<1>2. ASSUME NEW o \in Ops, JobFails(o)  PROVE OtherBytes \/ SameBytes
  BY <1>2 DEF JobFails, FinishWith, CancelledAnswer, SendTerminal, Sends, SendFails, Lock,
      Gives, Drops, Goto
<1>3. ASSUME NEW o \in Ops, ReserveFolder(o)  PROVE OtherBytes \/ SameBytes
  BY <1>3 DEF ReserveFolder, Goto, Stays, Cancelled
<1>4. ASSUME NEW o \in Ops, Stage(o)  PROVE OtherBytes \/ SameBytes
  BY <1>4 DEF Stage, Goto, Stays
<1>5. ASSUME NEW o \in Ops, TellReady(o)  PROVE OtherBytes \/ SameBytes
  BY <1>5 DEF TellReady, Goto, Drops, Sends, SendFails, Lock, Cancelled
<1>6. ASSUME NEW o \in Ops, WriteChunk(o)  PROVE OtherBytes \/ SameBytes
  BY <1>6 DEF WriteChunk, Stays, Cancelled
<1>7. ASSUME NEW o \in Ops, BeginCommit(o)  PROVE OtherBytes \/ SameBytes
  BY <1>7 DEF BeginCommit, Lock, Goto, Stays
<1>8. ASSUME NEW o \in Ops, PublishNew(o)  PROVE OtherBytes \/ SameBytes
  BY <1>8 DEF PublishNew, Commits, Goto, Stays
<1>9. ASSUME NEW o \in Ops, ProtectOld(o)  PROVE OtherBytes \/ SameBytes
  BY <1>9 DEF ProtectOld, Commits, Goto, Stays
<1>10. ASSUME NEW o \in Ops, ReplaceOld(o)  PROVE OtherBytes \/ SameBytes
  BY <1>10 DEF ReplaceOld, Commits, Goto, Stays
<1>11. ASSUME NEW o \in Ops, RestoreOld(o)  PROVE OtherBytes \/ SameBytes
  BY <1>11 DEF RestoreOld, Commits, Goto, Stays
<1>12. ASSUME NEW o \in Ops, CannotPublish(o)  PROVE OtherBytes \/ SameBytes
  BY <1>12 DEF CannotPublish, Commits, Goto, Stays
<1>13. ASSUME NEW o \in Ops, Record(o)  PROVE OtherBytes \/ SameBytes
  BY <1>13 DEF OtherBytes
<1>14. ASSUME NEW o \in Uploads, Settle(o)  PROVE OtherBytes \/ SameBytes
  BY <1>14 DEF Settle, Lock, SendTerminal, Sends, SendFails, Gives, Drops, Goto
<1>15. ASSUME NEW o \in Ops, Stream(o)  PROVE OtherBytes \/ SameBytes
  BY <1>15 DEF Stream, Sends, SendFails, Goto, Cancelled
<1>16. ASSUME NEW o \in Ops, EndStream(o)  PROVE OtherBytes \/ SameBytes
  BY <1>16 DEF EndStream, FinishWith, CancelledAnswer, SendTerminal, Sends, SendFails, Lock,
      Gives, Drops, Goto
<1>17. ASSUME NEW o \in Ops, Unregister(o)  PROVE OtherBytes \/ SameBytes
  BY <1>17 DEF OtherBytes
<1>18. ASSUME NEW o \in Ops, AdmitJob(o)  PROVE OtherBytes \/ SameBytes
  BY <1>18 DEF OtherBytes
<1>19. ASSUME NEW o \in Ops, Reject(o)  PROVE OtherBytes \/ SameBytes
  BY <1>19 DEF Reject, Idle
<1>20. ASSUME NEW o \in Ops, CommandForNobody(o)  PROVE OtherBytes \/ SameBytes
  BY <1>20 DEF CommandForNobody, Idle
<1>21. ASSUME NEW o \in Ops, TakeCommand(o)  PROVE OtherBytes \/ SameBytes
  BY <1>21 DEF TakeCommand
<1>22. ASSUME NEW o \in Ops, CommandStalls(o)  PROVE OtherBytes \/ SameBytes
  BY <1>22 DEF CommandStalls
<1>23. ASSUME NEW o \in Ops, CommandTooSlow(o)  PROVE OtherBytes \/ SameBytes
  BY <1>23 DEF CommandTooSlow, Lock
<1>24. ASSUME NEW o \in Ops, CommandLost(o)  PROVE OtherBytes \/ SameBytes
  BY <1>24 DEF CommandLost
<1>25. ASSUME NEW o \in Ops, Cancel(o)  PROVE OtherBytes \/ SameBytes
  BY <1>25 DEF Cancel, Lock
<1>26. ASSUME NEW o \in Ops, CancelSettled(o)  PROVE OtherBytes \/ SameBytes
  BY <1>26 DEF CancelSettled, Idle
<1>27. CASE HostEnds
  BY <1>27 DEF OtherBytes
<1>28. CASE OpenSession
  BY <1>28 DEF OpenSession, Reopen
<1>29. CASE UNCHANGED hostVars
  BY <1>29
<1> QED BY <1>1, <1>2, <1>3, <1>4, <1>5, <1>6, <1>7, <1>8, <1>9, <1>10, <1>11, <1>12, <1>13,
    <1>14, <1>15, <1>16, <1>17, <1>18, <1>19, <1>20, <1>21, <1>22, <1>23, <1>24, <1>25, <1>26,
    <1>27, <1>28, <1>29, HostCases DEF filesVars

LEMMA AccountedStep ==
  ASSUME FilesTypeOK, Listed, Publishing, Accounted, [FilesNext]_filesVars  PROVE Accounted'
<1> DEFINE Sum(us) == Cardinality(Announced(us))
<1>t. /\ pc \in [Ops -> Phases] /\ Unwritten \in SUBSET Uploads /\ Unwritten' \in SUBSET Uploads
      /\ activeBytes \in Nat /\ committedBytes \in Nat /\ IsFiniteSet(Announced(Unwritten))
      /\ activeBytes = Sum(Unwritten) /\ activeBytes + committedBytes <= MaxBytes
      /\ \A o \in Uploads : Size[o] \in Nat
  BY FileNames DEF FilesTypeOK, HostTypeOK, Unwritten, Accounted, BytesAccounted
<1>n. IsFiniteSet(Announced({})) /\ Sum({}) = 0 /\ MaxBytes \in Nat
  <2>1. Announced({}) = {}
    BY DEF Announced
  <2> QED BY <2>1, FS_EmptySet, FileNames
<1> USE DEF Accounted, BytesAccounted
<1>1. ASSUME NEW o \in Ops, AdmitJob(o)  PROVE Accounted'
  <2>1. o \notin registered /\ pc[o] = "none" /\ committedBytes' = committedBytes
        /\ UNCHANGED published /\ registered' = registered \cup {o}
        /\ pc' = [pc EXCEPT ![o] = "begin"]
    BY <1>1 DEF AdmitJob, Listed, ListedAt, Goto, diskVars
  <2>2. CASE o \in Uploads
    <3>1. Unwritten' = Unwritten \cup {o} /\ o \notin Unwritten
      BY <2>1, <2>2, <1>t DEF Unwritten
    <3>2. activeBytes' = activeBytes + Size[o] /\ activeBytes + committedBytes + Size[o] <= MaxBytes
      BY <1>1, <2>2 DEF AdmitJob, RoomFor
    <3>3. IsFiniteSet(Announced(Unwritten')) /\ Sum(Unwritten') = Sum(Unwritten) + Size[o]
      BY <3>1, <2>2, <1>t, BytesAdd
    <3> QED BY <2>1, <2>2, <3>2, <3>3, <1>t
  <2>3. CASE o \notin Uploads
    <3>1. Unwritten' = Unwritten
      BY <2>1, <2>3, <1>t DEF Unwritten
    <3>2. activeBytes' = activeBytes
      BY <1>1, <2>3 DEF AdmitJob
    <3> QED BY <2>1, <3>1, <3>2, <1>t
  <2> QED BY <2>2, <2>3
<1>2. ASSUME NEW o \in Ops, Record(o)  PROVE Accounted'
  <2>1. o \in Uploads /\ pc[o] = "replaced" /\ pc' = [pc EXCEPT ![o] = "counted"]
        /\ UNCHANGED <<registered, published>>
    BY <1>2 DEF Record, Goto
  <2>2. CASE o \in registered
    <3>1. Unwritten' = Unwritten \ {o} /\ o \in Unwritten
      BY <2>1, <2>2, <1>t DEF Unwritten
    <3>2. activeBytes' = activeBytes - Size[o] /\ committedBytes' = committedBytes + Size[o]
      BY <1>2, <2>2 DEF Record
    <3>3. IsFiniteSet(Announced(Unwritten')) /\ Sum(Unwritten) = Sum(Unwritten') + Size[o]
      BY <3>1, <1>t, BytesRemove
    <3>4. Sum(Unwritten') \in Nat
      BY <3>3, FS_CardinalityType
    <3> QED BY <2>1, <3>2, <3>3, <3>4, <1>t
  <2>3. CASE o \notin registered
    <3>1. Unwritten' = Unwritten
      BY <2>1, <2>3, <1>t DEF Unwritten
    <3>2. UNCHANGED <<activeBytes, committedBytes>>
      BY <1>2, <2>3 DEF Record, bytesVars
    <3> QED BY <3>1, <3>2, <1>t
  <2> QED BY <2>2, <2>3
<1>3. ASSUME NEW o \in Ops, Unregister(o)  PROVE Accounted'
  <2>1. pc[o] = "leaving" /\ pc' = [pc EXCEPT ![o] = "gone"] /\ registered' = registered \ {o}
        /\ UNCHANGED <<published, committedBytes>>
    BY <1>3 DEF Unregister, Goto, diskVars
  <2>2. CASE o \in registered \cap (Uploads \ published)
    <3>1. Unwritten' = Unwritten \ {o} /\ o \in Unwritten
      BY <2>1, <2>2, <1>t DEF Unwritten
    <3>2. activeBytes' = activeBytes - Size[o]
      BY <1>3, <2>2 DEF Unregister
    <3>3. IsFiniteSet(Announced(Unwritten')) /\ Sum(Unwritten) = Sum(Unwritten') + Size[o]
      BY <3>1, <1>t, BytesRemove
    <3>4. Sum(Unwritten') \in Nat
      BY <3>3, FS_CardinalityType
    <3>5. activeBytes' = Sum(Unwritten') /\ activeBytes' <= activeBytes
      BY <2>2, <3>2, <3>3, <3>4, <1>t
    <3>6. activeBytes' + committedBytes' <= MaxBytes
      BY <2>1, <3>4, <3>5, <1>t, <1>n
    <3> QED BY <2>1, <3>3, <3>4, <3>5, <3>6, <1>t
  <2>3. CASE o \notin registered \cap (Uploads \ published)
    <3>1. Unwritten' = Unwritten
      BY <2>1, <2>3, <1>t DEF Unwritten
    <3>2. activeBytes' = activeBytes
      BY <1>3, <2>3 DEF Unregister
    <3> QED BY <2>1, <3>1, <3>2, <1>t
  <2> QED BY <2>2, <2>3
<1>4. CASE HostEnds
  <2>1. registered' = {} /\ activeBytes' = 0 /\ committedBytes' = committedBytes
    BY <1>4 DEF HostEnds, StopJobs
  <2>2. Unwritten' = {}
    BY <2>1 DEF Unwritten
  <2> QED BY <2>1, <2>2, <1>n, <1>t
<1>5. CASE ~OtherBytes
  <2>1. Unwritten' = Unwritten
    BY <1>5, <1>t, OpenStep, FileNames DEF SameOpen
  <2>2. activeBytes' = activeBytes /\ committedBytes' \in {0, committedBytes}
    BY <1>5, BytesStep DEF SameBytes
  <2>3. activeBytes' + committedBytes' <= MaxBytes /\ committedBytes' \in Nat
    BY <2>2, <1>t, <1>n
  <2> QED BY <2>1, <2>2, <2>3, <1>t
<1> QED BY <1>1, <1>2, <1>3, <1>4, <1>5 DEF OtherBytes

LEMMA HonestStep ==
  ASSUME FilesTypeOK, NEW x \in Ops, Honest, Publishing, Listed, [FilesNext]_filesVars
  PROVE  HonestAt(x)'
<1>t. /\ DOMAIN pc = Ops /\ DOMAIN lock = Ops /\ DOMAIN answerAs = Ops /\ DOMAIN answered = Ops
      /\ DOMAIN row = Ops /\ DOMAIN call = Ops
      /\ DOMAIN backup = Uploads /\ DOMAIN staging = Uploads
      /\ stalled \in Ops \cup {None} /\ file \in Uploads \cup {None, "old"}
  BY DEF FilesTypeOK, HostTypeOK
<1>w. /\ \A kind : \A o \in Ops : Writes(kind, o) /\ CancelAsked(x)'
           => CancelAsked(x) \/ (kind = "cancel" /\ o = x)
      /\ \A kind : \A o \in Ops : HeadIs(kind, o) /\ kind = "cancel" /\ o = x => CancelAsked(x)
      /\ \A kind : \A o \in Ops : HeadIs(kind, o) /\ Takes /\ CancelAsked(x)' => CancelAsked(x)
      /\ requests # <<>> /\ Takes /\ CancelAsked(x)' => CancelAsked(x)
  BY Wires, MsgIs DEF CancelAsked
<1>v. /\ \A kind : \A o \in Ops : AnswersNow(kind, o) \/ Sends(o, kind) \/ SendTerminal(o, kind)
                => (Told(x)' => Told(x) \/ (kind = "complete" /\ o = x))
      /\ \A o \in Ops : SendFails(o) => responses' = responses
      /\ \A kind : \A o \in Ops : Hears(kind, o) /\ kind = "complete" /\ o = x => Told(x)
      /\ \A kind : \A o \in Ops : Hears(kind, o) /\ Told(x)' => Told(x)
  BY Wires, MsgIs DEF Told
<1>c. ASSUME NEW o \in Ops, CancelledAnswer(o), Told(x)'
      PROVE  Told(x) \/ (o = x /\ lock[o] = "cancelling" /\ answerAs[o] = "complete")
  <2>1. Msg("complete", x) # Msg("error", o) /\ (Msg("complete", x) = Msg("complete", o) => o = x)
    BY MsgIs
  <2> QED BY <1>c, <2>1, CancelledReply DEF Told
<1>u. /\ requests' = requests => (CancelAsked(x)' => CancelAsked(x))
      /\ requests' = <<>> => ~CancelAsked(x)'
      /\ responses' = responses => (Told(x)' => Told(x))
      /\ responses' = <<>> => ~Told(x)'
      /\ (\E n \in 0..Len(responses) : responses' = SubSeq(responses, 1, n)) => (Told(x)' => Told(x))
  <2>1. requests \in Seq(Messages({"start", "chunk", "finish", "cancel"}))
        /\ responses \in Seq(Messages({"ready", "start", "data", "complete", "error"}))
    BY DEF FilesTypeOK
  <2>2. \A m : ~Has(<<>>, m)
    BY DEF Has
  <2>3. ASSUME NEW n \in 0..Len(responses), responses' = SubSeq(responses, 1, n), Told(x)'
        PROVE  Told(x)
    BY <2>1, <2>3, StreamFacts DEF Told
  <2> QED BY <2>2, <2>3 DEF CancelAsked, Told
<1> USE FileNames, <1>t, <1>w, <1>v, <1>c, <1>u DEF Honest, Publishing, Listed, HonestAt, PublishingAt, Filed,
    ListedAt, filesVars, hostVars, wires, viewVars, diskVars, bytesVars, sessionVars, Withdrawn
<1>1. ASSUME NEW o \in Ops, Begin(o)  PROVE HonestAt(x)'
  BY <1>1 DEF Begin, Row, Call
<1>2. ASSUME NEW o \in Ops, Ask(o)  PROVE HonestAt(x)'
  BY <1>2 DEF Ask, Call
<1>3. ASSUME NEW o \in Ops, ReadyTimeout(o)  PROVE HonestAt(x)'
  BY <1>3 DEF ReadyTimeout, Fails, Call
<1>4. ASSUME NEW o \in Ops, CheckChunk(o)  PROVE HonestAt(x)'
  BY <1>4 DEF CheckChunk, Call
<1>5. ASSUME NEW o \in Ops, SendChunk(o)  PROVE HonestAt(x)'
  BY <1>5 DEF SendChunk, Call
<1>6. ASSUME NEW o \in Ops, CheckFinish(o)  PROVE HonestAt(x)'
  BY <1>6 DEF CheckFinish, Call
<1>7. ASSUME NEW o \in Ops, SendFinish(o)  PROVE HonestAt(x)'
  BY <1>7 DEF SendFinish, Call
<1>8. ASSUME NEW o \in Ops, FinishTimeout(o)  PROVE HonestAt(x)'
  BY <1>8 DEF FinishTimeout, Fails, Call
<1>9. ASSUME NEW o \in Ops, CallCut(o)  PROVE HonestAt(x)'
  BY <1>9 DEF CallCut, Fails, Call
<1>10. ASSUME NEW o \in Ops, CancelTransfer(o)  PROVE HonestAt(x)'
  BY <1>10 DEF CancelTransfer, Row
<1>11. ASSUME NEW o \in Ops, HearReady(o)  PROVE HonestAt(x)'
  BY <1>11 DEF HearReady
<1>12. ASSUME NEW o \in Ops, HearData(o)  PROVE HonestAt(x)'
  BY <1>12 DEF HearData
<1>13. ASSUME NEW o \in Ops, RefuseData(o)  PROVE HonestAt(x)'
  BY <1>13 DEF RefuseData, Fails
<1>14. ASSUME NEW o \in Ops, HearError(o)  PROVE HonestAt(x)'
  BY <1>14 DEF HearError, Fails
<1>15. ASSUME NEW o \in Ops, HearComplete(o)  PROVE HonestAt(x)'
  BY <1>15 DEF HearComplete
<1>16. ASSUME NEW o \in Ops, Complete(o)  PROVE HonestAt(x)'
  BY <1>16 DEF Complete, Row
<1>17. ASSUME NEW o \in Ops, CancelSeen(o), UNCHANGED viewVars  PROVE HonestAt(x)'
  BY <1>17 DEF CancelSeen, CancelledAnswer, SendTerminal, Sends, SendFails, Lock, Gives, Drops,
      Goto
<1>18. ASSUME NEW o \in Ops, JobFails(o), UNCHANGED viewVars  PROVE HonestAt(x)'
  BY <1>18 DEF JobFails, FinishWith, CancelledAnswer, SendTerminal, Sends, SendFails, Lock,
      Gives, Drops, Goto
<1>19. ASSUME NEW o \in Ops, ReserveFolder(o), UNCHANGED viewVars  PROVE HonestAt(x)'
  BY <1>19 DEF ReserveFolder, Goto, Stays, Cancelled
<1>20. ASSUME NEW o \in Ops, Stage(o), UNCHANGED viewVars  PROVE HonestAt(x)'
  BY <1>20 DEF Stage, Goto, Stays
<1>21. ASSUME NEW o \in Ops, TellReady(o), UNCHANGED viewVars  PROVE HonestAt(x)'
  BY <1>21 DEF TellReady, Goto, Drops, Sends, SendFails, Lock, Cancelled
<1>22. ASSUME NEW o \in Ops, WriteChunk(o), UNCHANGED viewVars  PROVE HonestAt(x)'
  BY <1>22 DEF WriteChunk, Stays, Cancelled
<1>23. ASSUME NEW o \in Ops, BeginCommit(o), UNCHANGED viewVars  PROVE HonestAt(x)'
  BY <1>23 DEF BeginCommit, Lock, Goto, Stays
<1>24. ASSUME NEW o \in Ops, PublishNew(o), UNCHANGED viewVars  PROVE HonestAt(x)'
  BY <1>24 DEF PublishNew, Commits, Goto, Stays
<1>25. ASSUME NEW o \in Ops, ProtectOld(o), UNCHANGED viewVars  PROVE HonestAt(x)'
  BY <1>25 DEF ProtectOld, Commits, Goto, Stays
<1>26. ASSUME NEW o \in Ops, ReplaceOld(o), UNCHANGED viewVars  PROVE HonestAt(x)'
  BY <1>26 DEF ReplaceOld, Commits, Goto, Stays
<1>27. ASSUME NEW o \in Ops, RestoreOld(o), UNCHANGED viewVars  PROVE HonestAt(x)'
  BY <1>27 DEF RestoreOld, Commits, Goto, Stays
<1>28. ASSUME NEW o \in Ops, CannotPublish(o), UNCHANGED viewVars  PROVE HonestAt(x)'
  BY <1>28 DEF CannotPublish, Commits, Goto, Stays
<1>29. ASSUME NEW o \in Ops, Record(o), UNCHANGED viewVars  PROVE HonestAt(x)'
  BY <1>29 DEF Record, Goto
<1>30. ASSUME NEW o \in Uploads, Settle(o), UNCHANGED viewVars  PROVE HonestAt(x)'
  <2>1. Told(x)' => Told(x) \/ (pc[o] = "counted" /\ o = x)
    <3>1. CASE pc[o] = "counted"
      BY <1>30, <3>1 DEF Settle
    <3>2. CASE pc[o] # "counted"
      BY <1>30, <3>2 DEF Settle
    <3> QED BY <3>1, <3>2
  <2>2. UNCHANGED <<requests, answerAs, published>> /\ lock' = [lock EXCEPT ![o] = "terminal"]
    BY <1>30 DEF Settle, Lock, Gives
  <2> QED BY <1>30, <2>1, <2>2
<1>31. ASSUME NEW o \in Ops, Stream(o), UNCHANGED viewVars  PROVE HonestAt(x)'
  BY <1>31 DEF Stream, Sends, SendFails, Goto, Cancelled
<1>32. ASSUME NEW o \in Ops, EndStream(o), UNCHANGED viewVars  PROVE HonestAt(x)'
  <2>1. CASE x \notin Uploads
    BY <2>1
  <2>2. CASE x \in Uploads
    <3>1. o # x /\ FinishWith(o, "complete")
      BY <1>32, <2>2 DEF EndStream
    <3>2. Told(x)' => Told(x)
      BY <3>1, <1>c, <1>v DEF FinishWith
    <3>3. lock'[x] = lock[x] /\ UNCHANGED <<requests, answerAs, published>>
      BY <1>32, <3>1, EndsOnce DEF EndStream, Gives
    <3> QED BY <1>32, <2>2, <3>2, <3>3
  <2> QED BY <2>1, <2>2
<1>33. ASSUME NEW o \in Ops, Unregister(o), UNCHANGED viewVars  PROVE HonestAt(x)'
  BY <1>33 DEF Unregister, Goto
<1>34. ASSUME NEW o \in Ops, AdmitJob(o), UNCHANGED viewVars  PROVE HonestAt(x)'
  BY <1>34 DEF AdmitJob, Goto
<1>35. ASSUME NEW o \in Ops, Reject(o), UNCHANGED viewVars  PROVE HonestAt(x)'
  BY <1>35 DEF Reject, Idle
<1>36. ASSUME NEW o \in Ops, CommandForNobody(o), UNCHANGED viewVars  PROVE HonestAt(x)'
  BY <1>36 DEF CommandForNobody, Idle
<1>37. ASSUME NEW o \in Ops, TakeCommand(o), UNCHANGED viewVars  PROVE HonestAt(x)'
  BY <1>37 DEF TakeCommand
<1>38. ASSUME NEW o \in Ops, CommandStalls(o), UNCHANGED viewVars  PROVE HonestAt(x)'
  BY <1>38 DEF CommandStalls
<1>39. ASSUME NEW o \in Ops, CommandTooSlow(o), UNCHANGED viewVars  PROVE HonestAt(x)'
  BY <1>39 DEF CommandTooSlow, Lock
<1>40. ASSUME NEW o \in Ops, CommandLost(o), UNCHANGED viewVars  PROVE HonestAt(x)'
  BY <1>40 DEF CommandLost
<1>41. ASSUME NEW o \in Ops, Cancel(o), UNCHANGED viewVars  PROVE HonestAt(x)'
  BY <1>41 DEF Cancel, Lock
<1>42. ASSUME NEW o \in Ops, CancelSettled(o), UNCHANGED viewVars  PROVE HonestAt(x)'
  BY <1>42 DEF CancelSettled, Idle
<1>43. CASE SessionLost
  BY <1>43 DEF SessionLost, ClosesAll
<1>44. CASE LeaveSession
  BY <1>44 DEF LeaveSession, ClosesAll
<1>45. CASE Aborted
  BY <1>45 DEF Aborted
<1>46. CASE HostEnds
  BY <1>46 DEF HostEnds, StopJobs
<1>47. CASE OpenSession
  BY <1>47 DEF OpenSession, Reopen
<1>48. CASE UNCHANGED filesVars
  BY <1>48
<1> QED BY <1>1, <1>2, <1>3, <1>4, <1>5, <1>6, <1>7, <1>8, <1>9, <1>10, <1>11, <1>12, <1>13,
    <1>14, <1>15, <1>16, <1>17, <1>18, <1>19, <1>20, <1>21, <1>22, <1>23, <1>24, <1>25, <1>26,
    <1>27, <1>28, <1>29, <1>30, <1>31, <1>32, <1>33, <1>34, <1>35, <1>36, <1>37, <1>38, <1>39,
    <1>40, <1>41, <1>42, <1>43, <1>44, <1>45, <1>46, <1>47, <1>48, FileCases

LEMMA SavedStep ==
  ASSUME FilesTypeOK, NEW x \in Ops, Saved, Listed, [FilesNext]_filesVars  PROVE SavedAt(x)'
<1>t. /\ DOMAIN pc = Ops /\ DOMAIN lock = Ops /\ DOMAIN answerAs = Ops /\ DOMAIN answered = Ops
      /\ DOMAIN row = Ops /\ DOMAIN call = Ops
      /\ DOMAIN backup = Uploads /\ DOMAIN staging = Uploads
      /\ stalled \in Ops \cup {None} /\ file \in Uploads \cup {None, "old"}
  BY DEF FilesTypeOK, HostTypeOK
<1> USE FileNames, <1>t DEF Saved, Listed, SavedAt, ListedAt, filesVars, hostVars, wires,
    viewVars, diskVars, bytesVars, sessionVars
<1>1. ASSUME NEW o \in Ops, Begin(o)  PROVE SavedAt(x)'
  BY <1>1 DEF Begin, Row, Call
<1>2. ASSUME NEW o \in Ops, Ask(o)  PROVE SavedAt(x)'
  BY <1>2 DEF Ask, Call
<1>3. ASSUME NEW o \in Ops, ReadyTimeout(o)  PROVE SavedAt(x)'
  BY <1>3 DEF ReadyTimeout, Fails, Call
<1>4. ASSUME NEW o \in Ops, CheckChunk(o)  PROVE SavedAt(x)'
  BY <1>4 DEF CheckChunk, Call
<1>5. ASSUME NEW o \in Ops, SendChunk(o)  PROVE SavedAt(x)'
  BY <1>5 DEF SendChunk, Call
<1>6. ASSUME NEW o \in Ops, CheckFinish(o)  PROVE SavedAt(x)'
  BY <1>6 DEF CheckFinish, Call
<1>7. ASSUME NEW o \in Ops, SendFinish(o)  PROVE SavedAt(x)'
  BY <1>7 DEF SendFinish, Call
<1>8. ASSUME NEW o \in Ops, FinishTimeout(o)  PROVE SavedAt(x)'
  BY <1>8 DEF FinishTimeout, Fails, Call
<1>9. ASSUME NEW o \in Ops, CallCut(o)  PROVE SavedAt(x)'
  BY <1>9 DEF CallCut, Fails, Call
<1>10. ASSUME NEW o \in Ops, CancelTransfer(o)  PROVE SavedAt(x)'
  BY <1>10 DEF CancelTransfer, Row
<1>11. ASSUME NEW o \in Ops, HearReady(o)  PROVE SavedAt(x)'
  BY <1>11 DEF HearReady
<1>12. ASSUME NEW o \in Ops, HearData(o)  PROVE SavedAt(x)'
  BY <1>12 DEF HearData
<1>13. ASSUME NEW o \in Ops, RefuseData(o)  PROVE SavedAt(x)'
  BY <1>13 DEF RefuseData, Fails
<1>14. ASSUME NEW o \in Ops, HearError(o)  PROVE SavedAt(x)'
  BY <1>14 DEF HearError, Fails
<1>15. ASSUME NEW o \in Ops, HearComplete(o)  PROVE SavedAt(x)'
  BY <1>15 DEF HearComplete
<1>16. ASSUME NEW o \in Ops, Complete(o)  PROVE SavedAt(x)'
  BY <1>16 DEF Complete, Row
<1>17. CASE SessionLost
  BY <1>17 DEF SessionLost, ClosesAll
<1>18. CASE LeaveSession
  BY <1>18 DEF LeaveSession, ClosesAll
<1>19. CASE Aborted
  BY <1>19 DEF Aborted
<1>20. CASE OpenSession
  BY <1>20 DEF OpenSession, Reopen
<1>21. CASE UNCHANGED viewVars
  BY <1>21
<1> QED BY <1>1, <1>2, <1>3, <1>4, <1>5, <1>6, <1>7, <1>8, <1>9, <1>10, <1>11, <1>12, <1>13,
    <1>14, <1>15, <1>16, <1>17, <1>18, <1>19, <1>20, <1>21, ViewCases DEF filesVars

LEMMA AnsweredStep ==
  ASSUME FilesTypeOK, NEW x \in Ops, Answered, Publishing, [FilesNext]_filesVars
  PROVE  AnsweredAt(x)'
<1>t. /\ DOMAIN pc = Ops /\ DOMAIN lock = Ops /\ DOMAIN answerAs = Ops /\ DOMAIN answered = Ops
      /\ DOMAIN row = Ops /\ DOMAIN call = Ops
      /\ DOMAIN backup = Uploads /\ DOMAIN staging = Uploads
      /\ stalled \in Ops \cup {None} /\ file \in Uploads \cup {None, "old"}
  BY DEF FilesTypeOK, HostTypeOK
<1> USE FileNames, <1>t DEF Answered, Publishing, AnsweredAt, PublishingAt, Filed, filesVars,
    hostVars, wires, viewVars, diskVars, bytesVars, sessionVars
<1>1. ASSUME NEW o \in Ops, CancelSeen(o)  PROVE AnsweredAt(x)'
  <2>1. lock[o] \in {"active", "cancelling"} /\ lock' = [lock EXCEPT ![o] = "terminal"]
        /\ (answered' = answered \/ answered' = [answered EXCEPT ![o] = @ + 1])
    BY <1>1, EndsOnce DEF CancelSeen
  <2> QED BY <2>1
<1>2. ASSUME NEW o \in Ops, JobFails(o)  PROVE AnsweredAt(x)'
  <2>1. lock[o] \in {"active", "cancelling"} /\ lock' = [lock EXCEPT ![o] = "terminal"]
        /\ (answered' = answered \/ answered' = [answered EXCEPT ![o] = @ + 1])
    BY <1>2, EndsOnce DEF JobFails
  <2> QED BY <2>1
<1>3. ASSUME NEW o \in Ops, ReserveFolder(o)  PROVE AnsweredAt(x)'
  BY <1>3 DEF ReserveFolder, Goto, Stays, Cancelled
<1>4. ASSUME NEW o \in Ops, Stage(o)  PROVE AnsweredAt(x)'
  BY <1>4 DEF Stage, Goto, Stays
<1>5. ASSUME NEW o \in Ops, TellReady(o)  PROVE AnsweredAt(x)'
  BY <1>5 DEF TellReady, Goto, Drops, Sends, SendFails, Lock, Cancelled
<1>6. ASSUME NEW o \in Ops, WriteChunk(o)  PROVE AnsweredAt(x)'
  BY <1>6 DEF WriteChunk, Stays, Cancelled
<1>7. ASSUME NEW o \in Ops, BeginCommit(o)  PROVE AnsweredAt(x)'
  BY <1>7 DEF BeginCommit, Lock, Goto, Stays
<1>8. ASSUME NEW o \in Ops, PublishNew(o)  PROVE AnsweredAt(x)'
  BY <1>8 DEF PublishNew, Commits, Goto, Stays
<1>9. ASSUME NEW o \in Ops, ProtectOld(o)  PROVE AnsweredAt(x)'
  BY <1>9 DEF ProtectOld, Commits, Goto, Stays
<1>10. ASSUME NEW o \in Ops, ReplaceOld(o)  PROVE AnsweredAt(x)'
  BY <1>10 DEF ReplaceOld, Commits, Goto, Stays
<1>11. ASSUME NEW o \in Ops, RestoreOld(o)  PROVE AnsweredAt(x)'
  BY <1>11 DEF RestoreOld, Commits, Goto, Stays
<1>12. ASSUME NEW o \in Ops, CannotPublish(o)  PROVE AnsweredAt(x)'
  BY <1>12 DEF CannotPublish, Commits, Goto, Stays
<1>13. ASSUME NEW o \in Ops, Record(o)  PROVE AnsweredAt(x)'
  BY <1>13 DEF Record, Goto
<1>14. ASSUME NEW o \in Uploads, Settle(o)  PROVE AnsweredAt(x)'
  <2>1. /\ pc[o] \in {"withdrawn", "counted"} /\ lock' = [lock EXCEPT ![o] = "terminal"]
        /\ answered' = [answered EXCEPT ![o] = @ + 1]
    BY <1>14 DEF Settle, SendTerminal, Lock
  <2> QED BY <2>1
<1>15. ASSUME NEW o \in Ops, Stream(o)  PROVE AnsweredAt(x)'
  BY <1>15 DEF Stream, Sends, SendFails, Goto, Cancelled
<1>16. ASSUME NEW o \in Ops, EndStream(o)  PROVE AnsweredAt(x)'
  <2>1. lock[o] \in {"active", "cancelling"} /\ lock' = [lock EXCEPT ![o] = "terminal"]
        /\ (answered' = answered \/ answered' = [answered EXCEPT ![o] = @ + 1])
    BY <1>16, EndsOnce DEF EndStream
  <2> QED BY <2>1
<1>17. ASSUME NEW o \in Ops, Unregister(o)  PROVE AnsweredAt(x)'
  BY <1>17 DEF Unregister, Goto
<1>18. ASSUME NEW o \in Ops, AdmitJob(o)  PROVE AnsweredAt(x)'
  BY <1>18 DEF AdmitJob, Goto
<1>19. ASSUME NEW o \in Ops, Reject(o)  PROVE AnsweredAt(x)'
  BY <1>19 DEF Reject, Idle
<1>20. ASSUME NEW o \in Ops, CommandForNobody(o)  PROVE AnsweredAt(x)'
  BY <1>20 DEF CommandForNobody, Idle
<1>21. ASSUME NEW o \in Ops, TakeCommand(o)  PROVE AnsweredAt(x)'
  BY <1>21 DEF TakeCommand
<1>22. ASSUME NEW o \in Ops, CommandStalls(o)  PROVE AnsweredAt(x)'
  BY <1>22 DEF CommandStalls
<1>23. ASSUME NEW o \in Ops, CommandTooSlow(o)  PROVE AnsweredAt(x)'
  BY <1>23 DEF CommandTooSlow, Lock
<1>24. ASSUME NEW o \in Ops, CommandLost(o)  PROVE AnsweredAt(x)'
  BY <1>24 DEF CommandLost
<1>25. ASSUME NEW o \in Ops, Cancel(o)  PROVE AnsweredAt(x)'
  BY <1>25 DEF Cancel, Lock
<1>26. ASSUME NEW o \in Ops, CancelSettled(o)  PROVE AnsweredAt(x)'
  BY <1>26 DEF CancelSettled, Idle
<1>27. CASE HostEnds
  BY <1>27 DEF HostEnds, StopJobs
<1>28. CASE OpenSession
  BY <1>28 DEF OpenSession, Reopen
<1>29. CASE UNCHANGED hostVars
  BY <1>29
<1> QED BY <1>1, <1>2, <1>3, <1>4, <1>5, <1>6, <1>7, <1>8, <1>9, <1>10, <1>11, <1>12, <1>13,
    <1>14, <1>15, <1>16, <1>17, <1>18, <1>19, <1>20, <1>21, <1>22, <1>23, <1>24, <1>25, <1>26,
    <1>27, <1>28, <1>29, HostCases DEF filesVars

LEMMA ContentStep ==
  ASSUME FilesTypeOK, Folder, Publishing, [FilesNext]_filesVars
  PROVE  ContentStays /\ NeverLandsOnContent
<1>t. /\ DOMAIN pc = Ops /\ DOMAIN lock = Ops /\ DOMAIN answerAs = Ops /\ DOMAIN answered = Ops
      /\ DOMAIN row = Ops /\ DOMAIN call = Ops
      /\ DOMAIN backup = Uploads /\ DOMAIN staging = Uploads
      /\ stalled \in Ops \cup {None} /\ file \in Uploads \cup {None, "old"}
  BY DEF FilesTypeOK, HostTypeOK
<1> USE FileNames, <1>t DEF Folder, FolderAt, Publishing, PublishingAt, ContentStays, Content,
    NeverLandsOnContent, FolderPhases, filesVars, hostVars, wires, viewVars, diskVars,
    bytesVars, sessionVars
<1>1. ASSUME NEW o \in Ops, CancelSeen(o)  PROVE ContentStays /\ NeverLandsOnContent
  BY <1>1 DEF CancelSeen, CancelledAnswer, SendTerminal, Sends, SendFails, Lock, Gives, Drops,
      Goto
<1>2. ASSUME NEW o \in Ops, JobFails(o)  PROVE ContentStays /\ NeverLandsOnContent
  BY <1>2 DEF JobFails, FinishWith, CancelledAnswer, SendTerminal, Sends, SendFails, Lock,
      Gives, Drops, Goto
<1>3. ASSUME NEW o \in Ops, ReserveFolder(o)  PROVE ContentStays /\ NeverLandsOnContent
  BY <1>3 DEF ReserveFolder, Goto, Stays, Cancelled
<1>4. ASSUME NEW o \in Ops, Stage(o)  PROVE ContentStays /\ NeverLandsOnContent
  BY <1>4 DEF Stage, Goto, Stays
<1>5. ASSUME NEW o \in Ops, TellReady(o)  PROVE ContentStays /\ NeverLandsOnContent
  BY <1>5 DEF TellReady, Goto, Drops, Sends, SendFails, Lock, Cancelled
<1>6. ASSUME NEW o \in Ops, WriteChunk(o)  PROVE ContentStays /\ NeverLandsOnContent
  BY <1>6 DEF WriteChunk, Stays, Cancelled
<1>7. ASSUME NEW o \in Ops, BeginCommit(o)  PROVE ContentStays /\ NeverLandsOnContent
  BY <1>7 DEF BeginCommit, Lock, Goto, Stays
<1>8. ASSUME NEW o \in Ops, PublishNew(o)  PROVE ContentStays /\ NeverLandsOnContent
  BY <1>8 DEF PublishNew, Commits, Goto, Stays
<1>9. ASSUME NEW o \in Ops, ProtectOld(o)  PROVE ContentStays /\ NeverLandsOnContent
  BY <1>9 DEF ProtectOld, Commits, Goto, Stays
<1>10. ASSUME NEW o \in Ops, ReplaceOld(o)  PROVE ContentStays /\ NeverLandsOnContent
  BY <1>10 DEF ReplaceOld, Commits, Goto, Stays
<1>11. ASSUME NEW o \in Ops, RestoreOld(o)  PROVE ContentStays /\ NeverLandsOnContent
  BY <1>11 DEF RestoreOld, Commits, Goto, Stays
<1>12. ASSUME NEW o \in Ops, CannotPublish(o)  PROVE ContentStays /\ NeverLandsOnContent
  BY <1>12 DEF CannotPublish, Commits, Goto, Stays
<1>13. ASSUME NEW o \in Ops, Record(o)  PROVE ContentStays /\ NeverLandsOnContent
  BY <1>13 DEF Record, Goto
<1>14. ASSUME NEW o \in Uploads, Settle(o)  PROVE ContentStays /\ NeverLandsOnContent
  BY <1>14 DEF Settle, Lock, SendTerminal, Sends, SendFails, Gives, Drops, Goto
<1>15. ASSUME NEW o \in Ops, Stream(o)  PROVE ContentStays /\ NeverLandsOnContent
  BY <1>15 DEF Stream, Sends, SendFails, Goto, Cancelled
<1>16. ASSUME NEW o \in Ops, EndStream(o)  PROVE ContentStays /\ NeverLandsOnContent
  BY <1>16 DEF EndStream, FinishWith, CancelledAnswer, SendTerminal, Sends, SendFails, Lock,
      Gives, Drops, Goto
<1>17. ASSUME NEW o \in Ops, Unregister(o)  PROVE ContentStays /\ NeverLandsOnContent
  BY <1>17 DEF Unregister, Goto
<1>18. ASSUME NEW o \in Ops, AdmitJob(o)  PROVE ContentStays /\ NeverLandsOnContent
  BY <1>18 DEF AdmitJob, Goto
<1>19. ASSUME NEW o \in Ops, Reject(o)  PROVE ContentStays /\ NeverLandsOnContent
  BY <1>19 DEF Reject, Idle
<1>20. ASSUME NEW o \in Ops, CommandForNobody(o)  PROVE ContentStays /\ NeverLandsOnContent
  BY <1>20 DEF CommandForNobody, Idle
<1>21. ASSUME NEW o \in Ops, TakeCommand(o)  PROVE ContentStays /\ NeverLandsOnContent
  BY <1>21 DEF TakeCommand
<1>22. ASSUME NEW o \in Ops, CommandStalls(o)  PROVE ContentStays /\ NeverLandsOnContent
  BY <1>22 DEF CommandStalls
<1>23. ASSUME NEW o \in Ops, CommandTooSlow(o)  PROVE ContentStays /\ NeverLandsOnContent
  BY <1>23 DEF CommandTooSlow, Lock
<1>24. ASSUME NEW o \in Ops, CommandLost(o)  PROVE ContentStays /\ NeverLandsOnContent
  BY <1>24 DEF CommandLost
<1>25. ASSUME NEW o \in Ops, Cancel(o)  PROVE ContentStays /\ NeverLandsOnContent
  BY <1>25 DEF Cancel, Lock
<1>26. ASSUME NEW o \in Ops, CancelSettled(o)  PROVE ContentStays /\ NeverLandsOnContent
  BY <1>26 DEF CancelSettled, Idle
<1>27. CASE HostEnds
  BY <1>27 DEF HostEnds, StopJobs
<1>28. CASE OpenSession
  BY <1>28 DEF OpenSession, Reopen
<1>29. CASE UNCHANGED hostVars
  BY <1>29
<1> QED BY <1>1, <1>2, <1>3, <1>4, <1>5, <1>6, <1>7, <1>8, <1>9, <1>10, <1>11, <1>12, <1>13,
    <1>14, <1>15, <1>16, <1>17, <1>18, <1>19, <1>20, <1>21, <1>22, <1>23, <1>24, <1>25, <1>26,
    <1>27, <1>28, <1>29, HostCases DEF filesVars

LEMMA FilesInitially == FilesInit => FilesInv
<1> SUFFICES ASSUME FilesInit  PROVE FilesInv
  OBVIOUS
<1> USE FileNames DEF FilesInit, HostInit
<1>1. FilesTypeOK
  <2>1. JobsTyped
    BY DEF JobsTyped, Phases
  <2>2. LocksTyped
    BY DEF LocksTyped, LockStates
  <2>3. FilesTyped
    BY DEF FilesTyped
  <2>4. WiresTyped
    BY DEF WiresTyped
  <2>5. ViewTyped
    BY SessionsAssumption DEF ViewTyped, CallStates
  <2>6. activeBytes \in 0..MaxBytes /\ committedBytes \in 0..MaxBytes
    OBVIOUS
  <2> QED BY <2>1, <2>2, <2>3, <2>4, <2>5, <2>6
          DEF FilesTypeOK, HostTypeOK, JobsTyped, LocksTyped, FilesTyped, WiresTyped, ViewTyped
<1>2. Listed /\ Folder /\ Saved /\ Answered
  BY DEF Listed, ListedAt, Folder, FolderAt, FolderPhases, Saved, SavedAt, Answered, AnsweredAt
<1>3. Publishing
  BY DEF Publishing, PublishingAt, Filed
<1>4. Accounted
  <2>1. Unwritten = {} /\ Announced({}) = {}
    BY DEF Unwritten, Announced
  <2>2. IsFiniteSet({}) /\ Cardinality({}) = 0
    BY FS_EmptySet
  <2>3. IsFiniteSet(Announced(Unwritten)) /\ Cardinality(Announced(Unwritten)) = 0
    BY <2>1, <2>2
  <2> QED BY <2>3 DEF Accounted, BytesAccounted
<1>5. Honest
  <2>1. \A m : ~Has(<<>>, m)
    BY DEF Has
  <2> QED BY <2>1 DEF Honest, HonestAt, CancelAsked, Told
<1> QED BY <1>1, <1>2, <1>3, <1>4, <1>5 DEF FilesInv

LEMMA TypesStay ==
  ASSUME FilesInv, [FilesNext]_filesVars  PROVE FilesTypeOK'
<1>1. JobsTyped' /\ LocksTyped' /\ FilesTyped' /\ WiresTyped' /\ ViewTyped'
  BY JobTypes, LockTypes, FileTypes, WireTypes, ViewTypes DEF FilesInv
<1>2. activeBytes' \in 0..MaxBytes /\ committedBytes' \in 0..MaxBytes
  <2>1. Accounted'
    BY AccountedStep DEF FilesInv
  <2> QED BY <2>1, FileNames DEF Accounted, BytesAccounted
<1> QED BY <1>1, <1>2
        DEF FilesTypeOK, HostTypeOK, JobsTyped, LocksTyped, FilesTyped, WiresTyped, ViewTyped

LEMMA FilesInductive == FilesInv /\ [FilesNext]_filesVars => FilesInv'
<1> SUFFICES ASSUME FilesInv, [FilesNext]_filesVars  PROVE FilesInv'
  OBVIOUS
<1>1. FilesTypeOK'
  BY TypesStay
<1>2. Listed'
  BY ListedStep DEF FilesInv, Listed
<1>3. Folder'
  BY FolderStep DEF FilesInv, Folder
<1>4. Publishing'
  BY PublishingStep, FiledStep DEF FilesInv, Publishing
<1>5. Accounted'
  BY AccountedStep DEF FilesInv
<1>6. Honest'
  BY HonestStep DEF FilesInv, Honest
<1>7. Saved'
  BY SavedStep DEF FilesInv, Saved
<1>8. Answered'
  BY AnsweredStep DEF FilesInv, Answered
<1> QED BY <1>1, <1>2, <1>3, <1>4, <1>5, <1>6, <1>7, <1>8 DEF FilesInv

LEMMA FilesInvariant == FilesSpec => []FilesInv
BY FilesInitially, FilesInductive, PTL DEF FilesSpec

\* Every reachable state is well typed: a job, its lock, its files and the two
\* streams are in one of the states the code names, whatever breaks when.
THEOREM FilesTypeCorrect == FilesSpec => []FilesTypeOK
BY FilesInvariant, PTL DEF FilesInv

\* The byte account of ActiveFileJobs is exact, for any sizes and any limit: a
\* commit, a cancellation and a dropped registration settle an upload once, and a
\* session is never given more than MAX_SESSION_UPLOAD_BYTES.
THEOREM BytesExact == FilesSpec => []BytesAccounted
BY FilesInvariant, PTL DEF FilesInv, Accounted

\* A transfer the window shows as done is done: what the viewer believed was an
\* answer about this transfer, not one about its cancellation.
THEOREM DoneHolds == FilesSpec => []DoneIsTrue
<1>1. FilesInv => DoneIsTrue
  BY FileNames DEF FilesInv, Honest, HonestAt, Saved, SavedAt, DoneIsTrue
<1> QED BY <1>1, FilesInvariant, PTL

\* The worker, a cancellation and the shutdown contend for the lock of a job, and
\* its thread answers at most once, after it gave the lock up.
THEOREM AnswerHolds == FilesSpec => []AnsweredOnce
<1>1. FilesInv => AnsweredOnce
  BY DEF FilesInv, Answered, AnsweredAt, AnsweredOnce
<1> QED BY <1>1, FilesInvariant, PTL

\* The two together: one answer ends a transfer, and what it says is true.
THEOREM TransfersHold == FilesSpec => []TransfersTrue
BY DoneHolds, AnswerHolds, PTL DEF TransfersTrue

\* No step of any job leaves the name without content that was there, and none
\* puts an upload over content nobody put aside or before it is whole: whichever
\* sessions write the folder, and wherever a cancellation or a break falls.
THEOREM ContentKept == FilesSpec => ContentSafe
<1>1. FilesInv /\ [FilesNext]_filesVars => [ContentStays /\ NeverLandsOnContent]_filesVars
  BY ContentStep DEF FilesInv
<1> QED BY <1>1, FilesInvariant, PTL DEF FilesSpec, ContentSafe
=============================================================================
