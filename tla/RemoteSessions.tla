--------------------------- MODULE RemoteSessions ---------------------------
(***************************************************************************)
(* The Lattice Remote sessions of the desktop: the registry with its       *)
(* admission slots and its reservations per profile, the reader, writer    *)
(* and supervisor tasks of each session (src-tauri/src/remote.rs), and the *)
(* rows the window shows, filled by three sources that race: the answer of *)
(* a connect, the closed events and the list a reloaded window asks for    *)
(* (src/app/useRemoteSessions.ts, src/app/sessionSnapshot.ts).             *)
(*                                                                         *)
(* A connect call and the session it opens share a name: the code draws a  *)
(* session identifier and a generation per call, and neither is reused.    *)
(* What travels over a session is RemoteFiles' and RemoteTerminal's.       *)
(***************************************************************************)
EXTENDS Naturals, FiniteSets

CONSTANTS
    Calls,          \* the connect calls, each the name of the session it opens
    ProfileOf,      \* the profile of each call
    Limits,         \* what MAX_REMOTE_SESSIONS, the number of slots, may be
    MaxReloads      \* bound: how often the window reloads

ASSUME RemoteSessionsAssumption ==
    /\ IsFiniteSet(Calls)
    /\ DOMAIN ProfileOf = Calls
    /\ Limits \subseteq Nat \ {0}
    /\ MaxReloads \in Nat

NoCall == "nobody"
ASSUME NoCallAssumption == NoCall \notin Calls

Profiles == {ProfileOf[c] : c \in Calls}

VARIABLES
    limit,      \* MAX_REMOTE_SESSIONS: one of Limits, for the whole behaviour
    cmd,        \* where remote_connect stands, for each call
    slots,      \* the calls that hold an admission permit
    pending,    \* pending_profiles: the call that reserved a profile
    sessions,   \* the sessions with a record in the registry
    reader,     \* the reader task of each session
    writer,     \* its writer task
    sup,        \* its supervisor task
    stop,       \* where stop_remote_session stands
    stopper,    \* who runs it: a disconnect of the window, or the connect call
    emitted,    \* how many closed events of the session were emitted
    events,     \* the closed events under way to the window
    rows,       \* the sessions the window shows
    attempt,    \* the window's side of a connect
    observed,   \* the sessions whose closed event an attempt observed
    hydration,  \* where the window stands with its first list
    listed,     \* the list of sessions the registry answered
    closedSeen, \* closedDuringHydration
    reloads     \* how often the window reloaded

registry == <<cmd, slots, pending, sessions>>
tasks == <<reader, writer, sup>>
stops == <<stop, stopper>>
window == <<rows, attempt, observed, hydration, listed, closedSeen, reloads>>
vars == <<limit, registry, tasks, stops, emitted, events, window>>

Steps == {"no", "asked", "admitted", "reserved", "spawned", "committed", "unstarted",
          "storing", "unstored", "dropping", "releasing", "connected", "failed"}

TypeOK ==
    /\ limit \in Limits
    /\ cmd \in [Calls -> Steps]
    /\ slots \subseteq Calls /\ sessions \subseteq Calls
    /\ pending \in [Profiles -> Calls \cup {NoCall}]
    /\ reader \in [Calls -> {"none", "gated", "running", "ended"}]
    /\ writer \in [Calls -> {"none", "running", "ended"}]
    /\ sup \in [Calls -> {"none", "select", "joined", "removed", "told", "done"}]
    /\ stop \in [Calls -> {"no", "closing", "joining", "freed", "done"}]
    /\ stopper \in [Calls -> {"none", "window", "command", "start"}]
    /\ emitted \in [Calls -> 0..2]
    /\ events \subseteq Calls /\ rows \subseteq Calls /\ observed \subseteq Calls
    /\ attempt \in [Calls -> {"no", "waiting", "settled", "gone"}]
    /\ hydration \in {"off", "asked", "answered", "done"}
    /\ listed \subseteq Calls /\ closedSeen \subseteq Calls
    /\ reloads \in 0..MaxReloads

Init ==
    /\ limit \in Limits
    /\ cmd = [c \in Calls |-> "no"]
    /\ slots = {} /\ sessions = {}
    /\ pending = [p \in Profiles |-> NoCall]
    /\ reader = [c \in Calls |-> "none"]
    /\ writer = [c \in Calls |-> "none"]
    /\ sup = [c \in Calls |-> "none"]
    /\ stop = [c \in Calls |-> "no"]
    /\ stopper = [c \in Calls |-> "none"]
    /\ emitted = [c \in Calls |-> 0]
    /\ events = {} /\ rows = {} /\ observed = {}
    /\ attempt = [c \in Calls |-> "no"]
    /\ hydration = "off"
    /\ listed = {} /\ closedSeen = {}
    /\ reloads = 0

----------------------------------------------------------------------------
(* The connect command. *)

Advance(c, from, to) ==
    /\ cmd[c] = from
    /\ cmd' = [cmd EXCEPT ![c] = to]

HasSession(p) == \E c \in sessions : ProfileOf[c] = p

\* reserve, its first half: a permit, or the call fails at once.
Admit(c) ==
    /\ \/ /\ Cardinality(slots) < limit
          /\ Advance(c, "asked", "admitted")
          /\ slots' = slots \cup {c}
       \/ /\ Cardinality(slots) >= limit
          /\ Advance(c, "asked", "failed")
          /\ UNCHANGED slots
    /\ UNCHANGED <<limit, pending, sessions, tasks, stops, emitted, events, window>>

\* Mutant: a reservation of the profile is not looked at.
ReservesTwice(c) ==
    /\ ~HasSession(ProfileOf[c])
    /\ Advance(c, "admitted", "reserved")
    /\ pending' = [pending EXCEPT ![ProfileOf[c]] = c]
    /\ UNCHANGED <<limit, slots, sessions, tasks, stops, emitted, events, window>>

\* reserve, under the lock: one call or session per profile.
Reserve(c) ==
    /\ \/ /\ pending[ProfileOf[c]] = NoCall /\ ~HasSession(ProfileOf[c])
          /\ Advance(c, "admitted", "reserved")
          /\ pending' = [pending EXCEPT ![ProfileOf[c]] = c]
       \/ /\ pending[ProfileOf[c]] # NoCall \/ HasSession(ProfileOf[c])
          /\ Advance(c, "admitted", "releasing")
          /\ UNCHANGED pending
    /\ UNCHANGED <<limit, slots, sessions, tasks, stops, emitted, events, window>>

\* Relay, handshake or hello fail or time out: the reservation is dropped.
DialFails(c) ==
    /\ Advance(c, "reserved", "dropping")
    /\ UNCHANGED <<limit, slots, pending, sessions, tasks, stops, emitted, events, window>>

\* The agent's hello proved the pairing code: the tasks start, the reader gated.
Spawn(c) ==
    /\ Advance(c, "reserved", "spawned")
    /\ reader' = [reader EXCEPT ![c] = "gated"]
    /\ writer' = [writer EXCEPT ![c] = "running"]
    /\ sup' = [sup EXCEPT ![c] = "select"]
    /\ UNCHANGED <<limit, slots, pending, sessions, stops, emitted, events, window>>

\* The conditions under which commit registers the session of a call.
Committable(c) ==
    /\ pending[ProfileOf[c]] = c
    /\ c \notin sessions
    /\ ~HasSession(ProfileOf[c])

\* commit: the reservation becomes a record, which holds the permit from here.
Commit(c) ==
    /\ Committable(c)
    /\ Advance(c, "spawned", "committed")
    /\ pending' = [pending EXCEPT ![ProfileOf[c]] = NoCall]
    /\ sessions' = sessions \cup {c}
    /\ UNCHANGED <<limit, slots, tasks, stops, emitted, events, window>>

\* reader_start.open, and then remote_connect: it may have a pairing code to store.
Open(c) ==
    /\ reader[c] = "gated"
    /\ \E to \in {"connected", "storing"} : Advance(c, "committed", to)
    /\ reader' = [reader EXCEPT ![c] = "running"]
    /\ UNCHANGED <<limit, slots, pending, sessions, writer, sup, stops, emitted, events, window>>

\* A session leaves the registry, and "by" has to stop it.
Remove(c, by) ==
    /\ sessions' = sessions \ {c}
    /\ stop' = [stop EXCEPT ![c] = "closing"]
    /\ stopper' = [stopper EXCEPT ![c] = by]

\* The supervisor aborted the reader before it started: the call gives up.
CannotOpen(c) ==
    /\ reader[c] = "ended"
    /\ \/ c \in sessions /\ Advance(c, "committed", "unstarted") /\ Remove(c, "start")
       \/ c \notin sessions /\ Advance(c, "committed", "failed") /\ UNCHANGED <<sessions, stops>>
    /\ UNCHANGED <<limit, slots, pending, tasks, emitted, events, window>>

\* The pairing code is stored, or it is not and the session is disconnected.
Store(c) ==
    /\ \/ Advance(c, "storing", "connected") /\ UNCHANGED <<sessions, stops>>
       \/ c \in sessions /\ Advance(c, "storing", "unstored") /\ Remove(c, "command")
       \/ c \notin sessions /\ Advance(c, "storing", "failed") /\ UNCHANGED <<sessions, stops>>
    /\ UNCHANGED <<limit, slots, pending, tasks, emitted, events, window>>

\* The call that disconnected its own session answers when it is stopped.
AnswerFailed(c) ==
    /\ stop[c] = "done"
    /\ \E from \in {"unstarted", "unstored"} : Advance(c, from, "failed")
    /\ UNCHANGED <<limit, slots, pending, sessions, tasks, stops, emitted, events, window>>

\* RemoteConnectReservation::drop: first the reservation ...
DropReservation(c) ==
    /\ Advance(c, "dropping", "releasing")
    /\ pending' = [pending EXCEPT ![ProfileOf[c]] = IF @ = c THEN NoCall ELSE @]
    /\ UNCHANGED <<limit, slots, sessions, tasks, stops, emitted, events, window>>

\* ... and then its permit.
ReleasePermit(c) ==
    /\ Advance(c, "releasing", "failed")
    /\ slots' = slots \ {c}
    /\ UNCHANGED <<limit, pending, sessions, tasks, stops, emitted, events, window>>

----------------------------------------------------------------------------
(* The tasks of a session. *)

\* The agent closes, the connection breaks, or what it sent is not acceptable.
ReaderEnds(c) ==
    /\ reader[c] = "running"
    /\ reader' = [reader EXCEPT ![c] = "ended"]
    /\ UNCHANGED <<limit, registry, writer, sup, stops, emitted, events, window>>

\* A message of the window, or the Close of a disconnect, cannot be sent.
WriterEnds(c) ==
    /\ writer[c] = "running"
    /\ (c \in rows /\ c \in sessions) \/ stop[c] = "closing"
    /\ writer' = [writer EXCEPT ![c] = "ended"]
    /\ UNCHANGED <<limit, registry, reader, sup, stops, emitted, events, window>>

\* supervise_remote_tasks: one half ended, the other is aborted and joined; or a
\* shutdown asked for both. Whichever is ready first counts.
Supervise(c) ==
    /\ sup[c] = "select"
    /\ \/ (reader[c] = "ended" \/ writer[c] = "ended") /\ sup' = [sup EXCEPT ![c] = "joined"]
       \/ stop[c] = "joining" /\ sup' = [sup EXCEPT ![c] = "done"]
    /\ reader' = [reader EXCEPT ![c] = "ended"]
    /\ writer' = [writer EXCEPT ![c] = "ended"]
    /\ UNCHANGED <<limit, registry, stops, emitted, events, window>>

\* Mutant: the supervisor does not look whether the record was still there.
RemovesAnyway(c) ==
    /\ sup[c] = "joined"
    /\ sup' = [sup EXCEPT ![c] = "removed"]
    /\ sessions' = sessions \ {c}
    /\ UNCHANGED <<limit, cmd, slots, pending, reader, writer, stops, emitted, events, window>>

\* remove_if_generation: the supervisor owns the record, or somebody took it.
SupervisorRemoves(c) ==
    /\ sup[c] = "joined"
    /\ sup' = [sup EXCEPT ![c] = IF c \in sessions THEN "removed" ELSE "done"]
    /\ sessions' = sessions \ {c}
    /\ UNCHANGED <<limit, cmd, slots, pending, reader, writer, stops, emitted, events, window>>

\* An event reaches the window only while it listens.
Emit(c) ==
    /\ emitted' = [emitted EXCEPT ![c] = @ + 1]
    /\ events' = IF hydration = "off" THEN events ELSE events \cup {c}

SupervisorTells(c) ==
    /\ sup[c] = "removed"
    /\ sup' = [sup EXCEPT ![c] = "told"]
    /\ Emit(c)
    /\ UNCHANGED <<limit, registry, reader, writer, stops, window>>

\* The record is dropped, and its permit with it.
SupervisorDrops(c) ==
    /\ sup[c] = "told"
    /\ sup' = [sup EXCEPT ![c] = "done"]
    /\ slots' = slots \ {c}
    /\ UNCHANGED <<limit, cmd, pending, sessions, reader, writer, stops, emitted, events, window>>

----------------------------------------------------------------------------
(* stop_remote_session, by whoever removed the record. *)

\* Mutant: the permit goes with the record, before the tasks are joined.
ShutdownFrees(c) ==
    /\ stop[c] = "closing"
    /\ stop' = [stop EXCEPT ![c] = "joining"]
    /\ slots' = slots \ {c}
    /\ UNCHANGED <<limit, cmd, pending, sessions, tasks, stopper, emitted, events, window>>

\* The Close is sent, or its time is over; then the tasks are asked to stop.
Shutdown(c) ==
    /\ stop[c] = "closing"
    /\ stop' = [stop EXCEPT ![c] = "joining"]
    /\ UNCHANGED <<limit, registry, tasks, stopper, emitted, events, window>>

\* The supervisor is joined: only now the slot is free.
Join(c) ==
    /\ stop[c] = "joining" /\ sup[c] = "done"
    /\ stop' = [stop EXCEPT ![c] = "freed"]
    /\ slots' = slots \ {c}
    /\ UNCHANGED <<limit, cmd, pending, sessions, tasks, stopper, emitted, events, window>>

\* disconnect tells the window; a start that failed does not.
Stopped(c) ==
    /\ stop[c] = "freed"
    /\ stop' = [stop EXCEPT ![c] = "done"]
    /\ IF stopper[c] = "start" THEN UNCHANGED <<emitted, events>> ELSE Emit(c)
    /\ UNCHANGED <<limit, registry, tasks, stopper, window>>

----------------------------------------------------------------------------
(* The window. *)

\* The listeners are registered, and the sessions are asked for.
Listen ==
    /\ hydration = "off"
    /\ hydration' = "asked"
    /\ UNCHANGED <<limit, registry, tasks, stops, emitted, events, rows, attempt, observed, listed,
                   closedSeen, reloads>>

\* remote_sessions
List ==
    /\ hydration = "asked"
    /\ hydration' = "answered"
    /\ listed' = sessions
    /\ UNCHANGED <<limit, registry, tasks, stops, emitted, events, rows, attempt, observed,
                   closedSeen, reloads>>

\* reconcileSessionSnapshot: no session comes back that was seen closing.
Hydrated ==
    /\ hydration = "answered"
    /\ hydration' = "done"
    /\ rows' = (listed \cup rows) \ closedSeen
    /\ listed' = {} /\ closedSeen' = {}
    /\ UNCHANGED <<limit, registry, tasks, stops, emitted, events, attempt, observed, reloads>>

\* connect waits for the listeners, and begins an attempt before it calls.
Connect(c) ==
    /\ hydration # "off"
    /\ attempt[c] = "no" /\ cmd[c] = "no"
    /\ attempt' = [attempt EXCEPT ![c] = "waiting"]
    /\ cmd' = [cmd EXCEPT ![c] = "asked"]
    /\ UNCHANGED <<limit, slots, pending, sessions, tasks, stops, emitted, events, rows, observed,
                   hydration, listed, closedSeen, reloads>>

\* Mutant: the answer is taken at its word.
Believes(c) ==
    /\ attempt[c] = "waiting" /\ cmd[c] = "connected"
    /\ attempt' = [attempt EXCEPT ![c] = "settled"]
    /\ rows' = rows \cup {c}
    /\ observed' = observed \ {c}
    /\ UNCHANGED <<limit, registry, tasks, stops, emitted, events, hydration, listed, closedSeen,
                   reloads>>

\* The answer: a row, unless the session was already seen closing.
Connected(c) ==
    /\ attempt[c] = "waiting" /\ cmd[c] = "connected"
    /\ attempt' = [attempt EXCEPT ![c] = "settled"]
    /\ rows' = IF c \in observed THEN rows ELSE rows \cup {c}
    /\ observed' = observed \ {c}
    /\ UNCHANGED <<limit, registry, tasks, stops, emitted, events, hydration, listed, closedSeen,
                   reloads>>

NotConnected(c) ==
    /\ attempt[c] = "waiting" /\ cmd[c] = "failed"
    /\ attempt' = [attempt EXCEPT ![c] = "settled"]
    /\ observed' = observed \ {c}
    /\ UNCHANGED <<limit, registry, tasks, stops, emitted, events, rows, hydration, listed,
                   closedSeen, reloads>>

\* The listener of remote://closed.
Closed(c) ==
    /\ c \in events
    /\ events' = events \ {c}
    /\ rows' = rows \ {c}
    /\ observed' = IF attempt[c] = "waiting" THEN observed \cup {c} ELSE observed
    /\ closedSeen' = IF hydration # "done" THEN closedSeen \cup {c} ELSE closedSeen
    /\ UNCHANGED <<limit, registry, tasks, stops, emitted, attempt, hydration, listed, reloads>>

\* disconnect: the record is taken out, if it is still there.
Disconnect(c) ==
    /\ c \in rows /\ c \in sessions
    /\ Remove(c, "window")
    /\ UNCHANGED <<limit, cmd, slots, pending, tasks, emitted, events, window>>

\* Its answer: the row goes.
Disconnected(c) ==
    /\ stopper[c] = "window" /\ stop[c] = "done"
    /\ c \in rows
    /\ rows' = rows \ {c}
    /\ UNCHANGED <<limit, registry, tasks, stops, emitted, events, attempt, observed, hydration,
                   listed, closedSeen, reloads>>

\* A disconnect that finds no record answers at once, and the row goes all the same.
DisconnectAgain(c) ==
    /\ c \in rows /\ c \notin sessions
    /\ rows' = rows \ {c}
    /\ UNCHANGED <<limit, registry, tasks, stops, emitted, events, attempt, observed, hydration,
                   listed, closedSeen, reloads>>

\* The window loads again: it knows nothing, and the calls under way answer nobody.
Reload ==
    /\ hydration # "off" /\ reloads < MaxReloads
    /\ reloads' = reloads + 1
    /\ rows' = {} /\ observed' = {} /\ listed' = {} /\ closedSeen' = {} /\ events' = {}
    /\ hydration' = "off"
    /\ attempt' = [c \in Calls |-> IF attempt[c] = "waiting" THEN "gone" ELSE attempt[c]]
    /\ UNCHANGED <<limit, registry, tasks, stops, emitted>>

----------------------------------------------------------------------------
Command(c) ==
    \/ Admit(c) \/ Reserve(c) \/ DialFails(c) \/ Spawn(c) \/ Commit(c) \/ Open(c)
    \/ CannotOpen(c) \/ Store(c) \/ AnswerFailed(c) \/ DropReservation(c) \/ ReleasePermit(c)

Tasks(c) ==
    \/ Supervise(c) \/ SupervisorRemoves(c) \/ SupervisorTells(c) \/ SupervisorDrops(c)
    \/ Shutdown(c) \/ Join(c) \/ Stopped(c)

Answers(c) == Connected(c) \/ NotConnected(c) \/ Closed(c) \/ Disconnected(c)

\* What the program does by itself; the user, the agent and the network are not bound.
System ==
    \/ \E c \in Calls : Command(c) \/ Tasks(c) \/ Answers(c)
    \/ Listen \/ List \/ Hydrated

Environment ==
    \/ \E c \in Calls : \/ Connect(c) \/ Disconnect(c) \/ DisconnectAgain(c)
                        \/ ReaderEnds(c) \/ WriterEnds(c)
    \/ Reload

Next == System \/ Environment

Spec == Init /\ [][Next]_vars

\* Every task and every listener runs on; dialling and storing have time limits.
FairSpec == Spec /\ WF_vars(System)

----------------------------------------------------------------------------
(* Properties. *)

\* The connect that reserved a profile can always register what it connected:
\* commit never finds the reservation gone or another session of the profile
\* (the error paths of RemoteRegistry::commit are unreachable).
AdmittedCommits == \A c \in Calls : cmd[c] = "spawned" => Committable(c)

\* A profile has one reservation or one session, and never both.
OnePerProfile ==
    \A c, d \in sessions \cup ({pending[p] : p \in Profiles} \ {NoCall}) :
        ProfileOf[c] = ProfileOf[d] => c = d

\* "Keep the global slot occupied through the last task join": whatever still
\* reads or writes holds one of the slots, and there are no more than the limit.
TasksHoldSlot ==
    /\ Cardinality(slots) <= limit
    /\ \A c \in Calls :
        reader[c] \in {"gated", "running"} \/ writer[c] = "running" => c \in slots

\* Admission of a connect is exclusive from begin_pending to the end of the last
\* task of its session, although it dials in between without the lock.
Admission == AdmittedCommits /\ OnePerProfile /\ TasksHoldSlot

\* However a session ends, by its agent, its window, its own call or several of
\* them at once, its end is told exactly once.
ToldOnce ==
    \A c \in Calls :
        /\ emitted[c] <= 1
        /\ sup[c] = "done" /\ stop[c] \in {"no", "done"} /\ stopper[c] # "start"
            => emitted[c] = 1

\* In the end the slots are those of the sessions, and the window shows these:
\* no closed session keeps a row because its end overtook the answer or the
\* list that announces it, and no session is without one. Two exceptions the
\* code makes: a session that could not be started ends untold, and a call
\* under way when the window reloaded answers nobody.
Settles ==
    <>[](/\ slots = sessions
         /\ \A c \in rows : c \in sessions \/ stopper[c] = "start"
         /\ \A c \in sessions : c \in rows \/ attempt[c] = "gone")
=============================================================================
