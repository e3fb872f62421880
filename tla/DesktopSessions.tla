-------------------------- MODULE DesktopSessions --------------------------
(***************************************************************************)
(* The RDP, VNC and SSH sessions of the desktop.  An RDP or a VNC session  *)
(* runs in an engine, a process of its own, which a connect command starts *)
(* and a worker reads until it is reaped; both protocols draw on one pool  *)
(* of permits, VNC on a second one, and each has a registry that the end   *)
(* of the app seals (src-tauri/src/rdp.rs, vnc.rs, sidecar.rs).  An SSH    *)
(* session is a task of the app itself, which its registry only lists      *)
(* (ssh.rs).  The window shows rows that three sources fill: the answer of *)
(* a connect, the closed events and the list a new window asks for         *)
(* (src/app/useRdpSessions.ts, useVncSessions.ts, useSshSessions.ts).      *)
(*                                                                         *)
(* A connect call and the session it opens share a name: the code draws an *)
(* identifier and a generation per call, and neither is reused.  Frames,   *)
(* input that is accepted and closing notices change nothing kept here.    *)
(***************************************************************************)
EXTENDS Naturals, FiniteSets

CONSTANTS
    Calls,      \* the connect calls, each the name of the session it opens
    Instances   \* the settings to check: one of them holds for a whole behaviour

Protocols == {"rdp", "vnc", "ssh"}
Engines == {"rdp", "vnc"}
Closers == {"window", "command"}

\* What an instance fixes: the protocols and the caps, and as bounds the calls that
\* are made, the sessions the user works in (their password is stored, they are typed
\* into and disconnected), whether the app exits and how often the window reloads.
Setting == [kind : [Calls -> Protocols], shared : Nat \ {0}, vnc : Nat \ {0},
            called : SUBSET Calls, used : SUBSET Calls, exits : BOOLEAN, reloads : Nat]

ASSUME DesktopSessionsAssumption ==
    /\ IsFiniteSet(Calls)
    /\ \A i \in Instances : i \in Setting

NoCall == "nobody"
ASSUME NoCallAssumption == NoCall \notin Calls

VARIABLES
    inst,       \* the instance: one of Instances
    cmd,        \* where the connect command stands, for each call
    slots,      \* the calls that hold a permit of the pool of both protocols
    vncSlots,   \* the calls that hold a permit of the pool of VNC
    prompt,     \* the call whose certificate dialog is open
    pending,    \* the reservations: calls whose engine is not committed yet
    sessions,   \* the sessions with a record in their registry
    closing,    \* sessions taken out of the registry whose worker still runs
    sealed,     \* the registries that shut down
    exit,       \* how far the exit of the app is with its registries; gone, its
                \* process has ended
    signals,    \* the calls stop_all still has to send a stop to
    engine,     \* the engine process of each call
    worker,     \* the task that reads the engine, or the channel of an SSH session
    stop,       \* the calls whose stop flag is raised
    armed,      \* the calls whose watchdog of a graceful close is running
    disc,       \* the disconnects, of the window or of the connect command
    input,      \* an input whose write fails
    emitted,    \* how many closed events of the session were emitted
    events,     \* the closed events under way to the window
    rows,       \* how many rows the window shows for the session
    attempt,    \* the window's side of a connect
    observed,   \* the sessions whose closed event an attempt observed
    leaving,    \* the sessions whose disconnect the window waits for
    hydration,  \* where each hook stands with its first list
    listed,     \* the sessions the registry answered
    closedSeen, \* closedDuringHydration
    reloads     \* how often the window reloaded

permits == <<slots, vncSlots>>
tables == <<pending, sessions, closing>>
ending == <<sealed, exit, signals>>
process == <<engine, worker>>
stops == <<stop, armed>>
closes == <<disc, input>>
wire == <<emitted, events>>
window == <<rows, attempt, observed, leaving, hydration, listed, closedSeen, reloads>>
vars == <<inst, cmd, permits, prompt, tables, ending, process, stops, closes, wire,
          window>>

TypeOK ==
    /\ inst \in Instances
    /\ cmd \in [Calls -> {"no", "asked", "looked", "shared", "capped", "reserved", "starting",
                          "certifying", "unknown", "dialog", "approved", "restarting",
                          "dropping", "started", "committed", "storing", "unstored",
                          "connected", "failed"}]
    /\ slots \subseteq Calls /\ vncSlots \subseteq Calls
    /\ prompt \in Calls \cup {NoCall}
    /\ pending \subseteq Calls /\ sessions \subseteq Calls /\ closing \subseteq Calls
    /\ sealed \subseteq Engines /\ signals \subseteq Calls
    /\ exit \in {"no", "rdp", "vnc", "gone"}
    /\ engine \in [Calls -> {"none", "alive", "doomed", "exited", "reaped"}]
    /\ worker \in [Calls -> {"none", "reading", "exiting", "killing", "finishing",
                             "telling", "ending", "done"}]
    /\ stop \subseteq Calls /\ armed \subseteq Calls
    /\ disc \in [Calls \X Closers -> {"no", "asked", "writing", "telling", "done"}]
    /\ input \in [Calls -> {"no", "writing", "removed", "missed", "telling", "done"}]
    /\ emitted \in [Calls -> 0..2] /\ events \subseteq Calls
    /\ rows \in [Calls -> 0..2]
    /\ attempt \in [Calls -> {"no", "asked", "settled", "gone"}]
    /\ observed \subseteq Calls /\ leaving \subseteq Calls
    /\ hydration \in [Protocols -> {"off", "listening", "answered", "done"}]
    /\ listed \subseteq Calls /\ closedSeen \subseteq Calls
    /\ reloads \in 0..inst.reloads

Init ==
    /\ inst \in Instances
    /\ cmd = [c \in Calls |-> "no"]
    /\ slots = {} /\ vncSlots = {} /\ prompt = NoCall
    /\ pending = {} /\ sessions = {} /\ closing = {}
    /\ sealed = {} /\ exit = "no" /\ signals = {}
    /\ engine = [c \in Calls |-> "none"]
    /\ worker = [c \in Calls |-> "none"]
    /\ stop = {} /\ armed = {}
    /\ disc = [d \in Calls \X Closers |-> "no"]
    /\ input = [c \in Calls |-> "no"]
    /\ emitted = [c \in Calls |-> 0] /\ events = {}
    /\ rows = [c \in Calls |-> 0]
    /\ attempt = [c \in Calls |-> "no"]
    /\ observed = {} /\ leaving = {}
    /\ hydration = [k \in Protocols |-> "off"]
    /\ listed = {} /\ closedSeen = {}
    /\ reloads = 0

kind == inst.kind

HasEngine(c) == kind[c] \in Engines
Sealed(c) == kind[c] \in sealed

Advance(c, from, to) ==
    /\ cmd[c] = from
    /\ cmd' = [cmd EXCEPT ![c] = to]

WorkerMoves(c, from, to) ==
    /\ worker[c] = from
    /\ worker' = [worker EXCEPT ![c] = to]

DiscMoves(d, from, to) ==
    /\ disc[d] = from
    /\ disc' = [disc EXCEPT ![d] = to]

InputMoves(c, from, to) ==
    /\ input[c] = from
    /\ input' = [input EXCEPT ![c] = to]

\* A closed event is emitted; without a listener the window never hears of it.
Emit(c) ==
    /\ emitted' = [emitted EXCEPT ![c] = @ + 1]
    /\ events' = IF hydration[kind[c]] = "off" THEN events ELSE events \cup {c}

\* The reservation is dropped: its entry of pending, then its permits.
Drop(c) ==
    /\ pending' = pending \ {c}
    /\ slots' = slots \ {c}
    /\ vncSlots' = vncSlots \ {c}

\* start_kill: a process that has exited already only waits to be reaped.
Kill(c) == engine' = [engine EXCEPT ![c] = IF @ = "alive" THEN "doomed" ELSE @]

----------------------------------------------------------------------------
(* The profile of the call, and the password it saved. *)

Refuse(c) ==
    /\ HasEngine(c)
    /\ Advance(c, "asked", "failed")
    /\ UNCHANGED <<inst, permits, prompt, tables, ending, process, stops, closes, wire,
                   window>>

----------------------------------------------------------------------------
(* reserve: a look at the seal, the permits, and the entry under the lock. *)

Look(c) ==
    /\ HasEngine(c)
    /\ Advance(c, "asked", IF Sealed(c) THEN "failed" ELSE "looked")
    /\ UNCHANGED <<inst, permits, prompt, tables, ending, process, stops, closes, wire,
                   window>>

TakeShared(c) ==
    /\ \/ /\ Cardinality(slots) < inst.shared
          /\ Advance(c, "looked", IF kind[c] = "vnc" THEN "shared" ELSE "capped")
          /\ slots' = slots \cup {c}
       \/ /\ Cardinality(slots) >= inst.shared
          /\ Advance(c, "looked", "failed")
          /\ UNCHANGED slots
    /\ UNCHANGED <<inst, vncSlots, prompt, tables, ending, process, stops, closes, wire,
                   window>>

TakeVnc(c) ==
    /\ \/ /\ Cardinality(vncSlots) < inst.vnc
          /\ Advance(c, "shared", "capped")
          /\ vncSlots' = vncSlots \cup {c}
          /\ UNCHANGED slots
       \/ /\ Cardinality(vncSlots) >= inst.vnc
          /\ Advance(c, "shared", "failed")
          /\ slots' = slots \ {c}
          /\ UNCHANGED vncSlots
    /\ UNCHANGED <<inst, prompt, tables, ending, process, stops, closes, wire, window>>

Reserve(c) ==
    /\ \/ /\ ~Sealed(c)
          /\ Advance(c, "capped", "reserved")
          /\ pending' = pending \cup {c}
          /\ UNCHANGED permits
       \/ /\ Sealed(c)
          /\ Advance(c, "capped", "failed")
          /\ Drop(c)
    /\ UNCHANGED <<inst, prompt, sessions, closing, ending, process, stops, closes, wire,
                   window>>

----------------------------------------------------------------------------
(* The engine is started, at most twice: an RDP server whose certificate is  *)
(* not trusted is asked about and tried again with the approved fingerprint. *)

Spawn(c, from, to) ==
    /\ \/ /\ Advance(c, from, to)
          /\ engine' = [engine EXCEPT ![c] = "alive"]
          /\ UNCHANGED <<pending, permits>>
       \/ /\ Advance(c, from, "failed")
          /\ Drop(c)
          /\ UNCHANGED engine
    /\ UNCHANGED <<inst, prompt, sessions, closing, ending, worker, stops, closes, wire,
                   window>>

SpawnFirst(c) == Spawn(c, "reserved", "starting")

\* The wait for the engine's first event ends: the stop flag is looked at first;
\* the engine may fail, hang for 20 seconds, break the protocol or just exit.
StartFails(c) ==
    /\ \E from \in {"starting", "restarting"} : Advance(c, from, "dropping")
    /\ Kill(c)
    /\ UNCHANGED <<inst, permits, prompt, tables, ending, worker, stops, closes, wire,
                   window>>

EngineConnects(c) ==
    /\ c \notin stop
    /\ engine[c] \in {"alive", "exited"}
    /\ \E from \in {"starting", "restarting"} : Advance(c, from, "started")
    /\ UNCHANGED <<inst, permits, prompt, tables, ending, process, stops, closes, wire,
                   window>>

CertificateUnknown(c) ==
    /\ kind[c] = "rdp"
    /\ c \notin stop
    /\ Advance(c, "starting", "certifying")
    /\ Kill(c)
    /\ UNCHANGED <<inst, permits, prompt, tables, ending, worker, stops, closes, wire,
                   window>>

\* terminate_sidecar returns once the process is reaped.
Reaped(c) ==
    /\ engine[c] = "exited"
    /\ engine' = [engine EXCEPT ![c] = "reaped"]

DropStart(c) ==
    /\ Advance(c, "dropping", "failed")
    /\ Reaped(c)
    /\ Drop(c)
    /\ UNCHANGED <<inst, prompt, sessions, closing, ending, worker, stops, closes, wire,
                   window>>

ReapRefused(c) ==
    /\ Advance(c, "certifying", "unknown")
    /\ Reaped(c)
    /\ UNCHANGED <<inst, permits, prompt, tables, ending, worker, stops, closes, wire,
                   window>>

\* One certificate dialog at a time; a call that finds another one open fails.
OpenDialog(c) ==
    /\ \/ /\ prompt = NoCall
          /\ Advance(c, "unknown", "dialog")
          /\ prompt' = c
          /\ UNCHANGED <<pending, permits>>
       \/ /\ Advance(c, "unknown", "failed")
          /\ Drop(c)
          /\ UNCHANGED prompt
    /\ UNCHANGED <<inst, sessions, closing, ending, process, stops, closes, wire, window>>

\* The user answers, or closes the dialog; nobody makes him.
AnswerDialog(c) ==
    /\ \/ /\ Advance(c, "dialog", "approved")
          /\ UNCHANGED <<pending, permits>>
       \/ /\ Advance(c, "dialog", "failed")
          /\ Drop(c)
    /\ prompt' = NoCall
    /\ UNCHANGED <<inst, sessions, closing, ending, process, stops, closes, wire, window>>

\* A stop that came while the dialog was open ends the call; else a second try.
SpawnApproved(c) ==
    /\ c \notin stop
    /\ Spawn(c, "approved", "restarting")

StopApproved(c) ==
    /\ c \in stop
    /\ Advance(c, "approved", "failed")
    /\ Drop(c)
    /\ UNCHANGED <<inst, prompt, sessions, closing, ending, process, stops, closes, wire,
                   window>>

\* commit and the drain of stop_all share a lock: a sealed registry takes no session.
Commit(c) ==
    /\ \/ /\ ~Sealed(c)
          /\ Advance(c, "started", "committed")
          /\ pending' = pending \ {c}
          /\ sessions' = sessions \cup {c}
          /\ WorkerMoves(c, "none", "reading")
          /\ UNCHANGED engine
       \/ /\ Sealed(c)
          /\ Advance(c, "started", "dropping")
          /\ Kill(c)
          /\ UNCHANGED <<pending, sessions, worker>>
    /\ UNCHANGED <<inst, permits, prompt, closing, ending, stops, closes, wire, window>>

\* An SSH session: the host key known, authenticated, its shell opened and its pump
\* spawned, or not.
OpenShell(c) ==
    /\ kind[c] = "ssh"
    /\ \/ /\ Advance(c, "asked", "committed")
          /\ sessions' = sessions \cup {c}
          /\ WorkerMoves(c, "none", "reading")
       \/ /\ Advance(c, "asked", "failed")
          /\ UNCHANGED <<sessions, worker>>
    /\ UNCHANGED <<inst, permits, prompt, pending, closing, ending, engine, stops, closes,
                   wire, window>>

----------------------------------------------------------------------------
(* The rest of the command: the password to remember is stored, and the *)
(* session is closed again when that fails.                              *)

Remember(c, to) ==
    /\ to = "storing" => c \in inst.used
    /\ Advance(c, "committed", to)
    /\ UNCHANGED <<inst, permits, prompt, tables, ending, process, stops, closes, wire,
                   window>>

Store(c) ==
    /\ \/ /\ Advance(c, "storing", "connected")
          /\ UNCHANGED disc
       \/ /\ Advance(c, "storing", "unstored")
          /\ DiscMoves(<<c, "command">>, "no", "asked")
    /\ UNCHANGED <<inst, permits, prompt, tables, ending, process, stops, input,
                   wire, window>>

AnswerUnstored(c) ==
    /\ disc[<<c, "command">>] = "done"
    /\ Advance(c, "unstored", "failed")
    /\ UNCHANGED <<inst, permits, prompt, tables, ending, process, stops, closes, wire,
                   window>>

----------------------------------------------------------------------------
(* The engine process, and the worker that reads it and reaps it. *)

\* The process ends by itself, or because it was killed.
EngineExits(c) ==
    /\ engine[c] \in {"alive", "doomed"}
    /\ engine' = [engine EXCEPT ![c] = "exited"]
    /\ UNCHANGED <<inst, cmd, permits, prompt, tables, ending, worker, stops, closes, wire,
                   window>>

\* The engine says that it ended, or its output does; a stop is looked at first.
WorkerReads(c) ==
    /\ HasEngine(c)
    /\ c \notin stop
    /\ WorkerMoves(c, "reading", "exiting")
    /\ UNCHANGED <<inst, cmd, permits, prompt, tables, ending, engine, stops, closes, wire,
                   window>>

\* A stop while it reads, or three seconds in which the process did not exit.
WorkerKills(c) ==
    /\ \/ c \in stop /\ WorkerMoves(c, "reading", "killing")
       \/ HasEngine(c) /\ WorkerMoves(c, "exiting", "killing")
    /\ Kill(c)
    /\ UNCHANGED <<inst, cmd, permits, prompt, tables, ending, stops, closes, wire, window>>

\* Mutant: a killed process is not waited for.
ReapsNothing(c) ==
    /\ WorkerMoves(c, "killing", "finishing")
    /\ UNCHANGED <<inst, cmd, permits, prompt, tables, ending, engine, stops, closes, wire,
                   window>>

WorkerReaps(c) ==
    /\ \E from \in {"exiting", "killing"} : WorkerMoves(c, from, "finishing")
    /\ Reaped(c)
    /\ UNCHANGED <<inst, cmd, permits, prompt, tables, ending, stops, closes, wire, window>>

\* The pump of an SSH session ends: its channel did, or a Close came up in its queue.
PumpEnds(c) ==
    /\ kind[c] = "ssh"
    /\ WorkerMoves(c, "reading", "finishing")
    /\ UNCHANGED <<inst, cmd, permits, prompt, tables, ending, engine, stops, closes, wire,
                   window>>

\* Mutant: the worker tells of the end whoever took the record out.
FinishTellsAlways(c) ==
    /\ WorkerMoves(c, "finishing", "telling")
    /\ sessions' = sessions \ {c}
    /\ closing' = closing \ {c}
    /\ UNCHANGED <<inst, cmd, permits, prompt, pending, ending, engine, stops, closes, wire,
                   window>>

\* finish_worker: who takes the record out tells of it. The pump of an SSH session
\* is the only one that removes, and tells always.
Finish(c) ==
    /\ WorkerMoves(c, "finishing",
                   IF c \in sessions \/ kind[c] = "ssh" THEN "telling" ELSE "ending")
    /\ sessions' = sessions \ {c}
    /\ closing' = closing \ {c}
    /\ UNCHANGED <<inst, cmd, permits, prompt, pending, ending, engine, stops, closes, wire,
                   window>>

WorkerTells(c) ==
    /\ WorkerMoves(c, "telling", "ending")
    /\ Emit(c)
    /\ UNCHANGED <<inst, cmd, permits, prompt, tables, ending, engine, stops, closes, window>>

\* The permits follow the worker to its end.
WorkerEnds(c) ==
    /\ WorkerMoves(c, "ending", "done")
    /\ slots' = slots \ {c}
    /\ vncSlots' = vncSlots \ {c}
    /\ UNCHANGED <<inst, cmd, prompt, tables, ending, engine, stops, closes, wire, window>>

----------------------------------------------------------------------------
(* disconnect: the record moves to closing, the engine is asked to close,  *)
(* and a watchdog stops it after three seconds; an SSH session only gets a *)
(* Close in its queue.                                                     *)

BeginClose(d) ==
    LET c == d[1] IN
    /\ HasEngine(c)
    /\ DiscMoves(d, "asked", IF c \in sessions THEN "writing" ELSE "done")
    /\ sessions' = sessions \ {c}
    /\ closing' = IF c \in sessions THEN closing \cup {c} ELSE closing
    /\ UNCHANGED <<inst, cmd, permits, prompt, pending, ending, process, stops, input,
                   wire, window>>

\* Mutant: a Close that was written is trusted, no watchdog is armed.
WritesWithoutWatchdog(d) ==
    LET c == d[1] IN
    /\ DiscMoves(d, "writing", "telling")
    /\ stop' \in {stop, stop \cup {c}}
    /\ UNCHANGED armed
    /\ UNCHANGED <<inst, cmd, permits, prompt, tables, ending, process, input, wire,
                   window>>

WriteClose(d) ==
    LET c == d[1] IN
    /\ DiscMoves(d, "writing", "telling")
    /\ \/ armed' = armed \cup {c} /\ UNCHANGED stop
       \/ stop' = stop \cup {c} /\ UNCHANGED armed
    /\ UNCHANGED <<inst, cmd, permits, prompt, tables, ending, process, input, wire,
                   window>>

TellClose(d) ==
    /\ DiscMoves(d, "telling", "done")
    /\ Emit(d[1])
    /\ UNCHANGED <<inst, cmd, permits, prompt, tables, ending, process, stops, input,
                   window>>

Watchdog(c) ==
    /\ c \in armed
    /\ armed' = armed \ {c}
    /\ stop' = stop \cup {c}
    /\ UNCHANGED <<inst, cmd, permits, prompt, tables, ending, process, closes, wire, window>>

\* The Close of an SSH session waits in the queue of its pump, which may be busy
\* with a write the server does not take: PumpEnds is owed to nobody.
QueueClose(d) ==
    /\ kind[d[1]] = "ssh"
    /\ DiscMoves(d, "asked", "done")
    /\ UNCHANGED <<inst, cmd, permits, prompt, tables, ending, process, stops, input, wire,
                   window>>

----------------------------------------------------------------------------
(* input: a write that fails closes the session, if it is still there. *)

BeginInput(c) ==
    /\ HasEngine(c) /\ c \in inst.used
    /\ c \in sessions /\ rows[c] > 0
    /\ InputMoves(c, "no", "writing")
    /\ UNCHANGED <<inst, cmd, permits, prompt, tables, ending, process, stops, disc,
                   wire, window>>

InputFails(c) ==
    /\ InputMoves(c, "writing", IF c \in sessions THEN "removed" ELSE "missed")
    /\ sessions' = sessions \ {c}
    /\ closing' = IF c \in sessions THEN closing \cup {c} ELSE closing
    /\ UNCHANGED <<inst, cmd, permits, prompt, pending, ending, process, stops, disc,
                   wire, window>>

InputStops(c) ==
    /\ \/ InputMoves(c, "removed", "telling")
       \/ InputMoves(c, "missed", "done")
    /\ stop' = stop \cup {c}
    /\ UNCHANGED <<inst, cmd, permits, prompt, tables, ending, process, armed, disc,
                   wire, window>>

InputTells(c) ==
    /\ InputMoves(c, "telling", "done")
    /\ Emit(c)
    /\ UNCHANGED <<inst, cmd, permits, prompt, tables, ending, process, stops, disc,
                   window>>

----------------------------------------------------------------------------
(* The exit of the app seals the two registries one after the other,    *)
(* sends a stop to everything it found there, and waits for none of it: *)
(* the process ends with its tasks, and no Child is dropped.  An engine *)
(* it leaves behind ends when it reads the end of its input, which      *)
(* lattice-vnc does not do while it connects.                           *)

Of(k, calls) == {c \in calls : kind[c] = k}

\* Mutant: the connects under way are forgotten.
DrainsPublished(k) ==
    /\ sealed' = sealed \cup {k}
    /\ signals' = Of(k, closing \cup sessions)
    /\ pending' = pending \ Of(k, pending)
    /\ sessions' = sessions \ Of(k, sessions)
    /\ closing' = closing \ Of(k, closing)

Drain(k) ==
    /\ sealed' = sealed \cup {k}
    /\ signals' = Of(k, pending \cup closing \cup sessions)
    /\ pending' = pending \ Of(k, pending)
    /\ sessions' = sessions \ Of(k, sessions)
    /\ closing' = closing \ Of(k, closing)

StopAll ==
    /\ signals = {}
    /\ \/ exit = "no" /\ inst.exits /\ exit' = "rdp" /\ Drain("rdp")
       \/ exit = "rdp" /\ exit' = "vnc" /\ Drain("vnc")
       \/ exit = "vnc" /\ exit' = "gone" /\ UNCHANGED <<sealed, signals, tables>>
    /\ UNCHANGED <<inst, cmd, permits, prompt, process, stops, closes, wire, window>>

SendStop(c) ==
    /\ c \in signals
    /\ signals' = signals \ {c}
    /\ stop' = stop \cup {c}
    /\ UNCHANGED <<inst, cmd, permits, prompt, tables, sealed, exit, process, armed, closes,
                   wire, window>>

----------------------------------------------------------------------------
(* The window. *)

Guarded(c) == HasEngine(c)

\* The hooks of RDP and VNC wait for their listeners before they connect.
Connect(c) ==
    /\ exit = "no" /\ c \in inst.called
    /\ attempt[c] = "no"
    /\ Guarded(c) => hydration[kind[c]] # "off"
    /\ attempt' = [attempt EXCEPT ![c] = "asked"]
    /\ Advance(c, "no", "asked")
    /\ UNCHANGED <<inst, permits, prompt, tables, ending, process, stops, closes, wire, rows,
                   observed, leaving, hydration, listed, closedSeen, reloads>>

\* Mutant: the answer adds a row without asking the race guard.
AnswerUnguarded(c) ==
    /\ cmd[c] \in {"connected", "failed"}
    /\ attempt[c] = "asked"
    /\ attempt' = [attempt EXCEPT ![c] = "settled"]
    /\ observed' = observed \ {c}
    /\ rows' = IF cmd[c] = "connected" THEN [rows EXCEPT ![c] = 1] ELSE rows
    /\ UNCHANGED <<inst, cmd, permits, prompt, tables, ending, process, stops, closes, wire,
                   leaving, hydration, listed, closedSeen, reloads>>

\* A connected session gets its row, unless its closed event was faster; the hook
\* of SSH asks for nothing and appends.
Answer(c) ==
    /\ cmd[c] \in {"connected", "failed"}
    /\ attempt[c] = "asked"
    /\ attempt' = [attempt EXCEPT ![c] = "settled"]
    /\ observed' = observed \ {c}
    /\ rows' = IF cmd[c] # "connected" \/ (Guarded(c) /\ c \in observed) THEN rows
               ELSE [rows EXCEPT ![c] = IF Guarded(c) THEN 1 ELSE @ + 1]
    /\ UNCHANGED <<inst, cmd, permits, prompt, tables, ending, process, stops, closes, wire,
                   leaving, hydration, listed, closedSeen, reloads>>

HearClosed(c) ==
    /\ c \in events
    /\ events' = events \ {c}
    /\ rows' = [rows EXCEPT ![c] = 0]
    /\ closedSeen' = IF hydration[kind[c]] = "done" THEN closedSeen ELSE closedSeen \cup {c}
    /\ observed' = IF attempt[c] = "asked" THEN observed \cup {c} ELSE observed
    /\ UNCHANGED <<inst, cmd, permits, prompt, tables, ending, process, stops, closes,
                   emitted, attempt, leaving, hydration, listed, reloads>>

Disconnect(c) ==
    /\ rows[c] > 0 /\ c \in inst.used
    /\ c \notin leaving
    /\ leaving' = leaving \cup {c}
    /\ DiscMoves(<<c, "window">>, "no", "asked")
    /\ UNCHANGED <<inst, cmd, permits, prompt, tables, ending, process, stops, input,
                   wire, rows, attempt, observed, hydration, listed, closedSeen, reloads>>

DisconnectReturns(c) ==
    /\ c \in leaving
    /\ disc[<<c, "window">>] = "done"
    /\ leaving' = leaving \ {c}
    /\ rows' = [rows EXCEPT ![c] = 0]
    /\ UNCHANGED <<inst, cmd, permits, prompt, tables, ending, process, stops, closes, wire,
                   attempt, observed, hydration, listed, closedSeen, reloads>>

HydrationMoves(k, from, to) ==
    /\ hydration[k] = from
    /\ hydration' = [hydration EXCEPT ![k] = to]
    /\ Of(k, inst.called) # {}

Listen(k) ==
    /\ HydrationMoves(k, "off", "listening")
    /\ UNCHANGED <<inst, cmd, permits, prompt, tables, ending, process, stops, closes, wire,
                   rows, attempt, observed, leaving, listed, closedSeen, reloads>>

AnswerList(k) ==
    /\ HydrationMoves(k, "listening", "answered")
    /\ listed' = listed \cup Of(k, sessions)
    /\ UNCHANGED <<inst, cmd, permits, prompt, tables, ending, process, stops, closes, wire,
                   rows, attempt, observed, leaving, closedSeen, reloads>>

\* Mutant: the list brings back what was seen closing.
HydratesAll(k) ==
    /\ HydrationMoves(k, "answered", "done")
    /\ rows' = [c \in Calls |-> IF c \in Of(k, listed) THEN 1 ELSE rows[c]]
    /\ listed' = listed \ Of(k, listed)
    /\ closedSeen' = closedSeen \ Of(k, closedSeen)
    /\ UNCHANGED <<inst, cmd, permits, prompt, tables, ending, process, stops, closes, wire,
                   attempt, observed, leaving, reloads>>

\* reconcileSessionSnapshot: the list and the rows, one of each, without what was
\* seen closing.
Hydrate(k) ==
    /\ HydrationMoves(k, "answered", "done")
    /\ rows' = [c \in Calls |->
                   IF kind[c] # k THEN rows[c]
                   ELSE IF c \notin closedSeen /\ (c \in listed \/ rows[c] > 0) THEN 1 ELSE 0]
    /\ listed' = listed \ Of(k, listed)
    /\ closedSeen' = closedSeen \ Of(k, closedSeen)
    /\ UNCHANGED <<inst, cmd, permits, prompt, tables, ending, process, stops, closes, wire,
                   attempt, observed, leaving, reloads>>

\* A new page knows nothing of the old one's calls, and misses what was under way.
Reload ==
    /\ reloads < inst.reloads
    /\ reloads' = reloads + 1
    /\ rows' = [c \in Calls |-> 0]
    /\ attempt' = [c \in Calls |-> IF attempt[c] = "asked" THEN "gone" ELSE attempt[c]]
    /\ observed' = {} /\ leaving' = {} /\ events' = {}
    /\ hydration' = [k \in Protocols |-> "off"]
    /\ listed' = {} /\ closedSeen' = {}
    /\ UNCHANGED <<inst, cmd, permits, prompt, tables, ending, process, stops, closes,
                   emitted>>

----------------------------------------------------------------------------

\* What the code does by itself; a stop, a deadline or a killed process comes
\* to its end. The SSH handshake and the pump have no deadline of their own.
CommandStep(c) ==
    \/ Refuse(c) \/ Look(c) \/ TakeShared(c) \/ TakeVnc(c) \/ Reserve(c) \/ SpawnFirst(c)
    \/ StartFails(c) \/ EngineConnects(c) \/ CertificateUnknown(c) \/ DropStart(c)
    \/ ReapRefused(c) \/ OpenDialog(c) \/ SpawnApproved(c) \/ StopApproved(c) \/ Commit(c)
    \/ Remember(c, "connected") \/ Remember(c, "storing") \/ Store(c) \/ AnswerUnstored(c)

DyingExits(c) == engine[c] = "doomed" /\ EngineExits(c)

WorkerStep(c) ==
    \/ WorkerKills(c) \/ WorkerReaps(c) \/ Finish(c) \/ WorkerTells(c) \/ WorkerEnds(c)
    \/ DyingExits(c) \/ Watchdog(c) \/ SendStop(c)
    \/ InputFails(c) \/ InputStops(c) \/ InputTells(c)

CloseStep(d) == BeginClose(d) \/ WriteClose(d) \/ TellClose(d) \/ QueueClose(d)

WindowStep(c) == Answer(c) \/ HearClosed(c) \/ DisconnectReturns(c)

HydrationStep(k) == Listen(k) \/ AnswerList(k) \/ Hydrate(k)

Step ==
    \/ \E c \in Calls : CommandStep(c) \/ WorkerStep(c)
    \/ \E d \in Calls \X Closers : CloseStep(d)
    \/ exit # "no" /\ StopAll

\* What others do: the server, the engine, the user and his window.
Choice ==
    \/ \E c \in Calls :
        \/ Connect(c) \/ Disconnect(c) \/ BeginInput(c) \/ AnswerDialog(c)
        \/ EngineExits(c) \/ WorkerReads(c) \/ OpenShell(c) \/ PumpEnds(c)
        \/ WindowStep(c)
    \/ \E k \in Protocols : HydrationStep(k)
    \/ StopAll \/ Reload

\* An engine is a process of its own and may outlive the app's.
Next ==
    \/ exit # "gone" /\ (Step \/ Choice)
    \/ \E c \in Calls : EngineExits(c)

Spec == Init /\ [][Next]_vars

\* Nothing is done over and over: under weak fairness every step that the code
\* owes comes, as long as the app's process is there.
FairSpec == Spec /\ WF_vars(exit # "gone" /\ Step)

----------------------------------------------------------------------------

Unreaped == {c \in Calls : engine[c] \in {"alive", "doomed", "exited"}}

\* There are never more engine processes than the two caps allow, counting those
\* that are starting, closing or killed but not reaped: a permit follows its
\* process through failed starts, second tries, closes and stops.
EnginesWithinCaps ==
    /\ Cardinality(Unreaped) <= inst.shared
    /\ Cardinality(Of("vnc", Unreaped)) <= inst.vnc

\* Somebody has taken the record of c out and has not told yet.
AboutToTell(c) ==
    \/ \E w \in Closers : disc[<<c, w>>] \in {"writing", "telling"}
    \/ input[c] \in {"removed", "telling"}
    \/ worker[c] = "telling"

\* A disconnect of the window, the clean-up of a password that was not stored, an
\* input that fails and the worker race to close a session: one of them tells the
\* window, nobody tells twice or of a session that is still listed, and only the
\* exit of the app ends a session in silence.
ToldOnce ==
    \A c \in Calls :
        /\ emitted[c] <= 1
        /\ emitted[c] = 1 => c \notin sessions
        /\ worker[c] = "done" /\ ~AboutToTell(c) /\ ~Sealed(c) => emitted[c] = 1

\* stop_all "signals both handshakes and live workers": whatever state a connect or
\* a close is in when its registry is sealed, whoever has a running engine then has
\* been told to stop it or is about to be; no engine escapes the exit unnoticed.
StopReachesEngines ==
    \A c \in Calls : Sealed(c) /\ engine[c] = "alive" => c \in stop \cup signals

\* An engine whose session left its registry is killed if it does not exit, reaped,
\* and its permits are free again, unless the app ends first.
EnginesEnd ==
    <>[](exit # "gone" =>
            \A c \in Calls : HasEngine(c) /\ worker[c] # "none" /\ c \notin sessions =>
                worker[c] = "done" /\ c \notin slots \cup vncSlots)

\* When nothing about a session is under way, the window of RDP and VNC shows a row
\* for it exactly when its registry lists it: neither a closed event that overtakes
\* the answer of the connect nor a list older than the event leaves a dead row. A
\* reload during a connect can hide the session it opens, so it is left out here.
RowsSettle ==
    \A c \in Calls :
        Guarded(c) /\ ~Sealed(c) /\ ~AboutToTell(c) /\ c \notin events
          /\ hydration[kind[c]] = "done" =>
            /\ rows[c] > 0 => c \in sessions
            /\ attempt[c] = "settled" => rows[c] = IF c \in sessions THEN 1 ELSE 0
=============================================================================
