---------------------------- MODULE Automations ----------------------------
(***************************************************************************)
(* Scheduled chat automations, run by the window while it is attached to   *)
(* the background service and by the service while no window is.  Each     *)
(* side keeps its own marks (next_run_at, last_run_at) of every            *)
(* automation; the window imports the runs the service finished and then   *)
(* exchanges marks with it.  The exchange is a request and a reply, and    *)
(* several can be under way: the service runs each request on a thread of  *)
(* its own, so they are taken up in any order.  A request that is not      *)
(* answered in time is given up (REQUEST_TIMEOUT); the service may still   *)
(* act on it, and the answer goes nowhere.                                 *)
(*                                                                         *)
(* In the window a change of the list is seen by the code that reads       *)
(* automationsRef only after React has rendered it (Render), and it is     *)
(* stored only then.                                                       *)
(*                                                                         *)
(* A run's outcome, a record's events and the automation's text are left   *)
(* out; the list itself is fixed (no automation is edited or removed).     *)
(*                                                                         *)
(* Source: src-tauri/src/agent_daemon/automations.rs and server.rs,        *)
(* src/app/agentAutomations.ts and useAgentAutomations.ts.                 *)
(***************************************************************************)
EXTENDS Integers, FiniteSets

CONSTANTS
  Timed,        \* automations with a time or an interval of their own
  Chained,      \* automations that run after another one
  Picky,        \* chained automations with onlyOnSuccess
  Source,       \* the automation each chained one follows
  Cap,          \* MAX_CONCURRENT_RUNS, maxConcurrentRuns
  Period,       \* from a start to a timed automation's next planned time
  MaxTime,      \* bound: the clock
  MaxSyncs,     \* bound: mark exchanges under way
  MaxAsks,      \* bound: requests for finished runs under way
  MaxWindows,   \* bound: windows opened
  MaxServices   \* bound: service processes started

Automations == Timed \cup Chained

ASSUME AutomationsAssumption ==
  /\ Timed \cap Chained = {} /\ Picky \subseteq Chained
  /\ IsFiniteSet(Automations)
  /\ Source \in [Chained -> Automations] /\ \A b \in Chained : Source[b] # b
  /\ {Cap, Period, MaxTime, MaxSyncs, MaxAsks, MaxWindows, MaxServices}
       \subseteq Nat
  /\ Period > 0 /\ MaxServices > 0

Never == -1                 \* next_run_at = None
Times == 0..MaxTime
Marks == [Automations -> Times \cup {Never} \cup (MaxTime + 1)..(MaxTime + Period)]
Lasts == [Automations -> Times \cup {Never}]

VARIABLES
  now,        \* the clock
  win,        \* how far the window is: closed, opened, import, sync,
              \* syncing, ready
  windows,    \* windows opened so far
  up,         \* is a service process running
  services,   \* service processes started so far
  attached,   \* has the window a connection to it
  alone,      \* the window's boot exchange was not answered, or it has
              \* lost the service that answered it
  wnext,      \* the window's nextRunAt
  wlast,      \* the window's lastRunAt
  shown,      \* both as last rendered and stored: automationsRef
  wrun,       \* automations the window is running
  inFlight,   \* those of them whose start is not rendered yet
  byHand,     \* those of them started with "run now"
  bg,         \* backgroundRunning: what the window thinks the service runs
  dnext,      \* the service's next_run_at, on disk too
  dlast,      \* the service's last_run_at, on disk too
  drun,       \* SchedulerState.running: <<automation, start>>
  requests,   \* AutomationsReplace requests not yet taken up, with the
              \* window that waits for the answer, or 0
  replies,    \* answers to them not yet merged
  ask,        \* AutomationsTakeRuns: no, sent or answered
  late,       \* such requests not yet taken up that nobody waits for
  disk,       \* files of finished runs: <<automation, start>>
  handed,     \* the records the answer to take_runs carries
  filed       \* records the window has folded into its history

winVars == <<win, windows, attached, alone>>
wmarkVars  == <<wnext, wlast, shown>>
wrunVars   == <<wrun, inFlight, byHand, bg>>
dmarkVars  == <<dnext, dlast>>
serviceVars == <<up, services>>
syncVars   == <<requests, replies>>
recordVars == <<ask, late, disk, handed, filed>>
scheduleVars == <<now, winVars, wmarkVars, wrunVars, dmarkVars, drun,
          serviceVars, syncVars, recordVars>>

Open == win # "closed"

Current == [next |-> wnext, last |-> wlast]
Shown   == [next : Marks, last : Lasts]

Requests == [next : Marks, last : Lasts, boot : BOOLEAN, from : 0..MaxWindows]
Replies  == [next : Marks, last : Lasts, running : SUBSET Automations,
             boot : BOOLEAN]
Records  == Automations \X Times

ScheduleTypeOK ==
  /\ now \in Times
  /\ win \in {"closed", "opened", "import", "sync", "syncing", "ready"}
  /\ windows \in 0..MaxWindows /\ services \in 0..MaxServices
  /\ {up, attached, alone} \subseteq BOOLEAN
  /\ attached => up /\ Open
  /\ wnext \in Marks /\ dnext \in Marks
  /\ wlast \in Lasts /\ dlast \in Lasts /\ shown \in Shown
  /\ {wrun, bg} \subseteq SUBSET Automations /\ drun \subseteq Records
  /\ byHand \subseteq wrun /\ inFlight \subseteq wrun
  /\ \A m \in requests : m \in Requests
  /\ \A r \in replies : r \in Replies
  /\ ask \in {"no", "sent", "answered"} /\ late \in Nat
  /\ {disk, handed, filed} \subseteq SUBSET Records

(* Both sides know the list, with its first planned times, and no window   *)
(* is open.                                                                *)
ScheduleInit ==
  /\ now = 0
  /\ win = "closed" /\ windows = 0
  /\ up \in BOOLEAN /\ services = IF up THEN 1 ELSE 0
  /\ attached = FALSE /\ alone = FALSE
  /\ \E first \in {now, now + Period} :
       wnext = [a \in Automations |-> IF a \in Timed THEN first ELSE Never]
  /\ dnext = wnext
  /\ wlast = [a \in Automations |-> Never]
  /\ dlast = wlast /\ shown = Current
  /\ wrun = {} /\ inFlight = {} /\ byHand = {} /\ bg = {} /\ drun = {}
  /\ requests = {} /\ replies = {}
  /\ ask = "no" /\ late = 0 /\ disk = {} /\ handed = {} /\ filed = {}

----------------------------------------------------------------------------
(* Due runs, the same rules on both sides *)

NextRunAfter(a) == IF a \in Timed THEN now + Period ELSE Never

NamesOf(runs) == {r[1] : r \in runs}

(* What a tick starts: due, not running, oldest first, as many as fit.     *)
Starts(next, running, room) ==
  LET due == {a \in Automations \ running : next[a] # Never /\ next[a] <= now}
      n   == IF Cardinality(due) < room THEN Cardinality(due) ELSE room
  IN  {S \in SUBSET due : /\ Cardinality(S) = n
                           /\ \A a \in S, b \in due \ S : next[a] <= next[b]}

Room(k) == IF k < Cap THEN Cap - k ELSE 0

StartedNext(next, S) ==
  [a \in Automations |-> IF a \in S THEN NextRunAfter(a) ELSE next[a]]

StartedLast(last, S) == [a \in Automations |-> IF a \in S THEN now ELSE last[a]]

(* No two starts share a time stamp.                                       *)
Clocked == now < MaxTime /\ now' = now + 1

(* triggerDependents: an automation chained after a becomes due.           *)
Triggered(next, a, ok) ==
  [b \in Automations |->
     IF /\ b \in Chained /\ Source[b] = a
        /\ b \in Picky => ok
        /\ next[b] = Never
     THEN now ELSE next[b]]

Pass ==
  /\ Clocked
  /\ UNCHANGED <<winVars, wmarkVars, wrunVars, dmarkVars,
                 drun, serviceVars, syncVars, recordVars>>
----------------------------------------------------------------------------
(* The window's clock and its runs *)

(* It need not find a service process; syncBackground may start one.       *)
OpenWindow ==
  /\ win = "closed" /\ windows < MaxWindows
  /\ win' = "opened" /\ windows' = windows + 1
  /\ alone' = FALSE
  /\ UNCHANGED <<now, attached, wmarkVars, wrunVars, dmarkVars, drun,
                 serviceVars, syncVars, recordVars>>

(* Its runs end with it; loadStoredAutomations files them as stopped.      *)
(* What was not rendered was not stored.  A request already written may    *)
(* still be taken up, at any time or never; its answer goes nowhere.       *)
CloseWindow ==
  /\ Open
  /\ win' = "closed"
  /\ attached' = FALSE
  /\ wrun' = {} /\ inFlight' = {} /\ byHand' = {} /\ bg' = {}
  /\ replies' = {}
  /\ ask' = "no" /\ handed' = {}
  /\ late' = IF ask = "sent" THEN late + 1 ELSE late
  /\ wnext' = shown.next /\ wlast' = shown.last
  /\ UNCHANGED <<now, windows, alone, shown, dmarkVars, drun,
                 serviceVars, requests, disk, filed>>

(* React renders the changes made so far.                                  *)
Render ==
  /\ Open /\ shown # Current
  /\ shown' = Current /\ inFlight' = {}
  /\ UNCHANGED <<now, winVars, wnext, wlast, wrun, byHand, bg,
                 dmarkVars, drun, serviceVars, syncVars, recordVars>>

StartBlindly ==                                                   \* mutant
  /\ win = "ready"
  /\ \E S \in Starts(shown.next, wrun, Room(Cardinality(wrun))) :
       /\ S # {}
       /\ wrun' = wrun \cup S /\ inFlight' = inFlight \cup S
       /\ wlast' = StartedLast(wlast, S)
       /\ wnext' = StartedNext(wnext, S)
  /\ Clocked
  /\ UNCHANGED <<winVars, shown, byHand, bg, dmarkVars, drun,
                 serviceVars, syncVars, recordVars>>

(* tick, on the list last rendered: what the service runs counts against   *)
(* the cap and is not started.                                             *)
Tick ==
  /\ win = "ready"
  /\ \E S \in Starts(shown.next, wrun,
                     Room(Cardinality(wrun) + Cardinality(bg))) :
       /\ S \ bg # {}
       /\ wrun' = wrun \cup (S \ bg) /\ inFlight' = inFlight \cup (S \ bg)
       /\ wlast' = StartedLast(wlast, S \ bg)
       /\ wnext' = StartedNext(wnext, S \ bg)
  /\ Clocked
  /\ UNCHANGED <<winVars, shown, byHand, bg, dmarkVars, drun,
                 serviceVars, syncVars, recordVars>>

(* runNow looks at the window's own runs only, and leaves the plan alone.  *)
(* (A click between another start and its render is left out.)             *)
RunNow(a) ==
  /\ Open /\ a \notin wrun
  /\ wrun' = wrun \cup {a} /\ byHand' = byHand \cup {a}
  /\ inFlight' = inFlight \cup {a}
  /\ wlast' = StartedLast(wlast, {a})
  /\ Clocked
  /\ UNCHANGED <<winVars, wnext, shown, bg, dmarkVars,
                 drun, serviceVars, syncVars, recordVars>>

(* The run's turn ended: finishAutomationRun, then triggerDependents.  The *)
(* effect that sees it goes over the runs that are rendered.               *)
WindowRunEnds(a, ok) ==
  /\ a \in wrun \ inFlight
  /\ wrun' = wrun \ {a} /\ byHand' = byHand \ {a}
  /\ wnext' = Triggered(wnext, a, ok)
  /\ UNCHANGED <<now, winVars, wlast, shown, inFlight, bg, dmarkVars,
                 drun, serviceVars, syncVars, recordVars>>

(* Its thread was deleted: "stopped", and nothing follows.                 *)
WindowRunStops(a) ==
  /\ a \in wrun \ inFlight
  /\ wrun' = wrun \ {a} /\ byHand' = byHand \ {a}
  /\ UNCHANGED <<now, winVars, wmarkVars, inFlight, bg, dmarkVars,
                 drun, serviceVars, syncVars, recordVars>>

----------------------------------------------------------------------------
(* importBackgroundRuns *)

AskRuns ==
  /\ up /\ win \in {"import", "ready"} /\ ask = "no" /\ late < MaxAsks
  /\ ask' = "sent"
  /\ attached' = TRUE
  /\ UNCHANGED <<now, win, windows, alone, wmarkVars, wrunVars,
                 dmarkVars, drun, serviceVars, syncVars, late, disk, handed, filed>>

KeepFiles ==                                                      \* mutant
  /\ up /\ ask = "sent"
  /\ ask' = "answered" /\ handed' = disk
  /\ UNCHANGED <<now, winVars, wmarkVars, wrunVars, dmarkVars, drun,
                 serviceVars, syncVars, late, disk, filed>>

(* take_runs reads the finished records and removes their files.           *)
TakeRuns ==
  /\ up /\ ask = "sent"
  /\ ask' = "answered" /\ handed' = disk /\ disk' = {}
  /\ UNCHANGED <<now, winVars, wmarkVars, wrunVars, dmarkVars, drun,
                 serviceVars, syncVars, late, filed>>

(* A request nobody waits for any more: what it takes is lost.             *)
TakeRunsLate ==
  /\ up /\ late > 0
  /\ late' = late - 1 /\ disk' = {}
  /\ UNCHANGED <<now, winVars, wmarkVars, wrunVars, dmarkVars, drun,
                 serviceVars, syncVars, ask, handed, filed>>

(* recordBackgroundRun, for each record.                                   *)
ImportRuns ==
  /\ ask = "answered"
  /\ ask' = "no" /\ handed' = {} /\ filed' = filed \cup handed
  /\ wlast' = [a \in Automations |->
       LET S == {wlast[a]} \cup {r[2] : r \in {h \in handed : h[1] = a}}
       IN  CHOOSE t \in S : \A u \in S : u <= t]
  /\ win' = IF win = "import" THEN "sync" ELSE win
  /\ UNCHANGED <<now, windows, attached, alone, wnext, shown, wrunVars,
                 dmarkVars, drun, serviceVars, syncVars, late, disk>>

(* No connection, or it broke before the answer.                           *)
ImportNothing ==
  /\ win = "import" /\ ask = "no"
  /\ win' = "sync"
  /\ UNCHANGED <<now, windows, attached, alone, wmarkVars, wrunVars,
                 dmarkVars, drun, serviceVars, syncVars, recordVars>>

(* No answer in time: nothing is taken in, now or later.                   *)
ImportTimesOut ==
  /\ ask # "no"
  /\ ask' = "no" /\ handed' = {}
  /\ late' = IF ask = "sent" THEN late + 1 ELSE late
  /\ win' = IF win = "import" THEN "sync" ELSE win
  /\ UNCHANGED <<now, windows, attached, alone, wmarkVars, wrunVars,
                 dmarkVars, drun, serviceVars, syncVars, disk, filed>>

----------------------------------------------------------------------------
(* syncBackground: when the list is mounted, on every change, on the       *)
(* timer, and (boot) before the first tick, which waits for its answer.    *)

Exchanges == Cardinality(requests) + Cardinality(replies)

Sync(boot) ==
  /\ up /\ Exchanges < MaxSyncs
  /\ attached' = TRUE
  /\ requests' = requests \cup {[next |-> shown.next, last |-> shown.last,
                                 boot |-> boot, from |-> windows]}
  /\ UNCHANGED <<now, windows, alone, wmarkVars, wrunVars, dmarkVars,
                 drun, serviceVars, replies, recordVars>>

MountSync == win = "opened" /\ win' = "import" /\ Sync(FALSE)
BootSync  == win = "sync" /\ win' = "syncing" /\ Sync(TRUE)
SendSync  == Open /\ win # "opened" /\ UNCHANGED win /\ Sync(FALSE)

(* MountSync's failure changes nothing.                                    *)
MountAlone ==
  /\ win = "opened"
  /\ win' = "import"
  /\ UNCHANGED <<now, windows, attached, alone, wmarkVars, wrunVars,
                 dmarkVars, drun, serviceVars, syncVars, recordVars>>

(* "Without the service the window keeps running automations alone": the   *)
(* catch takes every failure for that.  In this one the service could not  *)
(* be started, or not be connected to.                                     *)
SyncFails ==
  /\ win = "sync"
  /\ win' = "ready" /\ alone' = TRUE
  /\ UNCHANGED <<now, windows, attached, wmarkVars, wrunVars, dmarkVars,
                 drun, serviceVars, syncVars, recordVars>>

(* The window that asked still waits for the answer.                       *)
Asker(m) == attached /\ m.from = windows

(* An exchange is given up; the boot's ends the window's wait too.         *)
GivesUp(boot) ==
  /\ win' = IF boot THEN "ready" ELSE win
  /\ alone' = (alone \/ boot)
  /\ UNCHANGED <<now, windows, attached, wmarkVars, wrunVars, dmarkVars,
                 drun, serviceVars, recordVars>>

SyncTimesOut(m) ==
  /\ m \in requests /\ Asker(m)
  /\ requests' = (requests \ {m}) \cup {[m EXCEPT !.from = 0]}
  /\ UNCHANGED replies
  /\ GivesUp(m.boot)

AnswerTooLate(r) ==
  /\ r \in replies
  /\ replies' = replies \ {r}
  /\ UNCHANGED requests
  /\ GivesUp(r.boot)

ReplaceVerbatim(m) ==                                             \* mutant
  /\ up /\ m \in requests
  /\ dnext' = m.next /\ dlast' = m.last
  /\ requests' = requests \ {m}
  /\ replies' = IF Asker(m)
                THEN replies \cup {[next |-> m.next, last |-> m.last,
                                    running |-> NamesOf(drun), boot |-> m.boot]}
                ELSE replies
  /\ UNCHANGED <<now, winVars, wmarkVars, wrunVars, drun,
                 serviceVars, recordVars>>

(* replace: newer marks of the service stay, and so does a chained due     *)
(* mark the window does not have.                                          *)
Replace(m) ==
  LET newer(a) == dlast[a] > m.last[a]
      due(a)   == a \in Chained /\ m.next[a] = Never /\ dnext[a] # Never
      next     == [a \in Automations |->
                     IF newer(a) \/ due(a) THEN dnext[a] ELSE m.next[a]]
      last     == [a \in Automations |->
                     IF newer(a) THEN dlast[a] ELSE m.last[a]]
  IN  /\ up /\ m \in requests
      /\ dnext' = next /\ dlast' = last
      /\ requests' = requests \ {m}
      /\ replies' = IF Asker(m)
                    THEN replies \cup {[next |-> next, last |-> last,
                                        running |-> NamesOf(drun), boot |-> m.boot]}
                    ELSE replies
      /\ UNCHANGED <<now, winVars, wmarkVars, wrunVars, drun,
                     serviceVars, recordVars>>

(* mergeBackgroundStatus: marks of the service that are newer win, and so  *)
(* does a chained due mark the window does not have.                       *)
Merge(r) ==
  LET newer(a) == r.last[a] > wlast[a]
      due(a)   == a \in Chained /\ wnext[a] = Never /\ r.next[a] # Never
  IN  /\ r \in replies
      /\ UNCHANGED shown
      /\ replies' = replies \ {r}
      /\ bg' = r.running
      /\ wlast' = [a \in Automations |-> IF newer(a) THEN r.last[a] ELSE wlast[a]]
      /\ wnext' = [a \in Automations |->
                     IF newer(a) \/ due(a) THEN r.next[a] ELSE wnext[a]]
      /\ win' = IF r.boot THEN "ready" ELSE win
      /\ UNCHANGED <<now, windows, attached, alone, wrun, inFlight,
                     byHand, dmarkVars, drun, serviceVars, requests, recordVars>>

----------------------------------------------------------------------------
(* The service *)

(* due: nothing while a client is subscribed.  The first tick of a process *)
(* comes at once, before any client can be.                                *)
ServiceTick ==
  /\ up /\ ~attached
  /\ \E S \in Starts(dnext, NamesOf(drun), Room(Cardinality(drun))) :
       /\ S # {}
       /\ drun' = drun \cup (S \X {now})
       /\ dlast' = StartedLast(dlast, S)
       /\ dnext' = StartedNext(dnext, S)
  /\ Clocked
  /\ UNCHANGED <<winVars, wmarkVars, wrunVars, serviceVars, syncVars,
                 recordVars>>

(* The tail of execute: save_record, then finish.                          *)
ServiceRunEnds(run, ok) ==
  /\ run \in drun
  /\ disk' = disk \cup {run}
  /\ drun' = drun \ {run}
  /\ dnext' = Triggered(dnext, run[1], ok)
  /\ UNCHANGED <<now, winVars, wmarkVars, wrunVars, dlast,
                 serviceVars, syncVars, ask, late, handed, filed>>

(* ensure, from an open window's sync: state.json is read back.            *)
ServiceStarts ==
  /\ Open /\ ~up /\ services < MaxServices
  /\ up' = TRUE /\ services' = services + 1
  /\ UNCHANGED <<now, winVars, wmarkVars, wrunVars, dmarkVars, drun,
                 syncVars, recordVars>>

(* Killed, or told to stop: the runs and what it was asked are gone.       *)
ServiceDies ==
  /\ up
  /\ up' = FALSE /\ attached' = FALSE
  /\ alone' = (alone \/ win \in {"syncing", "ready"})
  /\ drun' = {} /\ requests' = {}
  /\ replies' = {}
  /\ ask' = (IF ask = "sent" THEN "no" ELSE ask) /\ late' = 0
  /\ win' = IF win = "syncing" THEN "ready" ELSE win
  /\ UNCHANGED <<now, windows, wmarkVars, wrunVars, dmarkVars, services,
                 disk, handed, filed>>

(* Their connection breaks while both are there: a frame over              *)
(* MAX_FRAME_BYTES, a failed write (lost).  What was written may still be  *)
(* taken up.                                                               *)
ConnectionBreaks ==
  /\ attached
  /\ attached' = FALSE
  /\ alone' = (alone \/ win \in {"syncing", "ready"})
  /\ requests' = {[m EXCEPT !.from = 0] : m \in requests}
  /\ replies' = {}
  /\ ask' = (IF ask = "sent" THEN "no" ELSE ask)
  /\ late' = IF ask = "sent" THEN late + 1 ELSE late
  /\ win' = IF win = "syncing" THEN "ready" ELSE win
  /\ UNCHANGED <<now, windows, wmarkVars, wrunVars, dmarkVars, drun,
                 serviceVars, disk, handed, filed>>

----------------------------------------------------------------------------
ScheduleNext ==
  \/ Pass
  \/ OpenWindow \/ CloseWindow \/ Render \/ Tick
  \/ \E a \in Automations : RunNow(a) \/ WindowRunStops(a)
  \/ \E ok \in BOOLEAN : \/ \E a \in Automations : WindowRunEnds(a, ok)
                         \/ \E run \in drun : ServiceRunEnds(run, ok)
  \/ AskRuns \/ TakeRuns \/ TakeRunsLate
  \/ ImportRuns \/ ImportNothing \/ ImportTimesOut
  \/ MountSync \/ MountAlone \/ SendSync \/ BootSync
  \/ SyncFails
  \/ \E m \in requests : Replace(m) \/ SyncTimesOut(m)
  \/ \E r \in replies : Merge(r) \/ AnswerTooLate(r)
  \/ ServiceTick \/ ServiceStarts \/ ServiceDies \/ ConnectionBreaks

ScheduleSpec == ScheduleInit /\ [][ScheduleNext]_scheduleVars

----------------------------------------------------------------------------
(* "Progress made here while the window was away must not be undone by a   *)
(* window that has not merged it yet: newer marks stay" (replace), however *)
(* late and in whatever order the window's lists arrive; and an open       *)
(* window's own last run is never set back by an older answer.             *)
ProgressStays ==
  [][\A a \in Automations : /\ dlast'[a] >= dlast[a]
                            /\ Open' => wlast'[a] >= wlast[a]]_scheduleVars

(* An automation is not run twice at once (README.md, "not two at the same *)
(* time"): on schedule, and while the window is connected to the service   *)
(* that answered its boot exchange, whatever other requests went           *)
(* unanswered.  (A window whose boot exchange failed ticks without knowing *)
(* what a live service runs.)  A run started by hand does not ask the      *)
(* service (runNow).                                                       *)
ScheduledNeverTwice == ~alone => NamesOf(drun) \cap wrun \subseteq byHand

(* MAX_CONCURRENT_RUNS holds over both processes together, under the same  *)
(* conditions.                                                             *)
CapHeld == ~alone => Cardinality(drun) + Cardinality(wrun \ byHand) <= Cap

(* What a window and the service run for one schedule, they run together   *)
(* as one process would.                                                   *)
ScheduleHolds == ScheduledNeverTwice /\ CapHeld

(* "Each is handed over exactly once" (agent_automations_take_runs): a     *)
(* finished run's record is in one place, so it does not come twice.  (It  *)
(* may not come at all: see TakeRunsLate, ImportTimesOut and CloseWindow.) *)
RecordInOnePlace ==
  /\ disk \cap handed = {} /\ disk \cap filed = {} /\ handed \cap filed = {}

=============================================================================
