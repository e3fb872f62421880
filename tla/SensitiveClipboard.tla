-------------------------- MODULE SensitiveClipboard --------------------------
(***************************************************************************)
(* The clipboard of the desktop (src-tauri/src/clipboard.rs) and the exit  *)
(* of the application that has to clear it (src-tauri/src/lib.rs): copies  *)
(* of secrets with a timer that clears them again, a clear on demand, the  *)
(* terminal's text, and the clean-up before a close or a restart.          *)
(*                                                                         *)
(* Every operation runs on a blocking thread of its own and takes its turn *)
(* by ticket, because a call of the platform's clipboard may hang.  The    *)
(* clipboard itself and what other programs put into it are external: a    *)
(* failed call changes nothing.  A digest is the text it was made of.      *)
(***************************************************************************)
EXTENDS Naturals

CONSTANTS
  Copies,     \* sensitive_clipboard_copy commands
  Clears,     \* sensitive_clipboard_clear commands
  Writes,     \* terminal_clipboard_write_text commands
  Reads,      \* terminal_clipboard_read_text, and images
  Texts,      \* what this application copies
  Foreign,    \* what other programs copy
  Exit,       \* the worker that clears before the application exits
  None

(* A copy that is to be cleared again arms a timer. *)
Timer(c) == <<c, "timer">>
Timers == {Timer(c) : c \in Copies}
Commands == Copies \cup Clears \cup Writes \cup Reads
Clearing == Clears \cup Timers \cup {Exit}
Ops == Commands \cup Timers \cup {Exit}

Records == [gen : Nat, text : Texts, auto : BOOLEAN]    \* SensitiveRecord
Done == {"cleared", "nothing", "preserved"}       \* the exit worker came to an end

ASSUME ClipboardAssumption ==
  /\ Copies \cap Clears = {} /\ Copies \cap Writes = {} /\ Copies \cap Reads = {}
  /\ Clears \cap Writes = {} /\ Clears \cap Reads = {} /\ Writes \cap Reads = {}
  /\ Commands \cap Timers = {} /\ Exit \notin Commands \cup Timers
  /\ None \notin Ops \cup Texts \cup Foreign \cup Records \cup Done

VARIABLES
  board,        \* the platform's clipboard: a text and who put it there
  at,           \* where each operation is; "unarmed" if nobody calls it
  arg,          \* the text of a copy or write, and if it is cleared again
  active,       \* ActiveOperations: who was admitted and has not left
  ticket, nextTicket, serving,        \* ClipboardIoGate
  tracker, generation,                \* ClipboardTracker
  tracked,      \* the generation of each copy, which its timer knows
  record,       \* the record each clearing operation looked up
  seen,         \* the text it read
  sealed, ready,                      \* exiting, exit_ready
  stage,        \* of the task that cleans up before the application leaves
  restarting,   \* it is a restart
  outcome,      \* what the exit worker did
  gone          \* the process has ended

gateVars == <<ticket, nextTicket, serving>>
trackVars == <<tracker, generation, tracked>>
exitVars == <<sealed, ready, stage, restarting, gone>>
vars == <<board, at, arg, active, gateVars, trackVars, record, seen, exitVars, outcome>>

Labels == {"unarmed", "idle", "enter", "wait", "write", "track", "pick", "read", "check",
           "erase", "forget", "close", "leave", "over", "hung"}

TypeOK ==
  /\ board \in [text : Texts \cup Foreign \cup {None}, by : Ops \cup {None}]
  /\ at \in [Ops -> Labels]
  /\ arg \in [Ops -> [text : Texts \cup {None}, auto : BOOLEAN]]
  /\ active \in SUBSET (Ops \ {Exit})
  /\ ticket \in [Ops -> Nat] /\ nextTicket \in Nat /\ serving \in Nat
  /\ tracker \in Records \cup {None} /\ generation \in Nat
  /\ tracked \in [Copies -> Nat]
  /\ record \in [Clearing -> Records \cup {None}]
  /\ seen \in [Clearing -> Texts \cup Foreign \cup {None}]
  /\ sealed \in BOOLEAN /\ ready \in BOOLEAN /\ gone \in BOOLEAN /\ restarting \in BOOLEAN
  /\ stage \in {"none", "await", "mark", "leave", "left"}
  /\ outcome \in Done \cup {None, "unavailable"}

Init ==
  /\ board = [text |-> None, by |-> None]
  /\ \E called \in SUBSET Commands :
       at = [o \in Ops |-> IF o \in called THEN "idle" ELSE "unarmed"]
  /\ arg = [o \in Ops |-> [text |-> None, auto |-> FALSE]]
  /\ active = {}
  /\ ticket = [o \in Ops |-> 0] /\ nextTicket = 0 /\ serving = 0
  /\ tracker = None /\ generation = 0 /\ tracked = [c \in Copies |-> 0]
  /\ record = [o \in Clearing |-> None] /\ seen = [o \in Clearing |-> None]
  /\ sealed = FALSE /\ ready = FALSE /\ stage = "none" /\ restarting = FALSE /\ gone = FALSE
  /\ outcome = None

Goto(o, from, to) == ~gone /\ at[o] = from /\ at' = [at EXCEPT ![o] = to]

(* What the exit worker reports; nobody asks the others here. *)
Reports(o, what) == outcome' = IF o = Exit THEN what ELSE outcome

----------------------------------------------------------------------------
(* Admission and the turn of an operation.                                 *)

(* begin_operation, under the lock of the operations. *)
Begin(o) ==
  /\ ~sealed /\ Goto(o, "idle", "enter")
  /\ active' = active \cup {o}
  /\ UNCHANGED <<board, arg, gateVars, trackVars, record, seen, exitVars, outcome>>

BeginRefused(o) ==
  /\ sealed /\ Goto(o, "idle", "over")
  /\ UNCHANGED <<board, arg, active, gateVars, trackVars, record, seen, exitVars, outcome>>

(* ClipboardIoGate::enter. *)
TakeTicket(o) ==
  /\ Goto(o, "enter", "wait")
  /\ ticket' = [ticket EXCEPT ![o] = nextTicket] /\ nextTicket' = nextTicket + 1
  /\ UNCHANGED <<board, arg, active, serving, trackVars, record, seen, exitVars, outcome>>

FirstStep(o) ==
  IF o \in Copies \cup Writes THEN "write" ELSE IF o \in Reads THEN "read" ELSE "pick"

(* PlatformClipboardTextIo::new: the clipboard is taken, or cannot be. *)
TakeTurn(o) ==
  /\ serving = ticket[o]
  /\ \/ Goto(o, "wait", FirstStep(o)) /\ UNCHANGED outcome
     \/ Goto(o, "wait", "close") /\ Reports(o, "unavailable")
  /\ UNCHANGED <<board, arg, active, gateVars, trackVars, record, seen, exitVars>>

(* ClipboardIoTurn::drop, then ClipboardOperation::drop; what the call kept
   on its stack is gone. *)
LeaveOpen(o) ==       \* mutant: the next ticket is not called
  /\ Goto(o, "close", "leave")
  /\ UNCHANGED <<board, arg, active, gateVars, trackVars, record, seen, exitVars, outcome>>

CloseTurn(o) ==
  /\ Goto(o, "close", "leave")
  /\ serving' = serving + 1
  /\ UNCHANGED <<board, arg, active, ticket, nextTicket, trackVars, record, seen, exitVars,
                 outcome>>

Leave(o) ==
  /\ Goto(o, "leave", "over")
  /\ active' = active \ {o}
  /\ ticket' = [ticket EXCEPT ![o] = 0]
  /\ record' = [p \in Clearing |-> IF p = o THEN None ELSE record[p]]
  /\ seen' = [p \in Clearing |-> IF p = o THEN None ELSE seen[p]]
  /\ UNCHANGED <<board, arg, nextTicket, serving, trackVars, exitVars, outcome>>

----------------------------------------------------------------------------
(* copy_with_io and write_terminal_text.  What the caller passed is chosen *)
(* here, where it is used first.                                           *)
WriteText(o) ==
  /\ Goto(o, "write", IF o \in Copies THEN "track" ELSE "close")
  /\ \E t \in Texts, auto \in IF o \in Copies THEN BOOLEAN ELSE {FALSE} :
       /\ arg' = [arg EXCEPT ![o] = [text |-> t, auto |-> auto]]
       /\ board' = [text |-> t, by |-> o]
  /\ UNCHANGED <<active, gateVars, trackVars, record, seen, exitVars, outcome>>

(* ClipboardTracker::track, and the timer. *)
Track(c) ==
  /\ ~gone /\ at[c] = "track"
  /\ at' = [o \in Ops |-> IF o = c THEN "close"
                          ELSE IF o = Timer(c) /\ arg[c].auto THEN "idle" ELSE at[o]]
  /\ generation' = generation + 1
  /\ tracked' = [tracked EXCEPT ![c] = generation + 1]
  /\ tracker' = [gen |-> generation + 1, text |-> arg[c].text, auto |-> arg[c].auto]
  /\ UNCHANGED <<board, arg, active, gateVars, record, seen, exitVars, outcome>>

----------------------------------------------------------------------------
(* clear_matching_with_io: the record is looked up, the clipboard is read, *)
(* the record is looked up again, and the text erased if it is the         *)
(* record's.  The tracker is locked for each look only.                    *)
AutoOnly(o) == o \in Timers \cup {Exit}

AnyGeneration(o) ==     \* mutant: the timer takes the latest record for its own
  IF tracker # None /\ (AutoOnly(o) => tracker.auto) THEN tracker ELSE None

Lookup(o) ==
  IF /\ tracker # None
     /\ \A c \in Copies : o = Timer(c) => tracker.gen = tracked[c]
     /\ AutoOnly(o) => tracker.auto
  THEN tracker ELSE None

Pick(o) ==
  /\ Goto(o, "pick", IF Lookup(o) = None THEN "close" ELSE "read")
  /\ record' = [record EXCEPT ![o] = Lookup(o)]
  /\ IF Lookup(o) = None THEN Reports(o, "nothing") ELSE UNCHANGED outcome
  /\ UNCHANGED <<board, arg, active, gateVars, trackVars, seen, exitVars>>

ReadText(o) ==
  /\ Goto(o, "read", IF o \in Clearing THEN "check" ELSE "close")
  /\ seen' = IF o \in Clearing THEN [seen EXCEPT ![o] = board.text] ELSE seen
  /\ UNCHANGED <<board, arg, active, gateVars, trackVars, record, exitVars, outcome>>

Holds(o) == tracker # None /\ tracker.gen = record[o].gen /\ (AutoOnly(o) => tracker.auto)
Forget(o) == tracker' = IF tracker # None /\ tracker.gen = record[o].gen THEN None ELSE tracker

(* The second look.  The turn keeps every other operation of the application
   away, so the record is still the same; the code does not rely on it. *)
Check(o) ==
  /\ ~gone /\ at[o] = "check"
  /\ IF ~Holds(o)
     THEN Goto(o, "check", "close") /\ Reports(o, "nothing") /\ UNCHANGED tracker
     ELSE IF seen[o] = tracker.text
     THEN Goto(o, "check", "erase") /\ UNCHANGED <<tracker, outcome>>
     ELSE Goto(o, "check", "close") /\ Forget(o) /\ Reports(o, "preserved")
  /\ UNCHANGED <<board, arg, active, gateVars, generation, tracked, record, seen, exitVars>>

Erase(o) ==
  /\ Goto(o, "erase", "forget")
  /\ board' = [text |-> None, by |-> o]
  /\ UNCHANGED <<arg, active, gateVars, trackVars, record, seen, exitVars, outcome>>

Cleared(o) ==
  /\ Goto(o, "forget", "close")
  /\ Forget(o) /\ Reports(o, "cleared")
  /\ UNCHANGED <<board, arg, active, gateVars, generation, tracked, record, seen, exitVars>>

----------------------------------------------------------------------------
(* The platform, external: a call fails, or never returns; another program *)
(* copies something.                                                       *)
CallFails(o) ==
  /\ at[o] \in {"write", "read", "erase"} /\ Goto(o, at[o], "close") /\ Reports(o, "unavailable")
  /\ UNCHANGED <<board, arg, active, gateVars, trackVars, record, seen, exitVars>>

CallHangs(o) ==
  /\ at[o] \in {"write", "read", "erase"} /\ Goto(o, at[o], "hung")
  /\ UNCHANGED <<board, arg, active, gateVars, trackVars, record, seen, exitVars, outcome>>

OtherCopies ==
  /\ ~gone /\ \E t \in Foreign : board' = [text |-> t, by |-> None]
  /\ UNCHANGED <<at, arg, active, gateVars, trackVars, record, seen, exitVars, outcome>>

----------------------------------------------------------------------------
(* The exit.  wait_until_idle, on the worker's thread: it goes on when     *)
(* nobody is active, and gives up at the deadline or if it was not started. *)
Hurry ==              \* mutant: the worker does not wait for the admitted
  /\ Goto(Exit, "idle", "enter")
  /\ UNCHANGED <<board, arg, active, gateVars, trackVars, record, seen, exitVars, outcome>>

WaitIdle ==
  /\ active = {} /\ Goto(Exit, "idle", "enter")
  /\ UNCHANGED <<board, arg, active, gateVars, trackVars, record, seen, exitVars, outcome>>

GiveUp ==
  /\ Goto(Exit, "idle", "over") /\ Reports(Exit, "unavailable")
  /\ UNCHANGED <<board, arg, active, gateVars, trackVars, record, seen, exitVars>>

(* seal_for_exit, won once, by a close that is put off or by a restart. *)
Seal(restart) ==
  /\ ~gone /\ ~sealed /\ sealed' = TRUE
  /\ at' = [at EXCEPT ![Exit] = "idle"]
  /\ stage' = "await" /\ restarting' = restart
  /\ UNCHANGED <<board, arg, active, gateVars, trackVars, record, seen, ready, gone, outcome>>

Ends ==
  /\ ~gone /\ gone' = TRUE
  /\ UNCHANGED <<board, at, arg, active, gateVars, trackVars, record, seen, ready, restarting,
                 outcome>>

(* A restart that did not come through app_restart_safely cannot be put off:
   it seals and the application ends, with nothing cleared. *)
Unprepared ==
  /\ ~ready /\ Ends /\ sealed' = TRUE /\ UNCHANGED stage

(* ExitRequested by the user, and app_restart_safely or a restart of somebody
   else; the first two again while the clean-up is under way change nothing. *)
Close == Seal(FALSE) \/ (ready /\ Ends /\ UNCHANGED <<sealed, stage>>)
Restart == Seal(TRUE) \/ (ready /\ Ends /\ UNCHANGED <<sealed, stage>>) \/ Unprepared

(* clear_auto_on_exit_timeboxed returns with the worker's answer or at its
   own deadline. *)
AskTooEarly ==        \* mutant: the exit is requested before it is ready
  /\ ~gone /\ stage = "await" /\ stage' = "leave"
  /\ UNCHANGED <<board, at, arg, active, gateVars, trackVars, record, seen, sealed, ready,
                 restarting, gone, outcome>>

Awaited ==
  /\ ~gone /\ stage = "await" /\ stage' = "mark"
  /\ UNCHANGED <<board, at, arg, active, gateVars, trackVars, record, seen, sealed, ready,
                 restarting, gone, outcome>>

MarkReady ==
  /\ ~gone /\ stage = "mark" /\ stage' = "leave" /\ ready' = TRUE
  /\ UNCHANGED <<board, at, arg, active, gateVars, trackVars, record, seen, sealed, restarting,
                 gone, outcome>>

(* exit or request_restart: an exit that is not ready would be put off. *)
RequestExit ==
  /\ stage = "leave" /\ stage' = "left"
  /\ IF ready \/ restarting
     THEN Ends /\ UNCHANGED sealed
     ELSE UNCHANGED <<board, at, arg, active, gateVars, trackVars, record, seen, sealed, ready,
                      restarting, gone, outcome>>

----------------------------------------------------------------------------
Turn(o) == TakeTicket(o) \/ TakeTurn(o) \/ CloseTurn(o) \/ Leave(o)
Copying(o) == WriteText(o) \/ (o \in Copies /\ Track(o))
Clear(o) == Pick(o) \/ ReadText(o) \/ Check(o) \/ Erase(o) \/ Cleared(o)

Step(o) == Turn(o) \/ Copying(o) \/ Clear(o)
Call(o) == Begin(o) \/ BeginRefused(o)
Leaving == Awaited \/ MarkReady \/ RequestExit

Next ==
  \/ \E o \in Ops : Step(o) \/ CallFails(o) \/ CallHangs(o)
  \/ \E o \in Ops \ {Exit} : Call(o)
  \/ OtherCopies
  \/ WaitIdle \/ GiveUp
  \/ Close \/ Restart
  \/ Leaving

Spec == Init /\ [][Next]_vars

(* Threads and timers go on, a call that does not hang returns, and deadlines
   pass: an operation has finitely many steps, so fairness of all of them is
   fairness of each.  Nobody owes a command, a close or a restart. *)
GoesOn ==
  \/ \E o \in Ops : Step(o)
  \/ \E o \in Timers : Call(o)
  \/ WaitIdle \/ Leaving

Fairness == WF_vars(GoesOn)

FairSpec == Spec /\ Fairness

----------------------------------------------------------------------------
(* A clear erases what it was meant for: of what this application put into  *)
(* the clipboard, the text of the record it looked up, and of the copies    *)
(* the one with the record's generation.  "A newer sensitive copy must      *)
(* never be cleared by an old timer", also if it is of the same text; nor   *)
(* is text of the terminal, between the read and the erasing.               *)
ErasesItsOwn ==
  [][\A o \in Clearing : board'.by = o /\ board # board' /\ board.by # None =>
       /\ board.text = record[o].text
       /\ board.by \in Copies => tracked[board.by] = record[o].gen
       /\ \A c \in Copies : o = Timer(c) => board.by \notin Copies \ {c}]_vars

(* Once the exit worker is done, and was not kept from it, no copy that was  *)
(* to be cleared is left, and none is made any more: an operation that       *)
(* passed admission just before the seal is waited for.  (A restart nobody   *)
(* prepared ends the application without that worker's report.)              *)
NothingLeft ==
  outcome \in Done =>
    ~(board.by \in Copies /\ arg[board.by].auto)

(* As long as no call hangs, an operation that was begun, and a timer that   *)
(* was armed, comes to its turn and ends, however others fail.               *)
Hung == \E p \in Ops : at[p] = "hung"
OperationsEnd ==
  <>[](Hung \/ gone \/ \A o \in Ops \ {Exit} :
         at[o] \in {"unarmed", "over"} \/ (at[o] = "idle" /\ o \in Commands))

(* Once the clipboard is sealed the application ends, even if a call of the  *)
(* platform hangs: the one who won the seal always asks for the exit, and    *)
(* the exit it asks for is not put off again.                                *)
SealedEnds == sealed ~> gone

(* Neither an operation nor the exit waits for ever. *)
AllEnd == OperationsEnd /\ SealedEnds
=============================================================================
