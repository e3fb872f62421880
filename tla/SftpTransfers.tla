---------------------------- MODULE SftpTransfers ----------------------------
(* SFTP transfers (sftp_transfers.rs) over a session of sftp.rs: uploads fed  *)
(* chunk by chunk by the window, uploads of a dropped file by a task, and     *)
(* downloads.  An upload is staged beside its target and promoted over it in  *)
(* several requests; whoever ends a transfer claims its state first and then  *)
(* removes the staging file.                                                  *)
(*                                                                            *)
(* All uploads here have one target.  A request may fail before or after it   *)
(* took effect (the connection drops, thirty seconds pass); a rename refuses  *)
(* an existing name, as OpenSSH's server does.                                *)
EXTENDS Integers, FiniteSets

CONSTANTS
  Fed,            \* uploads of the window: begin, chunk, finish
  Dropped,        \* uploads of a file on the local disk
  Downloads,
  Overwriting,    \* uploads that may replace the target
  Size,           \* chunks of an upload
  Names,          \* numbered names a download may get: 1..Names
  MaxTransfers,   \* bound: transfers begun
  None

Uploads == Fed \cup Dropped
Ops == Uploads \cup Downloads

ASSUME SftpAssumption ==
  /\ IsFiniteSet(Ops) /\ Fed \cap Dropped = {} /\ Uploads \cap Downloads = {}
  /\ Overwriting \subseteq Uploads
  /\ Size \in Nat /\ Names \in Nat \ {0} /\ MaxTransfers \in Nat /\ None \notin Ops

VARIABLES
  session,     \* "open", "closing" while cancel_session runs, "closed"
  toCancel,    \* running transfers cancel_session found
  state,       \* TransferState.state, "none" before it is registered
  step,        \* where the command or the task of a transfer is
  flag,        \* TransferEntry.cancel
  held,        \* the worker holds TransferEntry.upload across requests
  handle,      \* the slot has the open remote file
  written,     \* bytes_done
  abort,       \* where abort_upload of the worker and of a canceller is
  target,      \* content of the remote name
  staging,     \* staging files that exist
  backup,      \* what an upload put aside
  warned,      \* transfers whose end names a file that is left behind
  published,   \* history: transfers whose content got its name
  broken,      \* history: uploads with a failed request in their promotion
  local        \* content of the numbered names in the download folder

vars == <<session, toCancel, state, step, flag, held, handle, written, abort,
          target, staging, backup, warned, published, broken, local>>
remoteVars == <<target, staging, backup, published>>
slotVars == <<held, handle, written>>
sessionVars == <<session, toCancel>>

Ended == {"done", "cancelled", "error"}
Steps == {"none", "looked", "feed", "closing", "promote", "rename", "protect", "replace",
          "unprotect", "mark", "publish", "aborting", "over"}
Actors == {"worker", "canceller"}

TypeOK ==
  /\ session \in {"open", "closing", "closed"} /\ toCancel \subseteq Ops
  /\ state \in [Ops -> {"none", "running"} \cup Ended] /\ step \in [Ops -> Steps]
  /\ flag \in [Ops -> BOOLEAN] /\ held \in [Uploads -> BOOLEAN]
  /\ handle \in [Uploads -> BOOLEAN] /\ written \in [Ops -> 0..Size]
  /\ abort \in [Uploads -> [Actors -> {"none", "failed", "stopped", "cleaning"}]]
  /\ target \in Uploads \cup {None, "old"} /\ staging \subseteq Uploads
  /\ backup \in [Uploads -> Uploads \cup {None, "old"}]
  /\ warned \subseteq Uploads /\ published \subseteq Ops /\ broken \subseteq Uploads
  /\ local \in [1..Names -> Downloads \cup {None, "other"}]

Init ==
  /\ session = "open" /\ toCancel = {}
  /\ state = [o \in Ops |-> "none"] /\ step = [o \in Ops |-> "none"]
  /\ flag = [o \in Ops |-> FALSE] /\ held = [o \in Uploads |-> FALSE]
  /\ handle = [o \in Uploads |-> FALSE] /\ written = [o \in Ops |-> 0]
  /\ abort = [o \in Uploads |-> [a \in Actors |-> "none"]]
  /\ target \in {None, "old"} /\ staging = {} /\ backup = [o \in Uploads |-> None]
  /\ warned = {} /\ published = {} /\ broken = {} /\ local = [n \in 1..Names |-> None]

Goto(o, s) == step' = [step EXCEPT ![o] = s]
Becomes(o, s) == state' = [state EXCEPT ![o] = s]
Answers == session # "closed"
SlotFree(o) == ~held[o]

(* abort_upload raises the flag before it waits for the slot. *)
Aborts(o, actor, why) ==
  /\ abort' = [abort EXCEPT ![o][actor] = why] /\ flag' = [flag EXCEPT ![o] = TRUE]
Asked == {"failed", "stopped"}

(* The worker gives the slot back before it aborts.                          *)
Gives(o, why) ==
  /\ Goto(o, "aborting") /\ Aborts(o, "worker", why)
  /\ held' = [held EXCEPT ![o] = FALSE]

----------------------------------------------------------------------------
(* Beginning: the session is looked up, then asked.                          *)

Begin(o) ==
  /\ session # "closed" /\ step[o] = "none"
  /\ Cardinality({p \in Ops : step[p] # "none"}) < MaxTransfers
  /\ o \in Uploads \ Overwriting => target = None
  /\ Goto(o, "looked")
  /\ UNCHANGED <<sessionVars, state, flag, slotVars, abort, remoteVars, warned, local, broken>>

(* create_private_upload, or the open of the remote file, and the insertion. *)
Register(o) ==
  /\ step[o] = "looked" /\ Answers
  /\ Becomes(o, "running") /\ Goto(o, "feed")
  /\ IF o \in Uploads
     THEN staging' = staging \cup {o} /\ handle' = [handle EXCEPT ![o] = TRUE]
     ELSE UNCHANGED <<staging, handle>>
  /\ UNCHANGED <<sessionVars, flag, held, written, abort, target, backup, warned,
                 published, local, broken>>

(* The staging file cannot be made, or not kept private; then it is removed, *)
(* or the error names it.                                                    *)
NotRegistered(o) ==
  /\ step[o] = "looked" /\ Goto(o, "over")
  /\ \/ UNCHANGED <<staging, warned>>
     \/ o \in Uploads /\ Answers /\ staging' = staging \cup {o} /\ warned' = warned \cup {o}
  /\ UNCHANGED <<sessionVars, state, flag, slotVars, abort, target, backup, published, local, broken>>

----------------------------------------------------------------------------
(* Uploads.  Chunks are written with the slot locked, one after the other.   *)

Fails(o, why) ==
  /\ Gives(o, why)
  /\ UNCHANGED <<sessionVars, state, written, warned, local>>

Chunk(o) ==
  /\ o \in Uploads /\ step[o] = "feed" /\ SlotFree(o) /\ Answers
  /\ handle[o] /\ written[o] < Size
  /\ o \in Fed => state[o] = "running"
  /\ o \in Dropped => ~flag[o]
  /\ written' = [written EXCEPT ![o] = @ + 1]
  /\ UNCHANGED <<sessionVars, state, step, flag, held, handle, abort, remoteVars, warned, local, broken>>

(* A write fails, a chunk is not what was announced, the local file cannot   *)
(* be read or has another size, the task sees the flag or misses its handle, *)
(* the window cannot go on.                                                  *)
FeedFails(o) ==
  /\ o \in Uploads /\ step[o] = "feed" /\ SlotFree(o)
  /\ state[o] = "running" \/ o \in Dropped
  /\ handle' = [handle EXCEPT ![o] = FALSE] \/ UNCHANGED handle
  /\ Fails(o, "failed") \/ (o \in Dropped /\ flag[o] /\ Fails(o, "stopped"))
  /\ UNCHANGED <<remoteVars, broken>>

(* running_state refuses a command for a transfer that ended. *)
Refused(o) ==
  /\ o \in Fed /\ step[o] = "feed" /\ SlotFree(o) /\ state[o] # "running"
  /\ Goto(o, "over")
  /\ UNCHANGED <<sessionVars, state, flag, slotVars, abort, remoteVars, warned, local, broken>>

(* finish_upload keeps the slot until the transfer has ended. *)
FinishFed(o) ==
  /\ o \in Fed /\ step[o] = "feed" /\ SlotFree(o) /\ state[o] = "running"
  /\ written[o] = Size /\ handle[o]
  /\ held' = [held EXCEPT ![o] = TRUE] /\ handle' = [handle EXCEPT ![o] = FALSE]
  /\ Goto(o, "closing")
  /\ UNCHANGED <<sessionVars, state, flag, written, abort, remoteVars, warned, local, broken>>

CloseKeepsSlot(o) ==    \* mutant: a failed close leaves the slot locked
  /\ step[o] = "closing"
  /\ \/ Answers /\ ~flag[o] /\ Goto(o, "promote") /\ UNCHANGED <<held, flag, abort>>
     \/ Goto(o, "aborting") /\ Aborts(o, "worker", "failed") /\ UNCHANGED held
  /\ UNCHANGED <<sessionVars, state, handle, written, remoteVars, warned, local, broken>>

CloseFreesSlot(o) ==    \* mutant: the promotion runs without the slot
  /\ step[o] = "closing"
  /\ \/ Answers /\ ~flag[o] /\ Goto(o, "promote") /\ held' = [held EXCEPT ![o] = FALSE]
        /\ UNCHANGED <<flag, abort>>
     \/ Gives(o, "failed") \/ (flag[o] /\ Gives(o, "stopped"))
  /\ UNCHANGED <<sessionVars, state, handle, written, remoteVars, warned, local, broken>>

CloseFed(o) ==
  /\ step[o] = "closing"
  /\ \/ Answers /\ ~flag[o] /\ Goto(o, "promote") /\ UNCHANGED <<held, flag, abort>>
     \/ Gives(o, "failed") \/ (flag[o] /\ Gives(o, "stopped"))
  /\ UNCHANGED <<sessionVars, state, handle, written, remoteVars, warned, local, broken>>

(* The task of a dropped file locks the slot only to close the file.  It     *)
(* does not mind that an abort took the file out.                            *)
CloseDropped(o) ==
  /\ o \in Dropped /\ step[o] = "feed" /\ SlotFree(o) /\ written[o] = Size /\ ~flag[o]
  /\ Answers \/ ~handle[o]
  /\ handle' = [handle EXCEPT ![o] = FALSE] /\ Goto(o, "promote")
  /\ UNCHANGED <<sessionVars, state, flag, held, written, abort, remoteVars, warned, local, broken>>

----------------------------------------------------------------------------
(* promote_upload, one request at a time. *)

Quiet == UNCHANGED <<sessionVars, state, flag, slotVars, abort, warned, local, broken>>

(* Does the target exist, is it a plain file, and can the staging file get   *)
(* its owner's permissions?                                                  *)
Look(o) ==
  /\ step[o] = "promote" /\ Answers
  /\ \/ target = None /\ Goto(o, "rename")
     \/ target # None /\ o \in Overwriting /\ o \in staging /\ Goto(o, "protect")
  /\ Quiet /\ UNCHANGED remoteVars

Published(o) ==
  /\ Answers /\ target = None /\ o \in staging
  /\ target' = o /\ staging' = staging \ {o} /\ published' = published \cup {o}

RenameNew(o) ==
  /\ step[o] = "rename" /\ Published(o) /\ Goto(o, "mark") /\ Quiet /\ UNCHANGED backup

PutAside(o) ==
  /\ Answers /\ target # None
  /\ backup' = [backup EXCEPT ![o] = target] /\ target' = None

Protect(o) ==
  /\ step[o] = "protect" /\ PutAside(o) /\ Goto(o, "replace")
  /\ Quiet /\ UNCHANGED <<staging, published>>

Replace(o) ==
  /\ step[o] = "replace" /\ Published(o) /\ Goto(o, "unprotect") /\ Quiet /\ UNCHANGED backup

(* Removed, or named in the warning. *)
Unprotect(o) ==
  /\ step[o] = "unprotect" /\ Goto(o, "mark")
  /\ \/ Answers /\ backup' = [backup EXCEPT ![o] = None]
     \/ UNCHANGED backup
  /\ Quiet /\ UNCHANGED <<target, staging, published>>

(* A request of the promotion fails; the effect may be there all the same.   *)
PromoteFails(o) ==
  /\ \/ step[o] \in {"promote", "rename", "protect"} /\ UNCHANGED remoteVars
     \/ step[o] = "rename" /\ Published(o) /\ UNCHANGED backup
     \/ step[o] = "protect" /\ PutAside(o) /\ UNCHANGED <<staging, published>>
  /\ Fails(o, "failed") /\ broken' = broken \cup {o} /\ UNCHANGED handle

ForgetOld(o) ==         \* mutant: the backup is removed, whatever the rename said
  /\ step[o] = "replace"
  /\ backup' = [backup EXCEPT ![o] = None] /\ UNCHANGED <<target, staging, published>>
  /\ Fails(o, "failed") /\ broken' = broken \cup {o} /\ UNCHANGED handle

(* The second rename fails: the original is renamed back, where that works.  *)
RestoreOld(o) ==
  /\ step[o] = "replace"
  /\ \/ Answers /\ target = None
        /\ target' = backup[o] /\ backup' = [backup EXCEPT ![o] = None]
        /\ UNCHANGED <<staging, published>>
     \/ Published(o) /\ UNCHANGED backup
     \/ UNCHANGED remoteVars
  /\ Fails(o, "failed") /\ broken' = broken \cup {o} /\ UNCHANGED handle

MarkAlways(o) ==        \* mutant: an ended transfer is done again
  /\ step[o] = "mark" /\ Goto(o, "over") /\ Becomes(o, "done")
  /\ held' = [held EXCEPT ![o] = FALSE]
  /\ UNCHANGED <<sessionVars, flag, handle, written, abort, remoteVars, warned, local, broken>>

Mark(o) ==
  /\ step[o] = "mark" /\ Goto(o, "over")
  /\ state' = IF state[o] = "running" THEN [state EXCEPT ![o] = "done"] ELSE state
  /\ held' = [held EXCEPT ![o] = FALSE]
  /\ UNCHANGED <<sessionVars, flag, handle, written, abort, remoteVars, warned, local, broken>>

----------------------------------------------------------------------------
(* abort_upload, by the worker that failed or by a canceller. *)

EndsAbort(o, actor) ==
  /\ abort' = [abort EXCEPT ![o][actor] = "none"]
  /\ step' = IF actor = "worker" THEN [step EXCEPT ![o] = "over"] ELSE step

TooLate(o, actor) ==
  /\ abort[o][actor] \in Asked /\ SlotFree(o) /\ state[o] # "running"
  /\ EndsAbort(o, actor)
  /\ UNCHANGED <<sessionVars, state, flag, slotVars, remoteVars, warned, local, broken>>

Claim(o, actor) ==
  /\ abort[o][actor] \in Asked /\ SlotFree(o) /\ state[o] = "running"
  /\ Becomes(o, IF abort[o][actor] = "failed" THEN "error" ELSE "cancelled")
  /\ handle' = [handle EXCEPT ![o] = FALSE]
  /\ abort' = [abort EXCEPT ![o][actor] = "cleaning"]
  /\ UNCHANGED <<sessionVars, step, flag, held, written, remoteVars, warned, local, broken>>

CleansNothing(o, actor) ==   \* mutant: the staging file is not removed
  /\ abort[o][actor] = "cleaning" /\ EndsAbort(o, actor)
  /\ UNCHANGED <<sessionVars, state, flag, slotVars, remoteVars, warned, local, broken>>

(* remove_staging_file; a failure goes into the transfer's detail. *)
Clean(o, actor) ==
  /\ abort[o][actor] = "cleaning" /\ EndsAbort(o, actor)
  /\ \/ Answers /\ o \in staging /\ staging' = staging \ {o}
        /\ (warned' = warned \cup {o} \/ UNCHANGED warned)
     \/ warned' = warned \cup {o} /\ UNCHANGED staging
  /\ UNCHANGED <<sessionVars, state, flag, slotVars, target, backup, published, local, broken>>

(* cancel: a download only gets the flag. *)
Cancels(o) ==
  /\ state[o] = "running"
  /\ IF o \in Uploads
     THEN abort[o]["canceller"] = "none" /\ Aborts(o, "canceller", "stopped")
     ELSE flag' = [flag EXCEPT ![o] = TRUE] /\ UNCHANGED abort

Cancel(o) ==
  /\ Cancels(o) /\ (o \in Downloads => ~flag[o])
  /\ UNCHANGED <<sessionVars, state, step, slotVars, remoteVars, warned, local, broken>>

----------------------------------------------------------------------------
(* sftp_disconnect: cancel_session, then the session goes. *)

Disconnect ==
  /\ session = "open" /\ session' = "closing"
  /\ toCancel' = {o \in Ops : state[o] = "running"}
  /\ UNCHANGED <<state, step, flag, slotVars, abort, remoteVars, warned, local, broken>>

CancelNext(o) ==
  /\ session = "closing" /\ o \in toCancel /\ toCancel' = toCancel \ {o}
  /\ \A p \in Uploads : abort[p]["canceller"] = "none"
  /\ IF state[o] = "running" THEN Cancels(o) ELSE UNCHANGED <<flag, abort>>
  /\ UNCHANGED <<session, state, step, slotVars, remoteVars, warned, local, broken>>

Close ==
  /\ session = "closing" /\ toCancel = {}
  /\ \A p \in Uploads : abort[p]["canceller"] = "none"
  /\ session' = "closed"
  /\ UNCHANGED <<toCancel, state, step, flag, slotVars, abort, remoteVars, warned, local, broken>>

----------------------------------------------------------------------------
(* Downloads: read into a private local file, given the first free name. *)

Receive(o) ==
  /\ o \in Downloads /\ step[o] = "feed" /\ ~flag[o] /\ Answers /\ written[o] < Size
  /\ written' = [written EXCEPT ![o] = @ + 1]
  /\ UNCHANGED <<sessionVars, state, step, flag, held, handle, abort, remoteVars, warned, local, broken>>

Received(o) ==
  /\ o \in Downloads /\ step[o] = "feed" /\ ~flag[o] /\ written[o] = Size
  /\ Goto(o, "publish")
  /\ UNCHANGED <<sessionVars, state, flag, slotVars, abort, remoteVars, warned, local, broken>>

(* publish_download: the first name nobody has, tried one by one. *)
Publish(o) ==
  /\ o \in Downloads /\ step[o] = "publish"
  /\ \E n \in 1..Names :
       /\ local[n] = None /\ \A k \in 1..n - 1 : local[k] # None
       /\ local' = [local EXCEPT ![n] = o]
  /\ published' = published \cup {o}
  /\ Becomes(o, "done") /\ Goto(o, "over")
  /\ UNCHANGED <<sessionVars, flag, slotVars, abort, target, staging, backup, warned, broken>>

(* The flag, a failed read or write, a file that grew or shrank. *)
DownloadEnds(o) ==
  /\ o \in Downloads /\ step[o] \in {"feed", "publish"} /\ Goto(o, "over")
  /\ Becomes(o, IF flag[o] THEN "cancelled" ELSE "error")
  /\ UNCHANGED <<sessionVars, flag, slotVars, abort, remoteVars, warned, local, broken>>

SomebodySaves ==        \* another program takes a name
  /\ local[1] = None /\ local' = [local EXCEPT ![1] = "other"]
  /\ UNCHANGED <<sessionVars, state, step, flag, slotVars, abort, remoteVars, warned, broken>>

----------------------------------------------------------------------------
Worker(o) ==
  \/ Register(o) \/ NotRegistered(o)
  \/ (o \in Dropped /\ (Chunk(o) \/ FeedFails(o))) \/ CloseFed(o) \/ CloseDropped(o)
  \/ (o \in Uploads /\ (Look(o) \/ RenameNew(o) \/ Protect(o) \/ Replace(o)
                        \/ Unprotect(o) \/ PromoteFails(o) \/ RestoreOld(o) \/ Mark(o)))
  \/ Receive(o) \/ Received(o) \/ Publish(o) \/ DownloadEnds(o)

Window(o) ==
  \/ Begin(o) \/ (o \in Fed /\ (Chunk(o) \/ FeedFails(o))) \/ Refused(o) \/ FinishFed(o)
  \/ Cancel(o)

Abort(o, actor) == TooLate(o, actor) \/ Claim(o, actor) \/ Clean(o, actor)

System ==
  \/ \E o \in Ops : Worker(o) \/ CancelNext(o)
  \/ \E o \in Uploads, actor \in Actors : Abort(o, actor)
  \/ Close

Next == System \/ (\E o \in Ops : Window(o)) \/ Disconnect \/ SomebodySaves

(* Tasks run and requests are answered, or fail, in the end; the window and  *)
(* its user owe nothing.                                                     *)
Spec == Init /\ [][Next]_vars /\ WF_vars(System)

----------------------------------------------------------------------------
(* A transfer that is shown as done is done: the content of an upload got    *)
(* the target's name, a download has a name of its own.                      *)
DoneIsTrue == \A o \in Ops : state[o] = "done" => o \in published

(* A transfer ends once: a cancel, an error and a finish that cross leave    *)
(* the first claim standing (abort_upload: "Claim the terminal transition    *)
(* before awaiting cleanup").                                                *)
EndsOnce == [][\A o \in Ops : state[o] \in Ended => state'[o] = state[o]]_vars

(* A transfer at rest has left no staging file, unless its end says so       *)
(* ("a transfer that ends early removes its own partial file").              *)
AtRest(o) == step[o] = "over" /\ \A actor \in Actors : abort[o][actor] = "none"
NoOrphan ==
  \A o \in Uploads : AtRest(o) /\ state[o] # "running" => o \notin staging \/ o \in warned

(* Whatever fails, and whichever answer is lost: once the target has a       *)
(* content, a whole content of it is on the server, under the name or as a   *)
(* backup.                                                                   *)
Content == target # None \/ \E o \in Uploads : backup[o] # None
ContentStays == [][Content => Content']_vars

(* An upload of the window that is shown as cancelled has not touched the    *)
(* target: finish_upload keeps the slot, so that a cancellation comes before *)
(* the promotion or after it; only when a request of the promotion failed it *)
(* may come in between.  (A dropped file's task does not keep the slot: it   *)
(* may be cancelled and published.)                                          *)
CancelledUntouched ==
  \A o \in Fed \ broken :
    state[o] = "cancelled" => o \notin published /\ backup[o] = None

(* What the list of transfers says of one that ended is what happened to the *)
(* files.                                                                    *)
TerminalIsTrue == DoneIsTrue /\ CancelledUntouched

(* A cancelled transfer ends, also when a request hangs until it times out   *)
(* or the session is closed meanwhile: in the end none that has the flag     *)
(* still runs.                                                               *)
CancelEnds == <>[](\A o \in Ops : flag[o] => state[o] # "running")

(* A transfer ends, if it is cancelled, and ends once. *)
TransfersEnd == EndsOnce /\ CancelEnds
=============================================================================
