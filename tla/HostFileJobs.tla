---------------------------- MODULE HostFileJobs ----------------------------
(* The file jobs of a remote agent: lattice-agent.rs admits a job per request, *)
(* runs it on a detached thread and answers over the session; host_files.rs   *)
(* publishes what an upload staged.  An agent serves one session at a time,   *)
(* but a thread may outlive its session, with its permit, its reservation of  *)
(* the folder and its files.                                                  *)
(*                                                                            *)
(* One shared folder and one name in it.  Bytes are chunks.  An operation ID  *)
(* is used once (the viewer counts them), so a job is named by it.            *)
EXTENDS Integers, Sequences, FiniteSets

CONSTANTS
  Uploads, Downloads,          \* operations, by kind
  Size,           \* announced bytes of each upload
  Overwriting,    \* uploads that may replace a file
  JobLimit,       \* FILE_JOB_LIMIT: threads of the whole agent
  MaxBytes,       \* MAX_SESSION_UPLOAD_BYTES
  FirstFiles,     \* what the name may hold at the start: None, "old"
  CommandCap,     \* UPLOAD_COMMAND_QUEUE_CAPACITY
  WireCap,        \* messages the bounded queues of a session hold
  None

Ops == Uploads \cup Downloads

ASSUME FileJobsAssumption ==
  /\ IsFiniteSet(Ops)
  /\ Uploads \cap Downloads = {}
  /\ Size \in [Uploads -> Nat] /\ Overwriting \subseteq Uploads
  /\ JobLimit \in Nat \ {0} /\ MaxBytes \in Nat /\ CommandCap \in Nat \ {0} /\ WireCap \in Nat \ {0}
  /\ FirstFiles \subseteq {None, "old"} /\ {None, "old"} \cap Ops = {}

VARIABLES
  serving,     \* the receiver task of the session runs
  failed,      \* the registry's failure signal is raised
  stalled,     \* job whose full command queue the receiver waits for
  requests,    \* viewer to agent
  responses,   \* agent to viewer
  pc,          \* where the thread of each job is
  lock,        \* FileJobState of each job
  answerAs,    \* FileCancelResponse of a cancelled job
  registered,  \* operations of the session's registry
  activeBytes, committedBytes,
  commands,    \* an upload's queue
  reserved,    \* job that reserved the folder
  file,        \* content of the name: None, "old" or the upload that wrote it
  staging,     \* bytes in the staging file, -1 when there is none
  backup,      \* what an upload put aside before replacing it
  answered,    \* history: terminal responses a job's thread handed over
  published    \* history: uploads renamed or linked into place

hostVars == <<serving, failed, stalled, pc, lock, answerAs, registered, activeBytes,
              committedBytes, commands, reserved, file, staging, backup, answered,
              published>>
diskVars == <<file, staging, backup, published>>
bytesVars == <<activeBytes, committedBytes>>
sessionVars == <<serving, failed, stalled>>

Phases == {"none", "begin", "reserved", "staged", "receiving",
           "flushed", "protected", "replaced", "withdrawn", "counted", "reading",
           "leaving", "gone"}
LockStates == {"active", "cancelling", "committing", "terminal"}

HostTypeOK ==
  /\ serving \in BOOLEAN /\ failed \in BOOLEAN /\ stalled \in Ops \cup {None}
  /\ pc \in [Ops -> Phases] /\ lock \in [Ops -> LockStates]
  /\ answerAs \in [Ops -> {"complete", "error", "silent"}]
  /\ registered \subseteq Ops
  /\ activeBytes \in 0..MaxBytes /\ committedBytes \in 0..MaxBytes
  /\ commands \in [Uploads -> Seq({"chunk", "finish"})]
  /\ reserved \in Uploads \cup {None}
  /\ file \in Uploads \cup {None, "old"}
  /\ staging \in [Uploads -> Int]
  /\ backup \in [Uploads -> Uploads \cup {None, "old"}]
  /\ answered \in [Ops -> Nat] /\ published \subseteq Uploads

HostInit ==
  /\ serving = TRUE /\ failed = FALSE /\ stalled = None
  /\ pc = [o \in Ops |-> "none"]
  /\ lock = [o \in Ops |-> "active"] /\ answerAs = [o \in Ops |-> "complete"]
  /\ registered = {} /\ activeBytes = 0 /\ committedBytes = 0
  /\ commands = [o \in Uploads |-> <<>>]
  /\ reserved = None /\ file \in FirstFiles
  /\ staging = [o \in Uploads |-> -1] /\ backup = [o \in Uploads |-> None]
  /\ answered = [o \in Ops |-> 0] /\ published = {}

Running(o) == pc[o] \notin {"none", "gone"}
Cancelled(o) == lock[o] = "cancelling"
Goto(o, phase) == pc' = [pc EXCEPT ![o] = phase]
Lock(o, state) == lock' = [lock EXCEPT ![o] = state]
Msg(kind, o) == [kind |-> kind, op |-> o]

----------------------------------------------------------------------------
(* Answers.  A thread waits up to ten seconds for room in the session's     *)
(* outgoing queue, the receiver task for a quarter of a second; either      *)
(* raises the failure signal when there is none, or no session any more.    *)

(* A job whose session is over has nobody to answer: its registry was       *)
(* cleared, and the channel it holds is closed.                             *)
MayAnswer(o) == serving /\ o \in registered

Room == Len(responses) < WireCap

Sends(o, kind) ==
  MayAnswer(o) /\ Room /\ responses' = Append(responses, Msg(kind, o)) /\ UNCHANGED failed

SendFails(o) == failed' = (failed \/ MayAnswer(o)) /\ UNCHANGED responses

(* send_file_terminal_message *)
SendTerminal(o, kind) ==
  /\ answered' = [answered EXCEPT ![o] = @ + 1]
  /\ Sends(o, kind) \/ SendFails(o)

(* finish_cancelled_file_job: whoever cancelled chose the answer. *)
CancelledAnswer(o) ==
  /\ lock[o] = "cancelling" /\ Lock(o, "terminal")
  /\ CASE answerAs[o] = "complete" -> SendTerminal(o, "complete")
       [] answerAs[o] = "error"    -> SendTerminal(o, "error")
       [] answerAs[o] = "silent"   -> UNCHANGED <<answered, responses, failed>>

(* finish_active_or_cancelled_file_job: the claim of the lock decides. *)
FinishWith(o, kind) ==
  \/ lock[o] = "active" /\ Lock(o, "terminal") /\ SendTerminal(o, kind)
  \/ CancelledAnswer(o)

(* The thread drops what it holds: staging file, folder, permit.  Its       *)
(* registration is the last to go.                                          *)
Drops(o) ==
  /\ Goto(o, "leaving")
  /\ reserved' = IF reserved = o THEN None ELSE reserved
  /\ staging' = IF o \in Uploads THEN [staging EXCEPT ![o] = -1] ELSE staging

Gives(o) == /\ Drops(o)
            /\ UNCHANGED <<serving, stalled, requests, answerAs, registered, bytesVars,
                           commands, file, backup, published>>

(* Drop of FileJobRegistration, then of the command queue. *)
Unregister(o) ==
  /\ pc[o] = "leaving" /\ Goto(o, "gone")
  /\ registered' = registered \ {o}
  /\ activeBytes' = IF o \in registered \cap (Uploads \ published)
                    THEN activeBytes - Size[o] ELSE activeBytes
  /\ UNCHANGED <<sessionVars, requests, responses, lock, answerAs, committedBytes,
                 commands, reserved, diskVars, answered>>

----------------------------------------------------------------------------
(* The upload thread. *)

Stays == UNCHANGED <<sessionVars, requests, responses, answerAs, registered, bytesVars,
                     answered>>

(* At a check of is_cancelled, after a blocking call, and where select!     *)
(* prefers the cancellation to a command.                                   *)
CancelSeen(o) ==
  /\ pc[o] \in {"begin", "staged", "receiving", "reading"}
  /\ CancelledAnswer(o) /\ Gives(o)

(* A blocking call failed: destination, reservation, staging, a chunk that  *)
(* cannot be written or is more than was announced, a minute without a      *)
(* command; for a download, the file cannot be opened or read.              *)
JobFails(o) ==
  /\ pc[o] \in {"begin", "reserved", "receiving", "reading"}
  /\ FinishWith(o, "error") /\ Gives(o)

ReserveFolder(o) ==
  /\ o \in Uploads /\ pc[o] = "begin" /\ ~Cancelled(o)
  /\ reserved = None /\ reserved' = o /\ Goto(o, "reserved")
  /\ Stays /\ UNCHANGED <<lock, commands, diskVars>>

(* begin_upload: an existing file needs the permission to overwrite. *)
Stage(o) ==
  /\ o \in Uploads /\ pc[o] = "reserved"
  /\ file = None \/ o \in Overwriting
  /\ staging' = [staging EXCEPT ![o] = 0] /\ Goto(o, "staged")
  /\ Stays /\ UNCHANGED <<lock, commands, reserved, file, backup, published>>

TellReady(o) ==
  /\ o \in Uploads /\ pc[o] = "staged" /\ ~Cancelled(o)
  /\ \/ Sends(o, "ready") /\ Goto(o, "receiving")
        /\ UNCHANGED <<lock, reserved, staging>>
     \/ SendFails(o) /\ Lock(o, "terminal") /\ Drops(o)
  /\ UNCHANGED <<serving, stalled, requests, answerAs, registered, bytesVars, commands,
                 file, backup, published, answered>>

WriteChunk(o) ==
  /\ o \in Uploads /\ pc[o] = "receiving" /\ ~Cancelled(o)
  /\ commands[o] # <<>> /\ Head(commands[o]) = "chunk" /\ staging[o] < Size[o]
  /\ commands' = [commands EXCEPT ![o] = Tail(@)]
  /\ staging' = [staging EXCEPT ![o] = @ + 1]
  /\ Stays /\ UNCHANGED <<pc, lock, reserved, file, backup, published>>

(* begin_upload_commit: from here on a cancellation is too late. *)
BeginCommit(o) ==
  /\ o \in Uploads /\ pc[o] = "receiving"
  /\ commands[o] # <<>> /\ Head(commands[o]) = "finish"
  /\ commands' = [commands EXCEPT ![o] = Tail(@)]
  /\ lock[o] = "active" /\ Lock(o, "committing")
  /\ Goto(o, IF staging[o] = Size[o] THEN "flushed" ELSE "withdrawn")
  /\ Stays /\ UNCHANGED <<reserved, diskVars>>

----------------------------------------------------------------------------
(* HostUpload::finish, one call of the file system at a time. *)

Commits(o, phase) ==
  /\ o \in Uploads /\ Goto(o, phase)
  /\ Stays /\ UNCHANGED <<lock, commands, reserved>>

PublishOver(o) ==       \* mutant: a rename where a hard link would refuse
  /\ pc[o] = "flushed" /\ file' = o /\ published' = published \cup {o}
  /\ Commits(o, "replaced") /\ UNCHANGED <<staging, backup>>

(* A hard link never replaces a file; without a file to replace, a rename. *)
PublishNew(o) ==
  /\ pc[o] = "flushed" /\ file = None
  /\ file' = o /\ published' = published \cup {o}
  /\ Commits(o, "replaced") /\ UNCHANGED <<staging, backup>>

ProtectOld(o) ==
  /\ pc[o] = "flushed" /\ file # None /\ o \in Overwriting
  /\ backup' = [backup EXCEPT ![o] = file] /\ file' = None
  /\ Commits(o, "protected") /\ UNCHANGED <<staging, published>>

ReplaceOld(o) ==
  /\ pc[o] = "protected" /\ file' = o /\ published' = published \cup {o}
  /\ Commits(o, "replaced") /\ UNCHANGED <<staging, backup>>

ForgetOld(o) ==         \* mutant: a failed rename does not restore the file
  /\ pc[o] = "protected"
  /\ backup' = [backup EXCEPT ![o] = None]
  /\ Commits(o, "withdrawn") /\ UNCHANGED <<file, staging, published>>

(* The rename failed: the old file is put back, if that does not fail too. *)
RestoreOld(o) ==
  /\ pc[o] = "protected"
  /\ \/ file' = backup[o] /\ backup' = [backup EXCEPT ![o] = None]
     \/ UNCHANGED <<file, backup>>
  /\ Commits(o, "withdrawn") /\ UNCHANGED <<staging, published>>

(* The disk refuses, or a file is there that may not be replaced. *)
CannotPublish(o) ==
  /\ pc[o] = "flushed" /\ Commits(o, "withdrawn") /\ UNCHANGED diskVars

RecordTwice(o) ==       \* mutant: the announced bytes stay reserved as well
  /\ o \in Uploads /\ pc[o] = "replaced" /\ Goto(o, "counted")
  /\ backup' \in {[backup EXCEPT ![o] = None], backup}
  /\ committedBytes' = IF o \in registered THEN committedBytes + Size[o] ELSE committedBytes
  /\ UNCHANGED <<sessionVars, requests, responses, lock, answerAs, registered, activeBytes,
                 commands, reserved, file, staging, published, answered>>

(* The backup is removed, or stays behind with a warning; then              *)
(* ActiveFileJobs::commit_upload, unless the registry was cleared.          *)
Record(o) ==
  /\ o \in Uploads /\ pc[o] = "replaced" /\ Goto(o, "counted")
  /\ backup' \in {[backup EXCEPT ![o] = None], backup}
  /\ IF o \in registered
     THEN /\ activeBytes' = activeBytes - Size[o]
          /\ committedBytes' = committedBytes + Size[o]
     ELSE UNCHANGED bytesVars
  /\ UNCHANGED <<sessionVars, requests, responses, lock, answerAs, registered,
                 commands, reserved, file, staging, published, answered>>

(* finish_upload_commit and the answer. *)
Settle(o) ==
  /\ pc[o] \in {"withdrawn", "counted"} /\ Lock(o, "terminal")
  /\ SendTerminal(o, IF pc[o] = "counted" THEN "complete" ELSE "error")
  /\ Gives(o)

----------------------------------------------------------------------------
(* The thread of a download (a listing's thread has the same steps). *)

(* The start message, then one chunk or entry that stands for all. *)
Stream(o) ==
  /\ o \in Downloads /\ pc[o] \in {"begin", "reading"} /\ ~Cancelled(o)
  /\ \/ pc[o] = "begin" /\ Sends(o, "start") /\ Goto(o, "reading")
     \/ pc[o] = "reading" /\ Sends(o, "data") /\ Goto(o, "counted")
     \/ SendFails(o) /\ Goto(o, "leaving")
  /\ UNCHANGED <<serving, stalled, requests, lock, answerAs, registered, bytesVars,
                 commands, reserved, diskVars, answered>>

EndStream(o) ==
  /\ o \in Downloads /\ pc[o] = "counted"
  /\ FinishWith(o, "complete") /\ Gives(o)

JobStep(o) ==
  \/ CancelSeen(o) \/ JobFails(o)
  \/ ReserveFolder(o) \/ Stage(o) \/ TellReady(o)
  \/ WriteChunk(o) \/ BeginCommit(o)
  \/ PublishNew(o) \/ ProtectOld(o) \/ ReplaceOld(o) \/ RestoreOld(o) \/ CannotPublish(o)
  \/ Record(o) \/ (o \in Uploads /\ Settle(o))
  \/ Stream(o) \/ EndStream(o)
  \/ Unregister(o)

----------------------------------------------------------------------------
(* FileRequestHandler, on the receiver task. *)

HeadIs(kind, o) ==
  /\ serving /\ ~failed /\ stalled = None
  /\ requests # <<>> /\ Head(requests) = Msg(kind, o)

Takes == requests' = Tail(requests)

(* send_immediate: a receiver that cannot answer ends the session. *)
AnswersNow(kind, o) ==
  \/ Room /\ responses' = Append(responses, Msg(kind, o)) /\ UNCHANGED failed
  \/ failed' = TRUE /\ UNCHANGED responses

Idle(o) == UNCHANGED <<serving, stalled, pc, answerAs, commands, reserved, diskVars, answered>>

Permits == JobLimit - Cardinality({o \in Ops : Running(o) /\ pc[o] # "leaving"})

RoomFor(o) == o \in Uploads => activeBytes + committedBytes + Size[o] <= MaxBytes

(* try_admit_file_job and the start of the thread. *)
AdmitJob(o) ==
  /\ HeadIs("start", o) /\ Takes
  /\ pc[o] = "none" /\ Permits > 0 /\ RoomFor(o)
  /\ Goto(o, "begin") /\ registered' = registered \cup {o}
  /\ activeBytes' = IF o \in Uploads THEN activeBytes + Size[o] ELSE activeBytes
  /\ UNCHANGED <<sessionVars, responses, lock, answerAs, committedBytes, commands,
                 reserved, diskVars, answered>>

(* No permit, no room for the bytes, no sharing, or no thread. *)
Reject(o) ==
  /\ HeadIs("start", o) /\ Takes /\ AnswersNow("error", o)
  /\ Idle(o) /\ UNCHANGED <<lock, registered, bytesVars>>

(* send_upload_command: "The upload is not active." *)
CommandForNobody(o) ==
  /\ \E kind \in {"chunk", "finish"} : HeadIs(kind, o)
  /\ o \notin registered /\ Takes /\ AnswersNow("error", o)
  /\ Idle(o) /\ UNCHANGED <<lock, registered, bytesVars>>

TakeCommand(o) ==
  /\ \E kind \in {"chunk", "finish"} :
       /\ HeadIs(kind, o) \/ (stalled = o /\ serving /\ ~failed /\ Head(requests) = Msg(kind, o))
       /\ o \in Uploads /\ (o \in registered \/ stalled = o) /\ pc[o] # "gone"
       /\ Len(commands[o]) < CommandCap
       /\ commands' = [commands EXCEPT ![o] = Append(@, kind)]
  /\ Takes /\ stalled' = None
  /\ UNCHANGED <<serving, failed, responses, pc, lock, answerAs, registered, bytesVars,
                 reserved, diskVars, answered>>

(* The queue is full: the receiver waits with the job in hand. *)
CommandStalls(o) ==
  /\ \E kind \in {"chunk", "finish"} : HeadIs(kind, o)
  /\ o \in registered \cap Uploads /\ Len(commands[o]) = CommandCap
  /\ stalled' = o
  /\ UNCHANGED <<serving, failed, requests, responses, pc, lock, answerAs, registered,
                 bytesVars, commands, reserved, diskVars, answered>>

(* Ten seconds without room: request_cancel with an error for the worker. *)
CommandTooSlow(o) ==
  /\ stalled = o /\ serving /\ ~failed /\ pc[o] # "gone"
  /\ IF lock[o] = "active"
     THEN Lock(o, "cancelling") /\ answerAs' = [answerAs EXCEPT ![o] = "error"]
     ELSE UNCHANGED <<lock, answerAs>>
  /\ Takes /\ stalled' = None
  /\ UNCHANGED <<serving, failed, responses, pc, registered, bytesVars, commands,
                 reserved, diskVars, answered>>

(* The thread ended while the receiver waited for room: the session fails. *)
CommandLost(o) ==
  /\ stalled = o /\ pc[o] = "gone"
  /\ failed' = TRUE /\ stalled' = None /\ Takes
  /\ UNCHANGED <<serving, responses, pc, lock, answerAs, registered, bytesVars, commands,
                 reserved, diskVars, answered>>

Cancel(o) ==
  /\ HeadIs("cancel", o) /\ o \in registered /\ Takes
  /\ IF lock[o] = "active"
     THEN Lock(o, "cancelling") /\ answerAs' = [answerAs EXCEPT ![o] = "complete"]
     ELSE UNCHANGED <<lock, answerAs>>
  /\ UNCHANGED <<serving, failed, stalled, responses, pc, registered, bytesVars, commands,
                 reserved, diskVars, answered>>

(* A job that is not there is cancelled already. *)
CancelSettled(o) ==
  /\ HeadIs("cancel", o) /\ o \notin registered /\ Takes /\ AnswersNow("complete", o)
  /\ Idle(o) /\ UNCHANGED <<lock, registered, bytesVars>>

HandlerStep(o) ==
  \/ AdmitJob(o) \/ Reject(o)
  \/ CommandForNobody(o) \/ TakeCommand(o)
  \/ CommandStalls(o) \/ CommandTooSlow(o) \/ CommandLost(o)
  \/ Cancel(o) \/ CancelSettled(o)

(* FileRequestHandler::shutdown: the registry is cleared, every job that is  *)
(* not past its commit point is cancelled without an answer.  The wait for   *)
(* them is bounded by half a second and changes nothing.                     *)
StopJobs ==
  /\ serving' = FALSE /\ stalled' = None
  /\ lock' = [o \in Ops |-> IF o \in registered /\ lock[o] = "active"
                            THEN "cancelling" ELSE lock[o]]
  /\ answerAs' = [o \in Ops |-> IF o \in registered /\ lock[o] \in {"active", "cancelling"}
                                THEN "silent" ELSE answerAs[o]]
  /\ registered' = {} /\ activeBytes' = 0
  /\ UNCHANGED <<failed, pc, committedBytes, commands, reserved, diskVars, answered>>

(* A new FileRequestHandler; permits and reservations are the agent's. *)
Reopen ==
  /\ ~serving /\ serving' = TRUE /\ failed' = FALSE
  /\ committedBytes' = 0
  /\ UNCHANGED <<stalled, pc, lock, answerAs, registered, activeBytes, commands,
                 reserved, diskVars, answered>>
=============================================================================
