----------------------------- MODULE RemoteFiles -----------------------------
(* File transfers of a remote session, both ends: the agent's jobs            *)
(* (HostFileJobs) and the viewer's RemoteFilesClient (remote_files.rs) with   *)
(* the upload loop of the window (useRemoteSessions.ts), joined by the two    *)
(* ordered streams of the encrypted session (remote.rs).                      *)
(*                                                                            *)
(* A session may break at any moment: the viewer then reads a prefix of what  *)
(* the agent sent, the agent a prefix of what the viewer sent.  The viewer    *)
(* may open another one.  A download is one byte long.                        *)
EXTENDS HostFileJobs

CONSTANTS
  MaxSessions,    \* bound: sessions the viewer opens one after the other
  MaxTransfers    \* bound: transfers the window begins

ASSUME SessionsAssumption == MaxSessions \in Nat \ {0} /\ MaxTransfers \in Nat

VARIABLES
  link,       \* the viewer's session: "open", "closing" (disconnect), "down"
  opened,   \* sessions opened so far
  row,        \* RemoteFileTransfer.state of each transfer
  entry,      \* transfers in state.uploads or state.downloads
  call,       \* where the window's command for a transfer is
  sent,       \* PendingUpload.sent
  got,        \* PendingDownload.written, -1 before the start message
  taking,     \* transfer whose Complete is between its two lock sections
  saved       \* history: downloads published in the download folder

viewVars == <<link, opened, row, entry, call, sent, got, taking, saved>>
wires == <<requests, responses>>
filesVars == <<hostVars, wires, viewVars>>

CallStates == {"idle", "asking", "waiting", "ready", "chunk", "finish", "finishing",
          "cut", "over"}
Messages(kinds) == [kind : kinds, op : Ops]

FilesTypeOK ==
  /\ HostTypeOK
  /\ requests \in Seq(Messages({"start", "chunk", "finish", "cancel"}))
  /\ responses \in Seq(Messages({"ready", "start", "data", "complete", "error"}))
  /\ link \in {"open", "closing", "down"} /\ opened \in 1..MaxSessions
  /\ row \in [Ops -> {"none", "running", "done", "cancelled", "error"}]
  /\ entry \subseteq Ops /\ call \in [Ops -> CallStates]
  /\ sent \in [Uploads -> Nat] /\ got \in [Downloads -> {-1, 0, 1}]
  /\ taking \in Ops \cup {None} /\ saved \subseteq Downloads

FilesInit ==
  /\ HostInit /\ requests = <<>> /\ responses = <<>>
  /\ link = "open" /\ opened = 1
  /\ row = [o \in Ops |-> "none"] /\ entry = {} /\ call = [o \in Ops |-> "idle"]
  /\ sent = [o \in Uploads |-> 0] /\ got = [o \in Downloads |-> -1]
  /\ taking = None /\ saved = {}

Row(o, state) == row' = [row EXCEPT ![o] = state]
Call(o, state) == call' = [call EXCEPT ![o] = state]
Writes(kind, o) ==
  Len(requests) < WireCap /\ requests' = Append(requests, Msg(kind, o))

(* The streams take what is written until the session's tasks are aborted. *)
Alive == link # "down"

----------------------------------------------------------------------------
(* Commands of the window.  The session is looked up first, so a command may *)
(* still insert its transfer after the session was closed.                   *)

(* upload_begin and download_start, up to the send. *)
Begin(o) ==
  /\ Alive /\ row[o] = "none" /\ call[o] = "idle"
  /\ Cardinality({p \in Ops : row[p] # "none"}) < MaxTransfers
  /\ entry' = entry \cup {o} /\ Row(o, "running") /\ Call(o, "asking")
  /\ UNCHANGED <<hostVars, wires, link, opened, sent, got, taking, saved>>

Ask(o) ==
  /\ Alive /\ call[o] = "asking" /\ Writes("start", o)
  /\ Call(o, IF o \in Uploads /\ o \in entry THEN "waiting" ELSE "over")
  /\ UNCHANGED <<hostVars, responses, link, opened, row, entry, sent, got, taking, saved>>

(* fail_transfer: a transfer that ended stays as it ended. *)
Fails(o) ==
  /\ entry' = entry \ {o}
  /\ row' = IF row[o] = "running" THEN [row EXCEPT ![o] = "error"] ELSE row

(* Thirty seconds without "ready": the agent is told, too. *)
ReadyTimeout(o) ==
  /\ call[o] = "waiting" /\ Fails(o) /\ Call(o, "over")
  /\ IF Alive THEN Writes("cancel", o) ELSE UNCHANGED requests
  /\ UNCHANGED <<hostVars, responses, link, opened, sent, got, taking, saved>>

(* upload_chunk: the check, the send, the count. *)
CheckChunk(o) ==
  /\ o \in Uploads /\ call[o] = "ready" /\ sent[o] < Size[o]
  /\ Call(o, IF o \in entry THEN "chunk" ELSE "over")
  /\ UNCHANGED <<hostVars, wires, link, opened, row, entry, sent, got, taking, saved>>

SendChunk(o) ==
  /\ Alive /\ call[o] = "chunk" /\ Writes("chunk", o)
  /\ IF o \in entry THEN sent' = [sent EXCEPT ![o] = @ + 1] /\ Call(o, "ready")
                    ELSE Call(o, "over") /\ UNCHANGED sent
  /\ UNCHANGED <<hostVars, responses, link, opened, row, entry, got, taking, saved>>

CheckFinish(o) ==
  /\ o \in Uploads /\ call[o] = "ready" /\ sent[o] = Size[o]
  /\ Call(o, IF o \in entry THEN "finish" ELSE "over")
  /\ UNCHANGED <<hostVars, wires, link, opened, row, entry, sent, got, taking, saved>>

SendFinish(o) ==
  /\ Alive /\ call[o] = "finish" /\ Writes("finish", o)
  /\ Call(o, IF o \in entry THEN "finishing" ELSE "over")
  /\ UNCHANGED <<hostVars, responses, link, opened, row, entry, sent, got, taking, saved>>

(* A minute without an answer: shown as an error, and nobody is told. *)
FinishTimeout(o) ==
  /\ call[o] = "finishing" /\ Fails(o) /\ Call(o, "over")
  /\ UNCHANGED <<hostVars, wires, link, opened, sent, got, taking, saved>>

(* The stream is gone: the command's send, or its answer, fails. *)
CallCut(o) ==
  /\ call[o] = "cut" /\ Fails(o) /\ Call(o, "over")
  /\ UNCHANGED <<hostVars, wires, link, opened, sent, got, taking, saved>>

(* cancel, from a row the window shows. *)
KeepsEntry(o) ==        \* mutant: the pending entry of a cancelled upload stays
  /\ link = "open" /\ call[o] # "asking" /\ row[o] = "running"
  /\ Row(o, "cancelled") /\ Writes("cancel", o)
  /\ UNCHANGED <<hostVars, responses, link, opened, entry, call, sent, got, taking, saved>>

CancelTransfer(o) ==
  /\ link = "open" /\ call[o] # "asking" /\ row[o] = "running"
  /\ entry' = entry \ {o} /\ Row(o, "cancelled") /\ Writes("cancel", o)
  /\ call' = IF call[o] \in {"waiting", "finishing"}
             THEN [call EXCEPT ![o] = "over"] ELSE call
  /\ UNCHANGED <<hostVars, responses, link, opened, sent, got, taking, saved>>

----------------------------------------------------------------------------
(* The reader task: handle_response, one message at a time. *)

Hears(kind, o) ==
  /\ Alive /\ taking = None
  /\ responses # <<>> /\ Head(responses) = Msg(kind, o)
  /\ responses' = Tail(responses)

HearReady(o) ==
  /\ Hears("ready", o)
  /\ call' = IF o \in entry /\ call[o] = "waiting"
             THEN [call EXCEPT ![o] = "ready"] ELSE call
  /\ UNCHANGED <<hostVars, requests, link, opened, row, entry, sent, got, taking, saved>>

(* download_started, download_chunk: the staging file is local. *)
HearData(o) ==
  /\ \/ Hears("start", o) /\ o \in entry /\ got[o] = -1
     \/ Hears("data", o) /\ o \in entry /\ got[o] = 0
  /\ got' = [got EXCEPT ![o] = @ + 1]
  /\ UNCHANGED <<hostVars, requests, link, opened, row, entry, call, sent, taking, saved>>

(* No such download any more, data out of place, or a local error: the agent *)
(* is told to stop, if its queue has room.                                   *)
RefuseData(o) ==
  /\ o \in Downloads
  /\ Hears("start", o) \/ Hears("data", o)
  /\ Writes("cancel", o) \/ UNCHANGED requests
  /\ Fails(o)
  /\ UNCHANGED <<hostVars, link, opened, call, sent, got, taking, saved>>

(* fail_operation: the waiting command gets the error. *)
HearError(o) ==
  /\ Hears("error", o) /\ Fails(o)
  /\ call' = IF call[o] \in {"waiting", "finishing"}
             THEN [call EXCEPT ![o] = "over"] ELSE call
  /\ UNCHANGED <<hostVars, requests, link, opened, sent, got, taking, saved>>

(* complete_transfer takes the entry out and releases the lock ...  An       *)
(* upload is only completed for a command that waits for it.                 *)
HearComplete(o) ==
  /\ Hears("complete", o)
  /\ entry' = entry \ {o}
  /\ IF o \in entry /\ (o \in Downloads \/ call[o] \in {"finish", "finishing"})
     THEN taking' = o ELSE UNCHANGED taking
  /\ call' = IF o \in entry /\ call[o] \in {"waiting", "finishing"}
             THEN [call EXCEPT ![o] = "over"] ELSE call
  /\ UNCHANGED <<hostVars, requests, link, opened, row, sent, got, saved>>

(* ... and then writes the result: finish_transfer does not look at the row. *)
Complete(o) ==
  /\ taking = o /\ taking' = None
  /\ \/ /\ o \in Downloads => got[o] = 1
        /\ Row(o, "done") /\ saved' = saved \cup ({o} \cap Downloads)
     \/ /\ o \in Downloads          \* bytes missing, or it cannot be published
        /\ row' = IF row[o] = "running" THEN [row EXCEPT ![o] = "error"] ELSE row
        /\ UNCHANGED saved
  /\ UNCHANGED <<hostVars, wires, link, opened, entry, call, sent, got>>

----------------------------------------------------------------------------
(* The session. *)

(* close: everything that waits is told, everything that runs is an error. *)
ClosesAll(to) ==
  /\ link' = to /\ entry' = {}
  /\ row' = [o \in Ops |-> IF row[o] = "running" THEN "error" ELSE row[o]]
  /\ call' = [o \in Ops |-> IF call[o] \in {"waiting", "finishing"} THEN "over"
                            ELSE IF to = "down" /\ call[o] \notin {"idle", "over"}
                            THEN "cut" ELSE call[o]]

(* The reader met the end of the stream, and has read all before it. *)
SessionLost ==
  /\ link = "open" /\ ~serving /\ responses = <<>> /\ taking = None
  /\ ClosesAll("down") /\ requests' = <<>>
  /\ UNCHANGED <<hostVars, responses, opened, sent, got, taking, saved>>

(* disconnect closes the transfers first and stops the tasks afterwards. *)
LeaveSession ==
  /\ link = "open" /\ ClosesAll("closing")
  /\ UNCHANGED <<hostVars, wires, opened, sent, got, taking, saved>>

Aborted ==
  /\ link = "closing" /\ taking = None /\ link' = "down"
  /\ responses' = <<>>
  /\ call' = [o \in Ops |-> IF call[o] \in {"idle", "over"} THEN call[o] ELSE "cut"]
  /\ UNCHANGED <<hostVars, requests, opened, row, entry, sent, got, taking, saved>>

(* The agent's end: the connection breaks, the viewer has gone, or an answer *)
(* could not be delivered.                                                   *)
HostEnds ==
  /\ serving /\ StopJobs /\ requests' = <<>>
  /\ \E n \in 0..Len(responses) : responses' = SubSeq(responses, 1, n)
  /\ UNCHANGED viewVars

OpenSession ==
  /\ link = "down" /\ Reopen /\ opened < MaxSessions
  /\ opened' = opened + 1 /\ link' = "open"
  /\ requests' = <<>> /\ responses' = <<>>
  /\ UNCHANGED <<row, entry, call, sent, got, taking, saved>>

ViewerStep(o) ==
  \/ Begin(o) \/ Ask(o) \/ ReadyTimeout(o)
  \/ CheckChunk(o) \/ SendChunk(o) \/ CheckFinish(o) \/ SendFinish(o) \/ FinishTimeout(o)
  \/ CallCut(o) \/ CancelTransfer(o)
  \/ HearReady(o) \/ HearData(o) \/ RefuseData(o) \/ HearError(o) \/ HearComplete(o)
  \/ Complete(o)

HostStep(o) == (JobStep(o) \/ HandlerStep(o)) /\ UNCHANGED viewVars

SessionStep == SessionLost \/ LeaveSession \/ Aborted \/ HostEnds \/ OpenSession

FilesNext == (\E o \in Ops : ViewerStep(o) \/ HostStep(o)) \/ SessionStep

FilesSpec == FilesInit /\ [][FilesNext]_filesVars

----------------------------------------------------------------------------
(* The agent's byte account is exact at every moment: what is announced is   *)
(* what the registered uploads will still write, what is committed is what   *)
(* they wrote, and a session never gets more than its limit (lattice-agent.rs *)
(* ActiveFileJobs: insert, commit_upload, cancel_all and the drop of a       *)
(* registration settle the same upload from three tasks).                    *)
Announced(us) == UNION {{u} \X (1..Size[u]) : u \in us}
Unwritten == {u \in registered \cap Uploads :
                pc[u] # "counted" /\ ~(pc[u] = "leaving" /\ u \in published)}
BytesAccounted ==
  /\ activeBytes = Cardinality(Announced(Unwritten))
  /\ activeBytes + committedBytes <= MaxBytes

(* A transfer the viewer shows as done is one: the upload is published under *)
(* its name on the agent's machine, the download is in the download folder.  *)
DoneIsTrue ==
  \A o \in Ops : row[o] = "done" => o \in published \cup saved

(* The thread of a job hands over at most one terminal answer, and none for  *)
(* a job that is still writing (send_file_terminal_message behind the claim  *)
(* of FileJobState).                                                         *)
AnsweredOnce ==
  \A o \in Ops : answered[o] <= 1 /\ (answered[o] = 1 => lock[o] = "terminal")

(* A transfer ends by one answer, and the viewer believes only a true one.   *)
TransfersTrue == DoneIsTrue /\ AnsweredOnce

(* Whatever is crashed or cancelled when: once the name has a content, a     *)
(* whole content of it exists, under the name or as a backup                 *)
(* (host_files.rs finish: rename away, rename into place, restore).          *)
Content == file # None \/ \E u \in Uploads : backup[u] # None
ContentStays == Content => Content'

(* A file appears under the name only where none is, and complete: an upload *)
(* never lands on content nobody put aside, also not when two sessions write *)
(* the folder at once (the reservation outlives the session).                *)
NeverLandsOnContent ==
  \A u \in Uploads : file' = u /\ file # u /\ u \notin published
    => file = None /\ staging[u] = Size[u]

(* Content is neither lost nor overwritten, nor published in part.           *)
ContentSafe == [][ContentStays /\ NeverLandsOnContent]_filesVars
=============================================================================
