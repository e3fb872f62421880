# A verification of LatticeTerm

LatticeTerm is a desktop application (Tauri: Rust below, React above) for
remote machines and AI agents: SSH terminals and tunnels, SFTP, RDP, VNC, its
own remote-desktop agent with a rendezvous relay, a fleet of agent CLIs that can
outlive the window in a background service, conversations with agents, scheduled
automations, and a vault. This directory holds TLA+ models of the parts of it in
which several tasks, threads or processes share state, the TLC runs that check
them, and TLAPS proofs. Paths below are relative to the repository.

Contents: [1. The system](#1-the-system) · [2. The modules](#2-the-modules) ·
[3. The runs](#3-the-runs) · [4. Bounds](#4-bounds) · [5. Fairness](#5-fairness) ·
[6. Proofs](#6-proofs) · [7. Findings](#7-findings) ·
[8. What is not modelled](#8-what-is-not-modelled) · [9. Plan](#9-plan)

To repeat a check: `tlc -workers 2 -config RelayServer.cfg MCRelayServer.tla`;
to repeat the proofs: `tlapm RelayServerProofs.tla`.

## 1. The system

### 1.1 Inventory

**Relay server** (`crates/lattice-remote/src/relay_server.rs`, run by
`bin/lattice-relay.rs`).
*State*: the table of agents (device ID → control connection, generation, invite
queue), the pending joins and the device's current channel, the registry of
claimed device IDs (token digests, in memory and in a file), connection permits.
*Operations*: Register, heartbeat, Dial, Join, restart. *Interactions*: one tokio
task per connection; tasks meet in oneshots, a bounded queue and three mutexes
that are never held across an await. *Hard*: replaced control connections, a join
at the instant its wait expires, reservations that every early return must
release, permits that travel with a socket, a crash between a claim and its
acknowledgement. *Correct when*: one dial per device, a viewer only ever meets the
owner of the ID it dialled, no permit is lost or doubled, every dial is answered.

**Agent sessions and the prompt queue** (`src-tauri/src/agent.rs`).
*State*: per session a terminal, a child process, a summary (lifecycle, who said
so), a queue of prompts and its published depth. *Operations*: enqueue, send,
clear, disconnect, stop_all, the reports of the CLI's hooks, guesses from terminal
output, the end of the process. *Interactions*: one thread each; the session's
locks are taken one after the other. *Hard*: decisions from state read under a lock
that was released, reports retried after a second whose first copy is still being
handled, ends from two sides. *Correct when*: the queue is bounded, a prompt is
typed at most once and not lost, a session is closed exactly once, guesses do not
override official reports.

**Background agent service** (`src-tauri/src/agent_daemon/{server,client,transport}.rs`,
`src/app/useAgentSessions.ts`). *State*: the socket path, per process its
registry and subscribed clients; in the window one connection slot behind an
asynchronous lock, pending requests, the sessions each connection has heard of,
the list of open sessions. *Operations*: launch (which starts a process when none
answers), list, stop, events, idle exit. *Hard*: two processes racing for one path,
late exits that remove it, requests that race the loss of the connection, answers
and events that overtake each other. *Correct when*: what the window shows exists,
every command ends, a session that died with its process is closed in the window.

**Scheduled automations** (`agent_daemon/automations.rs`,
`src/app/{agentAutomations.ts,useAgentAutomations.ts}`). *State*: in each of the two
processes the marks of every automation (next and last run), the runs under way,
finished runs' records on disk. *Operations*: tick, run, run now, replace the list,
take the records, merge. *Hard*: the two take over from each other in the middle of
an exchange whose messages may be reordered, React renders lag behind, either may
die. *Correct when*: no scheduled run starts beside another of the same automation,
one cap holds over both, a record is in one place, progress is never undone.

**SSH tunnels** (`src-tauri/src/tunnel.rs`, `tunnel_start` in `lib.rs`).
*State*: rows (status, generation, stop and completion channels), slots for tunnels
and for connections, per run a listener, an SSH transport owned by russh's task, a
gate for remote forwards. *Operations*: reserve, the stages of a start, commit,
abandonment, the worker's loop and tear-down, admission and drain of connections,
stop, the seal at exit. *Hard*: stop against every stage, admission against the
drain, permits that outlive a call, exit while starts are under way. *Correct when*:
rows and runs agree, a published completion is a safe moment to restart, nothing is
served after the drain, every stop takes effect.

**Remote files** (`bin/lattice-agent.rs`, `host_files.rs`, `src-tauri/src/remote_files.rs`,
`useRemoteSessions.ts`). *State*: in the agent the registry of a session's jobs, the
bytes reserved and committed, per job a lock and a thread, a folder reservation,
staged files and backups; in the viewer rows, pending transfers, calls that wait.
*Operations*: start, chunk, finish, cancel, the job threads, commit and publish, the
end of a session, a new session. *Hard*: a thread outlives its session; cancel, commit
and tear-down settle the same upload; the answer of a job races a timeout and a
cancel. *Correct when*: the account of bytes is exact, a job answers once, a file is
published whole and never over content nobody put aside, what is shown as done is.

**SFTP transfers** (`src-tauri/src/sftp.rs`, `sftp_transfers.rs`). *State*: per transfer
its shown state, cancel flag, the slot with the open remote file; staging, backup and
target on the server. *Operations*: begin, chunk, finish, upload of a dropped file,
download, cancel, promotion, abort, the end of the session. *Hard*: requests that take
effect and fail nevertheless; a cancel at every point of a promotion; two who clean
up. *Correct when*: an end is true and final, staging files are removed or named, the
target's content is never lost, a cancel takes hold.

**Remote sessions** (`src-tauri/src/remote.rs`, `useRemoteSessions.ts`). *State*: admission
slots, reserved profiles, records, three tasks per session; the window's rows, the
closed events it observed. *Hard*: a connect that dials without the lock, ends from
four sides, a window that hydrates and reloads. *Correct when*: admission never
over-commits, an end is told once, rows settle on the sessions.

**Agent conversations** (`agent_chat.rs`, `agent_chat/codex_server.rs`,
`useAgentChat.ts`). *State*: the turn of each thread, the startup gate of Claude, a Codex
server per thread with its active and queued turn, approvals, the interrupts under way.
*Operations*: send, stop, answer, hand over, remove, reap, the readers of the CLIs' lines.
*Hard*: sends that race after a reload, reaping and failed writes against a new turn, a
turn that cannot be addressed yet, retries behind a gate. *Correct when*: no server is
left behind, no turn is lost or ended twice, one Claude is in its login, a stop ends a
Codex turn.

**Sensitive clipboard** (`src-tauri/src/clipboard.rs`). *State*: a ticket lock around the
platform's clipboard, the record and generation of the last copy, timers, the phase of
the exit. *Hard*: platform calls that fail or hang, other programs, an exit at any point.
*Correct when*: a timer erases only what it was armed for, and an exit that can be put
off leaves no copy behind that was to be cleared.

**SSH, RDP and VNC sessions** (`ssh.rs`, `rdp.rs`, `vnc.rs`, the engines, the three hooks).
*State*: permits of two pools, per session a record, a worker and an engine process; the
window's rows and race guards. *Hard*: a permit follows its engine through failed starts,
a second try after a dialog, graceful and hard ends; ends from four sides; closed events
that overtake an answer; a reload. *Correct when*: the caps hold, an end is told once,
rows settle on the registries, a session's engine ends
with it while the application runs, and the exit asks every running engine to stop.

The other parts, with the state they keep and what makes them correct:

| Part | Where | State and operations | What must hold |
|---|---|---|---|
| Vault, credentials | `vault.rs`, `credentials.rs` | an encrypted map and its file, the keyring | memory and file agree |
| Backup | `backup.rs` | a set of application files | a restore is all or nothing, and runs beside nothing |
| Storage, host keys | `storage.rs`, `hostkeys.rs` | stores behind one mutex | atomic files |
| Secure channel | `secure.rs`, `device_pins.rs` | keys | cryptographic |
| Transcripts, history, plans, rules, metrics | `transcript.rs`, … | none, or one text section | parsing |
| Interface, updater, release scripts | `src/`, `scripts/` | presentation | – |

### 1.2 How the parts meet

The window calls Tauri commands (`lib.rs`), which act on registries in the same
process (tunnels, sessions, conversations, the clipboard) or go over a local socket to
the background service, which owns a second agent registry and the scheduler. Agent CLIs
run under either registry and report through hook processes. The remote agent holds a
control connection to the relay, and the viewer dials it there. `DaemonSocket` and
`AgentDaemon` model the window and the service together, `Automations` the two
schedulers together, `AgentQueue` a session with its CLI's hooks, `RemoteFiles` the
viewer and the agent with the two streams between them, `AgentChat` the window, the
registry and the CLIs; the relay, agents and viewers are one model.

## 2. The modules

| Module | Models | Extends / uses |
|---|---|---|
| `RelayRegistry` | claims of device IDs, their file, verification, the unhealthy state after a failed save | – |
| `RelayServer` | every task of the relay | `RelayRegistry` |
| `RelayRendezvous` | what the relay promises: per device at most one attempt, which waits, is linked, ends | refined by `RelayServer` |
| `AgentSummary` | the lifecycle half of a session's summary and who may change it | – |
| `AgentQueue` | the prompt queue, commands, reports and their retries, guesses, closing | `AgentSummary` |
| `AgentPromptLine` | what a queue promises: a prompt waits, is taken, is typed once or is dropped | refined by `AgentQueue` |
| `DaemonSocket` | the socket path and the life of service processes | – |
| `AgentDaemon` | the window's client, the service, sessions and what the window shows | `DaemonSocket` |
| `Automations` | the two schedulers and their exchange | – |
| `SshTunnel` | tunnel registry, start, worker, connections, russh's task | – |
| `HostFileJobs` | the agent's file jobs: registry, threads, commit, publish, shutdown | – |
| `RemoteFiles` | the viewer's transfers, the session and its streams, with the jobs | `HostFileJobs` |
| `SftpTransfers` | transfers of an SFTP session, promotion, abort, close | – |
| `RemoteSessions` | the registry of remote sessions and the window's rows | – |
| `CodexServer` | the app-servers of Codex: start, reuse, reaping, turns, interrupts | – |
| `AgentChat` | a conversation with Claude or Codex, and what a person does with it | `CodexServer` |
| `SensitiveClipboard` | copies, timers, clears, terminal text, the exit | – |
| `DesktopSessions` | SSH, RDP and VNC sessions, their engines and the window's rows | – |
| `…Proofs` | theorems (section 6) about the module named; `AgentQueueProofs` also about `AgentDaemon`, `RemoteProofs` about `RemoteSessions` and `RemoteFiles`, `AgentRunProofs` about `AgentChat` and `Automations` | those modules, TLAPS |
| `MC…` | instances for TLC: symmetry, definitions a cfg cannot write | the module named |

`PROJECT.json` maps every definition to the lines it stands for. In all modules
one action is what a task does between two points at which another may act: an
await, the release of a lock, a message. Operators whose comment says *mutant* are
plausible bugs of the definition after them; they are not used by the
specification, and each property is violated when its mutant replaces the original.

**RelayServer.** `pc` is the task of a connection, whose role is its first message.
A control connection goes *first → claimed → registered → numbered → control →
leaving → closed* (`Register`, `WriteRegistered`, `NextGeneration`, `InsertAgent`,
`ControlCancelled`, `RemoveAgent`), because the generation is drawn and the table
entry inserted under two locks. A dial goes *found → reserved → invited → answered
→ agentTold → linked → releasing*; `answer` is the oneshot a joiner puts its
transport into, `slots` the permits. `Restart` empties everything but the file.
Abstracted: bytes, the per-address rate limit, and tokens are compared, not hashed.

**AgentQueue.** `pc` and `local` are threads of commands and of report handlers;
`hook` and `tries` the hook processes with their one-second waits. A handler that
answers late, twice, or never reached is a choice of `HookStep`. `Fate` says where
a prompt is, for `AgentPromptLine`. Guesses may happen at any time, which stands for
everything the terminal reader, the settle check and the watchdog do.

**AgentDaemon.** A command of the window is a process that takes the connection
lock, probes, dials, is greeted, sends and waits; the service handles each request
on its own thread (`inbox` is a set). Connections are named by the command that
opened them. Deliberate limits: Unix sockets only; the five-second limit on an
attach is left out (a service that answers an attach late is not modelled); a
SIGTERM is a shutdown nobody sent; events reach the reader at once and in order,
while answers wait for their tasks; idle exit depends on clients and sessions only
(an enabled automation, which also keeps a service alive, is left out).

**Automations.** `wnext`/`wlast` and `dnext`/`dlast` are the two sides' marks,
`shown` what React has rendered and stored; code that reads `automationsRef` reads
`shown`. A request may time out with the service alive (`ImportTimesOut`,
`SyncTimesOut`), its answer may come late (`late`, `AnswerTooLate`), and a connection
may break (`ConnectionBreaks`). `alone` says that the window's boot exchange was not
answered, or that it has lost the service that answered it: it ticks by its own list
then. `requests` and `replies` are sets, since the service answers every request on its
own thread; each names the window that asked (`from`), since the answer goes over that
window's connection and to no later one (`Asker`). The list is fixed; a double click
between a start and its render is left out.

**SshTunnel.** A run is a generation. Its `pc` goes through the stages of the start
call, then *serve*, and either side's tear-down *wind → drain → reap*; `permit`
says who holds the slot (the start, the blocking credential job, the session, or
the start call that will release it after the tear-down). `link` is russh's task:
*live → shut → cleaned → gone*, where *cleaned* is the handler's signal and *gone*
its drop, which are two moments. Enabling the gate is merged with the commit: what
could come between, a knock or a stop, is turned away or seen by the worker.

**HostFileJobs and RemoteFiles.** `pc` is the thread of a job, `lock` its
`FileJobState`; `requests` and `responses` are the ordered streams of a session, of
which either side reads a prefix when it breaks. One name in one folder is enough to
make uploads meet; bytes are chunks. The registry is cleared by `StopJobs` while the
threads go on, which is what makes the account of bytes delicate.

**SftpTransfers.** `step` is the command or the task of a transfer, `abort` where each of
the two who may clean up (the worker, a canceller) is. A request to the server may fail
before or after it took effect.

**RemoteSessions, DesktopSessions.** `cmd` is the connect call, from the first look at the
registry to its answer; the tasks of a session and those who stop it have variables of
their own; `events` are closed events on their way, `rows` what the window shows.
`DesktopSessions` gives the three protocols one outline and keeps what differs (pools,
dialogs, race guards, what an end tells) as conditions on `kind`. `exit` is the drain of one
registry after the other and then "gone", the end of the process: no command, worker or
timer of the application steps after it, only the engines do.

**CodexServer and AgentChat.** A server is named by the turn that started it; `work` is the
send of a turn, `given` what a Codex process works on, `active`, `queued`, `named` and
`opened` the state its lock guards. The lines of a CLI are reduced to those that change a
state. A killed process may still be read and written for a while.

**SensitiveClipboard.** `at` is an operation between two calls of the platform, `ticket` and
`serving` the gate, `generation` what tells two copies of one text apart. A close and a
restart of the updater clear before they leave; a restart nobody prepared (`Unprepared`) seals
and ends.

## 3. The runs

| Run | Checks | Shows | Distinct states |
|---|---|---|---|
| `relay` | TablesHold, PermitsConserved, OwnersServed, DialResolves, RendezvousSpec | agents that replace each other, two dials, a join, too few permits, a restart: the tables agree, permits are kept, a viewer meets the owner, every dial is answered, and the tasks implement `RelayRendezvous` | 401 k |
| `agent_queue` | ClosedOnce, PromptLineSpec, VerdictStands, TakenIsTyped | commands, a retried report, a guess and ends from every side: one fate per prompt, verdicts stand, a released prompt is typed | 189 k |
| `agent_queue_repeated_report` | OneReleasePerTurnEnd | **violated**, see 7 | – |
| `agent_daemon_window` | ShownIsOwned, WindowSettles | two launches, or a launch with a list and a stop, over two windows, two processes and a kill: what is shown exists, commands end, lost sessions close | 282 k |
| `automations_hand_over` | ScheduleHolds, RecordInOnePlace, ProgressStays | a window and a service hand over in both directions, with requests that time out, a connection that breaks and a service that is started again | 3.3 M |
| `ssh_tunnel` | StopIsFinal, RowsTrue, StopReaches, RunsEnd | a tunnel that is started, stopped and started again while everything of it winds down in any order | 301 k |
| `remote_files` | BytesAccounted, TransfersTrue, ContentSafe | two uploads to one name and a download over two sessions that break anywhere | 3.0 M |
| `sftp_transfers` | TerminalIsTrue, NoOrphan, ContentStays, TransfersEnd | an upload of the window, a dropped file and a download, cancelled anywhere, with failing requests | 287 k |
| `remote_sessions` | Admission, ToldOnce, Settles | two connects of a profile, ends from all sides, a window that reloads | 646 k |
| `agent_chat` | NoStray, TurnsAnswered, StartupGate, StopEnds | two turns with Claude or Codex that are stopped, refused, retried, handed over, removed or forgotten | 372 k |
| `sensitive_clipboard` | NothingLeft, ErasesItsOwn, AllEnd | a copy beside one other operation of any kind, platform calls that fail or hang, an exit at any point, prepared or not | 419 k |
| `desktop_sessions` | EnginesWithinCaps, ToldOnce, RowsSettle, StopReachesEngines, EnginesEnd | one session of each protocol, and two that compete for the permits; an exit that cuts off whatever is under way | 284 k |

Each run takes one to three minutes with two workers. Deadlock checking is off
everywhere: connections, commands and transfers are used once, and a system whose
bounded users have all had their turn stops. That something owed happens nevertheless
is what the liveness properties (DialResolves, TakenIsTyped, WindowSettles, RunsEnd,
TransfersEnd, Settles, StopEnds, AllEnd, EnginesEnd) say.

## 4. Bounds

A bound is a constant whose comment starts with *bound:*; limits of the code
(`MaxConnections`, `MaxQueued`, `Cap`, `MaxActive`, …) are constants as well, set so
small that they are reached.

- *Relay*: the conflicts are between two connections of a kind, so two of each that
  conflict and one join; a registry with room for one claim, so that a claim is
  refused; three permits for five connections; one pending dial; one restart, as a
  second one starts from a state the first can leave.
- *Queue*: at most two of four commands are issued (`FewCommands`), so that they meet in
  every pair; one place in the queue; one turn and two attempts per report, as a third
  attempt repeats the second.
- *Service*: two launches, or one launch with a list and a stop (`Together`), so that each
  pair of commands overlaps and a launch meets a process that another one started, that is
  leaving, or that was killed; two processes, the second of which replaces the first or
  finds it serving (a third meets the same states); two windows (one closes, the next
  re-attaches); one kill.
- *Automations*: one automation with a schedule and one chained to it, whose time has come
  at the start, so that three instants suffice for a run, the next time and that one's run;
  two exchanges under way (a newer overtakes an older), one request for the runs under way
  besides; one window, and a service that may die and be started once more.
- *Tunnels*: one tunnel that is started twice, so that a restart meets what the run
  before it left, with one slot and one permit for two connections.
- *Remote files*: two uploads to one name and a download, two of them begun; one message
  in each direction, so that every sender waits; two sessions, so that jobs of the first
  meet the second.
- *SFTP*: one transfer of each kind, two at a time, one chunk, two numbered names.
- *Remote sessions*: two calls of one profile, one slot or two, one reload.
- *Conversations*: two turns of one conversation or of two, one retry, one hand-over,
  removal, reload or probe. Three turns were checked once without retries and moves.
- *Clipboard*: a copy beside one other operation of any kind, one text of this
  application and one of another program.
- *Desktop*: each protocol alone, and pairs of RDP and VNC with one permit too few, with
  or without the exit of the application (`MCInstances`).

Symmetry is used in `remote_files` over uploads no definition tells apart, where no
property is checked under fairness.

## 5. Fairness

Weak fairness only, of actions the code owes as soon as they are possible:

- *Relay*: tokio runs every ready task and fires every timer; small writes finish or
  fail; a peer that reads the end of its stream closes, as the serve loops of the
  agent and of the viewer do. Nobody has to connect, join or hang up.
- *Queue*: a thread or hook process that can step does: no lock is held across a
  step and the terminal accepts what is written. The CLI, the user and the guesses
  owe nothing.
- *Service*: tasks and timers go on, a process that decided to leave leaves: one weak
  fairness condition over their union (`Owed`), of which a behaviour takes finitely many
  steps. Nobody owes a window, a command, an event, an idle minute or a crash.
- *Tunnels*: stages end by answer or deadline, the worker's health tick comes, a shut
  socket makes russh's task end. The host, the keyring, peers and users owe nothing;
  the time limit of `stop` is not relied on by `RunsEnd`, which is about the run.
- *SFTP, conversations, clipboard, sessions*: the application's own steps go on (one weak
  fairness condition over their union: each of these models takes finitely many of
  them), a request or a killed process ends. A CLI, an engine in its dialog, the person, a
  hung platform call and the window owe nothing. In `DesktopSessions` this is so only while
  the application's process is there: `stop_all` waits for nobody and the process ends after
  it (`lib.rs:2945`), so `EnginesEnd` says nothing of engines after the exit.

## 6. Proofs

Each proof module proves, for every value of the constants, the theorems below by one
inductive invariant (`IInv`, or a name of its own where a module speaks of two
components): `Init => IInv`, `IInv /\ [Next]_vars => IInv'`, `IInv => P`.
A conjunct that is not the property itself was found by trying to prove the property
and is named for what it says; TLC checked every `IInv` on the instance of the run
before it was proved. The step of a conjunct is a lemma with one step per action, for
one element of the set it quantifies over; the temporal step is PTL.

| Module | Theorems | Why the invariant is inductive |
|---|---|---|
| `RelayServerProofs` | `TypeCorrect`; `TablesConsistent` (TablesHold) from `DialsExclusive`, `PendingJoinsLive`, `TransportsOwned`, `ControlsReachable`; `PermitsKept` (PermitsConserved); `OwnersKept` (OwnersServed) from `OwnersDurable`, `LinksToOwner`; `RendezvousKept` (RendezvousSpec: the refinement, step by step) | `DialInv`: a reservation is released by its own dial because the entry names that dial; a joiner's transport has an owner because the sender came from a pending join of a live dial; at most one joiner is between taking a sender and handing over. `ControlInv`: generations are distinct and not above the counter. `RegistryInv` relates claims in memory, in the file and acknowledged ones. `PermitInv`: the open connections are finite and their permits and the free ones sum to the limit, whoever owns a socket |
| `AgentQueueProofs`, queue | `TypeCorrect`, `BoundHeld` (no more than `MaxQueued`), `ClosesOnce` (ClosedOnce), `VerdictsStand` (VerdictStands), `PromptLineKept` (PromptLineSpec: the refinement, step by step), `TakenIsKept` (a prompt that was taken is given up only when the session is gone) | a prompt is in one place (`Placed`, `Single`), the thread of an attempt nobody made has not begun (`Unborn`); `LineStep` maps every step to one of `AgentPromptLine` or a stutter |
| `AgentQueueProofs`, service | `DaemonTypeCorrect`, `ShownStaysOwned` (ShownIsOwned), `OneConnectsAtATime` (the connection lock), `StartsOnce` (a launch starts one session in one process) | a connection that was greeted is subscribed to the process it leads to, and a request waits on such a connection (`Connected`, `Routed`, in `Wiring`); so what an answer names is in a registry the window hears from, or was seen to close while the command ran (`UpToDate`, `Attended`, in `Shown`); a launch's request is sent once, and what it starts is started by taking it (`Once`); whoever connects holds the lock (`Locking`) |
| `SshTunnelProofs` | `TypeCorrect`, `LimitsHold`, `RowsAreTrue` (RowsTrue), `StopsReach` (StopReaches), `StopsAreFinal` (StopIsFinal) from `RestartIsSafe` (a published completion: no listener, transport or served connection, and no slot but one that an abandoned start left to others) and `DrainedEmpty` | what a run holds follows from where it is, and the slot of an abandoned start is with the keyring's call or the ending transport (`Local`), what a row shows from which run is under way (`Rowed`, `Summed`), a connection belongs to a committed run (`Connected`), a stop waits on a channel the run it told will write (`Awaited`) |
| `SftpTransfersProofs` | `TypeCorrect`, `TerminalHolds` (TerminalIsTrue), `NoOrphanLeft` (NoOrphan), `EndIsFinal`, `ContentIsKept` (ContentStays) | who ends a transfer claims its state while the slot is free (`Finishing`, `Aborting`); a claim leaves somebody who still has to clean up (`Cleaning`); the backup is given up only when the content has its name (`Renamed`, `Kept`) |
| `RemoteProofs`, sessions | `TypeCorrect`, `AdmissionExclusive`, `SlotsHeld`, `AdmissionHolds` (Admission), `EndToldOnce` (ToldOnce), `RowsFollowSessions` (rows, sessions and slots agree but for what is under way) | what a call holds is a function of where it, its supervisor and a stop stand (`Life`), and what two calls of a profile may hold together is `Exclusive`; whatever may still become a row is of a session, or its end was noted where the window looks when it takes the row, or is about to be told (`Noted`) |
| `RemoteProofs`, files | `FilesTypeCorrect`, `BytesExact` (BytesAccounted), `TransfersHold` (TransfersTrue) from `DoneHolds` and `AnswerHolds`, `ContentKept` (ContentSafe) | one upload holds the folder from its staging to its end, whatever session it belongs to (`Folder`), so what it put aside is given up only for content of its own (`Publishing`); a registered job has a thread and counts its bytes until it committed them (`Listed`, `Accounted`); the viewer withdrew a transfer before the agent hears of its cancellation, so the *complete* that answers a cancellation is not believed (`Honest`) |
| `AgentRunProofs`, conversations | `InvariantHolds`, `TypeCorrect`, `NoStrayHolds` (NoStray), `TurnsHold` (TurnsAnswered), `GateHolds` (StartupGate) | a turn is active on the one server it was given to until its end is told (`Assigned`, `Answered`); a turn about to be written still is, or its server has ended and is not used again (`Writing`, `Ended`); what a process works on is its thread and then the active turn (`Given`); who starts holds the gate (`Gated`) |
| `AgentRunProofs`, automations | `ScheduleTypeCorrect`, `SchedulesShared` (ScheduleHolds), `RecordsHandedOnce` (RecordInOnePlace), `ProgressKept` (ProgressStays) | no mark is later than now (`Past`); the records of a run differ from those of later runs by their start (`RecordInv`); while a window is connected to the service that answered its boot exchange, what that service runs only shrinks, so an answer on its way, and what the window goes by once it ticks, name all of it (`Attachment`, `Division`); of a window whose boot exchange failed, or which lost that service, nothing is said (`alone`) |
| `SensitiveClipboardProofs` | `TypeCorrect`, `NothingIsLeft` (NothingLeft), `OnlyItsOwn` (ErasesItsOwn), `NobodyWaitsInVain` (no turn is waited for that nobody has; the exit is not put off) | tickets give one operation its turn (`Ticketed`), so the record is that of the copy on the board while nobody is between writing and tracking (`Recorded`, `Numbered`); a ticket from the called one on is held by an operation in line (`TurnsHeld`), as a timer is armed once (`Armed`) |
| `DesktopSessionsProofs` | `TypeCorrect`, `CapsHold` (EnginesWithinCaps), `OneTells` (ToldOnce), `RowsHold` (RowsSettle), `StopsReachEngines` (StopReachesEngines) | an engine that is not reaped belongs to a command or a worker that keeps its permits (`Lives`, `Permitted`, `Capped`); a record taken out leaves one actor who tells of it (`Registered`, `Told`); a row stands for a session, or for an end that is told or on its way (`Heard`, `Shown`); whoever has an engine or may still start one is in a table that its registry's drain goes over, or was in one when it did (`Seen`) |

The assumptions are those the modules state about their constants: disjoint kinds, finite
sets where a cardinality is taken, limits that are natural numbers, markers (`None`, …)
that are no value of another kind. `OwnersDurable` and `OwnersKept` assume `Durable`: a
relay with a state file, or without a restart, as the documentation says.

Every invariant and every action property the runs check, and both refinements, are
proved. Only model-checked are the liveness properties (DialResolves, TakenIsTyped,
WindowSettles, RunsEnd, TransfersEnd, Settles, StopEnds, AllEnd, EnginesEnd): fairness,
with the ENABLED it stands for, is beyond the prover. Of some the safety half is proved,
that what is owed is never lost on the way, so that only progress is left to TLC:
`TakenIsKept` for TakenIsTyped, `RowsFollowSessions` for Settles, `NobodyWaitsInVain`
for AllEnd, and part of it for WindowSettles (`OneConnectsAtATime`: no command waits for
the lock of one that has ended). These say something at every moment where the liveness
property speaks of the end; TLC checked them on the instances of the runs before they
were proved, and no run is kept for them.

`AgentRunProofs` uses that the times of a bounded set have a latest, which it takes from
the library's theorem on well-founded relations, not from a recursion of its own. No
module used by a proof declares a RECURSIVE operator.

## 7. Findings

**A repeated report releases a second prompt** (`agent_queue_repeated_report`). A
hook that is not answered within a second reports again, while the first copy is
still being handled or its answer is on the way; nothing recognises the copy, so
one turn end takes two prompts from the queue, the second of which is typed into
a CLI that is working. The test at `agent.rs:9711` says one turn end releases
exactly one prompt.

### Observed in the code

Reached by the models, or met while reading, without a run of their own:

- *Queue*: `enqueue` looks at the state, then at the queue, then pushes, under three
  locks; a report that arrives between finds the queue empty, and nothing is left that
  would release the prompt (`agent.rs:6112`, against the comment at 6098). Two prompts
  sent one after the other may be typed in the other order; the depth that is shown may
  be the older of two.
- *Service*: a process that could not bind, or that leaves late, removes the socket path
  by name, also when another process is listening there (`agent_daemon/server.rs:110`,
  against `mod.rs:12`). A session that was launched and has published no event yet is
  not closed in the window if the service dies.
- *Automations*: a round the service ran may be run again by the window, when its record
  is imported before the marks (`agentAutomations.ts:449`); the due mark of a chained
  automation is restored after it was consumed (`agentAutomations.ts:451`); *run now*
  starts an automation the service is running (`useAgentAutomations.ts:276`, against
  `README.md:179`). A boot exchange that is rejected by a live service, by its time limit of
  30 seconds for one (`client.rs:220`), is taken for no answer: the window sets
  `backgroundReady` and ticks by an empty list beside what the service runs
  (`useAgentAutomations.ts:147`, 165, 194), so an automation may run twice and the cap is
  exceeded, against the comment at `useAgentAutomations.ts:187`; so it is when the connection
  breaks and the service lives on. `ScheduleHolds` excepts both (`alone`). A record the
  service gave out is lost when the window closes or its request times out meanwhile.
- *Tunnels*: an abandoned start may publish its completion while its slot is taken: until
  the transport's task has dropped its handler, or, if it was stopped while reading its
  credential, until the keyring's call returns. A restart at that moment may be refused.
- *Remote files*: a cancelled transfer whose completion was being handled is shown as
  done, truly (`remote_files.rs:660`).
- *SFTP*: an upload of a dropped file may be shown as cancelled although its content was
  published; a failed promotion frees the slot before the abort takes it again, so the
  error that names the backup may be lost; when the answer to the rename that protects
  the target is lost, the original is left under the hidden backup name only; a download
  begun while the session closes may stay *running*.
- *Remote sessions*: a session whose reader could not be started is removed without a
  closed event; a connect under way during a reload leaves a live session without a row.
  The error paths of `commit` are not reachable (proved as part of `AdmissionExclusive`).
- *Conversations*: a hand-over to another account keeps the old Codex server, which runs the
  next turn under the old account (`codex_server.rs:298`, against `agentChat.ts:273`);
  an idle Codex server hides Claude's approval in `respond`; close and stop miss a send
  that waits at the gate, sleeps before a retry, or stands between the start of a server
  and its entry; the reaping of idle servers and the kill after the grace period act on
  what they saw before and may end a new turn; a Claude process that says nothing holds the
  startup gate without a limit; Claude's approval event is sent before its input is
  registered.
- *Clipboard*: another program that copies between the read and the erase of a timer is
  erased; a platform call that hangs blocks every later operation; a restart that did not
  come through `app_restart_safely` ends the application without clearing (`lib.rs:2942`).
- *Desktop*: `useSshSessions` has no race guard, so `RowsSettle` speaks of RDP and VNC;
  frames between the commit of a session and the answer of its connect are dropped; an SSH
  disconnect can wait behind a full queue; a reload during a connect can hide its session.
  The exit asks the workers to stop and the process ends without waiting for them
  (`lib.rs:2945`), so `kill_on_drop` need not run: an engine that reads its input ends with
  its pipe, but a `lattice-vnc` that is still connecting does not read it
  (`lattice-vnc/src/main.rs:355`) and outlives the application for a while.
- *Vault, credentials, backup* (read, not modelled): a delete whose write fails has removed
  the secret from memory, and its retry answers that all is well although the secret
  returns at the next unlock (`vault.rs:386`, against `credentials.rs:462`); the deletion
  of a profile races a connect that remembers its secret (`lib.rs:1322`); while the vault is
  locked, a load falls back to an older secret of the other backend; a crash during a
  restore leaves a mixture (`backup.rs:388`).

## 8. What is not modelled

`PROJECT.json` lists every part with its status. Within the modelled parts: bytes and
wire formats, rate limits, validation of requests, wording and logs; Gemini, three-turn
races over the reaping of another thread's server, and a second stop of a Codex turn;
screen streams, input and pairing. Whole parts: the secure channel (cryptography, not
interleaving); the frame protocols of the engines; parsing of transcripts, history, plans
and metrics; the vault, credentials, backup and storage (planned); the interface; build and
release scripts; vendored code.

## 9. Plan

1. *Done*: the modules of section 2, their runs, and the theorems of section 6.
2. *Proofs*: the safety of every component that is modelled is proved. What is left is the
   safety half of the other liveness properties (DialResolves, RunsEnd, TransfersEnd,
   StopEnds, EnginesEnd), and measures that every step of a bounded component decreases.
3. *Application data* (`AppData`): profiles, host keys, plans, credentials, the vault and
   their files under one model with deletion, export, restore and a crash: memory agrees
   with the files, no secret is lost or comes back, a backup is whole.
4. *Agent life cycle*: launch, worktrees and the ACP registry; *remote agent*: pairing and
   the single-viewer slot.
