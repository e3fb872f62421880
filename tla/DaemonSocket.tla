---------------------------- MODULE DaemonSocket ----------------------------
(***************************************************************************)
(* The life of the agent-daemon processes of one installation, as seen    *)
(* from the socket path they share: a process probes the path, may remove  *)
(* a file nobody answers on, binds, serves, and unlinks the path when it   *)
(* ends.  Several processes can be alive at once, and the path names at    *)
(* most one of them.  What a process owns while it serves is left to the   *)
(* modules that extend this one.                                           *)
(*                                                                         *)
(* Source: src-tauri/src/agent_daemon/server.rs and transport.rs (Unix).   *)
(***************************************************************************)
EXTENDS Naturals, FiniteSets

CONSTANTS
  Daemons,   \* daemon processes, each started at most once
  Nobody,    \* no file at the path, no daemon, no command
  MaxKills   \* bound: processes that die without cleaning up

ASSUME SocketAssumption == Nobody \notin Daemons /\ MaxKills \in Nat

VARIABLES
  life,    \* where each process is
  sock,    \* whose socket file the path names: bound by it, alive or stale
  told,    \* processes that were asked to shut down
  kills    \* processes killed so far

socketVars == <<life, sock, told, kills>>

Lives == {"unborn", "starting", "clearing", "binding", "bound", "serving",
          "closing", "stopping", "removing", "gone"}

SocketTypeOK ==
  /\ life \in [Daemons -> Lives]
  /\ sock \in Daemons \cup {Nobody}
  /\ told \subseteq Daemons
  /\ kills \in 0..MaxKills

SocketInit ==
  /\ life = [d \in Daemons |-> "unborn"]
  /\ sock = Nobody
  /\ told = {}
  /\ kills = 0

(* A listener answers a connect as soon as it is bound; a window insists on *)
(* the mode that bind sets last.                                           *)
Listens(d)  == life[d] \in {"bound", "serving"}
Admits(d)   == life[d] = "serving"
Running(d)  == life[d] \notin {"unborn", "gone"}
(* Connection tasks keep running until the process is gone.                *)
Handling(d) == life[d] \in {"serving", "closing", "stopping", "removing"}

Become(d, from, to) == life[d] = from /\ life' = [life EXCEPT ![d] = to]

----------------------------------------------------------------------------
(* bind *)

(* The path is free, or somebody answers there, or the file is stale.      *)
Probe(d) ==
  /\ Become(d, "starting",
       CASE sock = Nobody   -> "binding"
         [] sock # Nobody /\ Listens(sock) -> "stopping"
         [] OTHER         -> "clearing")
  /\ UNCHANGED <<sock, told, kills>>

(* remove_file fails when another process removed the file first.          *)
ClearStale(d) ==
  /\ \/ sock # Nobody /\ Become(d, "clearing", "binding") /\ sock' = Nobody
     \/ sock = Nobody /\ Become(d, "clearing", "stopping") /\ UNCHANGED sock
  /\ UNCHANGED <<told, kills>>

Bind(d) ==
  /\ \/ sock = Nobody /\ Become(d, "binding", "bound") /\ sock' = d
     \/ sock # Nobody /\ Become(d, "binding", "stopping") /\ UNCHANGED sock
  /\ UNCHANGED <<told, kills>>

Open(d) == Become(d, "bound", "serving") /\ UNCHANGED <<sock, told, kills>>

----------------------------------------------------------------------------
(* The end of serve and of run *)

(* The accept loop breaks and the listener is dropped: asked to, or idle.  *)
StopListening(d) ==
  /\ Become(d, "serving", "closing")
  /\ UNCHANGED <<sock, told, kills>>

Unlink(d) ==
  /\ Become(d, "closing", "stopping")
  /\ sock' = Nobody
  /\ UNCHANGED <<told, kills>>

(* stop_all: also where a process ends up that could not bind.             *)
StopOwned(d) == Become(d, "stopping", "removing") /\ UNCHANGED <<sock, told, kills>>

(* run removes the path again, whoever's file is there by now.             *)
Exit(d) ==
  /\ Become(d, "removing", "gone")
  /\ sock' = Nobody
  /\ UNCHANGED <<told, kills>>

(* A crash, or a power cut: the file stays.                                *)
Kill(d) ==
  /\ Running(d)
  /\ kills < MaxKills
  /\ kills' = kills + 1
  /\ life' = [life EXCEPT ![d] = "gone"]
  /\ UNCHANGED <<sock, told>>
=============================================================================
