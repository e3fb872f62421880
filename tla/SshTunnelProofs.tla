-------------------------- MODULE SshTunnelProofs --------------------------
(***************************************************************************)
(* Proofs about SshTunnel, for any number of tunnels, runs, connections    *)
(* and stops.  What a run holds follows from where it is (Local); what its *)
(* tunnel's row shows follows from which run is under way (Rowed, Summed); *)
(* a connection belongs to a committed run (Connected); a stop waits on a  *)
(* channel that the run it told will write (Awaited).                      *)
(***************************************************************************)
EXTENDS SshTunnel, FiniteSetTheorems, TLAPS

Dialling == {"connect", "handshake", "auth", "forward", "commit"}

\* What a run holds, by where its start call or its worker is.
Local(r) ==
  /\ pc[r] = "unused" <=> r > runs
  /\ pc[r] = "unused" => of[r] = None /\ permit[r] = "none"
  /\ pc[r] # "unused" => of[r] \in Tunnels
  /\ r \in committed => pc[r] \in {"serve", "wind", "drain", "reap", "finish", "over"}
  /\ pc[r] \in {"serve", "finish"} => r \in committed
  /\ pc[r] = "credential" => permit[r] = "job"
  /\ pc[r] = "bind" => permit[r] = "start"
  /\ pc[r] \in Dialling => permit[r] = "session"
  /\ r \in committed /\ pc[r] \in {"finish", "over"} => permit[r] = "none"
  /\ pc[r] = "leave" => permit[r] # "setup"
  /\ pc[r] \in {"cancel", "over"} /\ r \notin committed => permit[r] = "none" \/ LeftToOthers(r)
  /\ pc[r] \in {"unused", "credential", "bind", "connect"} => link[r] = "none"
  /\ pc[r] \in {"leave", "cancel", "finish", "over"} => link[r] \in {"none", "cleaned", "gone"}
  /\ r \in listening => pc[r] \notin {"unused", "credential", "bind", "cancel", "over"}
  /\ r \in listening /\ r \in committed => pc[r] \in {"serve", "wind"}
  /\ r \in gate => r \in committed /\ pc[r] \in {"serve", "wind"}
  /\ r \in committed /\ pc[r] \in {"drain", "reap", "finish", "over"} => r \in stop

\* Rows and runs name each other.
Named(t) == row[t].gen # 0 => row[t].gen <= runs /\ of[row[t].gen] = t
Owned(t) == row[t].owned <=> row[t].gen # 0 /\ UnderWay(row[t].gen)
Shown(r) == UnderWay(r) =>
  /\ row[of[r]].gen = r
  /\ row[of[r]].status = IF r \in committed THEN "active" ELSE "starting"
Newest(r) == UnderWay(r) => \A q \in Runs : of[q] = of[r] => q <= r

\* The row w is what the runs of t that were committed and have ended left.
Summary(t, w) ==
  IF Ended(t) = {} THEN w = NoRow
  ELSE \E r \in Ended(t) :
         /\ \A q \in Ended(t) : q <= r
         /\ w = [gen |-> r, status |-> outcome[r], owned |-> FALSE]

Rowed  == (\A t \in Tunnels : Named(t) /\ Owned(t)) /\ (\A r \in Runs : Shown(r) /\ Newest(r))
Summed == /\ \A t \in Tunnels : ~row[t].owned => Summary(t, row[t])
          /\ \A r \in Runs : UnderWay(r) /\ r \notin committed => Summary(of[r], prev[r])

\* A connection, the permits it holds and the run it belongs to.
Connected(c) ==
  /\ at[c] = "idle" <=> runOf[c] = None
  /\ at[c] \in {"idle", "ask"} => lease[c] = {}
  /\ at[c] \in {"asked", "open"} => lease[c] = {"tunnel", "global"}
  /\ at[c] = "leaving" => lease[c] = {"tunnel"}
  /\ runOf[c] # None =>
       /\ runOf[c] \in committed
       /\ pc[runOf[c]] \in {"reap", "finish", "over"} => at[c] \in {"ask", "asked"}

\* What was published is over, and what is awaited will be published.
Published == \A r \in Runs :
  /\ <<r, "start">> \in done => pc[r] = "over" /\ r \notin committed
  /\ <<r, "run">> \in done => pc[r] = "over" /\ r \in committed
Awaited == StopHeard /\ \A s \in Stoppers : waits[s] # None => waits[s][1] \in stop

IInv ==
  /\ TypeOK /\ WithinLimits /\ Rowed /\ Summed /\ Published /\ Awaited /\ SealHolds
  /\ \A r \in Runs : Local(r)
  /\ \A c \in Conns : Connected(c)
----------------------------------------------------------------------------
(* Types.  A step of a run, of a connection, of a stop.                     *)

RunSteps(r) == StartSteps(r) \/ WorkerSteps(r) \/ LinkSteps(r) \/ DetachedJobEnds(r)
PeerSteps(c) == ConnSteps(c) \/ \E r \in Runs : Accept(r, c) \/ Knock(r, c)
StopSteps == (\E s \in Stoppers : StopReturns(s) \/ \E t \in Tunnels : Stop(s, t)) \/ Seal \/ TellAll

LEMMA NextSteps ==
  Next => \/ \E t \in Tunnels, k \in {"local", "remote"} : Start(t, k)
          \/ \E r \in Runs : RunSteps(r)
          \/ \E c \in Conns : PeerSteps(c)
          \/ StopSteps
BY DEF Next, RunSteps, PeerSteps, StopSteps

LEMMA Numbers == Runs \subseteq Nat \ {0} /\ 0 \notin Runs /\ None \notin Runs /\ None \notin Tunnels
BY TunnelAssumption DEF Runs

\* commit_start replaces a field of a row.
LEMMA RowField ==
  ASSUME row \in [Tunnels -> Rows], NEW t,
         NEW status \in {"active", "stopped", "error"}
  PROVE  [row EXCEPT ![t].status = status] \in [Tunnels -> Rows]
BY DEF Rows

LEMMA RunTypes ==
  ASSUME TypeOK, NEW r \in Runs, Local(r), RunSteps(r)
  PROVE  TypeOK'
<1> USE Numbers DEF TypeOK, PCs, Starting, Ending, registryVars, startVars, sessionVars, endVars,
      connVars, Go, Hold, Wire
<1>1. CASE StartSteps(r)
  <2>1. CASE CredentialRead(r)  BY <2>1 DEF CredentialRead, Stage, Bound
  <2>2. CASE Bind(r)  BY <2>2 DEF Bind, Stage
  <2>3. CASE Connect(r)  BY <2>3 DEF Connect, Stage
  <2>4. CASE HostAgrees(r)  BY <2>4 DEF HostAgrees
  <2>5. CASE StageFails(r)  BY <2>5 DEF StageFails, GivesUp
  <2>6. CASE Commit(r)
    <3>1. [row EXCEPT ![of[r]].status = "active"] \in [Tunnels -> Rows]
      BY RowField
    <3> QED BY <2>6, <3>1 DEF Commit
  <2>7. CASE LeaveStart(r)  BY <2>7 DEF LeaveStart
  <2>8. CASE CancelStart(r)  BY <2>8 DEF CancelStart
  <2> QED BY <1>1, <2>1, <2>2, <2>3, <2>4, <2>5, <2>6, <2>7, <2>8 DEF StartSteps
<1>2. CASE WorkerSteps(r)
  <2>1. ASSUME NEW how \in {"stopped", "error"}, Breaks(r, how)  PROVE TypeOK'
    BY <2>1 DEF Breaks
  <2>2. CASE Wind(r)  BY <2>2 DEF Wind
  <2>3. CASE Drain(r)  BY <2>3 DEF Drain
  <2>4. CASE Reap(r)  BY <2>4 DEF Reap
  <2>5. CASE Finish(r)
    <3>1. [gen |-> r, status |-> outcome[r], owned |-> FALSE] \in Rows
      BY DEF Rows, Runs
    <3>2. row' \in [Tunnels -> Rows]
      <4> HIDE DEF TypeOK
      <4>1. row \in [Tunnels -> Rows]
        BY DEF TypeOK
      <4> QED BY <2>5, <3>1, <4>1 DEF Finish
    <3> QED BY <2>5, <3>2 DEF Finish
  <2> QED BY <1>2, <2>1, <2>2, <2>3, <2>4, <2>5 DEF WorkerSteps, SeesStop, HealthTick, ListenerFails
<1>3. CASE LinkSteps(r)
  <2>1. CASE LinkDrops(r)  BY <2>1 DEF LinkDrops
  <2>2. CASE LinkCleans(r)  BY <2>2 DEF LinkCleans
  <2>3. CASE LinkGone(r)  BY <2>3 DEF LinkGone
  <2>4. CASE WrongBind(r)  BY <2>4 DEF WrongBind
  <2> QED BY <1>3, <2>1, <2>2, <2>3, <2>4 DEF LinkSteps
<1>4. CASE DetachedJobEnds(r)
  BY <1>4 DEF DetachedJobEnds
<1> QED BY <1>1, <1>2, <1>3, <1>4 DEF RunSteps

LEMMA PeerTypes ==
  ASSUME TypeOK, NEW c \in Conns, Connected(c), PeerSteps(c)
  PROVE  TypeOK'
<1> USE DEF TypeOK, registryVars, startVars, sessionVars, Put, Quiet, Leave
<1>1. CASE ConnSteps(c)
  BY <1>1 DEF ConnSteps, TakePermits, Recheck, ConnEnds, ConnStops, ConnLeft, ConnFails, Connected
<1>2. ASSUME NEW r \in Runs, Accept(r, c) \/ Knock(r, c)  PROVE TypeOK'
  BY <1>2 DEF Accept, Knock
<1> QED BY <1>1, <1>2 DEF PeerSteps

LEMMA OtherTypes ==
  ASSUME TypeOK, Rowed,
         \/ \E t \in Tunnels, k \in {"local", "remote"} : Start(t, k)
         \/ StopSteps
  PROVE  TypeOK'
<1> USE Numbers DEF TypeOK, registryVars, startVars, sessionVars, endVars, connVars
<1>1. ASSUME NEW t \in Tunnels, NEW k \in {"local", "remote"}, Start(t, k)
      PROVE  TypeOK'
  <2>1. Reserve(t, k, MaxActive)
    BY <1>1 DEF Start
  <2> DEFINE r == runs + 1
  <2>2. /\ r \in Runs /\ runs' = r
        /\ row' = [row EXCEPT ![t] = [gen |-> r, status |-> "starting", owned |-> TRUE]]
        /\ of' = [of EXCEPT ![r] = t] /\ kind' = [kind EXCEPT ![r] = k]
        /\ prev' = [prev EXCEPT ![r] = row[t]]
        /\ pc' = [pc EXCEPT ![r] = "credential"] /\ permit' = [permit EXCEPT ![r] = "job"]
    <3>1. runs \in Nat /\ runs < MaxRuns /\ MaxRuns \in Nat
      BY <2>1, TunnelAssumption DEF Reserve
    <3>2. r \in Runs  BY <3>1 DEF Runs
    <3> QED BY <2>1, <3>2 DEF Reserve, Go, Hold
  <2> HIDE DEF r
  <2>3. runs' \in 0..MaxRuns /\ row[t] \in Rows
    BY <2>2, TunnelAssumption DEF Runs
  <2>4. row' \in [Tunnels -> Rows] /\ prev' \in [Runs -> Rows]
    <3>1. [gen |-> runs', status |-> "starting", owned |-> TRUE] \in Rows
      BY <2>2, <2>3 DEF Rows
    <3> QED BY <2>2, <2>3, <3>1
  <2>5. /\ of' \in [Runs -> Tunnels \cup {None}] /\ kind' \in [Runs -> {"local", "remote"}]
        /\ pc' \in [Runs -> PCs]
        /\ permit' \in [Runs -> {"none", "start", "job", "session", "setup"}]
    BY <2>2 DEF PCs, Starting
  <2> QED BY <2>1, <2>3, <2>4, <2>5 DEF Reserve
<1>2. \A t \in Tunnels : row[t].owned => row[t].gen \in Runs
  BY DEF Rowed, Named, Owned, Rows, Runs
<1>3. CASE StopSteps
  <2>1. ASSUME NEW s \in Stoppers, NEW t \in Tunnels, Stop(s, t)  PROVE TypeOK'
    <3>1. row[t].gen \in Runs /\ Channel(t) \in Runs \X {"start", "run"}
      BY <1>2, <2>1 DEF Stop, Channel
    <3>2. stop' \subseteq Runs /\ waits' \in [Stoppers -> (Runs \X {"start", "run"}) \cup {None}]
      BY <2>1, <3>1 DEF Stop
    <3> QED BY <2>1, <3>2 DEF Stop
  <2>2. ASSUME NEW s \in Stoppers, StopReturns(s)  PROVE TypeOK'
    BY <2>2 DEF StopReturns
  <2>3. CASE Seal  BY <2>3 DEF Seal
  <2>4. CASE TellAll
    <3>1. {row[t].gen : t \in {u \in Tunnels : row[u].owned}} \subseteq Runs
      BY <1>2
    <3> QED BY <2>4, <3>1 DEF TellAll
  <2> QED BY <1>3, <2>1, <2>2, <2>3, <2>4 DEF StopSteps
<1> QED BY <1>1, <1>3
----------------------------------------------------------------------------
(* What a run holds.                                                        *)

\* A step leaves alone what Local looks at for q.
Same(q) ==
  /\ runs' = runs /\ pc'[q] = pc[q] /\ of'[q] = of[q]
  /\ permit'[q] = permit[q] /\ link'[q] = link[q]
  /\ q \in committed' <=> q \in committed
  /\ q \in listening' <=> q \in listening
  /\ q \in gate' <=> q \in gate
  /\ q \in stop => q \in stop'

LEMMA LocalFrame ==
  ASSUME NEW q \in Runs, Local(q), Same(q)
  PROVE  Local(q)'
BY DEF Local, LeftToOthers, Same

LEMMA RunSame ==
  ASSUME TypeOK, NEW r \in Runs, RunSteps(r), NEW q \in Runs, q # r
  PROVE  Same(q)
<1> USE DEF TypeOK, Same, registryVars, startVars, sessionVars, Go, Hold, Wire
<1>1. CASE StartSteps(r)
  BY <1>1 DEF StartSteps, CredentialRead, Stage, Bound, Bind, Connect, HostAgrees, StageFails,
       GivesUp, Commit, LeaveStart, CancelStart
<1>2. CASE WorkerSteps(r)
  BY <1>2 DEF WorkerSteps, SeesStop, HealthTick, ListenerFails, Breaks, Wind, Drain, Reap, Finish
<1>3. CASE LinkSteps(r) \/ DetachedJobEnds(r)
  BY <1>3 DEF LinkSteps, LinkDrops, LinkCleans, LinkGone, WrongBind, DetachedJobEnds
<1> QED BY <1>1, <1>2, <1>3 DEF RunSteps

LEMMA RunLocal ==
  ASSUME TypeOK, NEW r \in Runs, Local(r), RunSteps(r)
  PROVE  Local(r)'
<1> USE DEF TypeOK, Local, LeftToOthers, Dialling, registryVars, startVars, sessionVars, Go, Hold,
           Wire
<1>1. CASE CredentialRead(r)  BY <1>1 DEF CredentialRead, Stage, Bound
<1>2. CASE Bind(r)  BY <1>2 DEF Bind, Stage
<1>3. CASE Connect(r)  BY <1>3 DEF Connect, Stage
<1>4. CASE HostAgrees(r)  BY <1>4 DEF HostAgrees
<1>5. CASE StageFails(r)  BY <1>5 DEF StageFails, GivesUp
<1>6. CASE Commit(r)  BY <1>6 DEF Commit
<1>7. CASE LeaveStart(r)  BY <1>7 DEF LeaveStart
<1>8. CASE CancelStart(r)  BY <1>8 DEF CancelStart
<1>9. CASE SeesStop(r) \/ HealthTick(r) \/ ListenerFails(r)
  BY <1>9 DEF SeesStop, HealthTick, ListenerFails, Breaks
<1>10. CASE Wind(r)  BY <1>10 DEF Wind
<1>11. CASE Drain(r)  BY <1>11 DEF Drain
<1>12. CASE Reap(r)  BY <1>12 DEF Reap
<1>13. CASE Finish(r)  BY <1>13 DEF Finish
<1>14. CASE LinkSteps(r)
  BY <1>14 DEF LinkSteps, LinkDrops, LinkCleans, LinkGone, WrongBind
<1>15. CASE DetachedJobEnds(r)  BY <1>15 DEF DetachedJobEnds
<1> QED BY <1>1, <1>2, <1>3, <1>4, <1>5, <1>6, <1>7, <1>8, <1>9, <1>10, <1>11, <1>12, <1>13,
           <1>14, <1>15 DEF RunSteps, StartSteps, WorkerSteps

LEMMA PeerSame ==
  ASSUME (\E c \in Conns : PeerSteps(c)) \/ StopSteps, NEW q \in Runs
  PROVE  Same(q)
BY DEF PeerSteps, ConnSteps, TakePermits, Recheck, ConnEnds, ConnStops, ConnLeft, ConnFails,
     Leave, Accept, Knock, Quiet, StopSteps, Stop, StopReturns, Seal, TellAll, Same,
     registryVars, startVars, sessionVars

LEMMA StartLocal ==
  ASSUME TypeOK, \A q \in Runs : Local(q), NEW t \in Tunnels, NEW k \in {"local", "remote"},
         Start(t, k), NEW q \in Runs
  PROVE  Local(q)'
<1> USE Numbers DEF TypeOK, Start, Reserve, Go, Hold, sessionVars
<1>1. CASE q = runs + 1
  BY <1>1 DEF Local, LeftToOthers, Dialling, Runs
<1>2. CASE q # runs + 1
  BY <1>2 DEF Local, LeftToOthers, Dialling, Runs
<1> QED BY <1>1, <1>2

LEMMA LocalStep ==
  ASSUME TypeOK, \A q \in Runs : Local(q), [Next]_vars
  PROVE  \A q \in Runs : Local(q)'
<1>1. ASSUME NEW r \in Runs, RunSteps(r), NEW q \in Runs  PROVE Local(q)'
  <2>1. CASE q = r  BY <1>1, <2>1, RunLocal
  <2>2. CASE q # r  BY <1>1, <2>2, RunSame, LocalFrame
  <2> QED BY <2>1, <2>2
<1>2. ASSUME (\E c \in Conns : PeerSteps(c)) \/ StopSteps, NEW q \in Runs  PROVE Local(q)'
  BY <1>2, PeerSame, LocalFrame
<1>3. ASSUME UNCHANGED vars, NEW q \in Runs  PROVE Local(q)'
  BY <1>3, LocalFrame DEF Same, vars, registryVars, startVars, sessionVars
<1> QED BY <1>1, <1>2, <1>3, StartLocal, NextSteps
----------------------------------------------------------------------------
(* Rows.  Only a start, a commit, an abandoned start and the end of a       *)
(* worker touch them.                                                       *)

Calm ==
  /\ UNCHANGED <<row, runs, of, prev, committed>>
  /\ \A q \in Runs : UnderWay(q)' <=> UnderWay(q)
  /\ \A q \in Runs : pc'[q] = "over" <=> pc[q] = "over"
  /\ \A q \in Runs : pc[q] = "over" => outcome'[q] = outcome[q]

LEMMA CalmEnded ==
  ASSUME TypeOK, Calm, NEW t
  PROVE  Ended(t)' = Ended(t)
BY DEF TypeOK, Calm, Ended

LEMMA CalmRows ==
  ASSUME TypeOK, \A q \in Runs : Local(q), Calm, Rowed, Summed
  PROVE  Rowed' /\ Summed'
<1>1. ASSUME NEW t, NEW w, Summary(t, w)
      PROVE  Summary(t, w)'
  BY <1>1, CalmEnded DEF Summary, Calm, TypeOK, Ended
<1>2. \A t \in Tunnels : Named(t)' /\ Owned(t)'
  <2> SUFFICES ASSUME NEW t \in Tunnels  PROVE Named(t)' /\ Owned(t)'
    OBVIOUS
  <2>1. Named(t) /\ Owned(t) /\ row[t].gen \in 0..MaxRuns
    BY DEF Rowed, TypeOK, Rows
  <2> QED BY <2>1, TunnelAssumption DEF Calm, Named, Owned, Runs
<1>3. \A q \in Runs : Shown(q)' /\ Newest(q)'
  BY DEF Calm, Rowed, Shown, Newest
<1>4. Summed'
  BY <1>1 DEF Calm, Summed
<1> QED BY <1>2, <1>3, <1>4 DEF Rowed

LEMMA CalmRun ==
  ASSUME TypeOK, NEW r \in Runs, Local(r), RunSteps(r), ~Commit(r), ~CancelStart(r), ~Finish(r)
  PROVE  Calm
<1> USE DEF TypeOK, Calm, UnderWay, registryVars, startVars, sessionVars, endVars, Go, Hold, Wire
<1>1. CASE StartSteps(r)
  BY <1>1 DEF StartSteps, CredentialRead, Stage, Bound, Bind, Connect, HostAgrees, StageFails,
       GivesUp, LeaveStart
<1>2. CASE WorkerSteps(r)
  BY <1>2 DEF WorkerSteps, SeesStop, HealthTick, ListenerFails, Breaks, Wind, Drain, Reap
<1>3. CASE LinkSteps(r) \/ DetachedJobEnds(r)
  BY <1>3 DEF LinkSteps, LinkDrops, LinkCleans, LinkGone, WrongBind, DetachedJobEnds
<1> QED BY <1>1, <1>2, <1>3 DEF RunSteps

LEMMA CalmOther ==
  ASSUME (\E c \in Conns : PeerSteps(c)) \/ StopSteps \/ UNCHANGED vars
  PROVE  Calm
BY DEF PeerSteps, ConnSteps, TakePermits, Recheck, ConnEnds, ConnStops, ConnLeft, ConnFails,
     Leave, Accept, Knock, Quiet, StopSteps, Stop, StopReturns, Seal, TellAll, Calm, UnderWay,
     registryVars, startVars, sessionVars, endVars, vars

LEMMA CommitRows ==
  ASSUME TypeOK, \A q \in Runs : Local(q), Rowed, Summed, NEW r \in Runs, Commit(r)
  PROVE  Rowed' /\ Summed'
<1> USE Numbers
<1>1. pc[r] = "commit" /\ of[r] \in Tunnels /\ r \notin committed
  BY DEF Commit, Local
<1>2. CASE ~MayCommit(r)
  <2>1. Calm
    BY <1>1, <1>2 DEF Commit, Calm, UnderWay, Go, Hold, TypeOK, endVars
  <2> QED BY <2>1, CalmRows
<1>3. CASE MayCommit(r)
  <2>1. /\ row' = [row EXCEPT ![of[r]].status = "active"]
        /\ committed' = committed \cup {r} /\ pc' = [pc EXCEPT ![r] = "serve"]
        /\ UNCHANGED <<runs, of, prev, outcome>>
    BY <1>3 DEF Commit, Go, endVars
  <2>2. \A t \in Tunnels : /\ row'[t].gen = row[t].gen /\ row'[t].owned = row[t].owned
                           /\ t # of[r] => row'[t] = row[t]
    BY <2>1 DEF TypeOK, Rows
  <2>3. \A q \in Runs : UnderWay(q)' <=> UnderWay(q)
    BY <1>1, <2>1 DEF UnderWay, TypeOK
  <2>4. \A t : Ended(t)' = Ended(t)
    BY <1>1, <2>1 DEF Ended, TypeOK
  <2>5. \A t \in Tunnels : Named(t)' /\ Owned(t)'
    <3> SUFFICES ASSUME NEW t \in Tunnels  PROVE Named(t)' /\ Owned(t)'
      OBVIOUS
    <3>1. Named(t) /\ Owned(t) /\ row[t].gen \in 0..MaxRuns
      BY DEF Rowed, TypeOK, Rows
    <3> QED BY <2>1, <2>2, <2>3, <3>1, TunnelAssumption DEF Named, Owned, Runs
  <2>6. \A q \in Runs : Shown(q)' /\ Newest(q)'
    <3> SUFFICES ASSUME NEW q \in Runs  PROVE Shown(q)' /\ Newest(q)'
      OBVIOUS
    <3>1. Newest(q)'
      BY <2>1, <2>3 DEF Newest, Rowed
    <3>2. Shown(q)'
      BY <1>1, <2>1, <2>2, <2>3 DEF Shown, Rowed, TypeOK, Rows, UnderWay, Local
    <3> QED BY <3>1, <3>2
  <2>7. row[of[r]].owned
    BY <1>1 DEF Rowed, Shown, Owned, UnderWay
  <2>8. Summed'
    <3>1. ASSUME NEW t, NEW w, Summary(t, w)  PROVE Summary(t, w)'
      BY <2>1, <2>4, <3>1 DEF Summary, Ended
    <3> QED BY <1>1, <2>1, <2>2, <2>3, <2>7, <3>1 DEF Summed
  <2> QED BY <2>5, <2>6, <2>8 DEF Rowed
<1> QED BY <1>2, <1>3

LEMMA CancelRows ==
  ASSUME TypeOK, \A q \in Runs : Local(q), Rowed, Summed, NEW r \in Runs, CancelStart(r)
  PROVE  Rowed' /\ Summed'
<1> USE Numbers
<1>1. pc[r] = "cancel" /\ of[r] \in Tunnels /\ r \notin committed /\ UnderWay(r)
  BY DEF CancelStart, Local, UnderWay
<1>2. row[of[r]].gen = r /\ row[of[r]].status = "starting" /\ Summary(of[r], prev[r])
  BY <1>1 DEF Rowed, Shown, Summed
<1>3. /\ row' = [row EXCEPT ![of[r]] = prev[r]] /\ pc' = [pc EXCEPT ![r] = "over"]
      /\ UNCHANGED <<runs, of, prev, committed, outcome>>
  BY <1>2 DEF CancelStart, Go, startVars, endVars
<1>4. \A q \in Runs : UnderWay(q)' <=> UnderWay(q) /\ q # r
  BY <1>1, <1>3 DEF UnderWay, TypeOK
<1>5. \A t : Ended(t)' = Ended(t)
  BY <1>1, <1>3 DEF Ended, TypeOK
<1>6. ASSUME NEW t, NEW w, Summary(t, w)  PROVE Summary(t, w)'
  BY <1>3, <1>5, <1>6 DEF Summary, Ended
<1>7. prev[r] = NoRow \/ (~prev[r].owned /\ prev[r].gen \in Ended(of[r]))
  <2>1. CASE Ended(of[r]) = {}
    BY <1>2, <2>1 DEF Summary
  <2>2. CASE Ended(of[r]) # {}
    <3>1. PICK e \in Ended(of[r]) : prev[r] = [gen |-> e, status |-> outcome[e], owned |-> FALSE]
      BY <1>2, <2>2 DEF Summary
    <3>2. prev[r].gen = e /\ ~prev[r].owned
      BY <3>1
    <3> QED BY <3>2
  <2> QED BY <2>1, <2>2
<1>8. ASSUME NEW t \in Tunnels  PROVE Named(t)' /\ Owned(t)'
  <2>1. CASE t = of[r]
    <3>1. row'[t] = prev[r]
      BY <1>3, <2>1 DEF TypeOK
    <3>2. CASE prev[r] = NoRow
      BY <3>1, <3>2 DEF NoRow, Named, Owned
    <3>3. CASE ~prev[r].owned /\ prev[r].gen \in Ended(of[r])
      <4>1. prev[r].gen \in Runs /\ of[prev[r].gen] = t /\ pc[prev[r].gen] = "over"
        BY <2>1, <3>3 DEF Ended, TypeOK
      <4>2. prev[r].gen <= runs
        BY <4>1 DEF Local, TypeOK, Runs
      <4>3. ~UnderWay(prev[r].gen)'
        BY <1>1, <1>3, <4>1 DEF UnderWay, TypeOK
      <4> QED BY <1>3, <3>1, <3>3, <4>1, <4>2, <4>3 DEF Named, Owned
    <3> QED BY <1>7, <3>2, <3>3
  <2>2. CASE t # of[r]
    <3>1. row'[t] = row[t] /\ Named(t) /\ Owned(t) /\ row[t].gen \in 0..MaxRuns
      BY <1>3, <2>2 DEF TypeOK, Rows, Rowed
    <3>2. row[t].gen # 0 => row[t].gen \in Runs /\ row[t].gen # r
      BY <2>2, <3>1, TunnelAssumption DEF Named, Runs
    <3> QED BY <1>3, <1>4, <3>1, <3>2 DEF Named, Owned
  <2> QED BY <2>1, <2>2
<1>9. ASSUME NEW q \in Runs  PROVE Shown(q)' /\ Newest(q)'
  <2>1. UnderWay(q) /\ q # r => of[q] \in Tunnels /\ of[q] # of[r]
    BY <1>2 DEF Rowed, Shown, Local, UnderWay
  <2>2. Shown(q)'
    BY <1>3, <1>4, <2>1 DEF Shown, Rowed, TypeOK
  <2>3. Newest(q)'
    BY <1>3, <1>4 DEF Newest, Rowed
  <2> QED BY <2>2, <2>3
<1>10. Summed'
  <2>1. ASSUME NEW t \in Tunnels, ~row'[t].owned  PROVE Summary(t, row[t])'
    <3>1. CASE t = of[r]
      <4>1. row'[t] = prev[r]
        BY <1>3, <3>1 DEF TypeOK
      <4> QED BY <1>2, <1>6, <3>1, <4>1
    <3>2. CASE t # of[r]
      <4>1. row'[t] = row[t]
        BY <1>3, <3>2 DEF TypeOK
      <4> QED BY <1>6, <2>1, <4>1 DEF Summed
    <3> QED BY <3>1, <3>2
  <2>2. ASSUME NEW q \in Runs, UnderWay(q)', q \notin committed'  PROVE Summary(of[q], prev[q])'
    BY <1>3, <1>4, <1>6, <2>2 DEF Summed
  <2> QED BY <2>1, <2>2 DEF Summed
<1> QED BY <1>8, <1>9, <1>10 DEF Rowed

LEMMA FinishRows ==
  ASSUME TypeOK, \A q \in Runs : Local(q), Rowed, Summed, NEW r \in Runs, Finish(r)
  PROVE  Rowed' /\ Summed'
<1> USE Numbers
<1>1. pc[r] = "finish" /\ of[r] \in Tunnels /\ r \in committed /\ UnderWay(r) /\ r <= runs
  BY DEF Finish, Local, UnderWay, TypeOK, Runs
<1>2. row[of[r]].gen = r
  BY <1>1 DEF Rowed, Shown
<1>3. /\ row' = [row EXCEPT ![of[r]] = [gen |-> r, status |-> outcome[r], owned |-> FALSE]]
      /\ pc' = [pc EXCEPT ![r] = "over"]
      /\ UNCHANGED <<runs, of, prev, committed, outcome>>
  BY <1>2 DEF Finish, Go, startVars, endVars
<1>4. \A q \in Runs : UnderWay(q)' <=> UnderWay(q) /\ q # r
  BY <1>1, <1>3 DEF UnderWay, TypeOK
<1>5. \A t : Ended(t)' = IF t = of[r] THEN Ended(t) \cup {r} ELSE Ended(t)
  BY <1>1, <1>3 DEF Ended, TypeOK
<1>6. ASSUME NEW t, NEW w, t # of[r], Summary(t, w)  PROVE Summary(t, w)'
  BY <1>3, <1>5, <1>6 DEF Summary, Ended
<1>7. row'[of[r]] = [gen |-> r, status |-> outcome[r], owned |-> FALSE]
  BY <1>1, <1>3 DEF TypeOK
<1>8. \A t \in Tunnels : t # of[r] => row'[t] = row[t]
  BY <1>3 DEF TypeOK
<1>9. ASSUME NEW t \in Tunnels  PROVE Named(t)' /\ Owned(t)'
  <2>1. CASE t = of[r]
    BY <1>1, <1>3, <1>4, <1>7, <2>1 DEF Named, Owned
  <2>2. CASE t # of[r]
    <3>1. row'[t] = row[t] /\ Named(t) /\ Owned(t) /\ row[t].gen \in 0..MaxRuns
      BY <1>8, <2>2 DEF TypeOK, Rows, Rowed
    <3>2. row[t].gen # 0 => row[t].gen \in Runs /\ row[t].gen # r
      BY <2>2, <3>1, TunnelAssumption DEF Named, Runs
    <3> QED BY <1>3, <1>4, <3>1, <3>2 DEF Named, Owned
  <2> QED BY <2>1, <2>2
<1>10. ASSUME NEW q \in Runs  PROVE Shown(q)' /\ Newest(q)'
  <2>1. UnderWay(q) /\ q # r => of[q] \in Tunnels /\ of[q] # of[r]
    BY <1>2 DEF Rowed, Shown, Local, UnderWay
  <2>2. Shown(q)'
    BY <1>3, <1>4, <1>8, <2>1 DEF Shown, Rowed
  <2>3. Newest(q)'
    BY <1>3, <1>4 DEF Newest, Rowed
  <2> QED BY <2>2, <2>3
<1>11. Summed'
  <2>1. ASSUME NEW t \in Tunnels, ~row'[t].owned  PROVE Summary(t, row[t])'
    <3>1. CASE t = of[r]
      <4>1. r \in Ended(t)'
        BY <1>5, <3>1
      <4>2. \A q \in Ended(t)' : q <= r
        <5>1. \A q \in Ended(t) : q <= r
          BY <1>1, <3>1 DEF Ended, Rowed, Newest, TypeOK
        <5> QED BY <1>5, <3>1, <5>1
      <4>3. row'[t] = [gen |-> r, status |-> outcome'[r], owned |-> FALSE]
        BY <1>3, <1>7, <3>1
      <4> QED BY <4>1, <4>2, <4>3 DEF Summary
    <3>2. CASE t # of[r]
      <4>1. row'[t] = row[t]
        BY <1>8, <3>2
      <4> QED BY <1>6, <2>1, <3>2, <4>1 DEF Summed
    <3> QED BY <3>1, <3>2
  <2>2. ASSUME NEW q \in Runs, UnderWay(q)', q \notin committed'  PROVE Summary(of[q], prev[q])'
    <3>1. UnderWay(q) /\ of[q] # of[r]
      BY <1>1, <1>2, <1>3, <1>4, <2>2 DEF Rowed, Shown
    <3> QED BY <1>3, <1>6, <2>2, <3>1 DEF Summed
  <2> QED BY <2>1, <2>2 DEF Summed
<1> QED BY <1>9, <1>10, <1>11 DEF Rowed

LEMMA StartRows ==
  ASSUME TypeOK, \A q \in Runs : Local(q), Rowed, Summed,
         NEW t \in Tunnels, NEW k \in {"local", "remote"}, Start(t, k)
  PROVE  Rowed' /\ Summed'
<1> USE Numbers
<1> DEFINE r == runs + 1
<1>1. r \in Runs /\ pc[r] = "unused" /\ of[r] = None /\ r \notin committed
  <2>1. r \in Runs /\ r > runs
    BY TunnelAssumption DEF Start, Reserve, TypeOK, Runs
  <2> HIDE DEF r
  <2> QED BY <2>1 DEF Local
<1>2. /\ row' = [row EXCEPT ![t] = [gen |-> r, status |-> "starting", owned |-> TRUE]]
      /\ pc' = [pc EXCEPT ![r] = "credential"] /\ of' = [of EXCEPT ![r] = t]
      /\ prev' = [prev EXCEPT ![r] = row[t]] /\ runs' = r
      /\ UNCHANGED <<committed, outcome>> /\ ~row[t].owned
  BY DEF Start, Reserve, Go, endVars
<1> HIDE DEF r
<1>3. \A q \in Runs : UnderWay(q)' <=> UnderWay(q) \/ q = r
  BY <1>1, <1>2 DEF UnderWay, TypeOK
<1>4. \A u \in Tunnels : Ended(u)' = Ended(u)
  BY <1>1, <1>2 DEF Ended, TypeOK
<1>5. ASSUME NEW u \in Tunnels, NEW w, Summary(u, w)  PROVE Summary(u, w)'
  BY <1>2, <1>4, <1>5 DEF Summary, Ended
<1>6. \A q \in Runs : UnderWay(q) => of[q] # t /\ of[q] \in Tunnels /\ q # r
  BY <1>1, <1>2 DEF Rowed, Shown, Owned, Local, UnderWay
<1>7. \A q \in Runs : q # r => of'[q] = of[q]
  BY <1>2 DEF TypeOK
<1>8. \A u \in Tunnels : u # t => row'[u] = row[u]
  BY <1>2 DEF TypeOK
<1>9. row'[t].gen = r /\ row'[t].status = "starting" /\ row'[t].owned /\ of'[r] = t
  BY <1>1, <1>2 DEF TypeOK
<1>10. runs \in Nat /\ r \in Nat /\ runs <= r /\ runs # r
  BY DEF r, TypeOK
<1>11. ASSUME NEW u \in Tunnels  PROVE Named(u)' /\ Owned(u)'
  <2>1. CASE u = t
    BY <1>1, <1>2, <1>3, <1>9, <1>10, <2>1 DEF Named, Owned
  <2>2. CASE u # t
    <3>1. row'[u] = row[u] /\ Named(u) /\ Owned(u) /\ row[u].gen \in 0..MaxRuns
      BY <1>8, <2>2 DEF TypeOK, Rows, Rowed
    <3>2. row[u].gen # 0 => row[u].gen \in Runs /\ row[u].gen # r
      BY <1>1, <3>1, TunnelAssumption DEF Named, Runs
    <3> QED BY <1>2, <1>3, <1>7, <1>10, <3>1, <3>2 DEF Named, Owned
  <2> QED BY <2>1, <2>2
<1>12. ASSUME NEW q \in Runs  PROVE Shown(q)' /\ Newest(q)'
  <2>1. CASE q = r
    <3>1. Shown(q)'
      BY <1>1, <1>2, <1>9, <2>1 DEF Shown
    <3>2. ASSUME NEW p \in Runs, of'[p] = t  PROVE p <= r
      <4>1. CASE p = r  BY <1>10, <4>1
      <4>2. CASE p # r
        <5>1. of[p] # None
          BY <1>7, <3>2, <4>2
        <5>2. p <= runs
          BY <5>1 DEF Local, TypeOK, Runs
        <5> QED BY <1>10, <5>2 DEF Runs
      <4> QED BY <4>1, <4>2
    <3> QED BY <1>9, <2>1, <3>1, <3>2 DEF Newest
  <2>2. CASE q # r
    <3> SUFFICES ASSUME UnderWay(q)  PROVE Shown(q)' /\ Newest(q)'
      BY <1>3, <2>2 DEF Shown, Newest
    <3>1. Shown(q)'
      <4>1. of'[q] = of[q] /\ row'[of[q]] = row[of[q]] /\ committed' = committed
        BY <1>2, <1>6, <1>7, <1>8, <2>2
      <4> QED BY <4>1 DEF Shown, Rowed
    <3>2. Newest(q)'
      BY <1>6, <1>7, <1>9, <2>2 DEF Newest, Rowed
    <3> QED BY <3>1, <3>2
  <2> QED BY <2>1, <2>2
<1>13. Summed'
  <2>1. ASSUME NEW u \in Tunnels, ~row'[u].owned  PROVE Summary(u, row[u])'
    <3>1. u # t /\ row'[u] = row[u]
      BY <1>8, <1>9, <2>1
    <3> QED BY <1>5, <2>1, <3>1 DEF Summed
  <2>2. ASSUME NEW q \in Runs, UnderWay(q)', q \notin committed'  PROVE Summary(of[q], prev[q])'
    <3>1. CASE q = r
      <4>1. of'[q] = t /\ prev'[q] = row[t]
        BY <1>1, <1>2, <1>9, <3>1 DEF TypeOK
      <4>2. Summary(t, row[t])
        BY <1>2 DEF Summed
      <4> QED BY <1>5, <4>1, <4>2
    <3>2. CASE q # r
      <4>1. of'[q] = of[q] /\ prev'[q] = prev[q] /\ of[q] \in Tunnels /\ UnderWay(q)
        BY <1>2, <1>3, <1>6, <1>7, <2>2, <3>2 DEF TypeOK
      <4>2. Summary(of[q], prev[q])
        BY <1>2, <2>2, <4>1 DEF Summed
      <4> QED BY <1>5, <4>1, <4>2
    <3> QED BY <3>1, <3>2
  <2> QED BY <2>1, <2>2 DEF Summed
<1> QED BY <1>11, <1>12, <1>13 DEF Rowed

LEMMA RowStep ==
  ASSUME TypeOK, \A q \in Runs : Local(q), Rowed, Summed, [Next]_vars
  PROVE  Rowed' /\ Summed'
<1>1. ASSUME NEW r \in Runs, RunSteps(r)  PROVE Rowed' /\ Summed'
  BY <1>1, CalmRun, CalmRows, CommitRows, CancelRows, FinishRows
<1>2. CASE (\E c \in Conns : PeerSteps(c)) \/ StopSteps \/ UNCHANGED vars
  BY <1>2, CalmOther, CalmRows
<1> QED BY <1>1, <1>2, StartRows, NextSteps
----------------------------------------------------------------------------
(* The three semaphores.                                                    *)

LEMMA FiniteHolders ==
  /\ IsFiniteSet(Admitted) /\ IsFiniteSet(GlobalPermits)
  /\ \A r : IsFiniteSet(TunnelPermits(r))
<1>1. IsFiniteSet(Runs)
  BY FS_Interval, TunnelAssumption DEF Runs
<1> QED BY <1>1, FS_Subset, TunnelAssumption DEF Admitted, GlobalPermits, TunnelPermits

\* A bounded set that gets at most one more element, if there is room for it.
LEMMA Bounded ==
  ASSUME NEW S, IsFiniteSet(S), NEW limit \in Nat, Cardinality(S) <= limit, NEW x, NEW T,
         T \subseteq S \/ (T \subseteq S \cup {x} /\ Cardinality(S) < limit)
  PROVE  Cardinality(T) <= limit
<1>1. Cardinality(S) \in Nat
  BY FS_CardinalityType
<1>2. CASE T \subseteq S
  <2>1. Cardinality(T) <= Cardinality(S) /\ Cardinality(T) \in Nat
    BY <1>2, FS_Subset, FS_CardinalityType
  <2> QED BY <1>1, <2>1
<1>3. CASE T \subseteq S \cup {x} /\ Cardinality(S) < limit
  <2>1. IsFiniteSet(S \cup {x})
    BY FS_AddElement
  <2>2. Cardinality(S \cup {x}) = Cardinality(S) \/ Cardinality(S \cup {x}) = Cardinality(S) + 1
    BY FS_AddElement
  <2>3. Cardinality(T) <= Cardinality(S \cup {x}) /\ Cardinality(T) \in Nat
    BY <1>3, <2>1, FS_Subset, FS_CardinalityType
  <2> QED BY <1>1, <1>3, <2>2, <2>3
<1> QED BY <1>2, <1>3

\* No step of a run asks for the start permit: it only changes hands.
LEMMA PermitKept ==
  ASSUME TypeOK, NEW r \in Runs, Local(r), RunSteps(r)
  PROVE  \A q \in Runs : permit'[q] # "none" => permit[q] # "none"
<1>1. permit'[r] # "none" => permit[r] # "none"
  <2> USE DEF TypeOK, Local, Dialling, Hold
  <2>1. CASE StartSteps(r)
    BY <2>1 DEF StartSteps, CredentialRead, Stage, Bound, Bind, Connect, HostAgrees, StageFails,
         GivesUp, Commit, LeaveStart, CancelStart
  <2>2. CASE WorkerSteps(r)
    BY <2>2 DEF WorkerSteps, SeesStop, HealthTick, ListenerFails, Breaks, Wind, Drain, Reap, Finish
  <2>3. CASE LinkSteps(r) \/ DetachedJobEnds(r)
    BY <2>3 DEF LinkSteps, LinkDrops, LinkCleans, LinkGone, WrongBind, DetachedJobEnds
  <2> QED BY <2>1, <2>2, <2>3 DEF RunSteps
<1> QED BY <1>1, RunSame DEF Same

LEMMA AdmittedStep ==
  ASSUME TypeOK, WithinLimits, \A q \in Runs : Local(q), [Next]_vars
  PROVE  Cardinality(Admitted') <= MaxActive
<1>1. ASSUME NEW t \in Tunnels, NEW k \in {"local", "remote"}, Start(t, k)
      PROVE  Admitted' \subseteq Admitted \cup {runs + 1} /\ Cardinality(Admitted) < MaxActive
  BY <1>1 DEF Start, Reserve, Hold, Admitted, TypeOK
<1>2. ASSUME NEW r \in Runs, RunSteps(r)  PROVE Admitted' \subseteq Admitted
  BY <1>2, PermitKept DEF Admitted
<1>3. ASSUME (\E c \in Conns : PeerSteps(c)) \/ StopSteps \/ UNCHANGED vars
      PROVE  Admitted' \subseteq Admitted
  <2>1. \A q \in Runs : permit'[q] = permit[q]
    BY <1>3, PeerSame DEF Same, vars
  <2> QED BY <2>1 DEF Admitted
<1>4. \/ Admitted' \subseteq Admitted
      \/ \E x : Admitted' \subseteq Admitted \cup {x} /\ Cardinality(Admitted) < MaxActive
  BY <1>1, <1>2, <1>3, NextSteps
<1>5. Cardinality(Admitted) <= MaxActive /\ MaxActive \in Nat
  BY TunnelAssumption DEF WithinLimits
<1> QED BY <1>4, <1>5, FiniteHolders, Bounded

\* A connection gets its permits only where there is room for both.
Fits(c, permits, r) == permits = {} \/ Room(r) \/ (permits \subseteq lease[c] /\ r = runOf[c])

LEMMA PeerPuts ==
  ASSUME TypeOK, NEW c \in Conns, Connected(c), PeerSteps(c)
  PROVE  \E where, permits, r : Put(c, where, permits, r) /\ Fits(c, permits, r)
<1>1. CASE ConnSteps(c)
  BY <1>1 DEF ConnSteps, TakePermits, Recheck, ConnEnds, ConnStops, ConnLeft, ConnFails, Leave,
       Fits, Connected
<1>2. CASE \E r \in Runs : Accept(r, c) \/ Knock(r, c)
  BY <1>2 DEF Accept, Knock, Fits
<1> QED BY <1>1, <1>2 DEF PeerSteps

LEMMA PutFits ==
  ASSUME TypeOK, WithinLimits, NEW c \in Conns, NEW where, NEW permits, NEW r,
         Put(c, where, permits, r), Fits(c, permits, r)
  PROVE  /\ \A q \in Runs : Cardinality(TunnelPermits(q)') <= PerTunnel
         /\ Cardinality(GlobalPermits') <= Global
<1>1. \A d \in Conns : d # c => lease'[d] = lease[d] /\ runOf'[d] = runOf[d]
  BY DEF Put, TypeOK
<1>2. lease'[c] = permits /\ runOf'[c] = r
  BY DEF Put, TypeOK
<1>3. ASSUME NEW q \in Runs  PROVE Cardinality(TunnelPermits(q)') <= PerTunnel
  <2>1. \/ TunnelPermits(q)' \subseteq TunnelPermits(q)
        \/ q = r /\ TunnelPermits(q)' \subseteq TunnelPermits(q) \cup {c} /\ Room(r)
    BY <1>1, <1>2 DEF TunnelPermits, Fits
  <2>2. Cardinality(TunnelPermits(q)) <= PerTunnel /\ PerTunnel \in Nat
    BY TunnelAssumption DEF WithinLimits
  <2>3. q = r /\ Room(r) => Cardinality(TunnelPermits(q)) < PerTunnel
    BY DEF Room
  <2> QED BY <2>1, <2>2, <2>3, FiniteHolders, Bounded
<1>4. Cardinality(GlobalPermits') <= Global
  <2>1. \/ GlobalPermits' \subseteq GlobalPermits
        \/ GlobalPermits' \subseteq GlobalPermits \cup {c} /\ Room(r)
    BY <1>1, <1>2 DEF GlobalPermits, Fits
  <2>2. Cardinality(GlobalPermits) <= Global /\ Global \in Nat
    BY TunnelAssumption DEF WithinLimits
  <2>3. Room(r) => Cardinality(GlobalPermits) < Global
    BY DEF Room
  <2> QED BY <2>1, <2>2, <2>3, FiniteHolders, Bounded
<1> QED BY <1>3, <1>4

\* A step that is not a connection's leaves the connections alone.
LEMMA ConnsAlone ==
  ASSUME \/ \E t \in Tunnels, k \in {"local", "remote"} : Start(t, k)
         \/ \E r \in Runs : RunSteps(r)
         \/ StopSteps \/ UNCHANGED vars
  PROVE  UNCHANGED <<at, lease, runOf>>
<1> USE DEF connVars
<1>1. ASSUME NEW r \in Runs, RunSteps(r)  PROVE UNCHANGED <<at, lease, runOf>>
  BY <1>1 DEF RunSteps, StartSteps, CredentialRead, Bind, Connect, HostAgrees, StageFails, Commit,
       LeaveStart, CancelStart, WorkerSteps, SeesStop, HealthTick, ListenerFails, Breaks, Wind,
       Drain, Reap, Finish, LinkSteps, LinkDrops, LinkCleans, LinkGone, WrongBind, DetachedJobEnds
<1> QED BY <1>1 DEF Start, Reserve, StopSteps, Stop, StopReturns, Seal, TellAll, vars

LEMMA LimitsStep ==
  ASSUME TypeOK, WithinLimits, \A q \in Runs : Local(q), \A c \in Conns : Connected(c), [Next]_vars
  PROVE  WithinLimits'
<1>1. CASE UNCHANGED <<at, lease, runOf>>
  BY <1>1, AdmittedStep DEF WithinLimits, TunnelPermits, GlobalPermits
<1>2. CASE \E c \in Conns : PeerSteps(c)
  BY <1>2, PeerPuts, PutFits, AdmittedStep DEF WithinLimits
<1> QED BY <1>1, <1>2, ConnsAlone, NextSteps
----------------------------------------------------------------------------
(* Connections.                                                             *)

LEMMA PeerConnected ==
  ASSUME TypeOK, \A q \in Runs : Local(q), NEW d \in Conns, Connected(d), PeerSteps(d)
  PROVE  Connected(d)'
<1> USE Numbers DEF TypeOK, Connected, Put, Quiet, Leave, startVars
<1>1. CASE ConnSteps(d)
  <2>1. runOf[d] # None => runOf[d] \in Runs /\ Local(runOf[d])
    OBVIOUS
  <2> QED BY <1>1, <2>1 DEF ConnSteps, TakePermits, Recheck, ConnEnds, ConnStops, ConnLeft, ConnFails, Local
<1>2. ASSUME NEW r \in Runs, Accept(r, d) \/ Knock(r, d)  PROVE Connected(d)'
  <2>1. Local(r)
    OBVIOUS
  <2> QED BY <1>2, <2>1 DEF Accept, Knock, Local
<1> QED BY <1>1, <1>2 DEF PeerSteps

LEMMA RunConnected ==
  ASSUME TypeOK, \A q \in Runs : Local(q), NEW c \in Conns, Connected(c),
         NEW r \in Runs, RunSteps(r)
  PROVE  Connected(c)'
<1>1. UNCHANGED <<at, lease, runOf>>
  BY ConnsAlone
<1>2. CASE runOf[c] # r
  <2>1. runOf[c] # None => runOf[c] \in Runs /\ Same(runOf[c])
    BY <1>2, RunSame DEF TypeOK
  <2> QED BY <1>1, <2>1 DEF Connected, Same
<1>3. CASE runOf[c] = r
  <2>1. r # None /\ r \in committed /\ at[c] # "idle" /\ pc[r] \notin Starting
    BY <1>3, Numbers DEF Connected, Local, Starting
  <2>2. r \in committed'
    BY <2>1 DEF RunSteps, StartSteps, CredentialRead, Bind, Connect, HostAgrees, StageFails, Commit,
         LeaveStart, CancelStart, WorkerSteps, SeesStop, HealthTick, ListenerFails, Breaks, Wind,
         Drain, Reap, Finish, LinkSteps, LinkDrops, LinkCleans, LinkGone, WrongBind,
         DetachedJobEnds, startVars
  <2>3. pc'[r] \in {"reap", "finish", "over"} => pc[r] \in {"reap", "finish", "over"} \/ Drain(r)
    BY <2>1 DEF RunSteps, StartSteps, CredentialRead, Stage, Bind, Connect, HostAgrees, StageFails,
         GivesUp, Commit, LeaveStart, CancelStart, WorkerSteps, SeesStop, HealthTick,
         ListenerFails, Breaks, Wind, Reap, Finish, LinkSteps, LinkDrops, LinkCleans, LinkGone,
         WrongBind, DetachedJobEnds, Go, Starting, TypeOK
  <2>4. Drain(r) => at[c] \in {"ask", "asked"} \/ "tunnel" \notin lease[c]
    BY <1>3 DEF Drain, TunnelPermits
  <2>5. Drain(r) => at[c] \in {"ask", "asked"}
    BY <2>1, <2>4 DEF Connected, TypeOK
  <2> QED BY <1>1, <1>3, <2>1, <2>2, <2>3, <2>5 DEF Connected
<1> QED BY <1>2, <1>3

LEMMA ConnectedStep ==
  ASSUME TypeOK, \A q \in Runs : Local(q), \A c \in Conns : Connected(c), [Next]_vars
  PROVE  \A c \in Conns : Connected(c)'
<1>1. ASSUME NEW d \in Conns, PeerSteps(d), NEW c \in Conns  PROVE Connected(c)'
  <2>1. CASE c = d
    BY <1>1, <2>1, PeerConnected
  <2>2. CASE c # d
    <3>1. at'[c] = at[c] /\ lease'[c] = lease[c] /\ runOf'[c] = runOf[c]
      BY <1>1, <2>2, PeerPuts DEF Put, TypeOK
    <3>2. runOf[c] # None => Same(runOf[c])
      BY <1>1, PeerSame DEF TypeOK
    <3> QED BY <3>1, <3>2 DEF Connected, Same
  <2> QED BY <2>1, <2>2
<1>2. ASSUME NEW t \in Tunnels, NEW k \in {"local", "remote"}, Start(t, k), NEW c \in Conns
      PROVE  Connected(c)'
  <2>1. UNCHANGED <<at, lease, runOf, committed>>
    BY <1>2, ConnsAlone DEF Start, Reserve
  <2>2. runOf[c] # None => runOf[c] \in Runs /\ pc[runOf[c]] # "unused"
    BY DEF Connected, Local, TypeOK
  <2>3. pc[runs + 1] = "unused" /\ pc' = [pc EXCEPT ![runs + 1] = "credential"]
    <3>1. runs + 1 \in Runs /\ runs + 1 > runs
      BY <1>2, TunnelAssumption DEF Start, Reserve, TypeOK, Runs
    <3>2. pc[runs + 1] = "unused"
      BY <3>1 DEF Local
    <3> QED BY <1>2, <3>2 DEF Start, Reserve, Go
  <2>4. runOf[c] # None => pc'[runOf[c]] = pc[runOf[c]]
    BY <2>2, <2>3 DEF TypeOK
  <2> QED BY <2>1, <2>4 DEF Connected
<1>3. ASSUME StopSteps \/ UNCHANGED vars, NEW c \in Conns  PROVE Connected(c)'
  <2>1. UNCHANGED <<at, lease, runOf, committed, pc>>
    BY <1>3 DEF StopSteps, Stop, StopReturns, Seal, TellAll, vars, connVars, startVars
  <2> QED BY <2>1 DEF Connected
<1> QED BY <1>1, <1>2, <1>3, RunConnected, NextSteps
----------------------------------------------------------------------------
(* What is published and what is awaited.                                   *)

\* What is over stays over, and what is published stays published.
LEMMA OverStays ==
  ASSUME TypeOK, \A q \in Runs : Local(q), [Next]_vars, NEW q \in Runs, pc[q] = "over"
  PROVE  pc'[q] = "over" /\ (q \in committed' <=> q \in committed)
<1>1. ASSUME NEW r \in Runs, RunSteps(r)
      PROVE  pc'[q] = "over" /\ (q \in committed' <=> q \in committed)
  <2>1. CASE q = r
    BY <1>1, <2>1 DEF RunSteps, StartSteps, CredentialRead, Stage, Bind, Connect, HostAgrees,
         StageFails, GivesUp, Commit, LeaveStart, CancelStart, WorkerSteps, SeesStop, HealthTick,
         ListenerFails, Breaks, Wind, Drain, Reap, Finish, LinkSteps, LinkDrops, LinkCleans,
         LinkGone, WrongBind, DetachedJobEnds, startVars
  <2>2. CASE q # r
    BY <1>1, <2>2, RunSame DEF Same
  <2> QED BY <2>1, <2>2
<1>2. ASSUME NEW t \in Tunnels, NEW k \in {"local", "remote"}, Start(t, k)
      PROVE  pc'[q] = "over" /\ committed' = committed
  <2>1. runs + 1 \in Runs /\ runs + 1 > runs
    BY <1>2, TunnelAssumption DEF Start, Reserve, TypeOK, Runs
  <2>2. pc[runs + 1] = "unused"
    BY <2>1 DEF Local
  <2> QED BY <1>2, <2>2 DEF Start, Reserve, Go, TypeOK
<1>3. CASE (\E c \in Conns : PeerSteps(c)) \/ StopSteps
  BY <1>3, PeerSame DEF Same
<1>4. CASE UNCHANGED vars
  BY <1>4 DEF vars, startVars
<1> QED BY <1>1, <1>2, <1>3, <1>4, NextSteps

\* Only an abandoned start and the end of a worker publish.
LEMMA DoneGrows ==
  ASSUME [Next]_vars
  PROVE  \/ done' = done
         \/ \E r \in Runs : CancelStart(r) /\ done' = done \cup {<<r, "start">>}
         \/ \E r \in Runs : Finish(r) /\ done' = done \cup {<<r, "run">>}
<1>1. ASSUME NEW r \in Runs, RunSteps(r), ~CancelStart(r), ~Finish(r)  PROVE done' = done
  BY <1>1 DEF RunSteps, StartSteps, CredentialRead, Bind, Connect, HostAgrees,
       StageFails, Commit, LeaveStart, WorkerSteps, SeesStop, HealthTick,
       ListenerFails, Breaks, Wind, Drain, Reap, LinkSteps, LinkDrops, LinkCleans,
       LinkGone, WrongBind, DetachedJobEnds
<1>2. ASSUME NEW c \in Conns, PeerSteps(c)  PROVE done' = done
  BY <1>2 DEF PeerSteps, ConnSteps, TakePermits, Recheck, ConnEnds, ConnStops, ConnLeft, ConnFails,
       Accept, Knock, Quiet
<1>3. CASE StopSteps \/ UNCHANGED vars
  BY <1>3 DEF StopSteps, Stop, StopReturns, Seal, TellAll, vars
<1>4. ASSUME NEW r \in Runs, CancelStart(r) \/ Finish(r)
      PROVE  \/ done' = done
             \/ CancelStart(r) /\ done' = done \cup {<<r, "start">>}
             \/ Finish(r) /\ done' = done \cup {<<r, "run">>}
  BY <1>4 DEF CancelStart, Finish
<1>5. ASSUME NEW t \in Tunnels, NEW k \in {"local", "remote"}, Start(t, k)  PROVE done' = done
  BY <1>5 DEF Start, Reserve
<1> QED BY <1>1, <1>2, <1>3, <1>4, <1>5, NextSteps

LEMMA PublishedStep ==
  ASSUME TypeOK, \A q \in Runs : Local(q), Published, [Next]_vars
  PROVE  Published'
<1> SUFFICES ASSUME NEW q \in Runs
             PROVE  /\ <<q, "start">> \in done' => pc'[q] = "over" /\ q \notin committed'
                    /\ <<q, "run">> \in done' => pc'[q] = "over" /\ q \in committed'
  BY DEF Published
<1>1. <<q, "start">> \in done => pc'[q] = "over" /\ q \notin committed'
  BY OverStays DEF Published
<1>2. <<q, "run">> \in done => pc'[q] = "over" /\ q \in committed'
  BY OverStays DEF Published
<1>3. CancelStart(q) => pc'[q] = "over" /\ q \notin committed'
  BY DEF CancelStart, Go, startVars, Local, TypeOK
<1>4. Finish(q) => pc'[q] = "over" /\ q \in committed'
  BY DEF Finish, Go, startVars, Local, TypeOK
<1> QED BY <1>1, <1>2, <1>3, <1>4, DoneGrows

\* A stop channel is never taken back.
LEMMA StopGrows ==
  ASSUME [Next]_vars
  PROVE  stop \subseteq stop'
<1>1. ASSUME NEW r \in Runs, RunSteps(r)  PROVE stop \subseteq stop'
  BY <1>1 DEF RunSteps, StartSteps, CredentialRead, Bind, Connect, HostAgrees,
       StageFails, Commit, LeaveStart, CancelStart, WorkerSteps, SeesStop, HealthTick,
       ListenerFails, Breaks, Wind, Drain, Reap, Finish, LinkSteps, LinkDrops, LinkCleans,
       LinkGone, WrongBind, DetachedJobEnds
<1>2. ASSUME NEW t \in Tunnels, NEW k \in {"local", "remote"}, Start(t, k)  PROVE stop' = stop
  BY <1>2 DEF Start, Reserve
<1>3. CASE (\E c \in Conns : PeerSteps(c)) \/ StopSteps \/ UNCHANGED vars
  BY <1>3 DEF PeerSteps, ConnSteps, TakePermits, Recheck, ConnEnds, ConnStops, ConnLeft, ConnFails,
       Accept, Knock, Quiet, StopSteps, Stop, StopReturns, Seal, TellAll, vars
<1> QED BY <1>1, <1>2, <1>3, NextSteps

\* The channel w will be written: it is the one its run's row names.
Heard(w) == w \in done \/ (UnderWay(w[1]) /\ row[of[w[1]]].owned /\ Channel(of[w[1]]) = w)

LEMMA RunHeard ==
  ASSUME TypeOK, \A q \in Runs : Local(q), Rowed, NEW w \in Runs \X {"start", "run"},
         w[1] \in stop, Heard(w), NEW r \in Runs, RunSteps(r), [Next]_vars
  PROVE  Heard(w)'
<1> DEFINE q == w[1]
<1>1. q \in Runs /\ (UnderWay(q) => of[q] \in Tunnels)
  BY DEF Local, UnderWay
<1>2. done \subseteq done'
  BY DoneGrows
<1>3. CASE w \in done
  BY <1>2, <1>3 DEF Heard
<1>4. CASE w \notin done /\ q # r
  <2>1. UnderWay(q) /\ row[of[q]].gen = q /\ row[of[q]].owned /\ Channel(of[q]) = w
    BY <1>4 DEF Heard, Channel
  <2>2. pc'[q] = pc[q] /\ of'[q] = of[q]
    BY <1>4, RunSame DEF Same
  <2>3. UnderWay(r) => row[of[r]].gen = r
    BY DEF Rowed, Shown
  <2>4. row'[of[q]] = row[of[q]]
    <3>1. CASE Commit(r) \/ CancelStart(r) \/ Finish(r)
      <4>1. UnderWay(r)
        BY <3>1 DEF Commit, CancelStart, Finish, UnderWay
      <4>2. of[q] # of[r]
        BY <1>4, <2>1, <2>3, <4>1
      <4>3. of[q] \in Tunnels /\ row \in [Tunnels -> Rows]
        BY <1>1, <2>1 DEF TypeOK
      <4> HIDE DEF q
      <4> QED BY <3>1, <4>2, <4>3 DEF Commit, CancelStart, Finish
    <3>2. CASE ~Commit(r) /\ ~CancelStart(r) /\ ~Finish(r)
      BY <3>2, CalmRun DEF Calm
    <3> QED BY <3>1, <3>2
  <2> QED BY <2>1, <2>2, <2>4 DEF Heard, UnderWay, Channel
<1>5. CASE w \notin done /\ q = r
  <2>1. UnderWay(r) /\ row[of[r]].gen = r /\ row[of[r]].owned /\ Channel(of[r]) = w
    BY <1>5 DEF Heard, Channel
  <2>2. row[of[r]].status = IF r \in committed THEN "active" ELSE "starting"
    BY <2>1 DEF Rowed, Shown
  <2>3. w = IF r \in committed THEN <<r, "run">> ELSE <<r, "start">>
    BY <2>1, <2>2 DEF Channel
  <2>4. CASE Commit(r)
    <3>1. row' = row /\ pc' = [pc EXCEPT ![r] = "wind"] /\ of' = of
      BY <1>5, <2>4 DEF Commit, MayCommit, Go
    <3> QED BY <1>5, <2>1, <3>1 DEF Heard, UnderWay, Channel, TypeOK
  <2>5. CASE CancelStart(r)
    <3>1. r \notin committed
      BY <2>5 DEF CancelStart, Local
    <3> QED BY <2>1, <2>2, <2>3, <2>5, <3>1 DEF CancelStart, Heard
  <2>6. CASE Finish(r)
    <3>1. r \in committed
      BY <2>6 DEF Finish, Local
    <3> QED BY <2>1, <2>3, <2>6, <3>1 DEF Finish, Heard
  <2>7. CASE ~Commit(r) /\ ~CancelStart(r) /\ ~Finish(r)
    <3>1. Calm
      BY <2>7, CalmRun
    <3> QED BY <1>5, <2>1, <3>1 DEF Calm, Heard, Channel
  <2> QED BY <2>4, <2>5, <2>6, <2>7
<1> QED BY <1>3, <1>4, <1>5

LEMMA HeardStep ==
  ASSUME TypeOK, \A q \in Runs : Local(q), Rowed, NEW w \in Runs \X {"start", "run"},
         w[1] \in stop, Heard(w), [Next]_vars
  PROVE  Heard(w)'
<1>1. ASSUME NEW t \in Tunnels, NEW k \in {"local", "remote"}, Start(t, k)  PROVE Heard(w)'
  <2>1. runs + 1 \in Runs /\ runs + 1 > runs
    BY <1>1, TunnelAssumption DEF Start, Reserve, TypeOK, Runs
  <2>2. pc[runs + 1] = "unused"
    BY <2>1 DEF Local
  <2>3. CASE w \in done
    BY <1>1, <2>3 DEF Start, Reserve, Heard
  <2>4. CASE w \notin done
    <3>1. UnderWay(w[1]) /\ row[of[w[1]]].owned /\ Channel(of[w[1]]) = w
      BY <2>4 DEF Heard
    <3>2. w[1] # runs + 1 /\ of[w[1]] # t
      BY <1>1, <2>2, <3>1 DEF UnderWay, Start
    <3>3. pc'[w[1]] = pc[w[1]] /\ of'[w[1]] = of[w[1]] /\ row'[of[w[1]]] = row[of[w[1]]]
      BY <1>1, <3>2 DEF Start, Reserve, Go, TypeOK
    <3> QED BY <3>1, <3>3 DEF Heard, UnderWay, Channel
  <2> QED BY <2>3, <2>4
<1>2. CASE (\E c \in Conns : PeerSteps(c)) \/ StopSteps \/ UNCHANGED vars
  <2>1. UNCHANGED <<row, of, done>> /\ \A q \in Runs : UnderWay(q)' <=> UnderWay(q)
    <3>1. Calm
      BY <1>2, CalmOther
    <3>2. done' = done
      BY <1>2 DEF PeerSteps, ConnSteps, TakePermits, Recheck, ConnEnds, ConnStops, ConnLeft,
           ConnFails, Accept, Knock, Quiet, StopSteps, Stop, StopReturns, Seal, TellAll, vars
    <3> QED BY <3>1, <3>2 DEF Calm
  <2> QED BY <2>1 DEF Heard, Channel
<1> QED BY <1>1, <1>2, RunHeard, NextSteps

\* A stop that begins to wait has just told the run its row names.
LEMMA WaitsGrow ==
  ASSUME [Next]_vars
  PROVE  \/ waits' = waits
         \/ \E s \in Stoppers : waits' = [waits EXCEPT ![s] = None]
         \/ \E s \in Stoppers, t \in Tunnels : Stop(s, t)
<1>1. ASSUME NEW r \in Runs, RunSteps(r)  PROVE waits' = waits
  BY <1>1 DEF RunSteps, StartSteps, CredentialRead, Bind, Connect, HostAgrees,
       StageFails, Commit, LeaveStart, CancelStart, WorkerSteps, SeesStop, HealthTick,
       ListenerFails, Breaks, Wind, Drain, Reap, Finish, LinkSteps, LinkDrops, LinkCleans,
       LinkGone, WrongBind, DetachedJobEnds
<1>2. ASSUME NEW t \in Tunnels, NEW k \in {"local", "remote"}, Start(t, k)  PROVE waits' = waits
  BY <1>2 DEF Start, Reserve
<1>3. ASSUME NEW c \in Conns, PeerSteps(c)  PROVE waits' = waits
  BY <1>3 DEF PeerSteps, ConnSteps, TakePermits, Recheck, ConnEnds, ConnStops, ConnLeft, ConnFails,
       Accept, Knock, Quiet
<1>4. CASE StopSteps \/ UNCHANGED vars
  BY <1>4 DEF StopSteps, StopReturns, Seal, TellAll, vars
<1> QED BY <1>1, <1>2, <1>3, <1>4, NextSteps

LEMMA AwaitedStep ==
  ASSUME TypeOK, \A q \in Runs : Local(q), Rowed, Awaited, [Next]_vars
  PROVE  Awaited'
<1>1. \A s \in Stoppers : waits[s] # None => Heard(waits[s]) /\ waits[s][1] \in stop
  BY DEF Awaited, StopHeard, Heard
<1>2. ASSUME NEW s \in Stoppers, NEW w, w = waits[s], w # None
      PROVE  Heard(w)' /\ w[1] \in stop'
  <2>1. w \in Runs \X {"start", "run"} /\ Heard(w) /\ w[1] \in stop
    BY <1>1, <1>2 DEF TypeOK
  <2> QED BY <2>1, HeardStep, StopGrows
<1>3. ASSUME NEW s \in Stoppers, NEW t \in Tunnels, Stop(s, t), NEW w, w = Channel(t)
      PROVE  Heard(w)' /\ w[1] \in stop'
  <2>1. row[t].owned /\ Named(t) /\ Owned(t) /\ row[t] \in Rows
    BY <1>3 DEF Stop, Rowed, TypeOK
  <2>2. UnderWay(row[t].gen) /\ of[row[t].gen] = t
    BY <2>1 DEF Named, Owned
  <2>3. row[t].gen \in stop' /\ UNCHANGED <<row, of, pc, done>>
    BY <1>3 DEF Stop, registryVars, startVars
  <2>4. w[1] = row[t].gen
    BY <1>3 DEF Channel
  <2> QED BY <1>3, <2>1, <2>2, <2>3, <2>4 DEF Heard, Channel, UnderWay
<1>4. ASSUME NEW s \in Stoppers, NEW w, w = waits'[s], w # None
      PROVE  Heard(w)' /\ w[1] \in stop'
  <2>1. CASE waits' = waits
    BY <1>2, <1>4, <2>1
  <2>2. CASE \E z \in Stoppers : waits' = [waits EXCEPT ![z] = None]
    BY <1>2, <1>4, <2>2 DEF TypeOK
  <2>3. ASSUME NEW z \in Stoppers, NEW t \in Tunnels, Stop(z, t)
        PROVE  w = waits[s] \/ w = Channel(t)
    BY <1>4, <2>3 DEF Stop, TypeOK
  <2> QED BY <1>2, <1>3, <1>4, <2>1, <2>2, <2>3, WaitsGrow
<1>5. StopHeard'
  BY <1>4 DEF StopHeard, Heard, Channel, UnderWay
<1>6. \A s \in Stoppers : waits'[s] # None => waits'[s][1] \in stop'
  BY <1>4
<1> QED BY <1>5, <1>6 DEF Awaited

LEMMA SealStep ==
  ASSUME TypeOK, Rowed, \A q \in Runs : Local(q), SealHolds, [Next]_vars
  PROVE  SealHolds'
<1>1. CASE TellAll
  <2>1. \A r \in Runs : UnderWay(r) => of[r] \in Tunnels /\ row[of[r]].gen = r /\ row[of[r]].owned
    <3> SUFFICES ASSUME NEW r \in Runs, UnderWay(r)
                 PROVE  of[r] \in Tunnels /\ row[of[r]].gen = r /\ row[of[r]].owned
      OBVIOUS
    <3>1. of[r] \in Tunnels
      BY DEF Local, UnderWay
    <3>2. Shown(r) /\ Owned(of[r])
      BY <3>1 DEF Rowed
    <3> QED BY <3>1, <3>2, Numbers DEF Shown, Owned
  <2> QED BY <1>1, <2>1 DEF TellAll, SealHolds, UnderWay
<1>2. CASE Seal
  BY <1>2 DEF Seal, SealHolds
<1>3. ASSUME NEW t \in Tunnels, NEW k \in {"local", "remote"}, Start(t, k)  PROVE SealHolds'
  BY <1>3 DEF Start, Reserve, SealHolds
<1>4. ASSUME NEW r \in Runs, RunSteps(r)  PROVE SealHolds'
  <2>1. exit' = exit
    BY <1>4 DEF RunSteps, StartSteps, CredentialRead, Bind, Connect, HostAgrees,
         StageFails, Commit, LeaveStart, CancelStart, WorkerSteps, SeesStop, HealthTick,
         ListenerFails, Breaks, Wind, Drain, Reap, Finish, LinkSteps, LinkDrops, LinkCleans,
         LinkGone, WrongBind, DetachedJobEnds, registryVars
  <2>2. \A q \in Runs : UnderWay(q)' => UnderWay(q)
    <3>1. pc[r] \notin {"unused", "over"} \/ pc' = pc
      BY <1>4 DEF RunSteps, StartSteps, CredentialRead, Stage, Bind, Connect, HostAgrees,
           StageFails, GivesUp, Commit, LeaveStart, CancelStart, WorkerSteps, SeesStop, HealthTick,
           ListenerFails, Breaks, Wind, Drain, Reap, Finish, LinkSteps, LinkDrops, LinkCleans,
           LinkGone, WrongBind, DetachedJobEnds
    <3> QED BY <1>4, <3>1, RunSame DEF UnderWay, Same
  <2> QED BY <2>1, <2>2, StopGrows DEF SealHolds
<1>5. CASE (\E c \in Conns : PeerSteps(c)) \/ UNCHANGED vars \/ (StopSteps /\ ~Seal /\ ~TellAll)
  <2>1. UNCHANGED <<exit, pc>>
    BY <1>5 DEF PeerSteps, ConnSteps, TakePermits, Recheck, ConnEnds, ConnStops, ConnLeft,
         ConnFails, Accept, Knock, Quiet, StopSteps, Stop, StopReturns, vars, registryVars
  <2> QED BY <2>1, StopGrows DEF SealHolds, UnderWay
<1> QED BY <1>1, <1>2, <1>3, <1>4, <1>5, NextSteps
----------------------------------------------------------------------------
(* The inductive invariant, and what follows from it.                       *)

LEMMA Initially == Init => IInv
<1> SUFFICES ASSUME Init  PROVE IInv
  OBVIOUS
<1> USE Numbers DEF Init
<1>1. TypeOK
  BY TunnelAssumption DEF TypeOK, NoRow, Rows, PCs
<1>2. WithinLimits
  <2>1. Admitted = {} /\ GlobalPermits = {} /\ \A r \in Runs : TunnelPermits(r) = {}
    BY DEF Admitted, GlobalPermits, TunnelPermits
  <2> HIDE DEF Init
  <2> QED BY <2>1, FS_EmptySet, TunnelAssumption DEF WithinLimits
<1>3. Rowed /\ Summed
  BY DEF Rowed, Named, Owned, Shown, Newest, Summed, Summary, Ended, UnderWay, NoRow
<1>4. Published /\ Awaited /\ SealHolds
  BY DEF Published, Awaited, StopHeard, SealHolds
<1>5. \A r \in Runs : Local(r)
  BY DEF Local, Runs, Dialling
<1>6. \A c \in Conns : Connected(c)
  BY DEF Connected
<1> QED BY <1>1, <1>2, <1>3, <1>4, <1>5, <1>6 DEF IInv

LEMMA Inductive == IInv /\ [Next]_vars => IInv'
<1> SUFFICES ASSUME IInv, [Next]_vars  PROVE IInv'
  OBVIOUS
<1> USE DEF IInv
<1>1. TypeOK'
  <2>1. CASE UNCHANGED vars
    BY <2>1 DEF vars, registryVars, startVars, sessionVars, endVars, connVars, TypeOK
  <2> QED BY <2>1, RunTypes, PeerTypes, OtherTypes, NextSteps
<1>2. WithinLimits'
  BY LimitsStep
<1>3. Rowed' /\ Summed'
  BY RowStep
<1>4. Published' /\ Awaited' /\ SealHolds'
  BY PublishedStep, AwaitedStep, SealStep
<1>5. \A r \in Runs : Local(r)'
  BY LocalStep
<1>6. \A c \in Conns : Connected(c)'
  BY ConnectedStep
<1> QED BY <1>1, <1>2, <1>3, <1>4, <1>5, <1>6

LEMMA Invariant == Spec => []IInv
BY Initially, Inductive, PTL DEF Spec

\* Every variable keeps its type.
THEOREM TypeCorrect == Spec => []TypeOK
<1>1. IInv => TypeOK  BY DEF IInv
<1> QED BY <1>1, Invariant, PTL

\* No semaphore of the tunnels is overdrawn, however many runs and peers.
THEOREM LimitsHold == Spec => []WithinLimits
<1>1. IInv => WithinLimits  BY DEF IInv
<1> QED BY <1>1, Invariant, PTL

\* A run that published its completion holds no listener, transport or served
\* connection any more; nor a slot, except that of an abandoned start which the
\* keyring's call or the ending task of the transport still has (TunnelAdmission).
THEOREM RestartIsSafe == Spec => []RestartBoundary
<1>1. IInv => RestartBoundary
  <2> SUFFICES ASSUME IInv, NEW r \in Runs, NEW phase \in {"start", "run"}, <<r, phase>> \in done
               PROVE  /\ r \notin listening /\ r \notin gate
                      /\ link[r] \in {"none", "cleaned", "gone"}
                      /\ \A c \in Conns : runOf[c] = r => at[c] \notin {"open", "leaving"}
                      /\ permit[r] = "none" \/ (phase = "start" /\ LeftToOthers(r))
    BY DEF RestartBoundary
  <2>1. pc[r] = "over" /\ (phase = "run" <=> r \in committed)
    BY DEF IInv, Published
  <2>2. Local(r) /\ \A c \in Conns : Connected(c)
    BY DEF IInv
  <2> QED BY <2>1, <2>2, Numbers DEF Local, Connected
<1> QED BY <1>1, Invariant, PTL

\* The list of tunnels shows what there is, and what there was.
THEOREM RowsAreTrue == Spec => []RowsTrue
<1>1. IInv => RowsTrue
  BY DEF IInv, Rowed, Summed, Owned, Shown, Summary, RowsTrue, RowHonest, SummaryKept
<1> QED BY <1>1, Invariant, PTL

\* Every stop is heard, and stop_all reaches every run.
THEOREM StopsReach == Spec => []StopReaches
<1>1. IInv => StopReaches
  BY DEF IInv, Awaited, StopReaches
<1> QED BY <1>1, Invariant, PTL

\* Nothing is forwarded for a run that has drained.
THEOREM DrainedEmpty == Spec => []DrainedStaysEmpty
<1>1. IInv => DrainedStaysEmpty
  BY DEF IInv, Connected, DrainedStaysEmpty
<1> QED BY <1>1, Invariant, PTL

\* What a stop that returned relies on: the listener, the transport and the served
\* connections are gone, the slot is free or left to others by an abandoned start,
\* and nothing is let in any more.
THEOREM StopsAreFinal == Spec => []StopIsFinal
BY RestartIsSafe, DrainedEmpty, PTL DEF StopIsFinal
=============================================================================
