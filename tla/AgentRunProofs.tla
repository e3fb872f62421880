----------------------------- MODULE AgentRunProofs -----------------------------
(***************************************************************************)
(* Proofs about what runs an agent unattended or turn by turn.             *)
(*                                                                         *)
(* AgentChat and its CodexServer, for any number of turns, threads,        *)
(* hand-overs and retries.  A turn is the active one of a single server,   *)
(* the one it was given to, for as long as its end was not told (Assigned, *)
(* Answered); a turn that is about to be written to a server still is its  *)
(* active one, or the server has ended and will not be used again          *)
(* (Writing, Ended); and a Claude process that starts holds the gate       *)
(* (Gated).                                                                *)
(*                                                                         *)
(* Automations, for any automations, windows, services and exchanges.  No  *)
(* mark is later than now (Past); a run and its record are told apart from *)
(* later ones by their start (RecordInv); what the service runs while a    *)
(* window is attached only shrinks, so every answer on its way, and what   *)
(* the window goes by once it ticks, names all of it (Division).           *)
(***************************************************************************)
EXTENDS AgentChat, Automations, FiniteSetTheorems, WellFoundedInduction, TLAPS

\* Where a turn stands before it has a server, or when it never gets one.
Unborn == {"no", "reap", "look", "dead", "spawn", "gate", "claim", "run", "left", "sleep"}

Typed ==
  /\ TypeOK
  /\ threadOf \in [Turns -> Threads] /\ on \in [Turns -> Turns \cup {None}]
  /\ given \in [Turns -> Turns \cup {None, ThreadOpen}]
  /\ doomed \in [Turns -> SUBSET Threads] /\ said \in [Turns -> SUBSET {"init", "progress",
      "result", "busy"}]
  /\ exited \in [Turns -> BOOLEAN] /\ opened \in [Turns -> BOOLEAN]
  /\ queued \in [Turns -> BOOLEAN] /\ named \in [Turns -> BOOLEAN] /\ idle \in [Turns -> BOOLEAN]
  /\ cli \in [Threads -> CLIs] /\ probe \in BOOLEAN

\* A turn without a server has left no trace on one.
BornAt(x) ==
  work[x] \in Unborn =>
    /\ on[x] = None /\ ended[x] = 0
    /\ proc[x] = None /\ ~exited[x] /\ ~queued[x] /\ given[x] = None
    /\ \A u \in Turns : on[u] # x
    /\ \A h \in Threads : server[h] # x

\* A turn is active on the server it was given to, until its end is told.
AssignedAt(x) == active[x] # None => on[active[x]] = x /\ ended[active[x]] = 0

\* A server that is marked as exited has no process that goes on.
EndedAt(x) == (exited[x] => proc[x] # "up") /\ (proc[x] = "read" => exited[x])

\* What a process works on: first its thread, then the active turn.
GivenAt(x) ==
  /\ work[x] \in {"insert", "opening"} => given[x] = None /\ (proc[x] = "read" \/ queued[x])
  /\ queued[x] => active[x] = x /\ given[x] \notin Turns
  /\ given[x] = ThreadOpen => queued[x]
  /\ given[x] \in Turns => active[x] = given[x]

\* Nobody takes the server of a turn that is not written yet, unless it ended.
WritingAt(x) ==
  work[x] = "write" =>
    /\ on[x] \in Turns /\ ~queued[on[x]]
    /\ \/ active[on[x]] = x /\ given[on[x]] = None
       \/ active[on[x]] = None /\ exited[on[x]]

\* A turn whose end was not told is the active one of a server that can tell it.
AnsweredAt(x) ==
  /\ ended[x] \in {0, 1}
  /\ work[x] \in {"insert", "opening", "write", "done"} /\ ended[x] = 0 =>
       on[x] \in Turns /\ active[on[x]] = x /\ proc[on[x]] # "read"

KnownAt(x) == proc[x] = "up" => server[threadOf[x]] = x \/ work[x] = "insert"

Born == \A x \in Turns : BornAt(x)
Assigned == \A x \in Turns : AssignedAt(x)
Ended == \A x \in Turns : EndedAt(x)
Given == \A x \in Turns : GivenAt(x)
Writing == \A x \in Turns : WritingAt(x)
Answered == \A x \in Turns : AnsweredAt(x)
Known == \A x \in Turns : KnownAt(x)

\* Who starts holds the gate, and who holds it will give it back.
Gated ==
  /\ \A t \in Turns : work[t] \in {"claim",
      "run"} /\ claude[t] = "up" /\ said[t] = {} => gate = t
  /\ probe => gate = ModelProbe
  /\ gate \in Turns => work[gate] \in {"claim", "run", "left"}

\* A turn that sleeps before a retry has one left.
Tried == \A t \in Turns : work[t] = "sleep" => tries[t] < Retries

IInv == Typed /\ Born /\ Assigned /\ Ended /\ Given /\ Writing /\ Answered /\ Known /\ Gated /\ Tried

-------------------------------------------------------------------------------
LEMMA Names ==
  /\ None \notin Turns /\ ThreadOpen \notin Turns /\ None # ThreadOpen
  /\ ModelProbe \notin Turns /\ ModelProbe # None
  /\ None \notin {"up", "killed", "gone", "read", "grace", "kill"}
BY CodexServerAssumption, AgentChatAssumption

\* What a step of the servers leaves alone.
Quiet == UNCHANGED <<windowVars, claudeVars>>

LEMMA Cases ==
  ASSUME Typed, Next
  PROVE  \/ Quiet /\ \E t \in Turns :
               \/ Reap(t) \/ Misses(t) \/ CloseDead(t) \/ Answering(t) \/ WriteTurn(t)
               \/ WriteTurnFails(t) \/ Spawn(t) \/ SpawnFails(t) \/ Insert(t) \/ WriteOpening(t)
               \/ WriteOpeningFails(t) \/ GraceEnds(t) \/ GraceKills(t) \/ ReaderEnds(t) \/ Opened(t)
               \/ OpenRefused(t) \/ Named(t) \/ Asks(t) \/ Completed(t) \/ Dies(t)
               \/ Age(t)
         \/ Quiet /\ \E t \in Turns, h \in Threads : ReapNext(t, h)
         \/ Quiet /\ \E t \in Turns, s \in Turns : Reuse(t, s)
         \/ \E t \in Turns :
               \/ TakeGate(t) \/ StartFails(t) \/ ClaimFails(t) \/ Claim(t) \/ Started(t)
               \/ Progress(t) \/ Result(t) \/ Exits(t) \/ Leave(t) \/ Retry(t)
               \/ Resend(t) \/ End(t) \/ Send(t) \/ Respond(t)
         \/ \E h \in Threads : Handoff(h) \/ Stop(h) \/ Remove(h)
         \/ Reload \/ Probe
<1>1. {threadOf[t] : t \in Turns} \subseteq Threads
  BY DEF Typed
<1>2. CASE GoesOn
  BY <1>2 DEF GoesOn, CodexGoesOn, Quiet
<1>3. CASE May
  BY <1>1, <1>3 DEF May, CodexMay, Quiet
<1> QED BY <1>2, <1>3 DEF Next

\* Typed, in the parts that are proved one by one.
TypedTurns ==
  /\ work \in [Turns -> {"no", "reap", "look", "dead", "spawn", "insert", "opening", "write",
                           "gate", "claim", "run", "left", "sleep", "err", "done"}]
  /\ ended \in [Turns -> Nat]
  /\ on \in [Turns -> Turns \cup {None}]
  /\ doomed \in [Turns -> SUBSET Threads]
  /\ stopping \in [Turns -> {None, "grace", "kill"}]
  /\ threadOf \in [Turns -> Threads]
TypedServers ==
  /\ server \in [Threads -> Turns \cup {None}]
  /\ proc \in [Turns -> {None, "up", "killed", "gone", "read"}]
  /\ exited \in [Turns -> BOOLEAN]
TypedStates ==
  /\ active \in [Turns -> Turns \cup {None}]
  /\ given \in [Turns -> Turns \cup {None, ThreadOpen}]
  /\ opened \in [Turns -> BOOLEAN]
  /\ queued \in [Turns -> BOOLEAN]
  /\ named \in [Turns -> BOOLEAN]
  /\ idle \in [Turns -> BOOLEAN]
TypedClaude ==
  /\ running \in [Threads -> Turns \cup {None}]
  /\ claude \in [Turns -> {None, "up", "killed", "gone"}]
  /\ gate \in Turns \cup {None, ModelProbe}
  /\ tries \in [Turns -> 0..Retries]
  /\ said \in [Turns -> SUBSET {"init", "progress", "result", "busy"}]
  /\ cli \in [Threads -> CLIs]
  /\ probe \in BOOLEAN

LEMMA TypedTurnsStep ==
  ASSUME Typed, [Next]_vars  PROVE TypedTurns'
<1>t. threadOf \in [Turns -> Threads] /\ active \in [Turns -> Turns \cup {None}]
      /\ on \in [Turns -> Turns \cup {None}]
  BY DEF Typed, TypeOK
<1>u. TypedTurns
  BY DEF Typed, TypeOK, TypedTurns
<1> USE Names, <1>t, <1>u DEF TypedTurns, Quiet, CloseServer, Registered, Kills, Goto, vars,
    codexVars, lockState, windowVars, claudeVars
<1>1. ASSUME NEW t \in Turns, Reap(t), Quiet  PROVE TypedTurns'
  BY <1>1 DEF Reap, Goto, Registered
<1>2. ASSUME NEW t \in Turns, Misses(t), Quiet  PROVE TypedTurns'
  BY <1>2 DEF Misses, Goto, Looks, Registered
<1>3. ASSUME NEW t \in Turns, CloseDead(t), Quiet  PROVE TypedTurns'
  BY <1>3 DEF CloseDead, Goto
<1>4. ASSUME NEW t \in Turns, Answering(t), Quiet  PROVE TypedTurns'
  BY <1>4 DEF Answering, Goto, Looks, Registered
<1>5. ASSUME NEW t \in Turns, WriteTurn(t), Quiet  PROVE TypedTurns'
  BY <1>5 DEF WriteTurn, Goto
<1>6. ASSUME NEW t \in Turns, WriteTurnFails(t), Quiet  PROVE TypedTurns'
  BY <1>6 DEF WriteTurnFails, Goto
<1>7. ASSUME NEW t \in Turns, Spawn(t), Quiet  PROVE TypedTurns'
  BY <1>7 DEF Spawn, Goto
<1>8. ASSUME NEW t \in Turns, SpawnFails(t), Quiet  PROVE TypedTurns'
  BY <1>8 DEF SpawnFails, Goto
<1>9. ASSUME NEW t \in Turns, Insert(t), Quiet  PROVE TypedTurns'
  BY <1>9 DEF Insert, Goto, Registered, Kills
<1>10. ASSUME NEW t \in Turns, WriteOpening(t), Quiet  PROVE TypedTurns'
  BY <1>10 DEF WriteOpening, Goto
<1>11. ASSUME NEW t \in Turns, WriteOpeningFails(t), Quiet  PROVE TypedTurns'
  BY <1>11 DEF WriteOpeningFails, Goto
<1>12. ASSUME NEW t \in Turns, GraceEnds(t), Quiet  PROVE TypedTurns'
  BY <1>12 DEF GraceEnds
<1>13. ASSUME NEW t \in Turns, GraceKills(t), Quiet  PROVE TypedTurns'
  BY <1>13 DEF GraceKills, Kills
<1>14. ASSUME NEW t \in Turns, ReaderEnds(t), Quiet  PROVE TypedTurns'
  BY <1>14 DEF ReaderEnds, TakesActive, Finished
<1>15. ASSUME NEW t \in Turns, Opened(t), Quiet  PROVE TypedTurns'
  BY <1>15 DEF Opened, Says
<1>16. ASSUME NEW t \in Turns, OpenRefused(t), Quiet  PROVE TypedTurns'
  BY <1>16 DEF OpenRefused, Says, TakesActive, Finished, Kills
<1>17. ASSUME NEW t \in Turns, Named(t), Quiet  PROVE TypedTurns'
  BY <1>17 DEF Named, Says
<1>18. ASSUME NEW t \in Turns, Asks(t), Quiet  PROVE TypedTurns'
  BY <1>18 DEF Asks, Says
<1>19. ASSUME NEW t \in Turns, Completed(t), Quiet  PROVE TypedTurns'
  BY <1>19 DEF Completed, Says, TakesActive, Finished
<1>20. ASSUME NEW t \in Turns, Dies(t), Quiet  PROVE TypedTurns'
  BY <1>20 DEF Dies
<1>21. ASSUME NEW t \in Turns, Age(t), Quiet  PROVE TypedTurns'
  BY <1>21 DEF Age
<1>22. ASSUME NEW t \in Turns, NEW h \in Threads, ReapNext(t, h), Quiet  PROVE TypedTurns'
  BY <1>22 DEF ReapNext
<1>23. ASSUME NEW t \in Turns, NEW s \in Turns, Reuse(t, s), Quiet  PROVE TypedTurns'
  BY <1>23 DEF Reuse, Goto, Looks
<1>24. ASSUME NEW t \in Turns, TakeGate(t)  PROVE TypedTurns'
  BY <1>24 DEF TakeGate, Goto
<1>25. ASSUME NEW t \in Turns, StartFails(t)  PROVE TypedTurns'
  BY <1>25 DEF StartFails, Goto, Refused, Finished
<1>26. ASSUME NEW t \in Turns, ClaimFails(t)  PROVE TypedTurns'
  BY <1>26 DEF ClaimFails, Goto, Refused, Finished, Release
<1>27. ASSUME NEW t \in Turns, Claim(t)  PROVE TypedTurns'
  BY <1>27 DEF Claim, Goto
<1>28. ASSUME NEW t \in Turns, Started(t)  PROVE TypedTurns'
  BY <1>28 DEF Started, Talks, Release
<1>29. ASSUME NEW t \in Turns, Progress(t)  PROVE TypedTurns'
  BY <1>29 DEF Progress, Talks
<1>30. ASSUME NEW t \in Turns, Result(t)  PROVE TypedTurns'
  BY <1>30 DEF Result, Talks
<1>31. ASSUME NEW t \in Turns, Exits(t)  PROVE TypedTurns'
  BY <1>31 DEF Exits
<1>32. ASSUME NEW t \in Turns, Leave(t)  PROVE TypedTurns'
  BY <1>32 DEF Leave, Goto
<1>33. ASSUME NEW t \in Turns, Retry(t)  PROVE TypedTurns'
  BY <1>33 DEF Retry, Goto, ShouldRetry, Release
<1>34. ASSUME NEW t \in Turns, Resend(t)  PROVE TypedTurns'
  BY <1>34 DEF Resend, Goto
<1>35. ASSUME NEW t \in Turns, End(t)  PROVE TypedTurns'
  BY <1>35 DEF End, Goto, ShouldRetry, Finished, Release
<1>36. ASSUME NEW t \in Turns, Send(t)  PROVE TypedTurns'
  BY <1>36 DEF Send, Goto
<1>37. ASSUME NEW t \in Turns, Respond(t)  PROVE TypedTurns'
  BY <1>37 DEF Respond
<1>38. ASSUME NEW h \in Threads, Handoff(h)  PROVE TypedTurns'
  BY <1>38 DEF Handoff
<1>39. ASSUME NEW h \in Threads, Stop(h)  PROVE TypedTurns'
  BY <1>39 DEF Stop, InFlight, Registered, StopTurn, KillClaude, Kills
<1>40. ASSUME NEW h \in Threads, Remove(h)  PROVE TypedTurns'
  BY <1>40 DEF Remove, InFlight, KillClaude
<1>41. CASE Reload
  BY <1>41 DEF Reload
<1>42. CASE Probe
  BY <1>42 DEF Probe
<1>43. CASE UNCHANGED vars
  BY <1>43
<1> QED BY <1>1, <1>2, <1>3, <1>4, <1>5, <1>6, <1>7, <1>8, <1>9, <1>10, <1>11, <1>12, <1>13,
    <1>14, <1>15, <1>16, <1>17, <1>18, <1>19, <1>20, <1>21, <1>22, <1>23, <1>24, <1>25, <1>26,
    <1>27, <1>28, <1>29, <1>30, <1>31, <1>32, <1>33, <1>34, <1>35, <1>36, <1>37, <1>38, <1>39,
    <1>40, <1>41, <1>42, <1>43, Cases

LEMMA TypedServersStep ==
  ASSUME Typed, [Next]_vars  PROVE TypedServers'
<1>t. threadOf \in [Turns -> Threads] /\ active \in [Turns -> Turns \cup {None}]
      /\ on \in [Turns -> Turns \cup {None}]
  BY DEF Typed, TypeOK
<1>u. TypedServers
  BY DEF Typed, TypeOK, TypedServers
<1> USE Names, <1>t, <1>u DEF TypedServers, Quiet, CloseServer, Registered, Kills, Goto, vars,
    codexVars, lockState, windowVars, claudeVars
<1>1. ASSUME NEW t \in Turns, Reap(t), Quiet  PROVE TypedServers'
  BY <1>1 DEF Reap, Goto, Registered
<1>2. ASSUME NEW t \in Turns, Misses(t), Quiet  PROVE TypedServers'
  BY <1>2 DEF Misses, Goto, Looks, Registered
<1>3. ASSUME NEW t \in Turns, CloseDead(t), Quiet  PROVE TypedServers'
  BY <1>3 DEF CloseDead, Goto
<1>4. ASSUME NEW t \in Turns, Answering(t), Quiet  PROVE TypedServers'
  BY <1>4 DEF Answering, Goto, Looks, Registered
<1>5. ASSUME NEW t \in Turns, WriteTurn(t), Quiet  PROVE TypedServers'
  BY <1>5 DEF WriteTurn, Goto
<1>6. ASSUME NEW t \in Turns, WriteTurnFails(t), Quiet  PROVE TypedServers'
  BY <1>6 DEF WriteTurnFails, Goto
<1>7. ASSUME NEW t \in Turns, Spawn(t), Quiet  PROVE TypedServers'
  BY <1>7 DEF Spawn, Goto
<1>8. ASSUME NEW t \in Turns, SpawnFails(t), Quiet  PROVE TypedServers'
  BY <1>8 DEF SpawnFails, Goto
<1>9. ASSUME NEW t \in Turns, Insert(t), Quiet  PROVE TypedServers'
  BY <1>9 DEF Insert, Goto, Registered, Kills
<1>10. ASSUME NEW t \in Turns, WriteOpening(t), Quiet  PROVE TypedServers'
  BY <1>10 DEF WriteOpening, Goto
<1>11. ASSUME NEW t \in Turns, WriteOpeningFails(t), Quiet  PROVE TypedServers'
  BY <1>11 DEF WriteOpeningFails, Goto
<1>12. ASSUME NEW t \in Turns, GraceEnds(t), Quiet  PROVE TypedServers'
  BY <1>12 DEF GraceEnds
<1>13. ASSUME NEW t \in Turns, GraceKills(t), Quiet  PROVE TypedServers'
  BY <1>13 DEF GraceKills, Kills
<1>14. ASSUME NEW t \in Turns, ReaderEnds(t), Quiet  PROVE TypedServers'
  BY <1>14 DEF ReaderEnds, TakesActive, Finished
<1>15. ASSUME NEW t \in Turns, Opened(t), Quiet  PROVE TypedServers'
  BY <1>15 DEF Opened, Says
<1>16. ASSUME NEW t \in Turns, OpenRefused(t), Quiet  PROVE TypedServers'
  BY <1>16 DEF OpenRefused, Says, TakesActive, Finished, Kills
<1>17. ASSUME NEW t \in Turns, Named(t), Quiet  PROVE TypedServers'
  BY <1>17 DEF Named, Says
<1>18. ASSUME NEW t \in Turns, Asks(t), Quiet  PROVE TypedServers'
  BY <1>18 DEF Asks, Says
<1>19. ASSUME NEW t \in Turns, Completed(t), Quiet  PROVE TypedServers'
  BY <1>19 DEF Completed, Says, TakesActive, Finished
<1>20. ASSUME NEW t \in Turns, Dies(t), Quiet  PROVE TypedServers'
  BY <1>20 DEF Dies
<1>21. ASSUME NEW t \in Turns, Age(t), Quiet  PROVE TypedServers'
  BY <1>21 DEF Age
<1>22. ASSUME NEW t \in Turns, NEW h \in Threads, ReapNext(t, h), Quiet  PROVE TypedServers'
  BY <1>22 DEF ReapNext
<1>23. ASSUME NEW t \in Turns, NEW s \in Turns, Reuse(t, s), Quiet  PROVE TypedServers'
  BY <1>23 DEF Reuse, Goto, Looks
<1>24. ASSUME NEW t \in Turns, TakeGate(t)  PROVE TypedServers'
  BY <1>24 DEF TakeGate, Goto
<1>25. ASSUME NEW t \in Turns, StartFails(t)  PROVE TypedServers'
  BY <1>25 DEF StartFails, Goto, Refused, Finished
<1>26. ASSUME NEW t \in Turns, ClaimFails(t)  PROVE TypedServers'
  BY <1>26 DEF ClaimFails, Goto, Refused, Finished, Release
<1>27. ASSUME NEW t \in Turns, Claim(t)  PROVE TypedServers'
  BY <1>27 DEF Claim, Goto
<1>28. ASSUME NEW t \in Turns, Started(t)  PROVE TypedServers'
  BY <1>28 DEF Started, Talks, Release
<1>29. ASSUME NEW t \in Turns, Progress(t)  PROVE TypedServers'
  BY <1>29 DEF Progress, Talks
<1>30. ASSUME NEW t \in Turns, Result(t)  PROVE TypedServers'
  BY <1>30 DEF Result, Talks
<1>31. ASSUME NEW t \in Turns, Exits(t)  PROVE TypedServers'
  BY <1>31 DEF Exits
<1>32. ASSUME NEW t \in Turns, Leave(t)  PROVE TypedServers'
  BY <1>32 DEF Leave, Goto
<1>33. ASSUME NEW t \in Turns, Retry(t)  PROVE TypedServers'
  BY <1>33 DEF Retry, Goto, ShouldRetry, Release
<1>34. ASSUME NEW t \in Turns, Resend(t)  PROVE TypedServers'
  BY <1>34 DEF Resend, Goto
<1>35. ASSUME NEW t \in Turns, End(t)  PROVE TypedServers'
  BY <1>35 DEF End, Goto, ShouldRetry, Finished, Release
<1>36. ASSUME NEW t \in Turns, Send(t)  PROVE TypedServers'
  BY <1>36 DEF Send, Goto
<1>37. ASSUME NEW t \in Turns, Respond(t)  PROVE TypedServers'
  BY <1>37 DEF Respond
<1>38. ASSUME NEW h \in Threads, Handoff(h)  PROVE TypedServers'
  BY <1>38 DEF Handoff
<1>39. ASSUME NEW h \in Threads, Stop(h)  PROVE TypedServers'
  <2>1. CASE \E t \in Turns : StopTurn(t)
    <3>1. PICK t \in Turns : StopTurn(t)
      BY <2>1
    <3>2. server' = server /\ (exited' = exited \/ exited' = [exited EXCEPT ![on[t]] = TRUE])
      BY <3>1 DEF StopTurn
    <3>3. proc' = proc
          \/ proc' = [s \in Turns |-> IF s \in {on[t]}
          /\ proc[s] = "up" THEN "killed" ELSE proc[s]]
      BY <3>1 DEF StopTurn, Kills
    <3>4. proc' \in [Turns -> {None, "up", "killed", "gone", "read"}]
      BY <3>3
    <3>5. exited' \in [Turns -> BOOLEAN]
      BY <3>2
    <3> QED BY <3>2, <3>4, <3>5
  <2>2. CASE UNCHANGED <<server, proc, exited>>
    BY <2>2
  <2> QED BY <1>39, <2>1, <2>2 DEF Stop, InFlight
<1>40. ASSUME NEW h \in Threads, Remove(h)  PROVE TypedServers'
  BY <1>40 DEF Remove, InFlight, KillClaude
<1>41. CASE Reload
  BY <1>41 DEF Reload
<1>42. CASE Probe
  BY <1>42 DEF Probe
<1>43. CASE UNCHANGED vars
  BY <1>43
<1> QED BY <1>1, <1>2, <1>3, <1>4, <1>5, <1>6, <1>7, <1>8, <1>9, <1>10, <1>11, <1>12, <1>13,
    <1>14, <1>15, <1>16, <1>17, <1>18, <1>19, <1>20, <1>21, <1>22, <1>23, <1>24, <1>25, <1>26,
    <1>27, <1>28, <1>29, <1>30, <1>31, <1>32, <1>33, <1>34, <1>35, <1>36, <1>37, <1>38, <1>39,
    <1>40, <1>41, <1>42, <1>43, Cases

LEMMA TypedStatesStep ==
  ASSUME Typed, [Next]_vars  PROVE TypedStates'
<1>t. threadOf \in [Turns -> Threads] /\ active \in [Turns -> Turns \cup {None}]
      /\ on \in [Turns -> Turns \cup {None}]
  BY DEF Typed, TypeOK
<1>u. TypedStates
  BY DEF Typed, TypeOK, TypedStates
<1> USE Names, <1>t, <1>u DEF TypedStates, Quiet, CloseServer, Registered, Kills, Goto, vars,
    codexVars, lockState, windowVars, claudeVars
<1>1. ASSUME NEW t \in Turns, Reap(t), Quiet  PROVE TypedStates'
  BY <1>1 DEF Reap, Goto, Registered
<1>2. ASSUME NEW t \in Turns, Misses(t), Quiet  PROVE TypedStates'
  BY <1>2 DEF Misses, Goto, Looks, Registered
<1>3. ASSUME NEW t \in Turns, CloseDead(t), Quiet  PROVE TypedStates'
  BY <1>3 DEF CloseDead, Goto
<1>4. ASSUME NEW t \in Turns, Answering(t), Quiet  PROVE TypedStates'
  BY <1>4 DEF Answering, Goto, Looks, Registered
<1>5. ASSUME NEW t \in Turns, WriteTurn(t), Quiet  PROVE TypedStates'
  BY <1>5 DEF WriteTurn, Goto
<1>6. ASSUME NEW t \in Turns, WriteTurnFails(t), Quiet  PROVE TypedStates'
  BY <1>6 DEF WriteTurnFails, Goto
<1>7. ASSUME NEW t \in Turns, Spawn(t), Quiet  PROVE TypedStates'
  BY <1>7 DEF Spawn, Goto
<1>8. ASSUME NEW t \in Turns, SpawnFails(t), Quiet  PROVE TypedStates'
  BY <1>8 DEF SpawnFails, Goto
<1>9. ASSUME NEW t \in Turns, Insert(t), Quiet  PROVE TypedStates'
  BY <1>9 DEF Insert, Goto, Registered, Kills
<1>10. ASSUME NEW t \in Turns, WriteOpening(t), Quiet  PROVE TypedStates'
  BY <1>10 DEF WriteOpening, Goto
<1>11. ASSUME NEW t \in Turns, WriteOpeningFails(t), Quiet  PROVE TypedStates'
  BY <1>11 DEF WriteOpeningFails, Goto
<1>12. ASSUME NEW t \in Turns, GraceEnds(t), Quiet  PROVE TypedStates'
  BY <1>12 DEF GraceEnds
<1>13. ASSUME NEW t \in Turns, GraceKills(t), Quiet  PROVE TypedStates'
  BY <1>13 DEF GraceKills, Kills
<1>14. ASSUME NEW t \in Turns, ReaderEnds(t), Quiet  PROVE TypedStates'
  BY <1>14 DEF ReaderEnds, TakesActive, Finished
<1>15. ASSUME NEW t \in Turns, Opened(t), Quiet  PROVE TypedStates'
  BY <1>15 DEF Opened, Says
<1>16. ASSUME NEW t \in Turns, OpenRefused(t), Quiet  PROVE TypedStates'
  BY <1>16 DEF OpenRefused, Says, TakesActive, Finished, Kills
<1>17. ASSUME NEW t \in Turns, Named(t), Quiet  PROVE TypedStates'
  BY <1>17 DEF Named, Says
<1>18. ASSUME NEW t \in Turns, Asks(t), Quiet  PROVE TypedStates'
  BY <1>18 DEF Asks, Says
<1>19. ASSUME NEW t \in Turns, Completed(t), Quiet  PROVE TypedStates'
  BY <1>19 DEF Completed, Says, TakesActive, Finished
<1>20. ASSUME NEW t \in Turns, Dies(t), Quiet  PROVE TypedStates'
  BY <1>20 DEF Dies
<1>21. ASSUME NEW t \in Turns, Age(t), Quiet  PROVE TypedStates'
  BY <1>21 DEF Age
<1>22. ASSUME NEW t \in Turns, NEW h \in Threads, ReapNext(t, h), Quiet  PROVE TypedStates'
  BY <1>22 DEF ReapNext
<1>23. ASSUME NEW t \in Turns, NEW s \in Turns, Reuse(t, s), Quiet  PROVE TypedStates'
  BY <1>23 DEF Reuse, Goto, Looks
<1>24. ASSUME NEW t \in Turns, TakeGate(t)  PROVE TypedStates'
  BY <1>24 DEF TakeGate, Goto
<1>25. ASSUME NEW t \in Turns, StartFails(t)  PROVE TypedStates'
  BY <1>25 DEF StartFails, Goto, Refused, Finished
<1>26. ASSUME NEW t \in Turns, ClaimFails(t)  PROVE TypedStates'
  BY <1>26 DEF ClaimFails, Goto, Refused, Finished, Release
<1>27. ASSUME NEW t \in Turns, Claim(t)  PROVE TypedStates'
  BY <1>27 DEF Claim, Goto
<1>28. ASSUME NEW t \in Turns, Started(t)  PROVE TypedStates'
  BY <1>28 DEF Started, Talks, Release
<1>29. ASSUME NEW t \in Turns, Progress(t)  PROVE TypedStates'
  BY <1>29 DEF Progress, Talks
<1>30. ASSUME NEW t \in Turns, Result(t)  PROVE TypedStates'
  BY <1>30 DEF Result, Talks
<1>31. ASSUME NEW t \in Turns, Exits(t)  PROVE TypedStates'
  BY <1>31 DEF Exits
<1>32. ASSUME NEW t \in Turns, Leave(t)  PROVE TypedStates'
  BY <1>32 DEF Leave, Goto
<1>33. ASSUME NEW t \in Turns, Retry(t)  PROVE TypedStates'
  BY <1>33 DEF Retry, Goto, ShouldRetry, Release
<1>34. ASSUME NEW t \in Turns, Resend(t)  PROVE TypedStates'
  BY <1>34 DEF Resend, Goto
<1>35. ASSUME NEW t \in Turns, End(t)  PROVE TypedStates'
  BY <1>35 DEF End, Goto, ShouldRetry, Finished, Release
<1>36. ASSUME NEW t \in Turns, Send(t)  PROVE TypedStates'
  BY <1>36 DEF Send, Goto
<1>37. ASSUME NEW t \in Turns, Respond(t)  PROVE TypedStates'
  BY <1>37 DEF Respond
<1>38. ASSUME NEW h \in Threads, Handoff(h)  PROVE TypedStates'
  BY <1>38 DEF Handoff
<1>39. ASSUME NEW h \in Threads, Stop(h)  PROVE TypedStates'
  BY <1>39 DEF Stop, InFlight, Registered, StopTurn, KillClaude, Kills
<1>40. ASSUME NEW h \in Threads, Remove(h)  PROVE TypedStates'
  BY <1>40 DEF Remove, InFlight, KillClaude
<1>41. CASE Reload
  BY <1>41 DEF Reload
<1>42. CASE Probe
  BY <1>42 DEF Probe
<1>43. CASE UNCHANGED vars
  BY <1>43
<1> QED BY <1>1, <1>2, <1>3, <1>4, <1>5, <1>6, <1>7, <1>8, <1>9, <1>10, <1>11, <1>12, <1>13,
    <1>14, <1>15, <1>16, <1>17, <1>18, <1>19, <1>20, <1>21, <1>22, <1>23, <1>24, <1>25, <1>26,
    <1>27, <1>28, <1>29, <1>30, <1>31, <1>32, <1>33, <1>34, <1>35, <1>36, <1>37, <1>38, <1>39,
    <1>40, <1>41, <1>42, <1>43, Cases

LEMMA TypedClaudeStep ==
  ASSUME Typed, Tried, [Next]_vars  PROVE TypedClaude'
<1>t. threadOf \in [Turns -> Threads] /\ active \in [Turns -> Turns \cup {None}]
      /\ on \in [Turns -> Turns \cup {None}]
  BY DEF Typed, TypeOK
<1>u. TypedClaude
  BY DEF Typed, TypeOK, TypedClaude
<1> USE Names, <1>t, <1>u DEF TypedClaude, Quiet, CloseServer, Registered, Kills, Goto, vars,
    codexVars, lockState, windowVars, claudeVars
<1>1. ASSUME NEW t \in Turns, Reap(t), Quiet  PROVE TypedClaude'
  BY <1>1 DEF Reap, Goto, Registered
<1>2. ASSUME NEW t \in Turns, Misses(t), Quiet  PROVE TypedClaude'
  BY <1>2 DEF Misses, Goto, Looks, Registered
<1>3. ASSUME NEW t \in Turns, CloseDead(t), Quiet  PROVE TypedClaude'
  BY <1>3 DEF CloseDead, Goto
<1>4. ASSUME NEW t \in Turns, Answering(t), Quiet  PROVE TypedClaude'
  BY <1>4 DEF Answering, Goto, Looks, Registered
<1>5. ASSUME NEW t \in Turns, WriteTurn(t), Quiet  PROVE TypedClaude'
  BY <1>5 DEF WriteTurn, Goto
<1>6. ASSUME NEW t \in Turns, WriteTurnFails(t), Quiet  PROVE TypedClaude'
  BY <1>6 DEF WriteTurnFails, Goto
<1>7. ASSUME NEW t \in Turns, Spawn(t), Quiet  PROVE TypedClaude'
  BY <1>7 DEF Spawn, Goto
<1>8. ASSUME NEW t \in Turns, SpawnFails(t), Quiet  PROVE TypedClaude'
  BY <1>8 DEF SpawnFails, Goto
<1>9. ASSUME NEW t \in Turns, Insert(t), Quiet  PROVE TypedClaude'
  BY <1>9 DEF Insert, Goto, Registered, Kills
<1>10. ASSUME NEW t \in Turns, WriteOpening(t), Quiet  PROVE TypedClaude'
  BY <1>10 DEF WriteOpening, Goto
<1>11. ASSUME NEW t \in Turns, WriteOpeningFails(t), Quiet  PROVE TypedClaude'
  BY <1>11 DEF WriteOpeningFails, Goto
<1>12. ASSUME NEW t \in Turns, GraceEnds(t), Quiet  PROVE TypedClaude'
  BY <1>12 DEF GraceEnds
<1>13. ASSUME NEW t \in Turns, GraceKills(t), Quiet  PROVE TypedClaude'
  BY <1>13 DEF GraceKills, Kills
<1>14. ASSUME NEW t \in Turns, ReaderEnds(t), Quiet  PROVE TypedClaude'
  BY <1>14 DEF ReaderEnds, TakesActive, Finished
<1>15. ASSUME NEW t \in Turns, Opened(t), Quiet  PROVE TypedClaude'
  BY <1>15 DEF Opened, Says
<1>16. ASSUME NEW t \in Turns, OpenRefused(t), Quiet  PROVE TypedClaude'
  BY <1>16 DEF OpenRefused, Says, TakesActive, Finished, Kills
<1>17. ASSUME NEW t \in Turns, Named(t), Quiet  PROVE TypedClaude'
  BY <1>17 DEF Named, Says
<1>18. ASSUME NEW t \in Turns, Asks(t), Quiet  PROVE TypedClaude'
  BY <1>18 DEF Asks, Says
<1>19. ASSUME NEW t \in Turns, Completed(t), Quiet  PROVE TypedClaude'
  BY <1>19 DEF Completed, Says, TakesActive, Finished
<1>20. ASSUME NEW t \in Turns, Dies(t), Quiet  PROVE TypedClaude'
  BY <1>20 DEF Dies
<1>21. ASSUME NEW t \in Turns, Age(t), Quiet  PROVE TypedClaude'
  BY <1>21 DEF Age
<1>22. ASSUME NEW t \in Turns, NEW h \in Threads, ReapNext(t, h), Quiet  PROVE TypedClaude'
  BY <1>22 DEF ReapNext
<1>23. ASSUME NEW t \in Turns, NEW s \in Turns, Reuse(t, s), Quiet  PROVE TypedClaude'
  BY <1>23 DEF Reuse, Goto, Looks
<1>24. ASSUME NEW t \in Turns, TakeGate(t)  PROVE TypedClaude'
  BY <1>24 DEF TakeGate, Goto
<1>25. ASSUME NEW t \in Turns, StartFails(t)  PROVE TypedClaude'
  BY <1>25 DEF StartFails, Goto, Refused, Finished
<1>26. ASSUME NEW t \in Turns, ClaimFails(t)  PROVE TypedClaude'
  BY <1>26 DEF ClaimFails, Goto, Refused, Finished, Release
<1>27. ASSUME NEW t \in Turns, Claim(t)  PROVE TypedClaude'
  BY <1>27 DEF Claim, Goto
<1>28. ASSUME NEW t \in Turns, Started(t)  PROVE TypedClaude'
  BY <1>28 DEF Started, Talks, Release
<1>29. ASSUME NEW t \in Turns, Progress(t)  PROVE TypedClaude'
  BY <1>29 DEF Progress, Talks
<1>30. ASSUME NEW t \in Turns, Result(t)  PROVE TypedClaude'
  BY <1>30 DEF Result, Talks
<1>31. ASSUME NEW t \in Turns, Exits(t)  PROVE TypedClaude'
  BY <1>31 DEF Exits
<1>32. ASSUME NEW t \in Turns, Leave(t)  PROVE TypedClaude'
  BY <1>32 DEF Leave, Goto
<1>33. ASSUME NEW t \in Turns, Retry(t)  PROVE TypedClaude'
  BY <1>33 DEF Retry, Goto, ShouldRetry, Release
<1>34. ASSUME NEW t \in Turns, Resend(t)  PROVE TypedClaude'
  <2>1. tries[t] + 1 \in 0..Retries
    <3>1. tries[t] \in 0..Retries /\ tries[t] < Retries /\ Retries \in Nat
      BY <1>34, AgentChatAssumption DEF Resend, Tried, Typed, TypeOK
    <3> QED BY <3>1
  <2> QED BY <1>34, <2>1 DEF Resend
<1>35. ASSUME NEW t \in Turns, End(t)  PROVE TypedClaude'
  BY <1>35 DEF End, Goto, ShouldRetry, Finished, Release
<1>36. ASSUME NEW t \in Turns, Send(t)  PROVE TypedClaude'
  BY <1>36 DEF Send, Goto
<1>37. ASSUME NEW t \in Turns, Respond(t)  PROVE TypedClaude'
  BY <1>37 DEF Respond
<1>38. ASSUME NEW h \in Threads, Handoff(h)  PROVE TypedClaude'
  BY <1>38 DEF Handoff
<1>39. ASSUME NEW h \in Threads, Stop(h)  PROVE TypedClaude'
  BY <1>39 DEF Stop, InFlight, Registered, StopTurn, KillClaude, Kills
<1>40. ASSUME NEW h \in Threads, Remove(h)  PROVE TypedClaude'
  BY <1>40 DEF Remove, InFlight, KillClaude
<1>41. CASE Reload
  BY <1>41 DEF Reload
<1>42. CASE Probe
  BY <1>42 DEF Probe
<1>43. CASE UNCHANGED vars
  BY <1>43
<1> QED BY <1>1, <1>2, <1>3, <1>4, <1>5, <1>6, <1>7, <1>8, <1>9, <1>10, <1>11, <1>12, <1>13,
    <1>14, <1>15, <1>16, <1>17, <1>18, <1>19, <1>20, <1>21, <1>22, <1>23, <1>24, <1>25, <1>26,
    <1>27, <1>28, <1>29, <1>30, <1>31, <1>32, <1>33, <1>34, <1>35, <1>36, <1>37, <1>38, <1>39,
    <1>40, <1>41, <1>42, <1>43, Cases


\* CodexServers::close, one entry at a time.
Closed(h) ==
  /\ server'[h] = None /\ \A g \in Threads : g # h => server'[g] = server[g]
  /\ \A s \in Turns : exited'[s] = (exited[s] \/ s = server[h])
  /\ \A s \in Turns : proc'[s] = IF s = server[h] /\ proc[s] = "up" THEN "killed" ELSE proc[s]

LEMMA Closes ==
  ASSUME Typed  PROVE \A h \in Threads : CloseServer(h) => Closed(h)
<1>1. DOMAIN server = Threads
  BY DEF Typed, TypeOK
<1> QED BY <1>1, Names DEF CloseServer, Closed, Kills, Registered


LEMMA BornStep ==
  ASSUME Typed, NEW x \in Turns, Born, Assigned, [Next]_vars  PROVE BornAt(x)'
<1>c. \A h \in Threads : CloseServer(h) => Closed(h)
  BY Closes
<1>y. \A s \in Turns : active[s] \in Turns \cup {None} /\ on[s] \in Turns \cup {None}
  BY DEF Typed, TypeOK
<1>q. \A t \in Turns : threadOf[t] \in Threads
  BY DEF Typed
<1>t. DOMAIN work = Turns /\ DOMAIN on = Turns /\ DOMAIN ended = Turns
      /\ DOMAIN proc = Turns /\ DOMAIN exited = Turns /\ DOMAIN queued = Turns
      /\ DOMAIN given = Turns /\ DOMAIN server = Threads
  BY DEF Typed, TypeOK
<1>z. ASSUME work[x] \in Unborn, NEW h \in Threads, Closed(h)
      PROVE  (exited'[x] => exited[x]) /\ proc'[x] = proc[x] /\ \A g \in Threads : server'[g] # x
  <2>1. server[h] # x /\ \A g \in Threads : server[g] # x
    BY <1>z DEF Born, BornAt
  <2>2. \A g \in Threads : server'[g] = IF g = h THEN None ELSE server[g]
    BY <1>z DEF Closed
  <2> QED BY <1>z, <2>1, <2>2, Names DEF Closed
<1> USE Names, <1>t, <1>y DEF Born, Assigned, BornAt, AssignedAt, Unborn, Quiet, vars,
    codexVars, lockState, windowVars, claudeVars
<1>1. ASSUME NEW t \in Turns, Reap(t), Quiet  PROVE BornAt(x)'
  BY <1>1 DEF Reap, Goto, Registered
<1>2. ASSUME NEW t \in Turns, Misses(t), Quiet  PROVE BornAt(x)'
  BY <1>2 DEF Misses, Goto, Looks, Registered
<1>3. ASSUME NEW t \in Turns, CloseDead(t), Quiet  PROVE BornAt(x)'
  <2>1. Closed(threadOf[t])
    BY <1>3, <1>c, <1>q DEF CloseDead
  <2> QED BY <1>3, <2>1, <1>q, <1>z DEF CloseDead, Goto
<1>4. ASSUME NEW t \in Turns, Answering(t), Quiet  PROVE BornAt(x)'
  BY <1>4 DEF Answering, Goto, Looks, Registered
<1>5. ASSUME NEW t \in Turns, WriteTurn(t), Quiet  PROVE BornAt(x)'
  BY <1>5 DEF WriteTurn, Goto
<1>6. ASSUME NEW t \in Turns, WriteTurnFails(t), Quiet  PROVE BornAt(x)'
  <2>1. Closed(threadOf[t])
    BY <1>6, <1>c, <1>q DEF WriteTurnFails
  <2> QED BY <1>6, <2>1, <1>q, <1>z DEF WriteTurnFails, Goto
<1>7. ASSUME NEW t \in Turns, Spawn(t), Quiet  PROVE BornAt(x)'
  BY <1>7 DEF Spawn, Goto
<1>8. ASSUME NEW t \in Turns, SpawnFails(t), Quiet  PROVE BornAt(x)'
  BY <1>8 DEF SpawnFails, Goto
<1>9. ASSUME NEW t \in Turns, Insert(t), Quiet  PROVE BornAt(x)'
  BY <1>9 DEF Insert, Goto, Registered, Kills
<1>10. ASSUME NEW t \in Turns, WriteOpening(t), Quiet  PROVE BornAt(x)'
  BY <1>10 DEF WriteOpening, Goto
<1>11. ASSUME NEW t \in Turns, WriteOpeningFails(t), Quiet  PROVE BornAt(x)'
  <2>1. Closed(threadOf[t])
    BY <1>11, <1>c, <1>q DEF WriteOpeningFails
  <2> QED BY <1>11, <2>1, <1>q, <1>z DEF WriteOpeningFails, Goto
<1>12. ASSUME NEW t \in Turns, GraceEnds(t), Quiet  PROVE BornAt(x)'
  BY <1>12 DEF GraceEnds
<1>13. ASSUME NEW t \in Turns, GraceKills(t), Quiet  PROVE BornAt(x)'
  BY <1>13 DEF GraceKills, Kills
<1>14. ASSUME NEW t \in Turns, ReaderEnds(t), Quiet  PROVE BornAt(x)'
  BY <1>14 DEF ReaderEnds, TakesActive, Finished
<1>15. ASSUME NEW t \in Turns, Opened(t), Quiet  PROVE BornAt(x)'
  BY <1>15 DEF Opened, Says
<1>16. ASSUME NEW t \in Turns, OpenRefused(t), Quiet  PROVE BornAt(x)'
  BY <1>16 DEF OpenRefused, Says, TakesActive, Finished, Kills
<1>17. ASSUME NEW t \in Turns, Named(t), Quiet  PROVE BornAt(x)'
  BY <1>17 DEF Named, Says
<1>18. ASSUME NEW t \in Turns, Asks(t), Quiet  PROVE BornAt(x)'
  BY <1>18 DEF Asks, Says
<1>19. ASSUME NEW t \in Turns, Completed(t), Quiet  PROVE BornAt(x)'
  BY <1>19 DEF Completed, Says, TakesActive, Finished
<1>20. ASSUME NEW t \in Turns, Dies(t), Quiet  PROVE BornAt(x)'
  BY <1>20 DEF Dies
<1>21. ASSUME NEW t \in Turns, Age(t), Quiet  PROVE BornAt(x)'
  BY <1>21 DEF Age
<1>22. ASSUME NEW t \in Turns, NEW h \in Threads, ReapNext(t, h), Quiet  PROVE BornAt(x)'
  <2>1. Closed(h)
    BY <1>22, <1>c, <1>q DEF ReapNext
  <2> QED BY <1>22, <2>1, <1>q, <1>z DEF ReapNext
<1>23. ASSUME NEW t \in Turns, NEW s \in Turns, Reuse(t, s), Quiet  PROVE BornAt(x)'
  <2>1. work[x] \in Unborn => s # x
    BY <1>23, <1>q DEF Reuse, Looks
  <2> QED BY <1>23, <2>1 DEF Reuse, Goto, Looks
<1>24. ASSUME NEW t \in Turns, TakeGate(t)  PROVE BornAt(x)'
  BY <1>24 DEF TakeGate, Goto
<1>25. ASSUME NEW t \in Turns, StartFails(t)  PROVE BornAt(x)'
  BY <1>25 DEF StartFails, Goto, Refused, Finished
<1>26. ASSUME NEW t \in Turns, ClaimFails(t)  PROVE BornAt(x)'
  BY <1>26 DEF ClaimFails, Goto, Refused, Finished, Release
<1>27. ASSUME NEW t \in Turns, Claim(t)  PROVE BornAt(x)'
  BY <1>27 DEF Claim, Goto
<1>28. ASSUME NEW t \in Turns, Started(t)  PROVE BornAt(x)'
  BY <1>28 DEF Started, Talks, Release
<1>29. ASSUME NEW t \in Turns, Progress(t)  PROVE BornAt(x)'
  BY <1>29 DEF Progress, Talks
<1>30. ASSUME NEW t \in Turns, Result(t)  PROVE BornAt(x)'
  BY <1>30 DEF Result, Talks
<1>31. ASSUME NEW t \in Turns, Exits(t)  PROVE BornAt(x)'
  BY <1>31 DEF Exits
<1>32. ASSUME NEW t \in Turns, Leave(t)  PROVE BornAt(x)'
  BY <1>32 DEF Leave, Goto
<1>33. ASSUME NEW t \in Turns, Retry(t)  PROVE BornAt(x)'
  BY <1>33 DEF Retry, Goto, ShouldRetry, Release
<1>34. ASSUME NEW t \in Turns, Resend(t)  PROVE BornAt(x)'
  BY <1>34 DEF Resend, Goto
<1>35. ASSUME NEW t \in Turns, End(t)  PROVE BornAt(x)'
  BY <1>35 DEF End, Goto, ShouldRetry, Finished, Release
<1>36. ASSUME NEW t \in Turns, Send(t)  PROVE BornAt(x)'
  BY <1>36 DEF Send, Goto
<1>37. ASSUME NEW t \in Turns, Respond(t)  PROVE BornAt(x)'
  BY <1>37 DEF Respond
<1>38. ASSUME NEW h \in Threads, Handoff(h)  PROVE BornAt(x)'
  BY <1>38 DEF Handoff
<1>39. ASSUME NEW h \in Threads, Stop(h)  PROVE BornAt(x)'
  BY <1>39 DEF Stop, InFlight, Registered, StopTurn, KillClaude, Kills
<1>40. ASSUME NEW h \in Threads, Remove(h)  PROVE BornAt(x)'
  <2>1. Closed(h)
    BY <1>40, <1>c, <1>q DEF Remove
  <2> QED BY <1>40, <2>1, <1>q, <1>z DEF Remove, InFlight, KillClaude
<1>41. CASE Reload
  BY <1>41 DEF Reload
<1>42. CASE Probe
  BY <1>42 DEF Probe
<1>43. CASE UNCHANGED vars
  BY <1>43
<1> QED BY <1>1, <1>2, <1>3, <1>4, <1>5, <1>6, <1>7, <1>8, <1>9, <1>10, <1>11, <1>12, <1>13,
    <1>14, <1>15, <1>16, <1>17, <1>18, <1>19, <1>20, <1>21, <1>22, <1>23, <1>24, <1>25, <1>26,
    <1>27, <1>28, <1>29, <1>30, <1>31, <1>32, <1>33, <1>34, <1>35, <1>36, <1>37, <1>38, <1>39,
    <1>40, <1>41, <1>42, <1>43, Cases

LEMMA AssignedStep ==
  ASSUME Typed, NEW x \in Turns, Born, Assigned, [Next]_vars  PROVE AssignedAt(x)'
<1>c. \A h \in Threads : CloseServer(h) => Closed(h)
  BY Closes
<1>y. \A s \in Turns : active[s] \in Turns \cup {None} /\ on[s] \in Turns \cup {None}
  BY DEF Typed, TypeOK
<1>q. \A t \in Turns : threadOf[t] \in Threads
  BY DEF Typed
<1>t. DOMAIN work = Turns /\ DOMAIN on = Turns /\ DOMAIN ended = Turns /\ DOMAIN active = Turns
  BY DEF Typed, TypeOK
<1> USE Names, <1>t, <1>y DEF Born, Assigned, BornAt, AssignedAt, Unborn, Quiet, vars,
    codexVars, lockState, windowVars, claudeVars
<1>1. ASSUME NEW t \in Turns, Reap(t), Quiet  PROVE AssignedAt(x)'
  BY <1>1 DEF Reap, Goto, Registered
<1>2. ASSUME NEW t \in Turns, Misses(t), Quiet  PROVE AssignedAt(x)'
  BY <1>2 DEF Misses, Goto, Looks, Registered
<1>3. ASSUME NEW t \in Turns, CloseDead(t), Quiet  PROVE AssignedAt(x)'
  <2>1. Closed(threadOf[t])
    BY <1>3, <1>c, <1>q DEF CloseDead
  <2> QED BY <1>3, <2>1, <1>q DEF CloseDead, Goto, Closed
<1>4. ASSUME NEW t \in Turns, Answering(t), Quiet  PROVE AssignedAt(x)'
  BY <1>4 DEF Answering, Goto, Looks, Registered
<1>5. ASSUME NEW t \in Turns, WriteTurn(t), Quiet  PROVE AssignedAt(x)'
  BY <1>5 DEF WriteTurn, Goto
<1>6. ASSUME NEW t \in Turns, WriteTurnFails(t), Quiet  PROVE AssignedAt(x)'
  <2>1. Closed(threadOf[t])
    BY <1>6, <1>c, <1>q DEF WriteTurnFails
  <2> QED BY <1>6, <2>1, <1>q DEF WriteTurnFails, Goto, Closed
<1>7. ASSUME NEW t \in Turns, Spawn(t), Quiet  PROVE AssignedAt(x)'
  BY <1>7 DEF Spawn, Goto
<1>8. ASSUME NEW t \in Turns, SpawnFails(t), Quiet  PROVE AssignedAt(x)'
  BY <1>8 DEF SpawnFails, Goto
<1>9. ASSUME NEW t \in Turns, Insert(t), Quiet  PROVE AssignedAt(x)'
  BY <1>9 DEF Insert, Goto, Registered, Kills
<1>10. ASSUME NEW t \in Turns, WriteOpening(t), Quiet  PROVE AssignedAt(x)'
  BY <1>10 DEF WriteOpening, Goto
<1>11. ASSUME NEW t \in Turns, WriteOpeningFails(t), Quiet  PROVE AssignedAt(x)'
  <2>1. Closed(threadOf[t])
    BY <1>11, <1>c, <1>q DEF WriteOpeningFails
  <2> QED BY <1>11, <2>1, <1>q DEF WriteOpeningFails, Goto, Closed
<1>12. ASSUME NEW t \in Turns, GraceEnds(t), Quiet  PROVE AssignedAt(x)'
  BY <1>12 DEF GraceEnds
<1>13. ASSUME NEW t \in Turns, GraceKills(t), Quiet  PROVE AssignedAt(x)'
  BY <1>13 DEF GraceKills, Kills
<1>14. ASSUME NEW t \in Turns, ReaderEnds(t), Quiet  PROVE AssignedAt(x)'
  BY <1>14 DEF ReaderEnds, TakesActive, Finished
<1>15. ASSUME NEW t \in Turns, Opened(t), Quiet  PROVE AssignedAt(x)'
  BY <1>15 DEF Opened, Says
<1>16. ASSUME NEW t \in Turns, OpenRefused(t), Quiet  PROVE AssignedAt(x)'
  BY <1>16 DEF OpenRefused, Says, TakesActive, Finished, Kills
<1>17. ASSUME NEW t \in Turns, Named(t), Quiet  PROVE AssignedAt(x)'
  BY <1>17 DEF Named, Says
<1>18. ASSUME NEW t \in Turns, Asks(t), Quiet  PROVE AssignedAt(x)'
  BY <1>18 DEF Asks, Says
<1>19. ASSUME NEW t \in Turns, Completed(t), Quiet  PROVE AssignedAt(x)'
  BY <1>19 DEF Completed, Says, TakesActive, Finished
<1>20. ASSUME NEW t \in Turns, Dies(t), Quiet  PROVE AssignedAt(x)'
  BY <1>20 DEF Dies
<1>21. ASSUME NEW t \in Turns, Age(t), Quiet  PROVE AssignedAt(x)'
  BY <1>21 DEF Age
<1>22. ASSUME NEW t \in Turns, NEW h \in Threads, ReapNext(t, h), Quiet  PROVE AssignedAt(x)'
  <2>1. Closed(h)
    BY <1>22, <1>c, <1>q DEF ReapNext
  <2> QED BY <1>22, <2>1, <1>q DEF ReapNext, Closed
<1>23. ASSUME NEW t \in Turns, NEW s \in Turns, Reuse(t, s), Quiet  PROVE AssignedAt(x)'
  BY <1>23 DEF Reuse, Goto, Looks
<1>24. ASSUME NEW t \in Turns, TakeGate(t)  PROVE AssignedAt(x)'
  BY <1>24 DEF TakeGate, Goto
<1>25. ASSUME NEW t \in Turns, StartFails(t)  PROVE AssignedAt(x)'
  BY <1>25 DEF StartFails, Goto, Refused, Finished
<1>26. ASSUME NEW t \in Turns, ClaimFails(t)  PROVE AssignedAt(x)'
  BY <1>26 DEF ClaimFails, Goto, Refused, Finished, Release
<1>27. ASSUME NEW t \in Turns, Claim(t)  PROVE AssignedAt(x)'
  BY <1>27 DEF Claim, Goto
<1>28. ASSUME NEW t \in Turns, Started(t)  PROVE AssignedAt(x)'
  BY <1>28 DEF Started, Talks, Release
<1>29. ASSUME NEW t \in Turns, Progress(t)  PROVE AssignedAt(x)'
  BY <1>29 DEF Progress, Talks
<1>30. ASSUME NEW t \in Turns, Result(t)  PROVE AssignedAt(x)'
  BY <1>30 DEF Result, Talks
<1>31. ASSUME NEW t \in Turns, Exits(t)  PROVE AssignedAt(x)'
  BY <1>31 DEF Exits
<1>32. ASSUME NEW t \in Turns, Leave(t)  PROVE AssignedAt(x)'
  BY <1>32 DEF Leave, Goto
<1>33. ASSUME NEW t \in Turns, Retry(t)  PROVE AssignedAt(x)'
  BY <1>33 DEF Retry, Goto, ShouldRetry, Release
<1>34. ASSUME NEW t \in Turns, Resend(t)  PROVE AssignedAt(x)'
  BY <1>34 DEF Resend, Goto
<1>35. ASSUME NEW t \in Turns, End(t)  PROVE AssignedAt(x)'
  BY <1>35 DEF End, Goto, ShouldRetry, Finished, Release
<1>36. ASSUME NEW t \in Turns, Send(t)  PROVE AssignedAt(x)'
  BY <1>36 DEF Send, Goto
<1>37. ASSUME NEW t \in Turns, Respond(t)  PROVE AssignedAt(x)'
  BY <1>37 DEF Respond
<1>38. ASSUME NEW h \in Threads, Handoff(h)  PROVE AssignedAt(x)'
  BY <1>38 DEF Handoff
<1>39. ASSUME NEW h \in Threads, Stop(h)  PROVE AssignedAt(x)'
  BY <1>39 DEF Stop, InFlight, Registered, StopTurn, KillClaude, Kills
<1>40. ASSUME NEW h \in Threads, Remove(h)  PROVE AssignedAt(x)'
  <2>1. Closed(h)
    BY <1>40, <1>c, <1>q DEF Remove
  <2> QED BY <1>40, <2>1, <1>q DEF Remove, InFlight, KillClaude, Closed
<1>41. CASE Reload
  BY <1>41 DEF Reload
<1>42. CASE Probe
  BY <1>42 DEF Probe
<1>43. CASE UNCHANGED vars
  BY <1>43
<1> QED BY <1>1, <1>2, <1>3, <1>4, <1>5, <1>6, <1>7, <1>8, <1>9, <1>10, <1>11, <1>12, <1>13,
    <1>14, <1>15, <1>16, <1>17, <1>18, <1>19, <1>20, <1>21, <1>22, <1>23, <1>24, <1>25, <1>26,
    <1>27, <1>28, <1>29, <1>30, <1>31, <1>32, <1>33, <1>34, <1>35, <1>36, <1>37, <1>38, <1>39,
    <1>40, <1>41, <1>42, <1>43, Cases

LEMMA EndedStep ==
  ASSUME Typed, NEW x \in Turns, Born, Ended, [Next]_vars  PROVE EndedAt(x)'
<1>c. \A h \in Threads : CloseServer(h) => Closed(h)
  BY Closes
<1>y. \A s \in Turns : active[s] \in Turns \cup {None} /\ on[s] \in Turns \cup {None}
  BY DEF Typed, TypeOK
<1>q. \A t \in Turns : threadOf[t] \in Threads
  BY DEF Typed
<1>t. DOMAIN work = Turns /\ DOMAIN proc = Turns /\ DOMAIN exited = Turns
  BY DEF Typed, TypeOK
<1> USE Names, <1>t, <1>y DEF Born, Ended, BornAt, EndedAt, Unborn, Quiet, vars, codexVars,
    lockState, windowVars, claudeVars
<1>1. ASSUME NEW t \in Turns, Reap(t), Quiet  PROVE EndedAt(x)'
  BY <1>1 DEF Reap, Goto, Registered
<1>2. ASSUME NEW t \in Turns, Misses(t), Quiet  PROVE EndedAt(x)'
  BY <1>2 DEF Misses, Goto, Looks, Registered
<1>3. ASSUME NEW t \in Turns, CloseDead(t), Quiet  PROVE EndedAt(x)'
  <2>1. Closed(threadOf[t])
    BY <1>3, <1>c, <1>q DEF CloseDead
  <2>2. /\ exited'[x] = (exited[x] \/ x = server[threadOf[t]])
        /\ proc'[x] = IF x = server[threadOf[t]] /\ proc[x] = "up" THEN "killed" ELSE proc[x]
    BY <2>1 DEF Closed
  <2> QED BY <2>2
<1>4. ASSUME NEW t \in Turns, Answering(t), Quiet  PROVE EndedAt(x)'
  BY <1>4 DEF Answering, Goto, Looks, Registered
<1>5. ASSUME NEW t \in Turns, WriteTurn(t), Quiet  PROVE EndedAt(x)'
  BY <1>5 DEF WriteTurn, Goto
<1>6. ASSUME NEW t \in Turns, WriteTurnFails(t), Quiet  PROVE EndedAt(x)'
  <2>1. Closed(threadOf[t])
    BY <1>6, <1>c, <1>q DEF WriteTurnFails
  <2>2. /\ exited'[x] = (exited[x] \/ x = server[threadOf[t]])
        /\ proc'[x] = IF x = server[threadOf[t]] /\ proc[x] = "up" THEN "killed" ELSE proc[x]
    BY <2>1 DEF Closed
  <2> QED BY <2>2
<1>7. ASSUME NEW t \in Turns, Spawn(t), Quiet  PROVE EndedAt(x)'
  BY <1>7 DEF Spawn, Goto
<1>8. ASSUME NEW t \in Turns, SpawnFails(t), Quiet  PROVE EndedAt(x)'
  BY <1>8 DEF SpawnFails, Goto
<1>9. ASSUME NEW t \in Turns, Insert(t), Quiet  PROVE EndedAt(x)'
  BY <1>9 DEF Insert, Goto, Registered, Kills
<1>10. ASSUME NEW t \in Turns, WriteOpening(t), Quiet  PROVE EndedAt(x)'
  BY <1>10 DEF WriteOpening, Goto
<1>11. ASSUME NEW t \in Turns, WriteOpeningFails(t), Quiet  PROVE EndedAt(x)'
  <2>1. Closed(threadOf[t])
    BY <1>11, <1>c, <1>q DEF WriteOpeningFails
  <2>2. /\ exited'[x] = (exited[x] \/ x = server[threadOf[t]])
        /\ proc'[x] = IF x = server[threadOf[t]] /\ proc[x] = "up" THEN "killed" ELSE proc[x]
    BY <2>1 DEF Closed
  <2> QED BY <2>2
<1>12. ASSUME NEW t \in Turns, GraceEnds(t), Quiet  PROVE EndedAt(x)'
  BY <1>12 DEF GraceEnds
<1>13. ASSUME NEW t \in Turns, GraceKills(t), Quiet  PROVE EndedAt(x)'
  BY <1>13 DEF GraceKills, Kills
<1>14. ASSUME NEW t \in Turns, ReaderEnds(t), Quiet  PROVE EndedAt(x)'
  BY <1>14 DEF ReaderEnds, TakesActive, Finished
<1>15. ASSUME NEW t \in Turns, Opened(t), Quiet  PROVE EndedAt(x)'
  BY <1>15 DEF Opened, Says
<1>16. ASSUME NEW t \in Turns, OpenRefused(t), Quiet  PROVE EndedAt(x)'
  BY <1>16 DEF OpenRefused, Says, TakesActive, Finished, Kills
<1>17. ASSUME NEW t \in Turns, Named(t), Quiet  PROVE EndedAt(x)'
  BY <1>17 DEF Named, Says
<1>18. ASSUME NEW t \in Turns, Asks(t), Quiet  PROVE EndedAt(x)'
  BY <1>18 DEF Asks, Says
<1>19. ASSUME NEW t \in Turns, Completed(t), Quiet  PROVE EndedAt(x)'
  BY <1>19 DEF Completed, Says, TakesActive, Finished
<1>20. ASSUME NEW t \in Turns, Dies(t), Quiet  PROVE EndedAt(x)'
  BY <1>20 DEF Dies
<1>21. ASSUME NEW t \in Turns, Age(t), Quiet  PROVE EndedAt(x)'
  BY <1>21 DEF Age
<1>22. ASSUME NEW t \in Turns, NEW h \in Threads, ReapNext(t, h), Quiet  PROVE EndedAt(x)'
  <2>1. Closed(h)
    BY <1>22, <1>c, <1>q DEF ReapNext
  <2>2. /\ exited'[x] = (exited[x] \/ x = server[h])
        /\ proc'[x] = IF x = server[h] /\ proc[x] = "up" THEN "killed" ELSE proc[x]
    BY <2>1 DEF Closed
  <2> QED BY <2>2
<1>23. ASSUME NEW t \in Turns, NEW s \in Turns, Reuse(t, s), Quiet  PROVE EndedAt(x)'
  BY <1>23 DEF Reuse, Goto, Looks
<1>24. ASSUME NEW t \in Turns, TakeGate(t)  PROVE EndedAt(x)'
  BY <1>24 DEF TakeGate, Goto
<1>25. ASSUME NEW t \in Turns, StartFails(t)  PROVE EndedAt(x)'
  BY <1>25 DEF StartFails, Goto, Refused, Finished
<1>26. ASSUME NEW t \in Turns, ClaimFails(t)  PROVE EndedAt(x)'
  BY <1>26 DEF ClaimFails, Goto, Refused, Finished, Release
<1>27. ASSUME NEW t \in Turns, Claim(t)  PROVE EndedAt(x)'
  BY <1>27 DEF Claim, Goto
<1>28. ASSUME NEW t \in Turns, Started(t)  PROVE EndedAt(x)'
  BY <1>28 DEF Started, Talks, Release
<1>29. ASSUME NEW t \in Turns, Progress(t)  PROVE EndedAt(x)'
  BY <1>29 DEF Progress, Talks
<1>30. ASSUME NEW t \in Turns, Result(t)  PROVE EndedAt(x)'
  BY <1>30 DEF Result, Talks
<1>31. ASSUME NEW t \in Turns, Exits(t)  PROVE EndedAt(x)'
  BY <1>31 DEF Exits
<1>32. ASSUME NEW t \in Turns, Leave(t)  PROVE EndedAt(x)'
  BY <1>32 DEF Leave, Goto
<1>33. ASSUME NEW t \in Turns, Retry(t)  PROVE EndedAt(x)'
  BY <1>33 DEF Retry, Goto, ShouldRetry, Release
<1>34. ASSUME NEW t \in Turns, Resend(t)  PROVE EndedAt(x)'
  BY <1>34 DEF Resend, Goto
<1>35. ASSUME NEW t \in Turns, End(t)  PROVE EndedAt(x)'
  BY <1>35 DEF End, Goto, ShouldRetry, Finished, Release
<1>36. ASSUME NEW t \in Turns, Send(t)  PROVE EndedAt(x)'
  BY <1>36 DEF Send, Goto
<1>37. ASSUME NEW t \in Turns, Respond(t)  PROVE EndedAt(x)'
  BY <1>37 DEF Respond
<1>38. ASSUME NEW h \in Threads, Handoff(h)  PROVE EndedAt(x)'
  BY <1>38 DEF Handoff
<1>39. ASSUME NEW h \in Threads, Stop(h)  PROVE EndedAt(x)'
  BY <1>39 DEF Stop, InFlight, Registered, StopTurn, KillClaude, Kills
<1>40. ASSUME NEW h \in Threads, Remove(h)  PROVE EndedAt(x)'
  <2>1. Closed(h)
    BY <1>40, <1>c, <1>q DEF Remove
  <2>2. /\ exited'[x] = (exited[x] \/ x = server[h])
        /\ proc'[x] = IF x = server[h] /\ proc[x] = "up" THEN "killed" ELSE proc[x]
    BY <2>1 DEF Closed
  <2> QED BY <2>2
<1>41. CASE Reload
  BY <1>41 DEF Reload
<1>42. CASE Probe
  BY <1>42 DEF Probe
<1>43. CASE UNCHANGED vars
  BY <1>43
<1> QED BY <1>1, <1>2, <1>3, <1>4, <1>5, <1>6, <1>7, <1>8, <1>9, <1>10, <1>11, <1>12, <1>13,
    <1>14, <1>15, <1>16, <1>17, <1>18, <1>19, <1>20, <1>21, <1>22, <1>23, <1>24, <1>25, <1>26,
    <1>27, <1>28, <1>29, <1>30, <1>31, <1>32, <1>33, <1>34, <1>35, <1>36, <1>37, <1>38, <1>39,
    <1>40, <1>41, <1>42, <1>43, Cases

LEMMA GivenStep ==
  ASSUME Typed, NEW x \in Turns, Born, Assigned, Ended, Given, Writing,
         [Next]_vars  PROVE GivenAt(x)'
<1>c. \A h \in Threads : CloseServer(h) => Closed(h)
  BY Closes
<1>y. \A s \in Turns : active[s] \in Turns \cup {None} /\ on[s] \in Turns \cup {None}
  BY DEF Typed, TypeOK
<1>q. \A t \in Turns : threadOf[t] \in Threads
  BY DEF Typed
<1>t. DOMAIN work = Turns /\ DOMAIN proc = Turns /\ DOMAIN given = Turns
      /\ DOMAIN queued = Turns /\ DOMAIN active = Turns /\ DOMAIN on = Turns
  BY DEF Typed, TypeOK
<1> USE Names, <1>t, <1>y DEF Born, Assigned, Ended, Given, Writing, BornAt, AssignedAt,
    EndedAt, GivenAt, WritingAt, Unborn, Quiet, vars, codexVars, lockState, windowVars,
    claudeVars
<1>1. ASSUME NEW t \in Turns, Reap(t), Quiet  PROVE GivenAt(x)'
  BY <1>1 DEF Reap, Goto, Registered
<1>2. ASSUME NEW t \in Turns, Misses(t), Quiet  PROVE GivenAt(x)'
  BY <1>2 DEF Misses, Goto, Looks, Registered
<1>3. ASSUME NEW t \in Turns, CloseDead(t), Quiet  PROVE GivenAt(x)'
  <2>1. Closed(threadOf[t])
    BY <1>3, <1>c, <1>q DEF CloseDead
  <2> QED BY <1>3, <2>1, <1>q DEF CloseDead, Goto, Closed
<1>4. ASSUME NEW t \in Turns, Answering(t), Quiet  PROVE GivenAt(x)'
  BY <1>4 DEF Answering, Goto, Looks, Registered
<1>5. ASSUME NEW t \in Turns, WriteTurn(t), Quiet  PROVE GivenAt(x)'
  BY <1>5 DEF WriteTurn, Goto
<1>6. ASSUME NEW t \in Turns, WriteTurnFails(t), Quiet  PROVE GivenAt(x)'
  <2>1. Closed(threadOf[t])
    BY <1>6, <1>c, <1>q DEF WriteTurnFails
  <2> QED BY <1>6, <2>1, <1>q DEF WriteTurnFails, Goto, Closed
<1>7. ASSUME NEW t \in Turns, Spawn(t), Quiet  PROVE GivenAt(x)'
  BY <1>7 DEF Spawn, Goto
<1>8. ASSUME NEW t \in Turns, SpawnFails(t), Quiet  PROVE GivenAt(x)'
  BY <1>8 DEF SpawnFails, Goto
<1>9. ASSUME NEW t \in Turns, Insert(t), Quiet  PROVE GivenAt(x)'
  BY <1>9 DEF Insert, Goto, Registered, Kills
<1>10. ASSUME NEW t \in Turns, WriteOpening(t), Quiet  PROVE GivenAt(x)'
  BY <1>10 DEF WriteOpening, Goto
<1>11. ASSUME NEW t \in Turns, WriteOpeningFails(t), Quiet  PROVE GivenAt(x)'
  <2>1. Closed(threadOf[t])
    BY <1>11, <1>c, <1>q DEF WriteOpeningFails
  <2> QED BY <1>11, <2>1, <1>q DEF WriteOpeningFails, Goto, Closed
<1>12. ASSUME NEW t \in Turns, GraceEnds(t), Quiet  PROVE GivenAt(x)'
  BY <1>12 DEF GraceEnds
<1>13. ASSUME NEW t \in Turns, GraceKills(t), Quiet  PROVE GivenAt(x)'
  BY <1>13 DEF GraceKills, Kills
<1>14. ASSUME NEW t \in Turns, ReaderEnds(t), Quiet  PROVE GivenAt(x)'
  BY <1>14 DEF ReaderEnds, TakesActive, Finished
<1>15. ASSUME NEW t \in Turns, Opened(t), Quiet  PROVE GivenAt(x)'
  BY <1>15 DEF Opened, Says
<1>16. ASSUME NEW t \in Turns, OpenRefused(t), Quiet  PROVE GivenAt(x)'
  BY <1>16 DEF OpenRefused, Says, TakesActive, Finished, Kills
<1>17. ASSUME NEW t \in Turns, Named(t), Quiet  PROVE GivenAt(x)'
  BY <1>17 DEF Named, Says
<1>18. ASSUME NEW t \in Turns, Asks(t), Quiet  PROVE GivenAt(x)'
  BY <1>18 DEF Asks, Says
<1>19. ASSUME NEW t \in Turns, Completed(t), Quiet  PROVE GivenAt(x)'
  BY <1>19 DEF Completed, Says, TakesActive, Finished
<1>20. ASSUME NEW t \in Turns, Dies(t), Quiet  PROVE GivenAt(x)'
  BY <1>20 DEF Dies
<1>21. ASSUME NEW t \in Turns, Age(t), Quiet  PROVE GivenAt(x)'
  BY <1>21 DEF Age
<1>22. ASSUME NEW t \in Turns, NEW h \in Threads, ReapNext(t, h), Quiet  PROVE GivenAt(x)'
  <2>1. Closed(h)
    BY <1>22, <1>c, <1>q DEF ReapNext
  <2> QED BY <1>22, <2>1, <1>q DEF ReapNext, Closed
<1>23. ASSUME NEW t \in Turns, NEW s \in Turns, Reuse(t, s), Quiet  PROVE GivenAt(x)'
  BY <1>23 DEF Reuse, Goto, Looks
<1>24. ASSUME NEW t \in Turns, TakeGate(t)  PROVE GivenAt(x)'
  BY <1>24 DEF TakeGate, Goto
<1>25. ASSUME NEW t \in Turns, StartFails(t)  PROVE GivenAt(x)'
  BY <1>25 DEF StartFails, Goto, Refused, Finished
<1>26. ASSUME NEW t \in Turns, ClaimFails(t)  PROVE GivenAt(x)'
  BY <1>26 DEF ClaimFails, Goto, Refused, Finished, Release
<1>27. ASSUME NEW t \in Turns, Claim(t)  PROVE GivenAt(x)'
  BY <1>27 DEF Claim, Goto
<1>28. ASSUME NEW t \in Turns, Started(t)  PROVE GivenAt(x)'
  BY <1>28 DEF Started, Talks, Release
<1>29. ASSUME NEW t \in Turns, Progress(t)  PROVE GivenAt(x)'
  BY <1>29 DEF Progress, Talks
<1>30. ASSUME NEW t \in Turns, Result(t)  PROVE GivenAt(x)'
  BY <1>30 DEF Result, Talks
<1>31. ASSUME NEW t \in Turns, Exits(t)  PROVE GivenAt(x)'
  BY <1>31 DEF Exits
<1>32. ASSUME NEW t \in Turns, Leave(t)  PROVE GivenAt(x)'
  BY <1>32 DEF Leave, Goto
<1>33. ASSUME NEW t \in Turns, Retry(t)  PROVE GivenAt(x)'
  BY <1>33 DEF Retry, Goto, ShouldRetry, Release
<1>34. ASSUME NEW t \in Turns, Resend(t)  PROVE GivenAt(x)'
  BY <1>34 DEF Resend, Goto
<1>35. ASSUME NEW t \in Turns, End(t)  PROVE GivenAt(x)'
  BY <1>35 DEF End, Goto, ShouldRetry, Finished, Release
<1>36. ASSUME NEW t \in Turns, Send(t)  PROVE GivenAt(x)'
  BY <1>36 DEF Send, Goto
<1>37. ASSUME NEW t \in Turns, Respond(t)  PROVE GivenAt(x)'
  BY <1>37 DEF Respond
<1>38. ASSUME NEW h \in Threads, Handoff(h)  PROVE GivenAt(x)'
  BY <1>38 DEF Handoff
<1>39. ASSUME NEW h \in Threads, Stop(h)  PROVE GivenAt(x)'
  BY <1>39 DEF Stop, InFlight, Registered, StopTurn, KillClaude, Kills
<1>40. ASSUME NEW h \in Threads, Remove(h)  PROVE GivenAt(x)'
  <2>1. Closed(h)
    BY <1>40, <1>c, <1>q DEF Remove
  <2> QED BY <1>40, <2>1, <1>q DEF Remove, InFlight, KillClaude, Closed
<1>41. CASE Reload
  BY <1>41 DEF Reload
<1>42. CASE Probe
  BY <1>42 DEF Probe
<1>43. CASE UNCHANGED vars
  BY <1>43
<1> QED BY <1>1, <1>2, <1>3, <1>4, <1>5, <1>6, <1>7, <1>8, <1>9, <1>10, <1>11, <1>12, <1>13,
    <1>14, <1>15, <1>16, <1>17, <1>18, <1>19, <1>20, <1>21, <1>22, <1>23, <1>24, <1>25, <1>26,
    <1>27, <1>28, <1>29, <1>30, <1>31, <1>32, <1>33, <1>34, <1>35, <1>36, <1>37, <1>38, <1>39,
    <1>40, <1>41, <1>42, <1>43, Cases

LEMMA WritingStep ==
  ASSUME Typed, NEW x \in Turns, Born, Assigned, Ended, Given, Writing,
         [Next]_vars  PROVE WritingAt(x)'
<1>c. \A h \in Threads : CloseServer(h) => Closed(h)
  BY Closes
<1>y. \A s \in Turns : active[s] \in Turns \cup {None} /\ on[s] \in Turns \cup {None}
  BY DEF Typed, TypeOK
<1>q. \A t \in Turns : threadOf[t] \in Threads
  BY DEF Typed
<1>t. DOMAIN work = Turns /\ DOMAIN on = Turns /\ DOMAIN proc = Turns
      /\ DOMAIN given = Turns /\ DOMAIN queued = Turns /\ DOMAIN active = Turns
      /\ DOMAIN exited = Turns
  BY DEF Typed, TypeOK
<1> USE Names, <1>t, <1>y DEF Born, Assigned, Ended, Given, Writing, BornAt, AssignedAt,
    EndedAt, GivenAt, WritingAt, Unborn, Quiet, vars, codexVars, lockState, windowVars,
    claudeVars
<1>1. ASSUME NEW t \in Turns, Reap(t), Quiet  PROVE WritingAt(x)'
  BY <1>1 DEF Reap, Goto, Registered
<1>2. ASSUME NEW t \in Turns, Misses(t), Quiet  PROVE WritingAt(x)'
  BY <1>2 DEF Misses, Goto, Looks, Registered
<1>3. ASSUME NEW t \in Turns, CloseDead(t), Quiet  PROVE WritingAt(x)'
  <2>1. Closed(threadOf[t])
    BY <1>3, <1>c, <1>q DEF CloseDead
  <2> QED BY <1>3, <2>1, <1>q DEF CloseDead, Goto, Closed
<1>4. ASSUME NEW t \in Turns, Answering(t), Quiet  PROVE WritingAt(x)'
  BY <1>4 DEF Answering, Goto, Looks, Registered
<1>5. ASSUME NEW t \in Turns, WriteTurn(t), Quiet  PROVE WritingAt(x)'
  BY <1>5 DEF WriteTurn, Goto
<1>6. ASSUME NEW t \in Turns, WriteTurnFails(t), Quiet  PROVE WritingAt(x)'
  <2>1. Closed(threadOf[t])
    BY <1>6, <1>c, <1>q DEF WriteTurnFails
  <2>2. work[t] = "write" /\ active' = [active EXCEPT ![on[t]] = None] /\ UNCHANGED <<on,
      given, queued>>
        /\ work'[t] = "err" /\ \A u \in Turns : u # t => work'[u] = work[u]
    BY <1>6 DEF WriteTurnFails, Goto
  <2>3. ASSUME x # t, work[x] = "write"  PROVE WritingAt(x)'
    <3>1. on[x] \in Turns /\ (exited[on[x]] => exited'[on[x]])
      BY <2>1, <2>3 DEF Closed
    <3>2. CASE on[x] = on[t]
      <4>1. active[on[x]] = None /\ exited[on[x]]
        BY <2>2, <2>3, <3>2
      <4> QED BY <2>2, <2>3, <3>1, <3>2, <4>1
    <3>3. CASE on[x] # on[t]
      <4>1. active'[on[x]] = active[on[x]]
        BY <2>2, <3>1, <3>3
      <4> QED BY <2>2, <2>3, <3>1, <4>1
    <3> QED BY <3>2, <3>3
  <2> QED BY <2>2, <2>3
<1>7. ASSUME NEW t \in Turns, Spawn(t), Quiet  PROVE WritingAt(x)'
  BY <1>7 DEF Spawn, Goto
<1>8. ASSUME NEW t \in Turns, SpawnFails(t), Quiet  PROVE WritingAt(x)'
  BY <1>8 DEF SpawnFails, Goto
<1>9. ASSUME NEW t \in Turns, Insert(t), Quiet  PROVE WritingAt(x)'
  BY <1>9 DEF Insert, Goto, Registered, Kills
<1>10. ASSUME NEW t \in Turns, WriteOpening(t), Quiet  PROVE WritingAt(x)'
  BY <1>10 DEF WriteOpening, Goto
<1>11. ASSUME NEW t \in Turns, WriteOpeningFails(t), Quiet  PROVE WritingAt(x)'
  <2>1. Closed(threadOf[t])
    BY <1>11, <1>c, <1>q DEF WriteOpeningFails
  <2> QED BY <1>11, <2>1, <1>q DEF WriteOpeningFails, Goto, Closed
<1>12. ASSUME NEW t \in Turns, GraceEnds(t), Quiet  PROVE WritingAt(x)'
  BY <1>12 DEF GraceEnds
<1>13. ASSUME NEW t \in Turns, GraceKills(t), Quiet  PROVE WritingAt(x)'
  BY <1>13 DEF GraceKills, Kills
<1>14. ASSUME NEW t \in Turns, ReaderEnds(t), Quiet  PROVE WritingAt(x)'
  BY <1>14 DEF ReaderEnds, TakesActive, Finished
<1>15. ASSUME NEW t \in Turns, Opened(t), Quiet  PROVE WritingAt(x)'
  BY <1>15 DEF Opened, Says
<1>16. ASSUME NEW t \in Turns, OpenRefused(t), Quiet  PROVE WritingAt(x)'
  BY <1>16 DEF OpenRefused, Says, TakesActive, Finished, Kills
<1>17. ASSUME NEW t \in Turns, Named(t), Quiet  PROVE WritingAt(x)'
  BY <1>17 DEF Named, Says
<1>18. ASSUME NEW t \in Turns, Asks(t), Quiet  PROVE WritingAt(x)'
  BY <1>18 DEF Asks, Says
<1>19. ASSUME NEW t \in Turns, Completed(t), Quiet  PROVE WritingAt(x)'
  BY <1>19 DEF Completed, Says, TakesActive, Finished
<1>20. ASSUME NEW t \in Turns, Dies(t), Quiet  PROVE WritingAt(x)'
  BY <1>20 DEF Dies
<1>21. ASSUME NEW t \in Turns, Age(t), Quiet  PROVE WritingAt(x)'
  BY <1>21 DEF Age
<1>22. ASSUME NEW t \in Turns, NEW h \in Threads, ReapNext(t, h), Quiet  PROVE WritingAt(x)'
  <2>1. Closed(h)
    BY <1>22, <1>c, <1>q DEF ReapNext
  <2> QED BY <1>22, <2>1, <1>q DEF ReapNext, Closed
<1>23. ASSUME NEW t \in Turns, NEW s \in Turns, Reuse(t, s), Quiet  PROVE WritingAt(x)'
  <2>1. /\ server[threadOf[t]] = s /\ ~exited[s] /\ active[s] = None /\ ~queued[s]
        /\ active' = [active EXCEPT ![s] = t] /\ on' = [on EXCEPT ![t] = s]
        /\ work[t] = "look" /\ UNCHANGED <<queued, given, exited>>
        /\ \A u \in Turns : u # t => work'[u] = work[u]
    BY <1>23 DEF Reuse, Looks, Goto
  <2>2. given[s] = None
    <3>1. given[s] \in Turns \cup {None, ThreadOpen}
      BY DEF Typed
    <3> QED BY <2>1, <3>1, <1>23
  <2>3. CASE x = t
    BY <2>1, <2>2, <2>3, <1>23
  <2>4. CASE x # t /\ work[x] = "write"
    <3>1. on[x] # s /\ on'[x] = on[x]
      BY <2>1, <2>4
    <3>2. active'[on[x]] = active[on[x]]
      BY <2>1, <2>4, <3>1
    <3> QED BY <2>1, <2>4, <3>1, <3>2
  <2> QED BY <2>1, <2>3, <2>4
<1>24. ASSUME NEW t \in Turns, TakeGate(t)  PROVE WritingAt(x)'
  BY <1>24 DEF TakeGate, Goto
<1>25. ASSUME NEW t \in Turns, StartFails(t)  PROVE WritingAt(x)'
  BY <1>25 DEF StartFails, Goto, Refused, Finished
<1>26. ASSUME NEW t \in Turns, ClaimFails(t)  PROVE WritingAt(x)'
  BY <1>26 DEF ClaimFails, Goto, Refused, Finished, Release
<1>27. ASSUME NEW t \in Turns, Claim(t)  PROVE WritingAt(x)'
  BY <1>27 DEF Claim, Goto
<1>28. ASSUME NEW t \in Turns, Started(t)  PROVE WritingAt(x)'
  BY <1>28 DEF Started, Talks, Release
<1>29. ASSUME NEW t \in Turns, Progress(t)  PROVE WritingAt(x)'
  BY <1>29 DEF Progress, Talks
<1>30. ASSUME NEW t \in Turns, Result(t)  PROVE WritingAt(x)'
  BY <1>30 DEF Result, Talks
<1>31. ASSUME NEW t \in Turns, Exits(t)  PROVE WritingAt(x)'
  BY <1>31 DEF Exits
<1>32. ASSUME NEW t \in Turns, Leave(t)  PROVE WritingAt(x)'
  BY <1>32 DEF Leave, Goto
<1>33. ASSUME NEW t \in Turns, Retry(t)  PROVE WritingAt(x)'
  BY <1>33 DEF Retry, Goto, ShouldRetry, Release
<1>34. ASSUME NEW t \in Turns, Resend(t)  PROVE WritingAt(x)'
  BY <1>34 DEF Resend, Goto
<1>35. ASSUME NEW t \in Turns, End(t)  PROVE WritingAt(x)'
  BY <1>35 DEF End, Goto, ShouldRetry, Finished, Release
<1>36. ASSUME NEW t \in Turns, Send(t)  PROVE WritingAt(x)'
  BY <1>36 DEF Send, Goto
<1>37. ASSUME NEW t \in Turns, Respond(t)  PROVE WritingAt(x)'
  BY <1>37 DEF Respond
<1>38. ASSUME NEW h \in Threads, Handoff(h)  PROVE WritingAt(x)'
  BY <1>38 DEF Handoff
<1>39. ASSUME NEW h \in Threads, Stop(h)  PROVE WritingAt(x)'
  BY <1>39 DEF Stop, InFlight, Registered, StopTurn, KillClaude, Kills
<1>40. ASSUME NEW h \in Threads, Remove(h)  PROVE WritingAt(x)'
  <2>1. Closed(h)
    BY <1>40, <1>c, <1>q DEF Remove
  <2> QED BY <1>40, <2>1, <1>q DEF Remove, InFlight, KillClaude, Closed
<1>41. CASE Reload
  BY <1>41 DEF Reload
<1>42. CASE Probe
  BY <1>42 DEF Probe
<1>43. CASE UNCHANGED vars
  BY <1>43
<1> QED BY <1>1, <1>2, <1>3, <1>4, <1>5, <1>6, <1>7, <1>8, <1>9, <1>10, <1>11, <1>12, <1>13,
    <1>14, <1>15, <1>16, <1>17, <1>18, <1>19, <1>20, <1>21, <1>22, <1>23, <1>24, <1>25, <1>26,
    <1>27, <1>28, <1>29, <1>30, <1>31, <1>32, <1>33, <1>34, <1>35, <1>36, <1>37, <1>38, <1>39,
    <1>40, <1>41, <1>42, <1>43, Cases

LEMMA AnsweredStep ==
  ASSUME Typed, NEW x \in Turns, Born, Assigned, Ended, Given, Writing, Answered,
         [Next]_vars  PROVE AnsweredAt(x)'
<1>c. \A h \in Threads : CloseServer(h) => Closed(h)
  BY Closes
<1>y. \A s \in Turns : active[s] \in Turns \cup {None} /\ on[s] \in Turns \cup {None}
  BY DEF Typed, TypeOK
<1>q. \A t \in Turns : threadOf[t] \in Threads
  BY DEF Typed
<1>t. DOMAIN work = Turns /\ DOMAIN on = Turns /\ DOMAIN proc = Turns
      /\ DOMAIN active = Turns /\ DOMAIN ended = Turns
  BY DEF Typed, TypeOK
<1> USE Names, <1>t, <1>y DEF Born, Assigned, Ended, Given, Writing, Answered, BornAt,
    AssignedAt, EndedAt, GivenAt, WritingAt, AnsweredAt, Unborn, Quiet, vars, codexVars,
    lockState, windowVars, claudeVars
<1>1. ASSUME NEW t \in Turns, Reap(t), Quiet  PROVE AnsweredAt(x)'
  BY <1>1 DEF Reap, Goto, Registered
<1>2. ASSUME NEW t \in Turns, Misses(t), Quiet  PROVE AnsweredAt(x)'
  BY <1>2 DEF Misses, Goto, Looks, Registered
<1>3. ASSUME NEW t \in Turns, CloseDead(t), Quiet  PROVE AnsweredAt(x)'
  <2>1. Closed(threadOf[t])
    BY <1>3, <1>c, <1>q DEF CloseDead
  <2> QED BY <1>3, <2>1, <1>q DEF CloseDead, Goto, Closed
<1>4. ASSUME NEW t \in Turns, Answering(t), Quiet  PROVE AnsweredAt(x)'
  BY <1>4 DEF Answering, Goto, Looks, Registered
<1>5. ASSUME NEW t \in Turns, WriteTurn(t), Quiet  PROVE AnsweredAt(x)'
  BY <1>5 DEF WriteTurn, Goto
<1>6. ASSUME NEW t \in Turns, WriteTurnFails(t), Quiet  PROVE AnsweredAt(x)'
  <2>1. Closed(threadOf[t])
    BY <1>6, <1>c, <1>q DEF WriteTurnFails
  <2> QED BY <1>6, <2>1, <1>q DEF WriteTurnFails, Goto, Closed
<1>7. ASSUME NEW t \in Turns, Spawn(t), Quiet  PROVE AnsweredAt(x)'
  BY <1>7 DEF Spawn, Goto
<1>8. ASSUME NEW t \in Turns, SpawnFails(t), Quiet  PROVE AnsweredAt(x)'
  BY <1>8 DEF SpawnFails, Goto
<1>9. ASSUME NEW t \in Turns, Insert(t), Quiet  PROVE AnsweredAt(x)'
  BY <1>9 DEF Insert, Goto, Registered, Kills
<1>10. ASSUME NEW t \in Turns, WriteOpening(t), Quiet  PROVE AnsweredAt(x)'
  BY <1>10 DEF WriteOpening, Goto
<1>11. ASSUME NEW t \in Turns, WriteOpeningFails(t), Quiet  PROVE AnsweredAt(x)'
  <2>1. Closed(threadOf[t])
    BY <1>11, <1>c, <1>q DEF WriteOpeningFails
  <2> QED BY <1>11, <2>1, <1>q DEF WriteOpeningFails, Goto, Closed
<1>12. ASSUME NEW t \in Turns, GraceEnds(t), Quiet  PROVE AnsweredAt(x)'
  BY <1>12 DEF GraceEnds
<1>13. ASSUME NEW t \in Turns, GraceKills(t), Quiet  PROVE AnsweredAt(x)'
  BY <1>13 DEF GraceKills, Kills
<1>14. ASSUME NEW t \in Turns, ReaderEnds(t), Quiet  PROVE AnsweredAt(x)'
  BY <1>14 DEF ReaderEnds, TakesActive, Finished
<1>15. ASSUME NEW t \in Turns, Opened(t), Quiet  PROVE AnsweredAt(x)'
  BY <1>15 DEF Opened, Says
<1>16. ASSUME NEW t \in Turns, OpenRefused(t), Quiet  PROVE AnsweredAt(x)'
  BY <1>16 DEF OpenRefused, Says, TakesActive, Finished, Kills
<1>17. ASSUME NEW t \in Turns, Named(t), Quiet  PROVE AnsweredAt(x)'
  BY <1>17 DEF Named, Says
<1>18. ASSUME NEW t \in Turns, Asks(t), Quiet  PROVE AnsweredAt(x)'
  BY <1>18 DEF Asks, Says
<1>19. ASSUME NEW t \in Turns, Completed(t), Quiet  PROVE AnsweredAt(x)'
  BY <1>19 DEF Completed, Says, TakesActive, Finished
<1>20. ASSUME NEW t \in Turns, Dies(t), Quiet  PROVE AnsweredAt(x)'
  BY <1>20 DEF Dies
<1>21. ASSUME NEW t \in Turns, Age(t), Quiet  PROVE AnsweredAt(x)'
  BY <1>21 DEF Age
<1>22. ASSUME NEW t \in Turns, NEW h \in Threads, ReapNext(t, h), Quiet  PROVE AnsweredAt(x)'
  <2>1. Closed(h)
    BY <1>22, <1>c, <1>q DEF ReapNext
  <2> QED BY <1>22, <2>1, <1>q DEF ReapNext, Closed
<1>23. ASSUME NEW t \in Turns, NEW s \in Turns, Reuse(t, s), Quiet  PROVE AnsweredAt(x)'
  BY <1>23 DEF Reuse, Goto, Looks
<1>24. ASSUME NEW t \in Turns, TakeGate(t)  PROVE AnsweredAt(x)'
  BY <1>24 DEF TakeGate, Goto
<1>25. ASSUME NEW t \in Turns, StartFails(t)  PROVE AnsweredAt(x)'
  BY <1>25 DEF StartFails, Goto, Refused, Finished
<1>26. ASSUME NEW t \in Turns, ClaimFails(t)  PROVE AnsweredAt(x)'
  BY <1>26 DEF ClaimFails, Goto, Refused, Finished, Release
<1>27. ASSUME NEW t \in Turns, Claim(t)  PROVE AnsweredAt(x)'
  BY <1>27 DEF Claim, Goto
<1>28. ASSUME NEW t \in Turns, Started(t)  PROVE AnsweredAt(x)'
  BY <1>28 DEF Started, Talks, Release
<1>29. ASSUME NEW t \in Turns, Progress(t)  PROVE AnsweredAt(x)'
  BY <1>29 DEF Progress, Talks
<1>30. ASSUME NEW t \in Turns, Result(t)  PROVE AnsweredAt(x)'
  BY <1>30 DEF Result, Talks
<1>31. ASSUME NEW t \in Turns, Exits(t)  PROVE AnsweredAt(x)'
  BY <1>31 DEF Exits
<1>32. ASSUME NEW t \in Turns, Leave(t)  PROVE AnsweredAt(x)'
  BY <1>32 DEF Leave, Goto
<1>33. ASSUME NEW t \in Turns, Retry(t)  PROVE AnsweredAt(x)'
  BY <1>33 DEF Retry, Goto, ShouldRetry, Release
<1>34. ASSUME NEW t \in Turns, Resend(t)  PROVE AnsweredAt(x)'
  BY <1>34 DEF Resend, Goto
<1>35. ASSUME NEW t \in Turns, End(t)  PROVE AnsweredAt(x)'
  BY <1>35 DEF End, Goto, ShouldRetry, Finished, Release
<1>36. ASSUME NEW t \in Turns, Send(t)  PROVE AnsweredAt(x)'
  BY <1>36 DEF Send, Goto
<1>37. ASSUME NEW t \in Turns, Respond(t)  PROVE AnsweredAt(x)'
  BY <1>37 DEF Respond
<1>38. ASSUME NEW h \in Threads, Handoff(h)  PROVE AnsweredAt(x)'
  BY <1>38 DEF Handoff
<1>39. ASSUME NEW h \in Threads, Stop(h)  PROVE AnsweredAt(x)'
  BY <1>39 DEF Stop, InFlight, Registered, StopTurn, KillClaude, Kills
<1>40. ASSUME NEW h \in Threads, Remove(h)  PROVE AnsweredAt(x)'
  <2>1. Closed(h)
    BY <1>40, <1>c, <1>q DEF Remove
  <2> QED BY <1>40, <2>1, <1>q DEF Remove, InFlight, KillClaude, Closed
<1>41. CASE Reload
  BY <1>41 DEF Reload
<1>42. CASE Probe
  BY <1>42 DEF Probe
<1>43. CASE UNCHANGED vars
  BY <1>43
<1> QED BY <1>1, <1>2, <1>3, <1>4, <1>5, <1>6, <1>7, <1>8, <1>9, <1>10, <1>11, <1>12, <1>13,
    <1>14, <1>15, <1>16, <1>17, <1>18, <1>19, <1>20, <1>21, <1>22, <1>23, <1>24, <1>25, <1>26,
    <1>27, <1>28, <1>29, <1>30, <1>31, <1>32, <1>33, <1>34, <1>35, <1>36, <1>37, <1>38, <1>39,
    <1>40, <1>41, <1>42, <1>43, Cases

LEMMA KnownStep ==
  ASSUME Typed, NEW x \in Turns, Born, Known, [Next]_vars  PROVE KnownAt(x)'
<1>c. \A h \in Threads : CloseServer(h) => Closed(h)
  BY Closes
<1>y. \A s \in Turns : active[s] \in Turns \cup {None} /\ on[s] \in Turns \cup {None}
  BY DEF Typed, TypeOK
<1>q. \A t \in Turns : threadOf[t] \in Threads
  BY DEF Typed
<1>t. DOMAIN work = Turns /\ DOMAIN proc = Turns /\ DOMAIN threadOf = Turns
      /\ DOMAIN server = Threads
  BY DEF Typed, TypeOK
<1> USE Names, <1>t, <1>y DEF Born, Known, BornAt, KnownAt, Unborn, Quiet, vars, codexVars,
    lockState, windowVars, claudeVars
<1>1. ASSUME NEW t \in Turns, Reap(t), Quiet  PROVE KnownAt(x)'
  BY <1>1 DEF Reap, Goto, Registered
<1>2. ASSUME NEW t \in Turns, Misses(t), Quiet  PROVE KnownAt(x)'
  BY <1>2 DEF Misses, Goto, Looks, Registered
<1>3. ASSUME NEW t \in Turns, CloseDead(t), Quiet  PROVE KnownAt(x)'
  <2>1. Closed(threadOf[t])
    BY <1>3, <1>c, <1>q DEF CloseDead
  <2> QED BY <1>3, <2>1, <1>q DEF CloseDead, Goto, Closed
<1>4. ASSUME NEW t \in Turns, Answering(t), Quiet  PROVE KnownAt(x)'
  BY <1>4 DEF Answering, Goto, Looks, Registered
<1>5. ASSUME NEW t \in Turns, WriteTurn(t), Quiet  PROVE KnownAt(x)'
  BY <1>5 DEF WriteTurn, Goto
<1>6. ASSUME NEW t \in Turns, WriteTurnFails(t), Quiet  PROVE KnownAt(x)'
  <2>1. Closed(threadOf[t])
    BY <1>6, <1>c, <1>q DEF WriteTurnFails
  <2> QED BY <1>6, <2>1, <1>q DEF WriteTurnFails, Goto, Closed
<1>7. ASSUME NEW t \in Turns, Spawn(t), Quiet  PROVE KnownAt(x)'
  BY <1>7 DEF Spawn, Goto
<1>8. ASSUME NEW t \in Turns, SpawnFails(t), Quiet  PROVE KnownAt(x)'
  BY <1>8 DEF SpawnFails, Goto
<1>9. ASSUME NEW t \in Turns, Insert(t), Quiet  PROVE KnownAt(x)'
  <2>1. server'[threadOf[t]] = t /\ \A h \in Threads : h # threadOf[t] => server'[h] = server[h]
    BY <1>9, <1>q DEF Insert
  <2>2. proc'[x] = "up" => proc[x] = "up" /\ x # server[threadOf[t]]
    BY <1>9 DEF Insert, Kills, Registered
  <2>3. threadOf'[x] = threadOf[x] /\ (x # t => work'[x] = work[x])
    BY <1>9 DEF Insert, Goto
  <2>4. CASE x = t
    BY <2>1, <2>3, <2>4
  <2>5. CASE x # t
    BY <2>1, <2>2, <2>3, <2>5, <1>q
  <2> QED BY <2>4, <2>5
<1>10. ASSUME NEW t \in Turns, WriteOpening(t), Quiet  PROVE KnownAt(x)'
  BY <1>10 DEF WriteOpening, Goto
<1>11. ASSUME NEW t \in Turns, WriteOpeningFails(t), Quiet  PROVE KnownAt(x)'
  <2>1. Closed(threadOf[t])
    BY <1>11, <1>c, <1>q DEF WriteOpeningFails
  <2> QED BY <1>11, <2>1, <1>q DEF WriteOpeningFails, Goto, Closed
<1>12. ASSUME NEW t \in Turns, GraceEnds(t), Quiet  PROVE KnownAt(x)'
  BY <1>12 DEF GraceEnds
<1>13. ASSUME NEW t \in Turns, GraceKills(t), Quiet  PROVE KnownAt(x)'
  BY <1>13 DEF GraceKills, Kills
<1>14. ASSUME NEW t \in Turns, ReaderEnds(t), Quiet  PROVE KnownAt(x)'
  BY <1>14 DEF ReaderEnds, TakesActive, Finished
<1>15. ASSUME NEW t \in Turns, Opened(t), Quiet  PROVE KnownAt(x)'
  BY <1>15 DEF Opened, Says
<1>16. ASSUME NEW t \in Turns, OpenRefused(t), Quiet  PROVE KnownAt(x)'
  BY <1>16 DEF OpenRefused, Says, TakesActive, Finished, Kills
<1>17. ASSUME NEW t \in Turns, Named(t), Quiet  PROVE KnownAt(x)'
  BY <1>17 DEF Named, Says
<1>18. ASSUME NEW t \in Turns, Asks(t), Quiet  PROVE KnownAt(x)'
  BY <1>18 DEF Asks, Says
<1>19. ASSUME NEW t \in Turns, Completed(t), Quiet  PROVE KnownAt(x)'
  BY <1>19 DEF Completed, Says, TakesActive, Finished
<1>20. ASSUME NEW t \in Turns, Dies(t), Quiet  PROVE KnownAt(x)'
  BY <1>20 DEF Dies
<1>21. ASSUME NEW t \in Turns, Age(t), Quiet  PROVE KnownAt(x)'
  BY <1>21 DEF Age
<1>22. ASSUME NEW t \in Turns, NEW h \in Threads, ReapNext(t, h), Quiet  PROVE KnownAt(x)'
  <2>1. Closed(h)
    BY <1>22, <1>c, <1>q DEF ReapNext
  <2> QED BY <1>22, <2>1, <1>q DEF ReapNext, Closed
<1>23. ASSUME NEW t \in Turns, NEW s \in Turns, Reuse(t, s), Quiet  PROVE KnownAt(x)'
  BY <1>23 DEF Reuse, Goto, Looks
<1>24. ASSUME NEW t \in Turns, TakeGate(t)  PROVE KnownAt(x)'
  BY <1>24 DEF TakeGate, Goto
<1>25. ASSUME NEW t \in Turns, StartFails(t)  PROVE KnownAt(x)'
  BY <1>25 DEF StartFails, Goto, Refused, Finished
<1>26. ASSUME NEW t \in Turns, ClaimFails(t)  PROVE KnownAt(x)'
  BY <1>26 DEF ClaimFails, Goto, Refused, Finished, Release
<1>27. ASSUME NEW t \in Turns, Claim(t)  PROVE KnownAt(x)'
  BY <1>27 DEF Claim, Goto
<1>28. ASSUME NEW t \in Turns, Started(t)  PROVE KnownAt(x)'
  BY <1>28 DEF Started, Talks, Release
<1>29. ASSUME NEW t \in Turns, Progress(t)  PROVE KnownAt(x)'
  BY <1>29 DEF Progress, Talks
<1>30. ASSUME NEW t \in Turns, Result(t)  PROVE KnownAt(x)'
  BY <1>30 DEF Result, Talks
<1>31. ASSUME NEW t \in Turns, Exits(t)  PROVE KnownAt(x)'
  BY <1>31 DEF Exits
<1>32. ASSUME NEW t \in Turns, Leave(t)  PROVE KnownAt(x)'
  BY <1>32 DEF Leave, Goto
<1>33. ASSUME NEW t \in Turns, Retry(t)  PROVE KnownAt(x)'
  BY <1>33 DEF Retry, Goto, ShouldRetry, Release
<1>34. ASSUME NEW t \in Turns, Resend(t)  PROVE KnownAt(x)'
  BY <1>34 DEF Resend, Goto
<1>35. ASSUME NEW t \in Turns, End(t)  PROVE KnownAt(x)'
  BY <1>35 DEF End, Goto, ShouldRetry, Finished, Release
<1>36. ASSUME NEW t \in Turns, Send(t)  PROVE KnownAt(x)'
  BY <1>36 DEF Send, Goto
<1>37. ASSUME NEW t \in Turns, Respond(t)  PROVE KnownAt(x)'
  BY <1>37 DEF Respond
<1>38. ASSUME NEW h \in Threads, Handoff(h)  PROVE KnownAt(x)'
  BY <1>38 DEF Handoff
<1>39. ASSUME NEW h \in Threads, Stop(h)  PROVE KnownAt(x)'
  BY <1>39 DEF Stop, InFlight, Registered, StopTurn, KillClaude, Kills
<1>40. ASSUME NEW h \in Threads, Remove(h)  PROVE KnownAt(x)'
  <2>1. Closed(h)
    BY <1>40, <1>c, <1>q DEF Remove
  <2> QED BY <1>40, <2>1, <1>q DEF Remove, InFlight, KillClaude, Closed
<1>41. CASE Reload
  BY <1>41 DEF Reload
<1>42. CASE Probe
  BY <1>42 DEF Probe
<1>43. CASE UNCHANGED vars
  BY <1>43
<1> QED BY <1>1, <1>2, <1>3, <1>4, <1>5, <1>6, <1>7, <1>8, <1>9, <1>10, <1>11, <1>12, <1>13,
    <1>14, <1>15, <1>16, <1>17, <1>18, <1>19, <1>20, <1>21, <1>22, <1>23, <1>24, <1>25, <1>26,
    <1>27, <1>28, <1>29, <1>30, <1>31, <1>32, <1>33, <1>34, <1>35, <1>36, <1>37, <1>38, <1>39,
    <1>40, <1>41, <1>42, <1>43, Cases

LEMMA GatedStep ==
  ASSUME Typed, Gated, [Next]_vars  PROVE Gated'
<1>t. DOMAIN work = Turns /\ DOMAIN claude = Turns /\ DOMAIN said = Turns
      /\ DOMAIN tries = Turns
  BY DEF Typed, TypeOK
<1>y. gate \in Turns \cup {None, ModelProbe} /\ \A t \in Turns : said[t] \subseteq {"init",
    "progress", "result", "busy"}
  BY DEF Typed, TypeOK
<1> USE Names, <1>t, <1>y DEF Gated, Quiet, vars, codexVars, lockState, windowVars, claudeVars
<1>1. ASSUME NEW t \in Turns, Reap(t), Quiet  PROVE Gated'
  BY <1>1 DEF Reap, Goto, Registered
<1>2. ASSUME NEW t \in Turns, Misses(t), Quiet  PROVE Gated'
  BY <1>2 DEF Misses, Goto, Looks, Registered
<1>3. ASSUME NEW t \in Turns, CloseDead(t), Quiet  PROVE Gated'
  BY <1>3 DEF CloseDead, Goto
<1>4. ASSUME NEW t \in Turns, Answering(t), Quiet  PROVE Gated'
  BY <1>4 DEF Answering, Goto, Looks, Registered
<1>5. ASSUME NEW t \in Turns, WriteTurn(t), Quiet  PROVE Gated'
  BY <1>5 DEF WriteTurn, Goto
<1>6. ASSUME NEW t \in Turns, WriteTurnFails(t), Quiet  PROVE Gated'
  BY <1>6 DEF WriteTurnFails, Goto
<1>7. ASSUME NEW t \in Turns, Spawn(t), Quiet  PROVE Gated'
  BY <1>7 DEF Spawn, Goto
<1>8. ASSUME NEW t \in Turns, SpawnFails(t), Quiet  PROVE Gated'
  BY <1>8 DEF SpawnFails, Goto
<1>9. ASSUME NEW t \in Turns, Insert(t), Quiet  PROVE Gated'
  BY <1>9 DEF Insert, Goto, Registered, Kills
<1>10. ASSUME NEW t \in Turns, WriteOpening(t), Quiet  PROVE Gated'
  BY <1>10 DEF WriteOpening, Goto
<1>11. ASSUME NEW t \in Turns, WriteOpeningFails(t), Quiet  PROVE Gated'
  BY <1>11 DEF WriteOpeningFails, Goto
<1>12. ASSUME NEW t \in Turns, GraceEnds(t), Quiet  PROVE Gated'
  BY <1>12 DEF GraceEnds
<1>13. ASSUME NEW t \in Turns, GraceKills(t), Quiet  PROVE Gated'
  BY <1>13 DEF GraceKills, Kills
<1>14. ASSUME NEW t \in Turns, ReaderEnds(t), Quiet  PROVE Gated'
  BY <1>14 DEF ReaderEnds, TakesActive, Finished
<1>15. ASSUME NEW t \in Turns, Opened(t), Quiet  PROVE Gated'
  BY <1>15 DEF Opened, Says
<1>16. ASSUME NEW t \in Turns, OpenRefused(t), Quiet  PROVE Gated'
  BY <1>16 DEF OpenRefused, Says, TakesActive, Finished, Kills
<1>17. ASSUME NEW t \in Turns, Named(t), Quiet  PROVE Gated'
  BY <1>17 DEF Named, Says
<1>18. ASSUME NEW t \in Turns, Asks(t), Quiet  PROVE Gated'
  BY <1>18 DEF Asks, Says
<1>19. ASSUME NEW t \in Turns, Completed(t), Quiet  PROVE Gated'
  BY <1>19 DEF Completed, Says, TakesActive, Finished
<1>20. ASSUME NEW t \in Turns, Dies(t), Quiet  PROVE Gated'
  BY <1>20 DEF Dies
<1>21. ASSUME NEW t \in Turns, Age(t), Quiet  PROVE Gated'
  BY <1>21 DEF Age
<1>22. ASSUME NEW t \in Turns, NEW h \in Threads, ReapNext(t, h), Quiet  PROVE Gated'
  BY <1>22 DEF ReapNext
<1>23. ASSUME NEW t \in Turns, NEW s \in Turns, Reuse(t, s), Quiet  PROVE Gated'
  BY <1>23 DEF Reuse, Goto, Looks
<1>24. ASSUME NEW t \in Turns, TakeGate(t)  PROVE Gated'
  BY <1>24 DEF TakeGate, Goto
<1>25. ASSUME NEW t \in Turns, StartFails(t)  PROVE Gated'
  BY <1>25 DEF StartFails, Goto, Refused, Finished
<1>26. ASSUME NEW t \in Turns, ClaimFails(t)  PROVE Gated'
  BY <1>26 DEF ClaimFails, Goto, Refused, Finished, Release
<1>27. ASSUME NEW t \in Turns, Claim(t)  PROVE Gated'
  BY <1>27 DEF Claim, Goto
<1>28. ASSUME NEW t \in Turns, Started(t)  PROVE Gated'
  BY <1>28 DEF Started, Talks, Release
<1>29. ASSUME NEW t \in Turns, Progress(t)  PROVE Gated'
  BY <1>29 DEF Progress, Talks
<1>30. ASSUME NEW t \in Turns, Result(t)  PROVE Gated'
  BY <1>30 DEF Result, Talks
<1>31. ASSUME NEW t \in Turns, Exits(t)  PROVE Gated'
  BY <1>31 DEF Exits
<1>32. ASSUME NEW t \in Turns, Leave(t)  PROVE Gated'
  BY <1>32 DEF Leave, Goto
<1>33. ASSUME NEW t \in Turns, Retry(t)  PROVE Gated'
  BY <1>33 DEF Retry, Goto, ShouldRetry, Release
<1>34. ASSUME NEW t \in Turns, Resend(t)  PROVE Gated'
  BY <1>34 DEF Resend, Goto
<1>35. ASSUME NEW t \in Turns, End(t)  PROVE Gated'
  BY <1>35 DEF End, Goto, ShouldRetry, Finished, Release
<1>36. ASSUME NEW t \in Turns, Send(t)  PROVE Gated'
  BY <1>36 DEF Send, Goto
<1>37. ASSUME NEW t \in Turns, Respond(t)  PROVE Gated'
  BY <1>37 DEF Respond
<1>38. ASSUME NEW h \in Threads, Handoff(h)  PROVE Gated'
  BY <1>38 DEF Handoff
<1>39. ASSUME NEW h \in Threads, Stop(h)  PROVE Gated'
  BY <1>39 DEF Stop, InFlight, Registered, StopTurn, KillClaude, Kills
<1>40. ASSUME NEW h \in Threads, Remove(h)  PROVE Gated'
  BY <1>40 DEF Remove, InFlight, KillClaude
<1>41. CASE Reload
  BY <1>41 DEF Reload
<1>42. CASE Probe
  BY <1>42 DEF Probe
<1>43. CASE UNCHANGED vars
  BY <1>43
<1> QED BY <1>1, <1>2, <1>3, <1>4, <1>5, <1>6, <1>7, <1>8, <1>9, <1>10, <1>11, <1>12, <1>13,
    <1>14, <1>15, <1>16, <1>17, <1>18, <1>19, <1>20, <1>21, <1>22, <1>23, <1>24, <1>25, <1>26,
    <1>27, <1>28, <1>29, <1>30, <1>31, <1>32, <1>33, <1>34, <1>35, <1>36, <1>37, <1>38, <1>39,
    <1>40, <1>41, <1>42, <1>43, Cases

LEMMA TriedStep ==
  ASSUME Typed, Tried, [Next]_vars  PROVE Tried'
<1>t. DOMAIN work = Turns /\ DOMAIN tries = Turns
  BY DEF Typed, TypeOK
<1> USE <1>t DEF Tried, Goto, Quiet, vars, codexVars, lockState, windowVars, claudeVars
<1>1. ASSUME NEW t \in Turns, Reap(t), Quiet  PROVE Tried'
  BY <1>1 DEF Reap, Goto, Registered
<1>2. ASSUME NEW t \in Turns, Misses(t), Quiet  PROVE Tried'
  BY <1>2 DEF Misses, Goto, Looks, Registered
<1>3. ASSUME NEW t \in Turns, CloseDead(t), Quiet  PROVE Tried'
  BY <1>3 DEF CloseDead, Goto
<1>4. ASSUME NEW t \in Turns, Answering(t), Quiet  PROVE Tried'
  BY <1>4 DEF Answering, Goto, Looks, Registered
<1>5. ASSUME NEW t \in Turns, WriteTurn(t), Quiet  PROVE Tried'
  BY <1>5 DEF WriteTurn, Goto
<1>6. ASSUME NEW t \in Turns, WriteTurnFails(t), Quiet  PROVE Tried'
  BY <1>6 DEF WriteTurnFails, Goto
<1>7. ASSUME NEW t \in Turns, Spawn(t), Quiet  PROVE Tried'
  BY <1>7 DEF Spawn, Goto
<1>8. ASSUME NEW t \in Turns, SpawnFails(t), Quiet  PROVE Tried'
  BY <1>8 DEF SpawnFails, Goto
<1>9. ASSUME NEW t \in Turns, Insert(t), Quiet  PROVE Tried'
  BY <1>9 DEF Insert, Goto, Registered, Kills
<1>10. ASSUME NEW t \in Turns, WriteOpening(t), Quiet  PROVE Tried'
  BY <1>10 DEF WriteOpening, Goto
<1>11. ASSUME NEW t \in Turns, WriteOpeningFails(t), Quiet  PROVE Tried'
  BY <1>11 DEF WriteOpeningFails, Goto
<1>12. ASSUME NEW t \in Turns, GraceEnds(t), Quiet  PROVE Tried'
  BY <1>12 DEF GraceEnds
<1>13. ASSUME NEW t \in Turns, GraceKills(t), Quiet  PROVE Tried'
  BY <1>13 DEF GraceKills, Kills
<1>14. ASSUME NEW t \in Turns, ReaderEnds(t), Quiet  PROVE Tried'
  BY <1>14 DEF ReaderEnds, TakesActive, Finished
<1>15. ASSUME NEW t \in Turns, Opened(t), Quiet  PROVE Tried'
  BY <1>15 DEF Opened, Says
<1>16. ASSUME NEW t \in Turns, OpenRefused(t), Quiet  PROVE Tried'
  BY <1>16 DEF OpenRefused, Says, TakesActive, Finished, Kills
<1>17. ASSUME NEW t \in Turns, Named(t), Quiet  PROVE Tried'
  BY <1>17 DEF Named, Says
<1>18. ASSUME NEW t \in Turns, Asks(t), Quiet  PROVE Tried'
  BY <1>18 DEF Asks, Says
<1>19. ASSUME NEW t \in Turns, Completed(t), Quiet  PROVE Tried'
  BY <1>19 DEF Completed, Says, TakesActive, Finished
<1>20. ASSUME NEW t \in Turns, Dies(t), Quiet  PROVE Tried'
  BY <1>20 DEF Dies
<1>21. ASSUME NEW t \in Turns, Age(t), Quiet  PROVE Tried'
  BY <1>21 DEF Age
<1>22. ASSUME NEW t \in Turns, NEW h \in Threads, ReapNext(t, h), Quiet  PROVE Tried'
  BY <1>22 DEF ReapNext
<1>23. ASSUME NEW t \in Turns, NEW s \in Turns, Reuse(t, s), Quiet  PROVE Tried'
  BY <1>23 DEF Reuse, Goto, Looks
<1>24. ASSUME NEW t \in Turns, TakeGate(t)  PROVE Tried'
  BY <1>24 DEF TakeGate, Goto
<1>25. ASSUME NEW t \in Turns, StartFails(t)  PROVE Tried'
  BY <1>25 DEF StartFails, Goto, Refused, Finished
<1>26. ASSUME NEW t \in Turns, ClaimFails(t)  PROVE Tried'
  BY <1>26 DEF ClaimFails, Goto, Refused, Finished, Release
<1>27. ASSUME NEW t \in Turns, Claim(t)  PROVE Tried'
  BY <1>27 DEF Claim, Goto
<1>28. ASSUME NEW t \in Turns, Started(t)  PROVE Tried'
  BY <1>28 DEF Started, Talks, Release
<1>29. ASSUME NEW t \in Turns, Progress(t)  PROVE Tried'
  BY <1>29 DEF Progress, Talks
<1>30. ASSUME NEW t \in Turns, Result(t)  PROVE Tried'
  BY <1>30 DEF Result, Talks
<1>31. ASSUME NEW t \in Turns, Exits(t)  PROVE Tried'
  BY <1>31 DEF Exits
<1>32. ASSUME NEW t \in Turns, Leave(t)  PROVE Tried'
  BY <1>32 DEF Leave, Goto
<1>33. ASSUME NEW t \in Turns, Retry(t)  PROVE Tried'
  BY <1>33 DEF Retry, Goto, ShouldRetry, Release
<1>34. ASSUME NEW t \in Turns, Resend(t)  PROVE Tried'
  BY <1>34 DEF Resend, Goto
<1>35. ASSUME NEW t \in Turns, End(t)  PROVE Tried'
  BY <1>35 DEF End, Goto, ShouldRetry, Finished, Release
<1>36. ASSUME NEW t \in Turns, Send(t)  PROVE Tried'
  BY <1>36 DEF Send, Goto
<1>37. ASSUME NEW t \in Turns, Respond(t)  PROVE Tried'
  BY <1>37 DEF Respond
<1>38. ASSUME NEW h \in Threads, Handoff(h)  PROVE Tried'
  BY <1>38 DEF Handoff
<1>39. ASSUME NEW h \in Threads, Stop(h)  PROVE Tried'
  BY <1>39 DEF Stop, InFlight, Registered, StopTurn, KillClaude, Kills
<1>40. ASSUME NEW h \in Threads, Remove(h)  PROVE Tried'
  BY <1>40 DEF Remove, InFlight, KillClaude
<1>41. CASE Reload
  BY <1>41 DEF Reload
<1>42. CASE Probe
  BY <1>42 DEF Probe
<1>43. CASE UNCHANGED vars
  BY <1>43
<1> QED BY <1>1, <1>2, <1>3, <1>4, <1>5, <1>6, <1>7, <1>8, <1>9, <1>10, <1>11, <1>12, <1>13,
    <1>14, <1>15, <1>16, <1>17, <1>18, <1>19, <1>20, <1>21, <1>22, <1>23, <1>24, <1>25, <1>26,
    <1>27, <1>28, <1>29, <1>30, <1>31, <1>32, <1>33, <1>34, <1>35, <1>36, <1>37, <1>38, <1>39,
    <1>40, <1>41, <1>42, <1>43, Cases


-------------------------------------------------------------------------------
LEMMA Initially == Init => IInv
<1> SUFFICES ASSUME Init  PROVE IInv
  OBVIOUS
<1>1. Typed
  <2>1. TypedTurns /\ TypedServers /\ TypedStates
    BY DEF Init, CodexInit, TypedTurns, TypedServers, TypedStates
  <2>2. 0 \in 0..Retries
    BY AgentChatAssumption
  <2>3. TypedClaude
    BY <2>2 DEF Init, TypedClaude
  <2> QED BY <2>1, <2>2, <2>3 DEF Typed, TypeOK, TypedTurns, TypedServers, TypedStates,
      TypedClaude
<1>2. Born /\ Assigned /\ Ended /\ Given
  BY Names DEF Init, CodexInit, Born, BornAt, Assigned, AssignedAt, Ended, EndedAt, Given,
      GivenAt
<1>3. Writing /\ Answered /\ Known /\ Gated /\ Tried
  BY Names DEF Init, CodexInit, Writing, WritingAt, Answered, AnsweredAt, Known, KnownAt,
      Gated, Tried
<1> QED BY <1>1, <1>2, <1>3 DEF IInv

LEMMA Inductive == IInv /\ [Next]_vars => IInv'
<1> SUFFICES ASSUME IInv, [Next]_vars  PROVE IInv'
  OBVIOUS
<1> USE DEF IInv
<1>1. Typed'
  <2>1. TypedTurns' /\ TypedServers' /\ TypedStates' /\ TypedClaude'
    BY TypedTurnsStep, TypedServersStep, TypedStatesStep, TypedClaudeStep
  <2> QED BY <2>1 DEF Typed, TypeOK, TypedTurns, TypedServers, TypedStates, TypedClaude
<1>2. Born'
  BY BornStep DEF Born
<1>3. Assigned'
  BY AssignedStep DEF Assigned
<1>4. Ended'
  BY EndedStep DEF Ended
<1>5. Given'
  BY GivenStep DEF Given
<1>6. Writing'
  BY WritingStep DEF Writing
<1>7. Answered'
  BY AnsweredStep DEF Answered
<1>8. Known'
  BY KnownStep DEF Known
<1>9. Gated' /\ Tried'
  BY GatedStep, TriedStep
<1> QED BY <1>1, <1>2, <1>3, <1>4, <1>5, <1>6, <1>7, <1>8, <1>9

\* The inductive invariant holds in every state of every behaviour.
THEOREM InvariantHolds == Spec => []IInv
BY Initially, Inductive, PTL DEF Spec

\* Every variable keeps its type, however sends, servers and processes interleave.
THEOREM TypeCorrect == Spec => []TypeOK
<1>1. IInv => TypeOK
  BY DEF IInv, Typed
<1> QED BY <1>1, InvariantHolds, PTL

\* No app-server outlives what the registry knows of it: whatever a reload, the
\* reaping and a failed write come to, the live server is its thread's own.
THEOREM NoStrayHolds == Spec => []NoStray
<1>1. IInv => NoStray
  BY DEF IInv, Known, KnownAt, NoStray
<1> QED BY <1>1, InvariantHolds, PTL

\* A turn the window waits for is worked on, and its end is told only once:
\* whoever reports it takes it from its server under the lock.
THEOREM TurnsHold == Spec => []TurnsAnswered
<1>1. IInv => FinishedOnce
  BY DEF IInv, Answered, AnsweredAt, FinishedOnce
<1>2. ASSUME IInv  PROVE NothingLost
  <2>1. SUFFICES ASSUME NEW t \in Turns, Awaits(t), work[t] = "done"
                 PROVE  \E s \in Turns : active[s] = t /\ proc[s] # "read"
    BY DEF NothingLost
  <2>2. on[t] \in Turns /\ active[on[t]] = t /\ proc[on[t]] # "read"
    BY <1>2, <2>1 DEF IInv, Answered, AnsweredAt, Awaits
  <2> QED BY <2>2
<1>3. IInv => TurnsAnswered
  BY <1>1, <1>2 DEF TurnsAnswered
<1> QED BY <1>3, InvariantHolds, PTL

\* One process at a time is in its login, and the gate is held by one that gives
\* it back: the initialization, a failed claim and every end of a turn do.
THEOREM GateHolds == Spec => []StartupGate
<1>1. IInv => StartupGate
  BY DEF IInv, Gated, StartupGate, Starting
<1> QED BY <1>1, InvariantHolds, PTL


----------------------------------------------------------------------------
(* Automations: the window and the background service share a schedule. *)

(* Nothing is dated later than now, and what was started before now. *)
Past ==
  /\ \A a \in Automations : dlast[a] <= now /\ wlast[a] <= now /\ shown.last[a] <= now
  /\ \A m \in requests, a \in Automations : m.last[a] <= now
  /\ \A r \in replies, a \in Automations : r.last[a] <= now

StartedBefore(run) == run[2] < now

RecordInv ==
  /\ RecordInOnePlace
  /\ drun \cap (disk \cup handed \cup filed) = {}
  /\ \A run \in drun \cup disk \cup handed \cup filed : StartedBefore(run)

(* A closed window runs nothing and waits for nothing; a window whose boot
   exchange is under way, or was answered, by a service it has not lost is
   attached to it. *)
Attachment ==
  /\ ~Open => wrun = {} /\ replies = {}
  /\ ~attached => replies = {}
  /\ ~alone /\ win \in {"syncing", "ready"} => attached

(* Every answer on its way, and what a window went by when it started to tick,
   names all the runs the service has; before that the window starts none. *)
Division ==
  /\ \A r, s \in drun : r[1] = s[1] => r = s
  /\ Cardinality(drun) <= Cap
  /\ \A r \in replies : NamesOf(drun) \subseteq r.running
  /\ ~alone /\ win = "ready" => NamesOf(drun) \subseteq bg
  /\ ~alone /\ win # "ready" => wrun \subseteq byHand

----------------------------------------------------------------------------
Below == {ss \in Nat \X Nat : ss[1] < ss[2]}

LEMMA BelowWellFounded == IsWellFoundedOn(Below, Nat)
BY NatLessThanWellFounded DEF OpToRel, Below

(* Of some times, one is the latest. *)
LEMMA LatestExists ==
  ASSUME NEW n \in Nat, NEW S \in SUBSET (-1..n), S # {}
  PROVE  \E t \in S : \A u \in S : u <= t
<1> DEFINE D == {n - t : t \in S}
<1>1. D \subseteq Nat
  <2> SUFFICES ASSUME NEW t \in S
               PROVE  n - t \in Nat
    OBVIOUS
  <2>1. t \in -1..n
    OBVIOUS
  <2> QED BY <2>1
<1>2. D # {}
  OBVIOUS
<1>3. PICK x \in D : \A y \in D : <<y, x>> \notin Below
  BY <1>1, <1>2, BelowWellFounded, WFMin
<1>4. \A y \in D : x <= y
  <2> HIDE DEF D
  <2>1. ASSUME NEW y \in D
        PROVE  x <= y
    <3>1. x \in Nat /\ y \in Nat /\ <<y, x>> \notin Below
      BY <1>1, <1>3
    <3>2. ~(y < x)
      BY <3>1 DEF Below
    <3> QED BY <3>1, <3>2
  <2> QED BY <2>1
<1>5. PICK t \in S : x = n - t
  OBVIOUS
<1>6. ASSUME NEW u \in S PROVE u <= t
  <2>1. n - u \in D /\ t \in -1..n /\ u \in -1..n
    OBVIOUS
  <2> QED BY <1>4, <1>5, <2>1
<1> QED BY <1>6

(* What the steps below need of typing. *)
LEMMA ScheduleTypes ==
  ASSUME ScheduleTypeOK
  PROVE  /\ now \in Nat /\ now <= MaxTime
         /\ DOMAIN wnext = Automations /\ DOMAIN dnext = Automations
         /\ \A a \in Automations :
              /\ wlast[a] \in Int /\ dlast[a] \in Int /\ shown.last[a] \in Int
              /\ \A m \in requests : m.last[a] \in Int
              /\ \A r \in replies : r.last[a] \in Int
         /\ wrun \subseteq Automations /\ bg \subseteq Automations /\ byHand \subseteq wrun
         /\ drun \subseteq Automations \X (0..MaxTime)
         /\ handed \subseteq Automations \X (0..MaxTime)
<1> USE AutomationsAssumption
<1>1. /\ now \in Nat /\ now <= MaxTime
      /\ DOMAIN wnext = Automations /\ DOMAIN dnext = Automations
      /\ wrun \subseteq Automations /\ bg \subseteq Automations /\ byHand \subseteq wrun
      /\ drun \subseteq Automations \X (0..MaxTime)
      /\ handed \subseteq Automations \X (0..MaxTime)
  BY DEF ScheduleTypeOK, Times, Marks, Records
<1>2. ASSUME NEW last \in Lasts, NEW a \in Automations  PROVE last[a] \in Int
  BY DEF Lasts, Times, Never
<1>3. /\ wlast \in Lasts /\ dlast \in Lasts /\ shown.last \in Lasts
      /\ \A m \in requests : m.last \in Lasts
      /\ \A r \in replies : r.last \in Lasts
  BY DEF ScheduleTypeOK, Shown, Requests, Replies
<1> QED BY <1>1, <1>2, <1>3

Latest(a) ==
  LET S == {wlast[a]} \cup {r[2] : r \in {h \in handed : h[1] = a}}
  IN  CHOOSE t \in S : \A u \in S : u <= t

LEMMA LatestRecord ==
  ASSUME ScheduleTypeOK, NEW a \in Automations
  PROVE  /\ Latest(a) >= wlast[a] /\ Latest(a) \in Times \cup {Never}
         /\ (\A h \in handed : h[2] <= now) /\ wlast[a] <= now => Latest(a) <= now
<1> DEFINE S == {wlast[a]} \cup {r[2] : r \in {h \in handed : h[1] = a}}
<1>1. S \in SUBSET (-1..MaxTime) /\ S # {} /\ wlast[a] \in S
  BY AutomationsAssumption, ScheduleTypes DEF ScheduleTypeOK, Lasts, Times, Never
<1>2. \E t \in S : \A u \in S : u <= t
  BY <1>1, LatestExists, AutomationsAssumption
<1>3. Latest(a) = CHOOSE t \in S : \A u \in S : u <= t
  BY DEF Latest
<1>4. Latest(a) \in S /\ \A u \in S : u <= Latest(a)
  <2> HIDE DEF S
  <2> QED BY <1>2, <1>3
<1>5. Latest(a) = wlast[a] \/ \E h \in handed : Latest(a) = h[2]
  BY <1>4
<1>6. Latest(a) \in Times \cup {Never}
  BY <1>1, <1>4, AutomationsAssumption DEF Times, Never
<1> QED BY <1>1, <1>4, <1>5, <1>6

LEMMA StartsFrom ==
  ASSUME NEW next, NEW busy, NEW room, NEW S \in Starts(next, busy, room)
  PROVE  S \subseteq Automations \ busy
BY DEF Starts

(* What a tick starts: due, not running, within the room there is. *)
LEMMA StartsWithin ==
  ASSUME NEW next, NEW busy, NEW room \in Nat, NEW S \in Starts(next, busy, room)
  PROVE  /\ S \subseteq Automations \ busy /\ IsFiniteSet(S)
         /\ Cardinality(S) <= room
<1> DEFINE due == {a \in Automations \ busy : next[a] # Never /\ next[a] <= now}
<1>1. IsFiniteSet(due)
  BY AutomationsAssumption, FS_Subset
<1>2. /\ S \subseteq due
      /\ Cardinality(S) = IF Cardinality(due) < room THEN Cardinality(due) ELSE room
  BY DEF Starts
<1>3. Cardinality(due) \in Nat
  BY <1>1, FS_CardinalityType
<1> QED BY <1>1, <1>2, <1>3, FS_Subset

LEMMA RoomLeft == ASSUME NEW k \in Nat PROVE Room(k) \in Nat /\ (Room(k) # 0 => k + Room(k) = Cap)
BY AutomationsAssumption DEF Room

LEMMA StartedMarks ==
  ASSUME ScheduleTypeOK, Clocked, NEW next \in Marks, NEW last \in Lasts,
         NEW S \in SUBSET Automations
  PROVE  StartedNext(next, S) \in Marks /\ StartedLast(last, S) \in Lasts
BY AutomationsAssumption
   DEF ScheduleTypeOK, Clocked, StartedNext, StartedLast, NextRunAfter, Marks, Lasts, Times

LEMMA TriggeredMarks ==
  ASSUME ScheduleTypeOK, NEW next \in Marks, NEW a, NEW ok
  PROVE  Triggered(next, a, ok) \in Marks
BY DEF ScheduleTypeOK, Triggered, Marks, Times

LEMMA ClockTypes ==
  ASSUME ScheduleTypeOK, Clocked
  PROVE  now \in Times /\ now' \in Times
BY AutomationsAssumption DEF ScheduleTypeOK, Clocked, Times

LEMMA RecordTypes ==
  ASSUME ScheduleTypeOK
  PROVE  /\ Current \in Shown
         /\ \A boot \in BOOLEAN :
              [next |-> shown.next, last |-> shown.last, boot |-> boot, from |-> windows]
                \in Requests
         /\ \A m \in requests : /\ [m EXCEPT !.from = 0] \in Requests
                               /\ [m EXCEPT !.from = 0].last = m.last
         /\ \A next \in Marks, last \in Lasts, boot \in BOOLEAN :
              [next |-> next, last |-> last, running |-> NamesOf(drun), boot |-> boot] \in Replies
         /\ \A m \in requests : m.next \in Marks /\ m.last \in Lasts /\ m.boot \in BOOLEAN
         /\ \A r \in replies : /\ r.next \in Marks /\ r.last \in Lasts
                              /\ r.running \in SUBSET Automations /\ r.boot \in BOOLEAN
         /\ shown.next \in Marks /\ shown.last \in Lasts
<1> USE AutomationsAssumption
<1>1. NamesOf(drun) \in SUBSET Automations
  BY DEF ScheduleTypeOK, NamesOf, Records
<1> QED BY <1>1 DEF ScheduleTypeOK, Current, Shown, Requests, Replies

LEMMA ScheduleTypeStep ==
  ASSUME ScheduleTypeOK, [ScheduleNext]_scheduleVars
  PROVE  ScheduleTypeOK'
<1> USE DEF ScheduleTypeOK, Open, winVars, wmarkVars, wrunVars, dmarkVars, serviceVars,
            syncVars, recordVars
<1>1. CASE Pass
  BY ClockTypes, RecordTypes, StartedMarks, <1>1 DEF Pass, Clocked
<1>2. CASE OpenWindow
  <2>1. windows \in 0..MaxWindows /\ windows < MaxWindows /\ windows' = windows + 1
    BY <1>2 DEF OpenWindow
  <2>2. windows' \in 0..MaxWindows
    <3>1. MaxWindows \in Nat
      BY AutomationsAssumption
    <3> QED BY <2>1, <3>1
  <2>3. alone' \in BOOLEAN
    BY <1>2 DEF OpenWindow
  <2> QED BY <1>2, <2>2, <2>3 DEF OpenWindow
<1>3. CASE CloseWindow
  <2>1. late' \in Nat
    BY <1>3 DEF CloseWindow
  <2> QED BY <1>3, <2>1, RecordTypes DEF CloseWindow
<1>4. CASE Render
  BY ClockTypes, RecordTypes, StartedMarks, <1>4 DEF Render, Open
<1>5. CASE Tick
  <2>1. PICK S \in Starts(shown.next, wrun, Room(Cardinality(wrun) + Cardinality(bg))) :
          /\ wrun' = wrun \cup (S \ bg) /\ inFlight' = inFlight \cup (S \ bg)
          /\ wlast' = StartedLast(wlast, S \ bg)
          /\ wnext' = StartedNext(wnext, S \ bg)
    BY <1>5 DEF Tick
  <2>2. S \ bg \in SUBSET Automations /\ Clocked
    BY <1>5, StartsFrom DEF Tick
  <2>3. wlast' \in Lasts /\ wnext' \in Marks
    BY <2>1, <2>2, StartedMarks
  <2> QED BY <1>5, <2>1, <2>2, <2>3, ClockTypes DEF Tick
<1>6. ASSUME NEW a \in Automations, RunNow(a)
      PROVE  ScheduleTypeOK'
  BY ClockTypes, RecordTypes, StartedMarks, <1>6 DEF RunNow, Clocked
<1>7. ASSUME NEW a \in Automations, NEW ok \in BOOLEAN, WindowRunEnds(a, ok)
      PROVE  ScheduleTypeOK'
  BY <1>7, TriggeredMarks DEF WindowRunEnds
<1>8. ASSUME NEW a \in Automations, WindowRunStops(a)
      PROVE  ScheduleTypeOK'
  BY ClockTypes, RecordTypes, StartedMarks, <1>8 DEF WindowRunStops
<1>9. CASE AskRuns
  BY ClockTypes, RecordTypes, StartedMarks, <1>9 DEF AskRuns
<1>10. CASE TakeRuns
  BY ClockTypes, RecordTypes, StartedMarks, <1>10 DEF TakeRuns
<1>11. CASE ImportRuns
  <2>1. wlast' = [a \in Automations |-> Latest(a)]
    BY <1>11 DEF ImportRuns, Latest
  <2>2. wlast' \in Lasts
    BY <2>1, LatestRecord DEF Lasts
  <2> QED BY <1>11, <2>2 DEF ImportRuns
<1>12. CASE ImportNothing
  BY ClockTypes, RecordTypes, StartedMarks, <1>12 DEF ImportNothing
<1>13. CASE MountSync
  BY ClockTypes, RecordTypes, StartedMarks, <1>13 DEF MountSync, Sync
<1>14. CASE MountAlone
  BY ClockTypes, RecordTypes, StartedMarks, <1>14 DEF MountAlone
<1>15. CASE SendSync
  BY ClockTypes, RecordTypes, StartedMarks, <1>15 DEF SendSync, Sync, Open
<1>16. CASE BootSync
  BY ClockTypes, RecordTypes, StartedMarks, <1>16 DEF BootSync, Sync
<1>17. CASE SyncFails
  BY ClockTypes, RecordTypes, StartedMarks, <1>17 DEF SyncFails
<1>18. ASSUME NEW m \in requests, Replace(m)
      PROVE  ScheduleTypeOK'
  <2>1. m.next \in Marks /\ m.last \in Lasts
    BY RecordTypes
  <2>2. dnext' \in Marks
    BY <1>18, <2>1 DEF Replace, Marks
  <2>3. dlast' \in Lasts
    BY <1>18, <2>1 DEF Replace, Lasts
  <2>4. \A x \in replies' : x \in Replies
    BY <1>18, <2>1, <2>2, <2>3, RecordTypes DEF Replace
  <2> QED BY <1>18, <2>2, <2>3, <2>4 DEF Replace
<1>19. ASSUME NEW r \in replies, Merge(r)
      PROVE  ScheduleTypeOK'
  <2>1. r.next \in Marks /\ r.last \in Lasts /\ r.running \in SUBSET Automations
    BY RecordTypes
  <2>2. wnext' \in Marks
    BY <1>19, <2>1 DEF Merge, Marks
  <2>3. wlast' \in Lasts
    BY <1>19, <2>1 DEF Merge, Lasts
  <2> QED BY <1>19, <2>1, <2>2, <2>3 DEF Merge
<1>20. CASE ServiceTick
  <2>1. PICK S \in Starts(dnext, NamesOf(drun), Room(Cardinality(drun))) :
          /\ drun' = drun \cup (S \X {now})
          /\ dlast' = StartedLast(dlast, S)
          /\ dnext' = StartedNext(dnext, S)
    BY <1>20 DEF ServiceTick
  <2>2. S \in SUBSET Automations /\ Clocked
    BY <1>20, StartsFrom DEF ServiceTick
  <2>3. dlast' \in Lasts /\ dnext' \in Marks
    BY <2>1, <2>2, StartedMarks
  <2>4. drun' \subseteq Records
    BY <2>1, <2>2, ClockTypes DEF Records
  <2> QED BY <1>20, <2>3, <2>4, ClockTypes DEF ServiceTick
<1>21. ASSUME NEW run \in drun, NEW ok \in BOOLEAN, ServiceRunEnds(run, ok)
      PROVE  ScheduleTypeOK'
  <2>1. dnext' \in Marks
    BY <1>21, TriggeredMarks DEF ServiceRunEnds
  <2>2. run \in Records /\ {run} \subseteq Records
    OBVIOUS
  <2> QED BY <1>21, <2>1, <2>2 DEF ServiceRunEnds
<1>22. CASE ServiceStarts
  BY <1>22, AutomationsAssumption DEF ServiceStarts
<1>23. CASE ServiceDies
  BY ClockTypes, RecordTypes, StartedMarks, <1>23 DEF ServiceDies, Open
<1>24. CASE TakeRunsLate
  BY RecordTypes, <1>24 DEF TakeRunsLate
<1>25. CASE ImportTimesOut
  BY RecordTypes, <1>25 DEF ImportTimesOut
<1>26. ASSUME NEW m \in requests, SyncTimesOut(m)
      PROVE  ScheduleTypeOK'
  BY RecordTypes, <1>26 DEF SyncTimesOut, GivesUp
<1>27. ASSUME NEW r \in replies, AnswerTooLate(r)
      PROVE  ScheduleTypeOK'
  BY RecordTypes, <1>27 DEF AnswerTooLate, GivesUp
<1>28. CASE ConnectionBreaks
  <2>1. late' \in Nat /\ alone' \in BOOLEAN
    BY <1>28 DEF ConnectionBreaks
  <2>2. \A m \in requests' : m \in Requests
    BY <1>28, RecordTypes DEF ConnectionBreaks
  <2>3. win' \in {"closed", "opened", "import", "sync", "syncing", "ready"}
        /\ ask' \in {"no", "sent", "answered"}
    BY <1>28 DEF ConnectionBreaks
  <2> QED BY <1>28, <2>1, <2>2, <2>3 DEF ConnectionBreaks
<1>29. CASE UNCHANGED scheduleVars
  BY ClockTypes, RecordTypes, StartedMarks, <1>29 DEF scheduleVars
<1> QED BY <1>1, <1>2, <1>3, <1>4, <1>5, <1>6, <1>7, <1>8, <1>9, <1>10, <1>11, <1>12, <1>13,
    <1>14, <1>15, <1>16, <1>17, <1>18, <1>19, <1>20, <1>21, <1>22, <1>23, <1>24, <1>25,
    <1>26, <1>27, <1>28, <1>29 DEF ScheduleNext

(* The marks a tick writes carry the present time. *)
LEMMA StartedPast ==
  ASSUME NEW last, NEW S, NEW a \in Automations
  PROVE  StartedLast(last, S)[a] = IF a \in S THEN now ELSE last[a]
BY DEF StartedLast

LEMMA ClockRuns ==
  ASSUME ScheduleTypeOK, Clocked
  PROVE  now \in Nat /\ now' = now + 1
BY AutomationsAssumption DEF ScheduleTypeOK, Clocked, Times

LEMMA PastStep ==
  ASSUME ScheduleTypeOK, Past, RecordInv, [ScheduleNext]_scheduleVars
  PROVE  Past'
<1> USE DEF Past, winVars, wmarkVars, wrunVars, dmarkVars, serviceVars, syncVars, recordVars
<1>1. CASE Pass
  BY <1>1, ScheduleTypes, ClockRuns DEF Pass
<1>2. CASE OpenWindow
  BY <1>2 DEF OpenWindow
<1>3. CASE CloseWindow
  BY <1>3 DEF CloseWindow, Open
<1>4. CASE Render
  BY <1>4 DEF Render, Current
<1>5. CASE Tick
  <2>1. \E S : wlast' = StartedLast(wlast, S)
    BY <1>5 DEF Tick
  <2> QED BY <1>5, <2>1, ScheduleTypes, ClockRuns, StartedPast DEF Tick
<1>6. ASSUME NEW a \in Automations, RunNow(a)
      PROVE  Past'
  BY <1>6, ScheduleTypes, ClockRuns, StartedPast DEF RunNow
<1>7. ASSUME NEW a \in Automations, NEW ok \in BOOLEAN, WindowRunEnds(a, ok)
      PROVE  Past'
  BY <1>7 DEF WindowRunEnds
<1>8. ASSUME NEW a \in Automations, WindowRunStops(a)
      PROVE  Past'
  BY <1>8 DEF WindowRunStops
<1>9. CASE AskRuns
  BY <1>9 DEF AskRuns
<1>10. CASE TakeRuns
  BY <1>10 DEF TakeRuns
<1>11. CASE ImportRuns
  <2>1. \A h \in handed : h[2] <= now
    BY ScheduleTypes DEF RecordInv, StartedBefore
  <2>2. \A a \in Automations : wlast'[a] <= now
    BY <1>11, <2>1, LatestRecord DEF ImportRuns, Latest
  <2> QED BY <1>11, <2>2 DEF ImportRuns
<1>12. CASE ImportNothing
  BY <1>12 DEF ImportNothing
<1>13. CASE MountSync
  BY <1>13 DEF MountSync, Sync
<1>14. CASE MountAlone
  BY <1>14 DEF MountAlone
<1>15. CASE SendSync
  BY <1>15 DEF SendSync, Sync, Open
<1>16. CASE BootSync
  BY <1>16 DEF BootSync, Sync
<1>17. CASE SyncFails
  BY <1>17 DEF SyncFails
<1>18. ASSUME NEW m \in requests, Replace(m)
      PROVE  Past'
  BY <1>18 DEF Replace, Asker
<1>19. ASSUME NEW r \in replies, Merge(r)
      PROVE  Past'
  BY <1>19 DEF Merge
<1>20. CASE ServiceTick
  <2>1. \E S : dlast' = StartedLast(dlast, S)
    BY <1>20 DEF ServiceTick
  <2> QED BY <1>20, <2>1, ScheduleTypes, ClockRuns, StartedPast DEF ServiceTick
<1>21. ASSUME NEW run \in drun, NEW ok \in BOOLEAN, ServiceRunEnds(run, ok)
      PROVE  Past'
  BY <1>21 DEF ServiceRunEnds
<1>22. CASE ServiceStarts
  BY <1>22 DEF ServiceStarts, Open
<1>23. CASE ServiceDies
  BY <1>23 DEF ServiceDies, Open
<1>24. CASE TakeRunsLate
  BY <1>24 DEF TakeRunsLate
<1>25. CASE ImportTimesOut
  BY <1>25 DEF ImportTimesOut
<1>26. ASSUME NEW m \in requests, SyncTimesOut(m)
      PROVE  Past'
  BY <1>26, RecordTypes DEF SyncTimesOut, GivesUp
<1>27. ASSUME NEW r \in replies, AnswerTooLate(r)
      PROVE  Past'
  BY <1>27 DEF AnswerTooLate, GivesUp
<1>28. CASE ConnectionBreaks
  <2>1. requests' = {[m EXCEPT !.from = 0] : m \in requests}
        /\ UNCHANGED <<now, wmarkVars, dmarkVars, serviceVars>>
    BY <1>28 DEF ConnectionBreaks
  <2>2. \A k \in requests' : \E m \in requests : k.last = m.last
    BY <2>1, RecordTypes
  <2> QED BY <1>28, <2>1, <2>2 DEF ConnectionBreaks
<1>29. CASE UNCHANGED scheduleVars
  BY <1>29 DEF scheduleVars
<1> QED BY <1>1, <1>2, <1>3, <1>4, <1>5, <1>6, <1>7, <1>8, <1>9, <1>10, <1>11, <1>12, <1>13,
    <1>14, <1>15, <1>16, <1>17, <1>18, <1>19, <1>20, <1>21, <1>22, <1>23, <1>24, <1>25,
    <1>26, <1>27, <1>28, <1>29 DEF ScheduleNext

LEMMA RecordTimes ==
  ASSUME ScheduleTypeOK
  PROVE  \A x \in drun \cup disk \cup handed \cup filed : x[2] \in Nat
BY AutomationsAssumption DEF ScheduleTypeOK, Records, Times

LEMMA RecordStep ==
  ASSUME ScheduleTypeOK, RecordInv, [ScheduleNext]_scheduleVars
  PROVE  RecordInv'
<1> USE DEF RecordInv, RecordInOnePlace, StartedBefore, winVars, wmarkVars, wrunVars,
            dmarkVars, serviceVars, syncVars, recordVars
<1>1. CASE Pass
  <2>1. \A x \in drun \cup disk \cup handed \cup filed : x[2] < now'
    BY <1>1, ScheduleTypes, ClockRuns, RecordTimes DEF Pass
  <2> QED BY <1>1, <2>1 DEF Pass
<1>2. CASE OpenWindow
  BY <1>2 DEF OpenWindow
<1>3. CASE CloseWindow
  BY <1>3 DEF CloseWindow, Open
<1>4. CASE Render
  BY <1>4 DEF Render, Open
<1>5. CASE Tick
  <2>1. \A x \in drun \cup disk \cup handed \cup filed : x[2] < now'
    BY <1>5, ScheduleTypes, ClockRuns, RecordTimes DEF Tick
  <2> QED BY <1>5, <2>1 DEF Tick
<1>6. ASSUME NEW a \in Automations, RunNow(a)
      PROVE  RecordInv'
  <2>1. \A x \in drun \cup disk \cup handed \cup filed : x[2] < now'
    BY <1>6, ScheduleTypes, ClockRuns, RecordTimes DEF RunNow
  <2> QED BY <1>6, <2>1 DEF RunNow
<1>7. ASSUME NEW a \in Automations, NEW ok \in BOOLEAN, WindowRunEnds(a, ok)
      PROVE  RecordInv'
  BY <1>7 DEF WindowRunEnds
<1>8. ASSUME NEW a \in Automations, WindowRunStops(a)
      PROVE  RecordInv'
  BY <1>8 DEF WindowRunStops
<1>9. CASE AskRuns
  BY <1>9 DEF AskRuns
<1>10. CASE TakeRuns
  BY <1>10 DEF TakeRuns
<1>11. CASE ImportRuns
  BY <1>11 DEF ImportRuns
<1>12. CASE ImportNothing
  BY <1>12 DEF ImportNothing
<1>13. CASE MountSync
  BY <1>13 DEF MountSync, Sync
<1>14. CASE MountAlone
  BY <1>14 DEF MountAlone
<1>15. CASE SendSync
  BY <1>15 DEF SendSync, Sync, Open
<1>16. CASE BootSync
  BY <1>16 DEF BootSync, Sync
<1>17. CASE SyncFails
  BY <1>17 DEF SyncFails
<1>18. ASSUME NEW m \in requests, Replace(m)
      PROVE  RecordInv'
  BY <1>18 DEF Replace, Asker
<1>19. ASSUME NEW r \in replies, Merge(r)
      PROVE  RecordInv'
  BY <1>19 DEF Merge
<1>20. CASE ServiceTick
  <2>1. \A x \in drun \cup disk \cup handed \cup filed : x[2] < now'
    BY <1>20, ScheduleTypes, ClockRuns, RecordTimes DEF ServiceTick
  <2>2. PICK S : drun' = drun \cup (S \X {now})
    BY <1>20 DEF ServiceTick
  <2>3. \A x \in S \X {now} : x[2] = now
    OBVIOUS
  <2>4. now < now' /\ ~(now < now)
    BY <1>20, ClockRuns DEF ServiceTick
  <2>5. (S \X {now}) \cap (disk \cup handed \cup filed) = {}
    BY <2>3, <2>4
  <2> QED BY <1>20, <2>1, <2>2, <2>3, <2>4, <2>5 DEF ServiceTick
<1>21. ASSUME NEW run \in drun, NEW ok \in BOOLEAN, ServiceRunEnds(run, ok)
      PROVE  RecordInv'
  BY <1>21 DEF ServiceRunEnds
<1>22. CASE ServiceStarts
  BY <1>22 DEF ServiceStarts, Open
<1>23. CASE ServiceDies
  BY <1>23 DEF ServiceDies, Open
<1>24. CASE TakeRunsLate
  BY <1>24 DEF TakeRunsLate
<1>25. CASE ImportTimesOut
  BY <1>25 DEF ImportTimesOut
<1>26. ASSUME NEW m \in requests, SyncTimesOut(m)
      PROVE  RecordInv'
  BY <1>26 DEF SyncTimesOut, GivesUp
<1>27. ASSUME NEW r \in replies, AnswerTooLate(r)
      PROVE  RecordInv'
  BY <1>27 DEF AnswerTooLate, GivesUp
<1>28. CASE ConnectionBreaks
  BY <1>28 DEF ConnectionBreaks
<1>29. CASE UNCHANGED scheduleVars
  BY <1>29 DEF scheduleVars
<1> QED BY <1>1, <1>2, <1>3, <1>4, <1>5, <1>6, <1>7, <1>8, <1>9, <1>10, <1>11, <1>12, <1>13,
    <1>14, <1>15, <1>16, <1>17, <1>18, <1>19, <1>20, <1>21, <1>22, <1>23, <1>24, <1>25,
    <1>26, <1>27, <1>28, <1>29 DEF ScheduleNext

LEMMA AttachmentStep ==
  ASSUME ScheduleTypeOK, Attachment, [ScheduleNext]_scheduleVars
  PROVE  Attachment'
<1> USE DEF Attachment, ScheduleTypeOK, Open, winVars, wmarkVars, wrunVars, dmarkVars,
            serviceVars, syncVars, recordVars
<1>1. CASE Pass
  BY <1>1 DEF Pass, Clocked
<1>2. CASE OpenWindow
  BY <1>2 DEF OpenWindow
<1>3. CASE CloseWindow
  BY <1>3 DEF CloseWindow, Open
<1>4. CASE Render
  BY <1>4 DEF Render, Open
<1>5. CASE Tick
  BY <1>5 DEF Tick, Clocked
<1>6. ASSUME NEW a \in Automations, RunNow(a)
      PROVE  Attachment'
  BY <1>6 DEF RunNow, Clocked
<1>7. ASSUME NEW a \in Automations, NEW ok \in BOOLEAN, WindowRunEnds(a, ok)
      PROVE  Attachment'
  BY <1>7 DEF WindowRunEnds
<1>8. ASSUME NEW a \in Automations, WindowRunStops(a)
      PROVE  Attachment'
  BY <1>8 DEF WindowRunStops
<1>9. CASE AskRuns
  BY <1>9 DEF AskRuns
<1>10. CASE TakeRuns
  BY <1>10 DEF TakeRuns
<1>11. CASE ImportRuns
  BY <1>11 DEF ImportRuns
<1>12. CASE ImportNothing
  BY <1>12 DEF ImportNothing
<1>13. CASE MountSync
  BY <1>13 DEF MountSync, Sync
<1>14. CASE MountAlone
  BY <1>14 DEF MountAlone
<1>15. CASE SendSync
  BY <1>15 DEF SendSync, Sync, Open
<1>16. CASE BootSync
  BY <1>16 DEF BootSync, Sync
<1>17. CASE SyncFails
  BY <1>17 DEF SyncFails
<1>18. ASSUME NEW m \in requests, Replace(m)
      PROVE  Attachment'
  BY <1>18 DEF Replace, Asker
<1>19. ASSUME NEW r \in replies, Merge(r)
      PROVE  Attachment'
  BY <1>19 DEF Merge
<1>20. CASE ServiceTick
  BY <1>20 DEF ServiceTick, Clocked
<1>21. ASSUME NEW run \in drun, NEW ok \in BOOLEAN, ServiceRunEnds(run, ok)
      PROVE  Attachment'
  BY <1>21 DEF ServiceRunEnds
<1>22. CASE ServiceStarts
  BY <1>22 DEF ServiceStarts, Open
<1>23. CASE ServiceDies
  BY <1>23 DEF ServiceDies, Open
<1>24. CASE TakeRunsLate
  BY <1>24 DEF TakeRunsLate
<1>25. CASE ImportTimesOut
  BY <1>25 DEF ImportTimesOut
<1>26. ASSUME NEW m \in requests, SyncTimesOut(m)
      PROVE  Attachment'
  BY <1>26 DEF SyncTimesOut, GivesUp
<1>27. ASSUME NEW r \in replies, AnswerTooLate(r)
      PROVE  Attachment'
  BY <1>27 DEF AnswerTooLate, GivesUp
<1>28. CASE ConnectionBreaks
  BY <1>28 DEF ConnectionBreaks
<1>29. CASE UNCHANGED scheduleVars
  BY <1>29 DEF scheduleVars
<1> QED BY <1>1, <1>2, <1>3, <1>4, <1>5, <1>6, <1>7, <1>8, <1>9, <1>10, <1>11, <1>12, <1>13,
    <1>14, <1>15, <1>16, <1>17, <1>18, <1>19, <1>20, <1>21, <1>22, <1>23, <1>24, <1>25,
    <1>26, <1>27, <1>28, <1>29 DEF ScheduleNext

LEMMA RecordsFinite == IsFiniteSet(Records)
<1>1. IsFiniteSet(0..MaxTime)
  BY AutomationsAssumption, FS_Interval
<1> QED BY <1>1, AutomationsAssumption, FS_Product DEF Times, Records

LEMMA RunsFinite ==
  ASSUME ScheduleTypeOK
  PROVE  /\ IsFiniteSet(drun) /\ Cardinality(drun) \in Nat
         /\ \A S \in SUBSET Automations : IsFiniteSet(S) /\ Cardinality(S) \in Nat
BY RecordsFinite, AutomationsAssumption, FS_Subset, FS_CardinalityType DEF ScheduleTypeOK

LEMMA NamesMember ==
  ASSUME NEW runs
  PROVE  \A a : a \in NamesOf(runs) <=> \E run \in runs : a = run[1]
BY DEF NamesOf

(* A set of runs with one per automation is no larger than its automations. *)
LEMMA RunsNamed ==
  ASSUME NEW T, IsFiniteSet(T), NEW runs, NamesOf(runs) \subseteq T,
         \A r, s \in runs : r[1] = s[1] => r = s
  PROVE  IsFiniteSet(runs) /\ Cardinality(runs) <= Cardinality(T)
<1> DEFINE f == [r \in runs |-> r[1]]
<1>1. f \in Injection(runs, T)
  BY NamesMember DEF Injection, IsInjective
<1> QED BY <1>1, FS_Injection

LEMMA UnionSize ==
  ASSUME NEW S, NEW T, IsFiniteSet(S), IsFiniteSet(T)
  PROVE  Cardinality(S \cup T) <= Cardinality(S) + Cardinality(T)
<1>1. /\ Cardinality(S \cup T) = Cardinality(S) + Cardinality(T) - Cardinality(S \cap T)
      /\ IsFiniteSet(S \cap T)
  BY FS_Union, FS_Intersection
<1>2. Cardinality(S) \in Nat /\ Cardinality(T) \in Nat /\ Cardinality(S \cap T) \in Nat
  BY <1>1, FS_CardinalityType
<1> QED BY <1>1, <1>2

LEMMA ServiceTickDivides ==
  ASSUME ScheduleTypeOK, Attachment, Division, ServiceTick
  PROVE  Division'
<1>1. PICK S \in Starts(dnext, NamesOf(drun), Room(Cardinality(drun))) :
        S # {} /\ drun' = drun \cup (S \X {now})
  BY DEF ServiceTick
<1>2. /\ Cardinality(drun) \in Nat /\ IsFiniteSet(drun)
      /\ S \subseteq Automations \ NamesOf(drun) /\ IsFiniteSet(S)
      /\ Cardinality(S) <= Room(Cardinality(drun))
  BY RunsFinite, RoomLeft, StartsWithin
<1>3. \A x \in S \X {now} : x[1] \in S /\ x = <<x[1], now>>
  OBVIOUS
<1>4. \A x, y \in drun' : x[1] = y[1] => x = y
  <2>1. \A x \in drun : x[1] \notin S
    BY <1>2, NamesMember
  <2> QED BY <1>1, <1>3, <2>1 DEF Division
<1>5. Cardinality(drun') <= Cap
  <2> DEFINE news == S \X {now}
  <2>1. IsFiniteSet(news) /\ Cardinality(news) <= Cardinality(S)
    <3>1. NamesOf(news) \subseteq S
      BY <1>3, NamesMember
    <3> HIDE DEF news
    <3>2. \A r, s \in news : r[1] = s[1] => r = s
      BY <1>3 DEF news
    <3> QED BY <1>2, <3>1, <3>2, RunsNamed
  <2> HIDE DEF news
  <2>2. Cardinality(drun') <= Cardinality(drun) + Cardinality(news)
    BY <1>1, <1>2, <2>1, UnionSize DEF news
  <2>3. Cardinality(S) # 0 /\ Cardinality(S) \in Nat /\ Cardinality(news) \in Nat
    BY <1>1, <1>2, <2>1, FS_EmptySet, FS_CardinalityType
  <2>4. Room(Cardinality(drun)) \in Nat /\ Cardinality(drun) + Room(Cardinality(drun)) = Cap
    BY <1>2, <2>3, RoomLeft
  <2>5. Cardinality(drun') \in Nat
    BY <1>1, <1>2, <2>1, FS_Union, FS_CardinalityType DEF news
  <2> QED BY <1>2, <2>1, <2>2, <2>3, <2>4, <2>5, AutomationsAssumption
<1>6. replies = {} /\ UNCHANGED <<replies, alone, win, wrun, byHand>>
  BY DEF ServiceTick, Attachment, syncVars, winVars, wrunVars
<1>7. ~(~alone /\ win = "ready")
  BY DEF ServiceTick, Attachment
<1> QED BY <1>4, <1>5, <1>6, <1>7 DEF Division

LEMMA ServiceRunEndDivides ==
  ASSUME ScheduleTypeOK, Division, NEW run \in drun, NEW ok, ServiceRunEnds(run, ok)
  PROVE  Division'
<1>1. drun' \subseteq drun
  BY DEF ServiceRunEnds
<1>2. NamesOf(drun') \subseteq NamesOf(drun)
  BY <1>1, NamesMember
<1>3. Cardinality(drun') <= Cap
  <2>1. IsFiniteSet(drun) /\ Cardinality(drun) \in Nat
    BY RunsFinite
  <2>2. Cardinality(drun') <= Cardinality(drun) /\ Cardinality(drun') \in Nat
    BY <1>1, <2>1, FS_Subset, FS_CardinalityType
  <2> QED BY <2>1, <2>2, AutomationsAssumption DEF Division
<1>4. NamesOf(drun)' = NamesOf(drun')
  BY DEF NamesOf
<1> QED BY <1>1, <1>2, <1>3, <1>4 DEF ServiceRunEnds, Division, syncVars, winVars, wrunVars

LEMMA DivisionStep ==
  ASSUME ScheduleTypeOK, Attachment, Division, [ScheduleNext]_scheduleVars
  PROVE  Division'
<1> USE DEF Division, winVars, wmarkVars, wrunVars, dmarkVars, serviceVars, syncVars, recordVars
<1>1. CASE Pass
  BY ScheduleTypes, <1>1 DEF Pass, Clocked
<1>2. CASE OpenWindow
  BY <1>2 DEF OpenWindow, Attachment, Open
<1>3. CASE CloseWindow
  BY ScheduleTypes, <1>3 DEF CloseWindow, Open
<1>4. CASE Render
  BY ScheduleTypes, <1>4 DEF Render, Open
<1>5. CASE Tick
  BY ScheduleTypes, <1>5 DEF Tick, Clocked
<1>6. ASSUME NEW a \in Automations, RunNow(a)
      PROVE  Division'
  BY ScheduleTypes, <1>6 DEF RunNow, Clocked
<1>7. ASSUME NEW a \in Automations, NEW ok \in BOOLEAN, WindowRunEnds(a, ok)
      PROVE  Division'
  BY ScheduleTypes, <1>7 DEF WindowRunEnds
<1>8. ASSUME NEW a \in Automations, WindowRunStops(a)
      PROVE  Division'
  BY ScheduleTypes, <1>8 DEF WindowRunStops
<1>9. CASE AskRuns
  BY ScheduleTypes, <1>9 DEF AskRuns
<1>10. CASE TakeRuns
  BY ScheduleTypes, <1>10 DEF TakeRuns
<1>11. CASE ImportRuns
  BY ScheduleTypes, <1>11 DEF ImportRuns
<1>12. CASE ImportNothing
  BY ScheduleTypes, <1>12 DEF ImportNothing
<1>13. CASE MountSync
  BY ScheduleTypes, <1>13 DEF MountSync, Sync
<1>14. CASE MountAlone
  BY ScheduleTypes, <1>14 DEF MountAlone
<1>15. CASE SendSync
  BY ScheduleTypes, <1>15 DEF SendSync, Sync, Open
<1>16. CASE BootSync
  BY ScheduleTypes, <1>16 DEF BootSync, Sync
<1>17. CASE SyncFails
  BY ScheduleTypes, <1>17 DEF SyncFails
<1>18. ASSUME NEW m \in requests, Replace(m)
      PROVE  Division'
  BY ScheduleTypes, <1>18 DEF Replace, Asker
<1>19. ASSUME NEW r \in replies, Merge(r)
      PROVE  Division'
  BY ScheduleTypes, <1>19 DEF Merge
<1>20. CASE ServiceTick
  BY <1>20, ServiceTickDivides
<1>21. ASSUME NEW run \in drun, NEW ok \in BOOLEAN, ServiceRunEnds(run, ok)
      PROVE  Division'
  BY <1>21, ServiceRunEndDivides
<1>22. CASE ServiceStarts
  BY ScheduleTypes, <1>22 DEF ServiceStarts, Open
<1>23. CASE ServiceDies
  <2>1. drun' = {} /\ replies' = {} /\ wrun' = wrun /\ byHand' = byHand
    BY <1>23 DEF ServiceDies
  <2>2. NamesOf(drun)' = {} /\ Cardinality(drun') = 0
    BY <2>1, FS_EmptySet DEF NamesOf
  <2>3. ~alone' => ~alone /\ win # "ready"
    BY <1>23 DEF ServiceDies
  <2> QED BY <2>1, <2>2, <2>3, AutomationsAssumption
<1>24. CASE TakeRunsLate
  BY ScheduleTypes, <1>24 DEF TakeRunsLate
<1>25. CASE ImportTimesOut
  BY ScheduleTypes, <1>25 DEF ImportTimesOut
<1>26. ASSUME NEW m \in requests, SyncTimesOut(m)
      PROVE  Division'
  BY ScheduleTypes, <1>26 DEF SyncTimesOut, GivesUp
<1>27. ASSUME NEW r \in replies, AnswerTooLate(r)
      PROVE  Division'
  BY ScheduleTypes, <1>27 DEF AnswerTooLate, GivesUp
<1>28. CASE ConnectionBreaks
  BY ScheduleTypes, <1>28 DEF ConnectionBreaks
<1>29. CASE UNCHANGED scheduleVars
  BY ScheduleTypes, <1>29 DEF scheduleVars
<1> QED BY <1>1, <1>2, <1>3, <1>4, <1>5, <1>6, <1>7, <1>8, <1>9, <1>10, <1>11, <1>12, <1>13,
    <1>14, <1>15, <1>16, <1>17, <1>18, <1>19, <1>20, <1>21, <1>22, <1>23, <1>24, <1>25,
    <1>26, <1>27, <1>28, <1>29 DEF ScheduleNext

(* The cap, kept as a set: the runs the window starts on schedule. *)
Scheduled == wrun \ byHand

LEMMA ScheduledSize ==
  ASSUME ScheduleTypeOK
  PROVE  /\ IsFiniteSet(wrun) /\ IsFiniteSet(bg) /\ IsFiniteSet(Scheduled)
         /\ Cardinality(wrun) \in Nat /\ Cardinality(bg) \in Nat /\ Cardinality(drun) \in Nat
         /\ Cardinality(Scheduled) \in Nat /\ Cardinality(Scheduled) <= Cardinality(wrun)
<1>1. IsFiniteSet(wrun) /\ IsFiniteSet(bg)
  BY ScheduleTypes, RunsFinite
<1>2. IsFiniteSet(Scheduled) /\ Cardinality(Scheduled) <= Cardinality(wrun)
  BY <1>1, FS_Subset DEF Scheduled
<1> QED BY <1>1, <1>2, RunsFinite, FS_CardinalityType

(* A step that adds no scheduled run to the window, and no run to the service. *)
LEMMA HoldsWithFewer ==
  ASSUME ScheduleTypeOK, ScheduleTypeOK', ScheduleHolds, ~alone,
         drun' \subseteq drun, wrun' \ byHand' \subseteq wrun \ byHand
  PROVE  ScheduleHolds'
<1>1. IsFiniteSet(drun) /\ IsFiniteSet(Scheduled)
  BY RunsFinite, ScheduledSize
<1>2. /\ Cardinality(drun') <= Cardinality(drun)
      /\ Cardinality(wrun' \ byHand') <= Cardinality(Scheduled)
  BY <1>1, FS_Subset DEF Scheduled
<1>3. /\ Cardinality(drun) \in Nat /\ Cardinality(Scheduled) \in Nat
      /\ Cardinality(drun') \in Nat /\ Cardinality(wrun' \ byHand') \in Nat
  BY <1>1, RunsFinite, FS_Subset, FS_CardinalityType DEF Scheduled
<1>4. CapHeld'
  BY <1>2, <1>3, AutomationsAssumption DEF ScheduleHolds, CapHeld, Scheduled
<1>5. NamesOf(drun)' \subseteq NamesOf(drun)
  BY NamesMember DEF NamesOf
<1>6. ScheduledNeverTwice'
  BY <1>5 DEF ScheduleHolds, ScheduledNeverTwice
<1> QED BY <1>4, <1>6 DEF ScheduleHolds

(* A window that runs nothing on schedule leaves the cap to the service. *)
LEMMA HoldsAlone ==
  ASSUME ScheduleTypeOK', Division', wrun' \subseteq byHand'
  PROVE  ScheduleHolds'
<1>1. wrun' \ byHand' = {}
  OBVIOUS
<1>2. Cardinality(wrun' \ byHand') = 0
  BY <1>1, FS_EmptySet
<1>3. Cardinality(drun') \in Nat
  BY RecordsFinite, FS_Subset, FS_CardinalityType DEF ScheduleTypeOK
<1>4. CapHeld'
  BY <1>2, <1>3, AutomationsAssumption DEF CapHeld, Division
<1>5. ScheduledNeverTwice'
  BY DEF ScheduledNeverTwice
<1> QED BY <1>4, <1>5 DEF ScheduleHolds

LEMMA TickHolds ==
  ASSUME ScheduleTypeOK, ScheduleTypeOK', Division, ScheduleHolds, ~alone, Tick
  PROVE  ScheduleHolds'
<1> DEFINE room == Room(Cardinality(wrun) + Cardinality(bg))
<1>1. PICK S \in Starts(shown.next, wrun, room) :
        S \ bg # {} /\ wrun' = wrun \cup (S \ bg)
  BY DEF Tick
<1>2. UNCHANGED <<alone, drun, byHand>> /\ win = "ready"
  BY DEF Tick, winVars
<1>3. Cardinality(wrun) + Cardinality(bg) \in Nat
  BY ScheduledSize
<1>4. S \subseteq Automations \ wrun /\ IsFiniteSet(S) /\ Cardinality(S) <= room
  BY <1>1, <1>3, RoomLeft, StartsWithin
<1>5. NamesOf(drun) \subseteq bg /\ byHand \subseteq wrun
  BY <1>2, ScheduleTypes DEF Division
<1>6. ScheduledNeverTwice'
  <2>1. NamesOf(drun)' = NamesOf(drun)
    BY <1>2 DEF NamesOf
  <2> QED BY <1>1, <1>2, <1>5, <2>1 DEF ScheduleHolds, ScheduledNeverTwice
<1>7. CapHeld'
  <2>1. wrun' \ byHand' \subseteq Scheduled \cup S
    BY <1>1, <1>2 DEF Scheduled
  <2>2. /\ IsFiniteSet(Scheduled \cup S)
        /\ Cardinality(Scheduled \cup S) <= Cardinality(Scheduled) + Cardinality(S)
    BY <1>4, ScheduledSize, UnionSize, FS_Union
  <2>3. /\ Cardinality(wrun' \ byHand') <= Cardinality(Scheduled \cup S)
        /\ Cardinality(wrun' \ byHand') \in Nat /\ Cardinality(Scheduled \cup S) \in Nat
    BY <2>1, <2>2, FS_Subset, FS_CardinalityType
  <2>4. Cardinality(drun) <= Cardinality(bg)
    BY <1>5, ScheduledSize, RunsNamed DEF Division
  <2>5. Cardinality(S) \in Nat /\ Cardinality(S) # 0
    BY <1>1, <1>4, FS_CardinalityType, FS_EmptySet
  <2>6. room \in Nat /\ (room # 0 => Cardinality(wrun) + Cardinality(bg) + room = Cap)
    BY <1>3, RoomLeft
  <2>7. Cardinality(drun) + Cardinality(wrun' \ byHand') <= Cap
    <3> HIDE DEF room
    <3> QED BY <1>4, <2>2, <2>3, <2>4, <2>5, <2>6, ScheduledSize, AutomationsAssumption
  <2> QED BY <1>2, <2>7 DEF CapHeld
<1> QED BY <1>6, <1>7 DEF ScheduleHolds

(* While the window and its service go on together, the service starts no run
   and the window starts them at its ticks or by hand. *)
LEMMA AloneLasts ==
  ASSUME ScheduleTypeOK, Attachment, [ScheduleNext]_scheduleVars
  PROVE  ~alone' /\ win' = "ready" =>
           ~alone /\ drun' \subseteq drun /\ (Tick \/ wrun' \ byHand' \subseteq wrun \ byHand)
<1> USE DEF winVars, wmarkVars, wrunVars, dmarkVars, serviceVars, syncVars, recordVars
<1>1. CASE Pass
  BY <1>1 DEF Pass, Clocked
<1>2. CASE OpenWindow
  BY <1>2 DEF OpenWindow
<1>3. CASE CloseWindow
  BY <1>3 DEF CloseWindow
<1>4. CASE Render
  BY <1>4 DEF Render, Open
<1>5. CASE Tick
  BY <1>5 DEF Tick
<1>6. ASSUME NEW a \in Automations, RunNow(a)
      PROVE  ~alone' /\ win' = "ready" =>
           ~alone /\ drun' \subseteq drun /\ (Tick \/ wrun' \ byHand' \subseteq wrun \ byHand)
  BY <1>6 DEF RunNow, Clocked
<1>7. ASSUME NEW a \in Automations, NEW ok \in BOOLEAN, WindowRunEnds(a, ok)
      PROVE  ~alone' /\ win' = "ready" =>
           ~alone /\ drun' \subseteq drun /\ (Tick \/ wrun' \ byHand' \subseteq wrun \ byHand)
  BY <1>7 DEF WindowRunEnds
<1>8. ASSUME NEW a \in Automations, WindowRunStops(a)
      PROVE  ~alone' /\ win' = "ready" =>
           ~alone /\ drun' \subseteq drun /\ (Tick \/ wrun' \ byHand' \subseteq wrun \ byHand)
  BY <1>8 DEF WindowRunStops
<1>9. CASE AskRuns
  BY <1>9 DEF AskRuns
<1>10. CASE TakeRuns
  BY <1>10 DEF TakeRuns
<1>11. CASE ImportRuns
  BY <1>11 DEF ImportRuns
<1>12. CASE ImportNothing
  BY <1>12 DEF ImportNothing
<1>13. CASE MountSync
  BY <1>13 DEF MountSync, Sync
<1>14. CASE MountAlone
  BY <1>14 DEF MountAlone
<1>15. CASE SendSync
  BY <1>15 DEF SendSync, Sync, Open
<1>16. CASE BootSync
  BY <1>16 DEF BootSync, Sync
<1>17. CASE SyncFails
  BY <1>17 DEF SyncFails
<1>18. ASSUME NEW m \in requests, Replace(m)
      PROVE  ~alone' /\ win' = "ready" =>
           ~alone /\ drun' \subseteq drun /\ (Tick \/ wrun' \ byHand' \subseteq wrun \ byHand)
  BY <1>18 DEF Replace, Asker
<1>19. ASSUME NEW r \in replies, Merge(r)
      PROVE  ~alone' /\ win' = "ready" =>
           ~alone /\ drun' \subseteq drun /\ (Tick \/ wrun' \ byHand' \subseteq wrun \ byHand)
  BY <1>19 DEF Merge
<1>20. CASE ServiceTick
  BY <1>20 DEF ServiceTick, Attachment, Open
<1>21. ASSUME NEW run \in drun, NEW ok \in BOOLEAN, ServiceRunEnds(run, ok)
      PROVE  ~alone' /\ win' = "ready" =>
           ~alone /\ drun' \subseteq drun /\ (Tick \/ wrun' \ byHand' \subseteq wrun \ byHand)
  BY <1>21 DEF ServiceRunEnds
<1>22. CASE ServiceStarts
  BY <1>22 DEF ServiceStarts, Open
<1>23. CASE ServiceDies
  BY <1>23 DEF ServiceDies, Open
<1>24. CASE TakeRunsLate
  BY <1>24 DEF TakeRunsLate
<1>25. CASE ImportTimesOut
  BY <1>25 DEF ImportTimesOut
<1>26. ASSUME NEW m \in requests, SyncTimesOut(m)
      PROVE  ~alone' /\ win' = "ready" =>
           ~alone /\ drun' \subseteq drun /\ (Tick \/ wrun' \ byHand' \subseteq wrun \ byHand)
  BY <1>26 DEF SyncTimesOut, GivesUp
<1>27. ASSUME NEW r \in replies, AnswerTooLate(r)
      PROVE  ~alone' /\ win' = "ready" =>
           ~alone /\ drun' \subseteq drun /\ (Tick \/ wrun' \ byHand' \subseteq wrun \ byHand)
  BY <1>27 DEF AnswerTooLate, GivesUp
<1>28. CASE ConnectionBreaks
  BY <1>28 DEF ConnectionBreaks
<1>29. CASE UNCHANGED scheduleVars
  BY <1>29 DEF scheduleVars
<1> QED BY <1>1, <1>2, <1>3, <1>4, <1>5, <1>6, <1>7, <1>8, <1>9, <1>10, <1>11, <1>12, <1>13,
    <1>14, <1>15, <1>16, <1>17, <1>18, <1>19, <1>20, <1>21, <1>22, <1>23, <1>24, <1>25,
    <1>26, <1>27, <1>28, <1>29 DEF ScheduleNext

ScheduleInv ==
  /\ ScheduleTypeOK /\ Past /\ RecordInv
  /\ Attachment /\ Division /\ ScheduleHolds

LEMMA HoldsStep ==
  ASSUME ScheduleInv, ScheduleTypeOK', Division', [ScheduleNext]_scheduleVars
  PROVE  ScheduleHolds'
<1> USE DEF ScheduleInv
<1>1. CASE alone'
  BY <1>1 DEF ScheduleHolds, ScheduledNeverTwice, CapHeld
<1>2. CASE ~alone' /\ win' # "ready"
  BY <1>2, HoldsAlone DEF Division
<1>3. CASE ~alone' /\ win' = "ready"
  <2>1. ~alone /\ drun' \subseteq drun /\ (Tick \/ wrun' \ byHand' \subseteq wrun \ byHand)
    BY <1>3, AloneLasts
  <2> QED BY <2>1, TickHolds, HoldsWithFewer
<1> QED BY <1>1, <1>2, <1>3

LEMMA ScheduleStarts == ScheduleInit => ScheduleInv
<1> SUFFICES ASSUME ScheduleInit
             PROVE  ScheduleInv
  OBVIOUS
<1> USE AutomationsAssumption
<1>1. wnext \in Marks /\ wlast \in Lasts
  BY DEF ScheduleInit, Marks, Lasts, Times
<1>2. ScheduleTypeOK
  <2>1. shown \in Shown /\ services \in 0..MaxServices /\ now \in Times
    BY <1>1 DEF ScheduleInit, Current, Shown, Times
  <2>2. up \in BOOLEAN /\ attached \in BOOLEAN /\ alone \in BOOLEAN /\ ~attached
    BY DEF ScheduleInit
  <2>3. win = "closed" /\ windows \in 0..MaxWindows
    BY DEF ScheduleInit
  <2>4. dnext \in Marks /\ dlast \in Lasts
    BY <1>1 DEF ScheduleInit
  <2>5. /\ {wrun, bg} \subseteq SUBSET Automations /\ drun \subseteq Records
        /\ byHand \subseteq wrun /\ inFlight \subseteq wrun
        /\ requests = {} /\ replies = {} /\ ask = "no" /\ late = 0
        /\ {disk, handed, filed} \subseteq SUBSET Records
    BY DEF ScheduleInit
  <2> QED BY <1>1, <2>1, <2>2, <2>3, <2>4, <2>5 DEF ScheduleTypeOK
<1>3. Past /\ RecordInv /\ Attachment
  BY DEF ScheduleInit, Past, RecordInv, RecordInOnePlace, StartedBefore, Attachment, Current,
         Never, Open
<1>4. Cardinality(drun) = 0 /\ Cardinality(wrun \ byHand) = 0 /\ NamesOf(drun) = {}
  BY FS_EmptySet DEF ScheduleInit, NamesOf
<1>5. Division /\ ScheduleHolds
  BY <1>4 DEF ScheduleInit, Division, ScheduleHolds, ScheduledNeverTwice, CapHeld
<1> QED BY <1>2, <1>3, <1>5 DEF ScheduleInv

LEMMA ScheduleInvariant == ScheduleSpec => []ScheduleInv
<1>1. ScheduleInv /\ [ScheduleNext]_scheduleVars => ScheduleInv'
  <2> SUFFICES ASSUME ScheduleInv, [ScheduleNext]_scheduleVars
               PROVE  ScheduleInv'
    OBVIOUS
  <2>1. ScheduleTypeOK'
    BY ScheduleTypeStep DEF ScheduleInv
  <2>2. Past' /\ RecordInv'
    BY PastStep, RecordStep DEF ScheduleInv
  <2>3. Attachment' /\ Division'
    BY AttachmentStep, DivisionStep DEF ScheduleInv
  <2>4. ScheduleHolds'
    BY <2>1, <2>3, HoldsStep
  <2> QED BY <2>1, <2>2, <2>3, <2>4 DEF ScheduleInv
<1> QED BY <1>1, ScheduleStarts, PTL DEF ScheduleSpec

(* Every reachable state of the window's and the service's marks, runs and
   exchanges is well typed. *)
THEOREM ScheduleTypeCorrect == ScheduleSpec => []ScheduleTypeOK
BY ScheduleInvariant, PTL DEF ScheduleInv

(* A window and the service that answered its boot exchange start no automation
   twice for one schedule and stay within one cap while they are connected,
   in whatever order their other exchanges are answered, or not in time. *)
THEOREM SchedulesShared == ScheduleSpec => []ScheduleHolds
BY ScheduleInvariant, PTL DEF ScheduleInv

(* take_runs and recordBackgroundRun: a finished run's record is never in two
   places, so no run is handed over or filed twice. *)
THEOREM RecordsHandedOnce == ScheduleSpec => []RecordInOnePlace
BY ScheduleInvariant, PTL DEF ScheduleInv, RecordInv

LEMMA ProgressStep ==
  ASSUME ScheduleTypeOK, Past, [ScheduleNext]_scheduleVars
  PROVE  \A x \in Automations : dlast'[x] >= dlast[x] /\ (Open' => wlast'[x] >= wlast[x])
<1> USE DEF winVars, wmarkVars, wrunVars, dmarkVars, serviceVars, syncVars, recordVars
<1>1. CASE Pass
  BY ScheduleTypes, <1>1 DEF Pass, Clocked
<1>2. CASE OpenWindow
  BY ScheduleTypes, <1>2 DEF OpenWindow
<1>3. CASE CloseWindow
  BY <1>3, ScheduleTypes DEF CloseWindow, Open
<1>4. CASE Render
  BY ScheduleTypes, <1>4 DEF Render, Open
<1>5. CASE Tick
  <2>1. \E S : wlast' = StartedLast(wlast, S)
    BY <1>5 DEF Tick
  <2> QED BY <1>5, <2>1, ScheduleTypes, StartedPast DEF Tick, Past
<1>6. ASSUME NEW a \in Automations, RunNow(a)
      PROVE  \A x \in Automations : dlast'[x] >= dlast[x] /\ (Open' => wlast'[x] >= wlast[x])
  BY <1>6, ScheduleTypes, StartedPast DEF RunNow, Past
<1>7. ASSUME NEW a \in Automations, NEW ok \in BOOLEAN, WindowRunEnds(a, ok)
      PROVE  \A x \in Automations : dlast'[x] >= dlast[x] /\ (Open' => wlast'[x] >= wlast[x])
  BY ScheduleTypes, <1>7 DEF WindowRunEnds
<1>8. ASSUME NEW a \in Automations, WindowRunStops(a)
      PROVE  \A x \in Automations : dlast'[x] >= dlast[x] /\ (Open' => wlast'[x] >= wlast[x])
  BY ScheduleTypes, <1>8 DEF WindowRunStops
<1>9. CASE AskRuns
  BY ScheduleTypes, <1>9 DEF AskRuns
<1>10. CASE TakeRuns
  BY ScheduleTypes, <1>10 DEF TakeRuns
<1>11. CASE ImportRuns
  <2>1. \A a \in Automations : wlast'[a] = Latest(a)
    BY <1>11 DEF ImportRuns, Latest
  <2>2. dlast' = dlast
    BY <1>11 DEF ImportRuns
  <2> QED BY <2>1, <2>2, ScheduleTypes, LatestRecord
<1>12. CASE ImportNothing
  BY ScheduleTypes, <1>12 DEF ImportNothing
<1>13. CASE MountSync
  BY ScheduleTypes, <1>13 DEF MountSync, Sync
<1>14. CASE MountAlone
  BY ScheduleTypes, <1>14 DEF MountAlone
<1>15. CASE SendSync
  BY ScheduleTypes, <1>15 DEF SendSync, Sync, Open
<1>16. CASE BootSync
  BY ScheduleTypes, <1>16 DEF BootSync, Sync
<1>17. CASE SyncFails
  BY ScheduleTypes, <1>17 DEF SyncFails
<1>18. ASSUME NEW m \in requests, Replace(m)
      PROVE  \A x \in Automations : dlast'[x] >= dlast[x] /\ (Open' => wlast'[x] >= wlast[x])
  BY ScheduleTypes, <1>18 DEF Replace, Asker
<1>19. ASSUME NEW r \in replies, Merge(r)
      PROVE  \A x \in Automations : dlast'[x] >= dlast[x] /\ (Open' => wlast'[x] >= wlast[x])
  BY ScheduleTypes, <1>19 DEF Merge
<1>20. CASE ServiceTick
  <2>1. \E S : dlast' = StartedLast(dlast, S)
    BY <1>20 DEF ServiceTick
  <2> QED BY <1>20, <2>1, ScheduleTypes, StartedPast DEF ServiceTick, Past
<1>21. ASSUME NEW run \in drun, NEW ok \in BOOLEAN, ServiceRunEnds(run, ok)
      PROVE  \A x \in Automations : dlast'[x] >= dlast[x] /\ (Open' => wlast'[x] >= wlast[x])
  BY ScheduleTypes, <1>21 DEF ServiceRunEnds
<1>22. CASE ServiceStarts
  BY ScheduleTypes, <1>22 DEF ServiceStarts, Open
<1>23. CASE ServiceDies
  BY ScheduleTypes, <1>23 DEF ServiceDies, Open
<1>24. CASE TakeRunsLate
  BY ScheduleTypes, <1>24 DEF TakeRunsLate
<1>25. CASE ImportTimesOut
  BY ScheduleTypes, <1>25 DEF ImportTimesOut, Open
<1>26. ASSUME NEW m \in requests, SyncTimesOut(m)
      PROVE  \A x \in Automations : dlast'[x] >= dlast[x] /\ (Open' => wlast'[x] >= wlast[x])
  BY ScheduleTypes, <1>26 DEF SyncTimesOut, GivesUp, Open
<1>27. ASSUME NEW r \in replies, AnswerTooLate(r)
      PROVE  \A x \in Automations : dlast'[x] >= dlast[x] /\ (Open' => wlast'[x] >= wlast[x])
  BY ScheduleTypes, <1>27 DEF AnswerTooLate, GivesUp, Open
<1>28. CASE ConnectionBreaks
  BY ScheduleTypes, <1>28 DEF ConnectionBreaks, Open
<1>29. CASE UNCHANGED scheduleVars
  BY ScheduleTypes, <1>29 DEF scheduleVars
<1> QED BY <1>1, <1>2, <1>3, <1>4, <1>5, <1>6, <1>7, <1>8, <1>9, <1>10, <1>11, <1>12, <1>13,
    <1>14, <1>15, <1>16, <1>17, <1>18, <1>19, <1>20, <1>21, <1>22, <1>23, <1>24, <1>25,
    <1>26, <1>27, <1>28, <1>29 DEF ScheduleNext

(* Scheduler::replace and mergeBackgroundStatus never set a last run back,
   however late and in whatever order the lists arrive. *)
THEOREM ProgressKept == ScheduleSpec => ProgressStays
<1>1. ScheduleInv /\ [ScheduleNext]_scheduleVars =>
        [\A a \in Automations : /\ dlast'[a] >= dlast[a]
                                /\ Open' => wlast'[a] >= wlast[a]]_scheduleVars
  BY ProgressStep DEF ScheduleInv
<1> QED BY <1>1, ScheduleInvariant, PTL DEF ScheduleSpec, ProgressStays
=============================================================================
