------------------------ MODULE DesktopSessionsProofs ------------------------
(***************************************************************************)
(* Proofs about DesktopSessions, for any number of calls, caps and         *)
(* reloads.  An engine that is not reaped belongs to a command or to a     *)
(* worker that keeps its permits (Lives, Permitted) and that the drain of  *)
(* stop_all finds (Seen); a record that is taken out leaves one actor who  *)
(* tells of it (Registered, Told); and a row stands for a session, or for  *)
(* an end that is being told or is on its way to the window (Heard, Shown).*)
(***************************************************************************)
EXTENDS DesktopSessions, FiniteSetTheorems, TLAPS

Permits == {"shared", "capped", "reserved", "starting", "certifying", "unknown", "dialog",
            "approved", "restarting", "dropping", "started"}
Early == {"no", "asked", "looked"} \cup Permits
Late == {"committed", "storing", "unstored", "connected"}
Starts == {"starting", "certifying", "restarting", "dropping", "started"}
Reads == {"reading", "exiting", "killing"}

\* A session has a worker from its commit on; its engine belongs to one of the two.
Lives ==
  \A c \in Calls :
    /\ cmd[c] \in Permits \cup {"looked"} => HasEngine(c)
    /\ cmd[c] \in Early => worker[c] = "none"
    /\ cmd[c] \in Late => worker[c] # "none"
    /\ c \in Unreaped => HasEngine(c) /\ (cmd[c] \in Starts \/ worker[c] \in Reads)

\* Who keeps an engine, or may still start one, keeps its permits.
Permitted ==
  \A c \in Calls :
    /\ HasEngine(c) /\ (cmd[c] \in Permits \/ worker[c] \notin {"none", "done"}) => c \in slots
    /\ kind[c] = "vnc" /\ (cmd[c] \in Permits \ {"shared"} \/ worker[c] \notin {"none", "done"})
         => c \in vncSlots

\* Whoever keeps an engine, or may still start one, is in a table its registry's drain
\* goes over, or was in one when it did.
Reserved == Permits \ {"shared", "capped"}
SeenAt(c) ==
  HasEngine(c) /\ (cmd[c] \in Reserved \/ worker[c] \in Reads) =>
    /\ ~Sealed(c) => c \in pending \cup sessions \cup closing
    /\ Sealed(c) => c \in stop \cup signals
Seen == \A c \in Calls : SeenAt(c)

\* The two pools.
Capped == Cardinality(slots) <= inst.shared /\ Cardinality(vncSlots) <= inst.vnc

\* Where the disconnect of c by w stands, in the map of disconnects f.
At(f, c, w) == f[<<c, w>>]

\* A session is listed while it is read; a call without a worker has left no trace.
RegisteredAt(c) ==
  /\ c \in sessions => worker[c] \in Reads \cup {"finishing"}
  /\ kind[c] = "ssh" /\ worker[c] \in Reads \cup {"finishing"} => c \in sessions
  /\ input[c] # "no" => HasEngine(c)
  /\ worker[c] = "none" =>
       /\ emitted[c] = 0 /\ rows[c] = 0 /\ c \notin listed
       /\ input[c] = "no" /\ At(disc, c, "window") = "no" /\ At(disc, c, "command") = "no"

\* The four who may tell of an end: two disconnects, an input and the worker.
Disconnects(c, w) == At(disc, c, w) \in {"writing", "telling"}
Misses(c) == input[c] \in {"removed", "telling"}
Reports(c) == worker[c] = "telling"
Owed(c) == Disconnects(c, "window") \/ Disconnects(c, "command") \/ Misses(c) \/ Reports(c)

\* One of them at most, and only when the record is out and nobody has told yet.
ToldAt(c) ==
  /\ emitted[c] \in {0, 1}
  /\ c \in sessions => emitted[c] = 0 /\ ~Owed(c)
  /\ emitted[c] = 1 => ~Owed(c)
  /\ Disconnects(c, "window") => ~Disconnects(c, "command") /\ ~Misses(c) /\ ~Reports(c)
  /\ Disconnects(c, "command") => ~Misses(c) /\ ~Reports(c)
  /\ Misses(c) => ~Reports(c)
  /\ worker[c] # "none" /\ ~Sealed(c) => c \in sessions \/ emitted[c] = 1 \/ Owed(c)

\* What the window saw of the end of a session, and what it still may see.
HeardAt(c) ==
  /\ c \in events \cup closedSeen \cup observed => emitted[c] = 1
  /\ attempt[c] # "settled" => rows[c] \in {0, 1}
  /\ HasEngine(c) =>
       /\ At(disc, c, "window") \in {"writing", "telling", "done"} => c \notin sessions
       /\ At(disc, c, "command") \in {"writing", "telling", "done"} => c \notin sessions
       /\ cmd[c] = "failed" => c \notin sessions
       /\ hydration[kind[c]] = "off" => attempt[c] # "asked" /\ rows[c] = 0
       /\ hydration[kind[c]] \in {"off", "listening"} => c \notin listed
       /\ hydration[kind[c]] = "done" => c \notin closedSeen \cup listed
       /\ attempt[c] = "no" => cmd[c] = "no"
       /\ attempt[c] = "settled" => cmd[c] \in {"connected", "failed"}

\* A row, or what may become one, stands for a session or for an end under way.
Behind(c) == c \in sessions \/ c \in events \/ Owed(c)
ShownAt(c) ==
  /\ rows[c] \in {0, 1}
  /\ ~Sealed(c) =>
       /\ rows[c] > 0 => Behind(c)
       /\ attempt[c] = "asked" /\ worker[c] # "none" /\ c \notin observed => Behind(c)
       /\ c \in listed \ closedSeen => Behind(c)
  /\ c \in sessions /\ attempt[c] = "settled" =>
       /\ hydration[kind[c]] = "answered" => rows[c] = 1 \/ c \in listed
       /\ hydration[kind[c]] = "done" => rows[c] = 1

Registered == \A c \in Calls : RegisteredAt(c)
Told == \A c \in Calls : ToldAt(c)
Heard == \A c \in Calls : HeardAt(c)
Shown == \A c \in Calls : HasEngine(c) => ShownAt(c)

IInv == TypeOK /\ Lives /\ Permitted /\ Capped /\ Seen /\ Registered /\ Told /\ Heard /\ Shown

-------------------------------------------------------------------------------
LEMMA Cases ==
  Next =>  \/ \E c \in Calls :
                \/ Refuse(c) \/ Look(c) \/ TakeShared(c) \/ TakeVnc(c) \/ Reserve(c)
                \/ SpawnFirst(c) \/ StartFails(c) \/ EngineConnects(c) \/ CertificateUnknown(c) \/ DropStart(c)
                \/ ReapRefused(c) \/ OpenDialog(c) \/ AnswerDialog(c) \/ SpawnApproved(c) \/ StopApproved(c)
                \/ Commit(c) \/ OpenShell(c) \/ Store(c) \/ AnswerUnstored(c) \/ EngineExits(c)
                \/ WorkerReads(c) \/ WorkerKills(c) \/ WorkerReaps(c) \/ PumpEnds(c) \/ Finish(c)
                \/ WorkerTells(c) \/ WorkerEnds(c) \/ Watchdog(c) \/ BeginInput(c) \/ InputFails(c)
                \/ InputStops(c) \/ InputTells(c) \/ SendStop(c) \/ Connect(c) \/ Answer(c)
                \/ HearClosed(c) \/ Disconnect(c) \/ DisconnectReturns(c)
           \/ \E c \in Calls, to \in {"connected", "storing"} : Remember(c, to)
           \/ \E d \in Calls \X Closers :
                \/ BeginClose(d) \/ WriteClose(d) \/ TellClose(d) \/ QueueClose(d)
           \/ \E k \in Protocols : Listen(k) \/ AnswerList(k) \/ Hydrate(k)
           \/ StopAll \/ Reload
BY DEF Next, Step, Choice, CommandStep, WorkerStep, CloseStep, WindowStep, HydrationStep,
      DyingExits

\* The instance of a behaviour never changes.
LEMMA Fixed ==
  ASSUME TypeOK, [Next]_vars
  PROVE  /\ inst' = inst /\ kind' = kind /\ kind \in [Calls -> Protocols]
         /\ inst.shared \in Nat /\ inst.vnc \in Nat /\ inst.reloads \in Nat
<1>1. inst \in Setting
  BY DesktopSessionsAssumption DEF TypeOK
<1>2. inst' = inst
  <2>1. ASSUME NEW c \in Calls, Refuse(c)  PROVE inst' = inst
    BY <2>1 DEF Refuse
  <2>2. ASSUME NEW c \in Calls, Look(c)  PROVE inst' = inst
    BY <2>2 DEF Look
  <2>3. ASSUME NEW c \in Calls, TakeShared(c)  PROVE inst' = inst
    BY <2>3 DEF TakeShared
  <2>4. ASSUME NEW c \in Calls, TakeVnc(c)  PROVE inst' = inst
    BY <2>4 DEF TakeVnc
  <2>5. ASSUME NEW c \in Calls, Reserve(c)  PROVE inst' = inst
    BY <2>5 DEF Reserve
  <2>6. ASSUME NEW c \in Calls, SpawnFirst(c)  PROVE inst' = inst
    BY <2>6 DEF SpawnFirst, Spawn
  <2>7. ASSUME NEW c \in Calls, StartFails(c)  PROVE inst' = inst
    BY <2>7 DEF StartFails
  <2>8. ASSUME NEW c \in Calls, EngineConnects(c)  PROVE inst' = inst
    BY <2>8 DEF EngineConnects
  <2>9. ASSUME NEW c \in Calls, CertificateUnknown(c)  PROVE inst' = inst
    BY <2>9 DEF CertificateUnknown
  <2>10. ASSUME NEW c \in Calls, DropStart(c)  PROVE inst' = inst
    BY <2>10 DEF DropStart
  <2>11. ASSUME NEW c \in Calls, ReapRefused(c)  PROVE inst' = inst
    BY <2>11 DEF ReapRefused
  <2>12. ASSUME NEW c \in Calls, OpenDialog(c)  PROVE inst' = inst
    BY <2>12 DEF OpenDialog
  <2>13. ASSUME NEW c \in Calls, AnswerDialog(c)  PROVE inst' = inst
    BY <2>13 DEF AnswerDialog
  <2>14. ASSUME NEW c \in Calls, SpawnApproved(c)  PROVE inst' = inst
    BY <2>14 DEF SpawnApproved, Spawn
  <2>15. ASSUME NEW c \in Calls, StopApproved(c)  PROVE inst' = inst
    BY <2>15 DEF StopApproved
  <2>16. ASSUME NEW c \in Calls, Commit(c)  PROVE inst' = inst
    BY <2>16 DEF Commit
  <2>17. ASSUME NEW c \in Calls, OpenShell(c)  PROVE inst' = inst
    BY <2>17 DEF OpenShell
  <2>18. ASSUME NEW c \in Calls, NEW to \in {"connected", "storing"}, Remember(c,
                to)  PROVE inst' = inst
    BY <2>18 DEF Remember
  <2>19. ASSUME NEW c \in Calls, Store(c)  PROVE inst' = inst
    BY <2>19 DEF Store
  <2>20. ASSUME NEW c \in Calls, AnswerUnstored(c)  PROVE inst' = inst
    BY <2>20 DEF AnswerUnstored
  <2>21. ASSUME NEW c \in Calls, EngineExits(c)  PROVE inst' = inst
    BY <2>21 DEF EngineExits
  <2>22. ASSUME NEW c \in Calls, WorkerReads(c)  PROVE inst' = inst
    BY <2>22 DEF WorkerReads
  <2>23. ASSUME NEW c \in Calls, WorkerKills(c)  PROVE inst' = inst
    BY <2>23 DEF WorkerKills
  <2>24. ASSUME NEW c \in Calls, WorkerReaps(c)  PROVE inst' = inst
    BY <2>24 DEF WorkerReaps
  <2>25. ASSUME NEW c \in Calls, PumpEnds(c)  PROVE inst' = inst
    BY <2>25 DEF PumpEnds
  <2>26. ASSUME NEW c \in Calls, Finish(c)  PROVE inst' = inst
    BY <2>26 DEF Finish
  <2>27. ASSUME NEW c \in Calls, WorkerTells(c)  PROVE inst' = inst
    BY <2>27 DEF WorkerTells
  <2>28. ASSUME NEW c \in Calls, WorkerEnds(c)  PROVE inst' = inst
    BY <2>28 DEF WorkerEnds
  <2>29. ASSUME NEW c \in Calls, Watchdog(c)  PROVE inst' = inst
    BY <2>29 DEF Watchdog
  <2>30. ASSUME NEW c \in Calls, BeginInput(c)  PROVE inst' = inst
    BY <2>30 DEF BeginInput
  <2>31. ASSUME NEW c \in Calls, InputFails(c)  PROVE inst' = inst
    BY <2>31 DEF InputFails
  <2>32. ASSUME NEW c \in Calls, InputStops(c)  PROVE inst' = inst
    BY <2>32 DEF InputStops
  <2>33. ASSUME NEW c \in Calls, InputTells(c)  PROVE inst' = inst
    BY <2>33 DEF InputTells
  <2>34. ASSUME NEW c \in Calls, SendStop(c)  PROVE inst' = inst
    BY <2>34 DEF SendStop
  <2>35. ASSUME NEW c \in Calls, Connect(c)  PROVE inst' = inst
    BY <2>35 DEF Connect
  <2>36. ASSUME NEW c \in Calls, Answer(c)  PROVE inst' = inst
    BY <2>36 DEF Answer
  <2>37. ASSUME NEW c \in Calls, HearClosed(c)  PROVE inst' = inst
    BY <2>37 DEF HearClosed
  <2>38. ASSUME NEW c \in Calls, Disconnect(c)  PROVE inst' = inst
    BY <2>38 DEF Disconnect
  <2>39. ASSUME NEW c \in Calls, DisconnectReturns(c)  PROVE inst' = inst
    BY <2>39 DEF DisconnectReturns
  <2>40. ASSUME NEW d \in Calls \X Closers, BeginClose(d)  PROVE inst' = inst
    BY <2>40 DEF BeginClose
  <2>41. ASSUME NEW d \in Calls \X Closers, WriteClose(d)  PROVE inst' = inst
    BY <2>41 DEF WriteClose
  <2>42. ASSUME NEW d \in Calls \X Closers, TellClose(d)  PROVE inst' = inst
    BY <2>42 DEF TellClose
  <2>43. ASSUME NEW d \in Calls \X Closers, QueueClose(d)  PROVE inst' = inst
    BY <2>43 DEF QueueClose
  <2>44. ASSUME NEW k \in Protocols, Listen(k)  PROVE inst' = inst
    BY <2>44 DEF Listen
  <2>45. ASSUME NEW k \in Protocols, AnswerList(k)  PROVE inst' = inst
    BY <2>45 DEF AnswerList
  <2>46. ASSUME NEW k \in Protocols, Hydrate(k)  PROVE inst' = inst
    BY <2>46 DEF Hydrate
  <2>47. CASE StopAll
    BY <2>47 DEF StopAll
  <2>48. CASE Reload
    BY <2>48 DEF Reload
  <2>49. CASE UNCHANGED vars
    BY <2>49 DEF vars
  <2> QED BY <2>1, <2>2, <2>3, <2>4, <2>5, <2>6, <2>7, <2>8, <2>9, <2>10, <2>11, <2>12, <2>13,
      <2>14, <2>15, <2>16, <2>17, <2>18, <2>19, <2>20, <2>21, <2>22, <2>23, <2>24, <2>25,
      <2>26, <2>27, <2>28, <2>29, <2>30, <2>31, <2>32, <2>33, <2>34, <2>35, <2>36, <2>37,
      <2>38, <2>39, <2>40, <2>41, <2>42, <2>43, <2>44, <2>45, <2>46, <2>47, <2>48, <2>49, Cases
<1> QED BY <1>1, <1>2 DEF Setting, kind


LEMMA Shrinks ==
  ASSUME TypeOK, Capped
  PROVE  /\ \A S \in SUBSET slots : Cardinality(S) <= inst.shared
         /\ \A S \in SUBSET vncSlots : Cardinality(S) <= inst.vnc
<1>1. slots \subseteq Calls /\ vncSlots \subseteq Calls /\ IsFiniteSet(Calls)
  BY DesktopSessionsAssumption DEF TypeOK
<1>2. IsFiniteSet(slots) /\ IsFiniteSet(vncSlots)
  BY <1>1, FS_Subset
<1>3. inst.shared \in Nat /\ inst.vnc \in Nat
  BY DesktopSessionsAssumption DEF TypeOK, Setting
<1>4. ASSUME NEW S \in SUBSET slots  PROVE Cardinality(S) <= inst.shared
  <2>1. Cardinality(S) <= Cardinality(slots)  BY <1>2, FS_Subset
  <2>2. Cardinality(S) \in Nat /\ Cardinality(slots) \in Nat  BY <1>2, FS_Subset,
      FS_CardinalityType
  <2> QED BY <1>3, <2>1, <2>2 DEF Capped
<1>5. ASSUME NEW S \in SUBSET vncSlots  PROVE Cardinality(S) <= inst.vnc
  <2>1. Cardinality(S) <= Cardinality(vncSlots)  BY <1>2, FS_Subset
  <2>2. Cardinality(S) \in Nat /\ Cardinality(vncSlots) \in Nat  BY <1>2, FS_Subset,
      FS_CardinalityType
  <2> QED BY <1>3, <2>1, <2>2 DEF Capped
<1> QED BY <1>4, <1>5

LEMMA Grows ==
  ASSUME NEW S \in SUBSET Calls, NEW c \in Calls, NEW n \in Nat, Cardinality(S) < n
  PROVE  Cardinality(S \cup {c}) <= n
<1>1. IsFiniteSet(S)
  BY DesktopSessionsAssumption, FS_Subset
<1>2. Cardinality(S) \in Nat
  BY <1>1, FS_CardinalityType
<1>3. CASE c \in S
  <2>1. S \cup {c} = S  BY <1>3
  <2> QED BY <1>2, <2>1
<1>4. CASE c \notin S
  <2>1. Cardinality(S \cup {c}) = Cardinality(S) + 1  BY <1>1, <1>4, FS_AddElement
  <2> QED BY <1>2, <2>1
<1> QED BY <1>3, <1>4



\* Who moves a disconnect moves this one, and no other.
LEMMA Moves ==
  ASSUME TypeOK, NEW d \in Calls \X Closers, NEW from, NEW to, DiscMoves(d, from, to)
  PROVE  /\ d[1] \in Calls /\ d[2] \in Closers /\ At(disc, d[1], d[2]) = from
         /\ \A c \in Calls, w \in Closers :
              At(disc', c, w) = IF c = d[1] /\ w = d[2] THEN to ELSE At(disc, c, w)
<1>1. PICK c \in Calls, w \in Closers : d = <<c, w>>
  OBVIOUS
<1>2. d[1] = c /\ d[2] = w
  BY <1>1
<1>3. disc' = [disc EXCEPT ![<<c, w>>] = to] /\ disc[<<c, w>>] = from
  BY <1>1 DEF DiscMoves
<1>4. ASSUME NEW x \in Calls, NEW v \in Closers
      PROVE  disc'[<<x, v>>] = IF x = c /\ v = w THEN to ELSE disc[<<x, v>>]
  <2>1. <<x, v>> \in DOMAIN disc
    BY DEF TypeOK
  <2>2. <<x, v>> = <<c, w>> <=> x = c /\ v = w
    OBVIOUS
  <2> QED BY <1>3, <2>1, <2>2
<1> QED BY <1>2, <1>3, <1>4 DEF At


CmdSteps == {"no", "asked", "looked", "shared", "capped", "reserved", "starting", "certifying",
             "unknown", "dialog", "approved", "restarting", "dropping", "started", "committed",
             "storing", "unstored", "connected", "failed"}


LEMMA TypeStep ==
  ASSUME TypeOK, Told, Heard, [Next]_vars  PROVE TypeOK'
<1>f. /\ inst' = inst /\ kind' = kind /\ kind \in [Calls -> Protocols]
      /\ inst.shared \in Nat /\ inst.vnc \in Nat
  BY Fixed
<1>e. \A c \in Calls : emitted[c] \in {0, 1} /\ (Owed(c) => emitted[c] = 0)
  BY DEF Told, ToldAt
<1>r. \A c \in Calls : attempt[c] # "settled" => rows[c] \in {0, 1}
  BY DEF Heard, HeardAt
<1>w. \A d \in Calls \X Closers : disc[d] \in {"writing", "telling"} => Owed(d[1])
  BY DEF Owed, Disconnects, At, Closers
<1>n. inst.reloads \in Nat
  BY Fixed
<1>m. cmd \in [Calls -> CmdSteps]
  BY DEF TypeOK, CmdSteps
<1> USE <1>f DEF TypeOK, Closers, vars, permits, tables, ending, process, stops, closes, wire,
    window
<1>1. ASSUME NEW c \in Calls, Refuse(c)  PROVE TypeOK'
  BY <1>1 DEF Refuse, Advance
<1>2. ASSUME NEW c \in Calls, Look(c)  PROVE TypeOK'
  BY <1>2 DEF Look, Advance
<1>3. ASSUME NEW c \in Calls, TakeShared(c)  PROVE TypeOK'
  BY <1>3 DEF TakeShared, Advance
<1>4. ASSUME NEW c \in Calls, TakeVnc(c)  PROVE TypeOK'
  BY <1>4 DEF TakeVnc, Advance
<1>5. ASSUME NEW c \in Calls, Reserve(c)  PROVE TypeOK'
  BY <1>5 DEF Reserve, Advance, Drop
<1>6. ASSUME NEW c \in Calls, SpawnFirst(c)  PROVE TypeOK'
  BY <1>6 DEF SpawnFirst, Spawn, Advance, Drop
<1>7. ASSUME NEW c \in Calls, StartFails(c)  PROVE TypeOK'
  BY <1>7 DEF StartFails, Advance, Kill
<1>8. ASSUME NEW c \in Calls, EngineConnects(c)  PROVE TypeOK'
  BY <1>8 DEF EngineConnects, Advance
<1>9. ASSUME NEW c \in Calls, CertificateUnknown(c)  PROVE TypeOK'
  BY <1>9 DEF CertificateUnknown, Advance, Kill
<1>10. ASSUME NEW c \in Calls, DropStart(c)  PROVE TypeOK'
  BY <1>10 DEF DropStart, Advance, Reaped, Drop
<1>11. ASSUME NEW c \in Calls, ReapRefused(c)  PROVE TypeOK'
  BY <1>11 DEF ReapRefused, Advance, Reaped
<1>12. ASSUME NEW c \in Calls, OpenDialog(c)  PROVE TypeOK'
  BY <1>12 DEF OpenDialog, Advance, Drop
<1>13. ASSUME NEW c \in Calls, AnswerDialog(c)  PROVE TypeOK'
  BY <1>13 DEF AnswerDialog, Advance, Drop
<1>14. ASSUME NEW c \in Calls, SpawnApproved(c)  PROVE TypeOK'
  BY <1>14 DEF SpawnApproved, Spawn, Advance, Drop
<1>15. ASSUME NEW c \in Calls, StopApproved(c)  PROVE TypeOK'
  BY <1>15 DEF StopApproved, Advance, Drop
<1>16. ASSUME NEW c \in Calls, Commit(c)  PROVE TypeOK'
  BY <1>16 DEF Commit, Advance, WorkerMoves, Kill
<1>17. ASSUME NEW c \in Calls, OpenShell(c)  PROVE TypeOK'
  BY <1>17 DEF OpenShell, Advance, WorkerMoves
<1>18. ASSUME NEW c \in Calls, NEW to \in {"connected", "storing"}, Remember(c,
              to)  PROVE TypeOK'
  BY <1>18 DEF Remember, Advance
<1>19. ASSUME NEW c \in Calls, Store(c)  PROVE TypeOK'
  <2>1. cmd' = [cmd EXCEPT ![c] = "connected"] \/ cmd' = [cmd EXCEPT ![c] = "unstored"]
    BY <1>19 DEF Store, Advance
  <2>2. disc' = disc \/ disc' = [disc EXCEPT ![<<c, "command">>] = "asked"]
    BY <1>19 DEF Store, DiscMoves
  <2>3. cmd' \in [Calls -> CmdSteps]
    BY <2>1, <1>m DEF CmdSteps
  <2>4. disc' \in [Calls \X Closers -> {"no", "asked", "writing", "telling", "done"}]
    BY <2>2
  <2> QED BY <1>19, <2>3, <2>4 DEF Store, CmdSteps
<1>20. ASSUME NEW c \in Calls, AnswerUnstored(c)  PROVE TypeOK'
  BY <1>20 DEF AnswerUnstored, Advance
<1>21. ASSUME NEW c \in Calls, EngineExits(c)  PROVE TypeOK'
  BY <1>21 DEF EngineExits
<1>22. ASSUME NEW c \in Calls, WorkerReads(c)  PROVE TypeOK'
  BY <1>22 DEF WorkerReads, WorkerMoves
<1>23. ASSUME NEW c \in Calls, WorkerKills(c)  PROVE TypeOK'
  BY <1>23 DEF WorkerKills, WorkerMoves, Kill
<1>24. ASSUME NEW c \in Calls, WorkerReaps(c)  PROVE TypeOK'
  BY <1>24 DEF WorkerReaps, WorkerMoves, Reaped
<1>25. ASSUME NEW c \in Calls, PumpEnds(c)  PROVE TypeOK'
  BY <1>25 DEF PumpEnds, WorkerMoves
<1>26. ASSUME NEW c \in Calls, Finish(c)  PROVE TypeOK'
  BY <1>26 DEF Finish, WorkerMoves
<1>27. ASSUME NEW c \in Calls, WorkerTells(c)  PROVE TypeOK'
  <2>1. c \in Calls /\ Owed(c) /\ Emit(c)
    BY <1>27 DEF WorkerTells, WorkerMoves, Owed, Reports
  <2>2. emitted' = [emitted EXCEPT ![c] = emitted[c] + 1] /\ emitted[c] = 0
    BY <2>1, <1>e DEF Emit
  <2>3. emitted' \in [Calls -> 0..2]
    BY <2>1, <2>2
  <2>4. events' \subseteq Calls
    BY <2>1 DEF Emit
  <2> QED BY <1>27, <2>3, <2>4 DEF WorkerTells, WorkerMoves
<1>28. ASSUME NEW c \in Calls, WorkerEnds(c)  PROVE TypeOK'
  BY <1>28 DEF WorkerEnds, WorkerMoves
<1>29. ASSUME NEW c \in Calls, Watchdog(c)  PROVE TypeOK'
  BY <1>29 DEF Watchdog
<1>30. ASSUME NEW c \in Calls, BeginInput(c)  PROVE TypeOK'
  BY <1>30 DEF BeginInput, InputMoves
<1>31. ASSUME NEW c \in Calls, InputFails(c)  PROVE TypeOK'
  BY <1>31 DEF InputFails, InputMoves
<1>32. ASSUME NEW c \in Calls, InputStops(c)  PROVE TypeOK'
  BY <1>32 DEF InputStops, InputMoves
<1>33. ASSUME NEW c \in Calls, InputTells(c)  PROVE TypeOK'
  <2>1. c \in Calls /\ Owed(c) /\ Emit(c)
    BY <1>33 DEF InputTells, InputMoves, Owed, Misses
  <2>2. emitted' = [emitted EXCEPT ![c] = emitted[c] + 1] /\ emitted[c] = 0
    BY <2>1, <1>e DEF Emit
  <2>3. emitted' \in [Calls -> 0..2]
    BY <2>1, <2>2
  <2>4. events' \subseteq Calls
    BY <2>1 DEF Emit
  <2> QED BY <1>33, <2>3, <2>4 DEF InputTells, InputMoves
<1>34. ASSUME NEW c \in Calls, SendStop(c)  PROVE TypeOK'
  BY <1>34 DEF SendStop
<1>35. ASSUME NEW c \in Calls, Connect(c)  PROVE TypeOK'
  BY <1>35 DEF Connect, Advance, Guarded
<1>36. ASSUME NEW c \in Calls, Answer(c)  PROVE TypeOK'
  <2>1. rows' \in [Calls -> 0..2]
    <3>1. rows[c] \in {0, 1}
      BY <1>36, <1>r DEF Answer
    <3>2. PICK n \in 0..2 : rows' = [rows EXCEPT ![c] = n]
      <4>1. CASE cmd[c] # "connected" \/ (Guarded(c) /\ c \in observed)
        <5>1. rows' = rows /\ rows = [rows EXCEPT ![c] = rows[c]]
          BY <1>36, <4>1 DEF Answer
        <5> QED BY <3>1, <5>1
      <4>2. CASE ~(cmd[c] # "connected" \/ (Guarded(c) /\ c \in observed))
        <5>1. rows' = [rows EXCEPT ![c] = IF Guarded(c) THEN 1 ELSE rows[c] + 1]
          BY <1>36, <4>2 DEF Answer
        <5>2. 1 \in 0..2 /\ rows[c] + 1 \in 0..2
          BY <3>1
        <5> QED BY <5>1, <5>2
      <4> QED BY <4>1, <4>2
    <3>3. rows \in [Calls -> 0..2]
      OBVIOUS
    <3> HIDE DEF TypeOK
    <3> QED BY <3>2, <3>3
  <2> QED BY <1>36, <2>1 DEF Answer
<1>37. ASSUME NEW c \in Calls, HearClosed(c)  PROVE TypeOK'
  BY <1>37 DEF HearClosed
<1>38. ASSUME NEW c \in Calls, Disconnect(c)  PROVE TypeOK'
  BY <1>38 DEF Disconnect, DiscMoves
<1>39. ASSUME NEW c \in Calls, DisconnectReturns(c)  PROVE TypeOK'
  BY <1>39 DEF DisconnectReturns
<1>40. ASSUME NEW d \in Calls \X Closers, BeginClose(d)  PROVE TypeOK'
  BY <1>40 DEF BeginClose, DiscMoves
<1>41. ASSUME NEW d \in Calls \X Closers, WriteClose(d)  PROVE TypeOK'
  BY <1>41 DEF WriteClose, DiscMoves
<1>42. ASSUME NEW d \in Calls \X Closers, TellClose(d)  PROVE TypeOK'
  <2>1. d[1] \in Calls /\ Owed(d[1]) /\ Emit(d[1])
    BY <1>42, <1>w DEF TellClose, DiscMoves
  <2>2. emitted' = [emitted EXCEPT ![d[1]] = emitted[d[1]] + 1] /\ emitted[d[1]] = 0
    BY <2>1, <1>e DEF Emit
  <2>3. emitted' \in [Calls -> 0..2]
    BY <2>1, <2>2
  <2>4. events' \subseteq Calls
    BY <2>1 DEF Emit
  <2> QED BY <1>42, <2>3, <2>4 DEF TellClose, DiscMoves
<1>43. ASSUME NEW d \in Calls \X Closers, QueueClose(d)  PROVE TypeOK'
  BY <1>43 DEF QueueClose, DiscMoves
<1>44. ASSUME NEW k \in Protocols, Listen(k)  PROVE TypeOK'
  BY <1>44 DEF Listen, HydrationMoves
<1>45. ASSUME NEW k \in Protocols, AnswerList(k)  PROVE TypeOK'
  BY <1>45 DEF AnswerList, HydrationMoves, Of
<1>46. ASSUME NEW k \in Protocols, Hydrate(k)  PROVE TypeOK'
  BY <1>46 DEF Hydrate, HydrationMoves, Of
<1>47. CASE StopAll
  <2>1. signals' \subseteq Calls /\ pending' \subseteq Calls /\ sessions' \subseteq Calls /\ closing' \subseteq Calls
    BY <1>47 DEF StopAll, Drain, Of
  <2>2. sealed' \subseteq Engines /\ exit' \in {"no", "rdp", "vnc", "gone"}
    BY <1>47 DEF StopAll, Drain, Engines
  <2> QED BY <1>47, <2>1, <2>2 DEF StopAll
<1>48. CASE Reload
  <2>1. rows' \in [Calls -> 0..2] /\ hydration' \in [Protocols -> {"off", "listening",
      "answered", "done"}]
    BY <1>48 DEF Reload
  <2>2. attempt' \in [Calls -> {"no", "asked", "settled", "gone"}]
    BY <1>48 DEF Reload
  <2>3. reloads' \in 0..inst'.reloads
    <3>1. reloads \in Nat /\ inst.reloads \in Nat /\ reloads < inst.reloads /\ reloads' = reloads + 1
      BY <1>48, <1>n DEF Reload
    <3> QED BY <3>1, <1>f
  <2> QED BY <1>48, <2>1, <2>2, <2>3 DEF Reload
<1>49. CASE UNCHANGED vars
  BY <1>49
<1> QED BY <1>1, <1>2, <1>3, <1>4, <1>5, <1>6, <1>7, <1>8, <1>9, <1>10, <1>11, <1>12, <1>13,
    <1>14, <1>15, <1>16, <1>17, <1>18, <1>19, <1>20, <1>21, <1>22, <1>23, <1>24, <1>25, <1>26,
    <1>27, <1>28, <1>29, <1>30, <1>31, <1>32, <1>33, <1>34, <1>35, <1>36, <1>37, <1>38, <1>39,
    <1>40, <1>41, <1>42, <1>43, <1>44, <1>45, <1>46, <1>47, <1>48, <1>49, Cases



LEMMA LivesStep ==
  ASSUME TypeOK, Lives, [Next]_vars  PROVE Lives'
<1>f. /\ inst' = inst /\ kind' = kind /\ kind \in [Calls -> Protocols]
      /\ inst.shared \in Nat /\ inst.vnc \in Nat
  BY Fixed
<1>t. DOMAIN cmd = Calls /\ DOMAIN worker = Calls /\ DOMAIN engine = Calls
  BY DEF TypeOK
<1> USE <1>f, <1>t DEF Lives, Unreaped, HasEngine, Engines, Early, Late, Permits, Starts,
    Reads, vars, permits, tables, ending, process, stops, closes, wire, window
<1>1. ASSUME NEW c \in Calls, Refuse(c)  PROVE Lives'
  BY <1>1 DEF Refuse, Advance
<1>2. ASSUME NEW c \in Calls, Look(c)  PROVE Lives'
  BY <1>2 DEF Look, Advance
<1>3. ASSUME NEW c \in Calls, TakeShared(c)  PROVE Lives'
  BY <1>3 DEF TakeShared, Advance
<1>4. ASSUME NEW c \in Calls, TakeVnc(c)  PROVE Lives'
  BY <1>4 DEF TakeVnc, Advance
<1>5. ASSUME NEW c \in Calls, Reserve(c)  PROVE Lives'
  BY <1>5 DEF Reserve, Advance, Drop
<1>6. ASSUME NEW c \in Calls, SpawnFirst(c)  PROVE Lives'
  BY <1>6 DEF SpawnFirst, Spawn, Advance, Drop
<1>7. ASSUME NEW c \in Calls, StartFails(c)  PROVE Lives'
  BY <1>7 DEF StartFails, Advance, Kill
<1>8. ASSUME NEW c \in Calls, EngineConnects(c)  PROVE Lives'
  BY <1>8 DEF EngineConnects, Advance
<1>9. ASSUME NEW c \in Calls, CertificateUnknown(c)  PROVE Lives'
  BY <1>9 DEF CertificateUnknown, Advance, Kill
<1>10. ASSUME NEW c \in Calls, DropStart(c)  PROVE Lives'
  BY <1>10 DEF DropStart, Advance, Reaped, Drop
<1>11. ASSUME NEW c \in Calls, ReapRefused(c)  PROVE Lives'
  BY <1>11 DEF ReapRefused, Advance, Reaped
<1>12. ASSUME NEW c \in Calls, OpenDialog(c)  PROVE Lives'
  BY <1>12 DEF OpenDialog, Advance, Drop
<1>13. ASSUME NEW c \in Calls, AnswerDialog(c)  PROVE Lives'
  BY <1>13 DEF AnswerDialog, Advance, Drop
<1>14. ASSUME NEW c \in Calls, SpawnApproved(c)  PROVE Lives'
  BY <1>14 DEF SpawnApproved, Spawn, Advance, Drop
<1>15. ASSUME NEW c \in Calls, StopApproved(c)  PROVE Lives'
  BY <1>15 DEF StopApproved, Advance, Drop
<1>16. ASSUME NEW c \in Calls, Commit(c)  PROVE Lives'
  BY <1>16 DEF Commit, Advance, WorkerMoves, Kill
<1>17. ASSUME NEW c \in Calls, OpenShell(c)  PROVE Lives'
  BY <1>17 DEF OpenShell, Advance, WorkerMoves
<1>18. ASSUME NEW c \in Calls, NEW to \in {"connected", "storing"}, Remember(c,
              to)  PROVE Lives'
  BY <1>18 DEF Remember, Advance
<1>19. ASSUME NEW c \in Calls, Store(c)  PROVE Lives'
  BY <1>19 DEF Store, Advance, DiscMoves
<1>20. ASSUME NEW c \in Calls, AnswerUnstored(c)  PROVE Lives'
  BY <1>20 DEF AnswerUnstored, Advance
<1>21. ASSUME NEW c \in Calls, EngineExits(c)  PROVE Lives'
  BY <1>21 DEF EngineExits
<1>22. ASSUME NEW c \in Calls, WorkerReads(c)  PROVE Lives'
  BY <1>22 DEF WorkerReads, WorkerMoves
<1>23. ASSUME NEW c \in Calls, WorkerKills(c)  PROVE Lives'
  BY <1>23 DEF WorkerKills, WorkerMoves, Kill
<1>24. ASSUME NEW c \in Calls, WorkerReaps(c)  PROVE Lives'
  BY <1>24 DEF WorkerReaps, WorkerMoves, Reaped
<1>25. ASSUME NEW c \in Calls, PumpEnds(c)  PROVE Lives'
  BY <1>25 DEF PumpEnds, WorkerMoves
<1>26. ASSUME NEW c \in Calls, Finish(c)  PROVE Lives'
  BY <1>26 DEF Finish, WorkerMoves
<1>27. ASSUME NEW c \in Calls, WorkerTells(c)  PROVE Lives'
  BY <1>27 DEF WorkerTells, WorkerMoves, Emit
<1>28. ASSUME NEW c \in Calls, WorkerEnds(c)  PROVE Lives'
  BY <1>28 DEF WorkerEnds, WorkerMoves
<1>29. ASSUME NEW c \in Calls, Watchdog(c)  PROVE Lives'
  BY <1>29 DEF Watchdog
<1>30. ASSUME NEW c \in Calls, BeginInput(c)  PROVE Lives'
  BY <1>30 DEF BeginInput, InputMoves
<1>31. ASSUME NEW c \in Calls, InputFails(c)  PROVE Lives'
  BY <1>31 DEF InputFails, InputMoves
<1>32. ASSUME NEW c \in Calls, InputStops(c)  PROVE Lives'
  BY <1>32 DEF InputStops, InputMoves
<1>33. ASSUME NEW c \in Calls, InputTells(c)  PROVE Lives'
  BY <1>33 DEF InputTells, InputMoves, Emit
<1>34. ASSUME NEW c \in Calls, SendStop(c)  PROVE Lives'
  BY <1>34 DEF SendStop
<1>35. ASSUME NEW c \in Calls, Connect(c)  PROVE Lives'
  BY <1>35 DEF Connect, Advance, Guarded
<1>36. ASSUME NEW c \in Calls, Answer(c)  PROVE Lives'
  BY <1>36 DEF Answer, Guarded
<1>37. ASSUME NEW c \in Calls, HearClosed(c)  PROVE Lives'
  BY <1>37 DEF HearClosed
<1>38. ASSUME NEW c \in Calls, Disconnect(c)  PROVE Lives'
  BY <1>38 DEF Disconnect, DiscMoves
<1>39. ASSUME NEW c \in Calls, DisconnectReturns(c)  PROVE Lives'
  BY <1>39 DEF DisconnectReturns
<1>40. ASSUME NEW d \in Calls \X Closers, BeginClose(d)  PROVE Lives'
  BY <1>40 DEF BeginClose, DiscMoves
<1>41. ASSUME NEW d \in Calls \X Closers, WriteClose(d)  PROVE Lives'
  BY <1>41 DEF WriteClose, DiscMoves
<1>42. ASSUME NEW d \in Calls \X Closers, TellClose(d)  PROVE Lives'
  BY <1>42 DEF TellClose, DiscMoves, Emit
<1>43. ASSUME NEW d \in Calls \X Closers, QueueClose(d)  PROVE Lives'
  BY <1>43 DEF QueueClose, DiscMoves
<1>44. ASSUME NEW k \in Protocols, Listen(k)  PROVE Lives'
  BY <1>44 DEF Listen, HydrationMoves
<1>45. ASSUME NEW k \in Protocols, AnswerList(k)  PROVE Lives'
  BY <1>45 DEF AnswerList, HydrationMoves, Of
<1>46. ASSUME NEW k \in Protocols, Hydrate(k)  PROVE Lives'
  BY <1>46 DEF Hydrate, HydrationMoves, Of
<1>47. CASE StopAll
  BY <1>47 DEF StopAll, Drain, Of
<1>48. CASE Reload
  BY <1>48 DEF Reload
<1>49. CASE UNCHANGED vars
  BY <1>49
<1> QED BY <1>1, <1>2, <1>3, <1>4, <1>5, <1>6, <1>7, <1>8, <1>9, <1>10, <1>11, <1>12, <1>13,
    <1>14, <1>15, <1>16, <1>17, <1>18, <1>19, <1>20, <1>21, <1>22, <1>23, <1>24, <1>25, <1>26,
    <1>27, <1>28, <1>29, <1>30, <1>31, <1>32, <1>33, <1>34, <1>35, <1>36, <1>37, <1>38, <1>39,
    <1>40, <1>41, <1>42, <1>43, <1>44, <1>45, <1>46, <1>47, <1>48, <1>49, Cases



LEMMA SeenStep ==
  ASSUME TypeOK, Lives, NEW x \in Calls, SeenAt(x), [Next]_vars  PROVE SeenAt(x)'
<1>f. /\ inst' = inst /\ kind' = kind /\ kind \in [Calls -> Protocols]
      /\ inst.shared \in Nat /\ inst.vnc \in Nat
  BY Fixed
<1>t. DOMAIN cmd = Calls /\ DOMAIN worker = Calls /\ DOMAIN engine = Calls
  BY DEF TypeOK
<1> USE <1>f, <1>t DEF Lives, SeenAt, HasEngine, Sealed, Early, Permits, Reserved, Reads,
    vars, permits, tables, ending, process, stops, closes, wire, window
<1>1. ASSUME NEW c \in Calls, Refuse(c)  PROVE SeenAt(x)'
  BY <1>1 DEF Refuse, Advance
<1>2. ASSUME NEW c \in Calls, Look(c)  PROVE SeenAt(x)'
  BY <1>2 DEF Look, Advance
<1>3. ASSUME NEW c \in Calls, TakeShared(c)  PROVE SeenAt(x)'
  BY <1>3 DEF TakeShared, Advance
<1>4. ASSUME NEW c \in Calls, TakeVnc(c)  PROVE SeenAt(x)'
  BY <1>4 DEF TakeVnc, Advance
<1>5. ASSUME NEW c \in Calls, Reserve(c)  PROVE SeenAt(x)'
  BY <1>5 DEF Reserve, Advance, Drop
<1>6. ASSUME NEW c \in Calls, SpawnFirst(c)  PROVE SeenAt(x)'
  BY <1>6 DEF SpawnFirst, Spawn, Advance, Drop
<1>7. ASSUME NEW c \in Calls, StartFails(c)  PROVE SeenAt(x)'
  BY <1>7 DEF StartFails, Advance, Kill
<1>8. ASSUME NEW c \in Calls, EngineConnects(c)  PROVE SeenAt(x)'
  BY <1>8 DEF EngineConnects, Advance
<1>9. ASSUME NEW c \in Calls, CertificateUnknown(c)  PROVE SeenAt(x)'
  BY <1>9 DEF CertificateUnknown, Advance, Kill
<1>10. ASSUME NEW c \in Calls, DropStart(c)  PROVE SeenAt(x)'
  BY <1>10 DEF DropStart, Advance, Reaped, Drop
<1>11. ASSUME NEW c \in Calls, ReapRefused(c)  PROVE SeenAt(x)'
  BY <1>11 DEF ReapRefused, Advance, Reaped
<1>12. ASSUME NEW c \in Calls, OpenDialog(c)  PROVE SeenAt(x)'
  BY <1>12 DEF OpenDialog, Advance, Drop
<1>13. ASSUME NEW c \in Calls, AnswerDialog(c)  PROVE SeenAt(x)'
  BY <1>13 DEF AnswerDialog, Advance, Drop
<1>14. ASSUME NEW c \in Calls, SpawnApproved(c)  PROVE SeenAt(x)'
  BY <1>14 DEF SpawnApproved, Spawn, Advance, Drop
<1>15. ASSUME NEW c \in Calls, StopApproved(c)  PROVE SeenAt(x)'
  BY <1>15 DEF StopApproved, Advance, Drop
<1>16. ASSUME NEW c \in Calls, Commit(c)  PROVE SeenAt(x)'
  BY <1>16 DEF Commit, Advance, WorkerMoves, Kill
<1>17. ASSUME NEW c \in Calls, OpenShell(c)  PROVE SeenAt(x)'
  BY <1>17 DEF OpenShell, Advance, WorkerMoves, Engines
<1>18. ASSUME NEW c \in Calls, NEW to \in {"connected", "storing"}, Remember(c,
              to)  PROVE SeenAt(x)'
  BY <1>18 DEF Remember, Advance
<1>19. ASSUME NEW c \in Calls, Store(c)  PROVE SeenAt(x)'
  BY <1>19 DEF Store, Advance, DiscMoves
<1>20. ASSUME NEW c \in Calls, AnswerUnstored(c)  PROVE SeenAt(x)'
  BY <1>20 DEF AnswerUnstored, Advance
<1>21. ASSUME NEW c \in Calls, EngineExits(c)  PROVE SeenAt(x)'
  BY <1>21 DEF EngineExits
<1>22. ASSUME NEW c \in Calls, WorkerReads(c)  PROVE SeenAt(x)'
  BY <1>22 DEF WorkerReads, WorkerMoves
<1>23. ASSUME NEW c \in Calls, WorkerKills(c)  PROVE SeenAt(x)'
  BY <1>23 DEF WorkerKills, WorkerMoves, Kill
<1>24. ASSUME NEW c \in Calls, WorkerReaps(c)  PROVE SeenAt(x)'
  BY <1>24 DEF WorkerReaps, WorkerMoves, Reaped
<1>25. ASSUME NEW c \in Calls, PumpEnds(c)  PROVE SeenAt(x)'
  BY <1>25 DEF PumpEnds, WorkerMoves
<1>26. ASSUME NEW c \in Calls, Finish(c)  PROVE SeenAt(x)'
  BY <1>26 DEF Finish, WorkerMoves
<1>27. ASSUME NEW c \in Calls, WorkerTells(c)  PROVE SeenAt(x)'
  BY <1>27 DEF WorkerTells, WorkerMoves, Emit
<1>28. ASSUME NEW c \in Calls, WorkerEnds(c)  PROVE SeenAt(x)'
  BY <1>28 DEF WorkerEnds, WorkerMoves
<1>29. ASSUME NEW c \in Calls, Watchdog(c)  PROVE SeenAt(x)'
  BY <1>29 DEF Watchdog
<1>30. ASSUME NEW c \in Calls, BeginInput(c)  PROVE SeenAt(x)'
  BY <1>30 DEF BeginInput, InputMoves
<1>31. ASSUME NEW c \in Calls, InputFails(c)  PROVE SeenAt(x)'
  BY <1>31 DEF InputFails, InputMoves
<1>32. ASSUME NEW c \in Calls, InputStops(c)  PROVE SeenAt(x)'
  BY <1>32 DEF InputStops, InputMoves
<1>33. ASSUME NEW c \in Calls, InputTells(c)  PROVE SeenAt(x)'
  BY <1>33 DEF InputTells, InputMoves, Emit
<1>34. ASSUME NEW c \in Calls, SendStop(c)  PROVE SeenAt(x)'
  BY <1>34 DEF SendStop
<1>35. ASSUME NEW c \in Calls, Connect(c)  PROVE SeenAt(x)'
  BY <1>35 DEF Connect, Advance, Guarded
<1>36. ASSUME NEW c \in Calls, Answer(c)  PROVE SeenAt(x)'
  BY <1>36 DEF Answer, Guarded
<1>37. ASSUME NEW c \in Calls, HearClosed(c)  PROVE SeenAt(x)'
  BY <1>37 DEF HearClosed
<1>38. ASSUME NEW c \in Calls, Disconnect(c)  PROVE SeenAt(x)'
  BY <1>38 DEF Disconnect, DiscMoves
<1>39. ASSUME NEW c \in Calls, DisconnectReturns(c)  PROVE SeenAt(x)'
  BY <1>39 DEF DisconnectReturns
<1>40. ASSUME NEW d \in Calls \X Closers, BeginClose(d)  PROVE SeenAt(x)'
  BY <1>40 DEF BeginClose, DiscMoves
<1>41. ASSUME NEW d \in Calls \X Closers, WriteClose(d)  PROVE SeenAt(x)'
  BY <1>41 DEF WriteClose, DiscMoves
<1>42. ASSUME NEW d \in Calls \X Closers, TellClose(d)  PROVE SeenAt(x)'
  BY <1>42 DEF TellClose, DiscMoves, Emit
<1>43. ASSUME NEW d \in Calls \X Closers, QueueClose(d)  PROVE SeenAt(x)'
  BY <1>43 DEF QueueClose, DiscMoves
<1>44. ASSUME NEW k \in Protocols, Listen(k)  PROVE SeenAt(x)'
  BY <1>44 DEF Listen, HydrationMoves
<1>45. ASSUME NEW k \in Protocols, AnswerList(k)  PROVE SeenAt(x)'
  BY <1>45 DEF AnswerList, HydrationMoves, Of
<1>46. ASSUME NEW k \in Protocols, Hydrate(k)  PROVE SeenAt(x)'
  BY <1>46 DEF Hydrate, HydrationMoves, Of
<1>47. CASE StopAll
  BY <1>47 DEF StopAll, Drain, Of
<1>48. CASE Reload
  BY <1>48 DEF Reload
<1>49. CASE UNCHANGED vars
  BY <1>49
<1> QED BY <1>1, <1>2, <1>3, <1>4, <1>5, <1>6, <1>7, <1>8, <1>9, <1>10, <1>11, <1>12, <1>13,
    <1>14, <1>15, <1>16, <1>17, <1>18, <1>19, <1>20, <1>21, <1>22, <1>23, <1>24, <1>25, <1>26,
    <1>27, <1>28, <1>29, <1>30, <1>31, <1>32, <1>33, <1>34, <1>35, <1>36, <1>37, <1>38, <1>39,
    <1>40, <1>41, <1>42, <1>43, <1>44, <1>45, <1>46, <1>47, <1>48, <1>49, Cases



LEMMA PermittedStep ==
  ASSUME TypeOK, Lives, Permitted, [Next]_vars  PROVE Permitted'
<1>f. /\ inst' = inst /\ kind' = kind /\ kind \in [Calls -> Protocols]
      /\ inst.shared \in Nat /\ inst.vnc \in Nat
  BY Fixed
<1>t. DOMAIN cmd = Calls /\ DOMAIN worker = Calls
  BY DEF TypeOK
<1> USE <1>f, <1>t DEF Lives, Permitted, HasEngine, Engines, Early, Late, Permits, Starts,
    Reads, vars, permits, tables, ending, process, stops, closes, wire, window
<1>1. ASSUME NEW c \in Calls, Refuse(c)  PROVE Permitted'
  BY <1>1 DEF Refuse, Advance
<1>2. ASSUME NEW c \in Calls, Look(c)  PROVE Permitted'
  BY <1>2 DEF Look, Advance
<1>3. ASSUME NEW c \in Calls, TakeShared(c)  PROVE Permitted'
  BY <1>3 DEF TakeShared, Advance
<1>4. ASSUME NEW c \in Calls, TakeVnc(c)  PROVE Permitted'
  BY <1>4 DEF TakeVnc, Advance
<1>5. ASSUME NEW c \in Calls, Reserve(c)  PROVE Permitted'
  BY <1>5 DEF Reserve, Advance, Drop
<1>6. ASSUME NEW c \in Calls, SpawnFirst(c)  PROVE Permitted'
  BY <1>6 DEF SpawnFirst, Spawn, Advance, Drop
<1>7. ASSUME NEW c \in Calls, StartFails(c)  PROVE Permitted'
  BY <1>7 DEF StartFails, Advance, Kill
<1>8. ASSUME NEW c \in Calls, EngineConnects(c)  PROVE Permitted'
  BY <1>8 DEF EngineConnects, Advance
<1>9. ASSUME NEW c \in Calls, CertificateUnknown(c)  PROVE Permitted'
  BY <1>9 DEF CertificateUnknown, Advance, Kill
<1>10. ASSUME NEW c \in Calls, DropStart(c)  PROVE Permitted'
  BY <1>10 DEF DropStart, Advance, Reaped, Drop
<1>11. ASSUME NEW c \in Calls, ReapRefused(c)  PROVE Permitted'
  BY <1>11 DEF ReapRefused, Advance, Reaped
<1>12. ASSUME NEW c \in Calls, OpenDialog(c)  PROVE Permitted'
  BY <1>12 DEF OpenDialog, Advance, Drop
<1>13. ASSUME NEW c \in Calls, AnswerDialog(c)  PROVE Permitted'
  BY <1>13 DEF AnswerDialog, Advance, Drop
<1>14. ASSUME NEW c \in Calls, SpawnApproved(c)  PROVE Permitted'
  BY <1>14 DEF SpawnApproved, Spawn, Advance, Drop
<1>15. ASSUME NEW c \in Calls, StopApproved(c)  PROVE Permitted'
  BY <1>15 DEF StopApproved, Advance, Drop
<1>16. ASSUME NEW c \in Calls, Commit(c)  PROVE Permitted'
  BY <1>16 DEF Commit, Advance, WorkerMoves, Kill
<1>17. ASSUME NEW c \in Calls, OpenShell(c)  PROVE Permitted'
  BY <1>17 DEF OpenShell, Advance, WorkerMoves
<1>18. ASSUME NEW c \in Calls, NEW to \in {"connected", "storing"}, Remember(c,
              to)  PROVE Permitted'
  BY <1>18 DEF Remember, Advance
<1>19. ASSUME NEW c \in Calls, Store(c)  PROVE Permitted'
  BY <1>19 DEF Store, Advance, DiscMoves
<1>20. ASSUME NEW c \in Calls, AnswerUnstored(c)  PROVE Permitted'
  BY <1>20 DEF AnswerUnstored, Advance
<1>21. ASSUME NEW c \in Calls, EngineExits(c)  PROVE Permitted'
  BY <1>21 DEF EngineExits
<1>22. ASSUME NEW c \in Calls, WorkerReads(c)  PROVE Permitted'
  BY <1>22 DEF WorkerReads, WorkerMoves
<1>23. ASSUME NEW c \in Calls, WorkerKills(c)  PROVE Permitted'
  BY <1>23 DEF WorkerKills, WorkerMoves, Kill
<1>24. ASSUME NEW c \in Calls, WorkerReaps(c)  PROVE Permitted'
  BY <1>24 DEF WorkerReaps, WorkerMoves, Reaped
<1>25. ASSUME NEW c \in Calls, PumpEnds(c)  PROVE Permitted'
  BY <1>25 DEF PumpEnds, WorkerMoves
<1>26. ASSUME NEW c \in Calls, Finish(c)  PROVE Permitted'
  BY <1>26 DEF Finish, WorkerMoves
<1>27. ASSUME NEW c \in Calls, WorkerTells(c)  PROVE Permitted'
  BY <1>27 DEF WorkerTells, WorkerMoves, Emit
<1>28. ASSUME NEW c \in Calls, WorkerEnds(c)  PROVE Permitted'
  BY <1>28 DEF WorkerEnds, WorkerMoves
<1>29. ASSUME NEW c \in Calls, Watchdog(c)  PROVE Permitted'
  BY <1>29 DEF Watchdog
<1>30. ASSUME NEW c \in Calls, BeginInput(c)  PROVE Permitted'
  BY <1>30 DEF BeginInput, InputMoves
<1>31. ASSUME NEW c \in Calls, InputFails(c)  PROVE Permitted'
  BY <1>31 DEF InputFails, InputMoves
<1>32. ASSUME NEW c \in Calls, InputStops(c)  PROVE Permitted'
  BY <1>32 DEF InputStops, InputMoves
<1>33. ASSUME NEW c \in Calls, InputTells(c)  PROVE Permitted'
  BY <1>33 DEF InputTells, InputMoves, Emit
<1>34. ASSUME NEW c \in Calls, SendStop(c)  PROVE Permitted'
  BY <1>34 DEF SendStop
<1>35. ASSUME NEW c \in Calls, Connect(c)  PROVE Permitted'
  BY <1>35 DEF Connect, Advance, Guarded
<1>36. ASSUME NEW c \in Calls, Answer(c)  PROVE Permitted'
  BY <1>36 DEF Answer, Guarded
<1>37. ASSUME NEW c \in Calls, HearClosed(c)  PROVE Permitted'
  BY <1>37 DEF HearClosed
<1>38. ASSUME NEW c \in Calls, Disconnect(c)  PROVE Permitted'
  BY <1>38 DEF Disconnect, DiscMoves
<1>39. ASSUME NEW c \in Calls, DisconnectReturns(c)  PROVE Permitted'
  BY <1>39 DEF DisconnectReturns
<1>40. ASSUME NEW d \in Calls \X Closers, BeginClose(d)  PROVE Permitted'
  BY <1>40 DEF BeginClose, DiscMoves
<1>41. ASSUME NEW d \in Calls \X Closers, WriteClose(d)  PROVE Permitted'
  BY <1>41 DEF WriteClose, DiscMoves
<1>42. ASSUME NEW d \in Calls \X Closers, TellClose(d)  PROVE Permitted'
  BY <1>42 DEF TellClose, DiscMoves, Emit
<1>43. ASSUME NEW d \in Calls \X Closers, QueueClose(d)  PROVE Permitted'
  BY <1>43 DEF QueueClose, DiscMoves
<1>44. ASSUME NEW k \in Protocols, Listen(k)  PROVE Permitted'
  BY <1>44 DEF Listen, HydrationMoves
<1>45. ASSUME NEW k \in Protocols, AnswerList(k)  PROVE Permitted'
  BY <1>45 DEF AnswerList, HydrationMoves, Of
<1>46. ASSUME NEW k \in Protocols, Hydrate(k)  PROVE Permitted'
  BY <1>46 DEF Hydrate, HydrationMoves, Of
<1>47. CASE StopAll
  BY <1>47 DEF StopAll, Drain, Of
<1>48. CASE Reload
  BY <1>48 DEF Reload
<1>49. CASE UNCHANGED vars
  BY <1>49
<1> QED BY <1>1, <1>2, <1>3, <1>4, <1>5, <1>6, <1>7, <1>8, <1>9, <1>10, <1>11, <1>12, <1>13,
    <1>14, <1>15, <1>16, <1>17, <1>18, <1>19, <1>20, <1>21, <1>22, <1>23, <1>24, <1>25, <1>26,
    <1>27, <1>28, <1>29, <1>30, <1>31, <1>32, <1>33, <1>34, <1>35, <1>36, <1>37, <1>38, <1>39,
    <1>40, <1>41, <1>42, <1>43, <1>44, <1>45, <1>46, <1>47, <1>48, <1>49, Cases



LEMMA CappedStep ==
  ASSUME TypeOK, Capped, [Next]_vars  PROVE Capped'
<1>f. /\ inst' = inst /\ kind' = kind /\ kind \in [Calls -> Protocols]
      /\ inst.shared \in Nat /\ inst.vnc \in Nat
  BY Fixed
<1>s. /\ \A S \in SUBSET slots : Cardinality(S) <= inst.shared
      /\ \A S \in SUBSET vncSlots : Cardinality(S) <= inst.vnc
  BY Shrinks
<1> USE <1>f, <1>s DEF Capped, vars, permits, tables, ending, process, stops, closes, wire,
    window
<1>1. ASSUME NEW c \in Calls, Refuse(c)  PROVE Capped'
  BY <1>1 DEF Refuse, Advance
<1>2. ASSUME NEW c \in Calls, Look(c)  PROVE Capped'
  BY <1>2 DEF Look, Advance
<1>3. ASSUME NEW c \in Calls, TakeShared(c)  PROVE Capped'
  <2>1. Cardinality(slots) < inst.shared => Cardinality(slots \cup {c}) <= inst.shared
    BY Grows, <1>f DEF TypeOK
  <2> QED BY <1>3, <2>1 DEF TakeShared
<1>4. ASSUME NEW c \in Calls, TakeVnc(c)  PROVE Capped'
  <2>1. Cardinality(vncSlots) < inst.vnc => Cardinality(vncSlots \cup {c}) <= inst.vnc
    BY Grows, <1>f DEF TypeOK
  <2> QED BY <1>4, <2>1 DEF TakeVnc
<1>5. ASSUME NEW c \in Calls, Reserve(c)  PROVE Capped'
  BY <1>5 DEF Reserve, Advance, Drop
<1>6. ASSUME NEW c \in Calls, SpawnFirst(c)  PROVE Capped'
  BY <1>6 DEF SpawnFirst, Spawn, Advance, Drop
<1>7. ASSUME NEW c \in Calls, StartFails(c)  PROVE Capped'
  BY <1>7 DEF StartFails, Advance, Kill
<1>8. ASSUME NEW c \in Calls, EngineConnects(c)  PROVE Capped'
  BY <1>8 DEF EngineConnects, Advance
<1>9. ASSUME NEW c \in Calls, CertificateUnknown(c)  PROVE Capped'
  BY <1>9 DEF CertificateUnknown, Advance, Kill
<1>10. ASSUME NEW c \in Calls, DropStart(c)  PROVE Capped'
  BY <1>10 DEF DropStart, Advance, Reaped, Drop
<1>11. ASSUME NEW c \in Calls, ReapRefused(c)  PROVE Capped'
  BY <1>11 DEF ReapRefused, Advance, Reaped
<1>12. ASSUME NEW c \in Calls, OpenDialog(c)  PROVE Capped'
  BY <1>12 DEF OpenDialog, Advance, Drop
<1>13. ASSUME NEW c \in Calls, AnswerDialog(c)  PROVE Capped'
  BY <1>13 DEF AnswerDialog, Advance, Drop
<1>14. ASSUME NEW c \in Calls, SpawnApproved(c)  PROVE Capped'
  BY <1>14 DEF SpawnApproved, Spawn, Advance, Drop
<1>15. ASSUME NEW c \in Calls, StopApproved(c)  PROVE Capped'
  BY <1>15 DEF StopApproved, Advance, Drop
<1>16. ASSUME NEW c \in Calls, Commit(c)  PROVE Capped'
  BY <1>16 DEF Commit, Advance, WorkerMoves, Kill
<1>17. ASSUME NEW c \in Calls, OpenShell(c)  PROVE Capped'
  BY <1>17 DEF OpenShell, Advance, WorkerMoves
<1>18. ASSUME NEW c \in Calls, NEW to \in {"connected", "storing"}, Remember(c,
              to)  PROVE Capped'
  BY <1>18 DEF Remember, Advance
<1>19. ASSUME NEW c \in Calls, Store(c)  PROVE Capped'
  BY <1>19 DEF Store, Advance, DiscMoves
<1>20. ASSUME NEW c \in Calls, AnswerUnstored(c)  PROVE Capped'
  BY <1>20 DEF AnswerUnstored, Advance
<1>21. ASSUME NEW c \in Calls, EngineExits(c)  PROVE Capped'
  BY <1>21 DEF EngineExits
<1>22. ASSUME NEW c \in Calls, WorkerReads(c)  PROVE Capped'
  BY <1>22 DEF WorkerReads, WorkerMoves
<1>23. ASSUME NEW c \in Calls, WorkerKills(c)  PROVE Capped'
  BY <1>23 DEF WorkerKills, WorkerMoves, Kill
<1>24. ASSUME NEW c \in Calls, WorkerReaps(c)  PROVE Capped'
  BY <1>24 DEF WorkerReaps, WorkerMoves, Reaped
<1>25. ASSUME NEW c \in Calls, PumpEnds(c)  PROVE Capped'
  BY <1>25 DEF PumpEnds, WorkerMoves
<1>26. ASSUME NEW c \in Calls, Finish(c)  PROVE Capped'
  BY <1>26 DEF Finish, WorkerMoves
<1>27. ASSUME NEW c \in Calls, WorkerTells(c)  PROVE Capped'
  BY <1>27 DEF WorkerTells, WorkerMoves, Emit
<1>28. ASSUME NEW c \in Calls, WorkerEnds(c)  PROVE Capped'
  BY <1>28 DEF WorkerEnds, WorkerMoves
<1>29. ASSUME NEW c \in Calls, Watchdog(c)  PROVE Capped'
  BY <1>29 DEF Watchdog
<1>30. ASSUME NEW c \in Calls, BeginInput(c)  PROVE Capped'
  BY <1>30 DEF BeginInput, InputMoves
<1>31. ASSUME NEW c \in Calls, InputFails(c)  PROVE Capped'
  BY <1>31 DEF InputFails, InputMoves
<1>32. ASSUME NEW c \in Calls, InputStops(c)  PROVE Capped'
  BY <1>32 DEF InputStops, InputMoves
<1>33. ASSUME NEW c \in Calls, InputTells(c)  PROVE Capped'
  BY <1>33 DEF InputTells, InputMoves, Emit
<1>34. ASSUME NEW c \in Calls, SendStop(c)  PROVE Capped'
  BY <1>34 DEF SendStop
<1>35. ASSUME NEW c \in Calls, Connect(c)  PROVE Capped'
  BY <1>35 DEF Connect, Advance, Guarded
<1>36. ASSUME NEW c \in Calls, Answer(c)  PROVE Capped'
  BY <1>36 DEF Answer, Guarded
<1>37. ASSUME NEW c \in Calls, HearClosed(c)  PROVE Capped'
  BY <1>37 DEF HearClosed
<1>38. ASSUME NEW c \in Calls, Disconnect(c)  PROVE Capped'
  BY <1>38 DEF Disconnect, DiscMoves
<1>39. ASSUME NEW c \in Calls, DisconnectReturns(c)  PROVE Capped'
  BY <1>39 DEF DisconnectReturns
<1>40. ASSUME NEW d \in Calls \X Closers, BeginClose(d)  PROVE Capped'
  BY <1>40 DEF BeginClose, DiscMoves
<1>41. ASSUME NEW d \in Calls \X Closers, WriteClose(d)  PROVE Capped'
  BY <1>41 DEF WriteClose, DiscMoves
<1>42. ASSUME NEW d \in Calls \X Closers, TellClose(d)  PROVE Capped'
  BY <1>42 DEF TellClose, DiscMoves, Emit
<1>43. ASSUME NEW d \in Calls \X Closers, QueueClose(d)  PROVE Capped'
  BY <1>43 DEF QueueClose, DiscMoves
<1>44. ASSUME NEW k \in Protocols, Listen(k)  PROVE Capped'
  BY <1>44 DEF Listen, HydrationMoves
<1>45. ASSUME NEW k \in Protocols, AnswerList(k)  PROVE Capped'
  BY <1>45 DEF AnswerList, HydrationMoves, Of
<1>46. ASSUME NEW k \in Protocols, Hydrate(k)  PROVE Capped'
  BY <1>46 DEF Hydrate, HydrationMoves, Of
<1>47. CASE StopAll
  BY <1>47 DEF StopAll, Drain, Of
<1>48. CASE Reload
  BY <1>48 DEF Reload
<1>49. CASE UNCHANGED vars
  BY <1>49
<1> QED BY <1>1, <1>2, <1>3, <1>4, <1>5, <1>6, <1>7, <1>8, <1>9, <1>10, <1>11, <1>12, <1>13,
    <1>14, <1>15, <1>16, <1>17, <1>18, <1>19, <1>20, <1>21, <1>22, <1>23, <1>24, <1>25, <1>26,
    <1>27, <1>28, <1>29, <1>30, <1>31, <1>32, <1>33, <1>34, <1>35, <1>36, <1>37, <1>38, <1>39,
    <1>40, <1>41, <1>42, <1>43, <1>44, <1>45, <1>46, <1>47, <1>48, <1>49, Cases



LEMMA RegisteredStep ==
  ASSUME TypeOK, NEW x \in Calls, Lives, RegisteredAt(x), [Next]_vars  PROVE RegisteredAt(x)'
<1>f. /\ inst' = inst /\ kind' = kind /\ kind \in [Calls -> Protocols]
      /\ inst.shared \in Nat /\ inst.vnc \in Nat
  BY Fixed
<1>t. x \in Calls /\ DOMAIN cmd = Calls /\ DOMAIN worker = Calls /\ DOMAIN emitted = Calls /\ DOMAIN rows = Calls /\ DOMAIN input = Calls
  BY DEF TypeOK
<1>o. "window" \in Closers /\ "command" \in Closers
  BY DEF Closers
<1> USE <1>f, <1>t DEF Lives, RegisteredAt, HasEngine, Engines, Early, Late, Permits, Reads,
    vars, permits, tables, ending, process, stops, closes, wire, window
<1>1. ASSUME NEW c \in Calls, Refuse(c)  PROVE RegisteredAt(x)'
  BY <1>1 DEF Refuse, Advance
<1>2. ASSUME NEW c \in Calls, Look(c)  PROVE RegisteredAt(x)'
  BY <1>2 DEF Look, Advance
<1>3. ASSUME NEW c \in Calls, TakeShared(c)  PROVE RegisteredAt(x)'
  BY <1>3 DEF TakeShared, Advance
<1>4. ASSUME NEW c \in Calls, TakeVnc(c)  PROVE RegisteredAt(x)'
  BY <1>4 DEF TakeVnc, Advance
<1>5. ASSUME NEW c \in Calls, Reserve(c)  PROVE RegisteredAt(x)'
  BY <1>5 DEF Reserve, Advance, Drop
<1>6. ASSUME NEW c \in Calls, SpawnFirst(c)  PROVE RegisteredAt(x)'
  BY <1>6 DEF SpawnFirst, Spawn, Advance, Drop
<1>7. ASSUME NEW c \in Calls, StartFails(c)  PROVE RegisteredAt(x)'
  BY <1>7 DEF StartFails, Advance, Kill
<1>8. ASSUME NEW c \in Calls, EngineConnects(c)  PROVE RegisteredAt(x)'
  BY <1>8 DEF EngineConnects, Advance
<1>9. ASSUME NEW c \in Calls, CertificateUnknown(c)  PROVE RegisteredAt(x)'
  BY <1>9 DEF CertificateUnknown, Advance, Kill
<1>10. ASSUME NEW c \in Calls, DropStart(c)  PROVE RegisteredAt(x)'
  BY <1>10 DEF DropStart, Advance, Reaped, Drop
<1>11. ASSUME NEW c \in Calls, ReapRefused(c)  PROVE RegisteredAt(x)'
  BY <1>11 DEF ReapRefused, Advance, Reaped
<1>12. ASSUME NEW c \in Calls, OpenDialog(c)  PROVE RegisteredAt(x)'
  BY <1>12 DEF OpenDialog, Advance, Drop
<1>13. ASSUME NEW c \in Calls, AnswerDialog(c)  PROVE RegisteredAt(x)'
  BY <1>13 DEF AnswerDialog, Advance, Drop
<1>14. ASSUME NEW c \in Calls, SpawnApproved(c)  PROVE RegisteredAt(x)'
  BY <1>14 DEF SpawnApproved, Spawn, Advance, Drop
<1>15. ASSUME NEW c \in Calls, StopApproved(c)  PROVE RegisteredAt(x)'
  BY <1>15 DEF StopApproved, Advance, Drop
<1>16. ASSUME NEW c \in Calls, Commit(c)  PROVE RegisteredAt(x)'
  BY <1>16 DEF Commit, Advance, WorkerMoves, Kill
<1>17. ASSUME NEW c \in Calls, OpenShell(c)  PROVE RegisteredAt(x)'
  BY <1>17 DEF OpenShell, Advance, WorkerMoves
<1>18. ASSUME NEW c \in Calls, NEW to \in {"connected", "storing"}, Remember(c,
              to)  PROVE RegisteredAt(x)'
  BY <1>18 DEF Remember, Advance
<1>19. ASSUME NEW c \in Calls, Store(c)  PROVE RegisteredAt(x)'
  <2>1. CASE DiscMoves(<<c, "command">>, "no", "asked") /\ Advance(c, "storing", "unstored")
    <3>1. /\ At(disc, c, "command") = "no" /\ At(disc', x, "window") = At(disc, x, "window")
          /\ At(disc', x, "command") = IF x = c THEN "asked" ELSE At(disc, x, "command")
      <4>1. <<c, "command">> \in Calls \X Closers /\ <<c, "command">>[1] = c /\ <<c,
          "command">>[2] = "command"
        BY DEF Closers
      <4> QED BY <2>1, <4>1, Moves, <1>o, <1>t
    <3> QED BY <1>19, <2>1, <3>1 DEF Store, Advance
  <2>2. CASE UNCHANGED disc /\ Advance(c, "storing", "connected")
    BY <1>19, <2>2 DEF Store, Advance
  <2> QED BY <1>19, <2>1, <2>2 DEF Store
<1>20. ASSUME NEW c \in Calls, AnswerUnstored(c)  PROVE RegisteredAt(x)'
  BY <1>20 DEF AnswerUnstored, Advance
<1>21. ASSUME NEW c \in Calls, EngineExits(c)  PROVE RegisteredAt(x)'
  BY <1>21 DEF EngineExits
<1>22. ASSUME NEW c \in Calls, WorkerReads(c)  PROVE RegisteredAt(x)'
  BY <1>22 DEF WorkerReads, WorkerMoves
<1>23. ASSUME NEW c \in Calls, WorkerKills(c)  PROVE RegisteredAt(x)'
  BY <1>23 DEF WorkerKills, WorkerMoves, Kill
<1>24. ASSUME NEW c \in Calls, WorkerReaps(c)  PROVE RegisteredAt(x)'
  BY <1>24 DEF WorkerReaps, WorkerMoves, Reaped
<1>25. ASSUME NEW c \in Calls, PumpEnds(c)  PROVE RegisteredAt(x)'
  BY <1>25 DEF PumpEnds, WorkerMoves
<1>26. ASSUME NEW c \in Calls, Finish(c)  PROVE RegisteredAt(x)'
  BY <1>26 DEF Finish, WorkerMoves
<1>27. ASSUME NEW c \in Calls, WorkerTells(c)  PROVE RegisteredAt(x)'
  BY <1>27 DEF WorkerTells, WorkerMoves, Emit
<1>28. ASSUME NEW c \in Calls, WorkerEnds(c)  PROVE RegisteredAt(x)'
  BY <1>28 DEF WorkerEnds, WorkerMoves
<1>29. ASSUME NEW c \in Calls, Watchdog(c)  PROVE RegisteredAt(x)'
  BY <1>29 DEF Watchdog
<1>30. ASSUME NEW c \in Calls, BeginInput(c)  PROVE RegisteredAt(x)'
  BY <1>30 DEF BeginInput, InputMoves
<1>31. ASSUME NEW c \in Calls, InputFails(c)  PROVE RegisteredAt(x)'
  <2>1. input[c] = "writing" /\ UNCHANGED <<worker, emitted, rows, listed,
      disc>> /\ sessions' = sessions \ {c}
        /\ \A y \in Calls : y # c => input'[y] = input[y]
    BY <1>31 DEF InputFails, InputMoves
  <2>2. CASE x = c
    <3>1. worker[x] # "none" /\ kind[x] # "ssh" /\ HasEngine(x)
      BY <2>1, <2>2 DEF RegisteredAt
    <3> QED BY <2>1, <2>2, <3>1 DEF RegisteredAt
  <2>3. CASE x # c
    BY <2>1, <2>3 DEF RegisteredAt
  <2> QED BY <2>2, <2>3
<1>32. ASSUME NEW c \in Calls, InputStops(c)  PROVE RegisteredAt(x)'
  BY <1>32 DEF InputStops, InputMoves
<1>33. ASSUME NEW c \in Calls, InputTells(c)  PROVE RegisteredAt(x)'
  BY <1>33 DEF InputTells, InputMoves, Emit
<1>34. ASSUME NEW c \in Calls, SendStop(c)  PROVE RegisteredAt(x)'
  BY <1>34 DEF SendStop
<1>35. ASSUME NEW c \in Calls, Connect(c)  PROVE RegisteredAt(x)'
  BY <1>35 DEF Connect, Advance, Guarded
<1>36. ASSUME NEW c \in Calls, Answer(c)  PROVE RegisteredAt(x)'
  BY <1>36 DEF Answer, Guarded
<1>37. ASSUME NEW c \in Calls, HearClosed(c)  PROVE RegisteredAt(x)'
  BY <1>37 DEF HearClosed
<1>38. ASSUME NEW c \in Calls, Disconnect(c)  PROVE RegisteredAt(x)'
  <2>1. DiscMoves(<<c, "window">>, "no", "asked")
    BY <1>38 DEF Disconnect
  <2>2. /\ At(disc, c, "window") = "no" /\ At(disc', x, "command") = At(disc, x, "command")
        /\ At(disc', x, "window") = IF x = c THEN "asked" ELSE At(disc, x, "window")
    <3>1. <<c, "window">> \in Calls \X Closers /\ <<c, "window">>[1] = c /\ <<c,
        "window">>[2] = "window"
      BY DEF Closers
    <3> QED BY <2>1, <3>1, Moves, <1>o, <1>t
  <2> QED BY <1>38, <2>2 DEF Disconnect
<1>39. ASSUME NEW c \in Calls, DisconnectReturns(c)  PROVE RegisteredAt(x)'
  BY <1>39 DEF DisconnectReturns
<1>40. ASSUME NEW d \in Calls \X Closers, BeginClose(d)  PROVE RegisteredAt(x)'
  <2>1. DiscMoves(d, "asked", IF d[1] \in sessions THEN "writing" ELSE "done")
    BY <1>40 DEF BeginClose
  <2>2. /\ d[1] \in Calls /\ d[2] \in Closers /\ At(disc, d[1], d[2]) = "asked"
        /\ At(disc', x, "window") = IF x = d[1] /\ d[2] = "window" THEN IF d[1] \in sessions THEN "writing" ELSE "done" ELSE At(disc, x, "window")
        /\ At(disc', x, "command") = IF x = d[1] /\ d[2] = "command" THEN IF d[1] \in sessions THEN "writing" ELSE "done" ELSE At(disc, x, "command")
    BY <2>1, Moves, <1>o, <1>t
  <2>3. d[2] \in {"window", "command"}
    BY <2>2 DEF Closers
  <2> QED BY <1>40, <2>2, <2>3 DEF BeginClose
<1>41. ASSUME NEW d \in Calls \X Closers, WriteClose(d)  PROVE RegisteredAt(x)'
  <2>1. DiscMoves(d, "writing", "telling")
    BY <1>41 DEF WriteClose
  <2>2. /\ d[1] \in Calls /\ d[2] \in Closers /\ At(disc, d[1], d[2]) = "writing"
        /\ At(disc', x, "window") = IF x = d[1] /\ d[2] = "window" THEN "telling" ELSE At(disc,
            x, "window")
        /\ At(disc', x, "command") = IF x = d[1] /\ d[2] = "command" THEN "telling" ELSE At(disc, x, "command")
    BY <2>1, Moves, <1>o, <1>t
  <2>3. d[2] \in {"window", "command"}
    BY <2>2 DEF Closers
  <2> QED BY <1>41, <2>2, <2>3 DEF WriteClose
<1>42. ASSUME NEW d \in Calls \X Closers, TellClose(d)  PROVE RegisteredAt(x)'
  <2>1. DiscMoves(d, "telling", "done")
    BY <1>42 DEF TellClose
  <2>2. /\ d[1] \in Calls /\ d[2] \in Closers /\ At(disc, d[1], d[2]) = "telling"
        /\ At(disc', x, "window") = IF x = d[1] /\ d[2] = "window" THEN "done" ELSE At(disc, x,
            "window")
        /\ At(disc', x, "command") = IF x = d[1] /\ d[2] = "command" THEN "done" ELSE At(disc,
            x, "command")
    BY <2>1, Moves, <1>o, <1>t
  <2>3. d[2] \in {"window", "command"}
    BY <2>2 DEF Closers
  <2> QED BY <1>42, <2>2, <2>3 DEF TellClose, Emit
<1>43. ASSUME NEW d \in Calls \X Closers, QueueClose(d)  PROVE RegisteredAt(x)'
  <2>1. DiscMoves(d, "asked", "done")
    BY <1>43 DEF QueueClose
  <2>2. /\ d[1] \in Calls /\ d[2] \in Closers /\ At(disc, d[1], d[2]) = "asked"
        /\ At(disc', x, "window") = IF x = d[1] /\ d[2] = "window" THEN "done" ELSE At(disc, x,
            "window")
        /\ At(disc', x, "command") = IF x = d[1] /\ d[2] = "command" THEN "done" ELSE At(disc,
            x, "command")
    BY <2>1, Moves, <1>o, <1>t
  <2>3. d[2] \in {"window", "command"}
    BY <2>2 DEF Closers
  <2> QED BY <1>43, <2>2, <2>3 DEF QueueClose
<1>44. ASSUME NEW k \in Protocols, Listen(k)  PROVE RegisteredAt(x)'
  BY <1>44 DEF Listen, HydrationMoves
<1>45. ASSUME NEW k \in Protocols, AnswerList(k)  PROVE RegisteredAt(x)'
  BY <1>45 DEF AnswerList, HydrationMoves, Of
<1>46. ASSUME NEW k \in Protocols, Hydrate(k)  PROVE RegisteredAt(x)'
  BY <1>46 DEF Hydrate, HydrationMoves, Of
<1>47. CASE StopAll
  BY <1>47 DEF StopAll, Drain, Of
<1>48. CASE Reload
  BY <1>48 DEF Reload
<1>49. CASE UNCHANGED vars
  BY <1>49
<1> QED BY <1>1, <1>2, <1>3, <1>4, <1>5, <1>6, <1>7, <1>8, <1>9, <1>10, <1>11, <1>12, <1>13,
    <1>14, <1>15, <1>16, <1>17, <1>18, <1>19, <1>20, <1>21, <1>22, <1>23, <1>24, <1>25, <1>26,
    <1>27, <1>28, <1>29, <1>30, <1>31, <1>32, <1>33, <1>34, <1>35, <1>36, <1>37, <1>38, <1>39,
    <1>40, <1>41, <1>42, <1>43, <1>44, <1>45, <1>46, <1>47, <1>48, <1>49, Cases



LEMMA ToldStep ==
  ASSUME TypeOK, NEW x \in Calls, Lives, RegisteredAt(x), ToldAt(x),
         [Next]_vars  PROVE ToldAt(x)'
<1>f. /\ inst' = inst /\ kind' = kind /\ kind \in [Calls -> Protocols]
      /\ inst.shared \in Nat /\ inst.vnc \in Nat
  BY Fixed
<1>t. x \in Calls /\ DOMAIN cmd = Calls /\ DOMAIN worker = Calls /\ DOMAIN emitted = Calls /\ DOMAIN input = Calls
  BY DEF TypeOK
<1>o. "window" \in Closers /\ "command" \in Closers
  BY DEF Closers
<1> USE <1>f, <1>t DEF Lives, RegisteredAt, ToldAt, Owed, Disconnects, Misses, Reports,
    HasEngine, Sealed, Engines, Early, Late, Permits, Reads, vars, permits, tables, ending,
    process, stops, closes, wire, window
<1>1. ASSUME NEW c \in Calls, Refuse(c)  PROVE ToldAt(x)'
  BY <1>1 DEF Refuse, Advance
<1>2. ASSUME NEW c \in Calls, Look(c)  PROVE ToldAt(x)'
  BY <1>2 DEF Look, Advance
<1>3. ASSUME NEW c \in Calls, TakeShared(c)  PROVE ToldAt(x)'
  BY <1>3 DEF TakeShared, Advance
<1>4. ASSUME NEW c \in Calls, TakeVnc(c)  PROVE ToldAt(x)'
  BY <1>4 DEF TakeVnc, Advance
<1>5. ASSUME NEW c \in Calls, Reserve(c)  PROVE ToldAt(x)'
  BY <1>5 DEF Reserve, Advance, Drop
<1>6. ASSUME NEW c \in Calls, SpawnFirst(c)  PROVE ToldAt(x)'
  BY <1>6 DEF SpawnFirst, Spawn, Advance, Drop
<1>7. ASSUME NEW c \in Calls, StartFails(c)  PROVE ToldAt(x)'
  BY <1>7 DEF StartFails, Advance, Kill
<1>8. ASSUME NEW c \in Calls, EngineConnects(c)  PROVE ToldAt(x)'
  BY <1>8 DEF EngineConnects, Advance
<1>9. ASSUME NEW c \in Calls, CertificateUnknown(c)  PROVE ToldAt(x)'
  BY <1>9 DEF CertificateUnknown, Advance, Kill
<1>10. ASSUME NEW c \in Calls, DropStart(c)  PROVE ToldAt(x)'
  BY <1>10 DEF DropStart, Advance, Reaped, Drop
<1>11. ASSUME NEW c \in Calls, ReapRefused(c)  PROVE ToldAt(x)'
  BY <1>11 DEF ReapRefused, Advance, Reaped
<1>12. ASSUME NEW c \in Calls, OpenDialog(c)  PROVE ToldAt(x)'
  BY <1>12 DEF OpenDialog, Advance, Drop
<1>13. ASSUME NEW c \in Calls, AnswerDialog(c)  PROVE ToldAt(x)'
  BY <1>13 DEF AnswerDialog, Advance, Drop
<1>14. ASSUME NEW c \in Calls, SpawnApproved(c)  PROVE ToldAt(x)'
  BY <1>14 DEF SpawnApproved, Spawn, Advance, Drop
<1>15. ASSUME NEW c \in Calls, StopApproved(c)  PROVE ToldAt(x)'
  BY <1>15 DEF StopApproved, Advance, Drop
<1>16. ASSUME NEW c \in Calls, Commit(c)  PROVE ToldAt(x)'
  BY <1>16 DEF Commit, Advance, WorkerMoves, Kill
<1>17. ASSUME NEW c \in Calls, OpenShell(c)  PROVE ToldAt(x)'
  BY <1>17 DEF OpenShell, Advance, WorkerMoves
<1>18. ASSUME NEW c \in Calls, NEW to \in {"connected", "storing"}, Remember(c,
              to)  PROVE ToldAt(x)'
  BY <1>18 DEF Remember, Advance
<1>19. ASSUME NEW c \in Calls, Store(c)  PROVE ToldAt(x)'
  <2>1. CASE DiscMoves(<<c, "command">>, "no", "asked") /\ Advance(c, "storing", "unstored")
    <3>1. /\ At(disc, c, "command") = "no" /\ At(disc', x, "window") = At(disc, x, "window")
          /\ At(disc', x, "command") = IF x = c THEN "asked" ELSE At(disc, x, "command")
      <4>1. <<c, "command">> \in Calls \X Closers /\ <<c, "command">>[1] = c /\ <<c,
          "command">>[2] = "command"
        BY DEF Closers
      <4> QED BY <2>1, <4>1, Moves, <1>o, <1>t
    <3> QED BY <1>19, <2>1, <3>1 DEF Store, Advance
  <2>2. CASE UNCHANGED disc /\ Advance(c, "storing", "connected")
    BY <1>19, <2>2 DEF Store, Advance
  <2> QED BY <1>19, <2>1, <2>2 DEF Store
<1>20. ASSUME NEW c \in Calls, AnswerUnstored(c)  PROVE ToldAt(x)'
  BY <1>20 DEF AnswerUnstored, Advance
<1>21. ASSUME NEW c \in Calls, EngineExits(c)  PROVE ToldAt(x)'
  BY <1>21 DEF EngineExits
<1>22. ASSUME NEW c \in Calls, WorkerReads(c)  PROVE ToldAt(x)'
  BY <1>22 DEF WorkerReads, WorkerMoves
<1>23. ASSUME NEW c \in Calls, WorkerKills(c)  PROVE ToldAt(x)'
  BY <1>23 DEF WorkerKills, WorkerMoves, Kill
<1>24. ASSUME NEW c \in Calls, WorkerReaps(c)  PROVE ToldAt(x)'
  BY <1>24 DEF WorkerReaps, WorkerMoves, Reaped
<1>25. ASSUME NEW c \in Calls, PumpEnds(c)  PROVE ToldAt(x)'
  BY <1>25 DEF PumpEnds, WorkerMoves
<1>26. ASSUME NEW c \in Calls, Finish(c)  PROVE ToldAt(x)'
  BY <1>26 DEF Finish, WorkerMoves
<1>27. ASSUME NEW c \in Calls, WorkerTells(c)  PROVE ToldAt(x)'
  BY <1>27 DEF WorkerTells, WorkerMoves, Emit
<1>28. ASSUME NEW c \in Calls, WorkerEnds(c)  PROVE ToldAt(x)'
  BY <1>28 DEF WorkerEnds, WorkerMoves
<1>29. ASSUME NEW c \in Calls, Watchdog(c)  PROVE ToldAt(x)'
  BY <1>29 DEF Watchdog
<1>30. ASSUME NEW c \in Calls, BeginInput(c)  PROVE ToldAt(x)'
  BY <1>30 DEF BeginInput, InputMoves
<1>31. ASSUME NEW c \in Calls, InputFails(c)  PROVE ToldAt(x)'
  BY <1>31 DEF InputFails, InputMoves
<1>32. ASSUME NEW c \in Calls, InputStops(c)  PROVE ToldAt(x)'
  BY <1>32 DEF InputStops, InputMoves
<1>33. ASSUME NEW c \in Calls, InputTells(c)  PROVE ToldAt(x)'
  BY <1>33 DEF InputTells, InputMoves, Emit
<1>34. ASSUME NEW c \in Calls, SendStop(c)  PROVE ToldAt(x)'
  BY <1>34 DEF SendStop
<1>35. ASSUME NEW c \in Calls, Connect(c)  PROVE ToldAt(x)'
  BY <1>35 DEF Connect, Advance, Guarded
<1>36. ASSUME NEW c \in Calls, Answer(c)  PROVE ToldAt(x)'
  BY <1>36 DEF Answer, Guarded
<1>37. ASSUME NEW c \in Calls, HearClosed(c)  PROVE ToldAt(x)'
  BY <1>37 DEF HearClosed
<1>38. ASSUME NEW c \in Calls, Disconnect(c)  PROVE ToldAt(x)'
  <2>1. DiscMoves(<<c, "window">>, "no", "asked")
    BY <1>38 DEF Disconnect
  <2>2. /\ At(disc, c, "window") = "no" /\ At(disc', x, "command") = At(disc, x, "command")
        /\ At(disc', x, "window") = IF x = c THEN "asked" ELSE At(disc, x, "window")
    <3>1. <<c, "window">> \in Calls \X Closers /\ <<c, "window">>[1] = c /\ <<c,
        "window">>[2] = "window"
      BY DEF Closers
    <3> QED BY <2>1, <3>1, Moves, <1>o, <1>t
  <2> QED BY <1>38, <2>2 DEF Disconnect
<1>39. ASSUME NEW c \in Calls, DisconnectReturns(c)  PROVE ToldAt(x)'
  BY <1>39 DEF DisconnectReturns
<1>40. ASSUME NEW d \in Calls \X Closers, BeginClose(d)  PROVE ToldAt(x)'
  <2>1. DiscMoves(d, "asked", IF d[1] \in sessions THEN "writing" ELSE "done")
    BY <1>40 DEF BeginClose
  <2>2. /\ d[1] \in Calls /\ d[2] \in Closers /\ At(disc, d[1], d[2]) = "asked"
        /\ At(disc', x, "window") = IF x = d[1] /\ d[2] = "window" THEN IF d[1] \in sessions THEN "writing" ELSE "done" ELSE At(disc, x, "window")
        /\ At(disc', x, "command") = IF x = d[1] /\ d[2] = "command" THEN IF d[1] \in sessions THEN "writing" ELSE "done" ELSE At(disc, x, "command")
    BY <2>1, Moves, <1>o, <1>t
  <2>3. d[2] \in {"window", "command"}
    BY <2>2 DEF Closers
  <2> QED BY <1>40, <2>2, <2>3 DEF BeginClose
<1>41. ASSUME NEW d \in Calls \X Closers, WriteClose(d)  PROVE ToldAt(x)'
  <2>1. DiscMoves(d, "writing", "telling")
    BY <1>41 DEF WriteClose
  <2>2. /\ d[1] \in Calls /\ d[2] \in Closers /\ At(disc, d[1], d[2]) = "writing"
        /\ At(disc', x, "window") = IF x = d[1] /\ d[2] = "window" THEN "telling" ELSE At(disc,
            x, "window")
        /\ At(disc', x, "command") = IF x = d[1] /\ d[2] = "command" THEN "telling" ELSE At(disc, x, "command")
    BY <2>1, Moves, <1>o, <1>t
  <2>3. d[2] \in {"window", "command"}
    BY <2>2 DEF Closers
  <2> QED BY <1>41, <2>2, <2>3 DEF WriteClose
<1>42. ASSUME NEW d \in Calls \X Closers, TellClose(d)  PROVE ToldAt(x)'
  <2>1. DiscMoves(d, "telling", "done")
    BY <1>42 DEF TellClose
  <2>2. /\ d[1] \in Calls /\ d[2] \in Closers /\ At(disc, d[1], d[2]) = "telling"
        /\ At(disc', x, "window") = IF x = d[1] /\ d[2] = "window" THEN "done" ELSE At(disc, x,
            "window")
        /\ At(disc', x, "command") = IF x = d[1] /\ d[2] = "command" THEN "done" ELSE At(disc,
            x, "command")
    BY <2>1, Moves, <1>o, <1>t
  <2>3. d[2] \in {"window", "command"}
    BY <2>2 DEF Closers
  <2> QED BY <1>42, <2>2, <2>3 DEF TellClose, Emit
<1>43. ASSUME NEW d \in Calls \X Closers, QueueClose(d)  PROVE ToldAt(x)'
  <2>1. DiscMoves(d, "asked", "done")
    BY <1>43 DEF QueueClose
  <2>2. /\ d[1] \in Calls /\ d[2] \in Closers /\ At(disc, d[1], d[2]) = "asked"
        /\ At(disc', x, "window") = IF x = d[1] /\ d[2] = "window" THEN "done" ELSE At(disc, x,
            "window")
        /\ At(disc', x, "command") = IF x = d[1] /\ d[2] = "command" THEN "done" ELSE At(disc,
            x, "command")
    BY <2>1, Moves, <1>o, <1>t
  <2>3. d[2] \in {"window", "command"}
    BY <2>2 DEF Closers
  <2> QED BY <1>43, <2>2, <2>3 DEF QueueClose
<1>44. ASSUME NEW k \in Protocols, Listen(k)  PROVE ToldAt(x)'
  BY <1>44 DEF Listen, HydrationMoves
<1>45. ASSUME NEW k \in Protocols, AnswerList(k)  PROVE ToldAt(x)'
  BY <1>45 DEF AnswerList, HydrationMoves, Of
<1>46. ASSUME NEW k \in Protocols, Hydrate(k)  PROVE ToldAt(x)'
  BY <1>46 DEF Hydrate, HydrationMoves, Of
<1>47. CASE StopAll
  BY <1>47 DEF StopAll, Drain, Of
<1>48. CASE Reload
  BY <1>48 DEF Reload
<1>49. CASE UNCHANGED vars
  BY <1>49
<1> QED BY <1>1, <1>2, <1>3, <1>4, <1>5, <1>6, <1>7, <1>8, <1>9, <1>10, <1>11, <1>12, <1>13,
    <1>14, <1>15, <1>16, <1>17, <1>18, <1>19, <1>20, <1>21, <1>22, <1>23, <1>24, <1>25, <1>26,
    <1>27, <1>28, <1>29, <1>30, <1>31, <1>32, <1>33, <1>34, <1>35, <1>36, <1>37, <1>38, <1>39,
    <1>40, <1>41, <1>42, <1>43, <1>44, <1>45, <1>46, <1>47, <1>48, <1>49, Cases



LEMMA HeardStep ==
  ASSUME TypeOK, NEW x \in Calls, Lives, RegisteredAt(x), ToldAt(x), HeardAt(x),
         [Next]_vars  PROVE HeardAt(x)'
<1>f. /\ inst' = inst /\ kind' = kind /\ kind \in [Calls -> Protocols]
      /\ inst.shared \in Nat /\ inst.vnc \in Nat
  BY Fixed
<1>t. x \in Calls /\ DOMAIN cmd = Calls /\ DOMAIN worker = Calls /\ DOMAIN emitted = Calls /\ DOMAIN input = Calls /\ DOMAIN rows = Calls /\ DOMAIN attempt = Calls
  BY DEF TypeOK
<1>o. "window" \in Closers /\ "command" \in Closers
  BY DEF Closers
<1>h. DOMAIN hydration = Protocols /\ kind[x] \in Protocols
  BY <1>f DEF TypeOK
<1> USE <1>f, <1>t, <1>h DEF Lives, RegisteredAt, ToldAt, HeardAt, Owed, Disconnects, Misses,
    Reports, HasEngine, Engines, Early, Late, Permits, Reads, vars, permits, tables, ending,
    process, stops, closes, wire, window
<1>1. ASSUME NEW c \in Calls, Refuse(c)  PROVE HeardAt(x)'
  BY <1>1 DEF Refuse, Advance
<1>2. ASSUME NEW c \in Calls, Look(c)  PROVE HeardAt(x)'
  BY <1>2 DEF Look, Advance
<1>3. ASSUME NEW c \in Calls, TakeShared(c)  PROVE HeardAt(x)'
  BY <1>3 DEF TakeShared, Advance
<1>4. ASSUME NEW c \in Calls, TakeVnc(c)  PROVE HeardAt(x)'
  BY <1>4 DEF TakeVnc, Advance
<1>5. ASSUME NEW c \in Calls, Reserve(c)  PROVE HeardAt(x)'
  BY <1>5 DEF Reserve, Advance, Drop
<1>6. ASSUME NEW c \in Calls, SpawnFirst(c)  PROVE HeardAt(x)'
  BY <1>6 DEF SpawnFirst, Spawn, Advance, Drop
<1>7. ASSUME NEW c \in Calls, StartFails(c)  PROVE HeardAt(x)'
  BY <1>7 DEF StartFails, Advance, Kill
<1>8. ASSUME NEW c \in Calls, EngineConnects(c)  PROVE HeardAt(x)'
  BY <1>8 DEF EngineConnects, Advance
<1>9. ASSUME NEW c \in Calls, CertificateUnknown(c)  PROVE HeardAt(x)'
  BY <1>9 DEF CertificateUnknown, Advance, Kill
<1>10. ASSUME NEW c \in Calls, DropStart(c)  PROVE HeardAt(x)'
  BY <1>10 DEF DropStart, Advance, Reaped, Drop
<1>11. ASSUME NEW c \in Calls, ReapRefused(c)  PROVE HeardAt(x)'
  BY <1>11 DEF ReapRefused, Advance, Reaped
<1>12. ASSUME NEW c \in Calls, OpenDialog(c)  PROVE HeardAt(x)'
  BY <1>12 DEF OpenDialog, Advance, Drop
<1>13. ASSUME NEW c \in Calls, AnswerDialog(c)  PROVE HeardAt(x)'
  BY <1>13 DEF AnswerDialog, Advance, Drop
<1>14. ASSUME NEW c \in Calls, SpawnApproved(c)  PROVE HeardAt(x)'
  BY <1>14 DEF SpawnApproved, Spawn, Advance, Drop
<1>15. ASSUME NEW c \in Calls, StopApproved(c)  PROVE HeardAt(x)'
  BY <1>15 DEF StopApproved, Advance, Drop
<1>16. ASSUME NEW c \in Calls, Commit(c)  PROVE HeardAt(x)'
  BY <1>16 DEF Commit, Advance, WorkerMoves, Kill
<1>17. ASSUME NEW c \in Calls, OpenShell(c)  PROVE HeardAt(x)'
  BY <1>17 DEF OpenShell, Advance, WorkerMoves
<1>18. ASSUME NEW c \in Calls, NEW to \in {"connected", "storing"}, Remember(c,
              to)  PROVE HeardAt(x)'
  BY <1>18 DEF Remember, Advance
<1>19. ASSUME NEW c \in Calls, Store(c)  PROVE HeardAt(x)'
  <2>1. CASE DiscMoves(<<c, "command">>, "no", "asked") /\ Advance(c, "storing", "unstored")
    <3>1. /\ At(disc, c, "command") = "no" /\ At(disc', x, "window") = At(disc, x, "window")
          /\ At(disc', x, "command") = IF x = c THEN "asked" ELSE At(disc, x, "command")
      <4>1. <<c, "command">> \in Calls \X Closers /\ <<c, "command">>[1] = c /\ <<c,
          "command">>[2] = "command"
        BY DEF Closers
      <4> QED BY <2>1, <4>1, Moves, <1>o, <1>t
    <3> QED BY <1>19, <2>1, <3>1 DEF Store, Advance
  <2>2. CASE UNCHANGED disc /\ Advance(c, "storing", "connected")
    BY <1>19, <2>2 DEF Store, Advance
  <2> QED BY <1>19, <2>1, <2>2 DEF Store
<1>20. ASSUME NEW c \in Calls, AnswerUnstored(c)  PROVE HeardAt(x)'
  <2>1. At(disc, c, "command") = "done"
    BY <1>20 DEF AnswerUnstored, At
  <2> QED BY <1>20, <2>1 DEF AnswerUnstored, Advance
<1>21. ASSUME NEW c \in Calls, EngineExits(c)  PROVE HeardAt(x)'
  BY <1>21 DEF EngineExits
<1>22. ASSUME NEW c \in Calls, WorkerReads(c)  PROVE HeardAt(x)'
  BY <1>22 DEF WorkerReads, WorkerMoves
<1>23. ASSUME NEW c \in Calls, WorkerKills(c)  PROVE HeardAt(x)'
  BY <1>23 DEF WorkerKills, WorkerMoves, Kill
<1>24. ASSUME NEW c \in Calls, WorkerReaps(c)  PROVE HeardAt(x)'
  BY <1>24 DEF WorkerReaps, WorkerMoves, Reaped
<1>25. ASSUME NEW c \in Calls, PumpEnds(c)  PROVE HeardAt(x)'
  BY <1>25 DEF PumpEnds, WorkerMoves
<1>26. ASSUME NEW c \in Calls, Finish(c)  PROVE HeardAt(x)'
  BY <1>26 DEF Finish, WorkerMoves
<1>27. ASSUME NEW c \in Calls, WorkerTells(c)  PROVE HeardAt(x)'
  BY <1>27 DEF WorkerTells, WorkerMoves, Emit
<1>28. ASSUME NEW c \in Calls, WorkerEnds(c)  PROVE HeardAt(x)'
  BY <1>28 DEF WorkerEnds, WorkerMoves
<1>29. ASSUME NEW c \in Calls, Watchdog(c)  PROVE HeardAt(x)'
  BY <1>29 DEF Watchdog
<1>30. ASSUME NEW c \in Calls, BeginInput(c)  PROVE HeardAt(x)'
  BY <1>30 DEF BeginInput, InputMoves
<1>31. ASSUME NEW c \in Calls, InputFails(c)  PROVE HeardAt(x)'
  BY <1>31 DEF InputFails, InputMoves
<1>32. ASSUME NEW c \in Calls, InputStops(c)  PROVE HeardAt(x)'
  BY <1>32 DEF InputStops, InputMoves
<1>33. ASSUME NEW c \in Calls, InputTells(c)  PROVE HeardAt(x)'
  BY <1>33 DEF InputTells, InputMoves, Emit
<1>34. ASSUME NEW c \in Calls, SendStop(c)  PROVE HeardAt(x)'
  BY <1>34 DEF SendStop
<1>35. ASSUME NEW c \in Calls, Connect(c)  PROVE HeardAt(x)'
  BY <1>35 DEF Connect, Advance, Guarded
<1>36. ASSUME NEW c \in Calls, Answer(c)  PROVE HeardAt(x)'
  BY <1>36 DEF Answer, Guarded
<1>37. ASSUME NEW c \in Calls, HearClosed(c)  PROVE HeardAt(x)'
  BY <1>37 DEF HearClosed
<1>38. ASSUME NEW c \in Calls, Disconnect(c)  PROVE HeardAt(x)'
  <2>1. DiscMoves(<<c, "window">>, "no", "asked")
    BY <1>38 DEF Disconnect
  <2>2. /\ At(disc, c, "window") = "no" /\ At(disc', x, "command") = At(disc, x, "command")
        /\ At(disc', x, "window") = IF x = c THEN "asked" ELSE At(disc, x, "window")
    <3>1. <<c, "window">> \in Calls \X Closers /\ <<c, "window">>[1] = c /\ <<c,
        "window">>[2] = "window"
      BY DEF Closers
    <3> QED BY <2>1, <3>1, Moves, <1>o, <1>t
  <2> QED BY <1>38, <2>2 DEF Disconnect
<1>39. ASSUME NEW c \in Calls, DisconnectReturns(c)  PROVE HeardAt(x)'
  <2>1. At(disc, c, "window") = "done"
    BY <1>39 DEF DisconnectReturns, At
  <2> QED BY <1>39, <2>1 DEF DisconnectReturns
<1>40. ASSUME NEW d \in Calls \X Closers, BeginClose(d)  PROVE HeardAt(x)'
  <2>1. DiscMoves(d, "asked", IF d[1] \in sessions THEN "writing" ELSE "done")
    BY <1>40 DEF BeginClose
  <2>2. /\ d[1] \in Calls /\ d[2] \in Closers /\ At(disc, d[1], d[2]) = "asked"
        /\ At(disc', x, "window") = IF x = d[1] /\ d[2] = "window" THEN IF d[1] \in sessions THEN "writing" ELSE "done" ELSE At(disc, x, "window")
        /\ At(disc', x, "command") = IF x = d[1] /\ d[2] = "command" THEN IF d[1] \in sessions THEN "writing" ELSE "done" ELSE At(disc, x, "command")
    BY <2>1, Moves, <1>o, <1>t
  <2>3. d[2] \in {"window", "command"}
    BY <2>2 DEF Closers
  <2> QED BY <1>40, <2>2, <2>3 DEF BeginClose
<1>41. ASSUME NEW d \in Calls \X Closers, WriteClose(d)  PROVE HeardAt(x)'
  <2>1. DiscMoves(d, "writing", "telling")
    BY <1>41 DEF WriteClose
  <2>2. /\ d[1] \in Calls /\ d[2] \in Closers /\ At(disc, d[1], d[2]) = "writing"
        /\ At(disc', x, "window") = IF x = d[1] /\ d[2] = "window" THEN "telling" ELSE At(disc,
            x, "window")
        /\ At(disc', x, "command") = IF x = d[1] /\ d[2] = "command" THEN "telling" ELSE At(disc, x, "command")
    BY <2>1, Moves, <1>o, <1>t
  <2>3. d[2] \in {"window", "command"}
    BY <2>2 DEF Closers
  <2> QED BY <1>41, <2>2, <2>3 DEF WriteClose
<1>42. ASSUME NEW d \in Calls \X Closers, TellClose(d)  PROVE HeardAt(x)'
  <2>1. DiscMoves(d, "telling", "done")
    BY <1>42 DEF TellClose
  <2>2. /\ d[1] \in Calls /\ d[2] \in Closers /\ At(disc, d[1], d[2]) = "telling"
        /\ At(disc', x, "window") = IF x = d[1] /\ d[2] = "window" THEN "done" ELSE At(disc, x,
            "window")
        /\ At(disc', x, "command") = IF x = d[1] /\ d[2] = "command" THEN "done" ELSE At(disc,
            x, "command")
    BY <2>1, Moves, <1>o, <1>t
  <2>3. d[2] \in {"window", "command"}
    BY <2>2 DEF Closers
  <2> QED BY <1>42, <2>2, <2>3 DEF TellClose, Emit
<1>43. ASSUME NEW d \in Calls \X Closers, QueueClose(d)  PROVE HeardAt(x)'
  <2>1. DiscMoves(d, "asked", "done")
    BY <1>43 DEF QueueClose
  <2>2. /\ d[1] \in Calls /\ d[2] \in Closers /\ At(disc, d[1], d[2]) = "asked"
        /\ At(disc', x, "window") = IF x = d[1] /\ d[2] = "window" THEN "done" ELSE At(disc, x,
            "window")
        /\ At(disc', x, "command") = IF x = d[1] /\ d[2] = "command" THEN "done" ELSE At(disc,
            x, "command")
    BY <2>1, Moves, <1>o, <1>t
  <2>3. d[2] \in {"window", "command"}
    BY <2>2 DEF Closers
  <2> QED BY <1>43, <2>2, <2>3 DEF QueueClose
<1>44. ASSUME NEW k \in Protocols, Listen(k)  PROVE HeardAt(x)'
  BY <1>44 DEF Listen, HydrationMoves
<1>45. ASSUME NEW k \in Protocols, AnswerList(k)  PROVE HeardAt(x)'
  BY <1>45 DEF AnswerList, HydrationMoves, Of
<1>46. ASSUME NEW k \in Protocols, Hydrate(k)  PROVE HeardAt(x)'
  BY <1>46 DEF Hydrate, HydrationMoves, Of
<1>47. CASE StopAll
  BY <1>47 DEF StopAll, Drain, Of
<1>48. CASE Reload
  BY <1>48 DEF Reload
<1>49. CASE UNCHANGED vars
  BY <1>49
<1> QED BY <1>1, <1>2, <1>3, <1>4, <1>5, <1>6, <1>7, <1>8, <1>9, <1>10, <1>11, <1>12, <1>13,
    <1>14, <1>15, <1>16, <1>17, <1>18, <1>19, <1>20, <1>21, <1>22, <1>23, <1>24, <1>25, <1>26,
    <1>27, <1>28, <1>29, <1>30, <1>31, <1>32, <1>33, <1>34, <1>35, <1>36, <1>37, <1>38, <1>39,
    <1>40, <1>41, <1>42, <1>43, <1>44, <1>45, <1>46, <1>47, <1>48, <1>49, Cases



LEMMA ShownStep ==
  ASSUME TypeOK, NEW x \in Calls, Lives, RegisteredAt(x), ToldAt(x), HeardAt(x),
         HasEngine(x) => ShownAt(x), [Next]_vars  PROVE (HasEngine(x) => ShownAt(x))'
<1>f. /\ inst' = inst /\ kind' = kind /\ kind \in [Calls -> Protocols]
      /\ inst.shared \in Nat /\ inst.vnc \in Nat
  BY Fixed
<1>t. x \in Calls /\ DOMAIN cmd = Calls /\ DOMAIN worker = Calls /\ DOMAIN emitted = Calls /\ DOMAIN input = Calls /\ DOMAIN rows = Calls /\ DOMAIN attempt = Calls
  BY DEF TypeOK
<1>o. "window" \in Closers /\ "command" \in Closers
  BY DEF Closers
<1>h. DOMAIN hydration = Protocols /\ kind[x] \in Protocols
  BY <1>f DEF TypeOK
<1> USE <1>f, <1>t, <1>h DEF Lives, RegisteredAt, ToldAt, HeardAt, ShownAt, Behind, Sealed,
    Owed,
    Disconnects, Misses, Reports, HasEngine, Engines, Early, Late, Permits, Reads, vars,
    permits, tables, ending, process, stops, closes, wire, window
<1>1. ASSUME NEW c \in Calls, Refuse(c)  PROVE (HasEngine(x) => ShownAt(x))'
  BY <1>1 DEF Refuse, Advance
<1>2. ASSUME NEW c \in Calls, Look(c)  PROVE (HasEngine(x) => ShownAt(x))'
  BY <1>2 DEF Look, Advance
<1>3. ASSUME NEW c \in Calls, TakeShared(c)  PROVE (HasEngine(x) => ShownAt(x))'
  BY <1>3 DEF TakeShared, Advance
<1>4. ASSUME NEW c \in Calls, TakeVnc(c)  PROVE (HasEngine(x) => ShownAt(x))'
  BY <1>4 DEF TakeVnc, Advance
<1>5. ASSUME NEW c \in Calls, Reserve(c)  PROVE (HasEngine(x) => ShownAt(x))'
  BY <1>5 DEF Reserve, Advance, Drop
<1>6. ASSUME NEW c \in Calls, SpawnFirst(c)  PROVE (HasEngine(x) => ShownAt(x))'
  BY <1>6 DEF SpawnFirst, Spawn, Advance, Drop
<1>7. ASSUME NEW c \in Calls, StartFails(c)  PROVE (HasEngine(x) => ShownAt(x))'
  BY <1>7 DEF StartFails, Advance, Kill
<1>8. ASSUME NEW c \in Calls, EngineConnects(c)  PROVE (HasEngine(x) => ShownAt(x))'
  BY <1>8 DEF EngineConnects, Advance
<1>9. ASSUME NEW c \in Calls, CertificateUnknown(c)  PROVE (HasEngine(x) => ShownAt(x))'
  BY <1>9 DEF CertificateUnknown, Advance, Kill
<1>10. ASSUME NEW c \in Calls, DropStart(c)  PROVE (HasEngine(x) => ShownAt(x))'
  BY <1>10 DEF DropStart, Advance, Reaped, Drop
<1>11. ASSUME NEW c \in Calls, ReapRefused(c)  PROVE (HasEngine(x) => ShownAt(x))'
  BY <1>11 DEF ReapRefused, Advance, Reaped
<1>12. ASSUME NEW c \in Calls, OpenDialog(c)  PROVE (HasEngine(x) => ShownAt(x))'
  BY <1>12 DEF OpenDialog, Advance, Drop
<1>13. ASSUME NEW c \in Calls, AnswerDialog(c)  PROVE (HasEngine(x) => ShownAt(x))'
  BY <1>13 DEF AnswerDialog, Advance, Drop
<1>14. ASSUME NEW c \in Calls, SpawnApproved(c)  PROVE (HasEngine(x) => ShownAt(x))'
  BY <1>14 DEF SpawnApproved, Spawn, Advance, Drop
<1>15. ASSUME NEW c \in Calls, StopApproved(c)  PROVE (HasEngine(x) => ShownAt(x))'
  BY <1>15 DEF StopApproved, Advance, Drop
<1>16. ASSUME NEW c \in Calls, Commit(c)  PROVE (HasEngine(x) => ShownAt(x))'
  BY <1>16 DEF Commit, Advance, WorkerMoves, Kill
<1>17. ASSUME NEW c \in Calls, OpenShell(c)  PROVE (HasEngine(x) => ShownAt(x))'
  BY <1>17 DEF OpenShell, Advance, WorkerMoves
<1>18. ASSUME NEW c \in Calls, NEW to \in {"connected", "storing"}, Remember(c,
              to)  PROVE (HasEngine(x) => ShownAt(x))'
  BY <1>18 DEF Remember, Advance
<1>19. ASSUME NEW c \in Calls, Store(c)  PROVE (HasEngine(x) => ShownAt(x))'
  <2>1. CASE DiscMoves(<<c, "command">>, "no", "asked") /\ Advance(c, "storing", "unstored")
    <3>1. /\ At(disc, c, "command") = "no" /\ At(disc', x, "window") = At(disc, x, "window")
          /\ At(disc', x, "command") = IF x = c THEN "asked" ELSE At(disc, x, "command")
      <4>1. <<c, "command">> \in Calls \X Closers /\ <<c, "command">>[1] = c /\ <<c,
          "command">>[2] = "command"
        BY DEF Closers
      <4> QED BY <2>1, <4>1, Moves, <1>o, <1>t
    <3> QED BY <1>19, <2>1, <3>1 DEF Store, Advance
  <2>2. CASE UNCHANGED disc /\ Advance(c, "storing", "connected")
    BY <1>19, <2>2 DEF Store, Advance
  <2> QED BY <1>19, <2>1, <2>2 DEF Store
<1>20. ASSUME NEW c \in Calls, AnswerUnstored(c)  PROVE (HasEngine(x) => ShownAt(x))'
  <2>1. At(disc, c, "command") = "done"
    BY <1>20 DEF AnswerUnstored, At
  <2> QED BY <1>20, <2>1 DEF AnswerUnstored, Advance
<1>21. ASSUME NEW c \in Calls, EngineExits(c)  PROVE (HasEngine(x) => ShownAt(x))'
  BY <1>21 DEF EngineExits
<1>22. ASSUME NEW c \in Calls, WorkerReads(c)  PROVE (HasEngine(x) => ShownAt(x))'
  BY <1>22 DEF WorkerReads, WorkerMoves
<1>23. ASSUME NEW c \in Calls, WorkerKills(c)  PROVE (HasEngine(x) => ShownAt(x))'
  BY <1>23 DEF WorkerKills, WorkerMoves, Kill
<1>24. ASSUME NEW c \in Calls, WorkerReaps(c)  PROVE (HasEngine(x) => ShownAt(x))'
  BY <1>24 DEF WorkerReaps, WorkerMoves, Reaped
<1>25. ASSUME NEW c \in Calls, PumpEnds(c)  PROVE (HasEngine(x) => ShownAt(x))'
  BY <1>25 DEF PumpEnds, WorkerMoves
<1>26. ASSUME NEW c \in Calls, Finish(c)  PROVE (HasEngine(x) => ShownAt(x))'
  BY <1>26 DEF Finish, WorkerMoves
<1>27. ASSUME NEW c \in Calls, WorkerTells(c)  PROVE (HasEngine(x) => ShownAt(x))'
  BY <1>27 DEF WorkerTells, WorkerMoves, Emit
<1>28. ASSUME NEW c \in Calls, WorkerEnds(c)  PROVE (HasEngine(x) => ShownAt(x))'
  BY <1>28 DEF WorkerEnds, WorkerMoves
<1>29. ASSUME NEW c \in Calls, Watchdog(c)  PROVE (HasEngine(x) => ShownAt(x))'
  BY <1>29 DEF Watchdog
<1>30. ASSUME NEW c \in Calls, BeginInput(c)  PROVE (HasEngine(x) => ShownAt(x))'
  BY <1>30 DEF BeginInput, InputMoves
<1>31. ASSUME NEW c \in Calls, InputFails(c)  PROVE (HasEngine(x) => ShownAt(x))'
  BY <1>31 DEF InputFails, InputMoves
<1>32. ASSUME NEW c \in Calls, InputStops(c)  PROVE (HasEngine(x) => ShownAt(x))'
  BY <1>32 DEF InputStops, InputMoves
<1>33. ASSUME NEW c \in Calls, InputTells(c)  PROVE (HasEngine(x) => ShownAt(x))'
  BY <1>33 DEF InputTells, InputMoves, Emit
<1>34. ASSUME NEW c \in Calls, SendStop(c)  PROVE (HasEngine(x) => ShownAt(x))'
  BY <1>34 DEF SendStop
<1>35. ASSUME NEW c \in Calls, Connect(c)  PROVE (HasEngine(x) => ShownAt(x))'
  BY <1>35 DEF Connect, Advance, Guarded
<1>36. ASSUME NEW c \in Calls, Answer(c)  PROVE (HasEngine(x) => ShownAt(x))'
  BY <1>36 DEF Answer, Guarded
<1>37. ASSUME NEW c \in Calls, HearClosed(c)  PROVE (HasEngine(x) => ShownAt(x))'
  BY <1>37 DEF HearClosed
<1>38. ASSUME NEW c \in Calls, Disconnect(c)  PROVE (HasEngine(x) => ShownAt(x))'
  <2>1. DiscMoves(<<c, "window">>, "no", "asked")
    BY <1>38 DEF Disconnect
  <2>2. /\ At(disc, c, "window") = "no" /\ At(disc', x, "command") = At(disc, x, "command")
        /\ At(disc', x, "window") = IF x = c THEN "asked" ELSE At(disc, x, "window")
    <3>1. <<c, "window">> \in Calls \X Closers /\ <<c, "window">>[1] = c /\ <<c,
        "window">>[2] = "window"
      BY DEF Closers
    <3> QED BY <2>1, <3>1, Moves, <1>o, <1>t
  <2> QED BY <1>38, <2>2 DEF Disconnect
<1>39. ASSUME NEW c \in Calls, DisconnectReturns(c)  PROVE (HasEngine(x) => ShownAt(x))'
  <2>1. At(disc, c, "window") = "done"
    BY <1>39 DEF DisconnectReturns, At
  <2> QED BY <1>39, <2>1 DEF DisconnectReturns
<1>40. ASSUME NEW d \in Calls \X Closers, BeginClose(d)  PROVE (HasEngine(x) => ShownAt(x))'
  <2>1. DiscMoves(d, "asked", IF d[1] \in sessions THEN "writing" ELSE "done")
    BY <1>40 DEF BeginClose
  <2>2. /\ d[1] \in Calls /\ d[2] \in Closers /\ At(disc, d[1], d[2]) = "asked"
        /\ At(disc', x, "window") = IF x = d[1] /\ d[2] = "window" THEN IF d[1] \in sessions THEN "writing" ELSE "done" ELSE At(disc, x, "window")
        /\ At(disc', x, "command") = IF x = d[1] /\ d[2] = "command" THEN IF d[1] \in sessions THEN "writing" ELSE "done" ELSE At(disc, x, "command")
    BY <2>1, Moves, <1>o, <1>t
  <2>3. d[2] \in {"window", "command"}
    BY <2>2 DEF Closers
  <2> QED BY <1>40, <2>2, <2>3 DEF BeginClose
<1>41. ASSUME NEW d \in Calls \X Closers, WriteClose(d)  PROVE (HasEngine(x) => ShownAt(x))'
  <2>1. DiscMoves(d, "writing", "telling")
    BY <1>41 DEF WriteClose
  <2>2. /\ d[1] \in Calls /\ d[2] \in Closers /\ At(disc, d[1], d[2]) = "writing"
        /\ At(disc', x, "window") = IF x = d[1] /\ d[2] = "window" THEN "telling" ELSE At(disc,
            x, "window")
        /\ At(disc', x, "command") = IF x = d[1] /\ d[2] = "command" THEN "telling" ELSE At(disc, x, "command")
    BY <2>1, Moves, <1>o, <1>t
  <2>3. d[2] \in {"window", "command"}
    BY <2>2 DEF Closers
  <2> QED BY <1>41, <2>2, <2>3 DEF WriteClose
<1>42. ASSUME NEW d \in Calls \X Closers, TellClose(d)  PROVE (HasEngine(x) => ShownAt(x))'
  <2>1. DiscMoves(d, "telling", "done")
    BY <1>42 DEF TellClose
  <2>2. /\ d[1] \in Calls /\ d[2] \in Closers /\ At(disc, d[1], d[2]) = "telling"
        /\ At(disc', x, "window") = IF x = d[1] /\ d[2] = "window" THEN "done" ELSE At(disc, x,
            "window")
        /\ At(disc', x, "command") = IF x = d[1] /\ d[2] = "command" THEN "done" ELSE At(disc,
            x, "command")
    BY <2>1, Moves, <1>o, <1>t
  <2>3. d[2] \in {"window", "command"}
    BY <2>2 DEF Closers
  <2> QED BY <1>42, <2>2, <2>3 DEF TellClose, Emit
<1>43. ASSUME NEW d \in Calls \X Closers, QueueClose(d)  PROVE (HasEngine(x) => ShownAt(x))'
  <2>1. DiscMoves(d, "asked", "done")
    BY <1>43 DEF QueueClose
  <2>2. /\ d[1] \in Calls /\ d[2] \in Closers /\ At(disc, d[1], d[2]) = "asked"
        /\ At(disc', x, "window") = IF x = d[1] /\ d[2] = "window" THEN "done" ELSE At(disc, x,
            "window")
        /\ At(disc', x, "command") = IF x = d[1] /\ d[2] = "command" THEN "done" ELSE At(disc,
            x, "command")
    BY <2>1, Moves, <1>o, <1>t
  <2>3. d[2] \in {"window", "command"}
    BY <2>2 DEF Closers
  <2> QED BY <1>43, <2>2, <2>3 DEF QueueClose
<1>44. ASSUME NEW k \in Protocols, Listen(k)  PROVE (HasEngine(x) => ShownAt(x))'
  BY <1>44 DEF Listen, HydrationMoves
<1>45. ASSUME NEW k \in Protocols, AnswerList(k)  PROVE (HasEngine(x) => ShownAt(x))'
  BY <1>45 DEF AnswerList, HydrationMoves, Of
<1>46. ASSUME NEW k \in Protocols, Hydrate(k)  PROVE (HasEngine(x) => ShownAt(x))'
  BY <1>46 DEF Hydrate, HydrationMoves, Of
<1>47. CASE StopAll
  BY <1>47 DEF StopAll, Drain, Of
<1>48. CASE Reload
  BY <1>48 DEF Reload
<1>49. CASE UNCHANGED vars
  BY <1>49
<1> QED BY <1>1, <1>2, <1>3, <1>4, <1>5, <1>6, <1>7, <1>8, <1>9, <1>10, <1>11, <1>12, <1>13,
    <1>14, <1>15, <1>16, <1>17, <1>18, <1>19, <1>20, <1>21, <1>22, <1>23, <1>24, <1>25, <1>26,
    <1>27, <1>28, <1>29, <1>30, <1>31, <1>32, <1>33, <1>34, <1>35, <1>36, <1>37, <1>38, <1>39,
    <1>40, <1>41, <1>42, <1>43, <1>44, <1>45, <1>46, <1>47, <1>48, <1>49, Cases


LEMMA Initially == Init => IInv
<1>1. SUFFICES ASSUME Init  PROVE IInv
  OBVIOUS
<1>2. inst \in Setting /\ inst.reloads \in Nat /\ inst.shared \in Nat /\ inst.vnc \in Nat
  BY <1>1, DesktopSessionsAssumption DEF Init, Setting
<1>3. TypeOK
  BY <1>1, <1>2, NoCallAssumption DEF Init, TypeOK
<1>4. Lives /\ Permitted
  BY <1>1 DEF Init, Lives, Permitted, Unreaped, Permits, Early, Late, Reads, Starts
<1>5. Capped /\ Seen
  BY <1>1, <1>2, FS_EmptySet DEF Init, Capped, Seen, SeenAt, Reserved, Permits, Reads
<1>6. ASSUME NEW c \in Calls  PROVE At(disc, c, "window") = "no" /\ At(disc, c,
             "command") = "no"
  BY <1>1 DEF Init, At, Closers
<1>7. Registered /\ Told
  BY <1>1, <1>6 DEF Init, Registered, RegisteredAt, Told, ToldAt, Owed, Disconnects, Misses,
    Reports, Reads
<1>8. kind \in [Calls -> Protocols]
  BY <1>2 DEF kind, Setting
<1>9. Heard
  BY <1>1, <1>6, <1>8 DEF Init, Heard, HeardAt
<1>10. Shown
  BY <1>1, <1>8 DEF Init, Shown, ShownAt
<1> QED BY <1>3, <1>4, <1>5, <1>7, <1>9, <1>10 DEF IInv

LEMMA Inductive == IInv /\ [Next]_vars => IInv'
<1> SUFFICES ASSUME IInv, [Next]_vars  PROVE IInv'
  OBVIOUS
<1>1. TypeOK'  BY TypeStep DEF IInv
<1>2. Lives'  BY LivesStep DEF IInv
<1>3. Permitted'  BY PermittedStep DEF IInv
<1>4. Capped'  BY CappedStep DEF IInv
<1>5. Registered'
  <2>1. ASSUME NEW x \in Calls  PROVE RegisteredAt(x)'
    BY RegisteredStep DEF IInv, Registered
  <2> QED BY <2>1 DEF Registered
<1>6. Told'
  <2>1. ASSUME NEW x \in Calls  PROVE ToldAt(x)'
    BY ToldStep DEF IInv, Registered, Told
  <2> QED BY <2>1 DEF Told
<1>7. Heard'
  <2>1. ASSUME NEW x \in Calls  PROVE HeardAt(x)'
    BY HeardStep DEF IInv, Registered, Told, Heard
  <2> QED BY <2>1 DEF Heard
<1>8. Shown'
  <2>1. ASSUME NEW x \in Calls  PROVE (HasEngine(x) => ShownAt(x))'
    BY ShownStep DEF IInv, Registered, Told, Heard, Shown
  <2> QED BY <2>1 DEF Shown
<1>9. Seen'
  <2>1. ASSUME NEW x \in Calls  PROVE SeenAt(x)'
    BY SeenStep DEF IInv, Seen
  <2> QED BY <2>1 DEF Seen
<1> QED BY <1>1, <1>2, <1>3, <1>4, <1>5, <1>6, <1>7, <1>8, <1>9 DEF IInv

LEMMA OwedIsAboutToTell == \A c \in Calls : Owed(c) <=> AboutToTell(c)
BY DEF Owed, AboutToTell, Disconnects, Misses, Reports, At, Closers

(* The invariant the other results rest on. *)
THEOREM InvariantHolds == Spec => []IInv
BY Initially, Inductive, PTL DEF Spec

(* Every variable of the commands, the engines, the registries and the window *)
(* keeps its type.                                                            *)
THEOREM TypeCorrect == Spec => []TypeOK
<1>1. IInv => TypeOK  BY DEF IInv
<1> QED BY <1>1, InvariantHolds, PTL

(* There are never more unreaped engines than the two caps allow (reserve,    *)
(* and the permits that follow the worker), for any number of calls.          *)
THEOREM CapsHold == Spec => []EnginesWithinCaps
<1>1. IInv => EnginesWithinCaps
  <2> SUFFICES ASSUME IInv  PROVE EnginesWithinCaps
    OBVIOUS
  <2>1. TypeOK /\ Lives /\ Permitted /\ Capped
    BY DEF IInv
  <2>2. Unreaped \subseteq slots
    BY <2>1 DEF Lives, Permitted, Unreaped, Starts, Permits, Reads
  <2>3. Of("vnc", Unreaped) \subseteq vncSlots
    BY <2>1 DEF Lives, Permitted, Unreaped, Of, Starts, Permits, Reads
  <2> QED BY <2>1, <2>2, <2>3, Shrinks DEF EnginesWithinCaps
<1> QED BY <1>1, InvariantHolds, PTL

(* Of all who race to close a session one tells the window of it, and only    *)
(* the exit of the app ends one in silence (finish_worker, disconnect, input, *)
(* stop_all).                                                                 *)
THEOREM OneTells == Spec => []ToldOnce
<1>1. IInv => ToldOnce
  <2> SUFFICES ASSUME IInv, NEW c \in Calls
      PROVE  /\ emitted[c] <= 1
             /\ emitted[c] = 1 => c \notin sessions
             /\ worker[c] = "done" /\ ~AboutToTell(c) /\ ~Sealed(c) => emitted[c] = 1
    BY DEF ToldOnce
  <2>1. ToldAt(c) /\ RegisteredAt(c)
    BY DEF IInv, Told, Registered
  <2>2. c \in sessions => worker[c] # "done"
    BY <2>1 DEF RegisteredAt, Reads
  <2> QED BY <2>1, <2>2, OwedIsAboutToTell DEF ToldAt
<1> QED BY <1>1, InvariantHolds, PTL

(* stop_all: when a registry is sealed, who has a running engine then, be it  *)
(* a connect under way, a session or one that is closing, has been told to    *)
(* stop it or is about to be, for any number of calls.                        *)
THEOREM StopsReachEngines == Spec => []StopReachesEngines
<1>1. IInv => StopReachesEngines
  <2> SUFFICES ASSUME IInv, NEW c \in Calls, Sealed(c), engine[c] = "alive"
      PROVE  c \in stop \cup signals
    BY DEF StopReachesEngines
  <2>1. HasEngine(c) /\ (cmd[c] \in Starts \/ worker[c] \in Reads)
    BY DEF IInv, Lives, Unreaped
  <2>2. SeenAt(c)
    BY DEF IInv, Seen
  <2> QED BY <2>1, <2>2 DEF SeenAt, Reserved, Permits, Starts
<1> QED BY <1>1, InvariantHolds, PTL

(* When nothing about a session is under way, the window shows a row for it   *)
(* exactly when its registry lists it (reconcileSessionSnapshot and the race  *)
(* guard of the hooks), for any number of calls and reloads.                  *)
THEOREM RowsHold == Spec => []RowsSettle
<1>1. IInv => RowsSettle
  <2> SUFFICES ASSUME IInv, NEW c \in Calls, HasEngine(c), ~Sealed(c), ~AboutToTell(c),
                      c \notin events, hydration[kind[c]] = "done"
      PROVE  /\ rows[c] > 0 => c \in sessions
             /\ attempt[c] = "settled" => rows[c] = IF c \in sessions THEN 1 ELSE 0
    BY DEF RowsSettle, Guarded
  <2>1. ShownAt(c) /\ ~Owed(c)
    BY OwedIsAboutToTell DEF IInv, Shown
  <2>2. rows[c] > 0 => c \in sessions
    BY <2>1 DEF ShownAt, Behind
  <2>3. rows[c] \in {0, 1}
    BY <2>1 DEF ShownAt
  <2>4. c \in sessions /\ attempt[c] = "settled" => rows[c] = 1
    BY <2>1 DEF ShownAt
  <2> QED BY <2>2, <2>3, <2>4
<1> QED BY <1>1, InvariantHolds, PTL
==============================================================================
