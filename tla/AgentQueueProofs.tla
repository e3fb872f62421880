-------------------------- MODULE AgentQueueProofs --------------------------
(***************************************************************************)
(* Proofs about the sessions of agents.                                    *)
(*                                                                         *)
(* AgentQueue, for any commands, turns, repeated reports and ends of the   *)
(* session.  A prompt has one place at a time (Placed); from that the      *)
(* queue is shown to implement AgentPromptLine.                            *)
(*                                                                         *)
(* AgentDaemon, for any commands, windows and service processes.  Requests *)
(* travel over connections that were greeted, to the process these lead to *)
(* (Wiring); so what an answer names is in a registry the window hears     *)
(* from, or was seen to close while the command ran (Shown).               *)
(***************************************************************************)
EXTENDS AgentQueue, AgentDaemon, SequenceTheorems, TLAPS

\* The labels a thread passes, by its kind.
Steps(t) ==
  /\ t \in Enqueuers => pc[t] \in {"idle", "choose", "push", "store", "tell", "get", "write",
                                   "mark", "done", "failed"}
  /\ t \in Typers    => pc[t] \in {"idle", "write", "mark", "done", "failed"}
  /\ t \in Clearers  => pc[t] \in {"idle", "store", "tell", "done", "failed"}
  /\ t \in Handlers  => pc[t] \in {"idle", "report", "pop", "measure", "store", "tell", "get",
                                   "write", "mark", "answer", "reject", "done"}

\* A command carries its own prompt, a handler the one it took.
Carrying == {"measure", "store", "tell", "get", "write"}
Carries(t) ==
  /\ t \in Prompts => local[t].carry = t
  /\ t \in Handlers /\ pc[t] \in Carrying => local[t].carry \in Enqueuers

\* The handler of an attempt that was not made has not begun.
Unborn(a) == AttemptOf(a) > tries[HookOf(a)] => pc[a] = "idle"

\* Where a prompt is, if it is not in the queue or on the terminal.
Stage(p) == CASE pc[p] \in {"idle", "choose", "push"} -> "offered"
              [] pc[p] \in {"get", "write"} -> "own"
              [] OTHER -> "past"

\* A prompt has one place at a time.
Hand(a, p) == pc[a] \in Carrying /\ local[a].carry = p
Placed(p) ==
  /\ Stage(p) # "past" => ~InSeq(p, queue) /\ ~InSeq(p, typed) /\ \A a \in Handlers : ~Hand(a, p)
  /\ InSeq(p, queue) => ~InSeq(p, typed) /\ \A a \in Handlers : ~Hand(a, p)
  /\ InSeq(p, typed) => \A a \in Handlers : ~Hand(a, p)
  /\ \A a, b \in Handlers : Hand(a, p) /\ Hand(b, p) => a = b
Single == \A i, j \in DOMAIN queue : queue[i] = queue[j] => i = j

EndsOnce == ClosedOnce /\ (live => ~stopped)

Threaded == \A t \in Threads : Steps(t) /\ Carries(t)
IInv ==
  /\ TypeOK /\ QueueBounded /\ EndsOnce /\ Threaded
  /\ \A a \in Handlers : Unborn(a)
  /\ Single /\ \A p \in Enqueuers : Placed(p)
----------------------------------------------------------------------------
(* A step of a thread, and the steps that are not.                          *)

ThreadStep(t) ==
  \/ t \in Enqueuers /\ Enqueue(t)
  \/ t \in Clearers /\ Clear(t)
  \/ t \in Handlers /\ Handle(t)
  \/ Deliver(t)

LEMMA NextSteps ==
  Next => \/ \E t \in Threads : ThreadStep(t)
          \/ \E h \in Hooks : HookStep(h)
          \/ Cli \/ End
BY DEF Next, ThreadStep, Threads, Prompts

LEMMA HandlerParts ==
  ASSUME NEW a \in Handlers
  PROVE  /\ HookOf(a) \in Hooks /\ AttemptOf(a) \in 1..Attempts
         /\ TurnOf(a) \in 0..MaxTurns /\ Verdict(a) \in Lifecycles
         /\ a \in Threads /\ a \notin Prompts /\ a \notin Clearers
<1>1. PICK h \in Hooks, n \in 1..Attempts : a = <<h, n>>
  BY DEF Handlers
<1>2. h \in (0..MaxTurns) \X Verdicts
  BY QueueAssumption DEF Hooks
<1>3. h[1] \in 0..MaxTurns /\ h[2] \in Lifecycles
  BY <1>2, QueueAssumption
<1>4. a \in Threads /\ a \notin Prompts /\ a \notin Clearers
  BY QueueAssumption DEF Threads
<1> QED BY <1>1, <1>3, <1>4 DEF HookOf, AttemptOf, TurnOf, Verdict

LEMMA Attempted ==
  ASSUME TypeOK, NEW h \in Hooks, tries[h] < Attempts
  PROVE  <<h, tries[h] + 1>> \in Handlers /\ tries[h] + 1 \in 0..Attempts
BY QueueAssumption DEF TypeOK, Handlers

LEMMA SummaryTypes ==
  ASSUME TypeOK
  PROVE  /\ \A next \in Lifecycles, source \in Sources : UpdateState(summary, next, source) \in Summaries
         /\ MarkWorking(summary, "Text") \in Summaries
BY DEF TypeOK, Summaries, UpdateState, MarkWorking, Lifecycles, Sources

LEMMA LocalTypes ==
  ASSUME TypeOK, NEW t \in Threads
  PROVE  /\ local[t].count \in Nat
         /\ \A v \in BOOLEAN : [local EXCEPT ![t].free = v] \in [Threads -> Locals]
         /\ \A v \in Nat : [local EXCEPT ![t].count = v] \in [Threads -> Locals]
         /\ \A v \in Prompts : [local EXCEPT ![t].carry = v] \in [Threads -> Locals]
         /\ [local EXCEPT ![t] = Fresh(t)] \in [Threads -> Locals]
BY DEF TypeOK, Locals, Fresh

LEMMA Fresheners == \A t : t \in Threads => Fresh(t) \in Locals
BY DEF Fresh, Locals

LEMMA CommandTypes ==
  ASSUME TypeOK, NEW t \in Threads, (t \in Enqueuers /\ Enqueue(t)) \/ (t \in Clearers /\ Clear(t))
  PROVE  TypeOK'
<1> USE DEF sessionVars, queueVars, cliVars, hookVars, Goto, Moves
<1>1. Len(queue) \in Nat /\ queue \in Seq(Enqueuers)
  BY DEF TypeOK
<1>2. CASE EnqueueReads(t)
  <2>1. local' \in [Threads -> Locals]
    BY <1>2, LocalTypes DEF EnqueueReads, Releases
  <2>2. pc' \in [Threads -> Labels]
    BY <1>2 DEF EnqueueReads, TypeOK, Labels
  <2> QED BY <1>2, <2>1, <2>2 DEF EnqueueReads, TypeOK
<1>3. CASE EnqueueChooses(t)
  <2>1. local' \in [Threads -> Locals]
    BY <1>3, LocalTypes DEF EnqueueChooses
  <2>2. pc' \in [Threads -> Labels]
    BY <1>3 DEF EnqueueChooses, TypeOK, Labels
  <2> QED BY <1>3, <2>1, <2>2 DEF EnqueueChooses, TypeOK
<1>4. CASE t \in Enqueuers /\ Push(t)
  <2>1. local' \in [Threads -> Locals]
    <3>1. Len(queue) + 1 \in Nat
      BY <1>1
    <3>2. local' = [local EXCEPT ![t].count = Len(queue) + 1]
      BY <1>4 DEF Push
    <3> QED BY <3>1, <3>2, LocalTypes
  <2>2. pc' \in [Threads -> Labels]
    BY <1>4 DEF Push, TypeOK, Labels
  <2>3. queue' \in Seq(Enqueuers)
    BY <1>1, <1>4 DEF Push
  <2> QED BY <1>4, <2>1, <2>2, <2>3 DEF Push, TypeOK
<1>5. CASE EnqueueNoSession(t) \/ PushRefused(t) \/ ClearNoSession(t)
  BY <1>5 DEF EnqueueNoSession, PushRefused, ClearNoSession, TypeOK, Labels
<1>6. CASE ClearQueue(t)
  <2>1. queue' \in Seq(Enqueuers)
    BY <1>6 DEF ClearQueue
  <2> QED BY <1>6, <2>1 DEF ClearQueue, TypeOK, Labels
<1> QED BY <1>2, <1>3, <1>4, <1>5, <1>6 DEF Enqueue, Clear

LEMMA DeliverTypes ==
  ASSUME TypeOK, Threaded, NEW t \in Threads, Deliver(t)
  PROVE  TypeOK'
<1> USE DEF sessionVars, queueVars, cliVars, hookVars, Goto, Moves, After
<1>1. CASE StoreDepth(t)
  BY <1>1, LocalTypes DEF StoreDepth, TypeOK, Labels
<1>2. CASE TellDepth(t)
  <2>1. local' \in [Threads -> Locals] /\ shown' \in Nat
    BY <1>2, LocalTypes DEF TellDepth
  <2> QED BY <1>2, <2>1 DEF TellDepth, TypeOK, Labels
<1>3. CASE GetEntry(t) \/ NoEntry(t) \/ WriteFails(t)
  BY <1>3 DEF GetEntry, NoEntry, WriteFails, TypeOK, Labels
<1>4. CASE Write(t)
  <2>1. local[t].carry \in Prompts
    BY <1>4 DEF Write, At, Threaded, Steps, Carries, Threads, Prompts, Carrying
  <2>2. typed' \in Seq(Prompts)
    BY <1>4, <2>1 DEF Write, TypeOK
  <2> QED BY <1>4, <2>2 DEF Write, TypeOK, Labels
<1>5. CASE Mark(t)
  BY <1>5, SummaryTypes DEF Mark, TypeOK, Labels
<1> QED BY <1>1, <1>2, <1>3, <1>4, <1>5 DEF Deliver

LEMMA HandleTypes ==
  ASSUME TypeOK, NEW a \in Handlers, Handle(a)
  PROVE  TypeOK'
<1> USE HandlerParts DEF sessionVars, queueVars, cliVars, hookVars, Goto, Moves
<1>1. CASE Report(a)
  <2>1. summary' \in Summaries
    BY <1>1, SummaryTypes DEF Report, Sources
  <2> QED BY <1>1, <2>1 DEF Report, TypeOK, Labels
<1>2. CASE ReportRejected(a) \/ PopNothing(a)
  BY <1>2 DEF ReportRejected, PopNothing, TypeOK, Labels
<1>3. CASE Pop(a)
  <2>1. queue \in Seq(Enqueuers) /\ queue # <<>>
    BY <1>3 DEF Pop, TypeOK
  <2>2. Head(queue) \in Prompts /\ Tail(queue) \in Seq(Enqueuers)
    BY <2>1, HeadTailProperties DEF Prompts
  <2>3. local' \in [Threads -> Locals]
    BY <1>3, <2>2, LocalTypes DEF Pop
  <2>4. released' \in [0..MaxTurns -> Nat]
    BY <1>3 DEF Pop, TypeOK
  <2> QED BY <1>3, <2>2, <2>3, <2>4 DEF Pop, TypeOK, Labels
<1>4. CASE Measure(a)
  <2>1. Len(queue) \in Nat
    BY DEF TypeOK
  <2>2. local' \in [Threads -> Locals]
    BY <1>4, <2>1, LocalTypes DEF Measure
  <2> QED BY <1>4, <2>2 DEF Measure, TypeOK, Labels
<1>5. ASSUME NEW label, NEW outcome \in HookStates, Answers(a, label, outcome)  PROVE TypeOK'
  <2>1. local' \in [Threads -> Locals]
    BY <1>5, LocalTypes DEF Answers
  <2> QED BY <1>5, <2>1 DEF Answers, TypeOK, Labels
<1> QED BY <1>1, <1>2, <1>3, <1>4, <1>5 DEF Handle, Answer, Reject, Again, HookStates

LEMMA OtherTypes ==
  ASSUME TypeOK, EndsOnce, (\E h \in Hooks : HookStep(h)) \/ Cli \/ End
  PROVE  TypeOK'
<1> USE DEF sessionVars, queueVars, cliVars, hookVars, Goto
<1>1. ASSUME NEW h \in Hooks, HookStep(h)  PROVE TypeOK'
  <2>1. CASE HookSends(h)
    BY <2>1, Attempted DEF HookSends, Attempting, TypeOK, Labels, HookStates
  <2>2. CASE HookTurnedAway(h)
    BY <2>2, Attempted DEF HookTurnedAway, Attempting, Again, TypeOK, HookStates
  <2>3. CASE HookTimesOut(h)
    BY <2>3 DEF HookTimesOut, Again, TypeOK, HookStates
  <2> QED BY <1>1, <2>1, <2>2, <2>3 DEF HookStep
<1>2. CASE Cli
  <2>1. CASE CliReads
    <3>1. turn' \in 0..MaxTurns /\ busy' \in BOOLEAN
      BY <2>1, QueueAssumption DEF CliReads, TypeOK
    <3>2. hook' \in [Hooks -> HookStates]
      BY <2>1 DEF CliReads, TypeOK, HookStates
    <3> QED BY <2>1, <3>1, <3>2 DEF CliReads, TypeOK
  <2>2. CASE CliFinishes
    BY <2>2 DEF CliFinishes, TypeOK, HookStates
  <2>3. CASE CliExits
    BY <2>3 DEF CliExits, TypeOK
  <2>4. CASE Guess
    <3>1. summary' \in Summaries
      BY <2>4, SummaryTypes, QueueAssumption DEF Guess, Sources
    <3> QED BY <2>4, <3>1 DEF Guess, TypeOK
  <2> QED BY <1>2, <2>1, <2>2, <2>3, <2>4 DEF Cli
<1>3. CASE End
  <2>1. closed' \in 0..1
    BY <1>3 DEF End, WaitReturns, DisconnectTerminates, DisconnectRemoves, StopAll, Remove, TypeOK,
         EndsOnce, ClosedOnce
  <2> QED BY <1>3, <2>1 DEF End, WaitReturns, DisconnectTerminates, DisconnectRemoves, StopAll,
             Remove, TypeOK
<1> QED BY <1>1, <1>2, <1>3

LEMMA TypeStep ==
  ASSUME TypeOK, EndsOnce, Threaded, [Next]_vars
  PROVE  TypeOK'
<1>1. CASE UNCHANGED vars
  BY <1>1 DEF vars, sessionVars, queueVars, cliVars, hookVars, TypeOK
<1> QED BY <1>1, CommandTypes, DeliverTypes, HandleTypes, OtherTypes, NextSteps DEF ThreadStep
----------------------------------------------------------------------------
(* The end of the session, and where threads are.                           *)

LEMMA EndsOnceStep ==
  ASSUME TypeOK, EndsOnce, [Next]_vars
  PROVE  EndsOnce'
<1> USE DEF EndsOnce, ClosedOnce, sessionVars
<1>1. CASE End
  <2>1. CASE Remove /\ stopped' = stopped
    BY <2>1 DEF Remove, TypeOK
  <2>2. CASE UNCHANGED <<live, closed, stopped>>
    BY <2>2
  <2>3. CASE StopAll
    BY <2>3 DEF StopAll, TypeOK
  <2> QED BY <1>1, <2>1, <2>2, <2>3 DEF End, WaitReturns, DisconnectTerminates, DisconnectRemoves
<1>2. ASSUME NEW t \in Threads, ThreadStep(t)  PROVE UNCHANGED sessionVars
  BY <1>2 DEF ThreadStep, Enqueue, EnqueueReads, EnqueueNoSession, EnqueueChooses, Push, PushRefused,
       Clear, ClearQueue, ClearNoSession, Handle, Report, ReportRejected, Pop, PopNothing, Measure,
       Answer, Reject, Answers, Deliver, StoreDepth, TellDepth, GetEntry, NoEntry, Write, WriteFails,
       Mark, Moves
<1>3. ASSUME (\E h \in Hooks : HookStep(h)) \/ Cli \/ UNCHANGED vars
      PROVE  UNCHANGED <<live, closed, stopped>>
  BY <1>3 DEF HookStep, HookSends, HookTurnedAway, HookTimesOut, Cli, CliReads, CliFinishes,
       CliExits, Guess, vars
<1> QED BY <1>1, <1>2, <1>3, NextSteps

\* A step of t moves no other thread.
LEMMA ThreadAlone ==
  ASSUME TypeOK, NEW t \in Threads, ThreadStep(t), NEW u \in Threads, u # t
  PROVE  pc'[u] = pc[u] /\ local'[u] = local[u]
<1> USE DEF TypeOK, Goto, Moves
<1>1. CASE t \in Handlers /\ Handle(t)
  BY <1>1 DEF Handle, Report, ReportRejected, Pop, PopNothing, Measure, Answer, Reject, Answers
<1>2. CASE Deliver(t)
  BY <1>2 DEF Deliver, StoreDepth, TellDepth, GetEntry, NoEntry, Write, WriteFails, Mark
<1>3. CASE (t \in Enqueuers /\ Enqueue(t)) \/ (t \in Clearers /\ Clear(t))
  BY <1>3 DEF Enqueue, EnqueueReads, EnqueueNoSession, EnqueueChooses, Push, PushRefused,
       Clear, ClearQueue, ClearNoSession
<1> QED BY <1>1, <1>2, <1>3 DEF ThreadStep

\* Only Pop and the end of a report change what a thread carries.
LEMMA CarryKept ==
  ASSUME TypeOK, NEW t \in Threads
  PROVE  \A v, next : next = [local EXCEPT ![t].free = v] \/ next = [local EXCEPT ![t].count = v]
                     => next[t].carry = local[t].carry
BY DEF TypeOK, Locals

LEMMA ThreadMoves ==
  ASSUME TypeOK, NEW t \in Threads, Steps(t), Carries(t), ThreadStep(t)
  PROVE  Steps(t)' /\ Carries(t)'
<1> USE DEF Steps, Carries, Carrying, Goto, Moves, At
<1>1. pc \in [Threads -> Labels] /\ local \in [Threads -> Locals]
  BY DEF TypeOK
<1>2. /\ t \in Enqueuers => t \notin Typers /\ t \notin Clearers /\ t \notin Handlers /\ t \in Prompts
      /\ t \in Typers => t \notin Clearers /\ t \notin Handlers /\ t \in Prompts
      /\ t \in Clearers => t \notin Handlers /\ t \notin Prompts
      /\ t \in Handlers => t \notin Prompts
      /\ t \in Prompts => t \in Enqueuers \/ t \in Typers
  BY QueueAssumption DEF Prompts
<1>3. CASE t \in Handlers /\ Handle(t)
  <2>1. CASE Pop(t)
    <3>1. Head(queue) \in Enqueuers
      BY <2>1, HeadTailProperties DEF Pop, TypeOK
    <3> QED BY <1>1, <1>2, <1>3, <2>1, <3>1 DEF Pop
  <2>2. CASE Report(t) \/ ReportRejected(t) \/ PopNothing(t)
    BY <1>1, <1>2, <1>3, <2>2 DEF Report, ReportRejected, PopNothing
  <2>3. CASE Measure(t)
    <3>1. local'[t].carry = local[t].carry
      BY <1>1, <2>3 DEF Measure
    <3> QED BY <1>1, <1>2, <1>3, <2>3, <3>1 DEF Measure
  <2>4. CASE Answer(t) \/ Reject(t)
    BY <1>1, <1>2, <1>3, <2>4 DEF Answer, Reject, Answers
  <2> QED BY <1>3, <2>1, <2>2, <2>3, <2>4 DEF Handle
<1>4. CASE Deliver(t)
  <2>1. local'[t].carry = local[t].carry
    <3>1. local' = local \/ \E v : local' = [local EXCEPT ![t].count = v]
      BY <1>4 DEF Deliver, StoreDepth, TellDepth, GetEntry, NoEntry, Write, WriteFails, Mark
    <3> QED BY <3>1, CarryKept
  <2>2. /\ t \in Handlers => pc'[t] \in {"tell", "get", "write", "mark", "answer"}
        /\ t \in Handlers /\ pc'[t] \in Carrying => pc[t] \in Carrying
    BY <1>1, <1>2, <1>4 DEF Deliver, StoreDepth, TellDepth, GetEntry, NoEntry, Write, WriteFails, Mark,
         Typing, After
  <2>3. t \notin Handlers => Steps(t)'
    BY <1>1, <1>2, <1>4 DEF Deliver, StoreDepth, TellDepth, GetEntry, NoEntry, Write, WriteFails, Mark,
         Typing, After
  <2> QED BY <1>2, <2>1, <2>2, <2>3
<1>5. CASE (t \in Enqueuers /\ Enqueue(t)) \/ (t \in Clearers /\ Clear(t))
  <2>1. local'[t].carry = local[t].carry
    <3>1. \/ local' = local
          \/ \E v : local' = [local EXCEPT ![t].count = v] \/ local' = [local EXCEPT ![t].free = v]
      BY <1>5 DEF Enqueue, EnqueueReads, EnqueueNoSession, EnqueueChooses, Push, PushRefused,
           Clear, ClearQueue, ClearNoSession
    <3> QED BY <3>1, CarryKept
  <2>2. Steps(t)'
    BY <1>1, <1>2, <1>5 DEF Enqueue, EnqueueReads, EnqueueNoSession, EnqueueChooses, Push, PushRefused,
         Clear, ClearQueue, ClearNoSession
  <2> QED BY <1>2, <1>5, <2>1, <2>2
<1> QED BY <1>3, <1>4, <1>5 DEF ThreadStep

\* A hook's attempt starts a handler that had not begun; the CLI and the end
\* of the session move no thread.
LEMMA HookMoves ==
  ASSUME TypeOK, \A a \in Handlers : Unborn(a),
         (\E h \in Hooks : HookStep(h)) \/ Cli \/ End \/ UNCHANGED vars
  PROVE  /\ UNCHANGED <<local, queue, typed>>
         /\ \A t \in Threads : pc'[t] = pc[t] \/ (t \in Handlers /\ pc[t] = "idle" /\ pc'[t] = "report")
<1> USE DEF sessionVars, queueVars, cliVars, hookVars, Goto
<1>1. ASSUME NEW h \in Hooks, HookSends(h)
      PROVE  \A t \in Threads : pc'[t] = pc[t] \/ (t \in Handlers /\ pc[t] = "idle" /\ pc'[t] = "report")
  <2> DEFINE a == <<h, tries[h] + 1>>
  <2>1. a \in Handlers /\ HookOf(a) = h /\ AttemptOf(a) = tries[h] + 1
    BY <1>1, Attempted DEF HookSends, Attempting, HookOf, AttemptOf
  <2>2. tries[h] + 1 > tries[h]
    BY DEF TypeOK
  <2>3. pc' = [pc EXCEPT ![a] = "report"]
    BY <1>1 DEF HookSends
  <2> HIDE DEF a
  <2>4. pc[a] = "idle"
    BY <2>1, <2>2 DEF Unborn
  <2> QED BY <2>1, <2>3, <2>4 DEF TypeOK
<1>2. ASSUME NEW h \in Hooks, HookStep(h)  PROVE UNCHANGED <<local, queue, typed>>
  BY <1>2 DEF HookStep, HookSends, HookTurnedAway, HookTimesOut
<1>3. ASSUME NEW h \in Hooks, HookTurnedAway(h) \/ HookTimesOut(h)  PROVE pc' = pc
  BY <1>3 DEF HookTurnedAway, HookTimesOut
<1>4. CASE Cli \/ End \/ UNCHANGED vars
  BY <1>4 DEF Cli, CliReads, CliFinishes, CliExits, Guess, End, WaitReturns, DisconnectTerminates,
       DisconnectRemoves, StopAll, vars
<1> QED BY <1>1, <1>2, <1>3, <1>4 DEF HookStep

LEMMA ThreadedStep ==
  ASSUME TypeOK, Threaded, \A a \in Handlers : Unborn(a), [Next]_vars
  PROVE  Threaded'
<1>1. ASSUME NEW t \in Threads, ThreadStep(t), NEW u \in Threads  PROVE Steps(u)' /\ Carries(u)'
  <2>1. CASE u = t
    BY <1>1, <2>1, ThreadMoves DEF Threaded
  <2>2. CASE u # t
    BY <1>1, <2>2, ThreadAlone DEF Threaded, Steps, Carries
  <2> QED BY <2>1, <2>2
<1>2. ASSUME (\E h \in Hooks : HookStep(h)) \/ Cli \/ End \/ UNCHANGED vars, NEW u \in Threads
      PROVE  Steps(u)' /\ Carries(u)'
  <2>1. local' = local
    BY <1>2, HookMoves
  <2>2. pc'[u] = pc[u] \/ (u \in Handlers /\ pc'[u] = "report")
    BY <1>2, HookMoves
  <2>3. u \in Handlers => u \notin Enqueuers /\ u \notin Typers /\ u \notin Clearers /\ u \notin Prompts
    BY QueueAssumption DEF Prompts
  <2> QED BY <2>1, <2>2, <2>3 DEF Threaded, Steps, Carries, Carrying
<1> QED BY <1>1, <1>2, NextSteps DEF Threaded

LEMMA UnbornStep ==
  ASSUME TypeOK, \A a \in Handlers : Unborn(a), [Next]_vars
  PROVE  \A a \in Handlers : Unborn(a)'
<1>1. ASSUME NEW t \in Threads, ThreadStep(t), NEW a \in Handlers  PROVE Unborn(a)'
  <2>1. tries' = tries
    BY <1>1 DEF ThreadStep, Enqueue, EnqueueReads, EnqueueNoSession, EnqueueChooses, Push, PushRefused,
         Clear, ClearQueue, ClearNoSession, Handle, Report, ReportRejected, Pop, PopNothing, Measure,
         Answer, Reject, Answers, Deliver, StoreDepth, TellDepth, GetEntry, NoEntry, Write, WriteFails,
         Mark, Moves, hookVars
  <2>2. a \in Threads /\ a \notin Typers /\ a \notin Prompts /\ a \notin Clearers
    BY HandlerParts DEF Prompts
  <2>3. a = t => pc[t] # "idle"
    BY <1>1, <2>2 DEF ThreadStep, Prompts, Handle, Report, ReportRejected, Pop, PopNothing, Measure,
         Answer, Reject, Answers, Deliver, StoreDepth, TellDepth, GetEntry, NoEntry, Write, WriteFails,
         Mark, Typing, At
  <2>4. a # t => pc'[a] = pc[a]
    BY <1>1, <2>2, ThreadAlone
  <2> QED BY <2>1, <2>3, <2>4 DEF Unborn
<1>2. ASSUME NEW h \in Hooks, HookStep(h), NEW a \in Handlers  PROVE Unborn(a)'
  <2>1. HookOf(a) \in Hooks /\ AttemptOf(a) \in 1..Attempts /\ a \in Threads
    BY HandlerParts
  <2>2. a = <<HookOf(a), AttemptOf(a)>>
    BY DEF Handlers, HookOf, AttemptOf
  <2>3. CASE HookSends(h)
    <3>1. pc' = [pc EXCEPT ![<<h, tries[h] + 1>>] = "report"] /\ tries' = [tries EXCEPT ![h] = @ + 1]
      BY <2>3 DEF HookSends, Attempting, Goto
    <3>2. CASE HookOf(a) = h
      <4>1. AttemptOf(a) > tries'[h] => AttemptOf(a) # tries[h] + 1 /\ AttemptOf(a) > tries[h]
        BY <2>1, <3>1 DEF TypeOK
      <4>2. AttemptOf(a) # tries[h] + 1 => a # <<h, tries[h] + 1>>
        BY <2>2
      <4> QED BY <2>1, <3>1, <3>2, <4>1, <4>2 DEF Unborn, TypeOK
    <3>3. CASE HookOf(a) # h
      <4>1. a # <<h, tries[h] + 1>>
        BY <2>2, <3>3
      <4> QED BY <2>1, <3>1, <3>3, <4>1 DEF Unborn, TypeOK
    <3> QED BY <3>2, <3>3
  <2>4. CASE HookTurnedAway(h)
    BY <2>1, <2>4 DEF HookTurnedAway, Attempting, Unborn, TypeOK
  <2>5. CASE HookTimesOut(h)
    BY <2>5 DEF HookTimesOut, Unborn
  <2> QED BY <1>2, <2>3, <2>4, <2>5 DEF HookStep
<1>3. ASSUME Cli \/ End \/ UNCHANGED vars, NEW a \in Handlers  PROVE Unborn(a)'
  <2>1. UNCHANGED <<tries, pc>>
    BY <1>3 DEF Cli, CliReads, CliFinishes, CliExits, Guess, End, WaitReturns, DisconnectTerminates,
         DisconnectRemoves, StopAll, vars, hookVars
  <2> QED BY <2>1 DEF Unborn
<1> QED BY <1>1, <1>2, <1>3, NextSteps
----------------------------------------------------------------------------
(* Sequences.                                                               *)

LEMMA InAppend ==
  ASSUME NEW S, NEW s \in Seq(S), NEW x \in S
  PROVE  /\ Append(s, x) \in Seq(S) /\ Len(Append(s, x)) = Len(s) + 1
         /\ \A p : InSeq(p, Append(s, x)) <=> InSeq(p, s) \/ p = x
<1>1. /\ Append(s, x) \in Seq(S) /\ Len(Append(s, x)) = Len(s) + 1 /\ Len(s) \in Nat
      /\ \A i \in 1..Len(s) : Append(s, x)[i] = s[i]
      /\ Append(s, x)[Len(s) + 1] = x
  BY AppendProperties
<1>2. DOMAIN s = 1..Len(s) /\ DOMAIN Append(s, x) = 1..(Len(s) + 1)
  BY <1>1
<1>3. ASSUME NEW p  PROVE InSeq(p, Append(s, x)) <=> InSeq(p, s) \/ p = x
  <2>1. ASSUME InSeq(p, Append(s, x))  PROVE InSeq(p, s) \/ p = x
    <3>1. PICK i \in 1..(Len(s) + 1) : Append(s, x)[i] = p
      BY <1>2, <2>1 DEF InSeq
    <3>2. i = Len(s) + 1 \/ i \in 1..Len(s)
      BY <1>1
    <3> QED BY <1>1, <1>2, <3>1, <3>2 DEF InSeq
  <2>2. ASSUME InSeq(p, s)  PROVE InSeq(p, Append(s, x))
    <3>1. PICK i \in 1..Len(s) : s[i] = p
      BY <1>2, <2>2 DEF InSeq
    <3>2. i \in 1..(Len(s) + 1)
      BY <1>1
    <3> QED BY <1>1, <1>2, <3>1, <3>2 DEF InSeq
  <2>3. ASSUME p = x  PROVE InSeq(p, Append(s, x))
    <3>1. Len(s) + 1 \in 1..(Len(s) + 1)
      BY <1>1
    <3> QED BY <1>1, <1>2, <2>3, <3>1 DEF InSeq
  <2> QED BY <2>1, <2>2, <2>3
<1> QED BY <1>1, <1>3

LEMMA InTail ==
  ASSUME NEW S, NEW s \in Seq(S), s # <<>>, \A i, j \in DOMAIN s : s[i] = s[j] => i = j
  PROVE  /\ Head(s) \in S /\ InSeq(Head(s), s)
         /\ Tail(s) \in Seq(S) /\ Len(Tail(s)) <= Len(s)
         /\ \A i, j \in DOMAIN Tail(s) : Tail(s)[i] = Tail(s)[j] => i = j
         /\ \A p : InSeq(p, Tail(s)) <=> InSeq(p, s) /\ p # Head(s)
<1>1. /\ Head(s) = s[1] /\ Head(s) \in S /\ Tail(s) \in Seq(S)
      /\ Len(s) \in Nat \ {0} /\ Len(Tail(s)) = Len(s) - 1
      /\ \A i \in 1..Len(Tail(s)) : Tail(s)[i] = s[i + 1]
  BY HeadTailProperties, EmptySeq
<1>2. DOMAIN s = 1..Len(s) /\ DOMAIN Tail(s) = 1..(Len(s) - 1)
  BY <1>1
<1>3. 1 \in DOMAIN s /\ \A i \in DOMAIN Tail(s) : i \in Nat /\ i + 1 \in DOMAIN s /\ i + 1 # 1
  BY <1>1, <1>2
<1>4. \A i, j \in DOMAIN Tail(s) : Tail(s)[i] = Tail(s)[j] => i = j
  <2> SUFFICES ASSUME NEW i \in DOMAIN Tail(s), NEW j \in DOMAIN Tail(s), Tail(s)[i] = Tail(s)[j]
               PROVE  i = j
    OBVIOUS
  <2>1. s[i + 1] = s[j + 1]
    BY <1>1, <1>2
  <2>2. i + 1 = j + 1
    BY <1>3, <2>1
  <2> QED BY <1>3, <2>2
<1>5. ASSUME NEW p  PROVE InSeq(p, Tail(s)) <=> InSeq(p, s) /\ p # Head(s)
  <2>1. ASSUME InSeq(p, Tail(s))  PROVE InSeq(p, s) /\ p # Head(s)
    <3>1. PICK i \in DOMAIN Tail(s) : Tail(s)[i] = p
      BY <2>1 DEF InSeq
    <3>2. s[i + 1] = p
      BY <1>1, <1>2, <3>1
    <3> QED BY <1>1, <1>3, <3>2 DEF InSeq
  <2>2. ASSUME InSeq(p, s), p # Head(s)  PROVE InSeq(p, Tail(s))
    <3>1. PICK i \in DOMAIN s : s[i] = p
      BY <2>2 DEF InSeq
    <3>2. i # 1 /\ i \in 1..Len(s)
      BY <1>1, <1>2, <2>2, <3>1
    <3>3. i - 1 \in 1..(Len(s) - 1) /\ (i - 1) + 1 = i
      BY <1>1, <3>2
    <3>4. Tail(s)[i - 1] = p
      BY <1>1, <3>1, <3>3
    <3> QED BY <1>2, <3>3, <3>4 DEF InSeq
  <2> QED BY <2>1, <2>2
<1> QED BY <1>1, <1>3, <1>4, <1>5 DEF InSeq
----------------------------------------------------------------------------
(* Where a prompt is.                                                       *)

\* Fate, seen through Stage and Hand.
Seen(p) ==
  IF InSeq(p, typed) THEN "typed"
  ELSE IF InSeq(p, queue) THEN "waiting"
  ELSE IF Stage(p) = "own" \/ \E a \in Handlers : Hand(a, p) THEN "taken"
  ELSE IF Stage(p) = "offered" THEN "offered" ELSE "dropped"

LEMMA FateSeen ==
  Threaded /\ (\A p \in Enqueuers : Placed(p)) => \A p \in Enqueuers : Fate(p) = Seen(p)
<1> SUFFICES ASSUME Threaded, NEW p \in Enqueuers, Placed(p)  PROVE Fate(p) = Seen(p)
  OBVIOUS
<1>1. (\E t \in Threads : Holds(t, p)) <=> Stage(p) = "own" \/ \E a \in Handlers : Hand(a, p)
  <2>1. p \in Threads /\ p \in Prompts /\ p \notin Handlers
    BY QueueAssumption DEF Threads, Prompts
  <2>2. Stage(p) = "own" => Holds(p, p)
    BY <2>1 DEF Stage, Holds, Threaded, Carries
  <2>3. ASSUME NEW a \in Handlers  PROVE Hand(a, p) <=> Holds(a, p)
    BY DEF Hand, Holds, Carrying
  <2>4. ASSUME NEW t \in Threads, t \notin Handlers, Holds(t, p)  PROVE Stage(p) = "own"
    <3>1. t \notin Clearers
      BY <2>4, QueueAssumption DEF Holds, Threaded, Steps
    <3>2. t = p
      BY <2>4, <3>1 DEF Threads, Threaded, Carries, Holds
    <3> QED BY <2>4, <3>2 DEF Holds, Stage
  <2>5. \A a \in Handlers : a \in Threads
    BY DEF Threads
  <2> QED BY <2>1, <2>2, <2>3, <2>4, <2>5
<1>2. (pc[p] \in {"idle", "choose", "push"}) <=> Stage(p) = "offered"
  BY DEF Stage
<1>3. Stage(p) \in {"offered", "own", "past"}
  BY DEF Stage
<1>4. CASE InSeq(p, typed)
  BY <1>1, <1>2, <1>3, <1>4 DEF Fate, Seen, Placed
<1>5. CASE InSeq(p, queue)
  BY <1>1, <1>2, <1>3, <1>5 DEF Fate, Seen, Placed
<1>6. CASE ~InSeq(p, typed) /\ ~InSeq(p, queue)
  BY <1>1, <1>2, <1>3, <1>6 DEF Fate, Seen, Placed
<1> QED BY <1>4, <1>5, <1>6

\* A step that leaves p where it is.
Still(p) ==
  /\ Stage(p)' = Stage(p)
  /\ InSeq(p, queue)' <=> InSeq(p, queue)
  /\ InSeq(p, typed)' <=> InSeq(p, typed)
  /\ \A a \in Handlers : Hand(a, p)' <=> Hand(a, p)

LEMMA StillPlaced ==
  ASSUME NEW p, Placed(p), Still(p)
  PROVE  Placed(p)' /\ Seen(p)' = Seen(p)
BY DEF Still, Placed, Seen

\* A step of t moves the prompt of t alone, or the one in its hand.
LEMMA Bystanders ==
  ASSUME TypeOK, NEW t \in Threads, ThreadStep(t)
  PROVE  /\ \A p \in Enqueuers : p # t => Stage(p)' = Stage(p)
         /\ \A a \in Handlers : a # t => \A p : Hand(a, p)' <=> Hand(a, p)
<1>1. \A u \in Threads : u # t => pc'[u] = pc[u] /\ local'[u] = local[u]
  BY ThreadAlone
<1>2. Enqueuers \subseteq Threads /\ Handlers \subseteq Threads
  BY DEF Threads, Prompts
<1>3. ASSUME NEW p \in Enqueuers, p # t  PROVE Stage(p)' = Stage(p)
  <2>1. pc'[p] = pc[p]
    BY <1>1, <1>2, <1>3
  <2> QED BY <2>1 DEF Stage
<1> QED BY <1>1, <1>2, <1>3 DEF Hand

\* What a step may do to the fates and the line: AgentPromptLine, seen from here.
Moved(p, from, to) ==
  /\ Seen(p) = from /\ Seen(p)' = to
  /\ \A q \in Enqueuers : q # p => Seen(q)' = Seen(q)

LineStep ==
  \/ queue' = queue /\ \A p \in Enqueuers : Seen(p)' = Seen(p)
  \/ \E p \in Enqueuers :
       /\ queue' = queue
       /\ \/ Moved(p, "offered", "dropped") \/ Moved(p, "offered", "taken")
          \/ Moved(p, "taken", "typed") \/ Moved(p, "taken", "dropped")
  \/ \E p \in Enqueuers : Moved(p, "offered", "waiting") /\ queue' = Append(queue, p)
  \/ \E p \in Enqueuers :
       queue # <<>> /\ p = Head(queue) /\ Moved(p, "waiting", "taken") /\ queue' = Tail(queue)
  \/ /\ queue # <<>> /\ queue' = <<>>
     /\ \A p \in Enqueuers : Seen(p)' = IF Seen(p) = "waiting" THEN "dropped" ELSE Seen(p)

Kept == Single' /\ QueueBounded' /\ (\A p \in Enqueuers : Placed(p)') /\ LineStep

LEMMA AllStill ==
  ASSUME Single, QueueBounded, \A p \in Enqueuers : Placed(p), queue' = queue, \A p \in Enqueuers : Still(p)
  PROVE  Kept
BY StillPlaced DEF Kept, Single, QueueBounded, LineStep

LEMMA CommandKept ==
  ASSUME TypeOK, Threaded, Single, QueueBounded, \A p \in Enqueuers : Placed(p),
         NEW c \in Enqueuers, Enqueue(c)
  PROVE  Kept
<1>1. c \in Threads /\ c \notin Handlers /\ pc \in [Threads -> Labels] /\ queue \in Seq(Enqueuers)
  BY QueueAssumption DEF Threads, Prompts, TypeOK
<1>2. /\ \A p \in Enqueuers : p # c => Stage(p)' = Stage(p)
      /\ \A a \in Handlers : \A p : Hand(a, p)' <=> Hand(a, p)
  BY <1>1, Bystanders DEF ThreadStep
<1>3. typed' = typed
  BY DEF Enqueue, EnqueueReads, EnqueueNoSession, EnqueueChooses, Push, PushRefused, Moves, cliVars
<1>4. Stage(c) = "offered"
  BY DEF Enqueue, EnqueueReads, EnqueueNoSession, EnqueueChooses, Push, PushRefused, At, Stage
<1>5. ~InSeq(c, queue) /\ ~InSeq(c, typed) /\ Seen(c) = "offered" /\ \A a \in Handlers : ~Hand(a, c)
  BY <1>4 DEF Placed, Seen
<1>6. CASE queue' = queue
  <2>1. \A p \in Enqueuers : p # c => Still(p)
    BY <1>2, <1>3, <1>6 DEF Still
  <2>2. Placed(c)'
    BY <1>2, <1>3, <1>5, <1>6 DEF Placed
  <2>3. Seen(c)' = IF Stage(c)' = "own" THEN "taken" ELSE IF Stage(c)' = "offered" THEN "offered" ELSE "dropped"
    BY <1>2, <1>3, <1>5, <1>6 DEF Seen
  <2>4. Seen(c)' \in {"taken", "offered", "dropped"}
    BY <2>3
  <2>5. LineStep
    BY <1>5, <1>6, <2>1, <2>4, StillPlaced DEF LineStep, Moved
  <2> QED BY <1>6, <2>1, <2>2, <2>5, StillPlaced DEF Kept, Single, QueueBounded
<1>7. CASE Push(c)
  <2>1. queue' = Append(queue, c) /\ ~(Len(queue) >= MaxQueued) /\ pc'[c] = "store"
    BY <1>1, <1>7 DEF Push, Goto, QueueFull
  <2>2. Stage(c)' = "past"
    BY <2>1 DEF Stage
  <2>3. /\ queue' \in Seq(Enqueuers) /\ Len(queue') = Len(queue) + 1 /\ Len(queue) \in Nat
        /\ \A p : InSeq(p, queue') <=> InSeq(p, queue) \/ p = c
    BY <1>1, <2>1, InAppend
  <2>4. QueueBounded'
    BY <2>1, <2>3, QueueAssumption DEF QueueBounded
  <2>5. Single'
    <3> SUFFICES ASSUME NEW i \in DOMAIN queue', NEW j \in DOMAIN queue', queue'[i] = queue'[j]
                 PROVE  i = j
      BY DEF Single
    <3>1. /\ \A k \in 1..Len(queue) : queue'[k] = queue[k] /\ queue[k] # c
          /\ queue'[Len(queue) + 1] = c /\ DOMAIN queue = 1..Len(queue)
      BY <1>1, <1>5, <2>1, AppendProperties DEF InSeq
    <3>2. i \in 1..(Len(queue) + 1) /\ j \in 1..(Len(queue) + 1)
      BY <2>3
    <3>3. (i \in 1..Len(queue) \/ i = Len(queue) + 1) /\ (j \in 1..Len(queue) \/ j = Len(queue) + 1)
      BY <2>3, <3>2
    <3> QED BY <3>1, <3>3 DEF Single
  <2>6. \A p : InSeq(p, queue)' <=> InSeq(p, queue) \/ p = c
    BY <2>3 DEF InSeq
  <2>7. \A p \in Enqueuers : p # c => Still(p)
    BY <1>2, <1>3, <2>6 DEF Still
  <2>8. Placed(c)' /\ Seen(c)' = "waiting"
    BY <1>2, <1>3, <1>5, <2>2, <2>6 DEF Placed, Seen
  <2>9. LineStep
    BY <1>5, <2>1, <2>7, <2>8, StillPlaced DEF LineStep, Moved
  <2> QED BY <2>4, <2>5, <2>7, <2>8, <2>9, StillPlaced DEF Kept
<1> QED BY <1>6, <1>7 DEF Enqueue, EnqueueReads, EnqueueNoSession, EnqueueChooses, PushRefused, Moves,
           queueVars

LEMMA ClearKept ==
  ASSUME TypeOK, Threaded, Single, QueueBounded, \A p \in Enqueuers : Placed(p),
         NEW k \in Clearers, Clear(k)
  PROVE  Kept
<1>1. k \in Threads /\ k \notin Handlers /\ k \notin Enqueuers
  BY QueueAssumption DEF Threads, Prompts
<1>2. /\ \A p \in Enqueuers : Stage(p)' = Stage(p)
      /\ \A a \in Handlers : \A p : Hand(a, p)' <=> Hand(a, p)
  BY <1>1, Bystanders DEF ThreadStep
<1>3. typed' = typed
  BY DEF Clear, ClearQueue, ClearNoSession, Moves, cliVars
<1>4. CASE queue' = queue
  BY <1>2, <1>3, <1>4, AllStill DEF Still
<1>5. CASE queue' = <<>> /\ queue # <<>>
  <2>1. \A p : ~InSeq(p, queue)'
    BY <1>5 DEF InSeq
  <2>2. Single' /\ QueueBounded'
    <3>1. Len(queue') = 0 /\ DOMAIN queue' = {}
      BY <1>5
    <3> QED BY <3>1, QueueAssumption DEF Single, QueueBounded
  <2>3. \A p \in Enqueuers : Placed(p)'
    BY <1>2, <1>3, <2>1 DEF Placed
  <2>4. ASSUME NEW p \in Enqueuers
        PROVE  Seen(p)' = IF Seen(p) = "waiting" THEN "dropped" ELSE Seen(p)
    <3>1. InSeq(p, queue) => ~InSeq(p, typed) /\ Stage(p) = "past" /\ \A a \in Handlers : ~Hand(a, p)
      BY DEF Placed
    <3> QED BY <1>2, <1>3, <2>1, <3>1 DEF Seen
  <2> QED BY <1>5, <2>2, <2>3, <2>4 DEF Kept, LineStep
<1> QED BY <1>4, <1>5 DEF Clear, ClearQueue, ClearNoSession, Moves, queueVars

\* The prompt p leaves the hand of t: dropped, or typed.
LEMMA HandEmptied ==
  ASSUME Single, QueueBounded, \A p \in Enqueuers : Placed(p), queue' = queue,
         NEW p \in Enqueuers, Seen(p) = "taken",
         Stage(p)' = "past", \A a \in Handlers : ~Hand(a, p)',
         \A q \in Enqueuers : q # p => Still(q),
         \/ InSeq(p, typed)'
         \/ ~InSeq(p, typed)'
  PROVE  Kept
<1>1. ~InSeq(p, queue) /\ ~InSeq(p, typed)
  BY DEF Seen
<1>2. ~InSeq(p, queue)'
  BY <1>1 DEF InSeq
<1>3. Placed(p)' /\ Seen(p)' \in {"typed", "dropped"}
  BY <1>2 DEF Placed, Seen
<1>4. LineStep
  BY <1>3, StillPlaced DEF LineStep, Moved
<1> QED BY <1>3, <1>4, StillPlaced DEF Kept, Single, QueueBounded

LEMMA DeliverKept ==
  ASSUME TypeOK, Threaded, Single, QueueBounded, \A p \in Enqueuers : Placed(p),
         NEW t \in Threads, Deliver(t)
  PROVE  Kept
<1>1. /\ t \in Enqueuers => t \notin Typers /\ t \notin Clearers /\ t \notin Handlers /\ t \in Prompts
      /\ t \in Typers => t \notin Clearers /\ t \notin Handlers /\ t \in Prompts
      /\ t \in Clearers => t \notin Handlers /\ t \notin Prompts
      /\ t \in Handlers => t \notin Prompts /\ t \notin Enqueuers
      /\ t \in Enqueuers \/ t \in Typers \/ t \in Clearers \/ t \in Handlers
  BY QueueAssumption DEF Prompts, Threads
<1>2. /\ \A p \in Enqueuers : p # t => Stage(p)' = Stage(p)
      /\ \A a \in Handlers : a # t => \A p : Hand(a, p)' <=> Hand(a, p)
  BY Bystanders DEF ThreadStep
<1>3. queue' = queue
  BY DEF Deliver, StoreDepth, TellDepth, GetEntry, NoEntry, Write, WriteFails, Mark, Moves, queueVars
<1>4. pc \in [Threads -> Labels] /\ Steps(t) /\ Carries(t)
  BY DEF TypeOK, Threaded
<1>5. local'[t].carry = local[t].carry
  <2>1. local' = local \/ \E v : local' = [local EXCEPT ![t].count = v]
    BY DEF Deliver, StoreDepth, TellDepth, GetEntry, NoEntry, Write, WriteFails, Mark, Moves
  <2> QED BY <2>1, CarryKept
<1>6. CASE StoreDepth(t) \/ TellDepth(t) \/ GetEntry(t) \/ Mark(t)
  <2>1. typed' = typed
    BY <1>6 DEF StoreDepth, TellDepth, GetEntry, Mark, Moves, cliVars
  <2>2. t \in Enqueuers => Stage(t)' = Stage(t)
    BY <1>1, <1>4, <1>6 DEF StoreDepth, TellDepth, GetEntry, Mark, Moves, Typing, After, At, Goto, Stage
  <2>3. t \in Handlers => (pc'[t] \in Carrying <=> pc[t] \in Carrying)
    BY <1>1, <1>4, <1>6 DEF StoreDepth, TellDepth, GetEntry, Mark, Moves, Typing, After, At, Goto, Carrying
  <2>4. t \in Handlers => \A p : Hand(t, p)' <=> Hand(t, p)
    BY <1>5, <2>3 DEF Hand
  <2>5. \A p \in Enqueuers : Still(p)
    BY <1>2, <1>3, <2>1, <2>2, <2>4 DEF Still
  <2> QED BY <1>3, <2>5, AllStill
<1>7. CASE NoEntry(t) \/ WriteFails(t) \/ Write(t)
  <2> SUFFICES ASSUME NEW p, p = local[t].carry  PROVE Kept
    OBVIOUS
  <2>1. /\ pc[t] \in {"get", "write"} \/ t \in Typers
        /\ pc'[t] \in {"failed", "mark", "answer"}
    BY <1>4, <1>7 DEF NoEntry, WriteFails, Write, Moves, Typing, After, At, Goto
  <2>2. t \notin Clearers
    BY <1>1, <1>4, <2>1 DEF Steps
  <2>3. t \in Typers => p \notin Enqueuers /\ p = t
    BY <1>1, <1>4 DEF Carries
  <2>4. t \in Handlers \/ t \in Enqueuers => p \in Enqueuers
    BY <1>1, <1>4, <2>1 DEF Carries, Carrying
  <2>5. typed' = typed \/ (Write(t) /\ \A q : InSeq(q, typed)' <=> InSeq(q, typed) \/ q = p)
    <3>1. CASE NoEntry(t) \/ WriteFails(t)
      BY <3>1 DEF NoEntry, WriteFails, Moves, cliVars
    <3>2. CASE Write(t)
      <4>1. p \in Prompts
        BY <1>1, <2>2, <2>3, <2>4 DEF Prompts
      <4>2. typed' = Append(typed, p) /\ typed \in Seq(Prompts)
        BY <3>2 DEF Write, TypeOK
      <4>3. \A q : InSeq(q, typed') <=> InSeq(q, typed) \/ q = p
        BY <4>1, <4>2, InAppend
      <4> QED BY <3>2, <4>3 DEF InSeq
    <3> QED BY <1>7, <3>1, <3>2
  <2>6. t \in Handlers => \A q : ~Hand(t, q)'
    BY <2>1 DEF Hand, Carrying
  <2>7. t \in Enqueuers => Stage(t)' = "past" /\ Stage(t) = "own" /\ p = t
    BY <1>1, <1>4, <2>1 DEF Stage, Carries
  <2>8. t \in Handlers => Hand(t, p) /\ \A q : Hand(t, q) => q = p
    BY <1>1, <2>1 DEF Hand, Carrying
  <2>9. CASE t \in Typers
    <3>1. \A q \in Enqueuers : Still(q)
      BY <1>1, <1>2, <1>3, <2>3, <2>5, <2>9 DEF Still
    <3> QED BY <1>3, <3>1, AllStill
  <2>10. CASE t \in Handlers
    <3>1. Stage(p) = "past" /\ Stage(p)' = "past"
      <4>1. Stage(p) \in {"offered", "own", "past"}
        BY DEF Stage
      <4>2. Placed(p) /\ p # t
        BY <1>1, <2>4, <2>10
      <4> QED BY <1>2, <2>4, <2>8, <2>10, <4>1, <4>2 DEF Placed
    <3>2. \A a \in Handlers : ~Hand(a, p)'
      BY <1>2, <2>4, <2>6, <2>8, <2>10 DEF Placed
    <3>3. Seen(p) = "taken"
      BY <2>4, <2>8, <2>10 DEF Placed, Seen
    <3>4. \A q \in Enqueuers : q # p => Still(q)
      BY <1>1, <1>2, <1>3, <2>5, <2>6, <2>8, <2>10 DEF Still
    <3> QED BY <1>3, <2>4, <2>10, <3>1, <3>2, <3>3, <3>4, HandEmptied
  <2>11. CASE t \in Enqueuers
    <3>1. \A a \in Handlers : ~Hand(a, p)' /\ ~Hand(a, p)
      BY <1>1, <1>2, <2>7, <2>11 DEF Placed
    <3>2. Seen(p) = "taken"
      BY <2>7, <2>11 DEF Placed, Seen
    <3>3. \A q \in Enqueuers : q # p => Still(q)
      BY <1>1, <1>2, <1>3, <2>5, <2>7, <2>11 DEF Still
    <3> QED BY <1>3, <2>7, <2>11, <3>1, <3>2, <3>3, HandEmptied
  <2> QED BY <1>1, <2>2, <2>9, <2>10, <2>11
<1> QED BY <1>6, <1>7 DEF Deliver

LEMMA HandleKept ==
  ASSUME TypeOK, Threaded, Single, QueueBounded, \A p \in Enqueuers : Placed(p),
         NEW t \in Handlers, Handle(t)
  PROVE  Kept
<1>1. t \in Threads /\ t \notin Enqueuers /\ t \notin Prompts
  BY HandlerParts DEF Prompts
<1>2. /\ \A p \in Enqueuers : Stage(p)' = Stage(p)
      /\ \A a \in Handlers : a # t => \A p : Hand(a, p)' <=> Hand(a, p)
  BY <1>1, Bystanders DEF ThreadStep
<1>3. typed' = typed
  BY DEF Handle, Report, ReportRejected, Pop, PopNothing, Measure, Answer, Reject, Answers, Moves, cliVars
<1>4. pc \in [Threads -> Labels] /\ queue \in Seq(Enqueuers)
  BY DEF TypeOK
<1>5. CASE ~Pop(t)
  <2>1. queue' = queue
    BY <1>5 DEF Handle, Report, ReportRejected, PopNothing, Measure, Answer, Reject, Answers, Moves,
         queueVars
  <2>2. CASE Measure(t)
    <3>1. local'[t].carry = local[t].carry
      <4>1. \E v : local' = [local EXCEPT ![t].count = v]
        BY <2>2 DEF Measure
      <4> QED BY <1>1, <4>1, CarryKept
    <3>2. \A p : Hand(t, p)' <=> Hand(t, p)
      BY <1>1, <1>4, <2>2, <3>1 DEF Measure, At, Goto, Hand, Carrying
    <3> QED BY <1>2, <1>3, <2>1, <3>2, AllStill DEF Still
  <2>3. CASE ~Measure(t)
    <3>1. pc[t] \notin Carrying /\ pc'[t] \notin Carrying
      BY <1>1, <1>4, <1>5, <2>3 DEF Handle, Report, ReportRejected, PopNothing, Answer, Reject,
           Answers, Moves, At, Goto, Carrying
    <3>2. \A p : Hand(t, p)' <=> Hand(t, p)
      BY <3>1 DEF Hand
    <3> QED BY <1>2, <1>3, <2>1, <3>2, AllStill DEF Still
  <2> QED BY <2>2, <2>3
<1>6. CASE Pop(t)
  <2> SUFFICES ASSUME NEW p, p = Head(queue)  PROVE Kept
    OBVIOUS
  <2>1. queue # <<>> /\ queue' = Tail(queue) /\ pc[t] = "pop" /\ pc'[t] = "measure"
    BY <1>1, <1>4, <1>6 DEF Pop, At, Goto
  <2>2. local'[t].carry = p
    BY <1>1, <1>6 DEF Pop, TypeOK, Locals
  <2>3. /\ p \in Enqueuers /\ InSeq(p, queue)
        /\ Len(Tail(queue)) <= Len(queue)
        /\ \A i, j \in DOMAIN Tail(queue) : Tail(queue)[i] = Tail(queue)[j] => i = j
        /\ \A q : InSeq(q, Tail(queue)) <=> InSeq(q, queue) /\ q # p
        /\ Tail(queue) \in Seq(Enqueuers)
    BY <1>4, <2>1, InTail DEF Single
  <2>4. Single' /\ QueueBounded'
    <3>1. Len(Tail(queue)) \in Nat /\ Len(queue) \in Nat
      BY <1>4, <2>3
    <3> QED BY <2>1, <2>3, <3>1, QueueAssumption DEF Single, QueueBounded
  <2>5. \A q : InSeq(q, queue)' <=> InSeq(q, queue) /\ q # p
    BY <2>1, <2>3 DEF InSeq
  <2>6. \A q : ~Hand(t, q) /\ (Hand(t, q)' <=> q = p)
    BY <2>1, <2>2 DEF Hand, Carrying
  <2>7. \A q \in Enqueuers : q # p => Still(q)
    BY <1>2, <1>3, <2>5, <2>6 DEF Still
  <2>8. Placed(p) /\ ~InSeq(p, typed) /\ Stage(p) = "past" /\ \A a \in Handlers : ~Hand(a, p)
    BY <2>3 DEF Placed
  <2>9. Placed(p)'
    BY <1>2, <1>3, <2>3, <2>5, <2>6, <2>8 DEF Placed
  <2>10. Seen(p) = "waiting" /\ Seen(p)' = "taken"
    BY <1>3, <2>3, <2>5, <2>6, <2>8 DEF Seen
  <2>11. LineStep
    BY <2>1, <2>3, <2>7, <2>10, StillPlaced DEF LineStep, Moved
  <2> QED BY <2>4, <2>7, <2>9, <2>11, StillPlaced DEF Kept
<1> QED BY <1>5, <1>6

LEMMA PlaceStep ==
  ASSUME TypeOK, Threaded, Single, QueueBounded, \A p \in Enqueuers : Placed(p),
         \A a \in Handlers : Unborn(a), [Next]_vars
  PROVE  Kept
<1>1. CASE (\E h \in Hooks : HookStep(h)) \/ Cli \/ End \/ UNCHANGED vars
  <2>1. /\ UNCHANGED <<local, queue, typed>>
        /\ \A t \in Threads : pc'[t] = pc[t] \/ (t \in Handlers /\ pc[t] = "idle" /\ pc'[t] = "report")
    BY <1>1, HookMoves
  <2>2. \A p \in Enqueuers : p \in Threads /\ p \notin Handlers
    BY QueueAssumption DEF Threads, Prompts
  <2>3. \A p \in Enqueuers : Stage(p)' = Stage(p)
    BY <2>1, <2>2 DEF Stage
  <2>4. \A a \in Handlers : \A p : Hand(a, p)' <=> Hand(a, p)
    BY <2>1, HandlerParts DEF Hand, Carrying
  <2>5. \A p \in Enqueuers : Still(p)
    BY <2>1, <2>3, <2>4 DEF Still
  <2> QED BY <2>1, <2>5, AllStill
<1> QED BY <1>1, CommandKept, ClearKept, DeliverKept, HandleKept, NextSteps DEF ThreadStep
----------------------------------------------------------------------------
(* The inductive invariant, and what follows from it.                       *)

LEMMA Initially == Init => IInv
<1> SUFFICES ASSUME Init  PROVE IInv
  OBVIOUS
<1> USE DEF Init
<1>1. TypeOK
  <2>1. local \in [Threads -> Locals] /\ pc \in [Threads -> Labels]
    BY Fresheners DEF Labels
  <2>2. hook \in [Hooks -> HookStates] /\ tries \in [Hooks -> 0..Attempts]
    BY QueueAssumption DEF HookStates
  <2>3. summary \in Summaries
    BY DEF Launched, Summaries, Lifecycles, Sources
  <2>4. turn \in 0..MaxTurns /\ released \in [0..MaxTurns -> Nat] /\ queue \in Seq(Enqueuers)
        /\ typed \in Seq(Prompts)
    BY QueueAssumption
  <2>5. /\ live \in BOOLEAN /\ process \in {"running", "exited", "reaped"}
        /\ closed \in 0..1 /\ stopped \in BOOLEAN
        /\ ending \in {"idle", "terminated", "done"}
        /\ depth \in Nat /\ shown \in Nat /\ busy \in BOOLEAN
    <3>1. live \in BOOLEAN /\ stopped \in BOOLEAN /\ busy \in BOOLEAN
      BY Zenon
    <3>2. /\ process \in {"running", "exited", "reaped"} /\ closed \in 0..1
          /\ ending \in {"idle", "terminated", "done"} /\ depth \in Nat /\ shown \in Nat
      BY SMT
    <3> HIDE DEF Init
    <3> QED BY <3>1, <3>2
  <2> HIDE DEF Init
  <2> QED BY <2>1, <2>2, <2>3, <2>4, <2>5 DEF TypeOK
<1>2. QueueBounded /\ EndsOnce /\ Single
  BY QueueAssumption DEF QueueBounded, EndsOnce, ClosedOnce, Single
<1>3. Threaded
  BY DEF Threaded, Steps, Carries, Fresh, Carrying
<1>4. \A a \in Handlers : Unborn(a)
  BY HandlerParts DEF Unborn
<1>5. \A p \in Enqueuers : Placed(p)
  <2>1. \A p : ~InSeq(p, queue) /\ ~InSeq(p, typed)
    BY DEF InSeq
  <2>2. \A a \in Handlers, p \in Enqueuers : ~Hand(a, p)
    BY HandlerParts DEF Hand, Carrying
  <2> QED BY <2>1, <2>2 DEF Placed
<1> QED BY <1>1, <1>2, <1>3, <1>4, <1>5 DEF IInv

LEMMA Inductive == IInv /\ [Next]_vars => IInv'
<1> SUFFICES ASSUME IInv, [Next]_vars  PROVE IInv'
  OBVIOUS
<1> USE DEF IInv
<1>1. TypeOK' /\ EndsOnce'
  BY TypeStep, EndsOnceStep
<1>2. Threaded' /\ \A a \in Handlers : Unborn(a)'
  BY ThreadedStep, UnbornStep
<1>3. QueueBounded' /\ Single' /\ \A p \in Enqueuers : Placed(p)'
  BY PlaceStep DEF Kept
<1> QED BY <1>1, <1>2, <1>3

LEMMA Invariant == Spec => []IInv
BY Initially, Inductive, PTL DEF Spec

\* Every variable keeps its type.
THEOREM TypeCorrect == Spec => []TypeOK
<1>1. IInv => TypeOK  BY DEF IInv
<1> QED BY <1>1, Invariant, PTL

\* The queue never holds more than MAX_QUEUED_PROMPTS.
THEOREM BoundHeld == Spec => []QueueBounded
<1>1. IInv => QueueBounded  BY DEF IInv
<1> QED BY <1>1, Invariant, PTL

\* The closed event is published exactly once for a session that ended.
THEOREM ClosesOnce == Spec => []ClosedOnce
<1>1. IInv => ClosedOnce  BY DEF IInv, EndsOnce
<1> QED BY <1>1, Invariant, PTL

\* No guess takes an official verdict away, only a submitted prompt does.
THEOREM VerdictsStand == Spec => VerdictStands
<1> DEFINE Taken == summary.source = "Integration" /\ summary'.source = "Heuristic"
           Submitted == \E t \in Threads : At(t, "mark") /\ summary'.state = "Working" /\ pc' # pc
<1>1. ASSUME TypeOK, [Next]_vars, Taken  PROVE Submitted
  <2>1. ASSUME NEW t \in Threads, Mark(t)  PROVE Submitted
    <3>1. pc[t] = "mark" /\ pc'[t] # "mark"
      <4>1. pc \in [Threads -> Labels]
        BY <1>1 DEF TypeOK
      <4> QED BY <2>1, <4>1 DEF Mark, At, Goto, After
    <3>2. summary' = summary \/ summary'.state = "Working"
      BY <2>1 DEF Mark, MarkWorking
    <3>3. summary' # summary
      BY <1>1
    <3> QED BY <3>1, <3>2, <3>3 DEF At
  <2>2. ASSUME NEW a \in Handlers, Report(a)  PROVE FALSE
    BY <1>1, <2>2 DEF Report, UpdateState, Stands
  <2>3. CASE Guess
    BY <1>1, <2>3 DEF Guess, UpdateState, Stands
  <2>4. summary' # summary
    BY <1>1
  <2>5. ASSUME NEW t \in Threads, ThreadStep(t), ~Mark(t)  PROVE FALSE
    BY <2>2, <2>4, <2>5 DEF ThreadStep, Enqueue, EnqueueReads, EnqueueNoSession, EnqueueChooses, Push,
         PushRefused, Clear, ClearQueue, ClearNoSession, Handle, ReportRejected, Pop, PopNothing,
         Measure, Answer, Reject, Answers, Deliver, StoreDepth, TellDepth, GetEntry, NoEntry, Write,
         WriteFails, Moves
  <2>6. ASSUME (\E h \in Hooks : HookStep(h)) \/ (Cli /\ ~Guess) \/ End \/ UNCHANGED vars  PROVE FALSE
    BY <2>4, <2>6 DEF HookStep, HookSends, HookTurnedAway, HookTimesOut, Cli, CliReads, CliFinishes,
         CliExits, End, WaitReturns, DisconnectTerminates, DisconnectRemoves, StopAll, vars
  <2> QED BY <1>1, <2>1, <2>3, <2>5, <2>6, NextSteps
<1>2. TypeOK /\ [Next]_vars
        => [summary.source = "Integration" /\ summary'.source = "Heuristic"
              => \E t \in Threads : At(t, "mark") /\ summary'.state = "Working" /\ pc' # pc]_vars
  BY <1>1
<1> QED BY <1>2, TypeCorrect, PTL DEF Spec, VerdictStands
----------------------------------------------------------------------------
(* The queue implements AgentPromptLine: every prompt has one fate.         *)

LEMMA SeenNext ==
  (Threaded /\ \A p \in Enqueuers : Placed(p))' => (\A p \in Enqueuers : Fate(p) = Seen(p))'
BY FateSeen, PTL

LEMMA LineStarts == Init => PromptLine!Init
<1> SUFFICES ASSUME Init  PROVE PromptLine!Init
  OBVIOUS
<1>1. \A p \in Enqueuers : Fate(p) = Seen(p)
  BY Initially, FateSeen DEF IInv
<1>2. \A p \in Enqueuers : Seen(p) = "offered"
  <2>1. \A p : ~InSeq(p, queue) /\ ~InSeq(p, typed)
    BY DEF Init, InSeq
  <2>2. \A a \in Handlers, p \in Enqueuers : ~Hand(a, p)
    BY HandlerParts DEF Init, Hand, Carrying
  <2>3. \A p \in Enqueuers : Stage(p) = "offered"
    BY DEF Init, Stage, Threads, Prompts
  <2> QED BY <2>1, <2>2, <2>3 DEF Seen
<1>3. queue = <<>>
  BY DEF Init
<1> QED BY <1>1, <1>2, <1>3 DEF PromptLine!Init

LEMMA LineMoves ==
  ASSUME IInv, IInv', LineStep
  PROVE  [PromptLine!Next]_<<[p \in Enqueuers |-> Fate(p)], queue>>
<1> DEFINE F == [p \in Enqueuers |-> Fate(p)]
<1>1. \A p \in Enqueuers : Fate(p) = Seen(p) /\ Fate(p)' = Seen(p)'
  BY FateSeen, SeenNext DEF IInv
<1>2. \A p \in Enqueuers : F[p] = Seen(p) /\ F'[p] = Seen(p)'
  BY <1>1
<1>3. F = [p \in Enqueuers |-> F[p]] /\ F' = [p \in Enqueuers |-> F'[p]]
  OBVIOUS
<1> HIDE DEF F
<1>4. ASSUME NEW p \in Enqueuers, NEW from, NEW to, Moved(p, from, to)
      PROVE  F[p] = from /\ F' = [F EXCEPT ![p] = to]
  BY <1>2, <1>3, <1>4 DEF Moved
<1>5. CASE queue' = queue /\ \A p \in Enqueuers : Seen(p)' = Seen(p)
  <2>1. F' = F
    BY <1>2, <1>3, <1>5
  <2> QED BY <1>5, <2>1 DEF F
<1>6. ASSUME NEW p \in Enqueuers, queue' = queue,
             \/ Moved(p, "offered", "dropped") \/ Moved(p, "offered", "taken")
             \/ Moved(p, "taken", "typed") \/ Moved(p, "taken", "dropped")
      PROVE  PromptLine!Next
  BY <1>4, <1>6 DEF PromptLine!Next, PromptLine!Refuse, PromptLine!TakeNow, PromptLine!Type,
     PromptLine!Drop, PromptLine!Move, F
<1>7. ASSUME NEW p \in Enqueuers, Moved(p, "offered", "waiting"), queue' = Append(queue, p)
      PROVE  PromptLine!Next
  BY <1>4, <1>7 DEF PromptLine!Next, PromptLine!Wait, PromptLine!Move, F
<1>8. ASSUME NEW p \in Enqueuers, queue # <<>>, p = Head(queue), Moved(p, "waiting", "taken"),
             queue' = Tail(queue)
      PROVE  PromptLine!Next
  BY <1>4, <1>8 DEF PromptLine!Next, PromptLine!TakeFirst, PromptLine!Move, F
<1>9. CASE /\ queue # <<>> /\ queue' = <<>>
           /\ \A p \in Enqueuers : Seen(p)' = IF Seen(p) = "waiting" THEN "dropped" ELSE Seen(p)
  <2>1. F' = [p \in Enqueuers |-> IF F[p] = "waiting" THEN "dropped" ELSE F[p]]
    BY <1>2, <1>3, <1>9
  <2> QED BY <1>9, <2>1 DEF PromptLine!Next, PromptLine!Clear, F
<1> QED BY <1>5, <1>6, <1>7, <1>8, <1>9 DEF LineStep

\* Every queued prompt has one fate, under any interleaving of commands,
\* repeated reports and the end of the session.
THEOREM PromptLineKept == Spec => PromptLineSpec
<1>1. IInv /\ IInv' /\ [Next]_vars => [PromptLine!Next]_<<[p \in Enqueuers |-> Fate(p)], queue>>
  BY PlaceStep, LineMoves DEF IInv, Kept
<1> QED BY <1>1, LineStarts, Invariant, PTL DEF Spec, PromptLineSpec, PromptLine!Spec
----------------------------------------------------------------------------
(* Nothing between the queue and the terminal drops a prompt.               *)

DropsAtEnd ==
  [][\A p \in Enqueuers :
       Fate(p) = "taken" /\ Fate(p)' = "dropped" => ~live \/ process # "running"]_vars

LEMMA TakenKept ==
  ASSUME IInv, [Next]_vars, live, process = "running", NEW p \in Enqueuers, Seen(p) = "taken"
  PROVE  Seen(p)' # "dropped"
<1>1. TypeOK /\ Threaded /\ pc \in [Threads -> Labels]
  BY DEF IInv, TypeOK
<1>2. p \in Threads /\ p \in Prompts /\ p \notin Handlers /\ p \notin Typers /\ p \notin Clearers
  BY QueueAssumption DEF Threads, Prompts
<1>3. ASSUME Stage(p)' = "own" \/ InSeq(p, typed)' \/ \E a \in Handlers : Hand(a, p)'
      PROVE  Seen(p)' # "dropped"
  BY <1>3 DEF Seen
<1>4. CASE (\E h \in Hooks : HookStep(h)) \/ Cli \/ End \/ UNCHANGED vars
  <2>1. /\ UNCHANGED <<local, queue, typed>>
        /\ \A t \in Threads : pc'[t] = pc[t] \/ (t \in Handlers /\ pc[t] = "idle" /\ pc'[t] = "report")
    BY <1>1, <1>4, HookMoves DEF IInv
  <2>2. Stage(p)' = Stage(p)
    BY <1>2, <2>1 DEF Stage
  <2>3. \A a \in Handlers : Hand(a, p)' <=> Hand(a, p)
    BY <2>1, HandlerParts DEF Hand, Carrying
  <2> QED BY <1>3, <2>2, <2>3 DEF Seen
<1>5. ASSUME NEW t \in Threads, ThreadStep(t)
      PROVE  Seen(p)' # "dropped"
  <2>1. /\ p # t => Stage(p)' = Stage(p)
        /\ \A a \in Handlers : a # t => (Hand(a, p)' <=> Hand(a, p))
    BY <1>1, <1>5, Bystanders
  <2>2. ~NoEntry(t) /\ ~WriteFails(t)
    BY DEF NoEntry, WriteFails
  <2>3. ASSUME Write(t), local[t].carry = p
        PROVE  InSeq(p, typed)'
    <3>1. typed' = Append(typed, p) /\ typed \in Seq(Prompts)
      BY <1>1, <2>3 DEF Write, TypeOK
    <3>2. InSeq(p, typed')
      BY <1>2, <3>1, InAppend
    <3> QED BY <3>2 DEF InSeq
  <2>4. CASE Stage(p) = "own" /\ p = t
    <3>1. pc[t] \in {"get", "write"} /\ local[t].carry = p
      BY <1>1, <1>2, <2>4 DEF Stage, Threaded, Carries
    <3>2. GetEntry(t) \/ Write(t)
      BY <1>2, <1>5, <2>2, <2>4, <3>1 DEF ThreadStep, Enqueue, EnqueueReads, EnqueueNoSession,
           EnqueueChooses, Push, PushRefused, Deliver, StoreDepth, TellDepth, Mark, At
    <3>3. ASSUME GetEntry(t)
          PROVE  Stage(p)' = "own"
      BY <1>1, <2>4, <3>3 DEF GetEntry, Moves, Goto, Stage
    <3> QED BY <1>3, <2>3, <3>1, <3>2, <3>3
  <2>5. CASE \E a \in Handlers : Hand(a, p)
    <3>1. PICK a \in Handlers : Hand(a, p)
      BY <2>5
    <3>2. CASE a # t
      BY <1>3, <2>1, <3>1, <3>2
    <3>3. CASE a = t
      <4>1. pc[t] \in Carrying /\ local[t].carry = p /\ t \in Handlers /\ t \notin Enqueuers
            /\ t \notin Clearers /\ t \notin Typers
        BY <3>1, <3>3, HandlerParts, QueueAssumption DEF Hand, Prompts
      <4>2. Measure(t) \/ StoreDepth(t) \/ TellDepth(t) \/ GetEntry(t) \/ Write(t)
        BY <1>5, <2>2, <4>1 DEF ThreadStep, Handle, Report, ReportRejected, Pop, PopNothing,
             Answer, Reject, Answers, Deliver, Mark, Moves, At, Carrying
      <4>3. ASSUME ~Write(t)
            PROVE  Hand(t, p)'
        <5>1. pc'[t] \in Carrying
          BY <1>1, <4>1, <4>2, <4>3 DEF Measure, StoreDepth, TellDepth, GetEntry, Moves, Goto,
               Carrying
        <5>2. local'[t].carry = local[t].carry
          <6>1. local' = local \/ \E v : local' = [local EXCEPT ![t].count = v]
            BY <4>2, <4>3 DEF Measure, StoreDepth, TellDepth, GetEntry, Moves
          <6> QED BY <1>1, <6>1, CarryKept
        <5> QED BY <4>1, <5>1, <5>2 DEF Hand
      <4> QED BY <1>3, <2>3, <4>1, <4>3
    <3> QED BY <3>2, <3>3
  <2>6. Stage(p) = "own" \/ \E a \in Handlers : Hand(a, p)
    BY DEF Seen
  <2> QED BY <1>3, <2>1, <2>4, <2>5, <2>6
<1> QED BY <1>4, <1>5, NextSteps

\* A prompt that was taken, from the queue or at once, is only given up when the session
\* is gone (deliver_next_queued, send_bytes): the safety half of TakenIsTyped.
THEOREM TakenIsKept == Spec => DropsAtEnd
<1>1. IInv /\ IInv' /\ [Next]_vars
        => [\A p \in Enqueuers :
              Fate(p) = "taken" /\ Fate(p)' = "dropped" => ~live \/ process # "running"]_vars
  <2> SUFFICES ASSUME IInv, IInv', [Next]_vars, NEW p \in Enqueuers,
                      Fate(p) = "taken", Fate(p)' = "dropped", live, process = "running"
               PROVE  FALSE
    OBVIOUS
  <2>1. Seen(p) = "taken" /\ Seen(p)' = "dropped"
    BY FateSeen, SeenNext DEF IInv
  <2> QED BY <2>1, TakenKept
<1> QED BY <1>1, Invariant, PTL DEF Spec, DropsAtEnd

----------------------------------------------------------------------------
(* AgentDaemon: the window and the background service. *)

\* A command dials from "attach" or "starting"; its connection serves nobody before it
\* was greeted.
Undialled == {"new", "attach", "ensure", "starting"}
Ungreeted == Undialled \cup {"greeting", "hello"}
Pending   == {"waiting", "failed", "gone"}

\* A connection leads to a process and, once greeted, is subscribed there.
Connected(k) ==
  /\ k \in alive => link[k] \in Daemons
  /\ stage[k] \in Undialled => k \notin alive
  /\ stage[k] \in Ungreeted => k \notin clients
  /\ k \in alive /\ stage[k] \notin Ungreeted => k \in clients

\* A request goes over a connection that was greeted, to the process it leads to.
Routed(c) ==
  /\ use[c] # Nobody => stage[use[c]] \notin Ungreeted
  /\ stage[c] \in {"ready", "checked", "waiting"} => use[c] # Nobody
  /\ \A d \in Daemons : c \in inbox[d] => stage[c] \in Pending
  /\ \A d \in Daemons :
       c \in inbox[d] /\ stage[c] = "waiting" /\ use[c] \in alive => link[use[c]] = d

\* Only a poll keeps a list past its greeting.
Listless(c) == c \notin Polls /\ list[c] # {} => stage[c] = "greeted"

Wiring ==
  /\ slot # Nobody => stage[slot] \notin Ungreeted
  /\ \A c \in Commands : Connected(c) /\ Routed(c) /\ Listless(c)

NoneEnded   == \A d \in Daemons : life[d] \notin {"removing", "gone"}
Heard(d)    == \E k \in Commands : Attends(k, d)
Attended(s) == \E d \in Daemons : s \in owned[d] /\ Heard(d)
NamedBy(c)  == IF c \in Launches THEN {c} ELSE list[c]

\* What the window shows, or is about to, is in a registry the window hears of, or was
\* seen to close.
UpToDate(c) == stage[c] = "answered" => \A s \in NamedBy(c) : s \in closures[c] \/ Attended(s)
Shown    == NoneEnded => (\A s \in listed : Attended(s)) /\ \A c \in Commands : UpToDate(c)

DInv == DaemonTypeOK /\ Wiring /\ Shown

\* The connection lock is held by the one command that connects or starts a process.
Dialling    == {"greeting", "starting", "hello", "greeted"}
Locking(c)  == stage[c] \in Dialling <=> lock = c
OneConnects == \A c \in Commands : Locking(c)

\* A launch is under way to one process, or its session is there; it is never sent again.
Sent          == Pending \cup {"answered", "done"}
Reached(c, d) == c \in inbox[d] \/ c \in owned[d]
Once(c) ==
  /\ \A d, e \in Daemons : Reached(c, d) /\ Reached(c, e) => d = e
  /\ \A d \in Daemons : Reached(c, d) => stage[c] \in Sent
  /\ \A d \in Daemons : c \in owned[d] => c \notin inbox[d]
StartedOnce ==
  \A s \in Launches : \A d, e \in Daemons :
    s \in owned[d] => (s \in owned[e] => e = d) /\ s \notin inbox[e]

\* A session whose end the window has seen, for every answer still to be taken.
Forgotten(s) ==
  s \notin listed' /\ \A c \in Commands : stage'[c] = "answered" => s \in closures'[c]

----------------------------------------------------------------------------
LEMMA DaemonTypeStep ==
  ASSUME DaemonTypeOK, \A k \in Commands : Connected(k), [DaemonNext]_daemonVars
  PROVE  DaemonTypeOK'
<1> USE DEF DaemonTypeOK, SocketTypeOK, Maybe, PCs, Lives
<1>1. CASE OpenWindow
  BY DaemonAssumption, SocketAssumption, <1>1 DEF OpenWindow, socketVars, windowVars, lockVars,
      connVars, shownVars
<1>2. CASE CloseWindow
  BY DaemonAssumption, SocketAssumption, <1>2 DEF CloseWindow, Active, socketVars, windowVars,
      lockVars, connVars, shownVars
<1>3. ASSUME NEW c \in Commands, Begin(c)
      PROVE  DaemonTypeOK'
  BY DaemonAssumption, SocketAssumption, <1>3 DEF Begin, Advance, socketVars, windowVars,
      lockVars, connVars, shownVars
<1>4. ASSUME NEW c \in Commands, AttachHeld(c)
      PROVE  DaemonTypeOK'
  BY DaemonAssumption, SocketAssumption, <1>4 DEF AttachHeld, Advance, socketVars, windowVars,
      lockVars, connVars, shownVars, Held
<1>5. ASSUME NEW c \in Commands, AttachDials(c)
      PROVE  DaemonTypeOK'
  BY DaemonAssumption, SocketAssumption, <1>5 DEF AttachDials, Advance, socketVars, windowVars,
      lockVars, connVars, shownVars, Held, Dial, Reachable
<1>6. ASSUME NEW c \in Commands, AttachMisses(c)
      PROVE  DaemonTypeOK'
  BY DaemonAssumption, SocketAssumption, <1>6 DEF AttachMisses, Advance, socketVars,
      windowVars, lockVars, connVars, shownVars, Unattached
<1>7. ASSUME NEW c \in Commands, Greet(c)
      PROVE  DaemonTypeOK'
  <2>1. link[c] \in Daemons
    BY <1>7 DEF Greet, Connected
  <2> QED BY <1>7, <2>1 DEF Greet, socketVars, windowVars, lockVars, shownVars
<1>8. ASSUME NEW c \in Commands, GreetingFails(c)
      PROVE  DaemonTypeOK'
  BY DaemonAssumption, SocketAssumption, <1>8 DEF GreetingFails, Advance, socketVars,
      windowVars, lockVars, connVars, shownVars, Unattached
<1>9. ASSUME NEW c \in Commands, Opened(c)
      PROVE  DaemonTypeOK'
  BY DaemonAssumption, SocketAssumption, <1>9 DEF Opened, Advance, socketVars, windowVars,
      lockVars, connVars, shownVars
<1>10. ASSUME NEW c \in Commands, NEW d \in Daemons, Spawn(c, d)
      PROVE  DaemonTypeOK'
  BY DaemonAssumption, SocketAssumption, <1>10 DEF Spawn, Advance, socketVars, windowVars,
      lockVars, connVars, shownVars, Become
<1>11. ASSUME NEW c \in Commands, SpawnFails(c)
      PROVE  DaemonTypeOK'
  BY DaemonAssumption, SocketAssumption, <1>11 DEF SpawnFails, Advance, socketVars, windowVars,
      lockVars, connVars, shownVars
<1>12. ASSUME NEW c \in Commands, EnsureDials(c)
      PROVE  DaemonTypeOK'
  BY DaemonAssumption, SocketAssumption, <1>12 DEF EnsureDials, Advance, socketVars,
      windowVars, lockVars, connVars, shownVars, Dial, Reachable
<1>13. ASSUME NEW c \in Commands, EnsureGivesUp(c)
      PROVE  DaemonTypeOK'
  BY DaemonAssumption, SocketAssumption, <1>13 DEF EnsureGivesUp, Advance, socketVars,
      windowVars, lockVars, connVars, shownVars
<1>14. ASSUME NEW c \in Commands, Check(c)
      PROVE  DaemonTypeOK'
  BY DaemonAssumption, SocketAssumption, <1>14 DEF Check, Advance, socketVars, windowVars,
      lockVars, connVars, shownVars
<1>15. ASSUME NEW c \in Commands, Send(c)
      PROVE  DaemonTypeOK'
  <2>1. inbox' \in [Daemons -> SUBSET Commands]
    <3>1. CASE use[c] \in alive
      <4>1. use[c] \in Commands /\ link[use[c]] \in Daemons
        BY <3>1 DEF Connected
      <4> QED BY <1>15, <3>1, <4>1 DEF Send
    <3>2. CASE use[c] \notin alive
      BY <1>15, <3>2 DEF Send
    <3> QED BY <3>1, <3>2
  <2>2. stage' \in [Commands -> PCs]
    BY <1>15 DEF Send, Advance
  <2> QED BY <1>15, <2>1, <2>2 DEF Send, socketVars, windowVars, lockVars, connVars, shownVars
<1>16. ASSUME NEW c \in Commands, TimesOut(c)
      PROVE  DaemonTypeOK'
  BY DaemonAssumption, SocketAssumption, <1>16 DEF TimesOut, Advance, socketVars, windowVars,
      lockVars, connVars, shownVars
<1>17. ASSUME NEW c \in Commands, Return(c)
      PROVE  DaemonTypeOK'
  BY DaemonAssumption, SocketAssumption, <1>17 DEF Return, Advance, socketVars, windowVars,
      lockVars, connVars, shownVars
<1>18. ASSUME NEW c \in Commands, Lost(c)
      PROVE  DaemonTypeOK'
  BY DaemonAssumption, SocketAssumption, <1>18 DEF Lost, SeeClosed, Active, socketVars,
      windowVars, lockVars, connVars, shownVars
<1>19. ASSUME NEW d \in Daemons, NEW c \in Commands, Launch(d, c)
      PROVE  DaemonTypeOK'
  BY DaemonAssumption, SocketAssumption, <1>19 DEF Launch, Take, Respond, socketVars,
      windowVars, lockVars, connVars, shownVars
<1>20. ASSUME NEW d \in Daemons, NEW c \in Commands, LaunchFails(d, c)
      PROVE  DaemonTypeOK'
  BY DaemonAssumption, SocketAssumption, <1>20 DEF LaunchFails, Take, Respond, socketVars,
      windowVars, lockVars, connVars, shownVars
<1>21. ASSUME NEW d \in Daemons, NEW c \in Commands, Sessions(d, c)
      PROVE  DaemonTypeOK'
  BY DaemonAssumption, SocketAssumption, <1>21 DEF Sessions, Take, Respond, socketVars,
      windowVars, lockVars, connVars, shownVars
<1>22. ASSUME NEW d \in Daemons, NEW c \in Commands, Shutdown(d, c)
      PROVE  DaemonTypeOK'
  BY DaemonAssumption, SocketAssumption, <1>22 DEF Shutdown, Take, Respond, socketVars,
      windowVars, lockVars, connVars, shownVars
<1>23. ASSUME NEW d \in Daemons, BindSteps(d)
      PROVE  DaemonTypeOK'
  BY DaemonAssumption, SocketAssumption, <1>23 DEF BindSteps, Quiet, Probe, ClearStale, Bind,
      Open, Unlink, Become, socketVars, windowVars, lockVars, connVars, shownVars
<1>24. ASSUME NEW d \in Daemons, ToldToStop(d)
      PROVE  DaemonTypeOK'
  BY DaemonAssumption, SocketAssumption, <1>24 DEF ToldToStop, Quiet, StopListening, Become,
      socketVars, windowVars, lockVars, connVars, shownVars
<1>25. ASSUME NEW d \in Daemons, IdleExit(d)
      PROVE  DaemonTypeOK'
  BY DaemonAssumption, SocketAssumption, <1>25 DEF IdleExit, Quiet, StopListening, Become,
      socketVars, windowVars, lockVars, connVars, shownVars
<1>26. ASSUME NEW d \in Daemons, StopSessions(d)
      PROVE  DaemonTypeOK'
  BY DaemonAssumption, SocketAssumption, <1>26 DEF StopSessions, Quiet, StopOwned, Become,
      socketVars, windowVars, lockVars, connVars, shownVars
<1>27. ASSUME NEW d \in Daemons, EndProcess(d)
      PROVE  DaemonTypeOK'
  BY DaemonAssumption, SocketAssumption, <1>27 DEF EndProcess, Quiet, Exit, Kill, Become,
      socketVars, windowVars, lockVars, connVars, shownVars
<1>28. ASSUME NEW d \in Daemons, NEW s \in Launches, Speak(d, s)
      PROVE  DaemonTypeOK'
  BY DaemonAssumption, SocketAssumption, <1>28 DEF Speak, socketVars, windowVars, lockVars,
      connVars, shownVars
<1>29. ASSUME NEW d \in Daemons, NEW s \in Launches, EndSession(d, s)
      PROVE  DaemonTypeOK'
  BY DaemonAssumption, SocketAssumption, <1>29 DEF EndSession, SeeClosed, Active, socketVars,
      windowVars, lockVars, connVars, shownVars
<1>30. CASE UNCHANGED daemonVars
  BY DaemonAssumption, SocketAssumption, <1>30 DEF daemonVars, socketVars, windowVars,
      lockVars, connVars, shownVars
<1> QED BY <1>1, <1>2, <1>3, <1>4, <1>5, <1>6, <1>7, <1>8, <1>9, <1>10, <1>11, <1>12, <1>13,
    <1>14, <1>15, <1>16, <1>17, <1>18, <1>19, <1>20, <1>21, <1>22, <1>23, <1>24, <1>25, <1>26,
    <1>27, <1>28, <1>29, <1>30 DEF DaemonNext, Client, Process, Dispatch

LEMMA ConnectedStep ==
  ASSUME DaemonTypeOK, NEW k \in Commands, Connected(k), [DaemonNext]_daemonVars
  PROVE  Connected(k)'
<1> USE DEF DaemonTypeOK, SocketTypeOK, Maybe, PCs, Connected, Undialled, Ungreeted
<1>1. CASE OpenWindow
  BY DaemonAssumption, SocketAssumption, <1>1 DEF OpenWindow, socketVars, windowVars, lockVars,
      connVars, shownVars
<1>2. CASE CloseWindow
  BY DaemonAssumption, SocketAssumption, <1>2 DEF CloseWindow, Active, socketVars, windowVars,
      lockVars, connVars, shownVars
<1>3. ASSUME NEW c \in Commands, Begin(c)
      PROVE  Connected(k)'
  BY DaemonAssumption, SocketAssumption, <1>3 DEF Begin, Advance, socketVars, windowVars,
      lockVars, connVars, shownVars
<1>4. ASSUME NEW c \in Commands, AttachHeld(c)
      PROVE  Connected(k)'
  BY DaemonAssumption, SocketAssumption, <1>4 DEF AttachHeld, Advance, socketVars, windowVars,
      lockVars, connVars, shownVars, Held
<1>5. ASSUME NEW c \in Commands, AttachDials(c)
      PROVE  Connected(k)'
  BY DaemonAssumption, SocketAssumption, <1>5 DEF AttachDials, Advance, socketVars, windowVars,
      lockVars, connVars, shownVars, Held, Dial, Reachable
<1>6. ASSUME NEW c \in Commands, AttachMisses(c)
      PROVE  Connected(k)'
  BY DaemonAssumption, SocketAssumption, <1>6 DEF AttachMisses, Advance, socketVars,
      windowVars, lockVars, connVars, shownVars, Unattached
<1>7. ASSUME NEW c \in Commands, Greet(c)
      PROVE  Connected(k)'
  BY DaemonAssumption, SocketAssumption, <1>7 DEF Greet, socketVars, windowVars, lockVars,
      connVars, shownVars
<1>8. ASSUME NEW c \in Commands, GreetingFails(c)
      PROVE  Connected(k)'
  BY DaemonAssumption, SocketAssumption, <1>8 DEF GreetingFails, Advance, socketVars,
      windowVars, lockVars, connVars, shownVars, Unattached
<1>9. ASSUME NEW c \in Commands, Opened(c)
      PROVE  Connected(k)'
  BY DaemonAssumption, SocketAssumption, <1>9 DEF Opened, Advance, socketVars, windowVars,
      lockVars, connVars, shownVars
<1>10. ASSUME NEW c \in Commands, NEW d \in Daemons, Spawn(c, d)
      PROVE  Connected(k)'
  BY DaemonAssumption, SocketAssumption, <1>10 DEF Spawn, Advance, socketVars, windowVars,
      lockVars, connVars, shownVars, Become
<1>11. ASSUME NEW c \in Commands, SpawnFails(c)
      PROVE  Connected(k)'
  BY DaemonAssumption, SocketAssumption, <1>11 DEF SpawnFails, Advance, socketVars, windowVars,
      lockVars, connVars, shownVars
<1>12. ASSUME NEW c \in Commands, EnsureDials(c)
      PROVE  Connected(k)'
  BY DaemonAssumption, SocketAssumption, <1>12 DEF EnsureDials, Advance, socketVars,
      windowVars, lockVars, connVars, shownVars, Dial, Reachable
<1>13. ASSUME NEW c \in Commands, EnsureGivesUp(c)
      PROVE  Connected(k)'
  BY DaemonAssumption, SocketAssumption, <1>13 DEF EnsureGivesUp, Advance, socketVars,
      windowVars, lockVars, connVars, shownVars
<1>14. ASSUME NEW c \in Commands, Check(c)
      PROVE  Connected(k)'
  BY DaemonAssumption, SocketAssumption, <1>14 DEF Check, Advance, socketVars, windowVars,
      lockVars, connVars, shownVars
<1>15. ASSUME NEW c \in Commands, Send(c)
      PROVE  Connected(k)'
  BY DaemonAssumption, SocketAssumption, <1>15 DEF Send, Advance, socketVars, windowVars,
      lockVars, connVars, shownVars
<1>16. ASSUME NEW c \in Commands, TimesOut(c)
      PROVE  Connected(k)'
  BY DaemonAssumption, SocketAssumption, <1>16 DEF TimesOut, Advance, socketVars, windowVars,
      lockVars, connVars, shownVars
<1>17. ASSUME NEW c \in Commands, Return(c)
      PROVE  Connected(k)'
  BY DaemonAssumption, SocketAssumption, <1>17 DEF Return, Advance, socketVars, windowVars,
      lockVars, connVars, shownVars
<1>18. ASSUME NEW c \in Commands, Lost(c)
      PROVE  Connected(k)'
  BY DaemonAssumption, SocketAssumption, <1>18 DEF Lost, SeeClosed, Active, socketVars,
      windowVars, lockVars, connVars, shownVars
<1>19. ASSUME NEW d \in Daemons, NEW c \in Commands, Launch(d, c)
      PROVE  Connected(k)'
  BY DaemonAssumption, SocketAssumption, <1>19 DEF Launch, Take, Respond, socketVars,
      windowVars, lockVars, connVars, shownVars
<1>20. ASSUME NEW d \in Daemons, NEW c \in Commands, LaunchFails(d, c)
      PROVE  Connected(k)'
  BY DaemonAssumption, SocketAssumption, <1>20 DEF LaunchFails, Take, Respond, socketVars,
      windowVars, lockVars, connVars, shownVars
<1>21. ASSUME NEW d \in Daemons, NEW c \in Commands, Sessions(d, c)
      PROVE  Connected(k)'
  BY DaemonAssumption, SocketAssumption, <1>21 DEF Sessions, Take, Respond, socketVars,
      windowVars, lockVars, connVars, shownVars
<1>22. ASSUME NEW d \in Daemons, NEW c \in Commands, Shutdown(d, c)
      PROVE  Connected(k)'
  BY DaemonAssumption, SocketAssumption, <1>22 DEF Shutdown, Take, Respond, socketVars,
      windowVars, lockVars, connVars, shownVars
<1>23. ASSUME NEW d \in Daemons, BindSteps(d)
      PROVE  Connected(k)'
  BY DaemonAssumption, SocketAssumption, <1>23 DEF BindSteps, Quiet, Probe, ClearStale, Bind,
      Open, Unlink, Become, socketVars, windowVars, lockVars, connVars, shownVars
<1>24. ASSUME NEW d \in Daemons, ToldToStop(d)
      PROVE  Connected(k)'
  BY DaemonAssumption, SocketAssumption, <1>24 DEF ToldToStop, Quiet, StopListening, Become,
      socketVars, windowVars, lockVars, connVars, shownVars
<1>25. ASSUME NEW d \in Daemons, IdleExit(d)
      PROVE  Connected(k)'
  BY DaemonAssumption, SocketAssumption, <1>25 DEF IdleExit, Quiet, StopListening, Become,
      socketVars, windowVars, lockVars, connVars, shownVars
<1>26. ASSUME NEW d \in Daemons, StopSessions(d)
      PROVE  Connected(k)'
  BY DaemonAssumption, SocketAssumption, <1>26 DEF StopSessions, Quiet, StopOwned, Become,
      socketVars, windowVars, lockVars, connVars, shownVars
<1>27. ASSUME NEW d \in Daemons, EndProcess(d)
      PROVE  Connected(k)'
  BY DaemonAssumption, SocketAssumption, <1>27 DEF EndProcess, Quiet, Exit, Kill, Become,
      socketVars, windowVars, lockVars, connVars, shownVars
<1>28. ASSUME NEW d \in Daemons, NEW s \in Launches, Speak(d, s)
      PROVE  Connected(k)'
  BY DaemonAssumption, SocketAssumption, <1>28 DEF Speak, socketVars, windowVars, lockVars,
      connVars, shownVars
<1>29. ASSUME NEW d \in Daemons, NEW s \in Launches, EndSession(d, s)
      PROVE  Connected(k)'
  BY DaemonAssumption, SocketAssumption, <1>29 DEF EndSession, SeeClosed, Active, socketVars,
      windowVars, lockVars, connVars, shownVars
<1>30. CASE UNCHANGED daemonVars
  BY DaemonAssumption, SocketAssumption, <1>30 DEF daemonVars, socketVars, windowVars,
      lockVars, connVars, shownVars
<1> QED BY <1>1, <1>2, <1>3, <1>4, <1>5, <1>6, <1>7, <1>8, <1>9, <1>10, <1>11, <1>12, <1>13,
    <1>14, <1>15, <1>16, <1>17, <1>18, <1>19, <1>20, <1>21, <1>22, <1>23, <1>24, <1>25, <1>26,
    <1>27, <1>28, <1>29, <1>30 DEF DaemonNext, Client, Process, Dispatch

LEMMA SlotStep ==
  ASSUME DaemonTypeOK, slot # Nobody => stage[slot] \notin Ungreeted, [DaemonNext]_daemonVars
  PROVE  (slot # Nobody => stage[slot] \notin Ungreeted)'
<1> USE DEF DaemonTypeOK, SocketTypeOK, Maybe, PCs, Undialled, Ungreeted
<1>1. CASE OpenWindow
  BY DaemonAssumption, SocketAssumption, <1>1 DEF OpenWindow, socketVars, windowVars, lockVars,
      connVars, shownVars
<1>2. CASE CloseWindow
  BY DaemonAssumption, SocketAssumption, <1>2 DEF CloseWindow, Active, socketVars, windowVars,
      lockVars, connVars, shownVars
<1>3. ASSUME NEW c \in Commands, Begin(c)
      PROVE  (slot # Nobody => stage[slot] \notin Ungreeted)'
  BY DaemonAssumption, SocketAssumption, <1>3 DEF Begin, Advance, socketVars, windowVars,
      lockVars, connVars, shownVars
<1>4. ASSUME NEW c \in Commands, AttachHeld(c)
      PROVE  (slot # Nobody => stage[slot] \notin Ungreeted)'
  BY DaemonAssumption, SocketAssumption, <1>4 DEF AttachHeld, Advance, socketVars, windowVars,
      lockVars, connVars, shownVars, Held
<1>5. ASSUME NEW c \in Commands, AttachDials(c)
      PROVE  (slot # Nobody => stage[slot] \notin Ungreeted)'
  BY DaemonAssumption, SocketAssumption, <1>5 DEF AttachDials, Advance, socketVars, windowVars,
      lockVars, connVars, shownVars, Held, Dial, Reachable
<1>6. ASSUME NEW c \in Commands, AttachMisses(c)
      PROVE  (slot # Nobody => stage[slot] \notin Ungreeted)'
  BY DaemonAssumption, SocketAssumption, <1>6 DEF AttachMisses, Advance, socketVars,
      windowVars, lockVars, connVars, shownVars, Unattached
<1>7. ASSUME NEW c \in Commands, Greet(c)
      PROVE  (slot # Nobody => stage[slot] \notin Ungreeted)'
  BY DaemonAssumption, SocketAssumption, <1>7 DEF Greet, socketVars, windowVars, lockVars,
      connVars, shownVars
<1>8. ASSUME NEW c \in Commands, GreetingFails(c)
      PROVE  (slot # Nobody => stage[slot] \notin Ungreeted)'
  BY DaemonAssumption, SocketAssumption, <1>8 DEF GreetingFails, Advance, socketVars,
      windowVars, lockVars, connVars, shownVars, Unattached
<1>9. ASSUME NEW c \in Commands, Opened(c)
      PROVE  (slot # Nobody => stage[slot] \notin Ungreeted)'
  BY DaemonAssumption, SocketAssumption, <1>9 DEF Opened, Advance, socketVars, windowVars,
      lockVars, connVars, shownVars
<1>10. ASSUME NEW c \in Commands, NEW d \in Daemons, Spawn(c, d)
      PROVE  (slot # Nobody => stage[slot] \notin Ungreeted)'
  BY DaemonAssumption, SocketAssumption, <1>10 DEF Spawn, Advance, socketVars, windowVars,
      lockVars, connVars, shownVars, Become
<1>11. ASSUME NEW c \in Commands, SpawnFails(c)
      PROVE  (slot # Nobody => stage[slot] \notin Ungreeted)'
  BY DaemonAssumption, SocketAssumption, <1>11 DEF SpawnFails, Advance, socketVars, windowVars,
      lockVars, connVars, shownVars
<1>12. ASSUME NEW c \in Commands, EnsureDials(c)
      PROVE  (slot # Nobody => stage[slot] \notin Ungreeted)'
  BY DaemonAssumption, SocketAssumption, <1>12 DEF EnsureDials, Advance, socketVars,
      windowVars, lockVars, connVars, shownVars, Dial, Reachable
<1>13. ASSUME NEW c \in Commands, EnsureGivesUp(c)
      PROVE  (slot # Nobody => stage[slot] \notin Ungreeted)'
  BY DaemonAssumption, SocketAssumption, <1>13 DEF EnsureGivesUp, Advance, socketVars,
      windowVars, lockVars, connVars, shownVars
<1>14. ASSUME NEW c \in Commands, Check(c)
      PROVE  (slot # Nobody => stage[slot] \notin Ungreeted)'
  BY DaemonAssumption, SocketAssumption, <1>14 DEF Check, Advance, socketVars, windowVars,
      lockVars, connVars, shownVars
<1>15. ASSUME NEW c \in Commands, Send(c)
      PROVE  (slot # Nobody => stage[slot] \notin Ungreeted)'
  BY DaemonAssumption, SocketAssumption, <1>15 DEF Send, Advance, socketVars, windowVars,
      lockVars, connVars, shownVars
<1>16. ASSUME NEW c \in Commands, TimesOut(c)
      PROVE  (slot # Nobody => stage[slot] \notin Ungreeted)'
  BY DaemonAssumption, SocketAssumption, <1>16 DEF TimesOut, Advance, socketVars, windowVars,
      lockVars, connVars, shownVars
<1>17. ASSUME NEW c \in Commands, Return(c)
      PROVE  (slot # Nobody => stage[slot] \notin Ungreeted)'
  BY DaemonAssumption, SocketAssumption, <1>17 DEF Return, Advance, socketVars, windowVars,
      lockVars, connVars, shownVars
<1>18. ASSUME NEW c \in Commands, Lost(c)
      PROVE  (slot # Nobody => stage[slot] \notin Ungreeted)'
  BY DaemonAssumption, SocketAssumption, <1>18 DEF Lost, SeeClosed, Active, socketVars,
      windowVars, lockVars, connVars, shownVars
<1>19. ASSUME NEW d \in Daemons, NEW c \in Commands, Launch(d, c)
      PROVE  (slot # Nobody => stage[slot] \notin Ungreeted)'
  BY DaemonAssumption, SocketAssumption, <1>19 DEF Launch, Take, Respond, socketVars,
      windowVars, lockVars, connVars, shownVars
<1>20. ASSUME NEW d \in Daemons, NEW c \in Commands, LaunchFails(d, c)
      PROVE  (slot # Nobody => stage[slot] \notin Ungreeted)'
  BY DaemonAssumption, SocketAssumption, <1>20 DEF LaunchFails, Take, Respond, socketVars,
      windowVars, lockVars, connVars, shownVars
<1>21. ASSUME NEW d \in Daemons, NEW c \in Commands, Sessions(d, c)
      PROVE  (slot # Nobody => stage[slot] \notin Ungreeted)'
  BY DaemonAssumption, SocketAssumption, <1>21 DEF Sessions, Take, Respond, socketVars,
      windowVars, lockVars, connVars, shownVars
<1>22. ASSUME NEW d \in Daemons, NEW c \in Commands, Shutdown(d, c)
      PROVE  (slot # Nobody => stage[slot] \notin Ungreeted)'
  BY DaemonAssumption, SocketAssumption, <1>22 DEF Shutdown, Take, Respond, socketVars,
      windowVars, lockVars, connVars, shownVars
<1>23. ASSUME NEW d \in Daemons, BindSteps(d)
      PROVE  (slot # Nobody => stage[slot] \notin Ungreeted)'
  BY DaemonAssumption, SocketAssumption, <1>23 DEF BindSteps, Quiet, Probe, ClearStale, Bind,
      Open, Unlink, Become, socketVars, windowVars, lockVars, connVars, shownVars
<1>24. ASSUME NEW d \in Daemons, ToldToStop(d)
      PROVE  (slot # Nobody => stage[slot] \notin Ungreeted)'
  BY DaemonAssumption, SocketAssumption, <1>24 DEF ToldToStop, Quiet, StopListening, Become,
      socketVars, windowVars, lockVars, connVars, shownVars
<1>25. ASSUME NEW d \in Daemons, IdleExit(d)
      PROVE  (slot # Nobody => stage[slot] \notin Ungreeted)'
  BY DaemonAssumption, SocketAssumption, <1>25 DEF IdleExit, Quiet, StopListening, Become,
      socketVars, windowVars, lockVars, connVars, shownVars
<1>26. ASSUME NEW d \in Daemons, StopSessions(d)
      PROVE  (slot # Nobody => stage[slot] \notin Ungreeted)'
  BY DaemonAssumption, SocketAssumption, <1>26 DEF StopSessions, Quiet, StopOwned, Become,
      socketVars, windowVars, lockVars, connVars, shownVars
<1>27. ASSUME NEW d \in Daemons, EndProcess(d)
      PROVE  (slot # Nobody => stage[slot] \notin Ungreeted)'
  BY DaemonAssumption, SocketAssumption, <1>27 DEF EndProcess, Quiet, Exit, Kill, Become,
      socketVars, windowVars, lockVars, connVars, shownVars
<1>28. ASSUME NEW d \in Daemons, NEW s \in Launches, Speak(d, s)
      PROVE  (slot # Nobody => stage[slot] \notin Ungreeted)'
  BY DaemonAssumption, SocketAssumption, <1>28 DEF Speak, socketVars, windowVars, lockVars,
      connVars, shownVars
<1>29. ASSUME NEW d \in Daemons, NEW s \in Launches, EndSession(d, s)
      PROVE  (slot # Nobody => stage[slot] \notin Ungreeted)'
  BY DaemonAssumption, SocketAssumption, <1>29 DEF EndSession, SeeClosed, Active, socketVars,
      windowVars, lockVars, connVars, shownVars
<1>30. CASE UNCHANGED daemonVars
  BY DaemonAssumption, SocketAssumption, <1>30 DEF daemonVars, socketVars, windowVars,
      lockVars, connVars, shownVars
<1> QED BY <1>1, <1>2, <1>3, <1>4, <1>5, <1>6, <1>7, <1>8, <1>9, <1>10, <1>11, <1>12, <1>13,
    <1>14, <1>15, <1>16, <1>17, <1>18, <1>19, <1>20, <1>21, <1>22, <1>23, <1>24, <1>25, <1>26,
    <1>27, <1>28, <1>29, <1>30 DEF DaemonNext, Client, Process, Dispatch

LEMMA ListlessStep ==
  ASSUME DaemonTypeOK, NEW k \in Commands, Listless(k), [DaemonNext]_daemonVars
  PROVE  Listless(k)'
<1> USE DEF DaemonTypeOK, SocketTypeOK, Maybe, PCs, Listless
<1>1. CASE OpenWindow
  BY DaemonAssumption, SocketAssumption, <1>1 DEF OpenWindow, socketVars, windowVars, lockVars,
      connVars, shownVars
<1>2. CASE CloseWindow
  BY DaemonAssumption, SocketAssumption, <1>2 DEF CloseWindow, Active, socketVars, windowVars,
      lockVars, connVars, shownVars
<1>3. ASSUME NEW c \in Commands, Begin(c)
      PROVE  Listless(k)'
  BY DaemonAssumption, SocketAssumption, <1>3 DEF Begin, Advance, socketVars, windowVars,
      lockVars, connVars, shownVars
<1>4. ASSUME NEW c \in Commands, AttachHeld(c)
      PROVE  Listless(k)'
  BY DaemonAssumption, SocketAssumption, <1>4 DEF AttachHeld, Advance, socketVars, windowVars,
      lockVars, connVars, shownVars, Held
<1>5. ASSUME NEW c \in Commands, AttachDials(c)
      PROVE  Listless(k)'
  BY DaemonAssumption, SocketAssumption, <1>5 DEF AttachDials, Advance, socketVars, windowVars,
      lockVars, connVars, shownVars, Held, Dial, Reachable
<1>6. ASSUME NEW c \in Commands, AttachMisses(c)
      PROVE  Listless(k)'
  BY DaemonAssumption, SocketAssumption, <1>6 DEF AttachMisses, Advance, socketVars,
      windowVars, lockVars, connVars, shownVars, Unattached
<1>7. ASSUME NEW c \in Commands, Greet(c)
      PROVE  Listless(k)'
  BY DaemonAssumption, SocketAssumption, <1>7 DEF Greet, socketVars, windowVars, lockVars,
      connVars, shownVars
<1>8. ASSUME NEW c \in Commands, GreetingFails(c)
      PROVE  Listless(k)'
  BY DaemonAssumption, SocketAssumption, <1>8 DEF GreetingFails, Advance, socketVars,
      windowVars, lockVars, connVars, shownVars, Unattached
<1>9. ASSUME NEW c \in Commands, Opened(c)
      PROVE  Listless(k)'
  BY DaemonAssumption, SocketAssumption, <1>9 DEF Opened, Advance, socketVars, windowVars,
      lockVars, connVars, shownVars
<1>10. ASSUME NEW c \in Commands, NEW d \in Daemons, Spawn(c, d)
      PROVE  Listless(k)'
  BY DaemonAssumption, SocketAssumption, <1>10 DEF Spawn, Advance, socketVars, windowVars,
      lockVars, connVars, shownVars, Become
<1>11. ASSUME NEW c \in Commands, SpawnFails(c)
      PROVE  Listless(k)'
  BY DaemonAssumption, SocketAssumption, <1>11 DEF SpawnFails, Advance, socketVars, windowVars,
      lockVars, connVars, shownVars
<1>12. ASSUME NEW c \in Commands, EnsureDials(c)
      PROVE  Listless(k)'
  BY DaemonAssumption, SocketAssumption, <1>12 DEF EnsureDials, Advance, socketVars,
      windowVars, lockVars, connVars, shownVars, Dial, Reachable
<1>13. ASSUME NEW c \in Commands, EnsureGivesUp(c)
      PROVE  Listless(k)'
  BY DaemonAssumption, SocketAssumption, <1>13 DEF EnsureGivesUp, Advance, socketVars,
      windowVars, lockVars, connVars, shownVars
<1>14. ASSUME NEW c \in Commands, Check(c)
      PROVE  Listless(k)'
  BY DaemonAssumption, SocketAssumption, <1>14 DEF Check, Advance, socketVars, windowVars,
      lockVars, connVars, shownVars
<1>15. ASSUME NEW c \in Commands, Send(c)
      PROVE  Listless(k)'
  BY DaemonAssumption, SocketAssumption, <1>15 DEF Send, Advance, socketVars, windowVars,
      lockVars, connVars, shownVars
<1>16. ASSUME NEW c \in Commands, TimesOut(c)
      PROVE  Listless(k)'
  BY DaemonAssumption, SocketAssumption, <1>16 DEF TimesOut, Advance, socketVars, windowVars,
      lockVars, connVars, shownVars
<1>17. ASSUME NEW c \in Commands, Return(c)
      PROVE  Listless(k)'
  BY DaemonAssumption, SocketAssumption, <1>17 DEF Return, Advance, socketVars, windowVars,
      lockVars, connVars, shownVars
<1>18. ASSUME NEW c \in Commands, Lost(c)
      PROVE  Listless(k)'
  BY DaemonAssumption, SocketAssumption, <1>18 DEF Lost, SeeClosed, Active, socketVars,
      windowVars, lockVars, connVars, shownVars
<1>19. ASSUME NEW d \in Daemons, NEW c \in Commands, Launch(d, c)
      PROVE  Listless(k)'
  BY DaemonAssumption, SocketAssumption, <1>19 DEF Launch, Take, Respond, socketVars,
      windowVars, lockVars, connVars, shownVars
<1>20. ASSUME NEW d \in Daemons, NEW c \in Commands, LaunchFails(d, c)
      PROVE  Listless(k)'
  BY DaemonAssumption, SocketAssumption, <1>20 DEF LaunchFails, Take, Respond, socketVars,
      windowVars, lockVars, connVars, shownVars
<1>21. ASSUME NEW d \in Daemons, NEW c \in Commands, Sessions(d, c)
      PROVE  Listless(k)'
  BY DaemonAssumption, SocketAssumption, <1>21 DEF Sessions, Take, Respond, socketVars,
      windowVars, lockVars, connVars, shownVars
<1>22. ASSUME NEW d \in Daemons, NEW c \in Commands, Shutdown(d, c)
      PROVE  Listless(k)'
  BY DaemonAssumption, SocketAssumption, <1>22 DEF Shutdown, Take, Respond, socketVars,
      windowVars, lockVars, connVars, shownVars
<1>23. ASSUME NEW d \in Daemons, BindSteps(d)
      PROVE  Listless(k)'
  BY DaemonAssumption, SocketAssumption, <1>23 DEF BindSteps, Quiet, Probe, ClearStale, Bind,
      Open, Unlink, Become, socketVars, windowVars, lockVars, connVars, shownVars
<1>24. ASSUME NEW d \in Daemons, ToldToStop(d)
      PROVE  Listless(k)'
  BY DaemonAssumption, SocketAssumption, <1>24 DEF ToldToStop, Quiet, StopListening, Become,
      socketVars, windowVars, lockVars, connVars, shownVars
<1>25. ASSUME NEW d \in Daemons, IdleExit(d)
      PROVE  Listless(k)'
  BY DaemonAssumption, SocketAssumption, <1>25 DEF IdleExit, Quiet, StopListening, Become,
      socketVars, windowVars, lockVars, connVars, shownVars
<1>26. ASSUME NEW d \in Daemons, StopSessions(d)
      PROVE  Listless(k)'
  BY DaemonAssumption, SocketAssumption, <1>26 DEF StopSessions, Quiet, StopOwned, Become,
      socketVars, windowVars, lockVars, connVars, shownVars
<1>27. ASSUME NEW d \in Daemons, EndProcess(d)
      PROVE  Listless(k)'
  BY DaemonAssumption, SocketAssumption, <1>27 DEF EndProcess, Quiet, Exit, Kill, Become,
      socketVars, windowVars, lockVars, connVars, shownVars
<1>28. ASSUME NEW d \in Daemons, NEW s \in Launches, Speak(d, s)
      PROVE  Listless(k)'
  BY DaemonAssumption, SocketAssumption, <1>28 DEF Speak, socketVars, windowVars, lockVars,
      connVars, shownVars
<1>29. ASSUME NEW d \in Daemons, NEW s \in Launches, EndSession(d, s)
      PROVE  Listless(k)'
  BY DaemonAssumption, SocketAssumption, <1>29 DEF EndSession, SeeClosed, Active, socketVars,
      windowVars, lockVars, connVars, shownVars
<1>30. CASE UNCHANGED daemonVars
  BY DaemonAssumption, SocketAssumption, <1>30 DEF daemonVars, socketVars, windowVars,
      lockVars, connVars, shownVars
<1> QED BY <1>1, <1>2, <1>3, <1>4, <1>5, <1>6, <1>7, <1>8, <1>9, <1>10, <1>11, <1>12, <1>13,
    <1>14, <1>15, <1>16, <1>17, <1>18, <1>19, <1>20, <1>21, <1>22, <1>23, <1>24, <1>25, <1>26,
    <1>27, <1>28, <1>29, <1>30 DEF DaemonNext, Client, Process, Dispatch

LEMMA RoutedStep ==
  ASSUME DaemonTypeOK, NEW k \in Commands, Wiring, [DaemonNext]_daemonVars
  PROVE  Routed(k)'
<1> USE DEF DaemonTypeOK, SocketTypeOK, Maybe, PCs, Wiring, Connected, Routed, Undialled,
            Ungreeted, Pending
<1>1. CASE OpenWindow
  BY DaemonAssumption, SocketAssumption, <1>1 DEF OpenWindow, socketVars, windowVars, lockVars,
      connVars, shownVars
<1>2. CASE CloseWindow
  BY DaemonAssumption, SocketAssumption, <1>2 DEF CloseWindow, Active, socketVars, windowVars,
      lockVars, connVars, shownVars
<1>3. ASSUME NEW c \in Commands, Begin(c)
      PROVE  Routed(k)'
  BY DaemonAssumption, SocketAssumption, <1>3 DEF Begin, Advance, socketVars, windowVars,
      lockVars, connVars, shownVars
<1>4. ASSUME NEW c \in Commands, AttachHeld(c)
      PROVE  Routed(k)'
  BY DaemonAssumption, SocketAssumption, <1>4 DEF AttachHeld, Advance, socketVars, windowVars,
      lockVars, connVars, shownVars, Held
<1>5. ASSUME NEW c \in Commands, AttachDials(c)
      PROVE  Routed(k)'
  BY DaemonAssumption, SocketAssumption, <1>5 DEF AttachDials, Advance, socketVars, windowVars,
      lockVars, connVars, shownVars, Held, Dial, Reachable
<1>6. ASSUME NEW c \in Commands, AttachMisses(c)
      PROVE  Routed(k)'
  BY DaemonAssumption, SocketAssumption, <1>6 DEF AttachMisses, Advance, socketVars,
      windowVars, lockVars, connVars, shownVars, Unattached
<1>7. ASSUME NEW c \in Commands, Greet(c)
      PROVE  Routed(k)'
  BY DaemonAssumption, SocketAssumption, <1>7 DEF Greet, socketVars, windowVars, lockVars,
      connVars, shownVars
<1>8. ASSUME NEW c \in Commands, GreetingFails(c)
      PROVE  Routed(k)'
  BY DaemonAssumption, SocketAssumption, <1>8 DEF GreetingFails, Advance, socketVars,
      windowVars, lockVars, connVars, shownVars, Unattached
<1>9. ASSUME NEW c \in Commands, Opened(c)
      PROVE  Routed(k)'
  BY DaemonAssumption, SocketAssumption, <1>9 DEF Opened, Advance, socketVars, windowVars,
      lockVars, connVars, shownVars
<1>10. ASSUME NEW c \in Commands, NEW d \in Daemons, Spawn(c, d)
      PROVE  Routed(k)'
  BY DaemonAssumption, SocketAssumption, <1>10 DEF Spawn, Advance, socketVars, windowVars,
      lockVars, connVars, shownVars, Become
<1>11. ASSUME NEW c \in Commands, SpawnFails(c)
      PROVE  Routed(k)'
  BY DaemonAssumption, SocketAssumption, <1>11 DEF SpawnFails, Advance, socketVars, windowVars,
      lockVars, connVars, shownVars
<1>12. ASSUME NEW c \in Commands, EnsureDials(c)
      PROVE  Routed(k)'
  BY DaemonAssumption, SocketAssumption, <1>12 DEF EnsureDials, Advance, socketVars,
      windowVars, lockVars, connVars, shownVars, Dial, Reachable
<1>13. ASSUME NEW c \in Commands, EnsureGivesUp(c)
      PROVE  Routed(k)'
  BY DaemonAssumption, SocketAssumption, <1>13 DEF EnsureGivesUp, Advance, socketVars,
      windowVars, lockVars, connVars, shownVars
<1>14. ASSUME NEW c \in Commands, Check(c)
      PROVE  Routed(k)'
  BY DaemonAssumption, SocketAssumption, <1>14 DEF Check, Advance, socketVars, windowVars,
      lockVars, connVars, shownVars
<1>15. ASSUME NEW c \in Commands, Send(c)
      PROVE  Routed(k)'
  BY DaemonAssumption, SocketAssumption, <1>15 DEF Send, Advance, socketVars, windowVars,
      lockVars, connVars, shownVars
<1>16. ASSUME NEW c \in Commands, TimesOut(c)
      PROVE  Routed(k)'
  BY DaemonAssumption, SocketAssumption, <1>16 DEF TimesOut, Advance, socketVars, windowVars,
      lockVars, connVars, shownVars
<1>17. ASSUME NEW c \in Commands, Return(c)
      PROVE  Routed(k)'
  BY DaemonAssumption, SocketAssumption, <1>17 DEF Return, Advance, socketVars, windowVars,
      lockVars, connVars, shownVars
<1>18. ASSUME NEW c \in Commands, Lost(c)
      PROVE  Routed(k)'
  BY DaemonAssumption, SocketAssumption, <1>18 DEF Lost, SeeClosed, Active, socketVars,
      windowVars, lockVars, connVars, shownVars
<1>19. ASSUME NEW d \in Daemons, NEW c \in Commands, Launch(d, c)
      PROVE  Routed(k)'
  BY DaemonAssumption, SocketAssumption, <1>19 DEF Launch, Take, Respond, socketVars,
      windowVars, lockVars, connVars, shownVars
<1>20. ASSUME NEW d \in Daemons, NEW c \in Commands, LaunchFails(d, c)
      PROVE  Routed(k)'
  BY DaemonAssumption, SocketAssumption, <1>20 DEF LaunchFails, Take, Respond, socketVars,
      windowVars, lockVars, connVars, shownVars
<1>21. ASSUME NEW d \in Daemons, NEW c \in Commands, Sessions(d, c)
      PROVE  Routed(k)'
  BY DaemonAssumption, SocketAssumption, <1>21 DEF Sessions, Take, Respond, socketVars,
      windowVars, lockVars, connVars, shownVars
<1>22. ASSUME NEW d \in Daemons, NEW c \in Commands, Shutdown(d, c)
      PROVE  Routed(k)'
  BY DaemonAssumption, SocketAssumption, <1>22 DEF Shutdown, Take, Respond, socketVars,
      windowVars, lockVars, connVars, shownVars
<1>23. ASSUME NEW d \in Daemons, BindSteps(d)
      PROVE  Routed(k)'
  BY DaemonAssumption, SocketAssumption, <1>23 DEF BindSteps, Quiet, Probe, ClearStale, Bind,
      Open, Unlink, Become, socketVars, windowVars, lockVars, connVars, shownVars
<1>24. ASSUME NEW d \in Daemons, ToldToStop(d)
      PROVE  Routed(k)'
  BY DaemonAssumption, SocketAssumption, <1>24 DEF ToldToStop, Quiet, StopListening, Become,
      socketVars, windowVars, lockVars, connVars, shownVars
<1>25. ASSUME NEW d \in Daemons, IdleExit(d)
      PROVE  Routed(k)'
  BY DaemonAssumption, SocketAssumption, <1>25 DEF IdleExit, Quiet, StopListening, Become,
      socketVars, windowVars, lockVars, connVars, shownVars
<1>26. ASSUME NEW d \in Daemons, StopSessions(d)
      PROVE  Routed(k)'
  BY DaemonAssumption, SocketAssumption, <1>26 DEF StopSessions, Quiet, StopOwned, Become,
      socketVars, windowVars, lockVars, connVars, shownVars
<1>27. ASSUME NEW d \in Daemons, EndProcess(d)
      PROVE  Routed(k)'
  BY DaemonAssumption, SocketAssumption, <1>27 DEF EndProcess, Quiet, Exit, Kill, Become,
      socketVars, windowVars, lockVars, connVars, shownVars
<1>28. ASSUME NEW d \in Daemons, NEW s \in Launches, Speak(d, s)
      PROVE  Routed(k)'
  BY DaemonAssumption, SocketAssumption, <1>28 DEF Speak, socketVars, windowVars, lockVars,
      connVars, shownVars
<1>29. ASSUME NEW d \in Daemons, NEW s \in Launches, EndSession(d, s)
      PROVE  Routed(k)'
  BY DaemonAssumption, SocketAssumption, <1>29 DEF EndSession, SeeClosed, Active, socketVars,
      windowVars, lockVars, connVars, shownVars
<1>30. CASE UNCHANGED daemonVars
  BY DaemonAssumption, SocketAssumption, <1>30 DEF daemonVars, socketVars, windowVars,
      lockVars, connVars, shownVars
<1> QED BY <1>1, <1>2, <1>3, <1>4, <1>5, <1>6, <1>7, <1>8, <1>9, <1>10, <1>11, <1>12, <1>13,
    <1>14, <1>15, <1>16, <1>17, <1>18, <1>19, <1>20, <1>21, <1>22, <1>23, <1>24, <1>25, <1>26,
    <1>27, <1>28, <1>29, <1>30 DEF DaemonNext, Client, Process, Dispatch

(* A request that is still waited for was sent by a subscriber of its process. *)
LEMMA WaitingIsHeard ==
  ASSUME DaemonTypeOK, Wiring, NEW d \in Daemons, NEW c \in inbox[d], stage[c] = "waiting",
         use[c] \in alive
  PROVE  c \in Commands /\ Heard(d)
<1>1. c \in Commands
  BY DEF DaemonTypeOK
<1>2. use[c] \in Commands /\ use[c] # Nobody /\ link[use[c]] = d
  BY <1>1, DaemonAssumption DEF Wiring, Routed, DaemonTypeOK
<1>3. use[c] \in clients
  BY <1>1, <1>2 DEF Wiring, Routed, Connected
<1> QED BY <1>1, <1>2, <1>3 DEF Heard, Attends

LEMMA HeardKept ==
  ASSUME NEW d \in Daemons, Heard(d), UNCHANGED connVars
  PROVE  Heard(d)'
BY DEF Heard, Attends, connVars

LEMMA EndedStays ==
  ASSUME DaemonTypeOK, NEW e \in Daemons, life'[e] \notin {"removing", "gone"},
         [DaemonNext]_daemonVars
  PROVE  life[e] \notin {"removing", "gone"}
<1> USE DEF DaemonTypeOK, SocketTypeOK, Lives
<1>1. CASE OpenWindow
  BY SocketAssumption, <1>1 DEF OpenWindow, socketVars, windowVars, lockVars, connVars,
      shownVars
<1>2. CASE CloseWindow
  BY SocketAssumption, <1>2 DEF CloseWindow, Active, socketVars, windowVars, lockVars,
      connVars, shownVars
<1>3. ASSUME NEW c \in Commands, Begin(c)
      PROVE  life[e] \notin {"removing", "gone"}
  BY SocketAssumption, <1>3 DEF Begin, Advance, socketVars, windowVars, lockVars, connVars,
      shownVars
<1>4. ASSUME NEW c \in Commands, AttachHeld(c)
      PROVE  life[e] \notin {"removing", "gone"}
  BY SocketAssumption, <1>4 DEF AttachHeld, Advance, socketVars, windowVars, lockVars,
      connVars, shownVars, Held
<1>5. ASSUME NEW c \in Commands, AttachDials(c)
      PROVE  life[e] \notin {"removing", "gone"}
  BY SocketAssumption, <1>5 DEF AttachDials, Advance, socketVars, windowVars, lockVars,
      connVars, shownVars, Held, Dial, Reachable
<1>6. ASSUME NEW c \in Commands, AttachMisses(c)
      PROVE  life[e] \notin {"removing", "gone"}
  BY SocketAssumption, <1>6 DEF AttachMisses, Advance, socketVars, windowVars, lockVars,
      connVars, shownVars, Unattached
<1>7. ASSUME NEW c \in Commands, Greet(c)
      PROVE  life[e] \notin {"removing", "gone"}
  BY SocketAssumption, <1>7 DEF Greet, socketVars, windowVars, lockVars, connVars, shownVars
<1>8. ASSUME NEW c \in Commands, GreetingFails(c)
      PROVE  life[e] \notin {"removing", "gone"}
  BY SocketAssumption, <1>8 DEF GreetingFails, Advance, socketVars, windowVars, lockVars,
      connVars, shownVars, Unattached
<1>9. ASSUME NEW c \in Commands, Opened(c)
      PROVE  life[e] \notin {"removing", "gone"}
  BY SocketAssumption, <1>9 DEF Opened, Advance, socketVars, windowVars, lockVars, connVars,
      shownVars
<1>10. ASSUME NEW c \in Commands, NEW d \in Daemons, Spawn(c, d)
      PROVE  life[e] \notin {"removing", "gone"}
  BY SocketAssumption, <1>10 DEF Spawn, Advance, socketVars, windowVars, lockVars, connVars,
      shownVars, Become
<1>11. ASSUME NEW c \in Commands, SpawnFails(c)
      PROVE  life[e] \notin {"removing", "gone"}
  BY SocketAssumption, <1>11 DEF SpawnFails, Advance, socketVars, windowVars, lockVars,
      connVars, shownVars
<1>12. ASSUME NEW c \in Commands, EnsureDials(c)
      PROVE  life[e] \notin {"removing", "gone"}
  BY SocketAssumption, <1>12 DEF EnsureDials, Advance, socketVars, windowVars, lockVars,
      connVars, shownVars, Dial, Reachable
<1>13. ASSUME NEW c \in Commands, EnsureGivesUp(c)
      PROVE  life[e] \notin {"removing", "gone"}
  BY SocketAssumption, <1>13 DEF EnsureGivesUp, Advance, socketVars, windowVars, lockVars,
      connVars, shownVars
<1>14. ASSUME NEW c \in Commands, Check(c)
      PROVE  life[e] \notin {"removing", "gone"}
  BY SocketAssumption, <1>14 DEF Check, Advance, socketVars, windowVars, lockVars, connVars,
      shownVars
<1>15. ASSUME NEW c \in Commands, Send(c)
      PROVE  life[e] \notin {"removing", "gone"}
  BY SocketAssumption, <1>15 DEF Send, Advance, socketVars, windowVars, lockVars, connVars,
      shownVars
<1>16. ASSUME NEW c \in Commands, TimesOut(c)
      PROVE  life[e] \notin {"removing", "gone"}
  BY SocketAssumption, <1>16 DEF TimesOut, Advance, socketVars, windowVars, lockVars, connVars,
      shownVars
<1>17. ASSUME NEW c \in Commands, Return(c)
      PROVE  life[e] \notin {"removing", "gone"}
  BY SocketAssumption, <1>17 DEF Return, Advance, socketVars, windowVars, lockVars, connVars,
      shownVars
<1>18. ASSUME NEW c \in Commands, Lost(c)
      PROVE  life[e] \notin {"removing", "gone"}
  BY SocketAssumption, <1>18 DEF Lost, SeeClosed, Active, socketVars, windowVars, lockVars,
      connVars, shownVars
<1>19. ASSUME NEW d \in Daemons, NEW c \in Commands, Launch(d, c)
      PROVE  life[e] \notin {"removing", "gone"}
  BY SocketAssumption, <1>19 DEF Launch, Take, Respond, socketVars, windowVars, lockVars,
      connVars, shownVars
<1>20. ASSUME NEW d \in Daemons, NEW c \in Commands, LaunchFails(d, c)
      PROVE  life[e] \notin {"removing", "gone"}
  BY SocketAssumption, <1>20 DEF LaunchFails, Take, Respond, socketVars, windowVars, lockVars,
      connVars, shownVars
<1>21. ASSUME NEW d \in Daemons, NEW c \in Commands, Sessions(d, c)
      PROVE  life[e] \notin {"removing", "gone"}
  BY SocketAssumption, <1>21 DEF Sessions, Take, Respond, socketVars, windowVars, lockVars,
      connVars, shownVars
<1>22. ASSUME NEW d \in Daemons, NEW c \in Commands, Shutdown(d, c)
      PROVE  life[e] \notin {"removing", "gone"}
  BY SocketAssumption, <1>22 DEF Shutdown, Take, Respond, socketVars, windowVars, lockVars,
      connVars, shownVars
<1>23. ASSUME NEW d \in Daemons, BindSteps(d)
      PROVE  life[e] \notin {"removing", "gone"}
  BY SocketAssumption, <1>23 DEF BindSteps, Quiet, Probe, ClearStale, Bind, Open, Unlink,
      Become, socketVars, windowVars, lockVars, connVars, shownVars
<1>24. ASSUME NEW d \in Daemons, ToldToStop(d)
      PROVE  life[e] \notin {"removing", "gone"}
  BY SocketAssumption, <1>24 DEF ToldToStop, Quiet, StopListening, Become, socketVars,
      windowVars, lockVars, connVars, shownVars
<1>25. ASSUME NEW d \in Daemons, IdleExit(d)
      PROVE  life[e] \notin {"removing", "gone"}
  BY SocketAssumption, <1>25 DEF IdleExit, Quiet, StopListening, Become, socketVars,
      windowVars, lockVars, connVars, shownVars
<1>26. ASSUME NEW d \in Daemons, StopSessions(d)
      PROVE  life[e] \notin {"removing", "gone"}
  BY SocketAssumption, <1>26 DEF StopSessions, Quiet, StopOwned, Become, socketVars,
      windowVars, lockVars, connVars, shownVars
<1>27. ASSUME NEW d \in Daemons, EndProcess(d)
      PROVE  life[e] \notin {"removing", "gone"}
  BY SocketAssumption, <1>27 DEF EndProcess, Quiet, Exit, Kill, Become, socketVars, windowVars,
      lockVars, connVars, shownVars
<1>28. ASSUME NEW d \in Daemons, NEW s \in Launches, Speak(d, s)
      PROVE  life[e] \notin {"removing", "gone"}
  BY SocketAssumption, <1>28 DEF Speak, socketVars, windowVars, lockVars, connVars, shownVars
<1>29. ASSUME NEW d \in Daemons, NEW s \in Launches, EndSession(d, s)
      PROVE  life[e] \notin {"removing", "gone"}
  BY SocketAssumption, <1>29 DEF EndSession, SeeClosed, Active, socketVars, windowVars,
      lockVars, connVars, shownVars
<1>30. CASE UNCHANGED daemonVars
  BY SocketAssumption, <1>30 DEF daemonVars, socketVars, windowVars, lockVars, connVars,
      shownVars
<1> QED BY <1>1, <1>2, <1>3, <1>4, <1>5, <1>6, <1>7, <1>8, <1>9, <1>10, <1>11, <1>12, <1>13,
    <1>14, <1>15, <1>16, <1>17, <1>18, <1>19, <1>20, <1>21, <1>22, <1>23, <1>24, <1>25, <1>26,
    <1>27, <1>28, <1>29, <1>30 DEF DaemonNext, Client, Process, Dispatch

LEMMA ListedGrows ==
  ASSUME DaemonTypeOK, Wiring, NoneEnded, NEW x \in Launches, x \in listed',
         \A k \in Commands : UpToDate(k), [DaemonNext]_daemonVars
  PROVE  x \in listed \/ Attended(x)
<1> USE DEF DaemonTypeOK, SocketTypeOK, Maybe, PCs
<1>1. CASE OpenWindow
  BY <1>1 DEF OpenWindow, socketVars, windowVars, lockVars, connVars, shownVars
<1>2. CASE CloseWindow
  BY <1>2 DEF CloseWindow, Active, socketVars, windowVars, lockVars, connVars, shownVars
<1>3. ASSUME NEW c \in Commands, Begin(c)
      PROVE  x \in listed \/ Attended(x)
  BY <1>3 DEF Begin, Advance, socketVars, windowVars, lockVars, connVars, shownVars
<1>4. ASSUME NEW c \in Commands, AttachHeld(c)
      PROVE  x \in listed \/ Attended(x)
  BY <1>4 DEF AttachHeld, Advance, socketVars, windowVars, lockVars, connVars, shownVars, Held
<1>5. ASSUME NEW c \in Commands, AttachDials(c)
      PROVE  x \in listed \/ Attended(x)
  BY <1>5 DEF AttachDials, Advance, socketVars, windowVars, lockVars, connVars, shownVars,
      Held, Dial, Reachable
<1>6. ASSUME NEW c \in Commands, AttachMisses(c)
      PROVE  x \in listed \/ Attended(x)
  BY <1>6 DEF AttachMisses, Advance, socketVars, windowVars, lockVars, connVars, shownVars,
      Unattached
<1>7. ASSUME NEW c \in Commands, Greet(c)
      PROVE  x \in listed \/ Attended(x)
  BY <1>7 DEF Greet, socketVars, windowVars, lockVars, connVars, shownVars
<1>8. ASSUME NEW c \in Commands, GreetingFails(c)
      PROVE  x \in listed \/ Attended(x)
  BY <1>8 DEF GreetingFails, Advance, socketVars, windowVars, lockVars, connVars, shownVars,
      Unattached
<1>9. ASSUME NEW c \in Commands, Opened(c)
      PROVE  x \in listed \/ Attended(x)
  BY <1>9 DEF Opened, Advance, socketVars, windowVars, lockVars, connVars, shownVars
<1>10. ASSUME NEW c \in Commands, NEW d \in Daemons, Spawn(c, d)
      PROVE  x \in listed \/ Attended(x)
  BY <1>10 DEF Spawn, Advance, socketVars, windowVars, lockVars, connVars, shownVars, Become
<1>11. ASSUME NEW c \in Commands, SpawnFails(c)
      PROVE  x \in listed \/ Attended(x)
  BY <1>11 DEF SpawnFails, Advance, socketVars, windowVars, lockVars, connVars, shownVars
<1>12. ASSUME NEW c \in Commands, EnsureDials(c)
      PROVE  x \in listed \/ Attended(x)
  BY <1>12 DEF EnsureDials, Advance, socketVars, windowVars, lockVars, connVars, shownVars,
      Dial, Reachable
<1>13. ASSUME NEW c \in Commands, EnsureGivesUp(c)
      PROVE  x \in listed \/ Attended(x)
  BY <1>13 DEF EnsureGivesUp, Advance, socketVars, windowVars, lockVars, connVars, shownVars
<1>14. ASSUME NEW c \in Commands, Check(c)
      PROVE  x \in listed \/ Attended(x)
  BY <1>14 DEF Check, Advance, socketVars, windowVars, lockVars, connVars, shownVars
<1>15. ASSUME NEW c \in Commands, Send(c)
      PROVE  x \in listed \/ Attended(x)
  BY <1>15 DEF Send, Advance, socketVars, windowVars, lockVars, connVars, shownVars
<1>16. ASSUME NEW c \in Commands, TimesOut(c)
      PROVE  x \in listed \/ Attended(x)
  BY <1>16 DEF TimesOut, Advance, socketVars, windowVars, lockVars, connVars, shownVars
<1>17. ASSUME NEW c \in Commands, Return(c)
      PROVE  x \in listed \/ Attended(x)
  <2>1. CASE x \notin listed
    <3>1. x \in NamedBy(c) /\ x \notin closures[c] /\ stage[c] = "answered"
      BY <1>17, <2>1 DEF Return, Advance, NamedBy
    <3> QED BY <3>1 DEF UpToDate
  <2> QED BY <2>1
<1>18. ASSUME NEW c \in Commands, Lost(c)
      PROVE  x \in listed \/ Attended(x)
  <2>1. c \in alive /\ life[link[c]] = "gone" /\ link[c] \in Daemons
    BY <1>18 DEF Lost, Wiring, Connected
  <2> QED BY <2>1 DEF NoneEnded
<1>19. ASSUME NEW d \in Daemons, NEW c \in Commands, Launch(d, c)
      PROVE  x \in listed \/ Attended(x)
  BY <1>19 DEF Launch, Take, Respond, socketVars, windowVars, lockVars, connVars, shownVars
<1>20. ASSUME NEW d \in Daemons, NEW c \in Commands, LaunchFails(d, c)
      PROVE  x \in listed \/ Attended(x)
  BY <1>20 DEF LaunchFails, Take, Respond, socketVars, windowVars, lockVars, connVars, shownVars
<1>21. ASSUME NEW d \in Daemons, NEW c \in Commands, Sessions(d, c)
      PROVE  x \in listed \/ Attended(x)
  BY <1>21 DEF Sessions, Take, Respond, socketVars, windowVars, lockVars, connVars, shownVars
<1>22. ASSUME NEW d \in Daemons, NEW c \in Commands, Shutdown(d, c)
      PROVE  x \in listed \/ Attended(x)
  BY <1>22 DEF Shutdown, Take, Respond, socketVars, windowVars, lockVars, connVars, shownVars
<1>23. ASSUME NEW d \in Daemons, BindSteps(d)
      PROVE  x \in listed \/ Attended(x)
  BY <1>23 DEF BindSteps, Quiet, Probe, ClearStale, Bind, Open, Unlink, Become, socketVars,
      windowVars, lockVars, connVars, shownVars
<1>24. ASSUME NEW d \in Daemons, ToldToStop(d)
      PROVE  x \in listed \/ Attended(x)
  BY <1>24 DEF ToldToStop, Quiet, StopListening, Become, socketVars, windowVars, lockVars,
      connVars, shownVars
<1>25. ASSUME NEW d \in Daemons, IdleExit(d)
      PROVE  x \in listed \/ Attended(x)
  BY <1>25 DEF IdleExit, Quiet, StopListening, Become, socketVars, windowVars, lockVars,
      connVars, shownVars
<1>26. ASSUME NEW d \in Daemons, StopSessions(d)
      PROVE  x \in listed \/ Attended(x)
  BY <1>26 DEF StopSessions, Quiet, StopOwned, Become, socketVars, windowVars, lockVars,
      connVars, shownVars
<1>27. ASSUME NEW d \in Daemons, EndProcess(d)
      PROVE  x \in listed \/ Attended(x)
  BY <1>27 DEF EndProcess, Quiet, Exit, Kill, Become, socketVars, windowVars, lockVars,
      connVars, shownVars
<1>28. ASSUME NEW d \in Daemons, NEW s \in Launches, Speak(d, s)
      PROVE  x \in listed \/ Attended(x)
  BY <1>28 DEF Speak, socketVars, windowVars, lockVars, connVars, shownVars
<1>29. ASSUME NEW d \in Daemons, NEW s \in Launches, EndSession(d, s)
      PROVE  x \in listed \/ Attended(x)
  BY <1>29 DEF EndSession, SeeClosed, Active, socketVars, windowVars, lockVars, connVars,
      shownVars
<1>30. CASE UNCHANGED daemonVars
  BY <1>30 DEF daemonVars, socketVars, windowVars, lockVars, connVars, shownVars
<1> QED BY <1>1, <1>2, <1>3, <1>4, <1>5, <1>6, <1>7, <1>8, <1>9, <1>10, <1>11, <1>12, <1>13,
    <1>14, <1>15, <1>16, <1>17, <1>18, <1>19, <1>20, <1>21, <1>22, <1>23, <1>24, <1>25, <1>26,
    <1>27, <1>28, <1>29, <1>30 DEF DaemonNext, Client, Process, Dispatch

LEMMA NamedGrows ==
  ASSUME DaemonTypeOK, Wiring, NoneEnded, NEW k \in Commands, NEW x \in Launches, UpToDate(k),
         stage'[k] = "answered", x \in NamedBy(k)', [DaemonNext]_daemonVars
  PROVE  x \in closures'[k] \/ Attended(x) \/ Attended(x)'
<1> USE DEF DaemonTypeOK, SocketTypeOK, Maybe, PCs, UpToDate, NamedBy
<1>1. CASE OpenWindow
  BY DaemonAssumption, <1>1 DEF OpenWindow, socketVars, windowVars, lockVars, connVars,
      shownVars
<1>2. CASE CloseWindow
  BY DaemonAssumption, <1>2 DEF CloseWindow, Active, socketVars, windowVars, lockVars,
      connVars, shownVars
<1>3. ASSUME NEW c \in Commands, Begin(c)
      PROVE  x \in closures'[k] \/ Attended(x) \/ Attended(x)'
  BY DaemonAssumption, <1>3 DEF Begin, Advance, socketVars, windowVars, lockVars, connVars,
      shownVars
<1>4. ASSUME NEW c \in Commands, AttachHeld(c)
      PROVE  x \in closures'[k] \/ Attended(x) \/ Attended(x)'
  BY DaemonAssumption, <1>4 DEF AttachHeld, Advance, socketVars, windowVars, lockVars,
      connVars, shownVars, Held
<1>5. ASSUME NEW c \in Commands, AttachDials(c)
      PROVE  x \in closures'[k] \/ Attended(x) \/ Attended(x)'
  BY DaemonAssumption, <1>5 DEF AttachDials, Advance, socketVars, windowVars, lockVars,
      connVars, shownVars, Held, Dial, Reachable
<1>6. ASSUME NEW c \in Commands, AttachMisses(c)
      PROVE  x \in closures'[k] \/ Attended(x) \/ Attended(x)'
  BY DaemonAssumption, <1>6 DEF AttachMisses, Advance, socketVars, windowVars, lockVars,
      connVars, shownVars, Unattached
<1>7. ASSUME NEW c \in Commands, Greet(c)
      PROVE  x \in closures'[k] \/ Attended(x) \/ Attended(x)'
  BY DaemonAssumption, <1>7 DEF Greet, socketVars, windowVars, lockVars, connVars, shownVars
<1>8. ASSUME NEW c \in Commands, GreetingFails(c)
      PROVE  x \in closures'[k] \/ Attended(x) \/ Attended(x)'
  BY DaemonAssumption, <1>8 DEF GreetingFails, Advance, socketVars, windowVars, lockVars,
      connVars, shownVars, Unattached
<1>9. ASSUME NEW c \in Commands, Opened(c)
      PROVE  x \in closures'[k] \/ Attended(x) \/ Attended(x)'
  BY DaemonAssumption, <1>9 DEF Opened, Advance, socketVars, windowVars, lockVars, connVars,
      shownVars
<1>10. ASSUME NEW c \in Commands, NEW d \in Daemons, Spawn(c, d)
      PROVE  x \in closures'[k] \/ Attended(x) \/ Attended(x)'
  BY DaemonAssumption, <1>10 DEF Spawn, Advance, socketVars, windowVars, lockVars, connVars,
      shownVars, Become
<1>11. ASSUME NEW c \in Commands, SpawnFails(c)
      PROVE  x \in closures'[k] \/ Attended(x) \/ Attended(x)'
  BY DaemonAssumption, <1>11 DEF SpawnFails, Advance, socketVars, windowVars, lockVars,
      connVars, shownVars
<1>12. ASSUME NEW c \in Commands, EnsureDials(c)
      PROVE  x \in closures'[k] \/ Attended(x) \/ Attended(x)'
  BY DaemonAssumption, <1>12 DEF EnsureDials, Advance, socketVars, windowVars, lockVars,
      connVars, shownVars, Dial, Reachable
<1>13. ASSUME NEW c \in Commands, EnsureGivesUp(c)
      PROVE  x \in closures'[k] \/ Attended(x) \/ Attended(x)'
  BY DaemonAssumption, <1>13 DEF EnsureGivesUp, Advance, socketVars, windowVars, lockVars,
      connVars, shownVars
<1>14. ASSUME NEW c \in Commands, Check(c)
      PROVE  x \in closures'[k] \/ Attended(x) \/ Attended(x)'
  BY DaemonAssumption, <1>14 DEF Check, Advance, socketVars, windowVars, lockVars, connVars,
      shownVars
<1>15. ASSUME NEW c \in Commands, Send(c)
      PROVE  x \in closures'[k] \/ Attended(x) \/ Attended(x)'
  BY DaemonAssumption, <1>15 DEF Send, Advance, socketVars, windowVars, lockVars, connVars,
      shownVars
<1>16. ASSUME NEW c \in Commands, TimesOut(c)
      PROVE  x \in closures'[k] \/ Attended(x) \/ Attended(x)'
  BY DaemonAssumption, <1>16 DEF TimesOut, Advance, socketVars, windowVars, lockVars, connVars,
      shownVars
<1>17. ASSUME NEW c \in Commands, Return(c)
      PROVE  x \in closures'[k] \/ Attended(x) \/ Attended(x)'
  BY DaemonAssumption, <1>17 DEF Return, Advance, socketVars, windowVars, lockVars, connVars,
      shownVars
<1>18. ASSUME NEW c \in Commands, Lost(c)
      PROVE  x \in closures'[k] \/ Attended(x) \/ Attended(x)'
  BY DaemonAssumption, <1>18 DEF Lost, SeeClosed, Active, socketVars, windowVars, lockVars,
      connVars, shownVars
<1>19. ASSUME NEW d \in Daemons, NEW c \in Commands, Launch(d, c)
      PROVE  x \in closures'[k] \/ Attended(x) \/ Attended(x)'
  <2>1. CASE stage[k] = "answered" /\ x \in NamedBy(k)
    BY <1>19, <2>1 DEF Launch, Take, UpToDate, shownVars
  <2>2. CASE ~(stage[k] = "answered" /\ x \in NamedBy(k))
    <3>1. c = k /\ x = c /\ stage[c] = "waiting" /\ use[c] \in alive
      BY <1>19, <2>2, DaemonAssumption DEF Launch, Take, Respond
    <3>2. Heard(d)'
      BY <1>19, <3>1, WaitingIsHeard, HeardKept DEF Launch, Take
    <3>3. x \in owned'[d]
      BY <1>19, <3>1 DEF Launch
    <3> QED BY <3>2, <3>3 DEF Attended
  <2> QED BY <2>1, <2>2
<1>20. ASSUME NEW d \in Daemons, NEW c \in Commands, LaunchFails(d, c)
      PROVE  x \in closures'[k] \/ Attended(x) \/ Attended(x)'
  BY DaemonAssumption, <1>20 DEF LaunchFails, Take, Respond, socketVars, windowVars, lockVars,
      connVars, shownVars
<1>21. ASSUME NEW d \in Daemons, NEW c \in Commands, Sessions(d, c)
      PROVE  x \in closures'[k] \/ Attended(x) \/ Attended(x)'
  <2>1. CASE stage[k] = "answered" /\ k # c
    BY <1>21, <2>1 DEF Sessions, Take, UpToDate, NamedBy, shownVars
  <2>2. CASE stage[k] = "answered" /\ k = c
    BY <1>21, <2>2 DEF Sessions, Take, Wiring, Routed, Pending
  <2>3. CASE stage[k] # "answered"
    <3>1. c = k /\ stage[c] = "waiting" /\ use[c] \in alive
      BY <1>21, <2>3 DEF Sessions, Take, Respond
    <3>2. Heard(d)
      BY <1>21, <3>1, WaitingIsHeard DEF Sessions, Take
    <3>3. x \in owned[d]
      BY <1>21, <3>1, DaemonAssumption DEF Sessions, NamedBy
    <3> QED BY <3>2, <3>3 DEF Attended
  <2> QED BY <2>1, <2>2, <2>3
<1>22. ASSUME NEW d \in Daemons, NEW c \in Commands, Shutdown(d, c)
      PROVE  x \in closures'[k] \/ Attended(x) \/ Attended(x)'
  <2>1. CASE stage[k] = "answered"
    BY <1>22, <2>1 DEF Shutdown, Take, UpToDate, NamedBy, shownVars
  <2>2. CASE stage[k] # "answered"
    <3>1. c = k /\ stage[k] = "waiting"
      BY <1>22, <2>2 DEF Shutdown, Take, Respond
    <3>2. k \notin Launches /\ list[k] = {}
      BY <1>22, <3>1, DaemonAssumption DEF Shutdown, Wiring, Listless
    <3> QED BY <1>22, <3>2 DEF Shutdown, NamedBy
  <2> QED BY <2>1, <2>2
<1>23. ASSUME NEW d \in Daemons, BindSteps(d)
      PROVE  x \in closures'[k] \/ Attended(x) \/ Attended(x)'
  BY DaemonAssumption, <1>23 DEF BindSteps, Quiet, Probe, ClearStale, Bind, Open, Unlink,
      Become, socketVars, windowVars, lockVars, connVars, shownVars
<1>24. ASSUME NEW d \in Daemons, ToldToStop(d)
      PROVE  x \in closures'[k] \/ Attended(x) \/ Attended(x)'
  BY DaemonAssumption, <1>24 DEF ToldToStop, Quiet, StopListening, Become, socketVars,
      windowVars, lockVars, connVars, shownVars
<1>25. ASSUME NEW d \in Daemons, IdleExit(d)
      PROVE  x \in closures'[k] \/ Attended(x) \/ Attended(x)'
  BY DaemonAssumption, <1>25 DEF IdleExit, Quiet, StopListening, Become, socketVars,
      windowVars, lockVars, connVars, shownVars
<1>26. ASSUME NEW d \in Daemons, StopSessions(d)
      PROVE  x \in closures'[k] \/ Attended(x) \/ Attended(x)'
  BY DaemonAssumption, <1>26 DEF StopSessions, Quiet, StopOwned, Become, socketVars,
      windowVars, lockVars, connVars, shownVars
<1>27. ASSUME NEW d \in Daemons, EndProcess(d)
      PROVE  x \in closures'[k] \/ Attended(x) \/ Attended(x)'
  BY DaemonAssumption, <1>27 DEF EndProcess, Quiet, Exit, Kill, Become, socketVars, windowVars,
      lockVars, connVars, shownVars
<1>28. ASSUME NEW d \in Daemons, NEW s \in Launches, Speak(d, s)
      PROVE  x \in closures'[k] \/ Attended(x) \/ Attended(x)'
  BY DaemonAssumption, <1>28 DEF Speak, socketVars, windowVars, lockVars, connVars, shownVars
<1>29. ASSUME NEW d \in Daemons, NEW s \in Launches, EndSession(d, s)
      PROVE  x \in closures'[k] \/ Attended(x) \/ Attended(x)'
  BY DaemonAssumption, <1>29 DEF EndSession, SeeClosed, Active, socketVars, windowVars,
      lockVars, connVars, shownVars
<1>30. CASE UNCHANGED daemonVars
  BY DaemonAssumption, <1>30 DEF daemonVars, socketVars, windowVars, lockVars, connVars,
      shownVars
<1> QED BY <1>1, <1>2, <1>3, <1>4, <1>5, <1>6, <1>7, <1>8, <1>9, <1>10, <1>11, <1>12, <1>13,
    <1>14, <1>15, <1>16, <1>17, <1>18, <1>19, <1>20, <1>21, <1>22, <1>23, <1>24, <1>25, <1>26,
    <1>27, <1>28, <1>29, <1>30 DEF DaemonNext, Client, Process, Dispatch

LEMMA AttendedKept ==
  ASSUME DaemonTypeOK, Wiring, NoneEnded, NoneEnded', NEW x \in Launches, Attended(x),
         [DaemonNext]_daemonVars
  PROVE  Attended(x)' \/ Forgotten(x)
<1> USE DEF DaemonTypeOK, SocketTypeOK, Maybe, PCs, Wiring, Connected, Undialled, Ungreeted,
            Forgotten
<1>0. PICK d0 \in Daemons, k0 \in Commands : x \in owned[d0] /\ Attends(k0, d0)
  BY DEF Attended, Heard
<1>1. CASE OpenWindow
  BY <1>0, DaemonAssumption, <1>1 DEF OpenWindow, socketVars, windowVars, lockVars, connVars,
      shownVars, Attended, Heard, Attends
<1>2. CASE CloseWindow
  BY <1>0, DaemonAssumption, <1>2 DEF CloseWindow, Active, socketVars, windowVars, lockVars,
      connVars, shownVars, Attended, Heard, Attends
<1>3. ASSUME NEW c \in Commands, Begin(c)
      PROVE  Attended(x)' \/ Forgotten(x)
  BY <1>0, DaemonAssumption, <1>3 DEF Begin, Advance, socketVars, windowVars, lockVars,
      connVars, shownVars, Attended, Heard, Attends
<1>4. ASSUME NEW c \in Commands, AttachHeld(c)
      PROVE  Attended(x)' \/ Forgotten(x)
  BY <1>0, DaemonAssumption, <1>4 DEF AttachHeld, Advance, socketVars, windowVars, lockVars,
      connVars, shownVars, Held, Attended, Heard, Attends
<1>5. ASSUME NEW c \in Commands, AttachDials(c)
      PROVE  Attended(x)' \/ Forgotten(x)
  BY <1>0, DaemonAssumption, <1>5 DEF AttachDials, Advance, socketVars, windowVars, lockVars,
      connVars, shownVars, Held, Dial, Reachable, Attended, Heard, Attends
<1>6. ASSUME NEW c \in Commands, AttachMisses(c)
      PROVE  Attended(x)' \/ Forgotten(x)
  BY <1>0, DaemonAssumption, <1>6 DEF AttachMisses, Advance, socketVars, windowVars, lockVars,
      connVars, shownVars, Unattached, Attended, Heard, Attends
<1>7. ASSUME NEW c \in Commands, Greet(c)
      PROVE  Attended(x)' \/ Forgotten(x)
  BY <1>0, DaemonAssumption, <1>7 DEF Greet, socketVars, windowVars, lockVars, connVars,
      shownVars, Attended, Heard, Attends
<1>8. ASSUME NEW c \in Commands, GreetingFails(c)
      PROVE  Attended(x)' \/ Forgotten(x)
  BY <1>0, DaemonAssumption, <1>8 DEF GreetingFails, Advance, socketVars, windowVars, lockVars,
      connVars, shownVars, Unattached, Attended, Heard, Attends
<1>9. ASSUME NEW c \in Commands, Opened(c)
      PROVE  Attended(x)' \/ Forgotten(x)
  BY <1>0, DaemonAssumption, <1>9 DEF Opened, Advance, socketVars, windowVars, lockVars,
      connVars, shownVars, Attended, Heard, Attends
<1>10. ASSUME NEW c \in Commands, NEW d \in Daemons, Spawn(c, d)
      PROVE  Attended(x)' \/ Forgotten(x)
  BY <1>0, DaemonAssumption, <1>10 DEF Spawn, Advance, socketVars, windowVars, lockVars,
      connVars, shownVars, Become, Attended, Heard, Attends
<1>11. ASSUME NEW c \in Commands, SpawnFails(c)
      PROVE  Attended(x)' \/ Forgotten(x)
  BY <1>0, DaemonAssumption, <1>11 DEF SpawnFails, Advance, socketVars, windowVars, lockVars,
      connVars, shownVars, Attended, Heard, Attends
<1>12. ASSUME NEW c \in Commands, EnsureDials(c)
      PROVE  Attended(x)' \/ Forgotten(x)
  BY <1>0, DaemonAssumption, <1>12 DEF EnsureDials, Advance, socketVars, windowVars, lockVars,
      connVars, shownVars, Dial, Reachable, Attended, Heard, Attends
<1>13. ASSUME NEW c \in Commands, EnsureGivesUp(c)
      PROVE  Attended(x)' \/ Forgotten(x)
  BY <1>0, DaemonAssumption, <1>13 DEF EnsureGivesUp, Advance, socketVars, windowVars,
      lockVars, connVars, shownVars, Attended, Heard, Attends
<1>14. ASSUME NEW c \in Commands, Check(c)
      PROVE  Attended(x)' \/ Forgotten(x)
  BY <1>0, DaemonAssumption, <1>14 DEF Check, Advance, socketVars, windowVars, lockVars,
      connVars, shownVars, Attended, Heard, Attends
<1>15. ASSUME NEW c \in Commands, Send(c)
      PROVE  Attended(x)' \/ Forgotten(x)
  BY <1>0, DaemonAssumption, <1>15 DEF Send, Advance, socketVars, windowVars, lockVars,
      connVars, shownVars, Attended, Heard, Attends
<1>16. ASSUME NEW c \in Commands, TimesOut(c)
      PROVE  Attended(x)' \/ Forgotten(x)
  BY <1>0, DaemonAssumption, <1>16 DEF TimesOut, Advance, socketVars, windowVars, lockVars,
      connVars, shownVars, Attended, Heard, Attends
<1>17. ASSUME NEW c \in Commands, Return(c)
      PROVE  Attended(x)' \/ Forgotten(x)
  BY <1>0, DaemonAssumption, <1>17 DEF Return, Advance, socketVars, windowVars, lockVars,
      connVars, shownVars, Attended, Heard, Attends
<1>18. ASSUME NEW c \in Commands, Lost(c)
      PROVE  Attended(x)' \/ Forgotten(x)
  <2>1. life[link[c]] = "gone" /\ link[c] \in Daemons
    BY <1>18 DEF Lost
  <2> QED BY <2>1 DEF NoneEnded
<1>19. ASSUME NEW d \in Daemons, NEW c \in Commands, Launch(d, c)
      PROVE  Attended(x)' \/ Forgotten(x)
  BY <1>0, DaemonAssumption, <1>19 DEF Launch, Take, Respond, socketVars, windowVars, lockVars,
      connVars, shownVars, Attended, Heard, Attends
<1>20. ASSUME NEW d \in Daemons, NEW c \in Commands, LaunchFails(d, c)
      PROVE  Attended(x)' \/ Forgotten(x)
  BY <1>0, DaemonAssumption, <1>20 DEF LaunchFails, Take, Respond, socketVars, windowVars,
      lockVars, connVars, shownVars, Attended, Heard, Attends
<1>21. ASSUME NEW d \in Daemons, NEW c \in Commands, Sessions(d, c)
      PROVE  Attended(x)' \/ Forgotten(x)
  BY <1>0, DaemonAssumption, <1>21 DEF Sessions, Take, Respond, socketVars, windowVars,
      lockVars, connVars, shownVars, Attended, Heard, Attends
<1>22. ASSUME NEW d \in Daemons, NEW c \in Commands, Shutdown(d, c)
      PROVE  Attended(x)' \/ Forgotten(x)
  BY <1>0, DaemonAssumption, <1>22 DEF Shutdown, Take, Respond, socketVars, windowVars,
      lockVars, connVars, shownVars, Attended, Heard, Attends
<1>23. ASSUME NEW d \in Daemons, BindSteps(d)
      PROVE  Attended(x)' \/ Forgotten(x)
  BY <1>0, DaemonAssumption, <1>23 DEF BindSteps, Quiet, Probe, ClearStale, Bind, Open, Unlink,
      Become, socketVars, windowVars, lockVars, connVars, shownVars, Attended, Heard, Attends
<1>24. ASSUME NEW d \in Daemons, ToldToStop(d)
      PROVE  Attended(x)' \/ Forgotten(x)
  BY <1>0, DaemonAssumption, <1>24 DEF ToldToStop, Quiet, StopListening, Become, socketVars,
      windowVars, lockVars, connVars, shownVars, Attended, Heard, Attends
<1>25. ASSUME NEW d \in Daemons, IdleExit(d)
      PROVE  Attended(x)' \/ Forgotten(x)
  BY <1>0, DaemonAssumption, <1>25 DEF IdleExit, Quiet, StopListening, Become, socketVars,
      windowVars, lockVars, connVars, shownVars, Attended, Heard, Attends
<1>26. ASSUME NEW d \in Daemons, StopSessions(d)
      PROVE  Attended(x)' \/ Forgotten(x)
  <2>1. life'[d] = "removing"
    BY <1>26 DEF StopSessions, StopOwned, Become
  <2> QED BY <2>1 DEF NoneEnded
<1>27. ASSUME NEW d \in Daemons, EndProcess(d)
      PROVE  Attended(x)' \/ Forgotten(x)
  <2>1. life'[d] = "gone"
    BY <1>27 DEF EndProcess, Exit, Kill, Become
  <2> QED BY <2>1 DEF NoneEnded
<1>28. ASSUME NEW d \in Daemons, NEW s \in Launches, Speak(d, s)
      PROVE  Attended(x)' \/ Forgotten(x)
  BY <1>0, DaemonAssumption, <1>28 DEF Speak, socketVars, windowVars, lockVars, connVars,
      shownVars, Attended, Heard, Attends
<1>29. ASSUME NEW d \in Daemons, NEW s \in Launches, EndSession(d, s)
      PROVE  Attended(x)' \/ Forgotten(x)
  BY <1>0, DaemonAssumption, <1>29 DEF EndSession, SeeClosed, Active, socketVars, windowVars,
      lockVars, connVars, shownVars, Attended, Heard, Attends
<1>30. CASE UNCHANGED daemonVars
  BY <1>0, DaemonAssumption, <1>30 DEF daemonVars, socketVars, windowVars, lockVars, connVars,
      shownVars, Attended, Heard, Attends
<1> QED BY <1>1, <1>2, <1>3, <1>4, <1>5, <1>6, <1>7, <1>8, <1>9, <1>10, <1>11, <1>12, <1>13,
    <1>14, <1>15, <1>16, <1>17, <1>18, <1>19, <1>20, <1>21, <1>22, <1>23, <1>24, <1>25, <1>26,
    <1>27, <1>28, <1>29, <1>30 DEF DaemonNext, Client, Process, Dispatch

LEMMA LockStep ==
  ASSUME DaemonTypeOK, OneConnects, NEW k \in Commands, [DaemonNext]_daemonVars
  PROVE  Locking(k)'
<1> USE DEF DaemonTypeOK, SocketTypeOK, Maybe, PCs, OneConnects, Locking, Dialling
<1>1. CASE OpenWindow
  BY DaemonAssumption, SocketAssumption, <1>1 DEF OpenWindow, socketVars, windowVars, lockVars,
      connVars, shownVars
<1>2. CASE CloseWindow
  BY DaemonAssumption, SocketAssumption, <1>2 DEF CloseWindow, Active, socketVars, windowVars,
      lockVars, connVars, shownVars
<1>3. ASSUME NEW c \in Commands, Begin(c)
      PROVE  Locking(k)'
  BY DaemonAssumption, SocketAssumption, <1>3 DEF Begin, Advance, socketVars, windowVars,
      lockVars, connVars, shownVars
<1>4. ASSUME NEW c \in Commands, AttachHeld(c)
      PROVE  Locking(k)'
  BY DaemonAssumption, SocketAssumption, <1>4 DEF AttachHeld, Advance, socketVars, windowVars,
      lockVars, connVars, shownVars, Held
<1>5. ASSUME NEW c \in Commands, AttachDials(c)
      PROVE  Locking(k)'
  BY DaemonAssumption, SocketAssumption, <1>5 DEF AttachDials, Advance, socketVars, windowVars,
      lockVars, connVars, shownVars, Held, Dial, Reachable
<1>6. ASSUME NEW c \in Commands, AttachMisses(c)
      PROVE  Locking(k)'
  BY DaemonAssumption, SocketAssumption, <1>6 DEF AttachMisses, Advance, socketVars,
      windowVars, lockVars, connVars, shownVars, Unattached
<1>7. ASSUME NEW c \in Commands, Greet(c)
      PROVE  Locking(k)'
  BY DaemonAssumption, SocketAssumption, <1>7 DEF Greet, socketVars, windowVars, lockVars,
      connVars, shownVars
<1>8. ASSUME NEW c \in Commands, GreetingFails(c)
      PROVE  Locking(k)'
  BY DaemonAssumption, SocketAssumption, <1>8 DEF GreetingFails, Advance, socketVars,
      windowVars, lockVars, connVars, shownVars, Unattached
<1>9. ASSUME NEW c \in Commands, Opened(c)
      PROVE  Locking(k)'
  BY DaemonAssumption, SocketAssumption, <1>9 DEF Opened, Advance, socketVars, windowVars,
      lockVars, connVars, shownVars
<1>10. ASSUME NEW c \in Commands, NEW d \in Daemons, Spawn(c, d)
      PROVE  Locking(k)'
  BY DaemonAssumption, SocketAssumption, <1>10 DEF Spawn, Advance, socketVars, windowVars,
      lockVars, connVars, shownVars, Become
<1>11. ASSUME NEW c \in Commands, SpawnFails(c)
      PROVE  Locking(k)'
  BY DaemonAssumption, SocketAssumption, <1>11 DEF SpawnFails, Advance, socketVars, windowVars,
      lockVars, connVars, shownVars
<1>12. ASSUME NEW c \in Commands, EnsureDials(c)
      PROVE  Locking(k)'
  BY DaemonAssumption, SocketAssumption, <1>12 DEF EnsureDials, Advance, socketVars,
      windowVars, lockVars, connVars, shownVars, Dial, Reachable
<1>13. ASSUME NEW c \in Commands, EnsureGivesUp(c)
      PROVE  Locking(k)'
  BY DaemonAssumption, SocketAssumption, <1>13 DEF EnsureGivesUp, Advance, socketVars,
      windowVars, lockVars, connVars, shownVars
<1>14. ASSUME NEW c \in Commands, Check(c)
      PROVE  Locking(k)'
  BY DaemonAssumption, SocketAssumption, <1>14 DEF Check, Advance, socketVars, windowVars,
      lockVars, connVars, shownVars
<1>15. ASSUME NEW c \in Commands, Send(c)
      PROVE  Locking(k)'
  BY DaemonAssumption, SocketAssumption, <1>15 DEF Send, Advance, socketVars, windowVars,
      lockVars, connVars, shownVars
<1>16. ASSUME NEW c \in Commands, TimesOut(c)
      PROVE  Locking(k)'
  BY DaemonAssumption, SocketAssumption, <1>16 DEF TimesOut, Advance, socketVars, windowVars,
      lockVars, connVars, shownVars
<1>17. ASSUME NEW c \in Commands, Return(c)
      PROVE  Locking(k)'
  BY DaemonAssumption, SocketAssumption, <1>17 DEF Return, Advance, socketVars, windowVars,
      lockVars, connVars, shownVars
<1>18. ASSUME NEW c \in Commands, Lost(c)
      PROVE  Locking(k)'
  BY DaemonAssumption, SocketAssumption, <1>18 DEF Lost, SeeClosed, Active, socketVars,
      windowVars, lockVars, connVars, shownVars
<1>19. ASSUME NEW d \in Daemons, NEW c \in Commands, Launch(d, c)
      PROVE  Locking(k)'
  BY DaemonAssumption, SocketAssumption, <1>19 DEF Launch, Take, Respond, socketVars,
      windowVars, lockVars, connVars, shownVars
<1>20. ASSUME NEW d \in Daemons, NEW c \in Commands, LaunchFails(d, c)
      PROVE  Locking(k)'
  BY DaemonAssumption, SocketAssumption, <1>20 DEF LaunchFails, Take, Respond, socketVars,
      windowVars, lockVars, connVars, shownVars
<1>21. ASSUME NEW d \in Daemons, NEW c \in Commands, Sessions(d, c)
      PROVE  Locking(k)'
  BY DaemonAssumption, SocketAssumption, <1>21 DEF Sessions, Take, Respond, socketVars,
      windowVars, lockVars, connVars, shownVars
<1>22. ASSUME NEW d \in Daemons, NEW c \in Commands, Shutdown(d, c)
      PROVE  Locking(k)'
  BY DaemonAssumption, SocketAssumption, <1>22 DEF Shutdown, Take, Respond, socketVars,
      windowVars, lockVars, connVars, shownVars
<1>23. ASSUME NEW d \in Daemons, BindSteps(d)
      PROVE  Locking(k)'
  BY DaemonAssumption, SocketAssumption, <1>23 DEF BindSteps, Quiet, Probe, ClearStale, Bind,
      Open, Unlink, Become, socketVars, windowVars, lockVars, connVars, shownVars
<1>24. ASSUME NEW d \in Daemons, ToldToStop(d)
      PROVE  Locking(k)'
  BY DaemonAssumption, SocketAssumption, <1>24 DEF ToldToStop, Quiet, StopListening, Become,
      socketVars, windowVars, lockVars, connVars, shownVars
<1>25. ASSUME NEW d \in Daemons, IdleExit(d)
      PROVE  Locking(k)'
  BY DaemonAssumption, SocketAssumption, <1>25 DEF IdleExit, Quiet, StopListening, Become,
      socketVars, windowVars, lockVars, connVars, shownVars
<1>26. ASSUME NEW d \in Daemons, StopSessions(d)
      PROVE  Locking(k)'
  BY DaemonAssumption, SocketAssumption, <1>26 DEF StopSessions, Quiet, StopOwned, Become,
      socketVars, windowVars, lockVars, connVars, shownVars
<1>27. ASSUME NEW d \in Daemons, EndProcess(d)
      PROVE  Locking(k)'
  BY DaemonAssumption, SocketAssumption, <1>27 DEF EndProcess, Quiet, Exit, Kill, Become,
      socketVars, windowVars, lockVars, connVars, shownVars
<1>28. ASSUME NEW d \in Daemons, NEW s \in Launches, Speak(d, s)
      PROVE  Locking(k)'
  BY DaemonAssumption, SocketAssumption, <1>28 DEF Speak, socketVars, windowVars, lockVars,
      connVars, shownVars
<1>29. ASSUME NEW d \in Daemons, NEW s \in Launches, EndSession(d, s)
      PROVE  Locking(k)'
  BY DaemonAssumption, SocketAssumption, <1>29 DEF EndSession, SeeClosed, Active, socketVars,
      windowVars, lockVars, connVars, shownVars
<1>30. CASE UNCHANGED daemonVars
  BY DaemonAssumption, SocketAssumption, <1>30 DEF daemonVars, socketVars, windowVars,
      lockVars, connVars, shownVars
<1> QED BY <1>1, <1>2, <1>3, <1>4, <1>5, <1>6, <1>7, <1>8, <1>9, <1>10, <1>11, <1>12, <1>13,
    <1>14, <1>15, <1>16, <1>17, <1>18, <1>19, <1>20, <1>21, <1>22, <1>23, <1>24, <1>25, <1>26,
    <1>27, <1>28, <1>29, <1>30 DEF DaemonNext, Client, Process, Dispatch

LEMMA OnceStep ==
  ASSUME DaemonTypeOK, Wiring, NEW k \in Launches, Once(k), [DaemonNext]_daemonVars
  PROVE  Once(k)'
<1> USE DEF DaemonTypeOK, SocketTypeOK, Maybe, PCs, Once, Reached, Sent, Pending, Commands
<1>1. CASE OpenWindow
  BY DaemonAssumption, SocketAssumption, <1>1 DEF OpenWindow, socketVars, windowVars, lockVars,
      connVars, shownVars
<1>2. CASE CloseWindow
  BY DaemonAssumption, SocketAssumption, <1>2 DEF CloseWindow, Active, socketVars, windowVars,
      lockVars, connVars, shownVars
<1>3. ASSUME NEW c \in Commands, Begin(c)
      PROVE  Once(k)'
  BY DaemonAssumption, SocketAssumption, <1>3 DEF Begin, Advance, socketVars, windowVars,
      lockVars, connVars, shownVars
<1>4. ASSUME NEW c \in Commands, AttachHeld(c)
      PROVE  Once(k)'
  BY DaemonAssumption, SocketAssumption, <1>4 DEF AttachHeld, Advance, socketVars, windowVars,
      lockVars, connVars, shownVars, Held
<1>5. ASSUME NEW c \in Commands, AttachDials(c)
      PROVE  Once(k)'
  BY DaemonAssumption, SocketAssumption, <1>5 DEF AttachDials, Advance, socketVars, windowVars,
      lockVars, connVars, shownVars, Held, Dial, Reachable
<1>6. ASSUME NEW c \in Commands, AttachMisses(c)
      PROVE  Once(k)'
  BY DaemonAssumption, SocketAssumption, <1>6 DEF AttachMisses, Advance, socketVars,
      windowVars, lockVars, connVars, shownVars, Unattached
<1>7. ASSUME NEW c \in Commands, Greet(c)
      PROVE  Once(k)'
  BY DaemonAssumption, SocketAssumption, <1>7 DEF Greet, socketVars, windowVars, lockVars,
      connVars, shownVars
<1>8. ASSUME NEW c \in Commands, GreetingFails(c)
      PROVE  Once(k)'
  BY DaemonAssumption, SocketAssumption, <1>8 DEF GreetingFails, Advance, socketVars,
      windowVars, lockVars, connVars, shownVars, Unattached
<1>9. ASSUME NEW c \in Commands, Opened(c)
      PROVE  Once(k)'
  BY DaemonAssumption, SocketAssumption, <1>9 DEF Opened, Advance, socketVars, windowVars,
      lockVars, connVars, shownVars
<1>10. ASSUME NEW c \in Commands, NEW d \in Daemons, Spawn(c, d)
      PROVE  Once(k)'
  BY DaemonAssumption, SocketAssumption, <1>10 DEF Spawn, Advance, socketVars, windowVars,
      lockVars, connVars, shownVars, Become
<1>11. ASSUME NEW c \in Commands, SpawnFails(c)
      PROVE  Once(k)'
  BY DaemonAssumption, SocketAssumption, <1>11 DEF SpawnFails, Advance, socketVars, windowVars,
      lockVars, connVars, shownVars
<1>12. ASSUME NEW c \in Commands, EnsureDials(c)
      PROVE  Once(k)'
  BY DaemonAssumption, SocketAssumption, <1>12 DEF EnsureDials, Advance, socketVars,
      windowVars, lockVars, connVars, shownVars, Dial, Reachable
<1>13. ASSUME NEW c \in Commands, EnsureGivesUp(c)
      PROVE  Once(k)'
  BY DaemonAssumption, SocketAssumption, <1>13 DEF EnsureGivesUp, Advance, socketVars,
      windowVars, lockVars, connVars, shownVars
<1>14. ASSUME NEW c \in Commands, Check(c)
      PROVE  Once(k)'
  BY DaemonAssumption, SocketAssumption, <1>14 DEF Check, Advance, socketVars, windowVars,
      lockVars, connVars, shownVars
<1>15. ASSUME NEW c \in Commands, Send(c)
      PROVE  Once(k)'
  BY DaemonAssumption, SocketAssumption, <1>15 DEF Send, Advance, socketVars, windowVars,
      lockVars, connVars, shownVars
<1>16. ASSUME NEW c \in Commands, TimesOut(c)
      PROVE  Once(k)'
  BY DaemonAssumption, SocketAssumption, <1>16 DEF TimesOut, Advance, socketVars, windowVars,
      lockVars, connVars, shownVars
<1>17. ASSUME NEW c \in Commands, Return(c)
      PROVE  Once(k)'
  BY DaemonAssumption, SocketAssumption, <1>17 DEF Return, Advance, socketVars, windowVars,
      lockVars, connVars, shownVars
<1>18. ASSUME NEW c \in Commands, Lost(c)
      PROVE  Once(k)'
  BY DaemonAssumption, SocketAssumption, <1>18 DEF Lost, SeeClosed, Active, socketVars,
      windowVars, lockVars, connVars, shownVars
<1>19. ASSUME NEW d \in Daemons, NEW c \in Commands, Launch(d, c)
      PROVE  Once(k)'
  BY DaemonAssumption, SocketAssumption, <1>19 DEF Launch, Take, Respond, socketVars,
      windowVars, lockVars, connVars, shownVars
<1>20. ASSUME NEW d \in Daemons, NEW c \in Commands, LaunchFails(d, c)
      PROVE  Once(k)'
  BY DaemonAssumption, SocketAssumption, <1>20 DEF LaunchFails, Take, Respond, socketVars,
      windowVars, lockVars, connVars, shownVars
<1>21. ASSUME NEW d \in Daemons, NEW c \in Commands, Sessions(d, c)
      PROVE  Once(k)'
  BY DaemonAssumption, SocketAssumption, <1>21 DEF Sessions, Take, Respond, socketVars,
      windowVars, lockVars, connVars, shownVars
<1>22. ASSUME NEW d \in Daemons, NEW c \in Commands, Shutdown(d, c)
      PROVE  Once(k)'
  BY DaemonAssumption, SocketAssumption, <1>22 DEF Shutdown, Take, Respond, socketVars,
      windowVars, lockVars, connVars, shownVars
<1>23. ASSUME NEW d \in Daemons, BindSteps(d)
      PROVE  Once(k)'
  BY DaemonAssumption, SocketAssumption, <1>23 DEF BindSteps, Quiet, Probe, ClearStale, Bind,
      Open, Unlink, Become, socketVars, windowVars, lockVars, connVars, shownVars
<1>24. ASSUME NEW d \in Daemons, ToldToStop(d)
      PROVE  Once(k)'
  BY DaemonAssumption, SocketAssumption, <1>24 DEF ToldToStop, Quiet, StopListening, Become,
      socketVars, windowVars, lockVars, connVars, shownVars
<1>25. ASSUME NEW d \in Daemons, IdleExit(d)
      PROVE  Once(k)'
  BY DaemonAssumption, SocketAssumption, <1>25 DEF IdleExit, Quiet, StopListening, Become,
      socketVars, windowVars, lockVars, connVars, shownVars
<1>26. ASSUME NEW d \in Daemons, StopSessions(d)
      PROVE  Once(k)'
  BY DaemonAssumption, SocketAssumption, <1>26 DEF StopSessions, Quiet, StopOwned, Become,
      socketVars, windowVars, lockVars, connVars, shownVars
<1>27. ASSUME NEW d \in Daemons, EndProcess(d)
      PROVE  Once(k)'
  BY DaemonAssumption, SocketAssumption, <1>27 DEF EndProcess, Quiet, Exit, Kill, Become,
      socketVars, windowVars, lockVars, connVars, shownVars
<1>28. ASSUME NEW d \in Daemons, NEW s \in Launches, Speak(d, s)
      PROVE  Once(k)'
  BY DaemonAssumption, SocketAssumption, <1>28 DEF Speak, socketVars, windowVars, lockVars,
      connVars, shownVars
<1>29. ASSUME NEW d \in Daemons, NEW s \in Launches, EndSession(d, s)
      PROVE  Once(k)'
  BY DaemonAssumption, SocketAssumption, <1>29 DEF EndSession, SeeClosed, Active, socketVars,
      windowVars, lockVars, connVars, shownVars
<1>30. CASE UNCHANGED daemonVars
  BY DaemonAssumption, SocketAssumption, <1>30 DEF daemonVars, socketVars, windowVars,
      lockVars, connVars, shownVars
<1> QED BY <1>1, <1>2, <1>3, <1>4, <1>5, <1>6, <1>7, <1>8, <1>9, <1>10, <1>11, <1>12, <1>13,
    <1>14, <1>15, <1>16, <1>17, <1>18, <1>19, <1>20, <1>21, <1>22, <1>23, <1>24, <1>25, <1>26,
    <1>27, <1>28, <1>29, <1>30 DEF DaemonNext, Client, Process, Dispatch

LEMMA WiringStep ==
  ASSUME DaemonTypeOK, Wiring, [DaemonNext]_daemonVars
  PROVE  DaemonTypeOK' /\ Wiring'
<1>1. DaemonTypeOK'
  BY DaemonTypeStep DEF Wiring
<1>2. (slot # Nobody => stage[slot] \notin Ungreeted)'
  BY SlotStep DEF Wiring
<1>3. ASSUME NEW k \in Commands
      PROVE  Connected(k)' /\ Routed(k)' /\ Listless(k)'
  BY ConnectedStep, RoutedStep, ListlessStep DEF Wiring
<1> QED BY <1>1, <1>2, <1>3 DEF Wiring

LEMMA ShownStep ==
  ASSUME DInv, [DaemonNext]_daemonVars
  PROVE  Shown'
<1> SUFFICES ASSUME NoneEnded'
             PROVE  (\A s \in listed : Attended(s))' /\ \A c \in Commands : UpToDate(c)'
  BY DEF Shown
<1>1. DaemonTypeOK /\ Wiring /\ DaemonTypeOK'
  BY WiringStep DEF DInv
<1>2. NoneEnded
  BY <1>1, EndedStays DEF NoneEnded
<1>3. (\A s \in listed : Attended(s)) /\ \A c \in Commands : UpToDate(c)
  BY <1>2 DEF DInv, Shown
<1>4. ASSUME NEW s \in Launches, Attended(s)
      PROVE  Attended(s)' \/ Forgotten(s)
  BY <1>1, <1>2, <1>4, AttendedKept
<1>5. ASSUME NEW s \in Launches, s \in listed'
      PROVE  Attended(s)'
  <2>1. Attended(s)
    BY <1>1, <1>2, <1>3, <1>5, ListedGrows
  <2> QED BY <1>4, <1>5, <2>1 DEF Forgotten
<1>6. ASSUME NEW c \in Commands, stage'[c] = "answered", NEW s \in NamedBy(c)'
      PROVE  s \in closures'[c] \/ Attended(s)'
  <2>1. s \in Launches
    BY <1>1, <1>6 DEF DaemonTypeOK, NamedBy
  <2>2. s \in closures'[c] \/ Attended(s) \/ Attended(s)'
    BY <1>1, <1>2, <1>3, <1>6, <2>1, NamedGrows
  <2> QED BY <1>4, <1>6, <2>1, <2>2 DEF Forgotten
<1>7. listed' \subseteq Launches
  BY <1>1 DEF DaemonTypeOK
<1> QED BY <1>5, <1>6, <1>7 DEF UpToDate

LEMMA DaemonHoldsAtFirst == DaemonInit => DInv
<1> SUFFICES ASSUME DaemonInit
             PROVE  DInv
  OBVIOUS
<1>1. DaemonTypeOK
  <2>1. SocketTypeOK
    BY SocketAssumption DEF DaemonInit, SocketInit, SocketTypeOK, Lives
  <2>2. stage \in [Commands -> PCs] /\ windows \in 0..MaxWindows
    BY DaemonAssumption DEF DaemonInit, PCs
  <2>3. window \in BOOLEAN
    BY DEF DaemonInit
  <2>4. lock \in Maybe(Commands) /\ slot \in Maybe(Commands)
    BY DEF DaemonInit, Maybe
  <2>5. link \in [Commands -> Maybe(Daemons)] /\ use \in [Commands -> Maybe(Commands)]
    BY DEF DaemonInit, Maybe
  <2> QED BY <2>1, <2>2, <2>3, <2>4, <2>5 DEF DaemonInit, DaemonTypeOK
<1>2. Wiring
  BY DEF DaemonInit, Wiring, Connected, Routed, Listless, Undialled, Ungreeted
<1>3. Shown
  BY DEF DaemonInit, Shown, UpToDate
<1> QED BY <1>1, <1>2, <1>3 DEF DInv

(* Window, connections and processes keep their types. *)
THEOREM DaemonTypeCorrect == DaemonSpec => []DaemonTypeOK
<1>1. DInv /\ [DaemonNext]_daemonVars => DInv'
  BY WiringStep, ShownStep DEF DInv
<1>2. DInv => DaemonTypeOK
  BY DEF DInv
<1> QED BY DaemonHoldsAtFirst, <1>1, <1>2, PTL DEF DaemonSpec

(* Whatever the window shows as open is in a registry, as long as no process has ended:   *)
(* no answer and no list brings back a session that closed meanwhile.                     *)
THEOREM ShownStaysOwned == DaemonSpec => []ShownIsOwned
<1>1. DInv /\ [DaemonNext]_daemonVars => DInv'
  BY WiringStep, ShownStep DEF DInv
<1>2. DInv => ShownIsOwned
  BY DEF DInv, Shown, NoneEnded, ShownIsOwned, Attended, Owned
<1> QED BY DaemonHoldsAtFirst, <1>1, <1>2, PTL DEF DaemonSpec

(* One command at a time connects or starts a process, and it holds the lock; so no        *)
(* command that has ended keeps the others waiting (DaemonClient::attached and ensure).    *)
THEOREM OneConnectsAtATime == DaemonSpec => []OneConnects
<1>1. DaemonInit => DInv /\ OneConnects
  BY DaemonHoldsAtFirst, DaemonAssumption DEF DaemonInit, OneConnects, Locking, Dialling
<1>2. DInv /\ OneConnects /\ [DaemonNext]_daemonVars => (DInv /\ OneConnects)'
  BY WiringStep, ShownStep, LockStep DEF DInv, OneConnects
<1> QED BY <1>1, <1>2, PTL DEF DaemonSpec

(* A launch starts one session in one process, whatever is connected, lost or started      *)
(* again meanwhile: while the session is there, no request of it is on its way.            *)
THEOREM StartsOnce == DaemonSpec => []StartedOnce
<1> DEFINE Onces == \A s \in Launches : Once(s)
<1>1. DaemonInit => DInv /\ Onces
  BY DaemonHoldsAtFirst DEF DaemonInit, Once, Reached
<1>2. DInv /\ Onces /\ [DaemonNext]_daemonVars => (DInv /\ Onces)'
  BY WiringStep, ShownStep, OnceStep DEF DInv
<1>3. Onces => StartedOnce
  BY DEF Once, Reached, StartedOnce
<1> QED BY <1>1, <1>2, <1>3, PTL DEF DaemonSpec
=============================================================================
