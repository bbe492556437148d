-------------------------- MODULE ThreadingProofs --------------------------
(***************************************************************************)
(* Theorems about Threading, for any number of threads, any policies and   *)
(* roles and any depth of nested interrupts.                               *)
(*                                                                         *)
(* The inductive invariant joins the types, the consistency of the         *)
(* scheduler and the fact that a thread inside stop_thread() knows which   *)
(* thread it is about: without the last, StopDo could leave the types.     *)
(*                                                                         *)
(* A second invariant, SleepInv, says of every thread that sleeps who will *)
(* wake it and, from the other side, who is in the queues of the timer and *)
(* of the joined threads; the properties of block() follow from it.        *)
(***************************************************************************)
EXTENDS Threading, SchedulerProofs

ArgOK == \A t \in Thread : pc[t] = "stopping" => arg[t] \in Thread

\* No other thread exists before boot_phase2() has scheduled the boot thread.
BootFirst == pc[Bootstrap] = "boot" => \A t \in Thread \ {Bootstrap} : pc[t] = "none"

IInv == TypeOK /\ SchedulerConsistent /\ ArgOK /\ BootFirst

\* No stopped thread is revived by the step.
NoRevival == \A t \in Thread : sched.state[t] = "STOPPED" => sched'.state[t] = "STOPPED"

\* The step neither begins nor ends a stop_thread().
Quiet ==
    /\ \A t \in Thread : pc'[t] = "stopping" <=> pc[t] = "stopping"
    /\ \A t \in Thread : pc[t] = "stopping" => arg'[t] = arg[t]
    /\ BootFirst'

----------------------------------------------------------------------------
(***************************************************************************)
(* Steps of the proofs below                                               *)
(***************************************************************************)
\* A quiet step leaves Removed alone.
LEMMA SameRemoved ==
    ASSUME ArgOK, Quiet
    PROVE  Removed' = Removed /\ ArgOK'
BY DEF Removed, BeingStopped, ArgOK, Quiet

\* A quiet step keeps the invariant if it keeps the types and changes the scheduler
\* by one call.
LEMMA OneCall ==
    ASSUME IInv, TypeOK', Quiet, CallOK(sched, sched', Removed)
    PROVE  IInv' /\ NoRevival
<1>1. Removed' = Removed /\ ArgOK'
  BY SameRemoved DEF IInv
<1> QED  BY <1>1 DEF IInv, SchedulerConsistent, CallOK, NoRevival, Quiet

\* The same for a step that does not call the scheduler.
LEMMA NoCall ==
    ASSUME IInv, TypeOK', Quiet, sched' = sched
    PROVE  IInv' /\ NoRevival
<1>1. Removed' = Removed /\ ArgOK'
  BY SameRemoved DEF IInv
<1> QED  BY <1>1 DEF IInv, SchedulerConsistent, NoRevival, Quiet

\* A step of a thread that moves on, but not to the second half of stop_thread().
LEMMA MovesOn ==
    ASSUME IInv, NEW t \in AnyThread, NEW loc \in Location \ {"stopping", "boot", "none"},
           GoTo(t, loc), pc[t] \notin {"stopping", "none"},
           \A u \in Thread : u # t => arg'[u] = arg[u]
    PROVE  Quiet /\ pc' \in [AnyThread -> Location]
<1>1. /\ pc' \in [AnyThread -> Location]
      /\ pc'[t] = loc
      /\ \A u \in AnyThread : u # t => pc'[u] = pc[u]
  BY DEF IInv, TypeOK, GoTo
<1>2. Thread \subseteq AnyThread /\ Bootstrap \in Thread
  BY BootstrapAssumption DEF AnyThread
<1>3. BootFirst'
  <2> SUFFICES ASSUME pc'[Bootstrap] = "boot", NEW u \in Thread \ {Bootstrap}
               PROVE  pc'[u] = "none"
    BY DEF BootFirst
  <2>1. pc[Bootstrap] = "boot" /\ t # Bootstrap
    BY <1>1, <1>2
  <2>2. pc[u] = "none"
    BY <2>1 DEF IInv, BootFirst
  <2>3. t # u
    BY <2>2
  <2> QED  BY <1>1, <1>2, <2>2, <2>3
<1> QED  BY <1>1, <1>2, <1>3 DEF Quiet

\* A step that leaves pc and arg alone.
LEMMA StaysThere ==
    ASSUME IInv, pc' = pc, arg' = arg
    PROVE  Quiet
BY DEF Quiet, IInv, BootFirst

----------------------------------------------------------------------------
(***************************************************************************)
(* The initial states                                                      *)
(***************************************************************************)
\* CPUModule::load() leaves a consistent scheduler with the bootstrap thread
\* running.
LEMMA InitOK ==
    ASSUME Init
    PROVE  IInv
<1> USE ThreadAssumption, BootstrapAssumption
<1>1. TypeOK
  <2>1. sched \in Sched
    BY DEF Init, InitScheduler, Sched, AnyThread, ThreadState
  <2>2. frames \in [AnyThread -> 0 .. MaxNest]
    BY MaxNestAssumption DEF Init
  <2>3. pc \in [AnyThread -> Location]
    BY DEF Init, Location
  <2>4. /\ arg \in [Thread -> Thread \cup {NoThread}]
        /\ sleepers \subseteq Thread
        /\ joiners \in [Thread -> Seq(Thread)]
        /\ collected \in [Thread -> Nat]
        /\ handler \in {"none", "wake", "preempt"}
    BY DEF Init
  <2>5. /\ timerHandle \in [Thread -> BOOLEAN]
        /\ irqOn \in BOOLEAN /\ savedIrq \in BOOLEAN
    BY Zenon DEF Init
  <2> QED  BY <2>1, <2>2, <2>3, <2>4, <2>5 DEF TypeOK
<1>2. SchedulerConsistent
  <2>1. /\ sched.running = Bootstrap /\ sched.bin = << >>
        /\ sched.ready = [p \in Level |-> << >>]
        /\ \A t \in AnyThread :
              sched.state[t] = IF t \in Thread THEN "CREATED" ELSE "BLOCKED"
    BY DEF Init, InitScheduler
  <2>2. Queued(sched.ready) = {} /\ LevelsOK(sched.ready)
    BY <2>1 DEF Queued, Elems, LevelsOK
  <2>3. QueueOK(sched, Removed)
    BY <2>1, <2>2 DEF QueueOK, AnyThread
  <2>4. StatesOK(sched)
    <3>1. CanEnqueue(Bootstrap)
      BY PolicyAssumption, LevelElements DEF CanEnqueue, LOW_LATENCY
    <3>2. Elems(sched.bin) = {}
      BY <2>1 DEF Elems
    <3> QED  BY <2>1, <3>1, <3>2 DEF StatesOK, AnyThread
  <2>5. RunningOK(sched)
    BY <2>1 DEF RunningOK, AnyThread
  <2> QED  BY <2>3, <2>4, <2>5 DEF SchedulerConsistent, Consistent
<1>3. ArgOK
  BY DEF Init, ArgOK, AnyThread
<1>4. BootFirst
  BY DEF Init, BootFirst, AnyThread
<1> QED  BY <1>1, <1>2, <1>3, <1>4 DEF IInv

----------------------------------------------------------------------------
(***************************************************************************)
(* One lemma per group of actions                                          *)
(***************************************************************************)
\* The timer interrupt: entry, wake up loop, preemption and return.
LEMMA InterruptsOK ==
    ASSUME IInv, Interrupts
    PROVE  IInv' /\ NoRevival
<1> USE DEF cpu, timer, module
<1>1. CASE TimerIrq
  <2>1. sched.running \in AnyThread
    BY DEF IInv, TypeOK, Sched
  <2>2. frames' \in [AnyThread -> 0 .. MaxNest]
    BY <1>1, <2>1, MaxNestAssumption DEF IInv, TypeOK, TimerIrq
  <2>3. TypeOK'
    BY <1>1, <2>2 DEF IInv, TypeOK, TimerIrq
  <2> QED  BY <1>1, <2>3, NoCall, StaysThere DEF TimerIrq
<1>2. ASSUME NEW t \in Thread, TimerWake(t) PROVE IInv' /\ NoRevival
  <2>1. CallOK(sched, sched', Removed)
    BY <1>2, UnblockOK DEF IInv, TypeOK, SchedulerConsistent, TimerWake
  <2>2. timerHandle' \in [Thread -> BOOLEAN]
    BY <1>2, Zenon DEF IInv, TypeOK, TimerWake
  <2>3. TypeOK'
    BY <1>2, <2>1, <2>2 DEF IInv, TypeOK, TimerWake, CallOK
  <2> QED  BY <1>2, <2>1, <2>3, OneCall, StaysThere DEF TimerWake
<1>3. ASSUME NEW e \in BOOLEAN, TimerDone(e) PROVE IInv' /\ NoRevival
  <2>1. CallOK(sched, sched', Removed)
    <3>1. sched' = PreemptRunningThread(sched) \/ sched' = sched
      BY <1>3 DEF TimerDone
    <3>2. CallOK(sched, PreemptRunningThread(sched), Removed)
      BY PreemptOK DEF IInv, TypeOK, SchedulerConsistent
    <3>3. CallOK(sched, sched, Removed)
      BY DEF IInv, TypeOK, SchedulerConsistent, CallOK
    <3> QED  BY <3>1, <3>2, <3>3
  <2>2. TypeOK'
    BY <1>3, <2>1 DEF IInv, TypeOK, TimerDone, CallOK
  <2> QED  BY <1>3, <2>1, <2>2, OneCall, StaysThere DEF TimerDone
<1>4. ASSUME NEW t \in AnyThread, IrqReturn(t) PROVE IInv' /\ NoRevival
  <2>1. frames' \in [AnyThread -> 0 .. MaxNest]
    BY <1>4, MaxNestAssumption DEF IInv, TypeOK, IrqReturn, Iret
  <2>2. TypeOK'
    BY <1>4, <2>1 DEF IInv, TypeOK, IrqReturn, Iret
  <2> QED  BY <1>4, <2>2, NoCall, StaysThere DEF IrqReturn, Iret
<1> QED  BY <1>1, <1>2, <1>3, <1>4 DEF Interrupts

\* boot_phase2()
LEMMA BootOK ==
    ASSUME IInv, Boot
    PROVE  IInv' /\ NoRevival
<1> USE DEF cpu, timer, module
<1>1. CASE BootSchedule
  <2>1. /\ BootThread \in Thread /\ BootThread # Bootstrap /\ Bootstrap \in AnyThread
        /\ BootThread \in AnyThread
    BY RoleAssumption, BootstrapAssumption DEF AnyThread
  <2>2. CallOK(sched, sched', Removed)
    BY <1>1, <2>1, ScheduleOK
    DEF IInv, TypeOK, SchedulerConsistent, BootSchedule, At, Executes, OnCpu
  <2>3. pc' \in [AnyThread -> Location]
    BY <1>1, <2>1 DEF IInv, TypeOK, BootSchedule, Location
  <2>4. TypeOK'
    BY <1>1, <2>2, <2>3 DEF IInv, TypeOK, BootSchedule, CallOK
  <2>5. Quiet
    <3>1. \A t \in Thread \ {Bootstrap} : pc[t] = "none"
      BY <1>1 DEF BootSchedule, At, IInv, BootFirst
    <3>2. pc[Bootstrap] = "boot" /\ pc'[Bootstrap] = "bootMark" /\ pc'[BootThread] = "enter"
      BY <1>1, <2>1 DEF BootSchedule, At, IInv, TypeOK
    <3>3. \A t \in Thread \ {Bootstrap, BootThread} : pc'[t] = pc[t]
      BY <1>1, <2>1 DEF BootSchedule, IInv, TypeOK, AnyThread
    <3>4. arg' = arg
      BY <1>1 DEF BootSchedule
    <3> QED  BY <2>1, <3>1, <3>2, <3>3, <3>4 DEF Quiet, BootFirst
  <2> QED  BY <2>2, <2>4, <2>5, OneCall
<1>2. CASE BootMark
  <2>1. sched.running = Bootstrap /\ Bootstrap # Idle /\ Bootstrap # Gct
    BY <1>2, ThreadAssumption, BootstrapAssumption DEF BootMark, At, Executes, OnCpu
  <2>2. CallOK(sched, sched', Removed)
    BY <1>2, <2>1, MarkOK DEF IInv, TypeOK, SchedulerConsistent, BootMark
  <2>3. Quiet /\ pc' \in [AnyThread -> Location]
    BY <1>2, MovesOn, BootstrapAssumption DEF BootMark, At, Location, AnyThread
  <2>4. TypeOK'
    BY <1>2, <2>2, <2>3 DEF IInv, TypeOK, BootMark, CallOK
  <2> QED  BY <2>2, <2>3, <2>4, OneCall
<1>3. CASE BootBlock
  <2>1. CallOK(sched, sched', Removed)
    BY <1>3, BlockOK DEF IInv, TypeOK, SchedulerConsistent, BootBlock, At, Executes, OnCpu
  <2>2. Quiet /\ pc' \in [AnyThread -> Location]
    BY <1>3, MovesOn, BootstrapAssumption DEF BootBlock, At, Location, AnyThread
  <2>3. TypeOK'
    BY <1>3, <2>1, <2>2 DEF IInv, TypeOK, BootBlock, CallOK
  <2> QED  BY <2>1, <2>2, <2>3, OneCall
<1> QED  BY <1>1, <1>2, <1>3 DEF Boot

\* thread_enter(), and the loops of the idle thread and the GCT.
LEMMA SystemOK ==
    ASSUME IInv, (\E t \in AnyThread : ThreadEnter(t)) \/ IdleThread \/ GctStep
    PROVE  IInv' /\ NoRevival
<1> USE DEF cpu, timer, module
<1>1. ASSUME NEW t \in AnyThread, ThreadEnter(t) PROVE IInv' /\ NoRevival
  <2>1. Quiet /\ pc' \in [AnyThread -> Location]
    BY <1>1, MovesOn DEF ThreadEnter, At, Location
  <2>2. irqOn' \in BOOLEAN
    BY <1>1, Zenon DEF ThreadEnter
  <2>3. TypeOK'
    BY <1>1, <2>1, <2>2 DEF IInv, TypeOK, ThreadEnter
  <2> QED  BY <1>1, <2>1, <2>3, NoCall DEF ThreadEnter
<1>2. CASE IdleThread
  <2>1. TypeOK'
    BY <1>2 DEF IInv, TypeOK, IdleThread
  <2> QED  BY <1>2, <2>1, NoCall, StaysThere DEF IdleThread
<1>3. Gct \in AnyThread
  BY DEF AnyThread
<1>4. CASE GctBegin
  <2>1. Quiet /\ pc' \in [AnyThread -> Location]
    BY <1>3, <1>4, MovesOn DEF GctBegin, At, Location
  <2>2. TypeOK'
    BY <1>4, <2>1 DEF IInv, TypeOK, GctBegin
  <2> QED  BY <1>4, <2>1, <2>2, NoCall DEF GctBegin
<1>5. sched.bin # << >> => Head(sched.bin) \in Thread
  BY HeadTailProperties DEF IInv, TypeOK, Sched
<1>6. CASE GctNotify
  <2> DEFINE u == Head(sched.bin)
  <2>1. u \in Thread /\ joiners[u] \in Seq(Thread) /\ joiners[u] # << >>
    BY <1>5, <1>6 DEF GctNotify, IInv, TypeOK
  <2>2. Head(joiners[u]) \in Thread /\ Tail(joiners[u]) \in Seq(Thread)
    BY <2>1, HeadTailProperties
  <2>3. sched' = Unblock(sched, Head(joiners[u]))
        /\ joiners' = [joiners EXCEPT ![u] = Tail(joiners[u])]
    BY <1>6 DEF GctNotify
  <2> HIDE DEF u
  <2>4. CallOK(sched, sched', Removed)
    BY <2>2, <2>3, UnblockOK DEF IInv, TypeOK, SchedulerConsistent
  <2>5. joiners' \in [Thread -> Seq(Thread)]
    BY <2>1, <2>2, <2>3 DEF IInv, TypeOK
  <2>6. TypeOK'
    BY <1>6, <2>4, <2>5 DEF IInv, TypeOK, GctNotify, CallOK
  <2> QED  BY <1>6, <2>4, <2>6, OneCall, StaysThere DEF GctNotify
<1>7. CASE GctFree
  <2>1. CallOK(sched, sched', Removed)
    BY <1>7, TakeFromBinOK DEF IInv, TypeOK, SchedulerConsistent, GctFree
  <2>2. collected' \in [Thread -> Nat]
    BY <1>5, <1>7 DEF IInv, TypeOK, GctFree
  <2>3. TypeOK'
    BY <1>7, <2>1, <2>2 DEF IInv, TypeOK, GctFree, CallOK
  <2> QED  BY <1>7, <2>1, <2>3, OneCall, StaysThere DEF GctFree
<1>8. CASE GctEnd
  <2>1. sched.running = Gct /\ Gct # Idle /\ sched.bin = << >>
    BY <1>8, ThreadAssumption DEF GctEnd, At, Executes, OnCpu
  <2>2. CallOK(sched, sched', Removed)
    BY <1>8, <2>1, MarkOK DEF IInv, TypeOK, SchedulerConsistent, GctEnd
  <2>3. Quiet /\ pc' \in [AnyThread -> Location]
    BY <1>3, <1>8, MovesOn DEF GctEnd, At, Location
  <2>4. TypeOK'
    BY <1>8, <2>2, <2>3 DEF IInv, TypeOK, GctEnd, CallOK
  <2> QED  BY <2>2, <2>3, <2>4, OneCall
<1>9. CASE GctBlock
  <2>1. CallOK(sched, sched', Removed)
    BY <1>9, BlockOK DEF IInv, TypeOK, SchedulerConsistent, GctBlock, At, Executes, OnCpu
  <2>2. Quiet /\ pc' \in [AnyThread -> Location]
    BY <1>3, <1>9, MovesOn DEF GctBlock, At, Location
  <2>3. TypeOK'
    BY <1>9, <2>1, <2>2 DEF IInv, TypeOK, GctBlock, CallOK
  <2> QED  BY <2>1, <2>2, <2>3, OneCall
<1> QED  BY <1>1, <1>2, <1>4, <1>6, <1>7, <1>8, <1>9 DEF GctStep

\* Every service a thread calls but the two halves of stop_thread().
LEMMA ServiceOK ==
    ASSUME IInv, NEW t \in Thread,
           \/ \E u \in Thread : Spawn(t, u)
           \/ Exit(t)
           \/ SleepMark(t) \/ SleepEnqueue(t) \/ SleepSetHandle(t)
           \/ SleepBlock(t) \/ SleepReturn(t)
           \/ \E u \in Thread \ {Bootstrap, t} : Join(t, u)
           \/ JoinReturn(t)
    PROVE  IInv' /\ NoRevival
<1> USE DEF cpu, timer, module
<1>0. t \in AnyThread /\ t # Idle /\ t # Gct
  BY ThreadAssumption DEF AnyThread
<1>1. ASSUME NEW u \in Thread, Spawn(t, u) PROVE IInv' /\ NoRevival
  <2>1. sched.running = t /\ pc[t] = "run" /\ pc[u] = "none" /\ t \in MaySpawn
    BY <1>1 DEF Spawn, At, Executes, OnCpu
  <2>2. CallOK(sched, sched', Removed)
    BY <1>1, <2>1, ScheduleOK DEF IInv, TypeOK, SchedulerConsistent, Spawn
  <2>3. /\ pc' \in [AnyThread -> Location]
        /\ pc'[u] \in {"enter", "none"}
        /\ \A v \in Thread : v # u => pc'[v] = pc[v]
    BY <1>1 DEF Spawn, IInv, TypeOK, Location, AnyThread
  <2>4. pc[Bootstrap] # "boot"
    BY <2>1, RoleAssumption, BootstrapAssumption DEF IInv, BootFirst
  <2>5. Quiet
    BY <1>1, <2>1, <2>3, <2>4, BootstrapAssumption DEF Quiet, BootFirst, Spawn
  <2>6. TypeOK'
    BY <1>1, <2>2, <2>3 DEF IInv, TypeOK, Spawn, CallOK
  <2> QED  BY <2>2, <2>5, <2>6, OneCall
<1>2. CASE Exit(t)
  <2>1. CallOK(sched, sched', Removed)
    BY <1>2, StopOK DEF IInv, TypeOK, SchedulerConsistent, Exit, At, Executes, OnCpu
  <2>2. Quiet /\ pc' \in [AnyThread -> Location]
    BY <1>0, <1>2, MovesOn DEF Exit, At, Location
  <2>3. TypeOK'
    BY <1>2, <2>1, <2>2 DEF IInv, TypeOK, Exit, CallOK
  <2> QED  BY <2>1, <2>2, <2>3, OneCall
<1>3. CASE SleepMark(t)
  <2>1. CallOK(sched, sched', Removed)
    BY <1>0, <1>3, MarkOK DEF IInv, TypeOK, SchedulerConsistent, SleepMark, At, Executes, OnCpu
  <2>2. Quiet /\ pc' \in [AnyThread -> Location]
    BY <1>0, <1>3, MovesOn DEF SleepMark, At, Location
  <2>3. TypeOK'
    BY <1>3, <2>1, <2>2 DEF IInv, TypeOK, SleepMark, CallOK
  <2> QED  BY <2>1, <2>2, <2>3, OneCall
<1>4. CASE SleepEnqueue(t)
  <2>1. Quiet /\ pc' \in [AnyThread -> Location]
    BY <1>0, <1>4, MovesOn DEF SleepEnqueue, At, Location
  <2>2. TypeOK'
    BY <1>4, <2>1 DEF IInv, TypeOK, SleepEnqueue
  <2> QED  BY <1>4, <2>1, <2>2, NoCall DEF SleepEnqueue
<1>5. CASE SleepSetHandle(t)
  <2>1. Quiet /\ pc' \in [AnyThread -> Location]
    BY <1>0, <1>5, MovesOn DEF SleepSetHandle, At, Location
  <2>2. timerHandle' \in [Thread -> BOOLEAN]
    BY <1>5, Zenon DEF IInv, TypeOK, SleepSetHandle
  <2>3. TypeOK'
    BY <1>5, <2>1, <2>2 DEF IInv, TypeOK, SleepSetHandle
  <2> QED  BY <1>5, <2>1, <2>3, NoCall DEF SleepSetHandle
<1>6. CASE SleepBlock(t)
  <2>1. CallOK(sched, sched', Removed)
    BY <1>6, BlockOK DEF IInv, TypeOK, SchedulerConsistent, SleepBlock, At, Executes, OnCpu
  <2>2. Quiet /\ pc' \in [AnyThread -> Location]
    BY <1>0, <1>6, MovesOn DEF SleepBlock, At, Location
  <2>3. TypeOK'
    BY <1>6, <2>1, <2>2 DEF IInv, TypeOK, SleepBlock, CallOK
  <2> QED  BY <2>1, <2>2, <2>3, OneCall
<1>7. CASE SleepReturn(t)
  <2>1. Quiet /\ pc' \in [AnyThread -> Location]
    BY <1>0, <1>7, MovesOn DEF SleepReturn, Resume, At, Location
  <2>2. irqOn' \in BOOLEAN
    BY <1>7, Zenon DEF SleepReturn, Resume
  <2>3. TypeOK'
    BY <1>7, <2>1, <2>2 DEF IInv, TypeOK, SleepReturn
  <2> QED  BY <1>7, <2>1, <2>3, NoCall DEF SleepReturn
<1>8. ASSUME NEW u \in Thread, Join(t, u) PROVE IInv' /\ NoRevival
  <2> DEFINE marked == MarkAsBlockPending(sched)
  <2>1. CallOK(sched, marked, Removed) /\ marked.running = sched.running
    BY <1>0, <1>8, MarkOK DEF IInv, TypeOK, SchedulerConsistent, Join, At, Executes, OnCpu
  <2>2. sched' = Block(marked, marked.running)
    BY <1>8, <2>1 DEF Join, At, Executes, OnCpu
  <2> HIDE DEF marked
  <2>3. CallOK(marked, Block(marked, marked.running), Removed)
    BY <2>1, BlockOK DEF CallOK
  <2>4. CallOK(sched, sched', Removed)
    BY <2>1, <2>2, <2>3 DEF CallOK
  <2>5. arg' \in [Thread -> Thread \cup {NoThread}] /\ \A v \in Thread : v # t => arg'[v] = arg[v]
    BY <1>8 DEF Join, IInv, TypeOK
  <2>6. Quiet /\ pc' \in [AnyThread -> Location]
    BY <1>0, <1>8, <2>5, MovesOn DEF Join, At, Location
  <2>7. joiners' \in [Thread -> Seq(Thread)]
    <3>1. Append(joiners[u], t) \in Seq(Thread)
      BY ElemsAppend DEF IInv, TypeOK
    <3> QED  BY <1>8, <3>1 DEF Join, IInv, TypeOK
  <2>8. savedIrq' \in BOOLEAN /\ irqOn' \in BOOLEAN
    BY <1>8, Zenon DEF Join, IInv, TypeOK
  <2>9. TypeOK'
    BY <1>8, <2>4, <2>5, <2>6, <2>7, <2>8 DEF IInv, TypeOK, Join, CallOK
  <2> QED  BY <2>4, <2>6, <2>9, OneCall
<1>9. CASE JoinReturn(t)
  <2>1. arg' \in [Thread -> Thread \cup {NoThread}] /\ \A v \in Thread : v # t => arg'[v] = arg[v]
    BY <1>9 DEF JoinReturn, IInv, TypeOK
  <2>2. Quiet /\ pc' \in [AnyThread -> Location]
    BY <1>0, <1>9, <2>1, MovesOn DEF JoinReturn, At, Location
  <2>3. irqOn' \in BOOLEAN
    BY <1>9, Zenon DEF JoinReturn
  <2>4. TypeOK'
    BY <1>9, <2>1, <2>2, <2>3 DEF IInv, TypeOK, JoinReturn
  <2> QED  BY <1>9, <2>2, <2>4, NoCall DEF JoinReturn
<1> QED  BY <1>1, <1>2, <1>3, <1>4, <1>5, <1>6, <1>7, <1>8, <1>9

\* The first half of stop_thread().
LEMMA StopCheckOK ==
    ASSUME IInv, NEW t \in Thread, NEW u \in Thread, StopCheck(t, u)
    PROVE  IInv' /\ NoRevival
<1> USE DEF cpu, timer, module
<1>0. t \in AnyThread /\ Thread \subseteq AnyThread /\ Bootstrap \in Thread
  BY BootstrapAssumption DEF AnyThread
<1>1. pc[t] = "run" /\ sched \in Sched /\ savedIrq' \in BOOLEAN
  BY DEF StopCheck, At, IInv, TypeOK
<1>2. CASE ~IsRemovable(u)
  <2>1. TypeOK'
    BY <1>1, <1>2 DEF IInv, TypeOK, StopCheck
  <2> QED  BY <1>2, <2>1, NoCall, StaysThere DEF StopCheck
<1>3. CASE IsRemovable(u)
  <2>1. /\ pc' \in [AnyThread -> Location]
        /\ pc'[t] = "stopping"
        /\ \A v \in AnyThread : v # t => pc'[v] = pc[v]
    BY <1>0, <1>3 DEF StopCheck, GoTo, IInv, TypeOK, Location
  <2>2. /\ arg' \in [Thread -> Thread \cup {NoThread}]
        /\ arg'[t] = u
        /\ \A v \in Thread : v # t => arg'[v] = arg[v]
    BY <1>3 DEF StopCheck, IInv, TypeOK
  <2>3. Removed' = Removed \cup {u}
    BY <1>0, <1>1, <2>1, <2>2 DEF Removed, BeingStopped
  <2>4. CallOK(sched, sched', Removed')
    <3>1. CASE sched.state[u] = "BLOCKED"
      <4>1. sched' = sched
        BY <1>1, <1>3, <3>1 DEF StopCheck, Sched
      <4>2. Consistent(sched, Removed')
        BY <1>1, <2>3, FewerRemoved DEF IInv, SchedulerConsistent
      <4> QED  BY <1>1, <4>1, <4>2 DEF CallOK
    <3>2. CASE sched.state[u] # "BLOCKED"
      <4>1. sched' = [sched EXCEPT !.ready = RemoveFrom(sched.ready, u)]
        BY <1>3, <3>2 DEF StopCheck
      <4>2. CallOK(sched, [sched EXCEPT !.ready = RemoveFrom(sched.ready, u)], Removed \cup {u})
        BY <1>1, TakeOutOK DEF IInv, SchedulerConsistent
      <4> QED  BY <2>3, <4>1, <4>2, Zenon
    <3> QED  BY <3>1, <3>2
  <2>5. TypeOK'
    <3>1. sleepers' \subseteq Thread
      BY <1>3 DEF IInv, TypeOK, StopCheck
    <3>2. sched' \in Sched
      BY <2>4 DEF CallOK
    <3> QED  BY <1>1, <1>3, <2>1, <2>2, <3>1, <3>2 DEF IInv, TypeOK, StopCheck
  <2>6. ArgOK'
    BY <1>0, <2>1, <2>2 DEF ArgOK, IInv
  <2>7. BootFirst'
    <3> SUFFICES ASSUME pc'[Bootstrap] = "boot" PROVE FALSE
      BY DEF BootFirst
    <3>1. pc[Bootstrap] = "boot" /\ t # Bootstrap
      BY <1>0, <2>1
    <3> QED  BY <1>1, <3>1 DEF IInv, BootFirst
  <2> QED  BY <2>4, <2>5, <2>6, <2>7 DEF IInv, SchedulerConsistent, CallOK, NoRevival
<1> QED  BY <1>2, <1>3

\* The second half of stop_thread().
LEMMA StopDoOK ==
    ASSUME IInv, NEW t \in Thread, StopDo(t)
    PROVE  IInv' /\ NoRevival
<1> USE DEF cpu, timer, module
<1> DEFINE u == arg[t]
<1>0. t \in AnyThread /\ Thread \subseteq AnyThread /\ Bootstrap \in Thread
  BY BootstrapAssumption DEF AnyThread
<1>1. /\ pc[t] = "stopping" /\ sched.running = t /\ u \in Thread
      /\ sched' = Stop(sched, u)
  BY DEF StopDo, At, Executes, OnCpu, IInv, ArgOK
<1>2. /\ pc' \in [AnyThread -> Location]
      /\ pc'[t] = "run"
      /\ \A v \in AnyThread : v # t => pc'[v] = pc[v]
  BY <1>0 DEF StopDo, GoTo, IInv, TypeOK, Location
<1>3. /\ arg' \in [Thread -> Thread \cup {NoThread}]
      /\ \A v \in Thread : v # t => arg'[v] = arg[v]
  BY DEF StopDo, IInv, TypeOK
<1>4. CallOK(sched, sched', Removed) /\ sched'.state[u] = "STOPPED"
  BY <1>1, StopOK DEF IInv, TypeOK, SchedulerConsistent
<1>5. Removed \ Removed' \subseteq {u}
  BY <1>0, <1>1, <1>2, <1>3 DEF Removed, BeingStopped
<1>6. Consistent(sched', Removed')
  BY <1>4, <1>5, FewerRemoved DEF CallOK
<1>7. TypeOK'
  BY <1>2, <1>3, <1>4 DEF IInv, TypeOK, StopDo, CallOK
<1>8. ArgOK'
  BY <1>0, <1>2, <1>3 DEF ArgOK, IInv
<1>9. BootFirst'
  <2> SUFFICES ASSUME pc'[Bootstrap] = "boot" PROVE FALSE
    BY DEF BootFirst
  <2>1. pc[Bootstrap] = "boot" /\ t # Bootstrap
    BY <1>0, <1>2
  <2> QED  BY <1>1, <2>1 DEF IInv, BootFirst
<1> QED  BY <1>4, <1>6, <1>7, <1>8, <1>9 DEF IInv, SchedulerConsistent, CallOK, NoRevival

\* Every step keeps the inductive invariant and revives no stopped thread.
LEMMA StepOK ==
    ASSUME IInv, [Next]_vars
    PROVE  IInv' /\ NoRevival
<1>1. CASE UNCHANGED vars
  <2>1. Removed' = Removed
    BY <1>1 DEF vars, Removed, BeingStopped
  <2> QED  BY <1>1, <2>1 DEF vars, cpu, timer, module, IInv, TypeOK,
                             SchedulerConsistent, ArgOK, BootFirst, NoRevival
<1>2. CASE Next
  <2>1. ASSUME NEW t \in Thread, ThreadStep(t) PROVE IInv' /\ NoRevival
    BY <2>1, ServiceOK, StopCheckOK, StopDoOK DEF ThreadStep
  <2> QED  BY <1>2, <2>1, InterruptsOK, BootOK, SystemOK DEF Next
<1> QED  BY <1>1, <1>2

----------------------------------------------------------------------------
(***************************************************************************)
(* Theorems                                                                *)
(***************************************************************************)
\* The inductive invariant holds in every reachable state.
THEOREM Invariance == Spec => []IInv
<1>1. Init => IInv
  BY InitOK
<1>2. IInv /\ [Next]_vars => IInv'
  BY StepOK
<1> QED  BY <1>1, <1>2, PTL DEF Spec

\* The variables keep their types.
THEOREM TypeCorrect == Spec => []TypeOK
<1>1. IInv => TypeOK
  BY DEF IInv
<1> QED  BY <1>1, Invariance, PTL

\* The ready queue, the thread states and the garbage bin of the scheduler agree at
\* every moment an interrupt or a thread can look at them.
THEOREM SchedulerIsConsistent == Spec => []SchedulerConsistent
<1>1. IInv => SchedulerConsistent
  BY DEF IInv
<1> QED  BY <1>1, Invariance, PTL

\* perform_context_switch() never switches from a thread to itself.
THEOREM NeverSelfSwitch == Spec => []NoSelfSwitch
<1>1. IInv => NoSelfSwitch
  <2> SUFFICES ASSUME IInv, ~StaysRunning(sched)
               PROVE  NextScheduledThread(sched) # sched.running
    BY DEF NoSelfSwitch
  <2> QED  BY NextThread DEF IInv, TypeOK, SchedulerConsistent, Consistent
<1> QED  BY <1>1, Invariance, PTL

\* A stopped thread stays stopped and is never given the CPU again.
THEOREM StoppedForGood == Spec => StopIsFinal
<1>1. IInv /\ [Next]_vars =>
         [\A t \in Thread : sched.state[t] = "STOPPED" =>
             sched'.state[t] = "STOPPED" /\ sched'.running # t]_vars
  <2> SUFFICES ASSUME IInv, [Next]_vars, NEW t \in Thread, sched.state[t] = "STOPPED"
               PROVE  sched'.state[t] = "STOPPED" /\ sched'.running # t
    OBVIOUS
  <2>1. IInv' /\ sched'.state[t] = "STOPPED"
    BY StepOK DEF NoRevival
  <2> QED  BY <2>1 DEF IInv, SchedulerConsistent, Consistent, RunningOK
<1> QED  BY <1>1, Invariance, PTL DEF Spec, StopIsFinal

----------------------------------------------------------------------------
(***************************************************************************)
(* Who waits for what.  A second invariant on top of the first: it says of *)
(* every place in sleep_until() and sync_with_thread_stop() which states   *)
(* the thread may be in there and who still knows it.                      *)
(***************************************************************************)
\* A marked thread is on its way to sleep_until()'s block(), and known to the timer
\* from enqueue() on.
PendingOK ==
    \A t \in Pending(sched) \ {Bootstrap} :
        /\ pc[t] \in {"marked", "enqueued", "armed"}
        /\ pc[t] # "marked" => t \in sleepers

\* A blocked thread is known to whoever wakes it, or about to be stopped.
BlockedOK ==
    \A t \in Blocked(sched) \ {Bootstrap} :
        \/ pc[t] = "awake" /\ (t \in sleepers \/ BeingStopped(t))
        \/ pc[t] = "joined" /\ t \in Elems(joiners[arg[t]])

\* The timer knows only threads that sleep or are about to, and stopped ones.
SleepersOK ==
    /\ \A t \in sleepers : /\ CanEnqueue(t)
                           /\ pc[t] \in {"enqueued", "armed", "awake"}
                           /\ t \in Pending(sched) \cup Blocked(sched) \cup Stopped(sched)
    /\ \A t \in Thread : pc[t] = "marked" => t \in Pending(sched) \cup Stopped(sched)

\* A list of joining threads has those that wait for its thread, each once.
JoinersOK ==
    \A u \in Thread :
        /\ \A i, j \in DOMAIN joiners[u] : joiners[u][i] = joiners[u][j] => i = j
        /\ joiners[u] # << >> => InCache(u)
        /\ \A t \in Elems(joiners[u]) : /\ CanEnqueue(t)
                                        /\ pc[t] = "joined" /\ arg[t] = u
                                        /\ t \in Blocked(sched) \cup Stopped(sched)

\* A thread inside sync_with_thread_stop() is still in the list, or the thread it
\* waits for is freed, or the GCT is just doing so.
JoinedOK ==
    \A t \in Thread : pc[t] = "joined" =>
        /\ arg[t] \in Thread
        /\ \/ t \in Elems(joiners[arg[t]])
           \/ collected[arg[t]] > 0
           \/ pc[Gct] = "drain" /\ sched.bin # << >> /\ Head(sched.bin) = arg[t]

\* Nothing interrupts the GCT while it frees threads.
DrainOK ==
    pc[Gct] = "drain" =>
        ~irqOn /\ handler = "none" /\ sched.running = Gct /\ frames[Gct] = 0

BootPlaceOK == pc[Bootstrap] \in {"boot", "bootMark", "bootBlock", "parked"}

SleepInv ==
    /\ PendingOK /\ BlockedOK /\ SleepersOK
    /\ JoinersOK /\ JoinedOK /\ DrainOK /\ BootPlaceOK

\* The places at which a thread waits for nothing.
Neutral == {"boot", "bootMark", "bootBlock", "parked", "enter", "run", "dead", "loop", "block"}

\* A step keeps stopping what is being stopped if no thread leaves stop_thread().
LEMMA StoppersStay ==
    ASSUME \A u \in Thread : pc[u] = "stopping" => pc'[u] = "stopping" /\ arg'[u] = arg[u]
    PROVE  \A x : BeingStopped(x) => BeingStopped(x)'
BY DEF BeingStopped

\* A thread that executes a step is awake, and the GCT is not at work.
LEMMA OnCpuFacts ==
    ASSUME IInv, SleepInv, NEW t \in Thread, Executes(t)
    PROVE  /\ t \in AnyThread /\ Gct \in AnyThread /\ Thread \subseteq AnyThread
           /\ t # Gct /\ CanEnqueue(t) /\ sched.running = t
           /\ t \notin Blocked(sched) /\ t \notin Stopped(sched)
           /\ pc[Gct] # "drain"
<1>1. sched \in Sched /\ Consistent(sched, Removed) /\ sched.running = t
  BY DEF IInv, TypeOK, SchedulerConsistent, Executes, OnCpu
<1>2. t \notin Blocked(sched) /\ t \notin Stopped(sched)
  BY <1>1, RunningIsAwake
<1>3. CanEnqueue(t)
  BY <1>1 DEF Consistent, StatesOK
<1> QED  BY <1>1, <1>2, <1>3, ThreadAssumption DEF AnyThread, SleepInv, DrainOK

\* The step of a thread moves just its own program counter.
LEMMA Moves ==
    ASSUME IInv, NEW t \in AnyThread, NEW loc \in Location, GoTo(t, loc)
    PROVE  /\ pc'[t] = loc
           /\ \A u \in AnyThread : u # t => pc'[u] = pc[u]
BY DEF IInv, TypeOK, GoTo

\* In the beginning nobody waits.
LEMMA SleepInit ==
    ASSUME Init
    PROVE  SleepInv
<1>1. Thread \subseteq AnyThread /\ Gct \in AnyThread /\ Bootstrap \in Thread /\ Gct # Bootstrap
  BY BootstrapAssumption, ThreadAssumption DEF AnyThread
<1>2. \A t \in Thread : sched.state[t] = "CREATED"
  BY <1>1 DEF Init, InitScheduler
<1>3. Pending(sched) = {} /\ Blocked(sched) = {}
  BY <1>2 DEF Pending, Blocked, InState
<1>4. /\ \A t \in Thread : pc[t] \in {"boot", "none"}
      /\ pc[Gct] = "enter" /\ pc[Bootstrap] = "boot"
  BY <1>1, ThreadAssumption DEF Init
<1>5. \A u \in Thread : joiners[u] = << >> /\ Elems(joiners[u]) = {}
  BY DEF Init, Elems
<1>6. JoinersOK
  <2>1. DOMAIN << >> = {}
    OBVIOUS
  <2> QED  BY <1>5, <2>1 DEF JoinersOK
<1> QED  BY <1>3, <1>4, <1>6
         DEF SleepInv, PendingOK, BlockedOK, SleepersOK, JoinedOK, DrainOK, BootPlaceOK, Init

\* Steps that concern no thread that waits: they move threads between neutral places,
\* mark or block no thread but the bootstrap thread, and may stop some.
LEMMA NeutralStep ==
    ASSUME IInv, SleepInv, pc[Gct] # "drain",
           \A u \in AnyThread :
               \/ pc'[u] = pc[u]
               \/ pc[u] \in Neutral \cup {"none"} /\ pc'[u] \in Neutral,
           pc'[Bootstrap] \in {"boot", "bootMark", "bootBlock", "parked"},
           Pending(sched') \ {Bootstrap} = Pending(sched) \ {Bootstrap},
           Blocked(sched') \ {Bootstrap} = Blocked(sched) \ {Bootstrap},
           Stopped(sched) \subseteq Stopped(sched'),
           UNCHANGED <<arg, sleepers, joiners, collected>>
    PROVE  SleepInv'
<1>1. Thread \subseteq AnyThread /\ Gct \in AnyThread
  BY DEF AnyThread
<1>2. \A x : BeingStopped(x) => BeingStopped(x)'
  BY <1>1, StoppersStay DEF Neutral
<1>3. PendingOK'
  BY <1>1 DEF SleepInv, PendingOK, Neutral, Pending, InState
<1>4. BlockedOK'
  BY <1>1, <1>2 DEF SleepInv, BlockedOK, Neutral, Blocked, InState
<1>5. sleepers \subseteq Thread
  BY DEF IInv, TypeOK
<1>6. SleepersOK'
  BY <1>1, <1>5 DEF SleepInv, SleepersOK, BootPlaceOK, Neutral
<1>7. \A u \in Thread : Elems(joiners[u]) \subseteq Thread
  BY ElementOfSeq, LenProperties DEF IInv, TypeOK, Elems
<1>8. JoinersOK'
  <2> SUFFICES ASSUME NEW u \in Thread
               PROVE  /\ joiners[u] # << >> => InCache(u)'
                      /\ \A t \in Elems(joiners[u]) :
                            /\ CanEnqueue(t) /\ pc'[t] = "joined" /\ arg[t] = u
                            /\ t \in Blocked(sched') \cup Stopped(sched')
    BY DEF SleepInv, JoinersOK
  <2>1. joiners[u] # << >> => InCache(u)'
    BY <1>1 DEF SleepInv, JoinersOK, InCache, Neutral
  <2> QED  BY <1>1, <1>7, <2>1 DEF SleepInv, JoinersOK, BootPlaceOK, Neutral
<1>9. JoinedOK' /\ DrainOK' /\ BootPlaceOK'
  BY <1>1 DEF SleepInv, JoinedOK, DrainOK, BootPlaceOK, Neutral
<1> QED  BY <1>3, <1>4, <1>6, <1>8, <1>9 DEF SleepInv

\* The interrupt, but for its wake up loop, and the idle thread.
LEMMA SleepInterrupt ==
    ASSUME IInv, SleepInv,
           TimerIrq \/ (\E e \in BOOLEAN : TimerDone(e)) \/ (\E t \in AnyThread : IrqReturn(t)) \/ IdleThread
    PROVE  SleepInv'
<1> USE DEF cpu, timer, module
<1>1. pc[Gct] # "drain" /\ UNCHANGED <<pc, arg, sleepers, joiners, collected>>
  <2>1. CASE TimerIrq \/ \E e \in BOOLEAN : TimerDone(e)
    BY <2>1 DEF TimerIrq, TimerDone, SleepInv, DrainOK
  <2>2. ASSUME NEW t \in AnyThread, IrqReturn(t)
        PROVE  pc[Gct] # "drain" /\ UNCHANGED <<pc, arg, sleepers, joiners, collected>>
    BY <2>2 DEF IrqReturn, Iret, SleepInv, DrainOK
  <2>3. CASE IdleThread
    BY <2>3, ThreadAssumption DEF IdleThread, At, Executes, OnCpu, SleepInv, DrainOK
  <2> QED  BY <2>1, <2>2, <2>3
<1>2. sched' = sched \/ sched' = PreemptRunningThread(sched)
  BY DEF TimerIrq, TimerDone, IrqReturn, Iret, IdleThread
<1>3. Pending(sched') = Pending(sched) /\ Blocked(sched') = Blocked(sched) /\ Stopped(sched') = Stopped(sched)
  BY <1>2, PreemptEffect DEF IInv, TypeOK, SchedulerConsistent
<1> QED  BY <1>1, <1>3, NeutralStep DEF SleepInv, BootPlaceOK

\* The wake up loop of the timer.
LEMMA SleepWake ==
    ASSUME IInv, SleepInv, NEW t \in Thread, TimerWake(t)
    PROVE  SleepInv'
<1> USE DEF cpu, timer, module
<1>1. /\ t \in sleepers /\ sleepers' = sleepers \ {t} /\ pc[Gct] # "drain"
      /\ UNCHANGED <<pc, arg, joiners, collected>>
  BY DEF TimerWake, SleepInv, DrainOK
<1>2. CanEnqueue(t) /\ pc[t] \in {"enqueued", "armed", "awake"}
  BY <1>1 DEF SleepInv, SleepersOK
<1>3. /\ Pending(sched') = Pending(sched) \ {t}
      /\ Blocked(sched') = Blocked(sched) \ {t}
      /\ Stopped(sched') = Stopped(sched)
  BY <1>2, UnblockEffect DEF TimerWake, IInv, TypeOK
<1>4. \A x : BeingStopped(x) => BeingStopped(x)'
  BY <1>1, StoppersStay
<1>5. PendingOK' /\ BlockedOK' /\ SleepersOK'
  BY <1>1, <1>2, <1>3, <1>4 DEF SleepInv, PendingOK, BlockedOK, SleepersOK
<1>6. JoinersOK'
  BY <1>1, <1>2, <1>3 DEF SleepInv, JoinersOK, InCache
<1>7. JoinedOK' /\ DrainOK' /\ BootPlaceOK'
  BY <1>1 DEF SleepInv, JoinedOK, DrainOK, BootPlaceOK
<1> QED  BY <1>5, <1>6, <1>7 DEF SleepInv

\* boot_phase2(), thread_enter(), schedule_new_thread() and thread_exit()
LEMMA SleepLife ==
    ASSUME IInv, SleepInv,
           \/ Boot
           \/ \E t \in AnyThread : ThreadEnter(t)
           \/ \E t \in Thread : Exit(t) \/ \E u \in Thread : Spawn(t, u)
    PROVE  SleepInv'
<1> USE DEF cpu, timer, module
<1>0. /\ Bootstrap \in Thread /\ Bootstrap \in AnyThread /\ Bootstrap # Gct
      /\ Thread \subseteq AnyThread /\ Gct \in AnyThread
      /\ sched \in Sched /\ Consistent(sched, Removed)
      /\ BootThread \in Thread /\ BootThread # Bootstrap
  BY ThreadAssumption, BootstrapAssumption, RoleAssumption
  DEF AnyThread, IInv, TypeOK, SchedulerConsistent
<1>1. ASSUME NEW u \in Thread
      PROVE  LET r == Schedule(sched, u) IN
             Pending(r) = Pending(sched) /\ Blocked(r) = Blocked(sched) /\ Stopped(r) = Stopped(sched)
  BY <1>0 DEF Schedule, Pending, Blocked, Stopped, InState, Sched
<1>2. CASE BootSchedule
  <2>1. pc[Gct] # "drain" /\ UNCHANGED <<arg, sleepers, joiners, collected>>
    BY <1>0, <1>2 DEF BootSchedule, At, Executes, OnCpu, SleepInv, DrainOK
  <2>2. /\ pc'[Bootstrap] = "bootMark" /\ pc'[BootThread] = "enter"
        /\ pc[Bootstrap] = "boot" /\ pc[BootThread] = "none"
        /\ \A u \in AnyThread : u \notin {Bootstrap, BootThread} => pc'[u] = pc[u]
    BY <1>0, <1>2 DEF BootSchedule, At, IInv, TypeOK, BootFirst
  <2>3. /\ Pending(sched') = Pending(sched) /\ Blocked(sched') = Blocked(sched)
        /\ Stopped(sched') = Stopped(sched)
    BY <1>0, <1>1, <1>2 DEF BootSchedule
  <2> QED  BY <2>1, <2>2, <2>3, NeutralStep DEF Neutral
<1>3. CASE BootMark \/ BootBlock
  <2>1. /\ pc[Gct] # "drain" /\ sched.running = Bootstrap
        /\ pc[Bootstrap] \in {"bootMark", "bootBlock"}
        /\ UNCHANGED <<arg, sleepers, joiners, collected>>
    BY <1>0, <1>3 DEF BootMark, BootBlock, At, Executes, OnCpu, SleepInv, DrainOK
  <2>2. /\ pc'[Bootstrap] \in {"bootBlock", "parked"}
        /\ \A u \in AnyThread : u # Bootstrap => pc'[u] = pc[u]
    BY <1>0, <1>3, Moves DEF BootMark, BootBlock, Location
  <2>3. CASE BootMark
    <3>1. /\ Pending(sched') = Pending(sched) \cup {Bootstrap}
          /\ Blocked(sched') = Blocked(sched) /\ Stopped(sched') = Stopped(sched)
      BY <1>0, <2>1, <2>3, MarkEffect DEF BootMark
    <3> QED  BY <2>1, <2>2, <3>1, NeutralStep DEF Neutral
  <2>4. CASE BootBlock
    <3>1. /\ Pending(sched') = Pending(sched) \ {Bootstrap}
          /\ Blocked(sched') = Blocked(sched) \cup (Pending(sched) \cap {Bootstrap})
          /\ Stopped(sched') = Stopped(sched)
      BY <1>0, <2>1, <2>4, BlockEffect DEF BootBlock
    <3> QED  BY <2>1, <2>2, <3>1, NeutralStep DEF Neutral
  <2> QED  BY <1>3, <2>3, <2>4
<1>4. ASSUME NEW t \in AnyThread, ThreadEnter(t) PROVE SleepInv'
  <2>1. /\ pc[Gct] # "drain" /\ pc[t] = "enter" /\ t # Bootstrap
        /\ UNCHANGED <<sched, arg, sleepers, joiners, collected>>
    BY <1>0, <1>4 DEF ThreadEnter, At, Executes, OnCpu, SleepInv, DrainOK, BootPlaceOK
  <2>2. /\ pc'[t] \in {"run", "loop"}
        /\ \A u \in AnyThread : u # t => pc'[u] = pc[u]
    BY <1>4, Moves DEF ThreadEnter, Location
  <2> QED  BY <1>0, <2>1, <2>2, NeutralStep DEF Neutral, SleepInv, BootPlaceOK
<1>5. ASSUME NEW t \in Thread, Exit(t) PROVE SleepInv'
  <2>1. /\ pc[Gct] # "drain" /\ sched.running = t /\ t \notin Blocked(sched)
        /\ pc[t] = "run" /\ t # Bootstrap
        /\ UNCHANGED <<arg, sleepers, joiners, collected>>
    BY <1>5, OnCpuFacts DEF Exit, At, SleepInv, BootPlaceOK
  <2>2. /\ pc'[t] = "dead"
        /\ \A u \in AnyThread : u # t => pc'[u] = pc[u]
    BY <1>0, <1>5, Moves DEF Exit, Location
  <2>3. /\ Pending(sched') = Pending(sched) \ {t} /\ Blocked(sched') = Blocked(sched) \ {t}
        /\ Stopped(sched') = Stopped(sched) \cup {t}
    BY <1>0, <1>5, <2>1, StopEffect DEF Exit
  <2>4. t \notin Pending(sched)
    BY <2>1 DEF SleepInv, PendingOK
  <2> QED  BY <1>0, <2>1, <2>2, <2>3, <2>4, NeutralStep DEF Neutral, SleepInv, BootPlaceOK
<1>6. ASSUME NEW t \in Thread, NEW u \in Thread, Spawn(t, u) PROVE SleepInv'
  <2>1. /\ pc[Gct] # "drain" /\ pc[u] = "none" /\ u # Bootstrap /\ u \in AnyThread
        /\ UNCHANGED <<arg, sleepers, joiners, collected>>
    BY <1>0, <1>6, OnCpuFacts DEF Spawn, At, SleepInv, BootPlaceOK
  <2>2. /\ pc'[u] \in {"enter", "none"}
        /\ \A v \in AnyThread : v # u => pc'[v] = pc[v]
    BY <2>1, <1>6 DEF Spawn, IInv, TypeOK
  <2>3. /\ Pending(sched') = Pending(sched) /\ Blocked(sched') = Blocked(sched)
        /\ Stopped(sched') = Stopped(sched)
    BY <1>1, <1>6 DEF Spawn
  <2> QED  BY <1>0, <2>1, <2>2, <2>3, NeutralStep DEF Neutral, SleepInv, BootPlaceOK
<1> QED  BY <1>2, <1>3, <1>4, <1>5, <1>6 DEF Boot

\* sleep_until() up to its block().
LEMMA SleepEnters ==
    ASSUME IInv, SleepInv, NEW t \in Thread,
           SleepMark(t) \/ SleepEnqueue(t) \/ SleepSetHandle(t)
    PROVE  SleepInv'
<1> USE DEF cpu, timer, module
<1>0. Executes(t) /\ sched \in Sched /\ Consistent(sched, Removed)
  BY DEF SleepMark, SleepEnqueue, SleepSetHandle, At, IInv, TypeOK, SchedulerConsistent
<1>1. /\ t \in AnyThread /\ Gct \in AnyThread /\ Thread \subseteq AnyThread
      /\ t # Gct /\ CanEnqueue(t) /\ sched.running = t
      /\ t \notin Blocked(sched) /\ t \notin Stopped(sched) /\ pc[Gct] # "drain"
  BY <1>0, OnCpuFacts
<1>2. PICK loc \in {"marked", "enqueued", "armed"} :
         /\ GoTo(t, loc)
         /\ loc = "marked" => pc[t] = "run" /\ sched' = MarkAsBlockPending(sched) /\ sleepers' = sleepers
         /\ loc = "enqueued" => pc[t] = "marked" /\ sched' = sched /\ sleepers' = sleepers \cup {t}
         /\ loc = "armed" => pc[t] = "enqueued" /\ sched' = sched /\ sleepers' = sleepers
  BY DEF SleepMark, SleepEnqueue, SleepSetHandle, At
<1>3. t # Bootstrap /\ UNCHANGED <<arg, joiners, collected>>
  BY <1>2 DEF SleepMark, SleepEnqueue, SleepSetHandle, SleepInv, BootPlaceOK
<1>4. /\ pc'[t] = loc
      /\ \A u \in AnyThread : u # t => pc'[u] = pc[u]
  BY <1>1, <1>2, Moves DEF Location
<1>5. /\ Pending(sched') = Pending(sched) \cup (IF loc = "marked" THEN {t} ELSE {})
      /\ Blocked(sched') = Blocked(sched)
      /\ Stopped(sched') = Stopped(sched)
  BY <1>0, <1>1, <1>2, MarkEffect
<1>6. \A x : BeingStopped(x) => BeingStopped(x)'
  BY <1>1, <1>2, <1>3, <1>4, StoppersStay
<1>7. loc \in {"enqueued"} => t \in Pending(sched)
  BY <1>1, <1>2 DEF SleepInv, SleepersOK
<1>8. PendingOK'
  <2>1. Pending(sched') \subseteq Thread
    BY DEF Pending, InState
  <2> QED  BY <1>1, <1>2, <1>4, <1>5, <2>1 DEF SleepInv, PendingOK
<1>9. BlockedOK'
  <2>1. Blocked(sched') \subseteq Thread
    BY DEF Blocked, InState
  <2> QED  BY <1>1, <1>2, <1>3, <1>4, <1>5, <1>6, <2>1 DEF SleepInv, BlockedOK
<1>10. SleepersOK'
  <2>1. sleepers \subseteq Thread
    BY DEF IInv, TypeOK
  <2> QED  BY <1>1, <1>2, <1>4, <1>5, <1>7, <2>1 DEF SleepInv, SleepersOK
<1>11. JoinersOK'
  <2>1. \A u \in Thread : Elems(joiners[u]) \subseteq Thread
    BY ElementOfSeq, LenProperties DEF IInv, TypeOK, Elems
  <2>2. \A u \in Thread : InCache(u) => InCache(u)'
    BY <1>1, <1>3, <1>4 DEF InCache
  <2> QED  BY <1>1, <1>2, <1>3, <1>4, <1>5, <2>1, <2>2 DEF SleepInv, JoinersOK
<1>12. JoinedOK' /\ DrainOK' /\ BootPlaceOK'
  BY <1>1, <1>2, <1>3, <1>4, BootstrapAssumption DEF SleepInv, JoinedOK, DrainOK, BootPlaceOK
<1> QED  BY <1>8, <1>9, <1>10, <1>11, <1>12 DEF SleepInv

\* The end of sleep_until().
LEMMA SleepEnds ==
    ASSUME IInv, SleepInv, NEW t \in Thread, SleepBlock(t) \/ SleepReturn(t)
    PROVE  SleepInv'
<1> USE DEF cpu, timer, module
<1>0. Executes(t) /\ sched \in Sched /\ Consistent(sched, Removed)
  BY DEF SleepBlock, SleepReturn, At, IInv, TypeOK, SchedulerConsistent
<1>1. /\ t \in AnyThread /\ Gct \in AnyThread /\ Thread \subseteq AnyThread
      /\ t # Gct /\ CanEnqueue(t) /\ sched.running = t
      /\ t \notin Blocked(sched) /\ t \notin Stopped(sched) /\ pc[Gct] # "drain"
  BY <1>0, OnCpuFacts
<1>2. PICK loc \in {"awake", "run"} :
         /\ GoTo(t, loc)
         /\ loc = "awake" => pc[t] = "armed" /\ sched' = Block(sched, t)
         /\ loc = "run" => pc[t] = "awake" /\ sched' = sched
  BY DEF SleepBlock, SleepReturn, Resume, At
<1>3. t # Bootstrap /\ UNCHANGED <<arg, sleepers, joiners, collected>>
  BY <1>2 DEF SleepBlock, SleepReturn, SleepInv, BootPlaceOK
<1>4. /\ pc'[t] = loc
      /\ \A u \in AnyThread : u # t => pc'[u] = pc[u]
  BY <1>1, <1>2, Moves DEF Location
<1>5. loc = "run" => t \notin Pending(sched) /\ t \notin sleepers
  BY <1>1, <1>2, <1>3 DEF SleepInv, PendingOK, SleepersOK
<1>6. /\ Pending(sched') = Pending(sched) \ {t}
      /\ Blocked(sched') = Blocked(sched) \cup (Pending(sched) \cap {t})
      /\ Stopped(sched') = Stopped(sched)
  <2>1. CASE loc = "awake"
    BY <1>0, <1>1, <1>2, <2>1, BlockEffect
  <2>2. CASE loc = "run"
    BY <1>2, <1>5, <2>2
  <2> QED  BY <2>1, <2>2
<1>7. \A x : BeingStopped(x) => BeingStopped(x)'
  BY <1>1, <1>2, <1>3, <1>4, StoppersStay
<1>8. PendingOK'
  <2>1. Pending(sched) \subseteq Thread
    BY DEF Pending, InState
  <2> QED  BY <1>1, <1>3, <1>4, <1>6, <2>1 DEF SleepInv, PendingOK
<1>9. BlockedOK'
  <2>1. Blocked(sched) \subseteq Thread
    BY DEF Blocked, InState
  <2>2. t \in Pending(sched) => t \in sleepers
    BY <1>2, <1>3 DEF SleepInv, PendingOK
  <2> QED  BY <1>1, <1>2, <1>3, <1>4, <1>5, <1>6, <1>7, <2>1, <2>2 DEF SleepInv, BlockedOK
<1>10. SleepersOK'
  <2>1. sleepers \subseteq Thread
    BY DEF IInv, TypeOK
  <2> QED  BY <1>1, <1>2, <1>3, <1>4, <1>5, <1>6, <2>1 DEF SleepInv, SleepersOK
<1>11. JoinersOK'
  <2>1. \A u \in Thread : Elems(joiners[u]) \subseteq Thread
    BY ElementOfSeq, LenProperties DEF IInv, TypeOK, Elems
  <2>2. \A u \in Thread : InCache(u) => InCache(u)'
    BY <1>1, <1>2, <1>3, <1>4 DEF InCache
  <2> QED  BY <1>1, <1>2, <1>3, <1>4, <1>6, <2>1, <2>2 DEF SleepInv, JoinersOK
<1>12. JoinedOK' /\ DrainOK' /\ BootPlaceOK'
  BY <1>1, <1>2, <1>3, <1>4, BootstrapAssumption DEF SleepInv, JoinedOK, DrainOK, BootPlaceOK
<1> QED  BY <1>8, <1>9, <1>10, <1>11, <1>12 DEF SleepInv

\* sync_with_thread_stop() up to its block().
LEMMA SleepJoin ==
    ASSUME IInv, SleepInv, NEW t \in Thread, NEW u \in Thread, t # u, Join(t, u)
    PROVE  SleepInv'
<1> USE DEF cpu, timer, module
<1>0. Executes(t) /\ sched \in Sched /\ Consistent(sched, Removed) /\ pc[t] = "run" /\ InCache(u)
  BY DEF Join, At, IInv, TypeOK, SchedulerConsistent
<1>1. /\ t \in AnyThread /\ Gct \in AnyThread /\ Thread \subseteq AnyThread
      /\ t # Gct /\ CanEnqueue(t) /\ sched.running = t
      /\ t \notin Blocked(sched) /\ t \notin Stopped(sched) /\ pc[Gct] # "drain"
  BY <1>0, OnCpuFacts
<1>2. /\ pc'[t] = "joined"
      /\ \A v \in AnyThread : v # t => pc'[v] = pc[v]
  BY <1>1, Moves DEF Join, Location
<1>3. t # Bootstrap /\ UNCHANGED <<sleepers, collected>>
  BY <1>0 DEF Join, SleepInv, BootPlaceOK
<1>4. arg'[t] = u /\ \A v \in Thread : v # t => arg'[v] = arg[v]
  BY DEF Join, IInv, TypeOK
<1>5. t \notin Pending(sched) /\ t \notin sleepers /\ \A v \in Thread : t \notin Elems(joiners[v])
  BY <1>0, <1>3 DEF SleepInv, PendingOK, SleepersOK, JoinersOK
<1>6. /\ Pending(sched') = Pending(sched)
      /\ Blocked(sched') = Blocked(sched) \cup {t}
      /\ Stopped(sched') = Stopped(sched)
  <2> DEFINE m == MarkAsBlockPending(sched)
  <2>1. m \in Sched /\ Consistent(m, Removed)
    BY <1>0, <1>1, MarkOK, ThreadAssumption DEF CallOK
  <2>2. /\ Pending(m) = Pending(sched) \cup {t} /\ m.running = t
        /\ Blocked(m) = Blocked(sched) /\ Stopped(m) = Stopped(sched)
    BY <1>0, <1>1, MarkEffect
  <2>3. sched' = Block(m, t)
    BY DEF Join
  <2> HIDE DEF m
  <2>4. /\ Pending(sched') = Pending(m) \ {t}
        /\ Blocked(sched') = Blocked(m) \cup (Pending(m) \cap {t})
        /\ Stopped(sched') = Stopped(m)
    BY <2>1, <2>2, <2>3, BlockEffect
  <2> QED  BY <1>5, <2>2, <2>4
<1>7. /\ joiners' = [joiners EXCEPT ![u] = Append(joiners[u], t)]
      /\ joiners \in [Thread -> Seq(Thread)]
  BY DEF Join, IInv, TypeOK
<1>8. /\ joiners'[u] = Append(joiners[u], t)
      /\ \A v \in Thread : v # u => joiners'[v] = joiners[v]
      /\ Elems(joiners'[u]) = Elems(joiners[u]) \cup {t}
  BY <1>7, ElemsAppend
<1>9. \A x : BeingStopped(x) => BeingStopped(x)'
  BY <1>0, <1>1, <1>2, <1>4, StoppersStay
<1>10. PendingOK'
  <2>1. Pending(sched) \subseteq Thread
    BY DEF Pending, InState
  <2> QED  BY <1>1, <1>2, <1>3, <1>5, <1>6, <2>1 DEF SleepInv, PendingOK
<1>11. BlockedOK'
  <2>1. Blocked(sched) \subseteq Thread
    BY DEF Blocked, InState
  <2>2. \A v \in Thread : Elems(joiners[v]) \subseteq Elems(joiners'[v])
    BY <1>8
  <2>3. \A v \in Thread : pc[v] = "joined" => arg[v] \in Thread
    BY DEF SleepInv, JoinedOK
  <2> QED  BY <1>1, <1>2, <1>3, <1>4, <1>6, <1>8, <1>9, <2>1, <2>2, <2>3 DEF SleepInv, BlockedOK
<1>12. SleepersOK'
  <2>1. sleepers \subseteq Thread
    BY DEF IInv, TypeOK
  <2> QED  BY <1>1, <1>2, <1>3, <1>5, <1>6, <2>1 DEF SleepInv, SleepersOK
<1>13. JoinersOK'
  <2>1. \A v \in Thread : Elems(joiners[v]) \subseteq Thread
    BY ElementOfSeq, LenProperties DEF IInv, TypeOK, Elems
  <2>2. \A v \in Thread : InCache(v) => InCache(v)'
    BY <1>1, <1>2, <1>3 DEF InCache
  <2>3. ASSUME NEW v \in Thread
        PROVE  \A i, j \in DOMAIN joiners'[v] : joiners'[v][i] = joiners'[v][j] => i = j
    <3>1. CASE v = u
      BY <1>5, <1>7, <1>8, <3>1, AppendKeepsOrder DEF SleepInv, JoinersOK
    <3>2. CASE v # u
      BY <1>8, <2>3, <3>2 DEF SleepInv, JoinersOK
    <3> QED  BY <3>1, <3>2
  <2>4. ASSUME NEW v \in Thread, joiners'[v] # << >> PROVE InCache(v)'
    <3>1. CASE v = u
      BY <1>0, <2>2, <3>1
    <3>2. CASE v # u
      BY <1>8, <2>2, <2>4, <3>2 DEF SleepInv, JoinersOK
    <3> QED  BY <3>1, <3>2
  <2>5. ASSUME NEW v \in Thread, NEW x \in Elems(joiners'[v])
        PROVE  /\ CanEnqueue(x) /\ pc'[x] = "joined" /\ arg'[x] = v
               /\ x \in Blocked(sched') \cup Stopped(sched')
    <3>1. CASE x = t
      BY <1>1, <1>2, <1>4, <1>5, <1>6, <1>8, <2>5, <3>1
    <3>2. CASE x # t
      <4>1. x \in Elems(joiners[v]) /\ x \in Thread
        BY <1>8, <2>1, <2>5, <3>2
      <4> QED  BY <1>1, <1>2, <1>4, <1>6, <3>2, <4>1 DEF SleepInv, JoinersOK
    <3> QED  BY <3>1, <3>2
  <2> QED  BY <2>3, <2>4, <2>5 DEF JoinersOK
<1>14. JoinedOK'
  <2>1. \A v \in Thread : Elems(joiners[v]) \subseteq Elems(joiners'[v])
    BY <1>8
  <2> QED  BY <1>1, <1>2, <1>3, <1>4, <1>8, <2>1 DEF SleepInv, JoinedOK
<1>15. DrainOK' /\ BootPlaceOK'
  BY <1>1, <1>2, <1>3, BootstrapAssumption DEF SleepInv, DrainOK, BootPlaceOK
<1> QED  BY <1>10, <1>11, <1>12, <1>13, <1>14, <1>15 DEF SleepInv

\* The end of sync_with_thread_stop().
LEMMA SleepJoinReturn ==
    ASSUME IInv, SleepInv, NEW t \in Thread, JoinReturn(t)
    PROVE  SleepInv'
<1> USE DEF cpu, timer, module
<1>0. Executes(t) /\ pc[t] = "joined"
  BY DEF JoinReturn, At
<1>1. /\ t \in AnyThread /\ Gct \in AnyThread /\ Thread \subseteq AnyThread
      /\ t # Gct /\ sched.running = t
      /\ t \notin Blocked(sched) /\ t \notin Stopped(sched) /\ pc[Gct] # "drain"
  BY <1>0, OnCpuFacts
<1>2. /\ pc'[t] = "run"
      /\ \A v \in AnyThread : v # t => pc'[v] = pc[v]
  BY <1>1, Moves DEF JoinReturn, Location
<1>3. t # Bootstrap /\ UNCHANGED <<sched, sleepers, joiners, collected>>
  BY <1>0 DEF JoinReturn, SleepInv, BootPlaceOK
<1>4. \A v \in Thread : v # t => arg'[v] = arg[v]
  BY DEF JoinReturn, IInv, TypeOK
<1>5. t \notin Pending(sched) /\ t \notin sleepers /\ \A v \in Thread : t \notin Elems(joiners[v])
  BY <1>0, <1>1, <1>3 DEF SleepInv, PendingOK, SleepersOK, JoinersOK
<1>6. \A x : BeingStopped(x) => BeingStopped(x)'
  BY <1>0, <1>1, <1>2, <1>4, StoppersStay
<1>7. Pending(sched) \subseteq Thread /\ Blocked(sched) \subseteq Thread
  BY DEF Pending, Blocked, InState
<1>8. PendingOK' /\ BlockedOK'
  BY <1>1, <1>2, <1>3, <1>4, <1>5, <1>6, <1>7 DEF SleepInv, PendingOK, BlockedOK
<1>9. SleepersOK'
  <2>1. sleepers \subseteq Thread
    BY DEF IInv, TypeOK
  <2> QED  BY <1>1, <1>2, <1>3, <1>5, <2>1 DEF SleepInv, SleepersOK
<1>10. JoinersOK'
  <2>1. \A v \in Thread : Elems(joiners[v]) \subseteq Thread
    BY ElementOfSeq, LenProperties DEF IInv, TypeOK, Elems
  <2>2. \A v \in Thread : InCache(v) => InCache(v)'
    BY <1>1, <1>2, <1>3 DEF InCache
  <2> QED  BY <1>1, <1>2, <1>3, <1>4, <1>5, <2>1, <2>2 DEF SleepInv, JoinersOK
<1>11. JoinedOK' /\ DrainOK' /\ BootPlaceOK'
  BY <1>1, <1>2, <1>3, <1>4, BootstrapAssumption DEF SleepInv, JoinedOK, DrainOK, BootPlaceOK
<1> QED  BY <1>8, <1>9, <1>10, <1>11 DEF SleepInv

\* The first half of stop_thread().
LEMMA SleepStopCheck ==
    ASSUME IInv, SleepInv, NEW t \in Thread, NEW u \in Thread, StopCheck(t, u)
    PROVE  SleepInv'
<1> USE DEF cpu, timer, module
<1>0. Executes(t) /\ sched \in Sched /\ pc[t] = "run"
  BY DEF StopCheck, At, IInv, TypeOK
<1>1. /\ t \in AnyThread /\ Gct \in AnyThread /\ Thread \subseteq AnyThread
      /\ t # Gct /\ pc[Gct] # "drain"
  BY <1>0, OnCpuFacts
<1>2. CASE ~IsRemovable(u)
  <2>1. UNCHANGED <<sched, pc, arg, sleepers, joiners, collected>>
    BY <1>2 DEF StopCheck
  <2> QED  BY <1>1, <2>1, NeutralStep DEF SleepInv, BootPlaceOK
<1>3. CASE IsRemovable(u)
  <2>1. /\ pc'[t] = "stopping"
        /\ \A v \in AnyThread : v # t => pc'[v] = pc[v]
    BY <1>1, <1>3, Moves DEF StopCheck, Location
  <2>2. arg'[t] = u /\ \A v \in Thread : v # t => arg'[v] = arg[v]
    BY <1>3 DEF StopCheck, IInv, TypeOK
  <2>3. t # Bootstrap /\ UNCHANGED <<joiners, collected>>
    BY <1>0 DEF StopCheck, SleepInv, BootPlaceOK
  <2>4. /\ Pending(sched') = Pending(sched)
        /\ Blocked(sched') = Blocked(sched)
        /\ Stopped(sched') = Stopped(sched)
    BY <1>0, <1>3 DEF StopCheck, Sched, Pending, Blocked, Stopped, InState
  <2>5. sleepers' \subseteq sleepers /\ sleepers \ sleepers' \subseteq Blocked(sched) \cap {u}
    BY <1>3 DEF StopCheck, Blocked, InState
  <2>6. t \notin Pending(sched) /\ t \notin sleepers /\ \A v \in Thread : t \notin Elems(joiners[v])
    BY <1>0, <2>3 DEF SleepInv, PendingOK, SleepersOK, JoinersOK
  <2>7. (\A x : BeingStopped(x) => BeingStopped(x)') /\ BeingStopped(u)'
    <3>1. \A x : BeingStopped(x) => BeingStopped(x)'
      BY <1>0, <1>1, <2>1, <2>2, StoppersStay
    <3> QED  BY <2>1, <2>2, <3>1 DEF BeingStopped
  <2>8. Pending(sched) \subseteq Thread /\ Blocked(sched) \subseteq Thread /\ sleepers \subseteq Thread
    BY DEF Pending, Blocked, InState, IInv, TypeOK
  <2>9. PendingOK'
    <3>1. \A x \in Pending(sched) : x \notin Blocked(sched)
      BY DEF Pending, Blocked, InState
    <3> QED  BY <1>1, <2>1, <2>4, <2>5, <2>6, <2>8, <3>1 DEF SleepInv, PendingOK
  <2>10. BlockedOK'
    <3> SUFFICES ASSUME NEW x \in Blocked(sched) \ {Bootstrap}
                 PROVE  \/ pc'[x] = "awake" /\ (x \in sleepers' \/ BeingStopped(x)')
                        \/ pc'[x] = "joined" /\ x \in Elems(joiners'[arg'[x]])
      BY <2>4 DEF BlockedOK
    <3>1. \/ pc[x] = "awake" /\ (x \in sleepers \/ BeingStopped(x))
          \/ pc[x] = "joined" /\ x \in Elems(joiners[arg[x]])
      BY DEF SleepInv, BlockedOK
    <3>2. x # t /\ x \in Thread
      BY <1>0, <2>8, <3>1
    <3>3. pc'[x] = pc[x] /\ arg'[x] = arg[x]
      BY <1>1, <2>1, <2>2, <3>2
    <3>4. x \in sleepers => x \in sleepers' \/ BeingStopped(x)'
      BY <2>5, <2>7
    <3> QED  BY <2>3, <2>7, <3>1, <3>3, <3>4
  <2>11. SleepersOK'
    BY <1>1, <2>1, <2>4, <2>5, <2>6, <2>8 DEF SleepInv, SleepersOK
  <2>12. JoinersOK'
    <3>1. \A v \in Thread : Elems(joiners[v]) \subseteq Thread
      BY ElementOfSeq, LenProperties DEF IInv, TypeOK, Elems
    <3>2. \A v \in Thread : InCache(v) => InCache(v)'
      BY <1>1, <2>1, <2>3 DEF InCache
    <3> QED  BY <1>1, <2>1, <2>2, <2>3, <2>4, <2>6, <3>1, <3>2 DEF SleepInv, JoinersOK
  <2>13. JoinedOK' /\ DrainOK' /\ BootPlaceOK'
    BY <1>1, <2>1, <2>2, <2>3, BootstrapAssumption DEF SleepInv, JoinedOK, DrainOK, BootPlaceOK
  <2> QED  BY <2>9, <2>10, <2>11, <2>12, <2>13 DEF SleepInv
<1> QED  BY <1>2, <1>3

\* The second half of stop_thread().
LEMMA SleepStopDo ==
    ASSUME IInv, SleepInv, NEW t \in Thread, StopDo(t)
    PROVE  SleepInv'
<1> USE DEF cpu, timer, module
<1> DEFINE u == arg[t]
<1>0. /\ Executes(t) /\ sched \in Sched /\ Consistent(sched, Removed)
      /\ pc[t] = "stopping" /\ u \in Thread
  BY DEF StopDo, At, IInv, TypeOK, SchedulerConsistent, ArgOK
<1>1. /\ t \in AnyThread /\ Gct \in AnyThread /\ Thread \subseteq AnyThread
      /\ t # Gct /\ sched.running = t /\ pc[Gct] # "drain"
  BY <1>0, OnCpuFacts
<1>2. /\ pc'[t] = "run"
      /\ \A v \in AnyThread : v # t => pc'[v] = pc[v]
  BY <1>1, Moves DEF StopDo, Location
<1>3. t # Bootstrap /\ UNCHANGED <<sleepers, joiners, collected>>
  BY <1>0 DEF StopDo, SleepInv, BootPlaceOK
<1>4. \A v \in Thread : v # t => arg'[v] = arg[v]
  BY DEF StopDo, IInv, TypeOK
<1>5. t \notin Pending(sched) /\ t \notin sleepers /\ \A v \in Thread : t \notin Elems(joiners[v])
  BY <1>0, <1>3 DEF SleepInv, PendingOK, SleepersOK, JoinersOK
<1>6. /\ Pending(sched') = Pending(sched) \ {u}
      /\ Blocked(sched') = Blocked(sched) \ {u}
      /\ Stopped(sched') = Stopped(sched) \cup {u}
  BY <1>0, <1>1, StopEffect DEF StopDo
<1>7. \A x : x # u /\ BeingStopped(x) => BeingStopped(x)'
  BY <1>1, <1>2, <1>4 DEF BeingStopped
<1> HIDE DEF u
<1>8. Pending(sched) \subseteq Thread /\ Blocked(sched) \subseteq Thread /\ sleepers \subseteq Thread
  BY DEF Pending, Blocked, InState, IInv, TypeOK
<1>9. PendingOK' /\ SleepersOK'
  BY <1>0, <1>1, <1>2, <1>3, <1>5, <1>6, <1>8 DEF SleepInv, PendingOK, SleepersOK
<1>10. BlockedOK'
  <2> SUFFICES ASSUME NEW x \in Blocked(sched) \ {Bootstrap, u}
               PROVE  \/ pc'[x] = "awake" /\ (x \in sleepers' \/ BeingStopped(x)')
                      \/ pc'[x] = "joined" /\ x \in Elems(joiners'[arg'[x]])
    BY <1>6 DEF BlockedOK
  <2>1. \/ pc[x] = "awake" /\ (x \in sleepers \/ BeingStopped(x))
        \/ pc[x] = "joined" /\ x \in Elems(joiners[arg[x]])
    BY DEF SleepInv, BlockedOK
  <2>2. x # t /\ x \in Thread
    BY <1>0, <1>8, <2>1
  <2>3. pc'[x] = pc[x] /\ arg'[x] = arg[x]
    BY <1>1, <1>2, <1>4, <2>2
  <2> QED  BY <1>3, <1>7, <2>1, <2>3
<1>11. JoinersOK'
  <2>1. \A v \in Thread : Elems(joiners[v]) \subseteq Thread
    BY ElementOfSeq, LenProperties DEF IInv, TypeOK, Elems
  <2>2. \A v \in Thread : InCache(v) => InCache(v)'
    BY <1>1, <1>2, <1>3 DEF InCache
  <2> QED  BY <1>1, <1>2, <1>3, <1>4, <1>5, <1>6, <2>1, <2>2 DEF SleepInv, JoinersOK
<1>12. JoinedOK' /\ DrainOK' /\ BootPlaceOK'
  BY <1>1, <1>2, <1>3, <1>4, BootstrapAssumption DEF SleepInv, JoinedOK, DrainOK, BootPlaceOK
<1> QED  BY <1>9, <1>10, <1>11, <1>12 DEF SleepInv

\* The GCT announces the end of a thread to one that joins it.
LEMMA SleepGctNotify ==
    ASSUME IInv, SleepInv, GctNotify
    PROVE  SleepInv'
<1> USE DEF cpu, timer, module
<1> DEFINE u == Head(sched.bin)
           h == Head(joiners[u])
<1>1. /\ pc[Gct] = "drain" /\ sched.bin # << >>
      /\ sched' = Unblock(sched, h)
      /\ joiners' = [joiners EXCEPT ![u] = Tail(joiners[u])]
      /\ joiners[u] # << >>
      /\ Executes(Gct)
      /\ UNCHANGED <<irqOn, frames, handler, pc, arg, sleepers, collected>>
  BY DEF GctNotify, At
<1>2. u \in Thread /\ joiners \in [Thread -> Seq(Thread)] /\ joiners[u] \in Seq(Thread) /\ sched \in Sched
  BY <1>1, HeadTailProperties DEF IInv, TypeOK, Sched
<1> HIDE DEF u
<1>3. \A i, j \in DOMAIN joiners[u] : joiners[u][i] = joiners[u][j] => i = j
  BY <1>2 DEF SleepInv, JoinersOK
<1>4. /\ h \in Thread /\ h \in Elems(joiners[u])
      /\ Tail(joiners[u]) \in Seq(Thread)
      /\ Elems(Tail(joiners[u])) = Elems(joiners[u]) \ {h}
      /\ \A i, j \in DOMAIN Tail(joiners[u]) : Tail(joiners[u])[i] = Tail(joiners[u])[j] => i = j
  BY <1>1, <1>2, <1>3, ElemsTail
<1> HIDE DEF h
<1>5. /\ CanEnqueue(h) /\ pc[h] = "joined" /\ arg[h] = u
      /\ \A v \in Thread : h \in Elems(joiners[v]) => v = u
  BY <1>2, <1>4 DEF SleepInv, JoinersOK
<1>6. /\ Pending(sched') = Pending(sched) \ {h}
      /\ Blocked(sched') = Blocked(sched) \ {h}
      /\ Stopped(sched') = Stopped(sched)
      /\ sched'.running = sched.running
      /\ sched'.bin = sched.bin
  BY <1>1, <1>2, <1>4, <1>5, UnblockEffect
<1>7. /\ joiners'[u] = Tail(joiners[u])
      /\ \A v \in Thread : v # u => joiners'[v] = joiners[v]
      /\ \A v \in Thread : Elems(joiners'[v]) = Elems(joiners[v]) \ {h}
  BY <1>1, <1>2, <1>4, <1>5
<1>8. \A x : BeingStopped(x) => BeingStopped(x)'
  BY <1>1, StoppersStay
<1>9. PendingOK' /\ SleepersOK'
  BY <1>1, <1>5, <1>6 DEF SleepInv, PendingOK, SleepersOK
<1>10. BlockedOK'
  <2>1. \A v \in Thread : pc[v] = "joined" => arg[v] \in Thread
    BY DEF SleepInv, JoinedOK
  <2>2. Blocked(sched) \subseteq Thread
    BY DEF Blocked, InState
  <2> QED  BY <1>1, <1>6, <1>7, <1>8, <2>1, <2>2 DEF SleepInv, BlockedOK
<1>11. JoinersOK'
  <2>1. ASSUME NEW v \in Thread
        PROVE  \A i, j \in DOMAIN joiners'[v] : joiners'[v][i] = joiners'[v][j] => i = j
    <3>1. CASE v = u
      BY <1>4, <1>7, <3>1
    <3>2. CASE v # u
      BY <1>7, <2>1, <3>2 DEF SleepInv, JoinersOK
    <3> QED  BY <3>1, <3>2
  <2>2. ASSUME NEW v \in Thread, joiners'[v] # << >> PROVE InCache(v)'
    <3>1. joiners[v] # << >>
      BY <1>1, <1>7, <2>2
    <3> QED  BY <1>1, <2>2, <3>1 DEF SleepInv, JoinersOK, InCache
  <2>3. ASSUME NEW v \in Thread, NEW x \in Elems(joiners'[v])
        PROVE  /\ CanEnqueue(x) /\ pc'[x] = "joined" /\ arg'[x] = v
               /\ x \in Blocked(sched') \cup Stopped(sched')
    BY <1>1, <1>6, <1>7, <2>3 DEF SleepInv, JoinersOK
  <2> QED  BY <2>1, <2>2, <2>3 DEF JoinersOK
<1>12. JoinedOK'
  <2> SUFFICES ASSUME NEW x \in Thread, pc[x] = "joined"
               PROVE  /\ arg[x] \in Thread
                      /\ \/ x \in Elems(joiners'[arg[x]])
                         \/ collected[arg[x]] > 0
                         \/ Head(sched.bin) = arg[x]
    BY <1>1, <1>6 DEF JoinedOK
  <2>1. /\ arg[x] \in Thread
        /\ \/ x \in Elems(joiners[arg[x]])
           \/ collected[arg[x]] > 0
           \/ Head(sched.bin) = arg[x]
    BY DEF SleepInv, JoinedOK
  <2>2. CASE x = h
    BY <1>5, <2>1, <2>2 DEF u
  <2>3. CASE x # h
    BY <1>7, <2>1, <2>3
  <2> QED  BY <2>2, <2>3
<1>13. DrainOK' /\ BootPlaceOK'
  BY <1>1, <1>6 DEF SleepInv, DrainOK, BootPlaceOK
<1> QED  BY <1>9, <1>10, <1>11, <1>12, <1>13 DEF SleepInv

\* The other steps of the GCT.
LEMMA SleepGct ==
    ASSUME IInv, SleepInv, GctBegin \/ GctFree \/ GctEnd \/ GctBlock
    PROVE  SleepInv'
<1> USE DEF cpu, timer, module
<1>0. /\ Gct \in AnyThread /\ Thread \subseteq AnyThread /\ Gct \notin Thread
      /\ sched \in Sched /\ Consistent(sched, Removed)
      /\ Bootstrap \in AnyThread /\ Bootstrap # Gct
  BY ThreadAssumption, BootstrapAssumption DEF AnyThread, IInv, TypeOK, SchedulerConsistent
<1>1. sched.running = Gct /\ frames[Gct] = 0 /\ handler = "none"
  BY DEF GctBegin, GctFree, GctEnd, GctBlock, At, Executes, OnCpu
<1>2. CASE GctBlock
  <2>1. pc[Gct] = "block" /\ sched' = Block(sched, Gct) /\ UNCHANGED <<arg, sleepers, joiners, collected>>
    BY <1>2 DEF GctBlock, At
  <2>2. /\ pc'[Gct] = "loop"
        /\ \A v \in AnyThread : v # Gct => pc'[v] = pc[v]
    BY <1>0, <1>2, Moves DEF GctBlock, Location
  <2>3. /\ Pending(sched') = Pending(sched) \ {Gct}
        /\ Blocked(sched') = Blocked(sched) \cup (Pending(sched) \cap {Gct})
        /\ Stopped(sched') = Stopped(sched)
    BY <1>0, <1>1, <2>1, BlockEffect
  <2>4. Gct \notin Pending(sched)
    BY <1>0 DEF Pending, InState
  <2> QED  BY <1>0, <2>1, <2>2, <2>3, <2>4, NeutralStep DEF Neutral, SleepInv, BootPlaceOK
<1>3. CASE GctBegin \/ GctEnd \/ GctFree
  <2>1. /\ \A v \in AnyThread : v # Gct => pc'[v] = pc[v]
        /\ pc'[Gct] \in {"drain", "block"}
        /\ UNCHANGED <<arg, sleepers, joiners>>
    <3>1. CASE GctFree
      BY <3>1 DEF GctFree, At
    <3>2. CASE GctBegin \/ GctEnd
      BY <1>0, <3>2, Moves DEF GctBegin, GctEnd, Location
    <3> QED  BY <1>3, <3>1, <3>2
  <2>2. /\ Pending(sched') = Pending(sched) /\ Blocked(sched') = Blocked(sched)
        /\ Stopped(sched') = Stopped(sched)
    <3>1. \A v \in Thread : sched'.state[v] = sched.state[v]
      BY <1>0, <1>1, <1>3 DEF GctBegin, GctFree, GctEnd, MarkAsBlockPending, Sched
    <3> QED  BY <3>1 DEF Pending, Blocked, Stopped, InState
  <2>3. \A x : BeingStopped(x) => BeingStopped(x)'
    BY <1>0, <2>1, StoppersStay
  <2>4. Pending(sched) \subseteq Thread /\ Blocked(sched) \subseteq Thread /\ sleepers \subseteq Thread
    BY DEF Pending, Blocked, InState, IInv, TypeOK
  <2>5. PendingOK' /\ BlockedOK' /\ SleepersOK' /\ BootPlaceOK'
    BY <1>0, <2>1, <2>2, <2>3, <2>4
    DEF SleepInv, PendingOK, BlockedOK, SleepersOK, BootPlaceOK
  <2>6. DrainOK'
    BY <1>1, <1>3, <2>1 DEF GctBegin, GctFree, GctEnd, SleepInv, DrainOK, GoTo, At, IInv, TypeOK, Sched
  <2>7. /\ collected \in [Thread -> Nat]
        /\ sched.bin # << >> => Head(sched.bin) \in Thread
    BY HeadTailProperties DEF IInv, TypeOK, Sched
  <2>8. /\ \A v \in Thread : collected[v] > 0 => collected'[v] > 0
        /\ \A v \in Thread : joiners[v] # << >> => collected'[v] = collected[v]
        /\ GctFree => collected'[Head(sched.bin)] > 0
    BY <1>3, <2>7 DEF GctBegin, GctFree, GctEnd
  <2>9. JoinersOK'
    <3>1. \A v \in Thread : Elems(joiners[v]) \subseteq Thread
      BY ElementOfSeq, LenProperties DEF IInv, TypeOK, Elems
    <3>2. \A v \in Thread : joiners[v] # << >> /\ InCache(v) => InCache(v)'
      BY <1>0, <2>1, <2>8 DEF InCache
    <3> QED  BY <1>0, <2>1, <2>2, <3>1, <3>2 DEF SleepInv, JoinersOK
  <2>10. JoinedOK'
    <3> SUFFICES ASSUME NEW x \in Thread, pc[x] = "joined"
                 PROVE  /\ arg[x] \in Thread
                        /\ x \in Elems(joiners[arg[x]]) \/ collected'[arg[x]] > 0
      BY <1>0, <2>1 DEF JoinedOK
    <3>1. /\ arg[x] \in Thread
          /\ \/ x \in Elems(joiners[arg[x]])
             \/ collected[arg[x]] > 0
             \/ pc[Gct] = "drain" /\ sched.bin # << >> /\ Head(sched.bin) = arg[x]
      BY DEF SleepInv, JoinedOK
    <3>2. pc[Gct] = "drain" /\ sched.bin # << >> => GctFree
      BY <1>3 DEF GctBegin, GctEnd, At
    <3> QED  BY <2>8, <3>1, <3>2
  <2> QED  BY <2>5, <2>6, <2>9, <2>10 DEF SleepInv
<1> QED  BY <1>2, <1>3

\* Every step keeps the invariant on who waits for what.
LEMMA SleepStep ==
    ASSUME IInv, SleepInv, [Next]_vars
    PROVE  SleepInv'
<1>1. CASE UNCHANGED vars
  BY <1>1 DEF vars, cpu, timer, module, SleepInv, PendingOK, BlockedOK, SleepersOK,
              JoinersOK, JoinedOK, DrainOK, BootPlaceOK, BeingStopped, InCache
<1>2. CASE Next
  <2>1. ASSUME NEW t \in Thread, ThreadStep(t) PROVE SleepInv'
    BY <2>1, SleepLife, SleepEnters, SleepEnds, SleepJoin, SleepJoinReturn,
       SleepStopCheck, SleepStopDo DEF ThreadStep
  <2> QED  BY <1>2, <2>1, SleepInterrupt, SleepWake, SleepLife, SleepGctNotify, SleepGct
           DEF Next, Interrupts, GctStep
<1> QED  BY <1>1, <1>2

\* Every state satisfies both invariants.
THEOREM WaitingIsKnown == Spec => []SleepInv
<1>1. Init => SleepInv
  BY SleepInit
<1>2. IInv /\ SleepInv /\ [Next]_vars => SleepInv'
  BY SleepStep
<1> QED  BY <1>1, <1>2, Invariance, PTL DEF Spec

\* A thread that is blocked is still known to the timer or the thread it joins, or is
\* about to be stopped, whatever interrupts come inside sleep_until() and whoever is
\* stopped meanwhile; and only threads that will be announced are joined.
THEOREM WakeupsArrive == Spec => []NoLostWakeup
<1>1. IInv /\ SleepInv => NoLostWakeup
  <2> SUFFICES ASSUME IInv, SleepInv PROVE NoLostWakeup
    OBVIOUS
  <2>1. ASSUME NEW t \in Thread \ {Bootstrap}, sched.state[t] = "BLOCKED"
        PROVE  \/ t \in sleepers
               \/ \E u \in Thread : t \in Elems(joiners[u])
               \/ BeingStopped(t)
    <3>1. t \in Blocked(sched) \ {Bootstrap}
      BY <2>1 DEF Blocked, InState
    <3> QED  BY <3>1 DEF SleepInv, BlockedOK, JoinedOK
  <2> QED  BY <2>1 DEF NoLostWakeup, SleepInv, JoinersOK
<1> QED  BY <1>1, Invariance, WaitingIsKnown, PTL

\* sleep_until() and sync_with_thread_stop() return only once the thread was woken:
\* the timer has let it go, or the thread it joined is freed.
THEOREM ReturnsInTime == Spec => []NoEarlyReturn
<1>1. IInv /\ SleepInv => NoEarlyReturn
  <2> SUFFICES ASSUME IInv, SleepInv, sched.running \in Thread
               PROVE  LET t == sched.running IN
                      /\ pc[t] = "awake" => t \notin sleepers
                      /\ pc[t] = "joined" => /\ t \notin Elems(joiners[arg[t]])
                                            /\ collected[arg[t]] > 0
    BY DEF NoEarlyReturn
  <2> DEFINE t == sched.running
  <2>1. t \notin Blocked(sched) /\ t \notin Stopped(sched)
    BY RunningIsAwake DEF IInv, TypeOK, SchedulerConsistent
  <2>2. pc[Gct] # "drain"
    BY ThreadAssumption DEF SleepInv, DrainOK
  <2>3. pc[t] \in {"awake", "joined"} => t \notin Pending(sched)
    BY DEF SleepInv, PendingOK, BootPlaceOK
  <2> QED  BY <2>1, <2>2, <2>3 DEF SleepInv, SleepersOK, JoinersOK, JoinedOK
<1> QED  BY <1>1, Invariance, WaitingIsKnown, PTL

\* Every step that moves the CPU moves it to the GCT while stopped threads wait to be
\* freed, and otherwise to the first thread of the most urgent level, and the threads
\* of a level stay in the order in which they were queued.
THEOREM SwitchesInTurn == Spec => GctFirstThenPriority
<1>1. IInv /\ [Next]_vars => [InTurn(sched, sched')]_vars
  <2> SUFFICES ASSUME IInv, Next PROVE InTurn(sched, sched')
    OBVIOUS
  <2>1. sched \in Sched /\ Consistent(sched, Removed)
    BY DEF IInv, TypeOK, SchedulerConsistent
  <2>2. InTurn(sched, sched)
    BY QuietInTurn
  <2>3. ASSUME NEW t, sched' = Unblock(sched, t) PROVE InTurn(sched, sched')
    BY <2>1, <2>3, UnblockInTurn
  <2>4. ASSUME NEW t, sched' = Schedule(sched, t) PROVE InTurn(sched, sched')
    BY <2>1, <2>4, ScheduleInTurn
  <2>5. ASSUME sched' = MarkAsBlockPending(sched) PROVE InTurn(sched, sched')
    BY <2>1, <2>5, QuietInTurn DEF MarkAsBlockPending, Sched
  <2>6. CASE Interrupts
    BY <2>1, <2>2, <2>3, <2>6, PreemptInTurn DEF Interrupts, TimerIrq, TimerWake, TimerDone, IrqReturn, Iret
  <2>7. CASE Boot
    BY <2>1, <2>4, <2>5, <2>7, BlockInTurn DEF Boot, BootSchedule, BootMark, BootBlock, At, Executes, OnCpu
  <2>8. CASE (\E t \in AnyThread : ThreadEnter(t)) \/ IdleThread
    BY <2>2, <2>8 DEF ThreadEnter, IdleThread
  <2>9. CASE GctStep
    <3>1. ASSUME GctFree PROVE InTurn(sched, sched')
      BY <2>1, <3>1, QuietInTurn DEF GctFree, Sched
    <3> QED  BY <2>1, <2>2, <2>3, <2>5, <2>9, <3>1, BlockInTurn
             DEF GctStep, GctBegin, GctNotify, GctEnd, GctBlock, At, Executes, OnCpu
  <2>10. ASSUME NEW t \in Thread, ThreadStep(t) PROVE InTurn(sched, sched')
    <3>1. ASSUME Exit(t) \/ StopDo(t) PROVE InTurn(sched, sched')
      BY <2>1, <3>1, StopInTurn DEF Exit, StopDo, At, Executes, OnCpu, IInv, ArgOK
    <3>2. ASSUME NEW u, Join(t, u) PROVE InTurn(sched, sched')
      <4> DEFINE m == MarkAsBlockPending(sched)
      <4>1. sched.running = t /\ t # Idle /\ t # Gct
        BY <3>2, ThreadAssumption DEF Join, At, Executes, OnCpu
      <4>2. m \in Sched /\ Consistent(m, Removed) /\ m.running = t
        BY <2>1, <4>1, MarkOK DEF CallOK
      <4>3. sched' = Block(m, m.running)
        BY <3>2, <4>2 DEF Join
      <4> HIDE DEF m
      <4>4. InTurn(m, sched')
        BY <4>2, <4>3, BlockInTurn
      <4>5. m.running = sched.running /\ m.ready = sched.ready
        BY <2>1, <4>1, <4>2 DEF m, MarkAsBlockPending, Sched
      <4> QED  BY <4>4, <4>5 DEF InTurn
    <3>3. ASSUME NEW u, StopCheck(t, u) PROVE InTurn(sched, sched')
      <4>1. KeepsOrder(sched.ready, RemoveFrom(sched.ready, u))
        BY <2>1, RemoveFromRemoves, QueuedAreThreads DEF Consistent, QueueOK
      <4>2. /\ sched'.running = sched.running
            /\ sched'.ready = sched.ready \/ sched'.ready = RemoveFrom(sched.ready, u)
        BY <2>1, <3>3 DEF StopCheck, Sched
      <4> QED  BY <4>1, <4>2, SameOrder DEF InTurn
    <3>4. ASSUME SleepBlock(t) PROVE InTurn(sched, sched')
      BY <2>1, <3>4, BlockInTurn DEF SleepBlock, At, Executes, OnCpu
    <3>5. ASSUME SleepMark(t) \/ SleepEnqueue(t) \/ SleepSetHandle(t) \/ SleepReturn(t) \/ JoinReturn(t)
          PROVE  InTurn(sched, sched')
      BY <2>2, <2>5, <3>5 DEF SleepMark, SleepEnqueue, SleepSetHandle, SleepReturn, JoinReturn
    <3>6. ASSUME NEW u, Spawn(t, u) PROVE InTurn(sched, sched')
      BY <2>4, <3>6 DEF Spawn
    <3> QED  BY <2>10, <3>1, <3>2, <3>3, <3>4, <3>5, <3>6 DEF ThreadStep
  <2> QED  BY <2>6, <2>7, <2>8, <2>9, <2>10 DEF Next
<1> QED  BY <1>1, Invariance, PTL DEF Spec, GctFirstThenPriority
=============================================================================
