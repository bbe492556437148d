----------------------------- MODULE Threading -----------------------------
(***************************************************************************)
(* The life of the threads of the kernel on its only core: the threads     *)
(* that run the scheduler (thread_enter, thread_exit, the idle thread, the *)
(* garbage collector thread, create, stop and join of CPUModule.cpp), the  *)
(* sleep function and the interrupt handler of the PIT (Time/PIT.cpp), and *)
(* the interrupts that may come between any two of their steps.            *)
(*                                                                         *)
(* Every action is a stretch of code that no interrupt can divide: one     *)
(* call of the scheduler, one store, or a section with interrupts off.     *)
(* A thread takes steps only while it is the running thread and no         *)
(* interrupt handler is on top of its stack.                               *)
(*                                                                         *)
(* Interrupt flag.  Scheduler::m_lock keeps the flags saved by lock() in   *)
(* one member, so unlock() after a context switch gives the next thread    *)
(* the flag of the previous one.  A call of the scheduler thus leaves the  *)
(* flag of the CPU, irqOn, as it was.  An interrupt gate clears it, iretq  *)
(* and sysret set it.                                                      *)
(***************************************************************************)
EXTENDS Cpu

CONSTANTS
    BootThread, \* the thread boot_phase2() schedules to run boot_phase3()
    UserThread, \* the threads whose main runs in user mode
    MaySpawn, MaySleep, MayJoin, MayStop, \* the threads that call that service
    NoThread    \* no thread

ASSUME RoleAssumption ==
    /\ BootThread \in Thread \ {Bootstrap}
    /\ UserThread \subseteq Thread \ {Bootstrap}
    /\ MaySpawn \cup MaySleep \cup MayJoin \cup MayStop \subseteq Thread \ {Bootstrap}
    /\ NoThread \notin AnyThread

VARIABLES
    handler,     \* where the PIT handler is: "none", or in its wake up loop
                 \* with do_preempt false ("wake") or true ("preempt")
    pc,          \* where a thread is in its code
    arg,         \* the thread a call of stop or join is about
    sleepers,    \* the threads in the DeltaQueue of the PIT
    timerHandle, \* Thread::timer_handle > 0
    joiners,     \* _on_stop_syncing_threads
    savedIrq,    \* the flags kept in CPUModule::m_lock
    collected    \* how often the GCT has freed a thread

cpu    == <<irqOn, frames, handler>>
timer  == <<sleepers, timerHandle>>
module == <<joiners, savedIrq, collected>>
vars   == <<sched, cpu, pc, arg, timer, module>>

Location ==
    {"boot", "bootMark", "bootBlock", "parked",         \* boot_phase2
     "none", "enter", "run", "dead",                    \* any other thread
     "marked", "enqueued", "armed", "awake",            \* sleep_until
     "joined", "stopping",                              \* join and stop
     "loop", "drain", "block"}                          \* idle thread and GCT

\* t is executing its own code, and no handler does.
Executes(t) == OnCpu(t) /\ handler = "none"

At(t, loc) == Executes(t) /\ pc[t] = loc

GoTo(t, loc) == pc' = [pc EXCEPT ![t] = loc]

\* The thread has been scheduled and its entry is in g_thread_cache.
InCache(t) == pc[t] # "none" /\ collected[t] = 0

Init ==
    /\ sched = InitScheduler
    /\ irqOn = TRUE
    /\ frames = [t \in AnyThread |-> 0]
    /\ handler = "none"
    /\ pc = [t \in AnyThread |-> IF t = Bootstrap THEN "boot"
                                 ELSE IF t \in {Idle, Gct} THEN "enter"
                                 ELSE "none"]
    /\ arg = [t \in Thread |-> NoThread]
    /\ sleepers = {}
    /\ timerHandle = [t \in Thread |-> FALSE]
    /\ joiners = [t \in Thread |-> << >>]
    /\ savedIrq = FALSE
    /\ collected = [t \in Thread |-> 0]

----------------------------------------------------------------------------
(***************************************************************************)
(* The timer interrupt.  Interrupts stay off until the handler is done, so *)
(* no thread takes a step meanwhile.                                       *)
(***************************************************************************)
TimerIrq ==
    /\ irqOn
    /\ handler = "none"
    /\ frames[sched.running] < MaxNest
    /\ frames' = [frames EXCEPT ![sched.running] = @ + 1]
    /\ irqOn' = FALSE
    /\ handler' = "wake"
    /\ UNCHANGED <<sched, pc, arg, timer, module>>

\* One turn of the wake up loop: a thread whose time has come.  The handler
\* preempts the running thread if the woken one is first in the ready queue.
TimerWake(t) ==
    /\ handler # "none"
    /\ t \in sleepers
    /\ sleepers' = sleepers \ {t}
    /\ timerHandle' = [timerHandle EXCEPT ![t] = FALSE]
    /\ sched' = Unblock(sched, t)
    /\ handler' = IF ~IsEmpty(sched'.ready) /\ Peek(sched'.ready) = t
                  THEN "preempt" ELSE handler
    /\ UNCHANGED <<irqOn, frames, pc, arg, module>>

\* The end of the handler.
TimerDone(quantumExpired) ==
    /\ handler # "none"
    /\ handler' = "none"
    /\ sched' = IF handler = "preempt" \/ quantumExpired
                THEN PreemptRunningThread(sched) ELSE sched
    /\ UNCHANGED <<irqOn, frames, pc, arg, timer, module>>

\* The return from the interrupt, at once or when the thread that was preempted
\* by it runs again.
IrqReturn(t) ==
    /\ handler = "none"
    /\ Iret(t)
    /\ UNCHANGED <<handler, pc, arg, timer, module>>

----------------------------------------------------------------------------
(***************************************************************************)
(* System::boot_phase2(), on the bootstrap thread                          *)
(***************************************************************************)
BootSchedule ==
    /\ At(Bootstrap, "boot")
    /\ sched' = Schedule(sched, BootThread)
    /\ pc' = [pc EXCEPT ![Bootstrap] = "bootMark", ![BootThread] = "enter"]
    /\ UNCHANGED <<cpu, arg, timer, module>>

BootMark ==
    /\ At(Bootstrap, "bootMark")
    /\ sched' = MarkAsBlockPending(sched)
    /\ GoTo(Bootstrap, "bootBlock")
    /\ UNCHANGED <<cpu, arg, timer, module>>

BootBlock ==
    /\ At(Bootstrap, "bootBlock")
    /\ sched' = Block(sched, Bootstrap)
    /\ GoTo(Bootstrap, "parked")
    /\ UNCHANGED <<cpu, arg, timer, module>>

----------------------------------------------------------------------------
(***************************************************************************)
(* Life of a thread                                                        *)
(***************************************************************************)
\* thread_enter(): unlock() of the scheduler restores the flag of whoever called
\* lock() last, the first sysret into user mode sets it.
ThreadEnter(t) ==
    /\ At(t, "enter")
    /\ GoTo(t, IF t \in Thread THEN "run" ELSE "loop")
    /\ irqOn' = (irqOn \/ t \in UserThread)
    /\ UNCHANGED <<sched, frames, handler, arg, timer, module>>

\* The code that follows a service: back in user mode the flag is set.
Resume(t) == GoTo(t, "run") /\ irqOn' = (irqOn \/ t \in UserThread)

\* schedule_new_thread()
Spawn(t, u) ==
    /\ At(t, "run")
    /\ t \in MaySpawn
    /\ pc[u] = "none"
    /\ sched' = Schedule(sched, u)
    /\ pc' = [pc EXCEPT ![u] = IF CanEnqueue(u) THEN "enter" ELSE "none"]
    /\ UNCHANGED <<cpu, arg, timer, module>>

\* thread_exit()
Exit(t) ==
    /\ At(t, "run")
    /\ sched' = Stop(sched, t)
    /\ GoTo(t, "dead")
    /\ UNCHANGED <<cpu, arg, timer, module>>

----------------------------------------------------------------------------
(***************************************************************************)
(* PIT::sleep_until() with a wake time in the future.  An interrupt may    *)
(* come between any two of its steps.                                      *)
(***************************************************************************)
SleepMark(t) ==
    /\ At(t, "run")
    /\ t \in MaySleep
    /\ sched' = MarkAsBlockPending(sched)
    /\ GoTo(t, "marked")
    /\ UNCHANGED <<cpu, arg, timer, module>>

SleepEnqueue(t) ==
    /\ At(t, "marked")
    /\ sleepers' = sleepers \cup {t}
    /\ GoTo(t, "enqueued")
    /\ UNCHANGED <<sched, cpu, arg, timerHandle, module>>

SleepSetHandle(t) ==
    /\ At(t, "enqueued")
    /\ timerHandle' = [timerHandle EXCEPT ![t] = TRUE]
    /\ GoTo(t, "armed")
    /\ UNCHANGED <<sched, cpu, arg, sleepers, module>>

SleepBlock(t) ==
    /\ At(t, "armed")
    /\ sched' = Block(sched, t)
    /\ GoTo(t, "awake")
    /\ UNCHANGED <<cpu, arg, timer, module>>

SleepReturn(t) ==
    /\ At(t, "awake")
    /\ Resume(t)
    /\ UNCHANGED <<sched, frames, handler, arg, timer, module>>

----------------------------------------------------------------------------
(***************************************************************************)
(* CPUModule::sync_with_thread_stop(): up to the context switch in block() *)
(* the interrupts are off, and so they are for the next thread.            *)
(***************************************************************************)
Join(t, u) ==
    /\ At(t, "run")
    /\ t \in MayJoin
    /\ InCache(u)
    /\ joiners' = [joiners EXCEPT ![u] = Append(@, t)]
    /\ sched' = Block(MarkAsBlockPending(sched), t)
    /\ savedIrq' = irqOn
    /\ irqOn' = FALSE
    /\ arg' = [arg EXCEPT ![t] = u]
    /\ GoTo(t, "joined")
    /\ UNCHANGED <<frames, handler, timer, collected>>

\* The end of the critical section: the flag kept by the last lock() of m_lock.
JoinReturn(t) ==
    /\ At(t, "joined")
    /\ GoTo(t, "run")
    /\ arg' = [arg EXCEPT ![t] = NoThread]
    /\ irqOn' = (savedIrq \/ t \in UserThread)
    /\ UNCHANGED <<sched, frames, handler, timer, module>>

(***************************************************************************)
(* CPUModule::stop_thread(): the thread is taken from where it is with the *)
(* interrupts off, and stopped after they are on again.  mutex_handle is   *)
(* set nowhere, so that case of the code is never taken.                   *)
(***************************************************************************)
\* The cases of the switch that go on to stop the thread.
IsRemovable(u) ==
    LET st == sched.state[u] IN
    \/ st \in {"READY", "BLOCK_PENDING"} /\ u \in Queued(sched.ready)
    \/ st = "BLOCKED" /\ (timerHandle[u] => u \in sleepers)

StopCheck(t, u) ==
    /\ At(t, "run")
    /\ t \in MayStop
    /\ InCache(u)
    /\ savedIrq' = irqOn
    /\ IF IsRemovable(u)
       THEN /\ sched' = [sched EXCEPT !.ready = IF sched.state[u] = "BLOCKED"
                                                THEN @ ELSE RemoveFrom(@, u)]
            /\ sleepers' = IF sched.state[u] = "BLOCKED" /\ timerHandle[u]
                           THEN sleepers \ {u} ELSE sleepers
            /\ arg' = [arg EXCEPT ![t] = u]
            /\ GoTo(t, "stopping")
       ELSE UNCHANGED <<sched, sleepers, arg, pc>>
    /\ UNCHANGED <<cpu, timerHandle, joiners, collected>>

\* Mutant: the call does not return.
StopDoStays(t) ==
    /\ At(t, "stopping")
    /\ sched' = Stop(sched, arg[t])
    /\ arg' = [arg EXCEPT ![t] = NoThread]
    /\ UNCHANGED <<cpu, pc, timer, module>>

StopDo(t) ==
    /\ At(t, "stopping")
    /\ sched' = Stop(sched, arg[t])
    /\ arg' = [arg EXCEPT ![t] = NoThread]
    /\ GoTo(t, "run")
    /\ UNCHANGED <<cpu, timer, module>>

----------------------------------------------------------------------------
(***************************************************************************)
(* The idle thread and the garbage collector thread                        *)
(***************************************************************************)
IdleThread ==
    /\ At(Idle, "loop")
    /\ irqOn' = TRUE
    /\ UNCHANGED <<sched, frames, handler, pc, arg, timer, module>>

GctBegin ==
    /\ At(Gct, "loop")
    /\ irqOn' = FALSE
    /\ GoTo(Gct, "drain")
    /\ UNCHANGED <<sched, frames, handler, arg, timer, module>>

\* The thread the GCT is freeing is the head of the bin until it is done: no
\* interrupt comes in between and nothing below looks into the bin.
GctNotify ==
    /\ At(Gct, "drain")
    /\ sched.bin # << >>
    /\ LET u == Head(sched.bin) IN
       /\ joiners[u] # << >>
       /\ sched' = Unblock(sched, Head(joiners[u]))
       /\ joiners' = [joiners EXCEPT ![u] = Tail(@)]
    /\ UNCHANGED <<cpu, pc, arg, timer, savedIrq, collected>>

GctFree ==
    /\ At(Gct, "drain")
    /\ sched.bin # << >>
    /\ LET u == Head(sched.bin) IN
       /\ joiners[u] = << >>
       /\ sched' = [sched EXCEPT !.bin = Tail(@)]
       /\ collected' = [collected EXCEPT ![u] = @ + 1]
    /\ UNCHANGED <<cpu, pc, arg, timer, joiners, savedIrq>>

GctEnd ==
    /\ At(Gct, "drain")
    /\ sched.bin = << >>
    /\ sched' = MarkAsBlockPending(sched)
    /\ irqOn' = TRUE
    /\ GoTo(Gct, "block")
    /\ UNCHANGED <<frames, handler, arg, timer, module>>

GctBlock ==
    /\ At(Gct, "block")
    /\ sched' = Block(sched, Gct)
    /\ GoTo(Gct, "loop")
    /\ UNCHANGED <<cpu, arg, timer, module>>

----------------------------------------------------------------------------
Interrupts ==
    \/ TimerIrq
    \/ \E t \in Thread : TimerWake(t)
    \/ \E quantumExpired \in BOOLEAN : TimerDone(quantumExpired)
    \/ \E t \in AnyThread : IrqReturn(t)

Boot == BootSchedule \/ BootMark \/ BootBlock

ThreadStep(t) ==
    \/ \E u \in Thread : Spawn(t, u)
    \/ Exit(t)
    \/ SleepMark(t) \/ SleepEnqueue(t) \/ SleepSetHandle(t)
    \/ SleepBlock(t) \/ SleepReturn(t)
    \/ \E u \in Thread \ {Bootstrap, t} : Join(t, u) \/ StopCheck(t, u)
    \/ JoinReturn(t)
    \/ StopDo(t)

GctStep == GctBegin \/ GctNotify \/ GctFree \/ GctEnd \/ GctBlock

Next ==
    \/ Interrupts
    \/ Boot
    \/ \E t \in AnyThread : ThreadEnter(t)
    \/ \E t \in Thread : ThreadStep(t)
    \/ IdleThread
    \/ GctStep

Spec == Init /\ [][Next]_vars

\* The CPU executes the code of the running thread, ticks leave it time to do so,
\* and a tick that ends a quantum comes again and again while interrupts are on.
\* Nothing is assumed of when a thread calls a service.
SystemStep == Boot \/ (\E t \in AnyThread : ThreadEnter(t)) \/ IdleThread \/ GctStep

Fairness ==
    /\ SF_vars(TimerIrq)
    /\ SF_vars(TimerDone(TRUE))
    /\ SF_vars(\E t \in AnyThread : IrqReturn(t))
    /\ SF_vars(SystemStep)

FairSpec == Spec /\ Fairness

----------------------------------------------------------------------------
(***************************************************************************)
(* Properties                                                              *)
(***************************************************************************)
\* The types of the variables.
TypeOK ==
    /\ sched \in Sched
    /\ irqOn \in BOOLEAN
    /\ frames \in [AnyThread -> 0 .. MaxNest]
    /\ handler \in {"none", "wake", "preempt"}
    /\ pc \in [AnyThread -> Location]
    /\ arg \in [Thread -> Thread \cup {NoThread}]
    /\ sleepers \subseteq Thread
    /\ timerHandle \in [Thread -> BOOLEAN]
    /\ joiners \in [Thread -> Seq(Thread)]
    /\ savedIrq \in BOOLEAN
    /\ collected \in [Thread -> Nat]

\* stop_thread() has taken t from its queue but not stopped it yet.
BeingStopped(t) == \E u \in Thread : pc[u] = "stopping" /\ arg[u] = t

Removed == {t \in Thread : BeingStopped(t)}

\* The scheduler and the thread states agree at every moment an interrupt or a
\* thread can look at them: the ready queue holds no thread twice, every thread
\* on the level of its policy, never the running thread; a queued thread is one
\* that may run; a READY or preempted BLOCK_PENDING thread is queued unless
\* stop_thread() just took it out; only the running thread is RUNNING, and it is
\* RUNNING or BLOCK_PENDING, the bootstrap thread excepted; the threads in the
\* garbage bin are STOPPED (perform_context_switch, block, unblock, stop).
SchedulerConsistent == Consistent(sched, Removed)

\* A context switch never goes from a thread to itself: context_switch_ass would
\* load the stack pointer saved before the last switch.  It is looked at wherever
\* a timer interrupt can come.
NoSelfSwitch ==
    irqOn /\ ~StaysRunning(sched) => NextScheduledThread(sched) # sched.running

\* No lost wake up: a thread that is blocked is still known to whoever has to
\* unblock it, the timer or the thread it joins, or is about to be stopped; and a
\* thread is joined only as long as its end will be announced by the GCT.
NoLostWakeup ==
    /\ \A t \in Thread \ {Bootstrap} :
          sched.state[t] = "BLOCKED" =>
              \/ t \in sleepers
              \/ \E u \in Thread : t \in Elems(joiners[u])
              \/ BeingStopped(t)
    /\ \A u \in Thread : joiners[u] # << >> => InCache(u)

\* block() returns only after the thread was unblocked: a thread that is back from
\* sleep_until() is not in the queue of the timer any more, and one that is back
\* from sync_with_thread_stop() finds the joined thread stopped and freed.
NoEarlyReturn ==
    LET t == sched.running IN
    t \in Thread /\ frames[t] = 0 =>
        /\ pc[t] = "awake" => t \notin sleepers
        /\ pc[t] = "joined" => /\ t \notin Elems(joiners[arg[t]])
                              /\ collected[arg[t]] > 0

\* A stopped thread stays stopped and never runs again, whoever still tries to
\* wake it or to stop it a second time.
StopIsFinal ==
    [][\A t \in Thread : sched.state[t] = "STOPPED" =>
          sched'.state[t] = "STOPPED" /\ sched'.running # t]_vars

\* Every step serves the threads in turn.  If it gives the CPU to another thread
\* while stopped threads wait to be freed, that is the GCT; otherwise it is the
\* thread that has waited longest on the most urgent level, or Idle if none waits.
\* A thread that is queued gets behind those on its level, and none of them
\* overtakes another when one is resumed or stopped (next_scheduled_thread,
\* enqueue, dequeue, remove).
GctFirstThenPriority == [][InTurn(sched, sched')]_vars

\* As long as interrupts are switched on again and again, the end of every stopped
\* thread is announced: the GCT frees it and nobody is left joining it.
StopIsAnnounced ==
    []<>irqOn => \A t \in Thread :
        sched.state[t] = "STOPPED" ~> collected[t] > 0 /\ joiners[t] = << >>

----------------------------------------------------------------------------
(***************************************************************************)
(* A statement of the documentation that the code does not keep            *)
(***************************************************************************)
\* A thread that ends while stop_thread() is about to stop it is freed once, the
\* case the critical section of stop_thread() is there for (CPUModule.cpp).
CollectedOnce == \A t \in Thread : collected[t] <= 1
=============================================================================
