-------------------------------- MODULE Cpu --------------------------------
(***************************************************************************)
(* The only core of the machine: the scheduler, the interrupt flag and the *)
(* timer interrupts on the stacks of the threads.  Threading and, through  *)
(* Core, the modules that model a lock extend this one.                    *)
(*                                                                         *)
(* The interrupt flag: a call of the scheduler leaves the flag of the CPU  *)
(* as it was, so a thread that is resumed by the timer inside block() goes *)
(* on with interrupts off, while iretq and the idle thread switch them on. *)
(***************************************************************************)
EXTENDS Scheduler, FiniteSets

CONSTANT MaxNest    \* bound: timer interrupts on top of each other on one stack

ASSUME MaxNestAssumption == MaxNest \in Nat \ {0}

VARIABLES
    sched,      \* the scheduler
    irqOn,      \* the interrupt flag of the CPU
    frames      \* the number of timer interrupts on the stack of a thread

core == <<sched, irqOn, frames>>

CoreTypeOK ==
    /\ sched \in Sched
    /\ irqOn \in BOOLEAN
    /\ frames \in [AnyThread -> 0 .. MaxNest]

\* The threads the scheduler accepts once the bootstrap thread is parked.
Schedulable == {t \in Thread \ {Bootstrap} : CanEnqueue(t)}

\* The ready queues that hold just these threads, in some order.
ReadyQueues(threads) ==
    {q \in [Level -> UNION {[1 .. n -> threads] : n \in 0 .. Cardinality(threads)}] :
        LevelsOK(q) /\ Queued(q) = threads}

\* The bootstrap thread is parked, first has been started and has scheduled the
\* other threads in some order.
StartWith(threads, first) ==
    /\ \E ready \in ReadyQueues(threads \ {first}) :
          sched = [running |-> first,
                   state   |-> [t \in AnyThread |-> IF t = first THEN "RUNNING"
                                                   ELSE IF t \in threads THEN "CREATED"
                                                   ELSE "BLOCKED"],
                   ready   |-> ready,
                   bin     |-> << >>]
    /\ irqOn = TRUE
    /\ frames = [t \in AnyThread |-> 0]

\* t is executing its own code.
OnCpu(t) == sched.running = t /\ frames[t] = 0

\* A tick that ends the quantum: the whole PIT handler up to the context switch,
\* or to iretq if there is none to make.
Tick ==
    /\ irqOn
    /\ frames[sched.running] < MaxNest
    /\ sched' = PreemptRunningThread(sched)
    /\ sched'.running # sched.running
    /\ frames' = [frames EXCEPT ![sched.running] = @ + 1]
    /\ irqOn' = FALSE

\* iretq of a thread that was preempted by a tick.
Iret(t) ==
    /\ sched.running = t
    /\ frames[t] > 0
    /\ frames' = [frames EXCEPT ![t] = @ - 1]
    /\ irqOn' = TRUE
    /\ UNCHANGED sched

\* The loop of the idle thread.
IdleLoop ==
    /\ OnCpu(Idle)
    /\ ~irqOn
    /\ irqOn' = TRUE
    /\ UNCHANGED <<sched, frames>>

CoreNext == Tick \/ (\E t \in AnyThread : Iret(t)) \/ IdleLoop

\* A call of the scheduler.
Call(result) == sched' = result /\ UNCHANGED <<irqOn, frames>>
=============================================================================
