------------------------------- MODULE Core --------------------------------
(***************************************************************************)
(* The core as the code of a lock sees it: threads that run kernel code    *)
(* under the scheduler, from kernel mode or through system calls, while    *)
(* the tick of the timer may take the CPU away between any two steps.      *)
(* Modules that model a lock extend this one and add the steps of its      *)
(* functions.                                                              *)
(***************************************************************************)
EXTENDS Cpu

CONSTANTS
    User,       \* the threads that use the lock
    UserMode,   \* those of them that call it from user mode
    First       \* the one that is running in the beginning

ASSUME UserAssumption ==
    /\ User \subseteq Schedulable
    /\ IsFiniteSet(User)
    /\ First \in User
    /\ UserMode \subseteq User

CoreInit == StartWith(User, First)

\* t may call the lock: from user mode that is with interrupts on, as the entry of
\* a system call switches them on again.
MayCall(t) == OnCpu(t) /\ (t \in UserMode => irqOn)

\* sysret into user mode.
Sysret(t) ==
    /\ OnCpu(t)
    /\ t \in UserMode
    /\ ~irqOn
    /\ irqOn' = TRUE
    /\ UNCHANGED <<sched, frames>>
=============================================================================
