----------------------------- MODULE Semaphore -----------------------------
(***************************************************************************)
(* CPU/Threading/Semaphore.cpp on the core of module Core: lock(),         *)
(* try_lock() and unlock(), each cut where the timer may interrupt it.     *)
(*                                                                         *)
(* spc[t] is where t is in the code of the semaphore.                      *)
(*                                                                         *)
(*   out     in no function of the semaphore                               *)
(*   acquire lock() waits for the spinlock                                 *)
(*   test    in front of the test of the loop                              *)
(*   mark, release   t is in the wait queue                                *)
(*   block   in front of block(), or inside it                             *)
(*   reacquire       back from block(), waiting for the spinlock again     *)
(*   tacquire, ttest         try_lock()                                    *)
(*   uacquire, give, wake    unlock()                                      *)
(*   leave   at the end of a critical section                              *)
(***************************************************************************)
EXTENDS Core

CONSTANTS
    UnitMax,    \* _unit_max
    UnitStart,  \* counter_start
    NoThread

ASSUME UnitAssumption == UnitMax \in Nat \ {0} /\ UnitStart \in 0 .. UnitMax

ASSUME NoThreadAssumption == NoThread \notin AnyThread

VARIABLES
    units,      \* _units
    waitQueue,  \* _wait_queue
    spinlock,   \* _lock: the thread that holds the spinlock
    toWake,     \* thread_to_wake of a thread that is in unlock()
    spc         \* where a thread is in the code of the semaphore

semaphore == <<units, waitQueue, spinlock, toWake, spc>>
vars      == <<core, semaphore>>

SemaphoreLocation ==
    {"out", "acquire", "test", "mark", "release", "block", "reacquire",
     "tacquire", "ttest", "uacquire", "give", "wake", "leave"}

At(t, loc) == OnCpu(t) /\ spc[t] = loc

GoTo(t, loc) == spc' = [spc EXCEPT ![t] = loc]

Init ==
    /\ CoreInit
    /\ units = UnitStart
    /\ waitQueue = << >>
    /\ spinlock = NoThread
    /\ toWake = [t \in User |-> NoThread]
    /\ spc = [t \in User |-> "out"]

----------------------------------------------------------------------------
\* The call of a function.
Begin(t, loc) ==
    /\ At(t, "out") /\ MayCall(t)
    /\ GoTo(t, loc)
    /\ UNCHANGED <<core, units, waitQueue, spinlock, toWake>>

Lock(t)    == Begin(t, "acquire")
TryLock(t) == Begin(t, "tacquire")
Unlock(t)  == Begin(t, "uacquire")

\* Spinlock::lock(): as long as the spinlock is taken the thread is busy waiting.
Acquire(t) ==
    /\ \/ At(t, "acquire") /\ GoTo(t, "test")
       \/ At(t, "reacquire") /\ GoTo(t, "test")
       \/ At(t, "tacquire") /\ GoTo(t, "ttest")
       \/ At(t, "uacquire") /\ GoTo(t, "give")
    /\ spinlock = NoThread
    /\ spinlock' = t
    /\ UNCHANGED <<core, units, waitQueue, toWake>>

\* The end of a critical section.
Leave(t) ==
    /\ At(t, "leave")
    /\ spinlock' = NoThread
    /\ GoTo(t, "out")
    /\ UNCHANGED <<core, units, waitQueue, toWake>>

(***************************************************************************)
(* lock() and try_lock()                                                   *)
(***************************************************************************)
TakeUnit(t) ==
    /\ units' = units - 1
    /\ GoTo(t, "leave")

\* Mutant: the loop ends one unit too late.
TestOffByOne(t) ==
    /\ At(t, "test")
    /\ \/ units >= 0 /\ TakeUnit(t) /\ UNCHANGED waitQueue
       \/ /\ units < 0
          /\ waitQueue' = Append(waitQueue, t)
          /\ GoTo(t, "mark")
          /\ UNCHANGED units
    /\ UNCHANGED <<core, spinlock, toWake>>

Test(t) ==
    /\ At(t, "test")
    /\ \/ units > 0 /\ TakeUnit(t) /\ UNCHANGED waitQueue
       \/ /\ units <= 0
          /\ waitQueue' = Append(waitQueue, t)
          /\ GoTo(t, "mark")
          /\ UNCHANGED units
    /\ UNCHANGED <<core, spinlock, toWake>>

Mark(t) ==
    /\ At(t, "mark")
    /\ Call(MarkAsBlockPending(sched))
    /\ GoTo(t, "release")
    /\ UNCHANGED <<units, waitQueue, spinlock, toWake>>

Release(t) ==
    /\ At(t, "release")
    /\ spinlock' = NoThread
    /\ GoTo(t, "block")
    /\ UNCHANGED <<core, units, waitQueue, toWake>>

BlockThread(t) ==
    /\ At(t, "block")
    /\ Call(Block(sched, t))
    /\ GoTo(t, "reacquire")
    /\ UNCHANGED <<units, waitQueue, spinlock, toWake>>

TryTest(t) ==
    /\ At(t, "ttest")
    /\ \/ units > 0 /\ TakeUnit(t)
       \/ units <= 0 /\ GoTo(t, "leave") /\ UNCHANGED units
    /\ UNCHANGED <<core, waitQueue, spinlock, toWake>>

(***************************************************************************)
(* unlock()                                                                *)
(***************************************************************************)
\* Mutant: only the first unit wakes a thread.
GiveWakesOnZero(t) ==
    /\ At(t, "give")
    /\ \/ units >= UnitMax /\ GoTo(t, "leave") /\ UNCHANGED <<units, waitQueue, toWake>>
       \/ /\ units < UnitMax
          /\ units' = units + 1
          /\ LET wakes == units = 0 /\ waitQueue # << >> IN
             /\ waitQueue' = IF wakes THEN Tail(waitQueue) ELSE waitQueue
             /\ toWake' = [toWake EXCEPT ![t] = IF wakes THEN Head(waitQueue) ELSE NoThread]
          /\ GoTo(t, "wake")
    /\ UNCHANGED <<core, spinlock>>

Give(t) ==
    /\ At(t, "give")
    /\ \/ units >= UnitMax /\ GoTo(t, "leave") /\ UNCHANGED <<units, waitQueue, toWake>>
       \/ /\ units < UnitMax
          /\ units' = units + 1
          /\ waitQueue' = IF waitQueue = << >> THEN << >> ELSE Tail(waitQueue)
          /\ toWake' = [toWake EXCEPT ![t] = IF waitQueue = << >> THEN NoThread
                                             ELSE Head(waitQueue)]
          /\ GoTo(t, "wake")
    /\ UNCHANGED <<core, spinlock>>

\* Mutant: nobody is unblocked.
WakeForgotten(t) ==
    /\ At(t, "wake")
    /\ toWake' = [toWake EXCEPT ![t] = NoThread]
    /\ GoTo(t, "leave")
    /\ UNCHANGED <<core, units, waitQueue, spinlock>>

Wake(t) ==
    /\ At(t, "wake")
    /\ Call(IF toWake[t] = NoThread THEN sched ELSE Unblock(sched, toWake[t]))
    /\ toWake' = [toWake EXCEPT ![t] = NoThread]
    /\ GoTo(t, "leave")
    /\ UNCHANGED <<units, waitQueue, spinlock>>

\* The caller goes on in user mode.
ReturnToUser(t) == spc[t] = "out" /\ Sysret(t) /\ UNCHANGED semaphore

----------------------------------------------------------------------------
FunctionStep(t) ==
    \/ Acquire(t) \/ Leave(t) \/ Test(t) \/ Mark(t) \/ Release(t) \/ BlockThread(t)
    \/ TryTest(t) \/ Give(t) \/ Wake(t)

Next ==
    \/ CoreNext /\ UNCHANGED semaphore
    \/ \E t \in User : ReturnToUser(t) \/ Lock(t) \/ TryLock(t) \/ Unlock(t) \/ FunctionStep(t)

Spec == Init /\ [][Next]_vars

----------------------------------------------------------------------------
(***************************************************************************)
(* Properties                                                              *)
(***************************************************************************)
\* The types of the variables.  The units stay within 0 and the maximum.
SemaphoreTypeOK ==
    /\ CoreTypeOK
    /\ units \in 0 .. UnitMax
    /\ waitQueue \in Seq(User)
    /\ spinlock \in User \cup {NoThread}
    /\ toWake \in [User -> User \cup {NoThread}]
    /\ spc \in [User -> SemaphoreLocation]

\* The threads that were taken from the wait queue and have not tested again, and
\* the one that is testing.
InFlight ==
    {t \in User : spc[t] \in {"block", "reacquire", "test"} /\ t \notin Elems(waitQueue)}

\* No lost wake up: while a thread is left in the wait queue, every unit that is
\* there has a thread on its way to it, so no thread waits for a unit that nobody
\* is going to take (the loop of lock(), and unlock(), which wakes one thread).
NoStrandedWaiter == waitQueue # << >> => units <= Cardinality(InFlight)

\* A blocked thread is in the wait queue, or some unlock() is about to unblock it.
NoForgottenWaiter ==
    \A t \in User : sched.state[t] = "BLOCKED" =>
        t \in Elems(waitQueue) \/ \E u \in User : toWake[u] = t

=============================================================================
