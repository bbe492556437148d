------------------------------- MODULE Mutex -------------------------------
(***************************************************************************)
(* CPU/Threading/Mutex.cpp on the core of module Core: lock(), try_lock()  *)
(* and unlock(), each cut where the timer may interrupt it.                *)
(*                                                                         *)
(* mpc[t] is where t is in the code of the mutex.                          *)
(*                                                                         *)
(*   out     in no function of the mutex                                   *)
(*   cas     in front of the compare and exchange of lock()                *)
(*   spin    the exchange failed, t waits for _wait_queue_lock             *)
(*   queue, mark, release    in the critical section of lock()             *)
(*   block   in front of block(), or inside it                             *)
(*   woken   back from block()                                             *)
(*   claim   the exchange succeeded, _owner is still to be set             *)
(*   uspin, pop              unlock(): waiting for and in the section      *)
(*   store   in front of the test of _owner that frees the mutex           *)
(*   wake    in front of unblock()                                         *)
(***************************************************************************)
EXTENDS Core

CONSTANT NoThread       \* a SharedPointer that is null

ASSUME NoThreadAssumption == NoThread \notin AnyThread

VARIABLES
    lock,       \* _lock
    owner,      \* _owner
    waitQueue,  \* _wait_queue
    queueLock,  \* _wait_queue_lock: the thread that holds the spinlock
    toWake,     \* thread_to_wake of a thread that is in unlock()
    mpc         \* where a thread is in the code of the mutex

mutex == <<lock, owner, waitQueue, queueLock, toWake, mpc>>
vars  == <<core, mutex>>

MutexLocation ==
    {"out", "cas", "spin", "queue", "mark", "release", "block", "woken", "claim",
     "uspin", "pop", "store", "wake"}

At(t, loc) == OnCpu(t) /\ mpc[t] = loc

GoTo(t, loc) == mpc' = [mpc EXCEPT ![t] = loc]

MutexInit ==
    /\ lock = 0
    /\ owner = NoThread
    /\ waitQueue = << >>
    /\ queueLock = NoThread
    /\ toWake = [t \in User |-> NoThread]
    /\ mpc = [t \in User |-> "out"]

Init == CoreInit /\ MutexInit

----------------------------------------------------------------------------
(***************************************************************************)
(* lock() and try_lock()                                                   *)
(***************************************************************************)
\* It is up to the caller not to lock a mutex it has locked already.
Lock(t) ==
    /\ At(t, "out") /\ MayCall(t)
    /\ owner # t
    /\ GoTo(t, "cas")
    /\ UNCHANGED <<core, lock, owner, waitQueue, queueLock, toWake>>

LockCas(t) ==
    /\ At(t, "cas")
    /\ lock' = 1
    /\ GoTo(t, IF lock = 0 THEN "claim" ELSE "spin")
    /\ UNCHANGED <<core, owner, waitQueue, queueLock, toWake>>

TryLock(t) ==
    /\ At(t, "out") /\ MayCall(t)
    /\ lock = 0
    /\ lock' = 1
    /\ GoTo(t, "claim")
    /\ UNCHANGED <<core, owner, waitQueue, queueLock, toWake>>

LockClaim(t) ==
    /\ At(t, "claim")
    /\ owner' = t
    /\ GoTo(t, "out")
    /\ UNCHANGED <<core, lock, waitQueue, queueLock, toWake>>

\* Spinlock::lock(): as long as the spinlock is taken the thread is busy waiting.
LockSpin(t) ==
    /\ At(t, "spin")
    /\ queueLock = NoThread
    /\ queueLock' = t
    /\ GoTo(t, "queue")
    /\ UNCHANGED <<core, lock, owner, waitQueue, toWake>>

\* Mutant: only one thread can wait.
LockQueueOnce(t) ==
    /\ At(t, "queue")
    /\ waitQueue' = IF waitQueue = << >> THEN << t >> ELSE waitQueue
    /\ GoTo(t, "mark")
    /\ UNCHANGED <<core, lock, owner, queueLock, toWake>>

LockQueue(t) ==
    /\ At(t, "queue")
    /\ waitQueue' = Append(waitQueue, t)
    /\ GoTo(t, "mark")
    /\ UNCHANGED <<core, lock, owner, queueLock, toWake>>

\* Mutant: the thread is not marked.
LockMarkForgotten(t) ==
    /\ At(t, "mark")
    /\ GoTo(t, "release")
    /\ UNCHANGED <<core, lock, owner, waitQueue, queueLock, toWake>>

LockMark(t) ==
    /\ At(t, "mark")
    /\ Call(MarkAsBlockPending(sched))
    /\ GoTo(t, "release")
    /\ UNCHANGED <<lock, owner, waitQueue, queueLock, toWake>>

LockRelease(t) ==
    /\ At(t, "release")
    /\ queueLock' = NoThread
    /\ GoTo(t, "block")
    /\ UNCHANGED <<core, lock, owner, waitQueue, toWake>>

LockBlock(t) ==
    /\ At(t, "block")
    /\ Call(Block(sched, t))
    /\ GoTo(t, "woken")
    /\ UNCHANGED <<lock, owner, waitQueue, queueLock, toWake>>

\* Mutant: the handoff goes unnoticed.
LockWokenCompetes(t) ==
    /\ At(t, "woken")
    /\ owner # NoThread
    /\ GoTo(t, "cas")
    /\ UNCHANGED <<core, lock, owner, waitQueue, queueLock, toWake>>

\* The fast handoff, or one more turn of the loop.  A null _owner is dereferenced.
LockWoken(t) ==
    /\ At(t, "woken")
    /\ owner # NoThread
    /\ GoTo(t, IF owner = t THEN "out" ELSE "cas")
    /\ UNCHANGED <<core, lock, owner, waitQueue, queueLock, toWake>>

----------------------------------------------------------------------------
(***************************************************************************)
(* unlock()                                                                *)
(***************************************************************************)
\* Nothing happens unless the caller is the owner.
Unlock(t) ==
    /\ At(t, "out") /\ MayCall(t)
    /\ owner = t
    /\ GoTo(t, "uspin")
    /\ UNCHANGED <<core, lock, owner, waitQueue, queueLock, toWake>>

UnlockSpin(t) ==
    /\ At(t, "uspin")
    /\ queueLock = NoThread
    /\ queueLock' = t
    /\ GoTo(t, "pop")
    /\ UNCHANGED <<core, lock, owner, waitQueue, toWake>>

\* The critical section of unlock(), up to its end.
UnlockPop(t) ==
    /\ At(t, "pop")
    /\ LET next == IF waitQueue = << >> THEN NoThread ELSE Head(waitQueue) IN
       /\ owner' = next
       /\ toWake' = [toWake EXCEPT ![t] = next]
    /\ waitQueue' = IF waitQueue = << >> THEN << >> ELSE Tail(waitQueue)
    /\ queueLock' = NoThread
    /\ GoTo(t, "store")
    /\ UNCHANGED <<core, lock>>

\* Mutant: _lock is decremented.
UnlockStoreDecrements(t) ==
    /\ At(t, "store")
    /\ lock' = lock - 1
    /\ GoTo(t, "wake")
    /\ UNCHANGED <<core, owner, waitQueue, queueLock, toWake>>

\* Mutant: the mutex is freed although it has been handed over.
UnlockStoreAlways(t) ==
    /\ At(t, "store")
    /\ lock' = 0
    /\ GoTo(t, "wake")
    /\ UNCHANGED <<core, owner, waitQueue, queueLock, toWake>>

\* _owner is read again, outside of the critical section.
UnlockStore(t) ==
    /\ At(t, "store")
    /\ lock' = IF owner = NoThread THEN 0 ELSE lock
    /\ GoTo(t, "wake")
    /\ UNCHANGED <<core, owner, waitQueue, queueLock, toWake>>

UnlockWake(t) ==
    /\ At(t, "wake")
    /\ Call(IF toWake[t] = NoThread THEN sched ELSE Unblock(sched, toWake[t]))
    /\ toWake' = [toWake EXCEPT ![t] = NoThread]
    /\ GoTo(t, "out")
    /\ UNCHANGED <<lock, owner, waitQueue, queueLock>>

\* The caller goes on in user mode.
ReturnToUser(t) == mpc[t] = "out" /\ Sysret(t) /\ UNCHANGED mutex

----------------------------------------------------------------------------
LockStep(t) ==
    \/ LockCas(t) \/ LockClaim(t) \/ LockSpin(t) \/ LockQueue(t) \/ LockMark(t)
    \/ LockRelease(t) \/ LockBlock(t) \/ LockWoken(t)

UnlockStep(t) == UnlockSpin(t) \/ UnlockPop(t) \/ UnlockStore(t) \/ UnlockWake(t)

Next ==
    \/ CoreNext /\ UNCHANGED mutex
    \/ \E t \in User : ReturnToUser(t)
    \/ \E t \in User : Lock(t) \/ TryLock(t) \/ Unlock(t) \/ LockStep(t) \/ UnlockStep(t)

Spec == Init /\ [][Next]_vars

\* The CPU executes the code of the mutex, ticks leave it time to do so, and a
\* tick that ends a quantum comes again and again while interrupts are on.  When
\* a thread calls the mutex is its own affair.
Fairness ==
    /\ SF_vars(Tick /\ UNCHANGED mutex)
    /\ WF_vars((\E t \in AnyThread : Iret(t)) /\ UNCHANGED mutex)
    /\ \A t \in User : SF_vars(frames[t] = 1 /\ Iret(t) /\ UNCHANGED mutex)
    /\ SF_vars(IdleLoop /\ UNCHANGED mutex)
    /\ \A t \in User : SF_vars(LockStep(t) \/ UnlockStep(t) \/ ReturnToUser(t))

FairSpec == Spec /\ Fairness

----------------------------------------------------------------------------
(***************************************************************************)
(* Properties                                                              *)
(***************************************************************************)
\* The types of the variables.
MutexTypeOK ==
    /\ CoreTypeOK
    /\ lock \in {0, 1}
    /\ owner \in User \cup {NoThread}
    /\ waitQueue \in Seq(User)
    /\ queueLock \in User \cup {NoThread}
    /\ toWake \in [User -> User \cup {NoThread}]
    /\ mpc \in [User -> MutexLocation]

\* t holds the mutex: from the successful exchange, or the handoff, to the end of
\* the critical section of unlock().
Holds(t) == owner = t \/ mpc[t] = "claim"

\* At most one thread holds the mutex, _lock is set as long as one does, and only
\* the holder is in unlock(), although _owner is read and written outside of any
\* critical section (lock, try_lock, unlock).
MutualExclusion ==
    /\ \A t, u \in User : Holds(t) /\ Holds(u) => t = u
    /\ \A t \in User : Holds(t) => lock = 1
    /\ \A t \in User : mpc[t] \in {"uspin", "pop"} => Holds(t)

\* A thread that is back from block() has been handed the mutex: _owner is not
\* null when lock() dereferences it, and the thread need not compete again.
HandoffIsComplete ==
    \A t \in User : At(t, "woken") => owner = t

\* No waiter is forgotten: a blocked thread is in the wait queue, once, or is
\* the thread that some unlock() is about to unblock.
NoForgottenWaiter ==
    /\ \A i, j \in DOMAIN waitQueue : waitQueue[i] = waitQueue[j] => i = j
    /\ \A t \in User : sched.state[t] = "BLOCKED" =>
          t \in Elems(waitQueue) \/ \E u \in User : toWake[u] = t

\* The thread unlock() has chosen gets out of lock() with the mutex, and no owner is
\* stuck in unlock(), provided interrupts keep being switched on.
HandoffArrives ==
    []<>irqOn => \A t \in User : []<>(owner = t => mpc[t] = "out")

----------------------------------------------------------------------------
(***************************************************************************)
(* A statement of the documentation that the code does not keep            *)
(***************************************************************************)
\* "await_block()/block() mechanic solves the lost wakeup problem": while a thread
\* is blocked on the mutex, the mutex is locked or the thread about to be woken
\* (Mutex.cpp, lock).
NoLostWakeup ==
    \A t \in User : sched.state[t] = "BLOCKED" =>
        lock = 1 \/ \E u \in User : toWake[u] = t
=============================================================================
