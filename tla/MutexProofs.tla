---------------------------- MODULE MutexProofs ----------------------------
(***************************************************************************)
(* Theorems about Mutex, for any number of threads and any policies.       *)
(*                                                                         *)
(* The mutex is always in one hand: it is free, or somebody has exchanged  *)
(* _lock and not set _owner yet, or there is an owner, or somebody is      *)
(* about to free it.  That unlock() may read _owner a second time outside  *)
(* of its critical section rests on the handoff: the next owner sleeps     *)
(* until the last step of unlock(), so the invariant has to say which      *)
(* threads sleep, and where.                                               *)
(***************************************************************************)
EXTENDS Mutex, SchedulerProofs

\* t is in the wait queue, or is the one some unlock() is going to wake.
Waiting(t) == t \in Elems(waitQueue) \/ \E u \in User : toWake[u] = t

\* t has taken the mutex but is not its owner yet, or not any more.
Between(t) == mpc[t] = "claim" \/ (mpc[t] = "store" /\ toWake[t] = NoThread)

\* The spinlock of the wait queue is held in the critical sections.
QueueLockOK ==
    \A t \in User : mpc[t] \in {"queue", "mark", "release", "pop"} <=> queueLock = t

\* Where the owner is, and who must be the owner.
OwnerOK ==
    /\ \A t \in User : owner = t => mpc[t] \in {"out", "block", "woken", "uspin", "pop"}
    /\ \A t \in User : mpc[t] \in {"uspin", "pop"} => owner = t
    /\ \A t \in User : mpc[t] \in {"block", "woken"} => owner = t \/ t \in Elems(waitQueue)

\* The mutex is in at most one hand.
BetweenOK ==
    /\ lock = 0 => owner = NoThread /\ \A t \in User : ~Between(t)
    /\ \A t \in User : Between(t) => owner = NoThread
    /\ \A t, u \in User : Between(t) /\ Between(u) => t = u

\* The wait queue holds the threads that are past "queue" and not yet chosen.
WaitQueueOK ==
    /\ \A i, j \in DOMAIN waitQueue : waitQueue[i] = waitQueue[j] => i = j
    /\ \A t \in User : t \in Elems(waitQueue) =>
          mpc[t] \in {"mark", "release", "block", "woken"} /\ owner # t
    /\ \A t \in User : mpc[t] \in {"mark", "release"} => t \in Elems(waitQueue)

\* The thread that is going to be woken is the owner, and one unlock() wakes it.
WakeOK ==
    /\ \A t \in User : toWake[t] # NoThread =>
          /\ owner = toWake[t]
          /\ mpc[t] \in {"store", "wake"}
          /\ mpc[toWake[t]] \in {"block", "woken"}
    /\ \A t, u \in User : toWake[t] = toWake[u] /\ toWake[t] # NoThread => t = u

\* A thread is marked, and blocked, exactly as long as it waits.
SleepOK ==
    /\ \A t \in User : t \in Pending(sched) <=> mpc[t] \in {"release", "block"} /\ Waiting(t)
    /\ \A t \in User : t \in Blocked(sched) <=> mpc[t] = "woken" /\ Waiting(t)

IInv ==
    /\ MutexTypeOK /\ Consistent(sched, {})
    /\ QueueLockOK /\ OwnerOK /\ BetweenOK /\ WaitQueueOK /\ WakeOK /\ SleepOK

----------------------------------------------------------------------------
(***************************************************************************)
(* Steps of the proofs below                                               *)
(***************************************************************************)
\* A thread moves on in the code of the mutex.
LEMMA Moves ==
    ASSUME MutexTypeOK, NEW t \in User, NEW loc \in MutexLocation, GoTo(t, loc)
    PROVE  /\ mpc' \in [User -> MutexLocation]
           /\ mpc'[t] = loc
           /\ \A u \in User : u # t => mpc'[u] = mpc[u]
BY DEF MutexTypeOK, GoTo

\* The initial states.
LEMMA InitOK ==
    ASSUME Init
    PROVE  IInv
<1>1. CoreOK /\ \A t \in User : t \notin Pending(sched) /\ t \notin Blocked(sched)
  BY StartOK, UserAssumption DEF Init, CoreInit
<1>2. /\ lock = 0 /\ owner = NoThread /\ waitQueue = << >> /\ queueLock = NoThread
      /\ toWake = [t \in User |-> NoThread] /\ mpc = [t \in User |-> "out"]
  BY DEF Init, MutexInit
<1>3. NoThread \notin User
  BY NoThreadAssumption, SchedulableFacts, UserAssumption
<1>4. Elems(waitQueue) = {}
  BY <1>2 DEF Elems
<1>5. MutexTypeOK
  BY <1>1, <1>2 DEF MutexTypeOK, MutexLocation, CoreOK
<1>6. QueueLockOK /\ OwnerOK /\ BetweenOK /\ WakeOK
  BY <1>2, <1>3 DEF QueueLockOK, OwnerOK, BetweenOK, Between, WakeOK
<1>7. WaitQueueOK
  BY <1>2, <1>4 DEF WaitQueueOK
<1>8. SleepOK
  BY <1>1, <1>2 DEF SleepOK
<1> QED  BY <1>1, <1>5, <1>6, <1>7, <1>8 DEF IInv, CoreOK

\* A step of the core leaves the mutex alone.
LEMMA SameMutex ==
    ASSUME IInv, CoreOK', SleepersSame, UNCHANGED mutex
    PROVE  IInv'
<1>1. MutexTypeOK' /\ Consistent(sched, {})'
  BY DEF IInv, CoreOK, MutexTypeOK, mutex
<1>2. QueueLockOK' /\ OwnerOK' /\ BetweenOK' /\ WaitQueueOK' /\ WakeOK'
  BY DEF IInv, mutex, QueueLockOK, OwnerOK, BetweenOK, Between, WaitQueueOK, WakeOK
<1>3. SleepOK'
  BY DEF IInv, mutex, SleepOK, Waiting, SleepersSame
<1> QED  BY <1>1, <1>2, <1>3 DEF IInv

\* The exchange of lock() and try_lock(), up to the setting of _owner.
LEMMA LockOK ==
    ASSUME IInv, NEW t \in User, Lock(t) \/ LockCas(t) \/ TryLock(t) \/ LockClaim(t)
    PROVE  IInv'
<1>0. CoreOK /\ NoThread \notin User /\ t # NoThread
  BY NoThreadAssumption, SchedulableFacts, UserAssumption DEF IInv, CoreOK, MutexTypeOK
<1>1. CoreOK' /\ SleepersSame
  BY <1>0, CoreSame DEF Lock, LockCas, TryLock, LockClaim
<1>2. UNCHANGED <<waitQueue, queueLock, toWake>>
  BY DEF Lock, LockCas, TryLock, LockClaim
<1>3. PICK loc \in {"out", "cas", "claim", "spin"} : GoTo(t, loc)
  BY DEF Lock, LockCas, TryLock, LockClaim
<1>4. /\ mpc' \in [User -> MutexLocation]
      /\ mpc'[t] = loc
      /\ \A u \in User : u # t => mpc'[u] = mpc[u]
  BY <1>3, Moves DEF IInv, MutexLocation
<1>5. mpc[t] \in {"out", "cas", "claim"}
  BY DEF Lock, LockCas, TryLock, LockClaim, At
<1>6. MutexTypeOK' /\ Consistent(sched, {})'
  BY <1>1, <1>2, <1>4 DEF IInv, MutexTypeOK, CoreOK, Lock, LockCas, TryLock, LockClaim
<1>7. QueueLockOK'
  BY <1>2, <1>3, <1>4, <1>5 DEF IInv, QueueLockOK
<1>8. OwnerOK'
  BY <1>0, <1>2, <1>3, <1>4, <1>5
  DEF IInv, OwnerOK, BetweenOK, Between, At, Lock, LockCas, TryLock, LockClaim, GoTo, MutexTypeOK
<1>9. BetweenOK'
  BY <1>0, <1>2, <1>3, <1>4, <1>5
  DEF IInv, BetweenOK, Between, At, Lock, LockCas, TryLock, LockClaim, GoTo, MutexTypeOK
<1>10. WaitQueueOK'
  BY <1>0, <1>2, <1>3, <1>4, <1>5
  DEF IInv, WaitQueueOK, Lock, LockCas, TryLock, LockClaim
<1>11. WakeOK'
  BY <1>0, <1>2, <1>3, <1>4, <1>5
  DEF IInv, WakeOK, BetweenOK, Between, Lock, LockCas, TryLock, LockClaim, MutexTypeOK, At
<1>12. SleepOK'
  BY <1>1, <1>2, <1>3, <1>4, <1>5 DEF IInv, SleepOK, SleepersSame, Waiting
<1> QED  BY <1>6, <1>7, <1>8, <1>9, <1>10, <1>11, <1>12 DEF IInv

\* The critical section of lock(): the thread queues and marks itself.
LEMMA LockSectionOK ==
    ASSUME IInv, NEW t \in User, LockSpin(t) \/ LockQueue(t) \/ LockMark(t) \/ LockRelease(t)
    PROVE  IInv'
<1>0. CoreOK /\ NoThread \notin User /\ t # NoThread
  BY NoThreadAssumption, SchedulableFacts, UserAssumption DEF IInv, CoreOK, MutexTypeOK
<1>1. CASE LockSpin(t) \/ LockRelease(t)
  <2>1. CoreOK' /\ SleepersSame
    BY <1>0, <1>1, CoreSame DEF LockSpin, LockRelease
  <2>2. /\ UNCHANGED <<lock, owner, waitQueue, toWake>>
        /\ \/ mpc[t] = "spin" /\ GoTo(t, "queue") /\ queueLock = NoThread /\ queueLock' = t
           \/ mpc[t] = "release" /\ GoTo(t, "block") /\ queueLock' = NoThread
    BY <1>1 DEF LockSpin, LockRelease, At
  <2>3. PICK loc \in {"queue", "block"} : GoTo(t, loc)
    BY <2>2
  <2>4. /\ mpc' \in [User -> MutexLocation]
        /\ mpc'[t] = loc
        /\ \A u \in User : u # t => mpc'[u] = mpc[u]
    BY <2>3, Moves DEF IInv, MutexLocation
  <2>5. \/ mpc[t] = "spin" /\ loc = "queue" /\ queueLock = NoThread /\ queueLock' = t
        \/ mpc[t] = "release" /\ loc = "block" /\ queueLock' = NoThread
    BY <2>2, <2>3, <2>4 DEF GoTo, IInv, MutexTypeOK
  <2>6. MutexTypeOK' /\ Consistent(sched, {})'
    BY <2>1, <2>2, <2>4, <2>5 DEF IInv, MutexTypeOK, CoreOK
  <2>7. QueueLockOK'
    BY <1>0, <2>4, <2>5 DEF IInv, QueueLockOK
  <2>8. OwnerOK' /\ WaitQueueOK'
    BY <2>2, <2>4, <2>5 DEF IInv, OwnerOK, WaitQueueOK
  <2>9. BetweenOK'
    BY <2>2, <2>4, <2>5 DEF IInv, BetweenOK, Between
  <2>10. WakeOK'
    BY <1>0, <2>2, <2>4, <2>5 DEF IInv, WakeOK, MutexTypeOK
  <2>11. SleepOK'
    BY <2>1, <2>2, <2>4, <2>5 DEF IInv, SleepOK, SleepersSame, Waiting, WakeOK, WaitQueueOK
  <2> QED  BY <2>6, <2>7, <2>8, <2>9, <2>10, <2>11 DEF IInv
<1>2. CASE LockQueue(t)
  <2>1. CoreOK' /\ SleepersSame
    BY <1>0, <1>2, CoreSame DEF LockQueue
  <2>2. /\ UNCHANGED <<lock, owner, queueLock, toWake>>
        /\ waitQueue' = Append(waitQueue, t) /\ mpc[t] = "queue" /\ GoTo(t, "mark")
    BY <1>2 DEF LockQueue, At
  <2>3. /\ mpc' \in [User -> MutexLocation]
        /\ mpc'[t] = "mark"
        /\ \A u \in User : u # t => mpc'[u] = mpc[u]
    BY <2>2, Moves DEF IInv, MutexLocation
  <2>4. /\ waitQueue' \in Seq(User)
        /\ Elems(waitQueue') = Elems(waitQueue) \cup {t}
    BY <2>2, ElemsAppend DEF IInv, MutexTypeOK
  <2>5. t \notin Elems(waitQueue) /\ owner # t
    BY <2>2 DEF IInv, WaitQueueOK, OwnerOK
  <2>6. \A i, j \in DOMAIN waitQueue' : waitQueue'[i] = waitQueue'[j] => i = j
    BY <2>2, <2>5, AppendKeepsOrder DEF IInv, MutexTypeOK, WaitQueueOK
  <2>7. MutexTypeOK' /\ Consistent(sched, {})'
    BY <2>1, <2>2, <2>3, <2>4 DEF IInv, MutexTypeOK, CoreOK
  <2>8. QueueLockOK'
    BY <2>2, <2>3 DEF IInv, QueueLockOK
  <2>9. OwnerOK' /\ WaitQueueOK'
    BY <2>2, <2>3, <2>4, <2>5, <2>6 DEF IInv, OwnerOK, WaitQueueOK
  <2>10. BetweenOK' /\ WakeOK'
    BY <1>0, <2>2, <2>3 DEF IInv, BetweenOK, Between, WakeOK, MutexTypeOK
  <2>11. SleepOK'
    BY <2>1, <2>2, <2>3, <2>4 DEF IInv, SleepOK, SleepersSame, Waiting
  <2> QED  BY <2>7, <2>8, <2>9, <2>10, <2>11 DEF IInv
<1>3. CASE LockMark(t)
  <2>1. /\ CoreOK'
        /\ Pending(sched') = Pending(sched) \cup {t}
        /\ Blocked(sched') = Blocked(sched)
    BY <1>0, <1>3, MarkCallOK, UserAssumption DEF LockMark, At
  <2>2. UNCHANGED <<lock, owner, waitQueue, queueLock, toWake>> /\ mpc[t] = "mark"
    BY <1>3 DEF LockMark, At
  <2>3. /\ mpc' \in [User -> MutexLocation]
        /\ mpc'[t] = "release"
        /\ \A u \in User : u # t => mpc'[u] = mpc[u]
    BY <1>3, Moves DEF IInv, MutexLocation, LockMark
  <2>4. MutexTypeOK' /\ Consistent(sched, {})'
    BY <2>1, <2>2, <2>3 DEF IInv, MutexTypeOK, CoreOK
  <2>5. QueueLockOK' /\ OwnerOK' /\ WaitQueueOK'
    BY <2>2, <2>3 DEF IInv, QueueLockOK, OwnerOK, WaitQueueOK
  <2>6. BetweenOK' /\ WakeOK'
    BY <1>0, <2>2, <2>3 DEF IInv, BetweenOK, Between, WakeOK, MutexTypeOK
  <2>7. SleepOK'
    BY <2>1, <2>2, <2>3 DEF IInv, SleepOK, Waiting, WaitQueueOK
  <2> QED  BY <2>4, <2>5, <2>6, <2>7 DEF IInv
<1> QED  BY <1>1, <1>2, <1>3

\* block(), and what follows when the thread is back.
LEMMA LockSleepOK ==
    ASSUME IInv, NEW t \in User, LockBlock(t) \/ LockWoken(t)
    PROVE  IInv'
<1>0. CoreOK /\ NoThread \notin User /\ t # NoThread
  BY NoThreadAssumption, SchedulableFacts, UserAssumption DEF IInv, CoreOK, MutexTypeOK
<1>1. CASE LockBlock(t)
  <2>1. /\ CoreOK'
        /\ Pending(sched') = Pending(sched) \ {t}
        /\ Blocked(sched') = Blocked(sched) \cup (Pending(sched) \cap {t})
        /\ t \notin Blocked(sched)
    BY <1>0, <1>1, BlockCallOK, OnCpuIsAwake, UserAssumption DEF LockBlock, At, OnCpu
  <2>2. UNCHANGED <<lock, owner, waitQueue, queueLock, toWake>> /\ mpc[t] = "block"
    BY <1>1 DEF LockBlock, At
  <2>3. /\ mpc' \in [User -> MutexLocation]
        /\ mpc'[t] = "woken"
        /\ \A u \in User : u # t => mpc'[u] = mpc[u]
    BY <1>1, Moves DEF IInv, MutexLocation, LockBlock
  <2>4. MutexTypeOK' /\ Consistent(sched, {})'
    BY <2>1, <2>2, <2>3 DEF IInv, MutexTypeOK, CoreOK
  <2>5. QueueLockOK' /\ OwnerOK' /\ WaitQueueOK'
    BY <2>2, <2>3 DEF IInv, QueueLockOK, OwnerOK, WaitQueueOK
  <2>6. BetweenOK' /\ WakeOK'
    BY <1>0, <2>2, <2>3 DEF IInv, BetweenOK, Between, WakeOK, MutexTypeOK
  <2>7. SleepOK'
    BY <2>1, <2>2, <2>3 DEF IInv, SleepOK, Waiting
  <2> QED  BY <2>4, <2>5, <2>6, <2>7 DEF IInv
<1>2. CASE LockWoken(t)
  <2>1. CoreOK' /\ SleepersSame /\ t \notin Blocked(sched)
    BY <1>0, <1>2, CoreSame, OnCpuIsAwake, UserAssumption DEF LockWoken, At, OnCpu
  <2>2. UNCHANGED <<lock, owner, waitQueue, queueLock, toWake>> /\ mpc[t] = "woken"
    BY <1>2 DEF LockWoken, At
  <2>3. ~Waiting(t) /\ owner = t
    BY <2>1, <2>2 DEF IInv, SleepOK, Waiting, OwnerOK
  <2>4. /\ mpc' \in [User -> MutexLocation]
        /\ mpc'[t] = "out"
        /\ \A u \in User : u # t => mpc'[u] = mpc[u]
    BY <1>2, <2>3, Moves DEF IInv, MutexLocation, LockWoken
  <2>5. MutexTypeOK' /\ Consistent(sched, {})'
    BY <2>1, <2>2, <2>4 DEF IInv, MutexTypeOK, CoreOK
  <2>6. QueueLockOK' /\ OwnerOK' /\ WaitQueueOK'
    BY <2>2, <2>3, <2>4 DEF IInv, QueueLockOK, OwnerOK, WaitQueueOK, Waiting
  <2>7. BetweenOK' /\ WakeOK'
    BY <1>0, <2>2, <2>3, <2>4 DEF IInv, BetweenOK, Between, WakeOK, MutexTypeOK, Waiting
  <2>8. SleepOK'
    BY <2>1, <2>2, <2>3, <2>4 DEF IInv, SleepOK, Waiting, SleepersSame
  <2> QED  BY <2>5, <2>6, <2>7, <2>8 DEF IInv
<1> QED  BY <1>1, <1>2

\* unlock() up to the end of its critical section.
LEMMA UnlockSectionOK ==
    ASSUME IInv, NEW t \in User, Unlock(t) \/ UnlockSpin(t) \/ UnlockPop(t)
    PROVE  IInv'
<1>0. CoreOK /\ NoThread \notin User /\ t # NoThread
  BY NoThreadAssumption, SchedulableFacts, UserAssumption DEF IInv, CoreOK, MutexTypeOK
<1>1. CoreOK' /\ SleepersSame
  BY <1>0, CoreSame DEF Unlock, UnlockSpin, UnlockPop
<1>2. CASE Unlock(t) \/ UnlockSpin(t)
  <2>1. /\ UNCHANGED <<lock, owner, waitQueue, toWake>>
        /\ \/ mpc[t] = "out" /\ owner = t /\ GoTo(t, "uspin") /\ queueLock' = queueLock
           \/ mpc[t] = "uspin" /\ GoTo(t, "pop") /\ queueLock = NoThread /\ queueLock' = t
    BY <1>2 DEF Unlock, UnlockSpin, At
  <2>2. PICK loc \in {"uspin", "pop"} : GoTo(t, loc)
    BY <2>1
  <2>3. /\ mpc' \in [User -> MutexLocation]
        /\ mpc'[t] = loc
        /\ \A u \in User : u # t => mpc'[u] = mpc[u]
    BY <2>2, Moves DEF IInv, MutexLocation
  <2>4. \/ mpc[t] = "out" /\ owner = t /\ loc = "uspin" /\ queueLock' = queueLock
        \/ mpc[t] = "uspin" /\ loc = "pop" /\ queueLock = NoThread /\ queueLock' = t
    BY <2>1, <2>2, <2>3 DEF GoTo, IInv, MutexTypeOK
  <2>5. MutexTypeOK' /\ Consistent(sched, {})'
    BY <1>1, <2>1, <2>3, <2>4 DEF IInv, MutexTypeOK, CoreOK
  <2>6. QueueLockOK'
    BY <1>0, <2>3, <2>4 DEF IInv, QueueLockOK
  <2>7. OwnerOK' /\ WaitQueueOK'
    BY <2>1, <2>3, <2>4 DEF IInv, OwnerOK, WaitQueueOK
  <2>8. BetweenOK' /\ WakeOK'
    BY <1>0, <2>1, <2>3, <2>4 DEF IInv, BetweenOK, Between, WakeOK, MutexTypeOK
  <2>9. SleepOK'
    BY <1>1, <2>1, <2>3, <2>4 DEF IInv, SleepOK, SleepersSame, Waiting
  <2> QED  BY <2>5, <2>6, <2>7, <2>8, <2>9 DEF IInv
<1>3. CASE UnlockPop(t)
  <2>1. mpc[t] = "pop" /\ owner = t /\ queueLock = t /\ lock' = lock /\ queueLock' = NoThread
    BY <1>3 DEF UnlockPop, At, IInv, OwnerOK, QueueLockOK
  <2>2. /\ mpc' \in [User -> MutexLocation]
        /\ mpc'[t] = "store"
        /\ \A u \in User : u # t => mpc'[u] = mpc[u]
    BY <1>3, Moves DEF IInv, MutexLocation, UnlockPop
  <2>3. \A u \in User : toWake[u] = NoThread
    BY <1>0, <2>1 DEF IInv, WakeOK, MutexTypeOK
  <2>4. \A u \in User : ~Between(u)
    BY <1>0, <2>1 DEF IInv, BetweenOK
  <2>5. lock = 1
    BY <1>0, <2>1 DEF IInv, BetweenOK, MutexTypeOK
  <2>6. QueueLockOK'
    BY <1>0, <2>1, <2>2 DEF IInv, QueueLockOK
  <2>7. CASE waitQueue = << >>
    <3>1. /\ owner' = NoThread /\ waitQueue' = waitQueue
          /\ toWake' = [toWake EXCEPT ![t] = NoThread]
      BY <1>3, <2>7 DEF UnlockPop
    <3>2. toWake' = toWake
      BY <2>3, <3>1 DEF IInv, MutexTypeOK
    <3>3. Elems(waitQueue) = {}
      BY <2>7 DEF Elems
    <3>4. MutexTypeOK' /\ Consistent(sched, {})'
      BY <1>1, <2>1, <2>2, <3>1, <3>2 DEF IInv, MutexTypeOK, CoreOK
    <3>5. OwnerOK' /\ WaitQueueOK'
      BY <1>0, <2>1, <2>2, <3>1, <3>3 DEF IInv, OwnerOK, WaitQueueOK
    <3>6. BetweenOK'
      BY <2>1, <2>2, <2>4, <2>5, <3>1, <3>2 DEF BetweenOK, Between
    <3>7. WakeOK'
      BY <2>3, <3>2 DEF WakeOK
    <3>8. SleepOK'
      BY <1>1, <2>1, <2>2, <3>1, <3>2 DEF IInv, SleepOK, SleepersSame, Waiting
    <3> QED  BY <2>6, <3>4, <3>5, <3>6, <3>7, <3>8 DEF IInv
  <2>8. CASE waitQueue # << >>
    <3> DEFINE n == Head(waitQueue)
    <3>1. /\ owner' = n /\ waitQueue' = Tail(waitQueue)
          /\ toWake' = [toWake EXCEPT ![t] = n]
      BY <1>3, <2>8 DEF UnlockPop
    <3>2. /\ n \in User /\ n \in Elems(waitQueue)
          /\ waitQueue' \in Seq(User)
          /\ Elems(waitQueue') = Elems(waitQueue) \ {n}
          /\ \A i, j \in DOMAIN waitQueue' : waitQueue'[i] = waitQueue'[j] => i = j
      BY <2>8, <3>1, ElemsTail DEF IInv, MutexTypeOK, WaitQueueOK
    <3> HIDE DEF n
    <3>3. mpc[n] \in {"block", "woken"} /\ n # t /\ n # NoThread
      BY <1>0, <2>1, <3>2 DEF IInv, WaitQueueOK, QueueLockOK
    <3>4. /\ toWake' \in [User -> User \cup {NoThread}]
          /\ toWake'[t] = n
          /\ \A u \in User : u # t => toWake'[u] = NoThread
      BY <2>3, <3>1, <3>2 DEF IInv, MutexTypeOK
    <3>5. MutexTypeOK' /\ Consistent(sched, {})'
      BY <1>1, <2>1, <2>2, <3>1, <3>2, <3>4 DEF IInv, MutexTypeOK, CoreOK
    <3>6. OwnerOK' /\ WaitQueueOK'
      BY <1>0, <2>1, <2>2, <3>1, <3>2, <3>3 DEF IInv, OwnerOK, WaitQueueOK
    <3>7. BetweenOK'
      BY <2>1, <2>2, <2>3, <2>4, <2>5, <3>3, <3>4 DEF BetweenOK, Between
    <3>8. WakeOK'
      BY <1>0, <2>2, <3>1, <3>2, <3>3, <3>4 DEF WakeOK
    <3>9. \A u \in User : Waiting(u)' <=> Waiting(u)
      BY <1>0, <2>3, <3>2, <3>4 DEF Waiting
    <3>10. SleepOK'
      BY <1>1, <2>1, <2>2, <3>9 DEF IInv, SleepOK, SleepersSame
    <3> QED  BY <2>6, <3>5, <3>6, <3>7, <3>8, <3>10 DEF IInv
  <2> QED  BY <2>7, <2>8
<1> QED  BY <1>2, <1>3

\* The end of unlock(): _owner is read again, and the new owner woken.
LEMMA UnlockEndOK ==
    ASSUME IInv, NEW t \in User, UnlockStore(t) \/ UnlockWake(t)
    PROVE  IInv'
<1>0. CoreOK /\ NoThread \notin User /\ t # NoThread
  BY NoThreadAssumption, SchedulableFacts, UserAssumption DEF IInv, CoreOK, MutexTypeOK
<1>1. CASE UnlockStore(t)
  <2>1. CoreOK' /\ SleepersSame
    BY <1>0, <1>1, CoreSame DEF UnlockStore
  <2>2. UNCHANGED <<owner, waitQueue, queueLock, toWake>> /\ mpc[t] = "store"
    BY <1>1 DEF UnlockStore, At
  <2>3. /\ mpc' \in [User -> MutexLocation]
        /\ mpc'[t] = "wake"
        /\ \A u \in User : u # t => mpc'[u] = mpc[u]
    BY <1>1, Moves DEF IInv, MutexLocation, UnlockStore
  \* Whoever finds no owner has found none itself, and is alone.
  <2>4. owner = NoThread => Between(t)
    BY <1>0, <2>2 DEF IInv, WakeOK, MutexTypeOK, Between
  <2>5. lock' = IF owner = NoThread THEN 0 ELSE lock
    BY <1>1 DEF UnlockStore
  <2>6. MutexTypeOK' /\ Consistent(sched, {})'
    BY <2>1, <2>2, <2>3, <2>5 DEF IInv, MutexTypeOK, CoreOK
  <2>7. QueueLockOK' /\ OwnerOK' /\ WaitQueueOK'
    BY <2>2, <2>3 DEF IInv, QueueLockOK, OwnerOK, WaitQueueOK
  <2>8. BetweenOK'
    BY <1>0, <2>2, <2>3, <2>4, <2>5 DEF IInv, BetweenOK, Between
  <2>9. WakeOK'
    BY <1>0, <2>2, <2>3 DEF IInv, WakeOK, MutexTypeOK
  <2>10. SleepOK'
    BY <2>1, <2>2, <2>3 DEF IInv, SleepOK, SleepersSame, Waiting
  <2> QED  BY <2>6, <2>7, <2>8, <2>9, <2>10 DEF IInv
<1>2. CASE UnlockWake(t)
  <2> DEFINE n == toWake[t]
  <2>1. n \in User \cup {NoThread}
    BY DEF IInv, MutexTypeOK
  <2>2. /\ CoreOK'
        /\ Pending(sched') = Pending(sched) \ {n}
        /\ Blocked(sched') = Blocked(sched) \ {n}
    <3>1. CASE n = NoThread
      <4>1. UNCHANGED core
        BY <1>2, <3>1 DEF UnlockWake, Call, core
      <4>2. NoThread \notin Thread
        BY NoThreadAssumption DEF AnyThread
      <4> QED  BY <1>0, <3>1, <4>1, <4>2, CoreSame
               DEF SleepersSame, Pending, Blocked, InState
    <3>2. CASE n # NoThread
      BY <1>0, <1>2, <2>1, <3>2, UnblockCallOK, UserAssumption DEF UnlockWake
    <3> QED  BY <3>1, <3>2
  <2>3. UNCHANGED <<lock, owner, waitQueue, queueLock>> /\ mpc[t] = "wake"
    BY <1>2 DEF UnlockWake, At
  <2>4. /\ mpc' \in [User -> MutexLocation]
        /\ mpc'[t] = "out"
        /\ \A u \in User : u # t => mpc'[u] = mpc[u]
    BY <1>2, Moves DEF IInv, MutexLocation, UnlockWake
  <2>5. /\ toWake' \in [User -> User \cup {NoThread}]
        /\ toWake'[t] = NoThread
        /\ \A u \in User : u # t => toWake'[u] = toWake[u]
    BY <1>2 DEF UnlockWake, IInv, MutexTypeOK
  <2> HIDE DEF n
  <2>6. MutexTypeOK' /\ Consistent(sched, {})'
    BY <2>2, <2>3, <2>4, <2>5 DEF IInv, MutexTypeOK, CoreOK
  <2>7. QueueLockOK' /\ OwnerOK' /\ WaitQueueOK'
    BY <2>3, <2>4 DEF IInv, QueueLockOK, OwnerOK, WaitQueueOK
  <2>8. BetweenOK'
    BY <2>3, <2>4, <2>5 DEF IInv, BetweenOK, Between
  <2>9. WakeOK'
    BY <1>0, <2>3, <2>4, <2>5 DEF IInv, WakeOK, MutexTypeOK
  <2>10. \A u \in User : Waiting(u)' <=> Waiting(u) /\ u # n
    <3>1. \A u \in User : u = n => u \notin Elems(waitQueue)
      BY <1>0 DEF IInv, WakeOK, WaitQueueOK, n
    <3>2. \A u \in User : (\E v \in User : toWake'[v] = u) <=>
                          (\E v \in User : toWake[v] = u) /\ u # n
      BY <1>0, <2>1, <2>5 DEF IInv, WakeOK, n
    <3> QED  BY <2>3, <3>1, <3>2 DEF Waiting
  <2>11. SleepOK'
    BY <2>2, <2>3, <2>4, <2>10 DEF IInv, SleepOK
  <2> QED  BY <2>6, <2>7, <2>8, <2>9, <2>11 DEF IInv
<1> QED  BY <1>1, <1>2

\* Every step keeps the inductive invariant.
LEMMA StepOK ==
    ASSUME IInv, [Next]_vars
    PROVE  IInv'
<1>0. CoreOK
  BY DEF IInv, CoreOK, MutexTypeOK
<1>1. CASE UNCHANGED vars
  BY <1>0, <1>1, CoreSame, SameMutex DEF vars
<1>2. CASE CoreNext /\ UNCHANGED mutex
  BY <1>0, <1>2, CoreNextOK, SameMutex
<1>3. ASSUME NEW t \in User, ReturnToUser(t) PROVE IInv'
  BY <1>0, <1>3, FlagOK, SameMutex DEF ReturnToUser, Sysret
<1>4. ASSUME NEW t \in User,
             Lock(t) \/ TryLock(t) \/ Unlock(t) \/ LockStep(t) \/ UnlockStep(t)
      PROVE  IInv'
  BY <1>4, LockOK, LockSectionOK, LockSleepOK, UnlockSectionOK, UnlockEndOK
  DEF LockStep, UnlockStep
<1> QED  BY <1>1, <1>2, <1>3, <1>4 DEF Next

----------------------------------------------------------------------------
(***************************************************************************)
(* Theorems                                                                *)
(***************************************************************************)
\* The inductive invariant holds in every reachable state.
THEOREM Invariance == Spec => []IInv
<1>1. Init => IInv
  BY InitOK
<1>2. IInv /\ [Next]_vars => IInv'
  BY StepOK
<1> QED  BY <1>1, <1>2, PTL DEF Spec

\* The variables keep their types.
THEOREM TypeCorrect == Spec => []MutexTypeOK
<1>1. IInv => MutexTypeOK
  BY DEF IInv
<1> QED  BY <1>1, Invariance, PTL

\* The mutex has one holder at a time, _lock is set as long as there is one, and
\* only the holder is in unlock().
THEOREM HolderIsAlone == Spec => []MutualExclusion
<1>1. IInv => MutualExclusion
  <2> SUFFICES ASSUME IInv PROVE MutualExclusion
    OBVIOUS
  <2>1. NoThread \notin User
    BY NoThreadAssumption, SchedulableFacts, UserAssumption
  <2> QED  BY <2>1 DEF IInv, MutualExclusion, Holds, MutexTypeOK, OwnerOK, BetweenOK, Between
<1> QED  BY <1>1, Invariance, PTL

\* A thread that is back from block() is the owner.
THEOREM WokenIsOwner == Spec => []HandoffIsComplete
<1>1. IInv => HandoffIsComplete
  <2> SUFFICES ASSUME IInv, NEW t \in User, At(t, "woken") PROVE owner = t
    BY DEF HandoffIsComplete
  <2>1. CoreOK
    BY DEF IInv, CoreOK, MutexTypeOK
  <2>2. t \notin Blocked(sched)
    BY <2>1, OnCpuIsAwake, UserAssumption DEF At, OnCpu
  <2> QED  BY <2>2 DEF IInv, SleepOK, Waiting, OwnerOK, At
<1> QED  BY <1>1, Invariance, PTL

\* A blocked thread is in the wait queue, once, or about to be unblocked.
THEOREM WaitersAreKnown == Spec => []NoForgottenWaiter
<1>1. IInv => NoForgottenWaiter
  BY SchedulableFacts, UserAssumption
  DEF IInv, NoForgottenWaiter, WaitQueueOK, SleepOK, Waiting, Blocked, InState
<1> QED  BY <1>1, Invariance, PTL
=============================================================================
