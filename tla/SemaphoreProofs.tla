-------------------------- MODULE SemaphoreProofs --------------------------
(***************************************************************************)
(* Theorems about Semaphore, for any number of threads and units.          *)
(*                                                                         *)
(* That every unit has a thread on its way to it while threads wait        *)
(* (NoStrandedWaiter) is kept by unlock() because the thread it takes from *)
(* the wait queue is past the critical section of lock(), and by lock()    *)
(* because a thread that goes to sleep has seen that there is no unit.     *)
(* Both need the invariant to say where the threads of the queue are, and  *)
(* which of them sleep.                                                    *)
(***************************************************************************)
EXTENDS Semaphore, SchedulerProofs

\* t is in the wait queue, or is the one some unlock() is going to wake.
Waiting(t) == t \in Elems(waitQueue) \/ \E u \in User : toWake[u] = t

\* The spinlock is held in the critical sections.
SpinlockOK ==
    \A t \in User :
        spc[t] \in {"test", "mark", "release", "ttest", "give", "wake", "leave"} <=>
        spinlock = t

\* The wait queue holds threads that are past the test and not yet chosen.
WaitQueueOK ==
    /\ \A i, j \in DOMAIN waitQueue : waitQueue[i] = waitQueue[j] => i = j
    /\ \A t \in User : t \in Elems(waitQueue) =>
          spc[t] \in {"mark", "release", "block", "reacquire"}
    /\ \A t \in User : spc[t] \in {"mark", "release"} => t \in Elems(waitQueue)

\* The thread that is going to be woken has left the critical section and the queue.
WakeOK ==
    \A t \in User : toWake[t] # NoThread =>
        /\ spc[t] = "wake"
        /\ spc[toWake[t]] \in {"block", "reacquire"}
        /\ toWake[t] \notin Elems(waitQueue)

\* A thread is marked, and blocked, exactly as long as it waits.
SleepOK ==
    /\ \A t \in User : t \in Pending(sched) <=> spc[t] \in {"release", "block"} /\ Waiting(t)
    /\ \A t \in User : t \in Blocked(sched) <=> spc[t] = "reacquire" /\ Waiting(t)

IInv ==
    /\ SemaphoreTypeOK /\ Consistent(sched, {})
    /\ SpinlockOK /\ WaitQueueOK /\ WakeOK /\ SleepOK /\ NoStrandedWaiter

----------------------------------------------------------------------------
(***************************************************************************)
(* Steps of the proofs below                                               *)
(***************************************************************************)
\* A thread moves on in the code of the semaphore.
LEMMA Moves ==
    ASSUME SemaphoreTypeOK, NEW t \in User, NEW loc \in SemaphoreLocation, GoTo(t, loc)
    PROVE  /\ spc' \in [User -> SemaphoreLocation]
           /\ spc'[t] = loc
           /\ \A u \in User : u # t => spc'[u] = spc[u]
BY DEF SemaphoreTypeOK, GoTo

\* The threads in flight can be counted.
LEMMA InFlightIsFinite == IsFiniteSet(InFlight) /\ Cardinality(InFlight) \in Nat
<1>1. InFlight \in SUBSET User
  BY DEF InFlight
<1> QED  BY <1>1, UserAssumption, FS_Subset, FS_CardinalityType

\* More threads in flight, and no more units than before, strand nobody.
LEMMA MoreInFlight ==
    ASSUME NoStrandedWaiter, units \in Nat, units' \in Nat, units' <= units,
           waitQueue' = waitQueue, InFlight \subseteq InFlight'
    PROVE  NoStrandedWaiter'
<1>1. IsFiniteSet(InFlight') /\ Cardinality(InFlight') \in Nat
  <2>1. InFlight' \in SUBSET User
    BY DEF InFlight
  <2> QED  BY <2>1, UserAssumption, FS_Subset, FS_CardinalityType
<1>2. Cardinality(InFlight) <= Cardinality(InFlight')
  BY <1>1, FS_Subset
<1> QED  BY <1>1, <1>2, InFlightIsFinite DEF NoStrandedWaiter

\* The initial states.
LEMMA InitOK ==
    ASSUME Init
    PROVE  IInv
<1>1. CoreOK /\ \A t \in User : t \notin Pending(sched) /\ t \notin Blocked(sched)
  BY StartOK, UserAssumption DEF Init, CoreInit
<1>2. /\ units = UnitStart /\ waitQueue = << >> /\ spinlock = NoThread
      /\ toWake = [t \in User |-> NoThread] /\ spc = [t \in User |-> "out"]
  BY DEF Init
<1>3. NoThread \notin User
  BY NoThreadAssumption, SchedulableFacts, UserAssumption
<1>4. Elems(waitQueue) = {}
  BY <1>2 DEF Elems
<1>5. SemaphoreTypeOK
  BY <1>1, <1>2, UnitAssumption DEF SemaphoreTypeOK, SemaphoreLocation, CoreOK
<1>6. SpinlockOK /\ WaitQueueOK /\ WakeOK /\ NoStrandedWaiter
  BY <1>2, <1>3, <1>4 DEF SpinlockOK, WaitQueueOK, WakeOK, NoStrandedWaiter
<1>7. SleepOK
  BY <1>1, <1>2 DEF SleepOK
<1> QED  BY <1>1, <1>5, <1>6, <1>7 DEF IInv, CoreOK

\* A step of the core leaves the semaphore alone.
LEMMA SameSemaphore ==
    ASSUME IInv, CoreOK', SleepersSame, UNCHANGED semaphore
    PROVE  IInv'
<1>1. SemaphoreTypeOK' /\ Consistent(sched, {})'
  BY DEF IInv, CoreOK, SemaphoreTypeOK, semaphore
<1>2. SpinlockOK' /\ WaitQueueOK' /\ WakeOK' /\ NoStrandedWaiter'
  BY DEF IInv, semaphore, SpinlockOK, WaitQueueOK, WakeOK, NoStrandedWaiter, InFlight
<1>3. SleepOK'
  BY DEF IInv, semaphore, SleepOK, Waiting, SleepersSame
<1> QED  BY <1>1, <1>2, <1>3 DEF IInv

\* Calls and the two ends of the critical sections.
LEMMA SectionOK ==
    ASSUME IInv, NEW t \in User,
           Lock(t) \/ TryLock(t) \/ Unlock(t) \/ Acquire(t) \/ Leave(t) \/ Release(t)
    PROVE  IInv'
<1> USE DEF Lock, TryLock, Unlock, Begin
<1>0. CoreOK /\ NoThread \notin User /\ t # NoThread
  BY NoThreadAssumption, SchedulableFacts, UserAssumption DEF IInv, CoreOK, SemaphoreTypeOK
<1>1. CoreOK' /\ SleepersSame /\ UNCHANGED <<units, waitQueue, toWake>>
  BY <1>0, CoreSame DEF Acquire, Leave, Release
<1>2. t \notin Blocked(sched)
  BY <1>0, OnCpuIsAwake, UserAssumption DEF Acquire, Leave, Release, At, OnCpu
<1>3. PICK loc \in SemaphoreLocation :
         /\ GoTo(t, loc)
         /\ \/ spc[t] = "out" /\ loc \in {"acquire", "tacquire", "uacquire"} /\ spinlock' = spinlock
            \/ /\ spc[t] \in {"acquire", "reacquire", "tacquire", "uacquire"}
               /\ loc \in {"test", "ttest", "give"}
               /\ spc[t] = "reacquire" => loc = "test"
               /\ spinlock = NoThread /\ spinlock' = t
            \/ spc[t] = "leave" /\ loc = "out" /\ spinlock' = NoThread
            \/ spc[t] = "release" /\ loc = "block" /\ spinlock' = NoThread
  <2>1. CASE Lock(t) \/ TryLock(t) \/ Unlock(t)
    BY <2>1 DEF At, SemaphoreLocation
  <2>2. CASE Acquire(t)
    BY <2>2 DEF Acquire, At, SemaphoreLocation
  <2>3. CASE Leave(t) \/ Release(t)
    BY <2>3 DEF Leave, Release, At, SemaphoreLocation
  <2> QED  BY <2>1, <2>2, <2>3
<1> USE DEF SemaphoreLocation
<1>4. /\ spc' \in [User -> SemaphoreLocation]
      /\ spc'[t] = loc
      /\ \A u \in User : u # t => spc'[u] = spc[u]
  BY <1>3, Moves DEF IInv
<1>5. SemaphoreTypeOK' /\ Consistent(sched, {})'
  BY <1>1, <1>3, <1>4 DEF IInv, SemaphoreTypeOK, CoreOK
<1>6. SpinlockOK'
  BY <1>0, <1>3, <1>4 DEF IInv, SpinlockOK
<1>7. spc[t] = "reacquire" => ~Waiting(t)
  BY <1>2 DEF IInv, SleepOK
<1>8. WaitQueueOK'
  BY <1>1, <1>3, <1>4, <1>7 DEF IInv, WaitQueueOK, Waiting
<1>9. WakeOK'
  BY <1>0, <1>1, <1>3, <1>4, <1>7 DEF IInv, WakeOK, SemaphoreTypeOK, Waiting
<1>10. SleepOK'
  BY <1>1, <1>3, <1>4, <1>7 DEF IInv, SleepOK, SleepersSame, Waiting, WaitQueueOK
<1>11. NoStrandedWaiter'
  <2>1. InFlight \subseteq InFlight'
    BY <1>1, <1>3, <1>4 DEF InFlight
  <2> QED  BY <1>1, <2>1, MoreInFlight DEF IInv, SemaphoreTypeOK
<1> QED  BY <1>5, <1>6, <1>8, <1>9, <1>10, <1>11 DEF IInv

\* A unit is taken.
LEMMA TakeOK ==
    ASSUME IInv, NEW t \in User, At(t, "test") \/ At(t, "ttest"),
           \/ units > 0 /\ TakeUnit(t)
           \/ At(t, "ttest") /\ GoTo(t, "leave") /\ UNCHANGED units,
           UNCHANGED <<core, waitQueue, spinlock, toWake>>
    PROVE  IInv'
<1>0. CoreOK /\ NoThread \notin User /\ t # NoThread
  BY NoThreadAssumption, SchedulableFacts, UserAssumption DEF IInv, CoreOK, SemaphoreTypeOK
<1>1. CoreOK' /\ SleepersSame
  BY <1>0, CoreSame
<1>2. /\ spc' \in [User -> SemaphoreLocation]
      /\ spc'[t] = "leave"
      /\ \A u \in User : u # t => spc'[u] = spc[u]
  BY Moves DEF IInv, SemaphoreLocation, TakeUnit
<1>3. /\ units \in Nat /\ units' \in 0 .. UnitMax
      /\ \/ units' = units - 1
         \/ units' = units /\ spc[t] = "ttest"
  BY UnitAssumption DEF IInv, SemaphoreTypeOK, TakeUnit, At
<1>4. spc[t] \in {"test", "ttest"}
  BY DEF At
<1>5. SemaphoreTypeOK' /\ Consistent(sched, {})'
  BY <1>1, <1>2, <1>3 DEF IInv, SemaphoreTypeOK, CoreOK
<1>6. SpinlockOK' /\ WaitQueueOK'
  BY <1>2, <1>4 DEF IInv, SpinlockOK, WaitQueueOK
<1>7. WakeOK'
  BY <1>0, <1>2, <1>4 DEF IInv, WakeOK, SemaphoreTypeOK
<1>8. SleepOK'
  BY <1>1, <1>2, <1>4 DEF IInv, SleepOK, SleepersSame, Waiting
<1>9. NoStrandedWaiter'
  <2>1. CASE spc[t] = "ttest"
    <3>1. InFlight \subseteq InFlight'
      BY <1>2, <2>1 DEF InFlight
    <3> QED  BY <1>3, <3>1, MoreInFlight DEF IInv
  <2>2. CASE spc[t] = "test"
    <3>1. InFlight' = InFlight \ {t} /\ units' = units - 1
      BY <1>2, <1>3, <2>2 DEF InFlight
    <3>2. Cardinality(InFlight') >= Cardinality(InFlight) - 1
      BY <3>1, InFlightIsFinite, FS_RemoveElement
    <3>3. Cardinality(InFlight') \in Nat
      BY <3>1, InFlightIsFinite, FS_RemoveElement, FS_CardinalityType
    <3> QED  BY <1>3, <3>1, <3>2, <3>3, InFlightIsFinite DEF IInv, NoStrandedWaiter
  <2> QED  BY <1>4, <2>1, <2>2
<1> QED  BY <1>5, <1>6, <1>7, <1>8, <1>9 DEF IInv

\* The thread finds no unit: it queues, marks itself and blocks.
LEMMA FallAsleepOK ==
    ASSUME IInv, NEW t \in User,
           \/ Test(t) /\ ~(units > 0)
           \/ Mark(t)
           \/ BlockThread(t)
    PROVE  IInv'
<1>0. CoreOK /\ NoThread \notin User /\ t # NoThread
  BY NoThreadAssumption, SchedulableFacts, UserAssumption DEF IInv, CoreOK, SemaphoreTypeOK
<1>1. CASE Test(t) /\ ~(units > 0)
  <2>1. /\ UNCHANGED <<core, units, spinlock, toWake>>
        /\ waitQueue' = Append(waitQueue, t) /\ spc[t] = "test" /\ GoTo(t, "mark")
        /\ units = 0
    BY <1>1 DEF Test, At, IInv, SemaphoreTypeOK
  <2>2. CoreOK' /\ SleepersSame
    BY <1>0, <2>1, CoreSame
  <2>3. /\ spc' \in [User -> SemaphoreLocation]
        /\ spc'[t] = "mark"
        /\ \A u \in User : u # t => spc'[u] = spc[u]
    BY <2>1, Moves DEF IInv, SemaphoreLocation
  <2>4. /\ waitQueue' \in Seq(User)
        /\ Elems(waitQueue') = Elems(waitQueue) \cup {t}
    BY <2>1, ElemsAppend DEF IInv, SemaphoreTypeOK
  <2>5. t \notin Elems(waitQueue) /\ \A u \in User : toWake[u] # t
    BY <1>0, <2>1 DEF IInv, WaitQueueOK, WakeOK
  <2>6. \A i, j \in DOMAIN waitQueue' : waitQueue'[i] = waitQueue'[j] => i = j
    BY <2>1, <2>5, AppendKeepsOrder DEF IInv, SemaphoreTypeOK, WaitQueueOK
  <2>7. SemaphoreTypeOK' /\ Consistent(sched, {})'
    BY <2>1, <2>2, <2>3, <2>4 DEF IInv, SemaphoreTypeOK, CoreOK
  <2>8. SpinlockOK' /\ WaitQueueOK'
    BY <2>1, <2>3, <2>4, <2>6 DEF IInv, SpinlockOK, WaitQueueOK
  <2>9. WakeOK'
    BY <1>0, <2>1, <2>3, <2>4, <2>5 DEF IInv, WakeOK, SemaphoreTypeOK
  <2>10. SleepOK'
    BY <2>1, <2>2, <2>3, <2>4 DEF IInv, SleepOK, SleepersSame, Waiting
  <2>11. NoStrandedWaiter'
    <3>1. InFlight' \in SUBSET User
      BY DEF InFlight
    <3>2. Cardinality(InFlight') \in Nat
      BY <3>1, UserAssumption, FS_Subset, FS_CardinalityType
    <3> QED  BY <2>1, <3>2 DEF NoStrandedWaiter
  <2> QED  BY <2>7, <2>8, <2>9, <2>10, <2>11 DEF IInv
<1>2. CASE Mark(t)
  <2>1. /\ CoreOK'
        /\ Pending(sched') = Pending(sched) \cup {t}
        /\ Blocked(sched') = Blocked(sched)
    BY <1>0, <1>2, MarkCallOK, UserAssumption DEF Mark, At
  <2>2. UNCHANGED <<units, waitQueue, spinlock, toWake>> /\ spc[t] = "mark"
    BY <1>2 DEF Mark, At
  <2>3. /\ spc' \in [User -> SemaphoreLocation]
        /\ spc'[t] = "release"
        /\ \A u \in User : u # t => spc'[u] = spc[u]
    BY <1>2, Moves DEF IInv, SemaphoreLocation, Mark
  <2>4. SemaphoreTypeOK' /\ Consistent(sched, {})'
    BY <2>1, <2>2, <2>3 DEF IInv, SemaphoreTypeOK, CoreOK
  <2>5. SpinlockOK' /\ WaitQueueOK'
    BY <2>2, <2>3 DEF IInv, SpinlockOK, WaitQueueOK
  <2>6. WakeOK'
    BY <1>0, <2>2, <2>3 DEF IInv, WakeOK, SemaphoreTypeOK
  <2>7. SleepOK'
    BY <2>1, <2>2, <2>3 DEF IInv, SleepOK, Waiting, WaitQueueOK
  <2>8. NoStrandedWaiter'
    <3>1. InFlight' = InFlight
      BY <2>2, <2>3 DEF InFlight
    <3> QED  BY <2>2, <3>1 DEF IInv, NoStrandedWaiter
  <2> QED  BY <2>4, <2>5, <2>6, <2>7, <2>8 DEF IInv
<1>3. CASE BlockThread(t)
  <2>1. /\ CoreOK'
        /\ Pending(sched') = Pending(sched) \ {t}
        /\ Blocked(sched') = Blocked(sched) \cup (Pending(sched) \cap {t})
        /\ t \notin Blocked(sched)
    BY <1>0, <1>3, BlockCallOK, OnCpuIsAwake, UserAssumption DEF BlockThread, At, OnCpu
  <2>2. UNCHANGED <<units, waitQueue, spinlock, toWake>> /\ spc[t] = "block"
    BY <1>3 DEF BlockThread, At
  <2>3. /\ spc' \in [User -> SemaphoreLocation]
        /\ spc'[t] = "reacquire"
        /\ \A u \in User : u # t => spc'[u] = spc[u]
    BY <1>3, Moves DEF IInv, SemaphoreLocation, BlockThread
  <2>4. SemaphoreTypeOK' /\ Consistent(sched, {})'
    BY <2>1, <2>2, <2>3 DEF IInv, SemaphoreTypeOK, CoreOK
  <2>5. SpinlockOK' /\ WaitQueueOK'
    BY <2>2, <2>3 DEF IInv, SpinlockOK, WaitQueueOK
  <2>6. WakeOK'
    BY <1>0, <2>2, <2>3 DEF IInv, WakeOK, SemaphoreTypeOK
  <2>7. SleepOK'
    BY <2>1, <2>2, <2>3 DEF IInv, SleepOK, Waiting
  <2>8. NoStrandedWaiter'
    <3>1. InFlight' = InFlight
      BY <2>2, <2>3 DEF InFlight
    <3> QED  BY <2>2, <3>1 DEF IInv, NoStrandedWaiter
  <2> QED  BY <2>4, <2>5, <2>6, <2>7, <2>8 DEF IInv
<1> QED  BY <1>1, <1>2, <1>3

\* unlock() gives a unit back, and takes a thread from the wait queue.
LEMMA GiveOK ==
    ASSUME IInv, NEW t \in User, Give(t)
    PROVE  IInv'
<1>0. CoreOK /\ NoThread \notin User /\ t # NoThread
  BY NoThreadAssumption, SchedulableFacts, UserAssumption DEF IInv, CoreOK, SemaphoreTypeOK
<1>1. CoreOK' /\ SleepersSame /\ spinlock' = spinlock
  BY <1>0, CoreSame DEF Give
<1>2. spc[t] = "give" /\ spinlock = t /\ units \in 0 .. UnitMax
  BY DEF Give, At, IInv, SpinlockOK, SemaphoreTypeOK
<1>3. PICK loc \in {"leave", "wake"} : GoTo(t, loc)
  BY DEF Give
<1>4. /\ spc' \in [User -> SemaphoreLocation]
      /\ spc'[t] = loc
      /\ \A u \in User : u # t => spc'[u] = spc[u]
  BY <1>3, Moves DEF IInv, SemaphoreLocation
\* Only the thread that holds the spinlock is about to wake somebody.
<1>5. \A u \in User : toWake[u] = NoThread
  BY <1>2 DEF IInv, WakeOK, SpinlockOK
<1>6. SpinlockOK'
  BY <1>1, <1>2, <1>4 DEF IInv, SpinlockOK
<1>7. CASE units >= UnitMax
  <2>1. UNCHANGED <<units, waitQueue, toWake>>
    BY <1>2, <1>7, UnitAssumption DEF Give
  <2>2. SemaphoreTypeOK' /\ Consistent(sched, {})'
    BY <1>1, <1>4, <2>1 DEF IInv, SemaphoreTypeOK, CoreOK
  <2>3. WaitQueueOK' /\ WakeOK'
    BY <1>2, <1>4, <1>5, <2>1 DEF IInv, WaitQueueOK, WakeOK
  <2>4. SleepOK'
    BY <1>1, <1>2, <1>4, <2>1 DEF IInv, SleepOK, SleepersSame, Waiting
  <2>5. NoStrandedWaiter'
    <3>1. InFlight' = InFlight
      BY <1>2, <1>4, <2>1 DEF InFlight
    <3> QED  BY <2>1, <3>1 DEF IInv, NoStrandedWaiter
  <2> QED  BY <1>6, <2>2, <2>3, <2>4, <2>5 DEF IInv
<1>8. CASE units < UnitMax /\ waitQueue = << >>
  <2>1. /\ units' = units + 1 /\ waitQueue' = waitQueue
        /\ toWake' = [toWake EXCEPT ![t] = NoThread]
    BY <1>2, <1>8, UnitAssumption DEF Give
  <2>2. toWake' = toWake
    BY <1>5, <2>1 DEF IInv, SemaphoreTypeOK
  <2>3. SemaphoreTypeOK' /\ Consistent(sched, {})'
    BY <1>1, <1>2, <1>4, <1>8, <2>1, <2>2, UnitAssumption DEF IInv, SemaphoreTypeOK, CoreOK
  <2>4. WaitQueueOK' /\ WakeOK'
    BY <1>2, <1>4, <1>5, <2>1, <2>2 DEF IInv, WaitQueueOK, WakeOK
  <2>5. SleepOK'
    BY <1>1, <1>2, <1>4, <2>1, <2>2 DEF IInv, SleepOK, SleepersSame, Waiting
  <2>6. NoStrandedWaiter'
    BY <1>8, <2>1 DEF NoStrandedWaiter
  <2> QED  BY <1>6, <2>3, <2>4, <2>5, <2>6 DEF IInv
<1>9. CASE units < UnitMax /\ waitQueue # << >>
  <2> DEFINE n == Head(waitQueue)
  <2>1. /\ units' = units + 1 /\ waitQueue' = Tail(waitQueue)
        /\ toWake' = [toWake EXCEPT ![t] = n] /\ GoTo(t, "wake")
    BY <1>2, <1>9, UnitAssumption DEF Give
  <2>2. /\ n \in User /\ n \in Elems(waitQueue)
        /\ waitQueue' \in Seq(User)
        /\ Elems(waitQueue') = Elems(waitQueue) \ {n}
        /\ \A i, j \in DOMAIN waitQueue' : waitQueue'[i] = waitQueue'[j] => i = j
    BY <1>9, <2>1, ElemsTail DEF IInv, SemaphoreTypeOK, WaitQueueOK
  <2> HIDE DEF n
  <2>3. spc'[t] = "wake"
    BY <2>1, Moves DEF IInv, SemaphoreLocation
  <2>4. spc[n] \in {"block", "reacquire"} /\ n # t /\ n # NoThread
    BY <1>0, <1>2, <2>2 DEF IInv, WaitQueueOK, SpinlockOK
  <2>5. /\ toWake' \in [User -> User \cup {NoThread}]
        /\ toWake'[t] = n
        /\ \A u \in User : u # t => toWake'[u] = NoThread
    BY <1>5, <2>1, <2>2 DEF IInv, SemaphoreTypeOK
  <2>6. SemaphoreTypeOK' /\ Consistent(sched, {})'
    BY <1>1, <1>2, <1>4, <1>9, <2>1, <2>2, <2>5, UnitAssumption
    DEF IInv, SemaphoreTypeOK, CoreOK
  <2>7. WaitQueueOK' /\ WakeOK'
    BY <1>2, <1>4, <2>2, <2>3, <2>4, <2>5 DEF IInv, WaitQueueOK, WakeOK
  <2>8. \A u \in User : Waiting(u)' <=> Waiting(u)
    BY <1>0, <1>5, <2>2, <2>5 DEF Waiting
  <2>9. SleepOK'
    BY <1>1, <1>2, <1>4, <2>3, <2>8 DEF IInv, SleepOK, SleepersSame
  <2>10. NoStrandedWaiter'
    <3>1. InFlight' = InFlight \cup {n} /\ n \notin InFlight
      BY <1>2, <1>4, <2>2, <2>3, <2>4 DEF InFlight
    <3>2. Cardinality(InFlight') = Cardinality(InFlight) + 1
      BY <3>1, InFlightIsFinite, FS_AddElement
    <3> QED  BY <1>2, <1>9, <2>1, <3>2, InFlightIsFinite, UnitAssumption
             DEF IInv, NoStrandedWaiter
  <2> QED  BY <1>6, <2>6, <2>7, <2>9, <2>10 DEF IInv
<1> QED  BY <1>2, <1>7, <1>8, <1>9, UnitAssumption

\* unlock() wakes the thread it has taken from the wait queue.
LEMMA WakeUpOK ==
    ASSUME IInv, NEW t \in User, Wake(t)
    PROVE  IInv'
<1>0. CoreOK /\ NoThread \notin User /\ t # NoThread
  BY NoThreadAssumption, SchedulableFacts, UserAssumption DEF IInv, CoreOK, SemaphoreTypeOK
<1> DEFINE n == toWake[t]
<1>1. n \in User \cup {NoThread}
  BY DEF IInv, SemaphoreTypeOK
<1>2. /\ CoreOK'
      /\ Pending(sched') = Pending(sched) \ {n}
      /\ Blocked(sched') = Blocked(sched) \ {n}
  <2>1. CASE n = NoThread
    <3>1. UNCHANGED core
      BY <2>1 DEF Wake, Call, core
    <3>2. NoThread \notin Thread
      BY NoThreadAssumption DEF AnyThread
    <3> QED  BY <1>0, <2>1, <3>1, <3>2, CoreSame DEF SleepersSame, Pending, Blocked, InState
  <2>2. CASE n # NoThread
    BY <1>0, <1>1, <2>2, UnblockCallOK, UserAssumption DEF Wake
  <2> QED  BY <2>1, <2>2
<1>3. UNCHANGED <<units, waitQueue, spinlock>> /\ spc[t] = "wake"
  BY DEF Wake, At
<1>4. /\ spc' \in [User -> SemaphoreLocation]
      /\ spc'[t] = "leave"
      /\ \A u \in User : u # t => spc'[u] = spc[u]
  BY Moves DEF IInv, SemaphoreLocation, Wake
<1>5. /\ toWake' \in [User -> User \cup {NoThread}]
      /\ toWake'[t] = NoThread
      /\ \A u \in User : u # t => toWake'[u] = toWake[u]
  BY DEF Wake, IInv, SemaphoreTypeOK
<1>6. \A u \in User : u # t => toWake[u] = NoThread
  BY <1>3 DEF IInv, WakeOK, SpinlockOK
<1>7. n # NoThread => n \notin Elems(waitQueue)
  BY DEF IInv, WakeOK
<1> HIDE DEF n
<1>8. SemaphoreTypeOK' /\ Consistent(sched, {})'
  BY <1>2, <1>3, <1>4, <1>5 DEF IInv, SemaphoreTypeOK, CoreOK
<1>9. SpinlockOK' /\ WaitQueueOK' /\ WakeOK'
  BY <1>3, <1>4, <1>5, <1>6 DEF IInv, SpinlockOK, WaitQueueOK, WakeOK
<1>10. \A u \in User : Waiting(u)' <=> Waiting(u) /\ u # n
  <2>1. \A u \in User : (\E v \in User : toWake'[v] = u) <=>
                        (\E v \in User : toWake[v] = u) /\ u # n
    BY <1>0, <1>1, <1>5, <1>6 DEF n
  <2> QED  BY <1>0, <1>3, <1>7, <2>1 DEF Waiting
<1>11. SleepOK'
  BY <1>2, <1>3, <1>4, <1>10 DEF IInv, SleepOK
<1>12. NoStrandedWaiter'
  <2>1. InFlight' = InFlight
    BY <1>3, <1>4 DEF InFlight
  <2> QED  BY <1>3, <2>1 DEF IInv, NoStrandedWaiter
<1> QED  BY <1>8, <1>9, <1>11, <1>12 DEF IInv

\* Every step keeps the inductive invariant.
LEMMA StepOK ==
    ASSUME IInv, [Next]_vars
    PROVE  IInv'
<1>0. CoreOK
  BY DEF IInv, CoreOK, SemaphoreTypeOK
<1>1. CASE UNCHANGED vars
  BY <1>0, <1>1, CoreSame, SameSemaphore DEF vars
<1>2. CASE CoreNext /\ UNCHANGED semaphore
  BY <1>0, <1>2, CoreNextOK, SameSemaphore
<1>3. ASSUME NEW t \in User, ReturnToUser(t) PROVE IInv'
  BY <1>0, <1>3, FlagOK, SameSemaphore DEF ReturnToUser, Sysret
<1>4. ASSUME NEW t \in User,
             Lock(t) \/ TryLock(t) \/ Unlock(t) \/ Acquire(t) \/ Leave(t) \/ Release(t)
      PROVE  IInv'
  BY <1>4, SectionOK
<1>5. ASSUME NEW t \in User, Test(t) \/ TryTest(t) PROVE IInv'
  <2>1. CASE Test(t) /\ units > 0
    BY <2>1, TakeOK DEF Test, IInv, SemaphoreTypeOK
  <2>2. CASE TryTest(t)
    BY <2>2, TakeOK DEF TryTest
  <2> QED  BY <1>5, <2>1, <2>2, FallAsleepOK
<1>6. ASSUME NEW t \in User, Mark(t) \/ BlockThread(t) PROVE IInv'
  BY <1>6, FallAsleepOK
<1> QED  BY <1>1, <1>2, <1>3, <1>4, <1>5, <1>6, GiveOK, WakeUpOK DEF Next, FunctionStep

----------------------------------------------------------------------------
(***************************************************************************)
(* Theorems                                                                *)
(***************************************************************************)
\* The inductive invariant holds in every reachable state.
THEOREM Invariance == Spec => []IInv
<1>1. Init => IInv
  BY InitOK
<1>2. IInv /\ [Next]_vars => IInv'
  BY StepOK
<1> QED  BY <1>1, <1>2, PTL DEF Spec

\* The variables keep their types: the units stay within 0 and the maximum.
THEOREM TypeCorrect == Spec => []SemaphoreTypeOK
<1>1. IInv => SemaphoreTypeOK
  BY DEF IInv
<1> QED  BY <1>1, Invariance, PTL

\* While threads wait, every unit has a thread on its way to it.
THEOREM NoneIsStranded == Spec => []NoStrandedWaiter
<1>1. IInv => NoStrandedWaiter
  BY DEF IInv
<1> QED  BY <1>1, Invariance, PTL

\* A blocked thread is in the wait queue or about to be unblocked.
THEOREM WaitersAreKnown == Spec => []NoForgottenWaiter
<1>1. IInv => NoForgottenWaiter
  BY SchedulableFacts, UserAssumption DEF IInv, NoForgottenWaiter, SleepOK, Waiting, Blocked, InState
<1> QED  BY <1>1, Invariance, PTL
=============================================================================
