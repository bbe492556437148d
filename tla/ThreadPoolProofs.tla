-------------------------- MODULE ThreadPoolProofs --------------------------
(***************************************************************************)
(* Theorems about ThreadPool, for any number of workers, submitters and    *)
(* tasks.                                                                  *)
(*                                                                         *)
(* That the pool does not sleep on a task (NoSleepingPool) rests on what a *)
(* worker has seen under the mutex and still holds when it acts on it      *)
(* (TestOK): it goes to sleep with the queue empty and the pool running,   *)
(* and leaves with the queue empty and the pool stopped.  That in turn     *)
(* needs the mutex to exclude (MutexOK), the condition variable to hold    *)
(* those that sleep and no others (CvOK), and the phases of the pool:      *)
(* nobody submits once it is stopped (PhaseOK), and no worker runs before  *)
(* it is started (NewOK).                                                  *)
(***************************************************************************)
EXTENDS ThreadPool, SchedulerProofs, WellFoundedInduction

SubmitPlace == {"out", "submit", "add", "notify", "added"}
OwnerPlace  == SubmitPlace \cup {"new", "start", "destroy", "stop", "unstop", "wakeall",
                                 "join", "joined", "gone"}
WorkerPlace == {"wlock", "test", "sleep", "wait", "block", "relock", "take", "taken",
                "exec", "leave", "exit", "ended", "freed"}

\* The places a thread is at with the mutex.
Critical == {"add", "notify", "added", "stop", "unstop", "test", "sleep", "wait",
             "take", "taken", "leave"}

\* The places of the owner before start() and after the end of the pool.
NotRunning == {"new", "unstop", "wakeall", "join", "joined", "gone"}

\* Each thread is in the functions it may call.
PlacesOf(t) ==
    IF t \in Worker THEN WorkerPlace ELSE IF t = Owner THEN OwnerPlace ELSE SubmitPlace

PlaceOK ==
    /\ pc \in [User -> OwnerPlace \cup WorkerPlace]
    /\ \A t \in User : pc[t] \in PlacesOf(t)

\* In front of, or inside of, lock() and unlock().
LockPlace   == {"submit", "wlock", "relock", "destroy"}
UnlockPlace == {"added", "wait", "taken", "leave", "unstop"}

\* unlock() has made t the owner, but t is not out of lock() yet.
Handed(t) == mpc[t] \in {"block", "woken"} /\ t \notin Elems(lockQueue)

\* t sleeps in lock(), or is about to, and nobody has unblocked it.
Waits(t) == t \in Elems(lockQueue) \/ \E u \in User : toWake[u] = t

\* Where a thread is in the code of the mutex.
StepOfOK ==
    \A t \in User : /\ mpc[t] \in {"queue", "block", "woken"} => pc[t] \in LockPlace
                    /\ mpc[t] = "release" => pc[t] \in UnlockPlace

\* One thread has the mutex, from the exchange or the handoff to the section of
\* unlock(); it may be free while others queue for it.
HolderOK ==
    /\ \A t \in User : holder = t <=> (pc[t] \in Critical /\ mpc[t] # "release") \/ Handed(t)
    /\ holder # NoThread => locked

\* At most one unlock() is past its section, and it is to wake the owner.
ReleaseOK ==
    /\ \A t \in User : mpc[t] = "release" =>
          locked /\ toWake[t] = holder /\ (holder # NoThread => Handed(holder))
    /\ \A t \in User : mpc[t] # "release" => toWake[t] = NoThread
    /\ \A t, u \in User : mpc[t] = "release" /\ mpc[u] = "release" => t = u

\* Those in the queue, and the one that is to be woken, are marked or blocked.
LockQueueOK ==
    /\ \A i, j \in DOMAIN lockQueue : lockQueue[i] = lockQueue[j] => i = j
    /\ \A t \in User : Waits(t) =>
          \/ mpc[t] = "block" /\ t \in Pending(sched)
          \/ mpc[t] = "woken" /\ t \in Blocked(sched)

MutexOK == StepOfOK /\ HolderOK /\ ReleaseOK /\ LockQueueOK

\* The condition variable: a waiter is marked, or blocked.
CvOK ==
    /\ \A i, j \in DOMAIN waiters : waiters[i] = waiters[j] => i = j
    /\ \A t \in User : t \in Elems(waiters) =>
          \/ pc[t] \in {"wait", "block"} /\ t \in Pending(sched)
          \/ pc[t] = "relock" /\ mpc[t] = "out" /\ t \in Blocked(sched)
    /\ \A t \in User : t \in Pending(sched) => t \in Elems(waiters) \/ Waits(t)

\* Whoever is blocked waits for something.
BlockedOK ==
    /\ \A t \in User : t \in Blocked(sched) =>
          Waits(t) \/ t \in Elems(waiters) \/ (t = Owner /\ pc[t] = "joined")
    /\ Owner \in Blocked(sched) /\ pc[Owner] = "joined" => Unfreed # {}

\* A worker is stopped from the end of its function on.
EndOK == \A t \in User : t \in Stopped(sched) <=> pc[t] \in {"ended", "freed"}

\* A task is in one place.
TaskOK ==
    /\ \A t \in User : task[t] # 0 <=> pc[t] \in {"submit", "add", "taken", "exec"}
    /\ \A t, u \in User : task[t] = task[u] /\ task[t] # 0 => t = u
    /\ \A i, j \in DOMAIN tasks : tasks[i] = tasks[j] => i = j
    /\ \A t \in User : task[t] \notin Elems(tasks) /\ task[t] \notin done
    /\ Elems(tasks) \cap done = {}
    /\ \A t \in User : task[t] <= submitted
    /\ Elems(tasks) \cup done \subseteq 1 .. submitted
    /\ \A n \in 1 .. submitted :
          n \in Elems(tasks) \/ n \in done \/ \E t \in User : task[t] = n

\* What a worker has seen of the pool still holds.
TestOK ==
    \A w \in Worker :
        /\ pc[w] = "take" => tasks # << >> \/ ~running
        /\ pc[w] = "sleep" => tasks = << >> /\ running
        /\ pc[w] \in {"leave", "exit", "ended", "freed"} => tasks = << >> /\ ~running

\* The owner starts, stops and joins.
PhaseOK ==
    /\ running <=> pc[Owner] \notin NotRunning
    /\ pc[Owner] \in NotRunning \cup {"destroy", "stop"} =>
          \A t \in Submitter \ {Owner} : pc[t] = "out"
    /\ pc[Owner] \in {"join", "joined", "gone"} => waiters = << >>
    /\ pc[Owner] = "gone" => Unfreed = {}

\* No worker is scheduled before the pool is started.
NewOK == pc[Owner] = "new" => \A w \in Worker : pc[w] = "wlock" /\ Outside(sched, w)

IInv ==
    /\ PoolTypeOK /\ Consistent(sched, {}) /\ PlaceOK
    /\ MutexOK /\ CvOK /\ BlockedOK /\ EndOK
    /\ TaskOK /\ TestOK /\ PhaseOK /\ NewOK /\ NoSleepingPool

----------------------------------------------------------------------------
(***************************************************************************)
(* The threads of the pool                                                 *)
(***************************************************************************)
\* Workers and submitters are different users, and there is a worker.
LEMMA PoolFacts ==
    /\ Worker \subseteq User /\ Submitter \subseteq User
    /\ Owner \in User /\ Owner \in Submitter
    /\ \A t \in User : t \in Worker <=> t \notin Submitter
    /\ NoThread \notin User
    /\ \E w \in User : w \in Worker
    /\ MaxTasks \in Nat
<1>1. NoThread \notin User
  BY PoolAssumption, SchedulableFacts, UserAssumption
<1>2. PoolThreads[1] \in Worker
  <2>1. Len(PoolThreads) \in Nat /\ Len(PoolThreads) # 0
        /\ DOMAIN PoolThreads = 1 .. Len(PoolThreads)
    BY PoolAssumption, LenProperties, EmptySeq
  <2> QED  BY <2>1 DEF Worker, Elems
<1> QED  BY <1>1, <1>2, PoolAssumption

\* Some workers have a first one.
LEMMA FirstOfIsOne ==
    ASSUME NEW S \in SUBSET Worker, S # {}
    PROVE  FirstOf(S) \in S
<1> DEFINE T == {i \in DOMAIN PoolThreads : PoolThreads[i] \in S}
<1>1. DOMAIN PoolThreads \subseteq Nat
  BY PoolAssumption, LenProperties
<1>2. T \subseteq Nat /\ T # {}
  BY <1>1 DEF Worker, Elems
<1>3. PICK i \in T : \A j \in T : <<j, i>> \notin OpToRel(<, Nat)
  BY <1>2, NatLessThanWellFounded, WFMin
<1>4. \A j \in T : ~(j < i)
  BY <1>2, <1>3 DEF OpToRel
<1>5. DOMAIN PoolThreads = 1 .. Len(PoolThreads) /\ Len(PoolThreads) \in Nat
  BY PoolAssumption, LenProperties
<1>6. \A j \in 1 .. i - 1 : PoolThreads[j] \notin S
  BY <1>4, <1>5
<1>7. PoolThreads[i] \in S /\ i \in DOMAIN PoolThreads
  BY <1>3
<1>8. \E w \in S : \E k \in DOMAIN PoolThreads :
         w = PoolThreads[k] /\ \A j \in 1 .. k - 1 : PoolThreads[j] \notin S
  BY <1>6, <1>7
<1> QED  BY <1>8 DEF FirstOf

\* A thread moves on in the code of the pool.
LEMMA Moves ==
    ASSUME PlaceOK, NEW t \in User, NEW place \in PlacesOf(t), GoTo(t, place)
    PROVE  /\ PlaceOK'
           /\ pc'[t] = place
           /\ \A u \in User : u # t => pc'[u] = pc[u]
<1>1. place \in OwnerPlace \cup WorkerPlace
  BY DEF PlacesOf, OwnerPlace
<1> QED  BY <1>1 DEF PlaceOK, GoTo

\* Where a submitter and where a worker can be.
LEMMA Roles ==
    ASSUME PlaceOK
    PROVE  /\ pc[Owner] \in OwnerPlace
           /\ \A t \in Submitter : t # Owner => pc[t] \in SubmitPlace
           /\ \A w \in Worker : pc[w] \in WorkerPlace
BY PoolFacts DEF PlaceOK, PlacesOf

\* Who executes has the mutex in the critical places, and is not about to be woken.
LEMMA OnCpuFacts ==
    ASSUME IInv, NEW t \in User, OnCpu(t)
    PROVE  /\ CoreOK
           /\ t \notin Blocked(sched) /\ t \notin Stopped(sched)
           /\ pc[t] \notin LockPlace => ~Waits(t)
           /\ pc[t] \notin LockPlace \cup UnlockPlace => mpc[t] = "out"
           /\ pc[t] \notin LockPlace /\ mpc[t] # "release" => (pc[t] \in Critical <=> holder = t)
           /\ t \in Elems(waiters) => pc[t] \in {"wait", "block"} /\ t \in Pending(sched)
           /\ pc[t] \notin {"ended", "freed"}
           /\ pc[t] \notin {"new", "out"} => pc[Owner] # "new"
<1>1. CoreOK /\ PlaceOK
  BY DEF IInv, PoolTypeOK, CoreOK
<1>2. t \notin Blocked(sched) /\ t \notin Stopped(sched)
  BY <1>1, OnCpuIsAwake, UserAssumption DEF OnCpu
<1>3. ASSUME pc[Owner] = "new" PROVE pc[t] \in {"new", "out"}
  <2>1. t \notin Worker
    BY <1>3 DEF IInv, NewOK, Outside, OnCpu
  <2> QED  BY <1>3, <2>1, PoolFacts DEF IInv, PhaseOK, NotRunning
<1>4. mpc[t] \in {"out", "queue", "block", "woken", "release"}
  BY DEF IInv, PoolTypeOK
<1>5. pc[t] \notin LockPlace => mpc[t] \in {"out", "release"} /\ ~Waits(t) /\ ~Handed(t)
  BY <1>4 DEF IInv, MutexOK, StepOfOK, LockQueueOK, Handed
<1>6. pc[t] \notin LockPlace \cup UnlockPlace => mpc[t] = "out"
  BY <1>5 DEF IInv, MutexOK, StepOfOK
<1>7. pc[t] \notin LockPlace /\ mpc[t] # "release" => (pc[t] \in Critical <=> holder = t)
  BY <1>5 DEF IInv, MutexOK, HolderOK
<1> QED  BY <1>1, <1>2, <1>3, <1>5, <1>6, <1>7 DEF IInv, CvOK, EndOK

----------------------------------------------------------------------------
(***************************************************************************)
(* Parts of the invariant that many steps keep for the same reason         *)
(***************************************************************************)
\* A step of the core changes neither who sleeps nor, for a thread that is neither
\* running nor queued, that it is not.
LEMMA CoreStepOK ==
    ASSUME CoreOK, CoreNext
    PROVE  /\ CoreOK' /\ SleepersSame
           /\ \A t \in Thread : Outside(sched, t) => Outside(sched', t)
<1>1. CoreOK' /\ SleepersSame
  BY CoreNextOK
<1>2. ASSUME NEW t \in Thread, Outside(sched, t) PROVE Outside(sched', t)
  <2>1. CASE Tick
    <3>1. sched \in Sched /\ LevelsOK(sched.ready)
          /\ (sched.running \in Thread => CanEnqueue(sched.running))
      BY DEF CoreOK, CoreTypeOK, Consistent, QueueOK, StatesOK
    <3> QED  BY <1>2, <2>1, <3>1, SwitchLeavesOutside DEF Tick, PreemptRunningThread
  <2>2. CASE UNCHANGED sched
    BY <1>2, <2>2
  <2> QED  BY <2>1, <2>2 DEF CoreNext, Iret, IdleLoop
<1> QED  BY <1>1, <1>2

\* A step that leaves the mutex alone, and those that wait for it asleep.
LEMMA MutexStays ==
    ASSUME MutexOK, UNCHANGED mutex,
           \A u \in User : \/ pc'[u] = pc[u]
                           \/ mpc[u] = "out" /\ (pc'[u] \in Critical <=> pc[u] \in Critical),
           \A u \in User : Waits(u) =>
               /\ u \in Pending(sched) => u \in Pending(sched')
               /\ u \in Blocked(sched) => u \in Blocked(sched')
    PROVE  MutexOK' /\ \A u \in User : Waits(u)' <=> Waits(u)
<1>1. UNCHANGED <<locked, holder, lockQueue, toWake, mpc>>
  BY DEF mutex
<1>2. \A u \in User : (Waits(u)' <=> Waits(u)) /\ (Handed(u)' <=> Handed(u))
  BY <1>1 DEF Waits, Handed
<1>3. StepOfOK'
  BY <1>1 DEF MutexOK, StepOfOK
<1>4. HolderOK'
  BY <1>1, <1>2 DEF MutexOK, HolderOK
<1>5. ReleaseOK'
  BY <1>1 DEF MutexOK, ReleaseOK, Handed
<1>6. LockQueueOK'
  BY <1>1, <1>2 DEF MutexOK, LockQueueOK
<1> QED  BY <1>2, <1>3, <1>4, <1>5, <1>6 DEF MutexOK

\* A step that leaves the pool alone.
LEMMA SamePool ==
    ASSUME IInv, CoreOK', SleepersSame, UNCHANGED <<mutex, pool, book, savedIrq, pc>>,
           pc[Owner] = "new" => \A t \in Thread : Outside(sched, t) => Outside(sched', t)
    PROVE  IInv'
<1>1. UNCHANGED <<locked, holder, lockQueue, toWake, mpc, waiters, tasks, running, submitted, task, done,
                savedIrq, pc>>
  BY DEF mutex, pool, book
<1>2. PoolTypeOK' /\ Consistent(sched, {})'
  BY <1>1 DEF IInv, CoreOK, PoolTypeOK
<1>3. PlaceOK' /\ TaskOK' /\ TestOK' /\ PhaseOK' /\ NoSleepingPool'
  BY <1>1 DEF IInv, PlaceOK, TaskOK, TestOK, PhaseOK, NoSleepingPool, Unfreed
<1>4. MutexOK' /\ \A u \in User : Waits(u)' <=> Waits(u)
  BY <1>1, MutexStays DEF IInv, SleepersSame
<1>5. CvOK' /\ BlockedOK' /\ EndOK'
  BY <1>1, <1>4 DEF IInv, CvOK, BlockedOK, EndOK, SleepersSame, Unfreed
<1>6. NewOK'
  BY <1>1, PoolFacts, SchedulableFacts, UserAssumption DEF IInv, NewOK
<1> QED  BY <1>2, <1>3, <1>4, <1>5, <1>6 DEF IInv

\* The places of a step that is nothing to the scheduler, the mutex and the
\* condition variable.
QuietMove(a, b) ==
    /\ a \in Critical <=> b \in Critical
    /\ a \notin LockPlace \cup UnlockPlace \cup {"block"}
    /\ b \notin {"ended", "freed"}

\* Such a step keeps what the invariant says of those three.
LEMMA QuietStep ==
    ASSUME IInv, NEW t \in User, OnCpu(t), NEW place \in PlacesOf(t), GoTo(t, place),
           QuietMove(pc[t], place), UNCHANGED <<sched, mutex, waiters>>
    PROVE  /\ PlaceOK' /\ pc'[t] = place /\ \A u \in User : u # t => pc'[u] = pc[u]
           /\ MutexOK' /\ CvOK' /\ BlockedOK' /\ EndOK'
<1>1. /\ PlaceOK' /\ pc'[t] = place
      /\ \A u \in User : u # t => pc'[u] = pc[u]
  BY Moves DEF IInv
<1>2. /\ t \notin Blocked(sched) /\ t \notin Stopped(sched)
      /\ ~Waits(t) /\ mpc[t] = "out" /\ t \notin Elems(waiters)
      /\ pc[t] \notin {"ended", "freed"}
  BY OnCpuFacts DEF QuietMove, UnlockPlace
<1>3. UNCHANGED <<mpc, waiters, sched>>
  BY DEF mutex
<1>4. MutexOK' /\ \A u \in User : Waits(u)' <=> Waits(u)
  BY <1>1, <1>2, <1>3, MutexStays DEF IInv, QuietMove
<1>5. CvOK'
  BY <1>1, <1>2, <1>3, <1>4 DEF IInv, CvOK
<1>6. EndOK'
  BY <1>1, <1>2, <1>3 DEF IInv, EndOK, QuietMove
<1>7. Unfreed' = Unfreed
  BY <1>1, <1>2, PoolFacts DEF Unfreed, QuietMove
<1>8. BlockedOK'
  BY <1>1, <1>2, <1>3, <1>4, <1>7, PoolFacts DEF IInv, BlockedOK
<1> QED  BY <1>1, <1>4, <1>5, <1>6, <1>8

\* The places of a step that is nothing to the tasks and the phases of the pool.
IdleMove(a, b) ==
    \/ a = "submit" /\ b = "add"
    \/ a \in {"wlock", "relock"} /\ b = "test"
    \/ a = "destroy" /\ b = "stop"
    \/ a = "notify" /\ b = "added"
    \/ a = "added" /\ b = "out"
    \/ a = "wait" /\ b = "block"
    \/ a = "block" /\ b = "relock"
    \/ a = "sleep" /\ b = "wait"
    \/ a = "taken" /\ b = "exec"
    \/ a = "leave" /\ b = "exit"
    \/ a = "exit" /\ b = "ended"
    \/ a = "unstop" /\ b = "wakeall"
    \/ a = "join" /\ b = "joined"
    \/ a = "joined" /\ b = "join"

\* Such a step keeps what the invariant says of those two.
LEMMA IdleStep ==
    ASSUME IInv, NEW t \in User, OnCpu(t), NEW place,
           pc'[t] = place, \A u \in User : u # t => pc'[u] = pc[u],
           IdleMove(pc[t], place), UNCHANGED <<tasks, running, book>>,
           waiters = << >> => waiters' = << >> \/ pc[t] = "sleep"
    PROVE  TaskOK' /\ TestOK' /\ PhaseOK' /\ NewOK'
<1>1. UNCHANGED <<tasks, running, submitted, task, done>>
  BY DEF book
<1>2. TaskOK'
  <2>1. \A u \in User : pc'[u] \in {"submit", "add", "taken", "exec"}
                        <=> pc[u] \in {"submit", "add", "taken", "exec"}
    BY DEF IdleMove
  <2> QED  BY <1>1, <2>1 DEF IInv, TaskOK
<1>3. TestOK'
  BY <1>1, PoolFacts DEF IInv, TestOK, IdleMove
<1>4. pc[Owner] # "new" /\ pc'[Owner] # "new"
  BY OnCpuFacts, PoolFacts DEF IdleMove
<1>5. NewOK'
  BY <1>4 DEF NewOK
<1>6. PhaseOK'
  <2>1. PlaceOK
    BY DEF IInv
  <2>2. Unfreed' = Unfreed
    BY PoolFacts, OnCpuFacts DEF Unfreed, IdleMove
  <2>3. running' <=> pc'[Owner] \notin NotRunning
    BY <1>1, PoolFacts DEF IInv, PhaseOK, IdleMove, NotRunning
  <2>4. pc'[Owner] \in NotRunning \cup {"destroy", "stop"} =>
           \A u \in Submitter \ {Owner} : pc'[u] = "out"
    BY PoolFacts DEF IInv, PhaseOK, IdleMove, NotRunning
  <2>5. pc'[Owner] \in {"join", "joined", "gone"} => waiters' = << >>
    BY <2>1, Roles, PoolFacts DEF IInv, PhaseOK, IdleMove, TestOK, NotRunning, OwnerPlace, SubmitPlace
  <2>6. pc'[Owner] = "gone" => Unfreed' = {}
    BY <2>2, PoolFacts DEF IInv, PhaseOK, IdleMove
  <2> QED  BY <2>3, <2>4, <2>5, <2>6 DEF PhaseOK
<1> QED  BY <1>2, <1>3, <1>5, <1>6

\* Moves that put no worker to sleep, while the queue and the waiters stay.
LEMMA StillAwake ==
    ASSUME IInv, NEW t \in User, UNCHANGED <<tasks, waiters>>, PhaseOK',
           \A u \in User : u # t => pc'[u] = pc[u],
           pc[t] # "notify",
           pc'[t] \notin {"exit", "ended", "freed"} \/ pc[t] \in {"exit", "ended", "freed"}
    PROVE  NoSleepingPool'
<1>1. PlaceOK
  BY DEF IInv
<1>2. ASSUME \A w \in Worker : w \in Elems(waiters') \/ pc'[w] \in {"exit", "ended", "freed"}
      PROVE  \A w \in Worker : w \in Elems(waiters) \/ pc[w] \in {"exit", "ended", "freed"}
  BY <1>2, PoolFacts
<1>3. \A u \in Submitter : pc[u] = "notify" => pc'[u] = "notify"
  BY PoolFacts
<1> QED  BY <1>1, <1>2, <1>3 DEF IInv, NoSleepingPool, PhaseOK

----------------------------------------------------------------------------
(***************************************************************************)
(* Steps that leave the scheduler and the mutex alone                      *)
(***************************************************************************)
\* Who is between lock() and unlock() has the mutex.
LEMMA InsideHolds ==
    ASSUME IInv, NEW t \in User, pc[t] \in {"take", "sleep"}
    PROVE  holder = t
BY DEF IInv, MutexOK, StepOfOK, HolderOK, UnlockPlace, Critical

\* The test of the predicate, and what follows from it.
LEMMA TestStepOK ==
    ASSUME IInv, NEW w \in Worker, Test(w)
    PROVE  IInv'
<1>0. w \in User /\ OnCpu(w) /\ pc[w] = "test" /\ PlacesOf(w) = WorkerPlace
  BY PoolFacts DEF Test, At, PlacesOf
<1>1. PICK place \in {"take", "sleep"} :
         GoTo(w, place) /\ place = IF tasks # << >> \/ ~running THEN "take" ELSE "sleep"
  BY DEF Test
<1>2. UNCHANGED <<sched, irqOn, frames, mutex, waiters, tasks, running, submitted, task, done, savedIrq>>
  BY DEF Test, core, pool, book
<1>3. /\ PlaceOK' /\ pc'[w] = place /\ \A u \in User : u # w => pc'[u] = pc[u]
      /\ MutexOK' /\ CvOK' /\ BlockedOK' /\ EndOK'
  BY <1>0, <1>1, <1>2, QuietStep DEF WorkerPlace, QuietMove, Critical, LockPlace, UnlockPlace
<1>4. PoolTypeOK' /\ Consistent(sched, {})'
  BY <1>2, <1>3 DEF IInv, PoolTypeOK, CoreTypeOK, PlaceOK, mutex
<1>5. TaskOK'
  BY <1>0, <1>2, <1>3 DEF IInv, TaskOK
<1>6. TestOK'
  BY <1>0, <1>1, <1>2, <1>3, PoolFacts DEF IInv, TestOK, PoolTypeOK
<1>7. pc[Owner] # "new" /\ w # Owner /\ pc'[Owner] = pc[Owner]
  BY <1>0, <1>3, OnCpuFacts, PoolFacts
<1>8. PhaseOK' /\ NewOK'
  BY <1>0, <1>2, <1>3, <1>7, PoolFacts DEF IInv, PhaseOK, NewOK, Unfreed
<1>9. NoSleepingPool'
  BY <1>0, <1>2, <1>3, <1>8, StillAwake
<1> QED  BY <1>3, <1>4, <1>5, <1>6, <1>8, <1>9 DEF IInv

\* A worker leaves, or takes a task: it had the mutex since the test.
LEMMA TakeStepOK ==
    ASSUME IInv, NEW w \in Worker, Take(w)
    PROVE  IInv'
<1>0. w \in User /\ OnCpu(w) /\ pc[w] = "take" /\ PlacesOf(w) = WorkerPlace
  BY PoolFacts DEF Take, At, PlacesOf
<1>1. UNCHANGED <<sched, irqOn, frames, mutex, waiters, running, submitted, done, savedIrq>>
  BY DEF Take, core
<1>2. pc[Owner] # "new" /\ w # Owner /\ holder = w
  BY <1>0, OnCpuFacts, PoolFacts DEF Critical, LockPlace, UnlockPlace
<1>3. w \notin Elems(waiters) /\ \A u \in User : u # w => pc[u] \notin {"take", "sleep"}
  BY <1>0, <1>2, OnCpuFacts, InsideHolds
<1>4. CASE Leaves
  <2>1. GoTo(w, "leave") /\ UNCHANGED <<task, tasks>>
    BY <1>4 DEF Take
  <2>2. /\ PlaceOK' /\ pc'[w] = "leave" /\ \A u \in User : u # w => pc'[u] = pc[u]
        /\ MutexOK' /\ CvOK' /\ BlockedOK' /\ EndOK'
    BY <1>0, <1>1, <2>1, QuietStep DEF WorkerPlace, QuietMove, Critical, LockPlace, UnlockPlace
  <2>3. PoolTypeOK' /\ Consistent(sched, {})'
    BY <1>1, <2>1, <2>2 DEF IInv, PoolTypeOK, CoreTypeOK, PlaceOK, mutex
  <2>4. TaskOK'
    BY <1>0, <1>1, <2>1, <2>2 DEF IInv, TaskOK
  <2>5. TestOK'
    BY <1>0, <1>1, <1>4, <2>1, <2>2, PoolFacts DEF IInv, TestOK, Leaves
  <2>6. PhaseOK' /\ NewOK'
    BY <1>0, <1>1, <1>2, <2>2, PoolFacts DEF IInv, PhaseOK, NewOK, Unfreed
  <2>7. NoSleepingPool'
    BY <1>0, <1>1, <2>1, <2>2, <2>6, StillAwake
  <2> QED  BY <2>2, <2>3, <2>4, <2>5, <2>6, <2>7 DEF IInv
<1>5. CASE ~Leaves
  <2> DEFINE n == Head(tasks)
  <2>1. GoTo(w, "taken") /\ task' = [task EXCEPT ![w] = n] /\ tasks' = Tail(tasks)
    BY <1>5 DEF Take
  <2>2. /\ PlaceOK' /\ pc'[w] = "taken" /\ \A u \in User : u # w => pc'[u] = pc[u]
        /\ MutexOK' /\ CvOK' /\ BlockedOK' /\ EndOK'
    BY <1>0, <1>1, <2>1, QuietStep DEF WorkerPlace, QuietMove, Critical, LockPlace, UnlockPlace
  \* What remove_front() returns is a task: the queue is not empty.
  <2>3. tasks # << >>
    BY <1>0, <1>5 DEF IInv, TestOK, Leaves
  <2>4. /\ n \in 1 .. MaxTasks /\ tasks' \in Seq(1 .. MaxTasks) /\ n \in Elems(tasks)
        /\ Elems(tasks') = Elems(tasks) \ {n}
        /\ \A i, j \in DOMAIN tasks' : tasks'[i] = tasks'[j] => i = j
    BY <2>1, <2>3, ElemsTail DEF IInv, PoolTypeOK, TaskOK
  <2> HIDE DEF n
  <2>5. /\ task' \in [User -> 0 .. MaxTasks] /\ task'[w] = n
        /\ \A u \in User : u # w => task'[u] = task[u]
    BY <1>0, <2>1, <2>4, PoolFacts DEF IInv, PoolTypeOK
  <2>6. PoolTypeOK' /\ Consistent(sched, {})'
    BY <1>1, <2>2, <2>4, <2>5 DEF IInv, PoolTypeOK, CoreTypeOK, PlaceOK, mutex
  <2>7. TaskOK'
    <3>1. task[w] = 0 /\ n # 0 /\ n <= submitted /\ submitted \in Nat /\ n \notin done
      <4>1. task[w] = 0
        BY <1>0 DEF IInv, TaskOK
      <4>2. submitted \in Nat
        BY PoolFacts DEF IInv, PoolTypeOK
      <4>3. n \in 1 .. submitted /\ n \notin done
        BY <2>4 DEF IInv, TaskOK
      <4> QED  BY <4>1, <4>2, <4>3
    <3>2. \A u \in User : task[u] # n
      BY <2>4 DEF IInv, TaskOK
    <3>3. \A u \in User : task'[u] # 0 <=> pc'[u] \in {"submit", "add", "taken", "exec"}
      BY <1>0, <2>2, <2>5, <3>1 DEF IInv, TaskOK
    <3>4. \A t, u \in User : task'[t] = task'[u] /\ task'[t] # 0 => t = u
      BY <2>5, <3>2 DEF IInv, TaskOK
    <3>5. \A u \in User : task'[u] \notin Elems(tasks') /\ task'[u] \notin done'
                           /\ task'[u] <= submitted'
      BY <1>1, <2>4, <2>5, <3>1 DEF IInv, TaskOK
    <3>6. Elems(tasks') \cap done' = {} /\ Elems(tasks') \cup done' \subseteq 1 .. submitted'
      BY <1>1, <2>4 DEF IInv, TaskOK
    <3>7. ASSUME NEW k \in 1 .. submitted'
          PROVE  k \in Elems(tasks') \/ k \in done' \/ \E u \in User : task'[u] = k
      <4>1. CASE k = n
        BY <1>0, <2>5, <4>1
      <4>2. CASE k # n
        <5>1. k \in Elems(tasks) \/ k \in done \/ \E u \in User : task[u] = k
          BY <1>1, <3>7 DEF IInv, TaskOK
        <5>2. \A u \in User : task[u] = k => u # w
          BY <1>1, <3>1, <3>7
        <5> QED  BY <1>1, <2>4, <2>5, <4>2, <5>1, <5>2
      <4> QED  BY <4>1, <4>2
    <3> QED  BY <2>4, <3>3, <3>4, <3>5, <3>6, <3>7 DEF TaskOK
  <2>8. TestOK'
    <3>1. ASSUME NEW u \in Worker, pc'[u] \in {"leave", "exit", "ended", "freed"} PROVE FALSE
      BY <1>0, <2>2, <2>3, <3>1, PoolFacts DEF IInv, TestOK
    <3> QED  BY <1>0, <1>3, <2>2, <3>1, PoolFacts DEF TestOK
  <2>9. PhaseOK' /\ NewOK'
    BY <1>0, <1>1, <1>2, <2>2, PoolFacts DEF IInv, PhaseOK, NewOK, Unfreed
  <2>10. NoSleepingPool'
    BY <1>1, <1>3, <2>2 DEF NoSleepingPool
  <2> QED  BY <2>2, <2>6, <2>7, <2>8, <2>9, <2>10 DEF IInv
<1> QED  BY <1>4, <1>5

\* A worker has run its task.
LEMMA ExecStepOK ==
    ASSUME IInv, NEW w \in Worker, Exec(w)
    PROVE  IInv'
<1>0. w \in User /\ OnCpu(w) /\ pc[w] = "exec" /\ PlacesOf(w) = WorkerPlace
  BY PoolFacts DEF Exec, At, PlacesOf
<1>1. /\ UNCHANGED <<sched, irqOn, frames, mutex, waiters, tasks, running, submitted, savedIrq>>
      /\ GoTo(w, "wlock") /\ done' = done \cup {task[w]} /\ task' = [task EXCEPT ![w] = 0]
  BY DEF Exec, core, pool
<1>2. pc[Owner] # "new" /\ w # Owner
  BY <1>0, OnCpuFacts, PoolFacts
<1>3. /\ PlaceOK' /\ pc'[w] = "wlock" /\ \A u \in User : u # w => pc'[u] = pc[u]
      /\ MutexOK' /\ CvOK' /\ BlockedOK' /\ EndOK'
  BY <1>0, <1>1, QuietStep DEF WorkerPlace, QuietMove, Critical, LockPlace, UnlockPlace
<1>4. /\ task' \in [User -> 0 .. MaxTasks] /\ task'[w] = 0
      /\ \A u \in User : u # w => task'[u] = task[u]
  BY <1>0, <1>1, PoolFacts DEF IInv, PoolTypeOK
<1> DEFINE n == task[w]
<1>5. n \in 1 .. MaxTasks /\ submitted \in Nat /\ n \in 1 .. submitted
  <2>1. n \in 0 .. MaxTasks /\ n # 0 /\ n <= submitted /\ submitted \in 0 .. MaxTasks
    BY <1>0 DEF IInv, PoolTypeOK, TaskOK
  <2> QED  BY <2>1, PoolFacts
<1>6. \A u \in User : u # w => task[u] # n
  BY <1>0, <1>5 DEF IInv, TaskOK
<1>7. n \notin Elems(tasks)
  BY <1>0 DEF IInv, TaskOK
<1>8. done' = done \cup {n}
  BY <1>1
<1> HIDE DEF n
<1>9. PoolTypeOK' /\ Consistent(sched, {})'
  BY <1>1, <1>3, <1>4, <1>5, <1>8 DEF IInv, PoolTypeOK, CoreTypeOK, PlaceOK, mutex
<1>10. TaskOK'
  <2>1. \A u \in User : task'[u] # 0 <=> pc'[u] \in {"submit", "add", "taken", "exec"}
    BY <1>3, <1>4 DEF IInv, TaskOK
  <2>2. \A t, u \in User : task'[t] = task'[u] /\ task'[t] # 0 => t = u
    BY <1>4 DEF IInv, TaskOK
  <2>3. 0 \notin done /\ 0 \notin Elems(tasks)
    BY DEF IInv, TaskOK
  <2>4. \A u \in User : task'[u] \notin Elems(tasks') /\ task'[u] \notin done'
    BY <1>1, <1>4, <1>5, <1>6, <1>8, <2>3 DEF IInv, TaskOK
  <2>5. \A u \in User : task'[u] <= submitted'
    BY <1>1, <1>4, <1>5 DEF IInv, TaskOK
  <2>6. Elems(tasks') \cap done' = {} /\ Elems(tasks') \cup done' \subseteq 1 .. submitted'
    BY <1>1, <1>5, <1>7, <1>8 DEF IInv, TaskOK
  <2>7. ASSUME NEW k \in 1 .. submitted', k \notin Elems(tasks'), k \notin done'
        PROVE  \E u \in User : task'[u] = k
    <3>1. PICK u \in User : task[u] = k
      BY <1>1, <1>8, <2>7 DEF IInv, TaskOK
    <3>2. u # w
      BY <1>8, <2>7, <3>1 DEF n
    <3> QED  BY <1>4, <3>1, <3>2
  <2> QED  BY <1>1, <2>1, <2>2, <2>4, <2>5, <2>6, <2>7 DEF IInv, TaskOK
<1>11. TestOK' /\ PhaseOK' /\ NewOK'
  BY <1>0, <1>1, <1>2, <1>3, PoolFacts DEF IInv, TestOK, PhaseOK, NewOK, Unfreed
<1>12. NoSleepingPool'
  BY <1>0, <1>1, <1>3, <1>11, StillAwake
<1> QED  BY <1>3, <1>9, <1>10, <1>11, <1>12 DEF IInv

\* A task is accepted while the pool runs.
LEMMA SubmitStepOK ==
    ASSUME IInv, NEW t \in Submitter, Submit(t)
    PROVE  IInv'
<1>0. /\ t \in User /\ t \notin Worker /\ OnCpu(t) /\ pc[t] = "out"
      /\ SubmitPlace \subseteq PlacesOf(t)
  BY PoolFacts DEF Submit, At, PlacesOf, OwnerPlace
<1> DEFINE n == submitted + 1
<1>1. /\ UNCHANGED <<sched, irqOn, frames, mutex, waiters, tasks, running, done, savedIrq>>
      /\ running /\ pc[Owner] \in {"start", "out", "submit", "add", "notify", "added"}
      /\ submitted < MaxTasks /\ submitted' = n
      /\ task' = [task EXCEPT ![t] = n] /\ GoTo(t, "submit")
  BY DEF Submit, core, pool
<1>2. submitted \in Nat /\ n \in 1 .. MaxTasks /\ n # 0
  BY <1>1, PoolFacts DEF IInv, PoolTypeOK
<1>3. /\ PlaceOK' /\ pc'[t] = "submit" /\ \A u \in User : u # t => pc'[u] = pc[u]
      /\ MutexOK' /\ CvOK' /\ BlockedOK' /\ EndOK'
  BY <1>0, <1>1, QuietStep DEF SubmitPlace, QuietMove, Critical, LockPlace, UnlockPlace
<1>4. /\ task' \in [User -> 0 .. MaxTasks] /\ task'[t] = n
      /\ \A u \in User : u # t => task'[u] = task[u]
  BY <1>0, <1>1, <1>2, PoolFacts DEF IInv, PoolTypeOK
<1>5. /\ task[t] = 0
      /\ \A u \in User : task[u] <= submitted /\ task[u] \in Nat
      /\ \A k \in Elems(tasks) \cup done : k \in 1 .. submitted
  <2>1. task[t] = 0
    BY <1>0 DEF IInv, TaskOK
  <2>2. \A u \in User : task[u] \in 0 .. MaxTasks /\ task[u] <= submitted
    BY DEF IInv, TaskOK, PoolTypeOK
  <2>3. \A k \in Elems(tasks) \cup done : k \in 1 .. submitted
    BY DEF IInv, TaskOK
  <2> QED  BY <2>1, <2>2, <2>3, PoolFacts
<1>6. n \notin Elems(tasks) /\ n \notin done /\ \A u \in User : task[u] # n
  BY <1>2, <1>5
<1>7. PoolTypeOK' /\ Consistent(sched, {})'
  BY <1>1, <1>2, <1>3, <1>4 DEF IInv, PoolTypeOK, CoreTypeOK, PlaceOK, mutex
<1>8. TaskOK'
  <2>1. \A u \in User : task'[u] # 0 <=> pc'[u] \in {"submit", "add", "taken", "exec"}
    BY <1>2, <1>3, <1>4 DEF IInv, TaskOK
  <2>2. \A u, v \in User : task'[u] = task'[v] /\ task'[u] # 0 => u = v
    BY <1>4, <1>6 DEF IInv, TaskOK
  <2>3. \A u \in User : task'[u] \notin Elems(tasks') /\ task'[u] \notin done'
    BY <1>1, <1>4, <1>6 DEF IInv, TaskOK
  <2>4. \A u \in User : task'[u] <= submitted'
    BY <1>1, <1>2, <1>4, <1>5
  <2>5. Elems(tasks') \cap done' = {} /\ Elems(tasks') \cup done' \subseteq 1 .. submitted'
    <3>1. 1 .. submitted \subseteq 1 .. submitted'
      BY <1>1, <1>2
    <3> QED  BY <1>1, <3>1 DEF IInv, TaskOK
  <2>6. ASSUME NEW k \in 1 .. submitted', k \notin Elems(tasks'), k \notin done'
        PROVE  \E u \in User : task'[u] = k
    <3>1. CASE k = n
      BY <1>0, <1>4, <3>1
    <3>2. CASE k # n
      <4>1. k \in 1 .. submitted
        BY <1>1, <1>2, <2>6, <3>2
      <4>2. PICK u \in User : task[u] = k
        BY <1>1, <2>6, <4>1 DEF IInv, TaskOK
      <4>3. u # t
        BY <1>5, <4>1, <4>2
      <4> QED  BY <1>4, <4>2, <4>3
    <3> QED  BY <3>1, <3>2
  <2> QED  BY <1>1, <2>1, <2>2, <2>3, <2>4, <2>5, <2>6 DEF IInv, TaskOK
<1>9. TestOK'
  BY <1>0, <1>1, <1>3, PoolFacts DEF IInv, TestOK
<1>10. PhaseOK' /\ NewOK'
  BY <1>0, <1>1, <1>3, PoolFacts DEF IInv, PhaseOK, NewOK, Unfreed, NotRunning
<1>11. NoSleepingPool'
  BY <1>0, <1>1, <1>3, <1>10, StillAwake
<1> QED  BY <1>3, <1>7, <1>8, <1>9, <1>10, <1>11 DEF IInv

\* The task goes into the queue, under the mutex.
LEMMA AddTaskOK ==
    ASSUME IInv, NEW t \in Submitter, AddTask(t)
    PROVE  IInv'
<1>0. /\ t \in User /\ t \notin Worker /\ OnCpu(t) /\ pc[t] = "add"
      /\ SubmitPlace \subseteq PlacesOf(t)
  BY PoolFacts DEF AddTask, At, PlacesOf, OwnerPlace
<1> DEFINE n == task[t]
<1>1. /\ UNCHANGED <<sched, irqOn, frames, mutex, waiters, running, submitted, done, savedIrq>>
      /\ tasks' = Append(tasks, n) /\ task' = [task EXCEPT ![t] = 0] /\ GoTo(t, "notify")
  BY DEF AddTask, core
<1>2. pc[Owner] # "new" /\ holder = t /\ running
  <2>1. pc[Owner] # "new" /\ holder = t
    BY <1>0, OnCpuFacts DEF Critical, LockPlace, UnlockPlace
  <2>2. pc[Owner] \notin NotRunning
    BY <1>0, <2>1, PoolFacts DEF IInv, PhaseOK, NotRunning
  <2> QED  BY <2>1, <2>2 DEF IInv, PhaseOK
<1>3. \A u \in User : u # t => pc[u] # "sleep"
  BY <1>2, InsideHolds
<1>4. /\ PlaceOK' /\ pc'[t] = "notify" /\ \A u \in User : u # t => pc'[u] = pc[u]
      /\ MutexOK' /\ CvOK' /\ BlockedOK' /\ EndOK'
  BY <1>0, <1>1, QuietStep DEF SubmitPlace, QuietMove, Critical, LockPlace, UnlockPlace
<1>5. /\ task' \in [User -> 0 .. MaxTasks] /\ task'[t] = 0
      /\ \A u \in User : u # t => task'[u] = task[u]
  BY <1>0, <1>1, PoolFacts DEF IInv, PoolTypeOK
<1>6. n \in 1 .. MaxTasks /\ submitted \in Nat /\ n \in 1 .. submitted
  <2>1. n \in 0 .. MaxTasks /\ n # 0 /\ n <= submitted /\ submitted \in 0 .. MaxTasks
    BY <1>0 DEF IInv, PoolTypeOK, TaskOK
  <2> QED  BY <2>1, PoolFacts
<1>7. n \notin Elems(tasks) /\ n \notin done /\ \A u \in User : u # t => task[u] # n
  BY <1>0, <1>6 DEF IInv, TaskOK
<1>8. tasks \in Seq(1 .. MaxTasks) /\ \A i, j \in DOMAIN tasks : tasks[i] = tasks[j] => i = j
  BY DEF IInv, PoolTypeOK, TaskOK
<1>9. /\ tasks' \in Seq(1 .. MaxTasks) /\ Elems(tasks') = Elems(tasks) \cup {n}
      /\ \A i, j \in DOMAIN tasks' : tasks'[i] = tasks'[j] => i = j
  <2> DEFINE S == 1 .. MaxTasks
  <2>1. n \in S /\ tasks \in Seq(S)
    BY <1>6, <1>8
  <2> HIDE DEF n, S
  <2>2. Append(tasks, n) \in Seq(S) /\ Elems(Append(tasks, n)) = Elems(tasks) \cup {n}
    BY <2>1, ElemsAppend
  <2>3. \A i, j \in DOMAIN Append(tasks, n) :
           Append(tasks, n)[i] = Append(tasks, n)[j] => i = j
    BY <1>7, <1>8, <2>1, AppendKeepsOrder
  <2> QED  BY <1>1, <2>2, <2>3 DEF S
<1>10. PoolTypeOK' /\ Consistent(sched, {})'
  BY <1>1, <1>4, <1>5, <1>9 DEF IInv, PoolTypeOK, CoreTypeOK, PlaceOK, mutex
<1>11. TaskOK'
  <2>1. \A u \in User : task'[u] # 0 <=> pc'[u] \in {"submit", "add", "taken", "exec"}
    BY <1>4, <1>5 DEF IInv, TaskOK
  <2>2. \A u, v \in User : task'[u] = task'[v] /\ task'[u] # 0 => u = v
    BY <1>5 DEF IInv, TaskOK
  <2>3. 0 \notin done /\ 0 \notin Elems(tasks)
    BY DEF IInv, TaskOK
  <2>4. \A u \in User : task'[u] \notin Elems(tasks') /\ task'[u] \notin done'
    BY <1>1, <1>5, <1>6, <1>7, <1>9, <2>3 DEF IInv, TaskOK
  <2>5. \A u \in User : task'[u] <= submitted'
    BY <1>1, <1>5, <1>6 DEF IInv, TaskOK
  <2>6. Elems(tasks') \cap done' = {} /\ Elems(tasks') \cup done' \subseteq 1 .. submitted'
    BY <1>1, <1>6, <1>7, <1>9 DEF IInv, TaskOK
  <2>7. ASSUME NEW k \in 1 .. submitted', k \notin Elems(tasks'), k \notin done'
        PROVE  \E u \in User : task'[u] = k
    <3>1. PICK u \in User : task[u] = k
      BY <1>1, <1>9, <2>7 DEF IInv, TaskOK
    <3>2. u # t
      BY <1>9, <2>7, <3>1
    <3> QED  BY <1>5, <3>1, <3>2
  <2> QED  BY <1>9, <2>1, <2>2, <2>4, <2>5, <2>6, <2>7 DEF TaskOK
<1>12. tasks' # << >>
  <2>1. Elems(<< >>) = {}
    BY DEF Elems
  <2> QED  BY <1>9, <2>1
<1>13. TestOK'
  <2>1. ASSUME NEW w \in Worker, pc'[w] \in {"leave", "exit", "ended", "freed"} PROVE FALSE
    BY <1>0, <1>2, <1>4, <2>1, PoolFacts DEF IInv, TestOK
  <2> QED  BY <1>0, <1>3, <1>4, <1>12, <2>1, PoolFacts DEF TestOK
<1>14. PhaseOK' /\ NewOK'
  BY <1>0, <1>1, <1>2, <1>4, PoolFacts DEF IInv, PhaseOK, NewOK, Unfreed, NotRunning
<1>15. NoSleepingPool'
  BY <1>4, <1>14 DEF NoSleepingPool, PhaseOK
<1> QED  BY <1>4, <1>10, <1>11, <1>13, <1>14, <1>15 DEF IInv

\* What the owner does on its own: it starts, stops and leaves the pool.
LEMMA OwnerQuietOK ==
    ASSUME IInv,
           \/ Start
           \/ StartWorker /\ Unscheduled = {}
           \/ Destroy
           \/ StopRunning
           \/ NotifyWorkers /\ waiters = << >>
           \/ Join /\ Unfreed = {}
           \/ JoinReturn
    PROVE  IInv'
<1> DEFINE a == pc[Owner]
<1>0. Owner \in User /\ Owner \notin Worker /\ OnCpu(Owner) /\ PlacesOf(Owner) = OwnerPlace
  BY PoolFacts DEF Start, StartWorker, Destroy, StopRunning, NotifyWorkers, Join, JoinReturn,
                   At, PlacesOf
<1>1. PICK b \in OwnerPlace : /\ GoTo(Owner, b)
                              /\ \/ a = "new" /\ b = "start" /\ running' = TRUE
                                 \/ a = "start" /\ b = "out" /\ running' = running
                                 \/ /\ a = "out" /\ b = "destroy" /\ running' = running
                                    /\ \A t \in Submitter : pc[t] = "out"
                                 \/ a = "stop" /\ b = "unstop" /\ running' = FALSE
                                 \/ a = "wakeall" /\ b = "join" /\ waiters = << >> /\ running' = running
                                 \/ a = "join" /\ b = "gone" /\ Unfreed = {} /\ running' = running
                                 \/ a = "joined" /\ b = "join" /\ running' = running
  BY DEF Start, StartWorker, Destroy, StopRunning, NotifyWorkers, Join, JoinReturn,
         At, OwnerPlace, SubmitPlace, pool
<1>2. /\ UNCHANGED <<sched, frames, mutex, waiters, tasks, submitted, task, done>>
      /\ irqOn' \in BOOLEAN /\ savedIrq' \in BOOLEAN
  BY DEF Start, StartWorker, Destroy, StopRunning, NotifyWorkers, Join, JoinReturn,
         core, pool, book, IInv, PoolTypeOK, CoreTypeOK
<1>3. /\ PlaceOK' /\ pc'[Owner] = b /\ \A u \in User : u # Owner => pc'[u] = pc[u]
      /\ MutexOK' /\ CvOK' /\ BlockedOK' /\ EndOK'
  BY <1>0, <1>1, <1>2, QuietStep DEF QuietMove, Critical, LockPlace, UnlockPlace
<1>4. PoolTypeOK' /\ Consistent(sched, {})'
  BY <1>1, <1>2, <1>3 DEF IInv, PoolTypeOK, CoreTypeOK, PlaceOK, mutex
<1>5. TaskOK'
  BY <1>1, <1>2, <1>3 DEF IInv, TaskOK
<1>6. TestOK'
  <2>1. \A w \in Worker : pc'[w] = pc[w]
    BY <1>0, <1>3, PoolFacts
  <2>2. CASE running' = running
    BY <1>2, <2>1, <2>2 DEF IInv, TestOK
  <2>3. CASE a = "new"
    BY <2>1, <2>3 DEF IInv, NewOK, TestOK
  <2>4. CASE a = "stop"
    <3>1. holder = Owner /\ running /\ ~running'
      BY <1>0, <1>1, <2>4, OnCpuFacts DEF Critical, LockPlace, UnlockPlace, IInv, PhaseOK, NotRunning
    <3>2. \A w \in Worker : pc[w] # "sleep"
      BY <1>0, <3>1, PoolFacts, InsideHolds
    <3> QED  BY <1>2, <2>1, <3>1, <3>2 DEF IInv, TestOK
  <2> QED  BY <1>1, <2>2, <2>3, <2>4
<1>7. Unfreed' = Unfreed
  BY <1>0, <1>3, PoolFacts DEF Unfreed
<1>8. PhaseOK'
  BY <1>0, <1>1, <1>2, <1>3, <1>7, PoolFacts DEF IInv, PhaseOK, NotRunning
<1>9. NewOK'
  BY <1>1, <1>3 DEF NewOK
<1>10. NoSleepingPool'
  BY <1>0, <1>1, <1>2, <1>3, <1>8, StillAwake
<1> QED  BY <1>3, <1>4, <1>5, <1>6, <1>8, <1>9, <1>10 DEF IInv

----------------------------------------------------------------------------
(***************************************************************************)
(* The mutex                                                               *)
(***************************************************************************)
\* The calls of lock() and unlock(), and what follows them.
LEMMA LockPlaces ==
    /\ \A place \in DOMAIN Locks :
          \/ place = "submit" /\ Locks[place] = "add"
          \/ place \in {"wlock", "relock"} /\ Locks[place] = "test"
          \/ place = "destroy" /\ Locks[place] = "stop"
    /\ \A place \in DOMAIN Unlocks :
          \/ place = "added" /\ Unlocks[place] = "out"
          \/ place = "wait" /\ Unlocks[place] = "block"
          \/ place = "taken" /\ Unlocks[place] = "exec"
          \/ place = "leave" /\ Unlocks[place] = "exit"
          \/ place = "unstop" /\ Unlocks[place] = "wakeall"
BY DEF Locks, Unlocks

\* A thread that marks itself and blocks at once.
LEMMA SleepEffect ==
    ASSUME CoreOK, NEW t \in User, sched.running = t,
           sched' = Block(MarkAsBlockPending(sched), t)
    PROVE  /\ sched' \in Sched /\ Consistent(sched', {})
           /\ Pending(sched') = Pending(sched) \ {t}
           /\ Blocked(sched') = Blocked(sched) \cup {t}
           /\ Stopped(sched') = Stopped(sched)
<1> DEFINE m == MarkAsBlockPending(sched)
<1>1. sched \in Sched /\ Consistent(sched, {}) /\ t \in Thread /\ t # Idle /\ t # Gct
  BY SchedulableFacts, UserAssumption DEF CoreOK, CoreTypeOK
<1>2. m \in Sched /\ Consistent(m, {}) /\ m.running = t
  BY <1>1, MarkOK DEF CallOK
<1>3. /\ Pending(m) = Pending(sched) \cup {t} /\ Blocked(m) = Blocked(sched)
      /\ Stopped(m) = Stopped(sched)
  BY <1>1, MarkEffect
<1> HIDE DEF m
<1>4. sched' = Block(m, m.running)
  BY <1>2 DEF m
<1>5. CallOK(m, sched', {})
  BY <1>2, <1>4, BlockOK
<1>6. /\ Pending(sched') = Pending(m) \ {t}
      /\ Blocked(sched') = Blocked(m) \cup (Pending(m) \cap {t})
      /\ Stopped(sched') = Stopped(m)
  BY <1>2, <1>4, BlockEffect
<1> QED  BY <1>3, <1>5, <1>6 DEF CallOK

\* A thread moves on in the code of the mutex.
LEMMA StepMoves ==
    ASSUME PoolTypeOK, NEW t \in User,
           NEW place \in {"out", "queue", "block", "woken", "release"}, InMutex(t, place)
    PROVE  /\ mpc' \in [User -> {"out", "queue", "block", "woken", "release"}]
           /\ mpc'[t] = place
           /\ \A u \in User : u # t => mpc'[u] = mpc[u]
BY DEF PoolTypeOK, InMutex

\* A step inside of lock() or unlock() is nothing to the pool.
LEMMA SamePlaces ==
    ASSUME IInv, pc[Owner] # "new", UNCHANGED <<pool, book, pc>>
    PROVE  /\ PlaceOK' /\ TaskOK' /\ TestOK' /\ PhaseOK' /\ NewOK' /\ NoSleepingPool'
           /\ Unfreed' = Unfreed
<1>1. UNCHANGED <<waiters, tasks, running, submitted, task, done, pc>>
  BY DEF pool, book
<1> QED
  BY <1>1 DEF IInv, PlaceOK, TaskOK, TestOK, PhaseOK, NewOK, NoSleepingPool, Unfreed

\* Where lock() returns to is a place of the thread that called it.
LEMMA LockedPlace ==
    ASSUME PlaceOK, NEW t \in User, NEW place, IdleMove(pc[t], place), pc[t] \in LockPlace
    PROVE  place \in PlacesOf(t)
<1>1. \/ pc[t] = "submit" /\ place = "add"
      \/ pc[t] \in {"wlock", "relock"} /\ place = "test"
      \/ pc[t] = "destroy" /\ place = "stop"
  BY DEF IdleMove, LockPlace
<1>2. pc[t] \in PlacesOf(t)
  BY DEF PlaceOK
<1> QED
  BY <1>1, <1>2 DEF PlacesOf, OwnerPlace, SubmitPlace, WorkerPlace

\* lock() tries the exchange: t has the mutex, or is going to queue for it.
LEMMA LockTryOK ==
    ASSUME IInv, NEW t \in User, LockTry(t)
    PROVE  IInv'
<1> DEFINE a == pc[t]
           b == Locks[pc[t]]
<1>0. /\ OnCpu(t) /\ a \in LockPlace /\ mpc[t] = "out" /\ IdleMove(a, b) /\ a \notin Critical
      /\ b \in {"add", "test", "stop"}
  BY LockPlaces DEF LockTry, IdleMove, Critical, LockPlace
<1>1. /\ CoreOK /\ t \notin Blocked(sched) /\ t \notin Stopped(sched) /\ pc[Owner] # "new"
      /\ t \notin Elems(waiters)
  BY <1>0, OnCpuFacts DEF LockPlace
<1>2. ~Waits(t) /\ ~Handed(t) /\ holder # t /\ t # NoThread
  BY <1>0, PoolFacts DEF IInv, MutexOK, LockQueueOK, HolderOK, Handed
<1>3. /\ UNCHANGED <<core, lockQueue, toWake, waiters, tasks, running, submitted, task, done, savedIrq>>
      /\ locked' = TRUE
  BY DEF LockTry, pool, book
<1>4. CoreOK' /\ SleepersSame
  BY <1>1, <1>3, CoreSame
<1>5. \A u \in User : Waits(u)' <=> Waits(u)
  BY <1>3 DEF Waits
<1>6. CASE ~locked
  <2>1. GoTo(t, b) /\ holder' = t /\ mpc' = mpc
    BY <1>6 DEF LockTry
  <2> HIDE DEF b
  <2>2. b \in PlacesOf(t)
    BY <1>0, LockedPlace DEF IInv, LockPlace
  <2>3. PlaceOK' /\ pc'[t] = b /\ \A u \in User : u # t => pc'[u] = pc[u]
    BY <2>1, <2>2, Moves DEF IInv
  <2>4. TaskOK' /\ TestOK' /\ PhaseOK' /\ NewOK'
    BY <1>0, <1>3, <2>3, IdleStep DEF book
  <2>5. NoSleepingPool'
    BY <1>0, <1>3, <2>3, <2>4, StillAwake DEF LockPlace
  <2>6. Unfreed' = Unfreed
    BY <1>0, <2>3, PoolFacts DEF Unfreed, LockPlace
  <2>7. holder = NoThread /\ \A u \in User : mpc[u] # "release"
    BY <1>6 DEF IInv, PoolTypeOK, MutexOK, HolderOK, ReleaseOK
  <2>8. PoolTypeOK' /\ Consistent(sched, {})'
    BY <1>3, <1>4, <2>1, <2>3 DEF IInv, PoolTypeOK, CoreOK, PlaceOK
  <2>9. MutexOK'
    <3>1. StepOfOK'
      BY <1>0, <2>1, <2>3 DEF IInv, MutexOK, StepOfOK
    <3>2. \A u \in User : Handed(u)' <=> Handed(u)
      BY <1>3, <2>1 DEF Handed
    <3>3. HolderOK'
      BY <1>0, <1>2, <1>3, <2>1, <2>3, <2>7, <3>2, PoolFacts
      DEF IInv, MutexOK, HolderOK, Critical
    <3>4. ReleaseOK'
      BY <1>3, <2>1, <2>7 DEF IInv, MutexOK, ReleaseOK
    <3>5. LockQueueOK'
      BY <1>3, <1>4, <1>5, <2>1 DEF IInv, MutexOK, LockQueueOK, SleepersSame
    <3> QED  BY <3>1, <3>3, <3>4, <3>5 DEF MutexOK
  <2>10. CvOK' /\ EndOK'
    BY <1>0, <1>1, <1>3, <1>4, <1>5, <2>1, <2>3 DEF IInv, CvOK, EndOK, SleepersSame, LockPlace
  <2>11. BlockedOK'
    BY <1>0, <1>1, <1>3, <1>4, <1>5, <2>3, <2>6, PoolFacts DEF IInv, BlockedOK, SleepersSame
  <2> QED  BY <2>3, <2>4, <2>5, <2>8, <2>9, <2>10, <2>11 DEF IInv
<1>7. CASE locked
  <2>1. InMutex(t, "queue") /\ UNCHANGED <<holder, pc>>
    BY <1>7 DEF LockTry
  <2>2. /\ PlaceOK' /\ TaskOK' /\ TestOK' /\ PhaseOK' /\ NewOK' /\ NoSleepingPool'
        /\ Unfreed' = Unfreed
    BY <1>1, <1>3, <2>1, SamePlaces DEF pool, book
  <2>3. /\ mpc' \in [User -> {"out", "queue", "block", "woken", "release"}]
        /\ mpc'[t] = "queue" /\ \A u \in User : u # t => mpc'[u] = mpc[u]
    BY <2>1, StepMoves DEF IInv
  <2>4. PoolTypeOK' /\ Consistent(sched, {})'
    BY <1>3, <1>4, <2>1, <2>3 DEF IInv, PoolTypeOK, CoreOK
  <2>5. MutexOK'
    <3>1. StepOfOK'
      BY <1>0, <2>1, <2>3 DEF IInv, MutexOK, StepOfOK
    <3>2. \A u \in User : Handed(u)' <=> Handed(u)
      BY <1>0, <1>3, <2>3 DEF Handed
    <3>3. HolderOK'
      BY <1>0, <1>3, <2>1, <2>3, <3>2 DEF IInv, MutexOK, HolderOK
    <3>4. ReleaseOK'
      BY <1>0, <1>3, <2>1, <2>3, <3>2 DEF IInv, MutexOK, ReleaseOK, PoolTypeOK
    <3>5. LockQueueOK'
      BY <1>2, <1>3, <1>4, <1>5, <2>3 DEF IInv, MutexOK, LockQueueOK, SleepersSame
    <3> QED  BY <3>1, <3>3, <3>4, <3>5 DEF MutexOK
  <2>6. CvOK' /\ EndOK'
    BY <1>1, <1>3, <1>4, <1>5, <2>1, <2>3 DEF IInv, CvOK, EndOK, SleepersSame
  <2>7. BlockedOK'
    BY <1>3, <1>4, <1>5, <2>1, <2>2, PoolFacts DEF IInv, BlockedOK, SleepersSame
  <2> QED  BY <2>2, <2>4, <2>5, <2>6, <2>7 DEF IInv
<1> QED  BY <1>6, <1>7

\* lock() queues and marks the thread, whether or not the mutex is still locked.
LEMMA LockQueueStepOK ==
    ASSUME IInv, NEW t \in User, LockQueue(t)
    PROVE  IInv'
<1>0. /\ OnCpu(t) /\ mpc[t] = "queue" /\ pc[t] \in LockPlace /\ ~Handed(t)
  BY DEF LockQueue, IInv, MutexOK, StepOfOK, Handed
<1>1. /\ CoreOK /\ t \notin Blocked(sched) /\ pc[Owner] # "new" /\ t \notin Elems(waiters)
  BY <1>0, OnCpuFacts DEF LockPlace
<1>2. ~Waits(t) /\ t \notin Elems(lockQueue)
  BY <1>0 DEF IInv, MutexOK, LockQueueOK, Waits
<1>3. /\ UNCHANGED <<locked, holder, toWake, waiters, tasks, running, submitted, task, done, savedIrq, pc>>
      /\ lockQueue' = Append(lockQueue, t) /\ Call(MarkAsBlockPending(sched)) /\ InMutex(t, "block")
  BY DEF LockQueue, pool, book
<1>4. /\ CoreOK' /\ Pending(sched') = Pending(sched) \cup {t}
      /\ Blocked(sched') = Blocked(sched) /\ Stopped(sched') = Stopped(sched)
  BY <1>0, <1>1, <1>3, MarkCallOK, UserAssumption
<1>5. /\ PlaceOK' /\ TaskOK' /\ TestOK' /\ PhaseOK' /\ NewOK' /\ NoSleepingPool'
      /\ Unfreed' = Unfreed
  BY <1>1, <1>3, SamePlaces DEF pool, book
<1>6. /\ mpc' \in [User -> {"out", "queue", "block", "woken", "release"}]
      /\ mpc'[t] = "block" /\ \A u \in User : u # t => mpc'[u] = mpc[u]
  BY <1>3, StepMoves DEF IInv
<1>7. lockQueue \in Seq(User) /\ \A i, j \in DOMAIN lockQueue : lockQueue[i] = lockQueue[j] => i = j
  BY DEF IInv, PoolTypeOK, MutexOK, LockQueueOK
<1>8. lockQueue' \in Seq(User) /\ Elems(lockQueue') = Elems(lockQueue) \cup {t}
  BY <1>3, <1>7, ElemsAppend
<1>9. \A i, j \in DOMAIN lockQueue' : lockQueue'[i] = lockQueue'[j] => i = j
  BY <1>2, <1>3, <1>7, AppendKeepsOrder
<1>10. PoolTypeOK' /\ Consistent(sched, {})'
  BY <1>3, <1>4, <1>6, <1>8 DEF IInv, PoolTypeOK, CoreOK
<1>11. \A u \in User : (Waits(u)' <=> Waits(u) \/ u = t) /\ (Handed(u)' <=> Handed(u))
  BY <1>0, <1>3, <1>6, <1>8 DEF Waits, Handed
<1>12. MutexOK'
  <2>1. StepOfOK'
    BY <1>0, <1>3, <1>6 DEF IInv, MutexOK, StepOfOK
  <2>2. HolderOK'
    BY <1>0, <1>3, <1>6, <1>11 DEF IInv, MutexOK, HolderOK
  <2>3. ReleaseOK'
    BY <1>0, <1>3, <1>6, <1>11 DEF IInv, MutexOK, ReleaseOK, PoolTypeOK
  <2>4. LockQueueOK'
    BY <1>2, <1>4, <1>6, <1>9, <1>11 DEF IInv, MutexOK, LockQueueOK
  <2> QED  BY <2>1, <2>2, <2>3, <2>4 DEF MutexOK
<1>13. CvOK'
  BY <1>1, <1>3, <1>4, <1>6, <1>11 DEF IInv, CvOK
<1>14. EndOK' /\ BlockedOK'
  BY <1>3, <1>4, <1>5, <1>11, PoolFacts DEF IInv, EndOK, BlockedOK
<1> QED  BY <1>5, <1>10, <1>12, <1>13, <1>14 DEF IInv

\* block() in lock(): t sleeps, unless an unlock() has unblocked it already.
LEMMA LockBlockOK ==
    ASSUME IInv, NEW t \in User, LockBlock(t)
    PROVE  IInv'
<1>0. /\ OnCpu(t) /\ mpc[t] = "block" /\ pc[t] \in LockPlace
  BY DEF LockBlock, IInv, MutexOK, StepOfOK
<1>1. /\ CoreOK /\ t \notin Blocked(sched) /\ pc[Owner] # "new" /\ t \notin Elems(waiters)
  BY <1>0, OnCpuFacts DEF LockPlace
<1>2. t \in Pending(sched) <=> Waits(t)
  BY <1>0, <1>1 DEF IInv, MutexOK, LockQueueOK, CvOK
<1>3. /\ UNCHANGED <<locked, holder, lockQueue, toWake, waiters, tasks, running, submitted, task, done, savedIrq, pc>>
      /\ Call(Block(sched, t)) /\ InMutex(t, "woken")
  BY DEF LockBlock, pool, book
<1>4. /\ CoreOK' /\ Pending(sched') = Pending(sched) \ {t}
      /\ Blocked(sched') = Blocked(sched) \cup (Pending(sched) \cap {t})
      /\ Stopped(sched') = Stopped(sched)
  BY <1>0, <1>1, <1>3, BlockCallOK, UserAssumption
<1>5. /\ PlaceOK' /\ TaskOK' /\ TestOK' /\ PhaseOK' /\ NewOK' /\ NoSleepingPool'
      /\ Unfreed' = Unfreed
  BY <1>1, <1>3, SamePlaces DEF pool, book
<1>6. /\ mpc' \in [User -> {"out", "queue", "block", "woken", "release"}]
      /\ mpc'[t] = "woken" /\ \A u \in User : u # t => mpc'[u] = mpc[u]
  BY <1>3, StepMoves DEF IInv
<1>7. PoolTypeOK' /\ Consistent(sched, {})'
  BY <1>3, <1>4, <1>6 DEF IInv, PoolTypeOK, CoreOK
<1>8. \A u \in User : (Waits(u)' <=> Waits(u)) /\ (Handed(u)' <=> Handed(u))
  BY <1>0, <1>3, <1>6 DEF Waits, Handed
<1>9. MutexOK'
  <2>1. StepOfOK'
    BY <1>0, <1>3, <1>6 DEF IInv, MutexOK, StepOfOK
  <2>2. HolderOK'
    BY <1>0, <1>3, <1>6, <1>8 DEF IInv, MutexOK, HolderOK
  <2>3. ReleaseOK'
    BY <1>0, <1>3, <1>6, <1>8 DEF IInv, MutexOK, ReleaseOK, PoolTypeOK
  <2>4. LockQueueOK'
    BY <1>2, <1>3, <1>4, <1>6, <1>8 DEF IInv, MutexOK, LockQueueOK
  <2> QED  BY <2>1, <2>2, <2>3, <2>4 DEF MutexOK
<1>10. CvOK'
  BY <1>1, <1>3, <1>4, <1>6, <1>8 DEF IInv, CvOK
<1>11. EndOK' /\ BlockedOK'
  BY <1>0, <1>2, <1>3, <1>4, <1>5, <1>8, PoolFacts DEF IInv, EndOK, BlockedOK, LockPlace
<1> QED  BY <1>5, <1>7, <1>9, <1>10, <1>11 DEF IInv

\* Back from block(), t has been made the owner: lock() returns.
LEMMA LockWokenOK ==
    ASSUME IInv, NEW t \in User, LockWoken(t)
    PROVE  IInv'
<1> DEFINE a == pc[t]
           b == Locks[pc[t]]
<1>0. /\ OnCpu(t) /\ mpc[t] = "woken" /\ pc[t] \in LockPlace
  BY DEF LockWoken, IInv, MutexOK, StepOfOK
<1>1. /\ CoreOK /\ t \notin Blocked(sched) /\ pc[Owner] # "new" /\ t \notin Elems(waiters)
  BY <1>0, OnCpuFacts DEF LockPlace
<1>2. ~Waits(t) /\ Handed(t) /\ holder = t
  BY <1>0, <1>1 DEF IInv, MutexOK, LockQueueOK, HolderOK, Handed, Waits
<1>3. \A u \in User : mpc[u] # "release"
  BY <1>2 DEF IInv, MutexOK, ReleaseOK, Waits
<1>4. /\ UNCHANGED <<core, locked, holder, lockQueue, toWake, waiters, tasks, running, submitted, task,
                    done, savedIrq>>
      /\ InMutex(t, "out") /\ GoTo(t, b)
  BY <1>2 DEF LockWoken, pool, book
<1>5. /\ IdleMove(a, b) /\ a \notin Critical /\ b \in {"add", "test", "stop"} /\ b \in PlacesOf(t)
  BY <1>0, LockPlaces
  DEF Locks, LockPlace, IdleMove, Critical, IInv, PlaceOK, PlacesOf, OwnerPlace, SubmitPlace, WorkerPlace
<1> HIDE DEF b
<1>6. PlaceOK' /\ pc'[t] = b /\ \A u \in User : u # t => pc'[u] = pc[u]
  BY <1>4, <1>5, Moves DEF IInv
<1>7. TaskOK' /\ TestOK' /\ PhaseOK' /\ NewOK'
  BY <1>0, <1>4, <1>5, <1>6, IdleStep DEF book
<1>8. NoSleepingPool'
  BY <1>0, <1>4, <1>5, <1>6, <1>7, StillAwake DEF LockPlace
<1>9. Unfreed' = Unfreed
  BY <1>0, <1>5, <1>6, PoolFacts DEF Unfreed, LockPlace
<1>10. /\ mpc' \in [User -> {"out", "queue", "block", "woken", "release"}]
       /\ mpc'[t] = "out" /\ \A u \in User : u # t => mpc'[u] = mpc[u]
  BY <1>4, StepMoves DEF IInv
<1>11. CoreOK' /\ SleepersSame
  BY <1>1, <1>4, CoreSame
<1>12. PoolTypeOK' /\ Consistent(sched, {})'
  BY <1>4, <1>6, <1>10, <1>11 DEF IInv, PoolTypeOK, CoreOK, PlaceOK
<1>13. \A u \in User : (Waits(u)' <=> Waits(u)) /\ (u # t => (Handed(u)' <=> Handed(u)))
  BY <1>4, <1>10 DEF Waits, Handed
<1>14. MutexOK'
  <2>1. StepOfOK'
    BY <1>6, <1>10 DEF IInv, MutexOK, StepOfOK
  <2>2. HolderOK'
    BY <1>2, <1>4, <1>5, <1>6, <1>10, <1>13 DEF IInv, MutexOK, HolderOK, Critical
  <2>3. ReleaseOK'
    BY <1>3, <1>4, <1>10 DEF IInv, MutexOK, ReleaseOK
  <2>4. LockQueueOK'
    BY <1>2, <1>4, <1>10, <1>11, <1>13 DEF IInv, MutexOK, LockQueueOK, SleepersSame
  <2> QED  BY <2>1, <2>2, <2>3, <2>4 DEF MutexOK
<1>15. CvOK' /\ EndOK'
  BY <1>0, <1>1, <1>4, <1>5, <1>6, <1>10, <1>11, <1>13 DEF IInv, CvOK, EndOK, SleepersSame, LockPlace
<1>16. BlockedOK'
  BY <1>1, <1>4, <1>6, <1>9, <1>11, <1>13, PoolFacts DEF IInv, BlockedOK, SleepersSame
<1> QED  BY <1>6, <1>7, <1>8, <1>12, <1>14, <1>15, <1>16 DEF IInv

\* The section of unlock(): the first in the queue becomes the owner.
LEMMA UnlockPopOK ==
    ASSUME IInv, NEW t \in User, UnlockPop(t)
    PROVE  IInv'
<1>0. OnCpu(t) /\ pc[t] \in UnlockPlace /\ mpc[t] = "out" /\ holder = t
  BY LockPlaces DEF UnlockPop, UnlockPlace
<1>1. /\ CoreOK /\ pc[Owner] # "new" /\ t # NoThread /\ NoThread \notin User
  BY <1>0, OnCpuFacts, PoolFacts DEF UnlockPlace
<1>2. locked /\ ~Waits(t) /\ \A u \in User : mpc[u] # "release" /\ toWake[u] = NoThread
  BY <1>0, <1>1 DEF IInv, MutexOK, HolderOK, ReleaseOK, LockQueueOK, Handed
<1> PICK n : n = IF lockQueue = << >> THEN NoThread ELSE Head(lockQueue)
  OBVIOUS
<1>3. /\ UNCHANGED <<core, locked, waiters, tasks, running, submitted, task, done, savedIrq, pc>>
      /\ holder' = n /\ toWake' = [toWake EXCEPT ![t] = n] /\ InMutex(t, "release")
      /\ lockQueue' = IF lockQueue = << >> THEN << >> ELSE Tail(lockQueue)
  BY DEF UnlockPop, pool, book
<1>4. /\ n \in User \cup {NoThread} /\ lockQueue' \in Seq(User)
      /\ \A i, j \in DOMAIN lockQueue' : lockQueue'[i] = lockQueue'[j] => i = j
      /\ \A u \in User : u \in Elems(lockQueue') <=> u \in Elems(lockQueue) /\ u # n
      /\ n # NoThread => n \in Elems(lockQueue)
  <2>1. lockQueue \in Seq(User) /\ \A i, j \in DOMAIN lockQueue : lockQueue[i] = lockQueue[j] => i = j
    BY DEF IInv, PoolTypeOK, MutexOK, LockQueueOK
  <2>2. CASE lockQueue = << >>
    <3>1. n = NoThread /\ lockQueue' = lockQueue
      BY <1>3, <2>2
    <3> QED  BY <1>1, <2>1, <3>1
  <2>3. CASE lockQueue # << >>
    <3>1. n = Head(lockQueue) /\ lockQueue' = Tail(lockQueue)
      BY <1>3, <2>3
    <3>2. /\ Head(lockQueue) \in User /\ Tail(lockQueue) \in Seq(User) /\ Head(lockQueue) \in Elems(lockQueue)
          /\ Elems(Tail(lockQueue)) = Elems(lockQueue) \ {Head(lockQueue)}
          /\ \A i, j \in DOMAIN Tail(lockQueue) : Tail(lockQueue)[i] = Tail(lockQueue)[j] => i = j
      BY <2>1, <2>3, ElemsTail
    <3> QED  BY <1>1, <3>1, <3>2
  <2> QED  BY <2>2, <2>3
<1>5. CoreOK' /\ SleepersSame
  BY <1>1, <1>3, CoreSame
<1>6. /\ PlaceOK' /\ TaskOK' /\ TestOK' /\ PhaseOK' /\ NewOK' /\ NoSleepingPool'
      /\ Unfreed' = Unfreed
  BY <1>1, <1>3, SamePlaces DEF pool, book
<1>7. /\ mpc' \in [User -> {"out", "queue", "block", "woken", "release"}]
      /\ mpc'[t] = "release" /\ \A u \in User : u # t => mpc'[u] = mpc[u]
  BY <1>3, StepMoves DEF IInv
<1>8. /\ toWake' \in [User -> User \cup {NoThread}] /\ toWake'[t] = n
      /\ \A u \in User : u # t => toWake'[u] = NoThread
  BY <1>2, <1>3, <1>4 DEF IInv, PoolTypeOK
<1>9. PoolTypeOK' /\ Consistent(sched, {})'
  BY <1>3, <1>4, <1>5, <1>7, <1>8 DEF IInv, PoolTypeOK, CoreOK
<1>10. \A u \in User : Waits(u)' <=> Waits(u)
  BY <1>1, <1>2, <1>4, <1>8 DEF Waits
<1>11. n # NoThread => n \in User /\ n # t /\ mpc[n] \in {"block", "woken"} /\ Handed(n)'
  <2>1. ASSUME n # NoThread PROVE n \in User /\ n # t /\ mpc[n] \in {"block", "woken"}
    BY <1>2, <1>4, <2>1 DEF IInv, MutexOK, LockQueueOK, Waits
  <2> QED  BY <1>4, <1>7, <2>1 DEF Handed
<1>12. \A u \in User : u # n /\ u # t => (Handed(u)' <=> Handed(u))
  BY <1>4, <1>7 DEF Handed
<1>13. MutexOK'
  <2>1. StepOfOK'
    BY <1>0, <1>3, <1>7 DEF IInv, MutexOK, StepOfOK
  <2>2. HolderOK'
    <3>1. \A u \in User : holder' = u <=> (pc'[u] \in Critical /\ mpc'[u] # "release") \/ Handed(u)'
      <4>1. ~Handed(t)'
        BY <1>7 DEF Handed
      <4>2. CASE n = NoThread
        BY <1>0, <1>1, <1>3, <1>7, <1>12, <4>1, <4>2 DEF IInv, MutexOK, HolderOK
      <4>3. CASE n # NoThread
        BY <1>0, <1>1, <1>3, <1>7, <1>11, <1>12, <4>1, <4>3 DEF IInv, MutexOK, HolderOK
      <4> QED  BY <4>2, <4>3
    <3> QED  BY <1>2, <1>3, <3>1 DEF HolderOK
  <2>3. ReleaseOK'
    <3>1. \A u \in User : mpc'[u] = "release" => u = t
      BY <1>2, <1>7
    <3>2. toWake'[t] = holder' /\ locked' /\ (holder' # NoThread => Handed(holder)')
      BY <1>2, <1>3, <1>8, <1>11 DEF Handed
    <3> QED  BY <1>7, <1>8, <3>1, <3>2 DEF ReleaseOK
  <2>4. LockQueueOK'
    BY <1>2, <1>4, <1>5, <1>7, <1>10 DEF IInv, MutexOK, LockQueueOK, SleepersSame
  <2> QED  BY <2>1, <2>2, <2>3, <2>4 DEF MutexOK
<1>14. CvOK' /\ EndOK'
  BY <1>0, <1>3, <1>5, <1>7, <1>10 DEF IInv, CvOK, EndOK, SleepersSame, UnlockPlace
<1>15. BlockedOK'
  BY <1>3, <1>5, <1>6, <1>10, PoolFacts DEF IInv, BlockedOK, SleepersSame
<1> QED  BY <1>6, <1>9, <1>13, <1>14, <1>15 DEF IInv

\* The end of unlock(): the mutex is freed, or its new owner unblocked.
LEMMA UnlockEndOK ==
    ASSUME IInv, NEW t \in User, UnlockEnd(t)
    PROVE  IInv'
<1> DEFINE a == pc[t]
           b == Unlocks[pc[t]]
           n == toWake[t]
<1>0. OnCpu(t) /\ mpc[t] = "release" /\ a \in UnlockPlace
  BY DEF UnlockEnd, IInv, MutexOK, StepOfOK
<1>1. /\ CoreOK /\ t \notin Blocked(sched) /\ t \notin Stopped(sched) /\ ~Waits(t)
      /\ (t \in Elems(waiters) => a = "wait" /\ t \in Pending(sched))
      /\ t # NoThread /\ NoThread \notin User
  BY <1>0, OnCpuFacts, PoolFacts DEF UnlockPlace, LockPlace
<1>2. /\ IdleMove(a, b) /\ a \in Critical /\ b \notin Critical
      /\ b \notin {"ended", "freed", "relock", "joined"} /\ (a = "wait" <=> b = "block")
      /\ (b = "exit" => a = "leave") /\ b \in PlacesOf(t)
  BY <1>0, LockPlaces
  DEF Unlocks, UnlockPlace, IdleMove, Critical, IInv, PlaceOK, PlacesOf, OwnerPlace, SubmitPlace, WorkerPlace
<1>3. /\ UNCHANGED <<holder, lockQueue, waiters, tasks, running, submitted, task, done, savedIrq>>
      /\ locked' = (holder # NoThread) /\ GoTo(t, b) /\ InMutex(t, "out")
      /\ toWake' = [toWake EXCEPT ![t] = NoThread]
      /\ Call(IF n = NoThread THEN sched ELSE Unblock(sched, n))
  BY DEF UnlockEnd, pool, book
<1>4. /\ n = holder /\ n \in User \cup {NoThread} /\ (n # NoThread => Handed(n))
      /\ \A u \in User : u # t => mpc[u] # "release" /\ toWake[u] = NoThread
  BY <1>0 DEF IInv, PoolTypeOK, MutexOK, ReleaseOK
<1> HIDE DEF b, n
<1>5. PlaceOK' /\ pc'[t] = b /\ \A u \in User : u # t => pc'[u] = pc[u]
  BY <1>2, <1>3, Moves DEF IInv
<1>6. TaskOK' /\ TestOK' /\ PhaseOK' /\ NewOK'
  BY <1>0, <1>2, <1>3, <1>5, IdleStep DEF book
<1>7. NoSleepingPool'
  <2>1. CASE a # "leave"
    BY <1>0, <1>2, <1>3, <1>5, <1>6, <2>1, StillAwake DEF UnlockPlace
  <2>2. CASE a = "leave"
    <3>1. t \in Worker
      BY <2>2, PoolFacts, Roles DEF IInv, OwnerPlace, SubmitPlace
    <3>2. tasks' = << >>
      BY <1>3, <2>2, <3>1 DEF IInv, TestOK
    <3> QED  BY <1>6, <3>2 DEF NoSleepingPool, PhaseOK
  <2> QED  BY <2>1, <2>2
<1>8. Unfreed' = Unfreed
  BY <1>0, <1>2, <1>5, PoolFacts DEF Unfreed, UnlockPlace
<1>9. /\ mpc' \in [User -> {"out", "queue", "block", "woken", "release"}]
      /\ mpc'[t] = "out" /\ \A u \in User : u # t => mpc'[u] = mpc[u]
  BY <1>3, StepMoves DEF IInv
<1>10. /\ toWake' \in [User -> User \cup {NoThread}] /\ \A u \in User : toWake'[u] = NoThread
  BY <1>3, <1>4 DEF IInv, PoolTypeOK
<1>11. /\ CoreOK' /\ Pending(sched') = Pending(sched) \ {n}
       /\ Blocked(sched') = Blocked(sched) \ {n} /\ Stopped(sched') = Stopped(sched)
  <2>1. CASE n = NoThread
    <3>1. CoreOK' /\ SleepersSame
      BY <1>1, <1>3, <2>1, CoreSame DEF Call, core
    <3>2. NoThread \notin Pending(sched) /\ NoThread \notin Blocked(sched)
      BY PoolAssumption DEF Pending, Blocked, InState, AnyThread
    <3> QED  BY <2>1, <3>1, <3>2 DEF SleepersSame
  <2>2. CASE n # NoThread
    BY <1>1, <1>3, <1>4, <2>2, UnblockCallOK, UserAssumption
  <2> QED  BY <2>1, <2>2
<1>12. PoolTypeOK' /\ Consistent(sched, {})'
  BY <1>3, <1>5, <1>9, <1>10, <1>11 DEF IInv, PoolTypeOK, CoreOK, PlaceOK
<1>13. \A u \in User : Waits(u)' <=> Waits(u) /\ u # n
  <2>1. \A u \in User : Waits(u)' <=> u \in Elems(lockQueue)
    BY <1>1, <1>3, <1>10 DEF Waits
  <2>2. \A u \in User : Waits(u) <=> u \in Elems(lockQueue) \/ u = n
    BY <1>1, <1>4 DEF Waits, n
  <2>3. n \notin Elems(lockQueue) \/ n = NoThread
    BY <1>4 DEF Handed
  <2> QED  BY <1>1, <2>1, <2>2, <2>3
<1>14. n # NoThread => n \in User /\ n # t /\ pc[n] \in LockPlace /\ n \notin Elems(waiters)
  BY <1>0, <1>4 DEF Handed, IInv, MutexOK, StepOfOK, CvOK, LockPlace
<1>15. ~Handed(t) /\ \A u \in User : Handed(u)' <=> Handed(u)
  BY <1>0, <1>3, <1>9 DEF Handed
<1>16. MutexOK'
  <2>1. StepOfOK'
    BY <1>5, <1>9 DEF IInv, MutexOK, StepOfOK
  <2>2. HolderOK'
    BY <1>0, <1>2, <1>3, <1>5, <1>9, <1>15 DEF IInv, MutexOK, HolderOK
  <2>3. ReleaseOK'
    BY <1>4, <1>9, <1>10 DEF ReleaseOK
  <2>4. LockQueueOK'
    BY <1>1, <1>3, <1>9, <1>11, <1>13 DEF IInv, MutexOK, LockQueueOK
  <2> QED  BY <2>1, <2>2, <2>3, <2>4 DEF MutexOK
<1>17. CvOK'
  BY <1>0, <1>1, <1>2, <1>3, <1>5, <1>9, <1>11, <1>13, <1>14 DEF IInv, CvOK, LockPlace
<1>18. EndOK'
  BY <1>0, <1>2, <1>5, <1>11 DEF IInv, EndOK, UnlockPlace
<1>19. BlockedOK'
  BY <1>1, <1>3, <1>5, <1>8, <1>11, <1>13, PoolFacts DEF IInv, BlockedOK
<1> QED  BY <1>5, <1>6, <1>7, <1>12, <1>16, <1>17, <1>18, <1>19 DEF IInv

----------------------------------------------------------------------------
(***************************************************************************)
(* The condition variable                                                  *)
(***************************************************************************)
\* A worker that has found no task queues and marks itself.
LEMMA WaitOK ==
    ASSUME IInv, NEW t \in Worker, Wait(t)
    PROVE  IInv'
<1>0. t \in User /\ OnCpu(t) /\ pc[t] = "sleep" /\ PlacesOf(t) = WorkerPlace
  BY PoolFacts DEF Wait, At, PlacesOf
<1>1. /\ CoreOK /\ t \notin Elems(waiters) /\ ~Waits(t) /\ t \notin Blocked(sched)
      /\ mpc[t] = "out"
  BY <1>0, OnCpuFacts DEF LockPlace, UnlockPlace
<1>2. /\ UNCHANGED <<mutex, tasks, running, submitted, task, done, savedIrq>>
      /\ waiters' = Append(waiters, t) /\ GoTo(t, "wait") /\ Call(MarkAsBlockPending(sched))
  BY DEF Wait, book
<1>3. /\ CoreOK' /\ Pending(sched') = Pending(sched) \cup {t}
      /\ Blocked(sched') = Blocked(sched) /\ Stopped(sched') = Stopped(sched)
  BY <1>0, <1>1, <1>2, MarkCallOK, UserAssumption
<1>4. PlaceOK' /\ pc'[t] = "wait" /\ \A u \in User : u # t => pc'[u] = pc[u]
  BY <1>0, <1>2, Moves DEF IInv, WorkerPlace
<1>5. TaskOK' /\ TestOK' /\ PhaseOK' /\ NewOK'
  BY <1>0, <1>2, <1>4, IdleStep DEF book, IdleMove
<1>6. NoSleepingPool'
  <2>1. tasks' = << >>
    BY <1>0, <1>2 DEF IInv, TestOK
  <2> QED  BY <1>5, <2>1 DEF NoSleepingPool, PhaseOK
<1>7. waiters \in Seq(Worker) /\ \A i, j \in DOMAIN waiters : waiters[i] = waiters[j] => i = j
  BY DEF IInv, PoolTypeOK, CvOK
<1>8. waiters' \in Seq(Worker) /\ Elems(waiters') = Elems(waiters) \cup {t}
  BY <1>2, <1>7, ElemsAppend
<1>9. \A i, j \in DOMAIN waiters' : waiters'[i] = waiters'[j] => i = j
  BY <1>1, <1>2, <1>7, AppendKeepsOrder
<1>10. PoolTypeOK' /\ Consistent(sched, {})'
  BY <1>2, <1>3, <1>4, <1>8 DEF IInv, PoolTypeOK, CoreOK, PlaceOK, mutex
<1>11. MutexOK' /\ \A u \in User : Waits(u)' <=> Waits(u)
  BY <1>0, <1>1, <1>2, <1>3, <1>4, MutexStays DEF IInv, Critical
<1>12. CvOK'
  BY <1>0, <1>2, <1>3, <1>4, <1>8, <1>9, <1>11 DEF IInv, CvOK, mutex
<1>13. EndOK'
  BY <1>0, <1>3, <1>4 DEF IInv, EndOK
<1>14. Unfreed' = Unfreed
  BY <1>0, <1>4, PoolFacts DEF Unfreed
<1>15. BlockedOK'
  BY <1>0, <1>1, <1>3, <1>4, <1>8, <1>11, <1>14, PoolFacts DEF IInv, BlockedOK
<1> QED  BY <1>4, <1>5, <1>6, <1>10, <1>11, <1>12, <1>13, <1>15 DEF IInv

\* The worker blocks, unless it was woken in between.
LEMMA WaitBlockOK ==
    ASSUME IInv, NEW t \in Worker, WaitBlock(t)
    PROVE  IInv'
<1>0. t \in User /\ OnCpu(t) /\ pc[t] = "block" /\ PlacesOf(t) = WorkerPlace
  BY PoolFacts DEF WaitBlock, At, PlacesOf
<1>1. /\ CoreOK /\ ~Waits(t) /\ t \notin Blocked(sched) /\ mpc[t] = "out"
      /\ (t \in Elems(waiters) <=> t \in Pending(sched))
  BY <1>0, OnCpuFacts DEF LockPlace, UnlockPlace, IInv, CvOK
<1>2. /\ UNCHANGED <<mutex, waiters, tasks, running, submitted, task, done, savedIrq>>
      /\ GoTo(t, "relock") /\ Call(Block(sched, t))
  BY DEF WaitBlock, pool, book
<1>3. /\ CoreOK' /\ Pending(sched') = Pending(sched) \ {t}
      /\ Blocked(sched') = Blocked(sched) \cup (Pending(sched) \cap {t})
      /\ Stopped(sched') = Stopped(sched)
  BY <1>0, <1>1, <1>2, BlockCallOK, UserAssumption
<1>4. PlaceOK' /\ pc'[t] = "relock" /\ \A u \in User : u # t => pc'[u] = pc[u]
  BY <1>0, <1>2, Moves DEF IInv, WorkerPlace
<1>5. TaskOK' /\ TestOK' /\ PhaseOK' /\ NewOK'
  BY <1>0, <1>2, <1>4, IdleStep DEF book, IdleMove
<1>6. NoSleepingPool'
  BY <1>0, <1>2, <1>4, <1>5, StillAwake
<1>7. PoolTypeOK' /\ Consistent(sched, {})'
  BY <1>2, <1>3, <1>4 DEF IInv, PoolTypeOK, CoreOK, PlaceOK, mutex
<1>8. MutexOK' /\ \A u \in User : Waits(u)' <=> Waits(u)
  BY <1>0, <1>1, <1>2, <1>3, <1>4, MutexStays DEF IInv, Critical
<1>9. CvOK' /\ EndOK'
  BY <1>0, <1>1, <1>2, <1>3, <1>4, <1>8 DEF IInv, CvOK, EndOK, mutex
<1>10. Unfreed' = Unfreed
  BY <1>0, <1>4, PoolFacts DEF Unfreed
<1>11. BlockedOK'
  BY <1>0, <1>1, <1>2, <1>3, <1>4, <1>8, <1>10, PoolFacts DEF IInv, BlockedOK
<1> QED  BY <1>4, <1>5, <1>6, <1>7, <1>8, <1>9, <1>11 DEF IInv

\* A waiter is woken: it is awake, or will not block.
LEMMA WakeOneOK ==
    ASSUME IInv, NEW t \in User, OnCpu(t), waiters # << >>, WakeOne,
           UNCHANGED <<mutex, tasks, running, book, savedIrq>>,
           \/ pc[t] = "notify" /\ GoTo(t, "added")
           \/ pc[t] = "wakeall" /\ UNCHANGED pc
    PROVE  IInv'
<1>0. CoreOK /\ ~Waits(t) /\ t \notin Elems(waiters) /\ t \notin Blocked(sched)
      /\ mpc[t] = "out" /\ pc[Owner] # "new"
  BY OnCpuFacts DEF LockPlace, UnlockPlace
<1>1. UNCHANGED <<mpc, tasks, running, submitted, task, done, savedIrq>>
  BY DEF mutex, book
<1> DEFINE n == Head(waiters)
<1>2. /\ n \in Worker /\ waiters' \in Seq(Worker) /\ n \in Elems(waiters)
      /\ Elems(waiters') = Elems(waiters) \ {n}
      /\ \A i, j \in DOMAIN waiters' : waiters'[i] = waiters'[j] => i = j
  BY ElemsTail DEF WakeOne, IInv, PoolTypeOK, CvOK
<1>3. Call(Unblock(sched, n))
  BY DEF WakeOne
<1> HIDE DEF n
<1>4. /\ CoreOK' /\ Pending(sched') = Pending(sched) \ {n}
      /\ Blocked(sched') = Blocked(sched) \ {n} /\ Stopped(sched') = Stopped(sched)
  BY <1>0, <1>2, <1>3, PoolFacts, UnblockCallOK, UserAssumption
<1>5. /\ PlaceOK' /\ \A u \in User : u # t => pc'[u] = pc[u]
      /\ pc'[t] = IF pc[t] = "notify" THEN "added" ELSE "wakeall"
  <2>1. CASE pc[t] = "notify"
    <3>1. "added" \in PlacesOf(t)
      BY <2>1 DEF IInv, PlaceOK, PlacesOf, OwnerPlace, SubmitPlace, WorkerPlace
    <3> QED  BY <2>1, <3>1, Moves DEF IInv
  <2>2. CASE pc[t] = "wakeall"
    BY <2>2 DEF IInv, PlaceOK
  <2> QED  BY <2>1, <2>2
<1>6. n \in User /\ n # t /\ pc[n] \in {"wait", "block", "relock"} /\ ~Waits(n)
  BY <1>0, <1>2, PoolFacts DEF IInv, CvOK, MutexOK, StepOfOK, LockQueueOK, LockPlace
<1>7. PoolTypeOK' /\ Consistent(sched, {})'
  BY <1>1, <1>2, <1>4, <1>5 DEF IInv, PoolTypeOK, CoreOK, PlaceOK, mutex
<1>8. MutexOK' /\ \A u \in User : Waits(u)' <=> Waits(u)
  BY <1>0, <1>4, <1>5, <1>6, MutexStays DEF IInv, Critical
<1>9. CvOK' /\ EndOK'
  BY <1>0, <1>1, <1>2, <1>4, <1>5, <1>8 DEF IInv, CvOK, EndOK
<1>10. Unfreed' = Unfreed
  BY <1>5, PoolFacts DEF Unfreed
<1>11. BlockedOK'
  BY <1>0, <1>1, <1>2, <1>4, <1>5, <1>8, <1>10, PoolFacts DEF IInv, BlockedOK
<1>12. TaskOK' /\ TestOK' /\ NewOK' /\ PhaseOK'
  <2>1. CASE pc[t] = "notify"
    BY <1>1, <1>5, <2>1, IdleStep DEF book, IdleMove
  <2>2. CASE pc[t] = "wakeall"
    <3>1. UNCHANGED pc /\ t = Owner
      BY <2>2, PoolFacts, Roles DEF IInv, SubmitPlace, WorkerPlace
    <3>2. TaskOK' /\ TestOK' /\ NewOK'
      BY <1>0, <1>1, <3>1 DEF IInv, TaskOK, TestOK, NewOK
    <3>3. PhaseOK'
      BY <1>1, <1>10, <2>2, <3>1 DEF IInv, PhaseOK, NotRunning
    <3> QED  BY <3>2, <3>3
  <2> QED  BY <2>1, <2>2
<1>13. NoSleepingPool'
  BY <1>2, <1>5, <1>6 DEF NoSleepingPool
<1> QED  BY <1>5, <1>7, <1>8, <1>9, <1>11, <1>12, <1>13 DEF IInv

\* notify_one(): with no waiter some worker is awake, or all have left an empty queue.
LEMMA NotifyOK ==
    ASSUME IInv, NEW t \in Submitter, Notify(t)
    PROVE  IInv'
<1>0. t \in User /\ OnCpu(t) /\ pc[t] = "notify" /\ SubmitPlace \subseteq PlacesOf(t)
  BY PoolFacts DEF Notify, At, PlacesOf, OwnerPlace
<1>1. UNCHANGED <<mutex, tasks, running, book, savedIrq>> /\ GoTo(t, "added")
  BY DEF Notify
<1>2. CASE waiters # << >>
  BY <1>0, <1>1, <1>2, WakeOneOK DEF Notify, NotifyOne
<1>3. CASE waiters = << >>
  <2>1. UNCHANGED <<core, waiters>>
    BY <1>3 DEF Notify, NotifyOne
  <2>2. CoreOK'
    BY <1>0, <2>1, CoreSame, OnCpuFacts
  <2>3. /\ PlaceOK' /\ pc'[t] = "added" /\ \A u \in User : u # t => pc'[u] = pc[u]
        /\ MutexOK' /\ CvOK' /\ BlockedOK' /\ EndOK'
    BY <1>0, <1>1, <2>1, QuietStep DEF SubmitPlace, QuietMove, Critical, LockPlace, UnlockPlace, core
  <2>4. PoolTypeOK' /\ Consistent(sched, {})'
    BY <1>1, <2>1, <2>2, <2>3 DEF IInv, PoolTypeOK, CoreOK, PlaceOK, mutex, book
  <2>5. TaskOK' /\ TestOK' /\ PhaseOK' /\ NewOK'
    BY <1>0, <1>1, <2>1, <2>3, IdleStep DEF IdleMove
  <2>6. NoSleepingPool'
    <3>1. Elems(waiters') = {}
      BY <1>3, <2>1 DEF Elems
    <3>2. PICK w \in User : w \in Worker
      BY PoolFacts
    <3> QED  BY <2>1, <1>3, <2>5, <3>1, <3>2 DEF NoSleepingPool, TestOK
  <2> QED  BY <2>3, <2>4, <2>5, <2>6 DEF IInv
<1> QED  BY <1>2, <1>3

----------------------------------------------------------------------------
(***************************************************************************)
(* The life of the workers                                                 *)
(***************************************************************************)
\* A worker ends.
LEMMA ExitOK ==
    ASSUME IInv, NEW t \in Worker, Exit(t)
    PROVE  IInv'
<1>0. t \in User /\ OnCpu(t) /\ pc[t] = "exit" /\ PlacesOf(t) = WorkerPlace
  BY PoolFacts DEF Exit, At, PlacesOf
<1>1. /\ CoreOK /\ ~Waits(t) /\ t \notin Elems(waiters) /\ mpc[t] = "out"
      /\ t \notin Blocked(sched) /\ t \notin Pending(sched)
  BY <1>0, OnCpuFacts DEF LockPlace, UnlockPlace, IInv, CvOK
<1>2. /\ UNCHANGED <<mutex, waiters, tasks, running, submitted, task, done, savedIrq>>
      /\ GoTo(t, "ended") /\ Call(Stop(sched, t))
  BY DEF Exit, pool, book
<1>3. /\ CoreOK' /\ Pending(sched') = Pending(sched) /\ Blocked(sched') = Blocked(sched)
      /\ Stopped(sched') = Stopped(sched) \cup {t}
  <2>1. sched \in Sched /\ Consistent(sched, {}) /\ t \in Thread /\ sched.running = t
    BY <1>0, <1>1, SchedulableFacts, UserAssumption DEF CoreOK, CoreTypeOK, OnCpu
  <2>2. CallOK(sched, sched', {})
    BY <1>2, <2>1, StopOK DEF Call
  <2>3. /\ Pending(sched') = Pending(sched) \ {t} /\ Blocked(sched') = Blocked(sched) \ {t}
        /\ Stopped(sched') = Stopped(sched) \cup {t}
    BY <1>2, <2>1, StopEffect DEF Call
  <2> QED  BY <1>1, <1>2, <2>2, <2>3 DEF Call, CallOK, CoreOK, CoreTypeOK
<1>4. PlaceOK' /\ pc'[t] = "ended" /\ \A u \in User : u # t => pc'[u] = pc[u]
  BY <1>0, <1>2, Moves DEF IInv, WorkerPlace
<1>5. TaskOK' /\ TestOK' /\ PhaseOK' /\ NewOK'
  BY <1>0, <1>2, <1>4, IdleStep DEF book, IdleMove
<1>6. NoSleepingPool'
  BY <1>0, <1>2, <1>4, <1>5, StillAwake
<1>7. PoolTypeOK' /\ Consistent(sched, {})'
  BY <1>2, <1>3, <1>4 DEF IInv, PoolTypeOK, CoreOK, PlaceOK, mutex
<1>8. MutexOK' /\ \A u \in User : Waits(u)' <=> Waits(u)
  BY <1>0, <1>1, <1>2, <1>3, <1>4, MutexStays DEF IInv, Critical
<1>9. CvOK' /\ EndOK'
  BY <1>0, <1>1, <1>2, <1>3, <1>4, <1>8, SchedulableFacts, UserAssumption DEF IInv, CvOK, EndOK, mutex
<1>10. Unfreed' = Unfreed
  BY <1>0, <1>4, PoolFacts DEF Unfreed
<1>11. BlockedOK'
  BY <1>0, <1>1, <1>2, <1>3, <1>4, <1>8, <1>10, PoolFacts DEF IInv, BlockedOK
<1> QED  BY <1>4, <1>5, <1>6, <1>7, <1>8, <1>9, <1>11 DEF IInv

\* start() schedules a worker.
LEMMA ScheduleWorkerOK ==
    ASSUME IInv, StartWorker, Unscheduled # {}
    PROVE  IInv'
<1> DEFINE w == FirstOf(Unscheduled)
<1>1. w \in Worker /\ w \in User /\ w # Owner
  <2>1. Unscheduled \in SUBSET Worker
    BY DEF Unscheduled
  <2> QED  BY <2>1, FirstOfIsOne, PoolFacts
<1> HIDE DEF w
<1>2. /\ Call(Schedule(sched, w)) /\ UNCHANGED <<mutex, pool, book, savedIrq, pc>>
      /\ sched.running = Owner /\ pc[Owner] = "start"
  BY DEF StartWorker, At, OnCpu, w
<1>3. sched \in Sched /\ Consistent(sched, {}) /\ w \in Thread /\ w # sched.running
  BY <1>1, <1>2, SchedulableFacts, UserAssumption DEF IInv, PoolTypeOK, CoreTypeOK
<1>4. CallOK(sched, sched', {})
  BY <1>2, <1>3, ScheduleOK DEF Call
<1>5. sched'.state = sched.state
  BY <1>2, <1>3 DEF Call, Schedule, Sched
<1>6. CoreOK' /\ SleepersSame
  BY <1>2, <1>4, <1>5
  DEF Call, CallOK, CoreOK, CoreTypeOK, IInv, PoolTypeOK, SleepersSame, Pending, Blocked,
      Stopped, InState
<1> QED  BY <1>2, <1>6, SamePool

\* The destructor waits for a worker that is not freed yet.
LEMMA JoinBlockOK ==
    ASSUME IInv, Join, Unfreed # {}
    PROVE  IInv'
<1>0. /\ Owner \in User /\ Owner \notin Worker /\ OnCpu(Owner) /\ pc[Owner] = "join"
      /\ PlacesOf(Owner) = OwnerPlace
  BY PoolFacts DEF Join, At, PlacesOf
<1>1. /\ CoreOK /\ ~Waits(Owner) /\ Owner \notin Elems(waiters) /\ mpc[Owner] = "out"
  BY <1>0, OnCpuFacts DEF LockPlace, UnlockPlace
<1>2. /\ UNCHANGED <<frames, mutex, waiters, tasks, running, submitted, task, done>>
      /\ GoTo(Owner, "joined") /\ sched' = Block(MarkAsBlockPending(sched), Owner)
      /\ irqOn' = FALSE /\ savedIrq' = irqOn
  BY DEF Join, pool, book
<1>3. /\ sched' \in Sched /\ Consistent(sched', {})
      /\ Pending(sched') = Pending(sched) \ {Owner}
      /\ Blocked(sched') = Blocked(sched) \cup {Owner}
      /\ Stopped(sched') = Stopped(sched)
  BY <1>0, <1>1, <1>2, SleepEffect DEF OnCpu
<1>4. PlaceOK' /\ pc'[Owner] = "joined" /\ \A u \in User : u # Owner => pc'[u] = pc[u]
  BY <1>0, <1>2, Moves DEF IInv, OwnerPlace
<1>5. TaskOK' /\ TestOK' /\ PhaseOK' /\ NewOK'
  BY <1>0, <1>2, <1>4, IdleStep DEF book, IdleMove
<1>6. NoSleepingPool'
  BY <1>0, <1>2, <1>4, <1>5, StillAwake
<1>7. PoolTypeOK' /\ Consistent(sched, {})'
  BY <1>2, <1>3, <1>4 DEF IInv, PoolTypeOK, CoreTypeOK, PlaceOK, mutex
<1>8. MutexOK' /\ \A u \in User : Waits(u)' <=> Waits(u)
  BY <1>0, <1>1, <1>2, <1>3, <1>4, MutexStays DEF IInv, Critical
<1>9. CvOK' /\ EndOK'
  BY <1>0, <1>1, <1>2, <1>3, <1>4, <1>8 DEF IInv, CvOK, EndOK, mutex
<1>10. Unfreed' = Unfreed
  BY <1>0, <1>4, PoolFacts DEF Unfreed
<1>11. BlockedOK'
  BY <1>0, <1>1, <1>2, <1>3, <1>4, <1>8, <1>10, PoolFacts DEF IInv, BlockedOK
<1> QED  BY <1>4, <1>5, <1>6, <1>7, <1>8, <1>9, <1>11 DEF IInv

\* The garbage collector frees workers that have ended, and the owner it wakes is
\* the one that waits for the first of them.
LEMMA CollectOK ==
    ASSUME IInv, Collect
    PROVE  IInv'
<1> DEFINE bin   == Elems(sched.bin)
           empty == [sched EXCEPT !.bin = << >>]
           wakes == pc[Owner] = "joined" /\ FirstOf(Unfreed) \in bin
           told  == IF wakes THEN Unblock(empty, Owner) ELSE empty
<1>0. /\ sched.running = Gct /\ sched' = Block(MarkAsBlockPending(told), Gct)
      /\ pc' = [t \in User |-> IF t \in bin THEN "freed" ELSE pc[t]]
      /\ irqOn' = TRUE
      /\ UNCHANGED <<frames, mutex, waiters, tasks, running, submitted, task, done, savedIrq>>
  BY DEF Collect, OnCpu, pool, book
<1>1. sched \in Sched /\ Consistent(sched, {})
  BY DEF IInv, PoolTypeOK, CoreTypeOK
<1>2. /\ empty \in Sched /\ empty.running = Gct /\ empty.bin = << >>
      /\ empty.state = sched.state /\ empty.ready = sched.ready
  <2>1. sched.running = Gct
    BY <1>0
  <2>2. << >> \in Seq(Thread)
    BY EmptySeq
  <2> QED  BY <1>1, <2>1, <2>2 DEF Sched
<1>3. bin \subseteq Stopped(sched)
  BY <1>1, LenProperties, ElementOfSeq DEF Consistent, StatesOK, Elems, Sched, Stopped, InState
<1> HIDE DEF empty, bin
<1>4. Consistent(empty, {})
  <2>1. Elems(empty.bin) = {}
    BY <1>2 DEF Elems
  <2> QED  BY <1>0, <1>1, <1>2, <2>1 DEF Consistent, QueueOK, StatesOK, RunningOK
<1>5. /\ Pending(empty) = Pending(sched) /\ Blocked(empty) = Blocked(sched)
      /\ Stopped(empty) = Stopped(sched)
      /\ \A t \in Thread : Outside(sched, t) => Outside(empty, t)
  BY <1>0, <1>2 DEF Pending, Blocked, Stopped, InState, Outside
<1> DEFINE woken == IF wakes THEN {Owner} ELSE {}
<1>6. /\ told \in Sched /\ Consistent(told, {}) /\ told.running = Gct /\ told.bin = << >>
      /\ Pending(told) = Pending(sched) \ woken /\ Blocked(told) = Blocked(sched) \ woken
      /\ Stopped(told) = Stopped(sched)
      /\ pc[Owner] = "new" => told = empty
  <2>1. CASE ~wakes
    BY <1>2, <1>4, <1>5, <2>1
  <2>2. CASE wakes
    <3>1. Owner \in Thread /\ CanEnqueue(Owner)
      BY PoolFacts, SchedulableFacts, UserAssumption
    <3>2. told = Unblock(empty, Owner)
      BY <2>2
    <3>3. CallOK(empty, told, {})
      BY <1>2, <1>4, <3>1, <3>2, UnblockOK
    <3>4. /\ Pending(told) = Pending(empty) \ {Owner} /\ Blocked(told) = Blocked(empty) \ {Owner}
          /\ Stopped(told) = Stopped(empty) /\ told.running = empty.running /\ told.bin = empty.bin
      BY <1>2, <3>1, <3>2, UnblockEffect
    <3> QED  BY <1>2, <1>5, <2>2, <3>3, <3>4 DEF CallOK
  <2> QED  BY <2>1, <2>2
<1> HIDE DEF told
<1>7. /\ CoreOK' /\ Pending(sched') = Pending(sched) \ woken
      /\ Blocked(sched') = Blocked(sched) \ woken /\ Stopped(sched') = Stopped(sched)
      /\ \A t \in Thread : Outside(told, t) => Outside(sched', t)
  BY <1>0, <1>6, GctSleepsOK DEF CallOK, CoreOK, CoreTypeOK, IInv, PoolTypeOK
\* Only workers that have ended are freed.
<1>8. \A t \in User : IF t \in bin THEN pc[t] \in {"ended", "freed"} /\ pc'[t] = "freed"
                      ELSE pc'[t] = pc[t]
  BY <1>0, <1>3 DEF IInv, EndOK
<1>9. PlaceOK'
  <2>1. \A t \in User : pc[t] \in {"ended", "freed"} => t \in Worker
    BY PoolFacts, Roles DEF IInv, OwnerPlace, SubmitPlace
  <2> QED  BY <1>0, <1>8, <2>1 DEF IInv, PlaceOK, PlacesOf, WorkerPlace
<1>10. pc'[Owner] = pc[Owner] /\ \A t \in Submitter : pc'[t] = pc[t]
  <2>1. \A t \in Submitter : pc[t] \notin {"ended", "freed"}
    BY PoolFacts, Roles DEF IInv, OwnerPlace, SubmitPlace
  <2> QED  BY <1>8, <2>1, PoolFacts
<1>11. PoolTypeOK' /\ Consistent(sched, {})'
  BY <1>0, <1>7 DEF IInv, PoolTypeOK, CoreOK, mutex
<1>12. \A t \in woken : t = Owner /\ pc[t] = "joined"
  OBVIOUS
<1>13. MutexOK' /\ \A u \in User : Waits(u)' <=> Waits(u)
  <2>1. \A u \in User : pc[u] \in {"ended", "freed", "joined"} => mpc[u] = "out" /\ ~Waits(u)
    BY DEF IInv, PoolTypeOK, MutexOK, StepOfOK, LockQueueOK, LockPlace, UnlockPlace
  <2> QED  BY <1>0, <1>7, <1>8, <1>12, <2>1, MutexStays DEF IInv, Critical
<1>14. CvOK' /\ EndOK'
  <2>1. CvOK'
    BY <1>0, <1>7, <1>8, <1>12, <1>13 DEF IInv, CvOK, mutex
  <2>2. EndOK'
    BY <1>7, <1>8 DEF IInv, EndOK
  <2> QED  BY <2>1, <2>2
<1>15. Unfreed' \subseteq Unfreed
  BY <1>8, PoolFacts DEF Unfreed
<1>16. BlockedOK'
  <2>1. \A t \in User : t \in Blocked(sched') =>
           Waits(t)' \/ t \in Elems(waiters') \/ (t = Owner /\ pc'[t] = "joined")
    BY <1>0, <1>7, <1>10, <1>13 DEF IInv, BlockedOK
  <2>2. ASSUME Owner \in Blocked(sched'), pc'[Owner] = "joined" PROVE Unfreed' # {}
    <3>1. Unfreed # {} /\ ~wakes
      BY <1>7, <1>10, <2>2 DEF IInv, BlockedOK
    <3>2. Unfreed \in SUBSET Worker
      BY DEF Unfreed
    <3>3. FirstOf(Unfreed) \in Unfreed /\ FirstOf(Unfreed) \notin bin
      BY <1>10, <2>2, <3>1, <3>2, FirstOfIsOne
    <3> QED  BY <1>8, <3>3, PoolFacts DEF Unfreed
  <2> QED  BY <2>1, <2>2 DEF BlockedOK
<1>17. TaskOK'
  <2>1. \A t \in User : pc'[t] \in {"submit", "add", "taken", "exec"}
                        <=> pc[t] \in {"submit", "add", "taken", "exec"}
    BY <1>8
  <2> QED  BY <1>0, <2>1 DEF IInv, TaskOK
<1>18. TestOK'
  BY <1>0, <1>8, PoolFacts DEF IInv, TestOK
<1>19. PhaseOK'
  BY <1>0, <1>10, <1>15 DEF IInv, PhaseOK
<1>20. NewOK'
  <2>1. ASSUME pc[Owner] = "new", NEW w \in Worker PROVE pc'[w] = "wlock" /\ Outside(sched', w)
    <3>1. w \in User /\ w \in Thread /\ pc[w] = "wlock" /\ Outside(sched, w)
      BY <2>1, PoolFacts, SchedulableFacts, UserAssumption DEF IInv, NewOK
    <3> QED  BY <1>5, <1>6, <1>7, <1>8, <2>1, <3>1
  <2> QED  BY <1>10, <2>1 DEF NewOK
<1>21. NoSleepingPool'
  <2>1. \A w \in Worker : pc'[w] \in {"exit", "ended", "freed"} => pc[w] \in {"exit", "ended", "freed"}
    BY <1>8, PoolFacts
  <2> QED  BY <1>0, <1>10, <2>1 DEF IInv, NoSleepingPool
<1> QED  BY <1>9, <1>11, <1>13, <1>14, <1>16, <1>17, <1>18, <1>19, <1>20, <1>21 DEF IInv

----------------------------------------------------------------------------
(***************************************************************************)
(* The initial states and the steps                                        *)
(***************************************************************************)
\* The initial states.
LEMMA InitOK ==
    ASSUME Init
    PROVE  IInv
<1> DEFINE S == Submitter \ {Owner}
<1>1. S \subseteq Thread /\ IsFiniteSet(S) /\ Owner \in Thread /\ S \subseteq User
  BY PoolFacts, SchedulableFacts, UserAssumption, FS_Subset
<1>2. PICK q \in ReadyQueues(S) :
         sched = [running |-> Owner,
                  state   |-> [t \in AnyThread |-> IF t = Owner THEN "RUNNING"
                                                  ELSE IF t \in Worker THEN "CREATED"
                                                  ELSE IF t \in Submitter THEN "READY"
                                                  ELSE "BLOCKED"],
                  ready   |-> q,
                  bin     |-> << >>]
  BY DEF Init
<1>3. q \in Queues /\ LevelsOK(q) /\ Queued(q) = S
  BY <1>1, ReadyQueuesOK
<1>4. Thread \subseteq AnyThread /\ Idle \in AnyThread /\ Gct \in AnyThread
  BY DEF AnyThread
<1>5. /\ sched.running = Owner /\ sched.ready = q /\ sched.bin = << >>
      /\ \A t \in AnyThread : sched.state[t] = IF t = Owner THEN "RUNNING"
                                               ELSE IF t \in Worker THEN "CREATED"
                                               ELSE IF t \in Submitter THEN "READY"
                                               ELSE "BLOCKED"
  BY <1>2
<1>6. sched \in Sched
  <2>1. [t \in AnyThread |-> IF t = Owner THEN "RUNNING"
                             ELSE IF t \in Worker THEN "CREATED"
                             ELSE IF t \in Submitter THEN "READY"
                             ELSE "BLOCKED"] \in [AnyThread -> ThreadState]
    BY DEF ThreadState
  <2>2. Owner \in AnyThread /\ << >> \in Seq(Thread)
    BY <1>1, <1>4
  <2> QED  BY <1>2, <1>3, <2>1, <2>2 DEF Sched, Queues
<1>7. Idle \notin User /\ Gct \notin User /\ User \subseteq Thread
  BY SchedulableFacts, UserAssumption
<1>8. Consistent(sched, {})
  <2>1. QueueOK(sched, {})
    <3>1. \A t \in Thread : sched.state[t] \in {"READY", "BLOCK_PENDING"} => t \in S
      BY <1>4, <1>5
    <3>2. \A t \in S : sched.state[t] = "READY"
      BY <1>1, <1>4, <1>5, PoolFacts
    <3> QED  BY <1>3, <1>5, <3>1, <3>2 DEF QueueOK
  <2>2. StatesOK(sched)
    <3>1. Elems(sched.bin) = {}
      BY <1>5 DEF Elems
    <3>2. Idle # Owner /\ Gct # Owner /\ Idle \notin Worker /\ Gct \notin Worker
          /\ Idle \notin Submitter /\ Gct \notin Submitter
      BY <1>7, PoolFacts
    <3> QED  BY <1>1, <1>4, <1>5, <3>1, <3>2, SchedulableFacts, PoolFacts, UserAssumption DEF StatesOK
  <2>3. RunningOK(sched)
    BY <1>1, <1>4, <1>5 DEF RunningOK
  <2> QED  BY <2>1, <2>2, <2>3 DEF Consistent
<1>9. \A t \in User : t \notin Pending(sched) /\ t \notin Blocked(sched) /\ t \notin Stopped(sched)
  BY <1>4, <1>5, <1>7, PoolFacts DEF Pending, Blocked, Stopped, InState
<1>10. /\ irqOn = TRUE /\ savedIrq = TRUE
       /\ locked = FALSE /\ holder = NoThread /\ lockQueue = << >>
       /\ toWake = [t \in User |-> NoThread] /\ mpc = [t \in User |-> "out"]
       /\ waiters = << >> /\ tasks = << >> /\ running = FALSE
       /\ submitted = 0 /\ done = {}
       /\ task = [t \in User |-> 0]
       /\ frames \in [AnyThread -> 0 .. MaxNest]
  BY MaxNestAssumption DEF Init
<1>11. /\ Elems(lockQueue) = {} /\ Elems(waiters) = {} /\ Elems(tasks) = {}
       /\ DOMAIN lockQueue = {} /\ DOMAIN waiters = {} /\ DOMAIN tasks = {}
  BY <1>10 DEF Elems
<1>12. pc = [t \in User |-> IF t = Owner THEN "new" ELSE IF t \in Worker THEN "wlock" ELSE "out"]
  BY PoolFacts DEF Init
<1>13. PlaceOK
  BY <1>12, PoolFacts DEF PlaceOK, PlacesOf, OwnerPlace, SubmitPlace, WorkerPlace
<1>14. PoolTypeOK
  <2>1. CoreTypeOK
    BY <1>6, <1>10 DEF CoreTypeOK
  <2>2. << >> \in Seq(User) /\ << >> \in Seq(Worker) /\ << >> \in Seq(1 .. MaxTasks)
    BY EmptySeq
  <2>3. 0 \in 0 .. MaxTasks
    BY PoolFacts
  <2>4. task \in [User -> 0 .. MaxTasks] /\ submitted \in 0 .. MaxTasks
    BY <1>10, <2>3
  <2> QED  BY <1>10, <1>12, <2>1, <2>2, <2>4 DEF PoolTypeOK
<1>15. MutexOK
  BY <1>10, <1>11, <1>12, PoolFacts
  DEF MutexOK, StepOfOK, HolderOK, ReleaseOK, LockQueueOK, Waits, Handed, Critical
<1>16. CvOK /\ BlockedOK
  BY <1>9, <1>11, PoolFacts DEF CvOK, BlockedOK
<1>17. EndOK
  BY <1>9, <1>12 DEF EndOK
<1>18. TaskOK
  BY <1>10, <1>11, <1>12 DEF TaskOK
<1>19. TestOK
  BY <1>12, PoolFacts DEF TestOK
<1>20. PhaseOK
  BY <1>10, <1>12, PoolFacts DEF PhaseOK, NotRunning
<1>21. NewOK
  BY <1>3, <1>5, <1>12, PoolFacts DEF NewOK, Outside
<1>22. NoSleepingPool
  BY <1>10 DEF NoSleepingPool
<1> QED  BY <1>8, <1>13, <1>14, <1>15, <1>16, <1>17, <1>18, <1>19, <1>20, <1>21, <1>22 DEF IInv

\* Every step keeps the inductive invariant.
LEMMA StepOK ==
    ASSUME IInv, [Next]_vars
    PROVE  IInv'
<1>0. CoreOK
  BY DEF IInv, CoreOK, PoolTypeOK
<1>1. CASE UNCHANGED vars
  BY <1>0, <1>1, CoreSame, SamePool DEF vars, core
<1>2. CASE CoreNext /\ UNCHANGED <<mutex, pool, book, savedIrq, pc>>
  BY <1>0, <1>2, CoreStepOK, SamePool
<1>3. CASE Start \/ Destroy
  BY <1>3, OwnerQuietOK
<1>4. CASE OwnerStep
  <2>1. CASE StartWorker
    BY <2>1, OwnerQuietOK, ScheduleWorkerOK
  <2>2. CASE NotifyWorkers /\ waiters # << >>
    <3>1. /\ Owner \in User /\ OnCpu(Owner) /\ pc[Owner] = "wakeall" /\ WakeOne /\ UNCHANGED pc
          /\ UNCHANGED <<mutex, tasks, running, book, savedIrq>>
      BY <2>2, PoolFacts DEF NotifyWorkers, At
    <3> QED  BY <2>2, <3>1, WakeOneOK
  <2>3. CASE Join
    BY <2>3, OwnerQuietOK, JoinBlockOK
  <2> QED  BY <1>4, <2>1, <2>2, <2>3, OwnerQuietOK DEF OwnerStep
<1>5. ASSUME NEW t \in User, MutexStep(t) PROVE IInv'
  BY <1>5, LockTryOK, LockQueueStepOK, LockBlockOK, LockWokenOK, UnlockPopOK, UnlockEndOK DEF MutexStep
<1>6. ASSUME NEW t \in Submitter, Submit(t) \/ SubmitStep(t) PROVE IInv'
  BY <1>6, SubmitStepOK, AddTaskOK, NotifyOK DEF SubmitStep
<1>7. ASSUME NEW w \in Worker, WorkerStep(w) PROVE IInv'
  BY <1>7, TestStepOK, WaitOK, WaitBlockOK, TakeStepOK, ExecStepOK, ExitOK DEF WorkerStep
<1> QED  BY <1>1, <1>2, <1>3, <1>4, <1>5, <1>6, <1>7, CollectOK DEF Next

----------------------------------------------------------------------------
(***************************************************************************)
(* Theorems                                                                *)
(***************************************************************************)
\* The inductive invariant holds in every reachable state.
THEOREM Invariance == Spec => []IInv
<1>1. Init => IInv
  BY InitOK
<1>2. IInv /\ [Next]_vars => IInv'
  BY StepOK
<1> QED  BY <1>1, <1>2, PTL DEF Spec

\* The variables keep their types: a worker never runs what is not a task.
THEOREM TypeCorrect == Spec => []PoolTypeOK
<1>1. IInv => PoolTypeOK
  BY DEF IInv
<1> QED  BY <1>1, Invariance, PTL

\* The pool does not sleep on a task, nor on its destruction.
THEOREM PoolIsAwake == Spec => []NoSleepingPool
<1>1. IInv => NoSleepingPool
  BY DEF IInv
<1> QED  BY <1>1, Invariance, PTL

\* Whoever is blocked is in the queue of the mutex, which may be free by then, or
\* being woken by an unlock(), on the condition variable, or joins a worker that is
\* not freed.
THEOREM SleepersAreQueued == Spec => []BlockedIsQueued
<1>1. ASSUME IInv PROVE BlockedIsQueued
  <2>1. ASSUME NEW t \in User, sched.state[t] = "BLOCKED"
        PROVE  \/ t \in Elems(lockQueue)
               \/ \E u \in User : mpc[u] = "release" /\ toWake[u] = t
               \/ t \in Elems(waiters)
               \/ t = Owner /\ pc[t] = "joined" /\ Unfreed # {}
    <3>1. t \in Blocked(sched)
      BY <2>1, SchedulableFacts, UserAssumption DEF Blocked, InState
    <3>2. \A u \in User : toWake[u] = t => mpc[u] = "release"
      BY <1>1, PoolFacts DEF IInv, MutexOK, ReleaseOK
    <3> QED  BY <1>1, <3>1, <3>2 DEF IInv, BlockedOK, Waits
  <2>2. ASSUME NEW w \in Elems(waiters)
        PROVE  \/ sched.state[w] = "BLOCKED" /\ pc[w] = "relock"
               \/ sched.state[w] = "BLOCK_PENDING" /\ pc[w] \in {"wait", "block"}
    <3>1. w \in User
      <4>1. waiters \in Seq(Worker)
        BY <1>1 DEF IInv, PoolTypeOK
      <4> QED  BY <2>2, <4>1, PoolFacts, LenProperties, ElementOfSeq DEF Elems
    <3> QED  BY <1>1, <2>2, <3>1 DEF IInv, CvOK, Pending, Blocked, InState
  <2> QED  BY <2>1, <2>2 DEF BlockedIsQueued
<1> QED  BY <1>1, Invariance, PTL

\* A task is in one place, and done when the destructor has returned.
LEMMA TasksAreCounted ==
    ASSUME IInv, NEW n \in 1 .. submitted
    PROVE  Cardinality({t \in User : task[t] = n})
           + Cardinality({i \in DOMAIN tasks : tasks[i] = n})
           + Cardinality(done \cap {n}) = 1
<1> DEFINE A == {t \in User : task[t] = n}
           B == {i \in DOMAIN tasks : tasks[i] = n}
           C == done \cap {n}
<1>0. Cardinality({}) = 0 /\ \A x : Cardinality({x}) = 1
  BY FS_EmptySet, FS_Singleton
<1>1. n # 0 /\ TaskOK
  BY PoolFacts DEF IInv, PoolTypeOK
<1> SUFFICES Cardinality(A) + Cardinality(B) + Cardinality(C) = 1
  OBVIOUS
<1>2. CASE n \in done
  <2>1. A = {} /\ B = {} /\ C = {n}
    BY <1>1, <1>2 DEF TaskOK, Elems
  <2> HIDE DEF A, B, C
  <2>2. Cardinality(A) = 0 /\ Cardinality(B) = 0 /\ Cardinality(C) = 1
    BY <1>0, <2>1, Zenon
  <2> QED  BY <2>2
<1>3. CASE n \in Elems(tasks)
  <2>1. PICK i \in DOMAIN tasks : tasks[i] = n
    BY <1>3 DEF Elems
  <2>2. A = {} /\ B = {i} /\ C = {}
    BY <1>1, <1>3, <2>1 DEF TaskOK
  <2> HIDE DEF A, B, C
  <2>3. Cardinality(A) = 0 /\ Cardinality(B) = 1 /\ Cardinality(C) = 0
    BY <1>0, <2>2, Zenon
  <2> QED  BY <2>3
<1>4. ASSUME NEW t \in User, task[t] = n PROVE Cardinality(A) + Cardinality(B) + Cardinality(C) = 1
  <2>1. A = {t} /\ B = {} /\ C = {}
    BY <1>1, <1>4 DEF TaskOK, Elems
  <2> HIDE DEF A, B, C
  <2>2. Cardinality(A) = 1 /\ Cardinality(B) = 0 /\ Cardinality(C) = 0
    BY <1>0, <2>1, Zenon
  <2> QED  BY <2>2
<1> QED  BY <1>1, <1>2, <1>3, <1>4 DEF TaskOK

\* When the destructor has returned, nothing is left in the pool.
LEMMA NothingIsLeft ==
    ASSUME IInv, pc[Owner] = "gone"
    PROVE  /\ done = 1 .. submitted
           /\ waiters = << >> /\ lockQueue = << >> /\ holder = NoThread
           /\ \A w \in Worker : sched.state[w] = "STOPPED"
<1>1. \A w \in Worker : pc[w] = "freed"
  BY DEF IInv, PhaseOK, Unfreed
<1>2. \A t \in Submitter : pc[t] \in {"out", "gone"}
  BY DEF IInv, PhaseOK, NotRunning
<1>3. \A t \in User : pc[t] \in {"out", "gone", "freed"}
  BY <1>1, <1>2, PoolFacts
<1>4. waiters = << >>
  BY DEF IInv, PhaseOK
<1>5. \A t \in User : mpc[t] = "out" /\ ~Waits(t)
  BY <1>3 DEF IInv, PoolTypeOK, MutexOK, StepOfOK, LockQueueOK, LockPlace, UnlockPlace
<1>6. holder = NoThread /\ lockQueue = << >>
  <2>1. holder = NoThread
    BY <1>3, <1>5 DEF IInv, MutexOK, HolderOK, Handed, Critical, PoolTypeOK
  <2>2. lockQueue \in Seq(User) /\ (lockQueue # << >> => Head(lockQueue) \in Elems(lockQueue) /\ Head(lockQueue) \in User)
    BY ElemsTail DEF IInv, PoolTypeOK, MutexOK, LockQueueOK
  <2> QED  BY <1>5, <2>1, <2>2 DEF Waits
<1>7. \A w \in Worker : sched.state[w] = "STOPPED"
  BY <1>1, PoolFacts DEF IInv, EndOK, Stopped, InState
<1>8. tasks = << >> /\ Elems(tasks) = {}
  <2>1. tasks = << >>
    BY <1>1, PoolFacts DEF IInv, TestOK
  <2> QED  BY <2>1 DEF Elems
<1>9. \A t \in User : task[t] = 0
  BY <1>3 DEF IInv, TaskOK
<1>10. done = 1 .. submitted
  <2>1. done \subseteq 1 .. submitted
    BY DEF IInv, TaskOK
  <2>2. ASSUME NEW n \in 1 .. submitted PROVE n \in done
    BY <1>8, <1>9, <2>2 DEF IInv, TaskOK
  <2> QED  BY <2>1, <2>2
<1> QED  BY <1>4, <1>6, <1>7, <1>10

\* Every task that was accepted is in one place, and all are done, with no thread
\* left, when the destructor has returned.
THEOREM TasksRunOnce == Spec => []EveryTaskOnce
<1>1. IInv => EveryTaskOnce
  BY TasksAreCounted, NothingIsLeft DEF EveryTaskOnce
<1> QED  BY <1>1, Invariance, PTL
=============================================================================
