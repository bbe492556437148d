----------------------------- MODULE ThreadPool -----------------------------
(***************************************************************************)
(* ThreadPool.h with the condition variable below it, on the core of       *)
(* module Core: tasks are submitted, run by the workers, and the           *)
(* destructor stops the workers and waits for them.                        *)
(*                                                                         *)
(* The mutex of the pool is that of Mutex.cpp, its lost wake up included:  *)
(* a thread whose exchange failed queues in a later step and may then      *)
(* sleep on a mutex that was freed meanwhile.  Of what module Mutex has    *)
(* in detail, one step each here are the exchange with the setting of      *)
(* _owner, the two sections under _wait_queue_lock, and the end of         *)
(* unlock(), which either frees the mutex or unblocks its next owner.  One *)
(* step, too, are wait() under the spinlock of the condition variable,     *)
(* each wake_one(), and the round of the garbage collector (Threading has  *)
(* it in detail).                                                          *)
(*                                                                         *)
(* Submitters call submit(); one of them, the owner, starts the pool and   *)
(* destroys it when no other thread is inside of submit().  pc[t] is where *)
(* a thread is; a place in Locks or Unlocks is in front of that call, or   *)
(* inside of it, where mpc[t] tells how far.                               *)
(*                                                                         *)
(*   new, start     the owner before and inside of start()                 *)
(*   out            in no function of the pool                             *)
(*   submit, add, notify, added            submit()                        *)
(*   destroy, stop, unstop, wakeall, join, joined, gone   the destructor   *)
(*   wlock, test, take, taken, exec, leave exec_worker_thread()            *)
(*   sleep, wait, block, relock            ConditionVariable::wait()       *)
(*   exit, ended, freed                    the end of a worker             *)
(*                                                                         *)
(*   mpc: queue (the exchange of lock() failed), block (queued and marked), *)
(*   woken (back from block()), release (past the section of unlock())     *)
(***************************************************************************)
EXTENDS Core

CONSTANTS
    PoolThreads,    \* m_threads: the workers, in this order
    Submitter,      \* the threads that submit tasks, First is the owner
    NoThread,
    MaxTasks        \* bound: the tasks that are submitted

Worker == Elems(PoolThreads)
Owner  == First

ASSUME PoolAssumption ==
    /\ User = Worker \cup Submitter
    /\ Worker \cap Submitter = {}
    /\ Owner \in Submitter
    /\ PoolThreads \in Seq(User) /\ PoolThreads # << >>
    /\ \A i, j \in DOMAIN PoolThreads : PoolThreads[i] = PoolThreads[j] => i = j
    /\ NoThread \notin AnyThread
    /\ MaxTasks \in Nat

VARIABLES
    locked,     \* m_task_queue_mutex: its _lock,
    holder,     \* ... its _owner,
    lockQueue,  \* ... its _wait_queue,
    toWake,     \* ... thread_to_wake of a thread that is in unlock(),
    mpc,        \* ... and where a thread is inside of lock() or unlock()
    waiters,    \* m_cv.m_waiters
    tasks,      \* m_task_queue
    running,    \* m_running
    submitted,  \* the number of tasks so far: they are numbered
    task,       \* the task a thread is submitting or running, or 0
    done,       \* the tasks that were run
    savedIrq,   \* the flag kept by the lock of the CPU module
    pc

mutex == <<locked, holder, lockQueue, toWake, mpc>>
pool  == <<waiters, tasks, running>>
book  == <<submitted, task, done>>
vars  == <<core, mutex, pool, book, savedIrq, pc>>

\* The owner is running, the other submitters have been preempted by ticks, and the
\* workers are not yet scheduled.
Init ==
    /\ \E ready \in ReadyQueues(Submitter \ {Owner}) :
          sched = [running |-> Owner,
                   state   |-> [t \in AnyThread |-> IF t = Owner THEN "RUNNING"
                                                   ELSE IF t \in Worker THEN "CREATED"
                                                   ELSE IF t \in Submitter THEN "READY"
                                                   ELSE "BLOCKED"],
                   ready   |-> ready,
                   bin     |-> << >>]
    /\ irqOn = TRUE /\ savedIrq = TRUE
    /\ frames = [t \in AnyThread |-> IF t \in Submitter \ {Owner} THEN 1 ELSE 0]
    /\ locked = FALSE /\ holder = NoThread /\ lockQueue = << >>
    /\ toWake = [t \in User |-> NoThread] /\ mpc = [t \in User |-> "out"]
    /\ waiters = << >> /\ tasks = << >> /\ running = FALSE
    /\ submitted = 0 /\ done = {}
    /\ task = [t \in User |-> 0]
    /\ pc = [t \in User |-> CASE t = Owner -> "new" [] t \in Worker -> "wlock" [] OTHER -> "out"]

At(t, place) == OnCpu(t) /\ pc[t] = place

GoTo(t, place) == pc' = [pc EXCEPT ![t] = place]

----------------------------------------------------------------------------
(***************************************************************************)
(* Mutex: the places that lock or unlock it, and what follows.             *)
(***************************************************************************)
Locks   == [submit |-> "add", wlock |-> "test", relock |-> "test", destroy |-> "stop"]
Unlocks == [added |-> "out", wait |-> "block", taken |-> "exec", leave |-> "exit",
            unstop |-> "wakeall"]

InMutex(t, place) == mpc' = [mpc EXCEPT ![t] = place]

\* lock(): the exchange.  It fails, or t gets the mutex.
LockTry(t) ==
    /\ OnCpu(t) /\ pc[t] \in DOMAIN Locks /\ mpc[t] = "out"
    /\ \/ ~locked /\ holder' = t /\ GoTo(t, Locks[pc[t]]) /\ UNCHANGED mpc
       \/ locked /\ InMutex(t, "queue") /\ UNCHANGED <<holder, pc>>
    /\ locked' = TRUE
    /\ UNCHANGED <<core, lockQueue, toWake, pool, book, savedIrq>>

\* The section under _wait_queue_lock.  The mutex may have been freed by now.
LockQueue(t) ==
    /\ OnCpu(t) /\ mpc[t] = "queue"
    /\ lockQueue' = Append(lockQueue, t)
    /\ Call(MarkAsBlockPending(sched))
    /\ InMutex(t, "block")
    /\ UNCHANGED <<locked, holder, toWake, pool, book, savedIrq, pc>>

LockBlock(t) ==
    /\ OnCpu(t) /\ mpc[t] = "block"
    /\ Call(Block(sched, t))
    /\ InMutex(t, "woken")
    /\ UNCHANGED <<locked, holder, lockQueue, toWake, pool, book, savedIrq, pc>>

\* The fast handoff, or one more turn of the loop.
LockWoken(t) ==
    /\ OnCpu(t) /\ mpc[t] = "woken"
    /\ InMutex(t, "out")
    /\ GoTo(t, IF holder = t THEN Locks[pc[t]] ELSE pc[t])
    /\ UNCHANGED <<core, locked, holder, lockQueue, toWake, pool, book, savedIrq>>

\* unlock() by the owner: the section under _wait_queue_lock.
UnlockPop(t) ==
    /\ OnCpu(t) /\ pc[t] \in DOMAIN Unlocks /\ mpc[t] = "out"
    /\ holder = t
    /\ LET next == IF lockQueue = << >> THEN NoThread ELSE Head(lockQueue) IN
       /\ holder' = next
       /\ toWake' = [toWake EXCEPT ![t] = next]
    /\ lockQueue' = IF lockQueue = << >> THEN << >> ELSE Tail(lockQueue)
    /\ InMutex(t, "release")
    /\ UNCHANGED <<core, locked, pool, book, savedIrq, pc>>

\* The end of unlock(): _owner is read again.  A thread that has queued since the
\* section is passed over.
UnlockEnd(t) ==
    /\ OnCpu(t) /\ mpc[t] = "release"
    /\ locked' = (holder # NoThread)
    /\ Call(IF toWake[t] = NoThread THEN sched ELSE Unblock(sched, toWake[t]))
    /\ toWake' = [toWake EXCEPT ![t] = NoThread]
    /\ InMutex(t, "out")
    /\ GoTo(t, Unlocks[pc[t]])
    /\ UNCHANGED <<holder, lockQueue, pool, book, savedIrq>>

MutexStep(t) ==
    \/ LockTry(t) \/ LockQueue(t) \/ LockBlock(t) \/ LockWoken(t)
    \/ UnlockPop(t) \/ UnlockEnd(t)

----------------------------------------------------------------------------
(***************************************************************************)
(* ConditionVariable                                                       *)
(***************************************************************************)
WakeOne ==
    /\ Call(Unblock(sched, Head(waiters)))
    /\ waiters' = Tail(waiters)

NotifyOne ==
    \/ waiters = << >> /\ UNCHANGED <<core, waiters>>
    \/ waiters # << >> /\ WakeOne

\* Mutant: the waiter is not marked.
WaitUnmarked(t) ==
    /\ At(t, "sleep")
    /\ waiters' = Append(waiters, t)
    /\ GoTo(t, "wait")
    /\ UNCHANGED <<core, mutex, tasks, running, book, savedIrq>>

\* wait(): the section under the spinlock.  unlock(), block() and lock() follow.
Wait(t) ==
    /\ At(t, "sleep")
    /\ waiters' = Append(waiters, t)
    /\ Call(MarkAsBlockPending(sched))
    /\ GoTo(t, "wait")
    /\ UNCHANGED <<mutex, tasks, running, book, savedIrq>>

WaitBlock(t) ==
    /\ At(t, "block")
    /\ Call(Block(sched, t))
    /\ GoTo(t, "relock")
    /\ UNCHANGED <<mutex, pool, book, savedIrq>>

----------------------------------------------------------------------------
(***************************************************************************)
(* exec_worker_thread()                                                    *)
(***************************************************************************)
\* Mutant: the worker keeps asking instead of waiting.
TestSpins(w) ==
    /\ At(w, "test")
    /\ GoTo(w, IF tasks # << >> \/ ~running THEN "take" ELSE "test")
    /\ UNCHANGED <<core, mutex, pool, book, savedIrq>>

\* The predicate wait() is called with, and its loop.
Test(w) ==
    /\ At(w, "test")
    /\ GoTo(w, IF tasks # << >> \/ ~running THEN "take" ELSE "sleep")
    /\ UNCHANGED <<core, mutex, pool, book, savedIrq>>

Leaves == ~running /\ tasks = << >>

\* Mutant: the task stays in the queue.
TakeLeavesTask(w) ==
    /\ At(w, "take")
    /\ IF Leaves
       THEN GoTo(w, "leave") /\ UNCHANGED task
       ELSE GoTo(w, "taken") /\ task' = [task EXCEPT ![w] = Head(tasks)]
    /\ UNCHANGED <<core, mutex, pool, submitted, done, savedIrq>>

Take(w) ==
    /\ At(w, "take")
    /\ \/ /\ Leaves
          /\ GoTo(w, "leave")
          /\ UNCHANGED <<task, tasks>>
       \/ /\ ~Leaves
          /\ task' = [task EXCEPT ![w] = Head(tasks)]
          /\ tasks' = Tail(tasks)
          /\ GoTo(w, "taken")
    /\ UNCHANGED <<core, mutex, waiters, running, submitted, done, savedIrq>>

\* Mutant: the task is reset before it is run.
ExecAfterReset(w) ==
    /\ At(w, "exec")
    /\ task' = [task EXCEPT ![w] = 0]
    /\ done' = done \cup {task'[w]}
    /\ GoTo(w, "wlock")
    /\ UNCHANGED <<core, mutex, pool, submitted, savedIrq>>

Exec(w) ==
    /\ At(w, "exec")
    /\ done' = done \cup {task[w]}
    /\ task' = [task EXCEPT ![w] = 0]
    /\ GoTo(w, "wlock")
    /\ UNCHANGED <<core, mutex, pool, submitted, savedIrq>>

\* The worker returns into thread_exit().
Exit(w) ==
    /\ At(w, "exit")
    /\ Call(Stop(sched, w))
    /\ GoTo(w, "ended")
    /\ UNCHANGED <<mutex, pool, book, savedIrq>>

WorkerStep(w) == Test(w) \/ Wait(w) \/ WaitBlock(w) \/ Take(w) \/ Exec(w) \/ Exit(w)

----------------------------------------------------------------------------
(***************************************************************************)
(* start(), submit() and the destructor                                    *)
(***************************************************************************)
\* The first of some workers in the order of m_threads.
FirstOf(some) ==
    CHOOSE w \in some : \E i \in DOMAIN PoolThreads :
        w = PoolThreads[i] /\ \A j \in 1 .. i - 1 : PoolThreads[j] \notin some

Unscheduled == {w \in Worker : sched.state[w] = "CREATED" /\ w \notin Queued(sched.ready)}

Unfreed == {w \in Worker : pc[w] # "freed"}

\* start(): m_running is set before there is a worker.
Start ==
    /\ At(Owner, "new")
    /\ running' = TRUE
    /\ GoTo(Owner, "start")
    /\ UNCHANGED <<core, mutex, waiters, tasks, book, savedIrq>>

StartWorker ==
    /\ At(Owner, "start")
    /\ \/ /\ Unscheduled # {}
          /\ Call(Schedule(sched, FirstOf(Unscheduled)))
          /\ UNCHANGED pc
       \/ /\ Unscheduled = {}
          /\ GoTo(Owner, "out")
          /\ UNCHANGED core
    /\ UNCHANGED <<mutex, pool, book, savedIrq>>

\* submit() of a running pool; a pool that is not running ignores the task.  Only
\* the owner knows when the pool is gone, so nobody calls it while it goes.
Submit(t) ==
    /\ At(t, "out")
    /\ running
    /\ pc[Owner] \in {"start", "out", "submit", "add", "notify", "added"}
    /\ submitted < MaxTasks
    /\ submitted' = submitted + 1
    /\ task' = [task EXCEPT ![t] = submitted + 1]
    /\ GoTo(t, "submit")
    /\ UNCHANGED <<core, mutex, pool, done, savedIrq>>

AddTask(t) ==
    /\ At(t, "add")
    /\ tasks' = Append(tasks, task[t])
    /\ task' = [task EXCEPT ![t] = 0]
    /\ GoTo(t, "notify")
    /\ UNCHANGED <<core, mutex, waiters, running, submitted, done, savedIrq>>

Notify(t) ==
    /\ At(t, "notify")
    /\ NotifyOne
    /\ GoTo(t, "added")
    /\ UNCHANGED <<mutex, tasks, running, book, savedIrq>>

\* The destructor, when nobody else is inside of submit().
Destroy ==
    /\ At(Owner, "out")
    /\ \A t \in Submitter : pc[t] = "out"
    /\ GoTo(Owner, "destroy")
    /\ UNCHANGED <<core, mutex, pool, book, savedIrq>>

StopRunning ==
    /\ At(Owner, "stop")
    /\ running' = FALSE
    /\ GoTo(Owner, "unstop")
    /\ UNCHANGED <<core, mutex, waiters, tasks, book, savedIrq>>

\* Mutant: only the first is woken.
NotifyFirst ==
    /\ At(Owner, "wakeall")
    /\ NotifyOne
    /\ GoTo(Owner, "join")
    /\ UNCHANGED <<mutex, tasks, running, book, savedIrq>>

\* notify_all(): the loop takes one waiter after the other.
NotifyWorkers ==
    /\ At(Owner, "wakeall")
    /\ \/ waiters # << >> /\ WakeOne /\ UNCHANGED pc
       \/ waiters = << >> /\ GoTo(Owner, "join") /\ UNCHANGED <<core, waiters>>
    /\ UNCHANGED <<mutex, tasks, running, book, savedIrq>>

\* sync_with_thread_stop() of one worker after the other: one that is gone already
\* is passed over, for any other the owner blocks with interrupts off.
Join ==
    /\ At(Owner, "join")
    /\ \/ /\ Unfreed = {}
          /\ GoTo(Owner, "gone")
          /\ UNCHANGED <<core, savedIrq>>
       \/ /\ Unfreed # {}
          /\ savedIrq' = irqOn
          /\ irqOn' = FALSE
          /\ sched' = Block(MarkAsBlockPending(sched), Owner)
          /\ GoTo(Owner, "joined")
          /\ UNCHANGED frames
    /\ UNCHANGED <<mutex, pool, book>>

JoinReturn ==
    /\ At(Owner, "joined")
    /\ irqOn' = savedIrq
    /\ GoTo(Owner, "join")
    /\ UNCHANGED <<sched, frames, mutex, pool, book, savedIrq>>

\* The garbage collector frees what is in the bin, wakes the owner if it waits for
\* one of those workers, and blocks.
Collect ==
    /\ OnCpu(Gct)
    /\ LET bin   == Elems(sched.bin)
           empty == [sched EXCEPT !.bin = << >>]
           told  == IF pc[Owner] = "joined" /\ FirstOf(Unfreed) \in bin
                    THEN Unblock(empty, Owner) ELSE empty
       IN  /\ sched' = Block(MarkAsBlockPending(told), Gct)
           /\ pc' = [t \in User |-> IF t \in bin THEN "freed" ELSE pc[t]]
    /\ irqOn' = TRUE
    /\ UNCHANGED <<frames, mutex, pool, book, savedIrq>>

OwnerStep == StartWorker \/ StopRunning \/ NotifyWorkers \/ Join \/ JoinReturn

SubmitStep(t) == AddTask(t) \/ Notify(t)

Next ==
    \/ CoreNext /\ UNCHANGED <<mutex, pool, book, savedIrq, pc>>
    \/ Start \/ Destroy \/ OwnerStep \/ Collect
    \/ \E t \in User : MutexStep(t)
    \/ \E t \in Submitter : Submit(t) \/ SubmitStep(t)
    \/ \E w \in Worker : WorkerStep(w)

Spec == Init /\ [][Next]_vars

\* As in Mutex: the CPU executes the code of the pool, ticks leave it time to do
\* so, and a tick that ends a quantum comes again and again while interrupts are
\* on.  When a thread calls the pool is its own affair.
Fairness ==
    /\ SF_vars(Tick /\ UNCHANGED <<mutex, pool, book, savedIrq, pc>>)
    /\ SF_vars((IdleLoop \/ \E t \in AnyThread : Iret(t))
               /\ UNCHANGED <<mutex, pool, book, savedIrq, pc>>)
    /\ SF_vars(Collect)
    /\ \A t \in Submitter :
          SF_vars(MutexStep(t) \/ SubmitStep(t) \/ (t = Owner /\ OwnerStep))
    /\ \A w \in Worker : SF_vars(MutexStep(w) \/ WorkerStep(w))

FairSpec == Spec /\ Fairness

----------------------------------------------------------------------------
(***************************************************************************)
(* Properties                                                              *)
(***************************************************************************)
\* The types of the variables.
PoolTypeOK ==
    /\ CoreTypeOK
    /\ locked \in BOOLEAN /\ holder \in User \cup {NoThread}
    /\ toWake \in [User -> User \cup {NoThread}]
    /\ mpc \in [User -> {"out", "queue", "block", "woken", "release"}]
    /\ lockQueue \in Seq(User) /\ waiters \in Seq(Worker)
    /\ running \in BOOLEAN /\ savedIrq \in BOOLEAN
    /\ submitted \in 0 .. MaxTasks
    /\ tasks \in Seq(1 .. MaxTasks) /\ done \subseteq 1 .. MaxTasks
    /\ task \in [User -> 0 .. MaxTasks]
    /\ DOMAIN pc = User

\* A task that was accepted is in exactly one place - with the thread that submits
\* it, in the queue, with a worker, or done - and everything is done when the
\* destructor has returned, which leaves no thread behind in the pool (submit,
\* exec_worker_thread, ~ThreadPool).
EveryTaskOnce ==
    LET holders(n) == Cardinality({t \in User : task[t] = n})
                      + Cardinality({i \in DOMAIN tasks : tasks[i] = n})
                      + Cardinality(done \cap {n})
    IN  /\ \A n \in 1 .. submitted : holders(n) = 1
        /\ pc[Owner] = "gone" =>
              /\ done = 1 .. submitted
              /\ waiters = << >> /\ lockQueue = << >> /\ holder = NoThread
              /\ \A w \in Worker : sched.state[w] = "STOPPED"

\* Whoever is blocked is known to the one who has to wake it: it is in the queue of
\* the mutex or about to be woken by an unlock(), on the condition variable, or
\* waits for a worker to be freed; and whoever is on the condition variable may be
\* blocked or about to be, but never past block(), although the lock() and unlock()
\* inside of wait() block and unblock threads, too (lock, unlock, wait,
\* sync_with_thread_stop).
BlockedIsQueued ==
    /\ \A t \in User : sched.state[t] = "BLOCKED" =>
          \/ t \in Elems(lockQueue)
          \/ \E u \in User : mpc[u] = "release" /\ toWake[u] = t
          \/ t \in Elems(waiters)
          \/ t = Owner /\ pc[t] = "joined" /\ Unfreed # {}
    /\ \A w \in Elems(waiters) :
          \/ sched.state[w] = "BLOCKED" /\ pc[w] = "relock"
          \/ sched.state[w] = "BLOCK_PENDING" /\ pc[w] \in {"wait", "block"}

\* The pool does not sleep on its work: if every worker is on the condition
\* variable or gone, and nobody is in between adding a task and notifying, the
\* queue is empty and the pool is not being destroyed (submit, wait, ~ThreadPool).
NoSleepingPool ==
    (\A w \in Worker : w \in Elems(waiters) \/ pc[w] \in {"exit", "ended", "freed"}) =>
        /\ tasks # << >> => \E t \in Submitter : pc[t] = "notify"
        /\ waiters # << >> => pc[Owner] \notin {"join", "joined", "gone"}

\* A thread sleeps, or is going to, on a mutex that is free: its wake up is lost
\* unless somebody else locks and unlocks the mutex.
Stranded == ~locked /\ lockQueue # << >>

\* Apart from the lost wake up of the mutex nothing holds the pool up: unless some
\* thread stays stranded, once the calls cease every task that was accepted has been
\* run and no call hangs, in the destructor least of all, provided interrupts keep
\* being switched on (submit, exec_worker_thread, ~ThreadPool).
PoolSettles ==
    []<>irqOn /\ []<>~Stranded =>
        <>[](/\ done = 1 .. submitted
             /\ pc[Owner] \in {"new", "out", "gone"}
             /\ \A t \in Submitter \ {Owner} : pc[t] = "out")

----------------------------------------------------------------------------
(***************************************************************************)
(* A statement of the documentation that the code does not keep            *)
(***************************************************************************)
\* "worker threads are stopped in the destructor": a destructor that has been called
\* returns, with every worker stopped (ThreadPool.h).
WorkersAreStopped == []<>irqOn => (pc[Owner] = "destroy" ~> pc[Owner] = "gone")
=============================================================================
