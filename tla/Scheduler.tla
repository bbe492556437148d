----------------------------- MODULE Scheduler -----------------------------
(***************************************************************************)
(* The thread scheduler of the kernel (CPU/Threading/Scheduler.cpp) and    *)
(* its ready queue (CPU/Threading/MultiLevelQueue.cpp).                    *)
(*                                                                         *)
(* The state of the scheduler is a record                                  *)
(*                                                                         *)
(*   running   _running_thread                                             *)
(*   state     Thread::state of every thread                               *)
(*   ready     _ready_queue, one FIFO of threads per scheduling policy     *)
(*   bin       _thread_garbage_bin, the stopped threads to be freed        *)
(*                                                                         *)
(* and every function of the Scheduler is an operator from such a record   *)
(* to the record it leaves behind.  Each of those functions runs between   *)
(* lock() and unlock(), that is with the interrupts of the only core off,  *)
(* so it is one atomic step of any module that calls it: such a module     *)
(* keeps the record in a variable and writes sched' = Block(sched, t).     *)
(* What lock() and unlock() do to the interrupt flag is modelled there.    *)
(***************************************************************************)
EXTENDS Naturals, Sequences

CONSTANTS
    Thread,     \* every thread but the two below
    Idle,       \* _idle_thread
    Gct,        \* _garbage_collector_thread
    Bootstrap,  \* the thread that is running when init() is called
    Policy      \* Thread::policy: a level of the ready queue, or NONE

\* SchedulingPolicy.  LOW_LATENCY is the first level of the queue.
NONE        == 0
LOW_LATENCY == 1
NORMAL      == 2
BACKGROUND  == 3
Level       == LOW_LATENCY .. BACKGROUND

ASSUME ThreadAssumption ==
    /\ Idle \notin Thread
    /\ Gct \notin Thread
    /\ Idle # Gct

ASSUME BootstrapAssumption == Bootstrap \in Thread

ASSUME PolicyAssumption ==
    /\ Policy \in [Thread -> {NONE} \cup Level]
    /\ Policy[Bootstrap] = LOW_LATENCY

AnyThread == Thread \cup {Idle, Gct}

ThreadState ==
    {"CREATED", "READY", "RUNNING", "BLOCK_PENDING", "BLOCKED", "STOPPED"}

Sched == [running : AnyThread,
          state   : [AnyThread -> ThreadState],
          ready   : [Level -> Seq(Thread)],
          bin     : Seq(Thread)]

----------------------------------------------------------------------------
(***************************************************************************)
(* MultiLevelQueue                                                         *)
(***************************************************************************)
Elems(seq) == {seq[i] : i \in DOMAIN seq}

Queued(q) == UNION {Elems(q[p]) : p \in Level}

IsEmpty(q) == \A p \in Level : q[p] = << >>

\* The level both peek() and dequeue() stop at: the first that is not empty.
TopLevel(q) ==
    CHOOSE p \in Level : q[p] # << >> /\ \A r \in Level : r < p => q[r] = << >>

\* peek() of a queue that is not empty.
Peek(q) == Head(q[TopLevel(q)])

\* dequeue() of a queue that is not empty: what it leaves behind.
Dequeue(q) == [q EXCEPT ![TopLevel(q)] = Tail(@)]

\* enqueue() fails for a thread whose policy has no level, and does not add a
\* thread that its level contains already.
CanEnqueue(t) == t \in Thread /\ Policy[t] \in Level

\* Mutant: the thread gets to the front of its level.
EnqueueFirst(q, t) ==
    IF CanEnqueue(t) /\ t \notin Elems(q[Policy[t]])
    THEN [q EXCEPT ![Policy[t]] = <<t>> \o @]
    ELSE q

Enqueue(q, t) ==
    IF CanEnqueue(t) /\ t \notin Elems(q[Policy[t]])
    THEN [q EXCEPT ![Policy[t]] = Append(@, t)]
    ELSE q

\* LinkedList::remove() of the first match.
Without(seq, t) ==
    IF t \in Elems(seq)
    THEN LET i == CHOOSE i \in DOMAIN seq :
                     seq[i] = t /\ \A j \in 1 .. i - 1 : seq[j] # t
         IN  SubSeq(seq, 1, i - 1) \o SubSeq(seq, i + 1, Len(seq))
    ELSE seq

\* remove(): only from the first level that holds the thread.
RemoveFrom(q, t) ==
    IF t \in Queued(q)
    THEN LET p == CHOOSE p \in Level :
                     t \in Elems(q[p]) /\ \A r \in 1 .. p - 1 : t \notin Elems(q[r])
         IN  [q EXCEPT ![p] = Without(@, t)]
    ELSE q

----------------------------------------------------------------------------
(***************************************************************************)
(* Context switches                                                        *)
(***************************************************************************)
\* Mutant: nobody looks into the garbage bin.
NextIgnoresBin(s) == IF IsEmpty(s.ready) THEN Idle ELSE Peek(s.ready)

\* next_scheduled_thread(): stopped threads are cleaned up first.
NextScheduledThread(s) ==
    IF s.bin # << >> THEN Gct
    ELSE IF IsEmpty(s.ready) THEN Idle
    ELSE Peek(s.ready)

\* Mutant: the GCT may be switched to itself.
StaysRunningNoGct(s) ==
    /\ NextScheduledThread(s) = Idle
    /\ s.running = Idle \/ s.state[s.running] = "RUNNING"

\* The early returns of perform_context_switch().
StaysRunning(s) ==
    \/ /\ NextScheduledThread(s) = Idle
       /\ s.running = Idle \/ s.state[s.running] = "RUNNING"
    \/ s.running = Gct /\ NextScheduledThread(s) = Gct

\* The running thread is put back into the ready queue.
IsRequeued(s) ==
    /\ s.running \in Thread
    /\ s.state[s.running] \in {"RUNNING", "BLOCK_PENDING"}
    /\ CanEnqueue(s.running)

\* Mutant: BLOCK_PENDING turns into READY as well.
OutgoingStateForgetsPending(s) ==
    IF s.running \in {Idle, Gct} THEN "BLOCKED"
    ELSE IF IsRequeued(s) THEN "READY"
    ELSE s.state[s.running]

\* The state the outgoing thread is left in: only RUNNING turns into READY.
OutgoingState(s) ==
    IF s.running \in {Idle, Gct} THEN "BLOCKED"
    ELSE IF IsRequeued(s) /\ s.state[s.running] = "RUNNING" THEN "READY"
    ELSE s.state[s.running]

IncomingState(st) == IF st = "BLOCK_PENDING" THEN "BLOCK_PENDING" ELSE "RUNNING"

PerformContextSwitch(s) ==
    LET next  == NextScheduledThread(s)
        taken == IF next \in {Idle, Gct} THEN s.ready ELSE Dequeue(s.ready)
        left  == [s.state EXCEPT ![s.running] = OutgoingState(s)]
    IN  IF StaysRunning(s) THEN s
        ELSE [running |-> next,
              state   |-> [left EXCEPT ![next] = IncomingState(@)],
              ready   |-> IF IsRequeued(s) THEN Enqueue(taken, s.running) ELSE taken,
              bin     |-> s.bin]

----------------------------------------------------------------------------
(***************************************************************************)
(* The scheduling API                                                      *)
(***************************************************************************)
\* init(): the bootstrap thread is the running thread and keeps its state.
InitScheduler ==
    [running |-> Bootstrap,
     state   |-> [t \in AnyThread |-> IF t \in Thread THEN "CREATED" ELSE "BLOCKED"],
     ready   |-> [p \in Level |-> << >>],
     bin     |-> << >>]

\* schedule(): the state of the thread stays CREATED.
Schedule(s, t) ==
    IF s.state[t] = "CREATED" /\ CanEnqueue(t)
    THEN [s EXCEPT !.ready = Enqueue(@, t)]
    ELSE s

PreemptRunningThread(s) == PerformContextSwitch(s)

MarkAsBlockPending(s) == [s EXCEPT !.state[s.running] = "BLOCK_PENDING"]

\* Mutant: block() does not look at the state.
BlockUnchecked(s, t) ==
    LET blocked == [s EXCEPT !.state[t] = "BLOCKED"]
    IN  IF t # s.running
        THEN [blocked EXCEPT !.ready = RemoveFrom(@, t)]
        ELSE PerformContextSwitch(blocked)

\* block(): only a thread that is still BLOCK_PENDING; one that is not running
\* is just taken out of the ready queue.
Block(s, t) ==
    LET blocked == [s EXCEPT !.state[t] = "BLOCKED"]
    IN  IF s.state[t] # "BLOCK_PENDING" THEN s
        ELSE IF t # s.running
        THEN [blocked EXCEPT !.ready = RemoveFrom(@, t)]
        ELSE PerformContextSwitch(blocked)

\* Mutant: the running thread is put into the ready queue, too.
UnblockEnqueuesRunning(s, t) ==
    IF s.state[t] \notin {"BLOCKED", "BLOCK_PENDING"} THEN s
    ELSE IF CanEnqueue(t)
    THEN [s EXCEPT !.ready = Enqueue(@, t), !.state[t] = "READY"]
    ELSE s

\* Mutant: unblock() does not look at the state.
UnblockUnchecked(s, t) ==
    IF t = s.running THEN [s EXCEPT !.state[t] = "RUNNING"]
    ELSE IF CanEnqueue(t)
    THEN [s EXCEPT !.ready = Enqueue(@, t), !.state[t] = "READY"]
    ELSE s

\* A thread that is unblocked before it got to block() just keeps running.
Unblock(s, t) ==
    IF s.state[t] \notin {"BLOCKED", "BLOCK_PENDING"} THEN s
    ELSE IF t = s.running THEN [s EXCEPT !.state[t] = "RUNNING"]
    ELSE IF CanEnqueue(t)
    THEN [s EXCEPT !.ready = Enqueue(@, t), !.state[t] = "READY"]
    ELSE s

Stop(s, t) ==
    LET stopped == [s EXCEPT !.state[t] = "STOPPED", !.bin = Append(@, t)]
    IN  IF t # s.running
        THEN [stopped EXCEPT !.ready = RemoveFrom(@, t)]
        ELSE PerformContextSwitch(stopped)

----------------------------------------------------------------------------
(***************************************************************************)
(* What holds of the scheduler between two calls.  The threads in removed  *)
(* were taken out of the ready queue by stop_thread() and are still to be  *)
(* stopped.                                                                *)
(***************************************************************************)
\* No thread is queued twice, each on the level of its policy.
LevelsOK(q) ==
    \A p \in Level : \A i, j \in DOMAIN q[p] :
        Policy[q[p][i]] = p /\ (q[p][i] = q[p][j] => i = j)

\* A queued thread may run and is not running; a thread that may run is queued.
QueueOK(s, removed) ==
    /\ LevelsOK(s.ready)
    /\ s.running \notin Queued(s.ready)
    /\ \A t \in Queued(s.ready) : s.state[t] \in {"CREATED", "READY", "BLOCK_PENDING"}
    /\ \A t \in Thread :
          s.state[t] \in {"READY", "BLOCK_PENDING"} /\ t # s.running
              => t \in Queued(s.ready) \cup removed

\* One thread is RUNNING, the GCT goes to sleep with an empty bin only, and what
\* is in the bin is STOPPED.
StatesOK(s) ==
    /\ \A t \in AnyThread : s.state[t] = "RUNNING" => t = s.running
    /\ s.running \in Thread => CanEnqueue(s.running)
    /\ s.state[Idle] \in {"BLOCKED", "RUNNING"}
    /\ s.state[Gct] \in {"BLOCKED", "RUNNING", "BLOCK_PENDING"}
    /\ s.state[Gct] = "BLOCK_PENDING" => s.running = Gct /\ s.bin = << >>
    /\ \A t \in Elems(s.bin) : s.state[t] = "STOPPED"

\* The running thread is RUNNING or BLOCK_PENDING; the bootstrap thread is CREATED.
RunningOK(s) ==
    \/ s.state[s.running] \in {"RUNNING", "BLOCK_PENDING"}
    \/ s.running = Bootstrap /\ s.state[Bootstrap] = "CREATED"

Consistent(s, removed) == QueueOK(s, removed) /\ StatesOK(s) /\ RunningOK(s)

----------------------------------------------------------------------------
(***************************************************************************)
(* Whose turn it is                                                        *)
(***************************************************************************)
\* t is in front of u.
InFront(seq, t, u) == \E i, j \in DOMAIN seq : i < j /\ seq[i] = t /\ seq[j] = u

Ahead(q, t, u) == \E p \in Level : InFront(q[p], t, u)

\* u is to wait for t: it is behind t on its level, or not queued yet.
GoesFirst(q, t, u) ==
    \/ Ahead(q, t, u)
    \/ t \in Queued(q) /\ u \notin Queued(q) /\ Policy[t] = Policy[u]

\* The threads queued in r are in the order in which they came.
KeepsOrder(q, r) ==
    \A t, u \in Queued(r) : t # u /\ GoesFirst(q, t, u) => Ahead(r, t, u)

\* From s to r the CPU stays where it is, or goes to the GCT if threads are to be
\* freed, to Idle if none is queued, or to a thread such that each other one is on
\* a less urgent level or behind it on its own; and the others keep their order.
InTurn(s, r) ==
    /\ r.running # s.running =>
          IF r.bin # << >> THEN r.running = Gct
          ELSE /\ r.running \in IF Queued(s.ready) = {} THEN {Idle} ELSE Queued(s.ready)
               /\ \A t \in Queued(s.ready) \ {r.running} :
                     Policy[r.running] < Policy[t] \/ Ahead(s.ready, r.running, t)
    /\ KeepsOrder(s.ready, r.ready)
=============================================================================
