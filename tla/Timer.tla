-------------------------------- MODULE Timer --------------------------------
(***************************************************************************)
(* The PIT driver (Src/CPU/Time/PIT.cpp) and its delta queue               *)
(* (Src/CPU/Time/DeltaQueue.cpp): a doubly linked list in which a node     *)
(* holds the time between the wake up of its predecessor and its own.      *)
(*                                                                         *)
(* A thread has at most one node, so the node of a thread is named after   *)
(* it.  The interrupt handler runs with interrupts off and is never        *)
(* interleaved with anything; sleep_until() runs with interrupts on, so an *)
(* interrupt may come between any two of its steps, and with it a switch   *)
(* to another thread that sleeps too.  What the scheduler does is in       *)
(* Threading; here a switch picks any thread that is not asleep.           *)
(***************************************************************************)
EXTENDS Integers, FiniteSets

CONSTANTS Threads,        \* the threads that call sleep_until
          None,           \* nullptr; as running thread: the idle thread
          TimeBetweenIrq, \* PIT::_time_between_irq
          Quantum,        \* Timer::_quantum, the time a thread may run
          Word,           \* 2^64 in the code: U64 arithmetic is modulo Word
          Durations,      \* the sleep times that are asked for
          MaxCount        \* bound: interrupts in a behaviour

ASSUME TimerAssumption ==
    /\ None \notin Threads /\ IsFiniteSet(Threads)
    /\ {TimeBetweenIrq, Quantum, Word} \subseteq Nat \ {0}
    /\ Durations \subseteq Nat

VARIABLES
    count,     \* PIT::_count, the interrupts since the start
    first,     \* DeltaQueue::m_first
    last,      \* DeltaQueue::m_last
    node,      \* the nodes: prev, next, wake = m_wake_time, live = allocated
    quantum,   \* PIT::_quantum_remaining
    running,   \* the thread on the CPU
    inIrq,     \* the handler runs
    preempt,   \* do_preempt, a local of the handler
    pc,        \* where each thread is in sleep_until()
    cur,       \* c_dq_node, a local of enqueue()
    until,     \* wake_time_nanos, the argument of sleep_until()
    due,       \* history: when the queue is to wake a thread that was enqueued
    late       \* history: the time that went by after sleep_until() had read the
               \* time and before enqueue() was called

queue == <<first, last, node>>
vars == <<count, queue, quantum, running, inIrq, preempt, pc, cur, until, due, late>>

Nullable == Threads \cup {None}

\* PIT::get_time_since_start
TimeSinceStart == count * TimeBetweenIrq

Freed == [prev |-> None, next |-> None, wake |-> 0, live |-> FALSE]

Init ==
    /\ count = 0
    /\ first = None /\ last = None
    /\ node = [t \in Threads |-> Freed]
    /\ quantum = Quantum
    /\ running \in Nullable
    /\ inIrq = FALSE /\ preempt = FALSE
    /\ pc = [t \in Threads |-> "awake"]
    /\ cur = [t \in Threads |-> None]
    /\ until = [t \in Threads |-> 0]
    /\ due = [t \in Threads |-> 0]
    /\ late = [t \in Threads |-> 0]

-----------------------------------------------------------------------------
(* DeltaQueue *)

\* Mutant: remove() does not hand the time of the node on
RemoveDropsTime(n) ==
    /\ node' = [m \in Threads |->
          CASE m = n -> Freed
            [] m # n /\ m = node[n].next -> [node[m] EXCEPT !.prev = node[n].prev]
            [] m # n /\ m = node[n].prev -> [node[m] EXCEPT !.next = node[n].next]
            [] OTHER -> node[m]]
    /\ first' = IF n = first THEN node[n].next ELSE first
    /\ last' = IF n = last THEN node[n].prev ELSE last

\* Mutant: remove() leaves the back link of the successor
RemoveKeepsBackLink(n) ==
    LET nx == node[n].next
        pv == node[n].prev
    IN  /\ node' = [m \in Threads |->
              CASE m = n -> Freed
                [] m # n /\ m = nx -> [node[m] EXCEPT !.wake = (@ + node[n].wake) % Word]
                [] m # n /\ m # nx /\ m = pv -> [node[m] EXCEPT !.next = nx]
                [] OTHER -> node[m]]
        /\ first' = IF n = first THEN nx ELSE first
        /\ last' = IF n = last THEN pv ELSE last

\* DeltaQueue::remove: unlink node n and hand its time on to its successor
Remove(n) ==
    LET nx == node[n].next
        pv == node[n].prev
    IN  /\ node' = [m \in Threads |->
              CASE m = n -> Freed
                [] m # n /\ m = nx ->
                     [node[m] EXCEPT !.wake = (@ + node[n].wake) % Word, !.prev = pv]
                [] m # n /\ m # nx /\ m = pv -> [node[m] EXCEPT !.next = nx]
                [] OTHER -> node[m]]
        /\ first' = IF n = first THEN nx ELSE first
        /\ last' = IF n = last THEN pv ELSE last

\* DeltaQueue::update_wake_time; the subtraction wraps
UpdateWakeTime ==
    /\ node' = IF first = None THEN node
               ELSE [node EXCEPT ![first].wake = (@ - TimeBetweenIrq) % Word]
    /\ UNCHANGED <<first, last>>

\* DeltaQueue::enqueue, the branch that links t's node before its successor c
LinkBefore(t, c) ==
    LET pv == node[c].prev
        w  == node[t].wake
    IN  /\ node' = [m \in Threads |->
              CASE m = t -> [node[t] EXCEPT !.prev = pv, !.next = c]
                [] m # t /\ m = c -> [node[c] EXCEPT !.prev = t, !.wake = @ - w]
                [] m # t /\ m # c /\ m = pv -> [node[m] EXCEPT !.next = t]
                [] OTHER -> node[m]]
        /\ first' = IF pv = None THEN t ELSE first
        /\ last' = last

\* DeltaQueue::enqueue, after its loop: t's node becomes the last
LinkLast(t) ==
    /\ node' = [node EXCEPT ![last].next = t, ![t].prev = last]
    /\ last' = t
    /\ first' = first

-----------------------------------------------------------------------------
(* sleep_until() *)

\* t executes its next statement
Step(t, from, to) ==
    /\ running = t /\ ~inIrq
    /\ pc[t] = from
    /\ pc' = [pc EXCEPT ![t] = to]

\* The sleep of t is over
Forget(t) == /\ until' = [until EXCEPT ![t] = 0]
             /\ due' = [due EXCEPT ![t] = 0]
             /\ late' = [late EXCEPT ![t] = 0]

Unswitched == UNCHANGED <<count, running, inIrq, preempt>>

\* A switch to some thread that is not blocked, or to the idle thread
SwitchTo(asleep) == running' \in Nullable \ asleep

Asleep == {t \in Threads : pc[t] = "asleep"}

\* sleep_milli() and the like add the duration to the time since the start
SleepMilli(t, d) ==
    /\ Step(t, "awake", "called")
    /\ until' = [until EXCEPT ![t] = TimeSinceStart + d]
    /\ UNCHANGED <<queue, quantum, cur, due, late>> /\ Unswitched

\* sleep_until() reads that time again; the wake time may have passed by then
SleepUntil(t) ==
    /\ Step(t, "called", IF until[t] <= TimeSinceStart THEN "awake" ELSE "marked")
    /\ node' = [node EXCEPT ![t].wake =
                   IF until[t] <= TimeSinceStart THEN 0 ELSE until[t] - TimeSinceStart]
    /\ until' = [until EXCEPT ![t] = IF @ <= TimeSinceStart THEN 0 ELSE @]
    /\ UNCHANGED <<first, last, quantum, cur, due, late>> /\ Unswitched

\* The head of enqueue(): a new node, which is alone or looks for its place
Enqueue(t) ==
    LET new == [prev |-> None, next |-> None, wake |-> node[t].wake, live |-> TRUE]
    IN  /\ Step(t, "marked", IF first = None THEN "queued" ELSE "scan")
        /\ node' = [node EXCEPT ![t] = new]
        /\ due' = [due EXCEPT ![t] = TimeSinceStart + new.wake]
        /\ first' = IF first = None THEN t ELSE first
        /\ last' = IF first = None THEN t ELSE last
        /\ cur' = [cur EXCEPT ![t] = first]
        /\ UNCHANGED <<quantum, until, late>> /\ Unswitched

\* One round of the loop: c_dq_node is earlier, t's node keeps the difference
ScanOn(t) ==
    /\ Step(t, "scan", "scan")
    /\ cur[t] # None /\ node[cur[t]].live
    /\ node[t].wake >= node[cur[t]].wake
    /\ node' = [node EXCEPT ![t].wake = @ - node[cur[t]].wake]
    /\ cur' = [cur EXCEPT ![t] = node[@].next]
    /\ UNCHANGED <<first, last, quantum, until, due, late>> /\ Unswitched

\* ... or it is later, and t's node goes before it
Insert(t) ==
    /\ Step(t, "scan", "queued")
    /\ cur[t] # None /\ node[cur[t]].live
    /\ node[t].wake < node[cur[t]].wake
    /\ LinkBefore(t, cur[t])
    /\ cur' = [cur EXCEPT ![t] = None]
    /\ UNCHANGED <<quantum, until, due, late>> /\ Unswitched

\* All are earlier: t's node goes to the end
Append(t) ==
    /\ Step(t, "scan", "queued")
    /\ cur[t] = None /\ last # None
    /\ LinkLast(t)
    /\ UNCHANGED <<quantum, cur, until, due, late>> /\ Unswitched

\* The same statements when the node they read has been deleted, or when
\* m_last has become nullptr, since the thread last looked
Fault(t) ==
    /\ Step(t, "scan", "fault")
    /\ IF cur[t] = None THEN last = None ELSE ~node[cur[t]].live
    /\ UNCHANGED <<queue, quantum, cur, until, due, late>> /\ Unswitched

\* The quantum is reset and block() gives the CPU away, ...
Block(t) ==
    /\ Step(t, "queued", "asleep")
    /\ quantum' = Quantum
    /\ SwitchTo(Asleep \cup {t})
    /\ UNCHANGED <<count, queue, inIrq, preempt, cur, until, due, late>>

\* ... or returns at once because the handler has already unblocked t
BlockReturns(t) ==
    /\ Step(t, "woken", "awake")
    /\ quantum' = Quantum
    /\ UNCHANGED <<queue, cur, until, due, late>> /\ Unswitched

\* remove_sleeping_thread(), called by stop_thread() with interrupts off for a
\* blocked thread with a timer handle.  The thread starts anew in the model: the
\* kernel creates another one.
Cancel(t) ==
    /\ ~inIrq /\ running \notin {t, None}
    /\ pc[running] = "awake"
    /\ pc[t] = "asleep"
    /\ Remove(t)
    /\ pc' = [pc EXCEPT ![t] = "awake"]
    /\ Forget(t)
    /\ UNCHANGED <<quantum, cur>> /\ Unswitched

-----------------------------------------------------------------------------
(* The interrupt handler *)

\* The interrupt is taken: _count++ and update_wake_time()
Irq ==
    /\ ~inIrq
    /\ count < MaxCount
    /\ inIrq' = TRUE
    /\ count' = count + 1
    /\ UpdateWakeTime
    /\ late' = [t \in Threads |-> IF pc[t] = "marked" THEN late[t] + TimeBetweenIrq ELSE late[t]]
    /\ UNCHANGED <<quantum, running, preempt, pc, cur, until, due>>

\* Mutant: the handler wakes a period early
DueEarly == first # None /\ node[first].wake <= TimeBetweenIrq

\* Mutant: the handler leaves its loop once it has a thread to switch to
DueBreaks == first # None /\ node[first].wake = 0 /\ ~preempt

Due == first # None /\ node[first].wake = 0

\* One round of the loop: dequeue() has found a thread, unblock() makes it
\* ready or, if it has not blocked yet, lets block() return; whether it is first
\* in the ready queue is the scheduler's affair
Wake ==
    /\ inIrq /\ Due
    /\ Remove(first)
    /\ pc' = [pc EXCEPT ![first] = IF @ = "asleep" THEN "awake" ELSE "woken"]
    /\ preempt' \in {preempt, TRUE}
    /\ Forget(first)
    /\ UNCHANGED <<count, quantum, running, inIrq, cur>>

\* Mutant: the quantum is over when it is used up, but not before
QuantumIsOverLate == quantum < 0

QuantumIsOver == quantum <= 0

\* The rest of the handler: the quantum and preempt_running_thread()
IrqEnd ==
    /\ inIrq /\ ~Due
    /\ inIrq' = FALSE /\ preempt' = FALSE
    /\ quantum' = IF QuantumIsOver THEN Quantum
                  ELSE (quantum - TimeBetweenIrq) % Word
    /\ IF preempt \/ QuantumIsOver THEN SwitchTo(Asleep)
       ELSE UNCHANGED running
    /\ UNCHANGED <<count, queue, pc, cur, until, due, late>>

ThreadStep(t) ==
    \/ \E d \in Durations : SleepMilli(t, d)
    \/ SleepUntil(t)
    \/ Enqueue(t) \/ ScanOn(t) \/ Insert(t) \/ Append(t)
    \/ Block(t) \/ BlockReturns(t)
    \/ Cancel(t)

NobodyEnqueues == \A t \in Threads : pc[t] # "scan"

\* Interrupts come everywhere but inside enqueue(), as if it switched them off
Next == \/ \E t \in Threads : ThreadStep(t)
        \/ NobodyEnqueues /\ Irq
        \/ Wake
        \/ IrqEnd

\* Interrupts come everywhere: nothing in the code switches them off
RaceNext == \/ \E t \in Threads : ThreadStep(t) \/ Fault(t)
            \/ Irq \/ Wake \/ IrqEnd

RaceSpec == Init /\ [][RaceNext]_vars

Spec == Init /\ [][Next]_vars

-----------------------------------------------------------------------------
(* Properties *)

PCs == {"awake", "called", "marked", "scan", "queued", "woken", "asleep", "fault"}

\* The type invariant: in particular no wake time and no quantum ever wraps, as
\* long as the sleeps are whole periods (PeriodAssumption in TimerPeriods).
TimerTypeOK ==
    /\ count \in Nat
    /\ first \in Nullable /\ last \in Nullable
    /\ node \in [Threads -> [prev : Nullable, next : Nullable,
                             wake : 0..(Word \div 2), live : BOOLEAN]]
    /\ quantum \in 0..Quantum
    /\ running \in Nullable /\ running \notin Asleep
    /\ inIrq \in BOOLEAN /\ preempt \in BOOLEAN
    /\ pc \in [Threads -> PCs]
    /\ cur \in [Threads -> Nullable]
    /\ until \in [Threads -> Nat]
    /\ due \in [Threads -> Nat] /\ late \in [Threads -> Nat]

\* The nodes in the queue: those of the threads enqueue() is done with and
\* dequeue() has not reached
Linked == {t \in Threads : pc[t] \in {"queued", "asleep"}}

\* The list is well formed whatever was inserted, woken and cancelled: the links
\* are inverse to each other, its ends are m_first and m_last, and it holds
\* exactly the sleepers (the pointer surgery of enqueue() and remove()).
ListIsWellFormed ==
    /\ (first = None) = (Linked = {}) /\ (last = None) = (Linked = {})
    /\ \A t \in Linked :
          /\ node[t].live
          /\ node[t].prev \in Linked \cup {None} /\ node[t].next \in Linked \cup {None}
          /\ IF node[t].prev = None THEN t = first ELSE node[node[t].prev].next = t
          /\ IF node[t].next = None THEN t = last ELSE node[node[t].next].prev = t

\* No sleeper is woken before the time it asked for, although the queue counts
\* from the moment of the enqueue and a node only knows its predecessor.
NeverEarly == [][\A t \in Threads : pc[t] \in {"queued", "asleep"}
                                    /\ pc'[t] \in {"awake", "woken"} /\ inIrq
                                    => TimeSinceStart >= until[t]]_vars

\* When the handler has run, nobody is left asleep whose wake time has passed,
\* interrupts between the look at the time in sleep_until() and the enqueue aside:
\* those make the sleeper late by as many periods, and nothing makes it later, no
\* matter who else is inserted, woken or cancelled (sleep_until, enqueue, remove,
\* update_wake_time, dequeue).
NeverLate == ~inIrq => \A t \in Linked : TimeSinceStart < until[t] + late[t]

\* A thread that goes to sleep is not stopped by a pointer that the interrupt
\* handler has invalidated while enqueue() was looking for its place.
NoFault == \A t \in Threads : pc[t] # "fault"

\* The i-th node of the list, and the time until the i-th sleeper is woken
ListAt[i \in 1..Cardinality(Threads)] ==
    IF i = 1 THEN first
    ELSE IF ListAt[i - 1] = None THEN None ELSE node[ListAt[i - 1]].next

WakeSum[i \in 1..Cardinality(Threads)] ==
    IF ListAt[i] = None THEN 0
    ELSE node[ListAt[i]].wake + IF i = 1 THEN 0 ELSE WakeSum[i - 1]

TimeLeft(t) ==
    LET pos == {i \in 1..Cardinality(Threads) : ListAt[i] = t}
    IN  IF pos = {} THEN 0 ELSE WakeSum[CHOOSE i \in pos : TRUE]

Sleepers == INSTANCE SleepQueue WITH left <- [t \in Threads |-> TimeLeft(t)]

\* The delta queue implements the abstract queue: taking a period from the first
\* node alone takes it from every sleeper, and the insertion and the removal of a
\* node change the wake time of no other thread.
ImplementsSleepQueue == Sleepers!Spec

-----------------------------------------------------------------------------
(* A statement of the documentation that the code does not keep *)

\* "Put the currently running thread to sleep and wake it at the specified wake
\* time" (Timer.h, of sleep_until()): when the handler has run, nobody is left
\* asleep whose wake time has passed.
WokenAtWakeTime == ~inIrq => \A t \in Linked : TimeSinceStart < until[t]

=============================================================================
