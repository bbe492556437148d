----------------------------- MODULE TimerProofs -----------------------------
(***************************************************************************)
(* Theorems about Timer, for any threads, period, quantum, word and sleeps *)
(* of whole periods (PeriodAssumption).                                    *)
(*                                                                         *)
(* A node knows only its distance from its predecessor, so what a removal  *)
(* or an insertion does to the sleepers behind it is hidden in sums over   *)
(* the list.  The history variable due turns the sums into a local fact:   *)
(* DeltaOK says that neighbours differ by what the later node holds.  That *)
(* the first node is due before all others then only needs to know that    *)
(* some numbering of the nodes follows the links (OrderOK).  It also shows *)
(* that the links have no cycle, which ListIsWellFormed does not say and   *)
(* the pointer surgery of remove() needs.                                  *)
(***************************************************************************)
EXTENDS TimerPeriods, FiniteSetTheorems, WellFoundedInduction, TLAPS

MaxSleep == Word \div 2

\* A time at which an interrupt may come.
Multiple(x) == \E k \in Int : x = k * TimeBetweenIrq

\* The types, but for the range of the wake times.
Typed ==
    /\ count \in Nat
    /\ first \in Nullable /\ last \in Nullable
    /\ node \in [Threads -> [prev : Nullable, next : Nullable, wake : Int, live : BOOLEAN]]
    /\ running \in Nullable /\ running \notin Asleep
    /\ inIrq \in BOOLEAN /\ preempt \in BOOLEAN
    /\ pc \in [Threads -> PCs \ {"fault"}]
    /\ cur \in [Threads -> Nullable]
    /\ until \in [Threads -> Nat]
    /\ due \in [Threads -> Nat] /\ late \in [Threads -> Nat]

\* The quantum is used up in whole periods.
QuantumOK == quantum \in 0..Quantum /\ Multiple(quantum)

\* The ends of the list are nodes of it.
EndsOK ==
    /\ first # None => first \in Linked /\ node[first].prev = None
    /\ last # None => last \in Linked /\ node[last].next = None

\* When the predecessor p of a node is due: the time of a first node counts from now.
Base(p) == IF p = None THEN TimeSinceStart ELSE due[p]

\* A node holds the time between its predecessor and itself.
DeltaOK == \A t \in Linked : due[t] = Base(node[t].prev) + node[t].wake

\* The numbering pos follows the links, and with it the wake times.
InOrder(pos) ==
    \A u, v \in Linked :
        /\ pos[u] = pos[v] => u = v
        /\ pos[u] <= pos[v] => due[u] <= due[v]
        /\ node[u].next # None => pos[u] < pos[node[u].next]
        /\ node[u].next # None /\ pos[u] < pos[v] => pos[node[u].next] <= pos[v]
        /\ pos[first] <= pos[u] /\ pos[u] <= pos[last]

OrderOK == \E pos \in [Threads -> Int] : InOrder(pos)

\* Everything about the list.
ListOK == ListIsWellFormed /\ EndsOK /\ DeltaOK /\ OrderOK

\* A thread that looks for its place is alone with the list, and its node holds
\* the time that is left behind the nodes it has passed.
ScanOK ==
    \A t \in Threads : pc[t] = "scan" =>
        /\ running = t /\ ~inIrq
        /\ node[t].live /\ node[t].prev = None /\ node[t].next = None
        /\ node[t].wake >= 0
        /\ first # None
        /\ cur[t] \in Linked \cup {None}
        /\ due[t] = Base(IF cur[t] = None THEN last ELSE node[cur[t]].prev) + node[t].wake

\* t is about to sleep: it will wake at the time it has asked for, but for the time
\* that has gone by since it looked.
MarkedOK(t) ==
    /\ node[t].wake > 0 /\ node[t].wake <= MaxSleep /\ Multiple(node[t].wake)
    /\ until[t] + late[t] = TimeSinceStart + node[t].wake

\* t sleeps, or is in enqueue(): it is due at the time it has asked for, but for the
\* time that went by before enqueue(), and outside of the handler that is to come.
DueOK(t) ==
    /\ due[t] = until[t] + late[t] /\ due[t] <= TimeSinceStart + MaxSleep
    /\ Multiple(due[t])
    /\ TimeSinceStart <= due[t]
    /\ ~inIrq => TimeSinceStart < due[t]

\* The times of t, by where it is in sleep_until().
TimeAt(t) ==
    /\ pc[t] = "called" => until[t] <= TimeSinceStart + MaxSleep /\ Multiple(until[t])
    /\ pc[t] = "marked" => MarkedOK(t)
    /\ pc[t] \in {"scan", "queued", "asleep"} => DueOK(t)
    /\ pc[t] \in {"awake", "called", "woken"} => node[t].wake = 0 /\ late[t] = 0

TimeOK == \A t \in Threads : TimeAt(t)

IInv == Typed /\ QuantumOK /\ ListOK /\ ScanOK /\ TimeOK

----------------------------------------------------------------------------
(***************************************************************************)
(* Times                                                                   *)
(***************************************************************************)
LEMMA Constants ==
    /\ TimeBetweenIrq \in Nat /\ TimeBetweenIrq > 0
    /\ Word \in Nat /\ Word > 0
    /\ MaxSleep \in Nat /\ MaxSleep < Word
    /\ Quantum \in Nat /\ Quantum > 0 /\ Quantum < Word
<1>1. {TimeBetweenIrq, Quantum, Word} \subseteq Nat \ {0}
  BY TimerAssumption
<1>2. TimeBetweenIrq \in Nat \ {0} /\ Quantum \in Nat \ {0} /\ Word \in Nat \ {0}
  BY <1>1
<1>3. MaxSleep \in Nat /\ MaxSleep < Word
  BY <1>2 DEF MaxSleep
<1> QED  BY <1>2, <1>3, PeriodAssumption

\* Arithmetic that does not wrap.
LEMMA SmallMod ==
    ASSUME NEW x \in Nat, x < Word
    PROVE  x % Word = x
<1>1. Word \in Nat /\ Word > 0
  BY Constants
<1> QED  BY <1>1

LEMMA MultipleOfMod ==
    ASSUME NEW x \in Nat, x % TimeBetweenIrq = 0
    PROVE  Multiple(x)
<1>1. TimeBetweenIrq \in Nat /\ TimeBetweenIrq > 0
  BY Constants
<1>2. x = TimeBetweenIrq * (x \div TimeBetweenIrq) + (x % TimeBetweenIrq)
  BY <1>1
<1>3. x \div TimeBetweenIrq \in Int
  BY <1>1
<1>4. x = (x \div TimeBetweenIrq) * TimeBetweenIrq
  BY <1>1, <1>2, <1>3
<1> QED  BY <1>3, <1>4 DEF Multiple

LEMMA MultipleSum ==
    ASSUME NEW x \in Int, NEW y \in Int, Multiple(x), Multiple(y)
    PROVE  Multiple(x + y) /\ Multiple(x - y)
<1>1. PICK k \in Int : x = k * TimeBetweenIrq
  BY DEF Multiple
<1>2. PICK l \in Int : y = l * TimeBetweenIrq
  BY DEF Multiple
<1>3. TimeBetweenIrq \in Int
  BY Constants
<1>4. x + y = (k + l) * TimeBetweenIrq /\ x - y = (k - l) * TimeBetweenIrq
  BY <1>1, <1>2, <1>3
<1>5. k + l \in Int /\ k - l \in Int
  OBVIOUS
<1> QED  BY <1>4, <1>5 DEF Multiple

\* Between two multiples lies a whole period.
LEMMA NextMultiple ==
    ASSUME NEW x \in Int, Multiple(x), x > 0
    PROVE  x >= TimeBetweenIrq
<1>1. PICK k \in Int : x = k * TimeBetweenIrq
  BY DEF Multiple
<1>2. TimeBetweenIrq \in Nat /\ TimeBetweenIrq > 0
  BY Constants
<1>3. k >= 1
  <2>1. SUFFICES ASSUME k <= 0  PROVE FALSE
    BY <1>1
  <2>2. k * TimeBetweenIrq <= 0
    BY <1>1, <1>2, <2>1
  <2> QED  BY <1>1, <2>2
<1>4. k * TimeBetweenIrq >= TimeBetweenIrq
  BY <1>2, <1>3
<1> QED  BY <1>1, <1>4

LEMMA PeriodIsMultiple == Multiple(TimeBetweenIrq) /\ Multiple(0) /\ Multiple(Quantum)
<1>1. TimeBetweenIrq \in Nat /\ Quantum \in Nat
  BY Constants
<1>2. TimeBetweenIrq = 1 * TimeBetweenIrq /\ 0 = 0 * TimeBetweenIrq
  BY <1>1
<1>3. Multiple(TimeBetweenIrq) /\ Multiple(0)
  BY <1>2 DEF Multiple
<1> QED  BY <1>1, <1>3, PeriodAssumption, MultipleOfMod

LEMMA Clock ==
    ASSUME count \in Nat
    PROVE  TimeSinceStart \in Nat /\ Multiple(TimeSinceStart)
<1>1. TimeBetweenIrq \in Nat
  BY Constants
<1> QED  BY <1>1 DEF TimeSinceStart, Multiple

LEMMA ClockTicks ==
    ASSUME count \in Nat, count' = count + 1
    PROVE  TimeSinceStart' = TimeSinceStart + TimeBetweenIrq
<1>1. TimeBetweenIrq \in Nat
  BY Constants
<1> QED  BY <1>1 DEF TimeSinceStart

LEMMA ClockStands ==
    ASSUME count' = count
    PROVE  TimeSinceStart' = TimeSinceStart
BY DEF TimeSinceStart

----------------------------------------------------------------------------
(***************************************************************************)
(* The list                                                                *)
(***************************************************************************)
\* The parts of a node.
LEMMA NodeParts ==
    ASSUME Typed
    PROVE  /\ DOMAIN node = Threads
           /\ \A t \in Threads : /\ node[t].prev \in Nullable /\ node[t].next \in Nullable
                                 /\ node[t].wake \in Int /\ node[t].live \in BOOLEAN
                                 /\ node[t] = [prev |-> node[t].prev, next |-> node[t].next,
                                               wake |-> node[t].wake, live |-> node[t].live]
BY DEF Typed

\* A step that leaves the nodes in the list alone leaves all that is said of it.
LEMMA ListFrame ==
    ASSUME ListOK, first' = first, last' = last, Linked' = Linked,
           TimeSinceStart' = TimeSinceStart,
           \A t \in Linked : node'[t] = node[t] /\ due'[t] = due[t]
    PROVE  ListOK'
<1>1. ListIsWellFormed'
  BY DEF ListOK, ListIsWellFormed
<1>2. EndsOK'
  BY DEF ListOK, EndsOK
<1>3. DeltaOK'
  <2>1. SUFFICES ASSUME NEW t \in Linked
                 PROVE  due'[t] = Base(node[t].prev)' + node[t].wake
    BY DEF DeltaOK
  <2>2. node[t].prev \in Linked \cup {None}
    BY DEF ListOK, ListIsWellFormed
  <2>3. Base(node[t].prev)' = Base(node[t].prev)
    BY <2>1, <2>2 DEF Base
  <2> QED  BY <2>1, <2>3 DEF ListOK, DeltaOK
<1>4. OrderOK'
  <2>1. PICK pos \in [Threads -> Int] : InOrder(pos)
    BY DEF ListOK, OrderOK
  <2>2. InOrder(pos)'
    BY <2>1 DEF InOrder
  <2> QED  BY <2>2 DEF OrderOK
<1> QED  BY <1>1, <1>2, <1>3, <1>4 DEF ListOK

\* What is known of the neighbours of a node.
LEMMA Neighbours ==
    ASSUME IInv, NEW t \in Linked
    PROVE  /\ t \in Threads
           /\ node[t].prev # None => /\ node[t].prev \in Linked /\ node[t].prev # t
                                     /\ node[node[t].prev].next = t
           /\ node[t].prev = None => t = first
           /\ node[t].next # None => /\ node[t].next \in Linked /\ node[t].next # t
                                     /\ node[node[t].next].prev = t
           /\ node[t].next = None => t = last
           /\ node[t].next # None => node[t].next # node[t].prev
           /\ first \in Linked /\ last \in Linked
<1>1. PICK pos \in [Threads -> Int] : InOrder(pos)
  BY DEF IInv, ListOK, OrderOK
<1>2. t \in Threads
  BY DEF Linked
<1>3. /\ node[t].prev # None => node[t].prev \in Linked /\ node[node[t].prev].next = t
      /\ node[t].prev = None => t = first
      /\ node[t].next # None => node[t].next \in Linked /\ node[node[t].next].prev = t
      /\ node[t].next = None => t = last
      /\ first \in Linked /\ last \in Linked
  BY DEF IInv, ListOK, ListIsWellFormed, EndsOK
<1>4. None \notin Linked
  BY TimerAssumption DEF Linked
<1>5. ASSUME node[t].next # None
      PROVE  pos[t] < pos[node[t].next] /\ node[t].next \in Threads
  BY <1>1, <1>3, <1>5 DEF InOrder, Linked
<1>6. ASSUME node[t].prev # None
      PROVE  pos[node[t].prev] < pos[t] /\ node[t].prev \in Threads
  BY <1>1, <1>3, <1>4, <1>6 DEF InOrder, Linked
<1> QED  BY <1>1, <1>2, <1>3, <1>5, <1>6

\* Only the running thread is in the loop of enqueue().
LEMMA OneScans ==
    ASSUME IInv, NEW t \in Threads, inIrq \/ running # t
    PROVE  pc[t] # "scan"
BY DEF IInv, ScanOK

LEMMA NobodyScans ==
    ASSUME \A t \in Threads : pc'[t] # "scan"
    PROVE  ScanOK'
BY DEF ScanOK

\* The times of a thread that the step does not concern.
LEMMA TimeFrame ==
    ASSUME NEW t \in Threads, TimeAt(t), count' = count, inIrq' = inIrq,
           pc'[t] = pc[t], until'[t] = until[t], due'[t] = due[t], late'[t] = late[t],
           node'[t].wake = node[t].wake \/ pc[t] \in {"scan", "queued", "asleep"}
    PROVE  TimeAt(t)'
<1>1. TimeSinceStart' = TimeSinceStart
  BY ClockStands
<1>2. CASE pc[t] \in {"scan", "queued", "asleep"}
  <2>1. DueOK(t)'
    BY <1>1, <1>2 DEF TimeAt, DueOK, Multiple
  <2> QED  BY <1>2, <2>1 DEF TimeAt
<1>3. CASE pc[t] \notin {"scan", "queued", "asleep"}
  <2>1. node'[t].wake = node[t].wake
    BY <1>3
  <2>2. MarkedOK(t) => MarkedOK(t)'
    BY <1>1, <2>1 DEF MarkedOK, Multiple
  <2> QED  BY <1>1, <1>3, <2>1, <2>2 DEF TimeAt, Multiple
<1> QED  BY <1>2, <1>3

\* The range of a wake time.
LEMMA WakeRange ==
    ASSUME IInv, NEW t \in Threads
    PROVE  node[t].wake \in 0 .. MaxSleep
<1>1. TimeSinceStart \in Nat /\ MaxSleep \in Nat
  BY Clock, Constants DEF IInv, Typed
<1>2. /\ node[t].wake \in Int /\ due \in [Threads -> Nat] /\ pc[t] \in PCs \ {"fault"}
      /\ first \in Nullable /\ last \in Nullable
  BY NodeParts DEF IInv, Typed
<1>3. TimeAt(t)
  BY DEF IInv, TimeOK
<1>4. PICK pos \in [Threads -> Int] : InOrder(pos)
  BY DEF IInv, ListOK, OrderOK
<1>5. CASE pc[t] \in {"awake", "called", "woken"}
  BY <1>1, <1>3, <1>5 DEF TimeAt
<1>6. CASE pc[t] = "marked"
  BY <1>1, <1>2, <1>3, <1>6 DEF TimeAt, MarkedOK
<1>7. CASE pc[t] = "scan"
  <2>1. /\ node[t].wake >= 0 /\ first # None /\ cur[t] \in Linked \cup {None}
        /\ due[t] = Base(IF cur[t] = None THEN last ELSE node[cur[t]].prev) + node[t].wake
    BY <1>7 DEF IInv, ScanOK
  <2>2. last \in Linked
    BY <2>1 DEF IInv, ListOK, ListIsWellFormed, EndsOK
  <2>3. ASSUME NEW p \in Linked \cup {None}
        PROVE  Base(p) \in Nat /\ Base(p) >= TimeSinceStart
    <3>1. CASE p = None
      BY <1>1, <3>1 DEF Base
    <3>2. CASE p # None
      BY <1>1, <1>2, <3>2, <2>3 DEF Base, IInv, TimeOK, TimeAt, DueOK, Linked
    <3> QED  BY <3>1, <3>2
  <2>4. (IF cur[t] = None THEN last ELSE node[cur[t]].prev) \in Linked \cup {None}
    BY <2>1, <2>2, Neighbours
  <2>5. due[t] <= TimeSinceStart + MaxSleep /\ due[t] \in Nat
    BY <1>2, <1>3, <1>7 DEF TimeAt, DueOK
  <2> DEFINE base == Base(IF cur[t] = None THEN last ELSE node[cur[t]].prev)
  <2>6. base \in Nat /\ base >= TimeSinceStart /\ due[t] = base + node[t].wake
    BY <2>1, <2>3, <2>4
  <2> HIDE DEF base
  <2> QED  BY <1>1, <1>2, <2>1, <2>5, <2>6
<1>8. CASE t \in Linked
  <2>1. due[t] = Base(node[t].prev) + node[t].wake
    BY <1>8 DEF IInv, ListOK, DeltaOK
  <2>2. TimeSinceStart <= due[t] /\ due[t] <= TimeSinceStart + MaxSleep /\ due[t] \in Nat
    BY <1>2, <1>3, <1>8 DEF TimeAt, DueOK, Linked
  <2>3. CASE node[t].prev = None
    BY <1>1, <1>2, <2>1, <2>2, <2>3 DEF Base
  <2>4. CASE node[t].prev # None
    <3>1. node[t].prev \in Linked /\ node[node[t].prev].next = t
      BY <1>8, <2>4, Neighbours
    <3>2. pos[node[t].prev] < pos[t] /\ node[t].prev \in Threads
      BY <1>4, <1>8, <3>1, TimerAssumption DEF InOrder, Linked
    <3>3. due[node[t].prev] <= due[t]
      BY <1>4, <1>8, <3>1, <3>2 DEF InOrder
    <3>4. TimeSinceStart <= due[node[t].prev] /\ due[node[t].prev] \in Nat
      BY <1>2, <3>1, <3>2 DEF IInv, TimeOK, TimeAt, DueOK, Linked
    <3> QED  BY <1>1, <1>2, <2>1, <2>2, <2>4, <3>3, <3>4 DEF Base
  <2> QED  BY <2>3, <2>4
<1> QED  BY <1>2, <1>5, <1>6, <1>7, <1>8 DEF PCs, Linked

----------------------------------------------------------------------------
(***************************************************************************)
(* Insertion and removal                                                   *)
(***************************************************************************)
\* enqueue() links the node of t before that of c, which is due later.
LEMMA LinkBeforeOK ==
    ASSUME IInv, NEW t \in Threads, pc[t] = "scan", NEW c \in Threads, c = cur[t],
           node[t].wake < node[c].wake, LinkBefore(t, c),
           Linked' = Linked \cup {t}, due' = due, count' = count
    PROVE  ListOK'
<1> DEFINE pv == node[c].prev
           w  == node[t].wake
<1>1. /\ c \in Linked /\ t \notin Linked /\ t # None /\ c # None /\ c # t
      /\ None \notin Linked /\ Linked \subseteq Threads
  BY TimerAssumption DEF IInv, ScanOK, Linked
<1>2. /\ pv # None => pv \in Linked /\ pv # c /\ node[pv].next = c
      /\ pv = None => c = first
      /\ pv # t /\ last \in Linked /\ first \in Linked
  BY <1>1, Neighbours
<1>3. /\ node[t].wake \in Nat /\ due[t] = Base(pv) + w
      /\ node[t].live
  BY <1>1, WakeRange, Constants DEF IInv, ScanOK
<1>4. \A m \in Threads :
        /\ node'[m].prev = IF m = t THEN pv ELSE IF m = c THEN t ELSE node[m].prev
        /\ node'[m].next = IF m = t THEN c ELSE IF m = pv THEN t ELSE node[m].next
        /\ node'[m].wake = IF m = c THEN node[c].wake - w ELSE node[m].wake
        /\ node'[m].live = node[m].live
  BY <1>1, <1>2, NodeParts DEF LinkBefore, IInv
<1>5. /\ first' = IF pv = None THEN t ELSE first
      /\ last' = last
  BY DEF LinkBefore
<1> HIDE DEF pv, w
<1>6. \A u \in Linked :
        /\ node[u].live
        /\ node[u].prev \in Linked \cup {None} /\ node[u].next \in Linked \cup {None}
        /\ IF node[u].prev = None THEN u = first ELSE node[node[u].prev].next = u
        /\ IF node[u].next = None THEN u = last ELSE node[node[u].next].prev = u
  BY DEF IInv, ListOK, ListIsWellFormed
<1>7. node[first].prev = None /\ node[last].next = None
  BY <1>1, <1>2 DEF IInv, ListOK, EndsOK
<1>8. node[c].prev = pv
  BY DEF pv
<1>9. ListIsWellFormed'
  <2>1. /\ (first' = None) = (Linked' = {})
        /\ (last' = None) = (Linked' = {})
    BY <1>1, <1>2, <1>5
  <2>2. ASSUME NEW u \in Linked'
        PROVE  /\ node'[u].live
               /\ node'[u].prev \in Linked' \cup {None} /\ node'[u].next \in Linked' \cup {None}
               /\ IF node'[u].prev = None THEN u = first' ELSE node'[node'[u].prev].next = u
               /\ IF node'[u].next = None THEN u = last' ELSE node'[node'[u].next].prev = u
    <3>1. CASE u = t
      BY <1>1, <1>2, <1>3, <1>4, <1>5, <3>1
    <3>2. CASE u = c
      BY <1>1, <1>2, <1>4, <1>5, <1>6, <1>8, <3>2
    <3>3. CASE u \in Linked /\ u # c
      BY <1>1, <1>2, <1>4, <1>5, <1>6, <1>8, <3>3
    <3> QED  BY <2>2, <3>1, <3>2, <3>3
  <2> QED  BY <2>1, <2>2 DEF ListIsWellFormed
<1>10. EndsOK'
  <2>1. first' \in Linked' /\ node'[first'].prev = None
    BY <1>1, <1>2, <1>4, <1>5, <1>7, <1>8
  <2>2. last' \in Linked' /\ node'[last'].next = None
    BY <1>1, <1>2, <1>4, <1>5, <1>7
  <2> QED  BY <2>1, <2>2 DEF EndsOK
<1>11. due \in [Threads -> Nat] /\ TimeSinceStart \in Nat /\ \A m \in Threads : node[m].wake \in Int
  BY Clock, NodeParts DEF IInv, Typed
<1>12. due[c] = Base(pv) + node[c].wake /\ Base(pv) \in Nat
  BY <1>1, <1>2, <1>8, <1>11 DEF IInv, ListOK, DeltaOK, Base
<1>13. DeltaOK'
  <2>1. SUFFICES ASSUME NEW u \in Linked'
                 PROVE  due[u] = Base(node'[u].prev) + node'[u].wake
    BY ClockStands DEF DeltaOK, Base
  <2>2. CASE u = t
    <3>1. node'[t].prev = pv /\ node'[t].wake = w
      BY <1>1, <1>4 DEF w
    <3> QED  BY <1>3, <2>2, <3>1
  <2>3. CASE u = c
    <3>1. Base(t) = due[t]
      BY <1>1 DEF Base
    <3>2. node'[c].prev = t /\ node'[c].wake = node[c].wake - w
      BY <1>1, <1>4
    <3>3. w \in Nat
      BY <1>3 DEF w
    <3> QED  BY <1>1, <1>3, <1>11, <1>12, <2>3, <3>1, <3>2, <3>3
  <2>4. CASE u \in Linked /\ u # c
    <3>1. u # t /\ node'[u].prev = node[u].prev /\ node'[u].wake = node[u].wake
      BY <1>1, <1>4, <2>4
    <3> QED  BY <2>4, <3>1 DEF IInv, ListOK, DeltaOK
  <2> QED  BY <2>1, <2>2, <2>3, <2>4
<1>14. OrderOK'
  <2>1. PICK pos \in [Threads -> Int] : InOrder(pos)
    BY DEF IInv, ListOK, OrderOK
  <2> DEFINE new == [m \in Threads |-> IF m = t THEN pos[c]
                                       ELSE IF pos[m] >= pos[c] THEN pos[m] + 1 ELSE pos[m]]
  <2>2. new \in [Threads -> Int]
    BY <2>1
  <2>3. \A m \in Linked : /\ pos[m] \in Int /\ m # t /\ m \in Threads
                          /\ new[m] = IF pos[m] >= pos[c] THEN pos[m] + 1 ELSE pos[m]
    BY <1>1, <2>1
  <2>4. new[t] = pos[c] /\ pos[c] \in Int
    BY <1>1, <2>1
  <2> HIDE DEF new
  <2>5. \A u \in Linked : pos[u] < pos[c] => pv # None /\ pos[u] <= pos[pv]
    <3>1. SUFFICES ASSUME NEW u \in Linked, pos[u] < pos[c]
                   PROVE  pv # None /\ pos[u] <= pos[pv]
      OBVIOUS
    <3>2. pv # None
      BY <1>1, <1>2, <2>1, <2>3, <3>1 DEF InOrder
    <3>3. ~(pos[pv] < pos[u])
      BY <1>1, <1>2, <2>1, <2>3, <3>1, <3>2 DEF InOrder
    <3> QED  BY <1>2, <2>3, <3>1, <3>2, <3>3
  <2>6. \A u \in Linked : /\ pos[u] < pos[c] => due[u] <= due[t]
                          /\ pos[u] >= pos[c] => due[t] <= due[u]
    <3>1. w \in Nat /\ w < node[c].wake
      BY <1>3 DEF w
    <3>2. due[t] < due[c] /\ due[t] >= Base(pv)
      BY <1>1, <1>3, <1>11, <1>12, <3>1
    <3>3. \A u \in Linked : pos[u] >= pos[c] => due[c] <= due[u]
      BY <1>1, <2>1, <2>3 DEF InOrder
    <3>4. \A u \in Linked : pos[u] < pos[c] => due[u] <= Base(pv)
      BY <1>1, <1>2, <2>1, <2>3, <2>5 DEF InOrder, Base
    <3> QED  BY <1>1, <1>11, <1>12, <3>2, <3>3, <3>4
  <2>7. \A u \in Linked : node[u].next # None =>
            /\ node[u].next \in Linked /\ pos[u] < pos[node[u].next]
            /\ \A v \in Linked : pos[u] < pos[v] => pos[node[u].next] <= pos[v]
    BY <1>6, <2>1 DEF InOrder
  <2>8. ASSUME NEW u \in Linked', NEW v \in Linked'
        PROVE  /\ new[u] = new[v] => u = v
               /\ new[u] <= new[v] => due[u] <= due[v]
               /\ new[first'] <= new[u] /\ new[u] <= new[last']
    <3>1. new[u] = new[v] => u = v
      BY <2>1, <2>3, <2>4, <2>8 DEF InOrder
    <3>2. new[u] <= new[v] => due[u] <= due[v]
      <4>1. CASE u = t /\ v = t
        BY <1>11, <4>1
      <4>2. CASE u = t /\ v \in Linked
        BY <2>3, <2>4, <2>6, <4>2
      <4>3. CASE u \in Linked /\ v = t
        BY <2>3, <2>4, <2>6, <4>3
      <4>4. CASE u \in Linked /\ v \in Linked
        <5>1. new[u] <= new[v] => pos[u] <= pos[v]
          BY <1>1, <2>3, <2>4, <4>4
        <5> QED  BY <2>1, <4>4, <5>1 DEF InOrder
      <4> QED  BY <2>8, <4>1, <4>2, <4>3, <4>4
    <3>3. \A m \in Linked : pos[first] <= pos[m] /\ pos[m] <= pos[last]
      BY <2>1 DEF InOrder
    <3>4. new[u] <= new[last']
      BY <1>1, <1>2, <1>5, <2>3, <2>4, <2>8, <3>3
    <3>5. new[first'] <= new[u]
      <4>1. CASE pv = None
        <5>1. first' = t /\ c = first
          BY <1>2, <1>5, <4>1
        <5> QED  BY <1>1, <2>3, <2>4, <2>8, <3>3, <5>1
      <4>2. CASE pv # None
        <5>1. first' = first /\ pos[first] <= pos[pv] /\ pos[pv] < pos[c]
          BY <1>1, <1>2, <1>5, <2>7, <3>3, <4>2
        <5> QED  BY <1>1, <1>2, <2>3, <2>4, <2>8, <3>3, <4>2, <5>1
      <4> QED  BY <4>1, <4>2
    <3> QED  BY <3>1, <3>2, <3>4, <3>5
  <2>9. ASSUME NEW u \in Linked', node'[u].next # None
        PROVE  /\ new[u] < new[node'[u].next]
               /\ \A v \in Linked' : new[u] < new[v] => new[node'[u].next] <= new[v]
    <3>1. CASE u = t
      <4>1. node'[u].next = c
        BY <1>4, <3>1
      <4> QED  BY <1>1, <2>3, <2>4, <3>1, <4>1
    <3>2. CASE u = pv
      <4>1. u \in Linked /\ node[u].next = c /\ node'[u].next = t
        BY <1>1, <1>2, <1>4, <2>9, <3>2, TimerAssumption
      <4> QED  BY <1>1, <2>3, <2>4, <2>7, <4>1
    <3>3. CASE u \in Linked /\ u # pv
      <4>1. node'[u].next = node[u].next /\ node[u].next # None /\ u # t
        BY <1>1, <1>4, <2>9, <3>3
      <4>2. node[u].next # c
        BY <1>6, <1>8, <3>3, <4>1
      <4>3. new[u] < new[node[u].next]
        BY <1>1, <2>3, <2>7, <3>3, <4>1
      <4>4. ASSUME NEW v \in Linked, new[u] < new[v]  PROVE new[node[u].next] <= new[v]
        BY <1>1, <2>3, <2>7, <3>3, <4>1, <4>4
      <4>5. ASSUME new[u] < new[t]  PROVE new[node[u].next] <= new[t]
        <5>1. pos[u] < pos[c]
          BY <1>1, <2>3, <2>4, <3>3, <4>5
        <5>2. pos[node[u].next] <= pos[c] /\ pos[node[u].next] # pos[c]
          BY <1>1, <2>1, <2>7, <3>3, <4>1, <4>2, <5>1 DEF InOrder
        <5> QED  BY <1>1, <2>3, <2>4, <2>7, <3>3, <4>1, <5>2
      <4> QED  BY <4>1, <4>3, <4>4, <4>5
    <3> QED  BY <2>9, <3>1, <3>2, <3>3
  <2>10. InOrder(new)'
    BY <2>8, <2>9 DEF InOrder
  <2> QED  BY <2>2, <2>10 DEF OrderOK
<1> QED  BY <1>9, <1>10, <1>13, <1>14 DEF ListOK

\* enqueue() puts the node of t behind the last one, which is due no later.
LEMMA LinkLastOK ==
    ASSUME IInv, NEW t \in Threads, pc[t] = "scan", cur[t] = None, LinkLast(t),
           Linked' = Linked \cup {t}, due' = due, count' = count
    PROVE  ListOK'
<1>1. /\ t \notin Linked /\ t # None /\ None \notin Linked /\ Linked \subseteq Threads
      /\ first # None
  BY TimerAssumption DEF IInv, ScanOK, Linked
<1>2. first \in Linked /\ last \in Linked /\ node[first].prev = None /\ node[last].next = None
  BY <1>1 DEF IInv, ListOK, ListIsWellFormed, EndsOK
<1>3. /\ node[t].wake \in Nat /\ due[t] = due[last] + node[t].wake
      /\ node[t].live /\ node[t].next = None
  BY <1>1, <1>2, WakeRange, Constants DEF IInv, ScanOK, Base
<1>4. \A m \in Threads :
        /\ node'[m].prev = IF m = t THEN last ELSE node[m].prev
        /\ node'[m].next = IF m = last THEN t ELSE node[m].next
        /\ node'[m].wake = node[m].wake
        /\ node'[m].live = node[m].live
  BY <1>1, <1>2, NodeParts DEF LinkLast, IInv
<1>5. first' = first /\ last' = t
  BY DEF LinkLast
<1>6. \A u \in Linked :
        /\ node[u].live
        /\ node[u].prev \in Linked \cup {None} /\ node[u].next \in Linked \cup {None}
        /\ IF node[u].prev = None THEN u = first ELSE node[node[u].prev].next = u
        /\ IF node[u].next = None THEN u = last ELSE node[node[u].next].prev = u
  BY DEF IInv, ListOK, ListIsWellFormed
<1>7. ListIsWellFormed'
  <2>1. /\ (first' = None) = (Linked' = {})
        /\ (last' = None) = (Linked' = {})
    BY <1>1, <1>2, <1>5
  <2>2. ASSUME NEW u \in Linked'
        PROVE  /\ node'[u].live
               /\ node'[u].prev \in Linked' \cup {None} /\ node'[u].next \in Linked' \cup {None}
               /\ IF node'[u].prev = None THEN u = first' ELSE node'[node'[u].prev].next = u
               /\ IF node'[u].next = None THEN u = last' ELSE node'[node'[u].next].prev = u
    <3>1. CASE u = t
      BY <1>1, <1>2, <1>3, <1>4, <1>5, <3>1
    <3>2. CASE u \in Linked
      BY <1>1, <1>2, <1>4, <1>5, <1>6, <3>2
    <3> QED  BY <2>2, <3>1, <3>2
  <2> QED  BY <2>1, <2>2 DEF ListIsWellFormed
<1>8. EndsOK'
  BY <1>1, <1>2, <1>3, <1>4, <1>5 DEF EndsOK
<1>9. DeltaOK'
  <2>1. SUFFICES ASSUME NEW u \in Linked'
                 PROVE  due[u] = Base(node'[u].prev) + node'[u].wake
    BY ClockStands DEF DeltaOK, Base
  <2>2. CASE u = t
    <3>1. node'[t].prev = last /\ node'[t].wake = node[t].wake
      BY <1>1, <1>4
    <3> QED  BY <1>1, <1>2, <1>3, <2>2, <3>1 DEF Base
  <2>3. CASE u \in Linked
    <3>1. node'[u].prev = node[u].prev /\ node'[u].wake = node[u].wake
      BY <1>1, <1>4, <2>3
    <3> QED  BY <2>3, <3>1 DEF IInv, ListOK, DeltaOK
  <2> QED  BY <2>1, <2>2, <2>3
<1>10. OrderOK'
  <2>1. PICK pos \in [Threads -> Int] : InOrder(pos)
    BY DEF IInv, ListOK, OrderOK
  <2>2. PICK new \in [Threads -> Int] : new = [pos EXCEPT ![t] = pos[last] + 1]
    <3>1. last \in Threads
      BY <1>1, <1>2
    <3>2. [pos EXCEPT ![t] = pos[last] + 1] \in [Threads -> Int]
      BY <2>1, <3>1
    <3> QED  BY <3>2
  <2>3. \A m \in Linked : /\ pos[m] \in Int /\ new[m] = pos[m]
                          /\ pos[first] <= pos[m] /\ pos[m] <= pos[last]
                          /\ due[m] <= due[last] /\ due[m] \in Nat
    BY <1>1, <1>2, <2>1, <2>2 DEF InOrder, IInv, Typed
  <2>4. new[t] = pos[last] + 1
    BY <2>1, <2>2
  <2>5. due[t] \in Nat /\ due[last] <= due[t]
    BY <1>2, <1>3, <2>3
  <2>6. \A u, v \in Linked :
          /\ pos[u] = pos[v] => u = v
          /\ pos[u] <= pos[v] => due[u] <= due[v]
          /\ node[u].next # None => node[u].next \in Linked /\ pos[u] < pos[node[u].next]
          /\ node[u].next # None /\ pos[u] < pos[v] => pos[node[u].next] <= pos[v]
    BY <1>6, <2>1 DEF InOrder
  <2>7. ASSUME NEW u \in Linked', NEW v \in Linked'
        PROVE  /\ new[u] = new[v] => u = v
               /\ new[u] <= new[v] => due[u] <= due[v]
               /\ new[first'] <= new[u] /\ new[u] <= new[last']
    BY <1>1, <1>2, <1>5, <2>3, <2>4, <2>5, <2>6, <2>7
  <2>8. ASSUME NEW u \in Linked', node'[u].next # None
        PROVE  /\ new[u] < new[node'[u].next]
               /\ \A v \in Linked' : new[u] < new[v] => new[node'[u].next] <= new[v]
    <3>1. u \in Linked
      BY <1>1, <1>2, <1>3, <1>4, <2>8
    <3>2. CASE u = last
      BY <1>1, <1>2, <1>4, <2>3, <2>4, <3>1, <3>2
    <3>3. CASE u # last
      <4>1. node'[u].next = node[u].next
        BY <1>1, <1>4, <3>1, <3>3
      <4> QED  BY <1>1, <1>2, <2>3, <2>4, <2>6, <2>8, <3>1, <4>1
    <3> QED  BY <3>2, <3>3
  <2>9. InOrder(new)'
    BY <2>7, <2>8 DEF InOrder
  <2> QED  BY <2>2, <2>9 DEF OrderOK
<1> QED  BY <1>7, <1>8, <1>9, <1>10 DEF ListOK

\* remove() takes out any node: its successor is due when it was before, because
\* it gets the time of the node and the sum does not wrap.
LEMMA RemoveOK ==
    ASSUME IInv, NEW n \in Linked, Remove(n), Linked' = Linked \ {n}, count' = count,
           \A m \in Threads : m # n => due'[m] = due[m]
    PROVE  /\ ListOK'
           /\ node' \in [Threads -> [prev : Nullable, next : Nullable,
                                     wake : Int, live : BOOLEAN]]
           /\ first' \in Nullable /\ last' \in Nullable
           /\ node'[n].wake = 0
           /\ \A m \in Threads \ Linked : node'[m].wake = node[m].wake
<1> DEFINE nx == node[n].next
           pv == node[n].prev
<1>1. None \notin Linked /\ Linked \subseteq Threads /\ n # None /\ n \in Threads
  BY TimerAssumption DEF Linked
<1>2. /\ pv # None => pv \in Linked /\ pv # n /\ node[pv].next = n
      /\ pv = None => n = first
      /\ nx # None => nx \in Linked /\ nx # n /\ node[nx].prev = n /\ nx # pv
      /\ nx = None => n = last
      /\ first \in Linked /\ last \in Linked
  BY Neighbours
<1>3. node[first].prev = None /\ node[last].next = None
  BY <1>1, <1>2 DEF IInv, ListOK, EndsOK
<1>4. /\ due \in [Threads -> Nat] /\ TimeSinceStart \in Nat /\ MaxSleep \in Nat
      /\ \A m \in Threads : node[m].wake \in Nat
  BY Clock, Constants, WakeRange DEF IInv, Typed
<1>5. /\ due[n] = Base(pv) + node[n].wake /\ Base(pv) \in Nat
      /\ TimeSinceStart <= Base(pv)
  <2>1. due[n] = Base(pv) + node[n].wake
    BY DEF IInv, ListOK, DeltaOK
  <2>2. CASE pv = None
    BY <1>4, <2>1, <2>2 DEF Base
  <2>3. CASE pv # None
    <3>1. pv \in Threads /\ DueOK(pv)
      BY <1>1, <1>2, <2>3 DEF IInv, TimeOK, TimeAt, Linked
    <3> QED  BY <1>4, <2>1, <2>3, <3>1 DEF Base, DueOK
  <2> QED  BY <2>2, <2>3
<1>6. ASSUME nx # None
      PROVE  /\ due[nx] = due[n] + node[nx].wake
             /\ (node[nx].wake + node[n].wake) % Word = node[nx].wake + node[n].wake
  <2>1. due[nx] = due[n] + node[nx].wake
    BY <1>1, <1>2, <1>6 DEF IInv, ListOK, DeltaOK, Base
  <2>2. due[nx] <= TimeSinceStart + MaxSleep
    BY <1>1, <1>2, <1>6 DEF IInv, TimeOK, TimeAt, DueOK, Linked
  <2>3. nx \in Threads /\ due[nx] \in Nat /\ due[n] \in Nat /\ node[nx].wake \in Nat /\ node[n].wake \in Nat
    BY <1>1, <1>2, <1>4, <1>6
  <2>4. node[nx].wake + node[n].wake <= MaxSleep
    BY <1>4, <1>5, <2>1, <2>2, <2>3
  <2> QED  BY <2>1, <2>3, <2>4, SmallMod, Constants
<1>7. ASSUME NEW m \in Threads
      PROVE  /\ node'[m].prev = IF m = n THEN None ELSE IF m = nx THEN pv ELSE node[m].prev
             /\ node'[m].next = IF m = n THEN None ELSE IF m = pv THEN nx ELSE node[m].next
             /\ node'[m].wake = IF m = n THEN 0 ELSE IF m = nx THEN node[m].wake + node[n].wake
                                ELSE node[m].wake
             /\ m # n => node'[m].live = node[m].live
             /\ node'[m] = [prev |-> node'[m].prev, next |-> node'[m].next,
                            wake |-> node'[m].wake, live |-> node'[m].live]
             /\ node'[m].live \in BOOLEAN
  <2>1. node'[m] = IF m = n THEN Freed
                   ELSE IF m = nx
                        THEN [node[m] EXCEPT !.wake = (@ + node[n].wake) % Word, !.prev = pv]
                   ELSE IF m = pv THEN [node[m] EXCEPT !.next = nx]
                   ELSE node[m]
    BY <1>7 DEF Remove
  <2>2. node[m] = [prev |-> node[m].prev, next |-> node[m].next,
                   wake |-> node[m].wake, live |-> node[m].live]
        /\ node[m].live \in BOOLEAN
    BY <1>7, NodeParts DEF IInv
  <2> HIDE DEF nx, pv
  <2>3. CASE m = n
    <3>1. node'[m] = [prev |-> None, next |-> None, wake |-> 0, live |-> FALSE]
      BY <2>1, <2>3 DEF Freed
    <3>2. /\ node'[m].prev = None /\ node'[m].next = None /\ node'[m].wake = 0
          /\ node'[m].live = FALSE
      BY <3>1
    <3> QED  BY <2>3, <3>1, <3>2
  <2>4. CASE m # n /\ m = nx
    BY <1>1, <1>2, <1>6, <2>1, <2>2, <2>4, <1>7, TimerAssumption
  <2>5. CASE m # n /\ m # nx /\ m = pv
    BY <2>1, <2>2, <2>5
  <2>6. CASE m # n /\ m # nx /\ m # pv
    BY <2>1, <2>2, <2>6
  <2> QED  BY <2>3, <2>4, <2>5, <2>6
<1>8. \A m \in Threads :
        /\ node'[m].prev = IF m = n THEN None ELSE IF m = nx THEN pv ELSE node[m].prev
        /\ node'[m].next = IF m = n THEN None ELSE IF m = pv THEN nx ELSE node[m].next
        /\ node'[m].wake = IF m = n THEN 0 ELSE IF m = nx THEN node[m].wake + node[n].wake
                           ELSE node[m].wake
        /\ m # n => node'[m].live = node[m].live
  BY <1>7
<1>9. /\ first' = IF n = first THEN nx ELSE first
      /\ last' = IF n = last THEN pv ELSE last
  BY DEF Remove
<1>10. \A u \in Linked :
        /\ node[u].live
        /\ node[u].prev \in Linked \cup {None} /\ node[u].next \in Linked \cup {None}
        /\ IF node[u].prev = None THEN u = first ELSE node[node[u].prev].next = u
        /\ IF node[u].next = None THEN u = last ELSE node[node[u].next].prev = u
  BY DEF IInv, ListOK, ListIsWellFormed
<1>11. node[n].next = nx /\ node[n].prev = pv
  OBVIOUS
<1> HIDE DEF nx, pv
<1>12. first' \in Nullable /\ last' \in Nullable
  BY <1>1, <1>2, <1>9 DEF Nullable
<1>13. \A m \in Threads : node[m].prev \in Nullable /\ node[m].next \in Nullable
  BY NodeParts DEF IInv
<1>14. node' \in [Threads -> [prev : Nullable, next : Nullable, wake : Int, live : BOOLEAN]]
  <2>1. nx \in Nullable /\ pv \in Nullable
    BY <1>1, <1>2 DEF Nullable
  <2>2. ASSUME NEW m \in Threads
        PROVE  node'[m] \in [prev : Nullable, next : Nullable, wake : Int, live : BOOLEAN]
    <3>1. /\ node'[m].prev \in Nullable /\ node'[m].next \in Nullable
          /\ node'[m].wake \in Int
      BY <1>1, <1>4, <1>8, <1>13, <2>1, <2>2 DEF Nullable
    <3>2. /\ node'[m] = [prev |-> node'[m].prev, next |-> node'[m].next,
                         wake |-> node'[m].wake, live |-> node'[m].live]
          /\ node'[m].live \in BOOLEAN
      BY <1>7, <2>2
    <3> QED  BY <3>1, <3>2
  <2>3. node' = [m \in Threads |-> node'[m]]
    BY DEF Remove
  <2> QED  BY <2>2, <2>3
<1>15. ListIsWellFormed'
  <2>1. PICK pos \in [Threads -> Int] : InOrder(pos)
    BY DEF IInv, ListOK, OrderOK
  <2>2. ASSUME n = first, n = last  PROVE Linked = {n}
    <3>1. ASSUME NEW u \in Linked  PROVE u = n
      <4>1. pos[n] <= pos[u] /\ pos[u] <= pos[n] /\ pos[u] \in Int /\ pos[n] \in Int
        BY <1>1, <2>1, <2>2, <3>1 DEF InOrder
      <4> QED  BY <2>1, <3>1, <4>1 DEF InOrder
    <3> QED  BY <3>1
  <2>3. first' = None <=> Linked' = {}
    BY <1>1, <1>2, <1>9, <2>2
  <2>4. last' = None <=> Linked' = {}
    BY <1>1, <1>2, <1>9, <2>2
  <2>5. ASSUME NEW u \in Linked'
        PROVE  /\ node'[u].live
               /\ node'[u].prev \in Linked' \cup {None} /\ node'[u].next \in Linked' \cup {None}
               /\ IF node'[u].prev = None THEN u = first' ELSE node'[node'[u].prev].next = u
               /\ IF node'[u].next = None THEN u = last' ELSE node'[node'[u].next].prev = u
    <3>1. node'[u].live
      BY <1>1, <1>8, <1>10, <2>5
    <3>2. CASE u = nx
      BY <1>1, <1>2, <1>3, <1>8, <1>9, <1>10, <1>11, <2>5, <3>1, <3>2
    <3>3. CASE u = pv
      BY <1>1, <1>2, <1>3, <1>8, <1>9, <1>10, <1>11, <2>5, <3>1, <3>3
    <3>4. CASE u # nx /\ u # pv
      BY <1>1, <1>2, <1>3, <1>8, <1>9, <1>10, <1>11, <2>5, <3>1, <3>4
    <3> QED  BY <3>2, <3>3, <3>4
  <2> QED  BY <2>3, <2>4, <2>5 DEF ListIsWellFormed
<1>16. EndsOK'
  <2>1. first' # None => first' \in Linked' /\ node'[first'].prev = None
    BY <1>1, <1>2, <1>3, <1>8, <1>9, <1>11
  <2>2. last' # None => last' \in Linked' /\ node'[last'].next = None
    BY <1>1, <1>2, <1>3, <1>8, <1>9, <1>11
  <2> QED  BY <2>1, <2>2 DEF EndsOK
<1>17. DeltaOK'
  <2>1. \A u \in Linked' : u \in Linked /\ u \in Threads /\ u # n /\ due'[u] = due[u]
                           /\ node'[u].prev \in Linked' \cup {None}
    BY <1>1, <1>15 DEF ListIsWellFormed
  <2>2. SUFFICES ASSUME NEW u \in Linked'
                 PROVE  due[u] = Base(node'[u].prev) + node'[u].wake
    BY <2>1, ClockStands DEF DeltaOK, Base
  <2>3. CASE u = nx
    <3>1. node'[u].prev = pv /\ node'[u].wake = node[nx].wake + node[n].wake /\ nx # None
      BY <1>1, <1>8, <2>1, <2>3
    <3> QED  BY <1>1, <1>2, <1>4, <1>5, <1>6, <2>3, <3>1
  <2>4. CASE u # nx
    <3>1. u \in Linked /\ node'[u].prev = node[u].prev /\ node'[u].wake = node[u].wake
      BY <1>8, <2>1, <2>4
    <3> QED  BY <3>1 DEF IInv, ListOK, DeltaOK
  <2> QED  BY <2>3, <2>4
<1>18. OrderOK'
  <2>1. PICK pos \in [Threads -> Int] : InOrder(pos)
    BY DEF IInv, ListOK, OrderOK
  <2>2. \A u, v \in Linked :
          /\ pos[u] \in Int
          /\ pos[u] = pos[v] => u = v
          /\ pos[u] <= pos[v] => due[u] <= due[v]
          /\ node[u].next # None => node[u].next \in Linked /\ pos[u] < pos[node[u].next]
          /\ node[u].next # None /\ pos[u] < pos[v] => pos[node[u].next] <= pos[v]
          /\ pos[first] <= pos[u] /\ pos[u] <= pos[last]
    BY <1>1, <1>10, <2>1 DEF InOrder
  <2>3. ASSUME NEW u \in Linked', NEW v \in Linked'
        PROVE  /\ pos[u] = pos[v] => u = v
               /\ pos[u] <= pos[v] => due'[u] <= due'[v]
    BY <1>1, <2>2, <2>3
  <2>4. ASSUME NEW u \in Linked'
        PROVE  pos[first'] <= pos[u] /\ pos[u] <= pos[last']
    <3>1. u \in Linked /\ u # n
      BY <2>4
    <3>2. pos[first'] <= pos[u]
      <4>1. CASE n = first
        <5>1. pos[n] < pos[u] /\ nx # None
          BY <1>2, <2>2, <3>1, <4>1
        <5> QED  BY <1>9, <1>11, <2>2, <3>1, <4>1, <5>1
      <4>2. CASE n # first
        BY <1>9, <2>2, <3>1, <4>2
      <4> QED  BY <4>1, <4>2
    <3>3. pos[u] <= pos[last']
      <4>1. CASE n = last
        <5>1. pos[u] < pos[n] /\ pv # None
          BY <1>2, <2>2, <3>1, <4>1
        <5>2. ~(pos[pv] < pos[u])
          BY <1>1, <1>2, <2>2, <3>1, <5>1
        <5> QED  BY <1>2, <1>9, <2>2, <3>1, <4>1, <5>1, <5>2
      <4>2. CASE n # last
        BY <1>9, <2>2, <3>1, <4>2
      <4> QED  BY <4>1, <4>2
    <3> QED  BY <3>2, <3>3
  <2>5. ASSUME NEW u \in Linked', node'[u].next # None
        PROVE  /\ pos[u] < pos[node'[u].next]
               /\ \A v \in Linked' : pos[u] < pos[v] => pos[node'[u].next] <= pos[v]
    <3>1. u \in Linked /\ u # n
      BY <2>5
    <3>2. CASE u = pv
      <4>1. node'[u].next = nx /\ nx # None /\ node[u].next = n
        BY <1>1, <1>2, <1>8, <2>5, <3>1, <3>2
      <4>2. pos[u] < pos[n] /\ pos[n] < pos[nx] /\ nx \in Linked
        BY <1>1, <1>2, <1>11, <2>2, <3>1, <4>1
      <4>3. ASSUME NEW v \in Linked', pos[u] < pos[v]  PROVE pos[nx] <= pos[v]
        <5>1. v \in Linked /\ v # n /\ pos[n] <= pos[v] /\ pos[n] # pos[v]
          BY <1>1, <2>2, <3>1, <4>1, <4>3
        <5> QED  BY <1>11, <2>2, <4>1, <5>1
      <4> QED  BY <2>2, <3>1, <4>1, <4>2, <4>3
    <3>3. CASE u # pv
      BY <1>1, <1>8, <2>2, <2>5, <3>1, <3>3
    <3> QED  BY <3>2, <3>3
  <2>6. InOrder(pos)'
    BY <2>3, <2>4, <2>5 DEF InOrder
  <2> QED  BY <2>6 DEF OrderOK
<1>19. node'[n].wake = 0 /\ \A m \in Threads \ Linked : node'[m].wake = node[m].wake
  BY <1>1, <1>2, <1>8, TimerAssumption
<1> QED  BY <1>12, <1>14, <1>15, <1>16, <1>17, <1>18, <1>19 DEF ListOK

\* The interrupt takes a period from the first node: none is due earlier, so none
\* of them holds less and the subtraction does not wrap.
LEMMA TickOK ==
    ASSUME IInv, Irq, NobodyEnqueues
    PROVE  /\ ListOK'
           /\ node' \in [Threads -> [prev : Nullable, next : Nullable,
                                     wake : Int, live : BOOLEAN]]
           /\ \A t \in Threads \ Linked : node'[t].wake = node[t].wake
<1>1. /\ ~inIrq /\ count' = count + 1 /\ pc' = pc /\ due' = due
      /\ first' = first /\ last' = last
      /\ node' = IF first = None THEN node
                 ELSE [node EXCEPT ![first].wake = (@ - TimeBetweenIrq) % Word]
  BY DEF Irq, UpdateWakeTime
<1>2. Linked' = Linked /\ Linked \subseteq Threads /\ None \notin Linked
  BY <1>1, TimerAssumption DEF Linked
<1>3. /\ TimeSinceStart' = TimeSinceStart + TimeBetweenIrq
      /\ TimeSinceStart \in Nat /\ TimeBetweenIrq \in Nat
  BY <1>1, Clock, ClockTicks, Constants DEF IInv, Typed
<1>4. ASSUME first # None
      PROVE  /\ first \in Linked /\ first \in Threads
             /\ due[first] = TimeSinceStart + node[first].wake
             /\ (node[first].wake - TimeBetweenIrq) % Word = node[first].wake - TimeBetweenIrq
  <2>1. first \in Linked /\ node[first].prev = None /\ first \in Threads
    BY <1>2, <1>4 DEF IInv, ListOK, EndsOK
  <2>2. due[first] = TimeSinceStart + node[first].wake
    BY <2>1 DEF IInv, ListOK, DeltaOK, Base
  <2>3. due[first] \in Nat /\ Multiple(due[first]) /\ TimeSinceStart < due[first]
    BY <1>1, <2>1 DEF IInv, Typed, TimeOK, TimeAt, DueOK, Linked
  <2>4. node[first].wake \in 0 .. MaxSleep /\ MaxSleep \in Nat /\ MaxSleep < Word
    BY <2>1, WakeRange, Constants
  <2>5. Multiple(due[first] - TimeSinceStart)
    <3>1. Multiple(TimeSinceStart)
      BY Clock DEF IInv, Typed
    <3>2. due[first] \in Int /\ TimeSinceStart \in Int
      BY <1>3, <2>3
    <3> QED  BY <2>3, <3>1, <3>2, MultipleSum
  <2>6. due[first] - TimeSinceStart >= TimeBetweenIrq
    BY <1>3, <2>3, <2>5, NextMultiple
  <2>7. /\ node[first].wake - TimeBetweenIrq \in Nat
        /\ node[first].wake - TimeBetweenIrq < Word
    BY <1>3, <2>2, <2>3, <2>4, <2>6, Constants
  <2> QED  BY <2>1, <2>2, <2>7, SmallMod
<1>5. \A t \in Threads :
        /\ node'[t].prev = node[t].prev /\ node'[t].next = node[t].next
        /\ node'[t].live = node[t].live
        /\ node'[t].wake = IF t = first THEN node[t].wake - TimeBetweenIrq ELSE node[t].wake
  BY <1>1, <1>4, NodeParts, TimerAssumption DEF IInv
<1>6. node' \in [Threads -> [prev : Nullable, next : Nullable, wake : Int, live : BOOLEAN]]
  <2>1. node \in [Threads -> [prev : Nullable, next : Nullable, wake : Int, live : BOOLEAN]]
    BY DEF IInv, Typed
  <2>2. first # None => (node[first].wake - TimeBetweenIrq) % Word \in Int
    BY <1>3, <1>4, <2>1
  <2> QED  BY <1>1, <2>1, <2>2
<1>7. \A u \in Linked :
        /\ node[u].live
        /\ node[u].prev \in Linked \cup {None} /\ node[u].next \in Linked \cup {None}
        /\ IF node[u].prev = None THEN u = first ELSE node[node[u].prev].next = u
        /\ IF node[u].next = None THEN u = last ELSE node[node[u].next].prev = u
  BY DEF IInv, ListOK, ListIsWellFormed
<1>8. ListIsWellFormed'
  <2>1. /\ (first' = None) = (Linked' = {})
        /\ (last' = None) = (Linked' = {})
    BY <1>1, <1>2 DEF IInv, ListOK, ListIsWellFormed
  <2>2. ASSUME NEW u \in Linked'
        PROVE  /\ node'[u].live
               /\ node'[u].prev \in Linked' \cup {None} /\ node'[u].next \in Linked' \cup {None}
               /\ IF node'[u].prev = None THEN u = first' ELSE node'[node'[u].prev].next = u
               /\ IF node'[u].next = None THEN u = last' ELSE node'[node'[u].next].prev = u
    BY <1>1, <1>2, <1>5, <1>7, <2>2
  <2> QED  BY <2>1, <2>2 DEF ListIsWellFormed
<1>9. EndsOK'
  BY <1>1, <1>2, <1>5 DEF IInv, ListOK, EndsOK
<1>10. DeltaOK'
  <2>1. SUFFICES ASSUME NEW u \in Linked
                 PROVE  due[u] = (IF node'[u].prev = None THEN TimeSinceStart + TimeBetweenIrq
                                  ELSE due[node'[u].prev]) + node'[u].wake
    BY <1>1, <1>2, <1>3 DEF DeltaOK, Base
  <2>2. due[u] = Base(node[u].prev) + node[u].wake /\ node[u].wake \in Int /\ u \in Threads
    BY <1>2, NodeParts DEF IInv, ListOK, DeltaOK
  <2>3. CASE u = first
    <3>1. node[u].prev = None
      BY <1>2, <2>1, <2>3 DEF IInv, ListOK, EndsOK
    <3> QED  BY <1>2, <1>3, <1>5, <2>2, <2>3, <3>1 DEF Base
  <2>4. CASE u # first
    <3>1. node[u].prev # None
      BY <1>7, <2>1, <2>4
    <3> QED  BY <1>5, <2>2, <2>4, <3>1 DEF Base
  <2> QED  BY <2>3, <2>4
<1>11. OrderOK'
  <2>1. PICK pos \in [Threads -> Int] : InOrder(pos)
    BY DEF IInv, ListOK, OrderOK
  <2>2. InOrder(pos)'
    BY <1>1, <1>2, <1>5, <2>1 DEF InOrder
  <2> QED  BY <2>2 DEF OrderOK
<1>12. \A t \in Threads \ Linked : node'[t].wake = node[t].wake
  BY <1>4, <1>5, TimerAssumption
<1> QED  BY <1>6, <1>8, <1>9, <1>10, <1>11, <1>12 DEF ListOK

----------------------------------------------------------------------------
(***************************************************************************)
(* The steps                                                               *)
(***************************************************************************)
\* The nodes, as Typed describes them.
NodeType == [prev : Nullable, next : Nullable, wake : Int, live : BOOLEAN]

LEMMA InitOK ==
    ASSUME Init
    PROVE  IInv
<1>1. /\ first = None /\ last = None /\ Linked = {} /\ Asleep = {}
      /\ \A t \in Threads : node[t].wake = 0 /\ pc[t] = "awake" /\ late[t] = 0
  BY DEF Init, Linked, Asleep, Freed
<1>2. Typed
  <2>1. Freed \in NodeType
    BY DEF Freed, NodeType, Nullable
  <2>2. node \in [Threads -> NodeType]
    BY <2>1 DEF Init
  <2> QED  BY <1>1, <2>2 DEF Init, Typed, NodeType, Nullable, PCs
<1>3. QuantumOK
  BY Constants, PeriodIsMultiple DEF Init, QuantumOK
<1>4. ListOK
  <2>1. [t \in Threads |-> 0] \in [Threads -> Int]
    OBVIOUS
  <2>2. OrderOK
    BY <1>1, <2>1 DEF OrderOK, InOrder
  <2> QED  BY <1>1, <2>2 DEF ListOK, ListIsWellFormed, EndsOK, DeltaOK
<1>5. ScanOK /\ TimeOK
  BY <1>1 DEF ScanOK, TimeOK, TimeAt
<1> QED  BY <1>2, <1>3, <1>4, <1>5 DEF IInv

\* A step of t moves t, and t alone, into the list or out of it.
LEMMA LinkedMoves ==
    ASSUME Typed, NEW t \in Threads, NEW to, pc' = [pc EXCEPT ![t] = to]
    PROVE  /\ Linked' = IF to \in {"queued", "asleep"} THEN Linked \cup {t} ELSE Linked \ {t}
           /\ pc'[t] = to
           /\ \A s \in Threads : s # t => pc'[s] = pc[s]
BY DEF Linked, Typed

\* The types after a step that leaves t awake.
LEMMA TypedStep ==
    ASSUME Typed, NEW t \in Threads, NEW to \in PCs \ {"fault", "asleep"},
           pc' = [pc EXCEPT ![t] = to], Unswitched,
           first' \in Nullable, last' \in Nullable, node' \in [Threads -> NodeType],
           cur' \in [Threads -> Nullable],
           until' \in [Threads -> Nat], due' \in [Threads -> Nat], late' \in [Threads -> Nat]
    PROVE  Typed'
<1>1. pc' \in [Threads -> PCs \ {"fault"}]
  BY DEF Typed
<1>2. running' \notin Asleep'
  BY DEF Typed, Asleep, Unswitched
<1> QED  BY <1>1, <1>2 DEF Typed, Unswitched, NodeType

LEMMA SleepMilliOK ==
    ASSUME IInv, NEW t \in Threads, NEW d \in Durations, SleepMilli(t, d)
    PROVE  IInv'
<1>1. /\ running = t /\ ~inIrq /\ pc[t] = "awake"
      /\ pc' = [pc EXCEPT ![t] = "called"]
      /\ until' = [until EXCEPT ![t] = TimeSinceStart + d]
      /\ UNCHANGED <<first, last, node, quantum, cur, due, count, running, inIrq, preempt, late>>
  BY DEF SleepMilli, Step, Unswitched, queue
<1>2. /\ d \in Nat /\ d <= MaxSleep /\ Multiple(d)
      /\ TimeSinceStart \in Nat /\ Multiple(TimeSinceStart)
  BY Clock, TimerAssumption, PeriodAssumption, MultipleOfMod DEF IInv, Typed, MaxSleep
<1>3. Typed'
  <2>1. until' \in [Threads -> Nat]
    BY <1>1, <1>2 DEF IInv, Typed
  <2>2. Typed
    BY DEF IInv
  <2> QED  BY <1>1, <2>1, <2>2, TypedStep DEF Typed, PCs, Unswitched, NodeType
<1>4. Linked' = Linked /\ pc'[t] = "called" /\ \A s \in Threads : s # t => pc'[s] = pc[s]
  BY <1>1, LinkedMoves DEF IInv, Linked
<1>5. ListOK'
  BY <1>1, <1>4, ListFrame, ClockStands DEF IInv
<1>6. ScanOK'
  BY <1>1, <1>4, OneScans, NobodyScans
<1>7. TimeOK'
  <2>1. ASSUME NEW s \in Threads  PROVE TimeAt(s)'
    <3>1. CASE s = t
      <4>1. until'[t] = TimeSinceStart + d /\ node'[t].wake = 0 /\ late'[t] = 0
        BY <1>1 DEF IInv, Typed, TimeOK, TimeAt
      <4>2. Multiple(TimeSinceStart + d)
        BY <1>2, MultipleSum
      <4>3. until'[t] <= TimeSinceStart' + MaxSleep /\ Multiple(until[t])'
        BY <1>1, <1>2, <4>1, <4>2, Constants, ClockStands DEF Multiple
      <4> QED  BY <1>4, <3>1, <4>1, <4>3 DEF TimeAt
    <3>2. CASE s # t
      BY <1>1, <1>4, <3>2, TimeFrame DEF IInv, Typed, TimeOK
    <3> QED  BY <3>1, <3>2
  <2> QED  BY <2>1 DEF TimeOK
<1> QED  BY <1>1, <1>3, <1>5, <1>6, <1>7 DEF IInv, QuantumOK, Multiple

LEMMA SleepUntilOK ==
    ASSUME IInv, NEW t \in Threads, SleepUntil(t)
    PROVE  IInv'
<1> DEFINE over == until[t] <= TimeSinceStart
           to == IF over THEN "awake" ELSE "marked"
           w  == IF over THEN 0 ELSE until[t] - TimeSinceStart
<1>1. /\ running = t /\ ~inIrq /\ pc[t] = "called"
      /\ pc' = [pc EXCEPT ![t] = to]
      /\ node' = [node EXCEPT ![t].wake = w]
      /\ until' = [until EXCEPT ![t] = IF over THEN 0 ELSE until[t]]
      /\ UNCHANGED <<first, last, quantum, cur, due, count, running, inIrq, preempt, late>>
  BY DEF SleepUntil, Step, Unswitched
<1>2. /\ TimeSinceStart \in Nat /\ Multiple(TimeSinceStart)
      /\ until[t] \in Nat /\ until[t] <= TimeSinceStart + MaxSleep /\ Multiple(until[t])
  BY <1>1, Clock DEF IInv, Typed, TimeOK, TimeAt
<1>3. w \in Nat /\ late[t] = 0 /\ late'[t] = 0
  BY <1>1, <1>2 DEF IInv, TimeOK, TimeAt
<1>4. Typed'
  <2>1. until' \in [Threads -> Nat]
    BY <1>1, <1>2 DEF IInv, Typed
  <2>2. node' \in [Threads -> NodeType]
    <3>1. node \in [Threads -> NodeType] /\ w \in Int
      BY <1>3 DEF IInv, Typed, NodeType
    <3> HIDE DEF w
    <3> QED  BY <1>1, <3>1 DEF NodeType
  <2>3. Typed /\ to \in PCs \ {"fault", "asleep"}
    BY DEF IInv, PCs
  <2> HIDE DEF to
  <2> QED  BY <1>1, <2>1, <2>2, <2>3, TypedStep DEF Typed, Unswitched
<1>5. /\ Linked' = Linked /\ t \notin Linked /\ Linked \subseteq Threads
      /\ pc'[t] = to /\ \A s \in Threads : s # t => pc'[s] = pc[s]
  BY <1>1, LinkedMoves DEF IInv, Linked
<1>6. /\ node'[t].wake = w
      /\ \A s \in Threads : s # t => node'[s] = node[s]
  BY <1>1, NodeParts DEF IInv
<1>7. ListOK'
  <2>1. \A s \in Linked : node'[s] = node[s] /\ due'[s] = due[s]
    BY <1>1, <1>5, <1>6
  <2> QED  BY <1>1, <1>5, <2>1, ListFrame, ClockStands DEF IInv
<1>8. ScanOK'
  BY <1>1, <1>5, OneScans, NobodyScans
<1>9. TimeOK'
  <2>1. ASSUME NEW s \in Threads  PROVE TimeAt(s)'
    <3>1. CASE s = t /\ over
      BY <1>3, <1>5, <1>6, <3>1 DEF TimeAt
    <3>2. CASE s = t /\ ~over
      <4>1. pc'[t] = "marked" /\ node'[t].wake = until[t] - TimeSinceStart /\ until'[t] = until[t]
        BY <1>1, <1>5, <1>6, <3>2 DEF IInv, Typed
      <4>2. Multiple(until[t] - TimeSinceStart)
        <5>1. until[t] \in Int /\ TimeSinceStart \in Int
          BY <1>2
        <5> QED  BY <1>2, <5>1, MultipleSum
      <4>3. MarkedOK(t)'
        BY <1>1, <1>2, <1>3, <3>2, <4>1, <4>2, Constants, ClockStands DEF MarkedOK, Multiple
      <4> QED  BY <3>2, <4>1, <4>3 DEF TimeAt
    <3>3. CASE s # t
      <4>1. until'[s] = until[s] /\ node'[s].wake = node[s].wake /\ pc'[s] = pc[s]
        BY <1>1, <1>5, <1>6, <3>3 DEF IInv, Typed
      <4> QED  BY <1>1, <4>1, TimeFrame DEF IInv, TimeOK
    <3> QED  BY <3>1, <3>2, <3>3
  <2> QED  BY <2>1 DEF TimeOK
<1> QED  BY <1>1, <1>4, <1>7, <1>8, <1>9 DEF IInv, QuantumOK, Multiple

LEMMA EnqueueOK ==
    ASSUME IInv, NEW t \in Threads, Enqueue(t)
    PROVE  IInv'
<1> DEFINE to == IF first = None THEN "queued" ELSE "scan"
<1>1. /\ running = t /\ ~inIrq /\ pc[t] = "marked"
      /\ pc' = [pc EXCEPT ![t] = to]
      /\ node' = [node EXCEPT ![t] = [prev |-> None, next |-> None,
                                      wake |-> node[t].wake, live |-> TRUE]]
      /\ due' = [due EXCEPT ![t] = TimeSinceStart + node[t].wake]
      /\ first' = IF first = None THEN t ELSE first
      /\ last' = IF first = None THEN t ELSE last
      /\ cur' = [cur EXCEPT ![t] = first]
      /\ UNCHANGED <<quantum, until, count, running, inIrq, preempt, late>>
  <2>1. [prev |-> None, next |-> None, wake |-> node[t].wake, live |-> TRUE].wake = node[t].wake
    OBVIOUS
  <2> QED  BY <2>1 DEF Enqueue, Step, Unswitched
<1>2. /\ TimeSinceStart \in Nat /\ Multiple(TimeSinceStart) /\ MaxSleep \in Nat
      /\ MarkedOK(t) /\ node[t].wake \in Nat /\ TimeSinceStart' = TimeSinceStart
  BY <1>1, Clock, Constants, WakeRange, ClockStands DEF IInv, Typed, TimeOK, TimeAt
<1>3. /\ pc'[t] = to /\ \A s \in Threads : s # t => pc'[s] = pc[s]
      /\ Linked' = IF first = None THEN Linked \cup {t} ELSE Linked
      /\ t \notin Linked /\ Linked \subseteq Threads /\ t # None /\ None \notin Linked
  BY <1>1, LinkedMoves, TimerAssumption DEF IInv, Linked
<1>4. /\ node'[t].prev = None /\ node'[t].next = None /\ node'[t].wake = node[t].wake
      /\ node'[t].live
      /\ due'[t] = TimeSinceStart + node[t].wake
      /\ \A s \in Threads : s # t => node'[s] = node[s] /\ due'[s] = due[s]
      /\ cur'[t] = first
  BY <1>1 DEF IInv, Typed
<1>5. Typed'
  <2>1. node' \in [Threads -> NodeType]
    <3>1. node \in [Threads -> NodeType]
      BY DEF IInv, Typed, NodeType
    <3>2. [prev |-> None, next |-> None, wake |-> node[t].wake, live |-> TRUE] \in NodeType
      BY <1>2 DEF NodeType, Nullable
    <3> QED  BY <1>1, <3>1, <3>2
  <2>2. due' \in [Threads -> Nat] /\ cur' \in [Threads -> Nullable]
    BY <1>1, <1>2 DEF IInv, Typed
  <2>3. Typed /\ to \in PCs \ {"fault", "asleep"} /\ first' \in Nullable /\ last' \in Nullable
    BY <1>1 DEF IInv, PCs, Typed, Nullable
  <2> HIDE DEF to
  <2> QED  BY <1>1, <2>1, <2>2, <2>3, TypedStep DEF Typed, Unswitched
<1>6. ListOK'
  <2>1. CASE first = None
    <3>1. Linked' = {t} /\ first' = t /\ last' = t
      BY <1>1, <1>3, <2>1 DEF IInv, ListOK, ListIsWellFormed
    <3>2. ListIsWellFormed' /\ EndsOK'
      BY <1>3, <1>4, <3>1 DEF ListIsWellFormed, EndsOK
    <3>3. DeltaOK'
      BY <1>2, <1>4, <3>1 DEF DeltaOK, Base
    <3>4. [s \in Threads |-> 0] \in [Threads -> Int]
      OBVIOUS
    <3>5. due'[t] \in Nat
      BY <1>2, <1>4
    <3>6. InOrder([s \in Threads |-> 0])'
      BY <1>4, <3>1, <3>5 DEF InOrder
    <3> QED  BY <3>2, <3>3, <3>4, <3>6 DEF ListOK, OrderOK
  <2>2. CASE first # None
    <3>1. \A s \in Linked : node'[s] = node[s] /\ due'[s] = due[s]
      BY <1>3, <1>4
    <3> QED  BY <1>1, <1>2, <1>3, <2>2, <3>1, ListFrame DEF IInv
  <2> QED  BY <2>1, <2>2
<1>7. ScanOK'
  <2>1. CASE first = None
    BY <1>1, <1>3, <2>1, OneScans, NobodyScans
  <2>2. CASE first # None
    <3>1. first \in Linked /\ node[first].prev = None
      BY <2>2 DEF IInv, ListOK, EndsOK
    <3>2. node'[first].prev = None /\ first \in Linked' /\ first # None /\ first' = first
      BY <1>1, <1>3, <1>4, <2>2, <3>1
    <3>3. due'[t] = Base(IF cur[t] = None THEN last ELSE node[cur[t]].prev)' + node'[t].wake
      BY <1>2, <1>4, <2>2, <3>2 DEF Base
    <3>4. \A s \in Threads : pc'[s] = "scan" => s = t
      BY <1>1, <1>3, OneScans
    <3> QED  BY <1>1, <1>2, <1>4, <3>2, <3>3, <3>4 DEF ScanOK
  <2> QED  BY <2>1, <2>2
<1>8. TimeOK'
  <2>1. ASSUME NEW s \in Threads  PROVE TimeAt(s)'
    <3>1. CASE s = t
      <4>1. Multiple(node[t].wake)
        BY <1>2 DEF MarkedOK
      <4>2. Multiple(due'[t])
        <5>1. node[t].wake \in Int /\ TimeSinceStart \in Int
          BY <1>2
        <5> QED  BY <1>2, <1>4, <4>1, <5>1, MultipleSum
      <4>3. DueOK(t)'
        BY <1>1, <1>2, <1>4, <4>2 DEF MarkedOK, DueOK, Multiple
      <4> QED  BY <1>3, <3>1, <4>3 DEF TimeAt
    <3>2. CASE s # t
      BY <1>1, <1>3, <1>4, <3>2, TimeFrame DEF IInv, TimeOK
    <3> QED  BY <3>1, <3>2
  <2> QED  BY <2>1 DEF TimeOK
<1> QED  BY <1>1, <1>5, <1>6, <1>7, <1>8 DEF IInv, QuantumOK, Multiple

LEMMA ScanOnOK ==
    ASSUME IInv, NEW t \in Threads, ScanOn(t)
    PROVE  IInv'
<1> DEFINE c == cur[t]
<1>1. /\ running = t /\ ~inIrq /\ pc[t] = "scan"
      /\ pc' = [pc EXCEPT ![t] = "scan"]
      /\ c # None /\ node[t].wake >= node[c].wake
      /\ node' = [node EXCEPT ![t].wake = node[t].wake - node[c].wake]
      /\ cur' = [cur EXCEPT ![t] = node[c].next]
      /\ UNCHANGED <<first, last, due, quantum, until, count, running, inIrq, preempt, late>>
  BY DEF ScanOn, Step, Unswitched
<1>2. /\ c \in Linked /\ c \in Threads /\ c # t /\ t \notin Linked
      /\ node[t].live /\ node[t].prev = None /\ node[t].next = None
      /\ first # None /\ due[t] = Base(node[c].prev) + node[t].wake
      /\ None \notin Linked /\ Linked \subseteq Threads
  BY <1>1, TimerAssumption DEF IInv, ScanOK, Linked
<1>3. /\ node[t].wake \in Nat /\ node[c].wake \in Nat /\ due[c] \in Nat /\ due[t] \in Nat
      /\ node[c].next \in Nullable /\ TimeSinceStart \in Nat
      /\ TimeSinceStart' = TimeSinceStart
  BY <1>1, <1>2, WakeRange, Constants, NodeParts, Clock, ClockStands DEF IInv, Typed
<1>4. /\ Linked' = Linked /\ pc'[t] = "scan" /\ \A s \in Threads : s # t => pc'[s] = pc[s]
  <2>1. Typed
    BY DEF IInv
  <2>2. Linked' = Linked \ {t} /\ pc'[t] = "scan" /\ \A s \in Threads : s # t => pc'[s] = pc[s]
    BY <1>1, <2>1, LinkedMoves
  <2> QED  BY <1>2, <2>2
<1>5. /\ node'[t].wake = node[t].wake - node[c].wake
      /\ node'[t].prev = None /\ node'[t].next = None /\ node'[t].live
      /\ \A s \in Threads : s # t => node'[s] = node[s]
      /\ cur'[t] = node[c].next
  BY <1>1, <1>2, NodeParts DEF IInv, Typed
<1>6. Typed'
  <2>1. node' \in [Threads -> NodeType]
    <3>1. node \in [Threads -> NodeType] /\ node[t].wake - node[c].wake \in Int
      BY <1>3 DEF IInv, Typed, NodeType
    <3> QED  BY <1>1, <3>1 DEF NodeType
  <2>2. cur' \in [Threads -> Nullable]
    BY <1>1, <1>3 DEF IInv, Typed
  <2>3. Typed /\ "scan" \in PCs \ {"fault", "asleep"}
    BY DEF IInv, PCs
  <2> QED  BY <1>1, <2>1, <2>2, <2>3, TypedStep DEF Typed, Unswitched
<1>7. ListOK'
  <2>1. \A s \in Linked : node'[s] = node[s] /\ due'[s] = due[s]
    BY <1>1, <1>2, <1>5
  <2> QED  BY <1>1, <1>3, <1>4, <2>1, ListFrame DEF IInv
<1>8. ScanOK'
  <2>1. due[c] = Base(node[c].prev) + node[c].wake /\ Base(node[c].prev) \in Nat
    <3>1. due[c] = Base(node[c].prev) + node[c].wake
      BY <1>2 DEF IInv, ListOK, DeltaOK
    <3>2. node[c].prev \in Linked \cup {None}
      BY <1>2 DEF IInv, ListOK, ListIsWellFormed
    <3> QED  BY <1>2, <1>3, <3>1, <3>2 DEF Base, IInv, Typed
  <2>2. due[t] = due[c] + (node[t].wake - node[c].wake)
    BY <1>2, <1>3, <2>1
  <2>3. /\ node[c].next \in Linked \cup {None}
        /\ node[c].next = None => c = last
        /\ node[c].next # None => node[node[c].next].prev = c
    BY <1>2, Neighbours
  <2>4. (IF cur[t] = None THEN last ELSE node[cur[t]].prev)' = c
    BY <1>1, <1>2, <1>5, <2>3
  <2>5. due'[t] = Base(IF cur[t] = None THEN last ELSE node[cur[t]].prev)' + node'[t].wake
    BY <1>1, <1>2, <1>5, <2>2, <2>4 DEF Base
  <2>6. \A s \in Threads : pc'[s] = "scan" => s = t
    BY <1>1, <1>4, OneScans
  <2> QED  BY <1>1, <1>2, <1>3, <1>4, <1>5, <2>3, <2>5, <2>6 DEF ScanOK
<1>9. TimeOK'
  <2>1. ASSUME NEW s \in Threads  PROVE TimeAt(s)'
    BY <1>1, <1>4, <1>5, <2>1, TimeFrame DEF IInv, TimeOK
  <2> QED  BY <2>1 DEF TimeOK
<1> QED  BY <1>1, <1>6, <1>7, <1>8, <1>9 DEF IInv, QuantumOK, Multiple

LEMMA InsertOK ==
    ASSUME IInv, NEW t \in Threads, Insert(t)
    PROVE  IInv'
<1>1. /\ running = t /\ ~inIrq /\ pc[t] = "scan"
      /\ pc' = [pc EXCEPT ![t] = "queued"]
      /\ cur[t] # None /\ node[t].wake < node[cur[t]].wake
      /\ LinkBefore(t, cur[t])
      /\ cur' = [cur EXCEPT ![t] = None]
      /\ UNCHANGED <<due, quantum, until, count, running, inIrq, preempt, late>>
  BY DEF Insert, Step, Unswitched
<1>2. cur[t] \in Linked /\ cur[t] \in Threads /\ cur[t] # t /\ t \notin Linked
  BY <1>1 DEF IInv, ScanOK, Linked
<1>3. /\ Linked' = Linked \cup {t} /\ pc'[t] = "queued"
      /\ \A s \in Threads : s # t => pc'[s] = pc[s]
  BY <1>1, LinkedMoves DEF IInv
<1>4. ListOK'
  <2>1. PICK c \in Threads : c = cur[t]
    BY <1>2
  <2> QED  BY <1>1, <1>3, <2>1, LinkBeforeOK
<1>5. Typed'
  <2>1. node' \in [Threads -> NodeType]
    <3>1. node \in [Threads -> NodeType] /\ t \in Nullable /\ cur[t] \in Nullable
      BY <1>2 DEF IInv, Typed, NodeType, Nullable
    <3>2. node[cur[t]].wake - node[t].wake \in Int /\ node[cur[t]].prev \in Nullable
      BY <1>2, NodeParts DEF IInv
    <3>3. node' = [m \in Threads |->
                     IF m = t THEN [node[t] EXCEPT !.prev = node[cur[t]].prev, !.next = cur[t]]
                     ELSE IF m = cur[t]
                          THEN [node[m] EXCEPT !.prev = t, !.wake = @ - node[t].wake]
                     ELSE IF m = node[cur[t]].prev THEN [node[m] EXCEPT !.next = t]
                     ELSE node[m]]
      BY <1>1, <1>2 DEF LinkBefore
    <3> QED  BY <1>2, <3>1, <3>2, <3>3 DEF NodeType
  <2>2. cur' \in [Threads -> Nullable]
    BY <1>1 DEF IInv, Typed, Nullable
  <2>3. Typed /\ "queued" \in PCs \ {"fault", "asleep"}
    BY DEF IInv, PCs
  <2>4. first' \in Nullable /\ last' \in Nullable
    BY <1>1 DEF LinkBefore, IInv, Typed, Nullable
  <2> QED  BY <1>1, <2>1, <2>2, <2>3, <2>4, TypedStep DEF Typed, Unswitched
<1>6. ScanOK'
  BY <1>1, <1>3, OneScans, NobodyScans
<1>7. TimeOK'
  <2>1. \A s \in Threads \ (Linked \cup {t}) : node'[s] = node[s]
    <3>1. node[cur[t]].prev \in Linked \cup {None} /\ None \notin Threads
      BY <1>2, TimerAssumption DEF IInv, ListOK, ListIsWellFormed
    <3> QED  BY <1>1, <1>2, <3>1 DEF LinkBefore
  <2>2. ASSUME NEW s \in Threads  PROVE TimeAt(s)'
    <3>1. CASE s = t
      <4>1. DueOK(t)'
        BY <1>1, ClockStands DEF IInv, TimeOK, TimeAt, DueOK, Multiple
      <4> QED  BY <1>3, <3>1, <4>1 DEF TimeAt
    <3>2. CASE s # t
      BY <1>1, <1>3, <2>1, <3>2, TimeFrame DEF IInv, TimeOK, Linked
    <3> QED  BY <3>1, <3>2
  <2> QED  BY <2>2 DEF TimeOK
<1> QED  BY <1>1, <1>4, <1>5, <1>6, <1>7 DEF IInv, QuantumOK, Multiple

LEMMA AppendOK ==
    ASSUME IInv, NEW t \in Threads, Append(t)
    PROVE  IInv'
<1>1. /\ running = t /\ ~inIrq /\ pc[t] = "scan"
      /\ pc' = [pc EXCEPT ![t] = "queued"]
      /\ cur[t] = None /\ last # None
      /\ LinkLast(t)
      /\ UNCHANGED <<due, quantum, cur, until, count, running, inIrq, preempt, late>>
  BY DEF Append, Step, Unswitched
<1>2. last \in Linked /\ last \in Threads /\ last # t /\ t \notin Linked
  BY <1>1 DEF IInv, ListOK, EndsOK, Linked
<1>3. /\ Linked' = Linked \cup {t} /\ pc'[t] = "queued"
      /\ \A s \in Threads : s # t => pc'[s] = pc[s]
  BY <1>1, LinkedMoves DEF IInv
<1>4. ListOK'
  BY <1>1, <1>3, LinkLastOK
<1>5. /\ node' = [node EXCEPT ![last].next = t, ![t].prev = last]
      /\ first' = first /\ last' = t
  BY <1>1 DEF LinkLast
<1>6. Typed'
  <2>1. node' \in [Threads -> NodeType]
    <3>1. node \in [Threads -> NodeType] /\ t \in Nullable /\ last \in Nullable
      BY <1>2 DEF IInv, Typed, NodeType, Nullable
    <3> QED  BY <1>2, <1>5, <3>1 DEF NodeType
  <2>2. Typed /\ "queued" \in PCs \ {"fault", "asleep"}
    BY DEF IInv, PCs
  <2>3. first' \in Nullable /\ last' \in Nullable
    BY <1>5 DEF IInv, Typed, Nullable
  <2> QED  BY <1>1, <2>1, <2>2, <2>3, TypedStep DEF Typed, Unswitched
<1>7. ScanOK'
  BY <1>1, <1>3, OneScans, NobodyScans
<1>8. TimeOK'
  <2>1. \A s \in Threads \ (Linked \cup {t}) : node'[s] = node[s]
    BY <1>2, <1>5, NodeParts DEF IInv
  <2>2. ASSUME NEW s \in Threads  PROVE TimeAt(s)'
    <3>1. CASE s = t
      <4>1. DueOK(t)'
        BY <1>1, ClockStands DEF IInv, TimeOK, TimeAt, DueOK, Multiple
      <4> QED  BY <1>3, <3>1, <4>1 DEF TimeAt
    <3>2. CASE s # t
      BY <1>1, <1>3, <2>1, <3>2, TimeFrame DEF IInv, TimeOK, Linked
    <3> QED  BY <3>1, <3>2
  <2> QED  BY <2>2 DEF TimeOK
<1> QED  BY <1>1, <1>4, <1>6, <1>7, <1>8 DEF IInv, QuantumOK, Multiple

LEMMA BlockOK ==
    ASSUME IInv, NEW t \in Threads, Block(t)
    PROVE  IInv'
<1>1. /\ running = t /\ ~inIrq /\ pc[t] = "queued"
      /\ pc' = [pc EXCEPT ![t] = "asleep"]
      /\ quantum' = Quantum /\ running' \in Nullable \ (Asleep \cup {t})
      /\ UNCHANGED <<count, first, last, node, inIrq, preempt, cur, until, due, late>>
  BY DEF Block, Step, SwitchTo, queue
<1>2. /\ Linked' = Linked /\ pc'[t] = "asleep"
      /\ \A s \in Threads : s # t => pc'[s] = pc[s]
  BY <1>1, LinkedMoves DEF IInv, Linked
<1>3. Typed'
  <2>1. Asleep' = Asleep \cup {t}
    BY <1>2 DEF Asleep
  <2>2. pc' \in [Threads -> PCs \ {"fault"}]
    BY <1>1 DEF IInv, Typed, PCs
  <2> QED  BY <1>1, <2>1, <2>2 DEF IInv, Typed
<1>4. ListOK'
  BY <1>1, <1>2, ListFrame, ClockStands DEF IInv
<1>5. ScanOK'
  BY <1>1, <1>2, OneScans, NobodyScans
<1>6. TimeOK'
  <2>1. ASSUME NEW s \in Threads  PROVE TimeAt(s)'
    <3>1. CASE s = t
      <4>1. DueOK(t)'
        BY <1>1, ClockStands DEF IInv, TimeOK, TimeAt, DueOK, Multiple
      <4> QED  BY <1>2, <3>1, <4>1 DEF TimeAt
    <3>2. CASE s # t
      BY <1>1, <1>2, <3>2, TimeFrame DEF IInv, TimeOK
    <3> QED  BY <3>1, <3>2
  <2> QED  BY <2>1 DEF TimeOK
<1>7. QuantumOK'
  BY <1>1, Constants, PeriodIsMultiple DEF QuantumOK, Multiple
<1> QED  BY <1>3, <1>4, <1>5, <1>6, <1>7 DEF IInv

LEMMA BlockReturnsOK ==
    ASSUME IInv, NEW t \in Threads, BlockReturns(t)
    PROVE  IInv'
<1>1. /\ running = t /\ ~inIrq /\ pc[t] = "woken"
      /\ pc' = [pc EXCEPT ![t] = "awake"]
      /\ quantum' = Quantum
      /\ UNCHANGED <<count, first, last, node, running, inIrq, preempt, cur, until, due, late>>
  BY DEF BlockReturns, Step, Unswitched, queue
<1>2. /\ Linked' = Linked /\ pc'[t] = "awake"
      /\ \A s \in Threads : s # t => pc'[s] = pc[s]
  BY <1>1, LinkedMoves DEF IInv, Linked
<1>3. Typed'
  <2>1. Typed /\ "awake" \in PCs \ {"fault", "asleep"}
    BY DEF IInv, PCs
  <2> QED  BY <1>1, <2>1, TypedStep DEF Typed, Unswitched, NodeType
<1>4. ListOK'
  BY <1>1, <1>2, ListFrame, ClockStands DEF IInv
<1>5. ScanOK'
  BY <1>1, <1>2, OneScans, NobodyScans
<1>6. TimeOK'
  <2>1. ASSUME NEW s \in Threads  PROVE TimeAt(s)'
    <3>1. CASE s = t
      BY <1>1, <1>2, <3>1 DEF IInv, TimeOK, TimeAt
    <3>2. CASE s # t
      BY <1>1, <1>2, <3>2, TimeFrame DEF IInv, TimeOK
    <3> QED  BY <3>1, <3>2
  <2> QED  BY <2>1 DEF TimeOK
<1>7. QuantumOK'
  BY <1>1, Constants, PeriodIsMultiple DEF QuantumOK, Multiple
<1> QED  BY <1>3, <1>4, <1>5, <1>6, <1>7 DEF IInv

\* A node is taken out, and its thread's sleep is over.
LEMMA RemovedOK ==
    ASSUME IInv, NEW n \in Linked, Remove(n), Forget(n), NEW to \in {"awake", "woken"},
           pc' = [pc EXCEPT ![n] = to],
           \A s \in Threads : pc[s] # "scan",
           UNCHANGED <<count, quantum, running, inIrq, cur>>, preempt' \in BOOLEAN
    PROVE  IInv'
<1>1. n \in Threads
  BY DEF Linked
<1>2. /\ until' = [until EXCEPT ![n] = 0] /\ due' = [due EXCEPT ![n] = 0]
      /\ late' = [late EXCEPT ![n] = 0] /\ late'[n] = 0
      /\ \A s \in Threads : s # n => /\ due'[s] = due[s] /\ until'[s] = until[s]
                                     /\ late'[s] = late[s]
  BY <1>1 DEF Forget, IInv, Typed
<1>3. /\ Linked' = Linked \ {n} /\ pc'[n] = to
      /\ \A s \in Threads : s # n => pc'[s] = pc[s]
  BY <1>1, LinkedMoves DEF IInv
<1>4. /\ ListOK' /\ node' \in [Threads -> NodeType]
      /\ first' \in Nullable /\ last' \in Nullable /\ node'[n].wake = 0
      /\ \A m \in Threads \ Linked : node'[m].wake = node[m].wake
  BY <1>2, <1>3, RemoveOK DEF NodeType
<1>5. Typed'
  <2>1. until' \in [Threads -> Nat] /\ due' \in [Threads -> Nat] /\ late' \in [Threads -> Nat]
    BY <1>2 DEF IInv, Typed
  <2>2. pc' \in [Threads -> PCs \ {"fault"}]
    BY DEF IInv, Typed, PCs
  <2>3. running' \notin Asleep'
    BY <1>3 DEF IInv, Typed, Asleep
  <2> QED  BY <1>4, <2>1, <2>2, <2>3 DEF IInv, Typed, NodeType
<1>6. ScanOK'
  BY <1>3, NobodyScans
<1>7. TimeOK'
  <2>1. ASSUME NEW s \in Threads  PROVE TimeAt(s)'
    <3>1. CASE s = n
      BY <1>2, <1>3, <1>4, <3>1 DEF TimeAt
    <3>2. CASE s # n
      BY <1>2, <1>3, <1>4, <3>2, TimeFrame DEF IInv, TimeOK, Linked
    <3> QED  BY <3>1, <3>2
  <2> QED  BY <2>1 DEF TimeOK
<1> QED  BY <1>4, <1>5, <1>6, <1>7 DEF IInv, QuantumOK, Multiple

LEMMA CancelOK ==
    ASSUME IInv, NEW t \in Threads, Cancel(t)
    PROVE  IInv'
<1>1. /\ running \in Threads /\ pc[running] = "awake" /\ pc[t] = "asleep"
      /\ Remove(t) /\ Forget(t) /\ pc' = [pc EXCEPT ![t] = "awake"]
      /\ UNCHANGED <<count, quantum, running, inIrq, cur, preempt>>
  BY DEF Cancel, Unswitched, IInv, Typed, Nullable
<1>2. t \in Linked
  BY <1>1 DEF Linked
<1>3. \A s \in Threads : pc[s] # "scan"
  BY <1>1, OneScans
<1>4. preempt' \in BOOLEAN
  BY <1>1 DEF IInv, Typed
<1> QED  BY <1>1, <1>2, <1>3, <1>4, RemovedOK

LEMMA WakeOK ==
    ASSUME IInv, Wake
    PROVE  IInv'
<1>1. /\ inIrq /\ first # None /\ Remove(first) /\ Forget(first)
      /\ pc' = [pc EXCEPT ![first] = IF pc[first] = "asleep" THEN "awake" ELSE "woken"]
      /\ preempt' \in {preempt, TRUE}
      /\ UNCHANGED <<count, quantum, running, inIrq, cur>>
  BY DEF Wake, Due
<1>2. first \in Linked
  BY <1>1 DEF IInv, ListOK, EndsOK
<1>3. \A s \in Threads : pc[s] # "scan"
  BY <1>1, OneScans
<1>4. preempt' \in BOOLEAN
  BY <1>1 DEF IInv, Typed
<1> QED  BY <1>1, <1>2, <1>3, <1>4, RemovedOK

LEMMA IrqOK ==
    ASSUME IInv, NobodyEnqueues, Irq
    PROVE  IInv'
<1>1. /\ ~inIrq /\ inIrq' = TRUE /\ count' = count + 1
      /\ first' = first /\ last' = last
      /\ late' = [t \in Threads |->
                    IF pc[t] = "marked" THEN late[t] + TimeBetweenIrq ELSE late[t]]
      /\ UNCHANGED <<quantum, running, preempt, pc, cur, until, due>>
  BY DEF Irq, UpdateWakeTime
<1>2. /\ ListOK' /\ node' \in [Threads -> NodeType]
      /\ \A t \in Threads \ Linked : node'[t].wake = node[t].wake
  BY TickOK DEF NodeType
<1>3. /\ TimeSinceStart' = TimeSinceStart + TimeBetweenIrq
      /\ TimeSinceStart \in Nat /\ TimeBetweenIrq \in Nat /\ MaxSleep \in Nat
      /\ Multiple(TimeSinceStart)
  BY <1>1, Clock, ClockTicks, Constants DEF IInv, Typed
<1>4. Typed'
  <2>1. Asleep' = Asleep
    BY <1>1 DEF Asleep
  <2>2. late' \in [Threads -> Nat]
    BY <1>1, <1>3 DEF IInv, Typed
  <2> QED  BY <1>1, <1>2, <2>1, <2>2 DEF IInv, Typed, NodeType
<1>5. ScanOK'
  BY <1>1, NobodyScans DEF NobodyEnqueues
<1>6. TimeOK'
  <2>1. ASSUME NEW s \in Threads  PROVE TimeAt(s)'
    <3>1. /\ TimeAt(s) /\ until[s] \in Nat /\ due[s] \in Nat /\ node[s].wake \in Int
          /\ late[s] \in Nat
          /\ late'[s] = IF pc[s] = "marked" THEN late[s] + TimeBetweenIrq ELSE late[s]
      BY <1>1, <2>1, NodeParts DEF IInv, Typed, TimeOK
    <3>2. CASE pc[s] \in {"scan", "queued", "asleep"}
      <4>1. DueOK(s)
        BY <3>1, <3>2 DEF TimeAt
      <4>2. Multiple(due[s] - TimeSinceStart)
        <5>1. due[s] \in Int /\ TimeSinceStart \in Int /\ Multiple(due[s])
          BY <1>3, <3>1, <4>1 DEF DueOK
        <5> QED  BY <1>3, <5>1, MultipleSum
      <4>3. due[s] - TimeSinceStart > 0 /\ due[s] - TimeSinceStart \in Int
        BY <1>1, <1>3, <3>1, <4>1 DEF DueOK
      <4>4. due[s] - TimeSinceStart >= TimeBetweenIrq
        BY <4>2, <4>3, NextMultiple
      <4>5. Multiple(due[s])'
        BY <1>1, <4>1 DEF DueOK, Multiple
      <4>6. due[s] = until[s] + late'[s] /\ due[s] <= TimeSinceStart + MaxSleep
        BY <3>1, <3>2, <4>1 DEF DueOK
      <4>7. DueOK(s)'
        BY <1>1, <1>3, <3>1, <4>4, <4>5, <4>6 DEF DueOK
      <4> QED  BY <1>1, <3>2, <4>7 DEF TimeAt
    <3>3. CASE pc[s] = "marked"
      <4>1. MarkedOK(s) /\ node'[s].wake = node[s].wake
        BY <1>2, <3>1, <3>3 DEF TimeAt, Linked
      <4>2. MarkedOK(s)'
        BY <1>1, <1>3, <3>1, <3>3, <4>1 DEF MarkedOK, Multiple
      <4> QED  BY <1>1, <3>3, <4>2 DEF TimeAt
    <3>4. CASE pc[s] \notin {"scan", "queued", "asleep", "marked"}
      <4>1. node'[s].wake = node[s].wake
        BY <1>2, <3>4 DEF Linked
      <4>2. pc[s] = "called" => until'[s] <= TimeSinceStart' + MaxSleep /\ Multiple(until[s])'
        BY <1>1, <1>3, <3>1 DEF TimeAt, Multiple
      <4> QED  BY <1>1, <3>1, <3>4, <4>1, <4>2 DEF TimeAt
    <3> QED  BY <3>2, <3>3, <3>4
  <2> QED  BY <2>1 DEF TimeOK
<1> QED  BY <1>1, <1>2, <1>4, <1>5, <1>6 DEF IInv, QuantumOK, Multiple

LEMMA IrqEndOK ==
    ASSUME IInv, IrqEnd
    PROVE  IInv'
<1>1. /\ inIrq /\ ~Due /\ inIrq' = FALSE /\ preempt' = FALSE
      /\ quantum' = IF quantum <= 0 THEN Quantum ELSE (quantum - TimeBetweenIrq) % Word
      /\ running' = running \/ running' \in Nullable \ Asleep
      /\ UNCHANGED <<count, first, last, node, pc, cur, until, due, late>>
  BY DEF IrqEnd, QuantumIsOver, SwitchTo, queue
<1>2. Typed'
  BY <1>1 DEF IInv, Typed, Asleep
<1>3. QuantumOK'
  <2>1. quantum \in 0..Quantum /\ Multiple(quantum)
    BY DEF IInv, QuantumOK
  <2>2. CASE quantum <= 0
    BY <1>1, <2>2, Constants, PeriodIsMultiple DEF QuantumOK, Multiple
  <2>3. CASE quantum > 0
    <3>1. quantum \in Int /\ TimeBetweenIrq \in Int
      BY <2>1, Constants
    <3>2. quantum >= TimeBetweenIrq /\ Multiple(quantum - TimeBetweenIrq)
      BY <2>1, <2>3, <3>1, NextMultiple, MultipleSum, PeriodIsMultiple
    <3>3. quantum - TimeBetweenIrq \in Nat /\ quantum - TimeBetweenIrq < Word
          /\ quantum - TimeBetweenIrq <= Quantum
      BY <2>1, <3>2, Constants
    <3>4. quantum' = quantum - TimeBetweenIrq
      BY <1>1, <2>1, <2>3, <3>3, SmallMod
    <3>5. Multiple(quantum)'
      BY <3>2, <3>4 DEF Multiple
    <3>6. quantum' \in 0..Quantum
      BY <3>3, <3>4, Constants
    <3> QED  BY <3>5, <3>6 DEF QuantumOK
  <2> QED  BY <2>1, <2>2, <2>3
<1>4. Linked' = Linked
  BY <1>1 DEF Linked
<1>5. ListOK'
  BY <1>1, <1>4, ListFrame, ClockStands DEF IInv
<1>6. ScanOK'
  BY <1>1, OneScans, NobodyScans
<1>7. ASSUME NEW t \in Linked  PROVE TimeSinceStart < due[t]
  <2>1. first \in Linked /\ node[first].prev = None
    BY <1>7, Neighbours, TimerAssumption DEF IInv, ListOK, EndsOK, Linked
  <2>2. first \in Threads /\ first # None /\ t \in Threads
    BY <1>7, <2>1, TimerAssumption DEF Linked
  <2>3. node[first].wake # 0 /\ node[first].wake \in Nat
    BY <1>1, <2>2, WakeRange, Constants DEF Due
  <2>4. due[first] = TimeSinceStart + node[first].wake
    BY <2>1 DEF IInv, ListOK, DeltaOK, Base
  <2>5. due[first] <= due[t]
    <3>1. PICK pos \in [Threads -> Int] : InOrder(pos)
      BY DEF IInv, ListOK, OrderOK
    <3> QED  BY <1>7, <2>1, <3>1 DEF InOrder
  <2>6. TimeSinceStart \in Nat /\ due[t] \in Nat /\ due[first] \in Nat
    BY <2>2, Clock DEF IInv, Typed
  <2> QED  BY <2>3, <2>4, <2>5, <2>6
<1>8. TimeOK'
  <2>1. ASSUME NEW s \in Threads  PROVE TimeAt(s)'
    <3>1. TimeAt(s)
      BY <2>1 DEF IInv, TimeOK
    <3>2. TimeSinceStart' = TimeSinceStart
      BY <1>1, ClockStands
    <3>3. CASE s \in Linked
      <4>1. DueOK(s)'
        BY <1>1, <1>7, <3>1, <3>2, <3>3 DEF TimeAt, DueOK, Linked, Multiple
      <4> QED  BY <1>1, <3>3, <4>1 DEF TimeAt, Linked
    <3>4. CASE s \notin Linked
      <4>1. pc[s] \notin {"scan", "queued", "asleep"}
        BY <1>1, <3>4, OneScans DEF Linked
      <4>2. MarkedOK(s)' <=> MarkedOK(s)
        BY <1>1, <3>2 DEF MarkedOK, Multiple
      <4> QED  BY <1>1, <3>1, <3>2, <4>1, <4>2 DEF TimeAt, Multiple
    <3> QED  BY <3>3, <3>4
  <2> QED  BY <2>1 DEF TimeOK
<1> QED  BY <1>2, <1>3, <1>5, <1>6, <1>8 DEF IInv

LEMMA StutterOK ==
    ASSUME IInv, UNCHANGED vars
    PROVE  IInv'
<1>1. UNCHANGED <<count, first, last, node, quantum, running, inIrq, preempt, pc, cur, until, due, late>>
  BY DEF vars, queue
<1>2. Linked' = Linked /\ Asleep' = Asleep /\ TimeSinceStart' = TimeSinceStart
  BY <1>1 DEF Linked, Asleep, TimeSinceStart
<1>3. Typed' /\ QuantumOK'
  BY <1>1, <1>2 DEF IInv, Typed, QuantumOK, Multiple
<1>4. ListOK'
  BY <1>1, <1>2, ListFrame DEF IInv
<1>5. ScanOK'
  BY <1>1, <1>2 DEF IInv, ScanOK, Base
<1>6. TimeOK'
  BY <1>1, TimeFrame DEF IInv, TimeOK
<1> QED  BY <1>3, <1>4, <1>5, <1>6 DEF IInv

----------------------------------------------------------------------------
(***************************************************************************)
(* Theorems                                                                *)
(***************************************************************************)
\* The list of the delta queue is linked in the order of the wake times, and every
\* node holds the distance to its predecessor, whatever sleep_until(), the
\* interrupt handler and remove_sleeping_thread() do to it.
THEOREM Invariance == Spec => []IInv
<1>1. Init => IInv
  BY InitOK
<1>2. IInv /\ [Next]_vars => IInv'
  <2>1. SUFFICES ASSUME IInv, [Next]_vars  PROVE IInv'
    OBVIOUS
  <2>2. ASSUME NEW t \in Threads, ThreadStep(t)  PROVE IInv'
    BY <2>1, <2>2, SleepMilliOK, SleepUntilOK, EnqueueOK, ScanOnOK, InsertOK, AppendOK,
       BlockOK, BlockReturnsOK, CancelOK DEF ThreadStep
  <2> QED  BY <2>1, <2>2, IrqOK, WakeOK, IrqEndOK, StutterOK DEF Next
<1> QED  BY <1>1, <1>2, PTL DEF Spec

\* Every variable keeps its type; in particular neither the subtraction of
\* update_wake_time() nor the sum of remove() nor the quantum ever wraps.
THEOREM TypeCorrect == Spec => []TimerTypeOK
<1>1. IInv => TimerTypeOK
  <2>1. SUFFICES ASSUME IInv  PROVE TimerTypeOK
    OBVIOUS
  <2>2. node \in [Threads -> [prev : Nullable, next : Nullable,
                              wake : 0..(Word \div 2), live : BOOLEAN]]
    <3>1. \A t \in Threads : node[t].wake \in 0..(Word \div 2)
      BY <2>1, WakeRange DEF MaxSleep
    <3> QED  BY <2>1, <3>1 DEF IInv, Typed
  <2>3. pc \in [Threads -> PCs]
    BY <2>1 DEF IInv, Typed
  <2> QED  BY <2>1, <2>2, <2>3 DEF TimerTypeOK, IInv, Typed, QuantumOK
<1> QED  BY <1>1, Invariance, PTL

\* The links of the delta queue are inverse to each other, its ends are m_first and
\* m_last, and it holds exactly the sleepers.
THEOREM ListStaysWellFormed == Spec => []ListIsWellFormed
<1>1. IInv => ListIsWellFormed
  BY DEF IInv, ListOK
<1> QED  BY <1>1, Invariance, PTL

\* When the handler has run, the time every sleeper has asked for is still to come,
\* but for the periods that went by between its look at the time and enqueue().
THEOREM WokenInTime == Spec => []NeverLate
<1>1. IInv => NeverLate
  BY DEF IInv, TimeOK, TimeAt, DueOK, NeverLate, Linked
<1> QED  BY <1>1, Invariance, PTL

\* The handler wakes nobody before the time that was asked for.
THEOREM WokenNotBefore == Spec => NeverEarly
<1> DEFINE Early(t) == pc[t] \in {"queued", "asleep"} /\ pc'[t] \in {"awake", "woken"} /\ inIrq
<1>1. IInv /\ [Next]_vars
        => [\A t \in Threads : Early(t) => TimeSinceStart >= until[t]]_vars
  <2>1. SUFFICES ASSUME IInv, Next, NEW t \in Threads, Early(t)
                 PROVE  TimeSinceStart >= until[t]
    OBVIOUS
  <2>2. Wake
    <3>1. ASSUME NEW s \in Threads, ThreadStep(s)  PROVE ~inIrq
      BY <3>1 DEF ThreadStep, SleepMilli, SleepUntil, Enqueue, ScanOn, Insert, Append, Block,
                  BlockReturns, Cancel, Step
    <3>2. ~Irq /\ ~IrqEnd
      BY <2>1 DEF Irq, IrqEnd
    <3> QED  BY <2>1, <3>1, <3>2 DEF Next
  <2>3. /\ first # None /\ node[first].wake = 0
        /\ pc' = [pc EXCEPT ![first] = IF pc[first] = "asleep" THEN "awake" ELSE "woken"]
    BY <2>2 DEF Wake, Due
  <2>4. t = first
    BY <2>1, <2>3 DEF IInv, Typed
  <2>5. first \in Linked /\ node[first].prev = None
    BY <2>1, <2>3 DEF IInv, ListOK, EndsOK
  <2>6. due[first] = TimeSinceStart + 0
    BY <2>1, <2>3, <2>5 DEF IInv, ListOK, DeltaOK, Base
  <2>7. due[first] = until[first] + late[first]
    BY <2>1, <2>4, <2>5 DEF IInv, TimeOK, TimeAt, DueOK, Linked
  <2>8. TimeSinceStart \in Nat /\ until[first] \in Nat /\ late[first] \in Nat
    BY <2>1, <2>4, Clock DEF IInv, Typed
  <2> QED  BY <2>4, <2>6, <2>7, <2>8
<1> QED  BY <1>1, Invariance, PTL DEF Spec, NeverEarly

----------------------------------------------------------------------------
(***************************************************************************)
(* The refinement of SleepQueue.  The abstract queue sees the sum of the   *)
(* times along the list, a recursion over its positions.  The rank of a    *)
(* node, the number of nodes up to it, gives a closed form of both         *)
(* recursive functions; that they equal it is shown with the smallest      *)
(* position at which they would not.                                       *)
(***************************************************************************)
Positions == 1..Cardinality(Threads)

\* The nodes up to t, and how many they are.
Upto(pos, t) == {u \in Linked : pos[u] <= pos[t]}

Rank(pos, t) == Cardinality(Upto(pos, t))

LEMMA RankRange ==
    ASSUME IInv, NEW pos \in [Threads -> Int], NEW t \in Linked
    PROVE  IsFiniteSet(Upto(pos, t)) /\ Rank(pos, t) \in Positions
<1>1. Upto(pos, t) \in SUBSET Threads /\ t \in Upto(pos, t)
  BY DEF Upto, Linked
<1>2. /\ IsFiniteSet(Upto(pos, t)) /\ Rank(pos, t) <= Cardinality(Threads)
  BY <1>1, TimerAssumption, FS_Subset DEF Rank
<1>3. Rank(pos, t) \in Nat /\ Rank(pos, t) # 0
  BY <1>1, <1>2, FS_CardinalityType, FS_EmptySet DEF Rank
<1>4. Cardinality(Threads) \in Nat
  BY TimerAssumption, FS_CardinalityType
<1> QED  BY <1>2, <1>3, <1>4 DEF Positions

LEMMA RankOfFirst ==
    ASSUME IInv, NEW pos \in [Threads -> Int], InOrder(pos), first # None
    PROVE  first \in Linked /\ Rank(pos, first) = 1
<1>1. first \in Linked
  BY DEF IInv, ListOK, EndsOK
<1>2. ASSUME NEW u \in Linked, pos[u] <= pos[first]  PROVE u = first
  <2>1. pos[first] <= pos[u] /\ (pos[u] = pos[first] => u = first)
    BY <1>1, <1>2 DEF InOrder
  <2>2. pos[u] \in Int /\ pos[first] \in Int
    BY <1>1, <1>2 DEF Linked
  <2> QED  BY <1>2, <2>1, <2>2
<1>3. pos[first] \in Int
  BY <1>1 DEF Linked
<1>4. Upto(pos, first) = {first}
  BY <1>1, <1>2, <1>3 DEF Upto
<1> QED  BY <1>1, <1>4, FS_Singleton DEF Rank

LEMMA RankOfNext ==
    ASSUME IInv, NEW pos \in [Threads -> Int], InOrder(pos),
           NEW t \in Linked, node[t].next # None
    PROVE  node[t].next \in Linked /\ Rank(pos, node[t].next) = Rank(pos, t) + 1
<1> DEFINE n == node[t].next
<1>1. n \in Linked
  BY Neighbours
<1>2. pos[t] \in Int /\ pos[n] \in Int /\ \A u \in Linked : pos[u] \in Int
  BY <1>1 DEF Linked
<1>3. pos[t] < pos[n] /\ \A u \in Linked : /\ pos[t] < pos[u] => pos[n] <= pos[u]
                                           /\ pos[u] = pos[n] => u = n
  BY <1>1 DEF InOrder
<1> HIDE DEF n
<1>4. Upto(pos, n) = Upto(pos, t) \cup {n}
  <2>1. ASSUME NEW u \in Upto(pos, n)  PROVE u \in Upto(pos, t) \cup {n}
    <3>1. u \in Linked /\ pos[u] <= pos[n]
      BY <2>1 DEF Upto
    <3>2. CASE pos[u] <= pos[t]
      BY <3>1, <3>2 DEF Upto
    <3>3. CASE ~(pos[u] <= pos[t])
      BY <1>2, <1>3, <3>1, <3>3
    <3> QED  BY <3>2, <3>3
  <2>2. ASSUME NEW u \in Upto(pos, t)  PROVE u \in Upto(pos, n)
    BY <1>2, <1>3, <2>2 DEF Upto
  <2>3. n \in Upto(pos, n)
    BY <1>1, <1>2 DEF Upto
  <2> QED  BY <2>1, <2>2, <2>3
<1>5. n \notin Upto(pos, t)
  BY <1>2, <1>3 DEF Upto
<1>6. IsFiniteSet(Upto(pos, t))
  BY RankRange
<1>7. Cardinality(Upto(pos, t) \cup {n}) = Cardinality(Upto(pos, t)) + 1
  BY <1>5, <1>6, FS_AddElement
<1>8. Rank(pos, n) = Rank(pos, t) + 1
  BY <1>4, <1>7 DEF Rank
<1> QED  BY <1>1, <1>8 DEF n

LEMMA RankIsUnique ==
    ASSUME IInv, NEW pos \in [Threads -> Int], InOrder(pos),
           NEW t \in Linked, NEW u \in Linked, Rank(pos, t) = Rank(pos, u)
    PROVE  t = u
<1>1. pos[t] \in Int /\ pos[u] \in Int /\ \A v \in Linked : pos[v] \in Int
  BY DEF Linked
<1>2. pos[t] = pos[u] => t = u
  BY DEF InOrder
<1>3. t \in Upto(pos, t) /\ u \in Upto(pos, u)
  BY <1>1 DEF Upto
<1>4. IsFiniteSet(Upto(pos, t)) /\ IsFiniteSet(Upto(pos, u))
  BY RankRange
<1>5. CASE pos[t] <= pos[u]
  <2>1. Upto(pos, t) \in SUBSET Upto(pos, u)
    BY <1>1, <1>5 DEF Upto
  <2>2. Upto(pos, t) = Upto(pos, u)
    BY <1>4, <2>1, FS_Subset DEF Rank
  <2>3. pos[u] <= pos[t]
    BY <1>3, <2>2 DEF Upto
  <2> QED  BY <1>1, <1>2, <1>5, <2>3
<1>6. CASE pos[u] <= pos[t]
  <2>1. Upto(pos, u) \in SUBSET Upto(pos, t)
    BY <1>1, <1>6 DEF Upto
  <2>2. Upto(pos, t) = Upto(pos, u)
    BY <1>4, <2>1, FS_Subset DEF Rank
  <2>3. pos[t] <= pos[u]
    BY <1>3, <2>2 DEF Upto
  <2> QED  BY <1>1, <1>2, <1>6, <2>3
<1> QED  BY <1>1, <1>5, <1>6

\* The i-th node by its rank, None behind the end of the list.
Nth(pos, i) == IF \E u \in Linked : Rank(pos, u) = i
               THEN CHOOSE u \in Linked : Rank(pos, u) = i ELSE None

LEMMA NthOfRank ==
    ASSUME IInv, NEW pos \in [Threads -> Int], InOrder(pos), NEW i
    PROVE  /\ Nth(pos, i) # None => Nth(pos, i) \in Linked /\ Rank(pos, Nth(pos, i)) = i
           /\ \A u \in Linked : Rank(pos, u) = i => Nth(pos, i) = u
<1>1. None \notin Linked
  BY TimerAssumption DEF Linked
<1>2. (\E u \in Linked : Rank(pos, u) = i) => Nth(pos, i) \in Linked /\ Rank(pos, Nth(pos, i)) = i
  BY DEF Nth
<1>3. ASSUME NEW u \in Linked, Rank(pos, u) = i  PROVE Nth(pos, i) = u
  BY <1>2, <1>3, RankIsUnique
<1> QED  BY <1>1, <1>2, <1>3 DEF Nth

\* The nodes by rank follow the links: this is the equation of ListAt.
LEMMA NthFollowsLinks ==
    ASSUME IInv, NEW pos \in [Threads -> Int], InOrder(pos), NEW i \in Positions
    PROVE  /\ i = 1 => Nth(pos, i) = first
           /\ i # 1 => Nth(pos, i) = IF Nth(pos, i - 1) = None THEN None
                                     ELSE node[Nth(pos, i - 1)].next
           /\ i # 1 /\ Nth(pos, i) # None => node[Nth(pos, i)].prev = Nth(pos, i - 1)
                                             /\ Nth(pos, i - 1) \in Linked
           /\ i = 1 /\ Nth(pos, i) # None => node[Nth(pos, i)].prev = None
<1>1. i \in Nat /\ i >= 1
  BY TimerAssumption, FS_CardinalityType DEF Positions
<1>2. None \notin Linked
  BY TimerAssumption DEF Linked
<1>3. CASE i = 1
  <2>1. CASE first = None
    <3>1. Linked = {}
      BY <2>1 DEF IInv, ListOK, ListIsWellFormed
    <3> QED  BY <1>3, <2>1, <3>1 DEF Nth
  <2>2. CASE first # None
    BY <1>3, <2>2, RankOfFirst, NthOfRank DEF IInv, ListOK, EndsOK
  <2> QED  BY <1>3, <2>1, <2>2
<1>4. CASE i # 1
  <2>1. ASSUME Nth(pos, i) # None
        PROVE  /\ node[Nth(pos, i)].prev \in Linked
               /\ node[Nth(pos, i)].prev = Nth(pos, i - 1)
               /\ node[Nth(pos, i - 1)].next = Nth(pos, i)
    <3> DEFINE u == Nth(pos, i)
               v == node[u].prev
    <3>1. u \in Linked /\ Rank(pos, u) = i
      BY <2>1, NthOfRank
    <3>2. u # first
      <4>1. SUFFICES ASSUME u = first  PROVE FALSE
        OBVIOUS
      <4>2. first # None
        BY <3>1, <1>2, <4>1
      <4> QED  BY <1>4, <3>1, <4>1, <4>2, RankOfFirst
    <3>3. v \in Linked /\ node[v].next = u
      BY <3>1, <3>2, Neighbours
    <3>4. Rank(pos, u) = Rank(pos, v) + 1
      BY <1>2, <3>1, <3>3, RankOfNext
    <3>5. Rank(pos, v) \in Nat
      BY <3>3, RankRange, TimerAssumption, FS_CardinalityType DEF Positions
    <3>6. Rank(pos, v) = i - 1
      BY <1>1, <3>1, <3>4, <3>5
    <3>7. v = Nth(pos, i - 1)
      BY <3>3, <3>6, NthOfRank
    <3> QED  BY <3>3, <3>7
  <2>2. ASSUME Nth(pos, i - 1) # None, node[Nth(pos, i - 1)].next # None
        PROVE  Nth(pos, i) = node[Nth(pos, i - 1)].next
    <3> DEFINE v == Nth(pos, i - 1)
    <3>1. v \in Linked /\ Rank(pos, v) = i - 1
      BY <2>2, NthOfRank
    <3>2. node[v].next \in Linked /\ Rank(pos, node[v].next) = Rank(pos, v) + 1
      BY <2>2, <3>1, RankOfNext
    <3>3. Rank(pos, node[v].next) = i
      BY <1>1, <3>1, <3>2
    <3> QED  BY <3>2, <3>3, NthOfRank
  <2>3. Nth(pos, i) = IF Nth(pos, i - 1) = None THEN None ELSE node[Nth(pos, i - 1)].next
    <3>1. CASE Nth(pos, i) # None
      BY <1>2, <2>1, <3>1
    <3>2. CASE Nth(pos, i) = None
      BY <2>2, <3>2
    <3> QED  BY <3>1, <3>2
  <2> QED  BY <1>4, <2>1, <2>3
<1> QED  BY <1>3, <1>4

\* A nonempty set of positions has a smallest one.
LEMMA FirstPosition ==
    ASSUME NEW S \in SUBSET Positions, S # {}
    PROVE  \E i \in S : \A j \in S : ~(j < i)
<1>1. S \subseteq Nat
  BY TimerAssumption, FS_CardinalityType DEF Positions
<1>2. PICK i \in S : \A j \in S : <<j, i>> \notin OpToRel(<, Nat)
  BY <1>1, NatLessThanWellFounded, WFMin
<1> QED  BY <1>1, <1>2 DEF OpToRel

\* What a function says at the position before i.
LEMMA PositionBefore ==
    ASSUME NEW i \in Positions, i # 1
    PROVE  i - 1 \in Positions /\ i - 1 < i
<1>1. Cardinality(Threads) \in Nat
  BY TimerAssumption, FS_CardinalityType
<1> QED  BY <1>1 DEF Positions

LEMMA ListAtIsNth ==
    ASSUME IInv, NEW pos \in [Threads -> Int], InOrder(pos)
    PROVE  \A i \in Positions : ListAt[i] = Nth(pos, i)
<1> DEFINE f == [i \in Positions |-> Nth(pos, i)]
           Eq(h) == [i \in Positions |->
                       IF i = 1 THEN first
                       ELSE IF h[i - 1] = None THEN None ELSE node[h[i - 1]].next]
<1>1. f = Eq(f)
  <2>1. ASSUME NEW i \in Positions  PROVE f[i] = Eq(f)[i]
    <3>1. CASE i = 1
      BY <3>1, NthFollowsLinks
    <3>2. CASE i # 1
      <4>1. f[i - 1] = Nth(pos, i - 1)
        BY <3>2, PositionBefore
      <4>2. Nth(pos, i) = IF Nth(pos, i - 1) = None THEN None ELSE node[Nth(pos, i - 1)].next
        BY <3>2, NthFollowsLinks
      <4> QED  BY <3>2, <4>1, <4>2
    <3> QED  BY <3>1, <3>2
  <2> QED  BY <2>1
<1>2. ListAt = CHOOSE h : h = Eq(h)
  BY DEF ListAt, Positions
<1>3. ListAt = Eq(ListAt)
  <2> HIDE DEF f, Eq
  <2> QED  BY <1>1, <1>2
<1>4. SUFFICES ASSUME {i \in Positions : ListAt[i] # f[i]} # {}  PROVE FALSE
  OBVIOUS
<1>5. PICK i \in {j \in Positions : ListAt[j] # f[j]} :
         \A k \in {j \in Positions : ListAt[j] # f[j]} : ~(k < i)
  <2> HIDE DEF f
  <2> QED  BY <1>4, FirstPosition
<1>6. ListAt[i] = Eq(ListAt)[i] /\ f[i] = Eq(f)[i]
  BY <1>1, <1>3
<1>7. CASE i = 1
  BY <1>5, <1>6, <1>7
<1>8. CASE i # 1
  <2>1. i - 1 \in Positions /\ i - 1 < i
    BY <1>5, <1>8, PositionBefore
  <2>2. ListAt[i - 1] = f[i - 1]
    BY <1>5, <2>1
  <2>3. /\ Eq(ListAt)[i] = IF ListAt[i - 1] = None THEN None ELSE node[ListAt[i - 1]].next
        /\ Eq(f)[i] = IF f[i - 1] = None THEN None ELSE node[f[i - 1]].next
    BY <1>5, <1>8
  <2> QED  BY <1>5, <1>6, <2>2, <2>3
<1> QED  BY <1>7, <1>8

\* The times along the list sum up to the distance of the wake time from now.
SumAt(pos, i) == IF Nth(pos, i) = None THEN 0 ELSE due[Nth(pos, i)] - TimeSinceStart

LEMMA WakeSumIsSumAt ==
    ASSUME IInv, NEW pos \in [Threads -> Int], InOrder(pos)
    PROVE  \A i \in Positions : WakeSum[i] = SumAt(pos, i)
<1> DEFINE g == [i \in Positions |-> SumAt(pos, i)]
           Eq(h) == [i \in Positions |->
                       IF ListAt[i] = None THEN 0
                       ELSE node[ListAt[i]].wake + IF i = 1 THEN 0 ELSE h[i - 1]]
<1>1. g = Eq(g)
  <2>1. ASSUME NEW i \in Positions  PROVE g[i] = Eq(g)[i]
    <3>1. ListAt[i] = Nth(pos, i)
      BY ListAtIsNth
    <3>2. CASE Nth(pos, i) = None
      BY <3>1, <3>2 DEF SumAt
    <3>3. CASE Nth(pos, i) # None
      <4> DEFINE u == Nth(pos, i)
      <4>1. u \in Linked /\ u \in Threads
        BY <3>3, NthOfRank DEF Linked
      <4>2. due[u] = Base(node[u].prev) + node[u].wake
        BY <4>1 DEF IInv, ListOK, DeltaOK
      <4>3. due[u] \in Nat /\ node[u].wake \in Int /\ TimeSinceStart \in Nat
        BY <4>1, Clock, NodeParts DEF IInv, Typed
      <4>4. CASE i = 1
        <5>1. Base(node[u].prev) = TimeSinceStart
          BY <3>3, <4>4, NthFollowsLinks DEF Base
        <5>2. SumAt(pos, i) = node[u].wake + 0
          BY <3>3, <4>2, <4>3, <5>1 DEF SumAt
        <5> QED  BY <3>1, <3>3, <4>4, <5>2
      <4>5. CASE i # 1
        <5> DEFINE v == Nth(pos, i - 1)
        <5>1. node[u].prev = v /\ v \in Linked /\ v \in Threads
          BY <3>3, <4>5, NthFollowsLinks DEF Linked
        <5>2. v # None
          BY <5>1, TimerAssumption
        <5>3. Base(node[u].prev) = due[v] /\ due[v] \in Nat
          BY <5>1, <5>2 DEF Base, IInv, Typed
        <5>4. SumAt(pos, i - 1) = due[v] - TimeSinceStart
          BY <5>2 DEF SumAt
        <5>5. SumAt(pos, i) = node[u].wake + SumAt(pos, i - 1)
          BY <3>3, <4>2, <4>3, <5>3, <5>4 DEF SumAt
        <5>6. g[i - 1] = SumAt(pos, i - 1)
          BY <4>5, PositionBefore
        <5> QED  BY <3>1, <3>3, <4>5, <5>5, <5>6
      <4> QED  BY <4>4, <4>5
    <3> QED  BY <3>2, <3>3
  <2> QED  BY <2>1
<1>2. WakeSum = CHOOSE h : h = Eq(h)
  BY DEF WakeSum, Positions
<1>3. WakeSum = Eq(WakeSum)
  <2> HIDE DEF g, Eq
  <2> QED  BY <1>1, <1>2
<1>4. SUFFICES ASSUME {i \in Positions : WakeSum[i] # g[i]} # {}  PROVE FALSE
  OBVIOUS
<1>5. PICK i \in {j \in Positions : WakeSum[j] # g[j]} :
         \A k \in {j \in Positions : WakeSum[j] # g[j]} : ~(k < i)
  <2> HIDE DEF g
  <2> QED  BY <1>4, FirstPosition
<1>6. WakeSum[i] = Eq(WakeSum)[i] /\ g[i] = Eq(g)[i]
  BY <1>1, <1>3
<1>7. CASE i = 1
  BY <1>5, <1>6, <1>7
<1>8. CASE i # 1
  <2>1. i - 1 \in Positions /\ i - 1 < i
    BY <1>5, <1>8, PositionBefore
  <2>2. WakeSum[i - 1] = g[i - 1]
    BY <1>5, <2>1
  <2>3. Eq(WakeSum)[i] = Eq(g)[i]
    <3> HIDE DEF g
    <3> QED  BY <1>5, <1>8, <2>2
  <2> QED  BY <1>5, <1>6, <2>3
<1> QED  BY <1>7, <1>8

\* The refinement mapping, and its closed form: what the abstract queue sees of a
\* sleeper is the distance of its wake time from now.
Left == [t \in Threads |-> TimeLeft(t)]

Remaining == [t \in Threads |-> IF t \in Linked THEN due[t] - TimeSinceStart ELSE 0]

Mapped == Left = Remaining

LEMMA LeftIsRemaining == IInv => Mapped
<1>1. SUFFICES ASSUME IInv, NEW t \in Threads
               PROVE  TimeLeft(t) = IF t \in Linked THEN due[t] - TimeSinceStart ELSE 0
  BY DEF Mapped, Left, Remaining
<1>2. PICK pos \in [Threads -> Int] : InOrder(pos)
  BY <1>1 DEF IInv, ListOK, OrderOK
<1>3. t # None
  BY TimerAssumption
<1>4. /\ \A i \in Positions : ListAt[i] = Nth(pos, i)
      /\ \A i \in Positions : WakeSum[i] = SumAt(pos, i)
  BY <1>1, <1>2, ListAtIsNth, WakeSumIsSumAt
<1> DEFINE at == {i \in Positions : ListAt[i] = t}
<1>5. TimeLeft(t) = IF at = {} THEN 0 ELSE WakeSum[CHOOSE i \in at : TRUE]
  BY DEF TimeLeft, Positions
<1>6. CASE t \in Linked
  <2>1. Rank(pos, t) \in Positions
    BY <1>1, <1>6, RankRange
  <2>2. Nth(pos, Rank(pos, t)) = t
    BY <1>1, <1>2, <1>6, NthOfRank
  <2>3. at # {}
    BY <1>4, <2>1, <2>2
  <2>4. PICK i \in at : i = CHOOSE j \in at : TRUE
    BY <2>3
  <2>5. WakeSum[i] = due[t] - TimeSinceStart
    BY <1>3, <1>4, <2>4 DEF SumAt
  <2> QED  BY <1>5, <1>6, <2>3, <2>4, <2>5
<1>7. CASE t \notin Linked
  <2>1. at = {}
    BY <1>1, <1>2, <1>3, <1>4, <1>7, NthOfRank
  <2> QED  BY <1>5, <1>7, <2>1
<1> QED  BY <1>6, <1>7

\* A step after which the same threads sleep for the same time.
LEMMA NoTimePasses ==
    ASSUME Linked' = Linked, count' = count, \A t \in Linked : due'[t] = due[t]
    PROVE  Remaining' = Remaining
<1>1. TimeSinceStart' = TimeSinceStart
  BY ClockStands
<1> QED  BY <1>1 DEF Remaining

\* enqueue() has linked the node of t.
LEMMA OneSleepsMore ==
    ASSUME IInv, NEW t \in Threads, t \notin Linked, Linked' = Linked \cup {t}, count' = count,
           \A s \in Linked : due'[s] = due[s], due'[t] \in Nat, due'[t] > TimeSinceStart
    PROVE  /\ Remaining[t] = 0 /\ Remaining'[t] \in Nat \ {0}
           /\ Remaining' = [Remaining EXCEPT ![t] = Remaining'[t]]
<1>1. TimeSinceStart' = TimeSinceStart /\ TimeSinceStart \in Nat
  BY ClockStands, Clock DEF IInv, Typed
<1>2. Remaining'[t] = due'[t] - TimeSinceStart
  BY <1>1 DEF Remaining
<1>3. Remaining' = [Remaining EXCEPT ![t] = Remaining'[t]]
  BY <1>1, <1>2 DEF Remaining
<1> QED  BY <1>1, <1>2, <1>3 DEF Remaining

LEMMA OneSleepsLess ==
    ASSUME NEW t \in Threads, Linked' = Linked \ {t}, count' = count,
           \A s \in Linked : s # t => due'[s] = due[s]
    PROVE  Remaining' = [Remaining EXCEPT ![t] = 0]
<1>1. TimeSinceStart' = TimeSinceStart
  BY ClockStands
<1> QED  BY <1>1 DEF Remaining

\* One interrupt takes a period from all sleepers.
LEMMA OnePeriodPasses ==
    ASSUME IInv, ~inIrq, Linked' = Linked, due' = due, count' = count + 1
    PROVE  Remaining' = [t \in Threads |-> IF Remaining[t] > TimeBetweenIrq
                                           THEN Remaining[t] - TimeBetweenIrq ELSE 0]
<1>1. /\ TimeSinceStart' = TimeSinceStart + TimeBetweenIrq
      /\ TimeSinceStart \in Nat /\ TimeBetweenIrq \in Nat /\ TimeBetweenIrq > 0
      /\ Multiple(TimeSinceStart)
  BY ClockTicks, Clock, Constants DEF IInv, Typed
<1>2. ASSUME NEW t \in Threads
      PROVE  Remaining'[t] = IF Remaining[t] > TimeBetweenIrq
                             THEN Remaining[t] - TimeBetweenIrq ELSE 0
  <2>1. CASE t \in Linked
    <3>1. due[t] \in Nat /\ due[t] > TimeSinceStart /\ Multiple(due[t])
      BY <2>1, <1>1 DEF IInv, Typed, TimeOK, TimeAt, DueOK, Linked
    <3>2. due[t] \in Int /\ TimeSinceStart \in Int
      BY <1>1, <3>1
    <3>3. Multiple(due[t] - TimeSinceStart)
      BY <1>1, <3>1, <3>2, MultipleSum
    <3>4. due[t] - TimeSinceStart \in Int /\ due[t] - TimeSinceStart > 0
      BY <3>1, <3>2
    <3>5. due[t] - TimeSinceStart >= TimeBetweenIrq
      BY <3>3, <3>4, NextMultiple
    <3>6. /\ Remaining[t] = due[t] - TimeSinceStart
          /\ Remaining'[t] = due[t] - (TimeSinceStart + TimeBetweenIrq)
      BY <1>1, <2>1 DEF Remaining
    <3> QED  BY <1>1, <3>2, <3>5, <3>6
  <2>2. CASE t \notin Linked
    <3>1. Remaining[t] = 0 /\ Remaining'[t] = 0
      BY <2>2 DEF Remaining
    <3> QED  BY <1>1, <3>1
  <2> QED  BY <2>1, <2>2
<1>3. DOMAIN Remaining' = Threads /\ Remaining' = [t \in Threads |-> Remaining'[t]]
  BY DEF Remaining
<1> QED  BY <1>2, <1>3

\* What a thread's step means for the abstract queue.
SleepsOrNot(t) ==
    \/ Remaining' = Remaining
    \/ /\ Remaining[t] = 0 /\ Remaining'[t] \in Nat \ {0}
       /\ Remaining' = [Remaining EXCEPT ![t] = Remaining'[t]]
    \/ Remaining[t] > 0 /\ Remaining' = [Remaining EXCEPT ![t] = 0]

LEMMA ThreadStepSleeps ==
    ASSUME IInv, NEW t \in Threads, ThreadStep(t)
    PROVE  SleepsOrNot(t)
<1>1. pc \in [Threads -> PCs \ {"fault"}] /\ due \in [Threads -> Nat]
  BY DEF IInv, Typed
<1>2. TimeSinceStart \in Nat
  BY Clock DEF IInv, Typed
<1>3. ASSUME NEW d \in Durations, SleepMilli(t, d)  PROVE Remaining' = Remaining
  <2>1. Linked' = Linked
    BY <1>1, <1>3 DEF SleepMilli, Step, Linked
  <2> QED  BY <1>3, <2>1, NoTimePasses DEF SleepMilli, Unswitched
<1>4. CASE SleepUntil(t)
  <2>1. Linked' = Linked
    BY <1>1, <1>4 DEF SleepUntil, Step, Linked
  <2> QED  BY <1>4, <2>1, NoTimePasses DEF SleepUntil, Unswitched, SleepsOrNot
<1>5. CASE ScanOn(t)
  <2>1. Linked' = Linked
    BY <1>1, <1>5 DEF ScanOn, Step, Linked
  <2> QED  BY <1>5, <2>1, NoTimePasses DEF ScanOn, Unswitched, SleepsOrNot
<1>6. CASE Block(t)
  <2>1. Linked' = Linked
    BY <1>1, <1>6 DEF Block, Step, Linked
  <2> QED  BY <1>6, <2>1, NoTimePasses DEF Block, SleepsOrNot
<1>7. CASE BlockReturns(t)
  <2>1. Linked' = Linked
    BY <1>1, <1>7 DEF BlockReturns, Step, Linked
  <2> QED  BY <1>7, <2>1, NoTimePasses DEF BlockReturns, Unswitched, SleepsOrNot
<1>8. CASE Enqueue(t)
  <2>1. /\ pc[t] = "marked" /\ count' = count
        /\ pc' = [pc EXCEPT ![t] = IF first = None THEN "queued" ELSE "scan"]
        /\ due' = [due EXCEPT ![t] = TimeSinceStart + node[t].wake]
    BY <1>8 DEF Enqueue, Step, Unswitched
  <2>2. t \notin Linked
    BY <2>1 DEF Linked
  <2>3. \A s \in Linked : due'[s] = due[s]
    BY <1>1, <2>1, <2>2 DEF Linked
  <2>4. CASE first = None
    <3>1. Linked' = Linked \cup {t}
      BY <1>1, <2>1, <2>4 DEF Linked
    <3>2. node[t].wake > 0 /\ node[t].wake \in Int
      BY <2>1, NodeParts DEF IInv, TimeOK, TimeAt, MarkedOK
    <3>3. due'[t] \in Nat /\ due'[t] > TimeSinceStart
      BY <1>1, <1>2, <2>1, <3>2
    <3> QED  BY <2>1, <2>2, <2>3, <3>1, <3>3, OneSleepsMore DEF SleepsOrNot
  <2>5. CASE first # None
    <3>1. Linked' = Linked
      BY <1>1, <2>1, <2>5 DEF Linked
    <3> QED  BY <2>1, <2>3, <3>1, NoTimePasses DEF SleepsOrNot
  <2> QED  BY <2>4, <2>5
<1>9. CASE Insert(t) \/ Append(t)
  <2>1. /\ pc[t] = "scan" /\ ~inIrq /\ pc' = [pc EXCEPT ![t] = "queued"]
        /\ count' = count /\ due' = due
    BY <1>9 DEF Insert, Append, Step, Unswitched
  <2>2. t \notin Linked /\ Linked' = Linked \cup {t}
    BY <1>1, <2>1 DEF Linked
  <2>3. due'[t] \in Nat /\ due'[t] > TimeSinceStart
    BY <1>1, <1>2, <2>1 DEF IInv, TimeOK, TimeAt, DueOK
  <2> QED  BY <2>1, <2>2, <2>3, OneSleepsMore DEF SleepsOrNot
<1>10. CASE Cancel(t)
  <2>1. /\ pc[t] = "asleep" /\ ~inIrq /\ pc' = [pc EXCEPT ![t] = "awake"]
        /\ count' = count /\ due' = [due EXCEPT ![t] = 0]
    BY <1>10 DEF Cancel, Forget, Unswitched
  <2>2. t \in Linked /\ Linked' = Linked \ {t}
    BY <1>1, <2>1 DEF Linked
  <2>3. \A s \in Linked : s # t => due'[s] = due[s]
    BY <1>1, <2>1 DEF Linked
  <2>4. due[t] \in Nat /\ due[t] > TimeSinceStart
    BY <1>1, <1>2, <2>1 DEF IInv, TimeOK, TimeAt, DueOK
  <2>5. Remaining[t] > 0
    BY <1>2, <2>2, <2>4 DEF Remaining
  <2> QED  BY <2>1, <2>2, <2>3, <2>5, OneSleepsLess DEF SleepsOrNot
<1> QED  BY <1>3, <1>4, <1>5, <1>6, <1>7, <1>8, <1>9, <1>10 DEF ThreadStep, SleepsOrNot

\* The handler wakes the first sleeper when it has nothing left to sleep.
LEMMA WakeTakesNothing ==
    ASSUME IInv, Wake
    PROVE  Remaining' = Remaining
<1>1. /\ first # None /\ node[first].wake = 0 /\ count' = count
      /\ pc' = [pc EXCEPT ![first] = IF pc[first] = "asleep" THEN "awake" ELSE "woken"]
      /\ due' = [due EXCEPT ![first] = 0]
  BY DEF Wake, Due, Forget
<1>2. first \in Linked /\ first \in Threads /\ node[first].prev = None
  BY <1>1 DEF IInv, ListOK, EndsOK, Linked
<1>3. due[first] = TimeSinceStart + 0
  BY <1>1, <1>2 DEF IInv, ListOK, DeltaOK, Base
<1>4. TimeSinceStart \in Nat
  BY Clock DEF IInv, Typed
<1>5. Linked' = Linked \ {first} /\ \A s \in Linked : s # first => due'[s] = due[s]
  BY <1>1, <1>2 DEF IInv, Typed, Linked
<1>6. Remaining[first] = 0
  BY <1>2, <1>3, <1>4 DEF Remaining
<1>7. Remaining' = [Remaining EXCEPT ![first] = 0]
  BY <1>1, <1>2, <1>5, OneSleepsLess
<1>8. Remaining = [t \in Threads |-> Remaining[t]]
  BY DEF Remaining
<1> QED  BY <1>6, <1>7, <1>8

\* The delta queue implements the abstract queue of sleepers: enqueue() and
\* remove_sleeping_thread() change the time of one thread only, and
\* update_wake_time(), which touches the first node alone, takes a period from
\* every sleeper.
THEOREM QueueIsImplemented == Spec => ImplementsSleepQueue
<1>1. Init => Sleepers!Init
  <2>1. SUFFICES ASSUME Init  PROVE Left = [t \in Threads |-> 0]
    BY DEF Sleepers!Init, Left
  <2>2. Left = Remaining
    BY <2>1, InitOK, LeftIsRemaining DEF Mapped
  <2>3. Linked = {}
    BY <2>1 DEF Init, Linked
  <2> QED  BY <2>2, <2>3 DEF Remaining
<1>2. IInv /\ [Next]_vars /\ Mapped /\ Mapped' => [Sleepers!Next]_Left
  <2>1. SUFFICES ASSUME IInv, [Next]_vars, Left = Remaining, Left' = Remaining'
                 PROVE  [Sleepers!Next]_Left
    BY DEF Mapped
  <2>2. ASSUME NEW t \in Threads, ThreadStep(t)  PROVE [Sleepers!Next]_Left
    <3>1. SleepsOrNot(t)
      BY <2>1, <2>2, ThreadStepSleeps
    <3>2. \/ Left' = Left
          \/ Sleepers!Sleep(t)
          \/ Sleepers!Cancel(t)
      BY <2>1, <3>1 DEF SleepsOrNot, Sleepers!Sleep, Sleepers!Cancel, Left
    <3> QED  BY <3>2 DEF Sleepers!Next
  <2>3. CASE Irq
    <3>1. Linked' = Linked
      BY <2>3 DEF Irq, Linked
    <3>2. Sleepers!Elapse
      BY <2>1, <2>3, <3>1, OnePeriodPasses DEF Irq, Sleepers!Elapse, Left
    <3> QED  BY <3>2 DEF Sleepers!Next
  <2>4. CASE Wake
    BY <2>1, <2>4, WakeTakesNothing
  <2>5. CASE IrqEnd
    <3>1. Linked' = Linked
      BY <2>5 DEF IrqEnd, Linked
    <3> QED  BY <2>1, <2>5, <3>1, NoTimePasses DEF IrqEnd
  <2>6. CASE UNCHANGED vars
    <3>1. Linked' = Linked /\ count' = count /\ due' = due
      BY <2>6 DEF vars, Linked
    <3> QED  BY <2>1, <3>1, NoTimePasses
  <2> QED  BY <2>1, <2>2, <2>3, <2>4, <2>5, <2>6 DEF Next
<1> QED  BY <1>1, <1>2, Invariance, LeftIsRemaining, PTL
         DEF Spec, ImplementsSleepQueue, Sleepers!Spec, Left

=============================================================================
