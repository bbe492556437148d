-------------------------- MODULE SchedulerProofs --------------------------
(***************************************************************************)
(* Facts about the operators of Scheduler: every function of the scheduler *)
(* maps a well formed state to a well formed state, and keeps the parts of *)
(* Consistent.                                                             *)
(***************************************************************************)
EXTENDS Cpu, SequenceTheorems, FiniteSetTheorems, TLAPS

Queues == [Level -> Seq(Thread)]

----------------------------------------------------------------------------
(***************************************************************************)
(* Sequences                                                               *)
(***************************************************************************)
\* What Append adds to the elements of a sequence (LinkedList::add_back).
LEMMA ElemsAppend ==
    ASSUME NEW S, NEW seq \in Seq(S), NEW e \in S
    PROVE  /\ Append(seq, e) \in Seq(S)
           /\ Elems(Append(seq, e)) = Elems(seq) \cup {e}
<1>1. /\ Append(seq, e) \in Seq(S)
      /\ Len(Append(seq, e)) = Len(seq) + 1
      /\ \A i \in 1 .. Len(seq) : Append(seq, e)[i] = seq[i]
      /\ Append(seq, e)[Len(seq) + 1] = e
  BY AppendProperties
<1>2. DOMAIN Append(seq, e) = 1 .. Len(seq) + 1 /\ DOMAIN seq = 1 .. Len(seq)
  BY <1>1, LenProperties
<1> QED  BY <1>1, <1>2, LenProperties DEF Elems

\* A sequence without repetition stays so when a new element is appended.
LEMMA AppendKeepsOrder ==
    ASSUME NEW S, NEW seq \in Seq(S), NEW e \in S, e \notin Elems(seq),
           \A i, j \in DOMAIN seq : seq[i] = seq[j] => i = j
    PROVE  \A i, j \in DOMAIN Append(seq, e) : Append(seq, e)[i] = Append(seq, e)[j] => i = j
<1>1. /\ Append(seq, e) \in Seq(S)
      /\ Len(Append(seq, e)) = Len(seq) + 1
      /\ \A i \in 1 .. Len(seq) : Append(seq, e)[i] = seq[i]
      /\ Append(seq, e)[Len(seq) + 1] = e
  BY AppendProperties
<1>2. /\ DOMAIN Append(seq, e) = 1 .. Len(seq) + 1
      /\ DOMAIN seq = 1 .. Len(seq) /\ Len(seq) \in Nat
  BY <1>1, LenProperties
<1>3. \A i \in 1 .. Len(seq) : seq[i] # e
  BY <1>2 DEF Elems
<1> QED  BY <1>1, <1>2, <1>3

\* What remove_front() takes from a sequence without repetition.
LEMMA ElemsTail ==
    ASSUME NEW S, NEW seq \in Seq(S), seq # << >>,
           \A i, j \in DOMAIN seq : seq[i] = seq[j] => i = j
    PROVE  /\ Head(seq) \in S
           /\ Tail(seq) \in Seq(S)
           /\ Head(seq) \in Elems(seq)
           /\ Elems(Tail(seq)) = Elems(seq) \ {Head(seq)}
           /\ \A i, j \in DOMAIN Tail(seq) : Tail(seq)[i] = Tail(seq)[j] => i = j
           /\ \A i \in DOMAIN Tail(seq) : Tail(seq)[i] \in Elems(seq)
<1>1. /\ Head(seq) \in S
      /\ Tail(seq) \in Seq(S)
      /\ Head(seq) = seq[1]
      /\ Len(Tail(seq)) = Len(seq) - 1
      /\ \A i \in 1 .. Len(Tail(seq)) : Tail(seq)[i] = seq[i + 1]
      /\ Len(seq) \in Nat /\ Len(seq) # 0
  BY HeadTailProperties, LenProperties, EmptySeq
<1>2. DOMAIN Tail(seq) = 1 .. Len(seq) - 1 /\ DOMAIN seq = 1 .. Len(seq)
  BY <1>1, LenProperties
<1>3. Head(seq) \in Elems(seq)
  BY <1>1, <1>2 DEF Elems
<1>4. Elems(Tail(seq)) \subseteq Elems(seq) \ {Head(seq)}
  BY <1>1, <1>2 DEF Elems
<1>5. ASSUME NEW e \in Elems(seq) \ {Head(seq)} PROVE e \in Elems(Tail(seq))
  <2>1. PICK i \in 1 .. Len(seq) : seq[i] = e /\ i # 1
    BY <1>1, <1>2 DEF Elems
  <2>2. i - 1 \in 1 .. Len(seq) - 1 /\ Tail(seq)[i - 1] = e
    BY <1>1, <2>1
  <2> QED  BY <1>2, <2>2 DEF Elems
<1>6. \A i, j \in DOMAIN Tail(seq) : Tail(seq)[i] = Tail(seq)[j] => i = j
  BY <1>1, <1>2
<1> QED  BY <1>1, <1>2, <1>3, <1>4, <1>5, <1>6 DEF Elems

\* What the removal of an element leaves of a sequence without repetition.
LEMMA ElemsWithout ==
    ASSUME NEW S, NEW seq \in Seq(S), NEW e,
           \A i, j \in DOMAIN seq : seq[i] = seq[j] => i = j
    PROVE  /\ Without(seq, e) \in Seq(S)
           /\ Elems(Without(seq, e)) = Elems(seq) \ {e}
           /\ \A i, j \in DOMAIN Without(seq, e) :
                 Without(seq, e)[i] = Without(seq, e)[j] => i = j
           /\ \A t, u : t # e /\ u # e /\ InFront(seq, t, u) => InFront(Without(seq, e), t, u)
<1>1. CASE e \notin Elems(seq)
  BY <1>1 DEF Without, Elems
<1>2. CASE e \in Elems(seq)
  <2> DEFINE n == Len(seq)
  <2>1. n \in Nat /\ DOMAIN seq = 1 .. n
    BY LenProperties
  <2>2. \E k \in DOMAIN seq : seq[k] = e /\ \A j \in 1 .. k - 1 : seq[j] # e
    <3>1. PICK k \in DOMAIN seq : seq[k] = e
      BY <1>2 DEF Elems
    <3>2. \A j \in 1 .. k - 1 : seq[j] # e
      BY <2>1, <3>1
    <3> QED  BY <3>1, <3>2
  <2> DEFINE k == CHOOSE k \in DOMAIN seq : seq[k] = e /\ \A j \in 1 .. k - 1 : seq[j] # e
             l == SubSeq(seq, 1, k - 1)
             r == SubSeq(seq, k + 1, n)
  <2>3. k \in 1 .. n /\ seq[k] = e
    BY <2>1, <2>2
  <2>4. Without(seq, e) = l \o r
    BY <1>2 DEF Without
  <2> HIDE DEF k
  <2>5. /\ l \in Seq(S) /\ Len(l) = k - 1
        /\ \A i \in 1 .. k - 1 : l[i] = seq[i]
    BY <2>1, <2>3, SubSeqProperties
  <2>6. /\ r \in Seq(S) /\ Len(r) = n - k
        /\ \A i \in 1 .. n - k : r[i] = seq[k + i]
    <3>1. k + 1 \in 1 .. n + 1 /\ n \in k .. n
      BY <2>1, <2>3
    <3>2. /\ r \in Seq(S)
          /\ Len(r) = IF k + 1 <= n THEN n - (k + 1) + 1 ELSE 0
          /\ \A i \in 1 .. n - (k + 1) + 1 : r[i] = seq[(k + 1) + i - 1]
      BY <2>1, <2>3, <3>1, SubSeqProperties
    <3> HIDE DEF r, n
    <3> QED  BY <2>1, <2>3, <3>2
  <2> HIDE DEF l, r, n
  <2>7. /\ l \o r \in Seq(S) /\ Len(l \o r) = n - 1
        /\ \A i \in 1 .. n - 1 : (l \o r)[i] = IF i < k THEN seq[i] ELSE seq[i + 1]
    <3>0. l \in Seq(S) /\ r \in Seq(S)
      BY <2>5, <2>6
    <3>1. /\ l \o r \in Seq(S) /\ Len(l \o r) = Len(l) + Len(r)
          /\ \A i \in 1 .. Len(l) + Len(r) :
                (l \o r)[i] = IF i <= Len(l) THEN l[i] ELSE r[i - Len(l)]
      BY <3>0, ConcatProperties
    <3>2. Len(l) + Len(r) = n - 1
      BY <2>1, <2>3, <2>5, <2>6
    <3>3. ASSUME NEW i \in 1 .. n - 1
          PROVE  (l \o r)[i] = IF i < k THEN seq[i] ELSE seq[i + 1]
      <4>1. CASE i < k
        <5>1. i \in 1 .. k - 1
          BY <2>1, <2>3, <4>1
        <5> QED  BY <2>5, <3>1, <3>2, <4>1, <5>1
      <4>2. CASE ~(i < k)
        <5> DEFINE j == i - (k - 1)
        <5>1. j \in 1 .. n - k /\ k + j = i + 1 /\ ~(i <= k - 1)
          BY <2>1, <2>3, <4>2
        <5>2. (l \o r)[i] = r[j]
          BY <2>5, <3>1, <3>2, <5>1
        <5> HIDE DEF j
        <5> QED  BY <2>6, <4>2, <5>1, <5>2
      <4> QED  BY <4>1, <4>2
    <3> QED  BY <3>1, <3>2, <3>3
  <2>8. DOMAIN (l \o r) = 1 .. n - 1
    BY <2>7, LenProperties
  <2>9. ASSUME NEW f \in Elems(seq) \ {e} PROVE f \in Elems(l \o r)
    <3>1. PICK i \in 1 .. n : seq[i] = f /\ i # k
      BY <2>1, <2>3 DEF Elems
    <3>2. CASE i < k
      <4>1. i \in 1 .. n - 1 /\ (l \o r)[i] = f
        BY <2>1, <2>3, <2>7, <3>1, <3>2
      <4> QED  BY <4>1, <2>8 DEF Elems
    <3>3. CASE i > k
      <4> DEFINE j == i - 1
      <4>0. j \in 1 .. n - 1 /\ ~(j < k) /\ j + 1 = i
        BY <2>1, <2>3, <3>1, <3>3
      <4> HIDE DEF j
      <4>1. j \in 1 .. n - 1 /\ (l \o r)[j] = f
        BY <2>7, <3>1, <4>0
      <4> QED  BY <4>1, <2>8 DEF Elems
    <3> QED  BY <2>1, <2>3, <3>1, <3>2, <3>3
  <2>10. ASSUME NEW f \in Elems(l \o r) PROVE f \in Elems(seq) \ {e}
    <3>1. PICK i \in 1 .. n - 1 : (l \o r)[i] = f
      BY <2>8 DEF Elems
    <3> DEFINE j == IF i < k THEN i ELSE i + 1
    <3>2. j \in 1 .. n /\ j # k
      BY <2>1, <2>3
    <3>3. seq[j] = f
      BY <2>7, <3>1
    <3> HIDE DEF j
    <3>4. f # e
      BY <2>1, <2>3, <3>2, <3>3
    <3> QED  BY <2>1, <3>2, <3>3, <3>4 DEF Elems
  <2>11. \A i, j \in 1 .. n - 1 : (l \o r)[i] = (l \o r)[j] => i = j
    <3> SUFFICES ASSUME NEW i \in 1 .. n - 1, NEW j \in 1 .. n - 1,
                        (l \o r)[i] = (l \o r)[j]
                 PROVE  i = j
      OBVIOUS
    <3> DEFINE at(x) == IF x < k THEN x ELSE x + 1
    <3>1. at(i) \in 1 .. n /\ at(j) \in 1 .. n
      BY <2>1, <2>3
    <3>2. (l \o r)[i] = seq[at(i)] /\ (l \o r)[j] = seq[at(j)]
      BY <2>7
    <3>3. at(i) = at(j)
      BY <2>1, <3>1, <3>2
    <3> QED  BY <2>1, <2>3, <3>3
  <2>12. ASSUME NEW t, NEW u, t # e, u # e, InFront(seq, t, u) PROVE InFront(l \o r, t, u)
    <3>1. PICK i \in 1 .. n, j \in 1 .. n : i < j /\ seq[i] = t /\ seq[j] = u
      BY <2>1, <2>12 DEF InFront
    <3>2. i # k /\ j # k
      BY <2>3, <2>12, <3>1
    <3> DEFINE at(x) == IF x < k THEN x ELSE x - 1
    <3>3. at(i) \in 1 .. n - 1 /\ at(j) \in 1 .. n - 1 /\ at(i) < at(j)
      BY <2>1, <2>3, <3>1, <3>2
    <3>4. (l \o r)[at(i)] = t
      <4>1. CASE i < k
        BY <2>7, <3>1, <3>3, <4>1
      <4>2. CASE ~(i < k)
        <5>1. at(i) = i - 1 /\ ~(at(i) < k) /\ at(i) + 1 = i
          BY <2>1, <2>3, <3>1, <3>2, <4>2
        <5> HIDE DEF at
        <5> QED  BY <2>7, <3>1, <3>3, <5>1
      <4> QED  BY <4>1, <4>2
    <3>5. (l \o r)[at(j)] = u
      <4>1. CASE j < k
        BY <2>7, <3>1, <3>3, <4>1
      <4>2. CASE ~(j < k)
        <5>1. at(j) = j - 1 /\ ~(at(j) < k) /\ at(j) + 1 = j
          BY <2>1, <2>3, <3>1, <3>2, <4>2
        <5> HIDE DEF at
        <5> QED  BY <2>7, <3>1, <3>3, <5>1
      <4> QED  BY <4>1, <4>2
    <3> HIDE DEF at
    <3> QED  BY <2>8, <3>3, <3>4, <3>5 DEF InFront
  <2> QED  BY <2>4, <2>7, <2>8, <2>9, <2>10, <2>11, <2>12
<1> QED  BY <1>1, <1>2

\* Who is in front when an element is appended.
LEMMA AppendInFront ==
    ASSUME NEW S, NEW seq \in Seq(S), NEW e \in S
    PROVE  /\ \A t, u : InFront(seq, t, u) => InFront(Append(seq, e), t, u)
           /\ \A t \in Elems(seq) : InFront(Append(seq, e), t, e)
<1> DEFINE n == Len(seq)
           a == Append(seq, e)
<1>1. n \in Nat /\ DOMAIN seq = 1 .. n
  BY LenProperties
<1>2. a \in Seq(S) /\ Len(a) = n + 1 /\ (\A i \in 1 .. n : a[i] = seq[i]) /\ a[n + 1] = e
  BY AppendProperties
<1>3. DOMAIN a = 1 .. n + 1
  BY <1>2, LenProperties
<1> HIDE DEF n, a
<1>4. \A t, u : InFront(seq, t, u) => InFront(a, t, u)
  BY <1>1, <1>2, <1>3 DEF InFront
<1>5. ASSUME NEW t \in Elems(seq) PROVE InFront(a, t, e)
  <2>1. PICK i \in 1 .. n : seq[i] = t
    BY <1>1 DEF Elems
  <2>2. i \in DOMAIN a /\ n + 1 \in DOMAIN a /\ i < n + 1
    BY <1>1, <1>3, <2>1
  <2> QED  BY <1>2, <2>1, <2>2 DEF InFront
<1> QED  BY <1>4, <1>5 DEF a

\* Who is in front when the first is taken, and of whom the first is.
LEMMA TailInFront ==
    ASSUME NEW S, NEW seq \in Seq(S), seq # << >>
    PROVE  /\ \A t, u : t # Head(seq) /\ InFront(seq, t, u) => InFront(Tail(seq), t, u)
           /\ \A t \in Elems(seq) : t # Head(seq) => InFront(seq, Head(seq), t)
<1> DEFINE n == Len(seq)
           a == Tail(seq)
<1>1. n \in Nat /\ n # 0 /\ DOMAIN seq = 1 .. n /\ Head(seq) = seq[1]
  BY HeadTailProperties, LenProperties, EmptySeq
<1>2. a \in Seq(S) /\ Len(a) = n - 1 /\ (\A i \in 1 .. n - 1 : a[i] = seq[i + 1])
  BY HeadTailProperties
<1>3. DOMAIN a = 1 .. n - 1
  BY <1>2, LenProperties
<1> HIDE DEF n, a
<1>4. ASSUME NEW t, NEW u, t # Head(seq), InFront(seq, t, u) PROVE InFront(a, t, u)
  <2>1. PICK i \in 1 .. n, j \in 1 .. n : i < j /\ seq[i] = t /\ seq[j] = u
    BY <1>1, <1>4 DEF InFront
  <2>2. i # 1
    BY <1>1, <1>4, <2>1
  <2>3. i - 1 \in 1 .. n - 1 /\ j - 1 \in 1 .. n - 1 /\ i - 1 < j - 1
    BY <1>1, <2>1, <2>2
  <2>4. a[i - 1] = t /\ a[j - 1] = u
    BY <1>1, <1>2, <2>1, <2>3
  <2> QED  BY <1>3, <2>3, <2>4 DEF InFront
<1>5. ASSUME NEW t \in Elems(seq), t # Head(seq) PROVE InFront(seq, Head(seq), t)
  <2>1. PICK i \in 1 .. n : seq[i] = t
    BY <1>1 DEF Elems
  <2> QED  BY <1>1, <1>5, <2>1 DEF InFront
<1> QED  BY <1>4, <1>5 DEF a

----------------------------------------------------------------------------
(***************************************************************************)
(* The ready queue                                                         *)
(***************************************************************************)
\* The three levels of the ready queue.
LEMMA LevelElements == Level = {1, 2, 3}
BY DEF Level, LOW_LATENCY, BACKGROUND

\* The loop of peek() and dequeue() stops at a level that is not empty.
LEMMA TopLevelIsNotEmpty ==
    ASSUME NEW q \in Queues, ~IsEmpty(q)
    PROVE  TopLevel(q) \in Level /\ q[TopLevel(q)] # << >>
<1> DEFINE Top(p) == q[p] # << >> /\ \A r \in Level : r < p => q[r] = << >>
<1>1. \E p \in Level : Top(p)
  <2>1. CASE q[1] # << >>
    BY <2>1, LevelElements
  <2>2. CASE q[1] = << >> /\ q[2] # << >>
    BY <2>2, LevelElements
  <2>3. CASE q[1] = << >> /\ q[2] = << >>
    BY <2>3, LevelElements DEF IsEmpty
  <2> QED  BY <2>1, <2>2, <2>3
<1> QED  BY <1>1 DEF TopLevel

\* A queue that stays as it is keeps its order.
LEMMA SameOrder ==
    ASSUME NEW q
    PROVE  KeepsOrder(q, q)
BY DEF KeepsOrder, GoesFirst

\* Two changes that keep the order keep it together, unless a thread that the first
\* takes away comes back.
LEMMA OrderIsKept ==
    ASSUME NEW q \in Queues, LevelsOK(q), NEW r, NEW z, KeepsOrder(q, r), KeepsOrder(r, z),
           Queued(q) \cap Queued(z) \subseteq Queued(r)
    PROVE  KeepsOrder(q, z)
<1> SUFFICES ASSUME NEW t \in Queued(z), NEW u \in Queued(z), t # u, GoesFirst(q, t, u)
             PROVE  Ahead(z, t, u)
  BY DEF KeepsOrder
<1>1. t \in Queued(q) /\ Policy[t] = Policy[u]
  BY DEF GoesFirst, Ahead, InFront, Queued, Elems, LevelsOK
<1>2. t \in Queued(r)
  BY <1>1
<1>3. CASE u \in Queued(r)
  BY <1>2, <1>3 DEF KeepsOrder, GoesFirst
<1>4. CASE u \notin Queued(r)
  BY <1>1, <1>2, <1>4 DEF KeepsOrder, GoesFirst
<1> QED  BY <1>3, <1>4

\* dequeue() takes the thread peek() shows, and nothing else.
LEMMA DequeueTakesPeek ==
    ASSUME NEW q \in Queues, LevelsOK(q), ~IsEmpty(q)
    PROVE  /\ Peek(q) \in Queued(q)
           /\ Peek(q) \in Thread
           /\ CanEnqueue(Peek(q))
           /\ Dequeue(q) \in Queues
           /\ LevelsOK(Dequeue(q))
           /\ Queued(Dequeue(q)) = Queued(q) \ {Peek(q)}
           /\ KeepsOrder(q, Dequeue(q))
<1> DEFINE p == TopLevel(q)
<1>1. p \in Level /\ q[p] # << >> /\ q[p] \in Seq(Thread)
  BY TopLevelIsNotEmpty DEF Queues
<1> HIDE DEF p
<1>2. /\ Peek(q) = Head(q[p])
      /\ Dequeue(q) = [q EXCEPT ![p] = Tail(q[p])]
  BY DEF Peek, Dequeue, p
<1>3. \A i, j \in DOMAIN q[p] : q[p][i] = q[p][j] => i = j
  BY <1>1 DEF LevelsOK
<1>4. /\ Head(q[p]) \in Thread
      /\ Tail(q[p]) \in Seq(Thread)
      /\ Head(q[p]) \in Elems(q[p])
      /\ Elems(Tail(q[p])) = Elems(q[p]) \ {Head(q[p])}
      /\ \A i, j \in DOMAIN Tail(q[p]) : Tail(q[p])[i] = Tail(q[p])[j] => i = j
      /\ \A i \in DOMAIN Tail(q[p]) : Tail(q[p])[i] \in Elems(q[p])
  BY <1>1, <1>3, ElemsTail
<1>5. \A r \in Level : \A e \in Elems(q[r]) : Policy[e] = r
  BY DEF LevelsOK, Elems
<1>6. Dequeue(q) \in Queues
  BY <1>1, <1>2, <1>4 DEF Queues
<1>7. \A r \in Level : Dequeue(q)[r] = IF r = p THEN Tail(q[p]) ELSE q[r]
  BY <1>1, <1>2 DEF Queues
<1>8. LevelsOK(Dequeue(q))
  <2> SUFFICES ASSUME NEW r \in Level,
                      NEW i \in DOMAIN Dequeue(q)[r], NEW j \in DOMAIN Dequeue(q)[r]
               PROVE  /\ Policy[Dequeue(q)[r][i]] = r
                      /\ Dequeue(q)[r][i] = Dequeue(q)[r][j] => i = j
    BY DEF LevelsOK
  <2>1. CASE r = p
    BY <1>1, <1>4, <1>5, <1>7, <2>1
  <2>2. CASE r # p
    BY <1>7, <2>2 DEF LevelsOK
  <2> QED  BY <2>1, <2>2
<1>9. Queued(Dequeue(q)) = Queued(q) \ {Head(q[p])}
  <2>1. \A r \in Level : Head(q[p]) \in Elems(q[r]) => r = p
    BY <1>1, <1>4, <1>5
  <2>2. \A r \in Level : Elems(Dequeue(q)[r]) = Elems(q[r]) \ {Head(q[p])}
    BY <1>4, <1>7, <2>1
  <2> QED  BY <2>2 DEF Queued
<1>10. Head(q[p]) \in Queued(q) /\ CanEnqueue(Head(q[p]))
  BY <1>1, <1>4, <1>5 DEF Queued, CanEnqueue
<1>11. ASSUME NEW t \in Queued(Dequeue(q)), NEW u \in Queued(Dequeue(q)), Ahead(q, t, u)
       PROVE  Ahead(Dequeue(q), t, u)
  <2>1. \A v, w : v # Head(q[p]) /\ InFront(q[p], v, w) => InFront(Tail(q[p]), v, w)
    BY <1>1, TailInFront
  <2> QED  BY <1>7, <1>9, <1>11, <2>1 DEF Ahead
<1>12. KeepsOrder(q, Dequeue(q))
  BY <1>9, <1>11 DEF KeepsOrder, GoesFirst
<1> QED  BY <1>2, <1>4, <1>6, <1>8, <1>9, <1>10, <1>12

\* enqueue() adds the thread unless it is queued already.
LEMMA EnqueueAdds ==
    ASSUME NEW q \in Queues, LevelsOK(q), NEW t \in Thread, CanEnqueue(t)
    PROVE  /\ Enqueue(q, t) \in Queues
           /\ LevelsOK(Enqueue(q, t))
           /\ Queued(Enqueue(q, t)) = Queued(q) \cup {t}
           /\ KeepsOrder(q, Enqueue(q, t))
<1> DEFINE p == Policy[t]
<1>1. p \in Level /\ q[p] \in Seq(Thread)
  BY DEF CanEnqueue, Queues
<1>2. CASE t \in Elems(q[p])
  <2>1. Enqueue(q, t) = q /\ t \in Queued(q)
    BY <1>1, <1>2 DEF Enqueue, Queued
  <2> QED  BY <2>1, SameOrder
<1>3. CASE t \notin Elems(q[p])
  <2>1. Enqueue(q, t) = [q EXCEPT ![p] = Append(q[p], t)]
    BY <1>3 DEF Enqueue
  <2>2. /\ Append(q[p], t) \in Seq(Thread)
        /\ Elems(Append(q[p], t)) = Elems(q[p]) \cup {t}
    BY <1>1, ElemsAppend
  <2>3. Enqueue(q, t) \in Queues
    BY <1>1, <2>1, <2>2 DEF Queues
  <2>4. \A r \in Level : Enqueue(q, t)[r] = IF r = p THEN Append(q[p], t) ELSE q[r]
    BY <1>1, <2>1 DEF Queues
  <2>5. \A i, j \in DOMAIN Append(q[p], t) :
           /\ Policy[Append(q[p], t)[i]] = p
           /\ Append(q[p], t)[i] = Append(q[p], t)[j] => i = j
    <3>1. /\ Len(Append(q[p], t)) = Len(q[p]) + 1
          /\ \A i \in 1 .. Len(q[p]) : Append(q[p], t)[i] = q[p][i]
          /\ Append(q[p], t)[Len(q[p]) + 1] = t
          /\ DOMAIN q[p] = 1 .. Len(q[p]) /\ Len(q[p]) \in Nat
          /\ DOMAIN Append(q[p], t) = 1 .. Len(Append(q[p], t))
      BY <1>1, <2>2, AppendProperties, LenProperties
    <3>2. \A i \in 1 .. Len(q[p]) : q[p][i] # t
      BY <1>3, <3>1 DEF Elems
    <3>3. \A i, j \in 1 .. Len(q[p]) : Policy[q[p][i]] = p /\ (q[p][i] = q[p][j] => i = j)
      BY <1>1, <3>1 DEF LevelsOK
    <3> HIDE DEF p
    <3>4. Policy[t] = p
      BY DEF p
    <3> QED  BY <3>1, <3>2, <3>3, <3>4
  <2> HIDE DEF p
  <2>6. LevelsOK(Enqueue(q, t))
    <3> SUFFICES ASSUME NEW r \in Level,
                        NEW i \in DOMAIN Enqueue(q, t)[r], NEW j \in DOMAIN Enqueue(q, t)[r]
                 PROVE  /\ Policy[Enqueue(q, t)[r][i]] = r
                        /\ Enqueue(q, t)[r][i] = Enqueue(q, t)[r][j] => i = j
      BY DEF LevelsOK
    <3>1. CASE r = p
      BY <2>4, <2>5, <3>1
    <3>2. CASE r # p
      BY <2>4, <3>2 DEF LevelsOK
    <3> QED  BY <3>1, <3>2
  <2>7. Queued(Enqueue(q, t)) = Queued(q) \cup {t}
    <3>1. \A r \in Level : Elems(Enqueue(q, t)[r]) =
                             IF r = p THEN Elems(q[p]) \cup {t} ELSE Elems(q[r])
      BY <2>2, <2>4
    <3> QED  BY <1>1, <3>1 DEF Queued
  <2>8. /\ \A v, u : InFront(q[p], v, u) => InFront(Append(q[p], t), v, u)
        /\ \A v \in Elems(q[p]) : InFront(Append(q[p], t), v, t)
    BY <1>1, AppendInFront
  <2>9. ASSUME NEW v, NEW u, Ahead(q, v, u) PROVE Ahead(Enqueue(q, t), v, u)
    BY <2>4, <2>8, <2>9 DEF Ahead
  <2>10. ASSUME NEW v \in Queued(q), Policy[v] = Policy[t] PROVE Ahead(Enqueue(q, t), v, t)
    <3>1. PICK r \in Level : v \in Elems(q[r])
      BY <2>10 DEF Queued
    <3>2. r = p
      BY <2>10, <3>1 DEF LevelsOK, Elems, p
    <3> QED  BY <1>1, <2>4, <2>8, <3>1, <3>2 DEF Ahead
  <2>11. KeepsOrder(q, Enqueue(q, t))
    BY <2>7, <2>9, <2>10 DEF KeepsOrder, GoesFirst
  <2> QED  BY <2>3, <2>6, <2>7, <2>11
<1> QED  BY <1>2, <1>3

\* remove() takes out the thread and nothing else.
LEMMA RemoveFromRemoves ==
    ASSUME NEW q \in Queues, LevelsOK(q), NEW t
    PROVE  /\ RemoveFrom(q, t) \in Queues
           /\ LevelsOK(RemoveFrom(q, t))
           /\ Queued(RemoveFrom(q, t)) = Queued(q) \ {t}
           /\ KeepsOrder(q, RemoveFrom(q, t))
<1>1. CASE t \notin Queued(q)
  <2>1. RemoveFrom(q, t) = q
    BY <1>1 DEF RemoveFrom
  <2> QED  BY <1>1, <2>1, SameOrder
<1>2. CASE t \in Queued(q)
  <2> DEFINE First(p) == t \in Elems(q[p]) /\ \A r \in 1 .. p - 1 : t \notin Elems(q[r])
             p == CHOOSE p \in Level : First(p)
  <2>1. \A r \in Level : \A e \in Elems(q[r]) : Policy[e] = r
    BY DEF LevelsOK, Elems
  <2>2. \E r \in Level : First(r)
    <3>1. PICK r \in Level : t \in Elems(q[r])
      BY <1>2 DEF Queued
    <3>2. \A j \in 1 .. r - 1 : j \in Level /\ j # r
      BY LevelElements
    <3> QED  BY <2>1, <3>1, <3>2
  <2>3. p \in Level /\ t \in Elems(q[p])
    BY <2>2
  <2>4. RemoveFrom(q, t) = [q EXCEPT ![p] = Without(q[p], t)]
    BY <1>2 DEF RemoveFrom
  <2> HIDE DEF p
  <2>5. q[p] \in Seq(Thread) /\ \A i, j \in DOMAIN q[p] : q[p][i] = q[p][j] => i = j
    BY <2>3 DEF LevelsOK, Queues
  <2>6. /\ Without(q[p], t) \in Seq(Thread)
        /\ Elems(Without(q[p], t)) = Elems(q[p]) \ {t}
        /\ \A i, j \in DOMAIN Without(q[p], t) :
              Without(q[p], t)[i] = Without(q[p], t)[j] => i = j
        /\ \A v, u : v # t /\ u # t /\ InFront(q[p], v, u) => InFront(Without(q[p], t), v, u)
    BY <2>5, ElemsWithout
  <2>7. RemoveFrom(q, t) \in Queues
    BY <2>3, <2>4, <2>6 DEF Queues
  <2>8. \A r \in Level : RemoveFrom(q, t)[r] = IF r = p THEN Without(q[p], t) ELSE q[r]
    BY <2>3, <2>4 DEF Queues
  <2>9. \A i \in DOMAIN Without(q[p], t) : Without(q[p], t)[i] \in Elems(q[p])
    BY <2>6 DEF Elems
  <2>10. LevelsOK(RemoveFrom(q, t))
    BY <2>1, <2>3, <2>6, <2>8, <2>9 DEF LevelsOK
  <2>11. \A r \in Level : Elems(RemoveFrom(q, t)[r]) = Elems(q[r]) \ {t}
    BY <2>1, <2>3, <2>6, <2>8
  <2>12. Queued(RemoveFrom(q, t)) = Queued(q) \ {t}
    BY <2>11 DEF Queued
  <2>13. ASSUME NEW v \in Queued(RemoveFrom(q, t)), NEW u \in Queued(RemoveFrom(q, t)), Ahead(q, v, u)
         PROVE  Ahead(RemoveFrom(q, t), v, u)
    BY <2>6, <2>8, <2>12, <2>13 DEF Ahead
  <2> QED  BY <2>7, <2>10, <2>12, <2>13 DEF KeepsOrder, GoesFirst
<1> QED  BY <1>1, <1>2

----------------------------------------------------------------------------
(***************************************************************************)
(* The context switch                                                      *)
(***************************************************************************)
\* The state of the running thread when perform_context_switch() is called: as
\* between two calls, or the thread has just been blocked or stopped.
SwitchOK(s) ==
    \/ RunningOK(s)
    \/ s.running \in Thread /\ s.state[s.running] \in {"BLOCKED", "STOPPED"}
    \/ s.running = Gct /\ s.state[Gct] = "BLOCKED" /\ s.bin = << >>

\* What next_scheduled_thread() returns, and what it leaves of the ready queue.
LEMMA NextThread ==
    ASSUME NEW s \in Sched, NEW X, QueueOK(s, X), StatesOK(s), ~StaysRunning(s),
           NEW n, n = NextScheduledThread(s),
           NEW taken, taken = IF n \in {Idle, Gct} THEN s.ready ELSE Dequeue(s.ready)
    PROVE  /\ n \in AnyThread
           /\ n # s.running
           /\ n \in Thread => CanEnqueue(n) /\ n \in Queued(s.ready) /\ s.bin = << >>
           /\ taken \in Queues
           /\ LevelsOK(taken)
           /\ Queued(taken) = Queued(s.ready) \ {n}
<1>1. s.ready \in Queues /\ LevelsOK(s.ready) /\ Queued(s.ready) \subseteq Thread
  BY LenProperties, ElementOfSeq DEF Sched, QueueOK, Queues, Queued, Elems
<1>2. CASE s.bin # << >>
  BY <1>1, <1>2, ThreadAssumption DEF NextScheduledThread, StaysRunning, AnyThread
<1>3. CASE s.bin = << >> /\ IsEmpty(s.ready)
  BY <1>1, <1>3, ThreadAssumption DEF NextScheduledThread, StaysRunning, AnyThread
<1>4. CASE s.bin = << >> /\ ~IsEmpty(s.ready)
  <2>1. n = Peek(s.ready)
    BY <1>4 DEF NextScheduledThread
  <2>2. /\ n \in Queued(s.ready) /\ n \in Thread /\ CanEnqueue(n)
        /\ Dequeue(s.ready) \in Queues /\ LevelsOK(Dequeue(s.ready))
        /\ Queued(Dequeue(s.ready)) = Queued(s.ready) \ {n}
    BY <1>1, <1>4, <2>1, DequeueTakesPeek
  <2>3. taken = Dequeue(s.ready)
    BY <2>2, ThreadAssumption
  <2> QED  BY <1>4, <2>2, <2>3 DEF QueueOK, AnyThread
<1> QED  BY <1>2, <1>3, <1>4

\* perform_context_switch() makes the scheduler consistent.  It moves no thread
\* into or out of BLOCKED, BLOCK_PENDING or STOPPED.
LEMMA ContextSwitch ==
    ASSUME NEW s \in Sched, NEW X, QueueOK(s, X), StatesOK(s), SwitchOK(s)
    PROVE  LET r == PerformContextSwitch(s) IN
           /\ r \in Sched
           /\ Consistent(r, X)
           /\ r.bin = s.bin
           /\ \A t \in Thread : \A st \in {"BLOCKED", "BLOCK_PENDING", "STOPPED"} :
                 r.state[t] = st <=> s.state[t] = st
<1> DEFINE r == PerformContextSwitch(s)
<1>1. CASE StaysRunning(s)
  <2>1. r = s
    BY <1>1 DEF PerformContextSwitch
  <2>2. RunningOK(s)
    <3>1. s.running \in Thread => s.running # Gct /\ s.running # Idle
      BY ThreadAssumption
    <3>2. s.bin = << >> => NextScheduledThread(s) # Gct
      <4> SUFFICES ASSUME s.bin = << >>, ~IsEmpty(s.ready) PROVE Peek(s.ready) # Gct
        BY ThreadAssumption DEF NextScheduledThread
      <4>1. s.ready \in Queues /\ LevelsOK(s.ready)
        BY DEF Sched, QueueOK, Queues
      <4> QED  BY <4>1, DequeueTakesPeek, ThreadAssumption
    <3> QED  BY <1>1, <3>1, <3>2, ThreadAssumption DEF StaysRunning, SwitchOK
  <2> QED  BY <2>1, <2>2 DEF Consistent
<1>2. CASE ~StaysRunning(s)
  <2> DEFINE old   == s.running
             n     == NextScheduledThread(s)
             taken == IF n \in {Idle, Gct} THEN s.ready ELSE Dequeue(s.ready)
             back  == IF IsRequeued(s) THEN {old} ELSE {}
  <2>1. /\ n \in AnyThread /\ n # old
        /\ n \in Thread => CanEnqueue(n) /\ n \in Queued(s.ready) /\ s.bin = << >>
        /\ taken \in Queues /\ LevelsOK(taken)
        /\ Queued(taken) = Queued(s.ready) \ {n}
    BY <1>2, NextThread
  <2> HIDE DEF n, taken
  <2>2. /\ old \in AnyThread
        /\ s.state \in [AnyThread -> ThreadState]
        /\ s.bin \in Seq(Thread)
    BY DEF Sched
  <2>3. r = [running |-> n,
             state   |-> [[s.state EXCEPT ![old] = OutgoingState(s)]
                             EXCEPT ![n] = IncomingState(s.state[n])],
             ready   |-> IF IsRequeued(s) THEN Enqueue(taken, old) ELSE taken,
             bin     |-> s.bin]
    BY <1>2, <2>1, <2>2 DEF PerformContextSwitch, n, taken
  <2>4. /\ r.running = n /\ r.bin = s.bin
        /\ r.ready = IF IsRequeued(s) THEN Enqueue(taken, old) ELSE taken
        /\ r.state = [[s.state EXCEPT ![old] = OutgoingState(s)]
                             EXCEPT ![n] = IncomingState(s.state[n])]
    BY <2>3
  <2>5. IsRequeued(s) <=> old \in Thread /\ s.state[old] \in {"RUNNING", "BLOCK_PENDING"}
    BY DEF IsRequeued, StatesOK
  <2>6. /\ r.ready \in Queues /\ LevelsOK(r.ready)
        /\ Queued(r.ready) = (Queued(s.ready) \ {n}) \cup back
    <3>1. CASE IsRequeued(s)
      BY <2>1, <2>4, <3>1, EnqueueAdds DEF IsRequeued
    <3>2. CASE ~IsRequeued(s)
      BY <2>1, <2>4, <3>2
    <3> QED  BY <3>1, <3>2
  <2>7. /\ OutgoingState(s) \in ThreadState /\ IncomingState(s.state[n]) \in ThreadState
        /\ OutgoingState(s) # "RUNNING"
        /\ IncomingState(s.state[n]) \in {"RUNNING", "BLOCK_PENDING"}
        /\ IncomingState(s.state[n]) = "BLOCK_PENDING" <=> s.state[n] = "BLOCK_PENDING"
    <3>1. old \in Thread \/ old \in {Idle, Gct}
      BY <2>2 DEF AnyThread
    <3>2. s.state[old] \in ThreadState
      BY <2>2
    <3> QED  BY <2>5, <3>1, <3>2 DEF OutgoingState, IncomingState, ThreadState
  <2>8. \A t \in AnyThread : r.state[t] = IF t = n THEN IncomingState(s.state[n])
                                           ELSE IF t = old THEN OutgoingState(s)
                                           ELSE s.state[t]
    BY <2>1, <2>2, <2>4
  <2>9. r \in Sched
    <3>1. r.state \in [AnyThread -> ThreadState]
      BY <2>1, <2>2, <2>4, <2>7
    <3> QED  BY <2>1, <2>2, <2>3, <2>4, <2>6, <3>1 DEF Sched, Queues
  <2> HIDE DEF r
  <2>10. /\ old \in Thread /\ s.state[old] = "RUNNING" => OutgoingState(s) = "READY"
         /\ old \in Thread /\ s.state[old] # "RUNNING" => OutgoingState(s) = s.state[old]
         /\ old \in {Idle, Gct} => OutgoingState(s) = "BLOCKED"
    BY <2>5, ThreadAssumption DEF OutgoingState
  <2>11. s.state[old] \in {"RUNNING", "BLOCK_PENDING", "CREATED", "BLOCKED", "STOPPED"}
    BY DEF SwitchOK, RunningOK
  <2>12. QueueOK(r, X)
    <3>1. r.running \notin Queued(r.ready)
      BY <2>1, <2>4, <2>6
    <3>2. \A t \in Queued(r.ready) : r.state[t] \in {"CREATED", "READY", "BLOCK_PENDING"}
      <4> SUFFICES ASSUME NEW t \in Queued(r.ready)
                   PROVE  r.state[t] \in {"CREATED", "READY", "BLOCK_PENDING"}
        OBVIOUS
      <4>1. CASE t \in back
        BY <2>1, <2>2, <2>5, <2>8, <2>10, <4>1
      <4>2. CASE t \in Queued(s.ready) \ {n}
        <5>1. t # old /\ s.state[t] \in {"CREATED", "READY", "BLOCK_PENDING"} /\ t \in AnyThread
          BY <4>2 DEF QueueOK, Queued, Elems, Sched, AnyThread
        <5> QED  BY <2>8, <4>2, <5>1
      <4> QED  BY <2>6, <4>1, <4>2
    <3>3. ASSUME NEW t \in Thread, r.state[t] \in {"READY", "BLOCK_PENDING"}, t # r.running
          PROVE  t \in Queued(r.ready) \cup X
      <4>1. CASE t = old
        <5>1. s.state[old] \in {"RUNNING", "BLOCK_PENDING"}
          BY <2>1, <2>2, <2>4, <2>8, <2>10, <2>11, <3>3, <4>1
        <5> QED  BY <2>5, <2>6, <4>1, <5>1
      <4>2. CASE t # old
        <5>1. s.state[t] \in {"READY", "BLOCK_PENDING"} /\ t # n
          BY <2>4, <2>8, <3>3, <4>2 DEF AnyThread
        <5> QED  BY <2>6, <4>2, <5>1 DEF QueueOK
      <4> QED  BY <4>1, <4>2
    <3> QED  BY <2>6, <3>1, <3>2, <3>3 DEF QueueOK
  <2>13. StatesOK(r)
    <3>1. \A t \in AnyThread : r.state[t] = "RUNNING" => t = r.running
      BY <2>4, <2>7, <2>8 DEF StatesOK
    <3>2. r.running \in Thread => CanEnqueue(r.running)
      BY <2>1, <2>4
    <3>3. r.state[Idle] \in {"BLOCKED", "RUNNING"}
      BY <2>7, <2>8, <2>10 DEF StatesOK, AnyThread
    <3>4. r.state[Gct] \in {"BLOCKED", "RUNNING"}
      BY <2>1, <2>7, <2>8, <2>10 DEF StatesOK, AnyThread
    <3>5. \A t \in Elems(r.bin) : r.state[t] = "STOPPED"
      <4> SUFFICES ASSUME NEW t \in Elems(s.bin) PROVE r.state[t] = "STOPPED"
        BY <2>4
      <4>1. t \in Thread /\ s.state[t] = "STOPPED"
        BY <2>2 DEF StatesOK, Elems
      <4>2. t # n
        BY <2>1, <4>1 DEF QueueOK
      <4> QED  BY <2>8, <2>10, <4>1, <4>2 DEF AnyThread
    <3> QED  BY <3>1, <3>2, <3>3, <3>4, <3>5 DEF StatesOK
  <2>14. RunningOK(r)
    BY <2>1, <2>4, <2>7, <2>8 DEF RunningOK
  <2>15. ASSUME NEW t \in Thread, NEW st \in {"BLOCKED", "BLOCK_PENDING", "STOPPED"}
         PROVE  r.state[t] = st <=> s.state[t] = st
    <3>1. CASE t = n
      <4>1. s.state[n] \in {"CREATED", "READY", "BLOCK_PENDING"}
        BY <2>1, <3>1 DEF QueueOK
      <4> QED  BY <2>7, <2>8, <3>1, <4>1 DEF AnyThread
    <3>2. CASE t = old
      BY <2>1, <2>8, <2>10, <3>2 DEF AnyThread
    <3>3. CASE t # n /\ t # old
      BY <2>8, <3>3 DEF AnyThread
    <3> QED  BY <3>1, <3>2, <3>3
  <2> QED  BY <2>4, <2>9, <2>12, <2>13, <2>14, <2>15 DEF Consistent, r
<1> QED  BY <1>1, <1>2

----------------------------------------------------------------------------
(***************************************************************************)
(* The scheduling API                                                      *)
(***************************************************************************)
\* What every call guarantees, with X the threads that stop_thread() has taken
\* out of the queues: the scheduler is consistent again and no thread that was
\* stopped is revived.
CallOK(s, r, X) ==
    /\ r \in Sched
    /\ Consistent(r, X)
    /\ \A t \in Thread : s.state[t] = "STOPPED" => r.state[t] = "STOPPED"

\* The queue of a well formed scheduler holds threads.
LEMMA QueuedAreThreads ==
    ASSUME NEW s \in Sched
    PROVE  s.ready \in Queues /\ Queued(s.ready) \subseteq Thread
BY LenProperties, ElementOfSeq DEF Sched, Queues, Queued, Elems

\* schedule() of a thread that is not running.
LEMMA ScheduleOK ==
    ASSUME NEW s \in Sched, NEW X, Consistent(s, X), NEW t \in Thread, t # s.running
    PROVE  CallOK(s, Schedule(s, t), X)
<1> DEFINE r == Schedule(s, t)
<1>1. CASE ~(s.state[t] = "CREATED" /\ CanEnqueue(t))
  BY <1>1 DEF Schedule, CallOK
<1>2. CASE s.state[t] = "CREATED" /\ CanEnqueue(t)
  <2>1. s.ready \in Queues /\ LevelsOK(s.ready)
    BY QueuedAreThreads DEF Consistent, QueueOK
  <2>2. /\ Enqueue(s.ready, t) \in Queues
        /\ LevelsOK(Enqueue(s.ready, t))
        /\ Queued(Enqueue(s.ready, t)) = Queued(s.ready) \cup {t}
    BY <1>2, <2>1, EnqueueAdds
  <2>3. /\ r \in Sched /\ r.ready = Enqueue(s.ready, t)
        /\ r.running = s.running /\ r.state = s.state /\ r.bin = s.bin
    BY <1>2, <2>2 DEF Schedule, Sched, Queues
  <2>4. QueueOK(r, X)
    BY <1>2, <2>2, <2>3 DEF QueueOK, Consistent
  <2>5. StatesOK(r) /\ RunningOK(r)
    BY <2>3 DEF StatesOK, RunningOK, Consistent
  <2> QED  BY <2>3, <2>4, <2>5 DEF CallOK, Consistent
<1> QED  BY <1>1, <1>2

\* preempt_running_thread()
LEMMA PreemptOK ==
    ASSUME NEW s \in Sched, NEW X, Consistent(s, X)
    PROVE  CallOK(s, PreemptRunningThread(s), X)
BY ContextSwitch DEF PreemptRunningThread, CallOK, Consistent, SwitchOK

\* mark_as_block_pending(), which the GCT calls with an empty bin and the idle
\* thread never.
LEMMA MarkOK ==
    ASSUME NEW s \in Sched, NEW X, Consistent(s, X), s.running # Idle,
           s.running = Gct => s.bin = << >>
    PROVE  /\ CallOK(s, MarkAsBlockPending(s), X)
           /\ MarkAsBlockPending(s).running = s.running
           /\ MarkAsBlockPending(s).bin = s.bin
<1> DEFINE r == MarkAsBlockPending(s)
<1>1. s.running \in AnyThread /\ "BLOCK_PENDING" \in ThreadState
  BY DEF Sched, ThreadState
<1>2. /\ r \in Sched
      /\ r.running = s.running /\ r.ready = s.ready /\ r.bin = s.bin
      /\ \A u \in AnyThread :
            r.state[u] = IF u = s.running THEN "BLOCK_PENDING" ELSE s.state[u]
  BY <1>1 DEF MarkAsBlockPending, Sched
<1> HIDE DEF r
<1>3. Queued(s.ready) \subseteq Thread /\ Thread \subseteq AnyThread
  BY QueuedAreThreads DEF AnyThread
<1>4. QueueOK(r, X)
  BY <1>2, <1>3 DEF QueueOK, Consistent
<1>5. \A t \in Elems(s.bin) : t \in Thread /\ t # s.running
  <2>1. \A t \in Elems(s.bin) : t \in Thread /\ s.state[t] = "STOPPED"
    BY LenProperties, ElementOfSeq DEF Consistent, StatesOK, Elems, Sched
  <2> QED  BY <2>1 DEF Consistent, RunningOK
<1>6. StatesOK(r)
  BY <1>1, <1>2, <1>3, <1>5 DEF StatesOK, Consistent, AnyThread
<1>7. RunningOK(r)
  BY <1>1, <1>2 DEF RunningOK
<1>8. \A t \in Thread : s.state[t] = "STOPPED" => r.state[t] = "STOPPED"
  BY <1>2, <1>3 DEF Consistent, RunningOK
<1> QED  BY <1>2, <1>4, <1>6, <1>7, <1>8 DEF CallOK, Consistent, r

\* block() of the running thread.
LEMMA BlockOK ==
    ASSUME NEW s \in Sched, NEW X, Consistent(s, X)
    PROVE  CallOK(s, Block(s, s.running), X)
<1> DEFINE t == s.running
           b == [s EXCEPT !.state[t] = "BLOCKED"]
<1>1. CASE s.state[t] # "BLOCK_PENDING"
  BY <1>1 DEF Block, CallOK
<1>2. CASE s.state[t] = "BLOCK_PENDING"
  <2>1. Block(s, t) = PerformContextSwitch(b)
    BY <1>2 DEF Block
  <2>2. t \in AnyThread /\ "BLOCKED" \in ThreadState
    BY DEF Sched, ThreadState
  <2>3. /\ b \in Sched
        /\ b.running = t /\ b.ready = s.ready /\ b.bin = s.bin
        /\ \A u \in AnyThread : b.state[u] = IF u = t THEN "BLOCKED" ELSE s.state[u]
    BY <2>2 DEF Sched
  <2> HIDE DEF b
  <2>4. Queued(s.ready) \subseteq Thread /\ Thread \subseteq AnyThread
    BY QueuedAreThreads DEF AnyThread
  <2>5. QueueOK(b, X)
    BY <2>3, <2>4 DEF QueueOK, Consistent
  <2>6. \A u \in Elems(s.bin) : u \in Thread /\ u # t
    <3>1. \A u \in Elems(s.bin) : u \in Thread /\ s.state[u] = "STOPPED"
      BY LenProperties, ElementOfSeq DEF Consistent, StatesOK, Elems, Sched
    <3> QED  BY <1>2, <3>1
  <2>7. StatesOK(b)
    BY <2>2, <2>3, <2>4, <2>6 DEF StatesOK, Consistent, AnyThread
  <2>8. SwitchOK(b)
    BY <1>2, <2>2, <2>3 DEF SwitchOK, StatesOK, Consistent, AnyThread
  <2>9. /\ PerformContextSwitch(b) \in Sched
        /\ Consistent(PerformContextSwitch(b), X)
        /\ \A u \in Thread : PerformContextSwitch(b).state[u] = "STOPPED" <=>
                              b.state[u] = "STOPPED"
    BY <2>3, <2>5, <2>7, <2>8, ContextSwitch
  <2>10. \A u \in Thread : s.state[u] = "STOPPED" => b.state[u] = "STOPPED"
    BY <1>2, <2>3, <2>4
  <2> QED  BY <2>1, <2>9, <2>10 DEF CallOK
<1> QED  BY <1>1, <1>2

\* unblock()
LEMMA UnblockOK ==
    ASSUME NEW s \in Sched, NEW X, Consistent(s, X), NEW t \in Thread
    PROVE  CallOK(s, Unblock(s, t), X)
<1> DEFINE r == Unblock(s, t)
<1>1. Queued(s.ready) \subseteq Thread /\ Thread \subseteq AnyThread
  BY QueuedAreThreads DEF AnyThread
<1>2. \A u \in Elems(s.bin) : u \in Thread /\ s.state[u] = "STOPPED"
  BY LenProperties, ElementOfSeq DEF Consistent, StatesOK, Elems, Sched
<1>3. CASE r = s
  BY <1>3 DEF CallOK
<1>4. CASE s.state[t] \in {"BLOCKED", "BLOCK_PENDING"} /\ t = s.running
  <2> DEFINE w == [s EXCEPT !.state[t] = "RUNNING"]
  <2>1. r = w
    BY <1>4 DEF Unblock
  <2>2. /\ r \in Sched
        /\ r.running = s.running /\ r.ready = s.ready /\ r.bin = s.bin
        /\ \A u \in AnyThread : r.state[u] = IF u = t THEN "RUNNING" ELSE s.state[u]
    <3>1. /\ w \in Sched
          /\ w.running = s.running /\ w.ready = s.ready /\ w.bin = s.bin
          /\ \A u \in AnyThread : w.state[u] = IF u = t THEN "RUNNING" ELSE s.state[u]
      BY <1>1 DEF Sched, ThreadState
    <3> HIDE DEF w, r
    <3> QED  BY <2>1, <3>1
  <2> HIDE DEF r
  <2>3. QueueOK(r, X)
    BY <1>1, <1>4, <2>2 DEF QueueOK, Consistent
  <2>4. StatesOK(r)
    <3>1. r.state[Idle] = s.state[Idle] /\ r.state[Gct] = s.state[Gct]
      BY <2>2, ThreadAssumption DEF AnyThread
    <3>2. \A u \in Elems(r.bin) : r.state[u] = "STOPPED"
      BY <1>1, <1>2, <1>4, <2>2
    <3>3. \A u \in AnyThread : r.state[u] = "RUNNING" => u = r.running
      BY <1>4, <2>2 DEF StatesOK, Consistent
    <3> QED  BY <2>2, <3>1, <3>2, <3>3 DEF StatesOK, Consistent
  <2>5. RunningOK(r)
    BY <1>1, <1>4, <2>2 DEF RunningOK
  <2> QED  BY <1>1, <1>4, <2>2, <2>3, <2>4, <2>5 DEF CallOK, Consistent, r
<1>5. CASE /\ s.state[t] \in {"BLOCKED", "BLOCK_PENDING"} /\ t # s.running
           /\ CanEnqueue(t)
  <2> DEFINE w == [s EXCEPT !.ready = Enqueue(s.ready, t), !.state[t] = "READY"]
  <2>1. r = w
    BY <1>5 DEF Unblock
  <2>2. /\ Enqueue(s.ready, t) \in Queues
        /\ LevelsOK(Enqueue(s.ready, t))
        /\ Queued(Enqueue(s.ready, t)) = Queued(s.ready) \cup {t}
    <3>1. s.ready \in Queues /\ LevelsOK(s.ready)
      BY QueuedAreThreads DEF Consistent, QueueOK
    <3> QED  BY <1>5, <3>1, EnqueueAdds
  <2>3. /\ r \in Sched
        /\ r.running = s.running /\ r.ready = Enqueue(s.ready, t) /\ r.bin = s.bin
        /\ \A u \in AnyThread : r.state[u] = IF u = t THEN "READY" ELSE s.state[u]
    <3>1. /\ w \in Sched
          /\ w.running = s.running /\ w.ready = Enqueue(s.ready, t) /\ w.bin = s.bin
          /\ \A u \in AnyThread : w.state[u] = IF u = t THEN "READY" ELSE s.state[u]
      BY <1>1, <2>2 DEF Sched, ThreadState, Queues
    <3> HIDE DEF w, r
    <3> QED  BY <2>1, <3>1
  <2> HIDE DEF r
  <2>4. QueueOK(r, X)
    BY <1>1, <1>5, <2>2, <2>3 DEF QueueOK, Consistent
  <2>5. StatesOK(r)
    <3>1. r.state[Idle] = s.state[Idle] /\ r.state[Gct] = s.state[Gct]
      BY <2>3, ThreadAssumption DEF AnyThread
    <3>2. \A u \in Elems(r.bin) : r.state[u] = "STOPPED"
      BY <1>1, <1>2, <1>5, <2>3
    <3>3. \A u \in AnyThread : r.state[u] = "RUNNING" => u = r.running
      BY <1>5, <2>3 DEF StatesOK, Consistent
    <3> QED  BY <2>3, <3>1, <3>2, <3>3 DEF StatesOK, Consistent
  <2>6. RunningOK(r)
    BY <1>1, <1>5, <2>3, BootstrapAssumption DEF RunningOK, Consistent, Sched
  <2> QED  BY <1>1, <1>5, <2>3, <2>4, <2>5, <2>6 DEF CallOK, Consistent, r
<1> QED  BY <1>3, <1>4, <1>5 DEF Unblock

\* stop(), called by a thread other than the idle thread and the GCT.
LEMMA StopOK ==
    ASSUME NEW s \in Sched, NEW X, Consistent(s, X), NEW t \in Thread,
           s.running \in Thread
    PROVE  CallOK(s, Stop(s, t), X) /\ Stop(s, t).state[t] = "STOPPED"
<1> DEFINE q == [s EXCEPT !.state[t] = "STOPPED", !.bin = Append(s.bin, t)]
<1>1. Queued(s.ready) \subseteq Thread /\ Thread \subseteq AnyThread
  BY QueuedAreThreads DEF AnyThread
<1>2. \A u \in Elems(s.bin) : u \in Thread /\ s.state[u] = "STOPPED"
  BY LenProperties, ElementOfSeq DEF Consistent, StatesOK, Elems, Sched
<1>3. Append(s.bin, t) \in Seq(Thread) /\ Elems(Append(s.bin, t)) = Elems(s.bin) \cup {t}
  BY ElemsAppend DEF Sched
<1>4. /\ q \in Sched
      /\ q.running = s.running /\ q.ready = s.ready /\ q.bin = Append(s.bin, t)
      /\ \A u \in AnyThread : q.state[u] = IF u = t THEN "STOPPED" ELSE s.state[u]
  BY <1>1, <1>3 DEF Sched, ThreadState
<1>5. Stop(s, t) = IF t # s.running THEN [q EXCEPT !.ready = RemoveFrom(q.ready, t)]
                   ELSE PerformContextSwitch(q)
  BY DEF Stop
<1> HIDE DEF q
<1>6. StatesOK(q)
  BY <1>1, <1>2, <1>3, <1>4, ThreadAssumption DEF StatesOK, Consistent, AnyThread
<1>7. CASE t = s.running
  <2>1. QueueOK(q, X)
    BY <1>1, <1>4, <1>7 DEF QueueOK, Consistent
  <2>2. SwitchOK(q)
    BY <1>1, <1>4, <1>7 DEF SwitchOK
  <2>3. /\ PerformContextSwitch(q) \in Sched
        /\ Consistent(PerformContextSwitch(q), X)
        /\ \A u \in Thread : PerformContextSwitch(q).state[u] = "STOPPED" <=>
                              q.state[u] = "STOPPED"
    BY <1>4, <1>6, <2>1, <2>2, ContextSwitch
  <2> QED  BY <1>1, <1>4, <1>5, <1>7, <2>3 DEF CallOK
<1>8. CASE t # s.running
  <2> DEFINE r == [q EXCEPT !.ready = RemoveFrom(q.ready, t)]
  <2>1. /\ RemoveFrom(q.ready, t) \in Queues
        /\ LevelsOK(RemoveFrom(q.ready, t))
        /\ Queued(RemoveFrom(q.ready, t)) = Queued(q.ready) \ {t}
    <3>1. q.ready \in Queues /\ LevelsOK(q.ready)
      BY <1>4, QueuedAreThreads DEF Consistent, QueueOK
    <3> QED  BY <3>1, RemoveFromRemoves
  <2>2. /\ r \in Sched /\ r.ready = RemoveFrom(q.ready, t)
        /\ r.running = q.running /\ r.state = q.state /\ r.bin = q.bin
    BY <1>4, <2>1 DEF Sched, Queues
  <2> HIDE DEF r
  <2>3. QueueOK(r, X)
    BY <1>1, <1>4, <2>1, <2>2 DEF QueueOK, Consistent
  <2>4. StatesOK(r)
    BY <1>6, <2>2 DEF StatesOK
  <2>5. RunningOK(r)
    BY <1>1, <1>4, <1>8, <2>2, BootstrapAssumption DEF RunningOK, Consistent
  <2> QED  BY <1>1, <1>4, <1>5, <1>8, <2>2, <2>3, <2>4, <2>5 DEF CallOK, Consistent, r
<1> QED  BY <1>7, <1>8

\* stop_thread() takes a thread out of the ready queue.
LEMMA TakeOutOK ==
    ASSUME NEW s \in Sched, NEW X, Consistent(s, X), NEW t \in Thread
    PROVE  CallOK(s, [s EXCEPT !.ready = RemoveFrom(s.ready, t)], X \cup {t})
<1> DEFINE r == [s EXCEPT !.ready = RemoveFrom(s.ready, t)]
<1>1. /\ RemoveFrom(s.ready, t) \in Queues
      /\ LevelsOK(RemoveFrom(s.ready, t))
      /\ Queued(RemoveFrom(s.ready, t)) = Queued(s.ready) \ {t}
  <2>1. s.ready \in Queues /\ LevelsOK(s.ready)
    BY QueuedAreThreads DEF Consistent, QueueOK
  <2> QED  BY <2>1, RemoveFromRemoves
<1>2. /\ r \in Sched /\ r.ready = RemoveFrom(s.ready, t)
      /\ r.running = s.running /\ r.state = s.state /\ r.bin = s.bin
  BY <1>1 DEF Sched, Queues
<1> HIDE DEF r
<1>3. QueueOK(r, X \cup {t})
  BY <1>1, <1>2 DEF QueueOK, Consistent
<1>4. StatesOK(r) /\ RunningOK(r)
  BY <1>2 DEF StatesOK, RunningOK, Consistent
<1> QED  BY <1>2, <1>3, <1>4 DEF CallOK, Consistent, r

\* The GCT takes the first thread from the garbage bin.
LEMMA TakeFromBinOK ==
    ASSUME NEW s \in Sched, NEW X, Consistent(s, X), s.bin # << >>
    PROVE  CallOK(s, [s EXCEPT !.bin = Tail(s.bin)], X)
<1> DEFINE r == [s EXCEPT !.bin = Tail(s.bin)]
<1>1. s.bin \in Seq(Thread)
  BY DEF Sched
<1>2. Tail(s.bin) \in Seq(Thread) /\ Elems(Tail(s.bin)) \subseteq Elems(s.bin)
  <2>1. /\ Tail(s.bin) \in Seq(Thread)
        /\ Len(Tail(s.bin)) = Len(s.bin) - 1
        /\ \A i \in 1 .. Len(Tail(s.bin)) : Tail(s.bin)[i] = s.bin[i + 1]
        /\ Len(s.bin) \in Nat
    BY <1>1, HeadTailProperties, LenProperties
  <2>2. DOMAIN Tail(s.bin) = 1 .. Len(s.bin) - 1 /\ DOMAIN s.bin = 1 .. Len(s.bin)
    BY <1>1, <2>1, LenProperties
  <2> QED  BY <2>1, <2>2 DEF Elems
<1>3. /\ r \in Sched /\ r.bin = Tail(s.bin)
      /\ r.running = s.running /\ r.state = s.state /\ r.ready = s.ready
  BY <1>2 DEF Sched
<1>4. s.state[Gct] # "BLOCK_PENDING"
  BY DEF Consistent, StatesOK
<1> HIDE DEF r
<1>5. QueueOK(r, X) /\ RunningOK(r)
  BY <1>3 DEF QueueOK, RunningOK, Consistent
<1>6. StatesOK(r)
  BY <1>2, <1>3, <1>4 DEF StatesOK, Consistent
<1> QED  BY <1>3, <1>5, <1>6 DEF CallOK, Consistent, r

\* Which threads are being stopped matters only for those that are runnable.
LEMMA FewerRemoved ==
    ASSUME NEW s \in Sched, NEW X, NEW Y, Consistent(s, X),
           \A t \in X \ Y : s.state[t] = "STOPPED"
    PROVE  Consistent(s, Y)
BY DEF Consistent, QueueOK

----------------------------------------------------------------------------
(***************************************************************************)
(* What a call does to the threads that sleep.  A module that uses the     *)
(* scheduler need not look any deeper than these sets.                     *)
(***************************************************************************)
InState(s, st) == {t \in Thread : s.state[t] = st}

Pending(s) == InState(s, "BLOCK_PENDING")
Blocked(s) == InState(s, "BLOCKED")
Stopped(s) == InState(s, "STOPPED")

\* The running thread is neither blocked nor stopped.
LEMMA RunningIsAwake ==
    ASSUME NEW s \in Sched, NEW X, Consistent(s, X)
    PROVE  s.running \notin Blocked(s) /\ s.running \notin Stopped(s)
BY DEF Consistent, RunningOK, Blocked, Stopped, InState

\* Preemption moves no thread into or out of these sets.
LEMMA PreemptEffect ==
    ASSUME NEW s \in Sched, NEW X, Consistent(s, X),
           NEW r, r = PreemptRunningThread(s)
    PROVE  /\ Pending(r) = Pending(s)
           /\ Blocked(r) = Blocked(s)
           /\ Stopped(r) = Stopped(s)
           /\ r.bin = s.bin
BY ContextSwitch
DEF PreemptRunningThread, Consistent, SwitchOK, Pending, Blocked, Stopped, InState

\* mark_as_block_pending() marks the running thread.
LEMMA MarkEffect ==
    ASSUME NEW s \in Sched, NEW X, Consistent(s, X), s.running \in Thread,
           NEW r, r = MarkAsBlockPending(s)
    PROVE  /\ Pending(r) = Pending(s) \cup {s.running}
           /\ Blocked(r) = Blocked(s)
           /\ Stopped(r) = Stopped(s)
           /\ r.running = s.running
           /\ r.ready = s.ready
           /\ r.bin = s.bin
<1>1. s.running \in AnyThread /\ Thread \subseteq AnyThread
  BY DEF AnyThread
<1>2. /\ r.running = s.running /\ r.ready = s.ready /\ r.bin = s.bin
      /\ \A u \in AnyThread :
            r.state[u] = IF u = s.running THEN "BLOCK_PENDING" ELSE s.state[u]
  BY <1>1 DEF MarkAsBlockPending, Sched
<1> QED  BY <1>1, <1>2, RunningIsAwake DEF Pending, Blocked, Stopped, InState

\* block() of the running thread blocks it if it is still marked.
LEMMA BlockEffect ==
    ASSUME NEW s \in Sched, NEW X, Consistent(s, X),
           NEW r, r = Block(s, s.running)
    PROVE  /\ Pending(r) = Pending(s) \ {s.running}
           /\ Blocked(r) = Blocked(s) \cup (Pending(s) \cap {s.running})
           /\ Stopped(r) = Stopped(s)
           /\ s.state[s.running] # "BLOCK_PENDING" => r = s
           /\ r.bin = s.bin
<1> DEFINE t == s.running
           b == [s EXCEPT !.state[t] = "BLOCKED"]
<1>1. CASE s.state[t] # "BLOCK_PENDING"
  BY <1>1 DEF Block, Pending, InState
<1>2. CASE s.state[t] = "BLOCK_PENDING"
  <2>1. r = PerformContextSwitch(b)
    BY <1>2 DEF Block
  <2>2. t \in AnyThread /\ "BLOCKED" \in ThreadState /\ Thread \subseteq AnyThread
    BY DEF Sched, ThreadState, AnyThread
  <2>3. /\ b \in Sched
        /\ b.running = t /\ b.ready = s.ready /\ b.bin = s.bin
        /\ \A u \in AnyThread : b.state[u] = IF u = t THEN "BLOCKED" ELSE s.state[u]
    BY <2>2 DEF Sched
  <2> HIDE DEF b
  <2>4. QueueOK(b, X)
    BY <2>2, <2>3, QueuedAreThreads DEF QueueOK, Consistent
  <2>5. StatesOK(b)
    <3>1. \A u \in Elems(s.bin) : u \in Thread /\ s.state[u] = "STOPPED"
      BY LenProperties, ElementOfSeq DEF Consistent, StatesOK, Elems, Sched
    <3> QED  BY <1>2, <2>2, <2>3, <3>1 DEF StatesOK, Consistent, AnyThread
  <2>6. SwitchOK(b)
    BY <1>2, <2>2, <2>3 DEF SwitchOK, StatesOK, Consistent, AnyThread
  <2>7. /\ r.bin = b.bin
        /\ \A u \in Thread : \A st \in {"BLOCKED", "BLOCK_PENDING", "STOPPED"} :
              r.state[u] = st <=> b.state[u] = st
    BY <2>1, <2>3, <2>4, <2>5, <2>6, ContextSwitch
  <2> QED  BY <1>2, <2>2, <2>3, <2>7 DEF Pending, Blocked, Stopped, InState
<1> QED  BY <1>1, <1>2

\* unblock() wakes just the one thread.
LEMMA UnblockEffect ==
    ASSUME NEW s \in Sched, NEW t \in Thread, CanEnqueue(t),
           NEW r, r = Unblock(s, t)
    PROVE  /\ Pending(r) = Pending(s) \ {t}
           /\ Blocked(r) = Blocked(s) \ {t}
           /\ Stopped(r) = Stopped(s)
           /\ r.running = s.running
           /\ r.bin = s.bin
<1>1. Thread \subseteq AnyThread /\ t \in AnyThread
  BY DEF AnyThread
<1>2. CASE s.state[t] \notin {"BLOCKED", "BLOCK_PENDING"}
  BY <1>2 DEF Unblock, Pending, Blocked, InState
<1>3. CASE s.state[t] \in {"BLOCKED", "BLOCK_PENDING"}
  <2>1. r.running = s.running /\ r.bin = s.bin
    BY <1>3 DEF Unblock, Sched
  <2>2. PICK st \in {"RUNNING", "READY"} :
           \A u \in AnyThread : r.state[u] = IF u = t THEN st ELSE s.state[u]
    BY <1>1, <1>3 DEF Unblock, Sched
  <2> QED  BY <1>1, <1>3, <2>1, <2>2 DEF Pending, Blocked, Stopped, InState
<1> QED  BY <1>2, <1>3

\* stop() stops just the one thread, and leaves it in the bin.
LEMMA StopEffect ==
    ASSUME NEW s \in Sched, NEW X, Consistent(s, X), NEW t \in Thread,
           s.running \in Thread, NEW r, r = Stop(s, t)
    PROVE  /\ Pending(r) = Pending(s) \ {t}
           /\ Blocked(r) = Blocked(s) \ {t}
           /\ Stopped(r) = Stopped(s) \cup {t}
           /\ r.bin = Append(s.bin, t)
<1> DEFINE q == [s EXCEPT !.state[t] = "STOPPED", !.bin = Append(s.bin, t)]
<1>1. Queued(s.ready) \subseteq Thread /\ Thread \subseteq AnyThread
  BY QueuedAreThreads DEF AnyThread
<1>2. \A u \in Elems(s.bin) : u \in Thread /\ s.state[u] = "STOPPED"
  BY LenProperties, ElementOfSeq DEF Consistent, StatesOK, Elems, Sched
<1>3. Append(s.bin, t) \in Seq(Thread) /\ Elems(Append(s.bin, t)) = Elems(s.bin) \cup {t}
  BY ElemsAppend DEF Sched
<1>4. /\ q \in Sched
      /\ q.running = s.running /\ q.ready = s.ready /\ q.bin = Append(s.bin, t)
      /\ \A u \in AnyThread : q.state[u] = IF u = t THEN "STOPPED" ELSE s.state[u]
  BY <1>1, <1>3 DEF Sched, ThreadState
<1>5. r = IF t # s.running THEN [q EXCEPT !.ready = RemoveFrom(q.ready, t)]
          ELSE PerformContextSwitch(q)
  BY DEF Stop
<1> HIDE DEF q
<1>6. /\ r.bin = q.bin
      /\ \A u \in Thread : \A st \in {"BLOCKED", "BLOCK_PENDING", "STOPPED"} :
            r.state[u] = st <=> q.state[u] = st
  <2>1. CASE t = s.running
    <3>1. QueueOK(q, X)
      BY <1>1, <1>4, <2>1 DEF QueueOK, Consistent
    <3>2. StatesOK(q)
      BY <1>1, <1>2, <1>3, <1>4, ThreadAssumption DEF StatesOK, Consistent, AnyThread
    <3>3. SwitchOK(q)
      BY <1>1, <1>4, <2>1 DEF SwitchOK
    <3> QED  BY <1>4, <1>5, <2>1, <3>1, <3>2, <3>3, ContextSwitch
  <2>2. CASE t # s.running
    BY <1>4, <1>5, <2>2 DEF Sched
  <2> QED  BY <2>1, <2>2
<1> QED  BY <1>1, <1>4, <1>6 DEF Pending, Blocked, Stopped, InState

\* t is neither running nor queued.
Outside(s, t) == t \notin Queued(s.ready) /\ s.running # t

\* A context switch gives the CPU to no thread from outside.
LEMMA SwitchLeavesOutside ==
    ASSUME NEW s \in Sched, LevelsOK(s.ready), NEW t \in Thread, Outside(s, t),
           s.running \in Thread => CanEnqueue(s.running)
    PROVE  Outside(PerformContextSwitch(s), t)
<1> DEFINE r     == PerformContextSwitch(s)
           n     == NextScheduledThread(s)
           taken == IF n \in {Idle, Gct} THEN s.ready ELSE Dequeue(s.ready)
<1>1. CASE StaysRunning(s)
  BY <1>1 DEF PerformContextSwitch
<1>2. CASE ~StaysRunning(s)
  <2>1. s.ready \in Queues
    BY QueuedAreThreads
  <2>2. /\ n # t
        /\ taken \in Queues /\ LevelsOK(taken)
        /\ Queued(taken) \subseteq Queued(s.ready)
    <3>1. CASE n \in {Idle, Gct}
      BY <2>1, <3>1, ThreadAssumption
    <3>2. CASE n \notin {Idle, Gct}
      <4>1. ~IsEmpty(s.ready) /\ n = Peek(s.ready)
        BY <3>2 DEF NextScheduledThread
      <4> QED  BY <2>1, <3>2, <4>1, DequeueTakesPeek DEF Outside
    <3> QED  BY <3>1, <3>2
  <2>3. r.running = n /\ r.ready = IF IsRequeued(s) THEN Enqueue(taken, s.running) ELSE taken
    BY <1>2 DEF PerformContextSwitch
  <2> HIDE DEF n, taken
  <2>4. t \notin Queued(r.ready)
    <3>1. CASE IsRequeued(s)
      BY <2>2, <2>3, <3>1, EnqueueAdds DEF IsRequeued, Outside
    <3>2. CASE ~IsRequeued(s)
      BY <2>2, <2>3, <3>2 DEF Outside
    <3> QED  BY <3>1, <3>2
  <2> QED  BY <2>2, <2>3, <2>4 DEF Outside
<1> QED  BY <1>1, <1>2

\* The garbage collector goes to sleep, which is nothing to the other threads.
LEMMA GctSleepsOK ==
    ASSUME NEW s \in Sched, NEW X, Consistent(s, X), s.running = Gct, s.bin = << >>,
           NEW r, r = Block(MarkAsBlockPending(s), Gct)
    PROVE  /\ CallOK(s, r, X)
           /\ Pending(r) = Pending(s) /\ Blocked(r) = Blocked(s) /\ Stopped(r) = Stopped(s)
           /\ \A t \in Thread : Outside(s, t) => Outside(r, t)
<1> DEFINE m == MarkAsBlockPending(s)
           b == [m EXCEPT !.state[Gct] = "BLOCKED"]
<1>1. CallOK(s, m, X) /\ m.running = Gct /\ m.bin = s.bin
  BY MarkOK, ThreadAssumption
<1>2. Gct \in AnyThread /\ Gct \notin Thread /\ Thread \subseteq AnyThread
  BY ThreadAssumption DEF AnyThread
<1>3. m.ready = s.ready /\ m.state[Gct] = "BLOCK_PENDING"
      /\ \A t \in Thread : m.state[t] = s.state[t]
  BY <1>2 DEF MarkAsBlockPending, Sched
<1> HIDE DEF m
<1>4. CallOK(m, r, X) /\ Pending(r) = Pending(m) \ {Gct}
      /\ Blocked(r) = Blocked(m) \cup (Pending(m) \cap {Gct}) /\ Stopped(r) = Stopped(m)
  BY <1>1, BlockOK, BlockEffect DEF CallOK, m
<1>5. Pending(m) = Pending(s) /\ Blocked(m) = Blocked(s) /\ Stopped(m) = Stopped(s)
  BY <1>3 DEF Pending, Blocked, Stopped, InState
<1>6. Gct \notin Pending(m)
  BY <1>2 DEF Pending, InState
<1>7. ASSUME NEW t \in Thread, Outside(s, t) PROVE Outside(r, t)
  <2>1. r = PerformContextSwitch(b)
    BY <1>1, <1>3 DEF Block, m
  <2>2. b \in Sched /\ b.running = Gct /\ b.ready = s.ready
    BY <1>1, <1>2, <1>3 DEF CallOK, Sched, ThreadState
  <2> HIDE DEF b
  <2>3. LevelsOK(b.ready) /\ Outside(b, t)
    BY <1>7, <2>2 DEF Outside, Consistent, QueueOK
  <2> QED  BY <1>2, <2>1, <2>2, <2>3, SwitchLeavesOutside
<1> QED  BY <1>1, <1>4, <1>5, <1>6, <1>7 DEF CallOK

----------------------------------------------------------------------------
(***************************************************************************)
(* Which thread a call gives the CPU to                                    *)
(***************************************************************************)
\* peek() returns the first thread of the most urgent level.
LEMMA PeekIsUrgent ==
    ASSUME NEW q \in Queues, LevelsOK(q), ~IsEmpty(q), NEW t \in Queued(q), t # Peek(q)
    PROVE  Policy[Peek(q)] < Policy[t] \/ Ahead(q, Peek(q), t)
<1> DEFINE Top(p) == q[p] # << >> /\ \A r \in Level : r < p => q[r] = << >>
           top == TopLevel(q)
<1>1. \E p \in Level : Top(p)
  <2>1. CASE q[1] # << >>
    BY <2>1, LevelElements
  <2>2. CASE q[1] = << >> /\ q[2] # << >>
    BY <2>2, LevelElements
  <2>3. CASE q[1] = << >> /\ q[2] = << >> /\ q[3] # << >>
    BY <2>3, LevelElements
  <2> QED  BY <2>1, <2>2, <2>3, LevelElements DEF IsEmpty
<1>2. top \in Level /\ Top(top)
  <2>1. top = CHOOSE p \in Level : Top(p)
    BY DEF TopLevel
  <2> HIDE DEF Top, top
  <2> QED  BY <1>1, <2>1
<1>3. PICK p \in Level : t \in Elems(q[p])
  BY DEF Queued
<1>4. q[p] # << >> /\ Policy[t] = p
  BY <1>3 DEF Elems, LevelsOK
<1>5. Policy[Peek(q)] = top
  <2>1. q[top] \in Seq(Thread) /\ q[top] # << >>
    BY <1>2 DEF Queues
  <2>2. Head(q[top]) = q[top][1] /\ 1 \in DOMAIN q[top]
    BY <2>1, HeadTailProperties, LenProperties, EmptySeq
  <2> QED  BY <1>2, <2>2 DEF LevelsOK, Peek
<1>6. ASSUME p = top PROVE Ahead(q, Peek(q), t)
  <2>1. q[p] \in Seq(Thread) /\ Peek(q) = Head(q[p])
    BY <1>6 DEF Queues, Peek
  <2> QED  BY <1>3, <1>4, <2>1, TailInFront DEF Ahead
<1>7. p = top \/ top < p
  BY <1>2, <1>4, LevelElements
<1> QED  BY <1>4, <1>5, <1>6, <1>7

\* The ready queue keeps its order when the next thread is taken.
LEMMA TakenOrder ==
    ASSUME NEW s \in Sched, LevelsOK(s.ready), s.ready \in Queues,
           NEW n, n = NextScheduledThread(s),
           NEW taken, taken = IF n \in {Idle, Gct} THEN s.ready ELSE Dequeue(s.ready)
    PROVE  KeepsOrder(s.ready, taken)
<1>1. CASE n \in {Idle, Gct}
  BY <1>1, SameOrder
<1>2. CASE n \notin {Idle, Gct}
  <2>1. taken = Dequeue(s.ready) /\ ~IsEmpty(s.ready)
    BY <1>2 DEF NextScheduledThread
  <2> QED  BY <2>1, DequeueTakesPeek
<1> QED  BY <1>1, <1>2

\* perform_context_switch()
LEMMA SwitchInTurn ==
    ASSUME NEW s \in Sched, NEW X, QueueOK(s, X), StatesOK(s)
    PROVE  InTurn(s, PerformContextSwitch(s))
<1> DEFINE r == PerformContextSwitch(s)
           n == NextScheduledThread(s)
           taken == IF n \in {Idle, Gct} THEN s.ready ELSE Dequeue(s.ready)
<1>1. CASE StaysRunning(s)
  BY <1>1, SameOrder DEF PerformContextSwitch, InTurn
<1>2. CASE ~StaysRunning(s)
  <2>1. /\ taken \in Queues /\ LevelsOK(taken)
        /\ Queued(taken) = Queued(s.ready) \ {n}
    BY <1>2, NextThread
  <2>2. /\ r.running = n /\ r.bin = s.bin
        /\ r.ready = IF IsRequeued(s) THEN Enqueue(taken, s.running) ELSE taken
    BY <1>2 DEF PerformContextSwitch
  <2>3. KeepsOrder(s.ready, r.ready)
    <3>1. s.ready \in Queues /\ LevelsOK(s.ready) /\ s.running \notin Queued(s.ready)
      BY QueuedAreThreads DEF QueueOK
    <3>2. KeepsOrder(s.ready, taken)
      BY <1>2, <3>1, TakenOrder
    <3> HIDE DEF taken, n, r
    <3>3. CASE IsRequeued(s)
      <4>1. /\ KeepsOrder(taken, r.ready)
            /\ Queued(r.ready) = Queued(taken) \cup {s.running}
        BY <2>1, <2>2, <3>3, EnqueueAdds DEF IsRequeued
      <4> QED  BY <3>1, <3>2, <4>1, OrderIsKept
    <3>4. CASE ~IsRequeued(s)
      BY <2>2, <3>2, <3>4
    <3> QED  BY <3>3, <3>4
  <2> SUFFICES InTurn(s, r)
    OBVIOUS
  <2> HIDE DEF taken, r
  <2>4. s.ready \in Queues /\ LevelsOK(s.ready)
    BY QueuedAreThreads DEF QueueOK
  <2>5. CASE s.bin # << >>
    BY <2>2, <2>3, <2>5 DEF InTurn, NextScheduledThread
  <2>6. CASE s.bin = << >> /\ IsEmpty(s.ready)
    <3>1. Queued(s.ready) = {} /\ n = Idle
      BY <2>6 DEF IsEmpty, Queued, Elems, NextScheduledThread
    <3> HIDE DEF n
    <3> QED  BY <2>2, <2>3, <2>6, <3>1 DEF InTurn
  <2>7. CASE s.bin = << >> /\ ~IsEmpty(s.ready)
    <3>1. n = Peek(s.ready)
      BY <2>7 DEF NextScheduledThread
    <3>2. /\ n \in Queued(s.ready)
          /\ \A t \in Queued(s.ready) \ {n} : Policy[n] < Policy[t] \/ Ahead(s.ready, n, t)
      BY <2>4, <2>7, <3>1, PeekIsUrgent, DequeueTakesPeek
    <3> HIDE DEF n
    <3> QED  BY <2>2, <2>3, <2>7, <3>2 DEF InTurn
  <2> QED  BY <2>5, <2>6, <2>7
<1> QED  BY <1>1, <1>2

\* preempt_running_thread()
LEMMA PreemptInTurn ==
    ASSUME NEW s \in Sched, NEW X, Consistent(s, X)
    PROVE  InTurn(s, PreemptRunningThread(s))
BY SwitchInTurn DEF Consistent, PreemptRunningThread

\* block() of the running thread
LEMMA BlockInTurn ==
    ASSUME NEW s \in Sched, NEW X, Consistent(s, X)
    PROVE  InTurn(s, Block(s, s.running))
<1> DEFINE t == s.running
           b == [s EXCEPT !.state[t] = "BLOCKED"]
<1>1. CASE s.state[t] # "BLOCK_PENDING"
  BY <1>1, SameOrder DEF Block, InTurn
<1>2. CASE s.state[t] = "BLOCK_PENDING"
  <2>1. Block(s, t) = PerformContextSwitch(b)
    BY <1>2 DEF Block
  <2>2. t \in AnyThread /\ "BLOCKED" \in ThreadState /\ Thread \subseteq AnyThread
    BY DEF Sched, ThreadState, AnyThread
  <2>3. /\ b \in Sched
        /\ b.running = t /\ b.ready = s.ready /\ b.bin = s.bin
        /\ \A u \in AnyThread : b.state[u] = IF u = t THEN "BLOCKED" ELSE s.state[u]
    BY <2>2 DEF Sched
  <2> HIDE DEF b
  <2>4. QueueOK(b, X)
    BY <2>2, <2>3, QueuedAreThreads DEF QueueOK, Consistent
  <2>5. StatesOK(b)
    <3>1. \A u \in Elems(s.bin) : u \in Thread /\ s.state[u] = "STOPPED"
      BY LenProperties, ElementOfSeq DEF Consistent, StatesOK, Elems, Sched
    <3> QED  BY <1>2, <2>2, <2>3, <3>1 DEF StatesOK, Consistent, AnyThread
  <2>6. InTurn(b, PerformContextSwitch(b))
    BY <2>3, <2>4, <2>5, SwitchInTurn
  <2> QED  BY <2>1, <2>3, <2>6 DEF InTurn
<1> QED  BY <1>1, <1>2

\* stop()
LEMMA StopInTurn ==
    ASSUME NEW s \in Sched, NEW X, Consistent(s, X), NEW t \in Thread,
           s.running \in Thread
    PROVE  InTurn(s, Stop(s, t))
<1> DEFINE q == [s EXCEPT !.state[t] = "STOPPED", !.bin = Append(s.bin, t)]
<1>1. Queued(s.ready) \subseteq Thread /\ Thread \subseteq AnyThread
  BY QueuedAreThreads DEF AnyThread
<1>2. \A u \in Elems(s.bin) : u \in Thread /\ s.state[u] = "STOPPED"
  BY LenProperties, ElementOfSeq DEF Consistent, StatesOK, Elems, Sched
<1>3. Append(s.bin, t) \in Seq(Thread) /\ Elems(Append(s.bin, t)) = Elems(s.bin) \cup {t}
  BY ElemsAppend DEF Sched
<1>4. /\ q \in Sched
      /\ q.running = s.running /\ q.ready = s.ready /\ q.bin = Append(s.bin, t)
      /\ \A u \in AnyThread : q.state[u] = IF u = t THEN "STOPPED" ELSE s.state[u]
  BY <1>1, <1>3 DEF Sched, ThreadState
<1>5. Stop(s, t) = IF t # s.running THEN [q EXCEPT !.ready = RemoveFrom(q.ready, t)]
                   ELSE PerformContextSwitch(q)
  BY DEF Stop
<1> HIDE DEF q
<1>6. CASE t = s.running
  <2>1. QueueOK(q, X)
    BY <1>1, <1>4, <1>6 DEF QueueOK, Consistent
  <2>2. StatesOK(q)
    BY <1>1, <1>2, <1>3, <1>4, ThreadAssumption DEF StatesOK, Consistent, AnyThread
  <2>3. InTurn(q, PerformContextSwitch(q))
    BY <1>4, <2>1, <2>2, SwitchInTurn
  <2> QED  BY <1>4, <1>5, <1>6, <2>3 DEF InTurn
<1>7. CASE t # s.running
  <2>1. KeepsOrder(s.ready, RemoveFrom(s.ready, t))
    BY RemoveFromRemoves, QueuedAreThreads DEF Consistent, QueueOK
  <2>2. Stop(s, t).running = s.running /\ Stop(s, t).ready = RemoveFrom(s.ready, t)
    BY <1>4, <1>5, <1>7 DEF Sched
  <2> QED  BY <2>1, <2>2 DEF InTurn
<1> QED  BY <1>6, <1>7

\* unblock()
LEMMA UnblockInTurn ==
    ASSUME NEW s \in Sched, NEW X, Consistent(s, X), NEW t
    PROVE  InTurn(s, Unblock(s, t))
<1>1. Unblock(s, t).running = s.running
  BY DEF Unblock, Sched
<1>2. \/ Unblock(s, t).ready = s.ready
      \/ CanEnqueue(t) /\ Unblock(s, t).ready = Enqueue(s.ready, t)
  BY DEF Unblock, Sched
<1>3. KeepsOrder(s.ready, Unblock(s, t).ready)
  BY <1>2, SameOrder, EnqueueAdds, QueuedAreThreads DEF Consistent, QueueOK, CanEnqueue
<1> QED  BY <1>1, <1>3 DEF InTurn

\* schedule()
LEMMA ScheduleInTurn ==
    ASSUME NEW s \in Sched, NEW X, Consistent(s, X), NEW t
    PROVE  InTurn(s, Schedule(s, t))
<1>1. Schedule(s, t).running = s.running
  BY DEF Schedule, Sched
<1>2. \/ Schedule(s, t).ready = s.ready
      \/ CanEnqueue(t) /\ Schedule(s, t).ready = Enqueue(s.ready, t)
  BY DEF Schedule, Sched
<1>3. KeepsOrder(s.ready, Schedule(s, t).ready)
  BY <1>2, SameOrder, EnqueueAdds, QueuedAreThreads DEF Consistent, QueueOK, CanEnqueue
<1> QED  BY <1>1, <1>3 DEF InTurn

\* A change of states and bin only.
LEMMA QuietInTurn ==
    ASSUME NEW s, NEW r, r.running = s.running, r.ready = s.ready
    PROVE  InTurn(s, r)
BY SameOrder DEF InTurn

----------------------------------------------------------------------------
(***************************************************************************)
(* The core: the scheduler is consistent in every state, an interrupt      *)
(* leaves the sets of sleeping threads alone, and a call changes them by   *)
(* the calling thread or the one it wakes.                                 *)
(***************************************************************************)
CoreOK == CoreTypeOK /\ Consistent(sched, {})

\* No thread falls asleep, wakes up or stops.
SleepersSame ==
    /\ Pending(sched') = Pending(sched)
    /\ Blocked(sched') = Blocked(sched)
    /\ Stopped(sched') = Stopped(sched)

\* The threads that can be scheduled are none of the special ones.
LEMMA SchedulableFacts ==
    ASSUME NEW t \in Schedulable
    PROVE  /\ t \in Thread /\ t \in AnyThread /\ CanEnqueue(t)
           /\ t # Bootstrap /\ t # Idle /\ t # Gct
BY ThreadAssumption DEF AnyThread, Schedulable

\* A queue of threads in some order is a queue of the scheduler.
LEMMA ReadyQueuesOK ==
    ASSUME NEW S \in SUBSET Thread, IsFiniteSet(S), NEW q \in ReadyQueues(S)
    PROVE  q \in Queues /\ LevelsOK(q) /\ Queued(q) = S
<1>1. Cardinality(S) \in Nat
  BY FS_CardinalityType
<1>2. LevelsOK(q) /\ Queued(q) = S
  BY DEF ReadyQueues
<1>3. ASSUME NEW p \in Level PROVE q[p] \in Seq(Thread)
  <2>1. PICK n \in 0 .. Cardinality(S) : q[p] \in [1 .. n -> S]
    BY <1>3 DEF ReadyQueues
  <2>2. n \in Nat /\ q[p] \in [1 .. n -> Thread]
    BY <1>1, <2>1
  <2> QED  BY <2>2, SeqDef
<1>4. q = [p \in Level |-> q[p]]
  BY DEF ReadyQueues
<1> QED  BY <1>2, <1>3, <1>4 DEF Queues

\* In the beginning the scheduler is consistent and none of the threads sleeps.
LEMMA StartOK ==
    ASSUME NEW S \in SUBSET Schedulable, IsFiniteSet(S), NEW f \in S, StartWith(S, f)
    PROVE  /\ CoreOK
           /\ \A t \in S : /\ t \notin Pending(sched)
                           /\ t \notin Blocked(sched)
                           /\ t \notin Stopped(sched)
<1>1. S \subseteq Thread /\ f \in S /\ IsFiniteSet(S \ {f})
  BY FS_Subset DEF Schedulable
<1>2. PICK q \in ReadyQueues(S \ {f}) :
         sched = [running |-> f,
                  state   |-> [t \in AnyThread |-> IF t = f THEN "RUNNING"
                                                  ELSE IF t \in S THEN "CREATED"
                                                  ELSE "BLOCKED"],
                  ready   |-> q,
                  bin     |-> << >>]
  BY DEF StartWith
<1>3. q \in Queues /\ LevelsOK(q) /\ Queued(q) = S \ {f}
  BY <1>1, ReadyQueuesOK
<1>4. /\ sched.running = f /\ sched.ready = q /\ sched.bin = << >>
      /\ \A t \in AnyThread : sched.state[t] = IF t = f THEN "RUNNING"
                                               ELSE IF t \in S THEN "CREATED"
                                               ELSE "BLOCKED"
  BY <1>2
<1>5. sched \in Sched
  <2>1. [t \in AnyThread |-> IF t = f THEN "RUNNING"
                             ELSE IF t \in S THEN "CREATED"
                             ELSE "BLOCKED"] \in [AnyThread -> ThreadState]
    BY DEF ThreadState
  <2>2. f \in AnyThread /\ << >> \in Seq(Thread)
    BY <1>1 DEF AnyThread
  <2> QED  BY <1>2, <1>3, <2>1, <2>2 DEF Sched, Queues
<1>6. CoreTypeOK
  BY <1>5, MaxNestAssumption DEF CoreTypeOK, StartWith
<1>7. Thread \subseteq AnyThread /\ Idle \in AnyThread /\ Gct \in AnyThread
  BY DEF AnyThread
<1>8. QueueOK(sched, {})
  BY <1>1, <1>3, <1>4, <1>7 DEF QueueOK
<1>9. StatesOK(sched)
  <2>1. Elems(sched.bin) = {}
    BY <1>4 DEF Elems
  <2>2. Idle # f /\ Gct # f /\ Idle \notin S /\ Gct \notin S
    BY SchedulableFacts
  <2> QED  BY <1>1, <1>4, <1>7, <2>1, <2>2, SchedulableFacts DEF StatesOK
<1>10. RunningOK(sched)
  BY <1>1, <1>4, <1>7 DEF RunningOK
<1>11. \A t \in S : sched.state[t] \in {"RUNNING", "CREATED"}
  BY <1>1, <1>4, <1>7
<1> QED  BY <1>6, <1>8, <1>9, <1>10, <1>11
         DEF CoreOK, Consistent, Pending, Blocked, Stopped, InState

\* The tick, iretq and the idle thread.
LEMMA CoreNextOK ==
    ASSUME CoreOK, CoreNext
    PROVE  CoreOK' /\ SleepersSame
<1>1. CASE Tick
  <2>1. CallOK(sched, sched', {}) /\ SleepersSame
    BY <1>1, PreemptOK, PreemptEffect DEF CoreOK, CoreTypeOK, Tick, SleepersSame
  <2>2. sched.running \in AnyThread
    BY DEF CoreOK, CoreTypeOK, Sched
  <2>3. frames' \in [AnyThread -> 0 .. MaxNest]
    BY <1>1, <2>2, MaxNestAssumption DEF Tick, CoreOK, CoreTypeOK
  <2> QED  BY <1>1, <2>1, <2>3 DEF Tick, CoreOK, CoreTypeOK, CallOK
<1>2. ASSUME NEW t \in AnyThread, Iret(t) PROVE CoreOK' /\ SleepersSame
  <2>1. frames' \in [AnyThread -> 0 .. MaxNest]
    BY <1>2, MaxNestAssumption DEF Iret, CoreOK, CoreTypeOK
  <2> QED  BY <1>2, <2>1 DEF Iret, CoreOK, CoreTypeOK, SleepersSame
<1>3. CASE IdleLoop
  BY <1>3 DEF IdleLoop, CoreOK, CoreTypeOK, SleepersSame
<1> QED  BY <1>1, <1>2, <1>3 DEF CoreNext

\* A step that only sets the interrupt flag.
LEMMA FlagOK ==
    ASSUME CoreOK, irqOn' \in BOOLEAN, UNCHANGED <<sched, frames>>
    PROVE  CoreOK' /\ SleepersSame
BY DEF CoreOK, CoreTypeOK, SleepersSame

\* A step that leaves the core alone.
LEMMA CoreSame ==
    ASSUME CoreOK, UNCHANGED core
    PROVE  CoreOK' /\ SleepersSame
BY DEF core, CoreOK, CoreTypeOK, SleepersSame

\* A thread that executes is neither blocked nor stopped.
LEMMA OnCpuIsAwake ==
    ASSUME CoreOK, NEW t \in Schedulable, sched.running = t
    PROVE  t \notin Blocked(sched) /\ t \notin Stopped(sched)
BY RunningIsAwake DEF CoreOK, CoreTypeOK

\* A thread marks itself.
LEMMA MarkCallOK ==
    ASSUME CoreOK, NEW t \in Schedulable, OnCpu(t), Call(MarkAsBlockPending(sched))
    PROVE  /\ CoreOK'
           /\ sched'.running = t
           /\ Pending(sched') = Pending(sched) \cup {t}
           /\ Blocked(sched') = Blocked(sched)
           /\ Stopped(sched') = Stopped(sched)
<1>1. sched \in Sched /\ Consistent(sched, {}) /\ sched.running = t
  BY DEF CoreOK, CoreTypeOK, OnCpu
<1>2. t \in Thread /\ t # Idle /\ t # Gct
  BY SchedulableFacts
<1>3. CallOK(sched, sched', {})
  BY <1>1, <1>2, MarkOK DEF Call
<1> QED  BY <1>1, <1>2, <1>3, MarkEffect DEF Call, CallOK, CoreOK, CoreTypeOK

\* A thread blocks itself, if it is still marked.
LEMMA BlockCallOK ==
    ASSUME CoreOK, NEW t \in Schedulable, OnCpu(t), Call(Block(sched, t))
    PROVE  /\ CoreOK'
           /\ Pending(sched') = Pending(sched) \ {t}
           /\ Blocked(sched') = Blocked(sched) \cup (Pending(sched) \cap {t})
           /\ Stopped(sched') = Stopped(sched)
<1>1. sched \in Sched /\ Consistent(sched, {}) /\ sched.running = t
  BY DEF CoreOK, CoreTypeOK, OnCpu
<1>2. t \in Thread
  BY SchedulableFacts
<1>3. CallOK(sched, sched', {})
  BY <1>1, BlockOK DEF Call
<1> QED  BY <1>1, <1>2, <1>3, BlockEffect DEF Call, CallOK, CoreOK, CoreTypeOK

\* A thread wakes another one.
LEMMA UnblockCallOK ==
    ASSUME CoreOK, NEW u \in Schedulable, Call(Unblock(sched, u))
    PROVE  /\ CoreOK'
           /\ sched'.running = sched.running
           /\ Pending(sched') = Pending(sched) \ {u}
           /\ Blocked(sched') = Blocked(sched) \ {u}
           /\ Stopped(sched') = Stopped(sched)
<1>1. sched \in Sched /\ Consistent(sched, {})
  BY DEF CoreOK, CoreTypeOK
<1>2. u \in Thread /\ CanEnqueue(u)
  BY SchedulableFacts
<1>3. CallOK(sched, sched', {})
  BY <1>1, <1>2, UnblockOK DEF Call
<1> QED  BY <1>1, <1>2, <1>3, UnblockEffect DEF Call, CallOK, CoreOK, CoreTypeOK
=============================================================================
