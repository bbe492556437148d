-------------------------- MODULE FileSystemProofs --------------------------
(***************************************************************************)
(* The invariants of FileSystem, proved for every tree of nodes, volume,   *)
(* cluster size and set of handles, for users that keep to the plain uses. *)
(*                                                                         *)
(* The invariant IInv names the clusters of every node: the first len[n]   *)
(* of ch[n].  The FAT and the entries say the same (Layout), the cursors   *)
(* of the open nodes are in those clusters (CursorOK), and no node that is *)
(* written has a second handle (NodesOK).  Chain(), a recursive function   *)
(* over the FAT, is met in one lemma only, ChainIs.  The loops of read()   *)
(* and write() have invariants of their own (ReadGood, WriteGood), shown   *)
(* to hold by looking at the first turn behind which they would not.       *)
(*                                                                         *)
(* The last part shows that every step is one of FileStore, or nothing its *)
(* users can see: Bytes, Opened and Doomed are its variables.              *)
(***************************************************************************)
EXTENDS FileSystem, FiniteSetTheorems, WellFoundedInduction, TLAPS

---------------------------------------------------------------------------
(* Numbers *)

LEMMA Sizes ==
    /\ VolumeClusters \in Nat /\ VolumeClusters > 0
    /\ ClusterSize \in Nat /\ ClusterSize > 0
    /\ MaxSize \in Nat /\ MaxSize > 0
    /\ Cluster \subseteq Nat /\ Eof \in Nat /\ Eof \notin Cluster /\ 0 \notin Cluster /\ Eof # 0
    /\ 2 \in Cluster
BY FileConstants DEF Cluster, Eof

LEMMA ClusterSizeNat == ClusterSize \in Nat /\ ClusterSize > 0
BY Sizes

\* A number is made of whole clusters and a part of one in one way only.
LEMMA WholeAndPart ==
    ASSUME NEW p \in Int, NEW o \in Int, NEW q \in Int, NEW r \in Int,
           0 <= o, o < ClusterSize, 0 <= r, r < ClusterSize,
           p * ClusterSize + o = q * ClusterSize + r
    PROVE  p = q /\ o = r
<1>1. ~(p < q)
  <2> SUFFICES ASSUME p + 1 <= q  PROVE FALSE
    OBVIOUS
  <2>1. (p + 1) * ClusterSize <= q * ClusterSize
    BY Sizes
  <2> QED  BY <2>1, Sizes
<1>2. ~(q < p)
  <2> SUFFICES ASSUME q + 1 <= p  PROVE FALSE
    OBVIOUS
  <2>1. (q + 1) * ClusterSize <= p * ClusterSize
    BY Sizes
  <2> QED  BY <2>1, Sizes
<1>3. p = q
  BY <1>1, <1>2
<1> QED  BY <1>3, Sizes

LEMMA DivMod ==
    ASSUME NEW a \in Nat
    PROVE  /\ a \div ClusterSize \in Nat /\ a % ClusterSize \in 0 .. ClusterSize - 1
           /\ a = (a \div ClusterSize) * ClusterSize + (a % ClusterSize)
BY Sizes

LEMMA DivOfSum ==
    ASSUME NEW p \in Nat, NEW o \in 0 .. ClusterSize - 1
    PROVE  /\ p * ClusterSize + o \in Nat
           /\ (p * ClusterSize + o) \div ClusterSize = p
           /\ (p * ClusterSize + o) % ClusterSize = o
<1> DEFINE a == p * ClusterSize + o
<1>1. a \in Nat
  BY Sizes
<1>2. /\ a \div ClusterSize \in Nat /\ a % ClusterSize \in 0 .. ClusterSize - 1
      /\ a = (a \div ClusterSize) * ClusterSize + (a % ClusterSize)
  BY <1>1, DivMod
<1> QED  BY <1>1, <1>2, WholeAndPart, Sizes

\* The clusters of a file of p whole clusters and o bytes.
LEMMA ClustersOfSum ==
    ASSUME NEW p \in Nat, NEW o \in 0 .. ClusterSize - 1
    PROVE  Clusters(p * ClusterSize + o) = IF o = 0 THEN p ELSE p + 1
<1>1. CASE o = 0
  <2>1. ClusterSize - 1 \in 0 .. ClusterSize - 1
    BY Sizes
  <2>2. (p * ClusterSize + (ClusterSize - 1)) \div ClusterSize = p
    BY <2>1, DivOfSum
  <2>3. p * ClusterSize + o + ClusterSize - 1 = p * ClusterSize + (ClusterSize - 1)
    BY <1>1, Sizes
  <2> QED  BY <1>1, <2>2, <2>3 DEF Clusters
<1>2. CASE o # 0
  <2>1. o - 1 \in 0 .. ClusterSize - 1
    BY <1>2, Sizes
  <2>2. ((p + 1) * ClusterSize + (o - 1)) \div ClusterSize = p + 1
    BY <2>1, DivOfSum
  <2>3. p * ClusterSize + o + ClusterSize - 1 = (p + 1) * ClusterSize + (o - 1)
    BY Sizes
  <2> QED  BY <1>2, <2>2, <2>3 DEF Clusters
<1> QED  BY <1>1, <1>2

\* What a number of bytes needs: the least number of clusters that holds them.
LEMMA ClustersHold ==
    ASSUME NEW a \in Nat
    PROVE  /\ Clusters(a) \in Nat
           /\ a <= Clusters(a) * ClusterSize
           /\ a > 0 => (Clusters(a) - 1) * ClusterSize < a /\ Clusters(a) > 0
           /\ a = 0 => Clusters(a) = 0
<1> DEFINE p == a \div ClusterSize
           o == a % ClusterSize
<1>1. p \in Nat /\ o \in 0 .. ClusterSize - 1 /\ a = p * ClusterSize + o
  BY DivMod
<1>2. Clusters(p * ClusterSize + o) = IF o = 0 THEN p ELSE p + 1
  BY <1>1, ClustersOfSum
<1>3. Clusters(a) = IF o = 0 THEN p ELSE p + 1
  BY <1>1, <1>2
<1> HIDE DEF p, o
<1>4. CASE o = 0
  <2>1. Clusters(a) = p /\ a = p * ClusterSize
    BY <1>1, <1>3, <1>4, Sizes
  <2>2. a = 0 => p = 0
    BY <2>1, <1>1, Sizes
  <2>3. a > 0 => p > 0
    BY <2>1, <1>1, Sizes
  <2>4. (p - 1) * ClusterSize = p * ClusterSize - ClusterSize
    BY <1>1, Sizes
  <2> QED  BY <2>1, <2>2, <2>3, <2>4, <1>1, Sizes
<1>5. CASE o # 0
  <2>1. Clusters(a) = p + 1 /\ a = p * ClusterSize + o /\ o > 0 /\ o < ClusterSize
    BY <1>1, <1>3, <1>5, Sizes
  <2>2. (p + 1) * ClusterSize = p * ClusterSize + ClusterSize
    BY <1>1, Sizes
  <2>3. p * ClusterSize \in Nat
    BY <1>1, Sizes
  <2>4. a > 0 /\ (p + 1) - 1 = p
    BY <1>1, <2>1, <2>3
  <2> QED  BY <2>1, <2>2, <2>3, <2>4, <1>1, Sizes
<1> QED  BY <1>4, <1>5

LEMMA ClustersGrow ==
    ASSUME NEW a \in Nat, NEW b \in Nat, a <= b
    PROVE  Clusters(a) <= Clusters(b)
<1>1. CASE a = 0
  BY <1>1, ClustersHold
<1>2. CASE a > 0
  <2> DEFINE x == Clusters(a)
             y == Clusters(b)
  <2>1. x \in Nat /\ y \in Nat /\ (x - 1) * ClusterSize < a /\ b <= y * ClusterSize
    BY <1>2, ClustersHold
  <2> HIDE DEF x, y
  <2>2. (x - 1) * ClusterSize < y * ClusterSize
    BY <2>1, Sizes
  <2>3. ~(y <= x - 1)
    <3> SUFFICES ASSUME y <= x - 1  PROVE FALSE
      OBVIOUS
    <3>1. y * ClusterSize <= (x - 1) * ClusterSize
      BY <2>1, Sizes
    <3> QED  BY <2>1, <2>2, <3>1, Sizes
  <2>4. x <= y
    BY <2>1, <2>3
  <2> QED  BY <2>4 DEF x, y
<1> QED  BY <1>1, <1>2

LEMMA MinOfTwo ==
    ASSUME NEW a \in Int, NEW b \in Int
    PROVE  Min({a, b}) = IF a <= b THEN a ELSE b
<1>1. \E x \in {a, b} : \A y \in {a, b} : x <= y
  OBVIOUS
<1> QED  BY <1>1 DEF Min

LEMMA MinOfThree ==
    ASSUME NEW a \in Int, NEW b \in Int, NEW c \in Int
    PROVE  /\ Min({a, b, c}) \in {a, b, c}
           /\ Min({a, b, c}) <= a /\ Min({a, b, c}) <= b /\ Min({a, b, c}) <= c
<1>1. \E x \in {a, b, c} : \A y \in {a, b, c} : x <= y
  <2>1. CASE a <= b /\ a <= c
    BY <2>1
  <2>2. CASE b <= a /\ b <= c
    BY <2>2
  <2>3. CASE c <= a /\ c <= b
    BY <2>3
  <2> QED  BY <2>1, <2>2, <2>3
<1>2. Min({a, b, c}) \in {a, b, c} /\ \A y \in {a, b, c} : Min({a, b, c}) <= y
  BY <1>1 DEF Min
<1> QED  BY <1>2

LEMMA Smallest ==
    ASSUME NEW S \in SUBSET Nat, S # {}
    PROVE  \E x \in S : \A y \in S : x <= y
<1>1. PICK x \in S : \A y \in S : <<y, x>> \notin OpToRel(<, Nat)
  BY NatLessThanWellFounded, WFMin
<1>2. \A y \in S : ~(y < x)
  BY <1>1 DEF OpToRel
<1>3. \A y \in S : x <= y
  BY <1>2
<1> QED  BY <1>3

LEMMA MinIsMember ==
    ASSUME NEW S \in SUBSET Nat, S # {}
    PROVE  Min(S) \in S
BY Smallest DEF Min

---------------------------------------------------------------------------
(* Chains *)

FAT == [Cluster -> {0, Eof} \cup Cluster]

\* The first n clusters of q, each one once, are what the FAT lists from first on.
IsChain(f, first, q, n) ==
    /\ \A i, j \in 1 .. n : q[i] = q[j] => i = j
    /\ IF n = 0 THEN first = 0 ELSE first = q[1] /\ f[q[n]] = Eof
    /\ \A i \in 1 .. n - 1 : f[q[i]] = q[i + 1]

\* A chain has no more clusters than the volume.
LEMMA ChainFits ==
    ASSUME NEW n \in Nat, NEW q \in [Nat -> Cluster],
           \A i, j \in 1 .. n : q[i] = q[j] => i = j
    PROVE  n <= VolumeClusters
<1> DEFINE g == [i \in 1 .. n |-> q[i]]
<1>1. g \in Injection(1 .. n, Cluster)
  BY DEF Injection, IsInjective
<1>2. IsFiniteSet(Cluster) /\ Cardinality(Cluster) = VolumeClusters
  BY Sizes, FS_Interval DEF Cluster
<1>3. Cardinality(1 .. n) <= Cardinality(Cluster)
  BY <1>1, <1>2, FS_Injection
<1>4. Cardinality(1 .. n) = n
  BY FS_Interval
<1> QED  BY <1>2, <1>3, <1>4

\* Following the FAT finds the chain.
LEMMA ChainIs ==
    ASSUME NEW f \in FAT, NEW first, NEW n \in Nat, NEW q \in [Nat -> Cluster],
           IsChain(f, first, q, n)
    PROVE  Chain(f, first) = [k \in 1 .. n |-> q[k]]
<1> DEFINE next == [c \in 0 .. Eof |-> IF c \in Cluster THEN f[c] ELSE Eof]
           K == 1 .. VolumeClusters
           Eq(h) == [k \in K |-> IF k = 1 THEN first ELSE next[h[k - 1]]]
           at == CHOOSE h : h = Eq(h)
           g == [k \in K |-> IF k <= n THEN q[k] ELSE IF k = 1 THEN 0 ELSE Eof]
           len == Cardinality({k \in K : at[k] \in Cluster})
<1>1. n <= VolumeClusters
  BY ChainFits DEF IsChain
<1>2. K \subseteq Nat /\ 0 \in 0 .. Eof /\ Eof \in 0 .. Eof /\ Cluster \subseteq 0 .. Eof
  BY Sizes DEF Cluster, Eof
<1>3. ASSUME NEW k \in K, k # 1  PROVE g[k] = next[g[k - 1]] /\ k - 1 \in K
  <2>1. k - 1 \in K
    BY <1>3, Sizes
  <2>2. CASE k <= n
    <3>1. g[k - 1] = q[k - 1] /\ g[k] = q[k] /\ q[k - 1] \in Cluster
      BY <1>2, <2>1, <2>2
    <3>2. f[q[k - 1]] = q[k]
      BY <1>2, <1>3, <2>1, <2>2 DEF IsChain
    <3> QED  BY <1>2, <2>1, <3>1, <3>2
  <2>3. CASE k = n + 1
    <3>1. g[k] = Eof
      BY <1>3, <2>3
    <3>2. g[k - 1] = q[n] /\ n # 0 /\ q[n] \in Cluster
      BY <1>3, <2>1, <2>3
    <3>3. f[q[n]] = Eof
      BY <3>2 DEF IsChain
    <3> QED  BY <1>2, <2>1, <3>1, <3>2, <3>3
  <2>4. CASE k > n + 1
    <3>1. g[k] = Eof
      BY <1>3, <2>4
    <3>2. g[k - 1] \in {0, Eof}
      BY <2>1, <2>4
    <3>3. next[0] = Eof /\ next[Eof] = Eof
      BY <1>2, Sizes
    <3> QED  BY <2>1, <3>1, <3>2, <3>3
  <2> QED  BY <1>2, <2>2, <2>3, <2>4
<1>4. 1 \in K /\ g[1] = first
  BY Sizes DEF IsChain
<1>5. g = Eq(g)
  <2> HIDE DEF next
  <2>1. \A k \in K : g[k] = Eq(g)[k]
    BY <1>3, <1>4
  <2> QED  BY <2>1
<1>6. at = Eq(at)
  <2> HIDE DEF g, Eq
  <2> QED  BY <1>5
<1>7. \A k \in K : at[k] = g[k]
  <2> DEFINE S == {k \in K : at[k] # g[k]}
  <2> SUFFICES ASSUME S # {}  PROVE FALSE
    OBVIOUS
  <2> HIDE DEF at, g
  <2>1. PICK k \in S : \A j \in S : k <= j
    BY <1>2, Smallest
  <2>2. at[1] = first
    BY <1>4, <1>6
  <2>3. k # 1
    BY <1>4, <2>1, <2>2
  <2>4. k - 1 \in K /\ g[k] = next[g[k - 1]]
    BY <1>3, <2>1, <2>3
  <2>5. at[k] = next[at[k - 1]]
    <3> HIDE DEF next
    <3> QED  BY <1>6, <2>1, <2>3
  <2>6. k - 1 \notin S
    BY <1>2, <2>1
  <2>7. at[k - 1] = g[k - 1]
    BY <2>4, <2>6
  <2> QED  BY <2>1, <2>4, <2>5, <2>7
<1>8. {k \in K : at[k] \in Cluster} = 1 .. n
  <2> HIDE DEF at
  <2>1. ASSUME NEW k \in K  PROVE at[k] \in Cluster <=> k <= n
    BY <1>2, <1>7, Sizes
  <2> QED  BY <1>1, <2>1, Sizes
<1>9. len = n
  <2>1. Cardinality(1 .. n) = n
    BY FS_Interval
  <2> HIDE DEF at, K
  <2> QED  BY <1>8, <2>1
<1>10. Chain(f, first) = [k \in 1 .. len |-> at[k]]
  BY DEF Chain
<1>11. \A k \in 1 .. n : at[k] = q[k]
  <2> HIDE DEF at
  <2> QED  BY <1>1, <1>7, Sizes
<1> HIDE DEF at, len
<1> QED  BY <1>9, <1>10, <1>11

---------------------------------------------------------------------------
(* The inductive invariant *)

\* The clusters of a node are the first len[n] of ch[n]: the FAT and the entries say
\* so, no cluster is in two places, and the others but 2 are free.
Layout(e, f, ch, len) ==
    /\ f \in FAT /\ ch \in [Node -> [Nat -> Cluster]] /\ len \in [Node -> Nat]
    /\ \A n \in Node : e[n] = None => len[n] = 0
    /\ \A n \in Node : e[n] # None /\ len[n] = 0 => e[n].first = 0
    /\ \A n \in Node : len[n] # 0 => e[n].first = ch[n][1] /\ f[ch[n][len[n]]] = Eof
    /\ \A n \in Node : \A i \in 1 .. len[n] - 1 : f[ch[n][i]] = ch[n][i + 1]
    /\ \A m, n \in Node : \A i \in 1 .. len[m], j \in 1 .. len[n] :
            ch[m][i] = ch[n][j] => m = n /\ i = j
    /\ \A n \in Node : \A i \in 1 .. len[n] : ch[n][i] # 2
    /\ \A c \in Cluster : f[c] # 0 <=> c = 2 \/ \E n \in Node : \E i \in 1 .. len[n] : c = ch[n][i]

\* The clusters a node needs.
Needed(e, n) ==
    IF e[n] = None THEN 0 ELSE IF n \in File THEN Clusters(e[n].size) ELSE 1

Position(v) == v.proc * ClusterSize + v.off

\* The cursor of a reader, and of a writer, of a file whose clusters are the first k
\* of q: behind the last cluster a reader is in none, a writer stays on it.
ReaderOK(v, q, k) ==
    /\ Position(v) <= v.size
    /\ v.off < ClusterSize \/ Position(v) = v.size
    /\ v.cur = IF v.proc < k THEN q[v.proc + 1] ELSE IF k = 0 THEN 0 ELSE Eof

WriterOK(v, q, k) ==
    /\ v.off < ClusterSize
    /\ Position(v) = IF IsFirstWrite(v) THEN 0 ELSE v.size
    /\ v.cur = IF k = 0 THEN 0 ELSE IF v.proc < k THEN q[v.proc + 1] ELSE q[k]

CursorOK(v, q, k) ==
    IF v.node \notin File THEN v.mode = "READ"
    ELSE IF v.mode = "READ" THEN ReaderOK(v, q, k) ELSE WriterOK(v, q, k)

\* The volume and the cursors of the open nodes.
VolumeOK(e, f, nd, ch, len) ==
    /\ Layout(e, f, ch, len)
    /\ \A n \in Node : len[n] = Needed(e, n)
    /\ \A h \in Handle : nd[h] # None => CursorOK(nd[h], ch[nd[h].node], len[nd[h].node])

\* An open node has a copy of its entry, and the node of a writer is open once.
NodesOK(e, nd) ==
    /\ \A h \in Handle : nd[h] # None =>
            /\ e[nd[h].node] # None
            /\ nd[h].first = e[nd[h].node].first /\ nd[h].size = e[nd[h].node].size
    /\ \A h, k \in Handle : h # k /\ nd[h] # None /\ nd[k] # None /\ nd[h].node = nd[k].node =>
            nd[h].mode = "READ"

HandlesOf(nd, n) == {h \in Handle : nd[h] # None /\ nd[h].node = n}

\* The reference count of a node is the number of its open handles.
RefsOK(nd, r) ==
    \A n \in Node : IF HandlesOf(nd, n) = {} THEN r[n] = None
                    ELSE r[n] # None /\ r[n].count = Cardinality(HandlesOf(nd, n))

Typed(e, d, nd, r) ==
    /\ e \in [Node -> Entry \cup {None}]
    /\ d \in [Cluster -> [1 .. ClusterSize -> 0 .. MaxSize]]
    /\ nd \in [Handle -> FATNode \cup {None}]
    /\ r \in [Node -> References \cup {None}]

IInv ==
    /\ Typed(entry, data, node, refs)
    /\ \E ch, len : VolumeOK(entry, fat, node, ch, len)
    /\ NodesOK(entry, node)
    /\ RefsOK(node, refs)

---------------------------------------------------------------------------
(* What the invariant says *)

\* The sequence s is the first n clusters of q.
Lists(s, q, n) ==
    /\ s \in Seq(Cluster) /\ Len(s) = n /\ DOMAIN s = 1 .. n
    /\ s = << >> <=> n = 0
    /\ \A k \in 1 .. n : s[k] = q[k]
    /\ n > 0 => Last(s) = q[n]
    /\ \A c : c \in ToSet(s) <=> \E k \in 1 .. n : c = q[k]

LEMMA ChainSeq ==
    ASSUME NEW n \in Nat, NEW q \in [Nat -> Cluster]
    PROVE  Lists([k \in 1 .. n |-> q[k]], q, n)
<1> DEFINE s == [k \in 1 .. n |-> q[k]]
<1>1. s \in Seq(Cluster) /\ Len(s) = n /\ DOMAIN s = 1 .. n
  OBVIOUS
<1>2. s = << >> <=> n = 0
  BY <1>1
<1>3. \A k \in 1 .. n : s[k] = q[k]
  OBVIOUS
<1>4. n > 0 => Last(s) = q[n]
  BY <1>1, <1>3 DEF Last
<1>5. \A c : c \in ToSet(s) <=> \E k \in 1 .. n : c = q[k]
  BY <1>1, <1>3 DEF ToSet
<1> HIDE DEF s
<1>6. Lists(s, q, n)
  BY <1>1, <1>2, <1>3, <1>4, <1>5 DEF Lists
<1> QED  BY <1>6 DEF s

\* The chain of a node that exists.
LEMMA LayoutChain ==
    ASSUME NEW e, NEW f, NEW ch, NEW len, Layout(e, f, ch, len), NEW n \in Node, e[n] # None
    PROVE  Lists(Chain(f, e[n].first), ch[n], len[n])
<1>1. f \in FAT /\ ch[n] \in [Nat -> Cluster] /\ len[n] \in Nat
  BY DEF Layout
<1>2. IsChain(f, e[n].first, ch[n], len[n])
  <2>1. \A i, j \in 1 .. len[n] : ch[n][i] = ch[n][j] => i = j
    BY DEF Layout
  <2>2. IF len[n] = 0 THEN e[n].first = 0 ELSE e[n].first = ch[n][1] /\ f[ch[n][len[n]]] = Eof
    BY DEF Layout
  <2>3. \A i \in 1 .. len[n] - 1 : f[ch[n][i]] = ch[n][i + 1]
    BY DEF Layout
  <2> QED  BY <2>1, <2>2, <2>3 DEF IsChain
<1>3. Chain(f, e[n].first) = [k \in 1 .. len[n] |-> ch[n][k]]
  BY <1>1, <1>2, ChainIs
<1>4. Lists([k \in 1 .. len[n] |-> ch[n][k]], ch[n], len[n])
  BY <1>1, ChainSeq
<1> QED  BY <1>3, <1>4

LEMMA NoneFacts ==
    /\ \A v \in Entry : v # None
    /\ \A v \in FATNode : v # None
    /\ \A v \in References : v # None
BY NoneIsNoRecord

LEMMA CursorFollows ==
    ASSUME NEW v \in FATNode, v.node \in File, NEW q \in [Nat -> Cluster],
           CursorOK(v, q, Clusters(v.size))
    PROVE  CursorOnCluster(v)
<1> DEFINE k == Clusters(v.size)
<1>1. v.proc \in Nat /\ v.off \in Nat /\ v.size \in Nat
  BY Sizes DEF FATNode
<1>2. k \in Nat /\ v.size <= k * ClusterSize /\ (v.size > 0 => k > 0)
  BY <1>1, ClustersHold
<1>3. v.mode = "READ" => ReaderOK(v, q, k)
  BY DEF CursorOK
<1>4. v.mode # "READ" => WriterOK(v, q, k)
  BY DEF CursorOK
<1> HIDE DEF k
<1>5. CASE v.mode = "READ"
  <2>1. /\ Position(v) <= v.size
        /\ v.cur = IF v.proc < k THEN q[v.proc + 1] ELSE IF k = 0 THEN 0 ELSE Eof
    BY <1>3, <1>5 DEF ReaderOK
  <2>2. v.proc + 1 \in Nat
    BY <1>1
  <2>3. q[v.proc + 1] \in Cluster
    BY <2>2
  <2>4. v.cur = 0 => v.size = 0
    BY <1>1, <1>2, <2>1, <2>3, Sizes
  <2>5. ASSUME v.cur = Eof  PROVE v.proc * ClusterSize + v.off = v.size
    <3>1. k <= v.proc
      BY <1>1, <1>2, <2>1, <2>3, <2>5, Sizes
    <3>2. k * ClusterSize <= v.proc * ClusterSize
      BY <1>1, <1>2, <3>1, Sizes
    <3>3. k * ClusterSize \in Nat /\ v.proc * ClusterSize \in Nat
      BY <1>1, <1>2, Sizes
    <3> QED  BY <1>1, <1>2, <2>1, <3>2, <3>3 DEF Position
  <2> QED  BY <1>5, <2>4, <2>5 DEF CursorOnCluster
<1>6. CASE v.mode # "READ"
  <2>1. v.cur = IF k = 0 THEN 0 ELSE IF v.proc < k THEN q[v.proc + 1] ELSE q[k]
    BY <1>4, <1>6 DEF WriterOK
  <2>2. v.proc + 1 \in Nat
    BY <1>1
  <2>3. q[v.proc + 1] \in Cluster /\ q[k] \in Cluster
    BY <1>2, <2>2
  <2> QED  BY <1>1, <1>2, <2>1, <2>3, Sizes DEF CursorOnCluster
<1> QED  BY <1>5, <1>6

LEMMA TypeFollows == IInv => FilesTypeOK
<1> SUFFICES ASSUME IInv  PROVE FilesTypeOK
  OBVIOUS
<1>1. fat \in FAT
  BY DEF IInv, VolumeOK, Layout
<1>2. ASSUME NEW h \in Open, node[h].node \in File  PROVE CursorOnCluster(node[h])
  <2>1. PICK ch, len : VolumeOK(entry, fat, node, ch, len)
    BY DEF IInv
  <2> DEFINE n == node[h].node
  <2>2. /\ h \in Handle /\ node[h] # None /\ node[h] \in FATNode /\ n \in Node
        /\ entry[n] # None /\ node[h].size = entry[n].size
    BY <1>2 DEF Open, IInv, Typed, NodesOK, Node
  <2>3. len[n] = Clusters(node[h].size) /\ ch[n] \in [Nat -> Cluster]
    BY <1>2, <2>1, <2>2 DEF VolumeOK, Needed, Layout
  <2>4. CursorOK(node[h], ch[n], len[n])
    BY <2>1, <2>2 DEF VolumeOK
  <2> QED  BY <1>2, <2>2, <2>3, <2>4, CursorFollows
<1> QED  BY <1>1, <1>2 DEF IInv, Typed, FilesTypeOK, FAT, Open

LEMMA ChainsFollow == IInv => ChainsMatchFiles
<1> SUFFICES ASSUME IInv  PROVE ChainsMatchFiles
  OBVIOUS
<1>1. PICK ch, len : VolumeOK(entry, fat, node, ch, len)
  BY DEF IInv
<1>2. Layout(entry, fat, ch, len) /\ \A n \in Node : len[n] = Needed(entry, n)
  BY <1>1 DEF VolumeOK
<1>3. ch \in [Node -> [Nat -> Cluster]] /\ len \in [Node -> Nat]
  BY <1>2 DEF Layout
<1>4. ASSUME NEW n \in Existing
      PROVE  /\ n \in Node /\ entry[n] # None
             /\ Len(ChainOf(n)) = len[n]
             /\ ChainOf(n) = << >> <=> len[n] = 0
             /\ len[n] > 0 => Last(ChainOf(n)) = ch[n][len[n]]
             /\ \A c : c \in ToSet(ChainOf(n)) <=> \E k \in 1 .. len[n] : c = ch[n][k]
  <2>1. n \in Node /\ entry[n] # None
    BY DEF Existing
  <2>2. ChainOf(n) = Chain(fat, entry[n].first)
    BY DEF ChainOf
  <2>3. Lists(ChainOf(n), ch[n], len[n])
    BY <1>2, <2>1, <2>2, LayoutChain
  <2> QED  BY <2>1, <2>3 DEF Lists
<1>5. ASSUME NEW n \in Existing
      PROVE  /\ Len(ChainOf(n)) = IF n \in File THEN Clusters(entry[n].size) ELSE 1
             /\ ChainOf(n) # << >> => fat[Last(ChainOf(n))] = Eof
  <2>1. Len(ChainOf(n)) = IF n \in File THEN Clusters(entry[n].size) ELSE 1
    <3>1. n \in Node /\ entry[n] # None /\ Len(ChainOf(n)) = len[n]
      BY <1>4
    <3>2. len[n] = Needed(entry, n)
      BY <1>2, <3>1
    <3> QED  BY <3>1, <3>2 DEF Needed
  <2>2. ASSUME ChainOf(n) # << >>  PROVE fat[Last(ChainOf(n))] = Eof
    <3>1. len[n] # 0 /\ len[n] > 0
      BY <1>3, <1>4, <2>2
    <3>2. fat[ch[n][len[n]]] = Eof
      BY <1>2, <1>4, <3>1 DEF Layout
    <3> QED  BY <1>4, <3>1, <3>2
  <2> QED  BY <2>1, <2>2
<1>6. ASSUME NEW m \in Existing, NEW n \in Existing, m # n,
             NEW c, c \in ToSet(ChainOf(m)), c \in ToSet(ChainOf(n))
      PROVE  FALSE
  <2>1. PICK i \in 1 .. len[m], j \in 1 .. len[n] : ch[m][i] = ch[n][j]
    BY <1>4, <1>6
  <2> QED  BY <1>2, <1>4, <1>6, <2>1 DEF Layout
<1>7. ASSUME NEW c \in Cluster
      PROVE  fat[c] # 0 <=> c = 2 \/ \E n \in Existing : c \in ToSet(ChainOf(n))
  <2>1. fat[c] # 0 <=> c = 2 \/ \E n \in Node : \E i \in 1 .. len[n] : c = ch[n][i]
    BY <1>2 DEF Layout
  <2>2. \A n \in Node : \A i \in 1 .. len[n] : n \in Existing
    BY <1>2, <1>3 DEF Layout, Existing
  <2> QED  BY <1>4, <2>1, <2>2
<1>8. \A n \in Existing : \A c : c \in ToSet(ChainOf(n)) => c \in Cluster
  BY <1>3, <1>4
<1>9. Cluster \ FreeClusters(fat) = {2} \cup UNION {ToSet(ChainOf(n)) : n \in Existing}
  <2>1. ASSUME NEW c \in Cluster \ FreeClusters(fat)
        PROVE  c \in {2} \cup UNION {ToSet(ChainOf(n)) : n \in Existing}
    BY <1>7 DEF FreeClusters
  <2>2. ASSUME NEW c \in {2} \cup UNION {ToSet(ChainOf(n)) : n \in Existing}
        PROVE  c \in Cluster \ FreeClusters(fat)
    <3>1. c \in Cluster
      BY <1>8, Sizes
    <3> QED  BY <1>7, <3>1 DEF FreeClusters
  <2> QED  BY <2>1, <2>2
<1> QED  BY <1>5, <1>6, <1>9 DEF ChainsMatchFiles

LEMMA OpenFollows == IInv => OpenNodeExists
<1> SUFFICES ASSUME IInv  PROVE OpenNodeExists
  OBVIOUS
<1>1. \A h \in Open : entry[node[h].node] # None
  BY DEF IInv, NodesOK, Open
<1>2. ASSUME NEW n \in Node
      PROVE  LET k == Cardinality({h \in Open : node[h].node = n})
             IN  IF k = 0 THEN refs[n] = None ELSE refs[n] # None /\ refs[n].count = k
  <2>1. {h \in Open : node[h].node = n} = HandlesOf(node, n)
    BY DEF HandlesOf, Open
  <2>2. IsFiniteSet(HandlesOf(node, n))
    BY FileConstants, FS_Subset DEF HandlesOf
  <2>3. Cardinality(HandlesOf(node, n)) = 0 <=> HandlesOf(node, n) = {}
    BY <2>2, FS_EmptySet
  <2> QED  BY <2>1, <2>3 DEF IInv, RefsOK
<1> QED  BY <1>1, <1>2 DEF OpenNodeExists

---------------------------------------------------------------------------
(* Changes of the layout *)

\* An entry may change as long as it names the first cluster.
LEMMA EntryChanges ==
    ASSUME NEW e, NEW f, NEW ch, NEW len, NEW e2, Layout(e, f, ch, len),
           \A m \in Node : /\ e2[m] = None => len[m] = 0
                           /\ e2[m] # None /\ len[m] = 0 => e2[m].first = 0
                           /\ len[m] # 0 => e2[m].first = e[m].first
    PROVE  Layout(e2, f, ch, len)
BY DEF Layout

\* The FAT and the chains with one more cluster, c, of the node n.
FatWith(f, ch, len, n, c) ==
    [x \in Cluster |-> IF x = c THEN Eof
                       ELSE IF len[n] > 0 /\ x = ch[n][len[n]] THEN c ELSE f[x]]
ChainsWith(ch, len, n, c) == [ch EXCEPT ![n] = [ch[n] EXCEPT ![len[n] + 1] = c]]
LensWith(len, n) == [len EXCEPT ![n] = len[n] + 1]

\* FileEntryManager::allocate_cluster(), and the cluster of a new directory: a free
\* cluster becomes the last one of a chain.
LEMMA ChainGrows ==
    ASSUME NEW e, NEW f, NEW ch, NEW len, Layout(e, f, ch, len),
           NEW n \in Node, NEW c \in Cluster, f[c] = 0, NEW e2, NEW f2, NEW ch2, NEW len2,
           \A m \in Node : m # n => e2[m] = e[m],
           e2[n] # None, e2[n].first = IF len[n] = 0 THEN c ELSE e[n].first,
           f2 = FatWith(f, ch, len, n, c), ch2 = ChainsWith(ch, len, n, c), len2 = LensWith(len, n)
    PROVE  Layout(e2, f2, ch2, len2)
<1> USE DEF FatWith, ChainsWith, LensWith
<1>1. f \in FAT /\ ch \in [Node -> [Nat -> Cluster]] /\ len \in [Node -> Nat]
  BY DEF Layout
<1>2. /\ f2 \in FAT
      /\ ch2 \in [Node -> [Nat -> Cluster]]
      /\ len2 \in [Node -> Nat]
  BY <1>1, Sizes DEF FAT
<1>3. /\ len2[n] = len[n] + 1 /\ ch2[n][len2[n]] = c
      /\ \A i \in Nat : i # len[n] + 1 => ch2[n][i] = ch[n][i]
      /\ \A m \in Node : m # n => len2[m] = len[m] /\ ch2[m] = ch[m]
  BY <1>1
<1>4. \A m \in Node : \A i \in 1 .. len[m] : ch2[m][i] = ch[m][i] /\ ch[m][i] # c
  <2>1. \A m \in Node : \A i \in 1 .. len[m] : ch[m][i] # c
    BY <1>1 DEF Layout
  <2>2. \A m \in Node : \A i \in 1 .. len[m] : ch2[m][i] = ch[m][i]
    BY <1>1, <1>3
  <2> QED  BY <2>1, <2>2
<1>5. c # 2
  BY DEF Layout
<1>6. \A m \in Node : \A i \in 1 .. len2[m] : i \in 1 .. len[m] \/ (m = n /\ i = len2[n])
  BY <1>1, <1>3
<1>7. \A m \in Node : e2[m] = None => len2[m] = 0
  BY <1>1, <1>3 DEF Layout
<1>8. \A m \in Node : e2[m] # None /\ len2[m] = 0 => e2[m].first = 0
  BY <1>1, <1>3 DEF Layout
<1>9. \A m \in Node : len2[m] # 0 => e2[m].first = ch2[m][1]
  <2>1. ASSUME NEW m \in Node, m # n, len2[m] # 0  PROVE e2[m].first = ch2[m][1]
    BY <1>3, <2>1 DEF Layout
  <2>2. CASE len[n] = 0
    BY <1>3, <2>2, <2>1
  <2>3. CASE len[n] # 0
    <3>1. e2[n].first = ch[n][1]
      BY <2>3 DEF Layout
    <3>2. ch2[n][1] = ch[n][1]
      BY <1>1, <1>3, <2>3
    <3> QED  BY <2>1, <3>1, <3>2
  <2> QED  BY <2>2, <2>3
<1>10. \A m \in Node : len2[m] # 0 => f2[ch2[m][len2[m]]] = Eof
  <2>1. f2[c] = Eof
    OBVIOUS
  <2>2. ASSUME NEW m \in Node, m # n, len2[m] # 0  PROVE f2[ch2[m][len2[m]]] = Eof
    <3> DEFINE x == ch[m][len[m]]
    <3>1. ch2[m][len2[m]] = x /\ len[m] \in 1 .. len[m] /\ x \in Cluster
      BY <1>1, <1>3, <2>2
    <3>2. f[x] = Eof /\ x # c
      BY <1>3, <1>4, <2>2, <3>1 DEF Layout
    <3>3. len[n] > 0 => x # ch[n][len[n]]
      BY <1>1, <2>2, <3>1 DEF Layout
    <3> HIDE DEF x
    <3> QED  BY <3>1, <3>2, <3>3
  <2> QED  BY <1>3, <2>1, <2>2
<1>11. \A m \in Node : \A i \in 1 .. len2[m] - 1 : f2[ch2[m][i]] = ch2[m][i + 1]
  <2> SUFFICES ASSUME NEW m \in Node, NEW i \in 1 .. len2[m] - 1
               PROVE  f2[ch2[m][i]] = ch2[m][i + 1]
    OBVIOUS
  <2>1. i \in 1 .. len[m]
    BY <1>1, <1>3
  <2>2. ch2[m][i] = ch[m][i] /\ ch[m][i] \in Cluster /\ ch[m][i] # c
    BY <1>1, <1>4, <2>1
  <2>3. CASE m = n /\ i = len[n]
    <3>1. f2[ch[n][len[n]]] = c
      BY <1>1, <2>1, <2>2, <2>3
    <3> QED  BY <1>3, <2>2, <2>3, <3>1
  <2>4. CASE ~(m = n /\ i = len[n])
    <3>1. i \in 1 .. len[m] - 1 /\ i + 1 \in 1 .. len[m]
      BY <1>1, <1>3, <2>1, <2>4
    <3>2. f[ch[m][i]] = ch[m][i + 1] /\ ch2[m][i + 1] = ch[m][i + 1]
      BY <1>4, <3>1 DEF Layout
    <3>3. len[n] > 0 => ch[m][i] # ch[n][len[n]]
      BY <1>1, <2>1, <2>4 DEF Layout
    <3> QED  BY <2>2, <3>2, <3>3
  <2> QED  BY <2>3, <2>4
<1>12. \A l, m \in Node : \A i \in 1 .. len2[l], j \in 1 .. len2[m] :
            ch2[l][i] = ch2[m][j] => l = m /\ i = j
  <2> SUFFICES ASSUME NEW l \in Node, NEW m \in Node, NEW i \in 1 .. len2[l], NEW j \in 1 .. len2[m],
                      ch2[l][i] = ch2[m][j]
               PROVE  l = m /\ i = j
    OBVIOUS
  <2>1. CASE i \in 1 .. len[l] /\ j \in 1 .. len[m]
    BY <1>4, <2>1 DEF Layout
  <2>2. CASE ~(i \in 1 .. len[l]) \/ ~(j \in 1 .. len[m])
    BY <1>3, <1>4, <1>6, <2>2
  <2> QED  BY <2>1, <2>2
<1>13. \A m \in Node : \A i \in 1 .. len2[m] : ch2[m][i] # 2
  <2>1. \A m \in Node : \A i \in 1 .. len[m] : ch2[m][i] # 2
    BY <1>4 DEF Layout
  <2> QED  BY <1>3, <1>5, <1>6, <2>1
<1>14. ASSUME NEW x \in Cluster
       PROVE  f2[x] # 0 <=> x = 2 \/ \E m \in Node : \E i \in 1 .. len2[m] : x = ch2[m][i]
  <2>1. f[x] # 0 <=> x = 2 \/ \E m \in Node : \E i \in 1 .. len[m] : x = ch[m][i]
    BY DEF Layout
  <2>2. CASE x = c
    <3>1. len2[n] \in 1 .. len2[n]
      BY <1>1, <1>3
    <3> QED  BY <1>3, <2>2, <3>1, Sizes
  <2>3. CASE x # c
    <3>1. f2[x] # 0 <=> f[x] # 0
      <4>1. len[n] > 0 => f[ch[n][len[n]]] # 0
        BY <1>1, Sizes DEF Layout
      <4> QED  BY <2>3, <4>1, Sizes
    <3>2. ASSUME NEW m \in Node, NEW i \in 1 .. len[m], x = ch[m][i]
          PROVE  i \in 1 .. len2[m] /\ x = ch2[m][i]
      BY <1>1, <1>3, <1>4, <3>2
    <3>3. ASSUME NEW m \in Node, NEW i \in 1 .. len2[m], x = ch2[m][i]
          PROVE  i \in 1 .. len[m] /\ x = ch[m][i]
      BY <1>3, <1>4, <1>6, <2>3, <3>3
    <3> QED  BY <2>1, <3>1, <3>2, <3>3
  <2> QED  BY <2>2, <2>3
<1> QED  BY <1>2, <1>7, <1>8, <1>9, <1>10, <1>11, <1>12, <1>13, <1>14 DEF Layout

\* The end of FATNode::write(), and delete_file(): the last clusters of chains, or all
\* of them, become free.
LEMMA ChainsAreCut ==
    ASSUME NEW e, NEW f, NEW ch, NEW len, Layout(e, f, ch, len),
           NEW e2, NEW f2 \in FAT, NEW len2 \in [Node -> Nat],
           \A m \in Node : /\ len2[m] <= len[m]
                           /\ e2[m] = None => len2[m] = 0
                           /\ e2[m] # None /\ len2[m] = 0 => e2[m].first = 0
                           /\ len2[m] # 0 => e2[m].first = e[m].first,
           \A m \in Node : \A i \in len2[m] + 1 .. len[m] : f2[ch[m][i]] = 0,
           \A m \in Node : \A i \in 1 .. len2[m] :
                f2[ch[m][i]] = IF i = len2[m] THEN Eof ELSE f[ch[m][i]],
           \A c \in Cluster : (\A m \in Node : \A i \in 1 .. len[m] : c # ch[m][i]) => f2[c] = f[c]
    PROVE  Layout(e2, f2, ch, len2)
<1>1. f \in FAT /\ ch \in [Node -> [Nat -> Cluster]] /\ len \in [Node -> Nat]
  BY DEF Layout
<1>2. \A m \in Node : \A i \in 1 .. len2[m] : i \in 1 .. len[m]
  BY <1>1
<1>3. \A m \in Node : len2[m] # 0 => e2[m].first = ch[m][1] /\ f2[ch[m][len2[m]]] = Eof
  <2> SUFFICES ASSUME NEW m \in Node, len2[m] # 0
               PROVE  e2[m].first = ch[m][1] /\ f2[ch[m][len2[m]]] = Eof
    OBVIOUS
  <2>1. len2[m] \in 1 .. len2[m] /\ len[m] # 0
    BY <1>1
  <2>2. e2[m].first = e[m].first /\ e[m].first = ch[m][1]
    BY <2>1 DEF Layout
  <2> QED  BY <2>1, <2>2
<1>4. \A m \in Node : \A i \in 1 .. len2[m] - 1 : f2[ch[m][i]] = ch[m][i + 1]
  <2> SUFFICES ASSUME NEW m \in Node, NEW i \in 1 .. len2[m] - 1  PROVE f2[ch[m][i]] = ch[m][i + 1]
    OBVIOUS
  <2>1. i \in 1 .. len2[m] /\ i # len2[m] /\ i \in 1 .. len[m] - 1
    BY <1>1
  <2>2. f[ch[m][i]] = ch[m][i + 1]
    BY <2>1 DEF Layout
  <2> QED  BY <2>1, <2>2
<1>5. \A l, m \in Node : \A i \in 1 .. len2[l], j \in 1 .. len2[m] :
            ch[l][i] = ch[m][j] => l = m /\ i = j
  BY <1>2 DEF Layout
<1>6. \A m \in Node : \A i \in 1 .. len2[m] : ch[m][i] # 2
  BY <1>2 DEF Layout
<1>11. \A l, m \in Node : \A i \in 1 .. len[l], j \in 1 .. len[m] :
            ch[l][i] = ch[m][j] => l = m /\ i = j
  BY DEF Layout
<1>7. ASSUME NEW x \in Cluster
      PROVE  f2[x] # 0 <=> x = 2 \/ \E m \in Node : \E i \in 1 .. len2[m] : x = ch[m][i]
  <2>1. f[x] # 0 <=> x = 2 \/ \E m \in Node : \E i \in 1 .. len[m] : x = ch[m][i]
    BY DEF Layout
  <2>2. CASE \E m \in Node : \E i \in 1 .. len[m] : x = ch[m][i]
    <3>1. PICK m \in Node : \E i \in 1 .. len[m] : x = ch[m][i]
      BY <2>2
    <3>2. PICK i \in 1 .. len[m] : x = ch[m][i]
      BY <3>1
    <3>3. x # 2 /\ f[x] # 0
      BY <2>1, <3>2 DEF Layout
    <3>4. CASE i <= len2[m]
      <4>1. i \in 1 .. len2[m]
        BY <1>1, <3>4
      <4>2. f2[x] # 0
        BY <3>2, <3>3, <4>1, Sizes
      <4> QED  BY <3>2, <4>1, <4>2
    <3>5. CASE i > len2[m]
      <4>1. i \in len2[m] + 1 .. len[m]
        BY <1>1, <3>5
      <4>2. f2[x] = 0
        BY <3>2, <4>1
      <4>3. ASSUME NEW l \in Node, NEW j \in 1 .. len2[l], x = ch[l][j]  PROVE FALSE
        <5>1. j \in 1 .. len[l]
          BY <1>2
        <5>2. ch[l][j] = ch[m][i]
          BY <3>2, <4>3
        <5>3. l = m /\ j = i
          BY <1>11, <5>1, <5>2
        <5> QED  BY <1>1, <3>5, <5>3
      <4> QED  BY <3>3, <4>2, <4>3
    <3> QED  BY <1>1, <3>4, <3>5
  <2>3. CASE ~(\E m \in Node : \E i \in 1 .. len[m] : x = ch[m][i])
    <3>1. f2[x] = f[x]
      BY <2>3
    <3> QED  BY <1>2, <2>1, <2>3, <3>1
  <2> QED  BY <2>2, <2>3
<1>8. \A m \in Node : e2[m] = None => len2[m] = 0
  OBVIOUS
<1>9. \A m \in Node : e2[m] # None /\ len2[m] = 0 => e2[m].first = 0
  OBVIOUS
<1>10. f2 \in FAT /\ ch \in [Node -> [Nat -> Cluster]] /\ len2 \in [Node -> Nat]
  BY <1>1
<1> QED  BY <1>3, <1>4, <1>5, <1>6, <1>7, <1>8, <1>9, <1>10 DEF Layout

---------------------------------------------------------------------------
(* The start, and the new nodes *)

LEMMA InitOK == Init => IInv
<1> SUFFICES ASSUME Init  PROVE IInv
  OBVIOUS
<1> DEFINE ch == [n \in Node |-> [i \in Nat |-> 2]]
           len == [n \in Node |-> 0]
<1>1. Typed(entry, data, node, refs)
  <2>1. \A i \in 1 .. ClusterSize : 0 \in 0 .. MaxSize
    BY Sizes
  <2> QED  BY <2>1 DEF Init, Typed
<1>2. Layout(entry, fat, ch, len)
  <2>1. fat \in FAT
    BY Sizes DEF Init, FAT
  <2>2. ch \in [Node -> [Nat -> Cluster]] /\ len \in [Node -> Nat]
    BY Sizes
  <2>3. \A n \in Node : len[n] = 0 /\ entry[n] = None
    BY DEF Init
  <2>4. \A c \in Cluster : fat[c] # 0 <=> c = 2
    BY Sizes DEF Init
  <2> HIDE DEF ch, len
  <2> QED  BY <2>1, <2>2, <2>3, <2>4 DEF Layout
<1>3. \A n \in Node : len[n] = Needed(entry, n)
  BY DEF Init, Needed
<1>4. \A h \in Handle : node[h] = None
  BY DEF Init
<1>5. VolumeOK(entry, fat, node, ch, len)
  <2> HIDE DEF ch, len
  <2> QED  BY <1>2, <1>3, <1>4 DEF VolumeOK
<1>6. NodesOK(entry, node)
  BY <1>4 DEF NodesOK
<1>7. RefsOK(node, refs)
  <2>1. \A n \in Node : HandlesOf(node, n) = {}
    BY <1>4 DEF HandlesOf
  <2> QED  BY <2>1 DEF RefsOK, Init
<1> HIDE DEF ch, len
<1> QED  BY <1>1, <1>5, <1>6, <1>7 DEF IInv

\* What the parts of a state are, for the proofs of the actions.
LEMMA Parts ==
    ASSUME IInv
    PROVE  /\ entry \in [Node -> Entry \cup {None}]
           /\ data \in [Cluster -> [1 .. ClusterSize -> 0 .. MaxSize]]
           /\ node \in [Handle -> FATNode \cup {None}]
           /\ refs \in [Node -> References \cup {None}]
           /\ fat \in FAT
           /\ \A n \in Node : entry[n] # None =>
                /\ entry[n] \in Entry
                /\ entry[n].first \in {0} \cup Cluster /\ entry[n].size \in 0 .. MaxSize
           /\ \A h \in Handle : node[h] # None =>
                /\ node[h] \in FATNode
                /\ node[h].node \in Node /\ node[h].mode \in {"READ", "WRITE", "APPEND"}
                /\ node[h].first \in {0} \cup Cluster /\ node[h].size \in 0 .. MaxSize
                /\ node[h].proc \in Nat /\ node[h].cur \in {0, Eof} \cup Cluster
                /\ node[h].off \in 0 .. ClusterSize
           /\ \A n \in Node : refs[n] # None =>
                /\ refs[n] \in References
                /\ refs[n].count \in 1 .. Cardinality(Handle) /\ refs[n].del \in BOOLEAN
<1>1. Typed(entry, data, node, refs) /\ fat \in FAT
  BY DEF IInv, VolumeOK, Layout
<1>2. \A n \in Node : entry[n] # None =>
        /\ entry[n] \in Entry
        /\ entry[n].first \in {0} \cup Cluster /\ entry[n].size \in 0 .. MaxSize
  BY <1>1 DEF Typed, Entry
<1>3. \A h \in Handle : node[h] # None =>
        /\ node[h] \in FATNode
        /\ node[h].node \in Node /\ node[h].mode \in {"READ", "WRITE", "APPEND"}
        /\ node[h].first \in {0} \cup Cluster /\ node[h].size \in 0 .. MaxSize
        /\ node[h].proc \in Nat /\ node[h].cur \in {0, Eof} \cup Cluster
        /\ node[h].off \in 0 .. ClusterSize
  BY <1>1 DEF Typed, FATNode
<1>4. \A n \in Node : refs[n] # None =>
        /\ refs[n] \in References
        /\ refs[n].count \in 1 .. Cardinality(Handle) /\ refs[n].del \in BOOLEAN
  BY <1>1 DEF Typed, References
<1> QED  BY <1>1, <1>2, <1>3, <1>4 DEF Typed

\* The cursors of nodes whose clusters are where they were.
LEMMA CursorsStay ==
    ASSUME NEW nd, NEW ch, NEW len, NEW ch2, NEW len2,
           \A h \in Handle : nd[h] # None => CursorOK(nd[h], ch[nd[h].node], len[nd[h].node]),
           \A h \in Handle : nd[h] # None =>
                ch2[nd[h].node] = ch[nd[h].node] /\ len2[nd[h].node] = len[nd[h].node]
    PROVE  \A h \in Handle : nd[h] # None => CursorOK(nd[h], ch2[nd[h].node], len2[nd[h].node])
OBVIOUS

LEMMA CreateOK ==
    ASSUME IInv, NEW n \in Node, Create(n)
    PROVE  IInv'
<1>1. PICK ch, len : VolumeOK(entry, fat, node, ch, len)
  BY DEF IInv
<1>2. /\ Layout(entry, fat, ch, len) /\ \A m \in Node : len[m] = Needed(entry, m)
      /\ \A h \in Handle : node[h] # None => CursorOK(node[h], ch[node[h].node], len[node[h].node])
  BY <1>1 DEF VolumeOK
<1>3. ch \in [Node -> [Nat -> Cluster]] /\ len \in [Node -> Nat]
  BY <1>2 DEF Layout
<1>4. /\ entry[n] = None /\ data' = data /\ node' = node /\ refs' = refs
      /\ n \in Directory => FreeClusters(fat) # {}
  BY DEF Create
<1> DEFINE c == IF n \in Directory THEN Min(FreeClusters(fat)) ELSE 0
<1>5. entry' = [entry EXCEPT ![n] = [first |-> c, size |-> 0]]
      /\ fat' = IF c = 0 THEN fat ELSE [fat EXCEPT ![c] = Eof]
  BY DEF Create
<1>6. n \in Directory => c \in Cluster /\ fat[c] = 0
  <2> SUFFICES ASSUME n \in Directory  PROVE c \in FreeClusters(fat)
    BY DEF FreeClusters
  <2>1. FreeClusters(fat) \in SUBSET Nat
    BY Sizes DEF FreeClusters
  <2> QED  BY <1>4, <2>1, MinIsMember
<1>7. n \notin Directory => c = 0
  OBVIOUS
<1> HIDE DEF c
<1>8. [first |-> c, size |-> 0] \in Entry
  BY <1>6, <1>7, Sizes DEF Entry
<1>9. /\ entry' \in [Node -> Entry \cup {None}]
      /\ entry'[n] = [first |-> c, size |-> 0] /\ entry'[n] # None
      /\ \A m \in Node : m # n => entry'[m] = entry[m]
  BY <1>5, <1>8, Parts, NoneFacts
<1>10. len[n] = 0
  BY <1>2, <1>4 DEF Needed
<1>11. Typed(entry', data', node', refs')
  BY <1>4, <1>9, Parts DEF Typed
<1>12. \A h \in Handle : node[h] # None => node[h].node \in Node /\ node[h].node # n
  BY <1>4, Parts DEF IInv, NodesOK
<1>13. NodesOK(entry', node')
  BY <1>4, <1>9, <1>12 DEF IInv, NodesOK
<1>14. RefsOK(node', refs')
  BY <1>4 DEF IInv
<1>15. CASE n \in Directory
  <2> DEFINE ch2 == ChainsWith(ch, len, n, c)
             len2 == LensWith(len, n)
  <2>1. fat' = FatWith(fat, ch, len, n, c)
    <3>1. fat' = [fat EXCEPT ![c] = Eof]
      BY <1>5, <1>6, <1>15, Sizes
    <3>2. DOMAIN fat = Cluster /\ ~(len[n] > 0)
      BY <1>10, Parts DEF FAT
    <3> QED  BY <3>1, <3>2 DEF FatWith
  <2>2. entry'[n].first = IF len[n] = 0 THEN c ELSE entry[n].first
    BY <1>9, <1>10
  <2>3. Layout(entry', fat', ch2, len2)
    BY <1>2, <1>6, <1>9, <1>15, <2>1, <2>2, ChainGrows
  <2>4. /\ len2[n] = 1 /\ \A m \in Node : m # n => len2[m] = len[m] /\ ch2[m] = ch[m]
    BY <1>3, <1>10 DEF ChainsWith, LensWith
  <2> HIDE DEF ch2, len2
  <2>5. n \notin File
    BY <1>15, FileConstants
  <2>6. \A m \in Node : len2[m] = Needed(entry', m)
    <3>1. len2[n] = Needed(entry', n)
      BY <1>9, <2>4, <2>5 DEF Needed
    <3>2. ASSUME NEW m \in Node, m # n  PROVE len2[m] = Needed(entry', m)
      <4>1. len2[m] = len[m] /\ entry'[m] = entry[m]
        BY <1>9, <2>4, <3>2
      <4> QED  BY <1>2, <4>1 DEF Needed
    <3> QED  BY <3>1, <3>2
  <2>7. \A h \in Handle : node[h] # None => CursorOK(node[h], ch2[node[h].node], len2[node[h].node])
    BY <1>2, <1>12, <2>4, CursorsStay
  <2>8. VolumeOK(entry', fat', node', ch2, len2)
    BY <1>4, <2>3, <2>6, <2>7 DEF VolumeOK
  <2> QED  BY <1>11, <1>13, <1>14, <2>8 DEF IInv
<1>16. CASE n \notin Directory
  <2>1. fat' = fat /\ entry'[n].first = 0 /\ entry'[n].size = 0
    BY <1>5, <1>7, <1>9, <1>16
  <2>2. Layout(entry', fat', ch, len)
    <3>1. \A m \in Node : /\ entry'[m] = None => len[m] = 0
                          /\ entry'[m] # None /\ len[m] = 0 => entry'[m].first = 0
                          /\ len[m] # 0 => entry'[m].first = entry[m].first
      BY <1>2, <1>9, <1>10, <2>1 DEF Layout
    <3> QED  BY <1>2, <2>1, <3>1, EntryChanges
  <2>3. \A m \in Node : len[m] = Needed(entry', m)
    <3>1. n \in File
      BY <1>16 DEF Node
    <3>2. Clusters(0) = 0
      BY ClustersHold
    <3>3. len[n] = Needed(entry', n)
      BY <1>9, <1>10, <2>1, <3>1, <3>2 DEF Needed
    <3>4. \A m \in Node : m # n => len[m] = Needed(entry', m)
      BY <1>2, <1>9 DEF Needed
    <3> QED  BY <3>3, <3>4
  <2>4. VolumeOK(entry', fat', node', ch, len)
    BY <1>2, <1>4, <2>2, <2>3 DEF VolumeOK
  <2> QED  BY <1>11, <1>13, <1>14, <2>4 DEF IInv
<1> QED  BY <1>15, <1>16

\* A new FATNode: init_file_cursor() puts the cursor where the mode asks for it.
LEMMA NewCursorOK ==
    ASSUME NEW e, NEW f, NEW ch, NEW len, Layout(e, f, ch, len),
           NEW n \in Node, e[n] # None, e[n] \in Entry, len[n] = Needed(e, n),
           NEW mode \in {"READ", "WRITE", "APPEND"}, n \notin File => mode = "READ",
           NEW k, k = InitFileCursor(f, e[n].first, e[n].size, mode),
           NEW v, v = [node |-> n, mode |-> mode, first |-> e[n].first, size |-> e[n].size,
                       proc |-> k.proc, cur |-> k.cur, off |-> k.off]
    PROVE  v \in FATNode /\ CursorOK(v, ch[n], len[n])
<1>1. /\ ch[n] \in [Nat -> Cluster] /\ len[n] \in Nat
      /\ len[n] = 0 => e[n].first = 0
      /\ len[n] # 0 => e[n].first = ch[n][1]
  BY DEF Layout
<1>2. e[n].first \in {0} \cup Cluster /\ e[n].size \in 0 .. MaxSize /\ e[n].size \in Nat
  BY DEF Entry
<1>3. CASE mode # "APPEND"
  <2>1. k = [proc |-> 0, cur |-> e[n].first, off |-> 0]
    BY <1>3 DEF InitFileCursor
  <2>2. v = [node |-> n, mode |-> mode, first |-> e[n].first, size |-> e[n].size,
             proc |-> 0, cur |-> e[n].first, off |-> 0]
    BY <2>1
  <2>3. v \in FATNode
    BY <1>2, <2>2, Sizes DEF FATNode
  <2>4. Position(v) = 0
    BY <2>2, Sizes DEF Position
  <2>5. mode = "WRITE" => IsFirstWrite(v)
    BY <2>2 DEF IsFirstWrite
  <2>6. v.cur = IF len[n] = 0 THEN 0 ELSE ch[n][1]
    BY <1>1, <2>2
  <2>7. mode = "READ" => ReaderOK(v, ch[n], len[n])
    BY <1>1, <1>2, <2>2, <2>4, <2>6, Sizes DEF ReaderOK
  <2>8. mode = "WRITE" => WriterOK(v, ch[n], len[n])
    BY <1>1, <1>2, <2>2, <2>4, <2>5, <2>6, Sizes DEF WriterOK
  <2>9. v.node = n /\ v.mode = mode
    BY <2>2
  <2> QED  BY <1>3, <2>3, <2>7, <2>8, <2>9 DEF CursorOK
<1>4. CASE mode = "APPEND"
  <2> DEFINE s == Chain(f, e[n].first)
             size == e[n].size
             processed == IF size % ClusterSize # 0 THEN Len(s) - 1 ELSE Len(s)
             p == size \div ClusterSize
             o == size % ClusterSize
             last == IF len[n] = 0 THEN 0 ELSE ch[n][len[n]]
  <2>1. Lists(s, ch[n], len[n])
    BY LayoutChain
  <2>2. k = [proc |-> processed, cur |-> IF s = << >> THEN e[n].first ELSE Last(s),
             off |-> size - processed * ClusterSize]
    BY <1>4 DEF InitFileCursor
  <2>3. Len(s) = len[n] /\ (IF s = << >> THEN e[n].first ELSE Last(s)) = last
    <3> HIDE DEF s
    <3> QED  BY <1>1, <2>1 DEF Lists
  <2>4. n \in File /\ len[n] = Clusters(size)
    BY <1>4 DEF Needed
  <2>5. p \in Nat /\ o \in 0 .. ClusterSize - 1 /\ size = p * ClusterSize + o
    BY <1>2, DivMod
  <2>6. Clusters(size) = IF o = 0 THEN p ELSE p + 1
    <3> HIDE DEF p, o
    <3> QED  BY <2>5, ClustersOfSum
  <2>7. processed = p
    <3> HIDE DEF s, p
    <3> QED  BY <2>3, <2>4, <2>5, <2>6
  <2>8. size - p * ClusterSize = o
    <3> HIDE DEF p, o
    <3>1. p * ClusterSize \in Int
      BY <2>5, Sizes
    <3> QED  BY <1>2, <2>5, <3>1, Sizes
  <2>9. k = [proc |-> p, cur |-> last, off |-> o]
    <3> HIDE DEF s, p, o, processed, last, size
    <3> QED  BY <2>2, <2>3, <2>7, <2>8
  <2>10. v = [node |-> n, mode |-> mode, first |-> e[n].first, size |-> size,
              proc |-> p, cur |-> last, off |-> o]
    BY <2>9
  <2> HIDE DEF s, p, o, processed, size
  <2>11. v \in FATNode
    <3>1. last \in {0, Eof} \cup Cluster
      BY <1>1
    <3>2. o \in 0 .. ClusterSize
      BY <2>5, Sizes
    <3> HIDE DEF last
    <3> QED  BY <1>2, <2>5, <2>10, <3>1, <3>2 DEF FATNode, size
  <2>12. Position(v) = size /\ v.size = size /\ v.off < ClusterSize
    BY <2>5, <2>10, Sizes DEF Position
  <2>13. ~IsFirstWrite(v)
    BY <1>4, <2>10 DEF IsFirstWrite
  <2>14. v.cur = IF len[n] = 0 THEN 0 ELSE IF v.proc < len[n] THEN ch[n][v.proc + 1] ELSE ch[n][len[n]]
    <3>1. v.cur = last /\ v.proc = p
      BY <2>10
    <3>2. p < len[n] => p + 1 = len[n]
      BY <2>4, <2>5, <2>6
    <3> QED  BY <3>1, <3>2
  <2>15. WriterOK(v, ch[n], len[n])
    BY <2>12, <2>13, <2>14 DEF WriterOK
  <2>16. v.node = n /\ v.mode = mode
    BY <2>10
  <2> QED  BY <1>4, <2>4, <2>11, <2>15, <2>16 DEF CursorOK
<1> QED  BY <1>3, <1>4

\* The plain uses, and opening directories: nobody writes past a full volume, shares a
\* file with a writer, moves the cursor of a writer or cuts a file to whole clusters.
Plain == Uses \subseteq {"directory"}

\* In nd2 the node n has one handle more than in nd.
OneMore(nd, nd2, n) ==
    /\ \A m : m # n => HandlesOf(nd2, m) = HandlesOf(nd, m)
    /\ HandlesOf(nd2, n) # {}
    /\ Cardinality(HandlesOf(nd, n)) \in Nat
    /\ Cardinality(HandlesOf(nd2, n)) = Cardinality(HandlesOf(nd, n)) + 1
    /\ Cardinality(HandlesOf(nd2, n)) \in 1 .. Cardinality(Handle)
    /\ HandlesOf(nd, n) = {} <=> Cardinality(HandlesOf(nd2, n)) = 1

LEMMA OneMoreHandle ==
    ASSUME NEW nd, NEW nd2, NEW h \in Handle, NEW n,
           nd[h] = None, nd2[h] # None, nd2[h].node = n,
           \A k \in Handle : k # h => nd2[k] = nd[k]
    PROVE  OneMore(nd, nd2, n)
<1>1. HandlesOf(nd, n) \in SUBSET Handle /\ HandlesOf(nd2, n) \in SUBSET Handle
  BY DEF HandlesOf
<1>2. IsFiniteSet(HandlesOf(nd, n)) /\ IsFiniteSet(HandlesOf(nd2, n))
  BY <1>1, FileConstants, FS_Subset
<1>3. \A m : m # n => HandlesOf(nd2, m) = HandlesOf(nd, m)
  BY DEF HandlesOf
<1>4. HandlesOf(nd2, n) = HandlesOf(nd, n) \cup {h} /\ h \notin HandlesOf(nd, n)
  BY DEF HandlesOf
<1>5. /\ Cardinality(HandlesOf(nd2, n)) = Cardinality(HandlesOf(nd, n)) + 1
      /\ Cardinality(HandlesOf(nd, n)) \in Nat /\ Cardinality(Handle) \in Nat
  BY <1>2, <1>4, FileConstants, FS_AddElement, FS_CardinalityType
<1>6. Cardinality(HandlesOf(nd2, n)) <= Cardinality(Handle)
  BY <1>1, FileConstants, FS_Subset
<1>7. Cardinality(HandlesOf(nd2, n)) \in 1 .. Cardinality(Handle)
  BY <1>5, <1>6
<1>8. HandlesOf(nd, n) = {} <=> Cardinality(HandlesOf(nd, n)) = 0
  BY <1>2, FS_EmptySet
<1>9. Cardinality(HandlesOf(nd, n)) = 0 <=> Cardinality(HandlesOf(nd2, n)) = 1
  BY <1>5
<1>10. HandlesOf(nd, n) = {} <=> Cardinality(HandlesOf(nd2, n)) = 1
  BY <1>8, <1>9, Zenon
<1>11. HandlesOf(nd2, n) # {}
  BY <1>4
<1> QED  BY <1>3, <1>5, <1>7, <1>10, <1>11 DEF OneMore

LEMMA OpenOK ==
    ASSUME Plain, IInv, NEW h \in Handle, NEW n \in Node,
           NEW mode \in {"READ", "WRITE", "APPEND"}, OpenNode(h, n, mode)
    PROVE  IInv'
<1>1. PICK ch, len : VolumeOK(entry, fat, node, ch, len)
  BY DEF IInv
<1>2. /\ Layout(entry, fat, ch, len) /\ \A m \in Node : len[m] = Needed(entry, m)
      /\ \A k \in Handle : node[k] # None => CursorOK(node[k], ch[node[k].node], len[node[k].node])
  BY <1>1 DEF VolumeOK
<1> DEFINE cursor == InitFileCursor(fat, entry[n].first, entry[n].size, mode)
           v == [node |-> n, mode |-> mode, first |-> entry[n].first, size |-> entry[n].size,
                 proc |-> cursor.proc, cur |-> cursor.cur, off |-> cursor.off]
<1>3. /\ node[h] = None /\ entry[n] # None /\ node' = [node EXCEPT ![h] = v]
      /\ entry' = entry /\ fat' = fat /\ data' = data
      /\ n \in Directory => mode = "READ"
      /\ "share" \in Uses \/ MayShare(n, mode)
  BY DEF OpenNode
<1>4. refs' = [refs EXCEPT ![n] = IF refs[n] = None THEN [count |-> 1, del |-> FALSE]
                                  ELSE [count |-> refs[n].count + 1, del |-> refs[n].del]]
  BY DEF OpenNode
<1>5. v \in FATNode /\ CursorOK(v, ch[n], len[n])
  <2>1. n \notin File => mode = "READ"
    BY <1>3 DEF Node
  <2>2. entry[n] \in Entry
    BY <1>3, Parts
  <2> HIDE DEF cursor
  <2>3. cursor = InitFileCursor(fat, entry[n].first, entry[n].size, mode)
    BY DEF cursor
  <2> QED  BY <1>2, <1>3, <2>1, <2>2, <2>3, NewCursorOK
<1>6. v.node = n /\ v.mode = mode /\ v.first = entry[n].first /\ v.size = entry[n].size
  OBVIOUS
<1> HIDE DEF v
<1>7. v # None
  BY <1>5, NoneFacts
<1>8. /\ node' \in [Handle -> FATNode \cup {None}] /\ node'[h] = v
      /\ \A k \in Handle : k # h => node'[k] = node[k]
  BY <1>3, <1>5, Parts
<1>9. /\ \A m : m # n => HandlesOf(node', m) = HandlesOf(node, m)
      /\ HandlesOf(node', n) # {}
      /\ Cardinality(HandlesOf(node', n)) = Cardinality(HandlesOf(node, n)) + 1
      /\ Cardinality(HandlesOf(node', n)) \in 1 .. Cardinality(Handle)
  <2>1. OneMore(node, node', n)
    BY <1>3, <1>6, <1>7, <1>8, OneMoreHandle
  <2> QED  BY <2>1 DEF OneMore
<1>10. /\ refs' \in [Node -> References \cup {None}] /\ RefsOK(node', refs')
  <2> DEFINE x == Cardinality(HandlesOf(node', n))
  <2>1. refs'[n].count = x /\ refs'[n] \in References
    <3>1. CASE refs[n] = None
      <4>1. HandlesOf(node, n) = {}
        BY <3>1 DEF IInv, RefsOK
      <4>2. Cardinality(HandlesOf(node, n)) = 0
        BY <4>1, FS_EmptySet
      <4>3. x = 1
        BY <1>9, <4>2
      <4>4. refs'[n] = [count |-> 1, del |-> FALSE]
        BY <1>4, <3>1, Parts
      <4>5. 1 \in 1 .. Cardinality(Handle) /\ FALSE \in BOOLEAN
        BY <1>9, <4>3
      <4>6. [count |-> 1, del |-> FALSE] \in References
        BY <4>5 DEF References
      <4> QED  BY <4>3, <4>4, <4>6
    <3>2. CASE refs[n] # None
      <4>1. refs[n] \in References /\ refs[n].count = Cardinality(HandlesOf(node, n))
        BY <3>2, Parts DEF IInv, RefsOK
      <4>2. refs'[n] = [count |-> refs[n].count + 1, del |-> refs[n].del]
        BY <1>4, <3>2, Parts
      <4>3. refs[n].count + 1 = x /\ x \in 1 .. Cardinality(Handle)
        BY <1>9, <4>1
      <4>4. refs'[n] = [count |-> x, del |-> refs[n].del]
        BY <4>2, <4>3
      <4> HIDE DEF x
      <4>5. refs'[n] \in References
        BY <4>1, <4>3, <4>4 DEF References
      <4>6. refs'[n].count = x
        BY <4>1, <4>4 DEF References
      <4> QED  BY <4>5, <4>6
    <3> QED  BY <3>1, <3>2
  <2>2. \A m \in Node : m # n => refs'[m] = refs[m]
    BY <1>4, Parts
  <2>3. DOMAIN refs' = Node /\ refs' = [m \in Node |-> refs'[m]]
    BY <1>4, Parts
  <2>4. \A m \in Node : refs'[m] \in References \cup {None}
    BY <2>1, <2>2, Parts
  <2>5. refs' \in [Node -> References \cup {None}]
    BY <2>3, <2>4
  <2>6. RefsOK(node', refs')
    BY <1>9, <2>1, <2>2, NoneFacts DEF IInv, RefsOK
  <2> QED  BY <2>5, <2>6
<1>11. Typed(entry', data', node', refs')
  BY <1>3, <1>8, <1>10, Parts DEF Typed
<1>12. NodesOK(entry', node')
  <2>1. \A k \in Handle : node'[k] # None =>
            /\ entry[node'[k].node] # None
            /\ node'[k].first = entry[node'[k].node].first
            /\ node'[k].size = entry[node'[k].node].size
    BY <1>3, <1>6, <1>8 DEF IInv, NodesOK
  <2>2. MayShare(n, mode)
    BY <1>3 DEF Plain
  <2>3. \A k \in Handle : node[k] # None /\ node[k].node = n => mode = "READ" /\ node[k].mode = "READ"
    BY <2>2 DEF MayShare, Open
  <2>4. ASSUME NEW j \in Handle, NEW k \in Handle, j # k, node'[j] # None, node'[k] # None,
               node'[j].node = node'[k].node
        PROVE  node'[j].mode = "READ"
    BY <1>6, <1>8, <2>3, <2>4 DEF IInv, NodesOK
  <2> QED  BY <1>3, <2>1, <2>4 DEF NodesOK
<1>13. VolumeOK(entry', fat', node', ch, len)
  <2>1. \A k \in Handle : node'[k] # None => CursorOK(node'[k], ch[node'[k].node], len[node'[k].node])
    BY <1>2, <1>5, <1>6, <1>8
  <2> QED  BY <1>2, <1>3, <2>1 DEF VolumeOK
<1> QED  BY <1>10, <1>11, <1>12, <1>13 DEF IInv

---------------------------------------------------------------------------
(* Deleted nodes *)

\* The FAT with the chains of the nodes in s freed.
Freed(f, ch, len, s) ==
    [c \in Cluster |-> IF \E m \in s : \E i \in 1 .. len[m] : c = ch[m][i] THEN 0 ELSE f[c]]

\* Freeing one chain more: the others do not get in its way.
LEMMA FreeOneMore ==
    ASSUME NEW e, NEW f, NEW ch, NEW len, Layout(e, f, ch, len),
           NEW s \in SUBSET Node, NEW x \in s, e[x] # None
    PROVE  FreeChain(Freed(f, ch, len, s \ {x}), e[x].first) = Freed(f, ch, len, s)
<1> DEFINE g == Freed(f, ch, len, s \ {x})
<1>1. f \in FAT /\ ch \in [Node -> [Nat -> Cluster]] /\ len \in [Node -> Nat] /\ x \in Node
  BY DEF Layout
<1>2. g \in FAT
  BY <1>1 DEF FAT, Freed
<1>3. \A i \in 1 .. len[x] : g[ch[x][i]] = f[ch[x][i]]
  <2> SUFFICES ASSUME NEW i \in 1 .. len[x]  PROVE g[ch[x][i]] = f[ch[x][i]]
    OBVIOUS
  <2>1. ch[x][i] \in Cluster
    BY <1>1
  <2>2. \A m \in s \ {x} : \A j \in 1 .. len[m] : ch[x][i] # ch[m][j]
    BY <1>1 DEF Layout
  <2> QED  BY <2>1, <2>2 DEF Freed
<1>4. IsChain(g, e[x].first, ch[x], len[x])
  <2> HIDE DEF g
  <2>1. \A i, j \in 1 .. len[x] : ch[x][i] = ch[x][j] => i = j
    BY <1>1 DEF Layout
  <2>2. len[x] # 0 => len[x] \in 1 .. len[x]
    BY <1>1
  <2>3. IF len[x] = 0 THEN e[x].first = 0 ELSE e[x].first = ch[x][1] /\ g[ch[x][len[x]]] = Eof
    BY <1>1, <1>3, <2>2 DEF Layout
  <2>4. \A i \in 1 .. len[x] - 1 : g[ch[x][i]] = ch[x][i + 1]
    <3>1. \A i \in 1 .. len[x] - 1 : i \in 1 .. len[x]
      BY <1>1
    <3>2. \A i \in 1 .. len[x] - 1 : f[ch[x][i]] = ch[x][i + 1]
      BY <1>1 DEF Layout
    <3> QED  BY <1>3, <3>1, <3>2
  <2> QED  BY <2>1, <2>3, <2>4 DEF IsChain
<1>5. Lists(Chain(g, e[x].first), ch[x], len[x])
  <2> HIDE DEF g
  <2>1. Chain(g, e[x].first) = [k \in 1 .. len[x] |-> ch[x][k]]
    BY <1>1, <1>2, <1>4, ChainIs
  <2>2. Lists([k \in 1 .. len[x] |-> ch[x][k]], ch[x], len[x])
    BY <1>1, ChainSeq
  <2> QED  BY <2>1, <2>2
<1>6. \A c : c \in ToSet(Chain(g, e[x].first)) <=> \E k \in 1 .. len[x] : c = ch[x][k]
  <2> HIDE DEF g
  <2> QED  BY <1>5 DEF Lists
<1>7. ASSUME NEW c \in Cluster
      PROVE  (IF c \in ToSet(Chain(g, e[x].first)) THEN 0 ELSE g[c])
             = IF \E m \in s : \E i \in 1 .. len[m] : c = ch[m][i] THEN 0 ELSE f[c]
  <2>1. CASE \E k \in 1 .. len[x] : c = ch[x][k]
    <3> HIDE DEF g
    <3> QED  BY <1>6, <2>1
  <2>2. CASE ~ \E k \in 1 .. len[x] : c = ch[x][k]
    <3>1. (\E m \in s : \E i \in 1 .. len[m] : c = ch[m][i])
          <=> \E m \in s \ {x} : \E i \in 1 .. len[m] : c = ch[m][i]
      BY <2>2
    <3>2. g[c] = IF \E m \in s \ {x} : \E i \in 1 .. len[m] : c = ch[m][i] THEN 0 ELSE f[c]
      BY DEF Freed
    <3>3. c \notin ToSet(Chain(g, e[x].first))
      BY <1>6, <2>2
    <3> HIDE DEF g
    <3> QED  BY <3>1, <3>2, <3>3
  <2> QED  BY <2>1, <2>2
<1>8. FreeChain(g, e[x].first) = [c \in Cluster |-> IF c \in ToSet(Chain(g, e[x].first)) THEN 0 ELSE g[c]]
  BY DEF FreeChain
<1>9. FreeChain(g, e[x].first) = Freed(f, ch, len, s)
  <2> HIDE DEF g
  <2> QED  BY <1>7, <1>8 DEF Freed
<1> QED  BY <1>9

\* FATDriver::delete_directory() frees the chains one after the other.
LEMMA FoldFrees ==
    ASSUME NEW e, NEW f, NEW ch, NEW len, Layout(e, f, ch, len),
           NEW gone \in SUBSET Node, \A m \in gone : e[m] # None
    PROVE  FoldSet(LAMBDA m, g : FreeChain(g, e[m].first), f, gone) = Freed(f, ch, len, gone)
<1> DEFINE Some(s) == CHOOSE x \in s : TRUE
           Eq(h) == [s \in SUBSET gone |->
                        IF s = {} THEN f ELSE FreeChain(h[s \ {Some(s)}], e[Some(s)].first)]
           iter == CHOOSE h : h = Eq(h)
           F == [s \in SUBSET gone |-> Freed(f, ch, len, s)]
<1>1. FoldSet(LAMBDA m, g : FreeChain(g, e[m].first), f, gone) = iter[gone]
  BY DEF FoldSet, MapThenFoldSet
<1>2. \A s : s # {} => Some(s) \in s
  OBVIOUS
<1> HIDE DEF Some
<1>3. ASSUME NEW s \in SUBSET gone, s # {}
      PROVE  s \ {Some(s)} \in SUBSET gone /\ F[s] = FreeChain(F[s \ {Some(s)}], e[Some(s)].first)
  <2>1. s \ {Some(s)} \in SUBSET gone /\ s \in SUBSET Node /\ Some(s) \in s
    BY <1>2, <1>3
  <2>2. FreeChain(Freed(f, ch, len, s \ {Some(s)}), e[Some(s)].first) = Freed(f, ch, len, s)
    BY <2>1, FreeOneMore
  <2> QED  BY <2>1, <2>2
<1>4. F[{}] = f
  <2>1. f = [c \in Cluster |-> f[c]]
    BY DEF Layout, FAT
  <2> QED  BY <2>1 DEF Freed
<1>5. F = Eq(F)
  <2>1. \A s \in SUBSET gone : F[s] = Eq(F)[s]
    <3> SUFFICES ASSUME NEW s \in SUBSET gone  PROVE F[s] = Eq(F)[s]
      OBVIOUS
    <3> HIDE DEF F
    <3> QED  BY <1>3, <1>4
  <2> QED  BY <2>1
<1>6. iter = Eq(iter)
  <2> HIDE DEF Eq, F
  <2> QED  BY <1>5
<1> HIDE DEF iter
<1>7. IsFiniteSet(gone)
  <2>1. IsFiniteSet(Node)
    BY FileConstants, FS_Union DEF Node
  <2> QED  BY <2>1, FS_Subset
<1>8. \A s \in SUBSET gone : iter[s] = F[s]
  <2> DEFINE Bad == {s \in SUBSET gone : iter[s] # F[s]}
             Counts == {Cardinality(s) : s \in Bad}
  <2> SUFFICES ASSUME Bad # {}  PROVE FALSE
    OBVIOUS
  <2>1. \A s \in SUBSET gone : IsFiniteSet(s) /\ Cardinality(s) \in Nat
    BY <1>7, FS_Subset, FS_CardinalityType
  <2>2. Counts \in SUBSET Nat /\ Counts # {}
    BY <2>1
  <2>3. PICK k \in Counts : \A j \in Counts : k <= j
    BY <2>2, Smallest
  <2>4. PICK s \in Bad : Cardinality(s) = k
    BY <2>3
  <2> HIDE DEF F
  <2>5. s # {}
    BY <1>4, <1>6, <2>4
  <2> DEFINE t == s \ {Some(s)}
  <2>6. t \in SUBSET gone /\ F[s] = FreeChain(F[t], e[Some(s)].first)
    BY <1>3, <2>4, <2>5
  <2>7. iter[s] = FreeChain(iter[t], e[Some(s)].first)
    BY <1>6, <2>4, <2>5
  <2>8. Cardinality(t) = Cardinality(s) - 1 /\ Cardinality(s) \in Nat
    BY <1>2, <2>1, <2>4, <2>5, FS_RemoveElement
  <2>9. t \notin Bad
    BY <2>2, <2>3, <2>4, <2>8
  <2> QED  BY <2>4, <2>6, <2>7, <2>9
<1>9. gone \in SUBSET gone
  OBVIOUS
<1> QED  BY <1>1, <1>8, <1>9

\* A row of the reference counts marked for deletion.
LEMMA MarkOK ==
    ASSUME NEW r, r \in References
    PROVE  [count |-> r.count, del |-> TRUE] \in References
<1>1. r.count \in 1 .. Cardinality(Handle) /\ TRUE \in BOOLEAN
  BY DEF References
<1> QED  BY <1>1 DEF References

\* VFSModule::delete_node() with the open nodes nd and the reference counts r.
LEMMA DeleteNodeOK ==
    ASSUME NEW nd, NEW r, Typed(entry, data, nd, r), NodesOK(entry, nd), RefsOK(nd, r),
           NEW ch, NEW len, VolumeOK(entry, fat, nd, ch, len),
           NEW n \in Node, entry[n] # None, DeleteNode(r, n), node' = nd, data' = data
    PROVE  IInv'
<1>1. /\ Layout(entry, fat, ch, len) /\ \A m \in Node : len[m] = Needed(entry, m)
      /\ \A h \in Handle : nd[h] # None => CursorOK(nd[h], ch[nd[h].node], len[nd[h].node])
  BY DEF VolumeOK
<1>2. fat \in FAT /\ ch \in [Node -> [Nat -> Cluster]] /\ len \in [Node -> Nat]
  BY <1>1 DEF Layout
<1>3. CASE r[n] = None /\ MayDelete(r, n)
  <2> DEFINE gone == DeletedWith(n)
             len2 == [m \in Node |-> IF m \in gone THEN 0 ELSE len[m]]
  <2>1. /\ entry' = [m \in Node |-> IF m \in gone THEN None ELSE entry[m]]
        /\ fat' = FoldSet(LAMBDA m, f : FreeChain(f, entry[m].first), fat, gone)
        /\ refs' = r
    BY <1>3 DEF DeleteNode
  <2>2. gone \in SUBSET Node /\ \A m \in gone : entry[m] # None
    BY DEF DeletedWith
  <2>3. \A m \in gone : r[m] = None
    BY <1>3 DEF DeletedWith, MayDelete
  <2> HIDE DEF gone
  <2>4. fat' = Freed(fat, ch, len, gone)
    BY <1>1, <2>1, <2>2, FoldFrees
  <2>5. \A h \in Handle : nd[h] # None => nd[h].node \in Node /\ nd[h].node \notin gone
    <3> SUFFICES ASSUME NEW h \in Handle, nd[h] # None
                 PROVE  nd[h].node \in Node /\ nd[h].node \notin gone
      OBVIOUS
    <3>1. nd[h].node \in Node
      BY DEF Typed, FATNode
    <3>2. HandlesOf(nd, nd[h].node) # {}
      BY DEF HandlesOf
    <3>3. r[nd[h].node] # None
      BY <3>1, <3>2 DEF RefsOK
    <3> QED  BY <2>3, <3>1, <3>3
  <2>6. len2 \in [Node -> Nat]
        /\ \A m \in Node : len2[m] = IF m \in gone THEN 0 ELSE len[m]
    BY <1>2
  <2> HIDE DEF len2
  <2>7. \A m \in Node : entry'[m] = IF m \in gone THEN None ELSE entry[m]
    BY <2>1
  <2>8. Layout(entry', fat', ch, len2)
    <3>1. fat' \in FAT
      BY <1>2, <2>4 DEF Freed, FAT
    <3>2. \A m \in Node : /\ len2[m] <= len[m]
                          /\ entry'[m] = None => len2[m] = 0
                          /\ entry'[m] # None /\ len2[m] = 0 => entry'[m].first = 0
                          /\ len2[m] # 0 => entry'[m].first = entry[m].first
      BY <1>1, <1>2, <2>6, <2>7 DEF Layout
    <3>3. \A m \in Node : \A i \in len2[m] + 1 .. len[m] : fat'[ch[m][i]] = 0
      <4> SUFFICES ASSUME NEW m \in Node, NEW i \in len2[m] + 1 .. len[m]  PROVE fat'[ch[m][i]] = 0
        OBVIOUS
      <4>1. m \in gone /\ i \in 1 .. len[m] /\ ch[m][i] \in Cluster
        BY <1>2, <2>6
      <4> QED  BY <2>4, <4>1 DEF Freed
    <3>4. \A m \in Node : \A i \in 1 .. len2[m] :
                fat'[ch[m][i]] = IF i = len2[m] THEN Eof ELSE fat[ch[m][i]]
      <4> SUFFICES ASSUME NEW m \in Node, NEW i \in 1 .. len2[m]
                   PROVE  fat'[ch[m][i]] = IF i = len2[m] THEN Eof ELSE fat[ch[m][i]]
        OBVIOUS
      <4>1. m \notin gone /\ len2[m] = len[m] /\ i \in 1 .. len[m] /\ ch[m][i] \in Cluster
        BY <1>2, <2>6
      <4>2. \A l \in gone : \A j \in 1 .. len[l] : ch[m][i] # ch[l][j]
        <5>1. \A l \in Node : \A j \in 1 .. len[l] : ch[m][i] = ch[l][j] => m = l
          BY <1>1, <4>1 DEF Layout
        <5> QED  BY <2>2, <4>1, <5>1
      <4>3. fat'[ch[m][i]] = fat[ch[m][i]]
        BY <2>4, <4>1, <4>2 DEF Freed
      <4>4. i = len[m] => fat[ch[m][i]] = Eof
        <5>1. len[m] # 0
          BY <1>2, <4>1
        <5> QED  BY <1>1, <5>1 DEF Layout
      <4> QED  BY <4>1, <4>3, <4>4
    <3>5. \A c \in Cluster : (\A m \in Node : \A i \in 1 .. len[m] : c # ch[m][i]) => fat'[c] = fat[c]
      BY <2>2, <2>4 DEF Freed
    <3> QED  BY <1>1, <2>6, <3>1, <3>2, <3>3, <3>4, <3>5, ChainsAreCut
  <2>9. \A m \in Node : len2[m] = Needed(entry', m)
    BY <1>1, <2>6, <2>7 DEF Needed
  <2>10. \A h \in Handle : nd[h] # None => CursorOK(nd[h], ch[nd[h].node], len2[nd[h].node])
    BY <1>1, <2>5, <2>6, CursorsStay
  <2>11. VolumeOK(entry', fat', node', ch, len2)
    BY <2>8, <2>9, <2>10 DEF VolumeOK
  <2>12. NodesOK(entry', node')
    BY <2>5, <2>7 DEF NodesOK
  <2>13. Typed(entry', data', node', refs')
    BY <2>1 DEF Typed
  <2>14. RefsOK(node', refs')
    BY <2>1
  <2> QED  BY <2>11, <2>12, <2>13, <2>14 DEF IInv
<1>4. CASE ~(r[n] = None /\ MayDelete(r, n))
  <2>1. /\ refs' = IF r[n] = None THEN r
                   ELSE [r EXCEPT ![n] = [count |-> r[n].count, del |-> TRUE]]
        /\ entry' = entry /\ fat' = fat
    BY <1>4 DEF DeleteNode
  <2>2. r \in [Node -> References \cup {None}]
    BY DEF Typed
  <2>3. refs' \in [Node -> References \cup {None}] /\ RefsOK(node', refs')
    <3>1. CASE r[n] = None
      BY <2>1, <2>2, <3>1
    <3>2. CASE r[n] # None
      <4> DEFINE v == [count |-> r[n].count, del |-> TRUE]
      <4>1. v \in References /\ v.count = r[n].count
        BY <2>2, <3>2, MarkOK
      <4>2. refs' = [r EXCEPT ![n] = v]
        BY <2>1, <3>2
      <4> HIDE DEF v
      <4>3. refs' \in [Node -> References \cup {None}]
        BY <2>2, <4>1, <4>2
      <4>4. /\ refs'[n] # None /\ refs'[n].count = r[n].count
            /\ \A m \in Node : m # n => refs'[m] = r[m]
        BY <2>2, <4>1, <4>2, NoneFacts
      <4>5. RefsOK(node', refs')
        BY <3>2, <4>4 DEF RefsOK
      <4> QED  BY <4>3, <4>5
    <3> QED  BY <3>1, <3>2
  <2>4. Typed(entry', data', node', refs')
    BY <2>1, <2>3 DEF Typed
  <2>5. VolumeOK(entry', fat', node', ch, len) /\ NodesOK(entry', node')
    BY <2>1
  <2> QED  BY <2>3, <2>4, <2>5 DEF IInv
<1> QED  BY <1>3, <1>4

LEMMA DeleteOK ==
    ASSUME IInv, NEW n \in Node, Delete(n)
    PROVE  IInv'
<1>1. PICK ch, len : VolumeOK(entry, fat, node, ch, len)
  BY DEF IInv
<1>2. entry[n] # None /\ DeleteNode(refs, n) /\ node' = node /\ data' = data
  BY DEF Delete
<1>3. Typed(entry, data, node, refs) /\ NodesOK(entry, node) /\ RefsOK(node, refs)
  BY DEF IInv
<1> QED  BY <1>1, <1>2, <1>3, DeleteNodeOK

LEMMA CloseOK ==
    ASSUME IInv, NEW h \in Handle, Close(h)
    PROVE  IInv'
<1>1. PICK ch, len : VolumeOK(entry, fat, node, ch, len)
  BY DEF IInv
<1> DEFINE n == node[h].node
           last == refs[n].count = 1
<1>2. /\ node[h] # None /\ node' = [node EXCEPT ![h] = None] /\ data' = data
      /\ IF last /\ refs[n].del THEN DeleteNode([refs EXCEPT ![n] = None], n)
         ELSE /\ refs' = [refs EXCEPT ![n] = IF last THEN None
                                             ELSE [count |-> refs[n].count - 1, del |-> refs[n].del]]
              /\ entry' = entry /\ fat' = fat
  BY DEF Close, Open
<1>3. n \in Node /\ entry[n] # None
  BY <1>2, Parts DEF IInv, NodesOK
<1>4. /\ node' \in [Handle -> FATNode \cup {None}] /\ node'[h] = None
      /\ \A k \in Handle : k # h => node'[k] = node[k]
  BY <1>2, Parts
<1>5. /\ \A m : m # n => HandlesOf(node, m) = HandlesOf(node', m)
      /\ HandlesOf(node, n) # {}
      /\ Cardinality(HandlesOf(node', n)) \in Nat
      /\ Cardinality(HandlesOf(node, n)) = Cardinality(HandlesOf(node', n)) + 1
      /\ Cardinality(HandlesOf(node, n)) \in 1 .. Cardinality(Handle)
      /\ HandlesOf(node', n) = {} <=> Cardinality(HandlesOf(node, n)) = 1
  <2>1. \A k \in Handle : k # h => node[k] = node'[k]
    BY <1>4
  <2>2. OneMore(node', node, n)
    BY <1>2, <1>4, <2>1, OneMoreHandle
  <2> HIDE DEF n
  <2> QED  BY <2>2 DEF OneMore
<1>6. refs[n] # None /\ refs[n] \in References /\ refs[n].count = Cardinality(HandlesOf(node, n))
  <2>1. refs[n] # None /\ refs[n].count = Cardinality(HandlesOf(node, n))
    BY <1>3, <1>5 DEF IInv, RefsOK
  <2> QED  BY <1>3, <2>1, Parts
<1> HIDE DEF n
<1>7. NodesOK(entry, node')
  BY <1>4 DEF IInv, NodesOK
<1>8. VolumeOK(entry, fat, node', ch, len)
  <2>1. \A k \in Handle : node'[k] # None => CursorOK(node'[k], ch[node'[k].node], len[node'[k].node])
    BY <1>1, <1>4 DEF VolumeOK
  <2> QED  BY <1>1, <2>1 DEF VolumeOK
<1> DEFINE r == [refs EXCEPT ![n] = None]
<1>9. /\ r \in [Node -> References \cup {None}]
      /\ r[n] = None /\ \A m \in Node : m # n => r[m] = refs[m]
  BY <1>3, Parts
<1>10. last => HandlesOf(node', n) = {}
  BY <1>5, <1>6
<1>11. last => RefsOK(node', r)
  <2> HIDE DEF r
  <2> QED  BY <1>5, <1>9, <1>10 DEF IInv, RefsOK
<1>12. Typed(entry, data, node', r)
  BY <1>4, <1>9, Parts DEF Typed
<1>13. CASE last /\ refs[n].del
  <2>1. DeleteNode(r, n)
    BY <1>2, <1>13
  <2>2. RefsOK(node', r)
    BY <1>11, <1>13
  <2> HIDE DEF r
  <2> QED  BY <1>2, <1>3, <1>7, <1>8, <1>12, <2>1, <2>2, DeleteNodeOK
<1>14. CASE ~(last /\ refs[n].del)
  <2> DEFINE v == [count |-> refs[n].count - 1, del |-> refs[n].del]
  <2>1. /\ refs' = [refs EXCEPT ![n] = IF last THEN None ELSE v]
        /\ entry' = entry /\ fat' = fat
    BY <1>2, <1>14
  <2>2. CASE last
    <3>1. refs' = r
      BY <2>1, <2>2
    <3>2. Typed(entry', data', node', refs') /\ RefsOK(node', refs')
      BY <1>2, <1>11, <1>12, <2>1, <2>2, <3>1
    <3> QED  BY <1>7, <1>8, <2>1, <3>2 DEF IInv
  <2>3. CASE ~last
    <3>1. refs[n].count - 1 \in 1 .. Cardinality(Handle) /\ refs[n].del \in BOOLEAN
      <4>1. Cardinality(Handle) \in Nat
        BY FileConstants, FS_CardinalityType
      <4>2. refs[n].count \in 1 .. Cardinality(Handle) /\ refs[n].count # 1
        BY <1>3, <1>6, <2>3, Parts
      <4>3. refs[n].del \in BOOLEAN
        BY <1>3, <1>6, Parts
      <4> QED  BY <4>1, <4>2, <4>3
    <3>2. v \in References /\ v.count = refs[n].count - 1
      BY <3>1 DEF References
    <3> HIDE DEF v
    <3>3. refs' = [refs EXCEPT ![n] = v]
      BY <2>1, <2>3
    <3>4. /\ refs' \in [Node -> References \cup {None}] /\ refs'[n] = v
          /\ \A m \in Node : m # n => refs'[m] = refs[m]
      BY <1>3, <3>2, <3>3, Parts
    <3>5. refs'[n] # None /\ refs'[n].count = Cardinality(HandlesOf(node', n))
      BY <1>5, <1>6, <3>2, <3>4, NoneFacts
    <3>6. HandlesOf(node', n) # {}
      BY <1>5, <1>6, <2>3
    <3>7. RefsOK(node', refs')
      BY <1>5, <3>4, <3>5, <3>6 DEF IInv, RefsOK
    <3>8. Typed(entry', data', node', refs')
      BY <1>2, <1>4, <2>1, <3>4, Parts DEF Typed
    <3> QED  BY <1>7, <1>8, <2>1, <3>7, <3>8 DEF IInv
  <2> QED  BY <2>2, <2>3
<1> QED  BY <1>13, <1>14

---------------------------------------------------------------------------
(* Readers *)

LEMMA PositionNat ==
    ASSUME NEW v \in FATNode
    PROVE  /\ v.proc \in Nat /\ v.off \in Nat /\ v.off <= ClusterSize /\ v.size \in Nat
           /\ v.proc * ClusterSize \in Nat /\ Position(v) \in Nat
           /\ Position(v) = v.proc * ClusterSize + v.off
<1>1. v.proc \in Nat /\ v.off \in Nat /\ v.off <= ClusterSize /\ v.size \in Nat
  BY Sizes DEF FATNode
<1>2. v.proc * ClusterSize \in Nat
  BY <1>1, ClusterSizeNat
<1> QED  BY <1>1, <1>2 DEF Position

\* The position of a cursor that is within its cluster or at the end.
LEMMA ReaderInCluster ==
    ASSUME NEW v \in FATNode, NEW q, NEW k \in Nat, k = Clusters(v.size), ReaderOK(v, q, k),
           Position(v) < v.size
    PROVE  v.proc < k /\ v.off < ClusterSize /\ v.cur = q[v.proc + 1]
<1>1. v.proc \in Nat /\ v.off \in 0 .. ClusterSize /\ v.size \in Nat
  BY Sizes DEF FATNode
<1>2. v.off < ClusterSize
  BY <1>1, Sizes DEF ReaderOK, Position
<1>3. v.proc * ClusterSize < v.size
  BY <1>1, Sizes DEF Position
<1>4. v.size <= k * ClusterSize
  BY <1>1, ClustersHold
<1>5. v.proc < k
  <2> SUFFICES ASSUME k <= v.proc  PROVE FALSE
    BY <1>1
  <2>1. k * ClusterSize <= v.proc * ClusterSize
    BY <1>1, Sizes
  <2>2. k * ClusterSize \in Int /\ v.proc * ClusterSize \in Int
    BY <1>1, Sizes
  <2> QED  BY <1>1, <1>3, <1>4, <2>1, <2>2
<1> QED  BY <1>2, <1>5 DEF ReaderOK

\* Two states of the FATNode of one handle: what no call changes but a write.
SameFile(w, v) ==
    /\ w \in FATNode /\ w.node = v.node /\ w.mode = v.mode
    /\ w.first = v.first /\ w.size = v.size

\* A reader moves its cursor only.
LEMMA ReaderMoves ==
    ASSUME IInv, NEW ch, NEW len, VolumeOK(entry, fat, node, ch, len),
           NEW h \in Handle, node[h] # None, node[h].node \in File, node[h].mode = "READ",
           NEW v, SameFile(v, node[h]), ReaderOK(v, ch[node[h].node], len[node[h].node]),
           node' = [node EXCEPT ![h] = v], UNCHANGED <<entry, fat, data, refs>>
    PROVE  IInv'
<1>0. /\ v \in FATNode /\ v.node = node[h].node /\ v.mode = node[h].mode
      /\ v.first = node[h].first /\ v.size = node[h].size
  BY DEF SameFile
<1>1. /\ node' \in [Handle -> FATNode \cup {None}] /\ node'[h] = v /\ v # None
      /\ \A k \in Handle : k # h => node'[k] = node[k]
  BY <1>0, Parts, NoneFacts
<1>2. Typed(entry', data', node', refs')
  BY <1>1, Parts DEF Typed
<1>3. \A k \in Handle : /\ node'[k] # None <=> node[k] # None
                        /\ node[k] # None => /\ node'[k].node = node[k].node
                                             /\ node'[k].mode = node[k].mode
                                             /\ node'[k].first = node[k].first
                                             /\ node'[k].size = node[k].size
  BY <1>0, <1>1
<1>4. NodesOK(entry', node')
  BY <1>3 DEF IInv, NodesOK
<1>5. \A n : HandlesOf(node', n) = HandlesOf(node, n)
  BY <1>3 DEF HandlesOf
<1>6. RefsOK(node', refs')
  BY <1>5 DEF IInv, RefsOK
<1>7. CursorOK(v, ch[v.node], len[v.node])
  BY <1>0 DEF CursorOK
<1>8. \A k \in Handle : node'[k] # None => CursorOK(node'[k], ch[node'[k].node], len[node'[k].node])
  BY <1>1, <1>7 DEF VolumeOK
<1>9. VolumeOK(entry', fat', node', ch, len)
  BY <1>8 DEF VolumeOK
<1> QED  BY <1>2, <1>4, <1>6, <1>9 DEF IInv

\* What the handle of a reader knows of its file.
LEMMA ReaderParts ==
    ASSUME IInv, NEW ch, NEW len, VolumeOK(entry, fat, node, ch, len),
           NEW h \in Handle, node[h] # None, node[h].node \in File, node[h].mode = "READ"
    PROVE  LET n == node[h].node IN
           /\ n \in Node /\ entry[n] # None /\ node[h].size = entry[n].size
           /\ ch[n] \in [Nat -> Cluster] /\ len[n] \in Nat /\ len[n] = Clusters(node[h].size)
           /\ IF len[n] = 0 THEN node[h].first = 0
              ELSE node[h].first = ch[n][1] /\ fat[ch[n][len[n]]] = Eof
           /\ \A i \in 1 .. len[n] - 1 : fat[ch[n][i]] = ch[n][i + 1]
           /\ ReaderOK(node[h], ch[n], len[n])
<1> DEFINE n == node[h].node
<1>1. n \in Node
  BY DEF Node
<1>2. entry[n] # None /\ node[h].size = entry[n].size /\ node[h].first = entry[n].first
  BY DEF IInv, NodesOK
<1>3. Layout(entry, fat, ch, len) /\ len[n] = Needed(entry, n)
  BY <1>1 DEF VolumeOK
<1>4. len[n] = Clusters(node[h].size)
  BY <1>2, <1>3 DEF Needed
<1>5. ch[n] \in [Nat -> Cluster] /\ len[n] \in Nat
  BY <1>1, <1>3 DEF Layout
<1>6. IF len[n] = 0 THEN node[h].first = 0
      ELSE node[h].first = ch[n][1] /\ fat[ch[n][len[n]]] = Eof
  BY <1>1, <1>2, <1>3 DEF Layout
<1>7. \A i \in 1 .. len[n] - 1 : fat[ch[n][i]] = ch[n][i + 1]
  BY <1>1, <1>3 DEF Layout
<1>8. ReaderOK(node[h], ch[n], len[n])
  BY DEF VolumeOK, CursorOK
<1> HIDE DEF n
<1>9. /\ n \in Node /\ entry[n] # None /\ node[h].size = entry[n].size
      /\ ch[n] \in [Nat -> Cluster] /\ len[n] \in Nat /\ len[n] = Clusters(node[h].size)
      /\ IF len[n] = 0 THEN node[h].first = 0
         ELSE node[h].first = ch[n][1] /\ fat[ch[n][len[n]]] = Eof
      /\ \A i \in 1 .. len[n] - 1 : fat[ch[n][i]] = ch[n][i + 1]
      /\ ReaderOK(node[h], ch[n], len[n])
  BY <1>1, <1>2, <1>4, <1>5, <1>6, <1>7, <1>8
<1> QED  BY <1>9 DEF n

\* FATNode::seek() follows the chain to the cluster of the position.
LEMMA SeekIsExact ==
    ASSUME NEW f \in FAT, NEW v \in FATNode, NEW q \in [Nat -> Cluster], NEW k \in Nat,
           IF k = 0 THEN v.first = 0 ELSE v.first = q[1] /\ f[q[k]] = Eof,
           \A i \in 1 .. k - 1 : f[q[i]] = q[i + 1],
           NEW to \in Nat, to <= v.size, NEW w, w = SeekNode(f, v, to)
    PROVE  SameFile(w, v) /\ ReaderOK(w, q, k)
<1> DEFINE steps == to \div ClusterSize
           K == 0 .. steps
           Eq(g) == [j \in K |-> IF j = 0 THEN v.first
                                 ELSE IF g[j - 1] \in Cluster THEN f[g[j - 1]] ELSE g[j - 1]]
           next == CHOOSE g : g = Eq(g)
           at == [j \in K |-> IF j < k THEN q[j + 1] ELSE IF k = 0 THEN 0 ELSE Eof]
<1>1. steps \in Nat /\ to % ClusterSize \in 0 .. ClusterSize - 1
      /\ to = steps * ClusterSize + (to % ClusterSize)
  BY DivMod
<1>2. w = [v EXCEPT !.proc = steps, !.cur = next[steps], !.off = to % ClusterSize]
  BY DEF SeekNode
<1> HIDE DEF steps
<1>3. ASSUME NEW j \in K, j # 0
      PROVE  j - 1 \in K /\ at[j] = IF at[j - 1] \in Cluster THEN f[at[j - 1]] ELSE at[j - 1]
  <2>1. j \in Nat /\ j - 1 \in K /\ j - 1 \in Nat
    BY <1>1, <1>3
  <2>2. CASE j < k
    <3>1. at[j - 1] = q[j] /\ at[j] = q[j + 1] /\ q[j] \in Cluster
      BY <2>1, <2>2
    <3>2. f[q[j]] = q[j + 1]
      BY <1>3, <2>1, <2>2
    <3> QED  BY <2>1, <3>1, <3>2
  <2>3. CASE j = k
    <3>1. at[j - 1] = q[k] /\ at[j] = Eof /\ q[k] \in Cluster /\ k # 0
      BY <1>3, <2>1, <2>3
    <3> QED  BY <2>1, <3>1
  <2>4. CASE j > k
    <3>1. at[j - 1] = at[j] /\ at[j] \in {0, Eof}
      BY <2>1, <2>4
    <3> QED  BY <2>1, <3>1, Sizes
  <2> QED  BY <2>1, <2>2, <2>3, <2>4
<1>4. 0 \in K /\ at[0] = v.first
  BY <1>1
<1>5. at = Eq(at)
  <2>1. \A j \in K : at[j] = Eq(at)[j]
    <3> HIDE DEF at
    <3> QED  BY <1>3, <1>4
  <2> QED  BY <2>1
<1>6. next = Eq(next)
  <2> HIDE DEF at, Eq
  <2> QED  BY <1>5
<1> HIDE DEF next
<1>7. next[steps] = at[steps]
  <2> DEFINE S == {j \in K : next[j] # at[j]}
  <2> SUFFICES ASSUME S # {}  PROVE FALSE
    <3>1. steps \in K
      BY <1>1
    <3> QED  BY <3>1
  <2> HIDE DEF at
  <2>1. S \in SUBSET Nat
    BY <1>1
  <2>2. PICK j \in S : \A i \in S : j <= i
    BY <2>1, Smallest
  <2>3. j # 0
    BY <1>4, <1>6, <2>2
  <2>4. j - 1 \in K /\ at[j] = IF at[j - 1] \in Cluster THEN f[at[j - 1]] ELSE at[j - 1]
    BY <1>3, <2>2, <2>3
  <2>5. next[j] = IF next[j - 1] \in Cluster THEN f[next[j - 1]] ELSE next[j - 1]
    BY <1>6, <2>2, <2>3
  <2>6. j - 1 \notin S
    BY <2>1, <2>2
  <2> QED  BY <2>2, <2>4, <2>5, <2>6
<1>8. at[steps] \in {0, Eof} \cup Cluster
      /\ at[steps] = IF steps < k THEN q[steps + 1] ELSE IF k = 0 THEN 0 ELSE Eof
  BY <1>1
<1> HIDE DEF at
<1>9. w \in FATNode /\ w.node = v.node /\ w.mode = v.mode /\ w.first = v.first /\ w.size = v.size
      /\ w.proc = steps /\ w.cur = at[steps] /\ w.off = to % ClusterSize
  <2>1. to % ClusterSize \in 0 .. ClusterSize
    BY <1>1, Sizes
  <2> QED  BY <1>1, <1>2, <1>7, <1>8, <2>1 DEF FATNode
<1>10. Position(w) = to
  BY <1>1, <1>9 DEF Position
<1>11. w.off < ClusterSize
  BY <1>1, <1>9, Sizes
<1> QED  BY <1>8, <1>9, <1>10, <1>11 DEF ReaderOK, SameFile

\* A step of the reader h that moves its cursor and does nothing else.
CursorMoves(ch, len, h) ==
    /\ node[h] # None /\ node[h].node \in File /\ node[h].mode = "READ"
    /\ \E v : /\ SameFile(v, node[h]) /\ ReaderOK(v, ch[node[h].node], len[node[h].node])
             /\ node' = [node EXCEPT ![h] = v]
    /\ UNCHANGED <<entry, fat, data, refs>>

LEMMA SeekMoves ==
    ASSUME Plain, IInv, NEW ch, NEW len, VolumeOK(entry, fat, node, ch, len),
           NEW h \in Handle, NEW to \in 0 .. MaxSize, Seek(h, to)
    PROVE  CursorMoves(ch, len, h)
<1>1. VolumeOK(entry, fat, node, ch, len)
  OBVIOUS
<1>2. node[h] # None /\ node[h].node \in File /\ node[h].mode = "READ"
  BY DEF Seek, MayMove, Open, Plain
<1>3. /\ to <= node[h].size /\ node' = [node EXCEPT ![h] = SeekNode(fat, node[h], to)]
      /\ UNCHANGED <<entry, fat, data, refs>>
  BY DEF Seek
<1> DEFINE n == node[h].node
           w == SeekNode(fat, node[h], to)
<1>4. /\ ch[n] \in [Nat -> Cluster] /\ len[n] \in Nat
      /\ IF len[n] = 0 THEN node[h].first = 0
         ELSE node[h].first = ch[n][1] /\ fat[ch[n][len[n]]] = Eof
      /\ \A i \in 1 .. len[n] - 1 : fat[ch[n][i]] = ch[n][i + 1]
  BY <1>1, <1>2, ReaderParts
<1>5. fat \in FAT /\ node[h] \in FATNode /\ to \in Nat
  BY <1>2, Parts, Sizes
<1>6. SameFile(w, node[h]) /\ ReaderOK(w, ch[n], len[n])
  <2> HIDE DEF w, n
  <2>1. w = SeekNode(fat, node[h], to)
    BY DEF w
  <2> QED  BY <1>3, <1>4, <1>5, <2>1, SeekIsExact
<1> HIDE DEF w
<1>7. node' = [node EXCEPT ![h] = w]
  BY <1>3 DEF w
<1> QED  BY <1>2, <1>3, <1>6, <1>7 DEF CursorMoves

LEMMA SeekOK ==
    ASSUME Plain, IInv, NEW h \in Handle, NEW to \in 0 .. MaxSize, Seek(h, to)
    PROVE  IInv'
<1>1. PICK ch, len : VolumeOK(entry, fat, node, ch, len)
  BY DEF IInv
<1>2. CursorMoves(ch, len, h)
  BY <1>1, SeekMoves
<1> QED  BY <1>1, <1>2, ReaderMoves DEF CursorMoves

\* The loop of FATNode::read() is the sequence of its turns.
LEMMA ReadLoop ==
    ASSUME NEW f, NEW d, NEW v, NEW count \in Nat
    PROVE  \E loop : /\ loop[0] = [out |-> << >>, h |-> v, flow |-> "loop"]
                     /\ \A k \in 1 .. count : loop[k] = ReadStep(f, d, loop[k - 1], count)
                     /\ ReadNode(f, d, v, count) = loop[count]
<1> DEFINE start == [out |-> << >>, h |-> v, flow |-> "loop"]
           Turn(s) == ReadStep(f, d, s, count)
           Eq(n, g) == [k \in 0 .. n |-> IF k = 0 THEN start ELSE Turn(g[k - 1])]
           loop == CHOOSE g : g = Eq(count, g)
<1>1. ReadNode(f, d, v, count) = loop[count]
  BY DEF ReadNode
<1> HIDE DEF start, Turn
<1>2. \A n \in Nat : \E g : g = Eq(n, g)
  <2> DEFINE Bad == {n \in Nat : ~ \E g : g = Eq(n, g)}
  <2> SUFFICES ASSUME Bad # {}  PROVE FALSE
    OBVIOUS
  <2>1. PICK n \in Bad : \A j \in Bad : n <= j
    BY Smallest
  <2>2. n # 0
    <3> DEFINE g == [k \in 0 .. 0 |-> start]
    <3>1. g = Eq(0, g)
      OBVIOUS
    <3> HIDE DEF g
    <3> QED  BY <2>1, <3>1
  <2>3. n - 1 \in Nat /\ n - 1 \notin Bad
    <3>1. n \in Nat
      OBVIOUS
    <3> HIDE DEF Bad
    <3> QED  BY <2>1, <2>2, <3>1
  <2>4. PICK g : g = Eq(n - 1, g)
    BY <2>3
  <2> DEFINE g2 == [k \in 0 .. n |-> IF k < n THEN g[k] ELSE Turn(g[n - 1])]
  <2>5. \A k \in 0 .. n - 1 : g[k] = IF k = 0 THEN start ELSE Turn(g[k - 1])
    BY <2>4
  <2>6. \A k \in 0 .. n : g2[k] = IF k = 0 THEN start ELSE Turn(g2[k - 1])
    <3> SUFFICES ASSUME NEW k \in 0 .. n  PROVE g2[k] = IF k = 0 THEN start ELSE Turn(g2[k - 1])
      OBVIOUS
    <3>1. CASE k < n
      <4>1. k \in 0 .. n - 1 /\ g2[k] = g[k]
        BY <2>3, <3>1
      <4>2. k # 0 => k - 1 \in 0 .. n /\ k - 1 < n
        BY <3>1
      <4>3. k # 0 => g2[k - 1] = g[k - 1]
        BY <4>2
      <4> QED  BY <2>5, <4>1, <4>3
    <3>2. CASE k = n
      <4>1. n - 1 \in 0 .. n /\ n - 1 < n
        BY <2>3
      <4>2. g2[n - 1] = g[n - 1]
        BY <4>1
      <4> QED  BY <2>2, <3>2, <4>2
    <3> QED  BY <3>1, <3>2
  <2>7. g2 = Eq(n, g2)
    <3>1. DOMAIN g2 = 0 .. n /\ g2 = [k \in 0 .. n |-> g2[k]]
      OBVIOUS
    <3> HIDE DEF g2
    <3> QED  BY <2>6, <3>1
  <2> HIDE DEF g2
  <2> QED  BY <2>1, <2>7
<1>3. loop = Eq(count, loop)
  <2>1. \E g : g = Eq(count, g)
    BY <1>2
  <2> HIDE DEF Eq
  <2> QED  BY <2>1
<1> HIDE DEF loop
<1>4. loop[0] = start
  <2>1. 0 \in 0 .. count
    OBVIOUS
  <2> QED  BY <1>3, <2>1
<1>5. \A k \in 1 .. count : loop[k] = Turn(loop[k - 1])
  <2>1. \A k \in 1 .. count : k \in 0 .. count /\ k # 0
    OBVIOUS
  <2> QED  BY <1>3, <2>1
<1> QED  BY <1>1, <1>4, <1>5 DEF start, Turn

\* The byte at position i of a file, counted from 1.
ByteAt(d, q, i) == d[q[Clusters(i)]][i - (Clusters(i) - 1) * ClusterSize]

\* What read() has got so far: v is the node before the call.
ReadGood(d, q, k, v, count, s) ==
    /\ SameFile(s.h, v) /\ ReaderOK(s.h, q, k)
    /\ s.out \in Seq(0 .. MaxSize) /\ Len(s.out) <= count
    /\ Position(s.h) = Position(v) + Len(s.out)
    /\ \A i \in 1 .. Len(s.out) : s.out[i] = ByteAt(d, q, Position(v) + i)
    /\ s.flow = "break" => Position(s.h) = v.size

\* There is nothing left to read, or no room for it.
ReadEnds(v, count, s) == Position(s.h) = v.size \/ Len(s.out) = count

LEMMA ByteIs ==
    ASSUME NEW d, NEW q, NEW p \in Nat, NEW o \in 1 .. ClusterSize
    PROVE  ByteAt(d, q, p * ClusterSize + o) = d[q[p + 1]][o]
<1> DEFINE i == p * ClusterSize + o
<1>1. Clusters(i) = p + 1
  <2>1. CASE o < ClusterSize
    <3>1. o \in 0 .. ClusterSize - 1 /\ o # 0
      BY <2>1, Sizes
    <3> QED  BY <3>1, ClustersOfSum
  <2>2. CASE o = ClusterSize
    <3>1. p + 1 \in Nat /\ 0 \in 0 .. ClusterSize - 1
      BY Sizes
    <3>2. Clusters((p + 1) * ClusterSize + 0) = p + 1
      BY <3>1, ClustersOfSum
    <3>3. i = (p + 1) * ClusterSize + 0
      BY <2>2, Sizes
    <3> QED  BY <3>2, <3>3
  <2> QED  BY <2>1, <2>2, Sizes
<1>2. (p + 1) - 1 = p /\ p * ClusterSize \in Int /\ i - p * ClusterSize = o
  BY Sizes
<1> HIDE DEF i
<1>3. ByteAt(d, q, i) = d[q[p + 1]][o]
  BY <1>1, <1>2 DEF ByteAt
<1> QED  BY <1>3 DEF i

\* The FAT lists the first k clusters of q.
Linked(f, q, k) ==
    /\ k # 0 => f[q[k]] = Eof
    /\ \A i \in 1 .. k - 1 : f[q[i]] = q[i + 1]

LEMMA LayoutLinked ==
    ASSUME NEW e, NEW f, NEW ch, NEW len, Layout(e, f, ch, len), NEW n \in Node
    PROVE  Linked(f, ch[n], len[n])
BY DEF Layout, Linked

\* p is the n elements of t behind the first o.
IsPart(p, t, o, n, S) == p \in Seq(S) /\ Len(p) = n /\ \A j \in 1 .. n : p[j] = t[o + j]

LEMMA PartOfSeq ==
    ASSUME NEW S, NEW t \in Seq(S), NEW o \in Nat, NEW n \in Nat, o + n <= Len(t)
    PROVE  IsPart(SubSeq(t, o + 1, o + n), t, o, n, S)
BY DEF IsPart

LEMMA JoinedSeq ==
    ASSUME NEW S, NEW a \in Seq(S), NEW b \in Seq(S)
    PROVE  /\ a \o b \in Seq(S) /\ Len(a \o b) = Len(a) + Len(b) /\ Len(a) \in Nat
           /\ \A i \in 1 .. Len(a) : (a \o b)[i] = a[i]
           /\ \A j \in 1 .. Len(b) : (a \o b)[Len(a) + j] = b[j]
OBVIOUS

LEMMA FunctionIsSeq ==
    ASSUME NEW S, NEW m \in Nat, NEW t \in [1 .. m -> S]
    PROVE  t \in Seq(S) /\ Len(t) = m
OBVIOUS

\* A file being read: its clusters are the first k of q.
Reading(f, d, q, k, v, count) ==
    /\ f \in FAT /\ d \in [Cluster -> [1 .. ClusterSize -> 0 .. MaxSize]]
    /\ q \in [Nat -> Cluster] /\ k \in Nat /\ v \in FATNode /\ count \in Nat
    /\ k = Clusters(v.size) /\ Linked(f, q, k)

\* The bytes one turn reads, and where they end.
LEMMA ReadPart ==
    ASSUME NEW left \in Nat, NEW room \in Nat, NEW rest \in Nat, left > 0, room > 0, rest > 0
    PROVE  LET n == Min({left, room, rest})
           IN  n \in Nat /\ n > 0 /\ n <= left /\ n <= room /\ n <= rest
<1> DEFINE n == Min({left, room, rest})
<1>1. n \in {left, room, rest} /\ n <= left /\ n <= room /\ n <= rest
  BY MinOfThree
<1> HIDE DEF n
<1>2. n \in Nat /\ n > 0
  BY <1>1
<1>3. n \in Nat /\ n > 0 /\ n <= left /\ n <= room /\ n <= rest
  BY <1>1, <1>2
<1> QED  BY <1>3 DEF n

\* The cursor behind n bytes of its cluster, as read() moves it.
Moved(f, h, n) ==
    IF h.off + n < ClusterSize \/ f[h.cur] = Eof THEN [h EXCEPT !.off = @ + n]
    ELSE [h EXCEPT !.off = 0, !.proc = @ + 1, !.cur = f[h.cur]]

LEMMA NextCluster ==
    ASSUME NEW f, NEW q \in [Nat -> Cluster], NEW k \in Nat, Linked(f, q, k),
           NEW p \in Nat, p < k
    PROVE  f[q[p + 1]] = IF p + 1 = k THEN Eof ELSE q[p + 2]
<1>1. CASE p + 1 = k
  BY <1>1 DEF Linked
<1>2. CASE p + 1 # k
  <2>1. p + 1 \in 1 .. k - 1 /\ (p + 1) + 1 = p + 2
    BY <1>2
  <2> QED  BY <1>2, <2>1 DEF Linked
<1> QED  BY <1>1, <1>2

\* A reader that stays in its cluster, or moves behind the last one.
LEMMA ReaderStays ==
    ASSUME NEW q, NEW k \in Nat, NEW h \in FATNode, k = Clusters(h.size), ReaderOK(h, q, k),
           NEW n \in Nat, Position(h) + n <= h.size, h.proc < k, h.off + n <= ClusterSize,
           h.off + n < ClusterSize \/ h.proc + 1 = k,
           NEW w, w = [h EXCEPT !.off = h.off + n]
    PROVE  /\ SameFile(w, h) /\ ReaderOK(w, q, k) /\ Position(w) = Position(h) + n
           /\ h.off + n >= ClusterSize => Position(w) = h.size
<1>1. h.proc \in Nat /\ h.off \in Nat /\ h.size \in Nat
  BY PositionNat
<1>2. h.off + n \in 0 .. ClusterSize
  BY <1>1, ClusterSizeNat
<1>3. w \in FATNode /\ w.node = h.node /\ w.mode = h.mode /\ w.first = h.first
      /\ w.size = h.size /\ w.proc = h.proc /\ w.cur = h.cur /\ w.off = h.off + n
  BY <1>2 DEF FATNode
<1> DEFINE base == h.proc * ClusterSize
           off == h.off
           size == h.size
           pos == Position(w)
<1>4. base \in Nat /\ Position(h) = base + off /\ off \in Nat /\ size \in Nat
  BY <1>1, ClusterSizeNat DEF Position
<1>5. pos = base + (off + n)
  BY <1>3 DEF Position
<1>6. size <= k * ClusterSize
  BY <1>1, ClustersHold
<1>7. off + n >= ClusterSize => k * ClusterSize = base + ClusterSize
  <2> SUFFICES ASSUME h.proc + 1 = k  PROVE k * ClusterSize = base + ClusterSize
    BY <1>1, ClusterSizeNat
  <2>1. \A p \in Nat : (p + 1) * ClusterSize = p * ClusterSize + ClusterSize
    BY ClusterSizeNat
  <2> QED  BY <1>1, <2>1
<1>8. Position(h) + n <= size /\ off + n <= ClusterSize
  OBVIOUS
<1> HIDE DEF base, off, size, pos
<1>9. pos = Position(h) + n /\ pos <= size
  BY <1>4, <1>5, <1>8
<1>10. off + n >= ClusterSize => pos = size
  <2> SUFFICES ASSUME off + n >= ClusterSize  PROVE pos = size
    OBVIOUS
  <2>1. off + n = ClusterSize
    BY <1>4, <1>8, ClusterSizeNat
  <2>2. pos = base + ClusterSize /\ size <= base + ClusterSize
    BY <1>5, <1>6, <1>7, <2>1
  <2> QED  BY <1>4, <1>9, <2>2, ClusterSizeNat
<1>11. w.off < ClusterSize \/ pos = size
  BY <1>3, <1>4, <1>10, ClusterSizeNat DEF off
<1>12. ReaderOK(w, q, k)
  BY <1>3, <1>9, <1>11 DEF ReaderOK, pos, size
<1> QED  BY <1>3, <1>9, <1>10, <1>12 DEF SameFile, off, size, pos

\* A reader that moves to the next cluster, c.
IntoCluster(h, c) == [h EXCEPT !.off = 0, !.proc = h.proc + 1, !.cur = c]

LEMMA ReaderGoesOn ==
    ASSUME NEW q \in [Nat -> Cluster], NEW k \in Nat, NEW h \in FATNode,
           NEW n \in Nat, Position(h) + n <= h.size, h.proc + 1 < k, h.off + n = ClusterSize,
           NEW w, w = IntoCluster(h, q[h.proc + 2])
    PROVE  SameFile(w, h) /\ ReaderOK(w, q, k) /\ Position(w) = Position(h) + n
<1>1. h.proc \in Nat /\ h.off \in Nat /\ h.size \in Nat
  BY PositionNat
<1>2. q[h.proc + 2] \in Cluster /\ h.proc + 1 \in Nat /\ (h.proc + 1) + 1 = h.proc + 2
      /\ 0 \in 0 .. ClusterSize
  BY <1>1, ClusterSizeNat
<1>3. w \in FATNode /\ w.node = h.node /\ w.mode = h.mode /\ w.first = h.first
      /\ w.size = h.size /\ w.proc = h.proc + 1 /\ w.cur = q[h.proc + 2] /\ w.off = 0
  BY <1>2 DEF FATNode, IntoCluster
<1>4. Position(w) = Position(h) + n
  <2> DEFINE base == h.proc * ClusterSize
             off == h.off
  <2>1. base \in Nat /\ Position(h) = base + off /\ off \in Nat /\ off + n = ClusterSize
    BY <1>1, ClusterSizeNat DEF Position
  <2>2. Position(w) = base + ClusterSize
    <3>1. \A p \in Nat : (p + 1) * ClusterSize + 0 = p * ClusterSize + ClusterSize
      BY ClusterSizeNat
    <3> QED  BY <1>1, <1>3, <3>1 DEF Position
  <2> HIDE DEF base, off
  <2> QED  BY <2>1, <2>2, ClusterSizeNat
<1>5. Position(w) <= w.size /\ w.off < ClusterSize /\ w.proc < k /\ w.cur = q[w.proc + 1]
  BY <1>2, <1>3, <1>4, ClusterSizeNat
<1>6. ReaderOK(w, q, k)
  BY <1>5 DEF ReaderOK
<1> QED  BY <1>3, <1>4, <1>6 DEF SameFile

MovedOK(f, h, q, k, n, w) ==
    /\ SameFile(w, h) /\ ReaderOK(w, q, k) /\ Position(w) = Position(h) + n
    /\ h.off + n >= ClusterSize /\ f[h.cur] = Eof => Position(w) = h.size

LEMMA MovedIsOK ==
    ASSUME NEW f, NEW q \in [Nat -> Cluster], NEW k \in Nat, Linked(f, q, k),
           NEW h \in FATNode, k = Clusters(h.size), ReaderOK(h, q, k),
           NEW n \in Nat, Position(h) + n <= h.size, Position(h) < h.size,
           h.off + n <= ClusterSize, NEW w, w = Moved(f, h, n)
    PROVE  MovedOK(f, h, q, k, n, w)
<1>1. h.proc \in Nat /\ h.off \in Nat /\ h.off + n \in Nat
  BY PositionNat
<1>2. h.proc < k /\ h.cur = q[h.proc + 1]
  BY ReaderInCluster
<1>3. f[h.cur] = IF h.proc + 1 = k THEN Eof ELSE q[h.proc + 2]
  BY <1>1, <1>2, NextCluster
<1>4. q[h.proc + 2] \in Cluster /\ q[h.proc + 2] # Eof
  BY <1>1, Sizes
<1>5. CASE h.off + n < ClusterSize \/ f[h.cur] = Eof
  <2>1. w = [h EXCEPT !.off = h.off + n]
    BY <1>5 DEF Moved
  <2>2. h.off + n < ClusterSize \/ h.proc + 1 = k
    BY <1>3, <1>4, <1>5
  <2> QED  BY <1>2, <2>1, <2>2, ReaderStays DEF MovedOK
<1>6. CASE ~(h.off + n < ClusterSize \/ f[h.cur] = Eof)
  <2>1. w = IntoCluster(h, q[h.proc + 2])
    BY <1>3, <1>6 DEF Moved, IntoCluster
  <2>2. h.proc + 1 < k
    BY <1>1, <1>2, <1>3, <1>6
  <2>3. h.off + n = ClusterSize
    BY <1>1, <1>6, ClusterSizeNat
  <2>4. SameFile(w, h) /\ ReaderOK(w, q, k) /\ Position(w) = Position(h) + n
    BY <2>1, <2>2, <2>3, ReaderGoesOn
  <2> QED  BY <1>6, <2>4 DEF MovedOK
<1> QED  BY <1>5, <1>6

\* The m bytes behind position from.
OutIs(o, d, q, from, m) ==
    /\ o \in Seq(0 .. MaxSize) /\ Len(o) = m
    /\ \A i \in 1 .. Len(o) : o[i] = ByteAt(d, q, from + i)

\* The bytes after one turn.
LEMMA ReadOut ==
    ASSUME NEW d, NEW q, NEW out \in Seq(0 .. MaxSize), NEW from \in Nat,
           \A i \in 1 .. Len(out) : out[i] = ByteAt(d, q, from + i),
           NEW t \in Seq(0 .. MaxSize), NEW off \in Nat, NEW n \in Nat, off + n <= Len(t),
           \A j \in 1 .. n : t[off + j] = ByteAt(d, q, from + Len(out) + j)
    PROVE  OutIs(out \o SubSeq(t, off + 1, off + n), d, q, from, Len(out) + n)
<1> DEFINE part == SubSeq(t, off + 1, off + n)
           o == out \o part
           got == Len(out)
<1>1. part \in Seq(0 .. MaxSize) /\ Len(part) = n /\ \A j \in 1 .. n : part[j] = t[off + j]
  <2>1. IsPart(part, t, off, n, 0 .. MaxSize)
    BY PartOfSeq
  <2> QED  BY <2>1 DEF IsPart
<1> HIDE DEF part
<1>2. o \in Seq(0 .. MaxSize) /\ Len(o) = got + n /\ got \in Nat
  BY <1>1, JoinedSeq
<1>3. \A i \in 1 .. got : o[i] = out[i]
  BY <1>1, JoinedSeq
<1>4. \A j \in 1 .. n : o[got + j] = part[j]
  BY <1>1, JoinedSeq
<1>5. \A i \in 1 .. got : out[i] = ByteAt(d, q, from + i)
  OBVIOUS
<1>6. \A j \in 1 .. n : part[j] = ByteAt(d, q, from + got + j)
  BY <1>1
<1> HIDE DEF o, got
<1>7. \A i \in 1 .. got + n : o[i] = ByteAt(d, q, from + i)
  <2> SUFFICES ASSUME NEW i \in 1 .. got + n  PROVE o[i] = ByteAt(d, q, from + i)
    OBVIOUS
  <2>1. CASE i <= got
    <3>1. i \in 1 .. got
      BY <1>2, <2>1
    <3> QED  BY <1>3, <1>5, <3>1
  <2>2. CASE ~(i <= got)
    <3> DEFINE j == i - got
    <3>1. j \in 1 .. n /\ got + j = i /\ from + got + j = from + i
      BY <1>2, <2>2
    <3> HIDE DEF j
    <3> QED  BY <1>4, <1>6, <3>1
  <2> QED  BY <2>1, <2>2
<1>8. OutIs(o, d, q, from, got + n)
  BY <1>2, <1>7 DEF OutIs
<1> QED  BY <1>8 DEF o, part, got

\* The bytes of the cluster a reader is in.
LEMMA ReaderBytes ==
    ASSUME NEW d, NEW q, NEW h \in FATNode, h.cur = q[h.proc + 1],
           NEW n \in Nat, h.off + n <= ClusterSize
    PROVE  \A j \in 1 .. n : d[h.cur][h.off + j] = ByteAt(d, q, Position(h) + j)
<1> SUFFICES ASSUME NEW j \in 1 .. n  PROVE d[h.cur][h.off + j] = ByteAt(d, q, Position(h) + j)
  OBVIOUS
<1> DEFINE base == h.proc * ClusterSize
           off == h.off
<1>1. h.proc \in Nat /\ off \in Nat /\ base \in Nat /\ Position(h) = base + off
  BY PositionNat
<1>2. off + n <= ClusterSize
  OBVIOUS
<1> HIDE DEF off, base
<1>3. off + j \in 1 .. ClusterSize
  BY <1>1, <1>2, ClusterSizeNat
<1>4. ByteAt(d, q, base + (off + j)) = d[q[h.proc + 1]][off + j]
  <2> DEFINE p == h.proc
             o == off + j
  <2>1. p \in Nat /\ o \in 1 .. ClusterSize
    BY <1>1, <1>3
  <2> HIDE DEF p, o
  <2>2. ByteAt(d, q, p * ClusterSize + o) = d[q[p + 1]][o]
    BY ONLY <2>1, ByteIs
  <2> QED  BY <2>2 DEF p, o, base
<1>5. base + (off + j) = Position(h) + j
  BY <1>1
<1> QED  BY <1>4, <1>5 DEF off

\* One turn of the loop of FATNode::read(): the next bytes of the cluster, and the
\* cursor behind them.
LEMMA ReadStepGood ==
    ASSUME NEW f, NEW d, NEW q, NEW k, NEW v, NEW count, Reading(f, d, q, k, v, count),
           NEW s, ReadGood(d, q, k, v, count, s), NEW s2, s2 = ReadStep(f, d, s, count)
    PROVE  /\ ReadGood(d, q, k, v, count, s2)
           /\ IF ReadEnds(v, count, s) THEN s2 = s ELSE Len(s2.out) > Len(s.out)
<1> DEFINE h == s.h
           size == h.size
           pos == Position(h)
           from == Position(v)
           off == h.off
           left == size - pos
           got == Len(s.out)
           room == count - got
           rest == ClusterSize - off
           n == Min({left, room, rest})
           out == s.out \o SubSeq(d[h.cur], off + 1, off + n)
           w == Moved(f, h, n)
           flow == IF off + n >= ClusterSize /\ f[h.cur] = Eof THEN "break" ELSE "loop"
<1>1. s2 = IF s.flow = "break" \/ left <= 0 \/ got = count THEN s
           ELSE [out |-> out, h |-> w, flow |-> flow]
  BY DEF ReadStep, Moved, Position
<1>2. h \in FATNode /\ SameFile(h, v) /\ ReaderOK(h, q, k) /\ size = v.size
  BY DEF ReadGood, SameFile
<1>3. s.out \in Seq(0 .. MaxSize) /\ got <= count
  BY DEF ReadGood
<1>4. pos = from + got
  BY DEF ReadGood
<1>5. \A i \in 1 .. got : s.out[i] = ByteAt(d, q, from + i)
  BY DEF ReadGood
<1>6. s.flow = "break" => pos = size
  BY <1>2 DEF ReadGood
<1>7. /\ f \in FAT /\ d \in [Cluster -> [1 .. ClusterSize -> 0 .. MaxSize]]
      /\ q \in [Nat -> Cluster] /\ k \in Nat /\ v \in FATNode /\ count \in Nat
      /\ Linked(f, q, k)
  BY DEF Reading
<1>8. k = Clusters(size)
  BY <1>2 DEF Reading
<1>9. got \in Nat
  BY <1>3
<1>10. size \in Nat /\ pos \in Nat /\ off \in Nat /\ h.proc \in Nat
  BY <1>2, PositionNat
<1>11. from \in Nat
  BY <1>7, PositionNat
<1>12. pos <= size
  BY <1>2 DEF ReaderOK
<1>13. ReadEnds(v, count, s) <=> pos = size \/ got = count
  BY <1>2 DEF ReadEnds
<1>14. count \in Nat
  BY <1>7
<1> HIDE DEF size, pos, from, off, left, got, room, rest, n, out, w, flow
<1>15. CASE s.flow = "break" \/ left <= 0 \/ got = count
  <2>1. s2 = s
    BY <1>1, <1>15
  <2>2. pos = size \/ got = count
    BY <1>6, <1>10, <1>12, <1>15 DEF left
  <2> QED  BY <1>13, <2>1, <2>2
<1>16. CASE ~(s.flow = "break" \/ left <= 0 \/ got = count)
  <2>1. s2 = [out |-> out, h |-> w, flow |-> flow]
    BY <1>1, <1>16
  <2>2. s2.out = out /\ s2.h = w /\ s2.flow = flow
    BY <2>1
  <2>3. left \in Nat /\ left > 0 /\ pos < size
    BY <1>10, <1>12, <1>16 DEF left
  <2>4. room \in Nat /\ room > 0
    BY <1>3, <1>9, <1>14, <1>16 DEF room
  <2>5. off < ClusterSize /\ h.cur = q[h.proc + 1] /\ h.proc < k
    <3>1. k = Clusters(h.size) /\ Position(h) < h.size
      BY <1>8, <2>3 DEF size, pos
    <3> QED  BY <1>2, <1>7, <3>1, ReaderInCluster DEF off
  <2>6. rest \in Nat /\ rest > 0
    BY <1>10, <2>5, ClusterSizeNat DEF rest
  <2>7. n \in Nat /\ n > 0 /\ n <= left /\ n <= room /\ n <= rest
    BY <2>3, <2>4, <2>6, ReadPart DEF n
  <2>8. off + n <= ClusterSize /\ pos + n <= size /\ got + n <= count
    BY <1>9, <1>10, <1>14, <2>7, ClusterSizeNat DEF rest, left, room
  <2>9. /\ SameFile(w, h) /\ ReaderOK(w, q, k) /\ Position(w) = pos + n
        /\ off + n >= ClusterSize /\ f[h.cur] = Eof => Position(w) = size
    <3>1. k = Clusters(h.size) /\ Position(h) < h.size /\ Position(h) + n <= h.size
          /\ h.off + n <= ClusterSize
      BY <1>8, <2>3, <2>8 DEF size, pos, off
    <3>2. w = Moved(f, h, n)
      BY DEF w
    <3>3. MovedOK(f, h, q, k, n, w)
      BY <1>2, <1>7, <2>7, <3>1, <3>2, MovedIsOK
    <3> QED  BY <3>3 DEF MovedOK, pos, off, size
  <2>10. /\ out \in Seq(0 .. MaxSize) /\ Len(out) = got + n
         /\ \A i \in 1 .. Len(out) : out[i] = ByteAt(d, q, from + i)
    <3> DEFINE t == d[h.cur]
    <3>1. t \in Seq(0 .. MaxSize) /\ Len(t) = ClusterSize
      <4>1. h.proc + 1 \in Nat
        BY <1>10
      <4>2. t \in [1 .. ClusterSize -> 0 .. MaxSize]
        BY <1>7, <2>5, <4>1
      <4> HIDE DEF t
      <4> QED  BY <4>2, ClusterSizeNat, FunctionIsSeq
    <3>2. \A j \in 1 .. n : t[off + j] = ByteAt(d, q, from + got + j)
      <4>1. h.off + n <= ClusterSize
        BY <2>8 DEF off
      <4>2. \A j \in 1 .. n : d[h.cur][h.off + j] = ByteAt(d, q, Position(h) + j)
        BY <1>2, <2>5, <2>7, <4>1, ReaderBytes
      <4> QED  BY <1>4, <4>2 DEF off, pos
    <3> HIDE DEF t
    <3>3. out = s.out \o SubSeq(t, off + 1, off + n)
      BY DEF out, t
    <3>4. \A i \in 1 .. Len(s.out) : s.out[i] = ByteAt(d, q, from + i)
      BY <1>5 DEF got
    <3>5. \A j \in 1 .. n : t[off + j] = ByteAt(d, q, from + Len(s.out) + j)
      BY <3>2 DEF got
    <3>6. off + n <= Len(t)
      BY <2>8, <3>1
    <3>7. OutIs(out, d, q, from, Len(s.out) + n)
      BY <1>3, <1>10, <1>11, <2>7, <3>1, <3>3, <3>4, <3>5, <3>6, ReadOut
    <3> QED  BY <3>7 DEF OutIs, got
  <2>11. Position(w) = from + Len(out) /\ Len(out) > got /\ Len(out) <= count
    BY <1>4, <1>9, <1>11, <2>7, <2>8, <2>9, <2>10
  <2>12. SameFile(w, v)
    BY <1>2, <2>9 DEF SameFile
  <2>13. flow = "break" => Position(w) = v.size
    BY <1>2, <2>9 DEF flow
  <2>14. ReadGood(d, q, k, v, count, s2)
    <3>1. SameFile(s2.h, v) /\ ReaderOK(s2.h, q, k)
      BY <2>2, <2>9, <2>12
    <3>2. s2.out \in Seq(0 .. MaxSize) /\ Len(s2.out) <= count
      BY <2>2, <2>10, <2>11
    <3>3. Position(s2.h) = Position(v) + Len(s2.out)
      BY <2>2, <2>11 DEF from
    <3>4. \A i \in 1 .. Len(s2.out) : s2.out[i] = ByteAt(d, q, Position(v) + i)
      BY <2>2, <2>10 DEF from
    <3>5. s2.flow = "break" => Position(s2.h) = v.size
      BY <2>2, <2>13
    <3> QED  BY <3>1, <3>2, <3>3, <3>4, <3>5 DEF ReadGood
  <2>15. ~(pos = size \/ got = count)
    BY <1>10, <1>16, <2>3
  <2>16. Len(s2.out) > Len(s.out)
    BY <2>2, <2>11 DEF got
  <2> QED  BY <1>13, <2>14, <2>15, <2>16
<1> QED  BY <1>15, <1>16

\* FATNode::read() returns the next bytes of the file, up to its end or to count.
LEMMA ReadIsGood ==
    ASSUME NEW f, NEW d, NEW q, NEW k, NEW v, NEW count, Reading(f, d, q, k, v, count),
           ReaderOK(v, q, k), NEW r, r = ReadNode(f, d, v, count)
    PROVE  ReadGood(d, q, k, v, count, r) /\ ReadEnds(v, count, r)
<1>1. count \in Nat /\ v \in FATNode
  BY DEF Reading
<1>2. PICK loop : /\ loop[0] = [out |-> << >>, h |-> v, flow |-> "loop"]
                  /\ \A j \in 1 .. count : loop[j] = ReadStep(f, d, loop[j - 1], count)
                  /\ ReadNode(f, d, v, count) = loop[count]
  BY <1>1, ReadLoop
<1> DEFINE Good(j) == /\ ReadGood(d, q, k, v, count, loop[j])
                      /\ Len(loop[j].out) >= j \/ ReadEnds(v, count, loop[j])
<1>3. Good(0)
  <2>1. loop[0].out = << >> /\ loop[0].h = v /\ loop[0].flow = "loop"
    BY <1>2
  <2>2. Position(v) \in Nat
    BY <1>1, PositionNat
  <2>3. SameFile(loop[0].h, v) /\ ReaderOK(loop[0].h, q, k)
    BY <1>1, <2>1 DEF SameFile
  <2>4. loop[0].out \in Seq(0 .. MaxSize) /\ Len(loop[0].out) = 0
    BY <2>1
  <2>5. Position(loop[0].h) = Position(v) + Len(loop[0].out)
    BY <2>1, <2>2, <2>4
  <2>6. \A i \in 1 .. Len(loop[0].out) : loop[0].out[i] = ByteAt(d, q, Position(v) + i)
    BY <2>4
  <2>7. Len(loop[0].out) <= count
    BY <1>1, <2>4
  <2>8. loop[0].flow # "break"
    BY <2>1
  <2>9. ReadGood(d, q, k, v, count, loop[0])
    BY <2>3, <2>4, <2>5, <2>6, <2>7, <2>8 DEF ReadGood
  <2> QED  BY <2>4, <2>9
<1>4. ASSUME NEW j \in 1 .. count, Good(j - 1)  PROVE Good(j)
  <2> DEFINE s == loop[j - 1]
             s2 == loop[j]
  <2>1. s2 = ReadStep(f, d, s, count)
    BY <1>2
  <2>2. ReadGood(d, q, k, v, count, s) /\ (Len(s.out) >= j - 1 \/ ReadEnds(v, count, s))
    BY <1>4
  <2>3. Len(s.out) \in Nat
    BY <2>2 DEF ReadGood
  <2> HIDE DEF s, s2
  <2>4. /\ ReadGood(d, q, k, v, count, s2)
        /\ IF ReadEnds(v, count, s) THEN s2 = s ELSE Len(s2.out) > Len(s.out)
    BY <2>1, <2>2, ReadStepGood
  <2>5. Len(s2.out) \in Nat
    BY <2>4 DEF ReadGood
  <2>6. Len(s2.out) >= j \/ ReadEnds(v, count, s2)
    <3>1. CASE ReadEnds(v, count, s)
      BY <2>4, <3>1
    <3>2. CASE ~ReadEnds(v, count, s)
      <4>1. Len(s.out) >= j - 1 /\ Len(s2.out) > Len(s.out)
        BY <2>2, <2>4, <3>2
      <4> QED  BY <2>3, <2>5, <4>1
    <3> QED  BY <3>1, <3>2
  <2> QED  BY <2>4, <2>6 DEF s2
<1> HIDE DEF Good
<1>5. Good(count)
  <2> DEFINE Bad == {j \in 0 .. count : ~Good(j)}
  <2> SUFFICES ASSUME Bad # {}  PROVE FALSE
    BY <1>1
  <2>1. Bad \in SUBSET Nat
    OBVIOUS
  <2>2. PICK j \in Bad : \A i \in Bad : j <= i
    BY <2>1, Smallest
  <2>3. j \in 0 .. count /\ ~Good(j)
    OBVIOUS
  <2>4. j - 1 \notin Bad
    <3> HIDE DEF Bad
    <3> QED  BY <2>1, <2>2, <2>3
  <2>5. j \in 1 .. count /\ j - 1 \in 0 .. count
    BY <1>1, <1>3, <2>3
  <2>6. Good(j - 1)
    BY <2>4, <2>5
  <2> QED  BY <1>4, <2>3, <2>5, <2>6
<1>6. r = loop[count]
  BY <1>2
<1>7. ReadGood(d, q, k, v, count, r) /\ (Len(r.out) >= count \/ ReadEnds(v, count, r))
  BY <1>5, <1>6 DEF Good
<1>8. Len(r.out) <= count /\ Len(r.out) \in Nat
  BY <1>7 DEF ReadGood
<1>9. ReadEnds(v, count, r)
  <2> SUFFICES ASSUME Len(r.out) >= count  PROVE ReadEnds(v, count, r)
    BY <1>7
  <2>1. Len(r.out) = count
    BY <1>1, <1>8
  <2> QED  BY <2>1 DEF ReadEnds
<1> QED  BY <1>7, <1>9

\* The file of a reader.
LEMMA ReadingIts ==
    ASSUME IInv, NEW ch, NEW len, VolumeOK(entry, fat, node, ch, len),
           NEW h \in Handle, node[h] # None, node[h].node \in File, node[h].mode = "READ",
           NEW count \in Nat
    PROVE  LET n == node[h].node
               r == ReadNode(fat, data, node[h], count)
           IN  /\ Reading(fat, data, ch[n], len[n], node[h], count)
               /\ ReadGood(data, ch[n], len[n], node[h], count, r) /\ ReadEnds(node[h], count, r)
<1> DEFINE n == node[h].node
           q == ch[n]
           k == len[n]
           v == node[h]
           r == ReadNode(fat, data, v, count)
<1>1. /\ q \in [Nat -> Cluster] /\ k \in Nat /\ k = Clusters(v.size)
      /\ IF k = 0 THEN v.first = 0 ELSE v.first = q[1] /\ fat[q[k]] = Eof
      /\ \A i \in 1 .. k - 1 : fat[q[i]] = q[i + 1]
      /\ ReaderOK(v, q, k)
  BY ReaderParts
<1>2. /\ fat \in FAT /\ v \in FATNode /\ data \in [Cluster -> [1 .. ClusterSize -> 0 .. MaxSize]]
  BY Parts
<1> HIDE DEF n, q, k, v
<1>3. Linked(fat, q, k)
  BY <1>1 DEF Linked
<1>4. Reading(fat, data, q, k, v, count)
  BY <1>1, <1>2, <1>3 DEF Reading
<1>5. ReadGood(data, q, k, v, count, r) /\ ReadEnds(v, count, r)
  BY <1>1, <1>4, ReadIsGood
<1> QED  BY <1>4, <1>5 DEF n, q, k, v

LEMMA ReadMoves ==
    ASSUME Plain, IInv, NEW ch, NEW len, VolumeOK(entry, fat, node, ch, len),
           NEW h \in Handle, NEW count \in 1 .. MaxSize, Read(h, count)
    PROVE  CursorMoves(ch, len, h)
<1>1. VolumeOK(entry, fat, node, ch, len)
  OBVIOUS
<1>2. node[h] # None /\ node[h].node \in File /\ node[h].mode = "READ"
  BY DEF Read, MayMove, Open, Plain
<1> DEFINE r == ReadNode(fat, data, node[h], count)
           w == r.h
<1>3. node' = [node EXCEPT ![h] = w] /\ UNCHANGED <<entry, fat, data, refs>>
  BY DEF Read
<1>4. count \in Nat
  BY Sizes
<1>5. ReadGood(data, ch[node[h].node], len[node[h].node], node[h], count, r)
  BY <1>1, <1>2, <1>4, ReadingIts
<1>6. SameFile(w, node[h]) /\ ReaderOK(w, ch[node[h].node], len[node[h].node])
  <2> HIDE DEF r
  <2> QED  BY <1>5 DEF ReadGood
<1> HIDE DEF w
<1> QED  BY <1>2, <1>3, <1>6 DEF CursorMoves

LEMMA ReadOK ==
    ASSUME Plain, IInv, NEW h \in Handle, NEW count \in 1 .. MaxSize, Read(h, count)
    PROVE  IInv'
<1>1. PICK ch, len : VolumeOK(entry, fat, node, ch, len)
  BY DEF IInv
<1>2. CursorMoves(ch, len, h)
  BY <1>1, ReadMoves
<1> QED  BY <1>1, <1>2, ReaderMoves DEF CursorMoves

LEMMA SameSeq ==
    ASSUME NEW S, NEW T, NEW a \in Seq(S), NEW b \in Seq(T), Len(a) = Len(b),
           \A i \in 1 .. Len(a) : a[i] = b[i]
    PROVE  a = b
OBVIOUS

\* Content with the entries, the FAT and the bytes of any state.
ContentOn(e, f, d, n) ==
    LET chain == Chain(f, e[n].first)
    IN  [i \in 1 .. Min({e[n].size, Len(chain) * ClusterSize}) |->
            d[chain[Clusters(i)]][i - (Clusters(i) - 1) * ClusterSize]]

LEMMA ContentOnIs ==
    ASSUME NEW e, NEW f \in FAT, NEW d, NEW n, NEW size \in Nat, size = e[n].size,
           NEW q \in [Nat -> Cluster], IsChain(f, e[n].first, q, Clusters(size))
    PROVE  ContentOn(e, f, d, n) = [i \in 1 .. size |-> ByteAt(d, q, i)]
<1> DEFINE first == e[n].first
           s == Chain(f, first)
           k == Clusters(size)
<1>1. k \in Nat /\ size <= k * ClusterSize
  BY ClustersHold
<1>2. Len(s) = k /\ \A i \in 1 .. k : s[i] = q[i]
  <2>1. s = [i \in 1 .. k |-> q[i]]
    <3> HIDE DEF k, first
    <3>1. IsChain(f, first, q, k)
      BY DEF k, first
    <3> QED  BY <1>1, <3>1, ChainIs
  <2>2. Lists(s, q, k)
    BY <1>1, <2>1, ChainSeq
  <2> HIDE DEF s, k
  <2> QED  BY <2>2 DEF Lists
<1>3. ContentOn(e, f, d, n) = [i \in 1 .. Min({size, Len(s) * ClusterSize}) |->
                                  d[s[Clusters(i)]][i - (Clusters(i) - 1) * ClusterSize]]
  BY DEF ContentOn
<1> HIDE DEF s, first
<1>4. Min({size, Len(s) * ClusterSize}) = size
  <2>1. k * ClusterSize \in Int
    BY <1>1, ClusterSizeNat
  <2> QED  BY <1>1, <1>2, <2>1, MinOfTwo
<1>5. \A i \in 1 .. size : Clusters(i) \in 1 .. k
  <2> SUFFICES ASSUME NEW i \in 1 .. size  PROVE Clusters(i) \in 1 .. k
    OBVIOUS
  <2>1. i \in Nat /\ i > 0 /\ i <= size
    OBVIOUS
  <2>2. Clusters(i) \in Nat /\ Clusters(i) > 0 /\ Clusters(i) <= k
    BY <2>1, ClustersHold, ClustersGrow
  <2> QED  BY <1>1, <2>2
<1> HIDE DEF k
<1>6. \A i \in 1 .. size : d[s[Clusters(i)]][i - (Clusters(i) - 1) * ClusterSize] = ByteAt(d, q, i)
  BY <1>2, <1>5 DEF ByteAt
<1> QED  BY <1>3, <1>4, <1>6

LEMMA LayoutIsChain ==
    ASSUME NEW e, NEW f, NEW ch, NEW len, Layout(e, f, ch, len), NEW n \in Node, e[n] # None
    PROVE  /\ f \in FAT /\ ch[n] \in [Nat -> Cluster] /\ len[n] \in Nat
           /\ IsChain(f, e[n].first, ch[n], len[n])
BY DEF Layout, IsChain

\* The content of a file, byte for byte.
LEMMA ContentIs ==
    ASSUME NEW ch, NEW len, Layout(entry, fat, ch, len), NEW n \in Node, entry[n] # None,
           entry[n].size \in Nat, len[n] = Clusters(entry[n].size)
    PROVE  Content(n) = [i \in 1 .. entry[n].size |-> ByteAt(data, ch[n], i)]
<1>1. Content(n) = ContentOn(entry, fat, data, n)
  BY DEF Content, ContentOn, ChainOf
<1>2. IsChain(fat, entry[n].first, ch[n], Clusters(entry[n].size)) /\ ch[n] \in [Nat -> Cluster] /\ fat \in FAT
  BY LayoutIsChain
<1> QED  BY <1>1, <1>2, ContentOnIs

\* A read returns the bytes of the file from the cursor on.
LEMMA ReadExact == IInv => ReadIsExact
<1> SUFFICES ASSUME IInv, NEW h \in Open, NEW count \in 1 .. MaxSize,
                    node[h].mode = "READ", node[h].node \in File
             PROVE  LET from == node[h].proc * ClusterSize + node[h].off
                    IN  ReadNode(fat, data, node[h], count).out =
                            SubSeq(Content(node[h].node), from + 1,
                                   Min({from + count, entry[node[h].node].size}))
  BY DEF ReadIsExact
<1>1. PICK ch, len : VolumeOK(entry, fat, node, ch, len)
  BY DEF IInv
<1> DEFINE v == node[h]
           n == v.node
           q == ch[n]
           size == entry[n].size
           from == v.proc * ClusterSize + v.off
           r == ReadNode(fat, data, v, count)
           got == Len(r.out)
           S == {ByteAt(data, q, i) : i \in 1 .. size}
           c == [i \in 1 .. size |-> ByteAt(data, q, i)]
<1>2. h \in Handle /\ node[h] # None /\ count \in Nat
  BY Sizes DEF Open
<1>3. n \in Node /\ entry[n] # None /\ v.size = size /\ len[n] = Clusters(size)
  BY <1>1, <1>2, ReaderParts
<1>4. v \in FATNode
  BY <1>2, Parts
<1>5. size \in Nat /\ from \in Nat /\ Position(v) = from
  BY <1>3, <1>4, PositionNat
<1>6. ReadGood(data, q, len[n], v, count, r) /\ ReadEnds(v, count, r)
  BY <1>1, <1>2, ReadingIts
<1>7. Layout(entry, fat, ch, len)
  BY <1>1 DEF VolumeOK
<1>8. Content(n) = c
  BY <1>3, <1>5, <1>7, ContentIs
<1> HIDE DEF v, n, q, size, from, r
<1>9. r.out \in Seq(0 .. MaxSize) /\ got <= count /\ got \in Nat
  BY <1>6 DEF ReadGood
<1>10. Position(r.h) = from + got /\ Position(r.h) <= size
  <2>1. Position(r.h) <= r.h.size /\ r.h.size = v.size /\ Position(r.h) = Position(v) + Len(r.out)
    BY <1>6 DEF ReadGood, SameFile, ReaderOK
  <2> QED  BY <1>3, <1>5, <2>1
<1>11. \A i \in 1 .. got : r.out[i] = ByteAt(data, q, from + i)
  BY <1>5, <1>6 DEF ReadGood
<1>12. Position(r.h) = size \/ got = count
  BY <1>3, <1>6 DEF ReadEnds
<1>15. c \in Seq(S) /\ Len(c) = size
  <2>1. c \in [1 .. size -> S]
    OBVIOUS
  <2> HIDE DEF c, S
  <2> QED  BY <1>5, <2>1, FunctionIsSeq
<1>16. \A i \in 1 .. size : c[i] = ByteAt(data, q, i)
  OBVIOUS
<1> HIDE DEF got, S, c
<1>13. Min({from + count, size}) = from + got
  BY <1>2, <1>5, <1>9, <1>10, <1>12, MinOfTwo
<1>14. from + got <= size
  BY <1>10
<1>17. IsPart(SubSeq(c, from + 1, from + got), c, from, got, S)
  BY <1>5, <1>9, <1>14, <1>15, PartOfSeq
<1> DEFINE p == SubSeq(c, from + 1, from + got)
<1>18. p \in Seq(S) /\ Len(p) = got /\ \A i \in 1 .. got : p[i] = c[from + i]
  BY <1>17 DEF IsPart
<1> HIDE DEF p
<1>19. \A i \in 1 .. got : p[i] = r.out[i]
  <2> SUFFICES ASSUME NEW i \in 1 .. got  PROVE p[i] = r.out[i]
    OBVIOUS
  <2>1. from + i \in 1 .. size
    BY <1>5, <1>9, <1>14
  <2> QED  BY <1>11, <1>16, <1>18, <2>1
<1>20. r.out = p
  <2>1. Len(r.out) = got
    BY DEF got
  <2> QED  BY <1>9, <1>18, <1>19, <2>1, SameSeq
<1> QED  BY <1>8, <1>13, <1>20 DEF p, v, n, from, size, r

---------------------------------------------------------------------------
(* Writers *)

\* The clusters of a file of k0 clusters while write() is behind byte a.
Grown(k0, a) == IF Clusters(a) <= k0 THEN k0 ELSE Clusters(a)

LEMMA ClustersBehind ==
    ASSUME NEW p \in Nat, NEW o \in 1 .. ClusterSize
    PROVE  Clusters(p * ClusterSize + o) = p + 1
<1>1. CASE o < ClusterSize
  <2>1. o \in 0 .. ClusterSize - 1 /\ o # 0
    BY <1>1, Sizes
  <2> QED  BY <2>1, ClustersOfSum
<1>2. CASE o = ClusterSize
  <2>1. p + 1 \in Nat /\ 0 \in 0 .. ClusterSize - 1
    BY Sizes
  <2>2. Clusters((p + 1) * ClusterSize + 0) = p + 1
    BY <2>1, ClustersOfSum
  <2>3. p * ClusterSize + o = (p + 1) * ClusterSize + 0
    BY <1>2, Sizes
  <2> QED  BY <2>2, <2>3
<1> QED  BY <1>1, <1>2, Sizes

\* A turn of the loop of write() copies n bytes behind off into the cluster p.
GrowsAt(k0, p, off, n, a) ==
    /\ p < k0 => Grown(k0, a) = k0 /\ Grown(k0, a + n) = k0
    /\ k0 <= p /\ off = 0 => Grown(k0, a) = p /\ Grown(k0, a + n) = p + 1

LEMMA GrownIs ==
    ASSUME NEW k0 \in Nat, NEW p \in Nat, NEW off \in Nat, NEW n \in Nat, n > 0,
           off + n <= ClusterSize, NEW a \in Nat, a = p * ClusterSize + off
    PROVE  GrowsAt(k0, p, off, n, a)
<1>1. off + n \in 1 .. ClusterSize
  BY ClusterSizeNat
<1>2. Clusters(p * ClusterSize + (off + n)) = p + 1
  BY <1>1, ClustersBehind
<1>3. a + n = p * ClusterSize + (off + n)
  <2> DEFINE base == p * ClusterSize
  <2>1. base \in Nat /\ a = base + off
    BY ClusterSizeNat
  <2> HIDE DEF base
  <2>2. a + n = base + (off + n)
    BY ONLY <2>1, off \in Nat, n \in Nat
  <2> QED  BY <2>2 DEF base
<1>4. Clusters(a + n) = p + 1
  BY <1>2, <1>3
<1>5. Clusters(a) = IF off = 0 THEN p ELSE p + 1
  <2>1. off \in 0 .. ClusterSize - 1
    BY ClusterSizeNat
  <2> QED  BY <2>1, ClustersOfSum
<1> QED  BY ONLY <1>4, <1>5, k0 \in Nat, p \in Nat DEF Grown, GrowsAt

\* The cursor of a writer.
WriterAt(h, q, k) ==
    /\ h.off < ClusterSize
    /\ h.cur = IF k = 0 THEN 0 ELSE IF h.proc < k THEN q[h.proc + 1] ELSE q[k]

Advanced(h, q, k, n, w) ==
    /\ SameFile(w, h) /\ WriterAt(w, q, k) /\ Position(w) = Position(h) + n
    /\ h.off + n = ClusterSize => w.off = 0

\* The cursor behind n bytes of its cluster, as write() moves it.
LEMMA Advances ==
    ASSUME NEW f, NEW q \in [Nat -> Cluster], NEW k \in Nat, Linked(f, q, k),
           NEW h \in FATNode, h.proc < k, h.cur = q[h.proc + 1],
           NEW n \in Nat, h.off + n <= ClusterSize, NEW w, w = Advance(f, h, n)
    PROVE  Advanced(h, q, k, n, w)
<1>1. h.proc \in Nat /\ h.off \in Nat /\ h.off + n \in Nat
  BY PositionNat
<1>2. f[h.cur] = IF h.proc + 1 = k THEN Eof ELSE q[h.proc + 2]
  BY <1>1, NextCluster
<1>3. /\ q[h.proc + 2] \in Cluster /\ q[h.proc + 1] \in Cluster
      /\ q[h.proc + 2] # Eof /\ k # 0
  BY <1>1, Sizes
<1> DEFINE base == h.proc * ClusterSize
           off == h.off
<1>4. base \in Nat /\ Position(h) = base + off /\ off \in Nat
  BY <1>1, ClusterSizeNat DEF Position
<1>5. CASE h.off + n < ClusterSize
  <2>1. w = [h EXCEPT !.off = h.off + n]
    BY <1>5 DEF Advance
  <2>2. h.off + n \in 0 .. ClusterSize
    BY <1>1, ClusterSizeNat
  <2>3. w \in FATNode /\ w.node = h.node /\ w.mode = h.mode /\ w.first = h.first
        /\ w.size = h.size /\ w.proc = h.proc /\ w.cur = h.cur /\ w.off = h.off + n
    BY <2>1, <2>2 DEF FATNode
  <2>4. Position(w) = base + (off + n)
    BY <2>3 DEF Position
  <2>5. Position(w) = Position(h) + n
    <3> HIDE DEF base, off
    <3> QED  BY <1>4, <2>4
  <2>6. WriterAt(w, q, k)
    BY <1>3, <1>5, <2>3 DEF WriterAt
  <2>7. SameFile(w, h)
    BY <2>3 DEF SameFile
  <2>8. h.off + n # ClusterSize
    BY <1>1, <1>5, ClusterSizeNat
  <2> QED  BY <2>5, <2>6, <2>7, <2>8 DEF Advanced
<1>6. CASE ~(h.off + n < ClusterSize)
  <2> DEFINE c == IF h.proc + 1 = k THEN q[h.proc + 1] ELSE q[h.proc + 2]
  <2>1. w = [h EXCEPT !.off = 0, !.proc = h.proc + 1, !.cur = c]
    BY <1>2, <1>3, <1>6 DEF Advance
  <2>2. off + n = ClusterSize
    BY <1>1, <1>6, ClusterSizeNat
  <2>3. c \in Cluster /\ h.proc + 1 \in Nat /\ 0 \in 0 .. ClusterSize
    BY <1>1, <1>3, ClusterSizeNat
  <2>4. /\ h.proc + 1 < k => c = q[(h.proc + 1) + 1]
        /\ ~(h.proc + 1 < k) => c = q[k]
    <3>1. (h.proc + 1) + 1 = h.proc + 2
      BY <1>1
    <3>2. ~(h.proc + 1 < k) => h.proc + 1 = k
      BY <1>1
    <3> QED  BY <1>1, <3>1, <3>2
  <2> HIDE DEF c
  <2>5. w \in FATNode /\ w.node = h.node /\ w.mode = h.mode /\ w.first = h.first
        /\ w.size = h.size /\ w.proc = h.proc + 1 /\ w.cur = c /\ w.off = 0
    BY <2>1, <2>3 DEF FATNode
  <2>6. Position(w) = base + ClusterSize
    <3>1. \A p \in Nat : (p + 1) * ClusterSize + 0 = p * ClusterSize + ClusterSize
      BY ClusterSizeNat
    <3> QED  BY <1>1, <2>5, <3>1 DEF Position
  <2>7. Position(w) = Position(h) + n
    <3> HIDE DEF base, off
    <3> QED  BY <1>4, <2>2, <2>6, ClusterSizeNat
  <2>8. WriterAt(w, q, k)
    BY <1>3, <2>4, <2>5, ClusterSizeNat DEF WriterAt
  <2>9. SameFile(w, h)
    BY <2>5 DEF SameFile
  <2> QED  BY <2>5, <2>7, <2>8, <2>9 DEF Advanced
<1> QED  BY <1>5, <1>6

\* What a call of write() works on.
State(f, d, e, h, p, st) ==
    [fat |-> f, data |-> d, entry |-> e, h |-> h, pos |-> p, status |-> st]

LEMMA StateParts ==
    ASSUME NEW f, NEW d, NEW e, NEW h, NEW p, NEW st, NEW s, s = State(f, d, e, h, p, st)
    PROVE  /\ s.fat = f /\ s.data = d /\ s.entry = e /\ s.h = h /\ s.pos = p /\ s.status = st
           /\ s = State(s.fat, s.data, s.entry, s.h, s.pos, s.status)
BY DEF State

\* The entry of the node h; the node with a first, and with a further, cluster c; the
\* FAT with c behind x.
EntryOf(e, h) == [e EXCEPT ![h.node] = [first |-> h.first, size |-> h.size]]
WithFirst(h, c) == [h EXCEPT !.first = c, !.cur = c]
WithCur(h, c) == [h EXCEPT !.cur = c]
EndsAt(f, c) == [f EXCEPT ![c] = Eof]
LinksTo(f, x, c) == [f EXCEPT ![x] = c, ![c] = Eof]

LEMMA UpdateIs ==
    ASSUME NEW f, NEW d, NEW e, NEW h, NEW p, NEW st, NEW s, s = State(f, d, e, h, p, st)
    PROVE  Update(s) = State(f, d, EntryOf(e, h), h, p, st)
<1>1. s.h = h /\ s.entry = e
  BY StateParts
<1>2. Update(s) = [s EXCEPT !.entry = EntryOf(e, h)]
  BY <1>1 DEF Update, EntryOf
<1> QED  BY <1>2 DEF State

\* allocate_cluster() for an empty file.
LEMMA LinkFirst ==
    ASSUME NEW f, NEW d, NEW e, NEW h, NEW p, NEW st, NEW c,
           NEW s, s = State(f, d, e, h, p, st), h.cur = 0
    PROVE  Link(s, c) = State(EndsAt(f, c), d, EntryOf(e, WithFirst(h, c)), WithFirst(h, c), p, st)
<1> DEFINE h1 == [h EXCEPT !.first = c]
           s1 == [s EXCEPT !.h.first = c]
           s2 == [s1 EXCEPT !.fat[c] = Eof]
           s3 == [s2 EXCEPT !.h.cur = c]
<1>1. s.h = h /\ s.fat = f
  BY StateParts
<1>2. Link(s, c) = Update(s3)
  BY <1>1 DEF Link
<1>4. s1 = [s EXCEPT !.h = h1]
  BY <1>1
<1> HIDE DEF h1, s1
<1>5. s1 = State(f, d, e, h1, p, st)
  BY <1>4 DEF State
<1>6. s1.fat = f
  BY <1>5, StateParts
<1>7. s2 = [s1 EXCEPT !.fat = EndsAt(f, c)]
  BY <1>6 DEF EndsAt
<1> HIDE DEF s2
<1>8. s2 = State(EndsAt(f, c), d, e, h1, p, st)
  BY <1>5, <1>7 DEF State
<1>9. s2.h = h1
  BY <1>8, StateParts
<1>10. s3 = [s2 EXCEPT !.h = WithFirst(h, c)]
  BY <1>9 DEF WithFirst, h1
<1> HIDE DEF s3
<1>11. s3 = State(EndsAt(f, c), d, e, WithFirst(h, c), p, st)
  BY <1>8, <1>10 DEF State
<1> QED  BY <1>2, <1>11, UpdateIs

\* allocate_cluster() behind the last cluster.
LEMMA LinkNext ==
    ASSUME NEW f, NEW d, NEW e, NEW h, NEW p, NEW st, NEW c,
           NEW s, s = State(f, d, e, h, p, st), h.cur # 0
    PROVE  Link(s, c) = State(LinksTo(f, h.cur, c), d, e, WithCur(h, c), p, st)
<1> DEFINE f2 == [f EXCEPT ![h.cur] = c, ![c] = Eof]
           s1 == [s EXCEPT !.fat = f2]
           s2 == [s1 EXCEPT !.h.cur = c]
<1>1. s.h = h /\ s.fat = f
  BY StateParts
<1>2. Link(s, c) = s2
  BY <1>1 DEF Link
<1>3. s1 = [s EXCEPT !.fat = LinksTo(f, h.cur, c)]
  BY DEF LinksTo
<1> HIDE DEF s1
<1>4. s1 = State(LinksTo(f, h.cur, c), d, e, h, p, st)
  BY <1>3 DEF State
<1>5. s1.h = h
  BY <1>4, StateParts
<1>6. s2 = [s1 EXCEPT !.h = WithCur(h, c)]
  BY <1>5 DEF WithCur
<1> HIDE DEF s2
<1>7. s2 = State(LinksTo(f, h.cur, c), d, e, WithCur(h, c), p, st)
  BY <1>4, <1>6 DEF State
<1> QED  BY <1>2, <1>7

\* The part of the buffer that fits is copied.
DataWith(d, h, first, bytes, p, n) ==
    [d EXCEPT ![h.cur] = Copied(d[h.cur], h, first, bytes, p, n)]

LEMMA CopyIs ==
    ASSUME NEW f, NEW d, NEW e, NEW h, NEW p, NEW st, NEW a, a = State(f, d, e, h, p, st),
           NEW bytes, NEW first, NEW n, n = Min({Len(bytes) - p, ClusterSize - h.off})
    PROVE  CopyBytes(a, bytes, first) =
           State(f, DataWith(d, h, first, bytes, p, n), e, Advance(f, h, n), p + n, st)
<1>1. a.fat = f /\ a.h = h /\ a.pos = p /\ a.data = d
  BY StateParts
<1> DEFINE d2 == [d EXCEPT ![h.cur] = Copied(d[h.cur], h, first, bytes, p, n)]
           w == Advance(f, h, n)
           a1 == [a EXCEPT !.data[a.h.cur] = Copied(@, a.h, first, bytes, a.pos, n)]
           a2 == [a1 EXCEPT !.pos = @ + n]
           a3 == [a2 EXCEPT !.h = Advance(a.fat, a.h, n)]
<1>2. Min({Len(bytes) - a.pos, ClusterSize - a.h.off}) = n
  BY <1>1
<1>3. CopyBytes(a, bytes, first) = a3
  BY <1>2 DEF CopyBytes
<1>4. a1 = [a EXCEPT !.data = d2]
  BY <1>1
<1> HIDE DEF d2, a1
<1>5. a1 = State(f, d2, e, h, p, st)
  BY <1>4 DEF State
<1>6. a1.pos = p
  BY <1>5, StateParts
<1>7. a2 = [a1 EXCEPT !.pos = p + n]
  BY <1>6
<1> HIDE DEF a2
<1>8. a2 = State(f, d2, e, h, p + n, st)
  BY <1>5, <1>7 DEF State
<1>9. a3 = [a2 EXCEPT !.h = w]
  BY <1>1
<1> HIDE DEF a3, w
<1>10. a3 = State(f, d2, e, w, p + n, st)
  BY <1>8, <1>9 DEF State
<1> QED  BY <1>3, <1>10 DEF d2, w, DataWith

\* While write() runs on h: the clusters of its node n are the first k of ch2[n] and
\* its entry names the first of them; the other nodes are as in e0, ch and len.
OnVolume(e0, ch, len, n, k, e, f, h, ch2, len2) ==
    /\ Layout(e, f, ch2, len2) /\ len2[n] = k
    /\ \A m \in Node : m # n => ch2[m] = ch[m] /\ len2[m] = len[m]
    /\ e = EntryOf(e0, h)
    /\ h \in FATNode /\ h.node = n

\* Two chains have their first k clusters in common.
SameTill(q, r, k) == \A i \in 1 .. k : q[i] = r[i]

\* The node behind allocate_cluster(), with the cluster c.
Allocated(h, h2, c) ==
    /\ h2 \in FATNode /\ h2.node = h.node /\ h2.mode = h.mode /\ h2.size = h.size
    /\ h2.proc = h.proc /\ h2.off = h.off /\ h2.cur = c

LEMMA EntryIs ==
    ASSUME NEW e0 \in [Node -> Entry \cup {None}], NEW h \in FATNode, h.node \in Node,
           NEW e, e = EntryOf(e0, h)
    PROVE  /\ e \in [Node -> Entry \cup {None}]
           /\ e[h.node] # None /\ e[h.node] \in Entry
           /\ e[h.node].first = h.first /\ e[h.node].size = h.size
           /\ \A m \in Node : m # h.node => e[m] = e0[m]
<1> DEFINE x == [first |-> h.first, size |-> h.size]
<1>1. x \in Entry
  BY DEF FATNode, Entry
<1>2. e = [e0 EXCEPT ![h.node] = x]
  BY DEF EntryOf
<1>3. x.first = h.first /\ x.size = h.size
  OBVIOUS
<1> HIDE DEF x
<1>4. e[h.node] = x /\ \A m \in Node : m # h.node => e[m] = e0[m]
  BY <1>2
<1>5. e \in [Node -> Entry \cup {None}]
  BY <1>1, <1>2
<1> QED  BY <1>1, <1>3, <1>4, <1>5, NoneFacts

LEMMA Allocates ==
    ASSUME NEW e0 \in [Node -> Entry \cup {None}], NEW ch, NEW len, NEW n \in Node, NEW k \in Nat,
           NEW e, NEW f, NEW h, NEW ch2, NEW len2,
           OnVolume(e0, ch, len, n, k, e, f, h, ch2, len2), NEW c \in Cluster, f[c] = 0,
           h.cur = IF k = 0 THEN 0 ELSE ch2[n][k],
           NEW d, NEW p, NEW st, NEW s, s = State(f, d, e, h, p, st)
    PROVE  \E f3, e3, h3, ch3, len3 :
              /\ Link(s, c) = State(f3, d, e3, h3, p, st)
              /\ OnVolume(e0, ch, len, n, k + 1, e3, f3, h3, ch3, len3)
              /\ Allocated(h, h3, c) /\ ch3[n][k + 1] = c /\ SameTill(ch3[n], ch2[n], k)
<1>1. /\ Layout(e, f, ch2, len2) /\ len2[n] = k
      /\ \A m \in Node : m # n => ch2[m] = ch[m] /\ len2[m] = len[m]
      /\ e = EntryOf(e0, h)
  BY DEF OnVolume
<1>2. h \in FATNode /\ h.node = n
  BY DEF OnVolume
<1>3. f \in FAT /\ ch2 \in [Node -> [Nat -> Cluster]] /\ len2 \in [Node -> Nat]
  BY <1>1 DEF Layout
<1>4. e \in [Node -> Entry \cup {None}] /\ e[n] # None
  BY <1>1, <1>2, EntryIs
<1> DEFINE ch3 == ChainsWith(ch2, len2, n, c)
           len3 == LensWith(len2, n)
           f3 == FatWith(f, ch2, len2, n, c)
<1>5. /\ len3[n] = k + 1 /\ ch3[n][k + 1] = c
      /\ \A m \in Node : m # n => ch3[m] = ch[m] /\ len3[m] = len[m]
  <2>1. len2[n] = k /\ \A m \in Node : m # n => ch2[m] = ch[m] /\ len2[m] = len[m]
    BY <1>1
  <2>2. len3[n] = k + 1 /\ \A m \in Node : m # n => ch3[m] = ch2[m] /\ len3[m] = len2[m]
    BY <1>3, <2>1 DEF ChainsWith, LensWith
  <2>3. ch3[n][k + 1] = c
    BY <1>3, <2>1 DEF ChainsWith
  <2> QED  BY <2>1, <2>2, <2>3
<1>8. SameTill(ch3[n], ch2[n], k)
  <2>1. ch3[n] = [ch2[n] EXCEPT ![k + 1] = c] /\ ch2[n] \in [Nat -> Cluster]
    BY <1>1, <1>3 DEF ChainsWith
  <2>2. \A i \in 1 .. k : i \in Nat /\ i # k + 1
    OBVIOUS
  <2> QED  BY <2>1, <2>2 DEF SameTill
<1>6. CASE k = 0
  <2> DEFINE h3 == WithFirst(h, c)
             e3 == EntryOf(e, h3)
  <2>1. f3 = EndsAt(f, c)
    <3>1. DOMAIN f = Cluster /\ ~(len2[n] > 0)
      BY <1>1, <1>3, <1>6 DEF FAT
    <3> QED  BY <3>1 DEF EndsAt, FatWith
  <2>2. Link(s, c) = State(f3, d, e3, h3, p, st)
    <3>1. h.cur = 0
      BY <1>6
    <3> QED  BY <2>1, <3>1, LinkFirst
  <2>3. Allocated(h, h3, c) /\ h3 \in FATNode /\ h3.node = n /\ h3.first = c
    BY <1>2 DEF FATNode, Allocated, WithFirst
  <2> HIDE DEF h3
  <2>4. e3 = EntryOf(e0, h3)
    BY <1>1, <1>2, <2>3 DEF EntryOf
  <2>5. e3[n] # None /\ e3[n].first = c /\ \A m \in Node : m # n => e3[m] = e[m]
    BY <1>4, <2>3, EntryIs
  <2>6. e3[n].first = IF len2[n] = 0 THEN c ELSE e[n].first
    BY <1>1, <1>6, <2>5
  <2> HIDE DEF e3
  <2> HIDE DEF f3, ch3, len3
  <2>9. /\ f3 = FatWith(f, ch2, len2, n, c)
        /\ ch3 = ChainsWith(ch2, len2, n, c) /\ len3 = LensWith(len2, n)
    BY DEF f3, ch3, len3
  <2>7. Layout(e3, f3, ch3, len3)
    <3>1. Layout(e, f, ch2, len2)
      BY <1>1
    <3>2. \A m \in Node : m # n => e3[m] = e[m]
      BY <2>5
    <3>3. e3[n] # None
      BY <2>5
    <3> QED  BY <2>6, <2>9, <3>1, <3>2, <3>3, ChainGrows
  <2>8. OnVolume(e0, ch, len, n, k + 1, e3, f3, h3, ch3, len3)
    BY <1>5, <2>3, <2>4, <2>7 DEF OnVolume
  <2> QED  BY <1>5, <1>8, <2>2, <2>3, <2>8 DEF ch3
<1>7. CASE k # 0
  <2> DEFINE h3 == WithCur(h, c)
  <2>1. h.cur = ch2[n][k] /\ h.cur \in Cluster /\ h.cur # 0
    BY <1>3, <1>7, Sizes
  <2>2. f3 = LinksTo(f, h.cur, c)
    <3>1. DOMAIN f = Cluster /\ len2[n] > 0 /\ h.cur = ch2[n][len2[n]]
      BY <1>1, <1>3, <1>7, <2>1 DEF FAT
    <3> QED  BY <3>1 DEF LinksTo, FatWith
  <2>3. Link(s, c) = State(f3, d, e, h3, p, st)
    BY <2>1, <2>2, LinkNext
  <2>4. Allocated(h, h3, c) /\ h3 \in FATNode /\ h3.node = n /\ h3.first = h.first
        /\ h3.size = h.size
    BY <1>2 DEF FATNode, Allocated, WithCur
  <2>5. e = EntryOf(e0, h3)
    BY <1>1, <1>2, <2>4 DEF EntryOf
  <2>6. e[n].first = IF len2[n] = 0 THEN c ELSE e[n].first
    BY <1>1, <1>7
  <2>7. Layout(e, f3, ch3, len3)
    <3>1. \A m \in Node : m # n => e[m] = e[m]
      OBVIOUS
    <3> HIDE DEF f3, ch3, len3
    <3>2. /\ f3 = FatWith(f, ch2, len2, n, c)
          /\ ch3 = ChainsWith(ch2, len2, n, c) /\ len3 = LensWith(len2, n)
      BY DEF f3, ch3, len3
    <3> QED  BY <1>1, <1>4, <2>6, <3>1, <3>2, ChainGrows
  <2> HIDE DEF f3, h3, ch3, len3
  <2>8. OnVolume(e0, ch, len, n, k + 1, e, f3, h3, ch3, len3)
    BY <1>5, <2>4, <2>5, <2>7 DEF OnVolume
  <2> QED  BY <1>5, <1>8, <2>3, <2>4, <2>8 DEF ch3
<1> QED  BY <1>6, <1>7

\* The bytes of the clusters keep their type.
LEMMA DataTyped ==
    ASSUME NEW d \in [Cluster -> [1 .. ClusterSize -> 0 .. MaxSize]], NEW h, h.cur \in Cluster,
           NEW off \in Nat, off = h.off, NEW L \in Nat, NEW bytes \in [1 .. L -> 0 .. MaxSize],
           NEW p \in Nat, NEW n \in Nat, p + n <= L, NEW first
    PROVE  DataWith(d, h, first, bytes, p, n) \in [Cluster -> [1 .. ClusterSize -> 0 .. MaxSize]]
<1> DEFINE x == Copied(d[h.cur], h, first, bytes, p, n)
<1>1. x = [i \in 1 .. ClusterSize |-> IF i \in off + 1 .. off + n THEN bytes[p + i - off]
                                      ELSE IF first /\ i > n THEN 0 ELSE d[h.cur][i]]
  BY DEF Copied
<1>2. \A i \in off + 1 .. off + n : p + i - off \in 1 .. L
  <2> SUFFICES ASSUME NEW i \in off + 1 .. off + n  PROVE p + i - off \in 1 .. L
    OBVIOUS
  <2>1. i \in Int /\ off + 1 <= i /\ i <= off + n
    OBVIOUS
  <2> QED  BY ONLY <2>1, off \in Nat, p \in Nat, n \in Nat, L \in Nat, p + n <= L
<1>3. \A i \in off + 1 .. off + n : bytes[p + i - off] \in 0 .. MaxSize
  BY <1>2
<1>4. 0 \in 0 .. MaxSize /\ \A i \in 1 .. ClusterSize : d[h.cur][i] \in 0 .. MaxSize
  <2>1. d[h.cur] \in [1 .. ClusterSize -> 0 .. MaxSize]
    OBVIOUS
  <2>2. 0 \in 0 .. MaxSize
    BY ONLY Sizes
  <2> QED  BY ONLY <2>1, <2>2
<1>5. \A i \in 1 .. ClusterSize : x[i] \in 0 .. MaxSize
  <2> SUFFICES ASSUME NEW i \in 1 .. ClusterSize  PROVE x[i] \in 0 .. MaxSize
    OBVIOUS
  <2>1. x[i] = IF i \in off + 1 .. off + n THEN bytes[p + i - off]
               ELSE IF first /\ i > n THEN 0 ELSE d[h.cur][i]
    BY <1>1
  <2> HIDE DEF x
  <2> QED  BY <1>3, <1>4, <2>1
<1>6. x \in [1 .. ClusterSize -> 0 .. MaxSize]
  <2>1. x = [i \in 1 .. ClusterSize |-> x[i]]
    BY <1>1
  <2> HIDE DEF x
  <2> QED  BY <1>5, <2>1
<1> HIDE DEF x
<1>7. DataWith(d, h, first, bytes, p, n) = [d EXCEPT ![h.cur] = x]
  BY DEF DataWith, x
<1> QED  BY <1>6, <1>7

\* The arguments of a write: the entries before it, the node and the buffer.
WriteCall(e0, old, bytes, L) ==
    /\ e0 \in [Node -> Entry \cup {None}] /\ old \in FATNode
    /\ L \in Nat /\ bytes \in [1 .. L -> 0 .. MaxSize] /\ Len(bytes) = L

\* The clusters of the file behind p bytes of the buffer.
GrownBy(old, p) == Grown(Clusters(old.size), Position(old) + p)

\* write() between two turns, with the clusters of the file the first of ch2[old.node].
WritingTo(old, e0, ch, len, L, s, ch2, len2) ==
    /\ s = State(s.fat, s.data, s.entry, s.h, s.pos, "OKAY")
    /\ s.data \in [Cluster -> [1 .. ClusterSize -> 0 .. MaxSize]]
    /\ s.pos \in 0 .. L
    /\ s.h.mode = old.mode /\ s.h.size = old.size
    /\ Position(s.h) = Position(old) + s.pos
    /\ s.pos = L \/ s.h.off = 0 \/ s.h.proc < Clusters(old.size)
    /\ OnVolume(e0, ch, len, old.node, GrownBy(old, s.pos), s.entry, s.fat, s.h, ch2, len2)
    /\ WriterAt(s.h, ch2[old.node], GrownBy(old, s.pos))

\* The bytes d on the volume behind p bytes of the buffer: those of the other files and
\* those before the cursor are as in d0, and the buffer follows; q is the chain.
BytesGood(old, d0, ch, len, bytes, p, d, q) ==
    /\ \A m \in Node : m # old.node => \A i \in 1 .. len[m] : d[ch[m][i]] = d0[ch[m][i]]
    /\ \A i \in 1 .. Position(old) : ByteAt(d, q, i) = ByteAt(d0, ch[old.node], i)
    /\ \A i \in 1 .. p : ByteAt(d, q, Position(old) + i) = bytes[i]

WriteGood(old, e0, d0, ch, len, bytes, first, L, s) ==
    /\ first => s.pos = L \/ s.h.off = 0
    /\ \E ch2, len2 : /\ WritingTo(old, e0, ch, len, L, s, ch2, len2)
                      /\ BytesGood(old, d0, ch, len, bytes, s.pos, s.data, ch2[old.node])

\* The cluster a turn writes to, a free one behind the chain if need be: the n bytes
\* behind p go there.
WriteTarget(old, e0, ch, len, s, n, a, ch2) ==
    \E f3, e3, h3, ch3, len3 :
        /\ a = State(f3, s.data, e3, h3, s.pos, "OKAY")
        /\ OnVolume(e0, ch, len, old.node, GrownBy(old, s.pos + n), e3, f3, h3, ch3, len3)
        /\ Allocated(s.h, h3, h3.cur)
        /\ s.h.proc < GrownBy(old, s.pos + n) /\ h3.cur = ch3[old.node][s.h.proc + 1]
        /\ SameTill(ch3[old.node], ch2[old.node], GrownBy(old, s.pos))

LEMMA WriteAllocates ==
    ASSUME NEW old, NEW e0, NEW bytes, NEW L, WriteCall(e0, old, bytes, L), NEW ch, NEW len,
           NEW s, NEW ch2, NEW len2, WritingTo(old, e0, ch, len, L, s, ch2, len2), s.pos # L,
           NEW n \in Nat, n > 0, s.h.off + n <= ClusterSize, NEW a,
           IF NeedsCluster(s.h) THEN \E c \in Cluster : s.fat[c] = 0 /\ a = Link(s, c) ELSE a = s
    PROVE  WriteTarget(old, e0, ch, len, s, n, a, ch2)
<1> DEFINE h == s.h
           m == old.node
           k0 == Clusters(old.size)
           k == GrownBy(old, s.pos)
           k2 == GrownBy(old, s.pos + n)
           proc == h.proc
           off == h.off
           pos == Position(h)
<1>1. OnVolume(e0, ch, len, m, k, s.entry, s.fat, h, ch2, len2)
      /\ WriterAt(h, ch2[m], k)
  BY DEF WritingTo
<1>2. s = State(s.fat, s.data, s.entry, h, s.pos, "OKAY") /\ h.size = old.size
  BY DEF WritingTo
<1>3. off = 0 \/ proc < k0
  BY DEF WritingTo
<1>4. h \in FATNode /\ h.node = m /\ Layout(s.entry, s.fat, ch2, len2) /\ len2[m] = k
  BY <1>1 DEF OnVolume
<1>5. m \in Node /\ old \in FATNode /\ e0 \in [Node -> Entry \cup {None}]
  BY DEF WriteCall, FATNode
<1>6. ch2[m] \in [Nat -> Cluster] /\ k \in Nat
  BY <1>4, <1>5 DEF Layout
<1>7. proc \in Nat /\ off \in Nat /\ pos \in Nat /\ pos = proc * ClusterSize + off
  BY <1>4, PositionNat
<1>8. old.size \in Nat /\ Position(old) \in Nat
  BY <1>5, PositionNat
<1>9. k0 \in Nat
  BY <1>8, ClustersHold
<1>10. s.pos \in Nat /\ pos = Position(old) + s.pos
  BY DEF WritingTo, WriteCall
<1>11. k = Grown(k0, pos) /\ k2 = Grown(k0, pos + n)
  <2>1. pos + n = Position(old) + (s.pos + n)
    BY <1>8, <1>10
  <2> QED  BY <1>10, <2>1 DEF GrownBy
<1>12. /\ proc < k0 => k = k0 /\ k2 = k0
       /\ k0 <= proc /\ off = 0 => k = proc /\ k2 = proc + 1
  <2>1. off + n <= ClusterSize
    OBVIOUS
  <2> HIDE DEF pos, proc, off, k0, k, k2
  <2>2. GrowsAt(k0, proc, off, n, pos)
    BY ONLY <1>7, <1>9, <2>1, n \in Nat, n > 0, GrownIs
  <2> QED  BY <1>11, <2>2 DEF GrowsAt
<1>13. /\ h.cur = IF k = 0 THEN 0 ELSE IF proc < k THEN ch2[m][proc + 1] ELSE ch2[m][k]
  BY <1>1 DEF WriterAt
<1>14. NeedsCluster(h) <=> h.cur = 0 \/ k0 <= proc
  BY <1>2, <1>7, <1>9 DEF NeedsCluster
<1> HIDE DEF h, m, k0, k, k2, proc, off, pos
<1>15. CASE proc < k0
  <2>1. k = k0 /\ k2 = k0 /\ k # 0 /\ proc < k
    BY <1>7, <1>9, <1>12, <1>15
  <2>2. h.cur = ch2[m][proc + 1] /\ h.cur # 0
    <3>1. h.cur = ch2[m][proc + 1] /\ proc + 1 \in Nat
      BY <1>7, <1>13, <2>1
    <3> QED  BY <1>6, <3>1, Sizes
  <2>3. ~NeedsCluster(h)
    BY <1>7, <1>9, <1>14, <1>15, <2>2
  <2>4. a = s
    BY <2>3 DEF h
  <2>5. Allocated(h, h, h.cur)
    BY <1>4 DEF Allocated
  <2>6. OnVolume(e0, ch, len, m, k2, s.entry, s.fat, h, ch2, len2)
    BY <1>1, <2>1
  <2>7. proc < k2
    BY <2>1
  <2>8. a = State(s.fat, s.data, s.entry, h, s.pos, "OKAY")
    BY <1>2, <2>4
  <2>9. SameTill(ch2[m], ch2[m], k)
    BY DEF SameTill
  <2> QED  BY <2>2, <2>5, <2>6, <2>7, <2>8, <2>9 DEF WriteTarget, h, proc, m, k, k2
<1>16. CASE k0 <= proc
  <2>1. k = proc /\ k2 = proc + 1
    BY <1>3, <1>7, <1>9, <1>12, <1>16
  <2>2. h.cur = IF k = 0 THEN 0 ELSE ch2[m][k]
    BY <1>7, <1>13, <2>1
  <2>3. NeedsCluster(h)
    BY <1>14, <1>16
  <2>4. PICK c \in Cluster : s.fat[c] = 0 /\ a = Link(s, c)
    BY <2>3 DEF h
  <2>5. \E f3, e3, h3, ch3, len3 :
              /\ Link(s, c) = State(f3, s.data, e3, h3, s.pos, "OKAY")
              /\ OnVolume(e0, ch, len, m, k + 1, e3, f3, h3, ch3, len3)
              /\ Allocated(h, h3, c) /\ ch3[m][k + 1] = c /\ SameTill(ch3[m], ch2[m], k)
    <3>1. OnVolume(e0, ch, len, m, k, s.entry, s.fat, h, ch2, len2)
      BY <1>1
    <3> QED  BY <1>2, <1>5, <1>6, <2>2, <2>4, <3>1, Allocates
  <2>6. PICK f3, e3, h3, ch3, len3 :
              /\ Link(s, c) = State(f3, s.data, e3, h3, s.pos, "OKAY")
              /\ OnVolume(e0, ch, len, m, k + 1, e3, f3, h3, ch3, len3)
              /\ Allocated(h, h3, c) /\ ch3[m][k + 1] = c /\ SameTill(ch3[m], ch2[m], k)
    BY <2>5
  <2>7. a = State(f3, s.data, e3, h3, s.pos, "OKAY")
    BY <2>4, <2>6
  <2>8. OnVolume(e0, ch, len, m, k2, e3, f3, h3, ch3, len3) /\ proc < k2
    BY <1>7, <2>1, <2>6
  <2>9. h3.cur = c /\ ch3[m][proc + 1] = c
    BY <2>1, <2>6 DEF Allocated
  <2> QED  BY <2>6, <2>7, <2>8, <2>9 DEF WriteTarget, h, proc, m, k, k2
<1> QED  BY <1>7, <1>9, <1>15, <1>16

\* What the copy of n bytes does to the bytes of the volume: the file is a bytes long, the
\* first k clusters of q are its own, and the bytes go behind off in the cluster proc + 1.
Copies(d, d2, q, proc, a, bytes, p, n) ==
    /\ \A c \in Cluster : c # q[proc + 1] => d2[c] = d[c]
    /\ \A i \in 1 .. a : ByteAt(d2, q, i) = ByteAt(d, q, i)
    /\ \A j \in 1 .. n : ByteAt(d2, q, a + j) = bytes[p + j]

LEMMA CopyIsExact ==
    ASSUME NEW d \in [Cluster -> [1 .. ClusterSize -> 0 .. MaxSize]],
           NEW q \in [Nat -> Cluster], NEW k \in Nat, \A i, j \in 1 .. k : q[i] = q[j] => i = j,
           NEW h, NEW proc \in Nat, proc < k, h.cur = q[proc + 1],
           NEW off \in Nat, off = h.off, NEW n \in Nat, off + n <= ClusterSize,
           NEW a \in Nat, a = proc * ClusterSize + off,
           NEW first, first => off = 0, NEW bytes, NEW p \in Nat,
           NEW d2, d2 = DataWith(d, h, first, bytes, p, n)
    PROVE  Copies(d, d2, q, proc, a, bytes, p, n)
<1> DEFINE c == q[proc + 1]
           x == Copied(d[c], h, first, bytes, p, n)
           b == proc * ClusterSize
<1>1. c \in Cluster /\ d2 = [d EXCEPT ![c] = x]
  BY DEF DataWith
<1>2. x = [i \in 1 .. ClusterSize |-> IF i \in off + 1 .. off + n THEN bytes[p + i - off]
                                      ELSE IF first /\ i > n THEN 0 ELSE d[c][i]]
  BY DEF Copied
<1>3. b \in Nat /\ a = b + off
  BY ClusterSizeNat
<1>4. \A y \in Cluster : y # c => d2[y] = d[y]
  BY <1>1
<1>5. d2[c] = x
  BY <1>1
<1>6. ASSUME NEW i \in 1 .. a  PROVE ByteAt(d2, q, i) = ByteAt(d, q, i)
  <2> DEFINE l == Clusters(i)
             o == i - (l - 1) * ClusterSize
  <2>1. i \in Nat /\ i > 0 /\ i <= a
    BY <1>3
  <2>2. l \in Nat /\ l > 0 /\ i <= l * ClusterSize /\ (l - 1) * ClusterSize < i
    BY <2>1, ClustersHold
  <2>3. ByteAt(d2, q, i) = d2[q[l]][o] /\ ByteAt(d, q, i) = d[q[l]][o]
    BY DEF ByteAt
  <2>4. l <= proc + 1
    <3>1. Clusters(b + ClusterSize) = proc + 1
      <4>1. ClusterSize \in 1 .. ClusterSize
        BY ClusterSizeNat
      <4> QED  BY ONLY <4>1, proc \in Nat, ClustersBehind
    <3>2. b + ClusterSize \in Nat /\ i <= b + ClusterSize
      <4> HIDE DEF b
      <4>1. off <= ClusterSize
        BY ONLY ClusterSizeNat, off \in Nat, n \in Nat, off + n <= ClusterSize
      <4> QED  BY ONLY <1>3, <2>1, <4>1, ClusterSizeNat, off \in Nat
    <3> QED  BY <2>1, <3>1, <3>2, ClustersGrow
  <2> HIDE DEF l
  <2>5. CASE l = proc + 1
    <3>1. (l - 1) * ClusterSize = b
      BY <2>5
    <3>2. o = i - b
      BY <3>1
    <3>3. o \in 1 .. off
      <4> HIDE DEF b, o
      <4>1. b < i
        BY <2>2, <3>1
      <4> QED  BY ONLY <1>3, <2>1, <3>2, <4>1, off \in Nat
    <3> HIDE DEF o
    <3>6. off # 0 /\ o \in 1 .. ClusterSize /\ o \notin off + 1 .. off + n
      BY ONLY <3>3, ClusterSizeNat, off \in Nat, n \in Nat, off + n <= ClusterSize
    <3>4. ~first /\ o \in 1 .. ClusterSize /\ o \notin off + 1 .. off + n
      BY <3>6
    <3>5. x[o] = d[c][o]
      BY <1>2, <3>4
    <3> QED  BY <1>5, <2>3, <2>5, <3>5
  <2>6. CASE l # proc + 1
    <3>1. l \in 1 .. k /\ proc + 1 \in 1 .. k
      BY <2>2, <2>4, <2>6
    <3>2. q[l] # c /\ q[l] \in Cluster
      BY <2>2, <2>6, <3>1
    <3> HIDE DEF c
    <3>3. d2[q[l]] = d[q[l]]
      BY <1>4, <3>2
    <3> QED  BY <2>3, <3>3
  <2> QED  BY <2>5, <2>6
<1>7. ASSUME NEW j \in 1 .. n  PROVE ByteAt(d2, q, a + j) = bytes[p + j]
  <2>1. off + j \in 1 .. ClusterSize /\ off + j \in off + 1 .. off + n /\ p + (off + j) - off = p + j
    <3>1. j \in 1 .. n
      OBVIOUS
    <3> QED  BY ONLY <3>1, ClusterSizeNat, off \in Nat, n \in Nat, p \in Nat, off + n <= ClusterSize
  <2>2. a + j = b + (off + j)
    <3> HIDE DEF b
    <3> QED  BY ONLY <1>3, off \in Nat, n \in Nat, j \in 1 .. n
  <2>3. ByteAt(d2, q, b + (off + j)) = d2[c][off + j]
    <3> DEFINE o == off + j
    <3>1. o \in 1 .. ClusterSize
      BY <2>1
    <3> HIDE DEF o
    <3>2. Clusters(proc * ClusterSize + o) = proc + 1
      BY ONLY <3>1, proc \in Nat, ClustersBehind
    <3> DEFINE i == b + o
    <3>3. Clusters(i) = proc + 1 /\ i - (Clusters(i) - 1) * ClusterSize = o
      <4>1. (proc + 1) - 1 = proc
        OBVIOUS
      <4>2. (Clusters(i) - 1) * ClusterSize = b
        BY <3>2, <4>1
      <4>3. i - b = o
        <5> HIDE DEF b
        <5> QED  BY ONLY <1>3, <3>1, ClusterSizeNat
      <4> QED  BY <3>2, <4>2, <4>3
    <3> HIDE DEF i
    <3>4. ByteAt(d2, q, i) = d2[q[proc + 1]][o]
      BY <3>3 DEF ByteAt
    <3> QED  BY <3>4 DEF o, i
  <2>4. x[off + j] = bytes[p + j]
    BY <1>2, <2>1
  <2> HIDE DEF x, c, b
  <2> QED  BY <1>5, <2>2, <2>3, <2>4
<1> HIDE DEF x
<1> QED  BY <1>4, <1>6, <1>7 DEF Copies

\* One turn of the loop of FATNode::write().
LEMMA WriteStepGood ==
    ASSUME NEW old, NEW e0, NEW bytes, NEW L, WriteCall(e0, old, bytes, L), NEW d0,
           NEW ch, NEW len, NEW first, NEW s, WriteGood(old, e0, d0, ch, len, bytes, first, L, s),
           NEW s2, s2 = WriteStep(s, bytes, first), s2.status = "OKAY"
    PROVE  WriteGood(old, e0, d0, ch, len, bytes, first, L, s2) /\ IF s.pos = L THEN s2 = s ELSE s2.pos > s.pos
<1>0. PICK ch2, len2 : /\ WritingTo(old, e0, ch, len, L, s, ch2, len2)
                       /\ BytesGood(old, d0, ch, len, bytes, s.pos, s.data, ch2[old.node])
  BY DEF WriteGood
<1>1. L \in Nat /\ bytes \in [1 .. L -> 0 .. MaxSize] /\ Len(bytes) = L
  BY DEF WriteCall
<1>2. s = State(s.fat, s.data, s.entry, s.h, s.pos, "OKAY") /\ s.pos \in 0 .. L
  BY <1>0 DEF WritingTo
<1>3. s.status = "OKAY"
  BY <1>2, StateParts
<1>4. CASE s.pos = L
  <2>1. s2 = s
    BY <1>1, <1>4 DEF WriteStep
  <2> QED  BY <1>4, <2>1
<1>5. CASE s.pos # L
  <2> DEFINE h == s.h
             p == s.pos
             off == h.off
             m == old.node
             room == L - p
             rest == ClusterSize - off
             n == Min({room, rest})
             k2 == GrownBy(old, p + n)
  <2>1. h \in FATNode /\ off < ClusterSize
    BY <1>0 DEF WritingTo, OnVolume, WriterAt
  <2>2. off \in Nat /\ h.proc \in Nat
    BY <2>1, PositionNat
  <2>3. p \in Nat /\ p <= L
    BY <1>1, <1>2
  <2>4. n \in Nat /\ n > 0 /\ p + n <= L /\ off + n <= ClusterSize
        /\ (p + n = L \/ off + n = ClusterSize)
    <3> HIDE DEF p, off, n
    <3>1. room \in Nat /\ room > 0 /\ rest \in Nat /\ rest > 0
      BY <1>1, <1>5, <2>1, <2>2, <2>3, ClusterSizeNat DEF p
    <3> HIDE DEF room, rest
    <3>2. n = IF room <= rest THEN room ELSE rest
      BY <3>1, MinOfTwo DEF n
    <3>3. n \in Nat /\ n > 0 /\ n <= room /\ n <= rest /\ (n = room \/ n = rest)
      BY <3>1, <3>2
    <3> QED  BY <1>1, <2>2, <2>3, <3>3, ClusterSizeNat DEF room, rest
  <2>5. PICK a : /\ s2 = CopyBytes(a, bytes, first)
                 /\ IF NeedsCluster(h) THEN \E c \in Cluster : s.fat[c] = 0 /\ a = Link(s, c) ELSE a = s
    <3>1. CASE ~NeedsCluster(h)
      <4>1. s2 = CopyBytes(s, bytes, first)
        BY <1>1, <1>3, <1>5, <3>1 DEF WriteStep
      <4> QED  BY <3>1, <4>1
    <3>2. CASE NeedsCluster(h)
      <4>1. FreeClusters(s.fat) # {}
        <5> SUFFICES ASSUME FreeClusters(s.fat) = {}  PROVE FALSE
          OBVIOUS
        <5>1. s2 = [s EXCEPT !.status = "DEV_ERROR", !.h.cur = 0]
          BY <1>1, <1>3, <1>5, <3>2 DEF WriteStep
        <5>2. s2.status = "DEV_ERROR"
          BY <1>2, <5>1 DEF State
        <5> QED  BY <5>2
      <4> DEFINE c == Min(FreeClusters(s.fat))
      <4>2. s2 = CopyBytes(Link(s, c), bytes, first)
        BY <1>1, <1>3, <1>5, <3>2, <4>1 DEF WriteStep
      <4>3. FreeClusters(s.fat) \in SUBSET Nat
        BY Sizes DEF FreeClusters
      <4>4. c \in FreeClusters(s.fat)
        BY <4>1, <4>3, MinIsMember
      <4> HIDE DEF c
      <4>5. c \in Cluster /\ s.fat[c] = 0
        BY <4>4 DEF FreeClusters
      <4> QED  BY <3>2, <4>2, <4>5
    <3> QED  BY <3>1, <3>2
  <2>6. WriteTarget(old, e0, ch, len, s, n, a, ch2)
    <3> HIDE DEF n
    <3> QED  BY <1>0, <1>5, <2>4, <2>5, WriteAllocates
  <2>7. PICK f3, e3, h3, ch3, len3 :
            /\ a = State(f3, s.data, e3, h3, p, "OKAY")
            /\ OnVolume(e0, ch, len, m, k2, e3, f3, h3, ch3, len3)
            /\ Allocated(h, h3, h3.cur)
            /\ h.proc < k2 /\ h3.cur = ch3[m][h.proc + 1]
            /\ SameTill(ch3[m], ch2[m], GrownBy(old, p))
    BY <2>6 DEF WriteTarget
  <2>8. /\ h3 \in FATNode /\ h3.mode = h.mode /\ h3.size = h.size /\ h3.node = h.node
        /\ h3.proc = h.proc /\ h3.off = off
    BY <2>7 DEF Allocated
  <2>9. /\ Layout(e3, f3, ch3, len3) /\ len3[m] = k2 /\ e3 = EntryOf(e0, h3) /\ h3.node = m
        /\ \A x \in Node : x # m => ch3[x] = ch[x] /\ len3[x] = len[x]
    BY <2>7 DEF OnVolume
  <2>10. m \in Node
    BY <2>8, <2>9 DEF FATNode
  <2>11. ch3[m] \in [Nat -> Cluster] /\ k2 \in Nat
    BY <2>9, <2>10 DEF Layout
  <2>12. Linked(f3, ch3[m], k2)
    BY <2>9, <2>10, LayoutLinked
  <2> DEFINE w == Advance(f3, h3, n)
             d3 == DataWith(s.data, h3, first, bytes, p, n)
  <2>13. s2 = State(f3, d3, e3, w, p + n, "OKAY")
    <3>1. n = Min({Len(bytes) - p, ClusterSize - h3.off})
      BY <1>1, <2>8
    <3> HIDE DEF n, p, w, d3
    <3>2. CopyBytes(a, bytes, first) =
            State(f3, DataWith(s.data, h3, first, bytes, p, n), e3, Advance(f3, h3, n), p + n, "OKAY")
      BY <2>7, <3>1, CopyIs
    <3> QED  BY <2>5, <3>2 DEF w, d3
  <2>14. h3.cur \in Cluster
    BY <2>2, <2>7, <2>11
  <2>15. d3 \in [Cluster -> [1 .. ClusterSize -> 0 .. MaxSize]]
    <3>1. s.data \in [Cluster -> [1 .. ClusterSize -> 0 .. MaxSize]]
      BY <1>0 DEF WritingTo
    <3>2. off = h3.off
      BY <2>8
    <3> HIDE DEF n, p, off
    <3> QED  BY <1>1, <2>2, <2>3, <2>4, <2>14, <3>1, <3>2, DataTyped
  <2> HIDE DEF d3
  <2>16. Advanced(h3, ch3[m], k2, n, w)
    <3>1. h3.proc < k2 /\ h3.cur = ch3[m][h3.proc + 1] /\ h3.off + n <= ClusterSize
      BY <2>4, <2>7, <2>8
    <3> HIDE DEF n, k2, w
    <3>2. w = Advance(f3, h3, n)
      BY DEF w
    <3> QED  BY <2>4, <2>8, <2>11, <2>12, <3>1, <3>2, Advances
  <2> HIDE DEF w
  <2>17. /\ w \in FATNode /\ w.node = m /\ w.mode = h.mode /\ w.size = h.size /\ w.first = h3.first
         /\ WriterAt(w, ch3[m], k2) /\ Position(w) = Position(h3) + n
         /\ off + n = ClusterSize => w.off = 0
    BY <2>8, <2>9, <2>16 DEF Advanced, SameFile
  <2>18. Position(h3) = Position(h)
    BY <2>8 DEF Position
  <2>19. Position(w) = Position(old) + (p + n)
    <3>1. Position(h) = Position(old) + p /\ old \in FATNode
      BY <1>0 DEF WritingTo, WriteCall
    <3>2. Position(old) \in Nat
      BY <3>1, PositionNat
    <3> HIDE DEF n, p, h
    <3> QED  BY <2>3, <2>4, <2>17, <2>18, <3>1, <3>2
  <2>20. e3 = EntryOf(e0, w)
    BY <2>8, <2>9, <2>17 DEF EntryOf
  <2>21. OnVolume(e0, ch, len, m, k2, e3, f3, w, ch3, len3)
    BY <2>9, <2>17, <2>20 DEF OnVolume
  <2>22. p + n = L \/ w.off = 0
    BY <2>4, <2>17
  <2>23. h.mode = old.mode /\ h.size = old.size
    BY <1>0 DEF WritingTo
  <2>24. p + n \in 0 .. L /\ p + n > p
    <3> HIDE DEF n, p
    <3> QED  BY <1>1, <2>3, <2>4
  <2>25. /\ s2.fat = f3 /\ s2.data = d3 /\ s2.entry = e3 /\ s2.h = w /\ s2.pos = p + n
         /\ s2 = State(s2.fat, s2.data, s2.entry, s2.h, s2.pos, "OKAY")
    <3> HIDE DEF n, p
    <3> QED  BY <2>13, StateParts
  <2>26. BytesGood(old, d0, ch, len, bytes, p + n, d3, ch3[m])
    <3> DEFINE q == ch3[m]
               q2 == ch2[m]
               d == s.data
               a0 == Position(old)
               at == Position(h)
               proc == h.proc
               k == GrownBy(old, p)
    <3>1. /\ \A x \in Node : x # m => \A i \in 1 .. len[x] : d[ch[x][i]] = d0[ch[x][i]]
          /\ \A i \in 1 .. a0 : ByteAt(d, q2, i) = ByteAt(d0, ch[m], i)
          /\ \A i \in 1 .. p : ByteAt(d, q2, a0 + i) = bytes[i]
      BY <1>0 DEF BytesGood
    <3>2. a0 \in Nat /\ at \in Nat /\ at = a0 + p /\ at = proc * ClusterSize + off /\ proc \in Nat
      <4>1. Position(h) = Position(old) + p /\ old \in FATNode
        BY <1>0 DEF WritingTo, WriteCall
      <4> QED  BY <2>1, <4>1, PositionNat
    <3>3. /\ \A i, j \in 1 .. k2 : q[i] = q[j] => i = j
          /\ \A x \in Node : x # m => \A i \in 1 .. len[x], j \in 1 .. k2 :
                ch[x][i] # q[j] /\ ch[x][i] \in Cluster
      <4>1. \A y, z \in Node : \A i \in 1 .. len3[y], j \in 1 .. len3[z] :
                ch3[y][i] = ch3[z][j] => y = z /\ i = j
        BY <2>9 DEF Layout
      <4>2. \A x \in Node : len3[x] \in Nat /\ ch3[x] \in [Nat -> Cluster]
        BY <2>9 DEF Layout
      <4>3. len3[m] = k2 /\ \A x \in Node : x # m => ch3[x] = ch[x] /\ len3[x] = len[x]
        BY <2>9
      <4> HIDE DEF k2, m
      <4>4. \A i, j \in 1 .. k2 : q[i] = q[j] => i = j
        BY <2>10, <4>1, <4>3
      <4>5. ASSUME NEW x \in Node, x # m, NEW i \in 1 .. len[x], NEW j \in 1 .. k2
            PROVE  ch[x][i] # q[j] /\ ch[x][i] \in Cluster
        <5>1. ch3[x] = ch[x] /\ len3[x] = len[x] /\ i \in 1 .. len3[x] /\ j \in 1 .. len3[m]
          BY <4>3, <4>5
        <5>2. ch3[x][i] # ch3[m][j]
          BY <2>10, <4>1, <4>5, <5>1
        <5>3. i \in Nat
          BY <4>2, <5>1
        <5> QED  BY <4>2, <5>1, <5>2, <5>3
      <4> QED  BY <4>4, <4>5
    <3>4. first => off = 0
      BY <1>5 DEF WriteGood
    <3>5. Copies(d, d3, q, proc, at, bytes, p, n)
      <4>1. d \in [Cluster -> [1 .. ClusterSize -> 0 .. MaxSize]]
        BY <1>0 DEF WritingTo
      <4>2. proc < k2 /\ h3.cur = q[proc + 1] /\ off = h3.off
        BY <2>7, <2>8
      <4>3. d3 = DataWith(d, h3, first, bytes, p, n)
        BY DEF d3
      <4>4. q \in [Nat -> Cluster] /\ k2 \in Nat
        BY <2>11
      <4> HIDE DEF q, d, at, proc, k2, n, p, off
      <4> QED  BY <2>2, <2>3, <2>4, <3>2, <3>3, <3>4, <4>1, <4>2, <4>3, <4>4, CopyIsExact
    <3>6. \A i \in 1 .. at : ByteAt(d, q, i) = ByteAt(d, q2, i)
      <4> SUFFICES ASSUME NEW i \in 1 .. at  PROVE ByteAt(d, q, i) = ByteAt(d, q2, i)
        OBVIOUS
      <4> DEFINE l == Clusters(i)
      <4>1. i \in Nat /\ i > 0 /\ i <= at
        BY <3>2
      <4>2. l \in Nat /\ l > 0 /\ l <= Clusters(at)
        BY <3>2, <4>1, ClustersHold, ClustersGrow
      <4>3. k = Grown(Clusters(old.size), at)
        BY <3>2 DEF GrownBy
      <4>4. Clusters(old.size) \in Nat /\ Clusters(at) \in Nat
        <5>1. old.size \in Nat
          BY PositionNat DEF WriteCall
        <5> QED  BY <3>2, <5>1, ClustersHold
      <4>5. Clusters(at) <= k /\ k \in Nat
        BY <4>3, <4>4 DEF Grown
      <4>6. l \in 1 .. k
        BY <4>2, <4>4, <4>5
      <4>7. q[l] = q2[l]
        BY <2>7, <4>6 DEF SameTill
      <4> QED  BY <4>7 DEF ByteAt
    <3>7. /\ \A c \in Cluster : c # q[proc + 1] => d3[c] = d[c]
          /\ \A i \in 1 .. at : ByteAt(d3, q, i) = ByteAt(d, q, i)
          /\ \A j \in 1 .. n : ByteAt(d3, q, at + j) = bytes[p + j]
      BY <3>5 DEF Copies
    <3>8. proc + 1 \in 1 .. k2
      BY <2>7, <2>11, <3>2
    <3> HIDE DEF q, q2, d, a0, at, proc, k, n, p, m, k2
    <3>9. ASSUME NEW x \in Node, x # m, NEW i \in 1 .. len[x]
          PROVE  d3[ch[x][i]] = d0[ch[x][i]]
      <4>1. ch[x][i] \in Cluster /\ ch[x][i] # q[proc + 1]
        BY <3>3, <3>8, <3>9
      <4> QED  BY <3>1, <3>7, <3>9, <4>1
    <3>10. ASSUME NEW i \in 1 .. a0  PROVE ByteAt(d3, q, i) = ByteAt(d0, ch[m], i)
      <4>1. i \in 1 .. at
        BY <2>3, <3>2
      <4> QED  BY <3>1, <3>6, <3>7, <4>1
    <3>11. ASSUME NEW i \in 1 .. p + n  PROVE ByteAt(d3, q, a0 + i) = bytes[i]
      <4>1. CASE i <= p
        <5>1. i \in 1 .. p /\ a0 + i \in 1 .. at
          BY <2>3, <3>2, <4>1
        <5> QED  BY <3>1, <3>6, <3>7, <5>1
      <4>2. CASE ~(i <= p)
        <5> DEFINE j == i - p
        <5>1. j \in 1 .. n /\ a0 + i = at + j /\ p + j = i
          BY <2>3, <2>4, <3>2, <4>2
        <5> HIDE DEF j
        <5> QED  BY <3>7, <5>1
      <4> QED  BY <4>1, <4>2
    <3> QED  BY <3>9, <3>10, <3>11 DEF BytesGood, q, a0, m
  <2> HIDE DEF n, p, h, m
  <2>27. WriteGood(old, e0, d0, ch, len, bytes, first, L, s2)
    <3>1. /\ OnVolume(e0, ch, len, old.node, GrownBy(old, s2.pos), s2.entry, s2.fat, s2.h, ch3, len3)
          /\ WriterAt(s2.h, ch3[old.node], GrownBy(old, s2.pos))
      BY <2>17, <2>21, <2>25 DEF m
    <3>2. s2.pos = L \/ s2.h.off = 0
      BY <2>22, <2>25
    <3>3. s2.h.mode = old.mode /\ s2.h.size = old.size
      BY <2>17, <2>23, <2>25
    <3>4. WritingTo(old, e0, ch, len, L, s2, ch3, len3)
      BY <2>15, <2>19, <2>24, <2>25, <3>1, <3>2, <3>3 DEF WritingTo
    <3>5. BytesGood(old, d0, ch, len, bytes, s2.pos, s2.data, ch3[old.node])
      BY <2>25, <2>26 DEF m
    <3> QED  BY <3>2, <3>4, <3>5 DEF WriteGood
  <2> QED  BY <1>5, <2>24, <2>25, <2>27 DEF p
<1> QED  BY <1>4, <1>5

\* The loop of FATNode::write() is the sequence of its turns.
LEMMA WriteLoopIs ==
    ASSUME NEW s, NEW bytes, NEW first, Len(bytes) \in Nat
    PROVE  \E loop : /\ loop[0] = s
                     /\ \A k \in 1 .. Len(bytes) : loop[k] = WriteStep(loop[k - 1], bytes, first)
                     /\ WriteLoop(s, bytes, first) = loop[Len(bytes)]
<1> DEFINE start == s
           count == Len(bytes)
           Turn(x) == WriteStep(x, bytes, first)
           Eq(n, g) == [k \in 0 .. n |-> IF k = 0 THEN start ELSE Turn(g[k - 1])]
           loop == CHOOSE g : g = Eq(count, g)
<1>1. WriteLoop(s, bytes, first) = loop[count]
  BY DEF WriteLoop
<1>0. count \in Nat
  OBVIOUS
<1> HIDE DEF start, Turn, count
<1>2. \A n \in Nat : \E g : g = Eq(n, g)
  <2> DEFINE Bad == {n \in Nat : ~ \E g : g = Eq(n, g)}
  <2> SUFFICES ASSUME Bad # {}  PROVE FALSE
    OBVIOUS
  <2>1. PICK n \in Bad : \A j \in Bad : n <= j
    BY Smallest
  <2>2. n # 0
    <3> DEFINE g == [k \in 0 .. 0 |-> start]
    <3>1. g = Eq(0, g)
      OBVIOUS
    <3> HIDE DEF g
    <3> QED  BY <2>1, <3>1
  <2>3. n - 1 \in Nat /\ n - 1 \notin Bad
    <3>1. n \in Nat
      OBVIOUS
    <3> HIDE DEF Bad
    <3> QED  BY <2>1, <2>2, <3>1
  <2>4. PICK g : g = Eq(n - 1, g)
    BY <2>3
  <2> DEFINE g2 == [k \in 0 .. n |-> IF k < n THEN g[k] ELSE Turn(g[n - 1])]
  <2>5. \A k \in 0 .. n - 1 : g[k] = IF k = 0 THEN start ELSE Turn(g[k - 1])
    BY <2>4
  <2>6. \A k \in 0 .. n : g2[k] = IF k = 0 THEN start ELSE Turn(g2[k - 1])
    <3> SUFFICES ASSUME NEW k \in 0 .. n  PROVE g2[k] = IF k = 0 THEN start ELSE Turn(g2[k - 1])
      OBVIOUS
    <3>1. CASE k < n
      <4>1. k \in 0 .. n - 1 /\ g2[k] = g[k]
        BY <2>3, <3>1
      <4>2. k # 0 => k - 1 \in 0 .. n /\ k - 1 < n
        BY <3>1
      <4>3. k # 0 => g2[k - 1] = g[k - 1]
        BY <4>2
      <4> QED  BY <2>5, <4>1, <4>3
    <3>2. CASE k = n
      <4>1. n - 1 \in 0 .. n /\ n - 1 < n
        BY <2>3
      <4>2. g2[n - 1] = g[n - 1]
        BY <4>1
      <4> QED  BY <2>2, <3>2, <4>2
    <3> QED  BY <3>1, <3>2
  <2>7. g2 = Eq(n, g2)
    <3>1. DOMAIN g2 = 0 .. n /\ g2 = [k \in 0 .. n |-> g2[k]]
      OBVIOUS
    <3> HIDE DEF g2
    <3> QED  BY <2>6, <3>1
  <2> HIDE DEF g2
  <2> QED  BY <2>1, <2>7
<1>3. loop = Eq(count, loop)
  <2>1. \E g : g = Eq(count, g)
    BY <1>0, <1>2
  <2> HIDE DEF Eq
  <2> QED  BY <2>1
<1> HIDE DEF loop
<1>4. loop[0] = start
  <2>1. 0 \in 0 .. count
    BY <1>0
  <2> QED  BY <1>3, <2>1
<1>5. \A k \in 1 .. count : loop[k] = Turn(loop[k - 1])
  <2>1. \A k \in 1 .. count : k \in 0 .. count /\ k # 0
    BY <1>0
  <2> QED  BY <1>3, <2>1
<1> QED  BY <1>1, <1>4, <1>5 DEF start, Turn, count

\* The loop that does not fail writes the whole buffer.
LEMMA WriteIsGood ==
    ASSUME NEW old, NEW e0, NEW bytes, NEW L, WriteCall(e0, old, bytes, L), NEW d0,
           NEW ch, NEW len, NEW first, NEW s, WriteGood(old, e0, d0, ch, len, bytes, first, L, s), s.pos = 0,
           NEW w, w = WriteLoop(s, bytes, first), w.status = "OKAY"
    PROVE  WriteGood(old, e0, d0, ch, len, bytes, first, L, w) /\ w.pos = L
<1>1. L \in Nat /\ Len(bytes) = L
  BY DEF WriteCall
<1>2. PICK loop : /\ loop[0] = s
                  /\ \A j \in 1 .. L : loop[j] = WriteStep(loop[j - 1], bytes, first)
                  /\ WriteLoop(s, bytes, first) = loop[L]
  BY <1>1, WriteLoopIs
<1> DEFINE Good(j) == loop[j].status = "OKAY" =>
                        WriteGood(old, e0, d0, ch, len, bytes, first, L, loop[j]) /\ loop[j].pos >= j
<1>3. Good(0)
  BY <1>2
<1>4. ASSUME NEW j \in 1 .. L, Good(j - 1)  PROVE Good(j)
  <2> DEFINE t == loop[j - 1]
             t2 == loop[j]
  <2> SUFFICES ASSUME t2.status = "OKAY"
               PROVE  WriteGood(old, e0, d0, ch, len, bytes, first, L, t2) /\ t2.pos >= j
    OBVIOUS
  <2>1. t2 = WriteStep(t, bytes, first)
    BY <1>2
  <2>2. t.status = "OKAY"
    <3> SUFFICES ASSUME t.status # "OKAY"  PROVE FALSE
      OBVIOUS
    <3>1. t2 = t
      BY <2>1 DEF WriteStep
    <3> QED  BY <3>1
  <2>3. WriteGood(old, e0, d0, ch, len, bytes, first, L, t) /\ t.pos >= j - 1
    BY <1>4, <2>2
  <2> HIDE DEF t, t2
  <2>4. WriteGood(old, e0, d0, ch, len, bytes, first, L, t2) /\ IF t.pos = L THEN t2 = t ELSE t2.pos > t.pos
    BY <2>1, <2>3, WriteStepGood
  <2>5. t.pos \in Nat /\ t2.pos \in Nat
    BY <1>1, <2>3, <2>4 DEF WriteGood, WritingTo
  <2> QED  BY <1>1, <2>3, <2>4, <2>5
<1> HIDE DEF Good
<1>5. Good(L)
  <2> DEFINE Bad == {j \in 0 .. L : ~Good(j)}
  <2> SUFFICES ASSUME Bad # {}  PROVE FALSE
    BY <1>1
  <2>1. Bad \in SUBSET Nat
    OBVIOUS
  <2>2. PICK j \in Bad : \A i \in Bad : j <= i
    BY <2>1, Smallest
  <2>3. j \in 0 .. L /\ ~Good(j)
    OBVIOUS
  <2>4. j - 1 \notin Bad
    <3> HIDE DEF Bad
    <3> QED  BY <2>1, <2>2, <2>3
  <2>5. j \in 1 .. L /\ j - 1 \in 0 .. L
    BY <1>1, <1>3, <2>3
  <2>6. Good(j - 1)
    BY <2>4, <2>5
  <2> QED  BY <1>4, <2>3, <2>5, <2>6
<1>6. WriteGood(old, e0, d0, ch, len, bytes, first, L, w) /\ w.pos >= L
  BY <1>2, <1>5 DEF Good
<1>7. w.pos \in 0 .. L
  BY <1>6 DEF WriteGood, WritingTo
<1> QED  BY <1>1, <1>6, <1>7

\* The elements of a sequence behind the first a.
LEMMA TailSet ==
    ASSUME NEW S, NEW t \in Seq(S), NEW a \in Nat, NEW k \in Nat, a <= k, Len(t) = k
    PROVE  \A c : c \in ToSet(SubSeq(t, a + 1, k)) <=> \E i \in a + 1 .. k : c = t[i]
<1> DEFINE n == k - a
           p == SubSeq(t, a + 1, k)
<1>1. n \in Nat /\ a + n = k
  OBVIOUS
<1>2. IsPart(SubSeq(t, a + 1, a + n), t, a, n, S)
  <2> HIDE DEF n
  <2> QED  BY <1>1, PartOfSeq
<1>3. p = SubSeq(t, a + 1, a + n)
  BY <1>1
<1> HIDE DEF n, p
<1>4. p \in Seq(S) /\ Len(p) = n /\ \A j \in 1 .. n : p[j] = t[a + j]
  BY <1>2, <1>3 DEF IsPart
<1>5. \A c : c \in ToSet(p) <=> \E j \in 1 .. n : c = t[a + j]
  <2>1. DOMAIN p = 1 .. n
    BY <1>4
  <2>2. ToSet(p) = {p[j] : j \in 1 .. n}
    BY <2>1 DEF ToSet
  <2>3. \A j \in 1 .. n : p[j] = t[a + j]
    BY <1>4
  <2> QED  BY ONLY <2>2, <2>3
<1>6. ASSUME NEW c  PROVE (\E j \in 1 .. n : c = t[a + j]) <=> (\E i \in a + 1 .. k : c = t[i])
  <2>1. ASSUME NEW j \in 1 .. n, c = t[a + j]  PROVE \E i \in a + 1 .. k : c = t[i]
    <3>1. a + j \in a + 1 .. k
      BY <1>1
    <3> QED  BY <2>1, <3>1
  <2>2. ASSUME NEW i \in a + 1 .. k, c = t[i]  PROVE \E j \in 1 .. n : c = t[a + j]
    <3>1. i - a \in 1 .. n /\ a + (i - a) = i
      BY <1>1
    <3> QED  BY <2>2, <3>1
  <2> QED  BY <2>1, <2>2
<1> QED  BY <1>5, <1>6 DEF p

\* The lengths of the chains with k clusters of the node n.
LensCut(len, n, k) == [len EXCEPT ![n] = k]

\* The end of FATNode::write(): the clusters behind the new size become free.
LEMMA CutIs ==
    ASSUME NEW e, NEW f, NEW ch, NEW len, Layout(e, f, ch, len), NEW n \in Node, e[n] # None,
           NEW e2, \A m \in Node : m # n => e2[m] = e[m], e2[n] # None, e2[n].first = e[n].first,
           NEW size, NEW k \in Nat, k = Clusters(size), k > 0, k <= len[n],
           NEW f2, f2 = CutChain(f, e[n].first, size), NEW len2, len2 = LensCut(len, n, k)
    PROVE  Layout(e2, f2, ch, len2)
<1> DEFINE q == ch[n]
           l == len[n]
           chain == Chain(f, e[n].first)
           Excess(c) == \E i \in k + 1 .. l : c = q[i]
<1>1. f \in FAT /\ ch \in [Node -> [Nat -> Cluster]] /\ len \in [Node -> Nat]
  BY DEF Layout
<1>2. Lists(chain, q, l) /\ l \in Nat
  BY <1>1, LayoutChain
<1>3. chain \in Seq(Cluster) /\ Len(chain) = l /\ \A i \in 1 .. l : chain[i] = q[i]
  BY <1>2 DEF Lists
<1>4. k <= l
  OBVIOUS
<1>5. \A m, p \in Node : \A i \in 1 .. len[m], j \in 1 .. len[p] :
            ch[m][i] = ch[p][j] => m = p /\ i = j
  BY DEF Layout
<1>6. f2 = [c \in Cluster |-> IF c \in ToSet(SubSeq(chain, k + 1, Len(chain))) THEN 0
                              ELSE IF c = chain[k] THEN Eof ELSE f[c]]
  BY DEF CutChain
<1> HIDE DEF chain
<1>7. \A c : c \in ToSet(SubSeq(chain, k + 1, l)) <=> \E i \in k + 1 .. l : c = chain[i]
  BY <1>2, <1>3, <1>4, TailSet
<1>8. \A c : c \in ToSet(SubSeq(chain, k + 1, l)) <=> Excess(c)
  <2>1. \A i \in k + 1 .. l : chain[i] = q[i]
    <3>1. \A i \in k + 1 .. l : i \in 1 .. l
      BY <1>2, <1>4
    <3> QED  BY <1>3, <3>1
  <2> QED  BY <1>7, <2>1
<1>9. chain[k] = q[k]
  BY <1>2, <1>3, <1>4
<1>10. \A c \in Cluster : f2[c] = IF Excess(c) THEN 0 ELSE IF c = q[k] THEN Eof ELSE f[c]
  <2> HIDE DEF Excess
  <2> QED  BY <1>3, <1>6, <1>8, <1>9
<1>11. f2 \in FAT
  <2>1. f2 = [c \in Cluster |-> f2[c]]
    BY <1>6
  <2>2. \A c \in Cluster : f2[c] \in {0, Eof} \cup Cluster
    <3> HIDE DEF Excess
    <3> QED  BY <1>1, <1>10 DEF FAT
  <2> QED  BY <2>1, <2>2 DEF FAT
<1>12. /\ len2 \in [Node -> Nat] /\ len2[n] = k /\ \A m \in Node : m # n => len2[m] = len[m]
  BY <1>1 DEF LensCut
<1>13. \A m \in Node : m # n => \A i \in 1 .. len[m] : \A j \in 1 .. l : ch[m][i] # q[j]
  BY <1>5
<1>14. \A i, j \in 1 .. l : q[i] = q[j] => i = j
  BY <1>5
<1>15. \A m \in Node : \A i \in 1 .. len[m] : ch[m][i] \in Cluster
  BY <1>1
<1>16. \A m \in Node : \A i \in len2[m] + 1 .. len[m] : f2[ch[m][i]] = 0
  <2> SUFFICES ASSUME NEW m \in Node, NEW i \in len2[m] + 1 .. len[m]  PROVE f2[ch[m][i]] = 0
    OBVIOUS
  <2>1. m = n
    <3> SUFFICES ASSUME m # n  PROVE FALSE
      OBVIOUS
    <3>1. len2[m] = len[m] /\ len[m] \in Nat
      BY <1>1, <1>12
    <3> QED  BY <3>1
  <2>2. i \in k + 1 .. l /\ i \in 1 .. l
    BY <1>2, <1>12, <2>1
  <2>3. q[i] \in Cluster /\ Excess(q[i])
    BY <1>15, <2>2
  <2> HIDE DEF Excess
  <2> QED  BY <1>10, <2>1, <2>3
<1>17. \A m \in Node : \A i \in 1 .. len2[m] :
            f2[ch[m][i]] = IF i = len2[m] THEN Eof ELSE f[ch[m][i]]
  <2> SUFFICES ASSUME NEW m \in Node, NEW i \in 1 .. len2[m]
               PROVE  f2[ch[m][i]] = IF i = len2[m] THEN Eof ELSE f[ch[m][i]]
    OBVIOUS
  <2>1. CASE m = n
    <3>1. i \in 1 .. k /\ i \in 1 .. l /\ k \in 1 .. l
      BY <1>2, <1>4, <1>12, <2>1
    <3>2. ~Excess(q[i])
      <4> SUFFICES ASSUME NEW j \in k + 1 .. l, q[i] = q[j]  PROVE FALSE
        OBVIOUS
      <4>1. j \in 1 .. l /\ j # i
        BY <1>2, <3>1
      <4> QED  BY <1>14, <3>1, <4>1
    <3>3. q[i] = q[k] <=> i = k
      BY <1>14, <3>1
    <3>4. q[i] \in Cluster
      BY <1>15, <3>1
    <3> HIDE DEF Excess
    <3> QED  BY <1>10, <1>12, <2>1, <3>2, <3>3, <3>4
  <2>2. CASE m # n
    <3>1. len2[m] = len[m] /\ i \in 1 .. len[m] /\ ch[m][i] \in Cluster
      BY <1>12, <1>15, <2>2
    <3>2. ~Excess(ch[m][i])
      <4> SUFFICES ASSUME NEW j \in k + 1 .. l, ch[m][i] = q[j]  PROVE FALSE
        OBVIOUS
      <4>1. j \in 1 .. l
        BY <1>2
      <4> QED  BY <1>13, <2>2, <3>1, <4>1
    <3>3. ch[m][i] # q[k]
      <4>1. k \in 1 .. l
        BY <1>2, <1>4
      <4> QED  BY <1>13, <2>2, <3>1, <4>1
    <3>4. i = len[m] => f[ch[m][i]] = Eof
      <4>1. len[m] # 0
        BY <1>1, <3>1
      <4>2. f[ch[m][len[m]]] = Eof
        BY <4>1 DEF Layout
      <4> QED  BY <4>2
    <3> HIDE DEF Excess
    <3> QED  BY <1>10, <3>1, <3>2, <3>3, <3>4
  <2> QED  BY <2>1, <2>2
<1>18. \A c \in Cluster : (\A m \in Node : \A i \in 1 .. len[m] : c # ch[m][i]) => f2[c] = f[c]
  <2> SUFFICES ASSUME NEW c \in Cluster, \A i \in 1 .. l : c # q[i]  PROVE f2[c] = f[c]
    OBVIOUS
  <2>1. ~Excess(c) /\ c # q[k]
    <3>1. k \in 1 .. l /\ \A i \in k + 1 .. l : i \in 1 .. l
      BY <1>2, <1>4
    <3> QED  BY <3>1
  <2> HIDE DEF Excess
  <2> QED  BY <1>10, <2>1
<1>19. \A m \in Node : /\ len2[m] <= len[m]
                       /\ e2[m] = None => len2[m] = 0
                       /\ e2[m] # None /\ len2[m] = 0 => e2[m].first = 0
                       /\ len2[m] # 0 => e2[m].first = e[m].first
  <2> SUFFICES ASSUME NEW m \in Node
               PROVE  /\ len2[m] <= len[m]
                      /\ e2[m] = None => len2[m] = 0
                      /\ e2[m] # None /\ len2[m] = 0 => e2[m].first = 0
                      /\ len2[m] # 0 => e2[m].first = e[m].first
    OBVIOUS
  <2>1. CASE m = n
    BY <1>4, <1>12, <2>1
  <2>2. CASE m # n
    <3>1. len2[m] = len[m] /\ e2[m] = e[m] /\ len[m] \in Nat
      BY <1>1, <1>12, <2>2
    <3>2. e[m] = None => len[m] = 0
      BY DEF Layout
    <3>3. e[m] # None /\ len[m] = 0 => e[m].first = 0
      BY DEF Layout
    <3> QED  BY <3>1, <3>2, <3>3
  <2> QED  BY <2>1, <2>2
<1> QED  BY <1>11, <1>12, <1>16, <1>17, <1>18, <1>19, ChainsAreCut

\* A write begins where its node stands.
LEMMA WriteStarts ==
    ASSUME NEW e \in [Node -> Entry \cup {None}], NEW f, NEW ch, NEW len, Layout(e, f, ch, len),
           NEW d \in [Cluster -> [1 .. ClusterSize -> 0 .. MaxSize]],
           NEW old \in FATNode, NEW n \in Node, n = old.node, e[n] # None,
           e[n].first = old.first, e[n].size = old.size, len[n] = Clusters(old.size),
           WriterOK(old, ch[n], len[n]), NEW L \in Nat, NEW s, s = State(f, d, e, old, 0, "OKAY"),
           NEW bytes, NEW first, first = IsFirstWrite(old)
    PROVE  WriteGood(old, e, d, ch, len, bytes, first, L, s)
<1>1. /\ s.fat = f /\ s.data = d /\ s.entry = e /\ s.h = old /\ s.pos = 0
      /\ s = State(s.fat, s.data, s.entry, s.h, s.pos, "OKAY")
  BY StateParts
<1> DEFINE size == old.size
           pos == Position(old)
           k0 == Clusters(size)
           proc == old.proc
           off == old.off
<1>2. size \in Nat /\ pos \in Nat /\ proc \in Nat /\ off \in Nat /\ pos = proc * ClusterSize + off
  BY PositionNat
<1>3. pos = IF IsFirstWrite(old) THEN 0 ELSE size
  BY DEF WriterOK
<1>4. off < ClusterSize /\ WriterAt(old, ch[n], len[n])
  BY DEF WriterOK, WriterAt
<1>5. GrownBy(old, 0) = len[n]
  <2>1. pos <= size /\ pos + 0 = pos
    BY <1>2, <1>3
  <2>2. Clusters(pos) <= k0
    BY <1>2, <2>1, ClustersGrow
  <2> QED  BY <2>1, <2>2 DEF GrownBy, Grown
<1>6. off = 0 \/ proc < k0
  <2> SUFFICES ASSUME off # 0  PROVE proc < k0
    OBVIOUS
  <2>1. pos = size
    BY <1>3 DEF IsFirstWrite
  <2>2. off \in 1 .. ClusterSize
    BY <1>2, <1>4, ClusterSizeNat
  <2> HIDE DEF pos, size, proc, off
  <2>3. Clusters(proc * ClusterSize + off) = proc + 1
    BY <1>2, <2>2, ClustersBehind
  <2>4. k0 = proc + 1
    BY <1>2, <2>1, <2>3
  <2> QED  BY <1>2, <2>4
<1>7. e = EntryOf(e, old)
  <2>1. e[n] \in Entry
    OBVIOUS
  <2>2. e[n] = [first |-> old.first, size |-> old.size]
    BY <2>1 DEF Entry
  <2> QED  BY <2>2 DEF EntryOf
<1>8. OnVolume(e, ch, len, n, len[n], e, f, old, ch, len)
  BY <1>7 DEF OnVolume
<1>9. Position(s.h) = Position(old) + s.pos /\ s.pos \in 0 .. L
  BY <1>1, <1>2
<1>10. /\ OnVolume(e, ch, len, old.node, GrownBy(old, s.pos), s.entry, s.fat, s.h, ch, len)
       /\ WriterAt(s.h, ch[old.node], GrownBy(old, s.pos))
  BY <1>1, <1>4, <1>5, <1>8
<1>11. s.h.off = 0 \/ s.h.proc < Clusters(old.size)
  BY <1>1, <1>6
<1>12. BytesGood(old, d, ch, len, bytes, s.pos, s.data, ch[old.node])
  BY <1>1 DEF BytesGood
<1>13. first => s.pos = L \/ s.h.off = 0
  BY <1>1 DEF IsFirstWrite
<1> HIDE DEF size, pos, k0, proc, off
<1>14. WritingTo(old, e, ch, len, L, s, ch, len)
  BY <1>1, <1>9, <1>10, <1>11 DEF WritingTo
<1> QED  BY <1>12, <1>13, <1>14 DEF WriteGood

\* The node with its new size.
Sized(h, size) == [h EXCEPT !.size = size]

\* The end of FATNode::write().
LEMMA WriteNodeIs ==
    ASSUME NEW s, NEW bytes, NEW first, first = IsFirstWrite(s.h),
           NEW w, w = WriteLoop(s, bytes, first), NEW r, r = WriteNode(s, bytes),
           r.status = "OKAY"
    PROVE  /\ w.status = "OKAY"
           /\ \A f, d, e, h, p, size :
                w = State(f, d, e, h, p, "OKAY") /\ size = (IF first THEN p ELSE h.size + p) =>
                    LET h2 == Sized(h, size)
                        f2 == IF size < h.size THEN CutChain(f, h.first, size) ELSE f
                    IN  r = State(f2, d, EntryOf(e, h2), h2, p, "OKAY")
<1>1. w.status = "OKAY"
  <2> SUFFICES ASSUME w.status # "OKAY"  PROVE FALSE
    OBVIOUS
  <2>1. r = w
    BY DEF WriteNode
  <2> QED  BY <2>1
<1>2. ASSUME NEW f, NEW d, NEW e, NEW h, NEW p, NEW size,
             w = State(f, d, e, h, p, "OKAY"), size = IF first THEN p ELSE h.size + p
      PROVE  r = State(IF size < h.size THEN CutChain(f, h.first, size) ELSE f, d,
                       EntryOf(e, Sized(h, size)), Sized(h, size), p, "OKAY")
  <2> DEFINE f2 == IF size < h.size THEN CutChain(f, h.first, size) ELSE f
             sized == [w EXCEPT !.h.size = size]
             cut == [sized EXCEPT !.fat = CutChain(@, w.h.first, size)]
             last == IF size < w.h.size THEN cut ELSE sized
  <2>1. w.h = h /\ w.fat = f /\ w.pos = p
    BY <1>2, StateParts
  <2>2. r = Update(last)
    BY <1>1, <1>2, <2>1 DEF WriteNode
  <2>3. sized = [w EXCEPT !.h = Sized(h, size)]
    BY <2>1 DEF Sized
  <2> HIDE DEF sized
  <2>4. sized = State(f, d, e, Sized(h, size), p, "OKAY")
    BY <1>2, <2>3 DEF State
  <2>5. sized.fat = f
    BY <2>4, StateParts
  <2>6. cut = [sized EXCEPT !.fat = CutChain(f, h.first, size)]
    BY <2>1, <2>5
  <2> HIDE DEF cut
  <2>7. cut = State(CutChain(f, h.first, size), d, e, Sized(h, size), p, "OKAY")
    BY <2>4, <2>6 DEF State
  <2>8. last = State(f2, d, e, Sized(h, size), p, "OKAY")
    BY <2>1, <2>4, <2>7
  <2> HIDE DEF last, f2
  <2>9. r = State(f2, d, EntryOf(e, Sized(h, size)), Sized(h, size), p, "OKAY")
    BY <2>2, <2>8, UpdateIs
  <2> QED  BY <2>9 DEF f2
<1> QED  BY <1>1, <1>2

LEMMA SizedIs ==
    ASSUME NEW h \in FATNode, NEW size \in 0 .. MaxSize, NEW w, w = Sized(h, size)
    PROVE  /\ w \in FATNode /\ w.node = h.node /\ w.mode = h.mode /\ w.first = h.first
           /\ w.size = size /\ w.proc = h.proc /\ w.cur = h.cur /\ w.off = h.off
           /\ Position(w) = Position(h)
<1>1. /\ w \in FATNode /\ w.node = h.node /\ w.mode = h.mode /\ w.first = h.first
      /\ w.size = size /\ w.proc = h.proc /\ w.cur = h.cur /\ w.off = h.off
  BY DEF Sized, FATNode
<1> QED  BY <1>1 DEF Position

\* Two updates of one entry: the last one counts.
LEMMA EntryTwice ==
    ASSUME NEW e0 \in [Node -> Entry \cup {None}], NEW h \in FATNode, NEW h2 \in FATNode,
           h2.node = h.node, NEW e, e = EntryOf(e0, h), NEW e2, e2 = EntryOf(e, h2)
    PROVE  e2 = EntryOf(e0, h2)
<1> DEFINE x == [first |-> h.first, size |-> h.size]
           y == [first |-> h2.first, size |-> h2.size]
           n == h.node
<1>1. e = [e0 EXCEPT ![n] = x] /\ e2 = [e EXCEPT ![n] = y] /\ EntryOf(e0, h2) = [e0 EXCEPT ![n] = y]
  BY DEF EntryOf
<1> HIDE DEF x, y, n
<1>2. e2 = [e0 EXCEPT ![n] = y]
  BY <1>1
<1> QED  BY <1>1, <1>2

\* The cursor behind the last byte written: the last cluster of the file, unless an
\* aligned end leaves clusters behind it.
LEMMA EndOfWrite ==
    ASSUME NEW proc \in Nat, NEW off \in Nat, off < ClusterSize,
           NEW size \in Nat, size = proc * ClusterSize + off, size > 0, NEW s0 \in Nat,
           ~(size % ClusterSize = 0 /\ Clusters(size) < Clusters(s0)),
           NEW k, k = Clusters(size), NEW l, l = Grown(Clusters(s0), size)
    PROVE  /\ k \in Nat /\ k > 0 /\ l \in Nat /\ k <= l
           /\ l = k \/ (proc < k /\ proc < l)
           /\ s0 <= size => l = k
<1> DEFINE k0 == Clusters(s0)
<1>1. k \in Nat /\ k > 0 /\ k0 \in Nat
  BY ClustersHold
<1>2. off \in 0 .. ClusterSize - 1
  BY ClusterSizeNat
<1>3. k = (IF off = 0 THEN proc ELSE proc + 1) /\ size % ClusterSize = off
  BY <1>2, ClustersOfSum, DivOfSum
<1>4. s0 <= size => k0 <= k
  BY ClustersGrow
<1>5. l = IF k <= k0 THEN k0 ELSE k
  BY DEF Grown
<1>6. ~(off = 0 /\ k < k0)
  BY <1>3
<1> HIDE DEF k0
<1> QED  BY ONLY <1>1, <1>3, <1>4, <1>5, <1>6, proc \in Nat, off \in Nat

\* The volume and the node behind a write that made the file of the node n size bytes long.
Written(ch, len, n, size, e, f, h, ch3, len3) ==
    /\ Layout(e, f, ch3, len3) /\ len3[n] = Clusters(size)
    /\ \A m \in Node : m # n => ch3[m] = ch[m] /\ len3[m] = len[m]
    /\ WriterOK(h, ch3[n], len3[n])

\* write() has left its loop, in the state w, with the whole buffer in the file.
LoopLeft(old, e0, d0, bytes, L, ch, len, k, w, size) ==
    /\ WriteCall(e0, old, bytes, L) /\ L > 0
    /\ WriterOK(old, ch[old.node], k)
    /\ WriteGood(old, e0, d0, ch, len, bytes, IsFirstWrite(old), L, w) /\ w.pos = L
    /\ size = (IF IsFirstWrite(old) THEN L ELSE old.size + L) /\ size <= MaxSize
    /\ ~(size % ClusterSize = 0 /\ Clusters(size) < Clusters(old.size))

LEMMA WriteEnds ==
    ASSUME NEW old, NEW e0, NEW d0, NEW bytes, NEW L, NEW ch, NEW len, NEW k, NEW w, NEW size,
           LoopLeft(old, e0, d0, bytes, L, ch, len, k, w, size),
           NEW h2, h2 = Sized(w.h, size), NEW e2, e2 = EntryOf(w.entry, h2),
           NEW f2, f2 = (IF size < old.size THEN CutChain(w.fat, w.h.first, size) ELSE w.fat)
    PROVE  /\ h2 \in FATNode /\ h2.node = old.node /\ h2.mode = old.mode /\ h2.size = size
           /\ e2 = EntryOf(e0, h2)
           /\ size = Position(old) + L /\ ~IsFirstWrite(h2)
           /\ \E ch3, len3 : /\ Written(ch, len, old.node, size, e2, f2, h2, ch3, len3)
                            /\ BytesGood(old, d0, ch, len, bytes, L, w.data, ch3[old.node])
<1>0. /\ WriteCall(e0, old, bytes, L) /\ L > 0
      /\ WriterOK(old, ch[old.node], k)
      /\ WriteGood(old, e0, d0, ch, len, bytes, IsFirstWrite(old), L, w) /\ w.pos = L
      /\ size = (IF IsFirstWrite(old) THEN L ELSE old.size + L) /\ size <= MaxSize
      /\ ~(size % ClusterSize = 0 /\ Clusters(size) < Clusters(old.size))
  BY DEF LoopLeft
<1> DEFINE n == old.node
           v == w.h
           p0 == Position(old)
           s0 == old.size
           l == GrownBy(old, L)
           c == Clusters(size)
<1>1. /\ e0 \in [Node -> Entry \cup {None}] /\ old \in FATNode /\ L \in Nat
  BY <1>0 DEF WriteCall
<1>2. n \in Node /\ s0 \in Nat /\ p0 \in Nat
  BY <1>1, PositionNat DEF FATNode
<1>3. p0 = IF IsFirstWrite(old) THEN 0 ELSE s0
  BY <1>0 DEF WriterOK
<1>4. size \in Nat /\ size > 0 /\ p0 + L = size
  <2> HIDE DEF p0, s0
  <2>1. size = IF IsFirstWrite(old) THEN L ELSE s0 + L
    BY <1>0 DEF s0
  <2> QED  BY <1>0, <1>1, <1>2, <1>3, <2>1
<1>5. size \in 0 .. MaxSize
  BY <1>0, <1>4, Sizes
<1>23. PICK ch2, len2 : /\ WritingTo(old, e0, ch, len, L, w, ch2, len2)
                        /\ BytesGood(old, d0, ch, len, bytes, L, w.data, ch2[old.node])
  BY <1>0 DEF WriteGood
<1>6. /\ OnVolume(e0, ch, len, n, GrownBy(old, L), w.entry, w.fat, v, ch2, len2)
      /\ WriterAt(v, ch2[n], GrownBy(old, L))
  BY <1>0, <1>23 DEF WritingTo
<1>7. v.mode = old.mode /\ Position(v) = size
  BY <1>0, <1>4, <1>23 DEF WritingTo
<1>8. /\ Layout(w.entry, w.fat, ch2, len2) /\ len2[n] = l
      /\ \A m \in Node : m # n => ch2[m] = ch[m] /\ len2[m] = len[m]
      /\ w.entry = EntryOf(e0, v) /\ v \in FATNode /\ v.node = n
  BY <1>6 DEF OnVolume
<1>9. WriterAt(v, ch2[n], l)
  BY <1>6
<1>10. l = Grown(Clusters(s0), size)
  BY <1>4 DEF GrownBy
<1> HIDE DEF v, p0, s0, l, c, n
<1>11. h2 = Sized(v, size)
  BY DEF v
<1>12. /\ h2 \in FATNode /\ h2.node = v.node /\ h2.mode = v.mode /\ h2.first = v.first
       /\ h2.size = size /\ h2.proc = v.proc /\ h2.cur = v.cur /\ h2.off = v.off
       /\ Position(h2) = Position(v)
  BY <1>5, <1>8, <1>11, SizedIs
<1>13. e2 = EntryOf(e0, h2)
  BY <1>1, <1>8, <1>12, EntryTwice
<1> DEFINE proc == h2.proc
           off == h2.off
<1>14. /\ proc \in Nat /\ off \in Nat /\ off < ClusterSize /\ size = proc * ClusterSize + off
  <2>1. proc \in Nat /\ off \in Nat /\ Position(h2) = proc * ClusterSize + off
    BY <1>12, PositionNat
  <2> QED  BY <1>7, <1>9, <1>12, <2>1 DEF WriterAt
<1> HIDE DEF proc, off
<1>15. ~(size % ClusterSize = 0 /\ Clusters(size) < Clusters(s0))
  BY <1>0 DEF s0
<1>16. /\ c \in Nat /\ c > 0 /\ l \in Nat /\ c <= l
       /\ l = c \/ (proc < c /\ proc < l)
       /\ s0 <= size => l = c
  <2>1. c = Clusters(size)
    BY DEF c
  <2> QED  BY <1>2, <1>4, <1>10, <1>14, <1>15, <2>1, EndOfWrite
<1>24. ~IsFirstWrite(h2)
  <2> SUFFICES ASSUME proc = 0, off = 0  PROVE FALSE
    BY DEF IsFirstWrite, proc, off
  <2> QED  BY <1>4, <1>14, ClusterSizeNat
<1>17. ASSUME NEW q, q = ch2[n]  PROVE WriterOK(h2, q, c)
  <2>1. h2.cur = IF l = 0 THEN 0 ELSE IF proc < l THEN q[proc + 1] ELSE q[l]
    BY <1>9, <1>12, <1>17 DEF WriterAt, proc
  <2>2. h2.cur = IF c = 0 THEN 0 ELSE IF proc < c THEN q[proc + 1] ELSE q[c]
    BY <1>14, <1>16, <2>1
  <2>4. Position(h2) = h2.size
    BY <1>7, <1>12
  <2> QED  BY <1>14, <1>24, <2>2, <2>4 DEF WriterOK, proc, off
<1>18. /\ w.entry[n] # None /\ w.entry[n].first = v.first
       /\ \A m \in Node : m # n => w.entry[m] = e0[m]
  BY <1>1, <1>2, <1>8, EntryIs
<1>19. /\ e2[n] # None /\ e2[n].first = h2.first
       /\ \A m \in Node : m # n => e2[m] = e0[m]
  <2>1. h2.node = n
    BY <1>8, <1>12
  <2> QED  BY <1>1, <1>2, <1>12, <1>13, <2>1, EntryIs
<1>20. /\ e2[n].first = w.entry[n].first /\ \A m \in Node : m # n => e2[m] = w.entry[m]
  BY <1>12, <1>18, <1>19
<1>21. \E len3 : Written(ch, len, n, size, e2, f2, h2, ch2, len3)
  <2>1. CASE size < s0
    <3> DEFINE len3 == LensCut(len2, n, c)
    <3>1. f2 = CutChain(w.fat, w.entry[n].first, size)
      BY <1>18, <2>1 DEF s0, v
    <3>2. c = Clusters(size)
      BY DEF c
    <3>3. Layout(e2, f2, ch2, len3)
      BY <1>2, <1>8, <1>16, <1>18, <1>19, <1>20, <3>1, <3>2, CutIs
    <3>4. len3[n] = c /\ \A m \in Node : m # n => len3[m] = len2[m]
      BY <1>2, <1>8 DEF LensCut, Layout
    <3> HIDE DEF len3
    <3>5. WriterOK(h2, ch2[n], len3[n])
      BY <1>17, <3>4
    <3>6. Written(ch, len, n, size, e2, f2, h2, ch2, len3)
      BY <1>8, <3>2, <3>3, <3>4, <3>5 DEF Written
    <3> QED  BY <3>6
  <2>2. CASE ~(size < s0)
    <3>1. f2 = w.fat
      BY <2>2 DEF s0
    <3>2. l = c
      BY <1>2, <1>4, <1>16, <2>2
    <3>3. \A m \in Node : /\ e2[m] = None => len2[m] = 0
                          /\ e2[m] # None /\ len2[m] = 0 => e2[m].first = 0
                          /\ len2[m] # 0 => e2[m].first = w.entry[m].first
      <4>1. len2[n] # 0
        BY <1>8, <1>16, <3>2
      <4>2. \A m \in Node : /\ w.entry[m] = None => len2[m] = 0
                            /\ w.entry[m] # None /\ len2[m] = 0 => w.entry[m].first = 0
        BY <1>8 DEF Layout
      <4> QED  BY <1>19, <1>20, <4>1, <4>2
    <3>4. Layout(e2, f2, ch2, len2)
      BY <1>8, <3>1, <3>3, EntryChanges
    <3>5. WriterOK(h2, ch2[n], len2[n])
      BY <1>8, <1>17, <3>2
    <3>6. Written(ch, len, n, size, e2, f2, h2, ch2, len2)
      BY <1>8, <3>2, <3>4, <3>5 DEF Written, c
    <3> QED  BY <3>6
  <2> QED  BY <2>1, <2>2
<1>22. h2.node = n /\ h2.mode = old.mode
  BY <1>7, <1>8, <1>12
<1>25. size = Position(old) + L
  BY <1>4 DEF p0
<1> QED  BY <1>12, <1>13, <1>21, <1>22, <1>23, <1>24, <1>25 DEF n

\* A write moves one cursor and changes one file: no other handle is on it.
LEMMA WriterMoves ==
    ASSUME IInv, NEW ch, NEW len, VolumeOK(entry, fat, node, ch, len),
           NEW h \in Handle, node[h] # None, node[h].node \in File, node[h].mode # "READ",
           NEW v \in FATNode, v.node = node[h].node, v.mode = node[h].mode,
           NEW ch3, NEW len3,
           Written(ch, len, node[h].node, v.size, entry', fat', v, ch3, len3),
           entry' = EntryOf(entry, v), node' = [node EXCEPT ![h] = v], refs' = refs,
           data' \in [Cluster -> [1 .. ClusterSize -> 0 .. MaxSize]]
    PROVE  IInv'
<1> DEFINE n == node[h].node
<1>0. n \in Node
  BY DEF Node
<1>1. /\ node' \in [Handle -> FATNode \cup {None}] /\ node'[h] = v /\ v # None
      /\ \A k \in Handle : k # h => node'[k] = node[k]
  BY Parts, NoneFacts
<1>2. /\ entry' \in [Node -> Entry \cup {None}] /\ entry'[n] # None
      /\ entry'[n].first = v.first /\ entry'[n].size = v.size
      /\ \A m \in Node : m # n => entry'[m] = entry[m]
  BY <1>0, Parts, EntryIs
<1>3. Typed(entry', data', node', refs')
  BY <1>1, <1>2, Parts DEF Typed
<1>4. \A k \in Handle : k # h /\ node[k] # None => node[k].node # n /\ node[k].node \in Node
  BY Parts DEF IInv, NodesOK
<1>5. \A k \in Handle : /\ node'[k] # None <=> node[k] # None
                        /\ node[k] # None => /\ node'[k].node = node[k].node
                                             /\ node'[k].mode = node[k].mode
  BY <1>1
<1>6. NodesOK(entry', node')
  <2>1. ASSUME NEW k \in Handle, node'[k] # None
        PROVE  /\ entry'[node'[k].node] # None
               /\ node'[k].first = entry'[node'[k].node].first
               /\ node'[k].size = entry'[node'[k].node].size
    <3>1. CASE k = h
      BY <1>1, <1>2, <3>1
    <3>2. CASE k # h
      <4>1. node'[k] = node[k] /\ entry'[node[k].node] = entry[node[k].node]
        BY <1>1, <1>2, <1>4, <2>1, <3>2
      <4> QED  BY <2>1, <4>1 DEF IInv, NodesOK
    <3> QED  BY <3>1, <3>2
  <2>2. \A j, k \in Handle : j # k /\ node'[j] # None /\ node'[k] # None
                             /\ node'[j].node = node'[k].node => node'[j].mode = "READ"
    BY <1>5 DEF IInv, NodesOK
  <2> QED  BY <2>1, <2>2 DEF NodesOK
<1>7. \A m : HandlesOf(node', m) = HandlesOf(node, m)
  BY <1>5 DEF HandlesOf
<1>8. RefsOK(node', refs')
  BY <1>7 DEF IInv, RefsOK
<1>9. /\ Layout(entry', fat', ch3, len3) /\ len3[n] = Clusters(v.size)
      /\ \A m \in Node : m # n => ch3[m] = ch[m] /\ len3[m] = len[m]
      /\ WriterOK(v, ch3[n], len3[n])
  BY DEF Written
<1>10. \A m \in Node : len3[m] = Needed(entry', m)
  <2>1. len3[n] = Needed(entry', n)
    BY <1>2, <1>9 DEF Needed
  <2>2. ASSUME NEW m \in Node, m # n  PROVE len3[m] = Needed(entry', m)
    <3>1. len3[m] = len[m] /\ entry'[m] = entry[m]
      BY <1>2, <1>9, <2>2
    <3> QED  BY <3>1 DEF Needed, VolumeOK
  <2> QED  BY <2>1, <2>2
<1>11. CursorOK(v, ch3[v.node], len3[v.node])
  BY <1>9 DEF CursorOK
<1>12. \A k \in Handle : node'[k] # None => CursorOK(node'[k], ch3[node'[k].node], len3[node'[k].node])
  <2>1. ASSUME NEW k \in Handle, k # h, node'[k] # None
        PROVE  CursorOK(node'[k], ch3[node'[k].node], len3[node'[k].node])
    <3>1. /\ node'[k] = node[k] /\ node[k] # None /\ ch3[node[k].node] = ch[node[k].node]
          /\ len3[node[k].node] = len[node[k].node]
      BY <1>1, <1>4, <1>9, <2>1
    <3> QED  BY <3>1 DEF VolumeOK
  <2> QED  BY <1>1, <1>11, <2>1
<1>13. VolumeOK(entry', fat', node', ch3, len3)
  BY <1>9, <1>10, <1>12 DEF VolumeOK
<1> QED  BY <1>3, <1>6, <1>8, <1>13 DEF IInv

\* A write by the handle h: v is its node, ch3[v.node] the chain of the file behind it.
WriteIsDone(ch, len, h, bytes, v, ch3, len3) ==
    /\ v \in FATNode /\ v.node = node[h].node /\ v.mode = node[h].mode
    /\ v.size = Position(node[h]) + Len(bytes) /\ ~IsFirstWrite(v)
    /\ Written(ch, len, node[h].node, v.size, entry', fat', v, ch3, len3)
    /\ BytesGood(node[h], data, ch, len, bytes, Len(bytes), data', ch3[node[h].node])
    /\ entry' = EntryOf(entry, v) /\ node' = [node EXCEPT ![h] = v] /\ refs' = refs
    /\ data' \in [Cluster -> [1 .. ClusterSize -> 0 .. MaxSize]]

LEMMA WriteIs ==
    ASSUME Plain, IInv, NEW ch, NEW len, VolumeOK(entry, fat, node, ch, len),
           NEW h \in Handle, NEW bytes \in Buffer, Write(h, bytes)
    PROVE  /\ node[h] # None /\ node[h].node \in File /\ node[h].mode # "READ"
           /\ Len(bytes) \in Nat /\ Len(bytes) > 0 /\ bytes \in [1 .. Len(bytes) -> 0 .. MaxSize]
           /\ \E v, ch3, len3 : WriteIsDone(ch, len, h, bytes, v, ch3, len3)
<1>1. VolumeOK(entry, fat, node, ch, len)
  OBVIOUS
<1> DEFINE old == node[h]
           n == old.node
           first == IsFirstWrite(old)
           L == Len(bytes)
           s == State(fat, data, entry, old, 0, "OKAY")
           r == WriteNode(s, bytes)
           w == WriteLoop(s, bytes, first)
           size == IF first THEN L ELSE old.size + L
<1>2. /\ h \in Open /\ n \in File /\ old.mode # "READ" /\ size <= MaxSize
      /\ "aligned" \in Uses \/ ~(size % ClusterSize = 0 /\ Clusters(size) < Clusters(old.size))
      /\ "full" \in Uses \/ r.status = "OKAY"
      /\ fat' = r.fat /\ data' = r.data /\ entry' = r.entry
      /\ node' = [node EXCEPT ![h] = r.h] /\ refs' = refs
  BY DEF Write, State
<1>3. /\ old # None /\ n \in Node /\ r.status = "OKAY"
      /\ ~(size % ClusterSize = 0 /\ Clusters(size) < Clusters(old.size))
  BY <1>2 DEF Open, Node, Plain
<1>4. L \in Nat /\ L > 0 /\ bytes \in [1 .. L -> 0 .. MaxSize]
  <2>1. PICK l \in 1 .. MaxSize : bytes = [i \in 1 .. l |-> i]
    BY DEF Buffer
  <2>2. l \in Nat /\ l > 0
    BY <2>1, Sizes
  <2>3. Len(bytes) = l
    BY <2>1, <2>2
  <2> QED  BY <2>1, <2>2, <2>3, Sizes
<1>5. /\ entry \in [Node -> Entry \cup {None}] /\ old \in FATNode
      /\ data \in [Cluster -> [1 .. ClusterSize -> 0 .. MaxSize]]
  BY <1>3, Parts
<1>6. entry[n] # None /\ entry[n].first = old.first /\ entry[n].size = old.size
  BY <1>3 DEF IInv, NodesOK
<1>7. Layout(entry, fat, ch, len) /\ len[n] = Clusters(old.size) /\ WriterOK(old, ch[n], len[n])
  BY <1>1, <1>2, <1>3, <1>6 DEF VolumeOK, Needed, CursorOK
<1>8. WriteCall(entry, old, bytes, L)
  BY <1>4, <1>5 DEF WriteCall
<1> HIDE DEF s, r, w
<1>9. s.h = old /\ s.pos = 0 /\ s = State(fat, data, entry, old, 0, "OKAY")
  BY StateParts DEF s
<1>10. w = WriteLoop(s, bytes, first) /\ r = WriteNode(s, bytes) /\ first = IsFirstWrite(s.h)
  BY <1>9 DEF w, r
<1> HIDE DEF old, n, first, L, size
<1>11. WriteGood(old, entry, data, ch, len, bytes, first, L, s)
  <2>1. n = old.node /\ first = IsFirstWrite(old)
    BY DEF n, first
  <2> QED  BY <1>3, <1>4, <1>5, <1>6, <1>7, <1>9, <2>1, WriteStarts
<1>12. w.status = "OKAY"
  BY <1>3, <1>10, WriteNodeIs
<1>13. WriteGood(old, entry, data, ch, len, bytes, first, L, w) /\ w.pos = L
  BY <1>8, <1>9, <1>10, <1>11, <1>12, WriteIsGood
<1> DEFINE h2 == Sized(w.h, size)
           f2 == IF size < old.size THEN CutChain(w.fat, w.h.first, size) ELSE w.fat
           e2 == EntryOf(w.entry, h2)
<1>14. /\ w = State(w.fat, w.data, w.entry, w.h, L, "OKAY") /\ w.h.size = old.size
       /\ w.data \in [Cluster -> [1 .. ClusterSize -> 0 .. MaxSize]]
  BY <1>13 DEF WriteGood, WritingTo
<1>15. size = IF first THEN L ELSE w.h.size + L
  BY <1>14 DEF size
<1>16. r = State(f2, w.data, e2, h2, L, "OKAY")
  <2>1. \A f, d, e, g, p, z :
            w = State(f, d, e, g, p, "OKAY") /\ z = (IF first THEN p ELSE g.size + p) =>
                r = State(IF z < g.size THEN CutChain(f, g.first, z) ELSE f, d,
                          EntryOf(e, Sized(g, z)), Sized(g, z), p, "OKAY")
    BY <1>3, <1>10, WriteNodeIs
  <2>2. r = State(IF size < w.h.size THEN CutChain(w.fat, w.h.first, size) ELSE w.fat, w.data,
                  EntryOf(w.entry, Sized(w.h, size)), Sized(w.h, size), L, "OKAY")
    BY <1>14, <1>15, <2>1
  <2> QED  BY <1>14, <2>2
<1> HIDE DEF h2, f2, e2
<1>17. r.fat = f2 /\ r.data = w.data /\ r.entry = e2 /\ r.h = h2
  BY <1>16, StateParts
<1>18. /\ h2 \in FATNode /\ h2.node = old.node /\ h2.mode = old.mode /\ h2.size = size
       /\ e2 = EntryOf(entry, h2)
       /\ size = Position(old) + L /\ ~IsFirstWrite(h2)
       /\ \E ch3, len3 : /\ Written(ch, len, old.node, size, e2, f2, h2, ch3, len3)
                        /\ BytesGood(old, data, ch, len, bytes, L, w.data, ch3[old.node])
  <2>1. /\ h2 = Sized(w.h, size) /\ e2 = EntryOf(w.entry, h2)
        /\ f2 = (IF size < old.size THEN CutChain(w.fat, w.h.first, size) ELSE w.fat)
    BY DEF h2, e2, f2
  <2>2. WriterOK(old, ch[old.node], len[n])
    BY <1>7 DEF n
  <2>3. size = IF IsFirstWrite(old) THEN L ELSE old.size + L
    BY DEF size, first
  <2>4. size <= MaxSize
    BY <1>2
  <2>5. LoopLeft(old, entry, data, bytes, L, ch, len, len[n], w, size)
    BY <1>3, <1>4, <1>8, <1>13, <2>2, <2>3, <2>4 DEF LoopLeft, first
  <2> QED  BY ONLY <2>1, <2>5, WriteEnds
<1>19. PICK ch3, len3 : /\ Written(ch, len, old.node, h2.size, e2, f2, h2, ch3, len3)
                        /\ BytesGood(old, data, ch, len, bytes, L, w.data, ch3[old.node])
  BY <1>18
<1>20. WriteIsDone(ch, len, h, bytes, h2, ch3, len3)
  <2>1. fat' = f2 /\ entry' = e2 /\ data' = w.data
    BY <1>2, <1>17
  <2>2. node' = [node EXCEPT ![h] = h2] /\ refs' = refs
    BY <1>2, <1>17
  <2>3. Written(ch, len, old.node, h2.size, entry', fat', h2, ch3, len3)
    BY <1>19, <2>1
  <2>4. BytesGood(old, data, ch, len, bytes, L, data', ch3[old.node])
    BY <1>19, <2>1
  <2>5. entry' = EntryOf(entry, h2) /\ data' \in [Cluster -> [1 .. ClusterSize -> 0 .. MaxSize]]
    BY <1>14, <1>18, <2>1
  <2>6. h2.size = Position(old) + L
    BY <1>18
  <2> QED  BY <1>18, <2>2, <2>3, <2>4, <2>5, <2>6 DEF WriteIsDone, old, L
<1> QED  BY <1>2, <1>3, <1>4, <1>20 DEF old, n, L

LEMMA WriteOK ==
    ASSUME Plain, IInv, NEW h \in Handle, NEW bytes \in Buffer, Write(h, bytes)
    PROVE  IInv'
<1>1. PICK ch, len : VolumeOK(entry, fat, node, ch, len)
  BY DEF IInv
<1>2. node[h] # None /\ node[h].node \in File /\ node[h].mode # "READ"
  BY <1>1, WriteIs
<1>3. PICK v, ch3, len3 : WriteIsDone(ch, len, h, bytes, v, ch3, len3)
  BY <1>1, WriteIs
<1>4. /\ v \in FATNode /\ v.node = node[h].node /\ v.mode = node[h].mode
      /\ Written(ch, len, node[h].node, v.size, entry', fat', v, ch3, len3)
      /\ entry' = EntryOf(entry, v) /\ node' = [node EXCEPT ![h] = v] /\ refs' = refs
      /\ data' \in [Cluster -> [1 .. ClusterSize -> 0 .. MaxSize]]
  BY <1>3 DEF WriteIsDone
<1> QED  BY <1>1, <1>2, <1>4, WriterMoves

---------------------------------------------------------------------------
(* The volume seen as files *)

\* Only a directory has nodes below it.
LEMMA BelowIsDirectory ==
    ASSUME NEW n \in Node, NEW dir, IsBelow(n, dir)
    PROVE  dir \in Directory \cup {Root}
<1> DEFINE Turn(p) == IF p = Root THEN Root ELSE Parent[p]
           start == Parent[n]
           C == Cardinality(Directory)
           Eq(m, g) == [k \in 0 .. m |-> IF k = 0 THEN start ELSE Turn(g[k - 1])]
           up == CHOOSE g : g = Eq(C, g)
           Dirs == Directory \cup {Root}
<1>1. dir \in {up[k] : k \in DOMAIN up}
  BY DEF IsBelow
<1>2. C \in Nat
  BY FileConstants, FS_CardinalityType
<1>3. start \in Dirs /\ \A p \in Dirs : Turn(p) \in Dirs
  BY FileConstants DEF Node
<1> HIDE DEF start, Turn, C, Dirs
<1>4. \A m \in Nat : \E g : g = Eq(m, g)
  <2> DEFINE Bad == {m \in Nat : ~ \E g : g = Eq(m, g)}
  <2> SUFFICES ASSUME Bad # {}  PROVE FALSE
    OBVIOUS
  <2>1. PICK m \in Bad : \A j \in Bad : m <= j
    BY Smallest
  <2>2. m # 0
    <3> DEFINE g == [k \in 0 .. 0 |-> start]
    <3>1. g = Eq(0, g)
      OBVIOUS
    <3> HIDE DEF g
    <3> QED  BY <2>1, <3>1
  <2>3. m - 1 \in Nat /\ m - 1 \notin Bad
    <3>1. m \in Nat
      OBVIOUS
    <3> HIDE DEF Bad
    <3> QED  BY <2>1, <2>2, <3>1
  <2>4. PICK g : g = Eq(m - 1, g)
    BY <2>3
  <2> DEFINE g2 == [k \in 0 .. m |-> IF k < m THEN g[k] ELSE Turn(g[m - 1])]
  <2>5. \A k \in 0 .. m - 1 : g[k] = IF k = 0 THEN start ELSE Turn(g[k - 1])
    BY <2>4
  <2>6. \A k \in 0 .. m : g2[k] = IF k = 0 THEN start ELSE Turn(g2[k - 1])
    <3> SUFFICES ASSUME NEW k \in 0 .. m  PROVE g2[k] = IF k = 0 THEN start ELSE Turn(g2[k - 1])
      OBVIOUS
    <3>1. CASE k < m
      <4>1. k \in 0 .. m - 1 /\ g2[k] = g[k]
        BY <2>3, <3>1
      <4>2. k # 0 => k - 1 \in 0 .. m /\ k - 1 < m
        BY <3>1
      <4>3. k # 0 => g2[k - 1] = g[k - 1]
        BY <4>2
      <4> QED  BY <2>5, <4>1, <4>3
    <3>2. CASE k = m
      <4>1. m - 1 \in 0 .. m /\ m - 1 < m
        BY <2>3
      <4>2. g2[m - 1] = g[m - 1]
        BY <4>1
      <4> QED  BY <2>2, <3>2, <4>2
    <3> QED  BY <3>1, <3>2
  <2>7. g2 = Eq(m, g2)
    <3>1. DOMAIN g2 = 0 .. m /\ g2 = [k \in 0 .. m |-> g2[k]]
      OBVIOUS
    <3> HIDE DEF g2
    <3> QED  BY <2>6, <3>1
  <2> HIDE DEF g2
  <2> QED  BY <2>1, <2>7
<1>5. up = Eq(C, up)
  <2>1. \E g : g = Eq(C, g)
    BY <1>2, <1>4
  <2> HIDE DEF Eq
  <2> QED  BY <2>1
<1> HIDE DEF up
<1>6. DOMAIN up = 0 .. C /\ \A k \in 0 .. C : up[k] = IF k = 0 THEN start ELSE Turn(up[k - 1])
  BY <1>5
<1> HIDE DEF Eq
<1>7. \A k \in 0 .. C : up[k] \in Dirs
  <2> DEFINE Bad == {k \in 0 .. C : up[k] \notin Dirs}
  <2> SUFFICES ASSUME Bad # {}  PROVE FALSE
    OBVIOUS
  <2>1. PICK m \in Bad : \A j \in Bad : m <= j
    <3>1. Bad \in SUBSET Nat
      OBVIOUS
    <3> HIDE DEF Bad
    <3> QED  BY <3>1, Smallest
  <2>2. m # 0
    BY <1>3, <1>6
  <2>3. m - 1 \in 0 .. C /\ m - 1 \notin Bad
    <3>1. m \in 0 .. C
      OBVIOUS
    <3> HIDE DEF Bad
    <3> QED  BY <1>2, <2>1, <2>2, <3>1
  <2> QED  BY <1>3, <1>6, <2>2, <2>3
<1> QED  BY <1>1, <1>6, <1>7 DEF Dirs

\* The variables of FileStore, as Store has them.
Bytes == [n \in Node |-> IF entry[n] = None THEN None
                         ELSE IF n \in File THEN Content(n) ELSE << >>]
Opened == [h \in Handle |-> IF node[h] = None THEN None
                            ELSE [node |-> node[h].node, mode |-> node[h].mode,
                                  fresh |-> IsFirstWrite(node[h])]]
Doomed == {n \in Node : refs[n] # None /\ refs[n].del}

\* The values of these variables for one node, and for one handle.
BytesOn(e, f, d, n) ==
    IF e[n] = None THEN None ELSE IF n \in File THEN ContentOn(e, f, d, n) ELSE << >>
OpenedAs(v) ==
    IF v = None THEN None ELSE [node |-> v.node, mode |-> v.mode, fresh |-> IsFirstWrite(v)]

LEMMA BytesAre ==
    /\ Bytes = [n \in Node |-> BytesOn(entry, fat, data, n)]
    /\ Bytes' = [n \in Node |-> BytesOn(entry', fat', data', n)]
<1>1. \A n \in Node : Content(n) = ContentOn(entry, fat, data, n)
  BY DEF Content, ContentOn, ChainOf
<1>2. \A n \in Node : Content(n)' = ContentOn(entry', fat', data', n)
  BY DEF Content, ContentOn, ChainOf
<1>3. Bytes = [n \in Node |-> BytesOn(entry, fat, data, n)]
  BY <1>1 DEF Bytes, BytesOn
<1>4. Bytes' = [n \in Node |-> BytesOn(entry', fat', data', n)]
  BY <1>2 DEF Bytes, BytesOn
<1> QED  BY <1>3, <1>4

LEMMA OpenedAre ==
    /\ Opened = [h \in Handle |-> OpenedAs(node[h])]
    /\ Opened' = [h \in Handle |-> OpenedAs(node'[h])]
BY DEF Opened, OpenedAs, IsFirstWrite

\* An open node as FileStore has it.
OpenNodeIs(o, v) == o # None /\ o.node = v.node /\ o.mode = v.mode /\ o.fresh = IsFirstWrite(v)

LEMMA OpenedIs ==
    ASSUME NEW v \in FATNode
    PROVE  OpenNodeIs(OpenedAs(v), v)
<1>1. v # None /\ v.node \in Node /\ v.mode \in {"READ", "WRITE", "APPEND"}
  BY NoneFacts DEF FATNode
<1> DEFINE fresh == IsFirstWrite(v)
<1>2. fresh \in BOOLEAN
  BY DEF IsFirstWrite
<1>3. OpenedAs(v) = [node |-> v.node, mode |-> v.mode, fresh |-> fresh]
  BY <1>1 DEF OpenedAs
<1> HIDE DEF fresh
<1>4. [node |-> v.node, mode |-> v.mode, fresh |-> fresh] # None
  BY <1>1, <1>2, NoneIsNoContent
<1> QED  BY <1>3, <1>4 DEF OpenNodeIs, fresh

\* The entry, the chain and the bytes of the node m are as they were.
Untouched(e, f, d, ch, len, m, e2, f2, d2) ==
    /\ e \in [Node -> Entry \cup {None}] /\ Layout(e, f, ch, len) /\ len[m] = Needed(e, m)
    /\ e2[m] = e[m] /\ f2 \in FAT /\ (e[m] # None => IsChain(f2, e[m].first, ch[m], len[m]))
    /\ \A i \in 1 .. len[m] : d2[ch[m][i]] = d[ch[m][i]]

\* What FileStore sees of a node does not change with the clusters of other nodes.
LEMMA BytesKept ==
    ASSUME NEW e, NEW f, NEW d, NEW ch, NEW len, NEW m \in Node, NEW e2, NEW f2, NEW d2,
           Untouched(e, f, d, ch, len, m, e2, f2, d2)
    PROVE  BytesOn(e2, f2, d2, m) = BytesOn(e, f, d, m)
<1> USE DEF Untouched
<1>1. CASE e[m] = None \/ m \notin File
  BY <1>1 DEF BytesOn
<1>2. CASE e[m] # None /\ m \in File
  <2> DEFINE size == e[m].size
             q == ch[m]
  <2>1. size \in Nat
    BY <1>2, Sizes DEF Entry
  <2>2. len[m] = Clusters(size)
    BY <1>2 DEF Needed
  <2>3. /\ f \in FAT /\ q \in [Nat -> Cluster]
        /\ IsChain(f, e[m].first, q, Clusters(size)) /\ IsChain(f2, e2[m].first, q, Clusters(size))
    BY <1>2, <2>2, LayoutIsChain
  <2>4. size = e[m].size /\ size = e2[m].size
    OBVIOUS
  <2>5. \A i \in 1 .. Clusters(size) : d2[q[i]] = d[q[i]]
    BY <2>2
  <2> HIDE DEF q, size
  <2>6. ContentOn(e, f, d, m) = [i \in 1 .. size |-> ByteAt(d, q, i)]
    BY <2>1, <2>3, <2>4, ContentOnIs
  <2>7. ContentOn(e2, f2, d2, m) = [i \in 1 .. size |-> ByteAt(d2, q, i)]
    BY ONLY f2 \in FAT, <2>1, <2>3, <2>4, ContentOnIs
  <2>8. \A i \in 1 .. size : ByteAt(d2, q, i) = ByteAt(d, q, i)
    <3> SUFFICES ASSUME NEW i \in 1 .. size  PROVE ByteAt(d2, q, i) = ByteAt(d, q, i)
      OBVIOUS
    <3>1. i \in Nat /\ i > 0 /\ i <= size
      BY <2>1
    <3>2. Clusters(i) \in Nat /\ Clusters(i) > 0 /\ Clusters(i) <= Clusters(size) /\ Clusters(size) \in Nat
      BY <2>1, <3>1, ClustersHold, ClustersGrow
    <3>3. d2[q[Clusters(i)]] = d[q[Clusters(i)]]
      BY <2>5, <3>2
    <3> QED  BY <3>3 DEF ByteAt
  <2>9. ContentOn(e, f, d, m) = ContentOn(e2, f2, d2, m)
    BY <2>6, <2>7, <2>8
  <2> QED  BY <2>9 DEF BytesOn
<1> QED  BY <1>1, <1>2

\* A node that exists has content.
LEMMA BytesTyped ==
    ASSUME IInv, NEW m \in Node
    PROVE  /\ Bytes[m] # None <=> entry[m] # None
           /\ entry[m] # None => Bytes[m] \in Seq(0 .. MaxSize)
<1>1. PICK ch, len : VolumeOK(entry, fat, node, ch, len)
  BY DEF IInv
<1>2. Bytes[m] = BytesOn(entry, fat, data, m)
  BY BytesAre
<1>3. CASE entry[m] = None
  BY <1>2, <1>3 DEF BytesOn
<1>4. CASE entry[m] # None /\ m \notin File
  <2>1. Bytes[m] = << >>
    BY <1>2, <1>4 DEF BytesOn
  <2>2. << >> \in Seq(0 .. MaxSize)
    OBVIOUS
  <2> QED  BY <1>4, <2>1, <2>2, NoneIsNoContent
<1>5. CASE entry[m] # None /\ m \in File
  <2> DEFINE size == entry[m].size
             q == ch[m]
  <2>1. size \in Nat /\ len[m] = Clusters(size) /\ data \in [Cluster -> [1 .. ClusterSize -> 0 .. MaxSize]]
    BY <1>1, <1>5, Parts, Sizes DEF VolumeOK, Needed
  <2>2. fat \in FAT /\ q \in [Nat -> Cluster] /\ IsChain(fat, entry[m].first, q, Clusters(size))
    BY <1>1, <1>5, <2>1, LayoutIsChain DEF VolumeOK
  <2>3. Bytes[m] = [i \in 1 .. size |-> ByteAt(data, q, i)]
    BY <1>2, <1>5, <2>1, <2>2, ContentOnIs DEF BytesOn
  <2> HIDE DEF size, q
  <2>4. \A i \in 1 .. size : ByteAt(data, q, i) \in 0 .. MaxSize
    <3> SUFFICES ASSUME NEW i \in 1 .. size  PROVE ByteAt(data, q, i) \in 0 .. MaxSize
      OBVIOUS
    <3>1. i \in Nat /\ i > 0
      BY <2>1
    <3> DEFINE c == Clusters(i)
               b == (c - 1) * ClusterSize
    <3>2. c \in Nat /\ i <= c * ClusterSize /\ b < i /\ c > 0
      BY <3>1, ClustersHold
    <3> HIDE DEF c
    <3>3. b \in Int /\ c * ClusterSize = b + ClusterSize
      BY <3>2, ClusterSizeNat
    <3> HIDE DEF b
    <3>4. i - b \in 1 .. ClusterSize
      BY <3>1, <3>2, <3>3, ClusterSizeNat
    <3>5. data[q[c]][i - b] \in 0 .. MaxSize
      BY <2>1, <2>2, <3>2, <3>4
    <3> QED  BY <3>5 DEF ByteAt, b, c
  <2>5. Bytes[m] \in [1 .. size -> 0 .. MaxSize]
    BY <2>3, <2>4
  <2>6. Bytes[m] \in Seq(0 .. MaxSize)
    BY <2>1, <2>5, FunctionIsSeq
  <2> QED  BY <1>5, <2>6, NoneIsNoContent
<1> QED  BY <1>3, <1>4, <1>5

LEMMA BytesStay ==
    ASSUME entry' = entry, fat' = fat, data' = data
    PROVE  Bytes' = Bytes
BY BytesAre

\* FATNode::read() and seek() do nothing a user of the files can see.
LEMMA ReaderUnseen ==
    ASSUME IInv, NEW ch, NEW len, NEW h \in Handle, CursorMoves(ch, len, h)
    PROVE  Bytes' = Bytes /\ Opened' = Opened /\ Doomed' = Doomed
<1>1. PICK v : SameFile(v, node[h]) /\ node' = [node EXCEPT ![h] = v]
  BY DEF CursorMoves
<1>2. node[h] # None /\ node[h].mode = "READ" /\ UNCHANGED <<entry, fat, data, refs>>
  BY DEF CursorMoves
<1>3. Bytes' = Bytes /\ Doomed' = Doomed
  BY <1>2, BytesStay DEF Doomed
<1>4. node'[h] = v /\ \A k \in Handle : k # h => node'[k] = node[k]
  BY <1>1, Parts
<1>5. v # None /\ v.node = node[h].node /\ v.mode = node[h].mode
  BY <1>1, NoneFacts DEF SameFile
<1>6. OpenedAs(v) = OpenedAs(node[h])
  BY <1>2, <1>5 DEF OpenedAs, IsFirstWrite
<1>7. Opened' = Opened
  BY <1>4, <1>6, OpenedAre
<1> QED  BY <1>3, <1>7

\* VFSModule::open() of an existing node.
LEMMA OpenIsOpen ==
    ASSUME IInv, IInv', NEW h \in Handle, NEW n \in Node,
           NEW mode \in {"READ", "WRITE", "APPEND"}, OpenNode(h, n, mode)
    PROVE  Store!Open(h, n, mode)
<1>1. PICK ch, len : VolumeOK(entry, fat, node, ch, len)
  BY DEF IInv
<1> DEFINE cursor == InitFileCursor(fat, entry[n].first, entry[n].size, mode)
           v == [node |-> n, mode |-> mode, first |-> entry[n].first, size |-> entry[n].size,
                 proc |-> cursor.proc, cur |-> cursor.cur, off |-> cursor.off]
<1>2. /\ node[h] = None /\ entry[n] # None /\ node' = [node EXCEPT ![h] = v]
      /\ entry' = entry /\ fat' = fat /\ data' = data
      /\ n \in Directory => mode = "READ"
      /\ refs' = [refs EXCEPT ![n] = IF refs[n] = None THEN [count |-> 1, del |-> FALSE]
                                     ELSE [count |-> refs[n].count + 1, del |-> refs[n].del]]
  BY DEF OpenNode
<1>3. mode = "WRITE" => cursor.proc = 0 /\ cursor.off = 0
  BY DEF InitFileCursor
<1>4. v \in FATNode
  <2>1. n \notin File => mode = "READ"
    BY <1>2 DEF Node
  <2>2. entry[n] \in Entry /\ Layout(entry, fat, ch, len) /\ len[n] = Needed(entry, n)
    BY <1>1, <1>2, Parts DEF VolumeOK
  <2> HIDE DEF cursor
  <2>3. cursor = InitFileCursor(fat, entry[n].first, entry[n].size, mode)
    BY DEF cursor
  <2> QED  BY <1>2, <2>1, <2>2, <2>3, NewCursorOK
<1>5. v.node = n /\ v.mode = mode /\ v.proc = cursor.proc /\ v.off = cursor.off
  OBVIOUS
<1> HIDE DEF v, cursor
<1> DEFINE o == [node |-> n, mode |-> mode, fresh |-> mode = "WRITE"]
<1>6. OpenedAs(v) = o
  <2>1. v # None
    BY <1>4, NoneFacts
  <2>2. IsFirstWrite(v) <=> mode = "WRITE"
    BY <1>3, <1>5 DEF IsFirstWrite
  <2>3. IsFirstWrite(v) = (mode = "WRITE")
    BY <2>2 DEF IsFirstWrite
  <2> QED  BY <1>5, <2>1, <2>3 DEF OpenedAs
<1>7. node'[h] = v /\ \A k \in Handle : k # h => node'[k] = node[k]
  BY <1>2, Parts
<1>8. Opened[h] = None
  BY <1>2, OpenedAre DEF OpenedAs
<1>9. Opened' = [Opened EXCEPT ![h] = o]
  <2> HIDE DEF o
  <2> QED  BY <1>6, <1>7, OpenedAre
<1>10. Bytes' = Bytes /\ Bytes[n] # None
  BY <1>2, BytesStay, BytesTyped
<1>11. Doomed' = Doomed
  <2>1. \A m \in Node : m # n => refs'[m] = refs[m]
    BY <1>2, Parts
  <2>2. HandlesOf(node', n) # {}
    BY <1>4, <1>5, <1>7, NoneFacts DEF HandlesOf
  <2>3. refs'[n] # None
    BY <2>2 DEF IInv, RefsOK
  <2>4. refs[n] = None => ~refs'[n].del
    BY <1>2, Parts
  <2>5. refs[n] # None => refs'[n].del = refs[n].del
    BY <1>2, Parts
  <2> QED  BY <2>1, <2>3, <2>4, <2>5 DEF Doomed
<1> HIDE DEF o
<1>12. Store!Open(h, n, mode)
  BY <1>8, <1>9, <1>10, <1>11 DEF Store!Open, Bytes, Opened, Doomed, o
<1> QED  BY <1>12

LEMMA ChainKept ==
    ASSUME NEW e, NEW f, NEW ch, NEW len, Layout(e, f, ch, len), NEW m \in Node, e[m] # None,
           NEW f2, \A i \in 1 .. len[m] : f2[ch[m][i]] = f[ch[m][i]]
    PROVE  IsChain(f2, e[m].first, ch[m], len[m])
<1>1. len[m] \in Nat /\ IsChain(f, e[m].first, ch[m], len[m])
  BY LayoutIsChain
<1> DEFINE k == len[m]
           q == ch[m]
           first == e[m].first
<1> HIDE DEF k, q, first
<1>2. IsChain(f, first, q, k) /\ k \in Nat /\ \A i \in 1 .. k : f2[q[i]] = f[q[i]]
  BY <1>1 DEF k, q, first
<1>3. IsChain(f2, first, q, k)
  BY <1>2 DEF IsChain
<1> QED  BY <1>3 DEF k, q, first

LEMMA FatTyped ==
    ASSUME IInv'
    PROVE  fat' \in FAT
<1>1. PICK ch2, len2 : VolumeOK(entry', fat', node', ch2, len2)
  BY DEF IInv
<1> QED  BY <1>1 DEF VolumeOK, Layout

\* An empty file.
LEMMA EmptyContent ==
    ASSUME NEW e, NEW f \in FAT, NEW d, NEW n, e[n].first = 0, e[n].size = 0
    PROVE  ContentOn(e, f, d, n) = << >>
<1> DEFINE q == [i \in Nat |-> 2]
<1>1. q \in [Nat -> Cluster]
  BY Sizes
<1>2. Clusters(0) = 0
  BY ClustersHold
<1>3. IsChain(f, e[n].first, q, Clusters(0))
  BY <1>2 DEF IsChain
<1> HIDE DEF q
<1>4. ContentOn(e, f, d, n) = [i \in 1 .. 0 |-> ByteAt(d, q, i)]
  BY <1>1, <1>3, ContentOnIs
<1> QED  BY <1>4

\* FATDriver::create_file() and create_directory().
LEMMA CreateIsCreate ==
    ASSUME IInv, IInv', NEW n \in Node, Create(n)
    PROVE  Store!Create(n)
<1>1. PICK ch, len : VolumeOK(entry, fat, node, ch, len)
  BY DEF IInv
<1>2. Layout(entry, fat, ch, len) /\ \A m \in Node : len[m] = Needed(entry, m)
  BY <1>1 DEF VolumeOK
<1> DEFINE c == IF n \in Directory THEN Min(FreeClusters(fat)) ELSE 0
           v == [first |-> c, size |-> 0]
<1>3. /\ entry[n] = None /\ (n \in Directory => FreeClusters(fat) # {})
      /\ entry' = [entry EXCEPT ![n] = v]
      /\ fat' = IF c = 0 THEN fat ELSE [fat EXCEPT ![c] = Eof]
      /\ data' = data /\ node' = node /\ refs' = refs
  BY DEF Create
<1>4. n \in Directory => c \in Cluster /\ fat[c] = 0
  <2>1. FreeClusters(fat) \in SUBSET Nat
    BY Sizes DEF FreeClusters
  <2>2. n \in Directory => c \in FreeClusters(fat)
    BY <1>3, <2>1, MinIsMember
  <2> HIDE DEF c
  <2> QED  BY <2>2 DEF FreeClusters
<1>5. n \in File => c = 0
  BY FileConstants
<1>6. v.first = c /\ v.size = 0 /\ v \in Entry
  <2>1. c \in {0} \cup Cluster
    BY <1>4
  <2> HIDE DEF c
  <2> QED  BY <2>1, Sizes DEF Entry
<1> HIDE DEF v, c
<1>7. entry'[n] = v /\ v # None /\ \A m \in Node : m # n => entry'[m] = entry[m]
  BY <1>3, <1>6, Parts, NoneFacts
<1>8. fat' \in FAT
  BY FatTyped
<1>9. BytesOn(entry', fat', data', n) = << >>
  <2>1. CASE n \in File
    <3>1. ContentOn(entry', fat', data', n) = << >>
      BY <1>5, <1>6, <1>7, <1>8, <2>1, EmptyContent
    <3> QED  BY <1>7, <2>1, <3>1 DEF BytesOn
  <2>2. CASE n \notin File
    BY <1>7, <2>2 DEF BytesOn
  <2> QED  BY <2>1, <2>2
<1>10. ASSUME NEW m \in Node, m # n
       PROVE  BytesOn(entry', fat', data', m) = BytesOn(entry, fat, data, m)
  <2>1. \A i \in 1 .. len[m] : fat'[ch[m][i]] = fat[ch[m][i]]
    <3> SUFFICES ASSUME NEW i \in 1 .. len[m]  PROVE fat'[ch[m][i]] = fat[ch[m][i]]
      OBVIOUS
    <3>1. ch[m][i] \in Cluster /\ fat[ch[m][i]] # 0
      BY <1>2 DEF Layout
    <3>2. c # 0 => fat[c] = 0 /\ c \in Cluster
      BY <1>4, <1>5 DEF Node
    <3>3. fat \in FAT
      BY <1>2 DEF Layout
    <3> QED  BY <1>3, <3>1, <3>2, <3>3 DEF FAT
  <2>2. entry[m] # None => IsChain(fat', entry[m].first, ch[m], len[m])
    BY <1>2, <2>1, ChainKept
  <2>3. entry'[m] = entry[m] /\ len[m] = Needed(entry, m) /\ \A i \in 1 .. len[m] : data'[ch[m][i]] = data[ch[m][i]]
    BY <1>2, <1>3, <1>7, <1>10
  <2>4. entry \in [Node -> Entry \cup {None}]
    BY Parts
  <2>5. Untouched(entry, fat, data, ch, len, m, entry', fat', data')
    BY <1>2, <1>8, <2>2, <2>3, <2>4 DEF Untouched
  <2> QED  BY <2>5, BytesKept
<1>11. Bytes' = [Bytes EXCEPT ![n] = << >>]
  BY <1>9, <1>10, BytesAre
<1>12. Bytes[n] = None
  BY <1>3, BytesTyped
<1>13. Opened' = Opened /\ Doomed' = Doomed
  BY <1>3, OpenedAre DEF Doomed
<1> QED  BY <1>11, <1>12, <1>13 DEF Store!Create, Bytes, Opened, Doomed

\* delete_file(), and delete_directory() with the nodes below.
LEMMA RemoveIsRemove ==
    ASSUME IInv, IInv', NEW ch, NEW len, VolumeOK(entry, fat, node, ch, len),
           NEW n \in Node, entry[n] # None, NEW gone, gone = DeletedWith(n),
           entry' = [m \in Node |-> IF m \in gone THEN None ELSE entry[m]],
           fat' = Freed(fat, ch, len, gone), data' = data
    PROVE  Bytes' = [m \in Node |-> IF m = n \/ IsBelow(m, n) THEN None ELSE Bytes[m]]
<1>1. Layout(entry, fat, ch, len) /\ \A m \in Node : len[m] = Needed(entry, m)
  BY DEF VolumeOK
<1>2. gone \in SUBSET Node /\ \A m \in gone : entry[m] # None
  BY DEF DeletedWith
<1>3. fat' = Freed(fat, ch, len, gone)
  OBVIOUS
<1>4. fat' \in FAT
  BY FatTyped
<1>5. ASSUME NEW m \in Node, m \notin gone
      PROVE  BytesOn(entry', fat', data', m) = BytesOn(entry, fat, data, m)
  <2>1. \A i \in 1 .. len[m] : fat'[ch[m][i]] = fat[ch[m][i]]
    <3> SUFFICES ASSUME NEW i \in 1 .. len[m]  PROVE fat'[ch[m][i]] = fat[ch[m][i]]
      OBVIOUS
    <3>1. ch[m][i] \in Cluster
      BY <1>1 DEF Layout
    <3>2. ~ \E x \in gone : \E j \in 1 .. len[x] : ch[m][i] = ch[x][j]
      BY <1>1, <1>2, <1>5 DEF Layout
    <3> QED  BY <1>3, <3>1, <3>2 DEF Freed
  <2>2. entry[m] # None => IsChain(fat', entry[m].first, ch[m], len[m])
    BY <1>1, <2>1, ChainKept
  <2>3. entry'[m] = entry[m] /\ len[m] = Needed(entry, m) /\ \A i \in 1 .. len[m] : data'[ch[m][i]] = data[ch[m][i]]
    BY <1>1, <1>5
  <2>4. entry \in [Node -> Entry \cup {None}]
    BY Parts
  <2>5. Untouched(entry, fat, data, ch, len, m, entry', fat', data')
    BY <1>1, <1>4, <2>2, <2>3, <2>4 DEF Untouched
  <2> QED  BY <2>5, BytesKept
<1>6. ASSUME NEW m \in Node
      PROVE  BytesOn(entry', fat', data', m) =
                IF m = n \/ IsBelow(m, n) THEN None ELSE BytesOn(entry, fat, data, m)
  <2>1. CASE m \in gone
    <3>1. m = n \/ IsBelow(m, n)
      BY <2>1 DEF DeletedWith
    <3>2. entry'[m] = None
      BY <2>1
    <3> QED  BY <3>1, <3>2 DEF BytesOn
  <2>2. CASE m \notin gone
    <3>1. m # n /\ (IsBelow(m, n) => entry[m] = None)
      BY <2>2 DEF DeletedWith
    <3>2. IsBelow(m, n) => BytesOn(entry, fat, data, m) = None
      BY <3>1 DEF BytesOn
    <3> QED  BY <1>5, <2>2, <3>1, <3>2
  <2> QED  BY <2>1, <2>2
<1> QED  BY <1>6, BytesAre

LEMMA OpenedFacts ==
    ASSUME IInv, NEW h \in Handle
    PROVE  /\ Opened[h] # None <=> node[h] # None
           /\ node[h] # None => OpenNodeIs(Opened[h], node[h])
<1>1. Opened[h] = OpenedAs(node[h])
  BY OpenedAre
<1>2. node[h] # None => OpenNodeIs(Opened[h], node[h])
  BY <1>1, Parts, OpenedIs
<1> QED  BY <1>1, <1>2 DEF OpenNodeIs, OpenedAs

\* VFSModule::delete_node() of a node nobody has open.
LEMMA NodeIsDeleted ==
    ASSUME NEW ch, NEW len, Layout(entry, fat, ch, len), NEW n \in Node, entry[n] # None,
           NEW r, DeleteNode(r, n), r[n] = None, MayDelete(r, n),
           NEW gone, gone = DeletedWith(n)
    PROVE  /\ entry' = [m \in Node |-> IF m \in gone THEN None ELSE entry[m]]
           /\ fat' = Freed(fat, ch, len, gone) /\ refs' = r
<1>1. /\ entry' = [m \in Node |-> IF m \in gone THEN None ELSE entry[m]]
      /\ fat' = FoldSet(LAMBDA m, f : FreeChain(f, entry[m].first), fat, gone)
      /\ refs' = r
  BY DEF DeleteNode
<1>2. gone \in SUBSET Node /\ \A m \in gone : entry[m] # None
  BY DEF DeletedWith
<1>3. FoldSet(LAMBDA m, f : FreeChain(f, entry[m].first), fat, gone) = Freed(fat, ch, len, gone)
  BY <1>2, FoldFrees
<1> QED  BY <1>1, <1>3

\* A delete of a node: it goes, or it is marked while it is open, or a node below it
\* is open and nothing happens.
LEMMA DeleteIsSeen ==
    ASSUME IInv, IInv', NEW n \in Node, Delete(n)
    PROVE  \/ Store!Delete(n)
           \/ Store!Doom(n)
           \/ Bytes' = Bytes /\ Opened' = Opened /\ Doomed' = Doomed
<1>1. PICK ch, len : VolumeOK(entry, fat, node, ch, len)
  BY DEF IInv
<1>2. entry[n] # None /\ DeleteNode(refs, n) /\ data' = data /\ node' = node
  BY DEF Delete
<1>3. Opened' = Opened
  BY <1>2, OpenedAre
<1>4. CASE refs[n] = None /\ MayDelete(refs, n)
  <2> DEFINE gone == DeletedWith(n)
  <2>1. Layout(entry, fat, ch, len)
    BY <1>1 DEF VolumeOK
  <2> HIDE DEF gone
  <2>2. gone = DeletedWith(n)
    BY DEF gone
  <2>3. /\ entry' = [m \in Node |-> IF m \in gone THEN None ELSE entry[m]]
        /\ fat' = Freed(fat, ch, len, gone) /\ refs' = refs
    BY <1>2, <1>4, <2>1, <2>2, NodeIsDeleted
  <2>4. Bytes' = [m \in Node |-> IF m = n \/ IsBelow(m, n) THEN None ELSE Bytes[m]]
    BY <1>1, <1>2, <2>2, <2>3, RemoveIsRemove
  <2>5. Bytes[n] # None /\ Doomed' = Doomed
    BY <1>2, <2>3, BytesTyped DEF Doomed
  <2>6. ASSUME NEW h \in Handle, Opened[h] # None
        PROVE  Opened[h].node # n /\ ~IsBelow(Opened[h].node, n)
    <3>1. node[h] # None /\ Opened[h].node = node[h].node
      BY <2>6, OpenedFacts DEF OpenNodeIs
    <3>2. node[h].node \in Node
      BY <3>1, Parts
    <3>3. HandlesOf(node, node[h].node) # {}
      BY <3>1 DEF HandlesOf
    <3>4. refs[node[h].node] # None
      BY <3>2, <3>3 DEF IInv, RefsOK
    <3> QED  BY <1>4, <3>1, <3>2, <3>4 DEF MayDelete
  <2>7. Store!Remove(n)
    BY <2>4 DEF Store!Remove, Bytes
  <2>8. Store!Delete(n)
    BY <1>3, <2>5, <2>6, <2>7 DEF Store!Delete, Bytes, Opened, Doomed
  <2> QED  BY <2>8
<1>5. CASE refs[n] = None /\ ~MayDelete(refs, n)
  <2>1. refs' = refs /\ entry' = entry /\ fat' = fat
    BY <1>2, <1>5 DEF DeleteNode
  <2> QED  BY <1>2, <1>3, <2>1, BytesStay DEF Doomed
<1>6. CASE refs[n] # None
  <2>1. /\ refs' = [refs EXCEPT ![n] = [count |-> refs[n].count, del |-> TRUE]]
        /\ entry' = entry /\ fat' = fat
    BY <1>2, <1>6 DEF DeleteNode
  <2>2. Bytes' = Bytes
    BY <1>2, <2>1, BytesStay
  <2>3. HandlesOf(node, n) # {}
    BY <1>6 DEF IInv, RefsOK
  <2>4. \E h \in Handle : Opened[h] # None /\ Opened[h].node = n
    <3>1. PICK h \in Handle : node[h] # None /\ node[h].node = n
      BY <2>3 DEF HandlesOf
    <3> QED  BY <3>1, OpenedFacts DEF OpenNodeIs
  <2>5. Doomed' = Doomed \cup {n}
    <3>1. refs'[n] # None
      BY <1>2, <2>3 DEF IInv, RefsOK
    <3>2. refs'[n].del /\ \A m \in Node : m # n => refs'[m] = refs[m]
      BY <2>1, Parts
    <3> QED  BY <3>1, <3>2 DEF Doomed
  <2>6. Store!Doom(n)
    BY <1>3, <2>2, <2>4, <2>5 DEF Store!Doom, Bytes, Opened, Doomed
  <2> QED  BY <2>6
<1> QED  BY <1>4, <1>5, <1>6

\* Node::close() and the callback of open(): the last handle of a file that was deleted
\* takes it with it.
LEMMA CloseIsClose ==
    ASSUME IInv, IInv', NEW h \in Handle, Close(h), node[h].node \in File
    PROVE  Store!Close(h)
<1>1. PICK ch, len : VolumeOK(entry, fat, node, ch, len)
  BY DEF IInv
<1> DEFINE n == node[h].node
           last == refs[n].count = 1
           r == [refs EXCEPT ![n] = None]
<1>2. /\ node[h] # None /\ node' = [node EXCEPT ![h] = None] /\ data' = data
      /\ IF last /\ refs[n].del THEN DeleteNode(r, n)
         ELSE /\ refs' = [refs EXCEPT ![n] = IF last THEN None
                                             ELSE [count |-> refs[n].count - 1, del |-> refs[n].del]]
              /\ entry' = entry /\ fat' = fat
  BY DEF Close, Open
<1>3. n \in Node /\ entry[n] # None
  BY <1>2, Parts DEF IInv, NodesOK
<1>4. node'[h] = None /\ \A k \in Handle : k # h => node'[k] = node[k]
  BY <1>2, Parts
<1>5. OneMore(node', node, n)
  BY <1>2, <1>4, OneMoreHandle
<1>6. n \in File
  OBVIOUS
<1>7. Opened[h] # None /\ Opened[h].node = n
  BY <1>2, OpenedFacts DEF OpenNodeIs
<1>8. /\ r[n] = None /\ \A m \in Node : m # n => r[m] = refs[m]
  BY <1>3, Parts
<1> HIDE DEF n
<1>9. refs[n] # None /\ refs[n].count = Cardinality(HandlesOf(node, n))
  BY <1>3, <1>5 DEF IInv, RefsOK, OneMore
<1>10. last <=> HandlesOf(node', n) = {}
  BY <1>5, <1>9 DEF OneMore
<1>11. HandlesOf(node', n) = {} <=> ~\E k \in Handle \ {h} : Opened[k] # None /\ Opened[k].node = n
  <2>1. \A k \in Handle : (Opened[k] # None /\ Opened[k].node = n) <=> (node[k] # None /\ node[k].node = n)
    BY OpenedFacts DEF OpenNodeIs
  <2> QED  BY <1>4, <2>1 DEF HandlesOf
<1> HIDE DEF r, last
<1>12. Opened' = [Opened EXCEPT ![h] = None]
  BY <1>4, OpenedAre DEF OpenedAs
<1>13. CASE last /\ refs[n].del
  <2>1. MayDelete(r, n)
    <3>1. n \notin Directory \cup {Root}
      BY <1>6, FileConstants
    <3> QED  BY <3>1, BelowIsDirectory DEF MayDelete
  <2> DEFINE gone == DeletedWith(n)
  <2>2. Layout(entry, fat, ch, len) /\ DeleteNode(r, n) /\ r[n] = None
    BY <1>1, <1>2, <1>8, <1>13 DEF VolumeOK
  <2> HIDE DEF gone
  <2>3. gone = DeletedWith(n)
    BY DEF gone
  <2>4. /\ entry' = [m \in Node |-> IF m \in gone THEN None ELSE entry[m]]
        /\ fat' = Freed(fat, ch, len, gone) /\ refs' = r
    BY <1>3, <2>1, <2>2, <2>3, NodeIsDeleted
  <2>5. Bytes' = [m \in Node |-> IF m = n \/ IsBelow(m, n) THEN None ELSE Bytes[m]]
    BY <1>1, <1>2, <1>3, <2>3, <2>4, RemoveIsRemove
  <2>6. n \in Doomed /\ Doomed' = Doomed \ {n}
    BY <1>3, <1>8, <1>9, <1>13, <2>4 DEF Doomed
  <2> DEFINE o == Opened[h].node
  <2>7. Bytes' = [m \in Node |-> IF m = o \/ IsBelow(m, o) THEN None ELSE Bytes[m]]
    BY <1>7, <2>5
  <2>8. o \in Doomed /\ ~\E k \in Handle \ {h} : Opened[k] # None /\ Opened[k].node = o
    BY <1>7, <1>10, <1>11, <1>13, <2>6
  <2>9. Doomed' = Doomed \ {o}
    BY <1>7, <2>6
  <2> QED  BY <1>7, <1>12, <2>7, <2>8, <2>9 DEF Store!Close, Store!Remove, Bytes, Opened, Doomed
<1>14. CASE ~(last /\ refs[n].del)
  <2>1. /\ refs' = [refs EXCEPT ![n] = IF last THEN None
                                      ELSE [count |-> refs[n].count - 1, del |-> refs[n].del]]
        /\ entry' = entry /\ fat' = fat
    BY <1>2, <1>14
  <2>2. Bytes' = Bytes
    BY <1>2, <2>1, BytesStay
  <2>3. \A m \in Node : m # n => refs'[m] = refs[m]
    BY <2>1, Parts
  <2>4. last => refs'[n] = None /\ n \notin Doomed
    BY <1>3, <1>14, <2>1, Parts DEF Doomed
  <2>5. ~last => refs'[n].del = refs[n].del
    BY <1>3, <2>1, Parts
  <2>6. ~last => refs'[n] # None
    BY <1>3, <1>10 DEF IInv, RefsOK
  <2>7. Doomed' = Doomed
    BY <1>9, <2>3, <2>4, <2>5, <2>6 DEF Doomed
  <2>8. ~(n \in Doomed /\ last)
    BY <2>4
  <2> QED  BY <1>7, <1>10, <1>11, <1>12, <2>2, <2>7, <2>8 DEF Store!Close, Bytes, Opened, Doomed
<1> QED  BY <1>13, <1>14

\* A write of the L bytes of the buffer behind p bytes of a file whose chain is q then:
\* c is what the file has before the cursor.
Appends(old, d0, ch, len, bytes, L, d, q, p, size, c) ==
    /\ L \in Nat /\ bytes \in [1 .. L -> 0 .. MaxSize] /\ q \in [Nat -> Cluster]
    /\ BytesGood(old, d0, ch, len, bytes, L, d, q)
    /\ p \in Nat /\ p = Position(old) /\ size = p + L
    /\ c \in Seq(0 .. MaxSize) /\ Len(c) = p
    /\ \A i \in 1 .. p : c[i] = ByteAt(d0, ch[old.node], i)

\* The content of the file behind a write: what was before the cursor, and the buffer.
LEMMA WrittenContent ==
    ASSUME NEW old, NEW d0, NEW ch, NEW len, NEW bytes, NEW L, NEW d, NEW q, NEW p, NEW size, NEW c,
           Appends(old, d0, ch, len, bytes, L, d, q, p, size, c)
    PROVE  [i \in 1 .. size |-> ByteAt(d, q, i)] = c \o bytes
<1> USE DEF Appends
<1> DEFINE c2 == [i \in 1 .. size |-> ByteAt(d, q, i)]
<1> DEFINE S == 0 .. MaxSize
<1>1. c \in Seq(S) /\ bytes \in Seq(S) /\ Len(bytes) = L
  BY FunctionIsSeq
<1> DEFINE j == c \o bytes
<1> HIDE DEF S
<1>2. /\ j \in Seq(S) /\ Len(j) = p + L
      /\ \A i \in 1 .. p : j[i] = c[i]
      /\ \A i \in 1 .. L : j[p + i] = bytes[i]
  <2>1. Len(c) = p /\ p \in Nat /\ L \in Nat
    OBVIOUS
  <2> HIDE DEF Appends
  <2>2. /\ c \o bytes \in Seq(S) /\ Len(c \o bytes) = Len(c) + Len(bytes)
        /\ \A i \in 1 .. Len(c) : (c \o bytes)[i] = c[i]
        /\ \A i \in 1 .. Len(bytes) : (c \o bytes)[Len(c) + i] = bytes[i]
    BY ONLY <1>1
  <2> HIDE DEF j
  <2>3. /\ j \in Seq(S) /\ Len(j) = Len(c) + Len(bytes)
        /\ \A i \in 1 .. Len(c) : j[i] = c[i]
        /\ \A i \in 1 .. Len(bytes) : j[Len(c) + i] = bytes[i]
    BY <2>2 DEF j
  <2> QED  BY <1>1, <2>1, <2>3
<1> HIDE DEF j
<1>3. /\ \A i \in 1 .. p : ByteAt(d, q, i) = ByteAt(d0, ch[old.node], i)
      /\ \A i \in 1 .. L : ByteAt(d, q, p + i) = bytes[i]
  BY DEF BytesGood
<1>4. \A i \in 1 .. size : c2[i] = j[i]
  <2> SUFFICES ASSUME NEW i \in 1 .. size  PROVE c2[i] = j[i]
    OBVIOUS
  <2>1. c2[i] = ByteAt(d, q, i)
    OBVIOUS
  <2>2. CASE i <= p
    <3>1. i \in 1 .. p
      BY <2>2
    <3> QED  BY <1>2, <1>3, <2>1, <3>1
  <2>3. CASE i > p
    <3> DEFINE k == i - p
    <3>1. k \in 1 .. L /\ i = p + k
      BY <2>3
    <3> HIDE DEF k
    <3>2. ByteAt(d, q, p + k) = bytes[k] /\ j[p + k] = bytes[k]
      BY <1>2, <1>3, <3>1
    <3> QED  BY <2>1, <3>1, <3>2
  <2> QED  BY <2>2, <2>3
<1>5. j \in [1 .. size -> S]
  <2>1. Len(j) = size
    BY <1>2
  <2> HIDE DEF Appends
  <2> QED  BY <1>2, <2>1
<1>6. c2 = [i \in 1 .. size |-> j[i]]
  <2>1. DOMAIN c2 = 1 .. size /\ c2 = [i \in 1 .. size |-> c2[i]]
    OBVIOUS
  <2> QED  BY <1>4, <2>1
<1>7. j = [i \in 1 .. size |-> j[i]]
  BY <1>5
<1> QED  BY <1>6, <1>7 DEF j

\* FATNode::write(): the first write replaces the file, the others append to it, and no
\* other file changes.
LEMMA WriteIsWrite ==
    ASSUME Plain, IInv, NEW h \in Handle, NEW bytes \in Buffer, Write(h, bytes)
    PROVE  Store!Write(h, bytes)
<1>1. PICK ch, len : VolumeOK(entry, fat, node, ch, len)
  BY DEF IInv
<1>2. /\ node[h] # None /\ node[h].node \in File /\ node[h].mode # "READ"
      /\ Len(bytes) \in Nat /\ bytes \in [1 .. Len(bytes) -> 0 .. MaxSize]
      /\ \E v, ch3, len3 : WriteIsDone(ch, len, h, bytes, v, ch3, len3)
  BY <1>1, WriteIs
<1>3. PICK v, ch3, len3 : WriteIsDone(ch, len, h, bytes, v, ch3, len3)
  BY <1>2
<1> DEFINE old == node[h]
           n == old.node
           L == Len(bytes)
           p == Position(old)
           first == IsFirstWrite(old)
<1>4. /\ v \in FATNode /\ v.node = n /\ v.mode = old.mode /\ v.size = p + L /\ ~IsFirstWrite(v)
      /\ Written(ch, len, n, v.size, entry', fat', v, ch3, len3)
      /\ BytesGood(old, data, ch, len, bytes, L, data', ch3[n])
      /\ entry' = EntryOf(entry, v) /\ node' = [node EXCEPT ![h] = v] /\ refs' = refs
  BY <1>3 DEF WriteIsDone
<1>5. n \in Node /\ old \in FATNode /\ p \in Nat /\ entry \in [Node -> Entry \cup {None}]
  BY <1>2, Parts, PositionNat
<1>6. entry[n] # None /\ old.size = entry[n].size
  BY <1>2 DEF IInv, NodesOK
<1>7. /\ Layout(entry, fat, ch, len) /\ \A m \in Node : len[m] = Needed(entry, m)
      /\ WriterOK(old, ch[n], len[n])
  BY <1>1, <1>2 DEF VolumeOK, CursorOK
<1>8. p = IF first THEN 0 ELSE old.size
  BY <1>7 DEF WriterOK
<1>9. /\ Layout(entry', fat', ch3, len3) /\ len3[n] = Clusters(v.size)
      /\ \A m \in Node : m # n => ch3[m] = ch[m] /\ len3[m] = len[m]
  BY <1>4 DEF Written
<1>10. fat' \in FAT
  BY <1>9 DEF Layout
<1> HIDE DEF old, n, L, p, first
<1>11. /\ entry'[n] # None /\ entry'[n].size = v.size /\ v.size \in Nat
       /\ \A m \in Node : m # n => entry'[m] = entry[m]
  <2>1. v.size \in Nat
    BY <1>4, PositionNat
  <2> QED  BY <1>4, <1>5, <2>1, EntryIs
<1>12. ASSUME NEW m \in Node, m # n
       PROVE  BytesOn(entry', fat', data', m) = BytesOn(entry, fat, data, m)
  <2>1. entry[m] # None => IsChain(fat', entry[m].first, ch[m], len[m])
    <3>1. entry'[m] = entry[m] /\ ch3[m] = ch[m] /\ len3[m] = len[m]
      BY <1>9, <1>11, <1>12
    <3>2. entry'[m] # None => IsChain(fat', entry'[m].first, ch3[m], len3[m])
      BY <1>9, LayoutIsChain
    <3> QED  BY <3>1, <3>2
  <2>2. \A i \in 1 .. len[m] : data'[ch[m][i]] = data[ch[m][i]]
    BY <1>4, <1>12 DEF BytesGood, n
  <2>3. Untouched(entry, fat, data, ch, len, m, entry', fat', data')
    BY <1>5, <1>7, <1>10, <1>11, <1>12, <2>1, <2>2 DEF Untouched
  <2> QED  BY <2>3, BytesKept
<1> DEFINE q == ch3[n]
           c2 == BytesOn(entry', fat', data', n)
           size == v.size
<1>13. c2 = [i \in 1 .. size |-> ByteAt(data', q, i)] /\ q \in [Nat -> Cluster]
  <2>1. q \in [Nat -> Cluster] /\ IsChain(fat', entry'[n].first, q, Clusters(size))
    BY <1>5, <1>9, <1>11, LayoutIsChain
  <2>2. c2 = ContentOn(entry', fat', data', n)
    BY <1>2, <1>11 DEF BytesOn, n, old
  <2>3. size \in Nat /\ size = entry'[n].size
    BY <1>11
  <2> HIDE DEF size, q, c2
  <2>4. ContentOn(entry', fat', data', n) = [i \in 1 .. size |-> ByteAt(data', q, i)]
    BY <1>10, <2>1, <2>3, ContentOnIs
  <2> QED  BY <2>1, <2>2, <2>4
<1>14. /\ Bytes[n] \in Seq(0 .. MaxSize) /\ Bytes[n] = [i \in 1 .. old.size |-> ByteAt(data, ch[n], i)]
       /\ old.size \in Nat
  <2>1. old.size \in Nat
    BY <1>5, PositionNat
  <2>2. Bytes[n] \in Seq(0 .. MaxSize)
    BY <1>5, <1>6, BytesTyped
  <2>3. len[n] = Clusters(entry[n].size)
    BY <1>2, <1>5, <1>6, <1>7 DEF Needed, n, old
  <2>4. Content(n) = [i \in 1 .. entry[n].size |-> ByteAt(data, ch[n], i)]
    BY <1>5, <1>6, <1>7, <2>1, <2>3, ContentIs
  <2>5. Bytes[n] = Content(n)
    BY <1>2, <1>5, <1>6 DEF Bytes, n, old
  <2> QED  BY <1>6, <2>1, <2>2, <2>4, <2>5
<1> DEFINE c == IF first THEN << >> ELSE Bytes[n]
<1>15. c \in Seq(0 .. MaxSize) /\ Len(c) = p /\ \A i \in 1 .. p : c[i] = ByteAt(data, ch[n], i)
  <2>1. CASE first
    BY <1>8, <2>1
  <2>2. CASE ~first
    <3>1. p = old.size /\ c = Bytes[n]
      BY <1>8, <2>2
    <3> HIDE DEF c
    <3>2. Len(Bytes[n]) = old.size
      BY <1>14
    <3> QED  BY <1>14, <3>1, <3>2
  <2> QED  BY <2>1, <2>2
<1> HIDE DEF c, c2, q, size
<1>16. c2 = c \o bytes
  <2>1. L \in Nat /\ bytes \in [1 .. L -> 0 .. MaxSize]
    BY <1>2 DEF L
  <2>2. BytesGood(old, data, ch, len, bytes, L, data', q) /\ p = Position(old) /\ size = p + L
    BY <1>4 DEF q, p, size
  <2>3. \A i \in 1 .. p : c[i] = ByteAt(data, ch[old.node], i)
    BY <1>15 DEF n
  <2>4. Appends(old, data, ch, len, bytes, L, data', q, p, size, c)
    BY <1>5, <1>13, <1>15, <2>1, <2>2, <2>3 DEF Appends
  <2>5. [i \in 1 .. size |-> ByteAt(data', q, i)] = c \o bytes
    BY ONLY <2>4, WrittenContent
  <2> QED  BY <1>13, <2>5
<1>17. c2 = IF first THEN bytes ELSE Bytes[n] \o bytes
  <2>1. bytes \in Seq(0 .. MaxSize)
    BY <1>2, FunctionIsSeq
  <2>2. first => c2 = bytes
    BY <1>16, <2>1 DEF c
  <2> QED  BY <1>16, <2>2 DEF c
<1>18. OpenNodeIs(Opened[h], old)
  BY <1>2, OpenedFacts DEF old
<1>19. Opened[h] # None /\ Opened[h].mode # "READ" /\ Opened[h].node = n /\ Opened[h].fresh = first
  BY <1>2, <1>18 DEF OpenNodeIs, n, old, first
<1>20. Bytes' = [Bytes EXCEPT ![n] = IF first THEN bytes ELSE Bytes[n] \o bytes]
  <2> DEFINE x == IF first THEN bytes ELSE Bytes[n] \o bytes
  <2>1. \A m \in Node : BytesOn(entry', fat', data', m) = IF m = n THEN x ELSE BytesOn(entry, fat, data, m)
    BY <1>12, <1>17 DEF c2
  <2> HIDE DEF x
  <2>2. Bytes' = [Bytes EXCEPT ![n] = x]
    BY <2>1, BytesAre
  <2> QED  BY <2>2 DEF x
<1>21. Opened' = [Opened EXCEPT ![h].fresh = FALSE]
  <2> DEFINE no == FALSE
             o == [Opened[h] EXCEPT !.fresh = no]
  <2>1. node'[h] = v /\ \A k \in Handle : k # h => node'[k] = node[k]
    BY <1>4, Parts
  <2>2. OpenedAs(v) = [node |-> v.node, mode |-> v.mode, fresh |-> no]
    <3>1. v # None
      BY <1>4, NoneFacts
    <3>2. IsFirstWrite(v) = FALSE
      BY <1>4
    <3> QED  BY <3>1, <3>2 DEF OpenedAs
  <2>3. Opened[h] = [node |-> old.node, mode |-> old.mode, fresh |-> first]
    BY <1>2, OpenedAre DEF OpenedAs, old, first
  <2> HIDE DEF no
  <2>4. OpenedAs(v) = o
    BY <1>4, <2>2, <2>3 DEF n
  <2> HIDE DEF o
  <2>5. Opened' = [Opened EXCEPT ![h] = o]
    BY <2>1, <2>4, OpenedAre
  <2> QED  BY <2>5 DEF o, no
<1>22. Doomed' = Doomed
  BY <1>4 DEF Doomed
<1>23. Bytes' = [Bytes EXCEPT ![Opened[h].node] =
                    IF Opened[h].fresh THEN bytes ELSE Bytes[Opened[h].node] \o bytes]
  BY <1>19, <1>20
<1> QED  BY <1>19, <1>21, <1>22, <1>23 DEF Store!Write, Bytes, Opened, Doomed

\* A handle is one of a file, unless users open directories.
OnlyFiles == \A h \in Handle : node[h] # None => node[h].node \in File

LEMMA OnlyFilesOK ==
    ASSUME Uses = {}, IInv, OnlyFiles, [Next]_vars
    PROVE  OnlyFiles'
<1>1. Plain
  BY DEF Plain
<1>2. PICK ch, len : VolumeOK(entry, fat, node, ch, len)
  BY DEF IInv
<1>3. node \in [Handle -> FATNode \cup {None}]
  BY Parts
<1>4. ASSUME NEW h \in Handle, NEW v, node' = [node EXCEPT ![h] = v], v # None => v.node \in File
      PROVE  OnlyFiles'
  <2>1. node'[h] = v /\ \A k \in Handle : k # h => node'[k] = node[k]
    BY <1>3, <1>4
  <2> QED  BY <1>4, <2>1 DEF OnlyFiles
<1>5. ASSUME node' = node  PROVE OnlyFiles'
  BY <1>5 DEF OnlyFiles
<1>6. ASSUME NEW h \in Handle, CursorMoves(ch, len, h)  PROVE OnlyFiles'
  <2>1. PICK v : SameFile(v, node[h]) /\ node' = [node EXCEPT ![h] = v]
    BY <1>6 DEF CursorMoves
  <2>2. v.node \in File
    BY <1>6, <2>1 DEF CursorMoves, SameFile
  <2> QED  BY <1>4, <2>1, <2>2
<1>7. ASSUME NEW n \in Node, Create(n) \/ Delete(n)  PROVE OnlyFiles'
  BY <1>5, <1>7 DEF Create, Delete
<1>8. ASSUME NEW h \in Handle, NEW n \in Node, NEW mode \in {"READ", "WRITE", "APPEND"},
             OpenNode(h, n, mode)
      PROVE  OnlyFiles'
  <2>1. n \in File
    BY <1>8 DEF OpenNode, Node
  <2>2. PICK k : k = InitFileCursor(fat, entry[n].first, entry[n].size, mode)
    OBVIOUS
  <2> DEFINE v == [node |-> n, mode |-> mode, first |-> entry[n].first, size |-> entry[n].size,
                   proc |-> k.proc, cur |-> k.cur, off |-> k.off]
  <2>3. node' = [node EXCEPT ![h] = v]
    BY <1>8, <2>2 DEF OpenNode
  <2>4. v.node = n
    OBVIOUS
  <2> HIDE DEF v
  <2> QED  BY <1>4, <2>1, <2>3, <2>4
<1>9. ASSUME NEW h \in Handle, Close(h)  PROVE OnlyFiles'
  <2>1. node' = [node EXCEPT ![h] = None]
    BY <1>9 DEF Close
  <2> QED  BY <1>4, <2>1
<1>10. ASSUME NEW h \in Handle, NEW bytes \in Buffer, Write(h, bytes)  PROVE OnlyFiles'
  <2>1. node[h].node \in File /\ \E v, ch3, len3 : WriteIsDone(ch, len, h, bytes, v, ch3, len3)
    BY <1>1, <1>2, <1>10, WriteIs
  <2>2. PICK v, ch3, len3 : WriteIsDone(ch, len, h, bytes, v, ch3, len3)
    BY <2>1
  <2>3. v.node = node[h].node /\ node' = [node EXCEPT ![h] = v]
    BY <2>2 DEF WriteIsDone
  <2> QED  BY <1>4, <2>1, <2>3
<1>11. ASSUME NEW h \in Handle, NEW k \in 1 .. MaxSize, Read(h, k)  PROVE OnlyFiles'
  BY <1>1, <1>2, <1>6, <1>11, ReadMoves
<1>12. ASSUME NEW h \in Handle, NEW to \in 0 .. MaxSize, Seek(h, to)  PROVE OnlyFiles'
  BY <1>1, <1>2, <1>6, <1>12, SeekMoves
<1>13. CASE UNCHANGED vars
  BY <1>5, <1>13 DEF vars
<1> QED  BY <1>7, <1>8, <1>9, <1>10, <1>11, <1>12, <1>13 DEF Next

\* Each step is one of FileStore, or nothing its users can see.
LEMMA StoreStep ==
    ASSUME Uses = {}, IInv, IInv', OnlyFiles, [Next]_vars
    PROVE  Store!Next \/ (Bytes' = Bytes /\ Opened' = Opened /\ Doomed' = Doomed)
<1>1. Plain
  BY DEF Plain
<1>2. PICK ch, len : VolumeOK(entry, fat, node, ch, len)
  BY DEF IInv
<1> DEFINE Goal == Store!Next \/ (Bytes' = Bytes /\ Opened' = Opened /\ Doomed' = Doomed)
<1>3. ASSUME NEW n \in Node, Create(n)  PROVE Goal
  <2>1. Store!Create(n)
    BY <1>3, CreateIsCreate
  <2> QED  BY <2>1 DEF Store!Next
<1>4. ASSUME NEW n \in Node, Delete(n)  PROVE Goal
  <2>1. \/ Store!Delete(n)
        \/ Store!Doom(n)
        \/ Bytes' = Bytes /\ Opened' = Opened /\ Doomed' = Doomed
    BY <1>4, DeleteIsSeen
  <2> QED  BY <2>1 DEF Store!Next
<1>5. ASSUME NEW h \in Handle, NEW n \in Node, NEW mode \in {"READ", "WRITE", "APPEND"},
             OpenNode(h, n, mode)
      PROVE  Goal
  <2>1. Store!Open(h, n, mode)
    BY <1>5, OpenIsOpen
  <2> QED  BY <2>1 DEF Store!Next
<1>6. ASSUME NEW h \in Handle, Close(h)  PROVE Goal
  <2>1. node[h].node \in File
    BY <1>6 DEF OnlyFiles, Close, Open
  <2>2. Store!Close(h)
    BY <1>6, <2>1, CloseIsClose
  <2> QED  BY <2>2 DEF Store!Next
<1>7. ASSUME NEW h \in Handle, NEW bytes \in Buffer, Write(h, bytes)  PROVE Goal
  <2>1. Store!Write(h, bytes)
    BY <1>1, <1>7, WriteIsWrite
  <2> QED  BY <2>1 DEF Store!Next
<1>8. ASSUME NEW h \in Handle, NEW k \in 1 .. MaxSize, Read(h, k)  PROVE Goal
  <2>1. CursorMoves(ch, len, h)
    BY <1>1, <1>2, <1>8, ReadMoves
  <2> QED  BY <2>1, ReaderUnseen
<1>9. ASSUME NEW h \in Handle, NEW to \in 0 .. MaxSize, Seek(h, to)  PROVE Goal
  <2>1. CursorMoves(ch, len, h)
    BY <1>1, <1>2, <1>9, SeekMoves
  <2> QED  BY <2>1, ReaderUnseen
<1>10. CASE UNCHANGED vars
  BY <1>10, BytesStay, OpenedAre DEF vars, Doomed
<1>11. CASE Next
  <2>1. \/ \E n \in Node : Create(n) \/ Delete(n)
        \/ \E h \in Handle, n \in Node, mode \in {"READ", "WRITE", "APPEND"} : OpenNode(h, n, mode)
        \/ \E h \in Handle : Close(h)
        \/ \E h \in Handle, bytes \in Buffer : Write(h, bytes)
        \/ \E h \in Handle, k \in 1 .. MaxSize : Read(h, k)
        \/ \E h \in Handle, to \in 0 .. MaxSize : Seek(h, to)
    BY <1>11 DEF Next
  <2> HIDE DEF Goal
  <2>2. Goal
    BY <1>3, <1>4, <1>5, <1>6, <1>7, <1>8, <1>9, <2>1
  <2> QED  BY <2>2 DEF Goal
<1> QED  BY <1>10, <1>11

---------------------------------------------------------------------------
(* The theorems *)

LEMMA NextOK ==
    ASSUME Plain, IInv, [Next]_vars
    PROVE  IInv'
<1>1. CASE UNCHANGED vars
  BY <1>1 DEF IInv, VolumeOK, Typed, NodesOK, RefsOK, HandlesOf, vars
<1>2. ASSUME NEW n \in Node, Create(n)  PROVE IInv'
  BY <1>2, CreateOK
<1>3. ASSUME NEW n \in Node, Delete(n)  PROVE IInv'
  BY <1>3, DeleteOK
<1>4. ASSUME NEW h \in Handle, NEW n \in Node, NEW mode \in {"READ", "WRITE", "APPEND"},
             OpenNode(h, n, mode)
      PROVE  IInv'
  BY <1>4, OpenOK
<1>5. ASSUME NEW h \in Handle, Close(h)  PROVE IInv'
  BY <1>5, CloseOK
<1>6. ASSUME NEW h \in Handle, NEW bytes \in Buffer, Write(h, bytes)  PROVE IInv'
  BY <1>6, WriteOK
<1>7. ASSUME NEW h \in Handle, NEW k \in 1 .. MaxSize, Read(h, k)  PROVE IInv'
  BY <1>7, ReadOK
<1>8. ASSUME NEW h \in Handle, NEW to \in 0 .. MaxSize, Seek(h, to)  PROVE IInv'
  BY <1>8, SeekOK
<1> QED  BY <1>1, <1>2, <1>3, <1>4, <1>5, <1>6, <1>7, <1>8 DEF Next

LEMMA AlwaysIInv == Plain => (Spec => []IInv)
<1> SUFFICES ASSUME Plain  PROVE Spec => []IInv
  OBVIOUS
<1>1. Init => IInv
  BY InitOK
<1>2. IInv /\ [Next]_vars => IInv'
  BY NextOK
<1> QED  BY <1>1, <1>2, PTL DEF Spec

\* The volume, the open nodes and the reference counts keep their types in the plain
\* uses, and the cursor of an open file is on a cluster unless the file is empty or a
\* reader is at its very end
\* (FATNode::write(), read(), seek(), init_file_cursor(), VFSModule::open()).
THEOREM FilesTyped == Plain => (Spec => []FilesTypeOK)
<1> SUFFICES ASSUME Plain  PROVE Spec => []FilesTypeOK
  OBVIOUS
<1>1. Spec => []IInv
  BY AlwaysIInv
<1> QED  BY <1>1, TypeFollows, PTL

\* However files are created, written, cut, appended to and deleted in the plain uses,
\* with handles open or not: the FAT holds for each node one chain, as long as its size asks for and of
\* its own, and every other cluster is free (FATNode::write(), allocate_cluster(),
\* delete_file(), create_directory()).
THEOREM ChainsAlwaysMatch == Plain => (Spec => []ChainsMatchFiles)
<1> SUFFICES ASSUME Plain  PROVE Spec => []ChainsMatchFiles
  OBVIOUS
<1>1. Spec => []IInv
  BY AlwaysIInv
<1> QED  BY <1>1, ChainsFollow, PTL

\* In the plain uses a reader gets the bytes of the file from its cursor on, for every
\* size of a cluster, of the file and of the buffer, wherever reads and seeks have left
\* the cursor
\* (FATNode::read(), seek()).
THEOREM ReadsAreExact == Plain => (Spec => []ReadIsExact)
<1> SUFFICES ASSUME Plain  PROVE Spec => []ReadIsExact
  OBVIOUS
<1>1. Spec => []IInv
  BY AlwaysIInv
<1> QED  BY <1>1, ReadExact, PTL

\* In the plain uses a node that is open exists, and its reference count is the number
\* of its handles: no delete takes the clusters of an open node (VFSModule::open(), delete_node() and
\* the callback of close()).
THEOREM OpenNodesExist == Plain => (Spec => []OpenNodeExists)
<1> SUFFICES ASSUME Plain  PROVE Spec => []OpenNodeExists
  OBVIOUS
<1>1. Spec => []IInv
  BY AlwaysIInv
<1> QED  BY <1>1, OpenFollows, PTL

\* To its users the volume is FileStore, for every tree of nodes, every size of clusters
\* and files and any number of handles, as long as they keep to the plain uses: each
\* write replaces the file or appends the whole buffer to it and leaves every other
\* file alone, and a file deleted while it is open goes with its last handle
\* (FATNode::write(), VFSModule::delete_node() and the callback of open()).
THEOREM StoreIsImplemented == Uses = {} => (Spec => ImplementsStore)
<1> SUFFICES ASSUME Uses = {}  PROVE Spec => ImplementsStore
  OBVIOUS
<1>1. Init => Store!Init
  <2>1. SUFFICES ASSUME Init  PROVE Store!Init
    OBVIOUS
  <2>2. Bytes = [n \in Node |-> None] /\ Opened = [h \in Handle |-> None] /\ Doomed = {}
    BY <2>1 DEF Init, Bytes, Opened, Doomed
  <2> QED  BY <2>2 DEF Store!Init, Bytes, Opened, Doomed
<1>2. Init => OnlyFiles
  BY DEF Init, OnlyFiles
<1>3. IInv /\ OnlyFiles /\ [Next]_vars => OnlyFiles'
  BY OnlyFilesOK
<1>4. IInv /\ IInv' /\ OnlyFiles /\ [Next]_vars => [Store!Next]_<<Bytes, Opened, Doomed>>
  BY StoreStep
<1>5. Spec => []IInv
  BY AlwaysIInv DEF Plain
<1> QED  BY <1>1, <1>2, <1>3, <1>4, <1>5, PTL
         DEF Spec, ImplementsStore, Store!Spec, Store!vars, Bytes, Opened, Doomed

=============================================================================
