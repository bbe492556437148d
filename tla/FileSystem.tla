----------------------------- MODULE FileSystem -----------------------------
(***************************************************************************)
(* The virtual file system and the FAT driver: directory entries, the FAT  *)
(* with its chains of clusters, open nodes with their cursor and their own *)
(* copy of the entry, reference counts and the deletion of open nodes.     *)
(*                                                                         *)
(* Each call is one step: the code holds no lock, and the model has no two *)
(* calls at once.  The volume is mounted at "/".  Names and attributes of  *)
(* entries, the second copy of the FAT and errors of the device are left   *)
(* out; a directory is one cluster.                                        *)
(***************************************************************************)
EXTENDS Integers, SequencesExt, FiniteSetsExt

CONSTANTS
    File, Directory,    \* the nodes that may exist below the root directory
    Root,
    Parent,             \* the directory a node lies in
    Handle,             \* node handles
    None,
    VolumeClusters,     \* the clusters of the volume, 2 and up; 2 is the root directory
    ClusterSize,
    MaxSize,            \* bound: the size of a file
    Uses                \* what users do beyond the plain uses, see Quirk

Quirk == {"aligned",        \* shrink a file to a multiple of the cluster size
          "share",          \* open a file again that is open for writing
          "full",           \* write although the volume may be full
          "seek",           \* read, or move the cursor, before a write
          "directory"}      \* open a directory as a node

ASSUME FileConstants ==
    /\ {VolumeClusters, ClusterSize, MaxSize} \subseteq Nat \ {0}
    /\ Root \notin File \cup Directory /\ File \cap Directory = {}
    /\ Parent \in [File \cup Directory -> Directory \cup {Root}]
    /\ Uses \subseteq Quirk
    /\ IsFiniteSet(File) /\ IsFiniteSet(Directory) /\ IsFiniteSet(Handle)

Node == File \cup Directory
Cluster == 2 .. VolumeClusters + 1
Eof == VolumeClusters + 2       \* any number above the clusters of the volume

\* A file entry, a node of the node table and a row of the reference counts.
Entry == [first : {0} \cup Cluster, size : 0 .. MaxSize]
FATNode == [node : Node, mode : {"READ", "WRITE", "APPEND"},
            first : {0} \cup Cluster, size : 0 .. MaxSize,
            proc : Nat, cur : {0, Eof} \cup Cluster, off : 0 .. ClusterSize]
References == [count : 1 .. Cardinality(Handle), del : BOOLEAN]

ASSUME NoneIsNoRecord == None \notin Entry \cup FATNode \cup References

\* Neither is it the content of a file or an open node as FileStore has them.
ASSUME NoneIsNoContent ==
    /\ None \notin Seq(0 .. MaxSize)
    /\ None \notin [node : Node, mode : {"READ", "WRITE", "APPEND"}, fresh : BOOLEAN]

VARIABLES
    entry,      \* the file entries on the volume: [first, size], or None
    fat,        \* 0 is free
    data,       \* the bytes of each cluster
    node,       \* _node_table: the open nodes
    refs        \* _node_ref_table: [count, del]

vars == <<entry, fat, data, node, refs>>

---------------------------------------------------------------------------
(* The FAT *)

\* The clusters from first on, in the order of the FAT.
Chain(f, first) ==
    LET next == [c \in 0 .. Eof |-> IF c \in Cluster THEN f[c] ELSE Eof]
        at[k \in 1 .. VolumeClusters] == IF k = 1 THEN first ELSE next[at[k - 1]]
        len == Cardinality({k \in 1 .. VolumeClusters : at[k] \in Cluster})
    IN  [k \in 1 .. len |-> at[k]]

FreeClusters(f) == {c \in Cluster : f[c] = 0}

FreeChain(f, first) ==
    LET chain == ToSet(Chain(f, first)) IN [c \in Cluster |-> IF c \in chain THEN 0 ELSE f[c]]

Clusters(size) == (size + ClusterSize - 1) \div ClusterSize

KeepsExcess(f, first, size) == f

\* The end of FATNode::write() when the file has shrunk.
CutChain(f, first, size) ==
    LET chain == Chain(f, first)
        excess == ToSet(SubSeq(chain, Clusters(size) + 1, Len(chain)))
    IN  [c \in Cluster |-> IF c \in excess THEN 0
                           ELSE IF c = chain[Clusters(size)] THEN Eof
                           ELSE f[c]]

---------------------------------------------------------------------------
(* FATNode.  s = [fat, data, entry, h, ...] is what a call works on, h the node. *)

\* FileEntryManager::update()
Update(s) == [s EXCEPT !.entry[s.h.node] = [first |-> s.h.first, size |-> s.h.size]]

\* FileEntryManager::allocate_cluster(): the entry of an empty file, or the FAT
\* entry of the last cluster, points to the free cluster.
Link(s, free) ==
    IF s.h.cur = 0
    THEN Update([s EXCEPT !.h.first = free, !.fat[free] = Eof, !.h.cur = free])
    ELSE [s EXCEPT !.fat = [@ EXCEPT ![s.h.cur] = free, ![free] = Eof], !.h.cur = free]

CursorBehindCluster(f, first, size, mode) ==
    LET chain == Chain(f, first)
    IN  IF mode = "APPEND"
        THEN [proc |-> Len(chain), cur |-> IF chain = << >> THEN first ELSE Last(chain),
              off |-> size - Len(chain) * ClusterSize]
        ELSE [proc |-> 0, cur |-> first, off |-> 0]

\* The cursor of a new FATNode.
InitFileCursor(f, first, size, mode) ==
    LET chain == Chain(f, first)
        processed == IF size % ClusterSize # 0 THEN Len(chain) - 1 ELSE Len(chain)
    IN  IF mode = "APPEND"
        THEN [proc |-> processed, cur |-> IF chain = << >> THEN first ELSE Last(chain),
              off |-> size - processed * ClusterSize]
        ELSE [proc |-> 0, cur |-> first, off |-> 0]

IsFirstWrite(h) == h.mode = "WRITE" /\ h.proc = 0 /\ h.off = 0

\* The bytes of a cluster after the part of the buffer that starts at pos was copied.
Copied(old, h, first, bytes, pos, n) ==
    [i \in 1 .. ClusterSize |->
        IF i \in h.off + 1 .. h.off + n THEN bytes[pos + i - h.off]
        ELSE IF first /\ i > n THEN 0
        ELSE old[i]]

NeedsCluster(h) == h.cur = 0 \/ h.proc >= Clusters(h.size)

\* The cursor behind n more bytes of a cluster; it stays on the last cluster.
Advance(f, h, n) ==
    IF h.off + n < ClusterSize THEN [h EXCEPT !.off = @ + n]
    ELSE [h EXCEPT !.off = 0, !.proc = @ + 1, !.cur = IF f[@] = Eof THEN @ ELSE f[@]]

\* The part of the buffer that fits into the cluster; first: is_first_write and WRITE.
CopyBytes(s, bytes, first) ==
    LET n == Min({Len(bytes) - s.pos, ClusterSize - s.h.off})
    IN  [s EXCEPT !.data[s.h.cur] = Copied(@, s.h, first, bytes, s.pos, n),
                  !.pos = @ + n,
                  !.h = Advance(s.fat, s.h, n)]

\* One turn of the loop of FATNode::write().
WriteStep(s, bytes, first) ==
    LET alloc == NeedsCluster(s.h)
        free == FreeClusters(s.fat)
    IN  IF s.pos = Len(bytes) \/ s.status # "OKAY" THEN s
        ELSE IF alloc /\ free = {} THEN [s EXCEPT !.status = "DEV_ERROR", !.h.cur = 0]
        ELSE CopyBytes(IF alloc THEN Link(s, Min(free)) ELSE s, bytes, first)

WriteLoop(s, bytes, first) ==
    LET loop[k \in 0 .. Len(bytes)] ==
            IF k = 0 THEN s ELSE WriteStep(loop[k - 1], bytes, first)
    IN  loop[Len(bytes)]

\* FATNode::write() on s with pos = 0.
WriteNode(s, bytes) ==
    LET first == IsFirstWrite(s.h)
        w == WriteLoop(s, bytes, first)
        size == IF first THEN w.pos ELSE w.h.size + w.pos
        sized == [w EXCEPT !.h.size = size]
    IN  IF w.status # "OKAY" THEN w
        ELSE Update(IF size < w.h.size THEN [sized EXCEPT !.fat = CutChain(@, w.h.first, size)]
                    ELSE sized)

\* One turn of the loop of FATNode::read().
ReadStep(f, d, s, count) ==
    LET h == s.h
        left == h.size - (h.proc * ClusterSize + h.off)
        n == Min({left, count - Len(s.out), ClusterSize - h.off})
        next == f[h.cur]
    IN  IF s.flow = "break" \/ left <= 0 \/ Len(s.out) = count THEN s
        ELSE [out |-> s.out \o SubSeq(d[h.cur], h.off + 1, h.off + n),
              h |-> IF h.off + n < ClusterSize \/ next = Eof THEN [h EXCEPT !.off = @ + n]
                    ELSE [h EXCEPT !.off = 0, !.proc = @ + 1, !.cur = next],
              flow |-> IF h.off + n >= ClusterSize /\ next = Eof THEN "break" ELSE "loop"]

\* FATNode::read(): the bytes and the cursor behind them.
ReadNode(f, d, h, count) ==
    LET loop[k \in 0 .. count] ==
            IF k = 0 THEN [out |-> << >>, h |-> h, flow |-> "loop"]
            ELSE ReadStep(f, d, loop[k - 1], count)
    IN  loop[count]

SeekStaysInCluster(f, h, to) ==
    [h EXCEPT !.proc = to \div ClusterSize, !.cur = h.first, !.off = to % ClusterSize]

\* FATNode::seek() to a position counted from the beginning.
SeekNode(f, h, to) ==
    LET steps == to \div ClusterSize
        next[k \in 0 .. steps] == IF k = 0 THEN h.first
                                  ELSE LET c == next[k - 1] IN IF c \in Cluster THEN f[c] ELSE c
    IN  [h EXCEPT !.proc = steps, !.cur = next[steps], !.off = to % ClusterSize]

---------------------------------------------------------------------------
(* VFSModule *)

Open == {h \in Handle : node[h] # None}
IsBelow(n, dir) ==
    LET up[k \in 0 .. Cardinality(Directory)] ==
            IF k = 0 THEN Parent[n]
            ELSE LET p == up[k - 1] IN IF p = Root THEN Root ELSE Parent[p]
    IN  dir \in {up[k] : k \in DOMAIN up}

\* What FATDriver::delete_node() deletes: delete_directory() descends first.
DeletedWith(n) == {n} \cup {m \in Node : IsBelow(m, n) /\ entry[m] # None}

MayDeleteUnchecked(r, n) == TRUE

\* A node whose path is in the table of reference counts below n.
MayDelete(r, n) == ~\E m \in Node : r[m] # None /\ IsBelow(m, n)

\* VFSModule::delete_node() of an existing node, with the table of reference counts r.
DeleteNode(r, n) ==
    IF r[n] = None /\ MayDelete(r, n)
    THEN LET gone == DeletedWith(n)
         IN  /\ entry' = [m \in Node |-> IF m \in gone THEN None ELSE entry[m]]
             /\ fat' = FoldSet(LAMBDA m, f : FreeChain(f, entry[m].first), fat, gone)
             /\ refs' = r
    ELSE /\ refs' = IF r[n] = None THEN r
                    ELSE [r EXCEPT ![n] = [count |-> @.count, del |-> TRUE]]
         /\ UNCHANGED <<entry, fat>>

Delete(n) ==
    /\ entry[n] # None
    /\ DeleteNode(refs, n)
    /\ UNCHANGED <<data, node>>

\* The entry in the parent directory; a directory gets its cluster at once.
Create(n) ==
    /\ entry[n] = None
    /\ Parent[n] # Root => entry[Parent[n]] # None
    /\ n \in Directory => FreeClusters(fat) # {}
    /\ LET c == IF n \in Directory THEN Min(FreeClusters(fat)) ELSE 0
       IN  /\ entry' = [entry EXCEPT ![n] = [first |-> c, size |-> 0]]
           /\ fat' = IF c = 0 THEN fat ELSE [fat EXCEPT ![c] = Eof]
    /\ UNCHANGED <<data, node, refs>>

\* The plain use of a file: no handle beside one for writing.
MayShare(n, mode) ==
    \A h \in Open : node[h].node = n => mode = "READ" /\ node[h].mode = "READ"

OpenNode(h, n, mode) ==
    /\ node[h] = None
    /\ entry[n] # None
    /\ "share" \in Uses \/ MayShare(n, mode)
    /\ n \in Directory => "directory" \in Uses /\ mode = "READ"
    /\ node' = [node EXCEPT ![h] =
                    LET cursor == InitFileCursor(fat, entry[n].first, entry[n].size, mode)
                    IN  [node |-> n, mode |-> mode, first |-> entry[n].first, size |-> entry[n].size,
                         proc |-> cursor.proc, cur |-> cursor.cur, off |-> cursor.off]]
    /\ refs' = [refs EXCEPT ![n] = IF @ = None THEN [count |-> 1, del |-> FALSE]
                                   ELSE [count |-> @.count + 1, del |-> @.del]]
    /\ UNCHANGED <<entry, fat, data>>

CloseForgetsMark(h) ==
    LET n == node[h].node
        last == refs[n].count = 1
    IN  /\ h \in Open
        /\ node' = [node EXCEPT ![h] = None]
        /\ refs' = [refs EXCEPT ![n] = IF last THEN None ELSE [count |-> @.count - 1, del |-> @.del]]
        /\ UNCHANGED <<entry, fat, data>>

\* Node::close() and the callback open() has installed: the last handle deletes a
\* node that is marked.
Close(h) ==
    LET n == node[h].node
        last == refs[n].count = 1
    IN  /\ h \in Open
        /\ node' = [node EXCEPT ![h] = None]
        /\ IF last /\ refs[n].del THEN DeleteNode([refs EXCEPT ![n] = None], n)
           ELSE /\ refs' = [refs EXCEPT ![n] = IF last THEN None ELSE [count |-> @.count - 1, del |-> @.del]]
                /\ UNCHANGED <<entry, fat>>
        /\ UNCHANGED data

Write(h, bytes) ==
    LET old == node[h]
        r == WriteNode([fat |-> fat, data |-> data, entry |-> entry, h |-> old,
                        pos |-> 0, status |-> "OKAY"], bytes)
        size == IF IsFirstWrite(old) THEN Len(bytes) ELSE old.size + Len(bytes)
    IN  /\ h \in Open /\ old.node \in File /\ old.mode # "READ"
        /\ size <= MaxSize
        /\ "aligned" \in Uses \/ ~(size % ClusterSize = 0 /\ Clusters(size) < Clusters(old.size))
        /\ "full" \in Uses \/ r.status = "OKAY"
        /\ fat' = r.fat /\ data' = r.data /\ entry' = r.entry
        /\ node' = [node EXCEPT ![h] = r.h]
        /\ UNCHANGED <<refs>>

MayMove(h) == h \in Open /\ node[h].node \in File /\ (node[h].mode = "READ" \/ "seek" \in Uses)

\* A reader reads, or moves its cursor; END may move it behind the last byte.
Read(h, count) ==
    /\ MayMove(h)
    /\ node' = [node EXCEPT ![h] = ReadNode(fat, data, @, count).h]
    /\ UNCHANGED <<entry, fat, data, refs>>

Seek(h, to) ==
    /\ MayMove(h)
    /\ to <= node[h].size
    /\ node' = [node EXCEPT ![h] = SeekNode(fat, @, to)]
    /\ UNCHANGED <<entry, fat, data, refs>>

\* A buffer for each length: its bytes differ from each other and from the 0 of a fill.
Buffer == {[i \in 1 .. n |-> i] : n \in 1 .. MaxSize}

Init ==
    /\ entry = [n \in Node |-> None]
    /\ fat = [c \in Cluster |-> IF c = 2 THEN Eof ELSE 0]
    /\ data = [c \in Cluster |-> [i \in 1 .. ClusterSize |-> 0]]
    /\ node = [h \in Handle |-> None]
    /\ refs = [n \in Node |-> None]

Next ==
    \/ \E n \in Node : Create(n) \/ Delete(n)
    \/ \E h \in Handle, n \in Node, mode \in {"READ", "WRITE", "APPEND"} : OpenNode(h, n, mode)
    \/ \E h \in Handle : Close(h)
    \/ \E h \in Handle, bytes \in Buffer : Write(h, bytes)
    \/ \E h \in Handle, k \in 1 .. MaxSize : Read(h, k)
    \/ \E h \in Handle, to \in 0 .. MaxSize : Seek(h, to)

Spec == Init /\ [][Next]_vars

---------------------------------------------------------------------------
(* Properties *)

\* A cursor is on no cluster only in an empty file, and at the very end of a file that
\* fills its clusters, where seek() leaves a reader on the marker behind them.
CursorOnCluster(v) ==
    /\ v.cur = 0 => v.size = 0
    /\ v.cur = Eof => v.mode = "READ" /\ v.proc * ClusterSize + v.off = v.size

\* The types of the variables: in particular the offset of a cursor is within the
\* cluster size, and while bytes are left to read, or a file is written that is not
\* empty, the cursor is on a cluster.
FilesTypeOK ==
    /\ fat \in [Cluster -> {0, Eof} \cup Cluster]
    /\ data \in [Cluster -> [1 .. ClusterSize -> 0 .. MaxSize]]
    /\ \A n \in Node : entry[n] # None => entry[n] \in Entry
    /\ \A n \in Node : refs[n] # None => refs[n] \in References
    /\ \A h \in Open : node[h] \in FATNode /\ (node[h].node \in File => CursorOnCluster(node[h]))

Existing == {n \in Node : entry[n] # None}
ChainOf(n) == Chain(fat, entry[n].first)

\* What a reader of the volume finds in a file.
Content(n) ==
    [i \in 1 .. Min({entry[n].size, Len(ChainOf(n)) * ClusterSize}) |->
        data[ChainOf(n)[Clusters(i)]][i - (Clusters(i) - 1) * ClusterSize]]

\* The volume is consistent whenever no call runs: every chain ends with the marker
\* and has as many clusters as the size of its file asks for, no two chains share a
\* cluster, and no cluster is taken that no chain reaches (FATNode::write(),
\* allocate_cluster(), delete_file(), create_directory()).
ChainsMatchFiles ==
    /\ \A n \in Existing :
            /\ Len(ChainOf(n)) = IF n \in File THEN Clusters(entry[n].size) ELSE 1
            /\ ChainOf(n) # << >> => fat[Last(ChainOf(n))] = Eof
    /\ \A m, n \in Existing : m # n => ToSet(ChainOf(m)) \cap ToSet(ChainOf(n)) = {}
    /\ Cluster \ FreeClusters(fat) = {2} \cup UNION {ToSet(ChainOf(n)) : n \in Existing}

\* A read returns the bytes of the file from the cursor on, however the reader got
\* there and although clusters end in the middle of a buffer (FATNode::read(),
\* seek()).
ReadIsExact ==
    \A h \in Open, count \in 1 .. MaxSize :
        node[h].mode = "READ" /\ node[h].node \in File =>
            LET from == node[h].proc * ClusterSize + node[h].off
            IN  ReadNode(fat, data, node[h], count).out =
                    SubSeq(Content(node[h].node), from + 1, Min({from + count, entry[node[h].node].size}))

\* The node of an open handle exists, and the reference count of a path is the
\* number of its open handles: neither a delete of the node nor one of a directory
\* above it frees clusters a handle writes to (VFSModule::open(), delete_node()).
OpenNodeExists ==
    /\ \A h \in Open : entry[node[h].node] # None
    /\ \A n \in Node :
            LET k == Cardinality({h \in Open : node[h].node = n})
            IN  IF k = 0 THEN refs[n] = None ELSE refs[n] # None /\ refs[n].count = k

\* The volume seen as files: what FileStore promises, with deletes of open nodes put
\* off to their last close, and each write replacing the file or appending to it and
\* leaving every other file alone (FATNode::write(), VFSModule::delete_node() and the
\* callback of open(): "Will always delete").
Store == INSTANCE FileStore WITH
    Below <- IsBelow,
    content <- [n \in Node |-> IF entry[n] = None THEN None
                               ELSE IF n \in File THEN Content(n) ELSE << >>],
    open <- [h \in Handle |-> IF node[h] = None THEN None
                              ELSE [node |-> node[h].node, mode |-> node[h].mode,
                                    fresh |-> IsFirstWrite(node[h])]],
    doomed <- {n \in Node : refs[n] # None /\ refs[n].del}

ImplementsStore == Store!Spec

=============================================================================
