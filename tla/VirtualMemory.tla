--------------------------- MODULE VirtualMemory ---------------------------
(***************************************************************************)
(* Physical frames, page tables and address spaces: the bitmap allocator   *)
(* (PhysicalMemoryManager, BitMapAllocator), the page table hierarchy      *)
(* (Paging.cpp), the virtual memory manager, and the three users of it:    *)
(* the kernel heap, the system calls memory_allocate_page and              *)
(* memory_free_page, and the loading and exiting of apps.                  *)
(*                                                                         *)
(* mem.used is the bitmap, mem.pt what each frame holds when it is read as *)
(* a page table.  An operation of the managers is an operator that takes   *)
(* mem and returns [ok, mem]; loops of the code are folds over the levels  *)
(* or the pages in the order of the code.  A virtual address is the number *)
(* of its page; the upper half of the addresses is the kernel's.           *)
(***************************************************************************)
EXTENDS Integers, SequencesExt, FiniteSetsExt

CONSTANTS
    FrameCount,     \* _mem_size, in page frames
    Reserved,       \* frames the memory map does not call USABLE, and the bitmap itself
    Levels,         \* MAX_PT_LEVEL, 4 in the code
    Entries,        \* PT_MAX_SIZE, 512 in the code
    App,            \* the apps that may be started by start_new_app()
    Kernel,         \* the kernel and the system loader, which share an address space
    None,           \* an entry that is not present, an app without address space
    MaxPages,       \* bound: the largest request in pages
    CodePages,      \* the pages of the LOAD segments, page 0 and up
    HeapPages,      \* the size of the kernel heap, below one entry of the base table
    StackPages,     \* the pages of stack and bootstrap area, at the end of user space
    SystemLoader,   \* TRUE: the system loader runs, in the address space of the boot
    MaxFailed       \* bound: the loads that fail with an address space created

ASSUME MemoryConstants ==
    /\ {FrameCount, Levels, Entries, MaxPages, CodePages, StackPages} \subseteq Nat \ {0}
    /\ Levels > 1 /\ Entries % 2 = 0 /\ HeapPages \in 1 .. Entries^(Levels - 1)
    /\ Kernel \notin App /\ None \notin App \cup {Kernel} \cup Nat
    /\ SystemLoader \in BOOLEAN /\ MaxFailed \in Nat

Frame == 0 .. FrameCount - 1
Index == 0 .. Entries - 1
KernelIndex == Entries \div 2 .. Entries - 1
UserPages == Entries^Levels \div 2
HeapPage == UserPages .. UserPages + HeapPages - 1
StackStart == UserPages - StackPages
HeapStart == CodePages
Apps == App \cup {Kernel}

VARIABLES
    mem,        \* [used |-> the bitmap, pt |-> the tables]
    cr3,        \* the loaded base page table
    base,       \* Info::base_page_table_address of each app
    active,     \* the app whose thread runs
    exiting,    \* apps between freeing their memory and their last THREAD_STOPPED
    heapLimit,  \* Info::heap_limit
    lost        \* history: the base tables of the loads that failed, which nothing frees

vars == <<mem, cr3, base, active, exiting, heapLimit, lost>>

Result(ok, m) == [ok |-> ok, mem |-> m]

---------------------------------------------------------------------------
(* PhysicalMemoryManager and BitMapAllocator *)

\* find_free_region() for one frame, as all callers below ask for: the first free one.
FreeFrames(m) == Frame \ m.used
OutOfMemory(m) == FreeFrames(m) = {}
NextFrame(m) == Min(FreeFrames(m))
Mark(m, f) == [m EXCEPT !.used = @ \cup {f}]

\* free(): refuses reserved memory and the bitmap, does not ask whether the frame is used.
Unmark(m, f) == IF f \in Reserved THEN m ELSE [m EXCEPT !.used = @ \ {f}]

---------------------------------------------------------------------------
(* Paging.cpp *)

Empty == [j \in Index |-> None]

\* The index into the table of a level; level Levels is the base page table.
At(page, level) == (page \div Entries^(level - 1)) % Entries

Update(m, table, idx, entry) == [m EXCEPT !.pt[table][idx] = entry]

\* access_page_hierarchy(): path[i] is the frame of level i, None from the first
\* missing entry downwards; path[0] is the page frame.
AccessPageHierarchy(m, bpt, page) ==
    LET path[i \in 0 .. Levels] ==
            IF i = Levels THEN bpt
            ELSE LET table == path[i + 1]
                 IN  IF table = None THEN None ELSE m.pt[table][At(page, i + 1)]
    IN  path

IsMapped(m, bpt, page) == AccessPageHierarchy(m, bpt, page)[0] # None

\* The levels from hi down to lo and from lo up to hi, for the loops over them.
Down(hi, lo) == [k \in 1 .. hi - lo + 1 |-> hi - k + 1]
Up(lo, hi) == [k \in 1 .. hi - lo + 1 |-> lo + k - 1]

FreeTablesFromNext(m, path, page, from, missing) ==
    LET Free(a, j) == LET parent == path[j + 1]
                          idx == At(page, j + 1)
                      IN  Update(Unmark(a, a.pt[parent][idx]), parent, idx, None)
    IN  FoldLeft(Free, m, Up(from + 1, missing))

\* The inner loop of allocate_page(): free the tables of levels from .. missing again.
FreeTables(m, path, page, from, missing) ==
    LET Free(a, j) == LET parent == path[j + 1]
                          idx == At(page, j + 1)
                      IN  Update(Unmark(a, a.pt[parent][idx]), parent, idx, None)
    IN  FoldLeft(Free, m, Up(from, missing))

\* allocate_page(): the missing tables from the top down, then the page itself.
AllocatePage(m, bpt, page, frame) ==
    LET path == AccessPageHierarchy(m, bpt, page)
        missing == Max({i \in 0 .. Levels : path[i] = None})
        Step(s, i) ==
            LET new == IF i = 0 THEN frame ELSE NextFrame(s.mem)
                table == IF i = 0 THEN s.mem ELSE [Mark(s.mem, new) EXCEPT !.pt[new] = Empty]
            IN  IF ~s.ok THEN s
                ELSE IF i > 0 /\ OutOfMemory(s.mem)
                THEN [s EXCEPT !.ok = FALSE,
                               !.mem = FreeTables(@, s.path, page, i + 1, missing)]
                ELSE [s EXCEPT !.mem = Update(table, s.path[i + 1], At(page, i + 1), new),
                               !.path[i] = new]
        done == FoldLeft(Step, [ok |-> TRUE, mem |-> m, path |-> path], Down(missing, 0))
    IN  IF path[0] # None THEN Result(FALSE, m) ELSE Result(done.ok, done.mem)

\* free_page(): clear the page's entry, then free every table of levels 1 to
\* Levels - 1 that has become empty.  Does not free the page frame.
FreePage(m, path, page) ==
    LET Step(a, i) ==
            LET cleared == Update(a, path[i + 1], At(page, i + 1), None)
            IN  IF i = 0 THEN cleared
                ELSE IF a.pt[path[i]] = Empty THEN Unmark(cleared, path[i]) ELSE a
    IN  FoldLeft(Step, m, Up(0, Levels - 1))

---------------------------------------------------------------------------
(* VirtualMemoryManager *)

VmmAllocateKeepsFrame(m, bpt, page) ==
    LET frame == NextFrame(m)
    IN  IF OutOfMemory(m) THEN Result(FALSE, m)
        ELSE AllocatePage(Mark(m, frame), bpt, page, frame)

\* allocate(v_addr): a frame for the page first, then the page; the frame goes
\* back if the page cannot be mapped.
VmmAllocate(m, bpt, page) ==
    LET frame == NextFrame(m)
        Undone(r) == IF r.ok THEN r ELSE Result(FALSE, Unmark(r.mem, frame))
    IN  IF OutOfMemory(m) THEN Result(FALSE, m)
        ELSE Undone(AllocatePage(Mark(m, frame), bpt, page, frame))

\* free(v_addr)
VmmFree(m, bpt, page) ==
    LET path == AccessPageHierarchy(m, bpt, page)
    IN  IF path[0] = None THEN Result(FALSE, m)
        ELSE Result(path[0] \notin Reserved, Unmark(FreePage(m, path, page), path[0]))

\* free(v_addr, pages): goes on after a page that cannot be freed.
VmmFreePages(m, bpt, page, n) ==
    LET Step(s, p) == LET r == VmmFree(s.mem, bpt, p) IN Result(s.ok /\ r.ok, r.mem)
    IN  FoldLeft(Step, Result(TRUE, m), Up(page, page + n - 1))

RollBackOneShort(m, bpt, page, failed) == VmmFreePages(m, bpt, page + 1, failed - page).mem

\* The roll back of allocate(v_addr, pages): frees the failed page too.
RollBack(m, bpt, page, failed) == VmmFreePages(m, bpt, page, failed - page + 1).mem

\* allocate(v_addr, pages)
VmmAllocatePages(m, bpt, page, n) ==
    LET Step(s, p) ==
            LET Undone(r) == IF r.ok THEN r ELSE Result(FALSE, RollBack(r.mem, bpt, page, p))
            IN  IF s.ok THEN Undone(VmmAllocate(s.mem, bpt, p)) ELSE s
    IN  FoldLeft(Step, Result(TRUE, m), Up(page, page + n - 1))

NewAddressSpaceEmpty(m, loaded) == [Mark(m, NextFrame(m)) EXCEPT !.pt[NextFrame(m)] = Empty]

\* allocate_virtual_address_space(): a base page table with an empty user half
\* and the kernel half of the loaded one.
NewAddressSpace(m, loaded) ==
    LET frame == NextFrame(m)
    IN  [Mark(m, frame) EXCEPT
            !.pt[frame] = [j \in Index |-> IF j \in KernelIndex THEN m.pt[loaded][j] ELSE None]]

\* The frames of each level below one half of a base page table.
FramesBelow(m, bpt, half) ==
    LET below[i \in 0 .. Levels - 1] ==
            IF i = Levels - 1 THEN {m.pt[bpt][j] : j \in half} \ {None}
            ELSE {m.pt[f][j] : f \in below[i + 1], j \in Index} \ {None}
    IN  below

UserIndex == Index \ KernelIndex

FreeAddressSpaceTables(m, bpt) ==
    LET below == FramesBelow(m, bpt, UserIndex)
        tables == UNION {below[i] : i \in 1 .. Levels - 1}
    IN  [used |-> m.used \ tables,
         pt   |-> [f \in Frame |->
                    IF f \in tables THEN Empty
                    ELSE [j \in Index |-> IF f = bpt /\ j \in UserIndex THEN None ELSE m.pt[f][j]]]]

\* free_virtual_address_space(): everything below the user half, not the base table.
FreeAddressSpace(m, bpt) ==
    LET below == FramesBelow(m, bpt, UserIndex)
        tables == UNION {below[i] : i \in 1 .. Levels - 1}
    IN  [used |-> m.used \ (tables \cup below[0]),
         pt   |-> [f \in Frame |->
                    IF f \in tables THEN Empty
                    ELSE [j \in Index |-> IF f = bpt /\ j \in UserIndex THEN None ELSE m.pt[f][j]]]]

---------------------------------------------------------------------------
(* System calls, heap, apps *)

\* One LOAD segment, and the stack with the start info above it.
AllocateSegments(m, bpt) == VmmAllocatePages(m, bpt, 0, CodePages)
SetupBootstrapArea(m, bpt) == VmmAllocatePages(m, bpt, StackStart, StackPages)

\* start_system_loader(): load() with keep_vas, into the address space that is
\* loaded; the boot ends in a panic if that fails.
LoadSystemLoader(m, bpt) == SetupBootstrapArea(AllocateSegments(m, bpt).mem, bpt).mem

\* The state after VirtualMemoryManager::start and the boot of the heap: one
\* address space, and in it a page of the kernel heap that is never freed.
Init ==
    LET start == [used |-> Reserved, pt |-> [f \in Frame |-> Empty]]
        kbase == NextFrame(start)
        boot == VmmAllocate(Mark(start, kbase), kbase, UserPages).mem
    IN  /\ mem = IF SystemLoader THEN LoadSystemLoader(boot, kbase) ELSE boot
        /\ cr3 = kbase
        /\ base = [a \in Apps |-> IF a = Kernel THEN kbase ELSE None]
        /\ active = Kernel
        /\ exiting = {}
        /\ heapLimit = [a \in Apps |-> HeapStart]
        /\ lost = {}

\* ObjectCache::grow() maps a slab page by page at addresses its cache does not
\* use, with a roll back of its own; destroy() frees the pages of a cache.  Both
\* work on whatever address space is loaded.
HeapGrow(page, n) ==
    LET Step(s, p) ==
            LET Undone(r) == IF r.ok THEN r
                             ELSE Result(FALSE, VmmFreePages(r.mem, cr3, page, p - page).mem)
            IN  IF s.ok THEN Undone(VmmAllocate(s.mem, cr3, p)) ELSE s
    IN  /\ \A p \in page .. page + n - 1 : ~IsMapped(mem, cr3, p)
        /\ mem' = FoldLeft(Step, Result(TRUE, mem), Up(page, page + n - 1)).mem
        /\ UNCHANGED <<cr3, base, active, exiting, heapLimit, lost>>

HeapShrink(page, n) ==
    /\ \A p \in page .. page + n - 1 : IsMapped(mem, cr3, p)
    /\ mem' = VmmFreePages(mem, cr3, page, n).mem
    /\ UNCHANGED <<cr3, base, active, exiting, heapLimit, lost>>

\* memory_allocate_page() without an address: the first gap of the heap that is
\* large enough, else the gap at its end, else the end.
ChooseAddress(m, bpt, start, limit, n) ==
    LET gap == {p \in start .. limit - 1 : ~IsMapped(m, bpt, p)}
        large == {p \in gap : p .. p + n - 1 \subseteq gap}
        trailing == {p \in gap : p .. limit - 1 \subseteq gap}
    IN  IF large # {} THEN Min(large) ELSE IF trailing # {} THEN Min(trailing) ELSE limit

\* A thread of an app, or of the system loader, makes a system call.
Running == (active = Kernel => SystemLoader) /\ active \notin exiting

HeapLimitIsEnd(limit, end) == end

\* A gap of the heap may be filled below its limit.
HeapLimitAfter(limit, end) == Max({limit, end})

\* memory_allocate_page(); page = None asks the kernel to choose.  A choice past the
\* end of user space is left out: it comes after the stack was freed, by its app or
\* by the roll back of a choice at the stack.
AllocateCall(page, n) ==
    LET at == IF page # None THEN page
              ELSE ChooseAddress(mem, cr3, HeapStart, heapLimit[active], n)
        r == VmmAllocatePages(mem, cr3, at, n)
    IN  /\ Running
        /\ at + n <= UserPages
        /\ mem' = r.mem
        /\ heapLimit' = IF r.ok THEN [heapLimit EXCEPT ![active] = HeapLimitAfter(@, at + n)] ELSE heapLimit
        /\ UNCHANGED <<cr3, base, active, exiting, lost>>

\* memory_free_page()
FreeCall(page, n) ==
    LET r == VmmFreePages(mem, cr3, page, n)
    IN  /\ Running
        /\ page + n <= UserPages
        /\ mem' = r.mem
        /\ heapLimit' = [heapLimit EXCEPT ![active] = IF r.ok /\ page + n = @ THEN page ELSE @]
        /\ UNCHANGED <<cr3, base, active, exiting, lost>>

\* start_new_app() with ELFLoader::load(), interrupts off: the new address space
\* is loaded while its pages are mapped, and afterwards that of the running app.
LoadApp(a) ==
    LET new == NextFrame(mem)
        code == AllocateSegments(NewAddressSpace(mem, cr3), new)
        all == SetupBootstrapArea(code.mem, new)
    IN  /\ base[a] = None
        /\ active \notin exiting
        /\ ~OutOfMemory(mem) /\ code.ok /\ all.ok
        /\ mem' = all.mem
        /\ base' = [base EXCEPT ![a] = new]
        /\ heapLimit' = [heapLimit EXCEPT ![a] = HeapStart]
        /\ UNCHANGED <<cr3, active, exiting, lost>>

\* The same when it fails and there was memory for a base table: the segments are
\* not allocated or not read, the bootstrap area is not allocated, or a standard
\* stream is not opened.  Nothing frees the new address space, and only the last
\* of them has restored that of the running app, whose thread goes on in the new one.
LoadFails ==
    LET new == NextFrame(mem)
        code == AllocateSegments(NewAddressSpace(mem, cr3), new)
        all == SetupBootstrapArea(code.mem, new)
    IN  /\ Cardinality(lost) < MaxFailed
        /\ active \notin exiting
        /\ ~OutOfMemory(mem)
        /\ \/ mem' = code.mem /\ cr3' = new
           \/ code.ok /\ ~all.ok /\ mem' = all.mem /\ cr3' = new
           \/ code.ok /\ all.ok /\ mem' = all.mem /\ UNCHANGED cr3
        /\ lost' = lost \cup {new}
        /\ UNCHANGED <<base, active, exiting, heapLimit>>

\* context_switch_ass: compares the base tables of the two threads, not cr3.
Switch(a) ==
    /\ a # active
    /\ base[a] # None
    /\ active' = a
    /\ cr3' = IF base[a] # base[active] THEN base[a] ELSE cr3
    /\ UNCHANGED <<mem, base, exiting, heapLimit, lost>>

\* exit_running_app() frees the user memory, with the address space loaded; the
\* system loader shall not exit.
Exit ==
    /\ Running /\ active # Kernel
    /\ mem' = FreeAddressSpace(mem, base[active])
    /\ exiting' = exiting \cup {active}
    /\ UNCHANGED <<cr3, base, active, heapLimit, lost>>

\* Mutant: frees the base table that is loaded, not the one of the app.
ThreadStoppedLoaded(a) ==
    /\ active \in exiting
    /\ a # active /\ base[a] # None
    /\ mem' = Unmark(mem, cr3)
    /\ base' = [base EXCEPT ![active] = None]
    /\ exiting' = exiting \ {active}
    /\ active' = a
    /\ cr3' = base[a]
    /\ UNCHANGED <<heapLimit, lost>>

\* When its last thread has stopped, another is switched to, and the garbage
\* collector frees the base table in the handler of THREAD_STOPPED.  One step:
\* nobody refers to that table after the switch, and the app is not started again
\* before it is freed.
ThreadStopped(a) ==
    /\ active \in exiting
    /\ a # active /\ base[a] # None
    /\ mem' = Unmark(mem, base[active])
    /\ base' = [base EXCEPT ![active] = None]
    /\ exiting' = exiting \ {active}
    /\ active' = a
    /\ cr3' = base[a]
    /\ UNCHANGED <<heapLimit, lost>>

Next ==
    \/ \E page \in HeapPage \ {UserPages}, n \in 1 .. MaxPages :
            page + n - 1 \in HeapPage /\ (HeapGrow(page, n) \/ HeapShrink(page, n))
    \/ \E n \in 1 .. MaxPages : AllocateCall(None, n)
    \/ \E page \in 0 .. UserPages - 1, n \in 1 .. MaxPages :
            AllocateCall(page, n) \/ FreeCall(page, n)
    \/ \E a \in App : LoadApp(a)
    \/ LoadFails
    \/ \E a \in Apps : Switch(a) \/ ThreadStopped(a)
    \/ Exit

Spec == Init /\ [][Next]_vars

---------------------------------------------------------------------------
Live == {a \in Apps : base[a] # None}

\* The entries that refer to a frame: the user half of every address space, and
\* the kernel half once.
Slots(bpt, half) ==
    LET below == FramesBelow(mem, bpt, half)
        tables == UNION {below[i] : i \in 1 .. Levels - 1}
    IN  {<<t, j>> \in (tables \X Index) \cup ({bpt} \X half) : mem.pt[t][j] # None}

Spaces == {base[a] : a \in Live} \cup lost

References == UNION {Slots(bpt, UserIndex) : bpt \in Spaces} \cup Slots(base[Kernel], KernelIndex)

\* Every table of the hierarchies and every page has a frame of its own that the
\* bitmap calls used, the bitmap calls no other frame used, and no table stays
\* without an entry: no failed allocation, roll back, free or exit leaks a frame,
\* leaves one with two owners or keeps a table nothing uses any more.  What a
\* failed load() or start_new_app() has leaked is the address space it created and
\* nothing else (lost), even when the caller goes on in that address space.
EveryFrameHasOneOwner ==
    LET referenced == {mem.pt[s[1]][s[2]] : s \in References}
    IN  /\ Cardinality(referenced) = Cardinality(References)
        /\ Cardinality(Spaces) = Cardinality(Live) + Cardinality(lost)
        /\ referenced \cap (Spaces \cup Reserved) = {}
        /\ mem.used = Reserved \cup Spaces \cup referenced
        /\ \A bpt \in Spaces : LET below == FramesBelow(mem, bpt, Index) IN
              \A i \in 1 .. Levels - 1 : Empty \notin {mem.pt[t] : t \in below[i]}

\* Every address space has the same kernel half, although a context switch copies
\* none and the heap grows in whichever is loaded: the heap lies below one entry of
\* the base table, and its first page is never freed.
KernelHalfShared ==
    \A bpt \in Spaces, j \in KernelIndex : mem.pt[bpt][j] = mem.pt[base[Kernel]][j]

\* Below the stack, a mapped page of an app is below its heap limit, whichever gaps
\* memory_free_page() has made and memory_allocate_page() has filled: as long as the
\* limit has not reached the stack, the end of the heap, where the kernel puts what
\* fits nowhere else, is not mapped.  At the stack it is: ChoiceKeepsPages.  Until a
\* load has failed: after that the calls of an app may move its limit by what they do
\* in the address space of the failed load.
HeapBelowLimit ==
    lost = {} => \A a \in Live \ exiting : \A p \in 0 .. StackStart - 1 :
        IsMapped(mem, base[a], p) => p < heapLimit[a]

\* From every state that is reached, a request for pages none of which is mapped
\* either succeeds or changes nothing, however late in it the memory runs out.
FailedAllocationIsUndone ==
    \A p \in 0 .. UserPages - 1, n \in 1 .. MaxPages :
        LET region == p .. p + n - 1
            r == VmmAllocatePages(mem, cr3, p, n)
        IN  (p + n <= UserPages /\ (\A q \in region : ~IsMapped(mem, cr3, q)) /\ ~r.ok)
            => /\ r.mem.used = mem.used
               /\ \A q \in 0 .. UserPages - 1 : AccessPageHierarchy(r.mem, cr3, q)[0]
                                                = AccessPageHierarchy(mem, cr3, q)[0]

\* The types of the variables: only frames that exist are used and loaded.
MemoryTypeOK ==
    /\ mem.used \subseteq Frame /\ Reserved \subseteq mem.used
    /\ mem.pt \in [Frame -> [Index -> Frame \cup {None}]]
    /\ cr3 \in Frame
    /\ base \in [Apps -> Frame \cup {None}]
    /\ active \in Apps
    /\ exiting \subseteq App
    /\ heapLimit \in [Apps -> 0 .. UserPages]
    /\ lost \subseteq mem.used

---------------------------------------------------------------------------
(* Statements of the comments and the documentation that the code does not keep *)

\* "then afterward restore the VAS of the currently running app" (ELFLoader.cpp, of
\* load()): a thread always runs in the address space of its app.
RunningVasLoaded == cr3 = base[active]

\* "If zero the kernel chooses where to map the memory region" (MemoryBundle.h, of
\* memory_allocate_page()): a request without an address, granted or not, takes no
\* mapped page away from the app that makes it.
ChoiceKeepsPages ==
    Running => \A n \in 1 .. MaxPages :
        LET at == ChooseAddress(mem, cr3, HeapStart, heapLimit[active], n)
            r == VmmAllocatePages(mem, cr3, at, n)
        IN  at + n <= UserPages =>
              \A q \in 0 .. UserPages - 1 : IsMapped(mem, cr3, q) => IsMapped(r.mem, cr3, q)

=============================================================================
