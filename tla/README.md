# A verification project for the runeOS kernel

runeOS is a small 64 bit operating system: a single-core preemptive kernel
(`src/Kernel`), a few apps in user space (`src/App`) and a build tool
(`src/Brokk`). The project models the parts of the kernel everything else stands
on - the threads of the only core and what they synchronise with, interrupts,
memory and the file system - in TLA+; checks small instances with TLC; and proves
the safety properties of all of it but the memory, and both refinements, with TLAPS
for every instance.
`PROJECT.json` lists the runs, the mutants, the theorems, the source lines every
definition stands for, the findings and the hazards.

## 1. Inventory

Paths are below `src/Kernel`.

| component | state | operations | interacts with | what is hard | correct if |
|---|---|---|---|---|---|
| Scheduler (`Src/CPU/Threading/Scheduler.cpp`, `MultiLevelQueue.cpp`) | running thread, ready queue with three levels, garbage bin, thread states | schedule, preempt, mark_as_block_pending, block, unblock, stop, context switch | called by everything below, and by the timer interrupt | interrupts anywhere, states set several switches earlier, the two special threads | queue, bin and states agree; no wake up is lost; nothing stopped runs |
| Thread life cycle (`Src/CPU/CPUModule.cpp`) | thread cache, lists of joiners | schedule_new_thread, thread_enter, thread_exit, stop_thread, sync_with_thread_stop, garbage collector, idle thread | scheduler, timer, mutexes | stopping a thread that is ending, joining one that is ending | a join returns after the end, every end is announced once |
| Timer (`Src/CPU/Time/PIT.cpp`, `DeltaQueue.cpp`) | tick count, delta queue, remaining quantum | interrupt handler, sleep_until, remove_sleeping_thread | scheduler | list shared with an interrupt handler, unsigned time differences | sleepers are woken at their time, in order, and nobody runs past its quantum |
| Mutex (`Src/CPU/Threading/Mutex.cpp`) | `_lock`, `_owner`, wait queue, its spinlock | lock, try_lock, unlock, remove_thread | scheduler | retry and hand-off race | exclusion, complete hand-off, no thread asleep on a free mutex |
| Semaphore (`Src/CPU/Threading/Semaphore.cpp`) | units, wait queue, spinlock | lock, try_lock, unlock | scheduler | spinlock on a single core, wake-ups that are overtaken | units in bounds, no unit left lying while a thread waits |
| Spinlock, critical sections, interrupt locks | a flag; the saved flags of the CPU | lock, unlock | all of the above | holder preempted; flags saved in a shared member | a spin ends |
| Condition variable, thread pool, future | waiters, task queue, result | wait, notify, submit, get | mutex, scheduler | mark survives unlock; shutdown against submit | no notification is lost, no task is left |
| Interrupt dispatch, PIC (`Src/Arch/x86_64/CPU/Interrupt`, `PIC.cpp`) | handler tables, vectors, masks, lines requested and in service, the flag of a manual end of interrupt | install, uninstall, dispatch, send_eoi | timer, drivers, scheduler | a thread switch inside a dispatch, a flag all dispatches share | masks follow the handlers, every interrupt is ended once, the timer never starves |
| Memory (`Src/Memory`, `Src/SystemCall/MemoryBundle.cpp`) | bitmap of frames, page tables, address spaces, heap limits, slabs | allocate, free, map, load and exit of apps | everything | roll back when memory ends half way, the kernel half shared by copies | no frame is used twice, none leaks, a failed request leaves no trace |
| VFS and FAT (`Src/VirtualFileSystem`) | open nodes, reference counts, file entries, cluster chains, cursors | create, open, read, write, seek, close, delete | devices, apps | cursors at cluster boundaries, deletes of open nodes, a full volume | chains are disjoint and fit the sizes; files behave like sequences of bytes |
| Devices (`Src/Device`: AHCI, PCI, GPT, ACPI, PS/2) | command slots, key ring | send command, key interrupt | interrupts, timer | device against driver, full ring | a slot serves one request |
| Apps, system calls (`Src/App`, `Src/SystemCall`) | app table | start, exit, join, one wrapper per call | threads, memory, VFS | entry and exit with interrupts on | an app's end reaches its waiters |
| Freya (`src/App/Freya`), the service manager | dependency graph, states of services | load, sort, start | apps | cycles, a service that fails to start | a service starts after what it depends on |
| Kernel runtime (`Src/KRE`), boot, tests, shell and file tools, Brokk | - | - | - | sequential | - |

Devices, the slab allocator, system calls beyond the memory bundle, Freya and the
last row are not modelled (section 6). ACPICA and yaml-cpp are third-party code.

## 2. How the kernel is modelled

There is one core. A model step is a stretch of code that no interrupt divides:
one call of the scheduler (it runs between `lock()` and `unlock()`, interrupts
off), one access to shared memory, or a section with interrupts off. The timer
interrupt is an action of its own that may come between any two steps while the
interrupt flag is set, so every interleaving the hardware allows is explored.

| module | models | state | actions |
|---|---|---|---|
| `Scheduler` | the scheduling API and the ready queue | a record: `running`, `state`, `ready`, `bin` | operators from record to record, one per function |
| `Threading` | boot hand over, thread life cycle, garbage collector, idle thread, sleep and the PIT handler as the scheduler sees them | the record, interrupt flag, interrupt frames per stack, program counters, sleepers, joiners | one per stretch of code |
| `Cpu` | the only core: the scheduler, the interrupt flag, interrupts on the stacks; `Threading` and `Core` extend it | the record, the flag, the frames | `Tick`, `Iret`, `IdleLoop` |
| `Core` | the core as a lock sees it: its callers in kernel and in user mode | those of `Cpu` | those of `Cpu`, `Sysret` |
| `Mutex`, `Semaphore` | the two locks on top of `Core`, statement by statement | the members of the class, a program counter per thread | one per step of lock, try_lock, unlock |
| `SleepQueue` | what a queue of sleepers promises | the time each thread has left | sleep, cancel, elapse |
| `Timer` | PIT driver and delta queue, node by node | the list with its links, wake times modulo the word, the quantum; `due`, `until` and `late` record what was asked for | steps of sleep_until and of the handler |
| `TimerPeriods` | `Timer` as the kernel calls it: the assumption that sleeps and quantum are whole periods | | |
| `ThreadPool` | thread pool and condition variable on `Core`, from `start()` to the end of the destructor | members and wait queue of the mutex, waiters, task queue, the tasks in flight, two program counters per thread, in the pool and in the mutex | one per step of lock and unlock and per access to the shared members |
| `Interrupts` | dispatcher, IDT and the first PIC, on `Core` | handler tables, vectors, masks, requests, lines in service, the EOI flag, dispatches that were left for another thread | raise, dispatch, the timer's dispatch, its end, install, uninstall |
| `VirtualMemory` | bitmap allocator, page tables of any depth, virtual memory manager, kernel heap, the memory system calls, loads of apps that succeed or fail, exit of apps, the system loader | bitmap, contents of tables, CR3, base tables, heap limits, the address spaces that failed loads have lost | one per call; managers are operators from memory to memory |
| `FileStore` | what the file system promises: files as sequences of bytes, deletes put off to the last close | contents, open handles, doomed nodes | create, open, write, close, delete |
| `FileSystem` | VFS node management and the FAT driver | file entries, FAT, bytes of clusters, open nodes with their cursors, reference counts | create, open, read, write, seek, close, delete |
| `MC*` | instances for TLC | | |
| `*Proofs` | lemmas and theorems (section 4) | | |

Points of correspondence a reader of the code will look for:

* **Interrupt flag.** `Scheduler::m_lock` keeps the saved flags in one member
  (`InterruptLock.cpp:28`) and the context switch does not save RFLAGS. After a
  switch `unlock()` therefore restores the flag saved by the *previous* thread:
  a call of the scheduler leaves the flag of the CPU as it was. A thread resumed
  by the timer inside `block()` goes on with interrupts off until iretq, sysret
  or the idle loop switches them on. Several findings follow from this.
* **Nested ticks.** An interrupted thread that is resumed by another thread's
  `block()` still has its interrupt frame on the stack; a new tick may come after
  its iretq. `frames[t]` counts them, `MaxNest` bounds them.
* **Wake order.** `Threading` wakes sleepers in any order at any tick (`sleepers`
  is a set); `Timer` has the list and the times, and leaves the choice of the
  next thread open, which `Threading` makes exactly.
* **Left out.** Logging (also where it reads shared state, see the hazards),
  stacks, GS and page tables, `semaphore_handle`, and `Mutex::remove_thread`,
  which cannot be reached since nothing sets `mutex_handle`.
* **Spinlocks** are a step that is enabled when the flag is clear. A thread that
  spins simply has no step of its own; a tick may still take the CPU from it.
* **Thread pool.** Its mutex is that of `Mutex.cpp` step by step, with the wake-up
  it can lose: a thread may queue and block after the owner has freed the mutex
  (`Stranded`). `BlockedIsQueued` therefore says only that a blocked thread is in a
  queue or about to be woken, `PoolSettles` carries the condition that no thread
  stays stranded, and without it `WorkersAreStopped` fails (section 3). The owner destroys
  the pool when nobody is inside `submit()`, as for any C++ object; what a task
  does is left out. A submitter starts as a thread that was preempted once, and
  `ReadyQueues` of `Core` leaves open in which order. `notify_all` wakes one waiter
  per step, as its loop does; a pool has at least one worker (`PoolAssumption`).
* **Interrupts.** Interrupts are off in a dispatch, so it is one step, unless the
  timer's handler switches threads: then the rest of it (`ends`) is executed when
  the thread is resumed, possibly with interrupts on again. The PIC is external:
  it forwards the highest request that is not masked and has nothing as high in
  service, and an unspecific end of interrupt clears the highest line in service.
* **Memory.** A virtual address is a page number, a table has two entries instead
  of 512 and the hierarchy three levels instead of four. Loops over levels or
  pages are folds in the order of the code, so every intermediate state of a
  roll back is computed. A call is one step: loading an app runs with interrupts
  off, but the other calls take no lock, and a tick inside one that lets another
  thread into the memory module is not modelled (nothing guards against it, see
  the hazards). Page flags and the TLB are left out. A load may fail at each place
  at which the code returns an error (`LoadFails`): the executable does not fit or
  cannot be read, its stack or start data does not fit, or a standard stream is not
  opened. What it has built is kept by nobody (`lost`); `MaxFailed` bounds how often
  this happens. `SystemLoader` loads the first app into the address space of the
  boot (`keep_vas`).
* **Files.** One call at a time, which the module needs and does not enforce (see
  the hazards). Names are model values, a directory is one cluster, and bytes are
  small numbers. `Uses` names what users do beyond the plain uses - everything
  it adds breaks a promise of `FileStore`, see below - so that one model serves
  the passing run and the experiments.

## 3. The runs

Passing runs:

| run | instance | shows |
|---|---|---|
| `threading` | bootstrap and three threads on two levels, one in user mode; two spawn and sleep, two join, two stop; `MaxNest` 2; 1.0 million states | `SchedulerConsistent`, `NoSelfSwitch`, `NoLostWakeup`, `NoEarlyReturn`, `StopIsFinal`, `GctFirstThenPriority` |
| `threading_live` | the same threads, one caller per service, `MaxNest` 1, fairness | `StopIsAnnounced` |
| `mutex` | three threads, two of them in user mode, `MaxNest` 2, fairness; 47 thousand states | `MutualExclusion`, `HandoffIsComplete`, `NoForgottenWaiter`, `HandoffArrives` |
| `semaphore` | three threads, two units, one at the start | `NoStrandedWaiter`, `NoForgottenWaiter`, units in bounds |
| `timer` | three threads, sleeps of one to three periods, a quantum of two, five interrupts, symmetric | `ListIsWellFormed`, `NeverEarly`, `ImplementsSleepQueue`; `NeverLate`: late by no more than the interrupts between the look at the time and `enqueue()` |
| `thread_pool` | two workers, the owner and a second submitter, three tasks, `MaxNest` 1, fairness; 87 thousand states | `EveryTaskOnce`, `BlockedIsQueued`, `NoSleepingPool`, `PoolSettles` |
| `interrupts` | two threads, three lines, two devices, `MaxNest` 2, fairness; 32 thousand states | `TableMatchesPic`, `TimerIsFree`, `TimerIsServed` |
| `memory` | the system loader, an app and the kernel heap, one load that fails, 17 frames, three levels of two entries, requests of up to two pages; 88 thousand states | `EveryFrameHasOneOwner` (a failed load loses the frames of its own address space and no other), `KernelHalfShared`, `FailedAllocationIsUndone`, and until a load has failed `HeapBelowLimit` |
| `filesystem` | two files, one of them in a directory, two handles, five clusters of two bytes, files of up to three bytes; 41 thousand states | `ChainsMatchFiles`, `ReadIsExact`, `OpenNodeExists`, `ImplementsStore` |

Each property has a mutant, a plausible mistake in a mapped definition that TLC
finds through that property; the mutants stand beside the definitions they change.

Violated runs, each the counterexample to a sentence of the documentation
(`findings` quotes it):

| run | what happens |
|---|---|
| `mutex_lost_wakeup` | the owner unlocks between a failed exchange and the wait queue: the thread sleeps on a free mutex |
| `fat_truncate` | a file is overwritten with fewer clusters, exactly filled; the handle's cursor is on a freed cluster and its next write is lost |
| `eoi_lost` | the timer's dispatch is left for a thread outside of any dispatch; the next interrupt of a device is never ended |

The counterexample of `fat_truncate` runs through `Uses = {"aligned"}`
(`MCTruncate.cfg`): create, open for writing, write three bytes, close, open
again, write two, write one.

The same models show more disagreements, for which no run is kept. Where a cfg is
named, the change in brackets makes TLC show it.

Threads, locks and the timer:

* A thread entered from a timer switch starts with interrupts off and keeps them
  off until it blocks or goes to user mode (`InterruptLock.cpp:28`); such a thread
  that spins for a semaphore's spinlock whose holder was preempted spins for ever.
* `CPUModule.cpp:396`: a thread that ends between the two halves of `stop_thread`
  is freed twice (`MCThreading.cfg` with INVARIANT `CollectedOnce`), although the
  comment at line 315 names the case.
* `CPUModule.cpp:327`: `stop_thread` reports success for a thread that is scheduled
  and has not run yet, and leaves it scheduled.
* `PIT.cpp:146`: the handler deletes the node `enqueue` is looking at
  (`MCTimer.cfg` with SPECIFICATION `RaceSpec` and INVARIANT `NoFault`).
* `CPUModule.cpp`, `stop_thread`: a stopped owner keeps its mutex, since nothing
  sets `mutex_handle`.
* `ThreadPool.h:158`: `submit` reads `m_running` without the mutex; a call that
  overlaps the destructor may queue a task no worker is left for.
* `Scheduler.cpp:80`: the bootstrap thread runs as CREATED, so a quantum that ends
  before it has scheduled the boot thread takes the CPU from it for good.
* `PIT.cpp:147`: `timer_handle` is set after the enqueue; if the handler comes in
  between, a runnable thread keeps a handle (`Thread.h:152` forbids it), and a
  later `stop_thread` fails to find it in the timer.
* `Mutex.cpp:99`: `unlock` frees the mutex after it has left the section in which
  it found nobody waiting; a thread that queues itself in between is passed over,
  which is not the fairness `Mutex.h:28` promises.
* `PIT.cpp:129`: an interrupt between the look at the time in `sleep_until` and
  `enqueue` is not taken off the sleep, so the thread sleeps a period longer
  (`MCTimer.cfg` with INVARIANT `WokenAtWakeTime`) than `Timer.h:137` says.
* `DeltaQueue.cpp:55`: a sleep that is no multiple of the period wraps the wake time
  of the first node below zero; it and all behind it sleep on (let `MCTimer` extend
  `Timer` instead of `TimerPeriods` and set `Durations = {3}`: `NeverLate` fails).
  Nothing calls `sleep_micro` or `sleep_nano` yet.
* `ThreadPool.h:113`: a worker finds the mutex taken by the destructor and queues
  after the destructor has freed it. It is never woken, and the join of the
  destructor never returns (`MCThreadPool.cfg` with PROPERTY `WorkersAreStopped`),
  although `ThreadPool.h:51` says the workers "are stopped in the destructor". This is
  the lost wake-up of `mutex_lost_wakeup`.
* `PIT.cpp:107`: the quantum is tested before the period is subtracted, so 50 ms
  are 51 (`CPUModule.cpp:224`).

Interrupts (`Interrupt.cpp`):

* The line the second PIC is connected to is never unmasked, so lines 8 and up do
  not reach the CPU, although line 311 says "Enable IRQ on PIC" for each.
* The dispatcher counts handled interrupts on a copy of the table entry, so the
  counter of `IRQ.h:33` stays zero.
* Uninstalling device 0 from a line nobody handles reports success: an empty entry
  has handle 0. The error path disables interrupts a second time instead of
  enabling them (line 329); the keyboard driver takes it, as it uninstalls handle 1
  and has installed 0. `TimerIsServed` shows that the timer survives this when the
  callers are user threads.

Memory:

* `ELFLoader.cpp:440-454`: a load that fails in the new address space returns without
  restoring the one it has replaced, although line 422 promises to: the caller goes on
  in it (`MCMemory.cfg` with INVARIANT `RunningVasLoaded`). From then on its calls
  change its heap limit by what they do there, so `HeapBelowLimit` ends with it.
* `ELFLoader.cpp:440-454`, `AppModule.cpp:407-436`: every load that fails leaks its
  address space, with all frames it has taken so far; nothing frees them (`lost`).
* `MemoryBundle.cpp:74`: nothing keeps the heap from growing up to the stack. There the
  kernel chooses a page of the stack; the request is refused, and its roll back
  unmaps that page (`MCMemory.cfg` with INVARIANT `ChoiceKeepsPages`; line 75 has a
  TODO).
* `VirtualMemoryManager.cpp:289`: the roll back of a request for several pages
  starts with the page that failed; if it failed because it is mapped already, it
  is unmapped. The heap at the stack gets there, and so does a request for an address
  the caller has mapped itself; `FailedAllocationIsUndone` leaves both out.
* `MemoryBundle.cpp:136`: `memory_free_page` does not invalidate the TLB.

File system (values for `Uses` in `MCFiles.cfg`):

* `"share"`: a handle keeps its own copy of the file entry, so a reader that
  opened before a write finds the old size, and two writers lose clusters.
* `"full"` (with three clusters): a write into a full volume leaves the clusters
  linked so far behind the end of the file.
* `"seek"`: after a seek or a read, the first write of a handle still cuts the file
  at its own end.
* `"directory"`: a directory that is open itself and holds an open file is answered
  DELETED and never deleted.
* `FATNode.cpp:303`: the check of `seek` joins its two conditions by `&&` and never
  fires, so a seek to the END of a file that fills its clusters leaves the cursor on
  the marker of the end of the chain. For a reader this does no harm, its next read
  finds the end of the file first; `FilesTypeOK` allows the marker there only.
* `FileEntryManager.cpp:147`: a directory grows by a cluster that is not cleared,
  and the answer of a full volume, 0, is taken for a cluster (directories are one
  cluster in the model).

### Bounds, and why they are enough

Threads: three besides the special ones. The races found involve two threads and
the timer; the third is the bystander that keeps a queue non-empty, competes for
a unit or sits behind a removed node. `MaxNest` 2 is the smallest depth at which
an interrupt meets a stack that already carries a frame; 1 is used where fairness
makes the graph too expensive. Two units make an overtaken wake-up possible while a
unit is left. In `timer`, a period is two units of time and durations
are multiples of it; with sleeps of up to three periods and five interrupts, all orders of three sleepers, equal wake times, removal at
the front, in the middle and at the end, and the end of a quantum occur. `Word`
64 stands for 2^64 and is out of reach unless a subtraction wraps.

`timer` keeps interrupts out of the loop of `enqueue()`. The code does not (there
is no lock); `RaceSpec` is the same model without that restriction. `timer` thus says
what the algorithm guarantees once `enqueue()` is protected, or when the caller runs
with interrupts off. Interrupts between the look at the time and `enqueue()` do come
in `timer`; `late` counts the time they take, and is what `NeverLate` allows.

Deadlock is checked in `threading`. `mutex` and `semaphore` switch the check off
because the machine really can stop: a thread that spins with interrupts off.
`timer` does so because its bounded clock stops, the others because their bounded
users may have nothing left to do.

In `thread_pool` two workers and three tasks suffice for a task that finds both
workers asleep, one asleep, none asleep, or none that has ever run, and for a
destructor that meets each of these; the owner, a second submitter and two workers
compete for the mutex. In `interrupts`, three lines give one above,
one beside and one below the line that is stuck; two devices share a line. In
`memory`, 17 frames are ten of the reserved one, the kernel and the system loader, six
of a loaded app and one for the base table of a load that fails at once. So memory runs
out at each place of an allocation of either of the two, and of a load; three levels
are the fewest with a table that is neither the first nor the last. One failed load
suffices for a caller that goes on in the wrong address space, is switched away from
and back to, and exits; the app can be loaded again after it has exited. `View` leaves out which frames the
tables and pages lie in: it keeps how many there are and what they map. In
`filesystem`, files of up to three bytes in clusters of two are empty, part of a
cluster, one exactly, and more; five clusters hold the root, the directory and both
files with none to spare, so freed clusters are taken again. Handles are symmetric;
no call decides anything by the bytes it moves, so `View` leaves them out.

### Fairness

The CPU executes the running thread: strong fairness on the steps of the kernel's
own code, strong because an interrupt may take the CPU away between any two of
them. Ticks come again and again while interrupts are on, and a tick leaves time
for a step. Nothing is assumed of when a thread calls a service. As a thread
entered with interrupts off may never switch them on, the liveness properties of
threads, mutex and pool carry the condition `[]<>irqOn`; without it they fail. That
of the pool also assumes `[]<>~Stranded`, which the mutex does not guarantee
(section 3, `ThreadPool.h:113`).
`TimerIsServed` does not need it: its threads run in user mode, where sysret
switches interrupts on. In `mutex` the fairness on iretq is strong for the frame
that brings a thread back to its own code and weak for those above it, where
`MaxNest` allows no further tick.

## 4. What is proved

All theorems hold for every value of the constants that satisfies the named
assumptions of the modules: any number of threads, levels, roles, devices, tasks and
any depth of nested interrupts; any tree of nodes, volume, size of clusters and number
of handles. Each `Proofs` module has an inductive invariant `IInv`, proved to hold
always; TLC checked it on the instance of its run before it was proved (but that of
`FileSystemProofs`, which says that chains exist: there TLC checks the properties that
follow). The properties follow from it.

| module | theorem | property |
|---|---|---|
| `ThreadingProofs` | `TypeCorrect`, `SchedulerIsConsistent`, `NeverSelfSwitch` | `TypeOK`, `SchedulerConsistent`, `NoSelfSwitch` |
| | `StoppedForGood`, `SwitchesInTurn` (action properties) | `StopIsFinal`, `GctFirstThenPriority` |
| | `WakeupsArrive`, `ReturnsInTime` | `NoLostWakeup`, `NoEarlyReturn` |
| `MutexProofs` | `TypeCorrect`, `HolderIsAlone`, `WokenIsOwner`, `WaitersAreKnown` | `MutexTypeOK`, `MutualExclusion`, `HandoffIsComplete`, `NoForgottenWaiter` |
| `SemaphoreProofs` | `TypeCorrect`, `NoneIsStranded`, `WaitersAreKnown` | `SemaphoreTypeOK`, `NoStrandedWaiter`, `NoForgottenWaiter` |
| `InterruptsProofs` | `TypeCorrect`, `TablesMatch`, `TimerNeverStuck` | `InterruptsTypeOK`, `TableMatchesPic`, `TimerIsFree` |
| `ThreadPoolProofs` | `TypeCorrect`, `TasksRunOnce`, `SleepersAreQueued`, `PoolIsAwake` | `PoolTypeOK`, `EveryTaskOnce`, `BlockedIsQueued`, `NoSleepingPool` |
| `TimerProofs` | `TypeCorrect`, `ListStaysWellFormed`, `WokenInTime` | `TimerTypeOK`, `ListIsWellFormed`, `NeverLate` |
| | `WokenNotBefore` (action property) | `NeverEarly` |
| | `QueueIsImplemented` (refinement) | `ImplementsSleepQueue` |
| `FileSystemProofs` | `FilesTyped`, `ChainsAlwaysMatch`, `ReadsAreExact`, `OpenNodesExist` | `FilesTypeOK`, `ChainsMatchFiles`, `ReadIsExact`, `OpenNodeExists` |
| | `StoreIsImplemented` (refinement) | `ImplementsStore` |

**The scheduler** (`SchedulerProofs`) is proved about once and used by all others. Of
each operator of `Scheduler` it shows that `Consistent(s, removed)` is kept and nobody
is revived (`ScheduleOK`, `PreemptOK`, `MarkOK`, `BlockOK`, `UnblockOK`, `StopOK`,
`TakeOutOK`, `TakeFromBinOK`); what the operator does to the sets of marked, blocked
and stopped threads (the `Effect` lemmas); and whom it switches to, the garbage
collector or the first of the most urgent level, with the others left in their order
(the `InTurn` lemmas). They rest on lemmas on sequences without repetition. The module lifts them
to the actions of `Cpu`: an interrupt moves no thread from one of these sets to
another, a call moves the caller or the thread it names.

**Threads.** `IInv` of `ThreadingProofs` is types, `SchedulerConsistent`, `ArgOK` (a
thread between the halves of `stop_thread` knows whom it stops: that thread is
excepted from the rule that runnable threads are queued) and `BootFirst` (no thread
exists before the boot thread is scheduled: otherwise the bootstrap thread, the only
one that runs as CREATED, could be switched to another). `OneCall` and `NoCall` show
that an action is at most one call of the scheduler; the halves of `stop_thread` are
treated on their own. `NoLostWakeup` and `NoEarlyReturn` need a second invariant,
`SleepInv`: it says where a marked or blocked thread is in its code and who is going to
wake it, and conversely that whoever is in the timer's queue or in a list of joiners
is at a place where it waits for that, and that the garbage collector still has to
announce each thread that is joined.

**Mutex.** `MutualExclusion` alone is not inductive, because `unlock` reads `_owner` a
second time after it has left its critical section. What makes that safe is that the
new owner sleeps until the last step of `unlock`, so the invariant must say which
threads sleep and where (`SleepOK`), that the mutex is in at most one hand although
`_lock` and `_owner` are set one after the other (`BetweenOK`), and that the thread
about to be woken is the owner (`WakeOK`).

**Semaphore.** `NoStrandedWaiter` (while threads wait, each unit has a thread on its
way to it) counts threads. It is inductive with the place of every queued thread and
the exact set of sleepers; an `unlock` adds a unit and one thread in flight.

**Interrupts.** Masks and tables match once the lists of devices are known to have no
repetition. The timer is never left in service because its line is the highest: the
unspecific end of interrupt its handler sends before the switch can end no other.

**Thread pool.** A worker sleeps or leaves on what it has read under the mutex;
`TestOK` says that it still holds when the worker acts. This needs exclusion
(`MutexOK`, for the steps of `Mutex.cpp`: one thread holds the mutex, from its exchange
or from the hand-off on, at most one `unlock` is past its section and it is to wake that
thread, and those who queue are marked or blocked; it does not say that they queue for
a mutex somebody holds), the condition variable to hold exactly those who sleep on it (`CvOK`) and
the phases of the pool (`PhaseOK`, `NewOK`). `TaskOK` accounts for every number that
was given to a task.

**Timer.** A node knows its distance from its predecessor only, so when a sleeper is
woken is a sum over the list, which no single node knows. The history variable
`due` makes it local: neighbours differ by what the later node holds (`DeltaOK`). That
the first sleeper is due before all others follows from a numbering of the nodes that
follows the links (`OrderOK`); the numbering also excludes cycles, without which
`remove` would break the links. `NeverLate` compares with the wake time asked for:
the invariant has `due` equal to `until + late`, the latter the time of the interrupts
that came after the look at the clock and before the enqueue.
`PeriodAssumption` of `TimerPeriods` (sleeps and quantum are whole
periods and no sleep is longer than half the word: the kernel sleeps for milliseconds
and its period is one) is what keeps the unsigned subtraction from wrapping. The
theorems are about `Spec`, in which no interrupt comes inside `enqueue()`.

`QueueIsImplemented`: the list implements `SleepQueue`. The time `SleepQueue` says a
thread has left is a sum of distances along the links; `LeftIsRemaining` shows that it
is `due` less the time that has passed, which every step changes as `SleepQueue` asks.

**Files.** The theorems assume `Plain`: `Uses` is empty or `{"directory"}`. This is what
the passing run checks; the other uses are those the code does not serve (section 3,
the violated run and the list for `Uses`), and with each of them `IInv` fails.
`IInv` of `FileSystemProofs` names the clusters of every node, the first `len[n]` of
`ch[n]`, instead of following the FAT:

* `Layout`: the FAT links exactly these clusters in this order and ends each chain with
  the marker, the entries name the first ones, no cluster is in two places and all
  others but the root's are free; `len[n]` is what the size asks for. `ChainIs` is the
  only lemma about the recursive `Chain`: following the FAT finds `ch[n]`. Its changes
  are lemmas of their own: a chain grows by a free cluster (`ChainGrows`), chains are
  cut or freed (`ChainsAreCut`, `FoldFrees`).
* `CursorOK` (from which `CursorFollows` gets what `FilesTypeOK` says of cursors): the cursor of a reader is in its cluster or at the end of the file, that
  of a writer where the next byte goes; behind a last cluster that is full a writer
  stays on it, and its next write takes a new one. This is what an aligned cut breaks.
* `NodesOK`: an open node has a true copy of its entry, and a writer is alone, or
  another handle would use a stale size.
* `RefsOK`: a reference count is the number of open handles.

The loops of `read()` and `write()` have invariants of their own, `ReadGood` and
`WriteGood`: the clusters of the file, the cursor, and which bytes were moved where. A
turn keeps them (`ReadStepGood`, `WriteStepGood`) and gets ahead, so the loop ends with
the whole buffer moved (`ReadIsGood`, `WriteIsGood`).

`StoreIsImplemented` assumes `Uses = {}`: a directory that is open itself breaks the
promise of `FileStore` (section 3). The refinement maps a file to the bytes its chain
holds up to its size, an open node to its node, its mode and whether its next write is
its first, and the reference counts to the set of nodes that go with their last
handle. With `IInv` and `OnlyFiles` (handles are of files) each call is one step of
`FileStore`; reads, seeks and a refused delete are stutters. A write changes the bytes
of one file since `WriteGood` knows every cluster it has touched, and no file has
anything below it (`BelowIsDirectory`), so the last close does delete a marked file.

**Induction.** The library's induction theorems take an operator as a parameter, which
the provers cannot instantiate. What is proved about loops and recursive functions here
is proved by a least counterexample instead: the set of indices at which the claim fails
has a smallest element (`Smallest`), and the claim holds just before it. That this works
needs a claim about one turn; it was found for the lists, the chains and the loops of
`read()` and `write()`.

Only model-checked:

* `StopIsAnnounced`, `HandoffArrives`, `PoolSettles`, `TimerIsServed`: liveness under
  fairness, which needs ENABLED;
* all of `VirtualMemory`: its loops over levels and pages are folds within folds over
  nested tables of any depth, and the ownership of a frame is a reachability in that
  tree; no formulation by single turns was found that says who owns a frame in the
  middle of a roll back.

## 5. Plan

Done: all modules of section 2, and the proofs of section 4. What a next step would
be: proofs about `VirtualMemory`, beginning with its types and `HeapBelowLimit`.

## 6. Not modelled

* The slab allocator: sequential list surgery on top of `VirtualMemory`'s heap; next
  in line if the project grows.
* AHCI: command slots against a device whose timing the driver's code does not
  show. Its slot search masks with the index instead of 1 (`PortEngine.cpp:247`).
* The PS/2 keyboard: a ring between the interrupt handler and one reader, which
  overwrites unread keys (`PS2Keyboard.cpp:160`).
* PCI, GPT, ACPI: enumeration at boot; ACPICA is third-party code, and the bulk of
  the repository's lines together with yaml-cpp.
* System calls: thin wrappers; their entry and exit are in `Cpu`, `Core` and `Threading`,
  the memory calls in `VirtualMemory`.
* Apps: the address space side is in `VirtualMemory`; headers, arguments and the
  terminal are data transformation. Freya, the shell and the tools are sequential
  programs on top.
* Mounting, directory streams and node attributes of the VFS; formatting, long names
  and device errors of the FAT driver.
* Futures (the condition variable's use is that of the pool) and `Job.cpp`, which
  nothing calls.
