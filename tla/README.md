# Verification of Prosperismo's kernel objects, memory and GPU core

Prosperismo runs console software on a host computer. Guest code is executed natively;
the kernel it expects (threads, semaphores, event flags, event queues, memory, files) is
implemented in `src/src/kernel`, the system libraries in `src/src/libs`, and its GPU in
`src/src/graphics`, on top of Vulkan. This directory holds TLA+ models of the parts of that
program whose correctness depends on the order in which threads and the GPU act, the TLC
configurations that check them, and TLAPS proofs of the most important results.

`PROJECT.json` is the index: components, runs, mutants, the source lines each definition
models, findings, hazards and theorems.

## 1. Inventory

| Component | State | Operations | Interacts with | What is hard | Correct means |
|---|---|---|---|---|---|
| Kernel semaphore (`semaphore.cpp`) | counter, queue of waiter records, status | wait, poll, signal, cancel, create, delete | guest threads | grants racing timeouts, cancels and callers that barge in; deletion with waiters | no waiter sleeps on available units; units conserved; order kept; object outlives its waiters |
| POSIX semaphore (same file) | counter, waiter count, map of guest addresses | init, wait, timed wait, post, destroy | guest threads, guest memory | pointer used after the map's lock is released | a post wakes a waiter; no use after destroy |
| Event flag (`eventFlag.cpp`) | bits, status, number of sleepers; registry of names | wait, poll, set, clear, cancel, create, open, close, delete | guest threads | cancel and delete poll until all sleepers left, others keep arriving | a cancel reaches exactly those asleep; nobody is freed under a sleeper |
| Event queue (`eventQueue.cpp`) | list of events, pending triggers, timers, closed flag; registry of handles | add, trigger, delete event; wait; delete queue | GPU thread, AMPR, video output, guest threads | pin and use are two steps; fewer results asked for than pending; close with sleepers | each trigger delivered once, in order; sleepers notice events and the deletion |
| EOP registrations (`renderContext.cpp`, `sync.cpp`) | list of (queue, event) | add, delete, trigger all | event queue, GPU thread | snapshot and prune against concurrent add and delete | a registered event is told of every end of pipe |
| Command scheduler (`commandScheduler.cpp`, `masterSemaphore.cpp`) | tick, ring of command buffers, two queues of deferred operations, state | flush, finish, wait, defer, pop, shutdown; the priority thread | the device, every renderer thread | shared condition variable, callbacks that defer again, shutdown | operations run after their submission, none lost, shutdown ends |
| Stream buffer (`streamBuffer.cpp`) | offset, watches of this and the last lap | map, commit, copy | command scheduler, device, buffer cache | wrap-around, several laps, refused and abandoned mappings | a returned region is in use by nobody |
| Sync on address (`syncOnAddress.cpp`) | generation per address | wait, wake | guest threads | a wake between the guest's look at its word and the wait | a missed wake is healed by the time slice |
| Pthread objects (`pthread.cpp`) | owner and recursion of a mutex; list, counters of a condition variable; readers, writer, waiting writers of a read-write lock; once states; the word of a static object | the pthread API | guest threads | signal, broadcast, timeout and relock in any order; recursive readers against waiting writers | mutual exclusion, no lost wake-up, one initialisation |
| Threads (`pthread.cpp`) | pool entries and their flags, stack cache, keys and values | create, join, detach, exit, reap; set, get, delete key | host threads | flags written without the pool's mutex; destructors that set values again | an entry, a stack, a value has one owner |
| Memory (`memory.cpp`, `memoryAddressSpace.inc`) | virtual ranges, mappings of direct, flexible and pooled memory, the guest address space, the GPU's ranges | allocate, map, reserve, protect, name, commit, unmap, release | host calls, GPU resource manager | cutting and merging; a host call that fails half-way | five records in step, backing accounted for |
| Page tracking (`pageManager.cpp`, `regionManager.h`, `memoryTracker.h`) | per page: CPU or GPU dirty, watcher counts | mark, unmark, invalidate, fault; images track and untrack | caches, guest faults | locks dropped for a flush, then looked at again; two users of one page's counts | protection is what bits and watchers ask for |
| Range set (`rangeSet.h`) | intervals | add, subtract, query | caches | boundaries | equals the set of addresses |
| Buffer cache (`bufferCache.cpp`, `gpuResourceManager.cpp`) | device buffers, GPU-owned ranges, dirty pages, downloads under way | obtain, upload, download, fault, unmap, collect garbage | page tracking, scheduler, stream buffer, texture cache | the newest copy moves between four places | nobody reads an old copy |
| Video output (`videoOut.cpp`) | port, buffers, flip queue, counters | open, close, register, submit flip, prepare, complete, present | GPU thread, priority thread, present thread, event queue | four threads on one queue; close under requests in every state | flips in order, each shown or cancelled, counts exact |
| Command processor (`graphicsRun.cpp`) | command lanes, wait conditions | submit, process, sync | scheduler, EOP, flips | lanes waiting on each other | packets in order per lane |
| Shader recompiler, loader, file system, libraries, start-up | | | | data or I/O rather than ordering | |

The hazards of this code, each at its line and with the properties that would catch it, are
listed in `PROJECT.json`.

## 2. Plan

Done, in this order: `KernelSema` (the core object, with proofs), `EventFlag`,
`CommandScheduler`, `StreamBuffer` (with proofs), `EventQueue` with the EOP registrations;
then `AtomicSema` (the abstract semaphore, and the refinement), `PosixSem`, `SyncOnAddress`,
`EventFlagNames`, the pthread objects (`PthreadCond`, `PthreadRwlock`, `PthreadOnce`,
`PthreadPool`, `PthreadKeys`), `PageTracking`, `RangeSet`, `BufferCache`, `VideoOut` and
`KernelMemory` with `KernelMemoryLoops`; then the proofs about the semaphore (conservation and refinement), the event
flag, the scheduler, the event queue, the guest's synchronisation objects, the range set, the
flip queue, the buffer cache, page tracking and kernel memory. Every safety property that a run
checks is also a theorem, except the comparison of loops with results (`KernelMemoryLoops`).

To come:

1. An ideal timeline of deferred operations that `CommandScheduler` implements, and from it
   the guarantees `StreamBuffer` takes from the scheduler.
2. The guest command lanes and `SendCommandSync`; the lifecycle of modules in the loader;
   save-data mount slots and AMPR completion.

Modules are written to be proved about: parameters are CONSTANTS with named assumptions,
one action per operation, no RECURSIVE operators.

## 3. Modules

In all modules a method that keeps its mutex from entry to return is one action; a method
that releases it (a sleep, a poll, a callback) is one action per critical section. Names
follow the source. Each module contains, before the definition it mutates, an operator
`Mut...`: a plausible bug, used to confirm that the properties can fail. The mutants are
not part of the specification.

### KernelSema

`KernelSemaPrivate`: `count`, `queue`, `status` are `m_count`, `m_waiting_threads`,
`m_status`; a `WaitingThread` record is spread over `need`, `priority`, `timed` and
`outcome` (its `result`, with `"Pending"` for `!ready`). `Wait` is split into its early
returns (`WaitInvalCount`, `WaitDeleted`, `WaitFast`, `PollTimedOut`), `WaitBlock`, and the
two ways out of its loop (`WaitReady`, `WaitTimedOut`). The loop of `WakeWaiters` runs one
iteration per step with the mutex held (`scan > 0` disables everything else), which lets the
properties speak about each grant. The destructor is `DeleteBegin` and `DeleteEnd`. `ledger`
is history: what was put in minus what returned calls took. So is `signal`: the units before
the `Signal` that scans, its argument, and whom it has served so far. A signal may be negative, as
the code does not check it; `CountFloor` bounds how far the counter can fall.

### EventFlag

`status`, `bits`, `waiting` are the fields of `KernelEventFlagPrivate`; `asleep` is the set
of threads inside `CondVar::WaitFor`, which the code only counts. `doomed` is history: who
was asleep when a cancel or the deletion announced itself. `Set`, `Clear` and `Cancel` wait
for the status to be `Set`; a call after the deletion began ends the program
(`EXIT_NOT_IMPLEMENTED`) and is outside the guest's contract.

### EventQueue

One queue: `registry` (its handle is in `g_equeues`), `closed`, and `order` (`m_events`), with
`triggered`, `current`, `pending` and `deadline` of each event. Every kernel call is two
steps: pin, then the method. `Kind` selects the trigger and reset functions; `Scan` is
`GetTriggeredEvents` with its limit on results (`Taken`: an event gives as many results as there
is room for behind those of the events before it); `Unlist` erases events and keeps the
others in order. Payloads are stamps that number the
triggers. The renderer's `m_eop_eqs` is `eopList`, and `gpu` is the control state of
`TriggerEopEvent` on the GPU thread: snapshot, pin, trigger, prune, then the AGC user event on
all queues. `sent` and `got` are history. Sleeps are bounded: `CondVar::Wait` returns after
10 ms once the signal poll callback is installed (`pthread.cpp` installs it at start-up), so
`Wake` is always possible and `CondVar::Signal` only shortens the sleep.

### CommandScheduler

`curTick`, `known`, `current` are `m_current_tick`, `m_gpu_tick`, `m_current`; `pending`, `prio`,
`active`, `opState` the queues and their state. The owner (the GPU thread) submits, waits,
polls and shuts down; the runner is `PriorityOperationsThread`; `Others` defer concurrently.
Callbacks may defer again. `sleepers` are the threads blocked on the one condition
variable; `notify_one` wakes any of them. A priority operation is queued with the mutex held and
notified after it is released: two steps. `owes` says which operation a thread has queued and not
notified yet, and that thread does nothing else before it; the others may begin to wait in between.
An operation is `taken` if its notification woke a thread that is not the runner. The runner's critical section that ends in `wait` is
split in two (`RunnerEval`, `RunnerBlock`, mutex held in between), because `Shutdown` requests
the stop without the mutex. The device (`GpuComplete`) is external: it completes
submissions in order, signalling fence and semaphore together.

### StreamBuffer

`offset`, `mapped`, `current`, `previous`, `waitCursor`, `waitBound` are the fields of the ring,
`call` the locals of `Map` while it waits. `used` is history: for each byte the tick of the
last commit that covered it. A mapping that is never committed is replaced by the next
one, as `BufferCache::ObtainBuffer` does. Sizes are naturals; the tests for 64-bit overflow in
`AlignUp` and `NormalizeReservation` cannot fire for a ring that fits in memory and are left
out. The ring is used by one thread; ticks complete in order, and in a download ring the
priority thread follows the device (`RunPriority`): these are the guarantees
`CommandScheduler` checks as `OpsAfterCompletion` and `PriorityWaitCovers`.

### AtomicSema

The semaphore a guest may rely on: a count and the needs of those who wait, no queue, scan or
lock. A signal adds its units and serves waiters in one step; whom is left open, but nobody
who could be served with what is left stays behind. `KernelSema` implements it
(`ImplementsAtomic`): the abstract signal takes effect when the concrete one ends. While a scan
runs, the mapping shows the state from before it (the counter of `signal`, and those it has
served as still pending), so that the iterations of `WakeWaiters` are stuttering. Nobody sees
the difference: the mutex is held until the scan ends.

### EventFlagNames

The registry of event flags: which flag is live, which name resolves to it, and its
references, under `g_event_flag_registry_mutex`. The flag is deleted after the mutex is
released, which `KernelCloseEventFlag` and `KernelDeleteEventFlag` may both attempt.

### PosixSem, SyncOnAddress

`PosixSem`: `m_count` and `m_waiters`, and the copy of both in guest memory. Each pass of the loop
in `Wait` is a step. The guest keeps POSIX's rule: it destroys or re-initialises a semaphore
only while no call on it is in progress. `SyncOnAddress`: the generation of one address, with a
guest lock around it, because the wait does not look at the memory: a wake can fall
between the guest's look at its word and the wait. Its 100 ms timeout heals that, which is
what `MissedWakeHeals` says. `Wake` changes the generation under the lock (`WakeBegin`) and
notifies after it (`WakeNotify`): a wake is known by the generation it made, `unsent` are those that
have not notified, `ofAll` those that are of every waiter, and `notifiedBy` is the wake that chose a
sleeper. A thread that begins to wait in between has the new generation already; if it is chosen it
sleeps on, and the notification is spent.

### PthreadCond, PthreadRwlock, PthreadOnce, PthreadPool, PthreadKeys

`PthreadCond`: a mutex (owner, recursion) and a condition variable (list, `sequence`, and a
`cond_sequence` per thread). The counters are compared for equality only; the model keeps the
parity of a thread's, and `ListedIffWaiting` shows that it moves at most once during a wait. `held` and `owed` are
history: how often the thread was told it has the mutex, and whether a signal chose it.
`PthreadRwlock`: writer, readers with a count each, waiting writers; one step per pass of
`RwlockLockCooperative`. `PthreadOnce`: `pthread_once`, and the first use of statically initialised
objects (`CreateObject`) with its check before and after the lock. `PthreadPool`: entries with
`free`, `detached` and `almost_done`, each written in a step of its own where somebody
else may look, the reaper, and the cache of stacks; host threads are external. `PthreadKeys`:
keys are slots that are reused; `Destruct` collects under the mutex and calls without it,
`Iterations` passes at most.

### PageTracking

The page manager's counts and protections, the dirty bits of the memory tracker, and the
watches of images in the texture cache. Tracker operations exclude one another, and so do
those of images; the two meet in the page manager, which locks one region at a time. A step
of an operation is therefore one region of it; it starts the loop of `UpdateRegionWatchers`, and
every iteration of that loop is a step, with its locals in `scan`. Nobody else steps while a loop
runs: its region is locked, and what the other thread could do meanwhile in another region
reads and writes nothing of the loop's. The regions an operation has left, and the calls an
image has left, are sets taken in ascending order. `InvalidateRegion` gives up its locks for the
flush and looks again. A check of the code that would end the program sets `fatal`.

### RangeSet

The interval map and its operations. An iteration of the loops of `Add` and `Subtract` is a step,
and `loop` holds their locals: the entries from the iterator on (`rest`), and the range being
put together. `bytes` is the set of addresses the map should stand for, and `QueriesExact`
compares every query with it for every argument between two operations.

### BufferCache

Contents are reduced to where the newest value of each address is: guest memory, a device
buffer, a download under way. Operations run on the GPU thread, one step each; guest loads
and stores, and the completion of deferred downloads, fall between them. Any range of addresses may
be drawn, filled, copied, or be an image, and blocks are mapped and unmapped at any time.
`FinishCurrent`, which runs the deferred downloads one after the other, is stated by what
they leave: download k writes back what the ones before it did not carry away (`Carried`).

In some cases the code lets a value be missed, and `CacheCoherent` cannot hold of the pages it does
that to. Rather than keep the cases out, the model does what the code does and notes the pages:

- `torn`: the CPU bit was cleared although not all of the page was copied, so the GPU may read an old
  value there. An image stages exactly its own range and takes up whole pages (`StageImage`;
  `Skippable` are the ranges whose copy would reach out of the staging buffer); the guest may store
  to a page between the staging, which is done without the lock, and the clearing of the bits
  (`late`); and an upload skips a reported range that is not readable as a whole (`Upload`, which
  the tracker's `Run`s are there for). The guest still reads the newest values.
- `astray`: either side may. The page was taken up between the collection of its buffer and the
  download (`Merge`; finding 3), the GPU was let write beside what a torn page misses
  (`ObtainForWrite`), or guest memory was unmapped there, or mapped below a page in use (`Unmap`,
  `Remap`).

The first note goes when the page is the CPU's again, the second when it is uploaded whole or mapped
anew while it is the CPU's. Nothing else may make a side read an old copy, and a
note never excuses the records: `DirtyPagesExact` is stated of every page. A check of the code that
ends the program sets `fatal`, with its reason: `CacheSurvives` says which may. A fault inside a
deferred operation, which ends the program for a page that is not clean, is left out.

### VideoOut

The port, its registered buffers and the flip queue, between guest threads, the GPU thread
(which records frames, for CPU flips as jobs, and executes the flips of command buffers), the
priority thread (which completes them when the GPU has) and the present thread. Requests are
reserved, prepared, completed, shown or cancelled in separate steps; what a step found before
it released the queue's mutex is checked again by the code, and a failed check sets `ended`.
`SetFlipRate` and `RegisterBuffers` look the port up first and change it later, open or not; `Open`
ends the program if the port is not as `Close` left it ("StaleRate" for the flip rate, "Broken" for
buffers).
Only `m_requests` is kept in an order; the other two lists are searched by identifier and counted,
so they are sets. The stable sort of `m_requests` is stated by what it is (`Stable`: the one
permutation that puts no element behind one it precedes and swaps no equal ones).

### KernelMemory

Five records say what a page of the guest is: `VirtualRanges`, the mappings of the owner of
its backing (direct, flexible, pooled), the host's address space, and what the GPU may access.
Every call holds `g_memory_operation_mutex`, so it is one step; inside the step `fault` is the
call to the host that fails (the one that maps or protects, the unmapping of the chunk that
starts at page `fault`, or none), and the result is what the code's undo path leaves. One failure
per call: the undo itself succeeds. `allowed` is the mix of calls a behaviour uses; the mixes
cover every call, and keep calls together that touch the same records. A page stands for the
unit of every alignment.

The code's loops over ranges are stated by what they leave: cutting gives the maximal runs of
pages that are left of every range (`Parts`), merging joins ranges from one start that nothing is
joined to up to the next such end (`Merge`), unmapping releases the chunks before the first that
fails (`Completed`), and free offsets go behind pages in order, the lowest first (`Lowest`). `KernelMemoryLoops`
has the loops themselves, one range or one chunk at a time over lists in the code's order, with the
rollback chunk by chunk; `MemoryLoopsAgree` compares the two.

### Proof modules

`QueueLemmas` (insertion into and removal from a sequence without duplicates; the smallest and
the largest element of a set of naturals),
`KernelSemaProofs`, `StreamBufferProofs`, `EventFlagProofs`, `CommandSchedulerProofs`,
`EventQueueProofs`, `GuestSyncProofs` for the objects of `MCGuestSync` (the pthread objects,
POSIX semaphores, addresses, the names of event flags, kernel memory), and `GpuMemoryProofs` for the parts of
`MCGpuMemory` (page tracking, the buffer cache, the range set, the flip queue).

## 4. Runs

Components that do not call one another are checked as a union rather than a product:
`MCGuestSync` and `MCLive` (variable `program`), `MCGpuMemory` (variable `part`) and
`MCEventQueueLive` choose at the start which one moves. A property of such a run is the
conjunction of the named properties of its components.

| Run | Instance | Shows |
|---|---|---|
| `sema` | 3 threads, max 2, needs 0 to 2, signals -1, 1 and 2, cancels to -1, 0 and 2, FIFO and 2 priorities | `TypeOK`, `NoLostWakeup`, `UnitsConserved`, `DeleteSafe`, `NoOvertaking`, and the refinement `ImplementsAtomic` |
| `flag_cancel` | 3 threads waiting for 2 bits in all modes, flags for one and for many waiters, with fairness | `TypeOK`, `CancelLeavesNobody`, `CancelReachesAll`, `BlockedLeave` |
| `queue_delivery` | 2 threads and the GPU thread, three mixes of events, 3 triggers, 1 or 2 results | `TypeOK`, `ExactlyOnce` |
| `queue_live` | 2 threads, a descriptor event and a timer; a video output with a queue of two | `SleeperNotices`, `WaitersLeave`, `FlipsLeave` |
| `queue_listed` | EOP and the AGC event as an edge | violates `EopListed` (finding 1) |
| `scheduler` | owner, runner, one other thread, ring of 2, 3 ticks, 2 operations, with fairness | `TypeOK`, `OpsAfterCompletion`, `NothingLost`, `PriorityWaitCovers`, `PriorityOpsRun` |
| `scheduler_shutdown` | the same without another thread, 2 ticks | violates `ShutdownCompletes` (finding 2) |
| `guest_sync` | nine guest programs, see below | eleven properties, see below |
| `guest_live` | the same objects with fairness, a kernel semaphore of 2 threads, a download ring of 8 bytes with atoms of 2 | `RegionsSafe`, `WakeupsNotLost`, `CallsEnd` |
| `gpu_memory` | 3 pages in 2 regions with 2 images; a cache of 2 pages with 3 addresses, any ranges and images; 9 addresses; a flip queue of 2 | `GpuTypeOK`, `TrackingExact`, `CacheCoherent`, `RangesAreSets`, `FlipQueueExact`, `FlipsInOrder` |
| `garbage` | the buffer cache, 2 pages of 2 addresses in one block | violates `GarbageCovers` (finding 3) |
| `alias` | direct memory of 2 pages in 3 | violates `AliasesOwned` (finding 4) |

What the conjunctions of the union runs say:

- `SyncConsistent`: the types; the guest's copy of a POSIX semaphore is exact whenever its mutex
  is free (`GuestCopyExact`); a notification is spent for nothing only on a thread that came after the
  wake it is of, and once a wake of all has notified, nobody from before it sleeps on unchosen
  (`WakesReach`); a flag is deleted once, and not while a name leads to it (`FlagDeletedOnce`).
- `CondAgrees`: a thread has the mutex exactly as often as its calls told it (`LocksAgree`), and is
  listed exactly while nothing has woken it (`ListedIffWaiting`). `SignalsAnswered`: a wait returns
  OK exactly if a signal or broadcast chose it.
- `RwSafe`: one writer or readers (`RwExclusive`), nobody waits for itself (`NoSelfWait`).
  `ReadersDrain`: while a writer waits, readers become no more.
- `FirstUseOnce`: the routine runs once and no caller returns before (`OnceExactly`); all users of
  a static object use the same one (`OneObject`).
- `PoolOwned`: entries and stacks have one owner (`EntryOwned`, `StacksApart`).
- `ValuesDestroyed`: a value is destroyed once, by its own key's destructor, and none is left
  (`DestroyedOnce`, `NothingDueLeft`).
- `NameKept`: a name resolves to the first flag that took it until that flag goes.
- `MemoryInStep`: ranges disjoint and merged (`RangesCanonical`), owners and ranges agree
  (`OwnersAgree`), no backing page lost or owned twice (`BackingAccounted`), the host maps what
  the owners say, the GPU only committed pages.
- `MemoryLoopsAgree`: cutting, merging, adding, editing and finding ranges (`RangesAsLoops`), unmapping,
  replacing and protecting chunks with a failure at every one, and taking free offsets
  (`ChunksAsLoops`), in every reachable memory and at every place.
- `RegionsSafe`: a region `Map` returned is in nobody's use (`MappedIsIdle`), nor is, where write-back
  takes whole atoms, any other byte of its atoms (`AtomIsolation`).
- `WakeupsNotLost` and `CallsEnd`: `FreeMutexTaken`, `FreeLockTaken`, `PostsNotLost`,
  `MissedWakeHeals`; `OnceReturns`, `ThreadsReaped`, the destructor of a kernel semaphore and `Map`.
- `TrackingExact`: a page has the protection its watchers ask for, marks and removals pair up,
  and no check fires (`ProtectionExact`, `WatchersPair`, `TrackerSurvives`).
- `CacheCoherent`: neither side reads an old copy of a page that is not noted as torn (for the GPU)
  or astray (for both), pages and ranges agree (`GuestSeesNewest`, `GpuSeesNewest`,
  `DirtyPagesExact`), and a check ends the program only for a page taken up or a buffer looked for
  between its collection and its download, or where guest memory is missing (`CacheSurvives`).
- `FlipQueueExact`: no recheck fails, nor the checks of `Open` but that of the flip rate, and what `GetFlipStatus` reports is the queue's state
  (`FlipQueueSurvives`, `FlipCountsExact`). `FlipsInOrder`: shown in the order asked for.
- `BlockedLeave`: `SleepersLeave` and `DrainCompletes`.

**Bounds.** Three threads let a granted waiter, a pending one and a caller that barges in
coexist; with two priorities and needs above and below the counter every branch of
`AddWaiter` and `WakeWaiters` is taken. Three threads on a flag give a sleeper that is
doomed, one that arrives during the cancel, and a caller. `MaxStamp = 3` lets an event hold a
current trigger and two pending ones, and a scan of one or two results leaves some behind.
`MaxTick` and `MaxOps` bound a scheduler run; the ring of two is full after two submissions,
so reuse and wrap-around happen. Eight bytes with requests that do not divide them make the
stream ring wrap at different offsets. A condition variable has three threads: one signalled,
one timing out, one arriving. A read-write lock has four: a recursive reader, another, two
writers. Two entries and two creators make an entry be reused while the reaper looks at it;
`Iterations = 2` of `Destruct` with `MaxValues = 3` lets a destructor set a value in the last pass.
Three pages, two in the first region, give an image that crosses regions and one that
shares its pages; nine addresses hold three ranges with gaps between and outside them.
The cache's pages of two addresses and of one let a range fill a page, start or end inside one, or
cross both; one download is under way at a time (two were tried as well, and four addresses in blocks
of two pages, which is the instance of `garbage`). `MaxGeneration = 2` lets a wake's notification come
after the next wake, and after threads that began to wait in between.
`MaxRequests = 3` overfills a queue of two, and `MaxPortChanges = 3` opens a port, closes it under
its requests and opens it again. Three pages of guest memory are what cutting a range in the
middle takes; two backing pages can be mapped in and out of order and aliased.

Symmetry under permutation of threads is used only in runs without liveness properties.
Deadlock is checked in `sema` and `flag_cancel`; in the others the system really may stop: after
shutdown, after the deletion of the queue, when every thread has ended, or at a bound.

**Fairness.** Only of what the program does by itself: a sleeping thread wakes at the end of
its slice (10 ms for semaphores, queues and the pthread objects, 100 ms for addresses, 1 s for
event flags) and leaves if it may; a polling loop looks again; a thread holding a mutex goes
on; the device completes what was submitted; a vertical blank comes. No call of the guest is
assumed, except that the guest of `SyncOnAddress` looks at its word again when a wait returns
and that an initialisation routine ends. All of it is weak, but for two actions of
`queue_live`: `TakeJob` is strongly fair because the GPU thread takes submissions in order, so a
preparation does not wait for ever behind packets that keep coming, and `Cancel` because the
present thread sleeps between vertical blanks and lets `Close` find the queue with no request in
hand. `DrainCompletes` has the premise that new sleepers stop arriving: without it, threads
that keep sleeping on the flag hold `Cancel` in its loop. `FlipsLeave` excepts a GPU thread that
waits, for a slot or for a flip, on a CPU flip that only it could prepare.

## 5. Findings

1. **A registered EOP event can be left unlisted** (`renderContext.cpp:102`, run
   `queue_listed`). The GPU thread copies the list; the guest deletes the event; the trigger
   fails with `ENOENT`; the guest adds the event again and lists it; the GPU thread then prunes
   by the pair (queue, id) and removes the new entry. No later end of pipe reaches the event.
   The prune would have to recheck the event, or compare an identity of the registration.
2. **Shutdown can hang** (`commandScheduler.cpp:132`, run `scheduler_shutdown`). `request_stop`
   and `notify_all` are called without `m_operation_mutex`; both can happen after the priority
   thread has evaluated its predicate and before it blocks. The window is small: the wait is
   a plain `std::condition_variable` that knows nothing of the stop token. Requesting the stop
   with the mutex held closes it.
3. **Garbage collection can retire a page that was written again** (`bufferCache.cpp:218`, run
   `garbage`). The download of a collected buffer is recorded at once and the unmarking of its
   whole range deferred. A draw in between can obtain a new buffer on those pages and write
   it; the deferred operation then publishes the old value over it, or ends the program at its
   own check. Unmarking only what the download covered, or a recheck of the ranges, closes it.
4. **Releasing direct memory can end the program** (`memory.cpp:2775`, run `alias`). The release
   requires each mapping to lie in one virtual range, but naming part of a mapping cuts the
   range and not the mapping; so does the undo of a fixed mapping the host refused. Allocate
   two pages, map them, name one, release: the internal check fails.

Not shown by a run of its own:

- A notification of a priority operation can go to the wrong thread (`commandScheduler.cpp:280`).
  `notify_one` wakes any sleeper of the condition variable, and it comes after the mutex is
  released: an owner in `Drain` or `WaitPriorityOperations`, or a thread that waits for the close, can
  take it while the priority thread sleeps on. The operation then runs only after another
  notification, and a drain that waits for it can hang. `PriorityOpsRun` excepts exactly the
  operations whose own notification was taken; `notify_all` would close it.
- A flip rate set on a port that is closed ends the program at the next `Open`
  (`videoOut.cpp:1343` to 1354, the `EXIT_IF` at 631): `SetFlipRate` looks the port up, `Close` resets
  the rate, `SetFlipRate` writes it. `FlipQueueExact` excepts this one ending.
- An image that does not fill its pages, or that the guest stores to while it is staged, leaves the
  GPU an old copy of the rest (`bufferCache.cpp:656` to 692); so does an upload that skips a range it
  cannot read (`bufferCache.cpp:77`), because the CPU bits are cleared all the same. These pages are
  `torn` in the model, and a GPU write to the whole of one makes it `astray`.
- `KernelMunmap` that fails half-way leaves committed pages the GPU no longer maps (`MemoryInStep`
  excepts them).

## 6. Proofs

**KernelSema** (`KernelSemaProofs`), for every set of threads, every counts and priorities.
`NoLostWakeup` is not inductive: it speaks only of the moments when no scan is running, and
the scan that re-establishes it takes many steps. The invariant `IInv` adds that a thread is
queued at most once (`Distinct`), that queued needs are positive (`PositiveNeeds`), that the
positions the scan has passed hold nobody who could be served (`Scanned`: the counter only
falls during a scan), that only a live semaphore is scanned (`ScanLive`), that in FIFO order
the grants respect position (`FifoFair`), and that the freed object has no waiter
(`DeleteSafe`). One lemma per action shows that it is preserved;
`InsertAtFacts` and `RemoveAtFacts` of `QueueLemmas` say where the elements of the queue are after
it changes. From it follow `TypeCorrect`, `NoWakeupIsLost`, `FifoIsFair`, `DeletionIsSafe` and the
action property `NobodyOvertakes`. Assumptions: `CreateAssumption` (what `KernelCreateSema`
checks) and `ArgumentAssumption` (types).

Two more results need what the calls are doing as well. `UnitsAreConserved` and
`SemaImplementsAtomic` rest on `LInv`, which adds to `IInv` that a thread outside `Wait` has no
record left (`Records`), that the granted units are finitely many and balance the counter
(`Balance`), and what the running signal has done so far: the counter is what it found, plus
its argument, minus the needs of those it served (`Progress`). Units are counted as a set of
pairs (thread, number), so that one more waiter is one disjoint union (`UnitsOf` and its
lemmas). The refinement is proved action by action: `SignalBegin`, `WakeGrant` and `WakeSkip` map
to stuttering, `SignalEnd` to the abstract `Signal` with the set it served as the witness, where
`Scanned` is what shows that nobody else could have been.

**StreamBuffer** (`StreamBufferProofs`), for every ring size, atom, set of requests and bound.
`MappedIsIdle` speaks of a moment; what makes it true is what the watches know. `IInv` says
that a watch of this lap is late enough for every byte below its bound, and the last one for
every byte (`CurrentCovers`); that the watches of the previous lap are late enough for the bytes
at or behind the offset that lie below their bounds, and the last one for all of those
(`PreviousCovers`); that the bytes from the offset up to the wait bound are free, and all of them
when every watch was waited for (`Waited`); that the locals of a waiting `Map` satisfy the same
for the offset they have moved to (`CallInv`); and that no byte is used by a tick that was not
begun (`UsedInv`). `RegionsAreIdle` follows, and `RingTypeCorrect`. `AtomsAreIsolated` needs in
addition that offsets are multiples of the atom (`WholeAtoms`), which rests on the arithmetic
of `AlignUp` and of the least common multiple (`AlignUpFacts`, `AlignmentFacts`); `RegionsAreSafe` is both.

**EventFlag** (`EventFlagProofs`), for every set of threads, pattern and set of requests. `IInv` is the
type invariant with its count (`m_waiting_threads` is the number of threads inside `WaitFor`),
that this set is finite, and `CancelLeavesNobody`. The count is what the polling loops of
`Cancel` and of the destructor read: zero means that nobody is asleep (`NobodyCounted`), so that
nobody they announced themselves to is left. Theorems `FlagTypeCorrect`, `NobodyLeftBehind`, and
the action property `AnnouncementReachesAll`. Assumption: `FlagAssumption` (the calls reject an
empty pattern).

**CommandScheduler** (`CommandSchedulerProofs`), for every ring of at least two command buffers and any
number of threads, submissions and operations. `OpsAfterCompletion` speaks of operations that
have run; that it goes on holding needs to know where the others are. `IInv` says that the
owner's control state follows `m_operation_state` (`Phase`); that every submission still under
way is in a buffer of the ring, and the current buffer in none of them (`Ring`: this is what
keeps the timeline from running ahead of the ring); that queue entries carry the tick of
their operation, the priority queue in rising order, and what a thread has taken out is one
it may run (`Queues`); that an operation which has not run is in its queue or in a thread's
hand (`Accounted`); and that shutdown's last poll finds every pending operation free, after
which the queues stay empty one by one (`Emptied`). Theorems `SchedulerTypeCorrect`,
`RunsAfterCompletion`, `ShutdownLosesNothing` and the action property `PriorityWaitIsEnough`, whose
core is that the front of a sorted queue bounds the rest. These are also the guarantees
`StreamBuffer` takes from the scheduler. Assumption: `SchedulerAssumption`.

**EventQueue** (`EventQueueProofs`), for every set of threads and events, whatever kinds the events
have and however few results are asked for. `ExactlyOnce` is part of a larger equation: what
was sent to a queueing event is what was received followed by what the event holds, its
current trigger and then the pending ones (`Accounted`). It is preserved because only a
triggered queueing event has pending entries and an unregistered event holds nothing
(`Clean`), and because a scan takes a prefix of what is available (`TakesBound`, `SplitAt`). Events
are registered at most once (`order` is injective), which `Unlist` keeps. Theorems
`QueueTypeCorrect` and `DeliveredExactlyOnce`. Assumption: `EventAssumption`.

**Guest objects** (`GuestSyncProofs`), each for any number of threads and any bounds:

- Read-write lock: the counters count finite sets (`ReadEntries`, one pair for each entry of a
  reader; `Writing`), and exclusion and the absence of self-waits are then inductive.
  `RwlockIsSafe`, `RwlockDrains`.
- Once and static objects: one thread at most is between the start of the routine and its
  publication, and `onceState` says so (`OnceStates`); the holder of the lock creates only while
  the word holds no object (`StaticStates`). `OnceIsOnce`.
- Names of flags: a published name stands for a live flag that has it, and a live flag has a
  reference (`FlagsIInv`). `NamesAreKept`.
- Keys: a value is stored under the key it was set for (`ValuesStored`), or on the list of the
  one thread that collected it (`ValuesListed`), or its destructor was called (`ValuesCalled`), and
  never two of these. `ValuesAreDestroyed`.
- Mutex and condition variable: for each place in the code, what the thread holds and whether
  it is listed (`CondThreadInv`). `CondIsConsistent`, `SignalsAreAnswered`.
- Pool of threads: whoever is in a call has its entry to itself, and what it does with it says
  which flags the entry may have (`CreatorInv`, `ReaperInv`); the reaper tells a thread to join by
  three flags that others write, and nothing else that is not free is detached and almost
  done (`EntryInv`); every stack in use or cached was cut off the range (`PoolStacks`). `PoolIsOwned`.
- POSIX semaphore: `PosixIInvHolds`. Addresses: what a sleeper observed and who chose it are
  generations that were made, and a sleeper from before a wake of all that has notified was chosen
  (`AddrIInvHolds`).
- `SyncIsConsistent`: the union of the programs implements each of their specifications
  (`ProgramStep`), so that the invariants above hold in it.

**Kernel memory** (`GuestSyncProofs`), for every number of pages, of direct and flexible pages, and
every mix of calls. `MemoryInStep` says that no internal check or rollback fails, so that the
invariant `Fine` (`MemoryOK`, and a status that is not "Broken") has to say what each of them relies on:

- ranges are well-formed, disjoint and merged (`RangesOK`);
- the mappings of direct memory cover exactly the pages of the direct ranges, and every direct
  range lies in one mapping that has its protection and its offset relative to the page (`MapsOK`,
  `Backs`). Names cut ranges and not mappings, protections cut both and unmapping cuts both:
  this is what the three leave true between records that do not have the same parts;
- flexible and pooled memory have exactly the pages of their ranges;
- the host has behind every page what its owner says, and nothing behind a page without a
  committed range (`HostOK`);
- every offset of the backing is free, allocated or of a pool's expansion, and every flexible or
  pool offset free or behind exactly one page (`BackingOK`, `Fills`);
- the GPU has the committed pages, less those a failed unmapping took from it (`GpuOK`).

Three layers of lemmas. What the operators on ranges do, page by page: `PartsFacts` (the parts are
disjoint ranges with exactly the pages asked for, each a part of one range), `MergeFacts` (a merge
changes no page's type, joins nothing that differs and leaves nothing to join; it rests on
`MergedRangeFacts`, which follows a chain of joined ranges to its end by taking the smallest
counterexample), `EditFacts`, `ProtectFacts`. Then two relations between records that keep `MemoryOK`
whatever the call: `Kept`, in which a set of pages was given back to its owners and to the host
(`KeptOK`), and `Grown`, in which a committed range was added with what is behind it (`GrowOK`).
Then each call: what it leaves is one of these or a composition of them, whether the host fails in it
or not. In `ReplaceOK` and `RestoreOK` the interesting half is the failure: a
chunk taken from direct memory comes back as a mapping of its own, cut out of the old one, and the
offsets it needs are still allocated because no call can release them in between. `NextFine` puts the
calls together; `AccountOK` turns the ownership maps into the counts of `BackingAccounted`.
`MemorySpecInStep` and, in the union of the guest programs, `MemoryStaysInStep`, from
`MemoryAssumption` (types of the bounds). A behaviour that reached "Escaped" (finding 4) or misused
a call has ended: the property is about programs that run.

**Range set** (`GpuMemoryProofs`), for every last address. Between operations the map is `Maximal`
(non-empty entries with keys of their own that neither overlap nor touch) and holds `bytes`;
inside a loop that is not so, and `RangesIInv` says what is: the entries from the iterator on are
those whose key is not below some bound (`Ahead`); while `Add` runs, the entries with the range
put together so far are what the map was with the new range added, and everything behind the
iterator ends before that range begins (`AddInv`); while `Subtract` runs, the map differs from
`bytes` at most by what is subtracted, and only ahead of the iterator (`SubtractInv`). That `Contains`
is right looking at one entry only is where `Maximal` is used: a contained range cannot be
covered by two entries. `RangeSetIsExact`, from `RangeSetAssumption`.

**Flip queue** (`GpuMemoryProofs`), for every number of guest threads, buffers, requests and any
capacity. `FlipQueueExact` says that no recheck of the code fails, so the invariant `VideoIInv` has to
say what every thread may rely on while it does not hold the queue's mutex:

- where a request can be: in one list, with an identifier below the next (`QueueShape`), and in
  each list only in the states that list is for (`PlaceInv`);
- in whose hand it is: a request that waits to be prepared, to be recorded or to be completed
  is in exactly one of the GPU thread's locals, its jobs, the end-of-pipe operations and the
  priority thread's locals (`HandInv`, `ApartInv`), which is why a second `Prepare` or `Complete`, the
  checks that would end the program, cannot happen, and why a cancelled request is still found;
- to which opening of the port it belongs: the requests in the queue of an open port are of
  its generation and their buffers registered, those of a closed one are cancelled or gone
  (`PortInv`), and the port counts exactly them, and those the GPU has not executed (`CountInv`);
- the order (`OrderInv`): no two requests have the same one, and all are below the next and
  above the last one shown;
- what the present thread is about to show: a request that nothing in the queue or among the
  CPU flips still to be prepared precedes, and nobody else presents (`PresentInv`).

`SortFacts` (the sort leaves the same requests, in order), `PutFacts` and `RemoveFacts` carry these
over the changes of the lists; one lemma per action follows. `FlipQueueIsExact`, `FlipsAreShownInOrder`, `VideoOutIsTyped`, from `VideoOutAssumption`.

**Buffer cache** (`GpuMemoryProofs`), for any number of addresses, any page, block and region size,
any number of downloads under way, and no hypothesis on the guest or on images. `CacheCoherent` does not
say where a value that a reader misses could be found; the invariant `Coherent` does, page by page:

- no two buffers overlap, what is newest on the device is in a buffer, and a page that is not the
  CPU's is in a buffer or in a download (`BufsInv`);
- a page is the GPU's exactly if it holds a modified range, and then not the CPU's (`DirtyInv`);
- a page that is not mapped, or whose protection the tracker does not know, is astray (`MappedInv`);
- off the astray pages, the newest value of an address is in guest memory or in a modified range, a
  modified one is on the device or in a download, and every one is on the device unless its page is
  the CPU's, torn, or in a download (`NewestInv`);
- off the astray pages, a download carries exactly the modified addresses of its pages, all of them
  new, and these pages are in no buffer and in no other download (`GarbageInv`). This is where a page
  taken up between collection and download has to be noted: finding 3 breaks it.

`Survives` is what may end the program. One lemma for each thing an operation is made of (`TakeUpFacts`,
`UploadFacts`, `MergeFacts`, `OutdateFacts`, `StoredFacts`, `GiveBackFacts`), then one for each operation;
`FinishFacts` follows all deferred downloads at once, in an order that matters only on astray pages.
`CacheIsCoherent`, `CacheIsTyped`, from `BufferCacheAssumption`.

**Page tracking** (`GpuMemoryProofs`), for any number of pages, any region and page size, any images
at any addresses, under the hypothesis `CountersSuffice`: fewer images than `write_watchers` can
count (the code ends the program otherwise, which is `fatal`). `TrackingExact` speaks of the moments
between two loops; `TrackIInv` has to hold inside them:

- the loop (`LoopInv`): every page has its protection, but for the part of the current run that
  waits for its call, and all pages of that run have the protection of the run. This is why
  the merged call may include pages it was not made for. That pages are skipped unless a count
  reaches 0 or 1 is right because no other change of a count changes a protection
  (`EdgeIsNeeded`), a case analysis over both counts of a page;
- the counts (`PairInv`): `Final`, what a page's counts will be when the loop is through, pairs
  with the dirty bits and the images at every step, not only between loops; with `ChunksInv`
  (a call an image has yet to make is for pages no other call is for, that the image watches
  already, or no longer) it follows that no count overflows or falls below zero (`FinalInRange`);
- the regions (`KnownInv`): no page of a region the page manager does not know has a watcher, so
  that none is released that was never watched;
- the tracker (`BitsInv`, `TaskInv`): the bits it compares with are up to date, and the operation in
  progress has still to visit every page it has to clear before its second pass, so that no
  page is marked for one side while the other has modified it;
- the images (`ImagesInv`): what an image watches is its range, less the first or the last page.
  `ImageFactsAt` and `TrackedPages` compute the pages of these for every position in a page.

`TrackingIsExact` and, with the two parts above, `GpuMemoryIsTyped`, from `TrackingAssumption`.

The assumptions are those of the modules: bounds are naturals, the marker "no thread" is no
thread, an initial value is at most the maximum. Every inductive invariant was checked by TLC
on the run's instance before it was proved.

**Only model-checked.** All liveness properties (`BlockedLeave`, `SleeperNotices`, `WaitersLeave`,
`FlipsLeave`, `PriorityOpsRun`, `WakeupsNotLost`, `CallsEnd`): they rest on fairness and ENABLED,
which the prover does not handle. The four violations are TLC's counterexamples. That the
operators `KernelMemory` states by their result are what the code's loops compute (`MemoryLoopsAgree`) is
compared by TLC: for every map it would take an induction over the lists.

## 7. Not modelled

The components marked `not_modelled` in `PROJECT.json`, with their reasons. Most of the program's
160,000 lines are of these kinds, whose behaviour is a function of data or of the host and not
of an order of steps: the shader recompiler and its tests of instructions, the decoders of
guest packets (`pm4Handlers.cpp`), the mapping of registers and formats to Vulkan, argument checks and
stubs of the system libraries, ELF parsing and relocation, sockets and files. A state machine
of them would repeat the code, or leave out everything that could be wrong with it.

Left out of the modelled components:

- everywhere: names, logging and long-wait reports; error codes beyond the distinction of
  outcomes; calls on a handle after its object was freed; guest signal handlers that run
  inside a wait, and nested waits from them;
- semaphores and queues: the remaining time written back through a timeout pointer; `udata`
  and `fflags` of events; waits of over 71 minutes, at which a 32-bit count of microseconds wraps;
- scheduler and stream buffer: render-pass state, descriptors and slots of command buffers;
  memory barriers and flushes of Vulkan buffers;
- pthread: attributes, scheduling parameters, priorities, clocks, cancellation points and the
  delivery of guest signals;
- memory: the PRT aperture, batch calls (sequences of the others), memory types and the
  no-coalesce flag, queries, allocation callbacks, the Windows placeholders;
- texture cache: the lookup of images by format and address, and copies between images;
- video output: registration of flip and vblank events, `WaitVblank`, output modes.
