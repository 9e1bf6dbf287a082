---------------------------- MODULE PageTracking ----------------------------
(***************************************************************************)
(* Which guest pages trap.  Three parts of src/src/graphics/host_gpu:      *)
(*                                                                         *)
(*  - the page manager (pageManager.cpp) counts for each page who watches  *)
(*    its writes and its reads and gives it the protection that follows,   *)
(*    in as few calls to the host as it can;                               *)
(*  - the memory tracker (memoryTracker.h, memoryTracker.cpp,              *)
(*    regionManager.h) notes the pages the CPU and the GPU have modified   *)
(*    and watches the writes of the pages the CPU has not modified and the *)
(*    reads of those the GPU has;                                          *)
(*  - the images of the texture cache (textureCache.cpp) watch the writes  *)
(*    of their pages, and give up their first or last page when a guest    *)
(*    write hits that page beside the image.                               *)
(*                                                                         *)
(* The tracker's operations exclude one another (m_access_mutex) and go    *)
(* through their regions one by one; so do the images' (the lock of the    *)
(* texture cache).  The two meet in the page manager, which locks one      *)
(* region at a time, so what they do to one region is not interleaved; it  *)
(* is a step that starts the page manager's loop and a step for each page  *)
(* of the loop, `scan`.                                                    *)
(***************************************************************************)
EXTENDS Integers, FiniteSets, FiniteSetsExt

CONSTANTS
    PageCount,      \* pages of the address space
    RegionPages,    \* REGION_PAGES
    PageUnits,      \* addresses in a page
    Images,         \* images of the texture cache
    ImageRange,     \* their data: the first address and the one past the last
    WatcherLimit    \* 0x7f, what write_watchers can hold

ASSUME TrackingAssumption ==
    /\ PageCount \in Nat \ {0} /\ RegionPages \in Nat \ {0}
    /\ PageUnits \in Nat \ {0} /\ WatcherLimit \in Nat \ {0}
    /\ IsFiniteSet(Images)
    /\ \A i \in Images :
          /\ ImageRange[i] \in Nat \X Nat /\ ImageRange[i][1] < ImageRange[i][2]
          /\ ImageRange[i][2] <= PageCount * PageUnits

Pages == 0..(PageCount - 1)
RegionOf(p) == p \div RegionPages
RegionsOf(S) == {RegionOf(p) : p \in S}
Regions == RegionsOf(Pages)
PagesOf(r) == {p \in Pages : RegionOf(p) = r}

VARIABLES
    managers,   \* the regions the tracker has a RegionManager for
    cpuDirty,   \* m_cpu_dirty
    gpuDirty,   \* m_gpu_dirty
    writable,   \* m_writable
    readable,   \* m_readable
    known,      \* the regions the page manager has created
    watch,      \* PageState: the write and access watchers of every page
    prot,       \* the protection the host was last given for every page
    scan,       \* the locals of UpdateRegionWatchers
    fatal,      \* a check of the code has failed: the program has ended
    task,       \* the tracker's operation in progress
    image,      \* registered, track_addr and track_addr_end of every image
    chunks      \* the rest of the update an image has under way

bits == <<managers, cpuDirty, gpuDirty, writable, readable>>
trackingVars == <<bits, known, watch, prot, scan, fatal, task, image, chunks>>

NoTask == [kind |-> "None", pages |-> {}, left |-> {}]
Untracked == <<0, 0>>

NoScan == [on |-> FALSE, mask |-> {}, track |-> FALSE, read |-> FALSE, page |-> 0,
           perms |-> "ReadWrite", begin |-> 0, bytes |-> 0, potential |-> 0]

TrackingInit ==
    /\ managers = {} /\ known = {}
    \* What RegionManager's constructor fills its bits with.
    /\ cpuDirty = Pages /\ gpuDirty = {} /\ writable = Pages /\ readable = Pages
    /\ watch = [p \in Pages |-> [w |-> 0, a |-> 0]]
    /\ prot = [p \in Pages |-> "ReadWrite"]
    /\ scan = NoScan
    /\ fatal = FALSE
    /\ task = NoTask
    /\ image = [i \in Images |-> [registered |-> FALSE, track |-> Untracked]]
    /\ chunks = {}

-----------------------------------------------------------------------------
(***************************************************************************)
(* PageManager::UpdateRegionWatchers.  The loop over the pages keeps the   *)
(* protection of the run it is in and the part of the run that needs a     *)
(* call, and makes the call when the protection changes.                   *)
(***************************************************************************)
Perms(s) ==
    IF s.a # 0 THEN "NoAccess" ELSE IF s.w # 0 THEN "ReadOnly" ELSE "ReadWrite"

AddDelta(s, track, read) ==
    LET delta == IF track THEN 1 ELSE -1
    IN  IF read THEN [s EXCEPT !.a = @ + delta] ELSE [s EXCEPT !.w = @ + delta]

\* AddDelta would overflow or underflow the count.
OutOfRange(s, track, read) ==
    LET count == IF read THEN s.a ELSE s.w
        limit == IF read THEN 1 ELSE WatcherLimit
    IN  IF track THEN count >= limit ELSE count = 0

\* release_pending: the pages the call is made for.
Released(p) == p \in scan.begin..(scan.begin + scan.bytes - 1)
Release == [p \in Pages |-> IF Released(p) THEN scan.perms ELSE prot[p]]

\* One call of the page manager for the pages mask of region r.
UpdateWatchers(r, mask, track, read) ==
    IF mask = {} THEN UNCHANGED <<known, scan, fatal>>
    ELSE \E first \in mask :
            /\ \A q \in mask : first <= q
            /\ known' = IF track THEN known \cup {r} ELSE known
            /\ fatal' = (~track /\ r \notin known)
            /\ scan' = [NoScan EXCEPT !.on = TRUE, !.mask = mask, !.track = track, !.read = read,
                                      !.page = first, !.perms = Perms(watch[first])]

\* Page p is placed: the run goes on or a new one begins, and p, if it needs
\* the call, starts the part of the run that does, or is its end so far.
PlacePage(p, new, needed) ==
    LET same == Perms(new) = scan.perms
        bytes == IF same THEN scan.bytes ELSE 0
        potential == IF bytes # 0 THEN scan.potential + 1 ELSE 0
        starts == needed /\ bytes = 0
    IN  [scan EXCEPT !.page = p + 1,
                     !.perms = Perms(new),
                     !.begin = IF starts THEN p ELSE @,
                     !.bytes = IF starts THEN 1 ELSE IF needed THEN potential ELSE bytes,
                     !.potential = IF starts THEN 1 ELSE potential]

\* One iteration.
UpdateRegionWatchers ==
    /\ scan.on /\ ~fatal /\ \E q \in scan.mask : scan.page <= q
    /\ LET p == scan.page
           old == watch[p]
           update == p \in scan.mask
           new == IF update THEN AddDelta(old, scan.track, scan.read) ELSE old
           edge == (IF scan.read THEN new.a ELSE new.w) = (IF scan.track THEN 1 ELSE 0)
       IN  IF update /\ OutOfRange(old, scan.track, scan.read)
           THEN fatal' = TRUE /\ UNCHANGED <<watch, prot, scan>>
           ELSE /\ watch' = [watch EXCEPT ![p] = new]
                /\ prot' = IF Perms(new) # scan.perms THEN Release ELSE prot
                /\ scan' = PlacePage(p, new, update /\ edge /\ Perms(old) # Perms(new))
                /\ UNCHANGED fatal
    /\ UNCHANGED <<bits, known, task, image, chunks>>

UpdateEnd ==
    /\ scan.on /\ ~fatal /\ \A q \in scan.mask : q < scan.page
    /\ prot' = Release
    /\ scan' = NoScan
    /\ UNCHANGED <<bits, known, watch, fatal, task, image, chunks>>

-----------------------------------------------------------------------------
(***************************************************************************)
(* RegionManager, for the pages S of region r: the bits, and the watchers  *)
(* of the pages whose bits have changed since they were last brought into  *)
(* line.                                                                   *)
(***************************************************************************)
\* Mutant: only the pages of the call are noted as writable or not.
MutUpdateCpuProtection(r, dirty, track) ==
    /\ cpuDirty' = dirty
    /\ UpdateWatchers(r, SymDiff(dirty, writable) \cap PagesOf(r), track, FALSE)
    /\ UNCHANGED <<gpuDirty, readable, writable>>

UpdateCpuProtection(r, dirty, track) ==
    /\ cpuDirty' = dirty
    /\ UpdateWatchers(r, SymDiff(dirty, writable) \cap PagesOf(r), track, FALSE)
    /\ writable' = (writable \ PagesOf(r)) \cup (dirty \cap PagesOf(r))
    /\ UNCHANGED <<gpuDirty, readable>>

UpdateGpuProtection(r, dirty, track) ==
    /\ gpuDirty' = dirty
    /\ UpdateWatchers(r, SymDiff(Pages \ dirty, readable) \cap PagesOf(r), track, TRUE)
    /\ readable' = (readable \ PagesOf(r)) \cup (PagesOf(r) \ dirty)
    /\ UNCHANGED <<cpuDirty, writable>>

\* ChangeState ends the program rather than leave a page dirty on both sides.
Conflict ==
    /\ fatal' = TRUE
    /\ UNCHANGED <<cpuDirty, gpuDirty, writable, readable, known, scan>>

SetCpu(r, S) ==
    IF S \cap gpuDirty # {} THEN Conflict ELSE UpdateCpuProtection(r, cpuDirty \cup S, FALSE)
ClearCpu(r, S) == UpdateCpuProtection(r, cpuDirty \ S, TRUE)
SetGpu(r, S) ==
    IF S \cap cpuDirty # {} THEN Conflict ELSE UpdateGpuProtection(r, gpuDirty \cup S, TRUE)
ClearGpu(r, S) == UpdateGpuProtection(r, gpuDirty \ S, FALSE)

-----------------------------------------------------------------------------
(***************************************************************************)
(* MemoryTracker.  An operation names pages lo to hi; Iterate visits their *)
(* regions in order, those without a manager only if it creates one.       *)
(***************************************************************************)
CpuModified(S) == S \cap cpuDirty # {}
GpuModified(S) == S \cap gpuDirty # {}
Managed(S) == \A p \in S : RegionOf(p) \in managers

\* The managers Iterate<true> creates.
Created(S) == managers \cup RegionsOf(S)

Begin(kind, S, made) ==
    /\ task.kind = "None" /\ ~fatal /\ ~scan.on
    /\ managers' = made
    /\ task' = [kind |-> kind, pages |-> S, left |-> RegionsOf(S) \cap made]
    /\ UNCHANGED <<cpuDirty, gpuDirty, writable, readable, known, watch, prot, scan, fatal,
                   image, chunks>>

\* The callers see to it that no page is marked dirty on both sides: the
\* buffer cache unmarks a buffer's pages before it marks them for the CPU,
\* and looks for GPU-modified pages before it gives memory up.
MarkRegionAsCpuModified(S) == ~GpuModified(S) /\ Begin("Cpu", S, Created(S))
MarkRegionAsGpuModified(S) == ~CpuModified(S) /\ Begin("Gpu", S, Created(S))
UnmarkRegionAsGpuModified(S) == Begin("Clean", S, managers)
UntrackMemory(S) == ~GpuModified(S) /\ Begin("Cpu", S, managers)
TryMarkCleanRegionAsCpuModified(S) ==
    /\ Managed(S) /\ ~CpuModified(S) /\ ~GpuModified(S)
    /\ Begin("Cpu", S, managers)

\* ForEachUploadRange: the pages the CPU modified are watched again before
\* they are read, and then, if the GPU is to write, its are.
ForEachUploadRange(S, is_written) ==
    Begin(IF is_written THEN "UploadWrite" ELSE "Upload", S, Created(S))

\* InvalidateRegion: pages the GPU modified are first flushed by the
\* callback, which unmarks them.  m_access_mutex is free around the callback;
\* nothing marks pages for the GPU meanwhile, since that is done by the
\* thread that runs the callback.
InvalidateRegion(S) ==
    IF GpuModified(S) THEN Begin("FlushThenCpu", S, managers) ELSE Begin("Cpu", S, managers)

\* The next region of the operation in progress.
TaskStep(r) ==
    /\ r \in task.left /\ ~fatal /\ ~scan.on
    /\ \A q \in task.left : r <= q
    /\ LET S == task.pages \cap PagesOf(r)
       IN  \/ task.kind = "Cpu" /\ SetCpu(r, S)
           \/ task.kind = "Gpu" /\ SetGpu(r, S)
           \/ task.kind \in {"Clean", "FlushThenCpu"} /\ ClearGpu(r, S)
           \/ task.kind \in {"Upload", "UploadWrite"} /\ ClearCpu(r, S)
    /\ task' = [task EXCEPT !.left = @ \ {r}]
    /\ UNCHANGED <<managers, watch, prot, image, chunks>>

\* The regions are done; some operations go through them a second time.
TaskNext ==
    /\ task.kind # "None" /\ task.left = {} /\ ~fatal /\ ~scan.on
    /\ task' = CASE task.kind = "UploadWrite" ->
                      [task EXCEPT !.kind = "Gpu", !.left = RegionsOf(task.pages)]
                 [] task.kind = "FlushThenCpu" ->
                      [task EXCEPT !.kind = "Cpu", !.left = RegionsOf(task.pages) \cap managers]
                 [] OTHER -> NoTask
    /\ UNCHANGED <<bits, known, watch, prot, scan, fatal, image, chunks>>

-----------------------------------------------------------------------------
(***************************************************************************)
(* The images.  Their addresses need not lie on page boundaries.           *)
(***************************************************************************)
PagesAt(begin, end) == (begin \div PageUnits)..((end - 1) \div PageUnits)

IsTracked(i) == image[i].track # Untracked

\* The calls of UpdatePageWatchers<track> for addresses begin to end, one
\* for each region.
Chunks(begin, end, track) ==
    {[r |-> r, mask |-> PagesAt(begin, end) \cap PagesOf(r), track |-> track] :
        r \in RegionsOf(PagesAt(begin, end))}

ImageUpdate(i, new, calls) ==
    /\ chunks = {} /\ ~fatal /\ ~scan.on
    /\ image' = [image EXCEPT ![i] = new]
    /\ chunks' = calls
    /\ UNCHANGED <<bits, known, watch, prot, scan, fatal, task>>

Register(i) ==
    /\ ~image[i].registered
    /\ ImageUpdate(i, [registered |-> TRUE, track |-> Untracked], {})

Track(i) == [registered |-> TRUE, track |-> ImageRange[i]]

\* TrackImage: all of it, or the head and the tail that are missing.
TrackImage(i) ==
    /\ image[i].registered /\ image[i].track # ImageRange[i]
    /\ LET begin == ImageRange[i][1]
           end == ImageRange[i][2]
           head == image[i].track[1]
           tail == image[i].track[2]
       IN  IF ~IsTracked(i) THEN ImageUpdate(i, Track(i), Chunks(begin, end, TRUE))
           ELSE ImageUpdate(i, Track(i),
                  (IF begin < head THEN Chunks(begin, head, TRUE) ELSE {})
                  \cup (IF tail < end THEN Chunks(tail, end, TRUE) ELSE {}))

\* UntrackImage: a write hit the image, or it is about to be unregistered.
UntrackImage(i, registered) ==
    /\ image[i].registered /\ (IsTracked(i) \/ ~registered)
    /\ ImageUpdate(i, [registered |-> registered, track |-> Untracked],
                   IF ~IsTracked(i) \/ image[i].track[1] = image[i].track[2] THEN {}
                   ELSE Chunks(image[i].track[1], image[i].track[2], FALSE))

\* Untracked altogether if nothing is left.
Rest(begin, end) == IF begin = end THEN Untracked ELSE <<begin, end>>

\* A write hit the first page beside the image, and the image goes on behind
\* that page (InvalidateCpuAliases).
UntrackImageHead(i) ==
    /\ IsTracked(i) /\ ImageRange[i][1] >= image[i].track[1]
    /\ LET begin == ImageRange[i][1]
           next == (begin \div PageUnits + 1) * PageUnits
       IN  /\ next < ImageRange[i][2]
           /\ ImageUpdate(i, [image[i] EXCEPT !.track = Rest(next, @[2])],
                          Chunks(begin, next, FALSE))

\* The same for the last page, if the image begins before it.
UntrackImageTail(i) ==
    /\ IsTracked(i) /\ image[i].track[2] >= ImageRange[i][2]
    /\ LET end == ImageRange[i][2]
           last == (end \div PageUnits) * PageUnits
       IN  /\ ImageRange[i][1] < last /\ last < end
           /\ ImageUpdate(i, [image[i] EXCEPT !.track = Rest(@[1], last)],
                          Chunks(last, end, FALSE))

\* The next region of the update an image has under way.
ChunkStep(c) ==
    /\ c \in chunks /\ ~fatal /\ ~scan.on
    /\ \A d \in chunks : \A q \in d.mask : \E p \in c.mask : p <= q
    /\ UpdateWatchers(c.r, c.mask, c.track, FALSE)
    /\ chunks' = chunks \ {c}
    /\ UNCHANGED <<bits, watch, prot, task, image>>

-----------------------------------------------------------------------------
Ranges == {lo..hi : lo \in Pages, hi \in Pages} \ {{}}

TrackingNext ==
    \/ \E S \in Ranges :
          \/ MarkRegionAsCpuModified(S) \/ MarkRegionAsGpuModified(S)
          \/ UnmarkRegionAsGpuModified(S) \/ UntrackMemory(S)
          \/ TryMarkCleanRegionAsCpuModified(S) \/ InvalidateRegion(S)
          \/ \E is_written \in BOOLEAN : ForEachUploadRange(S, is_written)
    \/ \E r \in task.left : TaskStep(r)
    \/ TaskNext
    \/ \E i \in Images :
          \/ Register(i) \/ TrackImage(i)
          \/ \E registered \in BOOLEAN : UntrackImage(i, registered)
          \/ UntrackImageHead(i) \/ UntrackImageTail(i)
    \/ \E c \in chunks : ChunkStep(c)
    \/ UpdateRegionWatchers \/ UpdateEnd

TrackingSpec == TrackingInit /\ [][TrackingNext]_trackingVars

-----------------------------------------------------------------------------
TrackingTypeOK ==
    /\ managers \subseteq Regions /\ known \subseteq Regions
    /\ cpuDirty \subseteq Pages /\ gpuDirty \subseteq Pages
    /\ writable \subseteq Pages /\ readable \subseteq Pages
    /\ watch \in [Pages -> [w : 0..WatcherLimit, a : 0..1]]
    /\ prot \in [Pages -> {"ReadWrite", "ReadOnly", "NoAccess"}]
    /\ image \in [Images -> [registered : BOOLEAN, track : Nat \X Nat]]

\* Whenever the page manager's lock is free every page has exactly the
\* protection its watchers ask for, though the loop merges pages into one
\* call, runs over pages it does not update and skips calls that change
\* nothing (UpdateRegionWatchers).
ProtectionExact == ~fatal /\ ~scan.on => \A p \in Pages : prot[p] = Perms(watch[p])

\* The pages image i has asked to watch and not to stop watching, less what
\* its update under way has yet to do.
ImagePages(i) ==
    IF IsTracked(i) THEN PagesAt(image[i].track[1], image[i].track[2]) ELSE {}

Outstanding(p, track) ==
    Cardinality({c \in chunks : p \in c.mask /\ c.track = track})

\* Marks and their removal pair up: a page's write watchers are one for the
\* tracker unless the CPU has modified the page, and one for every image
\* that watches it; its access watcher is there exactly if the GPU has
\* modified it (AddDelta, UpdateCpuProtection, TrackImage, UntrackImage and
\* their heads and tails).
WatchersPair ==
    ~fatal /\ ~scan.on => \A p \in Pages :
        /\ watch[p].w + Outstanding(p, TRUE)
             = (IF p \in cpuDirty THEN 0 ELSE 1)
               + Cardinality({i \in Images : p \in ImagePages(i)}) + Outstanding(p, FALSE)
        /\ watch[p].a = (IF p \in gpuDirty THEN 1 ELSE 0)

\* None of the checks that end the program fires: no watcher count leaves its
\* range, no region is released that was never watched, and no invalidation
\* or upload marks a page for one side while the other has modified it.
TrackerSurvives == ~fatal

\* Protections, watchers and dirty pages agree, and so no check fails.
TrackingExact == ProtectionExact /\ WatchersPair /\ TrackerSurvives

=============================================================================
