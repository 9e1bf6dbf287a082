---------------------------- MODULE BufferCache -----------------------------
(***************************************************************************)
(* The buffer cache (bufferCache.cpp): guest memory that draws and         *)
(* dispatches use lives in device buffers as well, and the memory tracker  *)
(* says for each page which side wrote it last.  A guest access to a page  *)
(* that is not its own faults, and the fault is resolved on the GPU thread *)
(* (gpuResourceManager.cpp), where all other operations run too: each is a *)
(* step.  Between them guest threads load and store, and the downloads of  *)
(* collected buffers complete.                                             *)
(*                                                                         *)
(* Contents are reduced to where the newest value of an address is: in     *)
(* guest memory, in the buffer that covers it, or in a download under way. *)
(*                                                                         *)
(* Some things the code does let a value be missed, and the pages they do  *)
(* it to are noted.  The GPU may miss values in a page that is `torn`: its *)
(* CPU bit was cleared although not all of it was copied, because an image *)
(* did not fill it, or the guest stored to it while the image was staged   *)
(* (StageImage), or a page beside it is not mapped (Upload).  Either side  *)
(* may in a page that went `astray`: it was taken up again between the     *)
(* collection of its buffer and the download (Merge), the GPU was let      *)
(* write beside what a torn page misses (ObtainForWrite), or guest memory  *)
(* was unmapped there, or mapped below a page in use (Unmap, Remap).  Of   *)
(* all other pages the properties are stated, and of these again once they *)
(* are uploaded whole.                                                     *)
(***************************************************************************)
EXTENDS Integers, Sequences, FiniteSets

CONSTANTS
    CachePages,       \* number of tracker pages
    UnitsPerPage,     \* addresses in a page
    CacheUnits,       \* addresses in all: of the last page there may be fewer
    BlockPages,       \* tracker pages in CACHING_PAGE_SIZE, which is also the
                      \* page the guest maps
    CacheRegionPages, \* tracker pages in a region
    MaxGarbage        \* bound: the downloads under way

ASSUME BufferCacheAssumption ==
    /\ CachePages \in Nat \ {0} /\ UnitsPerPage \in Nat \ {0} /\ BlockPages \in Nat \ {0}
    /\ CacheRegionPages \in Nat \ {0} /\ MaxGarbage \in Nat
    /\ CacheUnits \in ((CachePages - 1) * UnitsPerPage + 1)..(CachePages * UnitsPerPage)

TrackerPages == 0..(CachePages - 1)
Units == 0..(CacheUnits - 1)

UnitsIn(P) == {u \in Units : u \div UnitsPerPage \in P}
PagesIn(S) == {u \div UnitsPerPage : u \in S}

\* AlignDown to AlignUp of a range.
Aligned(S) == {p \in TrackerPages : \E q \in PagesIn(S) : p \div BlockPages = q \div BlockPages}

\* The pages of P the tracker reports in one range with p: consecutive, and
\* in one region.
Run(P, p) ==
    {q \in P : /\ q \div CacheRegionPages = p \div CacheRegionPages
               /\ \A r \in TrackerPages : r \in p..q \cup q..p => r \in P}

VARIABLE cache

\* bufs: m_buffers, as the pages each covers; cpu and gpu: the tracker's
\* dirty pages; modified: m_gpu_modified_ranges; memory and device: the
\* addresses whose newest value is in guest memory, in a cached buffer;
\* garbage: the downloads QueueGarbageDownload has deferred; mapped: the pages
\* with guest memory; bare: pages mapped while the tracker took them for
\* watched, whose protection is anybody's guess; torn and astray: see above;
\* fatal: the check that has ended the program.
CacheInit ==
    cache = [bufs |-> {}, cpu |-> TrackerPages, gpu |-> {}, modified |-> {},
             memory |-> Units, device |-> {}, garbage |-> <<>>, mapped |-> TrackerPages,
             bare |-> {}, torn |-> {}, astray |-> {}, fatal |-> "No"]

Ends(c, why) == [c EXCEPT !.fatal = why]

Covered(c) == UNION c.bufs
HasOwner(c, S) == \E b \in c.bufs : S \subseteq UnitsIn(b)

\* TryReadBacking and WriteBacking succeed.
Backed(c, S) == PagesIn(S) \subseteq c.mapped

\* The pages of buffers that are collected and not yet downloaded.
Collected(c) == UNION {c.garbage[k].pages : k \in DOMAIN c.garbage}

\* A new value makes what a pending download carries old.
Outdate(c, W) ==
    [c EXCEPT !.garbage =
        [k \in DOMAIN c.garbage |-> [c.garbage[k] EXCEPT !.fresh = @ \ W]]]

\* The guest stores to W.
Stored(c, W) == Outdate([c EXCEPT !.memory = @ \cup W, !.device = @ \ W], W)

-----------------------------------------------------------------------------
\* The pages in D are watched again, and taken to be in the buffer.
TakeUp(c, D) ==
    [c EXCEPT !.cpu = @ \ D,
              !.torn = @ \cup {p \in D : ~(UnitsIn({p}) \subseteq c.device)},
              !.astray = @ \ {p \in (D \cap c.mapped) \ Collected(c) :
                                  UnitsIn({p}) \subseteq c.device \cap c.memory}]

\* ForEachUploadRange for reading, for each of the page ranges in Q: the pages
\* the CPU modified are taken up, and copied, all of each, if the whole range
\* the tracker reports is readable.
Upload(c, Q) ==
    LET D == (UNION Q) \cap c.cpu
        readable == {p \in D : \E P \in Q : p \in P /\ Run(P \cap c.cpu, p) \subseteq c.mapped}
        U == UnitsIn(readable)
    IN  TakeUp([c EXCEPT !.device = (@ \ U) \cup (U \cap c.memory)], D)

\* The pages in P are the CPU's: nobody watches them.
GiveBack(c, P) ==
    [c EXCEPT !.cpu = @ \cup P, !.gpu = @ \ P, !.bare = @ \ P, !.torn = @ \ P]

Overlaps(c, S) == {b \in c.bufs : b \cap Aligned(S) # {}}

\* The overlapping buffers become one, with their contents.
Merge(c, S) ==
    [c EXCEPT !.bufs = (@ \ Overlaps(c, S)) \cup {Aligned(S) \cup UNION Overlaps(c, S)},
              !.astray = @ \cup (Aligned(S) \cap Collected(c))]

GetOrCreateBuffer(c, S) ==
    IF HasOwner(c, S) THEN c ELSE Merge(Upload(c, Overlaps(c, S)), S)

\* ObtainBuffer for reading: small ranges the CPU modified are streamed from
\* guest memory and leave no buffer behind.
Streamed(c, S) ==
    /\ Cardinality(S) <= BlockPages * UnitsPerPage
    /\ PagesIn(S) \cap c.gpu = {} /\ PagesIn(S) \cap c.cpu # {} /\ Backed(c, S)

ObtainForRead(c, S) ==
    IF Streamed(c, S) THEN c ELSE Upload(GetOrCreateBuffer(c, S), {PagesIn(S)})

\* ObtainBuffer for writing: the GPU writes W, some of the range.
ObtainForWrite(c, S, W) ==
    LET up == Upload(GetOrCreateBuffer(c, S), {PagesIn(S)})
    IN  Outdate([up EXCEPT !.gpu = @ \cup PagesIn(S), !.modified = @ \cup S,
                           !.device = @ \cup W, !.memory = @ \ W,
                           !.astray = @ \cup PagesIn(S \ (up.device \cup W))], W)

\* The CPU's pages below an image that the image does not fill with all of
\* the range they are reported in.
Ragged(c, S) ==
    LET P == PagesIn(S) \cap c.cpu IN {p \in P : ~(UnitsIn(Run(P, p)) \subseteq S)}

\* What Buffer::CopyFrom may skip of them: ranges that reach out of the
\* staging buffer, which depends on where S was staged.
Skippable(c, S) ==
    {D \in SUBSET Ragged(c, S) : \A p \in D : Run(PagesIn(S) \cap c.cpu, p) \subseteq D}

\* S is staged, without the lock: the guest may store to `late` before the
\* pages are taken up.  What was staged is copied on into the buffer, in whole
\* pages: around S the copy brings what the staging buffer holds there.  All
\* the pages are taken up, those in D, whose copy is skipped, too.
StageImage(c, S, D, late) ==
    LET P == PagesIn(S) \cap c.cpu
        U == UnitsIn(P \ D)
        staged == (U \cap S \cap c.memory) \ late
    IN  TakeUp([Stored(c, late) EXCEPT !.device = (@ \ U) \cup staged], P)

\* ObtainBufferForImage: a buffer is merged if the GPU modified the range,
\* but not brought up to date; if the CPU has modified it too, or there is
\* no buffer, guest memory is staged.
ImageSource(c, S, D, late) ==
    LET dirty == S \cap c.modified # {}
        merged == IF dirty /\ ~HasOwner(c, S) THEN Merge(c, S) ELSE c
        cpuModified == PagesIn(S) \cap c.cpu # {}
        gpuOnly == PagesIn(S) \cap c.gpu # {} /\ ~dirty
    IN  IF dirty /\ ~HasOwner(c, S) /\ Overlaps(c, S) = {} THEN Ends(c, "NoOwner")
        ELSE IF HasOwner(merged, S) /\ ~cpuModified /\ ~gpuOnly THEN merged
        ELSE IF ~Backed(c, S) THEN Ends(c, "Backing")
        ELSE IF ~HasOwner(merged, S) \/ gpuOnly THEN merged
        ELSE StageImage(merged, S, D, late)

\* WriteHostMemory: past the protection, to guest memory and every buffer.
HostWrite(c, S) ==
    IF ~Backed(c, S) THEN Ends(c, "Backing")
    ELSE Outdate([c EXCEPT !.memory = @ \cup S,
                           !.device = @ \cup (S \cap UnitsIn(Covered(c)))], S)

-----------------------------------------------------------------------------
\* The deferred part of QueueGarbageDownload, for the oldest download.
Publish(c) ==
    LET g == Head(c.garbage)
        left == c.modified \ g.copied
    IN  IF ~Backed(c, g.copied) THEN Ends(c, "Backing")
        ELSE IF left \cap UnitsIn(g.pages) # {} THEN Ends(c, "Retained")
        ELSE GiveBack([c EXCEPT !.memory = (@ \ g.copied) \cup g.fresh, !.modified = left,
                                !.garbage = Tail(@)], g.pages)

\* What the first n deferred downloads carry.
Carried(c, n) == UNION {c.garbage[k].copied : k \in 1..n}

Retains(c, k) == (c.modified \ Carried(c, k)) \cap UnitsIn(c.garbage[k].pages) # {}

\* The deferred downloads that end the program.
Failing(c) == {k \in DOMAIN c.garbage : ~Backed(c, c.garbage[k].copied) \/ Retains(c, k)}

\* FinishCurrent runs every operation deferred so far, in their order: where
\* several downloads carry an address, the last one decides.
FinishCurrent(c) ==
    LET ops == c.garbage
        all == Carried(c, Len(ops))
        fresh(u) == \E k \in DOMAIN ops :
                       u \in ops[k].fresh /\ \A j \in DOMAIN ops : u \in ops[j].copied => j <= k
        first(k) == \A j \in Failing(c) : k <= j
    IN  IF \E k \in Failing(c) : first(k) /\ Backed(c, ops[k].copied) THEN Ends(c, "Retained")
        ELSE IF Failing(c) # {} THEN Ends(c, "Backing")
        ELSE GiveBack([c EXCEPT !.memory = (@ \ all) \cup {u \in Units : fresh(u)},
                                !.modified = @ \ all, !.garbage = <<>>], Collected(c))

\* Every GPU-modified range on the dirty pages of S.
ToDownload(c, S) == c.modified \cap UnitsIn(PagesIn(S) \cap c.gpu)

ReadMemory(c, S) ==
    LET D == ToDownload(c, S)
        run == FinishCurrent(c)
    IN  IF D = {} THEN c
        ELSE IF ~(D \subseteq UnitsIn(Covered(c))) THEN Ends(c, "NoOwner")
        ELSE IF run.fatal # "No" THEN run
        ELSE IF ~Backed(c, D) THEN Ends(c, "Backing")
        ELSE [run EXCEPT !.memory = (@ \ D) \cup (D \cap run.device),
                         !.modified = @ \ D, !.gpu = @ \ PagesIn(S)]

\* InvalidateMemory, with MemoryTracker::InvalidateRegion: nothing if no
\* buffer shares a page with S; pages still the GPU's end the program.
InvalidateMemory(c, S) ==
    LET read == IF PagesIn(S) \cap c.gpu # {} THEN ReadMemory(c, S) ELSE c
    IN  IF PagesIn(S) \cap Covered(c) = {} THEN c
        ELSE IF read.fatal # "No" THEN read
        ELSE IF PagesIn(S) \cap read.gpu # {} THEN Ends(c, "Owned")
        ELSE GiveBack(read, PagesIn(S))

\* UnmapMemory: the buffers that overlap are downloaded and retired, and the
\* range is no longer tracked: of contents that are gone nothing is newer.
\* Where nothing was mapped nothing may be cached.
Unmap(c, S) ==
    LET run == FinishCurrent(c)
        retired == {b \in run.bufs : b \cap PagesIn(S) # {}}
        D == run.modified \cap UnitsIn((UNION retired) \cap run.gpu)
        left == run.modified \ UnitsIn(UNION retired)
    IN  IF PagesIn(S) \cap c.mapped = {} THEN
            IF PagesIn(S) \cap Covered(c) # {} THEN Ends(c, "Cached") ELSE c
        ELSE IF run.fatal # "No" THEN run
        ELSE IF ~Backed(c, D) THEN Ends(c, "Backing")
        ELSE IF left \cap S # {} THEN Ends(c, "Owned")
        ELSE GiveBack([run EXCEPT !.memory = (@ \ D) \cup (D \cap run.device) \cup S,
                                  !.modified = left, !.bufs = @ \ retired,
                                  !.device = @ \ UnitsIn(UNION retired),
                                  !.mapped = @ \ PagesIn(S), !.astray = @ \cup PagesIn(S)],
                      (UNION retired) \cup PagesIn(S))

\* The guest maps memory where there was none: new contents and an open
\* protection, of which the cache learns nothing (OnGpuMap is empty).
Remap(c, S) ==
    LET P == PagesIn(S)
    IN  [Outdate(c, S) EXCEPT !.mapped = @ \cup P, !.memory = @ \cup S, !.device = @ \ S,
                              !.bare = @ \cup (P \ c.cpu),
                              !.astray = @ \ ((P \cap c.cpu) \ Collected(c))]

\* Mutant: a clean buffer's pages stay watched.
MutRetire(c, b) ==
    LET copied == c.modified \cap UnitsIn(b \cap c.gpu)
        op == [pages |-> b, copied |-> copied, fresh |-> copied \cap c.device]
    IN  [c EXCEPT !.bufs = @ \ {b}, !.device = @ \ UnitsIn(b),
                  !.garbage = IF copied = {} THEN @ ELSE Append(@, op)]

\* One buffer of RunGarbageCollector: erased at once, its download deferred.
Retire(c, b) ==
    LET copied == c.modified \cap UnitsIn(b \cap c.gpu)
        op == [pages |-> b, copied |-> copied, fresh |-> copied \cap c.device]
        rest == [c EXCEPT !.bufs = @ \ {b}, !.device = @ \ UnitsIn(b),
                          !.garbage = IF copied = {} THEN @ ELSE Append(@, op)]
    IN  IF b \cap c.gpu = {} THEN GiveBack(rest, b) ELSE rest

-----------------------------------------------------------------------------
Spans == {lo..hi : lo \in Units, hi \in Units} \ {{}}

\* What the guest maps and unmaps.
Mappings == {S \in Spans : S = UnitsIn(Aligned(S))}

Alive == cache.fatal = "No"

\* A guest store to a page that is not protected, and what a fault does.
GuestStore(u) ==
    /\ Alive /\ Backed(cache, {u}) /\ PagesIn({u}) \subseteq cache.cpu \cup cache.bare
    /\ cache' = Stored(cache, {u})

\* HandleFault at u, for the few bytes from there on, S.  A store from inside a
\* deferred operation is let through for a clean page in the same way
\* (PrepareCleanHostWrite); all else that faults there ends the program.
WriteFault(u, S) ==
    /\ Alive /\ u \in S /\ S \subseteq u..(u + 1) /\ Backed(cache, S)
    /\ PagesIn({u}) \cap cache.cpu = {}
    /\ cache' = InvalidateMemory(cache, S)
ReadFault(u, S) ==
    /\ Alive /\ u \in S /\ S \subseteq u..(u + 1) /\ Backed(cache, S)
    /\ PagesIn({u}) \subseteq cache.gpu
    /\ cache' = ReadMemory(cache, S)

\* GpuResourceManager::InvalidateMemory: the emulator is about to store to S
\* for the guest, as when it reads a file.
InvalidateForHost(S) == Alive /\ Backed(cache, S) /\ cache' = InvalidateMemory(cache, S)

ObtainBuffer(S) ==
    /\ Alive
    /\ \/ cache' = ObtainForRead(cache, S)
       \/ \E W \in {{}, S} : cache' = ObtainForWrite(cache, S, W)

ObtainBufferForImage(S) ==
    /\ Alive
    /\ \E D \in Skippable(cache, S), late \in SUBSET UnitsIn(PagesIn(S) \cap cache.cpu) :
          cache' = ImageSource(cache, S, D, late)

\* FillBuffer, outside the global data share.
FillBuffer(S) ==
    /\ Alive
    /\ cache' = IF S \cap cache.modified = {} THEN HostWrite(cache, S)
                ELSE ObtainForWrite(cache, S, S)

\* CopyBuffer between two ranges of guest memory.
CopyBuffer(dst, src) ==
    /\ Alive /\ dst \cap src = {} /\ Cardinality(dst) = Cardinality(src)
    /\ cache' = IF (src \cup dst) \cap cache.modified # {} THEN
                    ObtainForWrite(ObtainForRead(cache, src), dst, dst)
                ELSE IF ~Backed(cache, src) THEN Ends(cache, "Backing")
                ELSE HostWrite(cache, dst)

UnmapMemory(S) == Alive /\ cache' = Unmap(cache, S)

MapMemory(S) == Alive /\ PagesIn(S) \cap cache.mapped = {} /\ cache' = Remap(cache, S)

RunGarbageCollector(b) ==
    /\ Alive /\ b \in cache.bufs /\ Len(cache.garbage) < MaxGarbage
    /\ cache' = Retire(cache, b)

\* PopPendingOperations.
PopGarbage == Alive /\ cache.garbage # <<>> /\ cache' = Publish(cache)

CacheNext ==
    \/ \E u \in Units : GuestStore(u)
    \/ \E u \in Units, S \in Spans : WriteFault(u, S) \/ ReadFault(u, S)
    \/ \E S \in Spans : InvalidateForHost(S)
    \/ \E S \in Spans : ObtainBuffer(S) \/ ObtainBufferForImage(S) \/ FillBuffer(S)
    \/ \E S \in Mappings : MapMemory(S) \/ UnmapMemory(S)
    \/ \E dst, src \in Spans : CopyBuffer(dst, src)
    \/ \E b \in SUBSET TrackerPages : RunGarbageCollector(b)
    \/ PopGarbage

CacheSpec == CacheInit /\ [][CacheNext]_cache

-----------------------------------------------------------------------------
\* "Backing": guest memory that is not there was to be read or written;
\* "Cached": memory was unmapped that was in a buffer and not mapped.
CacheEnds == {"No", "Backing", "Cached", "NoOwner", "Retained", "Owned"}

CacheTypeOK ==
    /\ cache.bufs \subseteq SUBSET TrackerPages
    /\ \A b, d \in cache.bufs : b # d => b \cap d = {}
    /\ cache.cpu \subseteq TrackerPages /\ cache.gpu \subseteq TrackerPages
    /\ cache.modified \subseteq Units /\ cache.memory \subseteq Units
    /\ cache.device \subseteq UnitsIn(Covered(cache))
    /\ cache.mapped \subseteq TrackerPages /\ cache.bare \subseteq cache.mapped
    /\ cache.torn \subseteq TrackerPages /\ cache.astray \subseteq TrackerPages
    /\ cache.fatal \in CacheEnds

\* A guest load never sees an old value: where the newest value is not in
\* guest memory the address is recorded as modified by the GPU and its page
\* traps (ObtainBuffer, ReadMemory and the retirement of buffers).
GuestSeesNewest ==
    \A u \in Units \ (cache.memory \cup UnitsIn(cache.astray)) :
        u \in cache.modified /\ PagesIn({u}) \subseteq cache.gpu \ cache.bare

\* Nor does the GPU: pages the cache would use as they are hold the newest
\* values, also where a buffer was merged, collected and made again, or an
\* upload brought more than was asked for.
GpuSeesNewest ==
    \A p \in TrackerPages \ (cache.cpu \cup Collected(cache) \cup cache.torn \cup cache.astray) :
        UnitsIn({p}) \subseteq cache.device

\* The tracker's pages and the exact ranges tell the same story, as the debug
\* build checks in ValidateGpuDirtyOwnership.
DirtyPagesExact == cache.gpu = PagesIn(cache.modified) /\ cache.cpu \cap cache.gpu = {}

\* The checks of the cache do not fail: pages are never still the GPU's after
\* they were read back, what the GPU modified has a buffer unless it is
\* collected and not yet downloaded, and a download leaves nothing modified on
\* its pages unless they were taken up meanwhile.
CacheSurvives ==
    /\ cache.fatal # "Owned"
    /\ cache.fatal = "NoOwner" => Collected(cache) \cap cache.gpu # {}
    /\ cache.fatal = "Retained" => cache.astray \cap Collected(cache) # {}

\* Neither side reads an old copy, and the records that see to it agree.
CacheCoherent == GuestSeesNewest /\ GpuSeesNewest /\ DirtyPagesExact /\ CacheSurvives

\* "Every exact GPU-owned interval on those pages was downloaded": what a
\* deferred download is about to unmark is what it carries.
GarbageCovers ==
    \A k \in DOMAIN cache.garbage :
        cache.modified \cap UnitsIn(cache.garbage[k].pages) \subseteq cache.garbage[k].fresh

=============================================================================
