---------------------------- MODULE KernelMemory ----------------------------
(***************************************************************************)
(* The guest's memory: src/src/kernel/memory.cpp and the guest address     *)
(* space of memoryAddressSpace.inc (the POSIX build).                      *)
(*                                                                         *)
(* Five records say what a page of the guest is: VirtualRanges, the        *)
(* mappings of the owner of its backing (PhysicalMemory, FlexibleMemory or *)
(* PooledMemory), the host's address space, and the ranges the GPU may     *)
(* access.  Every call holds g_memory_operation_mutex, and is one step     *)
(* that brings the five forward together, or puts back what it changed     *)
(* when a call to the host fails on the way.  One such failure per call is *)
(* assumed, so that what a call does to undo itself succeeds.              *)
(*                                                                         *)
(* A page stands for the unit of every alignment the calls ask for.  The   *)
(* memory type and the no-coalesce flag of a range, which only keep it     *)
(* from being merged, are left to its name.  What the code does chunk by   *)
(* chunk is stated by what the loop leaves behind.                         *)
(***************************************************************************)
EXTENDS Integers, FiniteSets, FiniteSetsExt, Functions

CONSTANTS
    MaxPage,        \* the guest's address space is the pages 1..MaxPage
    DirectPages,    \* pages of direct memory: backing offsets 0..DirectPages - 1
    FlexiblePages,  \* pages of flexible memory, the offsets behind these
    Prots,          \* protections KernelMprotect sets; mappings begin with "RW"
    Names,          \* names KernelSetVirtualRangeName sets; mappings begin with "guest"
    MaxLength,      \* bound: the pages a call is about
    CallMixes       \* which calls a guest program makes: sets of Calls

Calls == {"AllocateDirect", "MapDirect", "ReleaseDirect", "MapFlexible", "Reserve", "Munmap",
          "Mprotect", "SetName", "Runtime", "PoolExpand", "PoolReserve", "PoolCommit",
          "PoolDecommit"}

ASSUME MemoryAssumption ==
    /\ MaxPage \in Nat /\ DirectPages \in Nat /\ FlexiblePages \in Nat /\ MaxLength \in Nat
    /\ CallMixes \subseteq SUBSET Calls /\ "RW" \in Prots

Pages == 1..MaxPage

Direct == 0..(DirectPages - 1)

Flexible == DirectPages..(DirectPages + FlexiblePages - 1)

\* A page the host has not mapped, and one with private memory.
Unmapped == -1
Private == -2

VARIABLES
    allowed,    \* the calls the guest program makes
    mem         \* what the memory subsystem holds

\* The fields of mem:
\*   ranges      VirtualRanges: [start, size, type, offset, prot, name]
\*   free        PhysicalMemory::m_free, as the pages in it
\*   allocated   the pages of m_physical, without those of the pool
\*   expansions  the pages of m_physical, and of PooledMemory, that are the pool's
\*   maps        PhysicalMemory::m_mappings, as ranges
\*   flex, flexFree         FlexibleMemory: the offset behind each page, m_free
\*   pool, poolFree         PooledMemory: the same
\*   committed   g_memory_pool_committed
\*   host        the guest address space: Unmapped, Private or a backing offset
\*   gpu         the pages mapped for the GPU
\*   torn        history: a KernelMunmap failed half-way
\*   status      "Up"; "Ended" by a guest that misuses a call or by a host that
\*               fails; "Escaped" or "Broken" by an internal check
memVars == <<allowed, mem>>

MemoryInit ==
    /\ allowed \in CallMixes
    /\ mem = [ranges |-> {}, free |-> Direct, allocated |-> {}, expansions |-> {},
              maps |-> {}, flex |-> <<>>, flexFree |-> Flexible, pool |-> <<>>,
              poolFree |-> {}, committed |-> 0, host |-> [p \in Pages |-> Unmapped],
              gpu |-> {}, torn |-> FALSE, status |-> "Up"]

-----------------------------------------------------------------------------
(***************************************************************************)
(* VirtualRanges.                                                          *)
(***************************************************************************)
Span(a, n) == a..(a + n - 1)

Cells(r) == Span(r.start, r.size)

End(r) == r.start + r.size

Reservations == {"Reserved", "PoolReserved"}

PrivateTypes == {"Stack", "Code", "Runtime"}

BackedTypes == {"Direct", "Flexible", "Pooled"}

CommittedTypes == PrivateTypes \cup BackedTypes

CellsOf(R) == UNION {Cells(r) : r \in R}

PagesOf(R, types) == CellsOf({r \in R : r.type \in types})

Overlapping(R, a, n) == \E r \in R : Cells(r) \cap Span(a, n) # {}

\* Mutant: a piece keeps the offset of the range it is cut from.
MutPiece(r, start, end) == [r EXCEPT !.start = start, !.size = end - start]

\* AddPiece: the part of r from start to end.
Piece(r, start, end) ==
    [r EXCEPT !.start = start, !.size = end - start,
              !.offset = IF r.type = "Direct" THEN @ + start - r.start ELSE @]

\* Where S stops after the page p of it.
Stop(S, p) == Min({q \in p..(MaxPage + 1) : q \notin S})

\* The ranges cut to the pages of S.
PartsOf(r, S) == {Piece(r, p, Stop(S, p)) : p \in {q \in S : q - 1 \notin S}}

Parts(R, S) == UNION {PartsOf(r, Cells(r) \cap S) : r \in R}

Inside(R, a, n) == Parts(R, Span(a, n))

Outside(R, a, n) == Parts(R, Pages \ Span(a, n))

\* SameMergeKey: direct ranges are never merged.
SameMergeKey(r, s) ==
    /\ r.type # "Direct" /\ r.type = s.type
    /\ r.prot = s.prot /\ r.name = s.name

\* MergeUnlocked, and MergeAroundUnlocked: all other ranges are merged, each
\* from a start where nothing is joined to the next end where nothing is.
Joined(R, p) == \E r, s \in R : End(r) = p /\ s.start = p /\ SameMergeKey(r, s)

MergedEnd(R, r) == Min({End(s) : s \in {t \in R : t.start >= r.start /\ ~Joined(R, End(t))}})

Merge(R) ==
    {[r EXCEPT !.size = MergedEnd(R, r) - r.start] : r \in {t \in R : ~Joined(R, t.start)}}

RemovePages(R, S) == Merge(Parts(R, Pages \ S))

RemoveRange(R, a, n) == RemovePages(R, Span(a, n))

Edit(R, a, n, field, value) ==
    Merge(Outside(R, a, n) \cup {[r EXCEPT ![field] = value] : r \in Inside(R, a, n)})

NewRange(a, n, type, offset, prot, name) ==
    [start |-> a, size |-> n, type |-> type, offset |-> offset, prot |-> prot, name |-> name]

\* Add refuses an overlap.
AddRange(R, r) == IF Overlapping(R, r.start, r.size) THEN R ELSE Merge(R \cup {r})

Reservation(a, n, name) == NewRange(a, n, "Reserved", 0, "None", name)

\* QuerySpan: the parts of the n pages at a, if they are covered.
QuerySpan(R, a, n) == IF Span(a, n) \subseteq CellsOf(R) THEN Inside(R, a, n) ELSE {}

AllOf(chunks, types) == chunks # {} /\ \A r \in chunks : r.type \in types

-----------------------------------------------------------------------------
(***************************************************************************)
(* The guest address space.                                                *)
(***************************************************************************)
HostIs(m, S, h) == \A p \in S : m.host[p] = h

\* ContainsMappedUnlocked with MappingType::Backing, GuestBackingStore::Contains.
IsBacked(m, S) == \A p \in S : m.host[p] >= 0

\* What f says, and g where f says nothing.
Onto(f, g) == [p \in DOMAIN f \cup DOMAIN g |-> IF p \in DOMAIN f THEN f[p] ELSE g[p]]

\* MapBacking and Commit: the pages of f get what f has for them.
SetHost(m, f) == [m EXCEPT !.host = Onto(f, @)]

\* UnmapBacking and ReleaseCommitted.
UnmapHost(m, S) == SetHost(m, [p \in S |-> Unmapped])

\* FindGuestFreeRange: the first n pages from a on that the host and the
\* ranges have free; 0 if there are none.
FindGuestFreeRange(m, a, n) ==
    LET fits == {p \in Pages : /\ p >= a /\ p + n - 1 <= MaxPage
                               /\ HostIs(m, Span(p, n), Unmapped)
                               /\ ~Overlapping(m.ranges, p, n)}
    IN  IF fits = {} THEN 0 ELSE Min(fits)

MapGpuRange(m, S) == [m EXCEPT !.gpu = @ \cup S]

UnmapGpuRange(m, S) == [m EXCEPT !.gpu = @ \ S]

-----------------------------------------------------------------------------
(***************************************************************************)
(* Taking a range away from its owner, as UnmapMemoryRange and             *)
(* ReplaceFixedRangeWithReserved do chunk by chunk.                        *)
(***************************************************************************)

\* The owner has what the range says it has.
Releasable(m, r) ==
    LET S == Cells(r)
    IN  CASE r.type \in Reservations -> HostIs(m, S, Unmapped)
          [] r.type \in PrivateTypes -> HostIs(m, S, Private)
          [] r.type = "Direct"       -> IsBacked(m, S) /\ \E b \in m.maps : S \subseteq Cells(b)
          [] r.type = "Flexible"     -> IsBacked(m, S) /\ S \subseteq DOMAIN m.flex
          [] r.type = "Pooled"       -> IsBacked(m, S) /\ S \subseteq DOMAIN m.pool

Images(f, S) == {f[p] : p \in S}

\* PhysicalMemory::Unmap.
UnmapDirect(m, S) == [m EXCEPT !.maps = Parts(@, Pages \ S)]

\* FlexibleMemory::Unmap.
UnmapFlexible(m, S) ==
    [m EXCEPT !.flex = Restrict(@, DOMAIN @ \ S),
              !.flexFree = @ \cup Images(m.flex, S)]

\* UnmapPooledBackingTransactional, PooledMemory::Release and
\* MemoryPoolSubtractCommitted.
UnmapPooled(m, S) ==
    [m EXCEPT !.pool = Restrict(@, DOMAIN @ \ S),
              !.poolFree = @ \cup Images(m.pool, S),
              !.committed = Max({0, @ - Cardinality(S)})]

\* Every chunk's pages are taken from the host and from their owner.
ReleaseChunks(m, chunks) ==
    LET m1 == UnmapDirect(UnmapHost(m, CellsOf(chunks)), PagesOf(chunks, {"Direct"}))
        m2 == UnmapFlexible(m1, PagesOf(chunks, {"Flexible"}))
    IN  UnmapPooled(m2, PagesOf(chunks, {"Pooled"}))

\* The chunks that would fail; unmapping a view of the backing is a call to
\* the host.  The chunks are taken in order, up to the first that fails.
Failing(m, chunks, fault) ==
    {r \in chunks : ~Releasable(m, r) \/ (r.start = fault /\ r.type \in BackedTypes)}

\* Mutant: the chunk that fails counts as done.
MutCompleted(chunks, failing) == {r \in chunks : \A f \in failing : r.start <= f.start}

Completed(chunks, failing) == {r \in chunks : \A f \in failing : r.start < f.start}

\* UnmapMemoryRange.
UnmapChunks(m, chunks, failing) ==
    LET done == Completed(chunks, failing)
    IN  [ReleaseChunks(m, done) EXCEPT !.ranges = RemovePages(@, CellsOf(done)),
                                       !.torn = @ \/ failing # {}]

UnmapMemoryRange(m, chunks, fault) == UnmapChunks(m, chunks, Failing(m, chunks, fault))

-----------------------------------------------------------------------------
(***************************************************************************)
(* ReplaceFixedRangeWithReserved.                                          *)
(***************************************************************************)

\* restore_chunks: the chunks that were released get back what they had, and
\* every chunk its range; the mapping of a direct chunk is now one of its own.
RestoreChunks(m, chunks, done, a, n) ==
    LET back == {r \in done : r.type = "Direct"}
    IN  IF ~\A r \in back : Span(r.offset, r.size) \subseteq m.allocated
        THEN [m EXCEPT !.status = "Broken"]
        ELSE [m EXCEPT !.maps = Parts(@, Pages \ CellsOf(back))
                                    \cup {[r EXCEPT !.name = ""] : r \in back},
                       !.ranges = Merge(Outside(@, a, n) \cup chunks),
                       !.gpu = (@ \ Span(a, n)) \cup PagesOf(chunks, CommittedTypes)]

\* The chunks of pooled memory are not supported.  A chunk that cannot be
\* released, or pages the host does not have free in the end, undo the call.
ReplaceChunks(m, chunks, a, n, failing) ==
    IF \E r \in chunks : r.type = "Pooled"
    THEN [ok |-> FALSE, mem |-> [m EXCEPT !.status = "Ended"]]
    ELSE IF failing # {} \/ ~HostIs(m, Span(a, n) \ CellsOf(chunks), Unmapped)
    THEN [ok |-> FALSE, mem |-> RestoreChunks(m, chunks, Completed(chunks, failing), a, n)]
    ELSE [ok |-> TRUE,
          mem |-> [ReleaseChunks(UnmapGpuRange(m, Span(a, n)), chunks) EXCEPT !.ranges =
                      AddRange(RemoveRange(@, a, n), Reservation(a, n, "anon"))]]

ReplaceFixedRangeWithReserved(m, a, n, fault) ==
    LET chunks == Inside(m.ranges, a, n)
    IN  ReplaceChunks(m, chunks, a, n, Failing(m, chunks, fault))

\* Where a mapping of n pages goes: a reservation that is consumed, whose
\* name is kept for the way back, or pages that are free (name "").  A
\* fixed mapping makes the reservation; a hint may be one.
Consume(m, a, n, name) ==
    [at |-> a, name |-> name,
     mem |-> [UnmapGpuRange(m, Span(a, n)) EXCEPT !.ranges = RemoveRange(@, a, n)]]

\* No place, and the memory as it is then.
NoPlace(m) == [at |-> 0, name |-> "", mem |-> m]

ReplacedPlace(replaced, a, n) ==
    IF replaced.ok THEN Consume(replaced.mem, a, n, "anon") ELSE NoPlace(replaced.mem)

FreePlace(m, n, found) ==
    IF found = 0 THEN NoPlace(m)
    ELSE [at |-> found, name |-> "", mem |-> UnmapGpuRange(m, Span(found, n))]

PlaceIn(m, a, n, span, fixed, hint, fault) ==
    LET reserved == AllOf(span, {"Reserved"})
    IN  CASE reserved /\ (fixed \/ hint) ->
                Consume(m, a, n, (CHOOSE r \in span : r.start = a).name)
          [] ~reserved /\ fixed ->
                ReplacedPlace(ReplaceFixedRangeWithReserved(m, a, n, fault), a, n)
          [] OTHER -> FreePlace(m, n, FindGuestFreeRange(m, a, n))

Place(m, a, n, fixed, hint, fault) ==
    PlaceIn(m, a, n, IF a = 0 THEN {} ELSE QuerySpan(m.ranges, a, n), fixed, hint, fault)

\* A reservation that was consumed for a mapping that failed is put back.
PutBack(place, n) ==
    [place.mem EXCEPT !.ranges = IF place.name = "" THEN @
                                 ELSE AddRange(@, Reservation(place.at, n, place.name))]

-----------------------------------------------------------------------------
(***************************************************************************)
(* The calls.  fault says which call to the host fails: none (0), the one  *)
(* that maps or protects the pages (-1), or the unmapping of the chunk     *)
(* that starts at page fault.                                              *)
(***************************************************************************)
MemoryCall(c) == mem.status = "Up" /\ c \in allowed /\ UNCHANGED allowed

\* PhysicalMemory::Alloc: the first n pages that are free, from s on.
FirstFit(m, s, n) ==
    LET fits == {p \in Direct : p >= s /\ Span(p, n) \subseteq m.free}
    IN  IF fits = {} THEN DirectPages ELSE Min(fits)

AllocateDirectMemory(s, n) ==
    LET p == FirstFit(mem, s, n) IN
    /\ MemoryCall("AllocateDirect")
    /\ p < DirectPages
    /\ mem' = [mem EXCEPT !.free = @ \ Span(p, n), !.allocated = @ \cup Span(p, n)]

\* The host refuses the pages of a place.
Refused(place, n, fault) == fault = -1 \/ ~HostIs(place.mem, Span(place.at, n), Unmapped)

\* KernelMapDirectMemory, and KernelMapNamedDirectMemory with its Rename.
DirectAt(place, n, offset, fault) ==
    LET S   == Span(place.at, n)
        new == NewRange(place.at, n, "Direct", offset, "RW", "")
    IN  IF place.at = 0 THEN place.mem
        ELSE IF Refused(place, n, fault) THEN PutBack(place, n)
        ELSE MapGpuRange(
                [SetHost(place.mem, [p \in S |-> offset + p - place.at]) EXCEPT
                    !.maps = @ \cup {new},
                    !.ranges = AddRange(@, [new EXCEPT !.name = "guest"])], S)

CanMapDirect(offset, n) == Span(offset, n) \subseteq mem.allocated

MapDirectMemory(a, n, fixed, offset, fault) ==
    /\ MemoryCall("MapDirect")
    /\ fixed => a # 0
    /\ CanMapDirect(offset, n)
    /\ mem' = DirectAt(Place(mem, a, n, fixed, TRUE, fault), n, offset, fault)

\* The lowest free offsets go behind the pages from a on, in order: behind p
\* the one with p - a of them below it.
Behind(offsets, a, p) ==
    CHOOSE x \in offsets : Cardinality({y \in offsets : y < x}) = p - a

Lowest(offsets, a, n) == [p \in Span(a, n) |-> Behind(offsets, a, p)]

Taken(f) == Images(f, DOMAIN f)

\* KernelMapNamedFlexibleMemory, with the offsets behind the pages.
FlexibleAt(place, n, behind, fault) ==
    IF place.at = 0 THEN place.mem
    ELSE IF Refused(place, n, fault) THEN PutBack(place, n)
    ELSE MapGpuRange(
            [SetHost(place.mem, behind) EXCEPT
                !.flex = Onto(behind, @),
                !.flexFree = @ \ Taken(behind),
                !.ranges = AddRange(@, NewRange(place.at, n, "Flexible", 0, "RW", "guest"))],
            Span(place.at, n))

\* Replacing a flexible range may free offsets.
FlexibleIn(place, n, fault) ==
    FlexibleAt(place, n, Lowest(place.mem.flexFree, place.at, n), fault)

MapFlexibleMemory(a, n, fixed, fault) ==
    /\ MemoryCall("MapFlexible")
    /\ fixed => a # 0
    /\ n <= Cardinality(mem.flexFree)
    /\ mem' = FlexibleIn(Place(mem, a, n, fixed, FALSE, fault), n, fault)

\* KernelReserveVirtualRange: the host keeps the pages as they are.
ReplacedAt(replaced, a) == [at |-> IF replaced.ok THEN a ELSE 0, mem |-> replaced.mem]

ReservedAt(m, n, found) ==
    [at |-> found,
     mem |-> IF found = 0 THEN m
             ELSE [UnmapGpuRange(m, Span(found, n)) EXCEPT !.ranges =
                     AddRange(@, Reservation(found, n, "anon"))]]

ReserveVirtualRange(m, a, n, fixed, fault) ==
    IF fixed THEN ReplacedAt(ReplaceFixedRangeWithReserved(m, a, n, fault), a)
    ELSE ReservedAt(m, n, FindGuestFreeRange(m, a, n))

Reserve(a, n, fixed, fault) ==
    /\ MemoryCall("Reserve")
    /\ fixed => a # 0
    /\ mem' = ReserveVirtualRange(mem, a, n, fixed, fault).mem

\* KernelMunmap.
Munmap(a, n, fault) ==
    LET chunks == QuerySpan(mem.ranges, a, n) IN
    /\ MemoryCall("Munmap")
    /\ chunks # {}
    /\ mem' = UnmapMemoryRange(UnmapGpuRange(mem, Span(a, n)), chunks, fault)

\* PhysicalMemory::ProtectMapping cuts the mapping of every direct chunk.
ProtectMappings(M, direct, prot) ==
    Parts(M, Pages \ CellsOf(direct))
        \cup UNION {{[b EXCEPT !.prot = prot] : b \in Parts(M, Cells(r))} : r \in direct}

\* KernelMprotect ends the program unless all of the range is committed and
\* the host protects it.
Mprotect(a, n, prot, fault) ==
    LET chunks == QuerySpan(mem.ranges, a, n) IN
    /\ MemoryCall("Mprotect")
    /\ mem' = IF fault = 0 /\ AllOf(chunks, CommittedTypes)
              THEN [mem EXCEPT
                      !.maps = ProtectMappings(@, {r \in chunks : r.type = "Direct"}, prot),
                      !.ranges = Edit(@, a, n, "prot", prot)]
              ELSE [mem EXCEPT !.status = "Ended"]

\* KernelSetVirtualRangeName: the ranges are cut where the name ends, the
\* mappings are not.
SetVirtualRangeName(a, n, name) ==
    /\ MemoryCall("SetName")
    /\ mem' = [mem EXCEPT !.ranges = Edit(@, a, n, "name", name)]

\* AllocateGuestRuntimeMemory: program memory, runtime memory and stacks.
AllocateGuestRuntimeMemory(a, n, type, fixed, fault) ==
    LET at == IF fixed THEN a ELSE FindGuestFreeRange(mem, a, n)
        S  == Span(at, n)
        m1 == UnmapGpuRange(mem, S)
    IN
    /\ MemoryCall("Runtime")
    /\ at # 0 /\ ~Overlapping(mem.ranges, at, n)
    /\ mem' = IF fault = -1 \/ ~HostIs(mem, S, Unmapped) THEN m1
              ELSE MapGpuRange([SetHost(m1, [p \in S |-> Private]) EXCEPT !.ranges =
                                  AddRange(@, NewRange(at, n, type, 0, "RW", "rt"))], S)

\* FreeGuestMemory requires that all of the range is of the runtime's.
FreeGuestMemory(a, n) ==
    LET chunks == QuerySpan(mem.ranges, a, n)
        m1     == UnmapGpuRange(mem, Span(a, n))
    IN
    /\ MemoryCall("Runtime")
    /\ mem' = IF ~AllOf(chunks, {"Code", "Runtime"})
              THEN [mem EXCEPT !.status = "Ended"]
              ELSE IF ~HostIs(mem, Span(a, n), Private) THEN m1
              ELSE [UnmapHost(m1, Span(a, n)) EXCEPT !.ranges = RemoveRange(@, a, n)]

-----------------------------------------------------------------------------
(***************************************************************************)
(* ReleaseDirectMemoryInternal.                                            *)
(***************************************************************************)

\* FindMappings: the parts of the mappings that are views of S.
Aliases(m, S) == UNION {PartsOf(b, {p \in Cells(b) : b.offset + p - b.start \in S}) : b \in m.maps}

\* The check that an alias is the guest address space's, and of one range.
Owned(m, b) ==
    /\ IsBacked(m, Cells(b))
    /\ \E r \in m.ranges : r.type = "Direct" /\ Cells(b) \subseteq Cells(r)

\* PooledMemory::ReleaseExpansion and PhysicalMemory::GetAllocatedSpan.
IsIdleExpansion(S) == S \in mem.expansions /\ S \subseteq mem.poolFree

IsAllocatedSpan(S) == S \subseteq mem.allocated

ReleaseDirectMemory(offset, n, fault) ==
    LET S       == Span(offset, n)
        isPool  == IsIdleExpansion(S)
        aliases == Aliases(mem, S)
        seen    == CellsOf(aliases)
    IN
    /\ MemoryCall("ReleaseDirect")
    /\ isPool \/ IsAllocatedSpan(S)
    /\ mem' =
        CASE isPool -> [mem EXCEPT !.expansions = @ \ {S}, !.poolFree = @ \ S, !.free = @ \cup S]
          [] ~isPool /\ \E b \in aliases : ~Owned(mem, b) -> [mem EXCEPT !.status = "Escaped"]
          [] OTHER ->
                IF \E b \in aliases : b.start = fault
                THEN MapGpuRange(mem, seen)
                ELSE [ReleaseChunks(UnmapGpuRange(mem, seen), aliases) EXCEPT
                        !.ranges = RemovePages(@, seen),
                        !.allocated = @ \ S, !.free = @ \cup S]

-----------------------------------------------------------------------------
(***************************************************************************)
(* The memory pool.                                                        *)
(***************************************************************************)
MemoryPoolExpand(s, n) ==
    LET p == FirstFit(mem, s, n) IN
    /\ MemoryCall("PoolExpand")
    /\ p < DirectPages
    /\ mem' = [mem EXCEPT !.free = @ \ Span(p, n), !.expansions = @ \cup {Span(p, n)},
                          !.poolFree = @ \cup Span(p, n)]

\* The reservation becomes the pool's, unless it was merged with another.
PoolReservedAt(place, n) ==
    IF ~\E r \in place.mem.ranges : r.start = place.at /\ r.size = n /\ r.type \in Reservations
    THEN place.mem
    ELSE [place.mem EXCEPT !.ranges =
            AddRange(RemoveRange(@, place.at, n),
                     NewRange(place.at, n, "PoolReserved", 0, "None", "anon"))]

MemoryPoolReserve(a, n, fixed, fault) ==
    /\ MemoryCall("PoolReserve")
    /\ fixed => a # 0
    /\ mem' = PoolReservedAt(ReserveVirtualRange(mem, a, n, fixed, fault), n)

\* KernelMemoryPoolCommit, whose way back leaves everything as it was.
MemoryPoolCommit(a, n, fault) ==
    LET S      == Span(a, n)
        hosts  == {r \in mem.ranges : r.type = "PoolReserved" /\ S \subseteq Cells(r)}
        behind == Lowest(mem.poolFree, a, n)
        new    == NewRange(a, n, "Pooled", 0, "RW", (CHOOSE r \in hosts : TRUE).name)
    IN
    /\ MemoryCall("PoolCommit")
    /\ hosts # {}
    /\ n <= Cardinality(mem.poolFree)
    /\ mem' = IF fault = -1 \/ ~HostIs(mem, S, Unmapped) THEN mem
              ELSE MapGpuRange(
                      [SetHost(mem, behind) EXCEPT
                          !.pool = Onto(behind, @),
                          !.poolFree = @ \ Taken(behind),
                          !.committed = @ + n,
                          !.ranges = AddRange(RemoveRange(@, a, n), new)],
                      S)

\* KernelMemoryPoolDecommit: every chunk that is committed becomes reserved.
MemoryPoolDecommit(a, n, fault) ==
    LET chunks == QuerySpan(mem.ranges, a, n)
        pooled == {r \in chunks : r.type = "Pooled"}
        back   == {NewRange(r.start, r.size, "PoolReserved", 0, "None", r.name) : r \in pooled}
    IN
    /\ MemoryCall("PoolDecommit")
    /\ AllOf(chunks, {"Pooled", "PoolReserved"})
    /\ mem' = IF pooled # {} /\ fault > 0 THEN [mem EXCEPT !.status = "Ended"]
              ELSE IF ~\A r \in pooled : Releasable(mem, r) THEN [mem EXCEPT !.status = "Broken"]
              ELSE [ReleaseChunks(UnmapGpuRange(mem, Span(a, n)), pooled) EXCEPT !.ranges =
                      Merge(Parts(@, Pages \ CellsOf(pooled)) \cup back)]

-----------------------------------------------------------------------------
Lengths == 1..MaxLength

\* The page of the unmapping that fails, if one does.
Unmapping == 0..MaxPage

MemoryNext ==
    \/ \E s \in Direct, n \in Lengths :
          AllocateDirectMemory(s, n) \/ MemoryPoolExpand(s, n)
    \/ \E offset \in Direct, n \in Lengths, fault \in Unmapping :
          ReleaseDirectMemory(offset, n, fault)
    \/ \E n \in Lengths, a \in 0..MaxPage, fixed \in BOOLEAN, fault \in Unmapping \cup {-1} :
          /\ a + n - 1 <= MaxPage
          /\ \/ Reserve(a, n, fixed, fault)
             \/ MemoryPoolReserve(a, n, fixed, fault)
             \/ MapFlexibleMemory(a, n, fixed, fault)
             \/ \E offset \in Direct : MapDirectMemory(a, n, fixed, offset, fault)
    \/ \E n \in Lengths, a \in Pages :
          /\ a + n - 1 <= MaxPage
          /\ \/ \E fault \in Unmapping : Munmap(a, n, fault) \/ MemoryPoolDecommit(a, n, fault)
             \/ \E name \in Names : SetVirtualRangeName(a, n, name)
             \/ FreeGuestMemory(a, n)
             \/ \E fault \in {0, -1} :
                   \/ \E type \in {"Stack", "Code", "Runtime"}, fixed \in BOOLEAN :
                         AllocateGuestRuntimeMemory(a, n, type, fixed, fault)
                   \/ \E prot \in Prots : Mprotect(a, n, prot, fault)
                   \/ MemoryPoolCommit(a, n, fault)

MemorySpec == MemoryInit /\ [][MemoryNext]_memVars

-----------------------------------------------------------------------------
\* What the owner of the range r has behind its page p, as the host sees it.
Backing(r, p) ==
    CASE r.type = "Direct"           -> r.offset + p - r.start
      [] r.type = "Flexible"         -> mem.flex[p]
      [] r.type = "Pooled"           -> mem.pool[p]
      [] r.type \in PrivateTypes     -> Private
      [] r.type \in Reservations     -> Unmapped

\* Ranges do not overlap, and two that could be one are one.
RangesCanonical ==
    \A r, s \in mem.ranges :
        r # s => Cells(r) \cap Cells(s) = {} /\ ~(End(r) = s.start /\ SameMergeKey(r, s))

\* The owners hold mappings for exactly the pages whose ranges say so, a
\* direct range as part of one mapping with the same offsets.
OwnersAgree ==
    /\ DOMAIN mem.flex = PagesOf(mem.ranges, {"Flexible"})
    /\ DOMAIN mem.pool = PagesOf(mem.ranges, {"Pooled"})
    /\ CellsOf(mem.maps) = PagesOf(mem.ranges, {"Direct"})
    /\ \A r \in mem.ranges : r.type = "Direct" =>
          \E b \in mem.maps : /\ Cells(r) \subseteq Cells(b)
                              /\ r.offset - r.start = b.offset - b.start /\ r.prot = b.prot
    /\ mem.committed = Cardinality(DOMAIN mem.pool)

\* No backing page is lost or has two owners; direct memory that is mapped
\* is allocated.
BackingAccounted ==
    LET flexed == Taken(mem.flex)
        pooled == Taken(mem.pool)
        pools  == UNION mem.expansions
    IN  /\ mem.free \cup mem.allocated \cup pools = Direct
        /\ Cardinality(Direct) = Cardinality(mem.free) + Cardinality(mem.allocated)
                                  + Cardinality(pools)
        /\ pooled \cup mem.poolFree = pools /\ pooled \cap mem.poolFree = {}
        /\ Cardinality(pooled) = Cardinality(DOMAIN mem.pool)
        /\ flexed \cup mem.flexFree = Flexible /\ flexed \cap mem.flexFree = {}
        /\ Cardinality(flexed) = Cardinality(DOMAIN mem.flex)
        /\ \A b \in mem.maps : Span(b.offset, b.size) \subseteq mem.allocated

\* "Keep host mappings, physical blocks, placeholders, and virtual ranges in
\* step": whatever the calls, and whichever call to the host fails in one,
\* the host maps behind every page what the owner of its range says, and no
\* rollback or internal check finds otherwise.  The GPU maps only committed
\* pages, and all of them unless a KernelMunmap failed half-way.
MemoryInStep ==
    mem.status \in {"Up", "Broken"} =>
        /\ mem.status # "Broken"
        /\ RangesCanonical
        /\ OwnersAgree
        /\ BackingAccounted
        /\ \A r \in mem.ranges, p \in Pages : p \in Cells(r) => mem.host[p] = Backing(r, p)
        /\ HostIs(mem, Pages \ CellsOf(mem.ranges), Unmapped)
        /\ mem.gpu \subseteq PagesOf(mem.ranges, CommittedTypes)
        /\ ~mem.torn => mem.gpu = PagesOf(mem.ranges, CommittedTypes)

\* Releasing direct memory finds every alias to be of one range of the guest
\* address space (the check of ReleaseDirectMemoryInternal).
AliasesOwned == mem.status # "Escaped"

=============================================================================
