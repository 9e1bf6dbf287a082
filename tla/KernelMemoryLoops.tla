-------------------------- MODULE KernelMemoryLoops --------------------------
(***************************************************************************)
(* The loops of memory.cpp, one range or one chunk at a time, beside the   *)
(* operators by which KernelMemory states what they leave.  The lists of   *)
(* the code are sequences here, in the order the code keeps them in.       *)
(***************************************************************************)
EXTENDS KernelMemory, Sequences, SequencesExt

InOrder(R) == SetToSortSeq(R, LAMBDA r, s : r.start < s.start)

-----------------------------------------------------------------------------
(***************************************************************************)
(* VirtualRanges.                                                          *)
(***************************************************************************)

\* AddPiece, onto a list.
AddPiece(out, r, start, end) == IF end <= start THEN out ELSE Append(out, Piece(r, start, end))

\* MergeUnlocked, on a list in order: a range grows the last one put out, or
\* is put out itself.
MergeUnlocked(list) ==
    LET Put(out, r) ==
            IF out # <<>> /\ End(Last(out)) = r.start /\ SameMergeKey(Last(out), r)
            THEN [out EXCEPT ![Len(out)].size = @ + r.size]
            ELSE Append(out, r)
    IN  FoldLeft(Put, <<>>, list)

\* Of every range on the list, what lies before the n pages at a, the inside
\* with the fields of change unless it goes, and what lies behind.
CutUnlocked(list, a, n, keep, change) ==
    LET Cut(out, r) ==
            IF Cells(r) \cap Span(a, n) = {} THEN Append(out, r)
            ELSE LET start  == Max({a, r.start})
                     end    == Min({a + n, End(r)})
                     before == AddPiece(out, r, r.start, start)
                     inside == IF keep THEN <<change @@ Piece(r, start, end)>> ELSE <<>>
                 IN  AddPiece(before \o inside, r, end, End(r))
    IN  FoldLeft(Cut, <<>>, list)

\* RemoveUnlocked, EditUnlocked.
RemoveUnlocked(list, a, n) == CutUnlocked(list, a, n, FALSE, <<>>)

EditUnlocked(list, a, n, field, value) ==
    MergeUnlocked(CutUnlocked(list, a, n, TRUE, field :> value))

\* MergeAroundUnlocked: the range at i is joined to the one before it, then
\* takes in the next ones up to the first that it cannot.
MergeNext(list, i) ==
    LET Take(acc, r) ==
            IF acc.open /\ End(acc.merged) = r.start /\ SameMergeKey(acc.merged, r)
            THEN [acc EXCEPT !.merged.size = @ + r.size]
            ELSE [acc EXCEPT !.open = FALSE, !.rest = Append(@, r)]
        z == FoldLeft(Take, [open |-> TRUE, merged |-> list[i], rest |-> <<>>],
                      SubSeq(list, i + 1, Len(list)))
    IN  SubSeq(list, 1, i - 1) \o <<z.merged>> \o z.rest

MergeAroundUnlocked(list, i) ==
    IF i > 1 /\ End(list[i - 1]) = list[i].start /\ SameMergeKey(list[i - 1], list[i])
    THEN MergeNext(RemoveAt([list EXCEPT ![i - 1].size = @ + list[i].size], i), i - 1)
    ELSE MergeNext(list, i)

\* Add, at the place LowerBound finds.
Add(list, r) ==
    LET i == Cardinality({k \in DOMAIN list : list[k].start < r.start}) + 1
    IN  MergeAroundUnlocked(InsertAt(list, i, r), i)

\* The loop of QuerySpan: the parts of the n pages at a, or none.  It leaves
\* at a gap, and goes no further than the end.
Walk(list, a, n) ==
    LET Look(acc, r) ==
            IF ~acc.open \/ End(r) <= acc.at THEN acc
            ELSE IF r.start > acc.at \/ acc.at = a + n THEN [acc EXCEPT !.open = FALSE]
            ELSE LET end == Min({a + n, End(r)})
                 IN  [acc EXCEPT !.at = end, !.out = @ \cup {Piece(r, acc.at, end)}]
        z == FoldLeft(Look, [open |-> TRUE, at |-> a, out |-> {}], list)
    IN  IF z.at = a + n THEN z.out ELSE {}

-----------------------------------------------------------------------------
(***************************************************************************)
(* The owners, and the loops over chunks.                                  *)
(***************************************************************************)

\* PhysicalMemory::Unmap cuts the one mapping the chunk r lies in.
UnmapMapping(M, r) ==
    LET b == CHOOSE c \in M : Cells(r) \subseteq Cells(c)
    IN  (M \ {b}) \cup ToSet(AddPiece(AddPiece(<<>>, b, b.start, r.start), b, End(r), End(b)))

\* One chunk is taken from the host and from its owner.
ReleaseChunk(m, r) ==
    LET m1 == UnmapHost(m, Cells(r))
    IN  CASE r.type = "Direct"   -> [m1 EXCEPT !.maps = UnmapMapping(@, r)]
          [] r.type = "Flexible" -> UnmapFlexible(m1, Cells(r))
          [] r.type = "Pooled"   -> UnmapPooled(m1, Cells(r))
          [] OTHER               -> m1

Fails(m, r, fault) == ~Releasable(m, r) \/ (r.start = fault /\ r.type \in BackedTypes)

\* UnmapMemoryRange, which calls itself for the first chunk and for the rest.
UnmapEach(m, chunks, fault) ==
    LET Unmap(acc, r) ==
            IF ~acc.open THEN acc
            ELSE IF Fails(acc.mem, r, fault)
            THEN [acc EXCEPT !.open = FALSE, !.mem.torn = TRUE]
            ELSE [acc EXCEPT !.mem = [ReleaseChunk(@, r) EXCEPT !.ranges =
                     ToSet(MergeUnlocked(RemoveUnlocked(InOrder(@), r.start, r.size)))]]
    IN  FoldLeft(Unmap, [open |-> TRUE, mem |-> m], chunks).mem

\* ProtectMapping, for the chunk r.
ProtectMapping(M, r, prot) ==
    ToSet(CutUnlocked(InOrder(M), r.start, r.size, TRUE, [prot |-> prot]))

\* The loop of FlexibleMemory::Map: page by page the first free offset.
FirstFree(free, a, n) ==
    LET Back(acc, p) ==
            [free   |-> acc.free \ {Min(acc.free)},
             behind |-> (p :> Min(acc.free)) @@ acc.behind]
    IN  FoldLeft(Back, [free |-> free, behind |-> <<>>], [k \in 1..n |-> a + k - 1]).behind

-----------------------------------------------------------------------------
(***************************************************************************)
(* ReplaceFixedRangeWithReserved.                                          *)
(***************************************************************************)

\* The chunks are released, up to the first that fails.
ReleaseEach(m, chunks, fault) ==
    LET Release(acc, r) ==
            IF acc.failed \/ Fails(acc.mem, r, fault) THEN [acc EXCEPT !.failed = TRUE]
            ELSE [acc EXCEPT !.mem = ReleaseChunk(@, r), !.done = @ + 1]
    IN  FoldLeft(Release, [mem |-> m, done |-> 0, failed |-> FALSE], chunks)

\* restore_chunks for one chunk, with what was behind its pages in before:
\* PhysicalMemory::Map, FlexibleMemory::Restore, Commit.
Restored(m, r, before) ==
    LET S    == Cells(r)
        host == SetHost(m, [p \in S |-> before.host[p]])
        flex == [p \in S |-> before.flex[p]]
    IN  CASE r.type = "Direct" /\ ~(Span(r.offset, r.size) \subseteq m.allocated) ->
                [m EXCEPT !.status = "Broken"]
          [] r.type = "Direct" -> [host EXCEPT !.maps = @ \cup {[r EXCEPT !.name = ""]}]
          [] r.type = "Flexible" ->
                [host EXCEPT !.flex = flex @@ @, !.flexFree = @ \ Images(flex, S)]
          [] OTHER -> host

RestoreEach(before, m, chunks, done) ==
    LET Back(r, acc) == Restored(acc, r, before)
        Gpu(acc, r)  == IF r.type \in Reservations THEN acc ELSE MapGpuRange(acc, Cells(r))
        owners       == FoldRight(Back, SubSeq(chunks, 1, done), m)
        ranges       == ToSet(FoldLeft(Add, InOrder(m.ranges), chunks))
    IN  IF owners.status = "Broken" THEN [before EXCEPT !.status = "Broken"]
        ELSE FoldLeft(Gpu, [owners EXCEPT !.ranges = ranges], chunks)

ReplaceFixed(m, a, n, fault) ==
    LET chunks  == InOrder(Inside(m.ranges, a, n))
        removed == [UnmapGpuRange(m, Span(a, n)) EXCEPT !.ranges =
                       ToSet(MergeUnlocked(RemoveUnlocked(InOrder(@), a, n)))]
        z       == ReleaseEach(removed, chunks, fault)
    IN  IF \E i \in DOMAIN chunks : chunks[i].type = "Pooled"
        THEN [ok |-> FALSE, mem |-> [m EXCEPT !.status = "Ended"]]
        ELSE IF z.failed \/ ~HostIs(z.mem, Span(a, n), Unmapped)
        THEN [ok |-> FALSE, mem |-> RestoreEach(m, z.mem, chunks, z.done)]
        ELSE [ok |-> TRUE, mem |-> [z.mem EXCEPT !.ranges =
                                       ToSet(Add(InOrder(@), Reservation(a, n, "anon")))]]

-----------------------------------------------------------------------------
\* Cutting, merging, adding, editing and finding ranges, at the n pages at a.
RangesAsLoops(a, n) ==
    LET R == mem.ranges
        L == InOrder(R)
    IN  /\ RemoveRange(R, a, n) = ToSet(MergeUnlocked(RemoveUnlocked(L, a, n)))
        /\ QuerySpan(R, a, n) = Walk(L, a, n)
        /\ \A prot \in Prots :
              Edit(R, a, n, "prot", prot) = ToSet(EditUnlocked(L, a, n, "prot", prot))
        /\ \A name \in Names \cup {"anon"} :
              LET r == Reservation(a, n, name) IN
              /\ Edit(R, a, n, "name", name) = ToSet(EditUnlocked(L, a, n, "name", name))
              /\ ~Overlapping(R, a, n) => AddRange(R, r) = ToSet(Add(L, r))

\* Unmapping, replacing and protecting chunks, and taking free offsets.
ChunksAsLoops(a, n) ==
    LET chunks == QuerySpan(mem.ranges, a, n)
        direct == {r \in chunks : r.type = "Direct"}
        Protect(M, r) == ProtectMapping(M, r, "RO")
    IN  /\ \A fault \in Unmapping :
              /\ chunks # {} => UnmapMemoryRange(mem, chunks, fault)
                                   = UnmapEach(mem, InOrder(chunks), fault)
              /\ ReplaceFixedRangeWithReserved(mem, a, n, fault) = ReplaceFixed(mem, a, n, fault)
        /\ ProtectMappings(mem.maps, direct, "RO") = FoldLeft(Protect, mem.maps, InOrder(direct))
        /\ n <= Cardinality(mem.flexFree) =>
              Lowest(mem.flexFree, a, n) = FirstFree(mem.flexFree, a, n)

\* In every memory a guest program can make, with every fault at every place,
\* the loops of memory.cpp leave what the operators of KernelMemory say: the
\* pieces and merges come out the same whichever way the ranges are cut, and
\* a loop over chunks that fails half-way has done, or undone, exactly the
\* chunks before (UnmapMemoryRange, ReplaceFixedRangeWithReserved).
LoopsAgree ==
    mem.status \in {"Up", "Broken"} =>
        \A a \in Pages, n \in Lengths :
            a + n - 1 <= MaxPage => RangesAsLoops(a, n) /\ ChunksAsLoops(a, n)
=============================================================================
