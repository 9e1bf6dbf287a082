---------------------------- MODULE StreamBuffer ----------------------------
(***************************************************************************)
(* The ring of host-visible memory of                                      *)
(* src/src/graphics/host_gpu/renderer/cache/streamBuffer.cpp.  The CPU     *)
(* reserves a region with Map and hands it to the GPU with Commit, which   *)
(* notes in a watch that the bytes below upper_bound are in use until the  *)
(* scheduler's tick completes.  When a reservation does not fit behind the *)
(* offset the ring starts again at 0: the watches of this lap become those *)
(* of the previous lap, and a later Map first waits for the ones that      *)
(* cover its region.                                                       *)
(*                                                                         *)
(* One thread calls the ring.  The GPU completes submitted ticks in order, *)
(* and in a Download ring the bytes are free only after the priority       *)
(* operation of the tick, which copies them out, has run: see              *)
(* CommandScheduler, whose guarantees the actions marked external assume.  *)
(***************************************************************************)
EXTENDS Integers, Sequences, SequencesExt, FiniteSetsExt

CONSTANTS
    Size,       \* Size(): bytes in the ring
    Atom,       \* nonCoherentAtomSize
    Coherent,   \* IsCoherent()
    Download,   \* Usage() == MemoryUsage::Download
    Requests,   \* the <<size, alignment>> arguments callers pass to Map
    MaxTick     \* bound: nobody maps or flushes from this tick on

ASSUME RingAssumption ==
    /\ Size \in Nat \ {0}
    /\ Atom \in Nat \ {0}
    /\ Coherent \in BOOLEAN
    /\ Download \in BOOLEAN
    /\ Requests \subseteq Nat \X Nat
    /\ MaxTick \in Nat

VARIABLES
    offset,     \* m_offset
    mapped,     \* m_mapped_size
    current,    \* the first m_current_watch_cursor of m_current_watches
    previous,   \* the first m_invalidation_mark of m_previous_watches
    waitCursor, \* m_wait_cursor: the watches of previous already waited for
    waitBound,  \* m_wait_bound: the bytes below it are free
    phase,      \* "Idle", "Waiting" inside Map, or "Mapped" until the Commit
    call,       \* the locals of Map while it waits
    tick,       \* Scheduler().CurrentTick()
    done,       \* the last tick the GPU completed
    read,       \* the last tick whose priority operations have run
    used        \* history: the tick of the last Commit that covered each byte

ring == <<offset, mapped, current, previous, waitCursor, waitBound>>

vars == <<ring, phase, call, tick, done, read, used>>

Bytes == 0..(Size - 1)

Watch == [tick : Nat, bound : Nat]

Call == [start : Nat, size : Nat, wrap : BOOLEAN, wait : BOOLEAN,
         cursor : Nat, bound : Nat]

Init ==
    /\ offset = 0 /\ mapped = 0
    /\ current = <<>> /\ previous = <<>>
    /\ waitCursor = 0 /\ waitBound = 0
    /\ phase = "Idle"
    /\ call = [start |-> 0, size |-> 0, wrap |-> FALSE, wait |-> FALSE,
               cursor |-> 0, bound |-> 0]
    /\ tick = 1 /\ done = 0 /\ read = 0
    /\ used = [b \in Bytes |-> 0]

-----------------------------------------------------------------------------
AlignUp(value, alignment) ==
    IF alignment = 0 \/ value % alignment = 0
    THEN value
    ELSE value + (alignment - (value % alignment))

\* The size of a reservation after NormalizeReservation.
MappedSize(size) == IF Coherent THEN size ELSE AlignUp(size, Atom)

\* Mutant: the atom only replaces a missing alignment.
MutMappedAlignment(alignment) ==
    IF Coherent \/ alignment # 0 THEN alignment ELSE Atom

\* Its alignment: with the atom, their least common multiple.
MappedAlignment(alignment) ==
    IF Coherent THEN alignment
    ELSE IF alignment = 0 THEN Atom
         ELSE Min({m \in 1..(alignment * Atom) :
                       m % alignment = 0 /\ m % Atom = 0})

-----------------------------------------------------------------------------
(***************************************************************************)
(* Map.  A mapping the caller never commits is simply replaced by the next *)
(* one: ObtainBuffer does so when the guest memory cannot be read.         *)
(***************************************************************************)

\* The reservation is larger than the ring: null, and nothing has changed.
MapOversize(size) ==
    /\ phase # "Waiting"
    /\ MappedSize(size) > Size
    /\ phase' = "Idle"
    /\ UNCHANGED <<ring, call, tick, done, read, used>>

\* Map chooses the region and enters WaitPendingOperations.
MapBegin(size, alignment, mayWait) ==
    LET needed  == MappedSize(size)
        aligned == AlignUp(offset, MappedAlignment(alignment))
        wrap    == aligned > Size - needed
    IN  /\ phase # "Waiting"
        /\ tick < MaxTick
        /\ needed <= Size
        /\ phase' = "Waiting"
        /\ call' = [start  |-> IF wrap THEN 0 ELSE aligned,
                    size   |-> needed,
                    wrap   |-> wrap,
                    wait   |-> mayWait,
                    cursor |-> IF wrap THEN 0 ELSE waitCursor,
                    bound  |-> IF wrap THEN 0 ELSE waitBound]
        /\ UNCHANGED <<ring, tick, done, read, used>>

\* pending_watches: a wrap waits for the lap that is about to end.
Pending == IF call.wrap THEN current ELSE previous

\* The condition of the loop in WaitPendingOperations.
MoreToWait ==
    /\ call.start + call.size > call.bound
    /\ call.cursor < Len(Pending)

NextWatch == Pending[call.cursor + 1]

\* Without allow_wait a watch that is not free makes Map return null, with
\* the ring as it was before the call.
WaitRefuse ==
    /\ phase = "Waiting"
    /\ MoreToWait
    /\ ~call.wait /\ NextWatch.tick > done
    /\ phase' = "Idle"
    /\ UNCHANGED <<ring, call, tick, done, read, used>>

\* Scheduler().Wait for the tick still being recorded: FinishCurrent submits
\* it and recording goes on under the next tick.
WaitSubmit ==
    /\ phase = "Waiting"
    /\ MoreToWait
    /\ call.wait /\ NextWatch.tick >= tick
    /\ tick' = tick + 1
    /\ UNCHANGED <<ring, phase, call, done, read, used>>

\* Mutant: the priority operations of the tick are not awaited.
MutWaitNext ==
    /\ phase = "Waiting"
    /\ MoreToWait
    /\ NextWatch.tick <= done
    /\ call' = [call EXCEPT !.bound = NextWatch.bound, !.cursor = @ + 1]
    /\ UNCHANGED <<ring, phase, tick, done, read, used>>

\* The watch is free: its tick has completed and, in a Download ring, its
\* priority operations have run (WaitPriorityOperations).
WaitNext ==
    /\ phase = "Waiting"
    /\ MoreToWait
    /\ NextWatch.tick <= done
    /\ Download => NextWatch.tick <= read
    /\ call' = [call EXCEPT !.bound = NextWatch.bound, !.cursor = @ + 1]
    /\ UNCHANGED <<ring, phase, tick, done, read, used>>

\* The region is free: Map publishes its locals and returns the region.
MapEnd ==
    /\ phase = "Waiting"
    /\ ~MoreToWait
    /\ phase' = "Mapped"
    /\ previous' = IF call.wrap THEN current ELSE previous
    /\ current' = IF call.wrap THEN <<>> ELSE current
    /\ waitCursor' = call.cursor
    /\ waitBound' = call.bound
    /\ offset' = call.start
    /\ mapped' = call.size
    /\ UNCHANGED <<call, tick, done, read, used>>

\* Commit: the last watch grows if it is of the same tick, else a new one.
Commit ==
    /\ phase = "Mapped"
    /\ phase' = "Idle"
    /\ offset' = offset + mapped
    /\ current' = LET watch == [tick |-> tick, bound |-> offset + mapped]
                  IN  IF current # <<>> /\ Last(current).tick = tick
                      THEN [current EXCEPT ![Len(current)] = watch]
                      ELSE Append(current, watch)
    /\ used' = [b \in Bytes |->
                    IF offset <= b /\ b < offset + mapped THEN tick ELSE used[b]]
    /\ UNCHANGED <<mapped, previous, waitCursor, waitBound, call, tick, done, read>>

-----------------------------------------------------------------------------
\* The renderer flushes between two uses of the ring, as it may at any draw.
Flush ==
    /\ phase # "Waiting"
    /\ tick < MaxTick
    /\ tick' = tick + 1
    /\ UNCHANGED <<ring, phase, call, done, read, used>>

\* External: the device completes the submitted ticks in order.
GpuComplete ==
    /\ done + 1 < tick
    /\ done' = done + 1
    /\ UNCHANGED <<ring, phase, call, tick, read, used>>

\* The priority thread runs the operations of the next completed tick.
RunPriority ==
    /\ Download
    /\ read < done
    /\ read' = read + 1
    /\ UNCHANGED <<ring, phase, call, tick, done, used>>

Next ==
    \/ \E r \in Requests : MapOversize(r[1])
    \/ \E r \in Requests, w \in BOOLEAN : MapBegin(r[1], r[2], w)
    \/ WaitRefuse
    \/ WaitSubmit
    \/ WaitNext
    \/ MapEnd
    \/ Commit
    \/ Flush
    \/ GpuComplete
    \/ RunPriority

Spec == Init /\ [][Next]_vars

(***************************************************************************)
(* The device and the priority thread run; a thread inside Map goes on     *)
(* when it can.  Nobody is obliged to map, commit or flush.                *)
(***************************************************************************)
FairSpec ==
    /\ Spec
    /\ WF_vars(GpuComplete)
    /\ WF_vars(RunPriority)
    /\ WF_vars(WaitRefuse \/ WaitSubmit \/ WaitNext \/ MapEnd)

-----------------------------------------------------------------------------
\* Nobody uses the bytes of tick t any more.
Free(t) == t <= done /\ (Download => t <= read)

\* Every variable has its type and the ticks are in order: the priority
\* thread is behind the device, which is behind the tick being recorded.
TypeOK ==
    /\ offset \in 0..Size
    /\ mapped \in 0..Size
    /\ current \in Seq(Watch) /\ previous \in Seq(Watch)
    /\ waitCursor \in 0..Len(previous)
    /\ waitBound \in 0..Size
    /\ phase \in {"Idle", "Waiting", "Mapped"}
    /\ call \in Call
    /\ tick \in Nat /\ done \in Nat /\ read \in Nat
    /\ read <= done /\ done < tick
    /\ used \in [Bytes -> Nat]

\* A region Map has returned is not in use: whatever was committed there in
\* an earlier lap, by whichever of several watches, the GPU is finished with
\* it and a download has been copied out (WaitPendingOperations).
MappedIsIdle ==
    phase = "Mapped" =>
        /\ offset + mapped <= Size
        /\ \A b \in Bytes : offset <= b /\ b < offset + mapped => Free(used[b])

\* In memory that is not coherent, Commit's vmaFlushAllocation writes back
\* whole atoms: no atom of the mapped region holds a byte that is in use
\* (NormalizeReservation).
AtomIsolation ==
    phase = "Mapped" /\ ~Coherent =>
        \A b, c \in Bytes :
            offset <= b /\ b < offset + mapped /\ c \div Atom = b \div Atom
                => Free(used[c])

\* What the user of a mapped region relies on: nobody else uses its bytes, nor,
\* where writing back takes whole atoms, their atoms.
RegionsSafe == MappedIsIdle /\ AtomIsolation

\* Map returns, also when it waits for the very tick that is being recorded:
\* WaitPendingOperations does not wait for what nobody has submitted.
MapReturns == phase = "Waiting" ~> phase # "Waiting"

=============================================================================
