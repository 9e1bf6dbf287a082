------------------------- MODULE StreamBufferProofs -------------------------
(***************************************************************************)
(* The ring never hands out a byte that is still in use, for every size of *)
(* the ring, every atom and every set of requests.                         *)
(*                                                                         *)
(* MappedIsIdle is not inductive: it speaks of the moment after Map, and   *)
(* the reason lies in the watches of both laps.  The strengthening says    *)
(* what the watches promise: a watch of this lap is late enough for every  *)
(* byte below its bound, one of the previous lap for those of them not     *)
(* overwritten since (at or behind the offset), the last watch of a lap is *)
(* late enough for every byte, and what was waited for is free.            *)
(***************************************************************************)
EXTENDS StreamBuffer, FiniteSets, FiniteSetTheorems, WellFoundedInduction, TLAPS

\* This lap: its watches end at or below the offset and cover their bytes.
CurrentCovers ==
    /\ \A k \in 1..Len(current) :
           /\ current[k].bound <= offset
           /\ current[k].tick <= tick
           /\ \A b \in Bytes : b < current[k].bound => used[b] <= current[k].tick
    /\ current # <<>> => \A b \in Bytes : used[b] <= current[Len(current)].tick
    /\ current = <<>> => offset = 0

\* The lap before: its watches cover the bytes this lap has not reached.
PreviousCovers ==
    /\ \A k \in 1..Len(previous) :
           /\ previous[k].bound <= Size
           /\ previous[k].tick <= tick
           /\ \A b \in Bytes :
                  offset <= b /\ b < previous[k].bound => used[b] <= previous[k].tick
    /\ previous # <<>> =>
           \A b \in Bytes : offset <= b => used[b] <= previous[Len(previous)].tick
    /\ previous = <<>> => \A b \in Bytes : offset <= b => used[b] = 0

\* What a wait that stopped at the given cursor and bound has established.
Waited(start, watches, cursor, bound) ==
    /\ cursor \in 0..Len(watches)
    /\ bound \in 0..Size
    /\ \A b \in Bytes : start <= b /\ b < bound => Free(used[b])
    /\ cursor = Len(watches) => \A b \in Bytes : start <= b => Free(used[b])

\* The locals of a Map that is waiting.
CallInv ==
    phase = "Waiting" =>
        /\ call.start + call.size <= Size
        /\ call.wrap => call.start = 0 /\ current # <<>>
        /\ ~call.wrap => offset <= call.start
        /\ current = <<>> => call.start = 0
        /\ Waited(call.start, Pending, call.cursor, call.bound)

UsedInv == \A b \in Bytes : used[b] <= tick

IInv ==
    /\ TypeOK
    /\ UsedInv
    /\ CurrentCovers
    /\ PreviousCovers
    /\ Waited(offset, previous, waitCursor, waitBound)
    /\ CallInv
    /\ MappedIsIdle

-----------------------------------------------------------------------------
\* A nonempty bounded set of naturals has a least element.
LEMMA LeastElement ==
    ASSUME NEW N \in Nat, NEW T, T \subseteq 0..N, T # {}
    PROVE  \E x \in T : \A y \in T : x <= y
<1> DEFINE Family == {0..x : x \in T}
<1>1. IsFiniteSet(0..N)
  BY FS_Interval
<1>2. IsWellFoundedOn(StrictSubsetOrdering(0..N), SUBSET (0..N))
  BY <1>1, FS_StrictSubsetOrderingWellFounded, FS_FiniteSubsetsOfFinite
<1>3. Family \subseteq SUBSET (0..N) /\ Family # {}
  <2>1. ASSUME NEW x \in T PROVE 0..x \subseteq 0..N
    <3>1. x \in 0..N
      OBVIOUS
    <3> QED BY <3>1
  <2>2. PICK x \in T : TRUE
    OBVIOUS
  <2>3. 0..x \in Family
    BY <2>2
  <2> QED BY <2>1, <2>3
<1>4. \E U \in Family : \A V \in Family : <<V, U>> \notin StrictSubsetOrdering(0..N)
  <2> HIDE DEF Family
  <2> QED BY <1>2, <1>3, WFMin
<1>5. PICK x \in T : \A y \in T : <<0..y, 0..x>> \notin StrictSubsetOrdering(0..N)
  BY <1>4
<1>6. ASSUME NEW y \in T PROVE x <= y
  <2>1. SUFFICES ASSUME y < x PROVE FALSE
    OBVIOUS
  <2>2. 0..y \subseteq 0..x /\ x \in 0..x /\ x \notin 0..y
    BY <2>1
  <2>3. 0..y \in SUBSET (0..N) /\ 0..x \in SUBSET (0..N)
    OBVIOUS
  <2> QED BY <1>5, <2>2, <2>3 DEF StrictSubsetOrdering
<1> QED BY <1>6

\* Division with remainder.
LEMMA Division ==
    ASSUME NEW a \in Nat \ {0},
           NEW v \in Nat
    PROVE  v \div a \in Nat /\ v = a * (v \div a) + (v % a) /\ v % a \in 0..(a-1)
OBVIOUS

\* A multiple is divisible.
LEMMA MultipleIsDivisible ==
    ASSUME NEW a \in Nat \ {0},
           NEW k \in Nat
    PROVE  (a * k) % a = 0 /\ (a*k) \in Nat
OBVIOUS

\* Rounding up reaches a multiple.
LEMMA RoundedUpIsDivisible ==
    ASSUME NEW a \in Nat \ {0},
           NEW v \in Nat
    PROVE  (v + (a - (v % a))) % a = 0
<1> DEFINE k == (v \div a) + 1
<1>1. k \in Nat /\ v + (a - (v % a)) = a * k
   BY Division
<1> HIDE DEF k
<1> QED BY <1>1, MultipleIsDivisible

\* Divisibility is transitive and closed under sums.
LEMMA DivisibleTransitive ==
    ASSUME NEW a \in Nat \ {0},
           NEW l \in Nat \ {0},
           NEW x \in Nat, x % l = 0, l % a = 0
    PROVE  x % a = 0
<1>1. PICK i \in Nat : x = l * i
  <2>1. x = l * (x \div l) /\ x \div l \in Nat
    BY Division
  <2> QED BY <2>1
<1>2. PICK j \in Nat : l = a * j
  <2>1. l = a * (l \div a) /\ l \div a \in Nat
    BY Division
  <2> QED BY <2>1
<1>3. x = a * (j * i) /\ j * i \in Nat
  BY <1>1, <1>2
<1> QED BY <1>3, MultipleIsDivisible

LEMMA SumIsDivisible ==
    ASSUME NEW a \in Nat \ {0},
           NEW x \in Nat,
           NEW y \in Nat, x % a = 0, y % a = 0
    PROVE  (x+y) % a = 0
<1>1. x = a * (x \div a) /\ x \div a \in Nat
    BY Division
<1>2. y = a * (y \div a) /\ y \div a \in Nat
    BY Division
<1>3. x + y = a * ((x \div a) + (y \div a)) /\ (x \div a) + (y \div a) \in Nat
  BY <1>1, <1>2
<1> QED BY <1>3, MultipleIsDivisible

\* Two multiples differ by at least one step.
LEMMA NextMultiple ==
    ASSUME NEW a \in Nat \ {0},
           NEW i \in Nat,
           NEW j \in Nat, i < j
    PROVE  a * i + a <= a * j
<1>1. j - i - 1 \in Nat /\ a * j = a * i + a + a * (j - i - 1)
  OBVIOUS
<1>2. a * (j - i - 1) \in Nat
  BY <1>1
<1> QED BY <1>1, <1>2

\* A multiple of a does not separate two bytes of one atom.
LEMMA SameAtom ==
    ASSUME NEW a \in Nat \ {0},
           NEW x \in Nat, x % a = 0,
           NEW b \in Nat,
           NEW c \in Nat, b \div a = c \div a
    PROVE  (x <= b) <=> (x <= c)
<1>1. PICK i \in Nat : x = a * i
  <2>1. x = a * (x \div a) /\ x \div a \in Nat
    BY Division
  <2> QED BY <2>1
<1>2. ASSUME NEW d \in Nat PROVE (x <= d) <=> (i <= d \div a)
  <2> DEFINE q == d \div a
  <2>1. q \in Nat /\ d = a * q + (d % a) /\ d % a \in 0..(a-1)
    BY Division
  <2> HIDE DEF q
  <2>2. CASE i <= q
    <3>1. a * i <= a * q
      <4>1. CASE i = q  BY <4>1
      <4>2. CASE i < q  
        <5>1. a * i + a <= a * q  BY <4>2, <2>1, NextMultiple
        <5> QED BY <5>1, <2>1
      <4> QED BY <2>2, <2>1, <4>1, <4>2
    <3> QED BY <1>1, <2>1, <2>2, <3>1 DEF q
  <2>3. CASE q < i
    <3>1. a * q + a <= a * i  BY <2>3, <2>1, NextMultiple
    <3>2. a * q \in Nat /\ a * i \in Nat
      BY <2>1
    <3>3. ~(x <= d)
      BY <1>1, <2>1, <3>1, <3>2
    <3> QED BY <2>1, <2>3, <3>3 DEF q
  <2> QED BY <2>1, <2>2, <2>3
<1> QED BY <1>2

\* What AlignUp returns: a natural at or above its argument, and 0 for 0.
LEMMA AlignUpFacts ==
    ASSUME NEW value \in Nat, NEW alignment \in Nat
    PROVE  /\ AlignUp(value, alignment) \in Nat
           /\ AlignUp(value, alignment) >= value
           /\ value = 0 => AlignUp(value, alignment) = 0
<1>1. CASE alignment = 0
  BY <1>1 DEF AlignUp
<1>2. CASE alignment # 0
  <2>1. value % alignment \in 0..(alignment - 1) /\ 0 % alignment = 0
    BY <1>2
  <2> QED BY <2>1 DEF AlignUp
<1> QED BY <1>1, <1>2

\* NormalizeReservation returns a common multiple of alignment and atom.
LEMMA AlignmentFacts ==
    ASSUME NEW alignment \in Nat
    PROVE  /\ MappedAlignment(alignment) \in Nat
           /\ ~Coherent => /\ MappedAlignment(alignment) > 0
                           /\ MappedAlignment(alignment) % Atom = 0
<1> USE RingAssumption
<1>1. CASE Coherent \/ alignment = 0
  <2>1. Atom % Atom = 0
    OBVIOUS
  <2> QED BY <1>1, <2>1 DEF MappedAlignment
<1>2. CASE ~Coherent /\ alignment # 0
  <2> DEFINE product == alignment * Atom
             T == {m \in 1..product : m % alignment = 0 /\ m % Atom = 0}
  <2>1. product \in Nat /\ product \in 1..product
    BY <1>2
  <2>2. product % alignment = 0 /\ product % Atom = 0
    BY <1>2
  <2>3. product \in T
    BY <2>1, <2>2
  <2>4. T \subseteq 0..product
    BY <2>1
  <2>5. \E x \in T : \A y \in T : x <= y
    <3> HIDE DEF T, product
    <3> QED BY <2>1, <2>3, <2>4, LeastElement
  <2>6. Min(T) \in T
    <3> HIDE DEF T
    <3> QED BY <2>5 DEF Min
  <2>7. MappedAlignment(alignment) = Min(T)
    BY <1>2 DEF MappedAlignment
  <2>8. ASSUME NEW m \in T PROVE m \in Nat /\ m > 0 /\ m % Atom = 0
    BY <2>1
  <2> QED
    <3> HIDE DEF T
    <3> QED BY <2>6, <2>7, <2>8
<1> QED BY <1>1, <1>2

\* What Map takes as the size is a natural.
LEMMA SizeFacts ==
    ASSUME NEW size \in Nat
    PROVE  MappedSize(size) \in Nat
BY AlignUpFacts, RingAssumption DEF MappedSize

-----------------------------------------------------------------------------
\* A byte that is free stays free when the device or the priority thread
\* advances.
LEMMA FreeStays ==
    ASSUME TypeOK, TypeOK', done <= done', read <= read', UNCHANGED used
    PROVE  \A b \in Bytes : Free(used[b]) => Free(used[b])'
<1> SUFFICES ASSUME NEW b \in Bytes, Free(used[b]) PROVE Free(used[b])'
  OBVIOUS
<1>1. used[b] \in Nat /\ used'[b] = used[b]
  BY DEF TypeOK
<1>2. used[b] <= done /\ (Download => used[b] <= read)
  BY DEF Free
<1>3. done \in Nat /\ done' \in Nat /\ read \in Nat /\ read' \in Nat
  BY DEF TypeOK
<1>4. used[b] <= done' /\ (Download => used[b] <= read')
  BY <1>1, <1>2, <1>3
<1> QED BY <1>1, <1>4 DEF Free

\* The device and the priority thread disturb nothing.
LEMMA AdvancePreserves ==
    ASSUME IInv, TypeOK', done <= done', read <= read',
           UNCHANGED <<ring, phase, call, tick, used>>
    PROVE  IInv'
<1> USE DEF IInv, ring
<1>1. \A b \in Bytes : Free(used[b]) => Free(used[b])'
  BY FreeStays
<1>2. UsedInv' /\ CurrentCovers' /\ PreviousCovers'
  BY DEF UsedInv, CurrentCovers, PreviousCovers
<1>3. Waited(offset, previous, waitCursor, waitBound)'
  BY <1>1 DEF Waited
<1>4. CallInv'
  <2>1. Pending' = Pending
    BY DEF Pending
  <2> QED BY <1>1, <2>1 DEF CallInv, Waited
<1>5. MappedIsIdle'
  BY <1>1 DEF MappedIsIdle
<1> QED BY <1>2, <1>3, <1>4, <1>5

\* The fields of a watch are naturals.
LEMMA WatchFields ==
    ASSUME NEW watches \in Seq(Watch), NEW k \in 1..Len(watches)
    PROVE  watches[k].tick \in Nat /\ watches[k].bound \in Nat
<1>1. watches[k] \in Watch
  OBVIOUS
<1> QED BY <1>1 DEF Watch

LEMMA InitIInv == Init => IInv
<1> SUFFICES ASSUME Init PROVE IInv
  OBVIOUS
<1> USE RingAssumption DEF Init
<1>1. TypeOK
  BY DEF TypeOK, Call, Bytes
<1>2. UsedInv /\ CurrentCovers /\ PreviousCovers
  BY DEF UsedInv, CurrentCovers, PreviousCovers
<1>3. Waited(offset, previous, waitCursor, waitBound)
  BY DEF Waited, Free
<1> QED BY <1>1, <1>2, <1>3 DEF IInv, CallInv, MappedIsIdle

LEMMA MapBeginPreserves ==
    ASSUME IInv, NEW r \in Requests, NEW w \in BOOLEAN, MapBegin(r[1], r[2], w)
    PROVE  IInv'
<1> USE RingAssumption DEF IInv, ring
<1> DEFINE needed  == MappedSize(r[1])
           aligned == AlignUp(offset, MappedAlignment(r[2]))
           wrap    == aligned > Size - needed
<1>1. r[1] \in Nat /\ r[2] \in Nat
  OBVIOUS
<1>2. needed \in Nat /\ needed <= Size
  BY <1>1, SizeFacts DEF MapBegin
<1>3. offset \in Nat /\ aligned \in Nat /\ aligned >= offset /\ (offset = 0 => aligned = 0)
  <2>1. offset \in Nat
    BY DEF TypeOK
  <2>2. MappedAlignment(r[2]) \in Nat
    BY <1>1, AlignmentFacts
  <2> QED BY <2>1, <2>2, AlignUpFacts
<1>4. call' = [start  |-> IF wrap THEN 0 ELSE aligned, size |-> needed, wrap |-> wrap,
               wait |-> w, cursor |-> IF wrap THEN 0 ELSE waitCursor,
               bound  |-> IF wrap THEN 0 ELSE waitBound]
  BY DEF MapBegin
<1>5. UNCHANGED <<ring, tick, done, read, used>> /\ phase' = "Waiting"
  BY DEF MapBegin
<1> HIDE DEF needed, aligned
<1>6. call' \in Call
  BY <1>2, <1>3, <1>4 DEF Call, TypeOK
<1>7. TypeOK'
  BY <1>5, <1>6 DEF TypeOK
<1>8. UsedInv' /\ CurrentCovers' /\ PreviousCovers'
  BY <1>5 DEF UsedInv, CurrentCovers, PreviousCovers
<1>9. Waited(offset, previous, waitCursor, waitBound)'
  BY <1>5 DEF Waited, Free
<1>10. CallInv'
  <2>1. CASE wrap
    <3>1. current # <<>>
      BY <1>2, <1>3, <2>1 DEF CurrentCovers
    <3>2. Len(current) \in Nat \ {0}
      BY <3>1 DEF TypeOK
    <3>3. Pending' = current
      BY <1>4, <1>5, <2>1 DEF Pending
    <3>4. Waited(call.start, Pending, call.cursor, call.bound)'
      BY <1>4, <1>5, <2>1, <3>2, <3>3 DEF Waited, Bytes
    <3>5. call'.start = 0 /\ call'.size = needed /\ call'.wrap
      BY <1>4, <2>1
    <3>6. call'.start + call'.size <= Size
      BY <1>2, <3>5
    <3> QED BY <1>5, <3>1, <3>4, <3>5, <3>6 DEF CallInv
  <2>2. CASE ~wrap
    <3>1. Pending' = previous
      BY <1>4, <1>5, <2>2 DEF Pending
    <3>2. Waited(call.start, Pending, call.cursor, call.bound)'
      BY <1>3, <1>4, <1>5, <2>2, <3>1 DEF Waited, Bytes, Free
    <3>3. call'.start = aligned /\ call'.size = needed /\ ~call'.wrap
      BY <1>4, <2>2
    <3>4. call'.start + call'.size <= Size /\ offset <= call'.start
      BY <1>2, <1>3, <2>2, <3>3
    <3>5. current = <<>> => call'.start = 0
      BY <1>3, <3>3 DEF CurrentCovers
    <3> QED BY <1>5, <3>2, <3>3, <3>4, <3>5 DEF CallInv
  <2> QED BY <2>1, <2>2
<1>11. MappedIsIdle'
  BY <1>5 DEF MappedIsIdle
<1> QED BY <1>7, <1>8, <1>9, <1>10, <1>11

LEMMA WaitSubmitPreserves ==
    ASSUME IInv, WaitSubmit
    PROVE  IInv'
<1> USE DEF IInv, WaitSubmit, ring
<1>1. TypeOK'
  BY DEF TypeOK
<1>2. UsedInv' /\ CurrentCovers' /\ PreviousCovers'
  <2>1. tick \in Nat /\ used \in [Bytes -> Nat]
        /\ current \in Seq(Watch) /\ previous \in Seq(Watch)
    BY DEF TypeOK
  <2>2. UsedInv'
    BY <2>1 DEF UsedInv
  <2>3. \A k \in 1..Len(current) : current[k].tick \in Nat
    BY <2>1, WatchFields
  <2>4. \A k \in 1..Len(previous) : previous[k].tick \in Nat
    BY <2>1, WatchFields
  <2>5. CurrentCovers'
    <3>1. \A k \in 1..Len(current) : current[k].tick <= tick + 1
      BY <2>1, <2>3 DEF CurrentCovers
    <3> QED BY <3>1 DEF CurrentCovers
  <2>6. PreviousCovers'
    BY <2>1, <2>4 DEF PreviousCovers
  <2> QED BY <2>2, <2>5, <2>6
<1>3. Waited(offset, previous, waitCursor, waitBound)'
  BY DEF Waited, Free
<1>4. CallInv'
  BY DEF CallInv, Waited, Free, Pending
<1> QED BY <1>1, <1>2, <1>3, <1>4 DEF MappedIsIdle

LEMMA WaitNextPreserves ==
    ASSUME IInv, WaitNext
    PROVE  IInv'
<1> USE RingAssumption DEF IInv, ring
<1> DEFINE c == call.cursor
           watch == Pending[c + 1]
<1>1. UNCHANGED <<ring, phase, tick, done, read, used>> /\ phase = "Waiting"
  BY DEF WaitNext
<1>2. Pending \in Seq(Watch) /\ c \in Nat /\ c < Len(Pending)
  BY DEF TypeOK, Call, Pending, WaitNext, MoreToWait
<1>3. watch.tick \in Nat /\ watch.bound \in Nat /\ c + 1 \in 1..Len(Pending)
  BY <1>2, WatchFields
<1>4. Free(watch.tick)
  BY DEF WaitNext, NextWatch, Free
<1>5. call' = [call EXCEPT !.bound = watch.bound, !.cursor = c + 1]
  BY DEF WaitNext, NextWatch
<1>6. /\ call'.start = call.start /\ call'.size = call.size /\ call'.wrap = call.wrap
      /\ call'.bound = watch.bound /\ call'.cursor = c + 1
  BY <1>5 DEF TypeOK, Call
<1>7. Pending' = Pending
  BY <1>1, <1>6 DEF Pending
<1>8. watch.bound <= Size
  <2>1. CASE call.wrap
    BY <1>3, <2>1 DEF CurrentCovers, Pending, TypeOK
  <2>2. CASE ~call.wrap
    BY <1>3, <2>2 DEF PreviousCovers, Pending
  <2> QED BY <2>1, <2>2
<1>9. ASSUME NEW b \in Bytes, call.start <= b, b < watch.bound PROVE used[b] <= watch.tick
  <2>1. CASE call.wrap
    BY <1>3, <1>9, <2>1 DEF CurrentCovers, Pending
  <2>2. CASE ~call.wrap
    <3>1. offset <= b
      BY <1>1, <1>9, <2>2 DEF CallInv, TypeOK, Call, Bytes
    <3> QED BY <1>3, <1>9, <2>2, <3>1 DEF PreviousCovers, Pending
  <2> QED BY <2>1, <2>2
<1>10. ASSUME c + 1 = Len(Pending), NEW b \in Bytes, call.start <= b PROVE used[b] <= watch.tick
  <2>1. CASE call.wrap
    BY <1>1, <1>10, <2>1 DEF CurrentCovers, Pending, CallInv
  <2>2. CASE ~call.wrap
    <3>1. offset <= b
      BY <1>1, <1>10, <2>2 DEF CallInv, TypeOK, Call, Bytes
    <3>2. previous # <<>>
      BY <1>2, <2>2 DEF Pending
    <3> QED BY <1>10, <2>2, <3>1, <3>2 DEF PreviousCovers, Pending
  <2> QED BY <2>1, <2>2
<1>11. ASSUME NEW b \in Bytes, used[b] <= watch.tick PROVE Free(used[b])
  <2>1. used[b] \in Nat /\ done \in Nat /\ read \in Nat
    BY DEF TypeOK
  <2>2. watch.tick <= done /\ (Download => watch.tick <= read)
    BY <1>4 DEF Free
  <2>3. used[b] <= done
    BY <1>3, <1>11, <2>1, <2>2
  <2>4. Download => used[b] <= read
    BY <1>3, <1>11, <2>1, <2>2
  <2> QED BY <2>3, <2>4 DEF Free
<1> HIDE DEF watch, c
<1>12. Waited(call.start, Pending, call.cursor, call.bound)'
  <2>1. \A b \in Bytes : Free(used[b]) => Free(used[b])'
    BY <1>1 DEF Free
  <2>2. ASSUME NEW b \in Bytes, call'.start <= b, b < call'.bound PROVE Free(used[b])'
    BY <1>6, <1>9, <1>11, <2>1, <2>2
  <2>3. ASSUME call'.cursor = Len(Pending'), NEW b \in Bytes, call'.start <= b
        PROVE  Free(used[b])'
    BY <1>6, <1>7, <1>10, <1>11, <2>1, <2>3
  <2>4. call'.cursor \in 0..Len(Pending') /\ call'.bound \in 0..Size
    BY <1>2, <1>3, <1>6, <1>7, <1>8
  <2> QED BY <2>2, <2>3, <2>4 DEF Waited
<1>13. CallInv'
  BY <1>1, <1>6, <1>12 DEF CallInv
<1>14. TypeOK'
  <2>1. call' \in Call
    <3>1. c + 1 \in Nat /\ call \in Call
      BY <1>2 DEF TypeOK
    <3> QED BY <1>3, <1>5, <3>1 DEF Call
  <2> QED BY <1>1, <2>1 DEF TypeOK
<1>15. UsedInv' /\ CurrentCovers' /\ PreviousCovers'
  BY <1>1 DEF UsedInv, CurrentCovers, PreviousCovers
<1>16. Waited(offset, previous, waitCursor, waitBound)'
  BY <1>1 DEF Waited, Free
<1> QED BY <1>1, <1>13, <1>14, <1>15, <1>16 DEF MappedIsIdle

LEMMA MapEndPreserves ==
    ASSUME IInv, MapEnd
    PROVE  IInv'
<1> USE RingAssumption DEF IInv, ring
<1>1. /\ phase = "Waiting" /\ phase' = "Mapped"
      /\ offset' = call.start /\ mapped' = call.size
      /\ waitCursor' = call.cursor /\ waitBound' = call.bound
      /\ UNCHANGED <<call, tick, done, read, used>>
  BY DEF MapEnd
<1>2. /\ call.start \in Nat /\ call.size \in Nat /\ call.start + call.size <= Size
      /\ Waited(call.start, Pending, call.cursor, call.bound)
  BY <1>1 DEF TypeOK, Call, CallInv
<1>3. previous' = Pending
  BY DEF MapEnd, Pending
<1>4. Pending \in Seq(Watch)
  BY DEF Pending, TypeOK
<1>5. TypeOK'
  <2>1. offset' \in 0..Size /\ mapped' \in 0..Size
    BY <1>1, <1>2
  <2>2. current' \in Seq(Watch)
    BY DEF TypeOK, MapEnd
  <2>3. waitCursor' \in 0..Len(previous') /\ waitBound' \in 0..Size
    BY <1>1, <1>2, <1>3 DEF Waited
  <2> QED BY <1>1, <1>3, <1>4, <2>1, <2>2, <2>3 DEF TypeOK
<1>6. Waited(offset, previous, waitCursor, waitBound)'
  BY <1>1, <1>2, <1>3 DEF Waited, Free
<1>7. MappedIsIdle'
  <2>1. ASSUME NEW b \in Bytes, call.start <= b, b < call.start + call.size
        PROVE  Free(used[b])
    <3>1. call.bound \in Nat /\ call.cursor \in 0..Len(Pending) /\ Len(Pending) \in Nat
          /\ b \in Int
      BY <1>2, <1>4 DEF Waited, Bytes
    <3>2. CASE call.start + call.size <= call.bound
      BY <1>2, <2>1, <3>1, <3>2 DEF Waited
    <3>3. CASE ~(call.cursor < Len(Pending))
      <4>1. call.cursor = Len(Pending)
        BY <3>1, <3>3
      <4> QED BY <1>2, <2>1, <4>1 DEF Waited
    <3> QED BY <1>2, <3>1, <3>2, <3>3 DEF MapEnd, MoreToWait
  <2> QED BY <1>1, <1>2, <2>1 DEF MappedIsIdle, Free
<1>8. CASE call.wrap
  <2>1. current # <<>> /\ call.start = 0 /\ previous' = current /\ current' = <<>>
    BY <1>1, <1>8 DEF CallInv, MapEnd
  <2>2. CurrentCovers'
    BY <1>1, <2>1 DEF CurrentCovers
  <2>3. PreviousCovers'
    <3>1. ASSUME NEW k \in 1..Len(current) PROVE current[k].bound <= Size
      <4>1. current[k].bound \in Nat
        BY WatchFields DEF TypeOK
      <4> QED BY <4>1 DEF CurrentCovers, TypeOK
    <3> QED BY <1>1, <2>1, <3>1 DEF CurrentCovers, PreviousCovers
  <2> QED BY <1>1, <1>5, <1>6, <1>7, <2>2, <2>3 DEF UsedInv, CallInv
<1>9. CASE ~call.wrap
  <2>1. offset <= call.start /\ previous' = previous /\ current' = current
    BY <1>1, <1>9 DEF CallInv, MapEnd
  <2>2. offset \in Nat
    BY DEF TypeOK
  <2>3. CurrentCovers'
    <3>1. ASSUME NEW k \in 1..Len(current) PROVE current[k].bound <= call.start
      <4>1. current[k].bound \in Nat
        BY WatchFields DEF TypeOK
      <4> QED BY <1>2, <2>1, <2>2, <4>1 DEF CurrentCovers
    <3>2. ASSUME current = <<>> PROVE call.start = 0
      BY <1>1, <3>2 DEF CallInv
    <3> QED BY <1>1, <2>1, <3>1, <3>2 DEF CurrentCovers
  <2>4. PreviousCovers'
    <3>1. \A b \in Bytes : call.start <= b => offset <= b
      BY <1>2, <2>1, <2>2 DEF Bytes
    <3> QED BY <1>1, <2>1, <3>1 DEF PreviousCovers
  <2> QED BY <1>1, <1>5, <1>6, <1>7, <2>3, <2>4 DEF UsedInv, CallInv
<1> QED BY <1>8, <1>9

LEMMA CommitPreserves ==
    ASSUME IInv, Commit
    PROVE  IInv'
<1> USE RingAssumption DEF IInv, ring
<1> DEFINE top == offset + mapped
           watch == [tick |-> tick, bound |-> top]
           extend == current # <<>> /\ Last(current).tick = tick
<1>1. /\ phase = "Mapped" /\ phase' = "Idle" /\ offset' = top
      /\ UNCHANGED <<mapped, previous, waitCursor, waitBound, call, tick, done, read>>
  BY DEF Commit
<1>2. current' = IF extend THEN [current EXCEPT ![Len(current)] = watch]
                 ELSE Append(current, watch)
  BY DEF Commit
<1>3. used' = [b \in Bytes |-> IF offset <= b /\ b < top THEN tick ELSE used[b]]
  BY DEF Commit
<1>4. offset \in Nat /\ mapped \in Nat /\ tick \in Nat /\ top <= Size /\ top \in Nat
      /\ offset <= top
  BY <1>1 DEF TypeOK, MappedIsIdle
<1>5. current \in Seq(Watch) /\ watch \in Watch /\ used \in [Bytes -> Nat]
  BY <1>4 DEF TypeOK, Watch
<1>6. watch.tick = tick /\ watch.bound = top
  OBVIOUS
<1> HIDE DEF top, watch, extend
<1>7. current' \in Seq(Watch)
  <2>1. CASE extend
    <3>1. Len(current) \in 1..Len(current)
      BY <1>5, <2>1 DEF extend
    <3> QED BY <1>2, <1>5, <2>1, <3>1
  <2>2. CASE ~extend
    BY <1>2, <1>5, <2>2
  <2> QED BY <2>1, <2>2
<1>8. used' \in [Bytes -> Nat] /\ \A b \in Bytes : used'[b] <= tick
  BY <1>3, <1>4, <1>5 DEF UsedInv
<1>9. \A b \in Bytes : b \in Int
                    /\ (top <= b => offset <= b)
                    /\ (b < offset \/ top <= b => used'[b] = used[b])
  BY <1>3, <1>4 DEF Bytes
<1>10. /\ current' # <<>>
       /\ Len(current') \in Nat \ {0}
       /\ current'[Len(current')] = watch
       /\ \A k \in 1..Len(current') :
              k # Len(current') => k \in 1..Len(current) /\ current'[k] = current[k]
  <2>1. CASE extend
    <3>1. current # <<>> /\ Len(current) \in Nat \ {0} /\ Len(current') = Len(current)
      BY <1>2, <1>5, <2>1 DEF extend
    <3>2. current'[Len(current)] = watch
      BY <1>2, <1>5, <2>1, <3>1
    <3>3. ASSUME NEW k \in 1..Len(current), k # Len(current) PROVE current'[k] = current[k]
      <4>1. current' = [current EXCEPT ![Len(current)] = watch]
        BY <1>2, <2>1
      <4>2. k \in DOMAIN current
        BY <1>5
      <4> QED BY ONLY <3>3, <4>1, <4>2, Zenon
    <3> QED BY <1>7, <3>1, <3>2, <3>3
  <2>2. CASE ~extend
    BY <1>2, <1>5, <2>2
  <2> QED BY <2>1, <2>2
<1>11. TypeOK'
  BY <1>1, <1>4, <1>7, <1>8 DEF TypeOK
<1>12. UsedInv'
  BY <1>1, <1>8 DEF UsedInv
<1>13. CurrentCovers'
  <2>1. ASSUME NEW k \in 1..Len(current')
        PROVE  /\ current'[k].bound <= top
               /\ current'[k].tick <= tick
               /\ \A b \in Bytes : b < current'[k].bound => used'[b] <= current'[k].tick
    <3>1. CASE k = Len(current')
      BY <1>4, <1>6, <1>8, <1>10, <3>1
    <3>2. CASE k # Len(current')
      <4>1. k \in 1..Len(current) /\ current'[k] = current[k]
        BY <1>10, <3>2
      <4>2. current[k].bound \in Nat /\ current[k].bound <= offset
        BY <1>5, <4>1, WatchFields DEF CurrentCovers
      <4>3. offset <= top
        BY <1>4
      <4>4. ASSUME NEW b \in Bytes, b < current[k].bound PROVE used'[b] <= current[k].tick
        <5>1. b < offset
          BY <1>4, <1>9, <4>2, <4>4
        <5> QED BY <1>9, <4>1, <4>4, <5>1 DEF CurrentCovers
      <4> QED BY <1>4, <4>1, <4>2, <4>3, <4>4 DEF CurrentCovers
    <3> QED BY <3>1, <3>2
  <2> QED BY <1>1, <1>6, <1>8, <1>10, <2>1 DEF CurrentCovers
<1>14. PreviousCovers'
  BY <1>1, <1>9 DEF PreviousCovers
<1>15. Waited(offset, previous, waitCursor, waitBound)'
  BY <1>1, <1>9 DEF Waited, Free
<1> QED BY <1>1, <1>11, <1>12, <1>13, <1>14, <1>15 DEF CallInv, MappedIsIdle

LEMMA FlushPreserves ==
    ASSUME IInv, Flush
    PROVE  IInv'
<1> USE DEF IInv, Flush, ring
<1>1. TypeOK'
  BY DEF TypeOK
<1>2. tick \in Nat /\ used \in [Bytes -> Nat]
      /\ current \in Seq(Watch) /\ previous \in Seq(Watch)
  BY DEF TypeOK
<1>3. UsedInv'
  BY <1>2 DEF UsedInv
<1>4. CurrentCovers'
  <2>1. \A k \in 1..Len(current) : current[k].tick <= tick + 1
    BY <1>2, WatchFields DEF CurrentCovers
  <2> QED BY <2>1 DEF CurrentCovers
<1>5. PreviousCovers'
  <2>1. \A k \in 1..Len(previous) : previous[k].tick <= tick + 1
    BY <1>2, WatchFields, SMTT(30) DEF PreviousCovers
  <2> QED BY <2>1 DEF PreviousCovers
<1>6. Waited(offset, previous, waitCursor, waitBound)'
  BY DEF Waited, Free
<1> QED BY <1>1, <1>3, <1>4, <1>5, <1>6 DEF CallInv, MappedIsIdle, Free

\* Every step preserves the invariant: one case for each action.
LEMMA NextPreserves == IInv /\ [Next]_vars => IInv'
<1> SUFFICES ASSUME IInv, [Next]_vars PROVE IInv'
  OBVIOUS
<1>1. ASSUME NEW r \in Requests, MapOversize(r[1]) PROVE IInv'
  BY <1>1 DEF IInv, MapOversize, ring, TypeOK, UsedInv, CurrentCovers,
              PreviousCovers, Waited, Free, CallInv, MappedIsIdle
<1>2. ASSUME NEW r \in Requests, NEW w \in BOOLEAN, MapBegin(r[1], r[2], w) PROVE IInv'
  BY <1>2, MapBeginPreserves
<1>3. CASE WaitRefuse
  BY <1>3 DEF IInv, WaitRefuse, ring, TypeOK, UsedInv, CurrentCovers,
              PreviousCovers, Waited, Free, CallInv, MappedIsIdle
<1>4. CASE WaitSubmit
  BY <1>4, WaitSubmitPreserves
<1>5. CASE WaitNext
  BY <1>5, WaitNextPreserves
<1>6. CASE MapEnd
  BY <1>6, MapEndPreserves
<1>7. CASE Commit
  BY <1>7, CommitPreserves
<1>8. CASE Flush
  BY <1>8, FlushPreserves
<1>9. CASE GpuComplete
  <2>1. TypeOK' /\ done <= done' /\ read <= read'
    BY <1>9 DEF IInv, TypeOK, GpuComplete, ring
  <2> QED BY <1>9, <2>1, AdvancePreserves DEF GpuComplete
<1>10. CASE RunPriority
  <2>1. TypeOK' /\ done <= done' /\ read <= read'
    BY <1>10 DEF IInv, TypeOK, RunPriority, ring
  <2> QED BY <1>10, <2>1, AdvancePreserves DEF RunPriority
<1>11. CASE UNCHANGED vars
  BY <1>11 DEF IInv, vars, ring, TypeOK, UsedInv, CurrentCovers, PreviousCovers,
               Waited, Free, CallInv, Pending, MappedIsIdle
<1> QED BY <1>1, <1>2, <1>3, <1>4, <1>5, <1>6, <1>7, <1>8, <1>9, <1>10, <1>11 DEF Next

\* The watches of both laps keep their promise in every reachable state.
THEOREM IInvHolds == Spec => []IInv
BY InitIInv, NextPreserves, PTL DEF Spec

\* Types and the order of the ticks, for every ring.
THEOREM RingTypeCorrect == Spec => []TypeOK
<1>1. IInv => TypeOK
  BY DEF IInv
<1> QED BY <1>1, IInvHolds, PTL

\* WaitPendingOperations waits for enough: no region that Map returns holds
\* a byte the GPU, or a pending download, still uses.
THEOREM RegionsAreIdle == Spec => []MappedIsIdle
<1>1. IInv => MappedIsIdle
  BY DEF IInv
<1> QED BY <1>1, IInvHolds, PTL

-----------------------------------------------------------------------------
(***************************************************************************)
(* Memory that is not coherent: every region consists of whole atoms.      *)
(***************************************************************************)
WholeAtoms ==
    ~Coherent =>
        /\ offset % Atom = 0 /\ mapped % Atom = 0
        /\ phase = "Waiting" => call.start % Atom = 0 /\ call.size % Atom = 0

\* AlignUp returns a multiple of its alignment.
LEMMA AlignUpDivides ==
    ASSUME NEW value \in Nat, NEW alignment \in Nat \ {0}
    PROVE  AlignUp(value, alignment) % alignment = 0
BY RoundedUpIsDivisible DEF AlignUp

\* Every step keeps the regions made of whole atoms.
LEMMA WholeAtomsStep == IInv /\ WholeAtoms /\ [Next]_vars => WholeAtoms'
<1> SUFFICES ASSUME IInv, WholeAtoms, [Next]_vars, ~Coherent PROVE WholeAtoms'
  BY DEF WholeAtoms
<1> USE RingAssumption DEF ring
<1>1. ASSUME NEW r \in Requests, NEW w \in BOOLEAN, MapBegin(r[1], r[2], w)
      PROVE  WholeAtoms'
  <2> DEFINE L == MappedAlignment(r[2])
             aligned == AlignUp(offset, L)
  <2>1. r[1] \in Nat /\ r[2] \in Nat /\ offset \in Nat
    BY DEF IInv, TypeOK
  <2>2. L \in Nat \ {0} /\ L % Atom = 0
    BY <2>1, AlignmentFacts
  <2>3. aligned \in Nat /\ aligned % L = 0
    <3> HIDE DEF L
    <3> QED BY <2>1, <2>2, AlignUpFacts, AlignUpDivides
  <2>4. aligned % Atom = 0
    <3> HIDE DEF L, aligned
    <3> QED BY <2>2, <2>3, DivisibleTransitive
  <2>5. MappedSize(r[1]) % Atom = 0
    BY <2>1, AlignUpDivides DEF MappedSize
  <2>6. 0 % Atom = 0
    OBVIOUS
  <2>7. /\ call'.start = 0 \/ call'.start = aligned
        /\ call'.size = MappedSize(r[1])
        /\ UNCHANGED <<offset, mapped>>
    BY <1>1 DEF MapBegin
  <2> HIDE DEF aligned
  <2> QED BY <2>4, <2>5, <2>6, <2>7 DEF WholeAtoms
<1>2. CASE MapEnd
  BY <1>2 DEF MapEnd, WholeAtoms
<1>3. CASE Commit
  <2>1. offset \in Nat /\ mapped \in Nat
    BY DEF IInv, TypeOK
  <2>2. (offset + mapped) % Atom = 0
    BY <2>1, SumIsDivisible DEF WholeAtoms
  <2> QED BY <1>3, <2>2 DEF Commit, WholeAtoms
<1>4. CASE WaitNext
  <2>1. call'.start = call.start /\ call'.size = call.size
    BY <1>4 DEF WaitNext, IInv, TypeOK, Call
  <2> QED BY <1>4, <2>1 DEF WaitNext, WholeAtoms
<1>5. ASSUME NEW r \in Requests, MapOversize(r[1]) PROVE WholeAtoms'
  BY <1>5 DEF MapOversize, WholeAtoms
<1>6. CASE WaitRefuse
  BY <1>6 DEF WaitRefuse, WholeAtoms
<1>7. CASE WaitSubmit \/ Flush \/ GpuComplete \/ RunPriority \/ UNCHANGED vars
  BY <1>7 DEF WaitSubmit, Flush, GpuComplete, RunPriority, vars, WholeAtoms
<1> QED BY <1>1, <1>2, <1>3, <1>4, <1>5, <1>6, <1>7 DEF Next

\* A region of whole atoms shares no atom with a byte outside it.
LEMMA AtomsFollow == IInv /\ WholeAtoms => AtomIsolation
<1> SUFFICES ASSUME IInv, WholeAtoms, phase = "Mapped", ~Coherent,
                    NEW b \in Bytes, NEW c \in Bytes,
                    offset <= b, b < offset + mapped, c \div Atom = b \div Atom
             PROVE  Free(used[c])
  BY DEF AtomIsolation
<1> USE RingAssumption
<1>1. offset \in Nat /\ mapped \in Nat /\ b \in Nat /\ c \in Nat
  BY DEF IInv, TypeOK, Bytes
<1>2. offset % Atom = 0 /\ (offset + mapped) % Atom = 0
  BY <1>1, SumIsDivisible DEF WholeAtoms
<1>3. offset <= c
  BY <1>1, <1>2, SameAtom
<1>4. ~(offset + mapped <= c)
  <2>1. offset + mapped \in Nat /\ ~(offset + mapped <= b)
    BY <1>1
  <2> QED BY <1>1, <1>2, <2>1, SameAtom
<1>5. c < offset + mapped
  BY <1>1, <1>4
<1> QED BY <1>3, <1>5 DEF IInv, MappedIsIdle

\* NormalizeReservation isolates atoms: the write-back of a committed region
\* touches no byte that is still in use.
THEOREM AtomsAreIsolated == Spec => []AtomIsolation
<1>1. Init => WholeAtoms
  <2>1. 0 % Atom = 0
    BY RingAssumption
  <2> QED BY <2>1 DEF Init, WholeAtoms
<1> QED BY <1>1, IInvHolds, WholeAtomsStep, AtomsFollow, PTL DEF Spec

\* Whoever has mapped a region may write it, and have it written back, without
\* touching a byte the GPU or the copy-out still uses.
THEOREM RegionsAreSafe == Spec => []RegionsSafe
<1>1. MappedIsIdle /\ AtomIsolation => RegionsSafe
  BY DEF RegionsSafe
<1> QED BY <1>1, RegionsAreIdle, AtomsAreIsolated, PTL

=============================================================================
