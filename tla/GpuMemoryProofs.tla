--------------------------- MODULE GpuMemoryProofs ---------------------------
(***************************************************************************)
(* Proofs about what lies between guest memory and the GPU, for every      *)
(* value of the constants: the range set is the set of addresses it stands *)
(* for, and its queries agree with it; the flip queue keeps its requests,  *)
(* counts them and shows them in order; the buffer cache knows where the   *)
(* newest value of every address is; pages trap exactly when somebody      *)
(* watches them.                                                           *)
(***************************************************************************)
EXTENDS MCGpuMemory, QueueLemmas, FiniteSetTheorems, TLAPS

-----------------------------------------------------------------------------
(* Range sets.                                                              *)

\* The addresses of a map of ranges, one by one.
LEMMA InBytes ==
    ASSUME NEW R, NEW x
    PROVE  x \in Bytes(R) <=> \E r \in R : x \in r[1]..(r[2] - 1)
BY DEF Bytes

Pairs == Addresses \X Addresses

LEMMA BytesInside ==
    ASSUME NEW R \in SUBSET Pairs
    PROVE  \A x : x \in Bytes(R) => x \in Addresses
<1> SUFFICES ASSUME NEW x, x \in Bytes(R) PROVE x \in Addresses
  OBVIOUS
<1>1. PICK r \in R : x \in r[1]..(r[2] - 1)
  BY InBytes
<1>2. r[1] \in Addresses /\ r[2] \in Addresses
  BY DEF Pairs
<1> QED BY <1>1, <1>2, RangeSetAssumption DEF Addresses

\* std::prev finds an entry whenever there is one before the iterator.
LEMMA PreviousExists ==
    ASSUME NEW R \in SUBSET Pairs, NEW S, R \ S # {}
    PROVE  Previous(R, S) # {}
<1> DEFINE K == {r[1] : r \in R \ S}
<1>1. K \in SUBSET Nat /\ K # {} /\ LastAddress \in Nat /\ \A x \in K : x <= LastAddress
  BY RangeSetAssumption DEF Pairs, Addresses
<1>2. PICK m \in K : \A x \in K : x <= m
  BY <1>1, Largest
<1>3. PICK r \in R \ S : r[1] = m
  BY <1>2
<1>4. \A q \in R \ S : q[1] <= r[1]
  BY <1>2, <1>3
<1> QED BY <1>3, <1>4 DEF Previous

\* An iterator that is not at the end is at an entry.
LEMMA FirstExists ==
    ASSUME NEW S \in SUBSET Pairs, S # {}
    PROVE  \E r \in S : \A q \in S : r[1] <= q[1]
<1> DEFINE K == {r[1] : r \in S}
<1>1. K \in SUBSET Nat /\ K # {}
  BY DEF Pairs, Addresses
<1>2. PICK m \in K : \A x \in K : m <= x
  BY <1>1, Smallest
<1>3. PICK r \in S : r[1] = m
  BY <1>2
<1> QED BY <1>2, <1>3

\* What the loops know: the entries still ahead are the last ones, and those
\* behind are done with.  While Add runs, the range it has collected so far
\* holds what it has erased; while Subtract runs, the map and the set differ
\* only inside the range it takes away.
Ahead ==
    /\ loop.rest \subseteq ranges
    /\ \A q \in loop.rest, r \in ranges : q[1] < r[1] => r \in loop.rest

AddInv ==
    /\ loop.begin \in Addresses /\ loop.last \in Addresses
    /\ loop.begin <= loop.a /\ loop.last >= loop.end
    /\ \A r \in loop.rest : r[2] >= loop.begin
    /\ \A r \in ranges \ loop.rest : r[2] < loop.begin
    /\ \A x \in Addresses :
          (x \in Bytes(ranges) \/ x \in loop.begin..(loop.last - 1))
              <=> (x \in bytes \/ x \in loop.a..(loop.end - 1))

SubtractInv ==
    /\ \A x \in Addresses : x \notin loop.a..(loop.end - 1) => (x \in Bytes(ranges) <=> x \in bytes)
    /\ \A r \in loop.rest : r[2] > loop.a
    /\ \A r \in ranges \ loop.rest : r[2] <= loop.a \/ r[1] >= loop.end

RangesIInv ==
    /\ ranges \subseteq Pairs /\ bytes \subseteq Addresses
    /\ loop \in [op : {"None", "Add", "Subtract"}, a : Nat, end : Nat, begin : Nat, last : Nat,
                 rest : SUBSET Pairs]
    /\ Maximal(ranges) /\ Ahead
    /\ loop.op = "None" => Bytes(ranges) = bytes
    /\ loop.op # "None" => loop.a \in Addresses /\ loop.end \in Addresses /\ loop.a < loop.end
    /\ loop.op = "Add" => AddInv
    /\ loop.op = "Subtract" => SubtractInv

LEMMA RangesInitIInv == RangesInit => RangesIInv
BY DEF RangesInit, RangesIInv, NoLoop, Maximal, Ahead, Bytes

\* What a loop that starts at `a` leaves behind lies before `a`.
LEMMA AddFromBehind ==
    ASSUME RangesIInv, NEW a \in Addresses
    PROVE  /\ AddFrom(ranges, a) \subseteq ranges
           /\ \A q \in AddFrom(ranges, a), r \in ranges : q[1] < r[1] => r \in AddFrom(ranges, a)
           /\ \A r \in AddFrom(ranges, a) : r[2] >= a
           /\ \A r \in ranges \ AddFrom(ranges, a) : r[2] < a
<1>0. ranges \in SUBSET Pairs /\ Maximal(ranges)
  BY DEF RangesIInv
<1>1. ASSUME NEW r \in ranges \ AddFrom(ranges, a) PROVE r[2] < a
  <2>1. r[1] < a /\ r \in ranges \ FromLower(ranges, a)
    BY <1>0 DEF AddFrom, FromLower, Pairs, Addresses
  <2>2. PICK p \in Previous(ranges, FromLower(ranges, a)) : TRUE
    BY <1>0, <2>1, PreviousExists
  <2>3. p \in ranges /\ r[1] <= p[1] /\ p[1] < a
    BY <1>0, <2>1, <2>2 DEF Previous, FromLower, Pairs, Addresses
  <2>4. CASE r = p
    BY <1>0, <2>2, <2>4 DEF AddFrom, Pairs, Addresses
  <2>5. CASE r # p
    BY <1>0, <2>3, <2>5 DEF Maximal, Pairs, Addresses
  <2> QED BY <2>4, <2>5
<1>2. AddFrom(ranges, a) \subseteq ranges
  BY DEF AddFrom, FromLower, Previous
<1>3. \A r \in AddFrom(ranges, a) : r[2] >= a
  BY <1>0 DEF AddFrom, FromLower, Previous, Maximal, Pairs, Addresses
<1>4. ASSUME NEW q \in AddFrom(ranges, a), NEW r \in ranges, q[1] < r[1]
      PROVE  r \in AddFrom(ranges, a)
  <2>1. q \in ranges /\ q[2] >= a /\ q[2] < r[1]
    BY <1>0, <1>2, <1>3, <1>4 DEF Maximal
  <2> QED BY <1>0, <2>1 DEF AddFrom, FromLower, Pairs, Addresses
<1> QED BY <1>1, <1>2, <1>3, <1>4

LEMMA SubtractFromBehind ==
    ASSUME RangesIInv, NEW a \in Addresses
    PROVE  /\ SubtractFrom(ranges, a) \subseteq ranges
           /\ \A q \in SubtractFrom(ranges, a), r \in ranges :
                 q[1] < r[1] => r \in SubtractFrom(ranges, a)
           /\ \A r \in SubtractFrom(ranges, a) : r[2] > a
           /\ \A r \in ranges \ SubtractFrom(ranges, a) : r[2] <= a
<1>0. ranges \in SUBSET Pairs /\ Maximal(ranges)
  BY DEF RangesIInv
<1>1. ASSUME NEW r \in ranges \ SubtractFrom(ranges, a) PROVE r[2] <= a
  <2>1. r[1] < a /\ r \in ranges \ FromLower(ranges, a)
    BY <1>0 DEF SubtractFrom, FromLower, Pairs, Addresses
  <2>2. PICK p \in Previous(ranges, FromLower(ranges, a)) : TRUE
    BY <1>0, <2>1, PreviousExists
  <2>3. p \in ranges /\ r[1] <= p[1] /\ p[1] < a
    BY <1>0, <2>1, <2>2 DEF Previous, FromLower, Pairs, Addresses
  <2>4. CASE r = p
    BY <1>0, <2>2, <2>4 DEF SubtractFrom, Pairs, Addresses
  <2>5. CASE r # p
    BY <1>0, <2>3, <2>5 DEF Maximal, Pairs, Addresses
  <2> QED BY <2>4, <2>5
<1>2. SubtractFrom(ranges, a) \subseteq ranges
  BY DEF SubtractFrom, FromLower, Previous
<1>3. \A r \in SubtractFrom(ranges, a) : r[2] > a
  BY <1>0 DEF SubtractFrom, FromLower, Previous, Maximal, Pairs, Addresses
<1>4. ASSUME NEW q \in SubtractFrom(ranges, a), NEW r \in ranges, q[1] < r[1]
      PROVE  r \in SubtractFrom(ranges, a)
  <2>1. q \in ranges /\ q[2] > a /\ q[2] < r[1]
    BY <1>0, <1>2, <1>3, <1>4 DEF Maximal
  <2> QED BY <1>0, <2>1 DEF SubtractFrom, FromLower, Pairs, Addresses
<1> QED BY <1>1, <1>2, <1>3, <1>4

LEMMA BeginIInv ==
    ASSUME RangesIInv, NEW a \in Addresses, NEW end \in Addresses, a < end,
           AddBegin(a, end) \/ SubtractBegin(a, end)
    PROVE  RangesIInv'
<1>0. /\ Bytes(ranges)' = Bytes(ranges) /\ Bytes(ranges) = bytes /\ Maximal(ranges)'
      /\ ranges' = ranges /\ bytes' = bytes /\ loop'.op # "None" /\ a \in Nat /\ end \in Nat
  BY DEF RangesIInv, AddBegin, SubtractBegin, Bytes, Maximal, Addresses
<1>1. CASE AddBegin(a, end)
  <2>1. /\ loop' = [op |-> "Add", a |-> a, end |-> end, begin |-> a, last |-> end,
                    rest |-> AddFrom(ranges, a)]
        /\ AddFrom(ranges, a) \subseteq Pairs
    BY <1>1, AddFromBehind DEF AddBegin, RangesIInv
  <2>2. AddInv' /\ Ahead'
    BY <1>0, <2>1, AddFromBehind DEF AddInv, Ahead
  <2> QED BY <1>0, <2>1, <2>2 DEF RangesIInv
<1>2. CASE SubtractBegin(a, end)
  <2>1. /\ loop' = [op |-> "Subtract", a |-> a, end |-> end, begin |-> a, last |-> end,
                    rest |-> SubtractFrom(ranges, a)]
        /\ SubtractFrom(ranges, a) \subseteq Pairs
    BY <1>2, SubtractFromBehind DEF SubtractBegin, RangesIInv
  <2>2. SubtractInv' /\ Ahead'
    BY <1>0, <2>1, SubtractFromBehind DEF SubtractInv, Ahead
  <2> QED BY <1>0, <2>1, <2>2 DEF RangesIInv
<1> QED BY <1>1, <1>2

LEMMA AddMergeIInv ==
    ASSUME RangesIInv, NEW r \in ranges, AddMerge(r)
    PROVE  RangesIInv'
<1>0. /\ ranges \subseteq Pairs /\ bytes \subseteq Addresses /\ Maximal(ranges) /\ Ahead /\ AddInv
      /\ loop.op = "Add" /\ IsFirst(r) /\ r[1] <= loop.last
      /\ loop.a \in Addresses /\ loop.end \in Addresses /\ loop.a < loop.end
      /\ r[1] \in Addresses /\ r[2] \in Addresses /\ r[1] < r[2]
  BY DEF RangesIInv, AddMerge, Maximal, Pairs
<1> DEFINE b == IF r[1] < loop.begin THEN r[1] ELSE loop.begin
           l == IF r[2] > loop.last THEN r[2] ELSE loop.last
<1>1. /\ ranges' = ranges \ {r} /\ bytes' = bytes
      /\ loop' = [loop EXCEPT !.begin = b, !.last = l, !.rest = loop.rest \ {r}]
  BY DEF AddMerge
<1>2. /\ loop' \in [op : {"None", "Add", "Subtract"}, a : Nat, end : Nat, begin : Nat, last : Nat,
                     rest : SUBSET Pairs]
      /\ loop'.op = "Add" /\ loop'.a = loop.a /\ loop'.end = loop.end
      /\ loop'.begin = b /\ loop'.last = l /\ loop'.rest = loop.rest \ {r}
  <2>1. b \in Nat /\ l \in Nat
    BY <1>0 DEF AddInv, Addresses
  <2>2. /\ loop \in [op : {"None", "Add", "Subtract"}, a : Nat, end : Nat, begin : Nat,
                      last : Nat, rest : SUBSET Pairs]
        /\ loop.op = "Add"
    BY <1>0 DEF RangesIInv
  <2> HIDE DEF b, l
  <2> QED BY <1>1, <2>1, <2>2
<1>3. Maximal(ranges)'
  BY <1>0, <1>1 DEF Maximal
<1>4. Ahead'
  BY <1>0, <1>1, <1>2 DEF Ahead
<1>5. AddInv'
  <2>1. /\ b \in Addresses /\ l \in Addresses /\ b <= loop.a /\ l >= loop.end
        /\ b <= loop.begin /\ b <= r[1]
    BY <1>0 DEF AddInv, Addresses
  <2>2. \A q \in loop.rest \ {r} : q[2] >= b
    BY <1>0, <2>1 DEF AddInv, Ahead, Pairs, Addresses
  <2>3. ASSUME NEW q \in (ranges \ {r}) \ (loop.rest \ {r}) PROVE q[2] < b
    <3>1. q \in ranges /\ q \notin loop.rest /\ q # r /\ q[2] < loop.begin
      BY <1>0, <2>3 DEF AddInv
    <3>2. q[1] < r[1]
      BY <1>0, <3>1 DEF Ahead, Maximal, IsFirst, Pairs, Addresses
    <3>3. q[2] < r[1]
      BY <1>0, <3>1, <3>2 DEF Maximal
    <3> QED BY <3>1, <3>3
  <2>4. ASSUME NEW x \in Addresses
        PROVE  (x \in Bytes(ranges \ {r}) \/ x \in b..(l - 1))
                  <=> (x \in bytes \/ x \in loop.a..(loop.end - 1))
    <3>1. r[2] >= loop.begin
      BY <1>0 DEF AddInv, IsFirst
    <3>2. x \in b..(l - 1) <=> x \in loop.begin..(loop.last - 1) \/ x \in r[1]..(r[2] - 1)
      BY <1>0, <3>1 DEF AddInv, Addresses
    <3>3. x \in Bytes(ranges) <=> x \in Bytes(ranges \ {r}) \/ x \in r[1]..(r[2] - 1)
      BY InBytes
    <3> HIDE DEF b, l
    <3>4. (x \in Bytes(ranges) \/ x \in loop.begin..(loop.last - 1))
             <=> (x \in bytes \/ x \in loop.a..(loop.end - 1))
      BY <1>0 DEF AddInv
    <3> QED BY <3>2, <3>3, <3>4
  <2> HIDE DEF b, l
  <2> QED BY <1>1, <1>2, <2>1, <2>2, <2>3, <2>4 DEF AddInv
<1> QED BY <1>0, <1>1, <1>2, <1>3, <1>4, <1>5 DEF RangesIInv

LEMMA AddEndIInv ==
    ASSUME RangesIInv, AddEnd
    PROVE  RangesIInv'
<1> DEFINE n == <<loop.begin, loop.last>>
<1>0. /\ ranges \subseteq Pairs /\ bytes \subseteq Addresses /\ Maximal(ranges) /\ Ahead /\ AddInv
      /\ loop.a \in Addresses /\ loop.end \in Addresses /\ loop.a < loop.end
      /\ \A r \in loop.rest : r[1] > loop.last
      /\ ranges' = ranges \cup {n} /\ loop' = NoLoop
      /\ bytes' = bytes \cup (loop.a..(loop.end - 1))
  BY DEF RangesIInv, AddEnd
<1>1. n \in Pairs /\ n[1] < n[2] /\ n[1] = loop.begin /\ n[2] = loop.last
  BY <1>0 DEF AddInv, Pairs, Addresses
<1>2. \A r \in ranges : r[2] < n[1] \/ r[1] > n[2]
  BY <1>0, <1>1 DEF AddInv
<1>3. ranges' \subseteq Pairs /\ Maximal(ranges)'
  <2> HIDE DEF n
  <2> QED BY <1>0, <1>1, <1>2 DEF Maximal, Pairs, Addresses
<1>4. bytes' \subseteq Addresses
  <2>1. \A x \in loop.a..(loop.end - 1) : x \in Addresses
    BY <1>0, RangeSetAssumption DEF Addresses
  <2> QED BY <1>0, <2>1
<1>5. \A x : x \in Bytes(ranges') <=> x \in Bytes(ranges) \/ x \in loop.begin..(loop.last - 1)
  BY <1>0, <1>1, InBytes
<1>6. \A x : x \in Bytes(ranges') => x \in Addresses
  BY <1>3, BytesInside
<1>7. \A x \in Addresses : x \in Bytes(ranges') <=> x \in bytes'
  BY <1>0, <1>5 DEF AddInv
<1>8. Bytes(ranges') = bytes'
  BY <1>4, <1>6, <1>7
<1>9. loop' \in [op : {"None", "Add", "Subtract"}, a : Nat, end : Nat, begin : Nat, last : Nat,
                 rest : SUBSET Pairs] /\ loop'.op = "None" /\ loop'.rest = {}
  BY <1>0 DEF NoLoop
<1>10. Ahead'
  BY <1>9 DEF Ahead
<1> QED BY <1>3, <1>4, <1>8, <1>9, <1>10 DEF RangesIInv, Bytes

LEMMA SubtractCutIInv ==
    ASSUME RangesIInv, NEW r \in ranges, SubtractCut(r)
    PROVE  RangesIInv'
<1> DEFINE before == IF r[1] < loop.a THEN {<<r[1], loop.a>>} ELSE {}
           behind == IF r[2] > loop.end THEN {<<loop.end, r[2]>>} ELSE {}
<1>0. /\ ranges \subseteq Pairs /\ bytes \subseteq Addresses /\ Maximal(ranges) /\ Ahead
      /\ SubtractInv /\ loop.op = "Subtract" /\ IsFirst(r) /\ r[1] < loop.end
      /\ loop.a \in Addresses /\ loop.end \in Addresses /\ loop.a < loop.end
      /\ r[1] \in Addresses /\ r[2] \in Addresses /\ r[1] < r[2]
      /\ ranges' = (ranges \ {r}) \cup before \cup behind /\ bytes' = bytes
  BY DEF RangesIInv, SubtractCut, Maximal, Pairs
<1>1. /\ loop' \in [op : {"None", "Add", "Subtract"}, a : Nat, end : Nat, begin : Nat, last : Nat,
                     rest : SUBSET Pairs]
      /\ loop'.op = "Subtract" /\ loop'.a = loop.a /\ loop'.end = loop.end
      /\ loop'.rest = IF r[2] > loop.end THEN {} ELSE loop.rest \ {r}
  BY DEF RangesIInv, SubtractCut
\* The pieces lie inside r.
<1>2. \A p \in before \cup behind :
         /\ p \in Pairs /\ p[1] < p[2] /\ r[1] <= p[1] /\ p[2] <= r[2]
         /\ p[2] <= loop.a \/ p[1] >= loop.end
  <2>1. CASE r[1] < loop.a /\ r[2] > loop.end
    BY <1>0, <2>1 DEF Pairs, Addresses
  <2>2. CASE r[1] < loop.a /\ ~(r[2] > loop.end)
    <3>1. before \cup behind = {<<r[1], loop.a>>} /\ loop.a <= r[2]
      <4>1. r[2] >= loop.a
        BY <1>0 DEF SubtractInv, IsFirst, Pairs, Addresses
      <4> QED BY <2>2, <4>1
    <3> QED BY <1>0, <2>2, <3>1 DEF Pairs, Addresses
  <2>3. CASE ~(r[1] < loop.a)
    BY <1>0, <2>3 DEF Pairs, Addresses
  <2> QED BY <2>1, <2>2, <2>3
<1>3. \A p, q \in before \cup behind : p[1] < q[1] => p[2] < q[1]
  BY <1>0 DEF Addresses
<1>4. \A p, q \in before \cup behind : p[1] = q[1] => p = q
  BY <1>0 DEF Addresses
<1>5. \A x : x \notin loop.a..(loop.end - 1) =>
          (x \in r[1]..(r[2] - 1) <=> \E p \in before \cup behind : x \in p[1]..(p[2] - 1))
  <2> SUFFICES ASSUME NEW x, x \notin loop.a..(loop.end - 1)
               PROVE  x \in r[1]..(r[2] - 1)
                         <=> \E p \in before \cup behind : x \in p[1]..(p[2] - 1)
    OBVIOUS
  <2>1. ASSUME x \in r[1]..(r[2] - 1) PROVE \E p \in before \cup behind : x \in p[1]..(p[2] - 1)
    <3>1. CASE x < loop.a
      <4>1. <<r[1], loop.a>> \in before
        BY <1>0, <2>1, <3>1 DEF Addresses
      <4>2. x \in r[1]..(loop.a - 1)
        BY <1>0, <2>1, <3>1 DEF Addresses
      <4> QED BY <4>1, <4>2
    <3>2. CASE ~(x < loop.a)
      <4>1. <<loop.end, r[2]>> \in behind
        BY <1>0, <2>1, <3>2 DEF Addresses
      <4>2. x \in loop.end..(r[2] - 1)
        BY <1>0, <2>1, <3>2 DEF Addresses
      <4> QED BY <4>1, <4>2
    <3> QED BY <3>1, <3>2
  <2>2. ASSUME NEW p \in before \cup behind, x \in p[1]..(p[2] - 1) PROVE x \in r[1]..(r[2] - 1)
    <3> HIDE DEF before, behind
    <3> QED BY <1>0, <1>2, <2>2 DEF Pairs, Addresses
  <2> QED BY <2>1, <2>2
<1>6. r[2] <= loop.end => behind = {}
  BY <1>0 DEF Addresses
<1>7. \A p \in before : p[1] = r[1]
  OBVIOUS
<1> DEFINE pieces == before \cup behind
<1>8. ranges' = (ranges \ {r}) \cup pieces
  BY <1>0
<1> HIDE DEF before, behind, pieces
<1>9. ranges' \subseteq Pairs
  BY <1>0, <1>2 DEF pieces
<1>10. Maximal(ranges')
  <2>1. \A q \in ranges \ {r} : (q[1] < r[1] /\ q[2] < r[1]) \/ (r[1] < q[1] /\ r[2] < q[1])
    BY <1>0 DEF Maximal, Pairs, Addresses
  <2>2. \A q \in ranges \ {r}, p \in pieces :
           (q[1] < p[1] /\ q[2] < p[1]) \/ (p[1] < q[1] /\ p[2] < q[1])
    BY <1>0, <1>2, <2>1 DEF pieces, Pairs, Addresses
  <2>3. \A q \in ranges' : q[1] < q[2] /\ q[1] \in Nat /\ q[2] \in Nat
    BY <1>0, <1>2, <1>8, <1>9 DEF pieces, Maximal, Pairs, Addresses
  <2>4. ASSUME NEW q \in ranges', NEW p \in ranges'
        PROVE  (q[1] < p[1] => q[2] < p[1]) /\ (q[1] = p[1] => q = p)
    <3>1. CASE q \in pieces /\ p \in pieces
      BY <1>3, <1>4, <3>1 DEF pieces
    <3>2. CASE q \in ranges \ {r} /\ p \in ranges \ {r}
      BY <1>0, <3>2 DEF Maximal
    <3>3. CASE q \in pieces /\ p \in ranges \ {r}
      BY <2>2, <2>3, <3>3
    <3>4. CASE q \in ranges \ {r} /\ p \in pieces
      BY <2>2, <2>3, <3>4
    <3> QED BY <1>8, <2>4, <3>1, <3>2, <3>3, <3>4
  <2> QED BY <2>3, <2>4 DEF Maximal
<1>11. Ahead'
  <2>1. CASE r[2] > loop.end
    BY <1>1, <2>1 DEF Ahead
  <2>2. CASE ~(r[2] > loop.end)
    <3>1. loop'.rest = loop.rest \ {r} /\ pieces = before
      BY <1>0, <1>1, <1>6, <2>2 DEF pieces, Addresses
    <3>2. loop'.rest \subseteq ranges'
      BY <1>0, <1>8, <3>1 DEF Ahead
    <3>3. ASSUME NEW q \in loop.rest \ {r}, NEW p \in ranges', q[1] < p[1] PROVE p \in loop.rest \ {r}
      <4>1. q \in ranges /\ r[1] <= q[1]
        BY <1>0 DEF Ahead, IsFirst
      <4>2. p \notin pieces
        BY <1>0, <1>7, <3>1, <3>3, <4>1 DEF Pairs, Addresses
      <4>3. p \in ranges \ {r}
        BY <1>8, <4>2
      <4> QED BY <1>0, <3>3, <4>3 DEF Ahead
    <3> QED BY <3>1, <3>2, <3>3 DEF Ahead
  <2> QED BY <2>1, <2>2
<1>12. \A x \in Addresses : x \notin loop.a..(loop.end - 1) => (x \in Bytes(ranges') <=> x \in bytes)
  <2> SUFFICES ASSUME NEW x \in Addresses, x \notin loop.a..(loop.end - 1)
               PROVE  x \in Bytes(ranges') <=> x \in Bytes(ranges)
    BY <1>0 DEF SubtractInv
  <2>1. x \in Bytes(ranges') <=> \/ \E q \in ranges \ {r} : x \in q[1]..(q[2] - 1)
                                \/ \E q \in pieces : x \in q[1]..(q[2] - 1)
    BY <1>8, InBytes
  <2>2. x \in Bytes(ranges) <=> \/ \E q \in ranges \ {r} : x \in q[1]..(q[2] - 1)
                               \/ x \in r[1]..(r[2] - 1)
    BY InBytes
  <2>3. x \in r[1]..(r[2] - 1) <=> \E p \in pieces : x \in p[1]..(p[2] - 1)
    BY <1>5 DEF pieces
  <2> QED BY <2>1, <2>2, <2>3
<1>13. ASSUME NEW q \in ranges', q \notin loop'.rest PROVE q[2] <= loop.a \/ q[1] >= loop.end
  <2>1. CASE q \in pieces
    BY <1>2, <2>1 DEF pieces
  <2>2. CASE q \in ranges \ {r} /\ q \notin loop.rest
    BY <1>0, <2>2 DEF SubtractInv
  <2>3. CASE q \in ranges \ {r} /\ q \in loop.rest
    <3>1. r[2] > loop.end
      BY <1>1, <1>13, <2>3
    <3>2. r[1] < q[1]
      BY <1>0, <2>3 DEF IsFirst, Maximal, Pairs, Addresses
    <3>3. r[2] < q[1]
      BY <1>0, <2>3, <3>2 DEF Maximal
    <3> QED BY <1>0, <2>3, <3>1, <3>3 DEF Pairs, Addresses
  <2> QED BY <1>8, <2>1, <2>2, <2>3
<1>14. \A q \in loop'.rest : q[2] > loop.a
  BY <1>0, <1>1 DEF SubtractInv
<1>15. SubtractInv'
  BY <1>0, <1>1, <1>12, <1>13, <1>14 DEF SubtractInv, Bytes
<1> QED BY <1>0, <1>1, <1>9, <1>10, <1>11, <1>15 DEF RangesIInv, Maximal

LEMMA SubtractEndIInv ==
    ASSUME RangesIInv, SubtractEnd
    PROVE  RangesIInv'
<1>0. /\ ranges \subseteq Pairs /\ bytes \subseteq Addresses /\ Maximal(ranges)
      /\ SubtractInv /\ \A r \in loop.rest : r[1] >= loop.end
      /\ loop.a \in Addresses /\ loop.end \in Addresses /\ loop.a < loop.end
      /\ ranges' = ranges /\ loop' = NoLoop /\ bytes' = bytes \ (loop.a..(loop.end - 1))
  BY DEF RangesIInv, SubtractEnd
<1>1. \A r \in ranges : r[2] <= loop.a \/ r[1] >= loop.end
  BY <1>0 DEF SubtractInv
<1>2. \A x : x \in Bytes(ranges) => x \in Addresses /\ x \notin loop.a..(loop.end - 1)
  <2> SUFFICES ASSUME NEW x, x \in Bytes(ranges)
               PROVE  x \in Addresses /\ x \notin loop.a..(loop.end - 1)
    OBVIOUS
  <2>1. x \in Addresses
    BY <1>0, BytesInside
  <2>2. PICK r \in ranges : x \in r[1]..(r[2] - 1)
    BY InBytes
  <2>3. r[1] \in Addresses /\ r[2] \in Addresses
    BY <1>0 DEF Pairs
  <2> QED BY <1>0, <1>1, <2>1, <2>2, <2>3 DEF Addresses
<1>3. Bytes(ranges) = bytes'
  BY <1>0, <1>2 DEF SubtractInv
<1>4. /\ loop' \in [op : {"None", "Add", "Subtract"}, a : Nat, end : Nat, begin : Nat, last : Nat,
                     rest : SUBSET Pairs]
      /\ loop'.op = "None" /\ loop'.rest = {}
  BY <1>0 DEF NoLoop
<1>5. Ahead'
  BY <1>4 DEF Ahead
<1>6. Maximal(ranges)' /\ Bytes(ranges)' = Bytes(ranges)
  BY <1>0 DEF Maximal, Bytes
<1> QED BY <1>0, <1>3, <1>4, <1>5, <1>6 DEF RangesIInv

LEMMA RangesNextIInv == RangesIInv /\ [RangesNext]_rangeVars => RangesIInv'
<1> SUFFICES ASSUME RangesIInv, [RangesNext]_rangeVars PROVE RangesIInv'
  OBVIOUS
<1>1. CASE UNCHANGED rangeVars
  BY <1>1 DEF rangeVars, RangesIInv, Maximal, Ahead, AddInv, SubtractInv, Bytes
<1>2. CASE RangesNext
  BY <1>2, BeginIInv, AddMergeIInv, AddEndIInv, SubtractCutIInv, SubtractEndIInv DEF RangesNext
<1> QED BY <1>1, <1>2

\* While no loop runs, the map is the set and its ranges are maximal.
THEOREM RangesIInvHolds == RangesSpec => []RangesIInv
BY RangesInitIInv, RangesNextIInv, PTL DEF RangesSpec

-----------------------------------------------------------------------------
(* The queries, on a map of maximal ranges.                                 *)

\* What upper_bound and std::prev find: the entry before it, if there is one,
\* is the only one that begins at or before `a` and ends behind it.
LEMMA EntryAround ==
    ASSUME NEW R \in SUBSET Pairs, Maximal(R), NEW a \in Addresses
    PROVE  /\ FromUpper(R, a) \subseteq R /\ Previous(R, FromUpper(R, a)) \subseteq R
           /\ \A r \in FromUpper(R, a) : r[1] > a
           /\ \A r \in Previous(R, FromUpper(R, a)) : r[1] <= a
           /\ \A r \in R : r[1] <= a /\ r[2] > a => r \in Previous(R, FromUpper(R, a))
           /\ \A r \in R : r[1] > a => r \in FromUpper(R, a)
<1>1. /\ FromUpper(R, a) \subseteq R /\ Previous(R, FromUpper(R, a)) \subseteq R
      /\ \A r \in FromUpper(R, a) : r[1] > a
      /\ \A r \in R : r[1] > a => r \in FromUpper(R, a)
  BY DEF FromUpper, Previous
<1>2. \A r \in Previous(R, FromUpper(R, a)) : r[1] <= a
  BY DEF FromUpper, Previous, Pairs, Addresses
<1>3. ASSUME NEW r \in R, r[1] <= a, r[2] > a PROVE r \in Previous(R, FromUpper(R, a))
  <2>1. r \in R \ FromUpper(R, a)
    BY <1>3 DEF FromUpper, Pairs, Addresses
  <2>2. ASSUME NEW q \in R \ FromUpper(R, a) PROVE q[1] <= r[1]
    <3>1. q[1] <= a
      BY DEF FromUpper, Pairs, Addresses
    <3>2. r[1] < q[1] => r[2] < q[1]
      BY DEF Maximal
    <3> QED BY <1>3, <3>1, <3>2 DEF Pairs, Addresses
  <2> QED BY <2>1, <2>2 DEF Previous
<1> QED BY <1>1, <1>2, <1>3

LEMMA ContainsExact ==
    ASSUME NEW R \in SUBSET Pairs, Maximal(R),
           NEW a \in Addresses, NEW end \in Addresses, a < end
    PROVE  ContainsRange(R, a, end) <=> (a..(end - 1)) \subseteq Bytes(R)
<1>1. ASSUME ContainsRange(R, a, end) PROVE (a..(end - 1)) \subseteq Bytes(R)
  <2>1. PICK r \in R : r[1] <= a /\ r[2] >= end
    BY <1>1, EntryAround DEF ContainsRange
  <2>2. \A x \in a..(end - 1) : x \in r[1]..(r[2] - 1)
    BY <2>1 DEF Pairs, Addresses
  <2> QED BY <2>2, InBytes
\* The range that holds `a` must reach `end`: its own end is in no range.
<1>2. ASSUME (a..(end - 1)) \subseteq Bytes(R) PROVE ContainsRange(R, a, end)
  <2>1. a \in a..(end - 1)
    BY DEF Addresses
  <2>2. PICK r \in R : a \in r[1]..(r[2] - 1)
    BY <1>2, <2>1, InBytes
  <2>3. r[1] \in Addresses /\ r[2] \in Addresses /\ r[1] <= a /\ r[2] > a
    BY <2>2 DEF Pairs, Addresses
  <2>4. r \in Previous(R, FromUpper(R, a))
    BY <2>3, EntryAround
  <2>5. r[2] >= end
    <3> SUFFICES ASSUME r[2] < end PROVE FALSE
      BY <2>3 DEF Addresses
    <3>1. r[2] \in a..(end - 1)
      BY <2>3 DEF Addresses
    <3>2. PICK q \in R : r[2] \in q[1]..(q[2] - 1)
      BY <1>2, <3>1, InBytes
    <3>3. q[1] \in Addresses /\ q[2] \in Addresses /\ q[1] <= r[2] /\ r[2] < q[2]
      BY <3>2 DEF Pairs, Addresses
    <3>4. (r[1] < q[1] => r[2] < q[1]) /\ (q[1] < r[1] => q[2] < r[1]) /\ (q[1] = r[1] => q = r)
      BY DEF Maximal
    <3> QED BY <2>3, <3>3, <3>4 DEF Addresses
  <2> QED BY <2>3, <2>4, <2>5 DEF ContainsRange
<1> QED BY <1>1, <1>2

LEMMA IntersectsExact ==
    ASSUME NEW R \in SUBSET Pairs, Maximal(R),
           NEW a \in Addresses, NEW end \in Addresses, a < end
    PROVE  Intersects(R, a, end) <=> (a..(end - 1)) \cap Bytes(R) # {}
<1>1. ASSUME Intersects(R, a, end) PROVE (a..(end - 1)) \cap Bytes(R) # {}
  <2>1. PICK r \in R : (r[1] <= a /\ r[2] > a) \/ (r[1] > a /\ r[1] < end)
    BY <1>1, EntryAround DEF Intersects
  <2>2. r[1] \in Addresses /\ r[2] \in Addresses /\ r[1] < r[2]
    BY DEF Pairs, Maximal
  <2>3. CASE r[1] <= a /\ r[2] > a
    <3>1. a \in a..(end - 1) /\ a \in r[1]..(r[2] - 1)
      BY <2>2, <2>3 DEF Addresses
    <3> QED BY <3>1, InBytes
  <2>4. CASE r[1] > a /\ r[1] < end
    <3>1. r[1] \in a..(end - 1) /\ r[1] \in r[1]..(r[2] - 1)
      BY <2>2, <2>4 DEF Addresses
    <3> QED BY <3>1, InBytes
  <2> QED BY <2>1, <2>3, <2>4
<1>2. ASSUME NEW x \in a..(end - 1), x \in Bytes(R) PROVE Intersects(R, a, end)
  <2>1. PICK r \in R : x \in r[1]..(r[2] - 1)
    BY <1>2, InBytes
  <2>2. r[1] \in Addresses /\ r[2] \in Addresses /\ r[1] < end /\ r[2] > a /\ r[1] < r[2]
    BY <1>2, <2>1 DEF Pairs, Addresses
  <2>3. CASE r[1] <= a
    BY <2>2, <2>3, EntryAround DEF Intersects
  <2>4. CASE r[1] > a
    <3>1. r \in FromUpper(R, a)
      BY <2>4, EntryAround
    <3>2. PICK q \in FromUpper(R, a) : \A p \in FromUpper(R, a) : q[1] <= p[1]
      BY <3>1, FirstExists DEF FromUpper
    <3>3. q[1] \in Addresses /\ q[1] < end
      BY <2>2, <3>1, <3>2, EntryAround DEF Pairs, Addresses
    <3> QED BY <3>2, <3>3 DEF Intersects
  <2> QED BY <2>2, <2>3, <2>4 DEF Addresses
<1> QED BY <1>1, <1>2

LEMMA IntersectionsExact ==
    ASSUME NEW R \in SUBSET Pairs, Maximal(R),
           NEW a \in Addresses, NEW end \in Addresses, a < end
    PROVE  Bytes(Intersections(R, a, end)) = (a..(end - 1)) \cap Bytes(R)
<1> DEFINE first(r) == IF r[1] > a THEN r[1] ELSE a
           last(r) == IF r[2] < end THEN r[2] ELSE end
           F == FromUpper(R, a) \cup Previous(R, FromUpper(R, a))
<1>1. Intersections(R, a, end)
         = {<<first(r), last(r)>> : r \in {q \in F : q[1] < end /\ first(q) < last(q)}}
  BY DEF Intersections
<1>2. F \subseteq R
  BY EntryAround
<1>3. ASSUME NEW x, x \in Bytes(Intersections(R, a, end)) PROVE x \in (a..(end - 1)) \cap Bytes(R)
  <2>1. PICK i \in Intersections(R, a, end) : x \in i[1]..(i[2] - 1)
    BY <1>3, InBytes
  <2>2. PICK r \in F : i = <<first(r), last(r)>>
    BY <1>1
  <2>3. r \in R /\ r[1] \in Addresses /\ r[2] \in Addresses /\ x \in first(r)..(last(r) - 1)
    BY <1>2, <2>1, <2>2 DEF Pairs
  <2>4. x \in a..(end - 1) /\ x \in r[1]..(r[2] - 1)
    BY <2>3 DEF Addresses
  <2> QED BY <2>3, <2>4, InBytes
<1>4. ASSUME NEW x \in a..(end - 1), x \in Bytes(R) PROVE x \in Bytes(Intersections(R, a, end))
  <2>1. PICK r \in R : x \in r[1]..(r[2] - 1)
    BY <1>4, InBytes
  <2>2. r[1] \in Addresses /\ r[2] \in Addresses
    BY DEF Pairs
  <2>3. r[1] < end /\ r[2] > a /\ x \in first(r)..(last(r) - 1) /\ first(r) < last(r)
    BY <1>4, <2>1, <2>2 DEF Addresses
  <2>4. r \in F
    BY <2>2, <2>3, EntryAround DEF Addresses
  <2>5. <<first(r), last(r)>> \in Intersections(R, a, end)
    BY <1>1, <2>3, <2>4
  <2> QED BY <2>3, <2>5, InBytes
<1> QED BY <1>3, <1>4

\* The map of ranges and the plain set hold the same addresses after every
\* sequence of Add and Subtract, in maximal ranges, and Contains, Intersects
\* and Intersections answer as the set would, for any address space.
THEOREM RangeSetIsExact == MCSpec => []RangesAreSets
<1>1. MCSpec => RangesSpec
  <2>1. MCInit => RangesInit
    BY DEF MCInit
  <2>2. [MCNext]_<<part, trackingVars, cache, rangeVars, videoVars>> => [RangesNext]_rangeVars
    <3> SUFFICES ASSUME MCNext PROVE [RangesNext]_rangeVars
      BY DEF rangeVars
    <3>1. CASE part = "ranges"
      BY <3>1 DEF MCNext
    <3>2. CASE part # "ranges"
      BY <3>2 DEF MCNext, Rests
    <3> QED BY <3>1, <3>2
  <2> QED BY <2>1, <2>2, PTL DEF MCSpec, RangesSpec
<1>2. RangesIInv => RangesAreSets
  <2> SUFFICES ASSUME RangesIInv, loop.op = "None"
               PROVE  /\ Bytes(ranges) = bytes /\ Maximal(ranges)
                      /\ \A a \in Addresses, end \in Addresses : a < end =>
                            /\ ContainsRange(ranges, a, end) <=> (a..(end - 1)) \subseteq bytes
                            /\ Intersects(ranges, a, end) <=> (a..(end - 1)) \cap bytes # {}
                            /\ Bytes(Intersections(ranges, a, end)) = (a..(end - 1)) \cap bytes
    BY DEF RangesAreSets, RangesExact, QueriesExact
  <2>1. ranges \in SUBSET Pairs /\ Bytes(ranges) = bytes /\ Maximal(ranges)
    BY DEF RangesIInv
  <2> QED BY <2>1, ContainsExact, IntersectsExact, IntersectionsExact
<1> QED BY <1>1, <1>2, RangesIInvHolds, PTL

-----------------------------------------------------------------------------
(* The flip queue of the video output.  First the invariant.                *)

Requests == [id : Nat, gen : Nat, index : Indexes, source : {"Cpu", "Gpu"}, order : Nat,
             state : States, frame : BOOLEAN]

Everywhere == Listed \cup cpuRequests \cup cancelled

\* The list of a queue: no request twice, those with an order first and by it.
Distinct(s) ==
    s \in Seq(Requests) /\ \A i, j \in DOMAIN s : s[i].id = s[j].id => i = j

QueueOK(s) ==
    /\ Distinct(s)
    /\ \A i, j \in DOMAIN s :
          i < j /\ s[j].order # 0 => s[i].order # 0 /\ s[i].order <= s[j].order

GuestStates ==
    [pc : {"Idle", "Got", "Submit", "Cancel", "CancelEnd"},
     call : {"None", "Rate", "Register", "Unregister", "Flip"}, arg : Indexes, id : Nat]

GpuStates ==
    [pc : {"Idle", "Slot", "Retry", "WaitDone", "Prepare", "Look", "Frame", "Drop",
           "Complete", "Completing"},
     id : Nat, source : {"Cpu", "Gpu"}, index : Indexes]

QueueShape ==
    /\ QueueOK(requests) /\ IsFiniteSet(cpuRequests)
    /\ cpuRequests \subseteq Requests /\ cancelled \subseteq Requests
    /\ \A q, r \in Everywhere : q.id = r.id => q = r
    /\ Listed \cap cpuRequests = {} /\ cancelled \cap (Listed \cup cpuRequests) = {}
    /\ nextId \in Nat \ {0} /\ \A r \in Everywhere : 0 < r.id /\ r.id < nextId

Ports ==
    [opened : BOOLEAN, closing : BOOLEAN, gen : Nat, rate : {0, 1}, vblank : {0, 1},
     shown : BOOLEAN, current : Indexes, pending : 0..Capacity, gc : 0..Capacity]

ThreadShape ==
    /\ port \in Ports /\ registered \subseteq Buffers
    /\ guest \in [Guests -> GuestStates] /\ gpu \in GpuStates
    /\ present \in [pc : {"Vblank", "Flip", "Picked", "Presenting"}, id : Nat]
    /\ jobs \in Seq(Nat) /\ eops \in Seq(Nat) /\ priority \in Nat
    /\ nextOrder \in Nat /\ lastOrder \in Nat

\* What the list a request is in says about it.
PlaceInv ==
    /\ \A r \in cpuRequests : r.source = "Cpu" /\ r.state = "Reserved" /\ r.order # 0 /\ ~r.frame
    /\ \A r \in cancelled : r.state \in {"Reserved", "Recording"}
    /\ \A r \in Listed :
          /\ r.source = "Cpu" => r.order # 0 /\ r.state # "Reserved"
          /\ r.state \in {"Ready", "Presenting"} => r.order # 0

\* A request that waits for its preparation, that is being recorded, and
\* whose recording waits to be completed.
Waits(id, source) ==
    \E r \in Everywhere : /\ r.id = id /\ r.source = source /\ r.state = "Reserved" /\ ~r.frame
                          /\ source = "Gpu" => r.order = 0
Records(id, source) ==
    \E r \in Listed \cup cancelled :
        /\ r.id = id /\ r.source = source /\ r.state = "Recording" /\ ~r.frame
        /\ source = "Gpu" => r.order = 0
Recorded(id, source) ==
    \E r \in Listed \cup cancelled :
        /\ r.id = id /\ r.source = source /\ r.state = "Recording"
        /\ r \in Listed => r.frame

\* A GPU flip that has not taken its place in the order, and one that has,
\* if it is still in the queue.
Unplaced(id) == \A r \in Everywhere : r.id = id => r.order = 0

Placed(id) == \A r \in Listed : r.id = id => r.order # 0

Submitting(g) == guest[g].pc = "Submit"

GpuHand ==
    /\ gpu.pc \in {"Idle", "Slot", "Retry", "WaitDone"} => gpu.id = NoId
    /\ gpu.pc = "Prepare" => Waits(gpu.id, gpu.source)
    /\ gpu.pc \in {"Look", "Frame", "Drop"} => Records(gpu.id, gpu.source)
    /\ gpu.pc \in {"Complete", "Completing"} => gpu.source = "Cpu" /\ Recorded(gpu.id, "Cpu")

\* Each thread finds the request it has the number of in the state it left
\* it in, wherever Cancel may have put it meanwhile.
HandInv ==
    /\ \A g \in Guests : Submitting(g) => Waits(guest[g].id, "Cpu")
    /\ \A k \in DOMAIN jobs : Waits(jobs[k], "Cpu")
    /\ GpuHand
    /\ \A k \in DOMAIN eops : Recorded(eops[k], "Gpu") /\ Unplaced(eops[k])
    /\ priority # NoId => Recorded(priority, "Gpu") /\ Placed(priority)

\* No two of them have the same one.
ApartInv ==
    /\ \A g, h \in Guests : Submitting(g) /\ Submitting(h) /\ guest[g].id = guest[h].id => g = h
    /\ \A g \in Guests : Submitting(g) =>
          guest[g].id # gpu.id /\ \A k \in DOMAIN jobs : jobs[k] # guest[g].id
    /\ \A j, k \in DOMAIN jobs : jobs[j] = jobs[k] => j = k
    /\ \A k \in DOMAIN jobs : jobs[k] # gpu.id
    /\ \A j, k \in DOMAIN eops : eops[j] = eops[k] => j = k
    /\ \A k \in DOMAIN eops : eops[k] # gpu.id /\ eops[k] # priority
    /\ priority # NoId => priority # gpu.id

\* The requests of an open port are of its generation and their buffers are
\* registered; all others are of an earlier one, and of a port that has been
\* closed none is left in the queue.
PortInv ==
    /\ port.closing <=> ~port.opened /\ port.gen # 0
    /\ ~port.opened => registered = {}
    /\ port.gen = 0 => ~port.opened /\ \A g \in Guests : guest[g].pc = "Idle"
    /\ \A r \in Everywhere : r.gen <= port.gen
    /\ \A r \in Everywhere : r.gen = port.gen =>
          port.opened /\ r \notin cancelled /\ r.index \in registered \cup {Blank}
    /\ port.opened => \A r \in Listed \cup cpuRequests : r.gen = port.gen
    /\ \A g, h \in Guests : guest[g].pc \in {"Cancel", "CancelEnd"}
                            /\ guest[h].pc \in {"Cancel", "CancelEnd"} => g = h
    /\ port.opened => DriverFree
    /\ ~port.opened /\ (\A g \in Guests : guest[g].pc # "Cancel") =>
          requests = <<>> /\ cpuRequests = {}
    /\ gpu.pc = "Drop" => \A r \in Everywhere : r.id = gpu.id => r.gen # port.gen
    /\ \A g \in Guests : guest[g].pc = "Got" /\ guest[g].call = "Register" => guest[g].arg \in Buffers

OrderInv ==
    /\ lastOrder < nextOrder
    /\ \A r \in Listed \cup cpuRequests :
          r.order # 0 => lastOrder < r.order /\ r.order < nextOrder
    /\ \A q, r \in Listed \cup cpuRequests : q.order = r.order /\ q.order # 0 => q = r

Executing == {r \in Listed : r.source = "Gpu" /\ r.state \in {"Reserved", "Recording"}}

CountInv ==
    /\ Total <= Capacity
    /\ port.opened => /\ port.pending = Total
                      /\ IsFiniteSet(Executing) /\ port.gc = Cardinality(Executing)

\* The present thread has the first request of all in hand.
FrontOf(m) ==
    /\ m \in Listed /\ m.id = present.id /\ m.order # 0
    /\ \A r \in Listed \cup cpuRequests : r # m => r.order = 0 \/ r.order > m.order

PresentInv ==
    /\ processing <=> present.pc \in {"Picked", "Presenting"}
    /\ present.pc = "Picked" => \E m \in Listed : FrontOf(m) /\ m.state = "Ready"
    /\ present.pc = "Presenting" => \E m \in Listed : FrontOf(m) /\ m.state = "Presenting"
    /\ \A r \in Listed :
          r.state = "Presenting" => present.pc = "Presenting" /\ r.id = present.id

VideoGood ==
    /\ QueueShape /\ ThreadShape /\ PlaceInv /\ HandInv /\ ApartInv
    /\ PortInv /\ OrderInv /\ CountInv /\ PresentInv

VideoIInv == ended # "Broken" /\ VideoGood

-----------------------------------------------------------------------------
\* The search for an identifier finds the request that has it.
LEMMA TheIs ==
    ASSUME NEW S, NEW r \in S, \A q \in S : q.id = r.id => q = r
    PROVE  The(S, r.id) = r
<1>1. \E q \in S : q.id = r.id
  OBVIOUS
<1>2. The(S, r.id) \in S /\ The(S, r.id).id = r.id
  BY <1>1 DEF The
<1> QED BY <1>2

LEMMA AtIs ==
    ASSUME Distinct(requests), NEW r \in Listed
    PROVE  /\ At(r.id) \in 1..Len(requests) /\ requests[At(r.id)] = r
           /\ The(Listed, r.id) = r /\ r \in Requests
<1>1. DOMAIN requests = 1..Len(requests) /\ requests \in Seq(Requests)
  BY DEF Distinct
<1>2. PICK k \in DOMAIN requests : requests[k] = r
  BY DEF Listed, ToSet
<1>3. At(r.id) \in DOMAIN requests /\ requests[At(r.id)].id = r.id
  BY <1>2 DEF At
<1>4. At(r.id) = k
  BY <1>2, <1>3 DEF Distinct
<1>5. \A q \in Listed : q.id = r.id => q = r
  BY <1>2 DEF Distinct, Listed, ToSet
<1> QED BY <1>1, <1>2, <1>4, <1>5, TheIs

\* An element of a list is replaced by one with the same identifier.
LEMMA PutFacts ==
    ASSUME NEW s, Distinct(s), NEW k \in DOMAIN s, NEW r, r = s[k],
           NEW e \in Requests, e.id = r.id, NEW t \in Seq(Requests), Len(t) = Len(s),
           \A i \in 1..Len(s) : t[i] = IF i = k THEN e ELSE s[i]
    PROVE  /\ Distinct(t) /\ Len(t) = Len(s) /\ DOMAIN t = DOMAIN s
           /\ ToSet(t) = (ToSet(s) \ {r}) \cup {e}
           /\ QueueOK(s) /\ e.order = r.order => QueueOK(t)
<1>1. s \in Seq(Requests) /\ t \in Seq(Requests) /\ Len(t) = Len(s) /\ DOMAIN t = DOMAIN s
  BY DEF Distinct
<1>2. \A i \in DOMAIN s : t[i] = IF i = k THEN e ELSE s[i]
  BY <1>1
<1>3. Distinct(t)
  BY <1>1, <1>2 DEF Distinct
<1>4. ToSet(t) = (ToSet(s) \ {r}) \cup {e}
  <2>1. ASSUME NEW x \in ToSet(t) PROVE x \in (ToSet(s) \ {r}) \cup {e}
    BY <1>1, <1>2 DEF ToSet, Distinct
  <2>2. ASSUME NEW x \in (ToSet(s) \ {r}) \cup {e} PROVE x \in ToSet(t)
    BY <1>1, <1>2 DEF ToSet
  <2> QED BY <2>1, <2>2
<1>5. ASSUME QueueOK(s), e.order = r.order PROVE QueueOK(t)
  <2>1. \A i \in DOMAIN s : t[i].order = s[i].order
    BY <1>2, <1>5
  <2> QED BY <2>1, <1>1, <1>3, <1>5 DEF QueueOK
<1> QED BY <1>1, <1>3, <1>4, <1>5

LEMMA AppendFacts ==
    ASSUME NEW s, Distinct(s), NEW e \in Requests, \A r \in ToSet(s) : r.id # e.id
    PROVE  LET t == Append(s, e)
           IN  /\ Distinct(t) /\ Len(t) = Len(s) + 1 /\ ToSet(t) = ToSet(s) \cup {e}
               /\ QueueOK(s) /\ e.order = 0 => QueueOK(t)
<1> DEFINE t == Append(s, e)
<1>1. /\ s \in Seq(Requests) /\ t \in Seq(Requests) /\ Len(t) = Len(s) + 1 /\ Len(s) \in Nat
      /\ DOMAIN s = 1..Len(s) /\ DOMAIN t = 1..(Len(s) + 1)
  BY DEF Distinct
<1>2. \A i \in 1..Len(s) : t[i] = s[i]
  BY <1>1
<1>3. t[Len(s) + 1] = e
  BY <1>1
<1> HIDE DEF t
<1>4. \A i \in 1..Len(s) : s[i].id # e.id
  BY <1>1 DEF ToSet
<1>5. Distinct(t)
  <2> SUFFICES ASSUME NEW i \in DOMAIN t, NEW j \in DOMAIN t, t[i].id = t[j].id PROVE i = j
    BY <1>1 DEF Distinct
  <2>1. CASE i = Len(s) + 1
    BY <2>1, <1>1, <1>2, <1>3, <1>4
  <2>2. CASE j = Len(s) + 1
    BY <2>2, <1>1, <1>2, <1>3, <1>4
  <2>3. CASE i \in 1..Len(s) /\ j \in 1..Len(s)
    BY <2>3, <1>1, <1>2 DEF Distinct
  <2> QED BY <2>1, <2>2, <2>3, <1>1
<1>6. ToSet(t) = ToSet(s) \cup {e}
  BY <1>1, <1>2, <1>3 DEF ToSet
<1>7. ASSUME QueueOK(s), e.order = 0 PROVE QueueOK(t)
  <2> SUFFICES ASSUME NEW i \in DOMAIN t, NEW j \in DOMAIN t, i < j, t[j].order # 0
               PROVE  t[i].order # 0 /\ t[i].order <= t[j].order
    BY <1>5 DEF QueueOK
  <2>1. j \in 1..Len(s) /\ i \in 1..Len(s)
    BY <1>1, <1>3, <1>7
  <2> QED BY <2>1, <1>1, <1>2, <1>7 DEF QueueOK
<1> QED BY <1>1, <1>5, <1>6, <1>7 DEF t

\* The stable sort returns the same requests, in order.
LEMMA SortFacts ==
    ASSUME NEW s, Distinct(s), Sort(s)
    PROVE  QueueOK(requests') /\ ToSet(requests') = ToSet(s) /\ Len(requests') = Len(s)
<1>1. PICK f \in Stable(s) : requests' = [i \in DOMAIN s |-> s[f[i]]]
  BY DEF Sort
<1>2. /\ f \in [DOMAIN s -> DOMAIN s] /\ \A k \in DOMAIN s : \E i \in DOMAIN s : f[i] = k
      /\ \A i, j \in DOMAIN s : i < j =>
              \/ Precedes(s[f[i]].order, s[f[j]].order)
              \/ ~Precedes(s[f[j]].order, s[f[i]].order) /\ f[i] < f[j]
  BY <1>1 DEF Stable
<1>3. s \in Seq(Requests) /\ DOMAIN s = 1..Len(s) /\ Len(s) \in Nat
  BY DEF Distinct
<1>4. \A k \in DOMAIN s : s[k] \in Requests /\ s[k].order \in Nat
  <2>1. \A k \in DOMAIN s : s[k] \in Requests
    BY <1>3
  <2> QED BY <2>1 DEF Requests
<1> DEFINE t == [i \in DOMAIN s |-> s[f[i]]]
<1>5. \A i \in DOMAIN s : f[i] \in DOMAIN s /\ t[i] = s[f[i]] /\ t[i] \in Requests
  BY <1>2, <1>4
<1>6. t \in Seq(Requests) /\ DOMAIN t = DOMAIN s /\ Len(t) = Len(s)
  BY <1>3, <1>5
<1> HIDE DEF t
<1>7. ASSUME NEW i \in DOMAIN s, NEW j \in DOMAIN s, f[i] = f[j] PROVE i = j
  <2> SUFFICES ASSUME NEW a \in DOMAIN s, NEW b \in DOMAIN s, f[a] = f[b] PROVE ~(a < b)
    BY <1>3, <1>7
  <2>1. f[a] \in Nat /\ s[f[a]].order \in Nat
    BY <1>3, <1>4, <1>5
  <2> QED BY <2>1, <1>2 DEF Precedes
<1>8. Distinct(t)
  BY <1>5, <1>6, <1>7 DEF Distinct
<1>9. ToSet(t) = ToSet(s)
  <2>1. ASSUME NEW x \in ToSet(t) PROVE x \in ToSet(s)
    BY <1>5, <1>6 DEF ToSet
  <2>2. ASSUME NEW k \in DOMAIN s PROVE s[k] \in ToSet(t)
    BY <1>2, <1>5, <1>6 DEF ToSet
  <2> QED BY <2>1, <2>2 DEF ToSet
<1>10. ASSUME NEW i \in DOMAIN t, NEW j \in DOMAIN t, i < j, t[j].order # 0
       PROVE  t[i].order # 0 /\ t[i].order <= t[j].order
  <2>1. /\ Precedes(t[i].order, t[j].order) \/ ~Precedes(t[j].order, t[i].order)
        /\ t[i].order \in Nat /\ t[j].order \in Nat
    BY <1>2, <1>4, <1>5, <1>6, <1>10
  <2> QED BY <2>1, <1>10 DEF Precedes
<1> QED BY <1>1, <1>6, <1>8, <1>9, <1>10 DEF t, QueueOK

LEMMA TailFacts ==
    ASSUME NEW s, QueueOK(s), s # <<>>
    PROVE  /\ QueueOK(Tail(s)) /\ Len(Tail(s)) = Len(s) - 1
           /\ ToSet(Tail(s)) = ToSet(s) \ {s[1]} /\ s[1] \in ToSet(s) /\ Len(s) > 0
<1> DEFINE t == Tail(s)
<1>1. /\ s \in Seq(Requests) /\ t \in Seq(Requests) /\ Len(t) = Len(s) - 1 /\ Len(s) \in Nat \ {0}
      /\ DOMAIN s = 1..Len(s) /\ DOMAIN t = 1..(Len(s) - 1)
  BY DEF QueueOK, Distinct
<1>2. \A i \in 1..(Len(s) - 1) : t[i] = s[i + 1]
  BY <1>1
<1> HIDE DEF t
<1>3. QueueOK(t)
  <2>0. \A i \in DOMAIN t : i + 1 \in DOMAIN s /\ t[i] = s[i + 1]
    BY <1>1, <1>2
  <2>1. ASSUME NEW i \in DOMAIN t, NEW j \in DOMAIN t, t[i].id = t[j].id PROVE i = j
    <3>1. i + 1 = j + 1
      BY <2>0, <2>1 DEF QueueOK, Distinct
    <3> QED BY <3>1, <1>1
  <2>2. ASSUME NEW i \in DOMAIN t, NEW j \in DOMAIN t, i < j, t[j].order # 0
        PROVE  t[i].order # 0 /\ t[i].order <= t[j].order
    <3>1. i + 1 < j + 1
      BY <2>2, <1>1
    <3> QED BY <2>0, <2>2, <3>1 DEF QueueOK
  <2> QED BY <2>1, <2>2, <1>1 DEF QueueOK, Distinct
<1>4. ToSet(t) = ToSet(s) \ {s[1]}
  <2>1. ASSUME NEW x \in ToSet(t) PROVE x \in ToSet(s) \ {s[1]}
    <3>1. PICK i \in 1..(Len(s) - 1) : x = s[i + 1]
      BY <1>1, <1>2 DEF ToSet
    <3> QED BY <3>1, <1>1 DEF ToSet, QueueOK, Distinct
  <2>2. ASSUME NEW x \in ToSet(s) \ {s[1]} PROVE x \in ToSet(t)
    <3>1. PICK i \in 1..Len(s) : x = s[i]
      BY <1>1 DEF ToSet
    <3>2. i - 1 \in 1..(Len(s) - 1) /\ i = (i - 1) + 1
      BY <3>1, <1>1
    <3> QED BY <3>1, <3>2, <1>1, <1>2 DEF ToSet
  <2> QED BY <2>1, <2>2
<1>5. s[1] \in ToSet(s)
  BY <1>1 DEF ToSet
<1> QED BY <1>1, <1>3, <1>4, <1>5 DEF t

LEMMA RemoveFacts ==
    ASSUME NEW s, QueueOK(s), NEW k \in 1..Len(s)
    PROVE  LET t == RemoveAt(s, k)
           IN  QueueOK(t) /\ Len(t) = Len(s) - 1 /\ ToSet(t) = ToSet(s) \ {s[k]}
<1> DEFINE t == RemoveAt(s, k)
<1>0. s \in Seq(Requests) /\ Len(s) \in Nat /\ DOMAIN s = 1..Len(s)
  BY DEF QueueOK, Distinct
<1>1. /\ t \in Seq(Requests) /\ Len(t) = Len(s) - 1
      /\ \A i \in 1..(Len(s) - 1) : t[i] = IF i < k THEN s[i] ELSE s[i + 1]
  BY <1>0, RemoveAtFacts
<1> HIDE DEF t
<1>2. DOMAIN t = 1..(Len(s) - 1)
  BY <1>1
<1>3. QueueOK(t)
  <2> DEFINE from(i) == IF i < k THEN i ELSE i + 1
  <2>0. \A i \in DOMAIN t : from(i) \in DOMAIN s /\ t[i] = s[from(i)]
    BY <1>0, <1>1, <1>2
  <2>1. ASSUME NEW i \in DOMAIN t, NEW j \in DOMAIN t, t[i].id = t[j].id PROVE i = j
    <3>1. from(i) = from(j)
      <4> HIDE DEF from
      <4> QED BY <2>0, <2>1 DEF QueueOK, Distinct
    <3> QED BY <3>1, <1>0, <1>2
  <2>2. ASSUME NEW i \in DOMAIN t, NEW j \in DOMAIN t, i < j, t[j].order # 0
        PROVE  t[i].order # 0 /\ t[i].order <= t[j].order
    <3>1. from(i) < from(j)
      BY <2>2, <1>0, <1>2
    <3> HIDE DEF from
    <3> QED BY <2>0, <2>2, <3>1 DEF QueueOK
  <2> QED BY <2>1, <2>2, <1>1 DEF QueueOK, Distinct
<1>4. ToSet(t) = ToSet(s) \ {s[k]}
  <2>1. ASSUME NEW x \in ToSet(t) PROVE x \in ToSet(s) \ {s[k]}
    <3>1. PICK i \in 1..(Len(s) - 1) : x = t[i]
      BY <1>2 DEF ToSet
    <3>2. PICK j \in 1..Len(s) : x = s[j] /\ j # k
      BY <3>1, <1>0, <1>1
    <3> QED BY <3>2, <1>0 DEF ToSet, QueueOK, Distinct
  <2>2. ASSUME NEW x \in ToSet(s) \ {s[k]} PROVE x \in ToSet(t)
    <3>1. PICK i \in 1..Len(s) : x = s[i] /\ i # k
      BY <1>0 DEF ToSet
    <3>2. \E j \in 1..(Len(s) - 1) : x = t[j]
      <4>1. CASE i < k
        BY <4>1, <3>1, <1>0, <1>1
      <4>2. CASE i > k
        <5>1. i - 1 \in 1..(Len(s) - 1) /\ ~(i - 1 < k) /\ (i - 1) + 1 = i
          BY <4>2, <3>1, <1>0
        <5> QED BY <5>1, <3>1, <1>1
      <4> QED BY <4>1, <4>2, <3>1, <1>0
    <3> QED BY <3>2, <1>2 DEF ToSet
  <2> QED BY <2>1, <2>2
<1> QED BY <1>1, <1>3, <1>4 DEF t

\* The list is finite and no shorter than its set of requests.
LEMMA ListedFinite ==
    ASSUME NEW s, Distinct(s)
    PROVE  IsFiniteSet(ToSet(s)) /\ Cardinality(ToSet(s)) <= Len(s) /\ Len(s) \in Nat
<1>1. s \in Seq(Requests) /\ DOMAIN s = 1..Len(s) /\ Len(s) \in Nat
  BY DEF Distinct
<1>2. s \in Surjection(1..Len(s), ToSet(s))
  BY <1>1 DEF Surjection, ToSet
<1>3. IsFiniteSet(1..Len(s)) /\ Cardinality(1..Len(s)) = Len(s)
  BY <1>1, FS_Interval
<1> QED BY <1>1, <1>2, <1>3, FS_Surjection

LEMMA QueueStays ==
    ASSUME VideoGood, UNCHANGED <<requests, cpuRequests, cancelled, nextId, nextOrder, lastOrder>>
    PROVE  /\ QueueShape' /\ PlaceInv' /\ OrderInv'
           /\ Listed' = Listed /\ Everywhere' = Everywhere /\ Total' = Total
           /\ Executing' = Executing
           /\ \A id, s : Waits(id, s)' = Waits(id, s)
           /\ \A id, s : Records(id, s)' = Records(id, s)
           /\ \A id, s : Recorded(id, s)' = Recorded(id, s)
           /\ \A id : Unplaced(id)' = Unplaced(id)
           /\ \A id : Placed(id)' = Placed(id)
           /\ \A i : Pending(i)' = Pending(i)
<1>1. Listed' = Listed
  BY DEF Listed
<1>2. Everywhere' = Everywhere
  BY <1>1 DEF Everywhere
<1>3. Total' = Total /\ Executing' = Executing
  BY <1>1 DEF Total, Executing
<1>4. QueueOK(requests)' = QueueOK(requests)
  BY DEF QueueOK, Distinct
<1>5. QueueShape' /\ PlaceInv' /\ OrderInv'
  BY <1>1, <1>2, <1>4 DEF VideoGood, QueueShape, PlaceInv, OrderInv
<1> QED BY <1>1, <1>2, <1>3, <1>5 DEF Waits, Records, Recorded, Unplaced, Placed, Pending

LEMMA GetStep ==
    ASSUME VideoGood, NEW g \in Guests, NEW call \in {"Rate", "Register", "Unregister", "Flip"},
           NEW arg \in Indexes, call = "Register" => arg \in Buffers, Get(g, call, arg)
    PROVE  VideoGood'
<1> DEFINE new == [IdleGuest EXCEPT !.pc = "Got", !.call = call, !.arg = arg]
<1>0. /\ guest[g].pc = "Idle" /\ DriverFree /\ port.opened
      /\ guest' = [guest EXCEPT ![g] = new]
      /\ UNCHANGED <<port, registered, queueVars, gpuVars, priority, present, lastOrder, ended>>
  BY DEF Get
<1>a. /\ new.pc = "Got" /\ new.call = call /\ new.arg = arg /\ new \in GuestStates
  BY DEF IdleGuest, GuestStates, NoId
<1> HIDE DEF new
<1>b. /\ guest \in [Guests -> GuestStates] /\ guest' \in [Guests -> GuestStates]
      /\ \A h \in Guests : guest'[h] = IF h = g THEN new ELSE guest[h]
  BY <1>0, <1>a DEF VideoGood, ThreadShape
<1>1. UNCHANGED <<requests, cpuRequests, cancelled, nextId, nextOrder, lastOrder>>
  BY <1>0 DEF queueVars
<1>2. ThreadShape'
  BY <1>0, <1>b DEF VideoGood, ThreadShape, queueVars, gpuVars
<1>3. HandInv'
  BY <1>0, <1>a, <1>b, <1>1, QueueStays DEF VideoGood, HandInv, GpuHand, Submitting, gpuVars
<1>4. ApartInv'
  BY <1>0, <1>a, <1>b DEF VideoGood, ApartInv, Submitting, gpuVars
<1>5. PortInv'
  BY <1>0, <1>a, <1>b, <1>1, QueueStays DEF VideoGood, PortInv, DriverFree, gpuVars
<1>6. CountInv'
  BY <1>0, <1>1, QueueStays DEF VideoGood, CountInv
<1>7. PresentInv'
  BY <1>0, <1>1, QueueStays DEF VideoGood, PresentInv, FrontOf, queueVars
<1> QED BY <1>1, <1>2, <1>3, <1>4, <1>5, <1>6, <1>7, QueueStays DEF VideoGood

LEMMA GuestIdle ==
    ASSUME VideoGood, NEW g \in Guests, Done(g),
           UNCHANGED <<requests, cpuRequests, cancelled, nextId, nextOrder, lastOrder, gpuVars, priority>>
    PROVE  /\ HandInv' /\ ApartInv' /\ guest' \in [Guests -> GuestStates]
           /\ \A h \in Guests : guest'[h].pc = IF h = g THEN "Idle" ELSE guest[h].pc
           /\ \A h \in Guests : guest'[h].pc # "Idle" => guest'[h] = guest[h]
<1>1. IdleGuest \in GuestStates /\ IdleGuest.pc = "Idle"
  BY DEF IdleGuest, GuestStates, NoId, Indexes
<1>2. /\ guest \in [Guests -> GuestStates] /\ guest' \in [Guests -> GuestStates]
      /\ \A h \in Guests : guest'[h] = IF h = g THEN IdleGuest ELSE guest[h]
  BY <1>1 DEF Done, VideoGood, ThreadShape
<1>3. HandInv'
  BY <1>1, <1>2, QueueStays DEF VideoGood, HandInv, GpuHand, Submitting, gpuVars
<1>4. ApartInv'
  BY <1>1, <1>2 DEF VideoGood, ApartInv, Submitting, gpuVars
<1> QED BY <1>1, <1>2, <1>3, <1>4

LEMMA SetFlipRateStep ==
    ASSUME VideoGood, NEW g \in Guests, SetFlipRate(g)
    PROVE  VideoGood'
<1>0. /\ guest[g].pc = "Got" /\ port' = [port EXCEPT !.rate = 1 - @] /\ Done(g)
      /\ UNCHANGED <<registered, queueVars, gpuVars, priority, present, lastOrder, ended>>
  BY DEF SetFlipRate, Locked
<1>1. UNCHANGED <<requests, cpuRequests, cancelled, nextId, nextOrder, lastOrder, gpuVars, priority>>
  BY <1>0 DEF queueVars
<1>a. /\ port \in Ports /\ port' \in Ports
      /\ port'.opened = port.opened /\ port'.closing = port.closing /\ port'.gen = port.gen
      /\ port'.pending = port.pending /\ port'.gc = port.gc
  <2>1. port \in Ports
    BY DEF VideoGood, ThreadShape
  <2>2. 1 - port.rate \in {0, 1}
    BY <2>1 DEF Ports
  <2> QED BY <1>0, <2>1, <2>2 DEF Ports
<1>2. ThreadShape'
  BY <1>0, <1>a, <1>1, GuestIdle DEF VideoGood, ThreadShape, gpuVars
<1>3. HandInv' /\ ApartInv'
  BY <1>0, <1>1, GuestIdle
<1>5. PortInv'
  BY <1>0, <1>a, <1>1, GuestIdle, QueueStays DEF VideoGood, PortInv, DriverFree, gpuVars
<1>6. CountInv'
  BY <1>0, <1>1, <1>a, QueueStays DEF VideoGood, CountInv
<1>7. PresentInv'
  BY <1>0, <1>1, QueueStays DEF VideoGood, PresentInv, FrontOf, queueVars
<1> QED BY <1>1, <1>2, <1>3, <1>5, <1>6, <1>7, QueueStays DEF VideoGood

LEMMA RegisterStep ==
    ASSUME VideoGood, NEW g \in Guests, RegisterBuffers(g)
    PROVE  VideoGood'
<1>0. /\ guest[g].pc = "Got" /\ guest[g].call = "Register" /\ Done(g)
      /\ registered' = IF port.closing THEN registered ELSE registered \cup {guest[g].arg}
      /\ UNCHANGED <<port, queueVars, gpuVars, priority, present, lastOrder, ended>>
  BY DEF RegisterBuffers, Locked
<1>1. UNCHANGED <<requests, cpuRequests, cancelled, nextId, nextOrder, lastOrder, gpuVars, priority>>
  BY <1>0 DEF queueVars
<1>a. registered \subseteq registered' /\ registered' \subseteq Buffers
  BY <1>0 DEF VideoGood, PortInv, ThreadShape
<1>2. ThreadShape'
  BY <1>0, <1>a, <1>1, GuestIdle DEF VideoGood, ThreadShape, gpuVars
<1>3. HandInv' /\ ApartInv'
  BY <1>0, <1>1, GuestIdle
<1>5. PortInv'
  BY <1>0, <1>a, <1>1, GuestIdle, QueueStays DEF VideoGood, PortInv, DriverFree, gpuVars
<1>6. CountInv'
  BY <1>0, <1>1, <1>a, QueueStays DEF VideoGood, CountInv
<1>7. PresentInv'
  BY <1>0, <1>1, QueueStays DEF VideoGood, PresentInv, FrontOf, queueVars
<1> QED BY <1>1, <1>2, <1>3, <1>5, <1>6, <1>7, QueueStays DEF VideoGood

LEMMA UnregisterStep ==
    ASSUME VideoGood, NEW g \in Guests, UnregisterBuffers(g)
    PROVE  VideoGood'
<1>0. /\ guest[g].pc = "Got" /\ Done(g)
      /\ registered' = IF port.closing \/ InUse(guest[g].arg) THEN registered
                       ELSE registered \ {guest[g].arg}
      /\ UNCHANGED <<port, queueVars, gpuVars, priority, present, lastOrder, ended>>
  BY DEF UnregisterBuffers, Locked
<1>1. UNCHANGED <<requests, cpuRequests, cancelled, nextId, nextOrder, lastOrder, gpuVars, priority>>
  BY <1>0 DEF queueVars
<1>a. /\ registered' \subseteq Buffers
      /\ \A r \in Listed \cup cpuRequests :
            r.index \in registered \cup {Blank} => r.index \in registered' \cup {Blank}
  BY <1>0 DEF VideoGood, ThreadShape, InUse, Pending
<1>2. ThreadShape'
  BY <1>0, <1>a, <1>1, GuestIdle DEF VideoGood, ThreadShape, gpuVars
<1>3. HandInv' /\ ApartInv'
  BY <1>0, <1>1, GuestIdle
<1>5. PortInv'
  BY <1>0, <1>a, <1>1, GuestIdle, QueueStays DEF VideoGood, PortInv, DriverFree, gpuVars, Everywhere
<1>6. CountInv'
  BY <1>0, <1>1, <1>a, QueueStays DEF VideoGood, CountInv
<1>7. PresentInv'
  BY <1>0, <1>1, QueueStays DEF VideoGood, PresentInv, FrontOf, queueVars
<1> QED BY <1>1, <1>2, <1>3, <1>5, <1>6, <1>7, QueueStays DEF VideoGood

LEMMA SubmitPreparationStep ==
    ASSUME VideoGood, NEW g \in Guests, SubmitFlipPreparation(g)
    PROVE  VideoGood'
<1>0. /\ guest[g].pc = "Submit" /\ jobs' = Append(jobs, guest[g].id) /\ Done(g)
      /\ UNCHANGED <<port, registered, queueVars, gpu, eops, priority, present, lastOrder, ended>>
  BY DEF SubmitFlipPreparation
<1>1. UNCHANGED <<requests, cpuRequests, cancelled, nextId, nextOrder, lastOrder>>
  BY <1>0 DEF queueVars
<1>a. IdleGuest \in GuestStates /\ IdleGuest.pc = "Idle"
  BY DEF IdleGuest, GuestStates, NoId, Indexes
<1>b. /\ guest \in [Guests -> GuestStates] /\ guest' \in [Guests -> GuestStates]
      /\ \A h \in Guests : guest'[h] = IF h = g THEN IdleGuest ELSE guest[h]
  BY <1>0, <1>a DEF Done, VideoGood, ThreadShape
<1>c. guest[g].id \in Nat /\ jobs \in Seq(Nat) /\ Len(jobs) \in Nat /\ DOMAIN jobs = 1..Len(jobs)
  BY <1>b DEF VideoGood, ThreadShape, GuestStates
<1>d. /\ jobs' \in Seq(Nat) /\ DOMAIN jobs' = 1..(Len(jobs) + 1)
      /\ \A k \in 1..Len(jobs) : jobs'[k] = jobs[k]
      /\ jobs'[Len(jobs) + 1] = guest[g].id
  BY <1>0, <1>c
<1>e. \A k \in DOMAIN jobs' : (k \in DOMAIN jobs /\ jobs'[k] = jobs[k]) \/ (k = Len(jobs) + 1 /\ jobs'[k] = guest[g].id)
  BY <1>c, <1>d
<1>2. ThreadShape'
  BY <1>0, <1>b, <1>d, <1>1 DEF VideoGood, ThreadShape
<1>3. HandInv'
  BY <1>0, <1>a, <1>b, <1>e, <1>1, QueueStays DEF VideoGood, HandInv, GpuHand, Submitting
<1>4. ApartInv'
  <2>1. Submitting(g)
    BY <1>0 DEF Submitting
  <2>2. \A h \in Guests : Submitting(h)' => Submitting(h) /\ h # g /\ guest'[h] = guest[h]
    BY <1>a, <1>b DEF Submitting
  <2>3. \A j, k \in DOMAIN jobs' : jobs'[j] = jobs'[k] => j = k
    BY <1>e, <2>1 DEF VideoGood, ApartInv
  <2>4. \A h \in Guests : Submitting(h)' => \A k \in DOMAIN jobs' : jobs'[k] # guest'[h].id
    BY <1>e, <2>1, <2>2 DEF VideoGood, ApartInv
  <2>5. \A k \in DOMAIN jobs' : jobs'[k] # gpu.id
    BY <1>e, <2>1 DEF VideoGood, ApartInv
  <2> QED BY <1>0, <2>2, <2>3, <2>4, <2>5 DEF VideoGood, ApartInv
<1>5. PortInv'
  BY <1>0, <1>a, <1>b, <1>1, QueueStays DEF VideoGood, PortInv, DriverFree
<1>6. CountInv'
  BY <1>0, <1>1, QueueStays DEF VideoGood, CountInv
<1>7. PresentInv'
  BY <1>0, <1>1, QueueStays DEF VideoGood, PresentInv, FrontOf, queueVars
<1> QED BY <1>1, <1>2, <1>3, <1>4, <1>5, <1>6, <1>7, QueueStays DEF VideoGood

LEMMA OpenStep ==
    ASSUME VideoGood, Open, port.rate = 0
    PROVE  VideoGood'
<1>0. /\ ~port.opened /\ DriverFree
      /\ port' = [port EXCEPT !.opened = TRUE, !.closing = FALSE, !.gen = @ + 1, !.shown = FALSE,
                            !.current = Blank, !.vblank = 0, !.pending = 0, !.gc = 0]
      /\ UNCHANGED <<registered, queueVars, guest, gpuVars, priority, present, lastOrder, ended>>
  BY DEF Open, VideoGood, PortInv
<1>1. UNCHANGED <<requests, cpuRequests, cancelled, nextId, nextOrder, lastOrder>>
  BY <1>0 DEF queueVars
<1>a. /\ port \in Ports /\ port' \in Ports /\ port.gen \in Nat
      /\ port'.opened /\ ~port'.closing /\ port'.gen = port.gen + 1
      /\ port'.pending = 0 /\ port'.gc = 0
  <2>1. port \in Ports
    BY DEF VideoGood, ThreadShape
  <2>2. 0 \in 0..Capacity /\ Blank \in Indexes /\ port.gen \in Nat /\ port.gen + 1 \in Nat
    BY <2>1, VideoOutAssumption DEF Ports, Indexes
  <2> QED BY <1>0, <2>1, <2>2 DEF Ports
<1>b. requests = <<>> /\ cpuRequests = {}
  BY <1>0 DEF VideoGood, PortInv, DriverFree
<1>c. \A r \in Everywhere : r.gen \in Nat /\ r.gen < port'.gen
  <2>1. Everywhere \subseteq Requests
    BY DEF VideoGood, QueueShape, QueueOK, Distinct, Everywhere, Listed, ToSet
  <2>2. \A r \in Everywhere : r.gen \in Nat /\ r.gen <= port.gen
    BY <2>1 DEF Requests, VideoGood, PortInv
  <2> QED BY <2>2, <1>a
<1>d. Listed = {} /\ Total = 0 /\ Executing = {} /\ IsFiniteSet(Executing) /\ Cardinality(Executing) = 0
  <2>1. Listed = {} /\ Executing = {}
    BY <1>b DEF Listed, ToSet, Executing
  <2> QED BY <2>1, <1>b, FS_EmptySet DEF Total
<1>2. ThreadShape'
  BY <1>0, <1>a, <1>1 DEF VideoGood, ThreadShape, gpuVars
<1>3. HandInv'
  BY <1>0, <1>1, QueueStays DEF VideoGood, HandInv, GpuHand, Submitting, gpuVars
<1>4. ApartInv'
  BY <1>0 DEF VideoGood, ApartInv, Submitting, gpuVars
<1>5. PortInv'
  <2>1. \A r \in Everywhere' : r.gen <= port'.gen /\ r.gen # port'.gen
    BY <1>a, <1>c, <1>1, QueueStays
  <2>2. Listed' \cup cpuRequests' = {}
    BY <1>b, <1>d, <1>1, QueueStays
  <2> QED BY <1>0, <1>1, <1>a, <2>1, <2>2 DEF VideoGood, PortInv, DriverFree, gpuVars
<1>6. CountInv'
  BY <1>0, <1>1, <1>a, <1>d, QueueStays DEF VideoGood, CountInv
<1>7. PresentInv'
  BY <1>0, <1>1, QueueStays DEF VideoGood, PresentInv, FrontOf, queueVars
<1> QED BY <1>1, <1>2, <1>3, <1>4, <1>5, <1>6, <1>7, QueueStays DEF VideoGood

LEMMA CloseStep ==
    ASSUME VideoGood, NEW g \in Guests, Close(g)
    PROVE  VideoGood'
<1>0. /\ guest[g].pc = "Idle" /\ DriverFree /\ port.opened /\ registered' = {}
      /\ port' = [port EXCEPT !.opened = FALSE, !.closing = TRUE, !.gen = @ + 1, !.rate = 0]
      /\ guest' = [guest EXCEPT ![g].pc = "Cancel"]
      /\ UNCHANGED <<queueVars, gpuVars, priority, present, lastOrder, ended>>
  BY DEF Close
<1>1. UNCHANGED <<requests, cpuRequests, cancelled, nextId, nextOrder, lastOrder>>
  BY <1>0 DEF queueVars
<1>a. /\ port \in Ports /\ port' \in Ports /\ port.gen \in Nat
      /\ ~port'.opened /\ port'.closing /\ port'.gen = port.gen + 1
  <2>1. port \in Ports
    BY DEF VideoGood, ThreadShape
  <2>2. 0 \in 0..Capacity /\ Blank \in Indexes /\ port.gen \in Nat /\ port.gen + 1 \in Nat
    BY <2>1, VideoOutAssumption DEF Ports, Indexes
  <2> QED BY <1>0, <2>1, <2>2 DEF Ports
<1>b. /\ guest \in [Guests -> GuestStates] /\ guest' \in [Guests -> GuestStates]
      /\ \A h \in Guests : h # g => guest'[h] = guest[h]
      /\ guest'[g].pc = "Cancel"
  BY <1>0 DEF VideoGood, ThreadShape, GuestStates
<1>c. \A r \in Everywhere : r.gen \in Nat /\ r.gen < port'.gen
  <2>1. Everywhere \subseteq Requests
    BY DEF VideoGood, QueueShape, QueueOK, Distinct, Everywhere, Listed, ToSet
  <2>2. \A r \in Everywhere : r.gen \in Nat /\ r.gen <= port.gen
    BY <2>1 DEF Requests, VideoGood, PortInv
  <2> QED BY <2>2, <1>a
<1>2. ThreadShape'
  BY <1>0, <1>a, <1>b, <1>1 DEF VideoGood, ThreadShape, gpuVars
<1>3. HandInv'
  BY <1>0, <1>b, <1>1, QueueStays DEF VideoGood, HandInv, GpuHand, Submitting, gpuVars
<1>4. ApartInv'
  BY <1>0, <1>b DEF VideoGood, ApartInv, Submitting, gpuVars
<1>5. PortInv'
  <2>1. \A r \in Everywhere' : r.gen <= port'.gen /\ r.gen # port'.gen
    BY <1>a, <1>c, <1>1, QueueStays
  <2>2. port'.gen # 0
    BY <1>a
  <2> QED BY <1>0, <1>1, <1>a, <1>b, <2>1, <2>2 DEF VideoGood, PortInv, DriverFree, gpuVars
<1>6. CountInv'
  BY <1>0, <1>1, <1>a, QueueStays DEF VideoGood, CountInv
<1>7. PresentInv'
  BY <1>0, <1>1, QueueStays DEF VideoGood, PresentInv, FrontOf, queueVars
<1> QED BY <1>1, <1>2, <1>3, <1>4, <1>5, <1>6, <1>7, QueueStays DEF VideoGood

LEMMA CancelEndStep ==
    ASSUME VideoGood, NEW g \in Guests, CancelEnd(g)
    PROVE  VideoGood'
<1>0. /\ guest[g].pc = "CancelEnd" /\ port' = [port EXCEPT !.pending = 0, !.gc = 0] /\ Done(g)
      /\ UNCHANGED <<registered, queueVars, gpuVars, priority, present, lastOrder, ended>>
  BY DEF CancelEnd
<1>1. UNCHANGED <<requests, cpuRequests, cancelled, nextId, nextOrder, lastOrder, gpuVars, priority>>
  BY <1>0 DEF queueVars
<1>a. /\ port \in Ports /\ port' \in Ports
      /\ port'.opened = port.opened /\ port'.closing = port.closing /\ port'.gen = port.gen
      /\ ~port.opened
  <2>1. port \in Ports
    BY DEF VideoGood, ThreadShape
  <2>2. 0 \in 0..Capacity
    BY VideoOutAssumption
  <2>3. ~port.opened
    BY <1>0 DEF VideoGood, PortInv, DriverFree
  <2> QED BY <1>0, <2>1, <2>2, <2>3 DEF Ports
<1>2. ThreadShape'
  BY <1>0, <1>a, <1>1, GuestIdle DEF VideoGood, ThreadShape, gpuVars
<1>3. HandInv' /\ ApartInv'
  BY <1>0, <1>1, GuestIdle
<1>5. PortInv'
  BY <1>0, <1>a, <1>1, GuestIdle, QueueStays DEF VideoGood, PortInv, DriverFree, gpuVars
<1>6. CountInv'
  BY <1>0, <1>1, <1>a, QueueStays DEF VideoGood, CountInv
<1>7. PresentInv'
  BY <1>0, <1>1, QueueStays DEF VideoGood, PresentInv, FrontOf, queueVars
<1> QED BY <1>1, <1>2, <1>3, <1>5, <1>6, <1>7, QueueStays DEF VideoGood

\* The GPU thread goes from one step without a request to another.
LEMMA GpuWithoutRequest ==
    ASSUME VideoGood, gpu' \in GpuStates, gpu'.id = NoId,
           gpu'.pc \in {"Idle", "Slot", "Retry", "WaitDone"},
           UNCHANGED <<port, registered, queueVars, guest, jobs, eops, priority, present, lastOrder>>
    PROVE  VideoGood'
<1>1. UNCHANGED <<requests, cpuRequests, cancelled, nextId, nextOrder, lastOrder>>
  BY DEF queueVars
<1>2. ThreadShape'
  BY <1>1 DEF VideoGood, ThreadShape
<1>3. HandInv'
  BY <1>1, QueueStays DEF VideoGood, HandInv, GpuHand, Submitting
<1>4. ApartInv'
  <2>0. \A r \in Everywhere : r.id # NoId
    BY DEF VideoGood, QueueShape, NoId
  <2>1. \A id, s : Waits(id, s) \/ Recorded(id, s) => id # NoId
    BY <2>0 DEF Waits, Recorded, Everywhere
  <2>2. (\A g \in Guests : Submitting(g) => guest[g].id # NoId) /\ \A k \in DOMAIN jobs : jobs[k] # NoId
    BY <2>1 DEF VideoGood, HandInv, GpuHand
  <2>3. \A k \in DOMAIN eops : eops[k] # NoId
    BY <2>1 DEF VideoGood, HandInv, GpuHand
  <2> QED BY <2>2, <2>3 DEF VideoGood, ApartInv, Submitting
<1>5. PortInv'
  BY <1>1, QueueStays DEF VideoGood, PortInv, DriverFree
<1>6. CountInv'
  BY <1>1, QueueStays DEF VideoGood, CountInv
<1>7. PresentInv'
  BY <1>1, QueueStays DEF VideoGood, PresentInv, FrontOf, queueVars
<1> QED BY <1>1, <1>2, <1>3, <1>4, <1>5, <1>6, <1>7, QueueStays DEF VideoGood

LEMMA WaitForSubmitSlotStep ==
    ASSUME VideoGood, WaitForSubmitSlot
    PROVE  VideoGood' /\ ended' # "Broken"
<1>1. /\ gpu \in GpuStates /\ gpu.pc = "Slot" /\ gpu.id = NoId
      /\ gpu' = [gpu EXCEPT !.pc = "Retry"] \/ gpu' = gpu
      /\ UNCHANGED <<port, registered, queueVars, guest, jobs, eops, priority, present, lastOrder>>
  BY DEF WaitForSubmitSlot, VideoGood, ThreadShape, HandInv, GpuHand
<1>2. gpu' \in GpuStates /\ gpu'.id = NoId /\ gpu'.pc \in {"Slot", "Retry"}
  BY <1>1 DEF GpuStates
<1>3. ended' # "Broken"
  BY DEF WaitForSubmitSlot, Running
<1> QED BY <1>1, <1>2, <1>3, GpuWithoutRequest

LEMMA IdleGpuType ==
    /\ IdleGpu \in GpuStates /\ IdleGpu.pc = "Idle" /\ IdleGpu.id = NoId
    /\ IdleGpu.source = "Cpu" /\ NoId = 0
BY DEF IdleGpu, GpuStates, NoId, Indexes

LEMMA WaitStep ==
    ASSUME VideoGood, (\E i \in Indexes : WaitBegin(i)) \/ WaitEnd
    PROVE  VideoGood'
<1>1. CASE WaitEnd
  BY <1>1, IdleGpuType, GpuWithoutRequest DEF WaitEnd
<1>2. ASSUME NEW i \in Indexes, WaitBegin(i) PROVE VideoGood'
  <2>1. gpu' = [IdleGpu EXCEPT !.pc = "WaitDone", !.index = i]
    BY <1>2 DEF WaitBegin
  <2>2. gpu' \in GpuStates /\ gpu'.pc = "WaitDone" /\ gpu'.id = NoId
    BY <2>1, IdleGpuType DEF GpuStates
  <2> QED BY <1>2, <2>2, GpuWithoutRequest DEF WaitBegin
<1> QED BY <1>1, <1>2

LEMMA TakeJobStep ==
    ASSUME VideoGood, TakeJob
    PROVE  VideoGood'
<1>0. /\ gpu.pc = "Idle" /\ jobs # <<>> /\ jobs' = Tail(jobs)
      /\ gpu' = [IdleGpu EXCEPT !.pc = "Prepare", !.id = Head(jobs)]
      /\ UNCHANGED <<port, registered, queueVars, guest, eops, priority, present, lastOrder, ended>>
  BY DEF TakeJob
<1>1. UNCHANGED <<requests, cpuRequests, cancelled, nextId, nextOrder, lastOrder>>
  BY <1>0 DEF queueVars
<1>a. jobs \in Seq(Nat) /\ Len(jobs) \in Nat \ {0} /\ DOMAIN jobs = 1..Len(jobs)
  BY <1>0 DEF VideoGood, ThreadShape
<1>b. /\ jobs' \in Seq(Nat) /\ DOMAIN jobs' = 1..(Len(jobs) - 1)
      /\ \A k \in 1..(Len(jobs) - 1) : jobs'[k] = jobs[k + 1]
      /\ Head(jobs) = jobs[1] /\ jobs[1] \in Nat
  BY <1>0, <1>a
<1>c. \A k \in DOMAIN jobs' : k + 1 \in DOMAIN jobs /\ k + 1 # 1 /\ jobs'[k] = jobs[k + 1]
  BY <1>a, <1>b
<1>d. gpu' \in GpuStates /\ gpu'.pc = "Prepare" /\ gpu'.id = jobs[1] /\ gpu'.source = "Cpu"
  BY <1>0, <1>b, IdleGpuType DEF GpuStates
<1>e. 1 \in DOMAIN jobs
  BY <1>a
<1>2. ThreadShape'
  BY <1>0, <1>b, <1>d, <1>1 DEF VideoGood, ThreadShape
<1>3. HandInv'
  BY <1>0, <1>c, <1>d, <1>e, <1>1, QueueStays DEF VideoGood, HandInv, GpuHand, Submitting
<1>4. ApartInv'
  <2>1. Waits(jobs[1], "Cpu") /\ \A k \in DOMAIN eops : Recorded(eops[k], "Gpu")
    BY <1>e DEF VideoGood, HandInv, GpuHand
  <2>2. \A x, s, t : Waits(x, s) => ~Recorded(x, t)
    BY DEF Waits, Recorded, Everywhere, VideoGood, QueueShape
  <2>3. \A k \in DOMAIN eops : eops[k] # jobs[1]
    BY <2>1, <2>2
  <2>4. priority # NoId => priority # jobs[1]
    BY <2>1, <2>2 DEF VideoGood, HandInv, GpuHand
  <2>5. \A j, k \in DOMAIN jobs' : jobs'[j] = jobs'[k] => j = k
    <3> SUFFICES ASSUME NEW j \in DOMAIN jobs', NEW k \in DOMAIN jobs', jobs'[j] = jobs'[k] PROVE j = k
      OBVIOUS
    <3>1. j + 1 = k + 1
      BY <1>c DEF VideoGood, ApartInv
    <3> QED BY <3>1, <1>b
  <2>6. \A k \in DOMAIN jobs' : jobs'[k] # jobs[1]
    BY <1>c, <1>e DEF VideoGood, ApartInv
  <2>7. \A g \in Guests : Submitting(g)' => Submitting(g) /\ guest'[g].id # jobs[1]
                              /\ \A k \in DOMAIN jobs' : jobs'[k] # guest'[g].id
    BY <1>0, <1>c, <1>e DEF VideoGood, ApartInv, Submitting
  <2> QED BY <1>0, <1>d, <2>3, <2>4, <2>5, <2>6, <2>7 DEF VideoGood, ApartInv, Submitting
<1>5. PortInv'
  BY <1>0, <1>d, <1>1, QueueStays DEF VideoGood, PortInv, DriverFree
<1>6. CountInv'
  BY <1>0, <1>1, QueueStays DEF VideoGood, CountInv
<1>7. PresentInv'
  BY <1>0, <1>1, QueueStays DEF VideoGood, PresentInv, FrontOf, queueVars
<1> QED BY <1>1, <1>2, <1>3, <1>4, <1>5, <1>6, <1>7, QueueStays DEF VideoGood

LEMMA PrepareLookStep ==
    ASSUME VideoGood, PrepareLook
    PROVE  VideoGood' /\ ended' = ended
<1>0. /\ gpu.pc = "Look"
      /\ UNCHANGED <<port, registered, queueVars, guest, jobs, eops, priority, present, lastOrder>>
  BY DEF PrepareLook
<1>1. UNCHANGED <<requests, cpuRequests, cancelled, nextId, nextOrder, lastOrder>>
  BY <1>0 DEF queueVars
<1>a. PICK r \in Listed \cup cancelled : r.id = gpu.id
  BY <1>0 DEF VideoGood, HandInv, GpuHand, Records
<1>b. r \in Everywhere /\ \A q \in Everywhere : q.id = r.id => q = r
  BY <1>a DEF VideoGood, QueueShape, Everywhere
<1>c. TheRequest = r
  BY <1>a, <1>b, TheIs DEF TheRequest, Everywhere
<1> DEFINE current == port.opened /\ ~port.closing /\ port.gen = r.gen
<1>d. /\ gpu' = [gpu EXCEPT !.pc = IF current THEN "Frame" ELSE "Drop"]
      /\ (current /\ r.index \notin registered \cup {Blank}) \/ ended' = ended
  BY <1>c DEF PrepareLook
<1>e. /\ gpu' \in GpuStates /\ gpu'.id = gpu.id /\ gpu'.source = gpu.source
      /\ gpu'.pc \in {"Frame", "Drop"} /\ (gpu'.pc = "Drop" => ~current)
  BY <1>d DEF VideoGood, ThreadShape, GpuStates
<1>f. (r.gen = port.gen => current) /\ (current => r.index \in registered \cup {Blank})
  BY <1>b DEF VideoGood, PortInv
<1> HIDE DEF current
<1>2. ThreadShape'
  BY <1>0, <1>e, <1>1 DEF VideoGood, ThreadShape
<1>3. HandInv'
  BY <1>0, <1>e, <1>1, QueueStays DEF VideoGood, HandInv, GpuHand, Submitting
<1>4. ApartInv'
  BY <1>0, <1>e DEF VideoGood, ApartInv, Submitting
<1>5. PortInv'
  <2>1. gpu'.pc = "Drop" => \A q \in Everywhere' : q.id = gpu'.id => q.gen # port'.gen
    BY <1>0, <1>a, <1>b, <1>e, <1>f, <1>1, QueueStays
  <2> QED BY <1>0, <1>1, <2>1, QueueStays DEF VideoGood, PortInv, DriverFree
<1>6. CountInv'
  BY <1>0, <1>1, QueueStays DEF VideoGood, CountInv
<1>7. PresentInv'
  BY <1>0, <1>1, QueueStays DEF VideoGood, PresentInv, FrontOf, queueVars
<1> QED BY <1>1, <1>2, <1>3, <1>4, <1>5, <1>6, <1>7, <1>d, <1>f, QueueStays DEF VideoGood

LEMMA VblankStep ==
    ASSUME VideoGood, Vblank
    PROVE  VideoGood'
<1>0. /\ present.pc = "Vblank" /\ present' = [present EXCEPT !.pc = "Flip"]
      /\ port' = IF port.opened THEN [port EXCEPT !.vblank = (@ + 1) % 2] ELSE port
      /\ UNCHANGED <<registered, queueVars, guest, gpuVars, priority, lastOrder, ended>>
  BY DEF Vblank
<1>1. UNCHANGED <<requests, cpuRequests, cancelled, nextId, nextOrder, lastOrder>>
  BY <1>0 DEF queueVars
<1>a. /\ port \in Ports /\ port' \in Ports
      /\ port'.opened = port.opened /\ port'.closing = port.closing /\ port'.gen = port.gen
      /\ port'.pending = port.pending /\ port'.gc = port.gc
  <2>1. port \in Ports
    BY DEF VideoGood, ThreadShape
  <2>2. (port.vblank + 1) % 2 \in {0, 1}
    BY <2>1 DEF Ports
  <2> QED BY <1>0, <2>1, <2>2 DEF Ports
<1>b. present'.pc = "Flip" /\ present' \in [pc : {"Vblank", "Flip", "Picked", "Presenting"}, id : Nat]
  BY <1>0 DEF VideoGood, ThreadShape
<1>2. ThreadShape'
  BY <1>0, <1>a, <1>b, <1>1 DEF VideoGood, ThreadShape, gpuVars
<1>3. HandInv'
  BY <1>0, <1>1, QueueStays DEF VideoGood, HandInv, GpuHand, Submitting, gpuVars
<1>4. ApartInv'
  BY <1>0 DEF VideoGood, ApartInv, Submitting, gpuVars
<1>5. PortInv'
  BY <1>0, <1>1, <1>a, QueueStays DEF VideoGood, PortInv, DriverFree, gpuVars
<1>6. CountInv'
  BY <1>0, <1>1, <1>a, QueueStays DEF VideoGood, CountInv
<1>7. PresentInv'
  BY <1>0, <1>1, <1>b, QueueStays DEF VideoGood, PresentInv, FrontOf, queueVars
<1> QED BY <1>1, <1>2, <1>3, <1>4, <1>5, <1>6, <1>7, QueueStays DEF VideoGood

\* Requests have the fields of a request.
LEMMA RequestFields ==
    ASSUME QueueShape, NEW r \in Everywhere
    PROVE  /\ r \in Requests /\ r.id \in Nat /\ r.gen \in Nat /\ r.order \in Nat
           /\ r.index \in Indexes /\ r.source \in {"Cpu", "Gpu"} /\ r.state \in States
           /\ r.frame \in BOOLEAN
<1>1. r \in Requests
  BY DEF QueueShape, QueueOK, Distinct, Everywhere, Listed, ToSet
<1> QED BY <1>1 DEF Requests

\* What MayFlip looks at is the first request of all.
LEMMA FrontFound ==
    ASSUME VideoGood, MayFlip
    PROVE  /\ requests[1] \in Listed /\ requests[1].order # 0 /\ requests[1].state = "Ready"
           /\ \A r \in Listed \cup cpuRequests :
                 r # requests[1] => r.order = 0 \/ r.order > requests[1].order
<1>0. requests # <<>> /\ requests[1].state = "Ready" /\ QueueOK(requests)
  BY DEF MayFlip, VideoGood, QueueShape
<1>1. requests[1] \in Listed /\ 1 \in DOMAIN requests
  BY <1>0, TailFacts DEF Listed, QueueOK, Distinct
<1>2. requests[1].order # 0
  BY <1>0, <1>1 DEF VideoGood, PlaceInv
<1>3. ASSUME NEW r \in Listed, r # requests[1]
      PROVE  r.order = 0 \/ r.order > requests[1].order
  <2>1. PICK k \in DOMAIN requests : r = requests[k]
    BY DEF Listed, ToSet
  <2>2. k > 1
    BY <1>0, <1>3, <2>1 DEF QueueOK, Distinct
  <2>3. r.order # 0 => requests[1].order <= r.order
    BY <1>0, <1>1, <2>1, <2>2 DEF QueueOK
  <2>4. r.order # requests[1].order \/ r.order = 0
    BY <1>1, <1>3 DEF VideoGood, OrderInv
  <2>5. r.order \in Nat /\ requests[1].order \in Nat
    BY <1>1, RequestFields DEF VideoGood, Everywhere
  <2> QED BY <2>3, <2>4, <2>5
<1>4. ASSUME NEW r \in cpuRequests, r # requests[1]
      PROVE  r.order = 0 \/ r.order > requests[1].order
  <2>1. ~Precedes(r.order, requests[1].order)
    BY DEF MayFlip
  <2>2. r.order # requests[1].order \/ r.order = 0
    BY <1>1, <1>4 DEF VideoGood, OrderInv
  <2>3. r.order \in Nat /\ requests[1].order \in Nat
    BY <1>1, RequestFields DEF VideoGood, Everywhere
  <2> QED BY <1>2, <2>1, <2>2, <2>3 DEF Precedes
<1> QED BY <1>0, <1>1, <1>2, <1>3, <1>4

\* The first request of all is at the front of the list.
LEMMA FrontIs ==
    ASSUME QueueShape, NEW m, FrontOf(m)
    PROVE  requests # <<>> /\ requests[1] = m
<1>0. QueueOK(requests)
  BY DEF QueueShape
<1>1. PICK k \in DOMAIN requests : m = requests[k]
  BY DEF FrontOf, Listed, ToSet
<1>2. requests \in Seq(Requests) /\ DOMAIN requests = 1..Len(requests) /\ 1 \in DOMAIN requests
  BY <1>0, <1>1 DEF QueueOK, Distinct
<1>3. requests[1] \in Listed /\ m.order \in Nat /\ requests[1].order \in Nat
  <2>1. requests[1] \in Listed
    BY <1>2 DEF Listed, ToSet
  <2> QED BY <2>1, RequestFields DEF FrontOf, Everywhere
<1>4. k # 1 => requests[1].order # 0 /\ requests[1].order <= m.order
  BY <1>0, <1>1, <1>2 DEF QueueOK, FrontOf
<1> QED BY <1>1, <1>2, <1>3, <1>4 DEF FrontOf

LEMMA FlipBeginStep ==
    ASSUME VideoGood, FlipBegin
    PROVE  VideoGood' /\ ended' = ended
<1>0. /\ present.pc = "Flip"
      /\ IF MayFlip
         THEN processing' = TRUE /\ present' = [pc |-> "Picked", id |-> requests[1].id]
         ELSE present' = [pc |-> "Vblank", id |-> NoId] /\ UNCHANGED processing
      /\ UNCHANGED <<port, registered, requests, cpuRequests, cancelled, nextId, nextOrder,
                     guest, gpuVars, priority, lastOrder>>
  BY DEF FlipBegin
<1>a. ~processing
  BY <1>0 DEF VideoGood, PresentInv
<1>b. ended' = ended
  BY <1>a DEF FlipBegin
<1>c. MayFlip => requests[1].id \in Nat
  BY FrontFound, RequestFields DEF VideoGood, Everywhere
<1>d. present' \in [pc : {"Vblank", "Flip", "Picked", "Presenting"}, id : Nat]
  BY <1>0, <1>c DEF NoId
<1>2. ThreadShape'
  BY <1>0, <1>d DEF VideoGood, ThreadShape, gpuVars
<1>3. HandInv'
  BY <1>0, QueueStays DEF VideoGood, HandInv, GpuHand, Submitting, gpuVars
<1>4. ApartInv'
  BY <1>0 DEF VideoGood, ApartInv, Submitting, gpuVars
<1>5. PortInv'
  BY <1>0, QueueStays DEF VideoGood, PortInv, DriverFree, gpuVars
<1>6. CountInv'
  BY <1>0, QueueStays DEF VideoGood, CountInv
<1>7. PresentInv'
  <2>1. \A r \in Listed : r.state # "Presenting"
    BY <1>0 DEF VideoGood, PresentInv
  <2>2. Listed' = Listed /\ cpuRequests' = cpuRequests
    BY <1>0, QueueStays
  <2>3. CASE MayFlip
    <3>1. present'.pc = "Picked" /\ present'.id = requests[1].id /\ processing' = TRUE
      BY <1>0, <2>3
    <3>2. FrontOf(requests[1])'
      BY <2>2, <2>3, <3>1, <1>0, FrontFound DEF FrontOf
    <3>3. requests'[1] \in Listed' /\ requests'[1].state = "Ready"
      BY <2>2, <2>3, <1>0, FrontFound
    <3> QED BY <2>1, <2>2, <3>1, <3>2, <3>3 DEF PresentInv
  <2>4. CASE ~MayFlip
    <3>1. present'.pc = "Vblank" /\ processing' = processing
      BY <1>0, <2>4
    <3> QED BY <2>1, <2>2, <3>1, <1>a DEF PresentInv
  <2> QED BY <2>3, <2>4
<1> QED BY <1>0, <1>2, <1>3, <1>4, <1>5, <1>6, <1>7, <1>b, QueueStays DEF VideoGood

\* A step about the request id leaves the others where and what they are.
OnlyAbout(id) ==
    \A q : q.id # id => /\ q \in Listed' <=> q \in Listed
                        /\ q \in cpuRequests' <=> q \in cpuRequests
                        /\ q \in cancelled' <=> q \in cancelled

LEMMA OthersKept ==
    ASSUME NEW id, OnlyAbout(id), NEW x, x # id
    PROVE  /\ \A s : Waits(x, s) => Waits(x, s)'
           /\ \A s : Records(x, s) => Records(x, s)'
           /\ \A s : Recorded(x, s) => Recorded(x, s)'
           /\ Unplaced(x) => Unplaced(x)'
           /\ Placed(x) => Placed(x)'
<1>1. \A q : q.id = x => /\ q \in Listed' <=> q \in Listed
                         /\ q \in cpuRequests' <=> q \in cpuRequests
                         /\ q \in cancelled' <=> q \in cancelled
                         /\ q \in Everywhere' <=> q \in Everywhere
  BY DEF OnlyAbout, Everywhere
<1>2. \A s : Waits(x, s) => Waits(x, s)'
  BY <1>1 DEF Waits
<1>3. \A s : Records(x, s) => Records(x, s)'
  BY <1>1 DEF Records
<1>4. \A s : Recorded(x, s) => Recorded(x, s)'
  BY <1>1 DEF Recorded
<1>5. (Unplaced(x) => Unplaced(x)') /\ (Placed(x) => Placed(x)')
  BY <1>1 DEF Unplaced, Placed
<1> QED BY <1>2, <1>3, <1>4, <1>5

\* The numbers the threads have in hand are of requests there are.
LEMMA HandsOld ==
    ASSUME VideoGood
    PROVE  /\ \A g \in Guests : Submitting(g) => guest[g].id # nextId
           /\ \A k \in DOMAIN jobs : jobs[k] # nextId
           /\ \A k \in DOMAIN eops : eops[k] # nextId
           /\ gpu.id # nextId /\ priority # nextId /\ nextId # NoId
<1>1. \A r \in Everywhere : r.id # nextId
  BY RequestFields DEF VideoGood, QueueShape
<1>2. \A x, s : Waits(x, s) \/ Records(x, s) \/ Recorded(x, s) => x # nextId
  BY <1>1 DEF Waits, Records, Recorded, Everywhere
<1>3. nextId # NoId
  BY DEF VideoGood, QueueShape, NoId
<1>4. gpu.id # nextId
  BY <1>2, <1>3 DEF VideoGood, HandInv, GpuHand, ThreadShape, GpuStates
<1> QED BY <1>2, <1>3, <1>4 DEF VideoGood, HandInv, GpuHand

\* A request that is ready or on the screen is in nobody's hands.
LEMMA HandsNotReady ==
    ASSUME VideoGood, NEW m \in Listed, m.state \in {"Ready", "Presenting"}
    PROVE  /\ \A g \in Guests : Submitting(g) => guest[g].id # m.id
           /\ \A k \in DOMAIN jobs : jobs[k] # m.id
           /\ \A k \in DOMAIN eops : eops[k] # m.id
           /\ gpu.id # m.id /\ priority # m.id
<1>1. \A r \in Everywhere : r.id = m.id => r.state \notin {"Reserved", "Recording"}
  BY DEF VideoGood, QueueShape, Everywhere
<1>2. \A x, s : Waits(x, s) \/ Records(x, s) \/ Recorded(x, s) => x # m.id
  BY <1>1 DEF Waits, Records, Recorded, Everywhere
<1>3. m.id # NoId
  BY DEF VideoGood, QueueShape, NoId, Everywhere
<1>4. gpu.id # m.id
  BY <1>2, <1>3 DEF VideoGood, HandInv, GpuHand, ThreadShape, GpuStates
<1> QED BY <1>2, <1>3, <1>4 DEF VideoGood, HandInv, GpuHand

\* What the others have in hand stays during a step about another request.
LEMMA HandsKept ==
    ASSUME VideoGood, NEW id, OnlyAbout(id), UNCHANGED <<guest, gpu, jobs, eops, priority>>,
           \A g \in Guests : Submitting(g) => guest[g].id # id,
           \A k \in DOMAIN jobs : jobs[k] # id, \A k \in DOMAIN eops : eops[k] # id,
           gpu.id # id, priority # id
    PROVE  HandInv' /\ ApartInv'
<1>1. ApartInv'
  BY DEF VideoGood, ApartInv, Submitting
<1>2. (\A g \in Guests : Submitting(g) => Waits(guest[g].id, "Cpu"))'
  BY OthersKept DEF VideoGood, HandInv, GpuHand, Submitting
<1>3. (\A k \in DOMAIN jobs : Waits(jobs[k], "Cpu"))'
  BY OthersKept DEF VideoGood, HandInv, GpuHand
<1>4. (\A k \in DOMAIN eops : Recorded(eops[k], "Gpu") /\ Unplaced(eops[k]))'
  BY OthersKept DEF VideoGood, HandInv, GpuHand
<1>5. (priority # NoId => Recorded(priority, "Gpu") /\ Placed(priority))'
  BY OthersKept DEF VideoGood, HandInv, GpuHand
<1>6. GpuHand'
  BY OthersKept DEF VideoGood, HandInv, GpuHand
<1> QED BY <1>1, <1>2, <1>3, <1>4, <1>5, <1>6 DEF HandInv

\* The same for a step of the GPU thread about its own request, which it
\* keeps or has done with.
LEMMA GpuHands ==
    ASSUME VideoGood, OnlyAbout(gpu.id), UNCHANGED <<guest, jobs, eops, priority>>,
           gpu.pc \in {"Prepare", "Look", "Frame", "Drop", "Complete", "Completing"},
           (gpu'.id = gpu.id /\ gpu'.source = gpu.source) \/ gpu' = IdleGpu,
           gpu'.pc # "Idle" => gpu'.id = gpu.id,
           gpu'.pc \in {"Look", "Complete", "Completing", "Idle"},
           gpu'.pc = "Look" => Records(gpu.id, gpu.source)',
           gpu'.pc \in {"Complete", "Completing"} => gpu.source = "Cpu" /\ Recorded(gpu.id, "Cpu")',
           gpu'.pc = "Idle" => gpu'.id = NoId
    PROVE  HandInv' /\ ApartInv'
<1>0. /\ \A g \in Guests : Submitting(g) => guest[g].id # gpu.id
      /\ \A k \in DOMAIN jobs : jobs[k] # gpu.id
      /\ \A k \in DOMAIN eops : eops[k] # gpu.id
      /\ priority # NoId => priority # gpu.id
  BY DEF VideoGood, ApartInv
<1>a. /\ \A g \in Guests : Submitting(g) => guest[g].id # NoId
      /\ \A k \in DOMAIN jobs : jobs[k] # NoId
      /\ \A k \in DOMAIN eops : eops[k] # NoId
  <2>1. \A r \in Everywhere : r.id # NoId
    BY DEF VideoGood, QueueShape, NoId
  <2>2. \A x, s : Waits(x, s) \/ Recorded(x, s) => x # NoId
    BY <2>1 DEF Waits, Recorded, Everywhere
  <2> QED BY <2>2 DEF VideoGood, HandInv, GpuHand
<1>1. ApartInv'
  <2>1. gpu'.id = gpu.id \/ gpu'.id = NoId
    BY IdleGpuType
  <2> QED BY <1>0, <1>a, <2>1 DEF VideoGood, ApartInv, Submitting
<1>2. (\A g \in Guests : Submitting(g) => Waits(guest[g].id, "Cpu"))'
  BY <1>0, OthersKept DEF VideoGood, HandInv, GpuHand, Submitting
<1>3. (\A k \in DOMAIN jobs : Waits(jobs[k], "Cpu"))'
  BY <1>0, OthersKept DEF VideoGood, HandInv, GpuHand
<1>4. (\A k \in DOMAIN eops : Recorded(eops[k], "Gpu") /\ Unplaced(eops[k]))'
  BY <1>0, OthersKept DEF VideoGood, HandInv, GpuHand
<1>5. (priority # NoId => Recorded(priority, "Gpu") /\ Placed(priority))'
  BY <1>0, OthersKept DEF VideoGood, HandInv, GpuHand
<1>6. GpuHand'
  BY IdleGpuType DEF GpuHand
<1> QED BY <1>1, <1>2, <1>3, <1>4, <1>5, <1>6 DEF HandInv

\* What a new request is.
LEMMA NewRequest ==
    ASSUME VideoGood, NEW i \in Indexes, NEW source \in {"Cpu", "Gpu"}
    PROVE  LET new == [id |-> nextId, gen |-> port.gen, index |-> i, source |-> source,
                       order |-> IF source = "Cpu" THEN nextOrder ELSE 0,
                       state |-> "Reserved", frame |-> FALSE]
           IN  /\ new \in Requests /\ new.id = nextId /\ new.gen = port.gen /\ new.index = i
               /\ new.source = source /\ new.state = "Reserved" /\ new.frame = FALSE
               /\ new.order = IF source = "Cpu" THEN nextOrder ELSE 0
               /\ \A r \in Everywhere : r.id # nextId /\ r # new
<1> DEFINE new == [id |-> nextId, gen |-> port.gen, index |-> i, source |-> source,
                   order |-> IF source = "Cpu" THEN nextOrder ELSE 0,
                   state |-> "Reserved", frame |-> FALSE]
<1>1. nextId \in Nat /\ port.gen \in Nat /\ nextOrder \in Nat /\ "Reserved" \in States
  BY DEF VideoGood, QueueShape, ThreadShape, Ports, States
<1>2. new \in Requests
  BY <1>1 DEF Requests
<1>3. \A r \in Everywhere : r.id # nextId
  BY RequestFields DEF VideoGood, QueueShape
<1>4. \A r \in Everywhere : r # new
  BY <1>3
<1> QED BY <1>2, <1>3, <1>4

LEMMA SubmitFlipStep ==
    ASSUME VideoGood, NEW g \in Guests, SubmitFlip(g)
    PROVE  VideoGood'
<1>0. /\ guest[g].pc = "Got"
      /\ UNCHANGED <<registered, gpuVars, priority, present, lastOrder, ended>>
  BY DEF SubmitFlip, Locked
<1>g. guest \in [Guests -> GuestStates] /\ guest[g].arg \in Indexes /\ nextId \in Nat
  BY DEF VideoGood, ThreadShape, GuestStates, QueueShape
<1>1. CASE Done(g) /\ UNCHANGED <<port, queueVars>>
  <2>1. UNCHANGED <<requests, cpuRequests, cancelled, nextId, nextOrder, lastOrder, gpuVars, priority>>
    BY <1>0, <1>1 DEF queueVars
  <2>2. ThreadShape'
    BY <1>0, <1>1, <2>1, GuestIdle DEF VideoGood, ThreadShape, gpuVars
  <2>3. HandInv' /\ ApartInv'
    BY <1>0, <1>1, <2>1, GuestIdle
  <2>5. PortInv'
    BY <1>0, <1>1, <2>1, GuestIdle, QueueStays DEF VideoGood, PortInv, DriverFree, gpuVars
  <2>6. CountInv'
    BY <1>0, <1>1, <2>1, QueueStays DEF VideoGood, CountInv
  <2>7. PresentInv'
    BY <1>0, <1>1, <2>1, QueueStays DEF VideoGood, PresentInv, FrontOf, queueVars
  <2> QED BY <2>1, <2>2, <2>3, <2>5, <2>6, <2>7, QueueStays DEF VideoGood
<1>2. CASE /\ ~port.closing /\ guest[g].arg \in registered \cup {Blank} /\ ~(Total >= Capacity)
           /\ Reserve(guest[g].arg, "Cpu")
           /\ guest' = [guest EXCEPT ![g].pc = "Submit", ![g].id = nextId]
  <2> DEFINE new == [id |-> nextId, gen |-> port.gen, index |-> guest[g].arg, source |-> "Cpu",
                     order |-> IF "Cpu" = "Cpu" THEN nextOrder ELSE 0,
                     state |-> "Reserved", frame |-> FALSE]
  <2>0. /\ requests' = requests /\ cpuRequests' = cpuRequests \cup {new} /\ nextId' = nextId + 1
        /\ nextOrder' = nextOrder + 1 /\ UNCHANGED <<cancelled, processing>>
        /\ port' = [port EXCEPT !.pending = Total + 1, !.gc = @]
    BY <1>2 DEF Reserve
  <2>1. /\ new \in Requests /\ new.id = nextId /\ new.gen = port.gen /\ new.index = guest[g].arg
        /\ new.source = "Cpu" /\ new.state = "Reserved" /\ new.frame = FALSE
        /\ new.order = nextOrder
        /\ \A r \in Everywhere : r.id # nextId /\ r # new
    BY <1>g, NewRequest
  <2> HIDE DEF new
  <2>2. Listed' = Listed /\ Everywhere' = Everywhere \cup {new} /\ Executing' = Executing
    BY <2>0 DEF Listed, Everywhere, Executing
  <2>3. /\ Total' = Total + 1 /\ Total \in Nat /\ Total + 1 \in 0..Capacity
        /\ IsFiniteSet(cpuRequests')
    <3>1. IsFiniteSet(cpuRequests) /\ new \notin cpuRequests /\ Len(requests) \in Nat
      BY <2>1 DEF VideoGood, QueueShape, QueueOK, Distinct, Everywhere
    <3>2. /\ IsFiniteSet(cpuRequests') /\ Cardinality(cpuRequests') = Cardinality(cpuRequests) + 1
          /\ Cardinality(cpuRequests) \in Nat
      BY <2>0, <3>1, FS_AddElement, FS_CardinalityType
    <3> QED BY <1>2, <2>0, <3>1, <3>2, VideoOutAssumption DEF Total
  <2>4. /\ guest' \in [Guests -> GuestStates] /\ guest'[g].pc = "Submit" /\ guest'[g].id = nextId
        /\ \A h \in Guests : h # g => guest'[h] = guest[h]
    BY <1>2, <1>g DEF GuestStates
  <2>5. /\ port \in Ports /\ port' \in Ports
        /\ port'.opened = port.opened /\ port'.closing = port.closing /\ port'.gen = port.gen
        /\ port'.pending = Total + 1 /\ port'.gc = port.gc
    <3>1. port \in Ports
      BY DEF VideoGood, ThreadShape
    <3> QED BY <2>0, <2>3, <3>1 DEF Ports
  <2>6. port.opened
    BY <1>0, <1>2 DEF VideoGood, PortInv
  <2>7. nextOrder \in Nat /\ nextOrder # 0 /\ nextOrder > lastOrder
    BY DEF VideoGood, OrderInv, ThreadShape
  <2>8. OnlyAbout(nextId)
    BY <2>0, <2>1, <2>2 DEF OnlyAbout
  <2>11. QueueShape'
    <3>1. QueueOK(requests)'
      BY <2>0 DEF VideoGood, QueueShape, QueueOK, Distinct
    <3>2. \A r \in Everywhere' : 0 < r.id /\ r.id < nextId'
      BY <2>0, <2>1, <2>2, RequestFields DEF VideoGood, QueueShape
    <3>3. \A q, r \in Everywhere' : q.id = r.id => q = r
      BY <2>1, <2>2 DEF VideoGood, QueueShape
    <3>4. Listed' \cap cpuRequests' = {} /\ cancelled' \cap (Listed' \cup cpuRequests') = {}
      BY <2>0, <2>1, <2>2 DEF VideoGood, QueueShape, Everywhere
    <3>5. cpuRequests' \subseteq Requests /\ cancelled' \subseteq Requests /\ nextId' \in Nat \ {0}
      BY <2>0, <2>1 DEF VideoGood, QueueShape
    <3> QED BY <2>3, <3>1, <3>2, <3>3, <3>4, <3>5 DEF QueueShape
  <2>12. ThreadShape'
    BY <1>0, <2>0, <2>4, <2>5, <2>7 DEF VideoGood, ThreadShape, gpuVars
  <2>13. PlaceInv'
    BY <2>0, <2>1, <2>2, <2>7 DEF VideoGood, PlaceInv
  <2>14. HandInv'
    <3>1. \A x : x = nextId => Waits(x, "Cpu")'
      BY <2>1, <2>2 DEF Waits
    <3>2. \A x, s : x # nextId => (Waits(x, s) => Waits(x, s)') /\ (Records(x, s) => Records(x, s)')
                                  /\ (Recorded(x, s) => Recorded(x, s)')
                                  /\ (Unplaced(x) => Unplaced(x)') /\ (Placed(x) => Placed(x)')
      BY <2>8, OthersKept
    <3>3. (\A h \in Guests : Submitting(h) => Waits(guest[h].id, "Cpu"))'
      BY <2>4, <3>1, <3>2, HandsOld DEF VideoGood, HandInv, Submitting
    <3>4. GpuHand'
      BY <1>0, <3>2, HandsOld DEF VideoGood, HandInv, GpuHand, gpuVars
    <3> QED BY <1>0, <3>2, <3>3, <3>4, HandsOld DEF VideoGood, HandInv, gpuVars
  <2>15. ApartInv'
    BY <1>0, <2>4, HandsOld DEF VideoGood, ApartInv, Submitting, gpuVars
  <2>16. PortInv'
    <3>1. \A r \in Everywhere' : r.gen <= port'.gen
      BY <2>1, <2>2, <2>5 DEF VideoGood, PortInv, Ports
    <3>2. \A r \in Everywhere' : r.gen = port'.gen =>
            port'.opened /\ r \notin cancelled' /\ r.index \in registered' \cup {Blank}
      BY <1>0, <1>2, <2>0, <2>1, <2>2, <2>5, <2>6 DEF VideoGood, PortInv, Everywhere
    <3>3. \A r \in Listed' \cup cpuRequests' : r.gen = port'.gen
      BY <2>0, <2>1, <2>2, <2>5, <2>6 DEF VideoGood, PortInv
    <3>4. gpu'.pc = "Drop" => \A r \in Everywhere' : r.id = gpu'.id => r.gen # port'.gen
      BY <1>0, <2>1, <2>2, <2>5, HandsOld DEF VideoGood, PortInv, gpuVars
    <3> QED BY <1>0, <2>5, <2>4, <2>6, <3>1, <3>2, <3>3, <3>4 DEF VideoGood, PortInv, DriverFree
  <2>17. OrderInv'
    <3>1. \A r \in Listed \cup cpuRequests : r.order \in Nat
      BY RequestFields DEF VideoGood, Everywhere
    <3>2. \A r \in Listed' \cup cpuRequests' :
            r.order # 0 => lastOrder' < r.order /\ r.order < nextOrder'
      BY <1>0, <2>0, <2>1, <2>2, <2>7, <3>1 DEF VideoGood, OrderInv, ThreadShape
    <3>3. \A r \in Listed \cup cpuRequests : r.order # nextOrder \/ r.order = 0
      BY <3>1, <2>7 DEF VideoGood, OrderInv
    <3>4. \A q, r \in Listed' \cup cpuRequests' : q.order = r.order /\ q.order # 0 => q = r
      BY <2>0, <2>1, <2>2, <3>3 DEF VideoGood, OrderInv
    <3>5. lastOrder' < nextOrder'
      BY <1>0, <2>0, <2>7 DEF VideoGood, ThreadShape
    <3> QED BY <3>2, <3>4, <3>5 DEF OrderInv
  <2>18. CountInv'
    BY <2>2, <2>3, <2>5 DEF VideoGood, CountInv
  <2>19. PresentInv'
    <3>1. ASSUME NEW m \in Listed, FrontOf(m) PROVE FrontOf(m)'
      <4>1. m.order < new.order
        BY <2>1, <3>1 DEF VideoGood, OrderInv, FrontOf
      <4> QED BY <1>0, <2>0, <2>2, <3>1, <4>1 DEF FrontOf
    <3> QED BY <1>0, <2>0, <2>2, <3>1 DEF VideoGood, PresentInv
  <2> QED BY <2>11, <2>12, <2>13, <2>14, <2>15, <2>16, <2>17, <2>18, <2>19 DEF VideoGood
<1> QED BY <1>1, <1>2 DEF SubmitFlip

LEMMA GpuFlipStep ==
    ASSUME VideoGood, NEW i \in Indexes, GpuFlip(i)
    PROVE  VideoGood'
<1>0. /\ gpu.pc \in {"Idle", "Retry"}
      /\ UNCHANGED <<registered, guest, jobs, eops, priority, present, lastOrder, ended>>
  BY DEF GpuFlip
<1>1. CASE gpu' = [IdleGpu EXCEPT !.pc = "Slot", !.index = i] /\ UNCHANGED <<port, queueVars>>
  <2>1. gpu' \in GpuStates /\ gpu'.pc = "Slot" /\ gpu'.id = NoId
    BY <1>1, IdleGpuType DEF GpuStates
  <2> QED BY <1>0, <1>1, <2>1, GpuWithoutRequest
<1>2. CASE /\ ~(Total >= Capacity) /\ Reserve(i, "Gpu")
           /\ gpu' = [IdleGpu EXCEPT !.pc = "Prepare", !.id = nextId, !.source = "Gpu"]
  <2>o. port.opened /\ i \in registered \cup {Blank} /\ nextId \in Nat
    BY DEF GpuFlip, VideoGood, QueueShape
  <2> DEFINE new == [id |-> nextId, gen |-> port.gen, index |-> i, source |-> "Gpu",
                     order |-> IF "Gpu" = "Cpu" THEN nextOrder ELSE 0,
                     state |-> "Reserved", frame |-> FALSE]
  <2>0. /\ requests' = Append(requests, new) /\ cpuRequests' = cpuRequests /\ nextId' = nextId + 1
        /\ nextOrder' = nextOrder /\ UNCHANGED <<cancelled, processing>>
        /\ port' = [port EXCEPT !.pending = Total + 1, !.gc = @ + 1]
    BY <1>2 DEF Reserve
  <2>1. /\ new \in Requests /\ new.id = nextId /\ new.gen = port.gen /\ new.index = i
        /\ new.source = "Gpu" /\ new.state = "Reserved" /\ new.frame = FALSE
        /\ new.order = 0
        /\ \A r \in Everywhere : r.id # nextId /\ r # new
    BY NewRequest
  <2> HIDE DEF new
  <2>a. /\ QueueOK(requests') /\ Len(requests') = Len(requests) + 1
        /\ Listed' = Listed \cup {new} /\ Distinct(requests')
    <3>1. QueueOK(requests) /\ Distinct(requests) /\ \A r \in ToSet(requests) : r.id # new.id
      BY <2>1 DEF VideoGood, QueueShape, QueueOK, Everywhere, Listed
    <3> QED BY <2>0, <2>1, <3>1, AppendFacts DEF Listed
  <2>2. Everywhere' = Everywhere \cup {new} /\ Executing' = Executing \cup {new}
    BY <2>0, <2>1, <2>a DEF Everywhere, Executing
  <2>3. Total' = Total + 1 /\ Total \in Nat /\ Total + 1 \in 0..Capacity
    <3>1. IsFiniteSet(cpuRequests) /\ Len(requests) \in Nat
      BY DEF VideoGood, QueueShape, QueueOK, Distinct
    <3>2. Cardinality(cpuRequests) \in Nat
      BY <3>1, FS_CardinalityType
    <3> QED BY <1>2, <2>0, <2>a, <3>1, <3>2, VideoOutAssumption DEF Total
  <2>4. /\ gpu' \in GpuStates /\ gpu'.pc = "Prepare" /\ gpu'.id = nextId /\ gpu'.source = "Gpu"
    BY <1>2, <2>o, IdleGpuType DEF GpuStates
  <2>b. /\ IsFiniteSet(Executing') /\ Cardinality(Executing') = port.gc + 1
        /\ port.gc + 1 \in 0..Capacity
    <3>1. IsFiniteSet(Executing) /\ port.gc = Cardinality(Executing) /\ new \notin Executing
      BY <2>o, <2>1 DEF VideoGood, CountInv, Everywhere, Executing
    <3>2. IsFiniteSet(Executing') /\ Cardinality(Executing') = port.gc + 1
      BY <2>2, <3>1, FS_AddElement
    <3>3. /\ IsFiniteSet(Listed') /\ Cardinality(Listed') <= Len(requests') /\ Len(requests') \in Nat
      BY <2>a, ListedFinite DEF Listed
    <3>4. Executing' \in SUBSET Listed'
      BY DEF Executing
    <3>5. Cardinality(Executing') <= Cardinality(Listed') /\ Cardinality(Listed') \in Nat
          /\ Cardinality(Executing') \in Nat
      BY <3>2, <3>3, <3>4, FS_Subset, FS_CardinalityType
    <3>6. Len(requests') <= Total' /\ Total' \in 0..Capacity
      <4>1. IsFiniteSet(cpuRequests) /\ Cardinality(cpuRequests) \in Nat
        BY FS_CardinalityType DEF VideoGood, QueueShape
      <4> QED BY <2>0, <2>3, <3>3, <4>1 DEF Total
    <3> QED BY <3>2, <3>3, <3>5, <3>6, VideoOutAssumption
  <2>5. /\ port \in Ports /\ port' \in Ports
        /\ port'.opened = port.opened /\ port'.closing = port.closing /\ port'.gen = port.gen
        /\ port'.pending = Total + 1 /\ port'.gc = port.gc + 1
    <3>1. port \in Ports
      BY DEF VideoGood, ThreadShape
    <3> QED BY <2>0, <2>3, <2>b, <3>1 DEF Ports
  <2>8. OnlyAbout(nextId)
    BY <2>0, <2>1, <2>a DEF OnlyAbout
  <2>11. QueueShape'
    <3>2. \A r \in Everywhere' : 0 < r.id /\ r.id < nextId'
      BY <2>0, <2>1, <2>2, RequestFields DEF VideoGood, QueueShape
    <3>3. \A q, r \in Everywhere' : q.id = r.id => q = r
      BY <2>1, <2>2 DEF VideoGood, QueueShape
    <3>4. Listed' \cap cpuRequests' = {} /\ cancelled' \cap (Listed' \cup cpuRequests') = {}
      BY <2>0, <2>1, <2>a DEF VideoGood, QueueShape, Everywhere
    <3>5. /\ cpuRequests' \subseteq Requests /\ cancelled' \subseteq Requests /\ nextId' \in Nat \ {0}
          /\ IsFiniteSet(cpuRequests')
      BY <2>0, <2>1 DEF VideoGood, QueueShape
    <3> QED BY <2>a, <3>2, <3>3, <3>4, <3>5 DEF QueueShape
  <2>12. ThreadShape'
    BY <1>0, <2>0, <2>4, <2>5 DEF VideoGood, ThreadShape
  <2>13. PlaceInv'
    BY <2>0, <2>1, <2>a DEF VideoGood, PlaceInv
  <2>14. HandInv'
    <3>1. \A x : x = nextId => Waits(x, "Gpu")'
      BY <2>1, <2>2 DEF Waits
    <3>2. \A x, s : x # nextId => (Waits(x, s) => Waits(x, s)') /\ (Records(x, s) => Records(x, s)')
                                  /\ (Recorded(x, s) => Recorded(x, s)')
                                  /\ (Unplaced(x) => Unplaced(x)') /\ (Placed(x) => Placed(x)')
      BY <2>8, OthersKept
    <3>4. GpuHand'
      BY <2>4, <3>1 DEF GpuHand
    <3> QED BY <1>0, <3>2, <3>4, HandsOld DEF VideoGood, HandInv, Submitting
  <2>15. ApartInv'
    BY <1>0, <2>4, HandsOld DEF VideoGood, ApartInv, Submitting
  <2>16. PortInv'
    <3>1. \A r \in Everywhere' : r.gen <= port'.gen
      BY <2>1, <2>2, <2>5 DEF VideoGood, PortInv, Ports
    <3>2. \A r \in Everywhere' : r.gen = port'.gen =>
            port'.opened /\ r \notin cancelled' /\ r.index \in registered' \cup {Blank}
      BY <1>0, <2>0, <2>1, <2>2, <2>5, <2>o DEF VideoGood, PortInv, Everywhere
    <3>3. \A r \in Listed' \cup cpuRequests' : r.gen = port'.gen
      BY <2>0, <2>1, <2>a, <2>5, <2>o DEF VideoGood, PortInv
    <3> QED BY <1>0, <2>5, <2>4, <2>o, <3>1, <3>2, <3>3 DEF VideoGood, PortInv, DriverFree
  <2>17. OrderInv'
    BY <1>0, <2>0, <2>1, <2>a DEF VideoGood, OrderInv
  <2>18. CountInv'
    BY <2>b, <2>3, <2>5 DEF VideoGood, CountInv
  <2>19. PresentInv'
    <3>1. ASSUME NEW m \in Listed, FrontOf(m) PROVE FrontOf(m)'
      BY <1>0, <2>0, <2>1, <2>a, <3>1 DEF FrontOf
    <3> QED BY <1>0, <2>0, <2>1, <2>a, <3>1 DEF VideoGood, PresentInv
  <2> QED BY <2>11, <2>12, <2>13, <2>14, <2>15, <2>16, <2>17, <2>18, <2>19 DEF VideoGood
<1> QED BY <1>1, <1>2 DEF GpuFlip

LEMMA CancelStep ==
    ASSUME VideoGood, NEW g \in Guests, Cancel(g)
    PROVE  VideoGood' /\ ended' = ended
<1>0. /\ guest[g].pc = "Cancel" /\ ~(processing /\ requests # <<>>)
      /\ cancelled' = cancelled \cup Kept(Listed \cup cpuRequests)
      /\ requests' = <<>> /\ cpuRequests' = {}
      /\ guest' = [guest EXCEPT ![g].pc = "CancelEnd"]
      /\ UNCHANGED <<port, registered, processing, nextId, nextOrder, gpuVars, priority,
                     present, lastOrder>>
  BY DEF Cancel
<1>1. ~processing /\ present.pc \notin {"Picked", "Presenting"}
  <2>1. processing => requests # <<>>
    BY FrontIs DEF VideoGood, PresentInv
  <2> QED BY <1>0, <2>1 DEF VideoGood, PresentInv
<1>2. \A r \in Listed : r.state # "Presenting"
  BY <1>1 DEF VideoGood, PresentInv
<1>3. ended' = ended
  BY <1>2 DEF Cancel
<1>4. /\ guest' \in [Guests -> GuestStates] /\ guest'[g].pc = "CancelEnd"
      /\ \A h \in Guests : h # g => guest'[h] = guest[h]
  BY <1>0 DEF VideoGood, ThreadShape, GuestStates
<1>5. /\ Listed' = {} /\ Everywhere' = cancelled' /\ cancelled' \subseteq Everywhere
      /\ cancelled \subseteq cancelled'
      /\ \A r \in Everywhere : r.state \in {"Reserved", "Recording"} => r \in cancelled'
  BY <1>0 DEF Listed, ToSet, Everywhere, Kept
<1>6. ~port.opened /\ \A h \in Guests : guest'[h].pc # "Cancel"
  BY <1>0, <1>4 DEF VideoGood, PortInv, DriverFree
<1>11. QueueShape'
  <2>1. QueueOK(requests')
    BY <1>0 DEF QueueOK, Distinct
  <2>2. cancelled' \subseteq Requests
    BY <1>5, RequestFields DEF VideoGood
  <2> QED BY <1>0, <1>5, <2>1, <2>2, FS_EmptySet DEF VideoGood, QueueShape
<1>12. ThreadShape'
  BY <1>0, <1>4 DEF VideoGood, ThreadShape, gpuVars
<1>13. PlaceInv'
  BY <1>0, <1>5 DEF VideoGood, PlaceInv, Kept
<1>14. HandInv'
  <2>1. \A x, s : /\ Waits(x, s) => Waits(x, s)'
                  /\ Records(x, s) => Records(x, s)'
                  /\ Recorded(x, s) => Recorded(x, s)'
                  /\ Unplaced(x) => Unplaced(x)'
                  /\ Placed(x) => Placed(x)'
    BY <1>5 DEF Waits, Records, Recorded, Unplaced, Placed, Everywhere
  <2>2. \A h \in Guests : Submitting(h)' => Submitting(h) /\ guest'[h] = guest[h]
    BY <1>4 DEF Submitting
  <2> QED BY <1>0, <2>1, <2>2 DEF VideoGood, HandInv, GpuHand, gpuVars
<1>15. ApartInv'
  BY <1>0, <1>4 DEF VideoGood, ApartInv, Submitting, gpuVars
<1>16. PortInv'
  BY <1>0, <1>4, <1>5, <1>6 DEF VideoGood, PortInv, DriverFree, gpuVars
<1>17. OrderInv'
  BY <1>0, <1>5 DEF VideoGood, OrderInv
<1>18. CountInv'
  <2>1. Total' = 0 /\ Capacity \in Nat
    BY <1>0, FS_EmptySet, VideoOutAssumption DEF Total
  <2> QED BY <1>0, <1>6, <2>1 DEF CountInv
<1>19. PresentInv'
  BY <1>0, <1>1, <1>5 DEF VideoGood, PresentInv
<1> QED BY <1>3, <1>11, <1>12, <1>13, <1>14, <1>15, <1>16, <1>17, <1>18, <1>19 DEF VideoGood

\* The element r of the list becomes e, the same request in another state.
Became(r, e) ==
    /\ r \in Listed /\ e \in Requests
    /\ e.id = r.id /\ e.gen = r.gen /\ e.index = r.index /\ e.source = r.source
    /\ QueueOK(requests') /\ Len(requests') = Len(requests)
    /\ Listed' = (Listed \ {r}) \cup {e}
    /\ UNCHANGED <<cpuRequests, cancelled, nextId>>

LEMMA BecameFacts ==
    ASSUME VideoGood, NEW r, NEW e, Became(r, e)
    PROVE  /\ QueueShape' /\ OnlyAbout(r.id) /\ Total' = Total
           /\ Everywhere' = (Everywhere \ {r}) \cup {e}
           /\ \A q \in Everywhere : q.id = r.id => q = r
           /\ \A q \in Everywhere' : q.id = r.id => q = e
<1>0. r \in Listed /\ r \in Everywhere /\ \A q \in Everywhere : q.id = r.id => q = r
  BY DEF VideoGood, QueueShape, Everywhere, Became
<1>1. Total' = Total
  BY DEF Total, Became
<1>2. Everywhere' = (Everywhere \ {r}) \cup {e}
  BY DEF Everywhere, Became, VideoGood, QueueShape
<1>3. OnlyAbout(r.id)
  BY DEF Became, OnlyAbout
<1>4. \A q \in Everywhere' : q.id = r.id => q = e
  BY <1>0, <1>2
<1>5. QueueShape'
  <2>1. \A q \in Everywhere' : 0 < q.id /\ q.id < nextId'
    BY <1>0, <1>2 DEF VideoGood, QueueShape, Became
  <2>2. \A p, q \in Everywhere' : p.id = q.id => p = q
    BY <1>0, <1>2 DEF VideoGood, QueueShape, Became
  <2>3. Listed' \cap cpuRequests' = {} /\ cancelled' \cap (Listed' \cup cpuRequests') = {}
    BY <1>0 DEF VideoGood, QueueShape, Everywhere, Became
  <2>4. /\ cpuRequests' \subseteq Requests /\ cancelled' \subseteq Requests
        /\ nextId' \in Nat \ {0} /\ IsFiniteSet(cpuRequests') /\ QueueOK(requests')
    BY DEF VideoGood, QueueShape, Became
  <2> QED BY <2>1, <2>2, <2>3, <2>4 DEF QueueShape
<1> QED BY <1>0, <1>1, <1>2, <1>3, <1>4, <1>5

LEMMA BecamePort ==
    ASSUME VideoGood, NEW r, NEW e, Became(r, e), UNCHANGED <<registered, guest>>,
           gpu'.pc # "Drop" \/ gpu' = gpu,
           port'.opened = port.opened, port'.closing = port.closing, port'.gen = port.gen
    PROVE  PortInv'
<1>0. e.gen = r.gen /\ e.index = r.index /\ e.id = r.id /\ r \in Listed /\ r \in Everywhere
  BY DEF Became, Everywhere
<1>1. \A q \in Everywhere' : q.gen <= port'.gen
  BY <1>0, BecameFacts DEF VideoGood, PortInv
<1>2. \A q \in Everywhere' : q.gen = port'.gen =>
         port'.opened /\ q \notin cancelled' /\ q.index \in registered' \cup {Blank}
  <2>1. e \notin cancelled'
    <3>1. e \in Everywhere' /\ e \in Listed' /\ QueueShape'
      BY BecameFacts DEF Became
    <3> QED BY <3>1 DEF QueueShape
  <2>2. cancelled' = cancelled
    BY DEF Became
  <2> QED BY <1>0, <2>1, <2>2, BecameFacts DEF VideoGood, PortInv
<1>3. port'.opened => \A q \in Listed' \cup cpuRequests' : q.gen = port'.gen
  BY <1>0 DEF VideoGood, PortInv, Became
<1>4. ~port'.opened => \E g \in Guests : guest'[g].pc = "Cancel"
  <2>1. requests # <<>>
    BY <1>0 DEF Listed, ToSet
  <2> QED BY <2>1 DEF VideoGood, PortInv
<1>5. gpu'.pc = "Drop" => \A q \in Everywhere' : q.id = gpu'.id => q.gen # port'.gen
  BY <1>0, BecameFacts DEF VideoGood, PortInv
<1> QED BY <1>1, <1>2, <1>3, <1>4, <1>5 DEF VideoGood, PortInv, DriverFree

\* The requests that the GPU has not executed, after r has become e.
LEMMA BecameExecuting ==
    ASSUME VideoGood, NEW r, NEW e, Became(r, e)
    PROVE  /\ IsFiniteSet(Executing) /\ IsFiniteSet(Executing')
           /\ Cardinality(Executing) \in Nat /\ Cardinality(Executing') \in Nat
           /\ e.source # "Gpu" \/ (e.state \in {"Reserved", "Recording"} <=> r.state \in {"Reserved", "Recording"})
                 => Cardinality(Executing') = Cardinality(Executing)
           /\ e.source = "Gpu" /\ r.state = "Recording" /\ e.state = "Ready"
                 => Cardinality(Executing') = Cardinality(Executing) - 1 /\ Cardinality(Executing) > 0
<1>0. /\ r \in Listed /\ e.source = r.source /\ Listed' = (Listed \ {r}) \cup {e}
      /\ Distinct(requests) /\ \A q \in Listed : q.id = r.id => q = r
      /\ e.id = r.id
  BY DEF Became, VideoGood, QueueShape, QueueOK, Everywhere
<1>1. IsFiniteSet(Listed) /\ IsFiniteSet(Executing)
  <2>1. IsFiniteSet(Listed)
    BY <1>0, ListedFinite DEF Listed
  <2>2. Executing \in SUBSET Listed
    BY DEF Executing
  <2> QED BY <2>1, <2>2, FS_Subset
<1>2. CASE r \in Executing /\ e.source = "Gpu" /\ e.state \in {"Reserved", "Recording"}
  <2>1. Executing' = (Executing \ {r}) \cup {e} /\ e \notin Executing \ {r}
    BY <1>0, <1>2 DEF Executing
  <2>2. /\ IsFiniteSet(Executing \ {r}) /\ Cardinality(Executing \ {r}) = Cardinality(Executing) - 1
        /\ Cardinality(Executing) \in Nat
    BY <1>1, <1>2, FS_RemoveElement, FS_CardinalityType
  <2>3. IsFiniteSet(Executing') /\ Cardinality(Executing') = Cardinality(Executing \ {r}) + 1
    BY <2>1, <2>2, FS_AddElement
  <2> QED BY <1>1, <1>2, <2>2, <2>3 DEF Executing
<1>3. CASE r \in Executing /\ e.source = "Gpu" /\ e.state \notin {"Reserved", "Recording"}
  <2>1. Executing' = Executing \ {r}
    BY <1>0, <1>3 DEF Executing
  <2>2. /\ IsFiniteSet(Executing') /\ Cardinality(Executing') = Cardinality(Executing) - 1
        /\ Cardinality(Executing) \in Nat /\ Cardinality(Executing') \in Nat
    BY <1>1, <1>3, <2>1, FS_RemoveElement, FS_CardinalityType
  <2>3. Cardinality(Executing) > 0
    BY <2>2
  <2> QED BY <1>1, <1>3, <2>2, <2>3 DEF Executing
<1>4. CASE r \notin Executing /\ ~(e.source = "Gpu" /\ e.state \in {"Reserved", "Recording"})
  <2>1. Executing' = Executing
    BY <1>0, <1>4 DEF Executing
  <2>2. e.source = "Gpu" => r.state # "Recording"
    BY <1>0, <1>4 DEF Executing
  <2> QED BY <1>1, <2>1, <2>2, FS_CardinalityType
<1>5. CASE r \notin Executing /\ e.source = "Gpu" /\ e.state \in {"Reserved", "Recording"}
  <2>1. Executing' = Executing \cup {e} /\ r.state \notin {"Reserved", "Recording"}
    BY <1>0, <1>5 DEF Executing
  <2>2. IsFiniteSet(Executing') /\ Cardinality(Executing') \in Nat /\ Cardinality(Executing) \in Nat
    BY <1>1, <2>1, FS_AddElement, FS_CardinalityType
  <2> QED BY <1>1, <1>5, <2>1, <2>2
<1>6. r \in Executing => e.source = "Gpu"
  BY <1>0 DEF Executing
<1> QED BY <1>2, <1>3, <1>4, <1>5, <1>6

\* The state of a listed request whose order does not change.
LEMMA BecameKeepsOrder ==
    ASSUME VideoGood, NEW r, NEW e, Became(r, e), e.order = r.order,
           UNCHANGED <<nextOrder, lastOrder>>
    PROVE  OrderInv'
<1>0. r \in Listed /\ Listed' = (Listed \ {r}) \cup {e} /\ cpuRequests' = cpuRequests
  BY DEF Became
<1>1. \A q \in (Listed \cup cpuRequests) \ {r} : q.order # 0 => q.order # e.order
  BY <1>0 DEF VideoGood, OrderInv
<1>2. Listed' \cup cpuRequests' = ((Listed \cup cpuRequests) \ {r}) \cup {e}
  BY <1>0 DEF VideoGood, QueueShape
<1>3. \A p, q \in Listed' \cup cpuRequests' : p.order = q.order /\ p.order # 0 => p = q
  BY <1>1, <1>2 DEF VideoGood, OrderInv
<1>4. \A q \in Listed' \cup cpuRequests' :
         q.order # 0 => lastOrder' < q.order /\ q.order < nextOrder'
  BY <1>0, <1>2 DEF VideoGood, OrderInv
<1> QED BY <1>3, <1>4 DEF VideoGood, OrderInv

\* A request that was not first of all still is not, and the first still is.
LEMMA BecamePresent ==
    ASSUME VideoGood, NEW r, NEW e, Became(r, e), UNCHANGED <<present, processing>>,
           r.state = "Recording" \/ r.state = "Reserved",
           e.state # "Presenting",
           e.order = r.order \/ \A q \in Listed \cup cpuRequests : e.order > q.order
    PROVE  PresentInv'
<1>0. /\ r \in Listed /\ Listed' = (Listed \ {r}) \cup {e} /\ cpuRequests' = cpuRequests
  BY DEF Became
<1>1. ASSUME NEW m \in Listed, FrontOf(m), m # r PROVE FrontOf(m)'
  BY <1>0, <1>1 DEF FrontOf
<1>2. present.pc \in {"Picked", "Presenting"} =>
         \E m \in Listed : FrontOf(m) /\ m # r /\ (present.pc = "Picked" => m.state = "Ready")
                           /\ (present.pc = "Presenting" => m.state = "Presenting")
  BY DEF VideoGood, PresentInv
<1>3. present.pc \in {"Picked", "Presenting"} =>
         \E m \in Listed' : FrontOf(m)' /\ (present.pc = "Picked" => m.state = "Ready")
                           /\ (present.pc = "Presenting" => m.state = "Presenting")
  BY <1>0, <1>1, <1>2
<1>4. \A q \in Listed' : q.state = "Presenting" => present'.pc = "Presenting" /\ q.id = present'.id
  BY <1>0 DEF VideoGood, PresentInv
<1> QED BY <1>3, <1>4 DEF VideoGood, PresentInv

\* A listed request is replaced in place.
LEMMA PutAt ==
    ASSUME Distinct(requests), NEW r \in Listed, NEW e \in Requests, e.id = r.id
    PROVE  LET t == [requests EXCEPT ![At(r.id)] = e]
           IN  /\ Distinct(t) /\ Len(t) = Len(requests)
               /\ ToSet(t) = (Listed \ {r}) \cup {e}
               /\ QueueOK(requests) /\ e.order = r.order => QueueOK(t)
<1>1. PICK k \in DOMAIN requests : k = At(r.id) /\ requests[k] = r
  BY AtIs DEF Distinct
<1> DEFINE t == [requests EXCEPT ![k] = e]
<1>2. requests \in Seq(Requests)
  BY DEF Distinct
<1>3. /\ t \in Seq(Requests) /\ Len(t) = Len(requests)
      /\ \A i \in 1..Len(requests) : t[i] = IF i = k THEN e ELSE requests[i]
  BY <1>2
<1> HIDE DEF t
<1>4. requests[k] = r
  BY <1>1
<1>5. /\ Distinct(t) /\ ToSet(t) = (ToSet(requests) \ {r}) \cup {e}
      /\ QueueOK(requests) /\ e.order = r.order => QueueOK(t)
  BY <1>3, <1>4, PutFacts
<1> QED BY <1>1, <1>3, <1>5 DEF t, Listed

\* The same, or replaced and the list sorted.
LEMMA PutInPlace ==
    ASSUME VideoGood, NEW r \in Listed, NEW e \in Requests, e.id = r.id, e.gen = r.gen,
           e.index = r.index, e.source = r.source, UNCHANGED <<cpuRequests, cancelled, nextId>>,
           Sort([requests EXCEPT ![At(r.id)] = e])
              \/ (requests' = [requests EXCEPT ![At(r.id)] = e] /\ e.order = r.order)
    PROVE  Became(r, e)
<1>1. QueueOK(requests) /\ Distinct(requests)
  BY DEF VideoGood, QueueShape, QueueOK
<1> DEFINE t == [requests EXCEPT ![At(r.id)] = e]
<1>3. /\ Distinct(t) /\ Len(t) = Len(requests) /\ ToSet(t) = (Listed \ {r}) \cup {e}
      /\ QueueOK(requests) /\ e.order = r.order => QueueOK(t)
  BY <1>1, PutAt, Zenon
<1>a. Sort(t) \/ (requests' = t /\ e.order = r.order)
  BY Zenon
<1> HIDE DEF t
<1>4. QueueOK(requests') /\ Len(requests') = Len(requests) /\ ToSet(requests') = ToSet(t)
  <2>1. CASE Sort(t)
    BY <1>3, <2>1, SortFacts
  <2>2. CASE requests' = t /\ e.order = r.order
    BY <1>1, <1>3, <2>2
  <2> QED BY <1>a, <2>1, <2>2
<1> QED BY <1>3, <1>4 DEF Became, Listed

\* A request in a new state.
LEMMA RequestExcept ==
    ASSUME NEW r \in Requests
    PROVE  /\ \A st \in States :
                 LET e == [r EXCEPT !.state = st]
                 IN  /\ e \in Requests /\ e.state = st /\ e.id = r.id /\ e.gen = r.gen
                     /\ e.index = r.index /\ e.source = r.source /\ e.order = r.order
                     /\ e.frame = r.frame
           /\ LET e == [r EXCEPT !.frame = TRUE]
              IN  /\ e \in Requests /\ e.state = r.state /\ e.id = r.id /\ e.gen = r.gen
                  /\ e.index = r.index /\ e.source = r.source /\ e.order = r.order
                  /\ e.frame = TRUE
           /\ \A n \in Nat :
                 LET e == [r EXCEPT !.order = n]
                 IN  /\ e \in Requests /\ e.state = r.state /\ e.id = r.id /\ e.gen = r.gen
                     /\ e.index = r.index /\ e.source = r.source /\ e.order = n
                     /\ e.frame = r.frame
BY DEF Requests

\* A cancelled request is replaced by the same in another state, or leaves.
Changed(r, E) ==
    /\ r \in cancelled /\ E \subseteq Requests /\ cancelled' = (cancelled \ {r}) \cup E
    /\ \A e \in E : /\ e.id = r.id /\ e.gen = r.gen /\ e.index = r.index /\ e.source = r.source
                    /\ e.order = r.order /\ e.state \in {"Reserved", "Recording"}
    /\ \A d, e \in E : d = e
    /\ UNCHANGED <<requests, cpuRequests, nextId, nextOrder, lastOrder>>

LEMMA ChangedFacts ==
    ASSUME VideoGood, NEW r, NEW E, Changed(r, E)
    PROVE  /\ QueueShape' /\ PlaceInv' /\ OrderInv' /\ OnlyAbout(r.id)
           /\ Listed' = Listed /\ Total' = Total /\ Executing' = Executing
           /\ Everywhere' = (Everywhere \ {r}) \cup E
           /\ \A q \in Everywhere : q.id = r.id => q = r
<1>0. /\ r \in Everywhere /\ r \notin Listed \cup cpuRequests
      /\ \A q \in Everywhere : q.id = r.id => q = r
  BY DEF VideoGood, QueueShape, Everywhere, Changed
<1>1. Listed' = Listed /\ Total' = Total /\ Executing' = Executing /\ cpuRequests' = cpuRequests
  BY DEF Listed, Total, Executing, Changed
<1>2. Everywhere' = (Everywhere \ {r}) \cup E
  BY <1>0, <1>1 DEF Everywhere, Changed
<1>3. OnlyAbout(r.id)
  BY <1>1 DEF OnlyAbout, Changed
<1>4. QueueShape'
  <2>1. \A q \in Everywhere' : 0 < q.id /\ q.id < nextId'
    BY <1>0, <1>2 DEF VideoGood, QueueShape, Changed
  <2>2. \A p, q \in Everywhere' : p.id = q.id => p = q
    BY <1>0, <1>2 DEF VideoGood, QueueShape, Changed
  <2>3. cancelled' \cap (Listed' \cup cpuRequests') = {}
    BY <1>0, <1>1 DEF VideoGood, QueueShape, Everywhere, Changed
  <2>4. /\ cpuRequests' \subseteq Requests /\ cancelled' \subseteq Requests
        /\ nextId' \in Nat \ {0} /\ IsFiniteSet(cpuRequests') /\ QueueOK(requests')
    BY DEF VideoGood, QueueShape, Changed
  <2> QED BY <1>1, <2>1, <2>2, <2>3, <2>4 DEF VideoGood, QueueShape
<1>5. PlaceInv'
  BY <1>1 DEF VideoGood, PlaceInv, Changed
<1>6. OrderInv'
  BY <1>1 DEF VideoGood, OrderInv, Changed
<1> QED BY <1>0, <1>1, <1>2, <1>3, <1>4, <1>5, <1>6

LEMMA ChangedRest ==
    ASSUME VideoGood, NEW r, NEW E, Changed(r, E), UNCHANGED <<port, registered, guest, present, processing>>,
           gpu'.pc # "Drop" \/ gpu' = gpu
    PROVE  PortInv' /\ CountInv' /\ PresentInv'
<1>0. /\ Listed' = Listed /\ cpuRequests' = cpuRequests /\ requests' = requests
      /\ r \in cancelled /\ r \in Everywhere /\ Everywhere' = (Everywhere \ {r}) \cup E
      /\ \A e \in E : e.id = r.id /\ e.gen = r.gen /\ e.index = r.index
      /\ cancelled' = (cancelled \ {r}) \cup E
  BY ChangedFacts DEF Changed, Everywhere
<1>1. r.gen # port.gen
  BY <1>0 DEF VideoGood, PortInv
<1>2. \A q \in Everywhere' : q.gen <= port'.gen
  BY <1>0 DEF VideoGood, PortInv
<1>3. \A q \in Everywhere' : q.gen = port'.gen =>
         port'.opened /\ q \notin cancelled' /\ q.index \in registered' \cup {Blank}
  BY <1>0, <1>1 DEF VideoGood, PortInv
<1>4. gpu'.pc = "Drop" => \A q \in Everywhere' : q.id = gpu'.id => q.gen # port'.gen
  BY <1>0, <1>1 DEF VideoGood, PortInv
<1>5. PortInv'
  BY <1>0, <1>2, <1>3, <1>4 DEF VideoGood, PortInv, DriverFree
<1>6. CountInv'
  BY ChangedFacts DEF VideoGood, CountInv
<1>7. PresentInv'
  BY <1>0 DEF VideoGood, PresentInv, FrontOf
<1> QED BY <1>5, <1>6, <1>7

\* Prepare has returned.
LEMMA PreparedHands ==
    ASSUME VideoGood, Prepared, OnlyAbout(gpu.id), gpu.pc \in {"Prepare", "Frame", "Drop"},
           \A x, s : x = gpu.id /\ s = gpu.source => Recorded(x, s)' /\ (s = "Gpu" => Unplaced(x)'),
           UNCHANGED <<guest, jobs, priority>>
    PROVE  /\ HandInv' /\ ApartInv' /\ gpu' \in GpuStates /\ gpu'.pc # "Drop"
           /\ eops' \in Seq(Nat)
<1>g. gpu \in GpuStates /\ gpu.id \in Nat /\ gpu.source \in {"Cpu", "Gpu"}
  BY DEF VideoGood, ThreadShape, GpuStates
<1>1. CASE gpu.source # "Gpu"
  <2>0. gpu.source = "Cpu"
    BY <1>1, <1>g
  <2>1. gpu' = [gpu EXCEPT !.pc = "Complete"] /\ eops' = eops
    BY <1>1 DEF Prepared
  <2>2. gpu' \in GpuStates /\ gpu'.pc = "Complete" /\ gpu'.id = gpu.id /\ gpu'.source = gpu.source
    BY <1>g, <2>1 DEF GpuStates
  <2>3. \A x : x = gpu.id => Recorded(x, "Cpu")'
    BY <2>0
  <2>4. HandInv' /\ ApartInv'
    <3>1. Recorded(gpu.id, "Cpu")'
      BY <2>2, <2>3
    <3> QED BY <2>0, <2>1, <2>2, <3>1, GpuHands
  <2> QED BY <2>1, <2>2, <2>4 DEF VideoGood, ThreadShape
<1>2. CASE gpu.source = "Gpu"
  <2>1. gpu' = IdleGpu /\ eops' = Append(eops, gpu.id)
    BY <1>2 DEF Prepared
  <2>2. /\ eops \in Seq(Nat) /\ Len(eops) \in Nat /\ DOMAIN eops = 1..Len(eops)
    BY DEF VideoGood, ThreadShape
  <2>3. /\ eops' \in Seq(Nat) /\ DOMAIN eops' = 1..(Len(eops) + 1)
        /\ \A k \in 1..Len(eops) : eops'[k] = eops[k]
        /\ eops'[Len(eops) + 1] = gpu.id
    BY <1>g, <2>1, <2>2
  <2>4. \A k \in DOMAIN eops' : \/ k \in DOMAIN eops /\ eops'[k] = eops[k]
                                \/ k = Len(eops) + 1 /\ eops'[k] = gpu.id
    BY <2>2, <2>3
  <2>5. \A x, s : x # gpu.id => /\ Waits(x, s) => Waits(x, s)'
                                /\ Recorded(x, s) => Recorded(x, s)'
                                /\ Unplaced(x) => Unplaced(x)'
                                /\ Placed(x) => Placed(x)'
    BY OthersKept
  <2>6. /\ \A g \in Guests : Submitting(g) => guest[g].id # gpu.id
        /\ \A k \in DOMAIN jobs : jobs[k] # gpu.id
        /\ \A k \in DOMAIN eops : eops[k] # gpu.id
        /\ priority # NoId => priority # gpu.id
    BY DEF VideoGood, ApartInv
  <2>7. \A x : Recorded(x, "Gpu") \/ Waits(x, "Cpu") \/ Waits(x, "Gpu") \/ Records(x, "Gpu") => x # NoId
    BY DEF VideoGood, QueueShape, NoId, Recorded, Waits, Records, Everywhere
  <2>8. HandInv'
    <3>1. (\A k \in DOMAIN eops : Recorded(eops[k], "Gpu") /\ Unplaced(eops[k]))'
      BY <1>2, <2>4, <2>5, <2>6 DEF VideoGood, HandInv
    <3>2. GpuHand'
      BY <2>1, IdleGpuType DEF GpuHand
    <3> QED BY <2>5, <2>6, <3>1, <3>2 DEF VideoGood, HandInv, Submitting
  <2>9. ApartInv'
    <3>1. gpu'.id = NoId /\ gpu.id # NoId
      BY <1>2, <2>1, <2>7, IdleGpuType DEF VideoGood, HandInv, GpuHand
    <3>2. \A j, k \in DOMAIN eops' : eops'[j] = eops'[k] => j = k
      BY <2>4, <2>6 DEF VideoGood, ApartInv
    <3>3. \A k \in DOMAIN eops' : eops'[k] # NoId /\ eops'[k] # priority
      BY <2>4, <2>6, <2>7, <3>1 DEF VideoGood, ApartInv, HandInv
    <3>4. (\A g \in Guests : Submitting(g) => guest[g].id # NoId) /\ \A k \in DOMAIN jobs : jobs[k] # NoId
      BY <2>7 DEF VideoGood, HandInv
    <3> QED BY <3>1, <3>2, <3>3, <3>4 DEF VideoGood, ApartInv, Submitting
  <2> QED BY <2>1, <2>3, <2>8, <2>9, IdleGpuType
<1> QED BY <1>1, <1>2

\* What the search for the request of the GPU thread finds.
LEMMA Found ==
    ASSUME VideoGood, NEW r \in Everywhere
    PROVE  /\ \A q \in Everywhere : q.id = r.id => q = r
           /\ The(Everywhere, r.id) = r
           /\ r \in Listed => /\ Has(Listed, r.id) /\ The(Listed, r.id) = r
                              /\ The(Listed \cup cpuRequests, r.id) = r
           /\ r \in cpuRequests => The(Listed \cup cpuRequests, r.id) = r
           /\ r \in cancelled => The(cancelled, r.id) = r
           /\ Has(Listed, r.id) <=> r \in Listed
           /\ Has(cancelled, r.id) <=> r \in cancelled
           /\ Has(Listed \cup cpuRequests, r.id) <=> r \in Listed \cup cpuRequests
           /\ Without(cpuRequests, r.id) = cpuRequests \ {r}
           /\ Without(cancelled, r.id) = cancelled \ {r}
<1>1. \A q \in Everywhere : q.id = r.id => q = r
  BY DEF VideoGood, QueueShape
<1>2. The(Everywhere, r.id) = r
  BY <1>1, TheIs
<1>3. r \in Listed => The(Listed, r.id) = r
  BY <1>1, TheIs DEF Everywhere
<1>4. r \in Listed \cup cpuRequests => The(Listed \cup cpuRequests, r.id) = r
  BY <1>1, TheIs DEF Everywhere
<1>5. r \in cancelled => The(cancelled, r.id) = r
  BY <1>1, TheIs DEF Everywhere
<1>6. /\ Has(Listed, r.id) <=> r \in Listed
      /\ Has(cancelled, r.id) <=> r \in cancelled
      /\ Has(Listed \cup cpuRequests, r.id) <=> r \in Listed \cup cpuRequests
  BY <1>1 DEF Has, Everywhere
<1>7. /\ Without(cpuRequests, r.id) = cpuRequests \ {r}
      /\ Without(cancelled, r.id) = cancelled \ {r}
  BY <1>1 DEF Without, Everywhere
<1> QED BY <1>1, <1>2, <1>3, <1>4, <1>5, <1>6, <1>7

LEMMA PrepareBeginStep ==
    ASSUME VideoGood, PrepareBegin
    PROVE  VideoGood' /\ ended' = ended
<1>0. /\ gpu.pc = "Prepare"
      /\ UNCHANGED <<port, registered, processing, nextId, nextOrder, guest, jobs, priority,
                     present, lastOrder>>
  BY DEF PrepareBegin
<1>g. gpu \in GpuStates /\ gpu.source \in {"Cpu", "Gpu"}
  BY DEF VideoGood, ThreadShape, GpuStates
<1>1. PICK r \in Everywhere : /\ r.id = gpu.id /\ r.source = gpu.source /\ r.state = "Reserved"
                              /\ ~r.frame /\ (gpu.source = "Gpu" => r.order = 0)
  BY <1>0 DEF VideoGood, HandInv, GpuHand, Waits
<1>2. r \in Requests /\ "Recording" \in States
  BY RequestFields DEF VideoGood, States
<1> DEFINE e == [r EXCEPT !.state = "Recording"]
<1>3. /\ e \in Requests /\ e.state = "Recording" /\ e.id = r.id /\ e.gen = r.gen
      /\ e.index = r.index /\ e.source = r.source /\ e.order = r.order /\ e.frame = r.frame
  BY <1>2, RequestExcept
<1>4. CASE r \in Listed \cup cpuRequests
  <2>0. Has(Listed \cup cpuRequests, gpu.id) /\ The(Listed \cup cpuRequests, gpu.id) = r
    BY <1>1, <1>4, Found
  <2>1. /\ ended' = ended /\ gpu' = [gpu EXCEPT !.pc = "Look"] /\ UNCHANGED <<cancelled, eops>>
        /\ cpuRequests' = cpuRequests \ {r}
        /\ Sort(IF Has(Listed, gpu.id) THEN [requests EXCEPT ![At(gpu.id)] = e]
                ELSE Append(requests, e))
    BY <2>0, <1>1, Found DEF PrepareBegin
  <2>2. gpu' \in GpuStates /\ gpu'.pc = "Look" /\ gpu'.id = gpu.id /\ gpu'.source = gpu.source
    BY <1>g, <2>1 DEF GpuStates
  <2>3. CASE r \in Listed
    <3>0. r.source = "Gpu" /\ r.order = 0
      BY <1>1, <1>g, <2>3 DEF VideoGood, PlaceInv
    <3>1. Became(r, e)
      <4>1. Sort([requests EXCEPT ![At(r.id)] = e])
        BY <1>1, <2>1, <2>3, Found
      <4>2. cpuRequests' = cpuRequests
        BY <2>1, <2>3 DEF VideoGood, QueueShape
      <4> HIDE DEF e
      <4> QED BY <1>0, <1>3, <2>1, <2>3, <4>1, <4>2, PutInPlace
    <3> HIDE DEF e
    <3>2. Listed' = (Listed \ {r}) \cup {e} /\ cpuRequests' = cpuRequests
      BY <3>1 DEF Became
    <3>3. ThreadShape'
      BY <1>0, <2>1, <2>2 DEF VideoGood, ThreadShape
    <3>4. PlaceInv'
      BY <1>3, <2>1, <3>0, <3>2 DEF VideoGood, PlaceInv
    <3>5. HandInv' /\ ApartInv'
      <4>1. Records(gpu.id, gpu.source)'
        BY <1>1, <1>3, <2>2, <3>0, <3>2 DEF Records
      <4>2. OnlyAbout(gpu.id)
        BY <1>1, <3>1, BecameFacts
      <4> QED BY <1>0, <2>1, <2>2, <4>1, <4>2, GpuHands
    <3>6. PortInv'
      BY <1>0, <2>2, <3>1, BecamePort
    <3>7. OrderInv'
      BY <1>0, <1>3, <3>1, BecameKeepsOrder
    <3>8. CountInv'
      BY <1>0, <1>1, <1>3, <3>1, BecameFacts, BecameExecuting DEF VideoGood, CountInv
    <3>9. PresentInv'
      BY <1>0, <1>1, <1>3, <3>1, BecamePresent
    <3> QED BY <2>1, <3>1, <3>3, <3>4, <3>5, <3>6, <3>7, <3>8, <3>9, BecameFacts DEF VideoGood
  <2>4. CASE r \in cpuRequests
    <3>0. r \notin Listed /\ r \notin cancelled /\ r.source = "Cpu" /\ r.order # 0
      BY <2>4 DEF VideoGood, QueueShape, PlaceInv
    <3>1. /\ QueueOK(requests') /\ Listed' = Listed \cup {e} /\ Len(requests') = Len(requests) + 1
      <4>1. ~Has(Listed, gpu.id) /\ \A q \in Listed : q.id # e.id
        BY <1>1, <1>3, <3>0, Found DEF Everywhere
      <4>2. Distinct(requests) /\ \A q \in ToSet(requests) : q.id # e.id
        BY <4>1 DEF VideoGood, QueueShape, QueueOK, Listed
      <4>3. Sort(Append(requests, e))
        BY <2>1, <4>1
      <4> HIDE DEF e
      <4>4. /\ Distinct(Append(requests, e)) /\ Len(Append(requests, e)) = Len(requests) + 1
            /\ ToSet(Append(requests, e)) = ToSet(requests) \cup {e}
        BY <1>3, <4>2, AppendFacts
      <4> QED BY <4>3, <4>4, SortFacts DEF Listed
    <3> HIDE DEF e
    <3>2. /\ Everywhere' = (Everywhere \ {r}) \cup {e}
          /\ Listed' \cup cpuRequests' = ((Listed \cup cpuRequests) \ {r}) \cup {e}
      BY <2>1, <2>4, <3>0, <3>1 DEF Everywhere
    <3>3. OnlyAbout(r.id)
      BY <1>3, <2>1, <3>1 DEF OnlyAbout
    <3>u. \A q \in Everywhere : q.id = r.id => q = r
      BY Found
    <3>4. QueueShape'
      <4>1. \A q \in Everywhere' : 0 < q.id /\ q.id < nextId'
        BY <1>0, <1>3, <3>2 DEF VideoGood, QueueShape
      <4>2. \A p, q \in Everywhere' : p.id = q.id => p = q
        BY <1>3, <3>2, <3>u DEF VideoGood, QueueShape
      <4>3. Listed' \cap cpuRequests' = {} /\ cancelled' \cap (Listed' \cup cpuRequests') = {}
        <5>1. e \notin cpuRequests' /\ e \notin cancelled
          BY <1>3, <2>1, <3>0, <3>u DEF Everywhere
        <5> QED BY <2>1, <3>1, <5>1 DEF VideoGood, QueueShape
      <4>4. /\ cpuRequests' \subseteq Requests /\ cancelled' \subseteq Requests
            /\ nextId' \in Nat \ {0}
        BY <1>0, <2>1 DEF VideoGood, QueueShape
      <4>5. IsFiniteSet(cpuRequests')
        BY <2>1, FS_RemoveElement DEF VideoGood, QueueShape
      <4> QED BY <3>1, <4>1, <4>2, <4>3, <4>4, <4>5 DEF QueueShape
    <3>5. Total' = Total /\ Executing' = Executing
      <4>1. /\ IsFiniteSet(cpuRequests) /\ Cardinality(cpuRequests') = Cardinality(cpuRequests) - 1
            /\ Cardinality(cpuRequests) \in Nat
        BY <2>1, <2>4, FS_RemoveElement, FS_CardinalityType DEF VideoGood, QueueShape
      <4>2. Len(requests) \in Nat
        BY DEF VideoGood, QueueShape, QueueOK, Distinct
      <4>3. Total' = Total
        BY <3>1, <4>1, <4>2 DEF Total
      <4> QED BY <1>3, <3>0, <3>1, <4>3 DEF Executing
    <3>6. ThreadShape'
      BY <1>0, <2>1, <2>2 DEF VideoGood, ThreadShape
    <3>7. PlaceInv'
      BY <1>3, <2>1, <3>0, <3>1 DEF VideoGood, PlaceInv
    <3>8. HandInv' /\ ApartInv'
      <4>1. Records(gpu.id, gpu.source)'
        BY <1>1, <1>3, <2>2, <3>0, <3>1 DEF Records
      <4> QED BY <1>0, <1>1, <2>1, <2>2, <3>3, <4>1, GpuHands
    <3>9. PortInv'
      <4>1. \A q \in Everywhere' : q.gen <= port'.gen
        BY <1>0, <1>3, <3>2 DEF VideoGood, PortInv
      <4>2. \A q \in Everywhere' : q.gen = port'.gen =>
               port'.opened /\ q \notin cancelled' /\ q.index \in registered' \cup {Blank}
        <5>1. e \notin cancelled'
          BY <3>1, <3>4 DEF QueueShape
        <5> QED BY <1>0, <1>3, <2>1, <3>2, <5>1 DEF VideoGood, PortInv
      <4>3. port'.opened => \A q \in Listed' \cup cpuRequests' : q.gen = port'.gen
        BY <1>0, <1>3, <2>4, <3>2 DEF VideoGood, PortInv
      <4>4. ~port'.opened => \E g \in Guests : guest'[g].pc = "Cancel"
        BY <1>0, <2>4 DEF VideoGood, PortInv
      <4> QED BY <1>0, <2>2, <4>1, <4>2, <4>3, <4>4 DEF VideoGood, PortInv, DriverFree
    <3>10. OrderInv'
      <4>1. \A p, q \in Listed' \cup cpuRequests' : p.order = q.order /\ p.order # 0 => p = q
        BY <1>3, <2>4, <3>2 DEF VideoGood, OrderInv
      <4>2. \A q \in Listed' \cup cpuRequests' :
               q.order # 0 => lastOrder' < q.order /\ q.order < nextOrder'
        BY <1>0, <1>3, <2>4, <3>2 DEF VideoGood, OrderInv
      <4> QED BY <1>0, <4>1, <4>2 DEF VideoGood, OrderInv
    <3>11. CountInv'
      BY <1>0, <3>5 DEF VideoGood, CountInv
    <3>12. PresentInv'
      <4>1. ASSUME NEW m \in Listed, FrontOf(m) PROVE FrontOf(m)'
        BY <1>0, <1>3, <2>4, <3>0, <3>1, <3>2, <4>1 DEF FrontOf
      <4>2. \A q \in Listed' : q.state = "Presenting" => q \in Listed
        BY <1>3, <3>1
      <4> QED BY <1>0, <3>1, <4>1, <4>2 DEF VideoGood, PresentInv
    <3> QED BY <2>1, <3>4, <3>6, <3>7, <3>8, <3>9, <3>10, <3>11, <3>12 DEF VideoGood
  <2> QED BY <1>4, <2>3, <2>4
<1>5. CASE r \in cancelled
  <2>0. /\ ~Has(Listed \cup cpuRequests, gpu.id) /\ Has(cancelled, gpu.id)
        /\ The(cancelled, gpu.id) = r /\ Without(cancelled, gpu.id) = cancelled \ {r}
    BY <1>1, <1>5, Found DEF VideoGood, QueueShape
  <2>1. /\ cancelled' = (cancelled \ {r}) \cup {e}
        /\ Prepared /\ UNCHANGED <<requests, cpuRequests, ended>>
    BY <2>0, <1>1 DEF PrepareBegin
  <2> HIDE DEF e
  <2>2. Changed(r, {e})
    BY <1>0, <1>3, <1>5, <2>1 DEF Changed
  <2>3. OnlyAbout(gpu.id)
    BY <1>1, <2>2, ChangedFacts
  <2>4. \A x, s : x = gpu.id /\ s = gpu.source => Recorded(x, s)' /\ (s = "Gpu" => Unplaced(x)')
    <3>1. e \in cancelled' /\ e \notin Listed'
      <4>1. QueueShape' /\ e \in cancelled'
        BY <2>1, <2>2, ChangedFacts
      <4> QED BY <4>1 DEF QueueShape
    <3>2. \A q \in Everywhere' : q.id = e.id => q = e
      BY <1>3, <2>2, ChangedFacts
    <3> QED BY <1>1, <1>3, <3>1, <3>2 DEF Recorded, Unplaced
  <2>5. /\ HandInv' /\ ApartInv' /\ gpu' \in GpuStates /\ gpu'.pc # "Drop" /\ eops' \in Seq(Nat)
    BY <1>0, <2>1, <2>3, <2>4, PreparedHands
  <2>6. PortInv' /\ CountInv' /\ PresentInv'
    BY <1>0, <2>2, <2>5, ChangedRest
  <2>7. ThreadShape'
    BY <1>0, <2>5 DEF VideoGood, ThreadShape
  <2> QED BY <2>1, <2>2, <2>5, <2>6, <2>7, ChangedFacts DEF VideoGood
<1> QED BY <1>4, <1>5 DEF Everywhere

LEMMA PrepareFrameStep ==
    ASSUME VideoGood, PrepareFrame
    PROVE  VideoGood' /\ ended' = ended
<1>0. /\ gpu.pc = "Frame" /\ Prepared
      /\ UNCHANGED <<port, registered, cpuRequests, processing, nextId, nextOrder, guest, jobs,
                     priority, present, lastOrder>>
  BY DEF PrepareFrame
<1>g. gpu \in GpuStates /\ gpu.source \in {"Cpu", "Gpu"}
  BY DEF VideoGood, ThreadShape, GpuStates
<1>1. PICK r \in Listed \cup cancelled :
         /\ r.id = gpu.id /\ r.source = gpu.source /\ r.state = "Recording"
         /\ ~r.frame /\ (gpu.source = "Gpu" => r.order = 0)
  BY <1>0 DEF VideoGood, HandInv, GpuHand, Records
<1>2. r \in Everywhere /\ r \in Requests
  BY RequestFields DEF VideoGood, Everywhere
<1>3. TheRequest = r
  BY <1>1, <1>2, Found DEF TheRequest, Everywhere
<1> DEFINE e == [r EXCEPT !.frame = TRUE]
<1>4. /\ e \in Requests /\ e.state = r.state /\ e.id = r.id /\ e.gen = r.gen
      /\ e.index = r.index /\ e.source = r.source /\ e.order = r.order /\ e.frame = TRUE
  BY <1>2, RequestExcept
<1>5. ended' = ended
  <2>1. Has(Listed \cup cancelled, gpu.id)
    BY <1>1 DEF Has
  <2> QED BY <1>1, <1>3, <2>1 DEF PrepareFrame
<1>6. CASE r \in Listed
  <2>1. requests' = [requests EXCEPT ![At(r.id)] = e] /\ cancelled' = cancelled
    BY <1>1, <1>2, <1>3, <1>6, Found DEF PrepareFrame
  <2> HIDE DEF e
  <2>2. Became(r, e)
    BY <1>0, <1>4, <1>6, <2>1, PutInPlace
  <2>3. Listed' = (Listed \ {r}) \cup {e} /\ cpuRequests' = cpuRequests
    BY <2>2 DEF Became
  <2>4. \A x, s : x = gpu.id /\ s = gpu.source => Recorded(x, s)' /\ (s = "Gpu" => Unplaced(x)')
    <3>1. \A q \in Everywhere' : q.id = e.id => q = e
      BY <1>4, <2>2, BecameFacts
    <3> QED BY <1>1, <1>4, <2>3, <3>1 DEF Recorded, Unplaced
  <2>5. /\ HandInv' /\ ApartInv' /\ gpu' \in GpuStates /\ gpu'.pc # "Drop" /\ eops' \in Seq(Nat)
    <3>1. OnlyAbout(gpu.id)
      BY <1>1, <2>2, BecameFacts
    <3> QED BY <1>0, <2>4, <3>1, PreparedHands
  <2>6. PlaceInv'
    BY <1>0, <1>4, <2>1, <2>3, <1>6, <1>1 DEF VideoGood, PlaceInv
  <2>7. ThreadShape'
    BY <1>0, <2>5 DEF VideoGood, ThreadShape
  <2>8. PortInv'
    BY <1>0, <2>2, <2>5, BecamePort
  <2>9. OrderInv'
    BY <1>0, <1>4, <2>2, BecameKeepsOrder
  <2>10. CountInv'
    BY <1>0, <1>4, <2>2, BecameFacts, BecameExecuting DEF VideoGood, CountInv
  <2>11. PresentInv'
    BY <1>0, <1>1, <1>4, <2>2, BecamePresent
  <2> QED BY <1>5, <2>2, <2>5, <2>6, <2>7, <2>8, <2>9, <2>10, <2>11, BecameFacts DEF VideoGood
<1>7. CASE r \in cancelled
  <2>1. cancelled' = (cancelled \ {r}) \cup {e} /\ requests' = requests
    <3>1. ~Has(Listed, gpu.id) /\ Has(cancelled, gpu.id) /\ Without(cancelled, gpu.id) = cancelled \ {r}
      BY <1>1, <1>2, <1>7, Found DEF VideoGood, QueueShape
    <3> QED BY <1>3, <3>1 DEF PrepareFrame
  <2> HIDE DEF e
  <2>2. Changed(r, {e})
    BY <1>0, <1>1, <1>4, <1>7, <2>1 DEF Changed
  <2>3. OnlyAbout(gpu.id)
    BY <1>1, <2>2, ChangedFacts
  <2>4. \A x, s : x = gpu.id /\ s = gpu.source => Recorded(x, s)' /\ (s = "Gpu" => Unplaced(x)')
    <3>1. e \in cancelled' /\ e \notin Listed'
      <4>1. QueueShape' /\ e \in cancelled'
        BY <2>1, <2>2, ChangedFacts
      <4> QED BY <4>1 DEF QueueShape
    <3>2. \A q \in Everywhere' : q.id = e.id => q = e
      BY <1>4, <2>2, ChangedFacts
    <3> QED BY <1>1, <1>4, <3>1, <3>2 DEF Recorded, Unplaced
  <2>5. /\ HandInv' /\ ApartInv' /\ gpu' \in GpuStates /\ gpu'.pc # "Drop" /\ eops' \in Seq(Nat)
    BY <1>0, <2>3, <2>4, PreparedHands
  <2>6. PortInv' /\ CountInv' /\ PresentInv'
    BY <1>0, <2>2, <2>5, ChangedRest
  <2>7. ThreadShape'
    BY <1>0, <2>5 DEF VideoGood, ThreadShape
  <2> QED BY <1>5, <2>2, <2>5, <2>6, <2>7, ChangedFacts DEF VideoGood
<1> QED BY <1>6, <1>7

LEMMA PrepareDropStep ==
    ASSUME VideoGood, PrepareDrop
    PROVE  VideoGood'
<1>0. /\ gpu.pc = "Drop" /\ Prepared
      /\ UNCHANGED <<port, registered, cpuRequests, processing, nextId, nextOrder, guest, jobs,
                     priority, present, lastOrder, ended>>
  BY DEF PrepareDrop
<1>1. PICK r \in Listed \cup cancelled :
         /\ r.id = gpu.id /\ r.source = gpu.source /\ r.state = "Recording"
         /\ ~r.frame /\ (gpu.source = "Gpu" => r.order = 0)
  BY <1>0 DEF VideoGood, HandInv, GpuHand, Records
<1>2. r \in Everywhere /\ r \in Requests /\ \A q \in Everywhere : q.id = r.id => q = r
  BY RequestFields, Found DEF VideoGood, Everywhere
<1>3. TheRequest = r
  BY <1>1, <1>2, Found DEF TheRequest, Everywhere
<1>4. r.gen # port.gen
  BY <1>0, <1>1, <1>2 DEF VideoGood, PortInv
<1>5. CASE r \in Listed
  <2>1. cancelled' = cancelled \cup {r} /\ requests' = RemoveAt(requests, At(r.id))
    BY <1>1, <1>2, <1>3, <1>5, Found DEF PrepareDrop
  <2>2. /\ QueueOK(requests') /\ Len(requests') = Len(requests) - 1 /\ Listed' = Listed \ {r}
        /\ Len(requests) \in Nat
    <3>1. QueueOK(requests) /\ Distinct(requests) /\ Len(requests) \in Nat
      BY DEF VideoGood, QueueShape, QueueOK, Distinct
    <3>2. At(r.id) \in 1..Len(requests) /\ requests[At(r.id)] = r
      BY <3>1, <1>5, AtIs
    <3> QED BY <2>1, <3>1, <3>2, RemoveFacts DEF Listed
  <2>3. Everywhere' = Everywhere /\ cpuRequests' = cpuRequests /\ r \notin cpuRequests
    BY <1>0, <1>5, <2>1, <2>2 DEF VideoGood, QueueShape, Everywhere
  <2>4. ~port.opened /\ \E g \in Guests : guest[g].pc = "Cancel"
    <3>1. requests # <<>>
      BY <1>5 DEF Listed, ToSet
    <3> QED BY <1>4, <1>5, <3>1 DEF VideoGood, PortInv
  <2>5. QueueShape'
    BY <1>0, <1>2, <2>1, <2>2, <2>3 DEF VideoGood, QueueShape
  <2>6. PlaceInv'
    BY <1>0, <1>1, <2>1, <2>2 DEF VideoGood, PlaceInv
  <2>7. \A x, s : x = gpu.id /\ s = gpu.source => Recorded(x, s)' /\ (s = "Gpu" => Unplaced(x)')
    BY <1>1, <1>2, <2>1, <2>2, <2>3 DEF Recorded, Unplaced
  <2>8. OnlyAbout(gpu.id)
    BY <1>1, <2>1, <2>2, <2>3 DEF OnlyAbout
  <2>9. /\ HandInv' /\ ApartInv' /\ gpu' \in GpuStates /\ gpu'.pc # "Drop" /\ eops' \in Seq(Nat)
    BY <1>0, <2>7, <2>8, PreparedHands
  <2>10. ThreadShape'
    BY <1>0, <2>9 DEF VideoGood, ThreadShape
  <2>11. PortInv'
    BY <1>0, <1>4, <2>1, <2>2, <2>3, <2>4, <2>9 DEF VideoGood, PortInv, DriverFree
  <2>12. OrderInv'
    BY <1>0, <2>2 DEF VideoGood, OrderInv
  <2>13. CountInv'
    <3>1. Cardinality(cpuRequests) \in Nat
      BY FS_CardinalityType DEF VideoGood, QueueShape
    <3>2. Total' <= Capacity
      BY <1>0, <2>2, <3>1, VideoOutAssumption DEF VideoGood, CountInv, Total
    <3> QED BY <1>0, <2>4, <3>2 DEF CountInv
  <2>14. PresentInv'
    <3>1. ASSUME NEW m \in Listed, FrontOf(m), m # r PROVE FrontOf(m)' /\ m \in Listed'
      BY <1>0, <2>2, <3>1 DEF FrontOf
    <3> QED BY <1>0, <1>1, <2>2, <3>1 DEF VideoGood, PresentInv
  <2> QED BY <2>5, <2>6, <2>9, <2>10, <2>11, <2>12, <2>13, <2>14 DEF VideoGood
<1>6. CASE r \in cancelled
  <2>0. r \notin Listed
    BY <1>6 DEF VideoGood, QueueShape
  <2>1. UNCHANGED <<requests, cancelled>>
    BY <1>1, <1>2, <2>0, Found DEF PrepareDrop
  <2>2. UNCHANGED <<requests, cpuRequests, cancelled, nextId, nextOrder, lastOrder>>
    BY <1>0, <2>1
  <2>3. Listed' = Listed /\ Everywhere' = Everywhere
    BY <2>2, QueueStays
  <2>4. \A x, s : x = gpu.id /\ s = gpu.source => Recorded(x, s)' /\ (s = "Gpu" => Unplaced(x)')
    BY <1>1, <1>2, <1>6, <2>0, <2>1, <2>3 DEF Recorded, Unplaced
  <2>5. OnlyAbout(gpu.id)
    BY <2>2, <2>3 DEF OnlyAbout
  <2>6. /\ HandInv' /\ ApartInv' /\ gpu' \in GpuStates /\ gpu'.pc # "Drop" /\ eops' \in Seq(Nat)
    BY <1>0, <2>4, <2>5, PreparedHands
  <2>7. ThreadShape'
    BY <1>0, <2>6 DEF VideoGood, ThreadShape
  <2>8. PortInv'
    BY <1>0, <2>2, <2>3, <2>6 DEF VideoGood, PortInv, DriverFree
  <2>9. CountInv'
    BY <1>0, <2>2, QueueStays DEF VideoGood, CountInv
  <2>10. PresentInv'
    BY <1>0, <2>2, <2>3 DEF VideoGood, PresentInv, FrontOf
  <2> QED BY <2>2, <2>6, <2>7, <2>8, <2>9, <2>10, QueueStays DEF VideoGood
<1> QED BY <1>5, <1>6

\* The first part of Complete: a GPU flip gets its place in the order.
LEMMA CompleteBeginFacts ==
    ASSUME VideoGood, NEW id, NEW source \in {"Cpu", "Gpu"}, CompleteBegin(id), Recorded(id, source),
           source = "Gpu" => Unplaced(id), gpu'.pc # "Drop" \/ gpu' = gpu
    PROVE  /\ QueueShape' /\ PlaceInv' /\ PortInv' /\ OrderInv' /\ CountInv' /\ PresentInv'
           /\ OnlyAbout(id) /\ Recorded(id, source)' /\ (source = "Gpu" => Placed(id)')
           /\ nextOrder' \in Nat /\ ended' = ended
<1>0. UNCHANGED <<port, registered, cpuRequests, cancelled, processing, nextId, guest, jobs,
                   present, lastOrder>>
  BY DEF CompleteBegin
<1>1. PICK r \in Listed \cup cancelled :
         r.id = id /\ r.source = source /\ r.state = "Recording" /\ (r \in Listed => r.frame)
  BY DEF Recorded
<1>2. /\ r \in Everywhere /\ r \in Requests /\ (source = "Gpu" => r.order = 0)
      /\ \A q \in Everywhere : q.id = r.id => q = r
  BY <1>1, RequestFields, Found DEF VideoGood, Everywhere, Unplaced
<1>n. nextOrder \in Nat /\ nextOrder + 1 \in Nat /\ nextOrder # 0 /\ lastOrder \in Nat
      /\ lastOrder < nextOrder
  BY DEF VideoGood, ThreadShape, OrderInv
<1>3. CASE r \in Listed /\ source = "Gpu"
  <2> DEFINE e == [r EXCEPT !.order = nextOrder]
  <2>1. /\ e \in Requests /\ e.state = r.state /\ e.id = r.id /\ e.gen = r.gen
        /\ e.index = r.index /\ e.source = r.source /\ e.order = nextOrder /\ e.frame = r.frame
    BY <1>2, <1>n, RequestExcept
  <2>2. /\ ended' = ended /\ Sort([requests EXCEPT ![At(r.id)] = e]) /\ nextOrder' = nextOrder + 1
    <3>1. Has(Listed, id) /\ The(Listed, id) = r
      BY <1>1, <1>2, <1>3, Found
    <3> QED BY <1>1, <1>2, <1>3, <3>1 DEF CompleteBegin
  <2> HIDE DEF e
  <2>3. Became(r, e)
    BY <1>0, <1>3, <2>1, <2>2, PutInPlace
  <2>4. Listed' = (Listed \ {r}) \cup {e} /\ cpuRequests' = cpuRequests
    BY <2>3 DEF Became
  <2>5. PlaceInv'
    BY <1>0, <1>1, <1>3, <1>n, <2>1, <2>4 DEF VideoGood, PlaceInv
  <2>6. PortInv'
    BY <1>0, <2>3, BecamePort
  <2>7. CountInv'
    BY <1>0, <2>1, <2>3, BecameFacts, BecameExecuting DEF VideoGood, CountInv
  <2>o. \A q \in Listed \cup cpuRequests : q.order \in Nat /\ q.order < nextOrder
    <3>1. \A q \in Listed \cup cpuRequests : q.order \in Nat
      BY RequestFields DEF VideoGood, Everywhere
    <3> QED BY <1>n, <3>1 DEF VideoGood, OrderInv
  <2>8. PresentInv'
    BY <1>0, <1>1, <2>1, <2>3, <2>o, BecamePresent
  <2>9. OrderInv'
    <3>1. \A q \in Listed' \cup cpuRequests' :
             q.order # 0 => lastOrder' < q.order /\ q.order < nextOrder'
      <4>1. \A q \in Listed' \cup cpuRequests' : q = e \/ q \in Listed \cup cpuRequests
        BY <2>4
      <4> QED BY <1>0, <1>n, <2>1, <2>2, <2>o, <4>1 DEF VideoGood, OrderInv
    <3>2. \A p, q \in Listed' \cup cpuRequests' : p.order = q.order /\ p.order # 0 => p = q
      BY <2>1, <2>4, <2>o DEF VideoGood, OrderInv
    <3>3. lastOrder' < nextOrder'
      BY <1>0, <1>n, <2>2
    <3> QED BY <3>1, <3>2, <3>3 DEF OrderInv
  <2>10. \A q \in Everywhere' : q.id = id => q = e
    BY <1>1, <2>3, BecameFacts
  <2>11. Recorded(id, source)' /\ Placed(id)'
    BY <1>1, <1>3, <1>n, <2>1, <2>4, <2>10 DEF Recorded, Placed, Everywhere
  <2> QED BY <1>1, <1>n, <2>2, <2>3, <2>5, <2>6, <2>7, <2>8, <2>9, <2>11, BecameFacts
<1>4. CASE ~(r \in Listed /\ source = "Gpu")
  <2>1. ended' = ended /\ UNCHANGED <<requests, nextOrder>>
    <3>1. CASE r \in Listed
      <4>1. Has(Listed, id) /\ The(Listed, id) = r /\ r.source # "Gpu"
        BY <1>1, <1>2, <1>4, <3>1, Found
      <4> QED BY <1>1, <3>1, <4>1 DEF CompleteBegin
    <3>2. CASE r \notin Listed
      <4>1. ~Has(Listed, id) /\ Has(cancelled, id) /\ The(cancelled, id) = r
        BY <1>1, <1>2, <3>2, Found
      <4> QED BY <1>1, <4>1 DEF CompleteBegin
    <3> QED BY <3>1, <3>2
  <2>2. UNCHANGED <<requests, cpuRequests, cancelled, nextId, nextOrder, lastOrder>>
    BY <1>0, <2>1
  <2>3. Listed' = Listed /\ Everywhere' = Everywhere
    BY <2>2, QueueStays
  <2>4. OnlyAbout(id)
    BY <2>2, <2>3 DEF OnlyAbout
  <2>5. PortInv'
    BY <1>0, <2>2, <2>3 DEF VideoGood, PortInv, DriverFree
  <2>6. CountInv'
    BY <1>0, <2>2, QueueStays DEF VideoGood, CountInv
  <2>7. PresentInv'
    BY <1>0, <2>2, <2>3 DEF VideoGood, PresentInv, FrontOf
  <2>8. Recorded(id, source)'
    BY <2>2, QueueStays
  <2>9. source = "Gpu" => Placed(id)'
    BY <1>1, <1>2, <1>4, <2>3 DEF Placed, Everywhere
  <2> QED BY <1>n, <2>1, <2>2, <2>4, <2>5, <2>6, <2>7, <2>8, <2>9, QueueStays
<1> QED BY <1>3, <1>4

LEMMA GpuComplete1Step ==
    ASSUME VideoGood, GpuComplete1
    PROVE  VideoGood' /\ ended' = ended
<1>0. /\ gpu.pc = "Complete" /\ CompleteBegin(gpu.id)
      /\ gpu' = [gpu EXCEPT !.pc = "Completing"] /\ UNCHANGED <<eops, priority>>
  BY DEF GpuComplete1
<1>1. Recorded(gpu.id, "Cpu") /\ gpu.source = "Cpu"
  BY <1>0 DEF VideoGood, HandInv, GpuHand
<1>2. gpu' \in GpuStates /\ gpu'.pc = "Completing" /\ gpu'.id = gpu.id /\ gpu'.source = gpu.source
  BY <1>0 DEF VideoGood, ThreadShape, GpuStates
<1>3. \A x : x = gpu.id =>
      /\ QueueShape' /\ PlaceInv' /\ PortInv' /\ OrderInv' /\ CountInv' /\ PresentInv'
      /\ OnlyAbout(x) /\ Recorded(x, "Cpu")' /\ nextOrder' \in Nat /\ ended' = ended
  BY <1>0, <1>1, <1>2, CompleteBeginFacts
<1>4. UNCHANGED <<port, registered, guest, jobs, present, lastOrder>>
  BY <1>0 DEF CompleteBegin
<1>5. HandInv' /\ ApartInv'
  <2>1. OnlyAbout(gpu.id)
    BY <1>3
  <2>2. Recorded(gpu.id, "Cpu")'
    BY <1>2, <1>3
  <2> QED BY <1>0, <1>1, <1>2, <1>4, <2>1, <2>2, GpuHands
<1>6. ThreadShape'
  BY <1>0, <1>2, <1>3, <1>4 DEF VideoGood, ThreadShape
<1> QED BY <1>3, <1>5, <1>6 DEF VideoGood

LEMMA PriorityComplete1Step ==
    ASSUME VideoGood, PriorityComplete1
    PROVE  VideoGood' /\ ended' = ended
<1>0. /\ priority = NoId /\ eops # <<>> /\ CompleteBegin(Head(eops))
      /\ priority' = Head(eops) /\ eops' = Tail(eops) /\ UNCHANGED gpu
  BY DEF PriorityComplete1
<1>1. eops \in Seq(Nat) /\ Len(eops) \in Nat \ {0} /\ DOMAIN eops = 1..Len(eops) /\ 1 \in DOMAIN eops
  BY <1>0 DEF VideoGood, ThreadShape
<1>2. /\ eops' \in Seq(Nat) /\ DOMAIN eops' = 1..(Len(eops) - 1)
      /\ \A k \in 1..(Len(eops) - 1) : eops'[k] = eops[k + 1]
      /\ Head(eops) = eops[1] /\ eops[1] \in Nat
  BY <1>0, <1>1
<1>3. \A k \in DOMAIN eops' : k + 1 \in DOMAIN eops /\ k + 1 # 1 /\ eops'[k] = eops[k + 1]
  BY <1>1, <1>2
<1>4. Recorded(eops[1], "Gpu") /\ Unplaced(eops[1])
  BY <1>1 DEF VideoGood, HandInv
<1>5. \A x : x = eops[1] =>
      /\ QueueShape' /\ PlaceInv' /\ PortInv' /\ OrderInv' /\ CountInv' /\ PresentInv'
      /\ OnlyAbout(x) /\ Recorded(x, "Gpu")' /\ Placed(x)' /\ nextOrder' \in Nat /\ ended' = ended
  BY <1>0, <1>2, <1>4, CompleteBeginFacts
<1>6. UNCHANGED <<port, registered, guest, jobs, present, lastOrder>>
  BY <1>0 DEF CompleteBegin
<1>7. \A x, s : x # eops[1] => /\ Waits(x, s) => Waits(x, s)'
                               /\ Records(x, s) => Records(x, s)'
                               /\ Recorded(x, s) => Recorded(x, s)'
                               /\ Unplaced(x) => Unplaced(x)'
  BY <1>5, OthersKept
<1>8. \A x, s, t : Waits(x, s) => ~Recorded(x, t)
  BY DEF Waits, Recorded, Everywhere, VideoGood, QueueShape
<1>9. /\ \A g \in Guests : Submitting(g) => guest[g].id # eops[1]
      /\ \A k \in DOMAIN jobs : jobs[k] # eops[1]
      /\ gpu.id # eops[1]
  BY <1>1, <1>4, <1>8 DEF VideoGood, ApartInv, HandInv
<1>10. \A k \in DOMAIN eops' : eops'[k] # eops[1]
  BY <1>1, <1>3 DEF VideoGood, ApartInv
<1>11. HandInv'
  <2>1. (\A g \in Guests : Submitting(g) => Waits(guest[g].id, "Cpu"))'
    BY <1>6, <1>7, <1>9 DEF VideoGood, HandInv, Submitting
  <2>2. (\A k \in DOMAIN jobs : Waits(jobs[k], "Cpu"))'
    BY <1>6, <1>7, <1>9 DEF VideoGood, HandInv
  <2>3. (\A k \in DOMAIN eops : Recorded(eops[k], "Gpu") /\ Unplaced(eops[k]))'
    BY <1>3, <1>7, <1>10 DEF VideoGood, HandInv
  <2>4. (priority # NoId => Recorded(priority, "Gpu") /\ Placed(priority))'
    BY <1>0, <1>2, <1>5
  <2>5. GpuHand'
    BY <1>0, <1>7, <1>9 DEF VideoGood, HandInv, GpuHand
  <2> QED BY <2>1, <2>2, <2>3, <2>4, <2>5 DEF HandInv
<1>12. ApartInv'
  <2>1. \A j, k \in DOMAIN eops' : eops'[j] = eops'[k] => j = k
    <3> SUFFICES ASSUME NEW j \in DOMAIN eops', NEW k \in DOMAIN eops', eops'[j] = eops'[k] PROVE j = k
      OBVIOUS
    <3>1. j + 1 = k + 1
      BY <1>3 DEF VideoGood, ApartInv
    <3> QED BY <3>1, <1>2
  <2>2. \A k \in DOMAIN eops' : eops'[k] # gpu'.id /\ eops'[k] # priority'
    BY <1>0, <1>2, <1>3, <1>10 DEF VideoGood, ApartInv
  <2>3. priority' # gpu'.id
    BY <1>0, <1>2, <1>9
  <2> QED BY <1>0, <1>6, <2>1, <2>2, <2>3 DEF VideoGood, ApartInv, Submitting
<1>13. ThreadShape'
  BY <1>0, <1>2, <1>5, <1>6 DEF VideoGood, ThreadShape
<1> QED BY <1>5, <1>11, <1>12, <1>13 DEF VideoGood

\* The second part of Complete: the request is ready to be shown.
LEMMA CompleteEndFacts ==
    ASSUME VideoGood, NEW id, NEW source \in {"Cpu", "Gpu"}, CompleteEnd(id), Recorded(id, source),
           source = "Gpu" => Placed(id), gpu'.pc # "Drop" \/ gpu' = gpu
    PROVE  /\ QueueShape' /\ PlaceInv' /\ PortInv' /\ OrderInv' /\ CountInv' /\ PresentInv'
           /\ OnlyAbout(id) /\ port' \in Ports /\ ended' = ended
<1>0. UNCHANGED <<registered, cpuRequests, processing, nextId, nextOrder, guest, jobs,
                   present, lastOrder>>
  BY DEF CompleteEnd
<1>1. PICK r \in Listed \cup cancelled :
         r.id = id /\ r.source = source /\ r.state = "Recording" /\ (r \in Listed => r.frame)
  BY DEF Recorded
<1>2. /\ r \in Everywhere /\ r \in Requests /\ "Ready" \in States
      /\ \A q \in Everywhere : q.id = r.id => q = r
  BY <1>1, RequestFields, Found DEF VideoGood, Everywhere, States
<1>p. port \in Ports
  BY DEF VideoGood, ThreadShape
<1>3. CASE r \in Listed
  <2> DEFINE e == [r EXCEPT !.state = "Ready"]
  <2>1. /\ e \in Requests /\ e.state = "Ready" /\ e.id = r.id /\ e.gen = r.gen
        /\ e.index = r.index /\ e.source = r.source /\ e.order = r.order /\ e.frame = r.frame
    BY <1>2, RequestExcept
  <2>2. /\ ended' = ended /\ requests' = [requests EXCEPT ![At(r.id)] = e] /\ cancelled' = cancelled
        /\ port' = [port EXCEPT !.gc = Executed(r)]
    <3>1. Has(Listed, id) /\ The(Listed, id) = r
      BY <1>1, <1>2, <1>3, Found
    <3> QED BY <1>1, <1>3, <3>1 DEF CompleteEnd
  <2> HIDE DEF e
  <2>3. Became(r, e)
    BY <1>0, <1>3, <2>1, <2>2, PutInPlace
  <2>4. Listed' = (Listed \ {r}) \cup {e} /\ cpuRequests' = cpuRequests
    BY <2>3 DEF Became
  <2>5. r.order # 0
    BY <1>1, <1>3 DEF VideoGood, PlaceInv, Placed
  <2>6. PlaceInv'
    BY <1>0, <1>1, <1>3, <2>1, <2>2, <2>4, <2>5 DEF VideoGood, PlaceInv
  <2>g. /\ Executed(r) \in 0..Capacity
        /\ port.opened => IsFiniteSet(Executing') /\ Cardinality(Executing') = Executed(r)
    <3>1. port.gc \in 0..Capacity /\ Capacity \in Nat
      BY <1>p, VideoOutAssumption DEF Ports
    <3>2. Executed(r) \in 0..Capacity
      BY <3>1 DEF Executed
    <3>3. ASSUME port.opened PROVE IsFiniteSet(Executing') /\ Cardinality(Executing') = Executed(r)
      <4>1. port.gc = Cardinality(Executing)
        BY <3>3 DEF VideoGood, CountInv
      <4>2. CASE source = "Gpu"
        BY <1>1, <2>1, <2>3, <3>1, <4>1, <4>2, BecameExecuting DEF Executed
      <4>3. CASE source # "Gpu"
        BY <1>1, <2>1, <2>3, <3>1, <4>1, <4>3, BecameExecuting DEF Executed
      <4> QED BY <4>2, <4>3
    <3> QED BY <3>2, <3>3
  <2>7. /\ port' \in Ports
        /\ port'.opened = port.opened /\ port'.closing = port.closing /\ port'.gen = port.gen
        /\ port'.pending = port.pending /\ port'.gc = Executed(r)
    BY <1>p, <2>2, <2>g DEF Ports
  <2>8. PortInv'
    BY <1>0, <2>3, <2>7, BecamePort
  <2>9. OrderInv'
    BY <1>0, <2>1, <2>3, BecameKeepsOrder
  <2>10. CountInv'
    BY <1>0, <2>3, <2>7, <2>g, BecameFacts DEF VideoGood, CountInv
  <2>11. PresentInv'
    BY <1>0, <1>1, <2>1, <2>3, BecamePresent
  <2> QED BY <1>1, <2>2, <2>3, <2>6, <2>7, <2>8, <2>9, <2>10, <2>11, BecameFacts
<1>4. CASE r \notin Listed
  <2>1. /\ ended' = ended /\ cancelled' = cancelled \ {r} /\ UNCHANGED <<port, requests>>
    <3>1. /\ ~Has(Listed, id) /\ Has(cancelled, id) /\ The(cancelled, id) = r
          /\ Without(cancelled, id) = cancelled \ {r}
      BY <1>1, <1>2, <1>4, Found
    <3> QED BY <1>1, <3>1 DEF CompleteEnd
  <2>2. Changed(r, {})
    BY <1>0, <1>1, <1>4, <2>1 DEF Changed
  <2>3. PortInv' /\ CountInv' /\ PresentInv'
    BY <1>0, <2>1, <2>2, ChangedRest
  <2> QED BY <1>1, <1>p, <2>1, <2>2, <2>3, ChangedFacts
<1> QED BY <1>3, <1>4

LEMMA GpuComplete2Step ==
    ASSUME VideoGood, GpuComplete2
    PROVE  VideoGood' /\ ended' = ended
<1>0. /\ gpu.pc = "Completing" /\ CompleteEnd(gpu.id)
      /\ gpu' = IdleGpu /\ UNCHANGED <<eops, priority>>
  BY DEF GpuComplete2
<1>1. Recorded(gpu.id, "Cpu") /\ gpu.source = "Cpu"
  BY <1>0 DEF VideoGood, HandInv, GpuHand
<1>3. /\ QueueShape' /\ PlaceInv' /\ PortInv' /\ OrderInv' /\ CountInv' /\ PresentInv'
      /\ OnlyAbout(gpu.id) /\ port' \in Ports /\ ended' = ended
  BY <1>0, <1>1, CompleteEndFacts, IdleGpuType
<1>4. UNCHANGED <<registered, guest, jobs, present, nextOrder, lastOrder>>
  BY <1>0 DEF CompleteEnd
<1>5. HandInv' /\ ApartInv'
  BY <1>0, <1>3, <1>4, GpuHands, IdleGpuType
<1>6. ThreadShape'
  BY <1>0, <1>3, <1>4, IdleGpuType DEF VideoGood, ThreadShape
<1> QED BY <1>3, <1>5, <1>6 DEF VideoGood

LEMMA PriorityComplete2Step ==
    ASSUME VideoGood, PriorityComplete2
    PROVE  VideoGood' /\ ended' = ended
<1>0. /\ priority # NoId /\ CompleteEnd(priority) /\ priority' = NoId /\ UNCHANGED <<gpu, eops>>
  BY DEF PriorityComplete2
<1>1. Recorded(priority, "Gpu") /\ Placed(priority)
  BY <1>0 DEF VideoGood, HandInv
<1>3. /\ QueueShape' /\ PlaceInv' /\ PortInv' /\ OrderInv' /\ CountInv' /\ PresentInv'
      /\ OnlyAbout(priority) /\ port' \in Ports /\ ended' = ended
  BY <1>0, <1>1, CompleteEndFacts
<1>4. UNCHANGED <<registered, guest, jobs, present, nextOrder, lastOrder>>
  BY <1>0 DEF CompleteEnd
<1>5. \A x, s : x # priority => /\ Waits(x, s) => Waits(x, s)'
                                /\ Records(x, s) => Records(x, s)'
                                /\ Recorded(x, s) => Recorded(x, s)'
                                /\ Unplaced(x) => Unplaced(x)'
  BY <1>3, OthersKept
<1>6. \A x, s, t : Waits(x, s) => ~Recorded(x, t)
  BY DEF Waits, Recorded, Everywhere, VideoGood, QueueShape
<1>7. /\ \A g \in Guests : Submitting(g) => guest[g].id # priority
      /\ \A k \in DOMAIN jobs : jobs[k] # priority
      /\ \A k \in DOMAIN eops : eops[k] # priority
      /\ gpu.id # priority
  BY <1>0, <1>1, <1>6 DEF VideoGood, ApartInv, HandInv
<1>8. HandInv'
  <2>1. (\A g \in Guests : Submitting(g) => Waits(guest[g].id, "Cpu"))'
    BY <1>4, <1>5, <1>7 DEF VideoGood, HandInv, Submitting
  <2>2. (\A k \in DOMAIN jobs : Waits(jobs[k], "Cpu"))'
    BY <1>4, <1>5, <1>7 DEF VideoGood, HandInv
  <2>3. (\A k \in DOMAIN eops : Recorded(eops[k], "Gpu") /\ Unplaced(eops[k]))'
    BY <1>0, <1>5, <1>7 DEF VideoGood, HandInv
  <2>4. GpuHand'
    BY <1>0, <1>5, <1>7 DEF VideoGood, HandInv, GpuHand
  <2> QED BY <1>0, <2>1, <2>2, <2>3, <2>4 DEF HandInv
<1>9. ApartInv'
  <2>1. \A k \in DOMAIN eops : eops[k] # NoId
    <3>1. \A k \in DOMAIN eops : Recorded(eops[k], "Gpu")
      BY DEF VideoGood, HandInv
    <3>2. \A x : Recorded(x, "Gpu") => x # NoId
      BY DEF VideoGood, QueueShape, NoId, Recorded, Everywhere
    <3> QED BY <3>1, <3>2
  <2> QED BY <1>0, <1>4, <2>1 DEF VideoGood, ApartInv, Submitting
<1>10. ThreadShape'
  BY <1>0, <1>3, <1>4 DEF VideoGood, ThreadShape, NoId
<1> QED BY <1>3, <1>8, <1>9, <1>10 DEF VideoGood

LEMMA FlipPresentStep ==
    ASSUME VideoGood, FlipPresent
    PROVE  VideoGood' /\ ended' = ended
<1>0. /\ present.pc = "Picked"
      /\ UNCHANGED <<port, registered, cpuRequests, cancelled, nextId, nextOrder, guest, gpuVars,
                     priority, lastOrder>>
  BY DEF FlipPresent
<1>1. PICK m \in Listed : FrontOf(m) /\ m.state = "Ready"
  BY <1>0 DEF VideoGood, PresentInv
<1>2. requests # <<>> /\ requests[1] = m /\ m.id = present.id
  BY <1>1, FrontIs DEF VideoGood, FrontOf
<1>n. \A q \in Listed : q.state # "Presenting"
  BY <1>0 DEF VideoGood, PresentInv
<1>3. CASE ~Due(m)
  <2>1. /\ processing' = FALSE /\ present' = [pc |-> "Vblank", id |-> NoId]
        /\ UNCHANGED <<requests, ended>>
    BY <1>2, <1>3 DEF FlipPresent
  <2>2. UNCHANGED <<requests, cpuRequests, cancelled, nextId, nextOrder, lastOrder>>
    BY <1>0, <2>1
  <2>3. Listed' = Listed /\ Everywhere' = Everywhere
    BY <2>2, QueueStays
  <2>4. ThreadShape'
    BY <1>0, <2>1 DEF VideoGood, ThreadShape, gpuVars, NoId
  <2>5. HandInv'
    BY <1>0, <2>2, QueueStays DEF VideoGood, HandInv, GpuHand, Submitting, gpuVars
  <2>6. ApartInv'
    BY <1>0 DEF VideoGood, ApartInv, Submitting, gpuVars
  <2>7. PortInv'
    BY <1>0, <2>2, <2>3 DEF VideoGood, PortInv, DriverFree, gpuVars
  <2>8. CountInv'
    BY <1>0, <2>2, QueueStays DEF VideoGood, CountInv
  <2>9. PresentInv'
    BY <1>n, <2>1, <2>3 DEF PresentInv
  <2> QED BY <2>1, <2>2, <2>4, <2>5, <2>6, <2>7, <2>8, <2>9, QueueStays DEF VideoGood
<1>4. CASE Due(m)
  <2> DEFINE e == [m EXCEPT !.state = "Presenting"]
  <2>0. m \in Everywhere /\ m \in Requests /\ "Presenting" \in States
    BY RequestFields DEF VideoGood, Everywhere, States
  <2>1. /\ e \in Requests /\ e.state = "Presenting" /\ e.id = m.id /\ e.gen = m.gen
        /\ e.index = m.index /\ e.source = m.source /\ e.order = m.order /\ e.frame = m.frame
    BY <2>0, RequestExcept
  <2>2. /\ ended' = ended /\ processing' = processing
        /\ present' = [present EXCEPT !.pc = "Presenting"]
        /\ requests' = [requests EXCEPT ![1].state = "Presenting"]
    BY <1>1, <1>2, <1>4 DEF FlipPresent
  <2>3. requests' = [requests EXCEPT ![At(m.id)] = e]
    <3>1. QueueOK(requests) /\ Distinct(requests) /\ requests \in Seq(Requests)
      BY DEF VideoGood, QueueShape, QueueOK, Distinct
    <3>2. At(m.id) \in DOMAIN requests /\ requests[At(m.id)] = m /\ 1 \in DOMAIN requests
      BY <1>2, <3>1, AtIs
    <3>3. At(m.id) = 1
      BY <1>2, <3>1, <3>2 DEF Distinct
    <3> QED BY <1>2, <2>2, <3>3
  <2> HIDE DEF e
  <2>4. Became(m, e)
    BY <1>0, <2>1, <2>3, PutInPlace
  <2>5. Listed' = (Listed \ {m}) \cup {e} /\ cpuRequests' = cpuRequests
    BY <2>4 DEF Became
  <2>6. PlaceInv'
    BY <1>0, <1>1, <2>1, <2>5 DEF VideoGood, PlaceInv
  <2>7. HandInv' /\ ApartInv'
    <3>1. OnlyAbout(m.id)
      BY <2>4, BecameFacts
    <3> QED BY <1>0, <1>1, <3>1, HandsNotReady, HandsKept DEF gpuVars
  <2>8. PortInv'
    BY <1>0, <2>4, BecamePort DEF gpuVars
  <2>9. OrderInv'
    BY <1>0, <2>1, <2>4, BecameKeepsOrder
  <2>10. CountInv'
    BY <1>0, <1>1, <2>1, <2>4, BecameFacts, BecameExecuting DEF VideoGood, CountInv
  <2>11. present'.pc = "Presenting" /\ present'.id = present.id
         /\ present' \in [pc : {"Vblank", "Flip", "Picked", "Presenting"}, id : Nat]
    BY <2>2 DEF VideoGood, ThreadShape
  <2>12. PresentInv'
    <3>1. FrontOf(e)'
      <4>1. e \in Listed' /\ e.id = present'.id /\ e.order # 0
        BY <1>1, <1>2, <2>1, <2>5, <2>11 DEF FrontOf
      <4>2. \A q \in Listed' \cup cpuRequests' : q # e => q.order = 0 \/ q.order > e.order
        <5>1. m \notin cpuRequests
          BY DEF VideoGood, QueueShape
        <5> QED BY <1>1, <2>1, <2>5, <5>1 DEF FrontOf
      <4> QED BY <4>1, <4>2 DEF FrontOf
    <3>2. \A q \in Listed' : q.state = "Presenting" => q = e
      BY <1>n, <2>5
    <3>3. processing'
      BY <1>0, <2>2 DEF VideoGood, PresentInv
    <3> QED BY <1>2, <2>1, <2>5, <2>11, <3>1, <3>2, <3>3 DEF PresentInv
  <2>13. ThreadShape'
    BY <1>0, <2>11 DEF VideoGood, ThreadShape, gpuVars
  <2> QED BY <2>2, <2>4, <2>6, <2>7, <2>8, <2>9, <2>10, <2>12, <2>13, BecameFacts DEF VideoGood
<1> QED BY <1>3, <1>4

\* The flip that leaves the queue comes later in the order than the last one.
LEMMA FlipEndStep ==
    ASSUME VideoGood, FlipEnd
    PROVE  VideoGood' /\ ended' = ended /\ lastOrder' > lastOrder
<1>0. /\ present.pc = "Presenting" /\ processing' = FALSE
      /\ present' = [pc |-> "Vblank", id |-> NoId]
      /\ UNCHANGED <<registered, cpuRequests, cancelled, nextId, nextOrder, guest, gpuVars,
                     priority>>
  BY DEF FlipEnd
<1>1. PICK m \in Listed : FrontOf(m) /\ m.state = "Presenting"
  BY <1>0 DEF VideoGood, PresentInv
<1>2. requests # <<>> /\ requests[1] = m /\ m.id = present.id /\ m.order # 0
  BY <1>1, FrontIs DEF VideoGood, FrontOf
<1>3. /\ ended' = ended /\ requests' = Tail(requests) /\ lastOrder' = m.order
      /\ port' = [port EXCEPT !.shown = TRUE, !.current = m.index, !.pending = Total - 1]
  BY <1>1, <1>2 DEF FlipEnd
<1>4. /\ QueueOK(requests') /\ Listed' = Listed \ {m} /\ Len(requests') = Len(requests) - 1
      /\ Len(requests) \in Nat /\ Len(requests) > 0
  <2>1. QueueOK(requests) /\ Len(requests) \in Nat
    BY DEF VideoGood, QueueShape, QueueOK, Distinct
  <2> QED BY <1>2, <1>3, <2>1, TailFacts DEF Listed
<1>5. m \in Everywhere /\ m \in Requests /\ m.index \in Indexes /\ m.order \in Nat
      /\ \A q \in Everywhere : q.id = m.id => q = m
  BY RequestFields, Found DEF VideoGood, Everywhere
<1>6. m \notin cpuRequests /\ m \notin cancelled
  BY DEF VideoGood, QueueShape
<1>7. Everywhere' = Everywhere \ {m} /\ Executing' = Executing /\ OnlyAbout(m.id)
  <2>1. Everywhere' = Everywhere \ {m}
    BY <1>0, <1>4, <1>6 DEF Everywhere
  <2>2. Executing' = Executing
    BY <1>1, <1>4 DEF Executing
  <2>3. OnlyAbout(m.id)
    BY <1>0, <1>4 DEF OnlyAbout
  <2> QED BY <2>1, <2>2, <2>3
<1>8. Total' = Total - 1 /\ Total - 1 \in 0..Capacity /\ Total \in Nat
  <2>1. Cardinality(cpuRequests) \in Nat
    BY FS_CardinalityType DEF VideoGood, QueueShape
  <2> QED BY <1>0, <1>4, <2>1, VideoOutAssumption DEF Total, VideoGood, CountInv
<1>9. /\ port \in Ports /\ port' \in Ports
      /\ port'.opened = port.opened /\ port'.closing = port.closing /\ port'.gen = port.gen
      /\ port'.pending = Total - 1 /\ port'.gc = port.gc
  <2>1. port \in Ports
    BY DEF VideoGood, ThreadShape
  <2> QED BY <1>3, <1>5, <1>8, <2>1 DEF Ports
<1>10. lastOrder' > lastOrder /\ lastOrder' \in Nat /\ lastOrder' < nextOrder
  BY <1>2, <1>3, <1>5 DEF VideoGood, OrderInv, ThreadShape
<1>11. QueueShape'
  BY <1>0, <1>4, <1>7 DEF VideoGood, QueueShape
<1>12. ThreadShape'
  BY <1>0, <1>9, <1>10 DEF VideoGood, ThreadShape, gpuVars, NoId
<1>13. PlaceInv'
  BY <1>0, <1>4 DEF VideoGood, PlaceInv
<1>14. HandInv' /\ ApartInv'
  BY <1>0, <1>1, <1>7, HandsNotReady, HandsKept DEF gpuVars
<1>15. PortInv'
  <2>1. ~port'.opened => \E g \in Guests : guest'[g].pc = "Cancel"
    BY <1>0, <1>2, <1>9 DEF VideoGood, PortInv
  <2> QED BY <1>0, <1>4, <1>7, <1>9, <2>1 DEF VideoGood, PortInv, DriverFree, gpuVars
<1>16. OrderInv'
  <2>1. \A q \in Listed' \cup cpuRequests' : q.order # 0 => q.order > m.order /\ q.order < nextOrder
    BY <1>0, <1>1, <1>4, <1>6 DEF VideoGood, OrderInv, FrontOf
  <2>2. \A q \in Listed' \cup cpuRequests' : q.order \in Nat
    BY <1>0, <1>4, RequestFields DEF VideoGood, Everywhere
  <2>3. \A p, q \in Listed' \cup cpuRequests' : p.order = q.order /\ p.order # 0 => p = q
    BY <1>0, <1>4 DEF VideoGood, OrderInv
  <2> QED BY <1>0, <1>3, <1>5, <1>10, <2>1, <2>2, <2>3 DEF OrderInv
<1>17. CountInv'
  BY <1>7, <1>8, <1>9 DEF VideoGood, CountInv
<1>18. PresentInv'
  <2>1. \A q \in Listed' : q.state # "Presenting"
    BY <1>2, <1>4, <1>5 DEF VideoGood, PresentInv, Everywhere
  <2> QED BY <1>0, <2>1 DEF PresentInv
<1> QED BY <1>3, <1>10, <1>11, <1>12, <1>13, <1>14, <1>15, <1>16, <1>17, <1>18 DEF VideoGood

LEMMA VideoInitGood == VideoInit => VideoIInv
<1> SUFFICES ASSUME VideoInit PROVE VideoIInv
  OBVIOUS
<1>0. /\ registered = {} /\ requests = <<>> /\ cpuRequests = {} /\ cancelled = {}
      /\ processing = FALSE /\ nextId = 1 /\ nextOrder = 1 /\ gpu = IdleGpu
      /\ jobs = <<>> /\ eops = <<>> /\ priority = NoId /\ lastOrder = 0 /\ ended = "No"
      /\ guest = [g \in Guests |-> IdleGuest] /\ present = [pc |-> "Vblank", id |-> NoId]
  BY DEF VideoInit
<1>1. Listed = {} /\ Everywhere = {} /\ Executing = {}
  BY <1>0 DEF Listed, ToSet, Everywhere, Executing
<1>2. QueueShape
  BY <1>0, <1>1, FS_EmptySet DEF QueueShape, QueueOK, Distinct
<1>3. /\ port \in Ports /\ ~port.opened /\ ~port.closing /\ port.gen = 0
  <2>1. 0 \in 0..Capacity
    BY VideoOutAssumption
  <2> QED BY <2>1 DEF VideoInit, Ports, Indexes
<1>4. guest \in [Guests -> GuestStates] /\ \A g \in Guests : guest[g].pc = "Idle"
  BY <1>0 DEF IdleGuest, GuestStates, NoId, Indexes
<1>5. ThreadShape
  BY <1>0, <1>3, <1>4, IdleGpuType DEF ThreadShape
<1>6. PlaceInv /\ OrderInv
  BY <1>0, <1>1 DEF PlaceInv, OrderInv
<1>7. HandInv /\ ApartInv
  BY <1>0, <1>4, IdleGpuType DEF HandInv, GpuHand, ApartInv, Submitting
<1>8. PortInv
  BY <1>0, <1>1, <1>3, <1>4, IdleGpuType DEF PortInv, DriverFree
<1>9. CountInv
  <2>1. Total = 0
    BY <1>0, FS_EmptySet DEF Total
  <2> QED BY <1>3, <2>1, VideoOutAssumption DEF CountInv
<1>10. PresentInv
  BY <1>0, <1>1 DEF PresentInv
<1> QED BY <1>0, <1>2, <1>5, <1>6, <1>7, <1>8, <1>9, <1>10 DEF VideoIInv, VideoGood

\* Nothing changes: the invariant holds after a step that is not of the port.
LEMMA VideoStutter ==
    ASSUME VideoIInv, UNCHANGED <<port, registered, queueVars, guest, gpuVars, priority, present, lastOrder>>,
           ended' # "Broken"
    PROVE  VideoIInv'
<1>1. UNCHANGED <<requests, cpuRequests, cancelled, nextId, nextOrder, lastOrder>> /\ VideoGood
  BY DEF queueVars, VideoIInv
<1>2. ThreadShape'
  BY <1>1 DEF VideoGood, ThreadShape, gpuVars
<1>3. HandInv'
  BY <1>1, QueueStays DEF VideoGood, HandInv, GpuHand, Submitting, gpuVars
<1>4. ApartInv'
  BY <1>1 DEF VideoGood, ApartInv, Submitting, gpuVars
<1>5. PortInv'
  BY <1>1, QueueStays DEF VideoGood, PortInv, DriverFree, gpuVars
<1>6. CountInv'
  BY <1>1, QueueStays DEF VideoGood, CountInv
<1>7. PresentInv'
  BY <1>1, QueueStays DEF VideoGood, PresentInv, FrontOf, queueVars
<1> QED BY <1>1, <1>2, <1>3, <1>4, <1>5, <1>6, <1>7, QueueStays DEF VideoGood, VideoIInv

LEMMA VideoStep ==
    ASSUME VideoIInv, [VideoNext]_videoVars
    PROVE  VideoIInv' /\ (lastOrder' # lastOrder => lastOrder' > lastOrder)
<1>0. VideoGood /\ ended # "Broken"
  BY DEF VideoIInv
<1>1. ASSUME NEW g \in Guests,
             \/ Get(g, "Rate", Blank)
             \/ \E b \in Buffers : Get(g, "Register", b) \/ Get(g, "Unregister", b)
             \/ \E i \in Indexes : Get(g, "Flip", i)
      PROVE  VideoGood' /\ ended' = ended /\ lastOrder' = lastOrder
  <2>1. VideoGood'
    BY <1>0, <1>1, GetStep DEF Indexes
  <2>2. ended' = ended /\ lastOrder' = lastOrder
    BY <1>1 DEF Get
  <2> QED BY <2>1, <2>2
<1>2. ASSUME NEW g \in Guests, SetFlipRate(g)
      PROVE  VideoGood' /\ ended' = ended /\ lastOrder' = lastOrder
  BY <1>0, <1>2, SetFlipRateStep DEF SetFlipRate
<1>3. ASSUME NEW g \in Guests, RegisterBuffers(g)
      PROVE  VideoGood' /\ ended' = ended /\ lastOrder' = lastOrder
  BY <1>0, <1>3, RegisterStep DEF RegisterBuffers
<1>4. ASSUME NEW g \in Guests, UnregisterBuffers(g)
      PROVE  VideoGood' /\ ended' = ended /\ lastOrder' = lastOrder
  BY <1>0, <1>4, UnregisterStep DEF UnregisterBuffers
<1>5. ASSUME NEW g \in Guests, SubmitFlip(g)
      PROVE  VideoGood' /\ ended' = ended /\ lastOrder' = lastOrder
  BY <1>0, <1>5, SubmitFlipStep DEF SubmitFlip
<1>6. ASSUME NEW g \in Guests, SubmitFlipPreparation(g)
      PROVE  VideoGood' /\ ended' = ended /\ lastOrder' = lastOrder
  BY <1>0, <1>6, SubmitPreparationStep DEF SubmitFlipPreparation
<1>7. ASSUME NEW g \in Guests, Close(g)
      PROVE  VideoGood' /\ ended' = ended /\ lastOrder' = lastOrder
  BY <1>0, <1>7, CloseStep DEF Close
<1>8. ASSUME NEW g \in Guests, Cancel(g)
      PROVE  VideoGood' /\ ended' = ended /\ lastOrder' = lastOrder
  BY <1>0, <1>8, CancelStep DEF Cancel
<1>9. ASSUME NEW g \in Guests, CancelEnd(g)
      PROVE  VideoGood' /\ ended' = ended /\ lastOrder' = lastOrder
  BY <1>0, <1>9, CancelEndStep DEF CancelEnd
<1>10. CASE Open
  <2>1. registered = {}
    BY <1>0, <1>10 DEF Open, VideoGood, PortInv
  <2>2. CASE port.rate = 0
    BY <1>0, <1>10, <2>1, <2>2, OpenStep DEF Open, VideoIInv
  <2>3. CASE port.rate # 0
    BY <1>0, <1>10, <2>1, <2>3, VideoStutter DEF Open, VideoIInv
  <2> QED BY <2>2, <2>3
<1>11. ASSUME NEW i \in Indexes, GpuFlip(i)
       PROVE  VideoGood' /\ ended' = ended /\ lastOrder' = lastOrder
  BY <1>0, <1>11, GpuFlipStep DEF GpuFlip
<1>12. CASE WaitEnd \/ \E i \in Indexes : WaitBegin(i)
  <2>1. VideoGood'
    BY <1>0, <1>12, WaitStep
  <2>2. ended' = ended /\ lastOrder' = lastOrder
    BY <1>12 DEF WaitEnd, WaitBegin
  <2> QED BY <1>0, <2>1, <2>2 DEF VideoIInv
<1>13. CASE GpuRejected
  BY <1>13, VideoStutter DEF GpuRejected
<1>14. CASE WaitForSubmitSlot
  BY <1>0, <1>14, WaitForSubmitSlotStep DEF WaitForSubmitSlot, VideoIInv
<1>15. CASE TakeJob
  BY <1>0, <1>15, TakeJobStep DEF TakeJob, VideoIInv
<1>16. CASE PrepareBegin
  BY <1>0, <1>16, PrepareBeginStep DEF PrepareBegin, VideoIInv
<1>17. CASE PrepareLook
  BY <1>0, <1>17, PrepareLookStep DEF PrepareLook, VideoIInv
<1>18. CASE PrepareDrop
  BY <1>0, <1>18, PrepareDropStep DEF PrepareDrop, VideoIInv
<1>19. CASE PrepareFrame
  BY <1>0, <1>19, PrepareFrameStep DEF PrepareFrame, VideoIInv
<1>20. CASE GpuComplete1 \/ PriorityComplete1
  <2>1. lastOrder' = lastOrder
    BY <1>20 DEF GpuComplete1, PriorityComplete1, CompleteBegin
  <2> QED BY <1>0, <1>20, <2>1, GpuComplete1Step, PriorityComplete1Step DEF VideoIInv
<1>21. CASE GpuComplete2 \/ PriorityComplete2
  <2>1. lastOrder' = lastOrder
    BY <1>21 DEF GpuComplete2, PriorityComplete2, CompleteEnd
  <2> QED BY <1>0, <1>21, <2>1, GpuComplete2Step, PriorityComplete2Step DEF VideoIInv
<1>22. CASE Vblank
  BY <1>0, <1>22, VblankStep DEF Vblank, VideoIInv
<1>23. CASE FlipBegin
  BY <1>0, <1>23, FlipBeginStep DEF FlipBegin, VideoIInv
<1>24. CASE FlipPresent
  BY <1>0, <1>24, FlipPresentStep DEF FlipPresent, VideoIInv
<1>25. CASE FlipEnd
  BY <1>0, <1>25, FlipEndStep DEF VideoIInv
<1>26. CASE UNCHANGED videoVars
  BY <1>0, <1>26, VideoStutter DEF videoVars
<1>27. ASSUME VideoGood', ended' = ended, lastOrder' = lastOrder
       PROVE  VideoIInv' /\ (lastOrder' # lastOrder => lastOrder' > lastOrder)
  BY <1>0, <1>27 DEF VideoIInv
<1> QED BY <1>1, <1>2, <1>3, <1>4, <1>5, <1>6, <1>7, <1>8, <1>9, <1>10, <1>11, <1>12, <1>13, <1>14,
           <1>15, <1>16, <1>17, <1>18, <1>19, <1>20, <1>21, <1>22, <1>23, <1>24, <1>25, <1>26, <1>27
        DEF VideoNext

\* What the invariant says of the queue.
LEMMA VideoIInvMeans ==
    ASSUME VideoIInv
    PROVE  FlipQueueExact /\ VideoTypeOK
<1>0. VideoGood /\ ended # "Broken"
  BY DEF VideoIInv
<1>1. FlipCountsExact
  BY <1>0 DEF VideoGood, CountInv, FlipCountsExact, Executing
<1>2. \A r \in Everywhere : r.state \in States /\ r.index \in Indexes
  BY <1>0, RequestFields DEF VideoGood
<1>3. port.pending \in 0..Capacity /\ port.gc \in 0..Capacity /\ registered \subseteq Buffers
  BY <1>0 DEF VideoGood, ThreadShape, Ports
<1>4. \A j, k \in DOMAIN requests : requests[j].id = requests[k].id => j = k
  BY <1>0 DEF VideoGood, QueueShape, QueueOK, Distinct
<1>5. VideoTypeOK
  BY <1>0, <1>2, <1>3, <1>4 DEF VideoTypeOK, VideoGood, QueueShape, PlaceInv, CountInv, Everywhere
<1> QED BY <1>0, <1>1, <1>5 DEF FlipQueueExact, FlipQueueSurvives

THEOREM VideoIInvHolds == VideoSpec => []VideoIInv
<1>1. VideoIInv /\ [VideoNext]_videoVars => VideoIInv'
  BY VideoStep
<1> QED BY <1>1, VideoInitGood, PTL DEF VideoSpec

\* In the module that puts the parts side by side, the port behaves as it
\* does alone.
LEMMA VideoAlone == MCSpec => VideoSpec
<1>1. MCInit => VideoInit
  BY DEF MCInit
<1>2. [MCNext]_<<part, trackingVars, cache, rangeVars, videoVars>> => [VideoNext]_videoVars
  <2> SUFFICES ASSUME MCNext PROVE [VideoNext]_videoVars
    BY DEF videoVars
  <2>1. CASE part = "video"
    BY <2>1 DEF MCNext
  <2>2. CASE part # "video"
    BY <2>2 DEF MCNext, Rests
  <2> QED BY <2>1, <2>2
<1> QED BY <1>1, <1>2, PTL DEF MCSpec, VideoSpec

\* For any number of guest threads, buffers, requests and slots, and however
\* often the port is closed and opened: no check of Prepare, Complete, Cancel
\* and Flip fails, and GetFlipStatus reports what is in the queue.
THEOREM FlipQueueIsExact == MCSpec => []FlipQueueExact
<1>1. VideoIInv => FlipQueueExact
  BY VideoIInvMeans
<1> QED BY <1>1, VideoAlone, VideoIInvHolds, PTL

\* The requests are typed, each in one list and once, and never more than
\* the queue has room for.
THEOREM VideoOutIsTyped == VideoSpec => []VideoTypeOK
<1>1. VideoIInv => VideoTypeOK
  BY VideoIInvMeans
<1> QED BY <1>1, VideoIInvHolds, PTL

\* Every flip that is shown was asked for after the one shown before it.
THEOREM FlipsAreShownInOrder == MCSpec => FlipsInOrder
<1>1. VideoIInv /\ [VideoNext]_videoVars
         => [lastOrder' # lastOrder => lastOrder' > lastOrder]_videoVars
  BY VideoStep
<1> QED BY <1>1, VideoAlone, VideoIInvHolds, PTL DEF VideoSpec, FlipsInOrder

-----------------------------------------------------------------------------
(* The buffer cache.                                                        *)

PageOf(u) == u \div UnitsPerPage

\* Every address is in a page and every page has an address.
LEMMA PageFacts ==
    /\ \A u \in Units : PageOf(u) \in TrackerPages
    /\ \A p \in TrackerPages : \E u \in Units : PageOf(u) = p
<1> DEFINE n == UnitsPerPage
<1>0. /\ n \in Nat /\ n > 0 /\ CachePages \in Nat /\ CachePages > 0
      /\ CacheUnits \in Nat /\ (CachePages - 1) * n < CacheUnits /\ CacheUnits <= CachePages * n
  <2>1. n \in Nat /\ n > 0 /\ CachePages \in Nat /\ CachePages > 0
    BY BufferCacheAssumption
  <2>2. (CachePages - 1) * n \in Int /\ CachePages * n \in Int
    BY <2>1
  <2>3. CacheUnits \in ((CachePages - 1) * n + 1)..(CachePages * n)
    BY BufferCacheAssumption
  <2>4. (CachePages - 1) * n >= 0
    BY <2>1
  <2> DEFINE lo == (CachePages - 1) * n
             hi == CachePages * n
  <2>5. lo \in Int /\ hi \in Int /\ lo >= 0 /\ CacheUnits \in (lo + 1)..hi
    BY <2>2, <2>3, <2>4
  <2> HIDE DEF lo, hi
  <2>6. CacheUnits \in Nat /\ lo < CacheUnits /\ CacheUnits <= hi
    BY <2>5
  <2> QED BY <2>1, <2>6 DEF lo, hi
<1>1. ASSUME NEW u \in Units PROVE PageOf(u) \in TrackerPages
  <2>1. u \in Nat /\ u < CachePages * n
    <3>1. u \in 0..(CacheUnits - 1)
      BY <1>1 DEF Units
    <3>2. CachePages * n \in Int
      BY <1>0
    <3> QED BY <1>0, <3>1, <3>2
  <2> DEFINE q == u \div n
  <2>2. q \in Nat /\ q * n <= u
    BY <1>0, <2>1
  <2>3. q * n < CachePages * n
    BY <1>0, <2>1, <2>2
  <2>4. q < CachePages
    <3> SUFFICES ASSUME q >= CachePages PROVE FALSE
      BY <1>0, <2>2
    <3> HIDE DEF q, n
    <3>1. PICK k \in Nat : q = CachePages + k
      <4>1. q - CachePages \in Nat /\ q = CachePages + (q - CachePages)
        BY <1>0, <2>2
      <4> QED BY <4>1
    <3>2. (CachePages + k) * n = CachePages * n + k * n /\ k * n >= 0
      BY <1>0, <3>1
    <3> QED BY <1>0, <2>3, <3>1, <3>2
  <2> QED BY <1>0, <2>2, <2>4 DEF PageOf, TrackerPages
<1>2. ASSUME NEW p \in TrackerPages PROVE \E u \in Units : PageOf(u) = p
  <2>0. p \in Nat /\ p < CachePages
    BY <1>0, <1>2 DEF TrackerPages
  <2> DEFINE u == p * n
  <2>1. u \in Nat
    BY <1>0, <2>0
  <2>2. u < CacheUnits
    <3> HIDE DEF n
    <3>1. PICK k \in Nat : CachePages = p + 1 + k
      <4>1. CachePages - p - 1 \in Nat /\ CachePages = p + 1 + (CachePages - p - 1)
        BY <1>0, <2>0
      <4> QED BY <4>1
    <3>2. (CachePages - 1) * n = p * n + k * n /\ k * n >= 0 /\ p * n \in Nat /\ k * n \in Nat
      <4>1. CachePages - 1 = p + k
        BY <1>0, <2>0, <3>1
      <4>2. (p + k) * n = p * n + k * n /\ k * n >= 0 /\ p * n \in Nat /\ k * n \in Nat
        BY <1>0, <2>0, <3>1
      <4> QED BY <4>1, <4>2
    <3> QED BY <1>0, <3>2
  <2>3. u \div n = p
    BY <1>0, <2>0
  <2>4. u \in Units
    BY <1>0, <2>1, <2>2 DEF Units
  <2> QED BY <2>3, <2>4 DEF PageOf
<1> QED BY <1>1, <1>2

LEMMA InUnits ==
    ASSUME NEW P, NEW u
    PROVE  u \in UnitsIn(P) <=> u \in Units /\ PageOf(u) \in P
BY DEF UnitsIn, PageOf

LEMMA InPages ==
    ASSUME NEW S, NEW p
    PROVE  p \in PagesIn(S) <=> \E u \in S : PageOf(u) = p
BY DEF PagesIn, PageOf

\* A range lies in the pages it has, and these in the blocks it is aligned to.
LEMMA PagesTyped ==
    ASSUME NEW S \in SUBSET Units
    PROVE  /\ PagesIn(S) \in SUBSET TrackerPages /\ Aligned(S) \in SUBSET TrackerPages
           /\ PagesIn(S) \subseteq Aligned(S) /\ \A u \in S : PageOf(u) \in PagesIn(S)
<1>1. \A u \in S : PageOf(u) \in TrackerPages /\ PageOf(u) \in PagesIn(S)
  BY PageFacts, InPages
<1>2. PagesIn(S) \in SUBSET TrackerPages
  BY <1>1, InPages
<1> QED BY <1>1, <1>2 DEF Aligned

-----------------------------------------------------------------------------
Downloads == [pages : SUBSET TrackerPages, copied : SUBSET Units, fresh : SUBSET Units]

Caches ==
    [bufs : SUBSET SUBSET TrackerPages, cpu : SUBSET TrackerPages, gpu : SUBSET TrackerPages,
     modified : SUBSET Units, memory : SUBSET Units, device : SUBSET Units,
     garbage : Seq(Downloads), mapped : SUBSET TrackerPages, bare : SUBSET TrackerPages,
     torn : SUBSET TrackerPages, astray : SUBSET TrackerPages, fatal : CacheEnds]

InBuffer(c, p) == \E b \in c.bufs : p \in b
Leaving(c, p) == \E k \in DOMAIN c.garbage : p \in c.garbage[k].pages

\* Buffers do not overlap, and hold what they are said to; a page that is not
\* the CPU's is in a buffer, or in a download.
BufsInv(c) ==
    /\ \A b, d \in c.bufs : \A p \in b : p \in d => b = d
    /\ \A u \in c.device : InBuffer(c, PageOf(u))
    /\ \A p \in TrackerPages : p \in c.cpu \/ InBuffer(c, p) \/ Leaving(c, p)

\* Dirty pages are those of the modified ranges.
DirtyInv(c) ==
    /\ \A u \in c.modified : PageOf(u) \in c.gpu
    /\ \A p \in c.gpu : p \notin c.cpu /\ \E u \in c.modified : PageOf(u) = p

\* What the tracker does not know of the guest's mappings, is noted.
MappedInv(c) ==
    \A p \in TrackerPages :
        /\ p \notin c.mapped => p \in c.astray
        /\ p \in c.bare => p \in c.astray /\ p \in c.mapped /\ p \notin c.cpu

\* The newest value is where the next reader looks for it.
NewestInv(c) ==
    \A u \in Units : PageOf(u) \notin c.astray =>
        /\ u \in c.memory \/ u \in c.modified
        /\ u \in c.modified => u \in c.device \/ Leaving(c, PageOf(u))
        /\ \/ u \in c.device \/ PageOf(u) \in c.cpu \/ PageOf(u) \in c.torn
           \/ Leaving(c, PageOf(u))

\* A download carries all that is modified on its pages, and all of it new,
\* and nobody else has these pages.
GarbageInv(c) ==
    \A k \in DOMAIN c.garbage :
        /\ \A u \in c.garbage[k].copied : PageOf(u) \in c.garbage[k].pages
        /\ \A p \in c.garbage[k].pages : p \notin c.astray =>
              /\ ~InBuffer(c, p)
              /\ \A u \in Units : PageOf(u) = p =>
                    /\ u \in c.garbage[k].copied <=> u \in c.modified
                    /\ u \in c.garbage[k].fresh <=> u \in c.garbage[k].copied
              /\ \A j \in DOMAIN c.garbage : p \in c.garbage[j].pages => j = k

Coherent(c) ==
    c \in Caches /\ BufsInv(c) /\ DirtyInv(c) /\ MappedInv(c) /\ NewestInv(c) /\ GarbageInv(c)

\* The checks that may end the program.
Survives(c) ==
    /\ c.fatal # "Owned"
    /\ c.fatal = "NoOwner" => \E p \in c.gpu : Leaving(c, p)
    /\ c.fatal = "Retained" => \E p \in c.astray : Leaving(c, p)

CacheIInv == Coherent(cache) /\ Survives(cache)

LEMMA LeavingIsCollected ==
    ASSUME NEW c, NEW p
    PROVE  p \in Collected(c) <=> Leaving(c, p)
BY DEF Collected, Leaving

LEMMA CollectedTyped ==
    ASSUME NEW c, c \in Caches
    PROVE  Collected(c) \in SUBSET TrackerPages
<1>1. c.garbage \in Seq(Downloads)
  BY DEF Caches
<1>2. \A k \in DOMAIN c.garbage : c.garbage[k] \in Downloads
  BY <1>1
<1>3. \A p \in Collected(c) : p \in TrackerPages
  BY <1>2, LeavingIsCollected DEF Leaving, Downloads
<1> QED BY <1>3

LEMMA InCovered ==
    ASSUME NEW c, NEW p
    PROVE  p \in Covered(c) <=> InBuffer(c, p)
BY DEF Covered, InBuffer

\* The end of the program changes nothing else.
LEMMA EndsFacts ==
    ASSUME NEW c, Coherent(c), NEW why \in {"Backing", "Cached"}
    PROVE  Coherent(Ends(c, why)) /\ Survives(Ends(c, why)) /\ Ends(c, why).fatal # "No"
<1> DEFINE d == Ends(c, why)
<1>0. c \in Caches
  BY DEF Coherent
<1>1. /\ d.bufs = c.bufs /\ d.garbage = c.garbage /\ d.gpu = c.gpu /\ d.modified = c.modified
      /\ d.memory = c.memory /\ d.cpu = c.cpu /\ d.device = c.device /\ d.mapped = c.mapped
      /\ d.bare = c.bare /\ d.torn = c.torn /\ d.astray = c.astray /\ d.fatal = why
      /\ d \in Caches
  BY <1>0 DEF Ends, Caches, CacheEnds
<1> HIDE DEF d
<1> QED BY <1>0, <1>1 DEF d, Coherent, BufsInv, DirtyInv, MappedInv, NewestInv, GarbageInv, Survives,
                         InBuffer, Leaving

LEMMA EndsWithReason ==
    ASSUME NEW c, Coherent(c), NEW why \in {"NoOwner", "Retained"},
           why = "NoOwner" => \E p \in c.gpu : Leaving(c, p),
           why = "Retained" => \E p \in c.astray : Leaving(c, p)
    PROVE  Coherent(Ends(c, why)) /\ Survives(Ends(c, why)) /\ Ends(c, why).fatal # "No"
<1> DEFINE d == Ends(c, why)
<1>0. c \in Caches
  BY DEF Coherent
<1>1. /\ d.bufs = c.bufs /\ d.garbage = c.garbage /\ d.gpu = c.gpu /\ d.modified = c.modified
      /\ d.memory = c.memory /\ d.cpu = c.cpu /\ d.device = c.device /\ d.mapped = c.mapped
      /\ d.bare = c.bare /\ d.torn = c.torn /\ d.astray = c.astray /\ d.fatal = why
      /\ d \in Caches
  BY <1>0 DEF Ends, Caches, CacheEnds
<1> HIDE DEF d
<1>2. Coherent(d)
  BY <1>0, <1>1 DEF Coherent, BufsInv, DirtyInv, MappedInv, NewestInv, GarbageInv, InBuffer, Leaving
<1>3. Survives(d)
  BY <1>1 DEF Survives, Leaving
<1> QED BY <1>1, <1>2, <1>3 DEF d

\* What is left of the program once it has not ended.
LEMMA StillRunning ==
    ASSUME NEW c, c.fatal = "No"
    PROVE  Survives(c)
BY DEF Survives

\* The pages a buffer and a download share went astray.
LEMMA NotBoth ==
    ASSUME NEW c, Coherent(c), NEW p, p \notin c.astray, InBuffer(c, p)
    PROVE  ~Leaving(c, p)
BY DEF Coherent, GarbageInv, Leaving

\* Pages of the CPU that are in a buffer are taken up, whatever was copied.
LEMMA TakeUpFacts ==
    ASSUME NEW c, Coherent(c), NEW D \in SUBSET TrackerPages, NEW X \in SUBSET Units,
           \A p \in D : p \in c.cpu /\ InBuffer(c, p),
           \A u \in Units : PageOf(u) \notin D => (u \in X <=> u \in c.device)
    PROVE  LET d == TakeUp([c EXCEPT !.device = X], D)
           IN  /\ Coherent(d) /\ d.cpu = c.cpu \ D
               /\ d.bufs = c.bufs /\ d.garbage = c.garbage /\ d.gpu = c.gpu
               /\ d.modified = c.modified /\ d.mapped = c.mapped /\ d.fatal = c.fatal
               /\ d.astray \subseteq c.astray
<1> DEFINE x == [c EXCEPT !.device = X]
           A == {p \in (D \cap x.mapped) \ Collected(x) :
                    UnitsIn({p}) \subseteq x.device \cap x.memory}
           T == {p \in D : ~(UnitsIn({p}) \subseteq x.device)}
           d == TakeUp(x, D)
<1>0. c \in Caches /\ BufsInv(c) /\ DirtyInv(c) /\ MappedInv(c) /\ NewestInv(c) /\ GarbageInv(c)
  BY DEF Coherent
<1>1. /\ x.bufs = c.bufs /\ x.garbage = c.garbage /\ x.gpu = c.gpu /\ x.modified = c.modified
      /\ x.memory = c.memory /\ x.cpu = c.cpu /\ x.device = X /\ x.mapped = c.mapped
      /\ x.bare = c.bare /\ x.torn = c.torn /\ x.astray = c.astray /\ x.fatal = c.fatal
      /\ x \in Caches
  BY <1>0 DEF Caches
<1>2. \A p : p \in A <=> /\ p \in D /\ p \in c.mapped /\ ~Leaving(c, p)
                         /\ \A u \in Units : PageOf(u) = p => u \in X /\ u \in c.memory
  <2>1. \A p : p \in Collected(x) <=> Leaving(c, p)
    BY <1>1, LeavingIsCollected DEF Leaving
  <2>2. \A p : UnitsIn({p}) \subseteq x.device \cap x.memory
                 <=> \A u \in Units : PageOf(u) = p => u \in X /\ u \in c.memory
    BY <1>1, InUnits
  <2> QED BY <1>1, <2>1, <2>2
<1>3. \A p : p \in T <=> p \in D /\ \E u \in Units : PageOf(u) = p /\ u \notin X
  BY <1>1, InUnits
<1>4. d = [x EXCEPT !.cpu = @ \ D, !.torn = @ \cup T, !.astray = @ \ A]
  BY DEF TakeUp
<1>5. T \subseteq D
  OBVIOUS
<1> HIDE DEF x, A, T, d
<1>6. /\ d.bufs = c.bufs /\ d.garbage = c.garbage /\ d.gpu = c.gpu /\ d.modified = c.modified
      /\ d.memory = c.memory /\ d.cpu = c.cpu \ D /\ d.device = X /\ d.mapped = c.mapped
      /\ d.bare = c.bare /\ d.torn = c.torn \cup T /\ d.astray = c.astray \ A /\ d.fatal = c.fatal
      /\ d \in Caches
  BY <1>0, <1>1, <1>4, <1>5 DEF Caches
<1>7. \A p : (InBuffer(d, p) <=> InBuffer(c, p)) /\ (Leaving(d, p) <=> Leaving(c, p))
  BY <1>6 DEF InBuffer, Leaving
<1>8. BufsInv(d)
  <2>1. \A u \in X : InBuffer(c, PageOf(u))
    BY <1>0 DEF BufsInv
  <2> QED BY <1>0, <1>6, <1>7, <2>1 DEF BufsInv
<1>9. DirtyInv(d)
  BY <1>0, <1>6 DEF DirtyInv
<1>10. MappedInv(d)
  BY <1>0, <1>2, <1>6 DEF MappedInv
<1>11. NewestInv(d)
  <2> SUFFICES ASSUME NEW u \in Units, PageOf(u) \notin d.astray
               PROVE  /\ u \in d.memory \/ u \in d.modified
                      /\ u \in d.modified => u \in d.device \/ Leaving(d, PageOf(u))
                      /\ \/ u \in d.device \/ PageOf(u) \in d.cpu \/ PageOf(u) \in d.torn
                         \/ Leaving(d, PageOf(u))
    BY DEF NewestInv
  <2>1. CASE PageOf(u) \in D
    <3>1. u \notin c.modified
      BY <1>0, <2>1 DEF DirtyInv
    <3>2. u \in c.memory
      BY <1>0, <1>2, <1>6, <3>1 DEF NewestInv
    <3>3. u \in X \/ PageOf(u) \in T
      BY <1>3, <2>1
    <3> QED BY <1>6, <3>1, <3>2, <3>3
  <2>2. CASE PageOf(u) \notin D
    <3>1. PageOf(u) \notin c.astray
      BY <1>2, <1>6, <2>2
    <3> QED BY <1>0, <1>6, <1>7, <2>2, <3>1 DEF NewestInv
  <2> QED BY <2>1, <2>2
<1>12. GarbageInv(d)
  <2>1. \A k \in DOMAIN c.garbage : \A p \in c.garbage[k].pages : p \notin A
    BY <1>2 DEF Leaving
  <2> QED BY <1>0, <1>6, <1>7, <2>1 DEF GarbageInv
<1> QED BY <1>6, <1>8, <1>9, <1>10, <1>11, <1>12 DEF Coherent, d, x

LEMMA UploadFacts ==
    ASSUME NEW c, Coherent(c), NEW Q \in SUBSET SUBSET TrackerPages,
           \A p \in UNION Q : InBuffer(c, p)
    PROVE  LET d == Upload(c, Q)
           IN  /\ Coherent(d) /\ d.cpu = c.cpu \ UNION Q
               /\ d.bufs = c.bufs /\ d.garbage = c.garbage /\ d.gpu = c.gpu
               /\ d.modified = c.modified /\ d.mapped = c.mapped /\ d.fatal = c.fatal
               /\ d.astray \subseteq c.astray
<1> DEFINE D == (UNION Q) \cap c.cpu
           R == {p \in D : \E P \in Q : p \in P /\ Run(P \cap c.cpu, p) \subseteq c.mapped}
           U == UnitsIn(R)
           X == (c.device \ U) \cup (U \cap c.memory)
<1>1. Upload(c, Q) = TakeUp([c EXCEPT !.device = X], D)
  BY DEF Upload
<1>2. c \in Caches /\ D \in SUBSET TrackerPages /\ R \subseteq D
  BY DEF Coherent
<1> HIDE DEF R
<1>3. \A u : u \in U => u \in Units /\ PageOf(u) \in D
  BY <1>2, InUnits
<1>4. X \in SUBSET Units
  BY <1>2, <1>3 DEF Caches
<1>5. \A u \in Units : PageOf(u) \notin D => (u \in X <=> u \in c.device)
  BY <1>3
<1>6. \A p \in D : p \in c.cpu /\ InBuffer(c, p)
  OBVIOUS
<1>7. c.cpu \ D = c.cpu \ UNION Q
  OBVIOUS
<1> HIDE DEF D, X
<1> DEFINE e == TakeUp([c EXCEPT !.device = X], D)
<1>8. /\ Coherent(e) /\ e.cpu = c.cpu \ D
      /\ e.bufs = c.bufs /\ e.garbage = c.garbage /\ e.gpu = c.gpu
      /\ e.modified = c.modified /\ e.mapped = c.mapped /\ e.fatal = c.fatal
      /\ e.astray \subseteq c.astray
  BY <1>2, <1>4, <1>5, <1>6, TakeUpFacts
<1> HIDE DEF e
<1> QED BY <1>1, <1>7, <1>8 DEF e

\* A download a buffer is laid over went astray.
LEMMA MergeFacts ==
    ASSUME NEW c, Coherent(c), NEW S \in SUBSET Units
    PROVE  LET d == Merge(c, S)
           IN  /\ Coherent(d) /\ HasOwner(d, S) /\ d.cpu = c.cpu /\ d.memory = c.memory
               /\ d.garbage = c.garbage /\ d.gpu = c.gpu /\ d.modified = c.modified
               /\ d.mapped = c.mapped /\ d.fatal = c.fatal
<1> DEFINE d == Merge(c, S)
           O == Overlaps(c, S)
           m == Aligned(S) \cup UNION O
<1>0. c \in Caches /\ BufsInv(c) /\ DirtyInv(c) /\ MappedInv(c) /\ NewestInv(c) /\ GarbageInv(c)
  BY DEF Coherent
<1>1. O \subseteq c.bufs /\ Aligned(S) \subseteq TrackerPages /\ c.bufs \in SUBSET SUBSET TrackerPages
  BY <1>0, PagesTyped DEF Overlaps, Caches
<1>2. m \in SUBSET TrackerPages
  BY <1>1
<1>3. d = [c EXCEPT !.bufs = (@ \ O) \cup {m}, !.astray = @ \cup (Aligned(S) \cap Collected(c))]
  BY DEF Merge
<1>4. \A b \in c.bufs : b \in O \/ \A p \in b : p \notin Aligned(S)
  BY DEF Overlaps
<1>5. \A p : p \in m <=> p \in Aligned(S) \/ \E b \in O : p \in b
  OBVIOUS
<1> HIDE DEF d, O, m
<1>6. /\ d.bufs = (c.bufs \ O) \cup {m} /\ d.garbage = c.garbage /\ d.gpu = c.gpu
      /\ d.modified = c.modified /\ d.memory = c.memory /\ d.cpu = c.cpu /\ d.device = c.device
      /\ d.mapped = c.mapped /\ d.bare = c.bare /\ d.torn = c.torn
      /\ d.astray = c.astray \cup (Aligned(S) \cap Collected(c)) /\ d.fatal = c.fatal
      /\ d \in Caches
  BY <1>0, <1>1, <1>2, <1>3 DEF Caches
<1>7. \A p : InBuffer(d, p) <=> InBuffer(c, p) \/ p \in Aligned(S)
  BY <1>1, <1>5, <1>6 DEF InBuffer
<1>8. \A p : Leaving(d, p) <=> Leaving(c, p)
  BY <1>6 DEF Leaving
<1>9. \A p : p \in d.astray <=> p \in c.astray \/ (p \in Aligned(S) /\ Leaving(c, p))
  BY <1>6, LeavingIsCollected
<1>10. BufsInv(d)
  <2>1. ASSUME NEW a \in d.bufs, NEW b \in d.bufs, NEW p \in a, p \in b PROVE a = b
    <3>1. \A y \in c.bufs \ O : p \in y => p \notin m
      BY <1>0, <1>1, <1>4, <1>5 DEF BufsInv
    <3>2. (a \in c.bufs \ O \/ a = m) /\ (b \in c.bufs \ O \/ b = m)
      BY <1>6
    <3> QED BY <1>0, <2>1, <3>1, <3>2 DEF BufsInv
  <2> QED BY <1>0, <1>6, <1>7, <1>8, <2>1 DEF BufsInv
<1>11. DirtyInv(d)
  BY <1>0, <1>6 DEF DirtyInv
<1>12. MappedInv(d)
  BY <1>0, <1>6, <1>9 DEF MappedInv
<1>13. NewestInv(d)
  BY <1>0, <1>6, <1>8, <1>9 DEF NewestInv
<1>14. GarbageInv(d)
  <2>1. \A k \in DOMAIN c.garbage : \A p \in c.garbage[k].pages :
            p \notin d.astray => p \notin c.astray /\ p \notin Aligned(S)
    BY <1>9 DEF Leaving
  <2> QED BY <1>0, <1>6, <1>7, <2>1 DEF GarbageInv
<1>15. HasOwner(d, S)
  <2>1. \A u \in S : u \in UnitsIn(m)
    BY PagesTyped, InUnits, <1>5
  <2> QED BY <1>6, <2>1 DEF HasOwner
<1> QED BY <1>6, <1>10, <1>11, <1>12, <1>13, <1>14, <1>15 DEF Coherent, d

\* The range a buffer holds.
LEMMA OwnerFacts ==
    ASSUME NEW c, NEW S, HasOwner(c, S)
    PROVE  \A p \in PagesIn(S) : InBuffer(c, p)
BY InUnits, InPages DEF HasOwner, InBuffer

LEMMA GetFacts ==
    ASSUME NEW c, Coherent(c), NEW S \in SUBSET Units
    PROVE  LET d == GetOrCreateBuffer(c, S)
           IN  /\ Coherent(d) /\ \A p \in PagesIn(S) : InBuffer(d, p)
               /\ d.gpu = c.gpu /\ d.modified = c.modified /\ d.fatal = c.fatal
<1>1. CASE HasOwner(c, S)
  BY <1>1, OwnerFacts DEF GetOrCreateBuffer
<1>2. CASE ~HasOwner(c, S)
  <2> DEFINE Q == Overlaps(c, S)
             e == Upload(c, Q)
  <2>1. Q \in SUBSET SUBSET TrackerPages /\ \A p \in UNION Q : InBuffer(c, p)
    BY DEF Overlaps, InBuffer, Coherent, Caches
  <2>2. GetOrCreateBuffer(c, S) = Merge(e, S)
    BY <1>2 DEF GetOrCreateBuffer
  <2> HIDE DEF Q
  <2>3. Coherent(e) /\ e.gpu = c.gpu /\ e.modified = c.modified /\ e.fatal = c.fatal
    BY <2>1, UploadFacts
  <2> HIDE DEF e
  <2> QED BY <2>2, <2>3, MergeFacts, OwnerFacts
<1> QED BY <1>1, <1>2

\* A range that has a buffer is brought up to date.
LEMMA BroughtUp ==
    ASSUME NEW c, Coherent(c), NEW S \in SUBSET Units
    PROVE  LET d == Upload(GetOrCreateBuffer(c, S), {PagesIn(S)})
           IN  /\ Coherent(d) /\ \A p \in PagesIn(S) : InBuffer(d, p) /\ p \notin d.cpu
               /\ d.gpu = c.gpu /\ d.modified = c.modified /\ d.fatal = c.fatal
<1> DEFINE g == GetOrCreateBuffer(c, S)
           Q == {PagesIn(S)}
<1>1. /\ Coherent(g) /\ \A p \in PagesIn(S) : InBuffer(g, p)
      /\ g.gpu = c.gpu /\ g.modified = c.modified /\ g.fatal = c.fatal
  BY GetFacts
<1>2. UNION Q = PagesIn(S) /\ Q \in SUBSET SUBSET TrackerPages
  BY PagesTyped
<1> HIDE DEF g, Q
<1> DEFINE d == Upload(g, Q)
<1>3. /\ Coherent(d) /\ d.cpu = g.cpu \ UNION Q /\ d.bufs = g.bufs /\ d.gpu = g.gpu
      /\ d.modified = g.modified /\ d.fatal = g.fatal
  BY <1>1, <1>2, UploadFacts
<1> HIDE DEF d
<1>4. \A p \in PagesIn(S) : InBuffer(d, p) /\ p \notin d.cpu
  BY <1>1, <1>2, <1>3 DEF InBuffer
<1> QED BY <1>1, <1>3, <1>4 DEF d, g, Q

LEMMA ReadFacts ==
    ASSUME NEW c, Coherent(c), NEW S \in SUBSET Units
    PROVE  Coherent(ObtainForRead(c, S)) /\ ObtainForRead(c, S).fatal = c.fatal
BY BroughtUp DEF ObtainForRead

\* New values make old what a download of their pages carries.
LEMMA OutdateFacts ==
    ASSUME NEW c, c \in Caches, NEW W \in SUBSET Units
    PROVE  LET d == Outdate(c, W)
           IN  /\ d \in Caches /\ d.bufs = c.bufs /\ d.gpu = c.gpu /\ d.modified = c.modified
               /\ d.memory = c.memory /\ d.cpu = c.cpu /\ d.device = c.device
               /\ d.mapped = c.mapped /\ d.bare = c.bare /\ d.torn = c.torn
               /\ d.astray = c.astray /\ d.fatal = c.fatal
               /\ DOMAIN d.garbage = DOMAIN c.garbage
               /\ \A k \in DOMAIN c.garbage :
                     /\ d.garbage[k].pages = c.garbage[k].pages
                     /\ d.garbage[k].copied = c.garbage[k].copied
                     /\ d.garbage[k].fresh = c.garbage[k].fresh \ W
               /\ \A p : (Leaving(d, p) <=> Leaving(c, p)) /\ (InBuffer(d, p) <=> InBuffer(c, p))
<1> DEFINE d == Outdate(c, W)
           G == c.garbage
           H == [k \in DOMAIN G |-> [G[k] EXCEPT !.fresh = @ \ W]]
<1>1. G \in Seq(Downloads) /\ Len(G) \in Nat /\ DOMAIN G = 1..Len(G)
  BY DEF Caches
<1>2. \A k \in DOMAIN G : G[k] \in Downloads
  BY <1>1
<1>3. ASSUME NEW k \in DOMAIN G
      PROVE  /\ H[k] \in Downloads /\ H[k].pages = G[k].pages /\ H[k].copied = G[k].copied
             /\ H[k].fresh = G[k].fresh \ W
  BY <1>2 DEF Downloads
<1>4. DOMAIN H = DOMAIN G
  OBVIOUS
<1>5. H \in Seq(Downloads)
  <2>1. H \in [1..Len(G) -> Downloads]
    BY <1>1, <1>3
  <2> HIDE DEF H
  <2> QED BY <1>1, <2>1
<1>6. d = [c EXCEPT !.garbage = H]
  BY DEF Outdate
<1> HIDE DEF d, H
<1>7. /\ d \in Caches /\ d.bufs = c.bufs /\ d.gpu = c.gpu /\ d.modified = c.modified
      /\ d.memory = c.memory /\ d.cpu = c.cpu /\ d.device = c.device
      /\ d.mapped = c.mapped /\ d.bare = c.bare /\ d.torn = c.torn
      /\ d.astray = c.astray /\ d.fatal = c.fatal /\ d.garbage = H
  BY <1>5, <1>6 DEF Caches
<1>8. \A p : (Leaving(d, p) <=> Leaving(c, p)) /\ (InBuffer(d, p) <=> InBuffer(c, p))
  BY <1>3, <1>4, <1>7 DEF Leaving, InBuffer
<1> QED BY <1>3, <1>4, <1>7, <1>8 DEF d

LEMMA WriteFacts ==
    ASSUME NEW c, Coherent(c), NEW S \in SUBSET Units, NEW W \in SUBSET S
    PROVE  Coherent(ObtainForWrite(c, S, W)) /\ ObtainForWrite(c, S, W).fatal = c.fatal
<1> DEFINE e == Upload(GetOrCreateBuffer(c, S), {PagesIn(S)})
           A == PagesIn(S \ (e.device \cup W))
           x == [e EXCEPT !.gpu = @ \cup PagesIn(S), !.modified = @ \cup S,
                          !.device = @ \cup W, !.memory = @ \ W, !.astray = @ \cup A]
           d == Outdate(x, W)
<1>1. /\ Coherent(e) /\ \A p \in PagesIn(S) : InBuffer(e, p) /\ p \notin e.cpu
      /\ e.fatal = c.fatal
  BY BroughtUp
<1>2. PagesIn(S) \in SUBSET TrackerPages /\ \A u \in S : PageOf(u) \in PagesIn(S)
  BY PagesTyped
<1>3. ObtainForWrite(c, S, W) = d
  BY DEF ObtainForWrite
<1> HIDE DEF e
<1>4. e \in Caches /\ BufsInv(e) /\ DirtyInv(e) /\ MappedInv(e) /\ NewestInv(e) /\ GarbageInv(e)
  BY <1>1 DEF Coherent
<1>5. /\ A \in SUBSET TrackerPages
      /\ \A u \in S : PageOf(u) \notin A => u \in e.device \/ u \in W
  <2>1. S \ (e.device \cup W) \in SUBSET Units
    OBVIOUS
  <2> QED BY <2>1, PagesTyped
<1> HIDE DEF A
<1>6. /\ x.gpu = e.gpu \cup PagesIn(S) /\ x.modified = e.modified \cup S
      /\ x.device = e.device \cup W /\ x.memory = e.memory \ W
      /\ x.bufs = e.bufs /\ x.cpu = e.cpu /\ x.garbage = e.garbage /\ x.mapped = e.mapped
      /\ x.bare = e.bare /\ x.torn = e.torn /\ x.astray = e.astray \cup A /\ x.fatal = e.fatal
      /\ x \in Caches
  BY <1>2, <1>4, <1>5 DEF Caches
<1> HIDE DEF x
<1>7. /\ d.gpu = x.gpu /\ d.modified = x.modified /\ d.device = x.device /\ d.memory = x.memory
      /\ d.bufs = x.bufs /\ d.cpu = x.cpu /\ d.mapped = x.mapped /\ d.bare = x.bare
      /\ d.torn = x.torn /\ d.astray = x.astray /\ d.fatal = x.fatal /\ d \in Caches
      /\ DOMAIN d.garbage = DOMAIN x.garbage
      /\ \A k \in DOMAIN x.garbage : /\ d.garbage[k].pages = x.garbage[k].pages
                                     /\ d.garbage[k].copied = x.garbage[k].copied
                                     /\ d.garbage[k].fresh = x.garbage[k].fresh \ W
      /\ \A p : (Leaving(d, p) <=> Leaving(x, p)) /\ (InBuffer(d, p) <=> InBuffer(x, p))
  BY <1>6, OutdateFacts
<1> HIDE DEF d
<1>8. \A p : (InBuffer(d, p) <=> InBuffer(e, p)) /\ (Leaving(d, p) <=> Leaving(e, p))
  BY <1>6, <1>7 DEF InBuffer, Leaving
<1>9. \A p \in PagesIn(S) : p \notin e.astray => ~Leaving(e, p)
  BY <1>1, NotBoth
<1>10. BufsInv(d)
  BY <1>1, <1>2, <1>4, <1>6, <1>7, <1>8 DEF BufsInv
<1>11. DirtyInv(d)
  <2>1. \A p \in PagesIn(S) : p \notin e.cpu /\ \E u \in S : PageOf(u) = p
    BY <1>1, InPages
  <2> QED BY <1>2, <1>4, <1>6, <1>7, <2>1 DEF DirtyInv
<1>12. MappedInv(d)
  BY <1>4, <1>6, <1>7 DEF MappedInv
<1>13. NewestInv(d)
  BY <1>2, <1>4, <1>5, <1>6, <1>7, <1>8 DEF NewestInv
<1>14. GarbageInv(d)
  <2>1. \A k \in DOMAIN e.garbage : \A p \in e.garbage[k].pages :
            p \notin d.astray => p \notin e.astray /\ p \notin PagesIn(S)
    BY <1>6, <1>7, <1>9 DEF Leaving
  <2>2. \A k \in DOMAIN e.garbage : \A p \in e.garbage[k].pages : p \notin d.astray =>
            \A u \in Units : PageOf(u) = p => u \notin S /\ u \notin W
    BY <1>2, <2>1
  <2> QED BY <1>4, <1>6, <1>7, <1>8, <2>1, <2>2 DEF GarbageInv
<1> QED BY <1>1, <1>3, <1>6, <1>7, <1>10, <1>11, <1>12, <1>13, <1>14 DEF Coherent

\* The host writes where the GPU has modified nothing.
LEMMA HostWriteFacts ==
    ASSUME NEW c, Coherent(c), c.fatal = "No", NEW S \in SUBSET Units, S \cap c.modified = {}
    PROVE  Coherent(HostWrite(c, S)) /\ Survives(HostWrite(c, S))
<1> DEFINE x == [c EXCEPT !.memory = @ \cup S, !.device = @ \cup (S \cap UnitsIn(Covered(c)))]
           d == Outdate(x, S)
<1>1. CASE ~Backed(c, S)
  BY <1>1, EndsFacts DEF HostWrite
<1>2. CASE Backed(c, S)
  <2>1. HostWrite(c, S) = d
    BY <1>2 DEF HostWrite
  <2>2. c \in Caches /\ BufsInv(c) /\ DirtyInv(c) /\ MappedInv(c) /\ NewestInv(c) /\ GarbageInv(c)
    BY DEF Coherent
  <2>3. \A u : u \in UnitsIn(Covered(c)) <=> u \in Units /\ InBuffer(c, PageOf(u))
    BY InUnits, InCovered
  <2>4. /\ x.memory = c.memory \cup S /\ x.device = c.device \cup (S \cap UnitsIn(Covered(c)))
        /\ x.gpu = c.gpu /\ x.modified = c.modified /\ x.bufs = c.bufs /\ x.cpu = c.cpu
        /\ x.garbage = c.garbage /\ x.mapped = c.mapped /\ x.bare = c.bare /\ x.torn = c.torn
        /\ x.astray = c.astray /\ x.fatal = c.fatal /\ x \in Caches
    BY <2>2 DEF Caches
  <2> HIDE DEF x
  <2>5. /\ d.gpu = x.gpu /\ d.modified = x.modified /\ d.device = x.device /\ d.memory = x.memory
        /\ d.bufs = x.bufs /\ d.cpu = x.cpu /\ d.mapped = x.mapped /\ d.bare = x.bare
        /\ d.torn = x.torn /\ d.astray = x.astray /\ d.fatal = x.fatal /\ d \in Caches
        /\ DOMAIN d.garbage = DOMAIN x.garbage
        /\ \A k \in DOMAIN x.garbage : /\ d.garbage[k].pages = x.garbage[k].pages
                                       /\ d.garbage[k].copied = x.garbage[k].copied
                                       /\ d.garbage[k].fresh = x.garbage[k].fresh \ S
        /\ \A p : (Leaving(d, p) <=> Leaving(x, p)) /\ (InBuffer(d, p) <=> InBuffer(x, p))
    BY <2>4, OutdateFacts
  <2> HIDE DEF d
  <2>6. \A p : (InBuffer(d, p) <=> InBuffer(c, p)) /\ (Leaving(d, p) <=> Leaving(c, p))
    BY <2>4, <2>5 DEF InBuffer, Leaving
  <2>7. BufsInv(d)
    BY <2>2, <2>3, <2>4, <2>5, <2>6 DEF BufsInv
  <2>8. DirtyInv(d) /\ MappedInv(d)
    BY <2>2, <2>4, <2>5 DEF DirtyInv, MappedInv
  <2>9. NewestInv(d)
    BY <2>2, <2>4, <2>5, <2>6 DEF NewestInv
  <2>10. GarbageInv(d)
    <3>1. \A u \in S : u \notin c.modified
      OBVIOUS
    <3> QED BY <2>2, <2>4, <2>5, <2>6, <3>1 DEF GarbageInv
  <2> QED BY <2>1, <2>4, <2>5, <2>7, <2>8, <2>9, <2>10, StillRunning DEF Coherent
<1> QED BY <1>1, <1>2

\* What the GPU modified and no buffer covers is in a download.
LEMMA OwnerOrLeaving ==
    ASSUME NEW c, Coherent(c), NEW u \in Units, u \in c.modified, ~InBuffer(c, PageOf(u))
    PROVE  PageOf(u) \in c.gpu /\ Leaving(c, PageOf(u))
BY PageFacts DEF Coherent, BufsInv, DirtyInv

\* A store the host allows is to a page the CPU has modified, or to one that
\* was mapped although the tracker took it for watched.
LEMMA StoredFacts ==
    ASSUME NEW c, Coherent(c), NEW W \in SUBSET Units,
           \A u \in W : PageOf(u) \in c.cpu \/ PageOf(u) \in c.bare
    PROVE  LET d == Stored(c, W)
           IN  Coherent(d) /\ d.fatal = c.fatal /\ d.cpu = c.cpu /\ d.bufs = c.bufs
<1> DEFINE x == [c EXCEPT !.memory = @ \cup W, !.device = @ \ W]
           d == Outdate(x, W)
<1>0. c \in Caches /\ BufsInv(c) /\ DirtyInv(c) /\ MappedInv(c) /\ NewestInv(c) /\ GarbageInv(c)
  BY DEF Coherent
<1>1. Stored(c, W) = d
  BY DEF Stored
<1>2. \A u \in W : PageOf(u) \notin c.astray => PageOf(u) \in c.cpu /\ u \notin c.modified
  BY <1>0, PageFacts DEF MappedInv, DirtyInv
<1>3. /\ x.memory = c.memory \cup W /\ x.device = c.device \ W
      /\ x.gpu = c.gpu /\ x.modified = c.modified /\ x.bufs = c.bufs /\ x.cpu = c.cpu
      /\ x.garbage = c.garbage /\ x.mapped = c.mapped /\ x.bare = c.bare /\ x.torn = c.torn
      /\ x.astray = c.astray /\ x.fatal = c.fatal /\ x \in Caches
  BY <1>0 DEF Caches
<1> HIDE DEF x
<1>4. /\ d.gpu = x.gpu /\ d.modified = x.modified /\ d.device = x.device /\ d.memory = x.memory
      /\ d.bufs = x.bufs /\ d.cpu = x.cpu /\ d.mapped = x.mapped /\ d.bare = x.bare
      /\ d.torn = x.torn /\ d.astray = x.astray /\ d.fatal = x.fatal /\ d \in Caches
      /\ DOMAIN d.garbage = DOMAIN x.garbage
      /\ \A k \in DOMAIN x.garbage : /\ d.garbage[k].pages = x.garbage[k].pages
                                     /\ d.garbage[k].copied = x.garbage[k].copied
                                     /\ d.garbage[k].fresh = x.garbage[k].fresh \ W
      /\ \A p : (Leaving(d, p) <=> Leaving(x, p)) /\ (InBuffer(d, p) <=> InBuffer(x, p))
  BY <1>3, OutdateFacts
<1> HIDE DEF d
<1>5. \A p : (InBuffer(d, p) <=> InBuffer(c, p)) /\ (Leaving(d, p) <=> Leaving(c, p))
  BY <1>3, <1>4 DEF InBuffer, Leaving
<1>6. BufsInv(d)
  BY <1>0, <1>3, <1>4, <1>5 DEF BufsInv
<1>7. DirtyInv(d) /\ MappedInv(d)
  BY <1>0, <1>3, <1>4 DEF DirtyInv, MappedInv
<1>8. NewestInv(d)
  BY <1>0, <1>2, <1>3, <1>4, <1>5 DEF NewestInv
<1>9. GarbageInv(d)
  BY <1>0, <1>2, <1>3, <1>4, <1>5 DEF GarbageInv
<1> QED BY <1>1, <1>3, <1>4, <1>6, <1>7, <1>8, <1>9 DEF Coherent

\* An image is staged: its CPU-modified pages are taken up, and hold what was
\* copied of them.
LEMMA ImageFacts ==
    ASSUME NEW c, Coherent(c), c.fatal = "No", NEW S \in SUBSET Units, NEW D,
           NEW late \in SUBSET UnitsIn(PagesIn(S) \cap c.cpu)
    PROVE  Coherent(ImageSource(c, S, D, late)) /\ Survives(ImageSource(c, S, D, late))
<1> DEFINE dirty == S \cap c.modified # {}
           m == IF dirty /\ ~HasOwner(c, S) THEN Merge(c, S) ELSE c
<1>1. Coherent(m) /\ m.fatal = "No"
  BY MergeFacts
<1>2. CASE dirty /\ ~HasOwner(c, S) /\ Overlaps(c, S) = {}
  <2>1. PICK u \in S : u \in c.modified
    BY <1>2
  <2>2. PageOf(u) \in Aligned(S)
    BY PagesTyped
  <2>3. ~InBuffer(c, PageOf(u))
    BY <1>2, <2>2 DEF Overlaps, InBuffer
  <2>4. \E p \in c.gpu : Leaving(c, p)
    BY <2>1, <2>3, OwnerOrLeaving
  <2>5. ImageSource(c, S, D, late) = Ends(c, "NoOwner")
    BY <1>2 DEF ImageSource
  <2> QED BY <2>4, <2>5, EndsWithReason
<1>3. CASE ~(dirty /\ ~HasOwner(c, S) /\ Overlaps(c, S) = {})
  <2>1. \/ ImageSource(c, S, D, late) = m
        \/ ImageSource(c, S, D, late) = Ends(c, "Backing")
        \/ HasOwner(m, S) /\ ImageSource(c, S, D, late) = StageImage(m, S, D, late)
    BY <1>3 DEF ImageSource
  <2>2. CASE ImageSource(c, S, D, late) = m
    BY <1>1, <2>2, StillRunning
  <2>3. CASE ImageSource(c, S, D, late) = Ends(c, "Backing")
    BY <2>3, EndsFacts
  <2>4. CASE HasOwner(m, S) /\ ImageSource(c, S, D, late) = StageImage(m, S, D, late)
    <3>0. m.cpu = c.cpu
      BY MergeFacts
    <3> HIDE DEF m
    <3> DEFINE s == Stored(m, late)
               P == PagesIn(S) \cap m.cpu
               U == UnitsIn(P \ D)
               X == (s.device \ U) \cup ((U \cap S \cap m.memory) \ late)
               e == TakeUp([s EXCEPT !.device = X], P)
    <3>1. StageImage(m, S, D, late) = e
      BY DEF StageImage
    <3>2. late \in SUBSET Units /\ \A u \in late : PageOf(u) \in m.cpu
      BY <3>0, InUnits
    <3>3. Coherent(s) /\ s.fatal = m.fatal /\ s.cpu = m.cpu /\ s.bufs = m.bufs
      BY <1>1, <3>2, StoredFacts
    <3> HIDE DEF s
    <3>4. P \in SUBSET TrackerPages /\ \A p \in P : p \in s.cpu /\ InBuffer(s, p)
      BY <2>4, <3>3, OwnerFacts, PagesTyped DEF InBuffer
    <3>5. \A u : u \in U => u \in Units /\ PageOf(u) \in P
      BY InUnits
    <3>6. s.device \in SUBSET Units
      BY <3>3 DEF Coherent, Caches
    <3>7. X \in SUBSET Units /\ \A u \in Units : PageOf(u) \notin P => (u \in X <=> u \in s.device)
      BY <3>5, <3>6
    <3> HIDE DEF P, X
    <3>8. Coherent(e) /\ e.fatal = s.fatal
      BY <3>3, <3>4, <3>7, TakeUpFacts
    <3> QED BY <1>1, <2>4, <3>1, <3>3, <3>8, StillRunning
  <2> QED BY <2>1, <2>2, <2>3, <2>4
<1> QED BY <1>2, <1>3

LEMMA CarriedFacts ==
    ASSUME NEW c, c \in Caches, NEW n \in 0..Len(c.garbage)
    PROVE  \A u : u \in Carried(c, n) <=> \E k \in DOMAIN c.garbage : k <= n /\ u \in c.garbage[k].copied
<1>1. c.garbage \in Seq(Downloads) /\ DOMAIN c.garbage = 1..Len(c.garbage) /\ Len(c.garbage) \in Nat
  BY DEF Caches
<1>2. \A k : k \in 1..n <=> k \in DOMAIN c.garbage /\ k <= n
  BY <1>1
<1> QED BY <1>2 DEF Carried

\* A download that leaves something modified on its pages lost a page.
LEMMA RetainsFacts ==
    ASSUME NEW c, Coherent(c), NEW k \in DOMAIN c.garbage, Retains(c, k)
    PROVE  \E p \in c.astray : Leaving(c, p)
<1>0. c \in Caches /\ GarbageInv(c)
  BY DEF Coherent
<1>1. k \in 1..Len(c.garbage)
  BY <1>0 DEF Caches
<1>2. PICK u \in c.modified : u \notin Carried(c, k) /\ u \in UnitsIn(c.garbage[k].pages)
  BY DEF Retains
<1>3. u \notin c.garbage[k].copied
  <2>1. k \in 0..Len(c.garbage) /\ k <= k
    BY <1>1
  <2> QED BY <1>0, <1>2, <2>1, CarriedFacts
<1>4. u \in Units /\ PageOf(u) \in c.garbage[k].pages
  BY <1>2, InUnits
<1>5. PageOf(u) \in c.astray
  BY <1>0, <1>2, <1>3, <1>4 DEF GarbageInv
<1> QED BY <1>4, <1>5 DEF Leaving

\* All deferred downloads at once: outside the pages that went astray every
\* address is in one of them at most, and what they leave modified is
\* elsewhere.
LEMMA FinishFacts ==
    ASSUME NEW c, Coherent(c), c.fatal = "No"
    PROVE  LET d == FinishCurrent(c)
           IN  /\ Coherent(d) /\ Survives(d)
               /\ d.fatal = "No" => /\ d.garbage = <<>> /\ d.bufs = c.bufs /\ d.device = c.device
                                    /\ d.modified \subseteq c.modified /\ d.astray = c.astray
                                    /\ d.gpu \subseteq c.gpu
<1> DEFINE d == FinishCurrent(c)
           G == c.garbage
           all == Carried(c, Len(G))
           fresh(u) == \E k \in DOMAIN G :
                          u \in G[k].fresh /\ \A j \in DOMAIN G : u \in G[j].copied => j <= k
           first(k) == \A j \in Failing(c) : k <= j
           F == {u \in Units : fresh(u)}
<1>0. c \in Caches /\ BufsInv(c) /\ DirtyInv(c) /\ MappedInv(c) /\ NewestInv(c) /\ GarbageInv(c)
  BY DEF Coherent
<1>1. CASE \E k \in Failing(c) : first(k) /\ Backed(c, G[k].copied)
  <2>1. d = Ends(c, "Retained")
    BY <1>1 DEF FinishCurrent
  <2>2. PICK k \in DOMAIN c.garbage : Retains(c, k)
    BY <1>1 DEF Failing
  <2>3. \E p \in c.astray : Leaving(c, p)
    BY <2>2, RetainsFacts
  <2> QED BY <2>1, <2>3, EndsWithReason
<1>2. CASE Failing(c) # {} /\ ~\E k \in Failing(c) : first(k) /\ Backed(c, G[k].copied)
  <2>1. d = Ends(c, "Backing")
    BY <1>2 DEF FinishCurrent
  <2> QED BY <2>1, EndsFacts
<1>3. CASE Failing(c) = {}
  <2>1. G \in Seq(Downloads) /\ DOMAIN G = 1..Len(G) /\ Len(G) \in Nat
    BY <1>0 DEF Caches
  <2>2. \A u : u \in all <=> \E k \in DOMAIN G : u \in G[k].copied
    <3>1. Len(G) \in 0..Len(G) /\ \A k \in DOMAIN G : k <= Len(G)
      BY <2>1
    <3> QED BY <1>0, <3>1, CarriedFacts
  <2>3. \A k \in DOMAIN G : ~Retains(c, k)
    BY <1>3 DEF Failing
  <2>4. \A u \in c.modified : Leaving(c, PageOf(u)) => u \in all
    <3> SUFFICES ASSUME NEW u \in c.modified, NEW k \in DOMAIN G, PageOf(u) \in G[k].pages
                 PROVE  u \in all
      BY DEF Leaving
    <3>1. u \in UnitsIn(G[k].pages)
      BY <1>0, InUnits DEF Caches
    <3>2. u \in Carried(c, k)
      BY <2>3, <3>1 DEF Retains
    <3>3. k \in 0..Len(G)
      BY <2>1
    <3> QED BY <1>0, <2>2, <3>2, <3>3, CarriedFacts
  <2>5. \A u \in all : Leaving(c, PageOf(u))
    BY <1>0, <2>2 DEF GarbageInv, Leaving
  <2>6. ASSUME NEW u \in Units, u \in all, PageOf(u) \notin c.astray PROVE u \in F
    <3>1. PICK k \in DOMAIN G : u \in G[k].copied
      BY <2>2, <2>6
    <3>2. PageOf(u) \in G[k].pages
      BY <1>0, <3>1 DEF GarbageInv
    <3>3. u \in G[k].fresh
      BY <1>0, <2>6, <3>1, <3>2 DEF GarbageInv
    <3>4. \A j \in DOMAIN G : u \in G[j].copied => j = k
      BY <1>0, <2>6, <3>2 DEF GarbageInv
    <3>5. \A j \in DOMAIN G : u \in G[j].copied => j <= k
      BY <2>1, <3>4
    <3> QED BY <3>3, <3>5
  <2>7. Collected(c) \in SUBSET TrackerPages /\ \A p : p \in Collected(c) <=> Leaving(c, p)
    BY <1>0, CollectedTyped, LeavingIsCollected
  <2>8. F \in SUBSET Units
    OBVIOUS
  <2>9. d = [c EXCEPT !.memory = (@ \ all) \cup F, !.modified = @ \ all, !.garbage = <<>>,
                      !.cpu = @ \cup Collected(c), !.gpu = @ \ Collected(c),
                      !.bare = @ \ Collected(c), !.torn = @ \ Collected(c)]
    <3> DEFINE y == [c EXCEPT !.memory = (@ \ all) \cup F, !.modified = @ \ all, !.garbage = <<>>]
    <3>1. d = GiveBack(y, Collected(c))
      BY <1>3 DEF FinishCurrent
    <3> HIDE DEF all, F, d
    <3>2. y.cpu = c.cpu /\ y.gpu = c.gpu /\ y.bare = c.bare /\ y.torn = c.torn
      BY <1>0 DEF Caches
    <3> QED BY <1>0, <3>1, <3>2 DEF GiveBack, Caches
  <2> HIDE DEF all, F, d
  <2>10. /\ d.memory = (c.memory \ all) \cup F /\ d.modified = c.modified \ all
         /\ d.garbage = <<>> /\ d.cpu = c.cpu \cup Collected(c) /\ d.gpu = c.gpu \ Collected(c)
         /\ d.bare = c.bare \ Collected(c) /\ d.torn = c.torn \ Collected(c)
         /\ d.bufs = c.bufs /\ d.device = c.device /\ d.mapped = c.mapped
         /\ d.astray = c.astray /\ d.fatal = c.fatal
    BY <1>0, <2>9 DEF Caches
  <2>11. d \in Caches
    <3>1. <<>> \in Seq(Downloads)
      OBVIOUS
    <3> QED BY <1>0, <2>7, <2>8, <2>9, <3>1 DEF Caches
  <2>12. \A p : (InBuffer(d, p) <=> InBuffer(c, p)) /\ ~Leaving(d, p)
    BY <2>10 DEF InBuffer, Leaving
  <2>13. BufsInv(d)
    BY <1>0, <2>7, <2>10, <2>12 DEF BufsInv
  <2>14. DirtyInv(d)
    BY <1>0, <2>4, <2>5, <2>7, <2>10 DEF DirtyInv
  <2>15. MappedInv(d)
    BY <1>0, <2>7, <2>10 DEF MappedInv
  <2>16. NewestInv(d)
    BY <1>0, <2>4, <2>6, <2>7, <2>10, <2>12 DEF NewestInv
  <2>17. GarbageInv(d)
    BY <2>10 DEF GarbageInv
  <2>18. Coherent(d) /\ Survives(d)
    BY <2>10, <2>11, <2>13, <2>14, <2>15, <2>16, <2>17, StillRunning DEF Coherent
  <2> QED BY <2>10, <2>18 DEF d
<1> QED BY <1>1, <1>2, <1>3

\* The oldest deferred download.
LEMMA PopFacts ==
    ASSUME NEW c, Coherent(c), c.fatal = "No", c.garbage # <<>>
    PROVE  Coherent(Publish(c)) /\ Survives(Publish(c))
<1> DEFINE G == c.garbage
           g == Head(G)
           left == c.modified \ g.copied
           d == Publish(c)
<1>0. c \in Caches /\ BufsInv(c) /\ DirtyInv(c) /\ MappedInv(c) /\ NewestInv(c) /\ GarbageInv(c)
  BY DEF Coherent
<1>1. /\ G \in Seq(Downloads) /\ Len(G) \in Nat /\ DOMAIN G = 1..Len(G) /\ 1 \in DOMAIN G
      /\ g = G[1] /\ Tail(G) \in Seq(Downloads) /\ DOMAIN Tail(G) = 1..(Len(G) - 1)
      /\ \A k \in 1..(Len(G) - 1) : Tail(G)[k] = G[k + 1]
  BY <1>0 DEF Caches
<1>2. /\ g.pages \in SUBSET TrackerPages /\ g.copied \in SUBSET Units /\ g.fresh \in SUBSET Units
  <2>1. g \in Downloads
    BY <1>1
  <2> QED BY <2>1 DEF Downloads
<1>3. \A u \in g.copied : PageOf(u) \in g.pages
  BY <1>0, <1>1 DEF GarbageInv
<1>4. \A u \in Units : PageOf(u) \in g.pages /\ PageOf(u) \notin c.astray =>
          /\ u \in g.copied <=> u \in c.modified
          /\ u \in g.fresh <=> u \in g.copied
  BY <1>0, <1>1 DEF GarbageInv
<1>5. CASE ~Backed(c, g.copied)
  BY <1>5, EndsFacts DEF Publish
<1>6. CASE Backed(c, g.copied) /\ left \cap UnitsIn(g.pages) # {}
  <2>1. d = Ends(c, "Retained")
    BY <1>6 DEF Publish
  <2>2. PICK u \in c.modified : u \notin g.copied /\ u \in UnitsIn(g.pages)
    BY <1>6
  <2>3. u \in Units /\ PageOf(u) \in g.pages
    BY <2>2, InUnits
  <2>4. PageOf(u) \in c.astray /\ Leaving(c, PageOf(u))
    BY <1>1, <1>4, <2>2, <2>3 DEF Leaving
  <2> QED BY <2>1, <2>4, EndsWithReason
<1>7. CASE Backed(c, g.copied) /\ left \cap UnitsIn(g.pages) = {}
  <2>1. d = [c EXCEPT !.memory = (@ \ g.copied) \cup g.fresh, !.modified = left,
                      !.garbage = Tail(@), !.cpu = @ \cup g.pages, !.gpu = @ \ g.pages,
                      !.bare = @ \ g.pages, !.torn = @ \ g.pages]
    <3> DEFINE y == [c EXCEPT !.memory = (@ \ g.copied) \cup g.fresh, !.modified = left,
                              !.garbage = Tail(@)]
    <3>1. d = GiveBack(y, g.pages)
      BY <1>7 DEF Publish
    <3> HIDE DEF d, left, g
    <3>2. y.cpu = c.cpu /\ y.gpu = c.gpu /\ y.bare = c.bare /\ y.torn = c.torn
      BY <1>0 DEF Caches
    <3> QED BY <1>0, <3>1, <3>2 DEF GiveBack, Caches
  <2>2. left \in SUBSET Units
    BY <1>0 DEF Caches
  <2>3. \A u \in c.modified : PageOf(u) \in g.pages => u \in g.copied
    <3>1. c.modified \subseteq Units
      BY <1>0 DEF Caches
    <3> QED BY <1>7, <3>1, InUnits
  <2> HIDE DEF d, g
  <2>4. /\ d.memory = (c.memory \ g.copied) \cup g.fresh /\ d.modified = c.modified \ g.copied
        /\ d.garbage = Tail(G) /\ d.cpu = c.cpu \cup g.pages /\ d.gpu = c.gpu \ g.pages
        /\ d.bare = c.bare \ g.pages /\ d.torn = c.torn \ g.pages
        /\ d.bufs = c.bufs /\ d.device = c.device /\ d.mapped = c.mapped
        /\ d.astray = c.astray /\ d.fatal = c.fatal
    BY <1>0, <2>1 DEF Caches
  <2>5. d \in Caches
    <3> HIDE DEF left
    <3> QED BY <1>0, <1>1, <1>2, <2>1, <2>2 DEF Caches
  <2>6. \A p : InBuffer(d, p) <=> InBuffer(c, p)
    BY <2>4 DEF InBuffer
  <2>7. \A p : Leaving(c, p) => Leaving(d, p) \/ p \in g.pages
    <3> SUFFICES ASSUME NEW k \in DOMAIN G, NEW p \in G[k].pages, p \notin g.pages
                 PROVE  \E j \in DOMAIN Tail(G) : p \in Tail(G)[j].pages
      BY <2>4 DEF Leaving
    <3>1. k # 1
      BY <1>1
    <3>2. k - 1 \in 1..(Len(G) - 1) /\ (k - 1) + 1 = k
      BY <1>1, <3>1
    <3> QED BY <1>1, <3>2
  <2>8. BufsInv(d)
    BY <1>0, <2>4, <2>6, <2>7 DEF BufsInv
  <2>9. DirtyInv(d)
    BY <1>0, <1>3, <2>3, <2>4 DEF DirtyInv
  <2>10. MappedInv(d)
    BY <1>0, <1>2, <2>4 DEF MappedInv
  <2>11. NewestInv(d)
    BY <1>0, <1>3, <1>4, <2>3, <2>4, <2>7 DEF NewestInv
  <2>12. ASSUME NEW k \in DOMAIN d.garbage
         PROVE  /\ k + 1 \in DOMAIN G /\ k + 1 # 1 /\ d.garbage[k] = G[k + 1]
    BY <1>1, <2>4
  <2>13. ASSUME NEW k \in DOMAIN d.garbage, NEW p \in d.garbage[k].pages, p \notin d.astray
         PROVE  /\ ~InBuffer(d, p)
                /\ \A u \in Units : PageOf(u) = p =>
                      /\ u \in d.garbage[k].copied <=> u \in d.modified
                      /\ u \in d.garbage[k].fresh <=> u \in d.garbage[k].copied
                /\ \A j \in DOMAIN d.garbage : p \in d.garbage[j].pages => j = k
    <3>1. k + 1 \in DOMAIN G /\ k + 1 # 1 /\ d.garbage[k] = G[k + 1] /\ p \notin c.astray
      BY <2>4, <2>12, <2>13
    <3>2. p \notin g.pages
      BY <1>0, <1>1, <2>13, <3>1 DEF GarbageInv
    <3>3. \A u \in Units : PageOf(u) = p => u \notin g.copied
      BY <1>3, <3>2
    <3>4. ASSUME NEW j \in DOMAIN d.garbage, p \in d.garbage[j].pages PROVE j = k
      <4>1. j + 1 = k + 1
        BY <1>0, <2>12, <2>13, <3>1, <3>4 DEF GarbageInv
      <4>2. j \in Int /\ k \in Int
        BY <1>1, <2>4
      <4> QED BY <4>1, <4>2
    <3> QED BY <1>0, <2>4, <2>6, <2>13, <3>1, <3>3, <3>4 DEF GarbageInv
  <2>14. GarbageInv(d)
    BY <1>0, <2>12, <2>13 DEF GarbageInv
  <2>15. Coherent(d) /\ Survives(d)
    BY <2>4, <2>5, <2>8, <2>9, <2>10, <2>11, <2>14, StillRunning DEF Coherent
  <2> QED BY <2>15 DEF d
<1> QED BY <1>5, <1>6, <1>7

\* Pages that are not the GPU's may be given to the CPU.
LEMMA GiveBackFacts ==
    ASSUME NEW c, Coherent(c), NEW P \in SUBSET TrackerPages, \A p \in P : p \notin c.gpu
    PROVE  Coherent(GiveBack(c, P)) /\ GiveBack(c, P).fatal = c.fatal
<1> DEFINE d == GiveBack(c, P)
<1>0. c \in Caches /\ BufsInv(c) /\ DirtyInv(c) /\ MappedInv(c) /\ NewestInv(c) /\ GarbageInv(c)
  BY DEF Coherent
<1>1. /\ d.bufs = c.bufs /\ d.garbage = c.garbage /\ d.gpu = c.gpu \ P /\ d.modified = c.modified
      /\ d.memory = c.memory /\ d.cpu = c.cpu \cup P /\ d.device = c.device /\ d.mapped = c.mapped
      /\ d.bare = c.bare \ P /\ d.torn = c.torn \ P /\ d.astray = c.astray /\ d.fatal = c.fatal
      /\ d \in Caches
  BY <1>0 DEF GiveBack, Caches
<1> HIDE DEF d
<1>2. \A p : (InBuffer(d, p) <=> InBuffer(c, p)) /\ (Leaving(d, p) <=> Leaving(c, p))
  BY <1>1 DEF InBuffer, Leaving
<1>3. BufsInv(d)
  BY <1>0, <1>1, <1>2 DEF BufsInv
<1>4. DirtyInv(d) /\ MappedInv(d)
  BY <1>0, <1>1 DEF DirtyInv, MappedInv
<1>5. NewestInv(d)
  BY <1>0, <1>1, <1>2 DEF NewestInv
<1>6. GarbageInv(d)
  BY <1>0, <1>1, <1>2 DEF GarbageInv
<1> QED BY <1>1, <1>3, <1>4, <1>5, <1>6 DEF Coherent, d

\* A range is read back: if that does not end the program, none of its pages
\* is the GPU's.
LEMMA ReadMemoryFacts ==
    ASSUME NEW c, Coherent(c), c.fatal = "No", NEW S \in SUBSET Units
    PROVE  LET d == ReadMemory(c, S)
           IN  /\ Coherent(d) /\ Survives(d)
               /\ d.fatal = "No" => \A p \in PagesIn(S) : p \notin d.gpu
<1> DEFINE D == ToDownload(c, S)
           e == FinishCurrent(c)
           d == [e EXCEPT !.memory = (@ \ D) \cup (D \cap e.device),
                          !.modified = @ \ D, !.gpu = @ \ PagesIn(S)]
<1>0. c \in Caches /\ BufsInv(c) /\ DirtyInv(c) /\ MappedInv(c) /\ NewestInv(c) /\ GarbageInv(c)
  BY DEF Coherent
<1>1. PagesIn(S) \in SUBSET TrackerPages
  BY PagesTyped
<1>2. \A u : u \in D <=> u \in Units /\ u \in c.modified /\ PageOf(u) \in PagesIn(S)
  <2>1. \A u : u \in D <=> u \in c.modified /\ u \in Units /\ PageOf(u) \in PagesIn(S) \cap c.gpu
    BY InUnits DEF ToDownload
  <2> QED BY <1>0, <2>1 DEF DirtyInv
<1>3. CASE D = {}
  <2>1. ReadMemory(c, S) = c
    BY <1>3 DEF ReadMemory
  <2>2. \A p \in PagesIn(S) : p \notin c.gpu
    <3> SUFFICES ASSUME NEW p \in PagesIn(S), p \in c.gpu PROVE FALSE
      OBVIOUS
    <3>1. PICK u \in c.modified : PageOf(u) = p
      BY <1>0 DEF DirtyInv
    <3>2. u \in Units
      BY <1>0 DEF Caches
    <3> HIDE DEF D
    <3> QED BY <1>2, <1>3, <3>1, <3>2
  <2> QED BY <2>1, <2>2, StillRunning
<1>4. CASE D # {} /\ ~(D \subseteq UnitsIn(Covered(c)))
  <2>1. PICK u \in D : u \notin UnitsIn(Covered(c))
    BY <1>4
  <2> HIDE DEF D
  <2>2. u \in Units /\ u \in c.modified /\ ~InBuffer(c, PageOf(u))
    BY <1>2, <2>1, InUnits, InCovered
  <2>3. \E p \in c.gpu : Leaving(c, p)
    BY <2>2, OwnerOrLeaving
  <2>4. ReadMemory(c, S) = Ends(c, "NoOwner")
    BY <1>4 DEF ReadMemory, D
  <2> QED BY <2>3, <2>4, EndsWithReason
<1>5. CASE D # {} /\ D \subseteq UnitsIn(Covered(c)) /\ e.fatal # "No"
  <2>1. ReadMemory(c, S) = e
    BY <1>5 DEF ReadMemory
  <2> QED BY <1>5, <2>1, FinishFacts
<1>6. CASE D # {} /\ D \subseteq UnitsIn(Covered(c)) /\ e.fatal = "No" /\ ~Backed(c, D)
  <2>1. ReadMemory(c, S) = Ends(c, "Backing")
    BY <1>6 DEF ReadMemory
  <2> QED BY <2>1, EndsFacts
<1>7. CASE D # {} /\ D \subseteq UnitsIn(Covered(c)) /\ e.fatal = "No" /\ Backed(c, D)
  <2>1. ReadMemory(c, S) = d
    BY <1>7 DEF ReadMemory
  <2>2. /\ Coherent(e) /\ e.garbage = <<>> /\ e.bufs = c.bufs /\ e.device = c.device
        /\ e.modified \subseteq c.modified /\ e.astray = c.astray /\ e.gpu \subseteq c.gpu
    BY <1>7, FinishFacts
  <2>3. \A u \in D : PageOf(u) \notin c.astray => u \in c.device
    <3> SUFFICES ASSUME NEW u \in D, PageOf(u) \notin c.astray PROVE u \in c.device
      OBVIOUS
    <3>1. u \in UnitsIn(Covered(c))
      BY <1>7
    <3> HIDE DEF D
    <3>2. InBuffer(c, PageOf(u)) /\ u \in Units /\ u \in c.modified
      BY <1>2, <3>1, InUnits, InCovered
    <3>3. ~Leaving(c, PageOf(u))
      BY <3>2, NotBoth
    <3> QED BY <1>0, <3>2, <3>3 DEF NewestInv
  <2> HIDE DEF D, e
  <2>4. e \in Caches /\ BufsInv(e) /\ DirtyInv(e) /\ MappedInv(e) /\ NewestInv(e) /\ GarbageInv(e)
    BY <2>2 DEF Coherent
  <2>5. /\ d.memory = (e.memory \ D) \cup (D \cap e.device) /\ d.modified = e.modified \ D
        /\ d.gpu = e.gpu \ PagesIn(S) /\ d.cpu = e.cpu /\ d.bufs = e.bufs /\ d.device = e.device
        /\ d.garbage = e.garbage /\ d.mapped = e.mapped /\ d.bare = e.bare /\ d.torn = e.torn
        /\ d.astray = e.astray /\ d.fatal = e.fatal
    BY <2>4 DEF Caches
  <2>6. d \in Caches
    <3>1. D \subseteq Units
      BY <1>2
    <3> QED BY <2>4, <3>1 DEF Caches
  <2> HIDE DEF d
  <2>7. \A p : (InBuffer(d, p) <=> InBuffer(e, p)) /\ ~Leaving(d, p) /\ ~Leaving(e, p)
    BY <2>2, <2>5 DEF InBuffer, Leaving
  <2>8. BufsInv(d) /\ MappedInv(d)
    BY <2>4, <2>5, <2>7 DEF BufsInv, MappedInv
  <2>9. \A u \in e.modified : u \in Units /\ u \in c.modified
    BY <2>2, <2>4 DEF Caches
  <2>10. DirtyInv(d)
    BY <1>2, <2>4, <2>5, <2>9 DEF DirtyInv
  <2>11. NewestInv(d)
    BY <1>2, <2>2, <2>3, <2>4, <2>5, <2>7 DEF NewestInv
  <2>12. GarbageInv(d)
    BY <2>2, <2>5 DEF GarbageInv
  <2>13. Coherent(d) /\ Survives(d)
    BY <1>7, <2>5, <2>6, <2>8, <2>10, <2>11, <2>12, StillRunning DEF Coherent, e
  <2> QED BY <2>1, <2>5, <2>13
<1> QED BY <1>3, <1>4, <1>5, <1>6, <1>7

LEMMA InvalidateFacts ==
    ASSUME NEW c, Coherent(c), c.fatal = "No", NEW S \in SUBSET Units
    PROVE  Coherent(InvalidateMemory(c, S)) /\ Survives(InvalidateMemory(c, S))
<1> DEFINE r == IF PagesIn(S) \cap c.gpu # {} THEN ReadMemory(c, S) ELSE c
<1>1. /\ Coherent(r) /\ Survives(r)
      /\ r.fatal = "No" => \A p \in PagesIn(S) : p \notin r.gpu
  BY ReadMemoryFacts, StillRunning
<1>2. r.fatal = "No" => PagesIn(S) \cap r.gpu = {}
  BY <1>1
<1>3. \/ InvalidateMemory(c, S) = c
      \/ InvalidateMemory(c, S) = r
      \/ r.fatal = "No" /\ InvalidateMemory(c, S) = GiveBack(r, PagesIn(S))
  BY <1>2 DEF InvalidateMemory
<1> HIDE DEF r
<1>4. r.fatal = "No" => /\ Coherent(GiveBack(r, PagesIn(S)))
                        /\ Survives(GiveBack(r, PagesIn(S)))
  BY <1>1, GiveBackFacts, PagesTyped, StillRunning
<1> QED BY <1>1, <1>3, <1>4, StillRunning

\* A range is unmapped: everything in the buffers it touches is read back.
LEMMA UnmapFacts ==
    ASSUME NEW c, Coherent(c), c.fatal = "No", NEW S \in SUBSET Units
    PROVE  Coherent(Unmap(c, S)) /\ Survives(Unmap(c, S))
<1> DEFINE e == FinishCurrent(c)
           R == {b \in e.bufs : b \cap PagesIn(S) # {}}
           P == UNION R
           D == e.modified \cap UnitsIn(P \cap e.gpu)
           left == e.modified \ UnitsIn(P)
           y == [e EXCEPT !.memory = (@ \ D) \cup (D \cap e.device) \cup S,
                          !.modified = left, !.bufs = @ \ R, !.device = @ \ UnitsIn(P),
                          !.mapped = @ \ PagesIn(S), !.astray = @ \cup PagesIn(S)]
           d == GiveBack(y, P \cup PagesIn(S))
<1>1. CASE PagesIn(S) \cap c.mapped = {}
  <2>1. Unmap(c, S) = c \/ Unmap(c, S) = Ends(c, "Cached")
    BY <1>1 DEF Unmap
  <2> QED BY <2>1, EndsFacts, StillRunning
<1>2. CASE PagesIn(S) \cap c.mapped # {} /\ e.fatal # "No"
  <2>1. Unmap(c, S) = e
    BY <1>2 DEF Unmap
  <2> QED BY <2>1, FinishFacts
<1>3. CASE PagesIn(S) \cap c.mapped # {} /\ e.fatal = "No" /\ ~Backed(c, D)
  <2>1. Unmap(c, S) = Ends(c, "Backing")
    BY <1>3 DEF Unmap
  <2> QED BY <2>1, EndsFacts
<1>4. CASE PagesIn(S) \cap c.mapped # {} /\ e.fatal = "No" /\ Backed(c, D)
  <2>1. Coherent(e) /\ e.garbage = <<>>
    BY <1>4, FinishFacts
  <2>2. Unmap(c, S) = IF left \cap S # {} THEN Ends(c, "Owned") ELSE d
    BY <1>4 DEF Unmap
  <2> HIDE DEF e, d
  <2>3. e \in Caches /\ BufsInv(e) /\ DirtyInv(e) /\ MappedInv(e) /\ NewestInv(e) /\ GarbageInv(e)
    BY <2>1 DEF Coherent
  <2>4. PagesIn(S) \in SUBSET TrackerPages /\ e.modified \in SUBSET Units
    BY <2>3, PagesTyped DEF Caches
  <2>5. P \in SUBSET TrackerPages /\ R \subseteq e.bufs /\ D \subseteq Units /\ left \in SUBSET Units
    BY <2>3, <2>4 DEF Caches
  <2>6. \A p : ~Leaving(e, p)
    BY <2>1 DEF Leaving
  <2>7. \A u : u \in UnitsIn(P) <=> u \in Units /\ PageOf(u) \in P
    BY InUnits
  <2>8. \A u : u \in D <=> u \in e.modified /\ PageOf(u) \in P
    <3>1. \A u : u \in D <=> u \in e.modified /\ u \in Units /\ PageOf(u) \in P \cap e.gpu
      BY InUnits
    <3> QED BY <2>3, <2>4, <3>1 DEF DirtyInv
  <2>9. \A p \in e.gpu : p \in PagesIn(S) => p \in P
    <3> SUFFICES ASSUME NEW p \in e.gpu, p \in PagesIn(S) PROVE p \in P
      OBVIOUS
    <3>1. p \in TrackerPages /\ p \notin e.cpu
      BY <2>3, <2>4 DEF DirtyInv
    <3>2. InBuffer(e, p)
      BY <2>3, <2>6, <3>1 DEF BufsInv
    <3> QED BY <3>2 DEF InBuffer
  <2>10. left \cap S = {}
    <3> SUFFICES ASSUME NEW u \in S, u \in e.modified, u \notin UnitsIn(P) PROVE FALSE
      OBVIOUS
    <3>1. PageOf(u) \in PagesIn(S) /\ PageOf(u) \in e.gpu
      BY <2>3, InPages DEF DirtyInv
    <3> QED BY <2>7, <2>9, <3>1
  <2>11. \A p : p \in P <=> \E b \in R : p \in b
    OBVIOUS
  <2>12. \A u : u \in left <=> u \in e.modified /\ PageOf(u) \notin P
    BY <2>4, <2>7
  <2>13. Unmap(c, S) = d
    BY <2>2, <2>10
  <2> HIDE DEF R, P, D, left
  <2>14. /\ y.memory = (e.memory \ D) \cup (D \cap e.device) \cup S /\ y.modified = left
         /\ y.bufs = e.bufs \ R /\ y.device = e.device \ UnitsIn(P) /\ y.garbage = e.garbage
         /\ y.mapped = e.mapped \ PagesIn(S) /\ y.astray = e.astray \cup PagesIn(S)
         /\ y.gpu = e.gpu /\ y.cpu = e.cpu /\ y.bare = e.bare /\ y.torn = e.torn
         /\ y.fatal = e.fatal /\ y \in Caches
    BY <2>3, <2>4, <2>5 DEF Caches
  <2> HIDE DEF y
  <2>15. /\ d.memory = y.memory /\ d.modified = y.modified /\ d.bufs = y.bufs
         /\ d.device = y.device /\ d.garbage = y.garbage /\ d.mapped = y.mapped
         /\ d.astray = y.astray /\ d.fatal = y.fatal
         /\ d.gpu = y.gpu \ (P \cup PagesIn(S)) /\ d.cpu = y.cpu \cup P \cup PagesIn(S)
         /\ d.bare = y.bare \ (P \cup PagesIn(S)) /\ d.torn = y.torn \ (P \cup PagesIn(S))
         /\ d \in Caches
    BY <2>4, <2>5, <2>14 DEF d, GiveBack, Caches
  <2>16. \A p : InBuffer(e, p) => InBuffer(d, p) \/ p \in P
    BY <2>11, <2>14, <2>15 DEF InBuffer
  <2>17. \A p : ~Leaving(d, p)
    BY <2>6, <2>14, <2>15 DEF Leaving
  <2>18. BufsInv(d)
    <3>1. d.device \subseteq Units
      BY <2>15 DEF Caches
    <3>2. d.bufs \subseteq e.bufs
      BY <2>14, <2>15
    <3>3. \A u \in d.device : InBuffer(d, PageOf(u))
      BY <2>3, <2>7, <2>14, <2>15, <2>16, <3>1 DEF BufsInv
    <3>4. \A p \in TrackerPages : p \in d.cpu \/ InBuffer(d, p) \/ Leaving(d, p)
      BY <2>3, <2>6, <2>14, <2>15, <2>16 DEF BufsInv
    <3> QED BY <2>3, <3>2, <3>3, <3>4 DEF BufsInv
  <2>19. DirtyInv(d)
    BY <2>3, <2>9, <2>12, <2>14, <2>15 DEF DirtyInv
  <2>20. MappedInv(d)
    BY <2>3, <2>14, <2>15 DEF MappedInv
  <2>21. NewestInv(d)
    <3> SUFFICES ASSUME NEW u \in Units, PageOf(u) \notin d.astray
                 PROVE  /\ u \in d.memory \/ u \in d.modified
                        /\ u \in d.modified => u \in d.device \/ Leaving(d, PageOf(u))
                        /\ \/ u \in d.device \/ PageOf(u) \in d.cpu \/ PageOf(u) \in d.torn
                           \/ Leaving(d, PageOf(u))
      BY DEF NewestInv
    <3>1. PageOf(u) \notin e.astray /\ PageOf(u) \notin PagesIn(S)
      BY <2>14, <2>15
    <3>2. /\ u \in e.memory \/ u \in e.modified
          /\ u \in e.modified => u \in e.device
          /\ u \in e.device \/ PageOf(u) \in e.cpu \/ PageOf(u) \in e.torn
      BY <2>3, <2>6, <3>1 DEF NewestInv
    <3>3. u \in d.memory \/ u \in d.modified
      BY <2>8, <2>12, <2>14, <2>15, <3>2
    <3>4. u \in d.modified => u \in d.device
      BY <2>7, <2>12, <2>14, <2>15, <3>2
    <3>5. u \in d.device \/ PageOf(u) \in d.cpu \/ PageOf(u) \in d.torn
      BY <2>7, <2>14, <2>15, <3>1, <3>2
    <3> QED BY <3>3, <3>4, <3>5
  <2>22. GarbageInv(d)
    BY <2>1, <2>14, <2>15 DEF GarbageInv
  <2> QED BY <1>4, <2>13, <2>14, <2>15, <2>18, <2>19, <2>20, <2>21, <2>22, StillRunning
          DEF Coherent, e
<1> QED BY <1>1, <1>2, <1>3, <1>4

\* Memory is mapped where there was none.
LEMMA RemapFacts ==
    ASSUME NEW c, Coherent(c), c.fatal = "No", NEW S \in SUBSET Units, S = UnitsIn(Aligned(S)),
           PagesIn(S) \cap c.mapped = {}
    PROVE  Coherent(Remap(c, S)) /\ Survives(Remap(c, S))
<1> DEFINE P == PagesIn(S)
           x == Outdate(c, S)
           A == (P \cap c.cpu) \ Collected(c)
           d == [x EXCEPT !.mapped = @ \cup P, !.memory = @ \cup S, !.device = @ \ S,
                          !.bare = @ \cup (P \ c.cpu), !.astray = @ \ A]
<1>0. c \in Caches /\ BufsInv(c) /\ DirtyInv(c) /\ MappedInv(c) /\ NewestInv(c) /\ GarbageInv(c)
  BY DEF Coherent
<1>1. /\ P \in SUBSET TrackerPages /\ P \subseteq Aligned(S) /\ \A u \in S : PageOf(u) \in P
  BY PagesTyped
<1>2. \A u \in Units : PageOf(u) \in P <=> u \in S
  BY <1>1, InUnits
<1>3. \A p : p \in A <=> p \in P /\ p \in c.cpu /\ ~Leaving(c, p)
  BY LeavingIsCollected
<1>4. Remap(c, S) = d
  BY DEF Remap
<1>5. /\ x.gpu = c.gpu /\ x.modified = c.modified /\ x.device = c.device /\ x.memory = c.memory
      /\ x.bufs = c.bufs /\ x.cpu = c.cpu /\ x.mapped = c.mapped /\ x.bare = c.bare
      /\ x.torn = c.torn /\ x.astray = c.astray /\ x.fatal = c.fatal /\ x \in Caches
      /\ DOMAIN x.garbage = DOMAIN c.garbage
      /\ \A k \in DOMAIN c.garbage : /\ x.garbage[k].pages = c.garbage[k].pages
                                     /\ x.garbage[k].copied = c.garbage[k].copied
                                     /\ x.garbage[k].fresh = c.garbage[k].fresh \ S
      /\ \A p : (Leaving(x, p) <=> Leaving(c, p)) /\ (InBuffer(x, p) <=> InBuffer(c, p))
  BY <1>0, OutdateFacts
<1> HIDE DEF x, A
<1>6. /\ d.mapped = c.mapped \cup P /\ d.memory = c.memory \cup S /\ d.device = c.device \ S
      /\ d.bare = c.bare \cup (P \ c.cpu) /\ d.astray = c.astray \ A /\ d.garbage = x.garbage
      /\ d.gpu = c.gpu /\ d.modified = c.modified /\ d.bufs = c.bufs /\ d.cpu = c.cpu
      /\ d.torn = c.torn /\ d.fatal = c.fatal /\ d \in Caches
  BY <1>1, <1>5 DEF Caches
<1> HIDE DEF d, P
<1>7. \A p : (InBuffer(d, p) <=> InBuffer(c, p)) /\ (Leaving(d, p) <=> Leaving(c, p))
  BY <1>5, <1>6 DEF InBuffer, Leaving
<1>8. \A p \in P : p \in c.astray /\ p \notin c.mapped
  BY <1>0, <1>1 DEF MappedInv, P
<1>9. BufsInv(d)
  BY <1>0, <1>6, <1>7 DEF BufsInv
<1>10. DirtyInv(d)
  BY <1>0, <1>6 DEF DirtyInv
<1>11. MappedInv(d)
  BY <1>0, <1>3, <1>6, <1>8 DEF MappedInv
<1>12. NewestInv(d)
  <2> SUFFICES ASSUME NEW u \in Units, PageOf(u) \notin d.astray
               PROVE  /\ u \in d.memory \/ u \in d.modified
                      /\ u \in d.modified => u \in d.device \/ Leaving(d, PageOf(u))
                      /\ \/ u \in d.device \/ PageOf(u) \in d.cpu \/ PageOf(u) \in d.torn
                         \/ Leaving(d, PageOf(u))
    BY DEF NewestInv
  <2>1. CASE PageOf(u) \notin P
    <3>1. PageOf(u) \notin c.astray /\ u \notin S
      BY <1>2, <1>3, <1>6, <2>1
    <3> QED BY <1>0, <1>6, <1>7, <3>1 DEF NewestInv
  <2>2. CASE PageOf(u) \in P
    <3>1. u \in S /\ PageOf(u) \in c.cpu
      BY <1>2, <1>3, <1>6, <1>8, <2>2
    <3>2. u \notin c.modified
      BY <1>0, <3>1 DEF DirtyInv
    <3> QED BY <1>6, <3>1, <3>2
  <2> QED BY <2>1, <2>2
<1>13. GarbageInv(d)
  <2>1. \A k \in DOMAIN c.garbage : \A p \in c.garbage[k].pages :
            p \notin d.astray => p \notin c.astray /\ p \notin P
    BY <1>3, <1>6, <1>8 DEF Leaving
  <2>2. \A k \in DOMAIN c.garbage : \A p \in c.garbage[k].pages : p \notin d.astray =>
            \A u \in Units : PageOf(u) = p => u \notin S
    BY <1>2, <2>1
  <2> QED BY <1>0, <1>5, <1>6, <1>7, <2>1, <2>2 DEF GarbageInv
<1> QED BY <1>4, <1>6, <1>9, <1>10, <1>11, <1>12, <1>13, StillRunning DEF Coherent

\* A buffer that is collected takes its pages along until they are downloaded,
\* or gives them back to the CPU at once.
LEMMA RetireFacts ==
    ASSUME NEW c, Coherent(c), c.fatal = "No", NEW b \in c.bufs
    PROVE  Coherent(Retire(c, b)) /\ Survives(Retire(c, b))
<1> DEFINE G == c.garbage
           K == c.modified \cap UnitsIn(b \cap c.gpu)
           op == [pages |-> b, copied |-> K, fresh |-> K \cap c.device]
           H == IF K = {} THEN G ELSE Append(G, op)
           x == [c EXCEPT !.bufs = @ \ {b}, !.device = @ \ UnitsIn(b), !.garbage = H]
           d == Retire(c, b)
<1>0. c \in Caches /\ BufsInv(c) /\ DirtyInv(c) /\ MappedInv(c) /\ NewestInv(c) /\ GarbageInv(c)
  BY DEF Coherent
<1>1. b \in SUBSET TrackerPages /\ c.modified \in SUBSET Units /\ G \in Seq(Downloads)
  BY <1>0 DEF Caches
<1>2. d = IF b \cap c.gpu = {} THEN GiveBack(x, b) ELSE x
  BY DEF Retire
<1>3. \A u : u \in K <=> u \in c.modified /\ PageOf(u) \in b
  <2>1. \A u : u \in K <=> u \in c.modified /\ u \in Units /\ PageOf(u) \in b \cap c.gpu
    BY InUnits
  <2> QED BY <1>0, <1>1, <2>1 DEF DirtyInv
<1>4. \A p \in b : InBuffer(c, p) /\ (p \notin c.astray => ~Leaving(c, p))
  BY NotBoth DEF InBuffer
<1>5. K = {} <=> b \cap c.gpu = {}
  <2>1. ASSUME NEW p \in b, p \in c.gpu PROVE K # {}
    <3>1. PICK u \in c.modified : PageOf(u) = p
      BY <1>0, <2>1 DEF DirtyInv
    <3> HIDE DEF K
    <3> QED BY <1>3, <2>1, <3>1
  <2>2. ASSUME NEW u \in K PROVE b \cap c.gpu # {}
    <3>1. PageOf(u) \in b /\ PageOf(u) \in c.gpu
      BY <1>0, <1>3 DEF DirtyInv
    <3> QED BY <3>1
  <2> QED BY <2>1, <2>2
<1>6. \A u : u \in UnitsIn(b) <=> u \in Units /\ PageOf(u) \in b
  BY InUnits
<1>7. op \in Downloads /\ op.pages = b /\ op.copied = K /\ op.fresh = K \cap c.device
  BY <1>1 DEF Downloads
<1> HIDE DEF op, d, K
<1>8. H \in Seq(Downloads)
  BY <1>1, <1>7
<1>9. /\ x.bufs = c.bufs \ {b} /\ x.device = c.device \ UnitsIn(b) /\ x.garbage = H
      /\ x.gpu = c.gpu /\ x.modified = c.modified /\ x.memory = c.memory /\ x.cpu = c.cpu
      /\ x.mapped = c.mapped /\ x.bare = c.bare /\ x.torn = c.torn /\ x.astray = c.astray
      /\ x.fatal = c.fatal /\ x \in Caches
  <2> HIDE DEF H
  <2> QED BY <1>0, <1>8 DEF Caches
<1> HIDE DEF x, H
<1>10. \A p : InBuffer(x, p) <=> InBuffer(c, p) /\ p \notin b
  BY <1>0, <1>9 DEF InBuffer, BufsInv
<1>11. /\ \A q, r \in x.bufs : \A p \in q : p \in r => q = r
       /\ \A u \in x.device : InBuffer(x, PageOf(u))
  <2>1. x.device \subseteq Units
    BY <1>9 DEF Caches
  <2> QED BY <1>0, <1>6, <1>9, <1>10, <2>1 DEF BufsInv
<1>12. CASE b \cap c.gpu = {}
  <2>1. /\ d.bufs = x.bufs /\ d.device = x.device /\ d.garbage = G /\ d.gpu = c.gpu \ b
        /\ d.modified = c.modified /\ d.memory = c.memory /\ d.cpu = c.cpu \cup b
        /\ d.mapped = c.mapped /\ d.bare = c.bare \ b /\ d.torn = c.torn \ b
        /\ d.astray = c.astray /\ d.fatal = c.fatal /\ d \in Caches
    <3>1. d = GiveBack(x, b) /\ H = G
      BY <1>2, <1>5, <1>12 DEF H
    <3> QED BY <1>1, <1>9, <3>1 DEF GiveBack, Caches
  <2>2. \A p : (Leaving(d, p) <=> Leaving(c, p)) /\ (InBuffer(d, p) <=> InBuffer(x, p))
    BY <2>1 DEF Leaving, InBuffer
  <2>3. BufsInv(d)
    BY <1>0, <1>10, <1>11, <2>1, <2>2 DEF BufsInv
  <2>4. DirtyInv(d) /\ MappedInv(d)
    BY <1>0, <1>12, <2>1 DEF DirtyInv, MappedInv
  <2>5. NewestInv(d)
    BY <1>0, <1>6, <1>9, <1>12, <2>1, <2>2 DEF NewestInv, DirtyInv
  <2>6. GarbageInv(d)
    BY <1>0, <1>10, <2>1, <2>2 DEF GarbageInv
  <2> QED BY <2>1, <2>3, <2>4, <2>5, <2>6, StillRunning DEF Coherent, d
<1>13. CASE b \cap c.gpu # {}
  <2>1. d = x /\ x.garbage = Append(G, op)
    BY <1>2, <1>5, <1>9, <1>13 DEF H
  <2>2. /\ Len(G) \in Nat /\ DOMAIN G = 1..Len(G) /\ DOMAIN x.garbage = 1..(Len(G) + 1)
        /\ \A k \in DOMAIN G : x.garbage[k] = G[k]
        /\ x.garbage[Len(G) + 1] = op
    BY <1>1, <1>7, <2>1
  <2>3. \A k \in DOMAIN x.garbage : k \in DOMAIN G \/ k = Len(G) + 1
    BY <2>2
  <2>4. DOMAIN G \subseteq DOMAIN x.garbage /\ Len(G) + 1 \in DOMAIN x.garbage
    BY <2>2
  <2>5. \A p : Leaving(x, p) <=> Leaving(c, p) \/ p \in b
    BY <1>7, <2>2, <2>3, <2>4 DEF Leaving
  <2>6. BufsInv(x)
    BY <1>0, <1>9, <1>10, <1>11, <2>5 DEF BufsInv
  <2>7. DirtyInv(x) /\ MappedInv(x)
    BY <1>0, <1>9 DEF DirtyInv, MappedInv
  <2>8. NewestInv(x)
    BY <1>0, <1>6, <1>9, <2>5 DEF NewestInv
  <2>9. ASSUME NEW k \in DOMAIN x.garbage
        PROVE  /\ \A u \in x.garbage[k].copied : PageOf(u) \in x.garbage[k].pages
               /\ \A p \in x.garbage[k].pages : p \notin x.astray =>
                     /\ ~InBuffer(x, p)
                     /\ \A u \in Units : PageOf(u) = p =>
                           /\ u \in x.garbage[k].copied <=> u \in x.modified
                           /\ u \in x.garbage[k].fresh <=> u \in x.garbage[k].copied
                     /\ \A j \in DOMAIN x.garbage : p \in x.garbage[j].pages => j = k
    <3>1. CASE k \in DOMAIN G
      <4>1. x.garbage[k] = G[k]
        BY <2>2, <3>1
      <4>2. \A p \in G[k].pages : p \notin c.astray => ~InBuffer(c, p)
        BY <1>0, <3>1 DEF GarbageInv
      <4>3. \A p \in G[k].pages : p \notin c.astray => p \notin b
        BY <1>4, <4>2
      <4>4. \A p \in G[k].pages : p \notin c.astray =>
                \A j \in DOMAIN x.garbage : p \in x.garbage[j].pages => j = k
        BY <1>0, <1>7, <2>2, <2>3, <3>1, <4>3 DEF GarbageInv
      <4> QED BY <1>0, <1>9, <1>10, <3>1, <4>1, <4>4 DEF GarbageInv
    <3>2. CASE k = Len(G) + 1
      <4>1. x.garbage[k] = op
        BY <2>2, <3>2
      <4>2. \A p \in b : p \notin c.astray =>
                \A j \in DOMAIN x.garbage : p \in x.garbage[j].pages => j = k
        BY <1>4, <2>2, <2>3, <3>2 DEF Leaving
      <4>3. \A u \in K : PageOf(u) \notin c.astray => u \in c.device
        BY <1>0, <1>1, <1>3, <1>4 DEF NewestInv
      <4> QED BY <1>3, <1>7, <1>9, <1>10, <4>1, <4>2, <4>3
    <3> QED BY <2>3, <3>1, <3>2
  <2>10. GarbageInv(x)
    BY <2>9 DEF GarbageInv
  <2> QED BY <1>9, <2>1, <2>6, <2>7, <2>8, <2>10, StillRunning DEF Coherent, d
<1> QED BY <1>12, <1>13

-----------------------------------------------------------------------------
LEMMA SpansTyped == \A S \in Spans : S \in SUBSET Units
<1> SUFFICES ASSUME NEW S \in Spans PROVE S \in SUBSET Units
  OBVIOUS
<1>1. PICK lo \in Units, hi \in Units : S = lo..hi
  BY DEF Spans
<1>2. CacheUnits \in Int
  BY BufferCacheAssumption
<1> QED BY <1>1, <1>2 DEF Units

LEMMA CacheInitGood == CacheInit => CacheIInv
<1> SUFFICES ASSUME CacheInit PROVE CacheIInv
  OBVIOUS
<1>1. /\ cache.bufs = {} /\ cache.cpu = TrackerPages /\ cache.gpu = {} /\ cache.modified = {}
      /\ cache.memory = Units /\ cache.device = {} /\ cache.garbage = <<>>
      /\ cache.mapped = TrackerPages /\ cache.bare = {} /\ cache.fatal = "No"
  BY DEF CacheInit
<1>2. cache \in Caches
  <2>1. <<>> \in Seq(Downloads)
    OBVIOUS
  <2> QED BY <2>1 DEF CacheInit, Caches, CacheEnds
<1>3. BufsInv(cache) /\ DirtyInv(cache) /\ MappedInv(cache)
  BY <1>1 DEF BufsInv, DirtyInv, MappedInv
<1>4. NewestInv(cache)
  BY <1>1, PageFacts DEF NewestInv
<1>5. GarbageInv(cache)
  BY <1>1 DEF GarbageInv
<1> QED BY <1>1, <1>2, <1>3, <1>4, <1>5, StillRunning DEF CacheIInv, Coherent

LEMMA CacheStep == CacheIInv /\ [CacheNext]_cache => CacheIInv'
<1> SUFFICES ASSUME CacheIInv, [CacheNext]_cache PROVE CacheIInv'
  OBVIOUS
<1>0. Coherent(cache) /\ Survives(cache)
  BY DEF CacheIInv
<1> DEFINE Good(c) == Coherent(c) /\ Survives(c)
<1>1. CASE UNCHANGED cache
  BY <1>1 DEF CacheIInv, Coherent, Survives, BufsInv, DirtyInv, MappedInv, NewestInv, GarbageInv,
              InBuffer, Leaving
<1>2. ASSUME NEW u \in Units, GuestStore(u) PROVE Good(cache')
  <2>1. PageOf(u) \in cache.cpu \/ PageOf(u) \in cache.bare
    BY <1>2, InPages DEF GuestStore
  <2>2. Coherent(cache') /\ cache'.fatal = "No"
    BY <1>0, <1>2, <2>1, StoredFacts DEF GuestStore, Alive
  <2> QED BY <2>2, StillRunning
<1>3. ASSUME NEW S \in Spans, InvalidateForHost(S) \/ \E u \in Units : WriteFault(u, S)
      PROVE  Good(cache')
  <2>1. S \in SUBSET Units /\ cache.fatal = "No" /\ cache' = InvalidateMemory(cache, S)
    BY <1>3, SpansTyped DEF WriteFault, InvalidateForHost, Alive
  <2> QED BY <1>0, <2>1, InvalidateFacts
<1>4. ASSUME NEW u \in Units, NEW S \in Spans, ReadFault(u, S) PROVE Good(cache')
  <2>1. S \in SUBSET Units /\ cache.fatal = "No" /\ cache' = ReadMemory(cache, S)
    BY <1>4, SpansTyped DEF ReadFault, Alive
  <2> QED BY <1>0, <2>1, ReadMemoryFacts
<1>5. ASSUME NEW S \in Spans, ObtainBuffer(S) PROVE Good(cache')
  <2>1. S \in SUBSET Units /\ cache.fatal = "No"
    BY <1>5, SpansTyped DEF ObtainBuffer, Alive
  <2>2. cache' = ObtainForRead(cache, S) \/ \E W \in SUBSET S : cache' = ObtainForWrite(cache, S, W)
    BY <1>5 DEF ObtainBuffer
  <2>3. Coherent(cache') /\ cache'.fatal = "No"
    BY <1>0, <2>1, <2>2, ReadFacts, WriteFacts
  <2> QED BY <2>3, StillRunning
<1>6. ASSUME NEW S \in Spans, ObtainBufferForImage(S) PROVE Good(cache')
  BY <1>0, <1>6, SpansTyped, ImageFacts DEF ObtainBufferForImage, Alive
<1>7. ASSUME NEW S \in Spans, FillBuffer(S) PROVE Good(cache')
  <2>1. S \in SUBSET Units /\ cache.fatal = "No"
    BY <1>7, SpansTyped DEF FillBuffer, Alive
  <2>2. CASE S \cap cache.modified = {}
    BY <1>0, <1>7, <2>1, <2>2, HostWriteFacts DEF FillBuffer
  <2>3. CASE S \cap cache.modified # {}
    <3>1. cache' = ObtainForWrite(cache, S, S)
      BY <1>7, <2>3 DEF FillBuffer
    <3> QED BY <1>0, <2>1, <3>1, WriteFacts, StillRunning
  <2> QED BY <2>2, <2>3
<1>8. ASSUME NEW S \in Mappings, UnmapMemory(S) PROVE Good(cache')
  BY <1>0, <1>8, SpansTyped, UnmapFacts DEF UnmapMemory, Alive, Mappings
<1>9. ASSUME NEW S \in Mappings, MapMemory(S) PROVE Good(cache')
  BY <1>0, <1>9, SpansTyped, RemapFacts DEF MapMemory, Alive, Mappings
<1>10. ASSUME NEW dst \in Spans, NEW src \in Spans, CopyBuffer(dst, src) PROVE Good(cache')
  <2>1. dst \in SUBSET Units /\ src \in SUBSET Units /\ cache.fatal = "No"
    BY <1>10, SpansTyped DEF CopyBuffer, Alive
  <2>2. CASE (src \cup dst) \cap cache.modified # {}
    <3> DEFINE e == ObtainForRead(cache, src)
    <3>1. Coherent(e) /\ e.fatal = "No"
      BY <1>0, <2>1, ReadFacts
    <3>2. cache' = ObtainForWrite(e, dst, dst)
      BY <1>10, <2>2 DEF CopyBuffer
    <3> HIDE DEF e
    <3> QED BY <2>1, <3>1, <3>2, WriteFacts, StillRunning
  <2>3. CASE (src \cup dst) \cap cache.modified = {}
    <3>1. cache' = Ends(cache, "Backing") \/ cache' = HostWrite(cache, dst)
      BY <1>10, <2>3 DEF CopyBuffer
    <3>2. dst \cap cache.modified = {}
      BY <2>3
    <3> QED BY <1>0, <2>1, <3>1, <3>2, EndsFacts, HostWriteFacts
  <2> QED BY <2>2, <2>3
<1>11. ASSUME NEW b \in SUBSET TrackerPages, RunGarbageCollector(b) PROVE Good(cache')
  BY <1>0, <1>11, RetireFacts DEF RunGarbageCollector, Alive
<1>12. ASSUME PopGarbage PROVE Good(cache')
  BY <1>0, <1>12, PopFacts DEF PopGarbage, Alive
<1>13. Good(cache') => CacheIInv'
  BY DEF CacheIInv, Coherent, Survives, BufsInv, DirtyInv, MappedInv, NewestInv, GarbageInv,
         InBuffer, Leaving
<1> HIDE DEF Good
<1>14. ASSUME CacheNext PROVE Good(cache')
  <2>1. CASE \E u \in Units : GuestStore(u)
    BY <2>1, <1>2
  <2>2. CASE \E u \in Units, S \in Spans : WriteFault(u, S) \/ ReadFault(u, S)
    BY <2>2, <1>3, <1>4
  <2>3. CASE \E S \in Spans : InvalidateForHost(S)
    BY <2>3, <1>3
  <2>4. CASE \E S \in Spans : ObtainBuffer(S) \/ ObtainBufferForImage(S) \/ FillBuffer(S)
    BY <2>4, <1>5, <1>6, <1>7
  <2>5. CASE \/ \E S \in Mappings : MapMemory(S) \/ UnmapMemory(S)
             \/ \E dst, src \in Spans : CopyBuffer(dst, src)
             \/ \E b \in SUBSET TrackerPages : RunGarbageCollector(b)
             \/ PopGarbage
    BY <2>5, <1>8, <1>9, <1>10, <1>11, <1>12
  <2> QED BY <1>14, <2>1, <2>2, <2>3, <2>4, <2>5 DEF CacheNext
<1> QED BY <1>1, <1>13, <1>14

LEMMA CacheIInvMeans ==
    ASSUME CacheIInv
    PROVE  CacheCoherent /\ CacheTypeOK
<1>0. /\ cache \in Caches /\ BufsInv(cache) /\ DirtyInv(cache) /\ MappedInv(cache)
      /\ NewestInv(cache) /\ Survives(cache)
  BY DEF CacheIInv, Coherent
<1>1. cache.modified \subseteq Units /\ cache.device \subseteq Units
  BY <1>0 DEF Caches
<1>2. GuestSeesNewest
  <2> SUFFICES ASSUME NEW u \in Units, u \notin cache.memory, u \notin UnitsIn(cache.astray)
               PROVE  u \in cache.modified /\ PagesIn({u}) \subseteq cache.gpu \ cache.bare
    BY DEF GuestSeesNewest
  <2>1. PageOf(u) \notin cache.astray /\ PageOf(u) \in TrackerPages
    BY InUnits, PageFacts
  <2>2. u \in cache.modified /\ PageOf(u) \in cache.gpu /\ PageOf(u) \notin cache.bare
    BY <1>0, <2>1 DEF NewestInv, DirtyInv, MappedInv
  <2> QED BY <2>2, InPages
<1>3. GpuSeesNewest
  <2> SUFFICES ASSUME NEW p \in TrackerPages, NEW u, u \in UnitsIn({p}), p \notin cache.cpu,
                      p \notin Collected(cache), p \notin cache.torn, p \notin cache.astray
               PROVE  u \in cache.device
    BY DEF GpuSeesNewest
  <2>1. u \in Units /\ PageOf(u) = p /\ ~Leaving(cache, p)
    BY InUnits, LeavingIsCollected
  <2> QED BY <1>0, <2>1 DEF NewestInv
<1>4. DirtyPagesExact
  <2>1. \A p : p \in cache.gpu <=> p \in PagesIn(cache.modified)
    BY <1>0, InPages DEF DirtyInv
  <2>2. \A p \in cache.gpu : p \notin cache.cpu
    BY <1>0 DEF DirtyInv
  <2> QED BY <2>1, <2>2 DEF DirtyPagesExact
<1>5. CacheSurvives
  BY <1>0, LeavingIsCollected DEF CacheSurvives, Survives
<1>6. CacheTypeOK
  <2>1. cache.device \subseteq UnitsIn(Covered(cache))
    BY <1>0, <1>1, InUnits, InCovered DEF BufsInv
  <2>2. \A b, d \in cache.bufs : b # d => b \cap d = {}
    BY <1>0 DEF BufsInv
  <2>3. cache.bare \subseteq cache.mapped
    BY <1>0 DEF MappedInv, Caches
  <2> QED BY <1>0, <2>1, <2>2, <2>3 DEF CacheTypeOK, Caches
<1> QED BY <1>2, <1>3, <1>4, <1>5, <1>6 DEF CacheCoherent

\* The inductive invariant: buffers do not overlap and hold what they are said
\* to, dirty pages are those of the modified ranges, and every newest value is
\* where the next reader looks for it, if the page did not go astray.
THEOREM CacheIInvHolds == CacheSpec => []CacheIInv
BY CacheInitGood, CacheStep, PTL DEF CacheSpec

LEMMA CacheAlone == MCSpec => CacheSpec
<1>1. MCInit => CacheInit
  BY DEF MCInit
<1>2. [MCNext]_<<part, trackingVars, cache, rangeVars, videoVars>> => [CacheNext]_cache
  <2> SUFFICES ASSUME MCNext PROVE [CacheNext]_cache
    OBVIOUS
  <2>1. CASE part = "buffers"
    BY <2>1 DEF MCNext
  <2>2. CASE part # "buffers"
    BY <2>2 DEF MCNext, Rests
  <2> QED BY <2>1, <2>2
<1> QED BY <1>1, <1>2, PTL DEF MCSpec, CacheSpec

\* For any number of addresses, page, block and region size, images of any
\* range, and memory mapped and unmapped at any time: the guest and the GPU
\* read the newest values of all pages but those that are noted as torn or
\* astray, the tracker's pages are those of the exact ranges, and the checks of
\* the cache end the program only for a page taken up, or a buffer looked for,
\* between its collection and its download.
THEOREM CacheIsCoherent == MCSpec => []CacheCoherent
<1>1. CacheIInv => CacheCoherent
  BY CacheIInvMeans
<1> QED BY <1>1, CacheAlone, CacheIInvHolds, PTL

\* The cache's sets have their types, and buffers do not overlap.
THEOREM CacheIsTyped == CacheSpec => []CacheTypeOK
<1>1. CacheIInv => CacheTypeOK
  BY CacheIInvMeans
<1> QED BY <1>1, CacheIInvHolds, PTL

-----------------------------------------------------------------------------
(* Page tracking.                                                           *)

\* The counters have room for every image and the tracker.
CountersSuffice == Cardinality(Images) < WatcherLimit

Protections == {"ReadWrite", "ReadOnly", "NoAccess"}
Watchers == [w : 0..WatcherLimit, a : 0..1]
Calls == [r : Regions, mask : SUBSET Pages, track : BOOLEAN]
Tasks == [kind : {"None", "Cpu", "Gpu", "Clean", "Upload", "UploadWrite", "FlushThenCpu"},
          pages : SUBSET Pages, left : SUBSET Regions]
Scans == [on : BOOLEAN, mask : SUBSET Pages, track : BOOLEAN, read : BOOLEAN, page : Nat,
          perms : Protections, begin : Nat, bytes : Nat, potential : Nat]

TrackTypes ==
    /\ TrackingTypeOK /\ chunks \subseteq Calls /\ task \in Tasks /\ scan \in Scans

\* The bits the tracker compares with were brought into line.
BitsInv ==
    /\ writable = cpuDirty /\ readable = Pages \ gpuDirty
    /\ \A p \in gpuDirty : RegionOf(p) \in managers

\* What the operation in progress has already made sure of.
TaskInv ==
    /\ task.left \subseteq managers
    /\ task.kind = "Cpu" => task.pages \cap gpuDirty = {}
    /\ task.kind \in {"Gpu", "UploadWrite"} => RegionsOf(task.pages) \subseteq managers
    /\ task.kind = "Gpu" => task.pages \cap cpuDirty = {}
    /\ task.kind = "UploadWrite" => \A p \in task.pages \cap cpuDirty : RegionOf(p) \in task.left
    /\ task.kind = "FlushThenCpu" => \A p \in task.pages \cap gpuDirty : RegionOf(p) \in task.left

\* What UntrackImageHead and UntrackImageTail leave.
HeadEnd(i) == (ImageRange[i][1] \div PageUnits + 1) * PageUnits
TailBegin(i) == (ImageRange[i][2] \div PageUnits) * PageUnits

TrackedRange(i, t) ==
    /\ t[1] \in Nat /\ t[2] \in Nat /\ t[1] < t[2]
    /\ \/ t[1] = ImageRange[i][1]
       \/ t[1] = HeadEnd(i) /\ HeadEnd(i) < ImageRange[i][2]
    /\ \/ t[2] = ImageRange[i][2]
       \/ t[2] = TailBegin(i) /\ ImageRange[i][1] < TailBegin(i) /\ TailBegin(i) < ImageRange[i][2]

ImagesInv ==
    \A i \in Images :
        image[i].track # Untracked => image[i].registered /\ TrackedRange(i, image[i].track)

\* The calls an image has yet to make are for pages of their own, that it
\* watches already, or no longer.
ChunksInv ==
    /\ \A c, d \in chunks : \A p \in c.mask : p \in d.mask => c = d
    /\ \A c \in chunks : \A p \in c.mask : RegionOf(p) = c.r
    /\ \A c \in chunks : \E i \in Images : \A p \in c.mask : p \in ImagePages(i) <=> c.track

\* A page's watchers once the loop is through, and whether a call is due.
Final(p) ==
    IF scan.on /\ p \in scan.mask /\ scan.page <= p
    THEN AddDelta(watch[p], scan.track, scan.read) ELSE watch[p]
Awaits(p, track) == IF \E c \in chunks : p \in c.mask /\ c.track = track THEN 1 ELSE 0
WatchedBy(p) == {i \in Images : p \in ImagePages(i)}

PairInv ==
    \A p \in Pages :
        /\ Final(p).w + Awaits(p, TRUE)
             = (IF p \in cpuDirty THEN 0 ELSE 1) + Cardinality(WatchedBy(p)) + Awaits(p, FALSE)
        /\ Final(p).a = (IF p \in gpuDirty THEN 1 ELSE 0)

\* A region with watchers, old or new, is known.
KnownInv ==
    \A p \in Pages :
        (watch[p].w # 0 \/ watch[p].a # 0 \/ (scan.on /\ p \in scan.mask)) => RegionOf(p) \in known

\* Outside the part of the run that waits for its call every page has its
\* protection, and the run has one.
LoopInv ==
    /\ ~scan.on => scan = NoScan
    /\ scan.bytes # 0 =>
          /\ scan.begin + scan.potential = scan.page /\ scan.bytes <= scan.potential
          /\ \A q \in Pages : scan.begin <= q /\ q < scan.page => Perms(watch[q]) = scan.perms
    /\ \A p \in Pages : ~Released(p) => prot[p] = Perms(watch[p])

TrackGood ==
    /\ TrackTypes /\ BitsInv /\ TaskInv /\ ImagesInv
    /\ ChunksInv /\ PairInv /\ KnownInv /\ LoopInv

TrackIInv == CountersSuffice /\ ~fatal /\ TrackGood

\* Division by a page size: what the quotient is, and that it is the only one.
LEMMA Quotient ==
    ASSUME NEW n \in Nat \ {0}, NEW x \in Nat
    PROVE  /\ x \div n \in Nat /\ (x \div n) * n <= x /\ x < (x \div n) * n + n
           /\ \A q \in Nat : q * n <= x /\ x < q * n + n => x \div n = q
<1>1. x \div n \in Nat /\ (x \div n) * n <= x /\ x < (x \div n) * n + n
  OBVIOUS
<1>2. ASSUME NEW q \in Nat, q * n <= x, x < q * n + n PROVE x \div n = q
  <2> DEFINE d == x \div n
  <2>0. d \in Nat /\ d * n <= x /\ x < d * n + n
    BY <1>1
  <2> HIDE DEF d
  <2>1. ASSUME NEW a \in Nat, NEW b \in Nat, a < b PROVE a * n + n <= b * n
    <3>1. PICK k \in Nat : b = a + 1 + k
      <4>1. b - a - 1 \in Nat /\ b = a + 1 + (b - a - 1)
        BY <2>1
      <4> QED BY <4>1
    <3>2. (a + 1 + k) * n = a * n + n + k * n /\ k * n \in Nat /\ a * n \in Nat
      OBVIOUS
    <3> QED BY <3>1, <3>2
  <2>2. d * n \in Nat /\ q * n \in Nat
    BY <2>0
  <2>3. ~(d < q)
    BY <1>2, <2>0, <2>1, <2>2
  <2>4. ~(q < d)
    BY <1>2, <2>0, <2>1, <2>2
  <2>5. d = q
    BY <2>0, <2>3, <2>4
  <2> QED BY <2>5 DEF d
<1> QED BY <1>1, <1>2

LEMMA Product ==
    ASSUME NEW n \in Nat \ {0}, NEW a \in Nat, NEW b \in Nat
    PROVE  a * n \in Nat /\ b * n \in Nat /\ (a < b => a * n + n <= b * n) /\ (a * n < b * n => a < b)
<1>1. a * n \in Nat /\ b * n \in Nat
  OBVIOUS
<1>2. ASSUME NEW c \in Nat, NEW d \in Nat, c < d PROVE c * n + n <= d * n /\ c * n \in Nat /\ d * n \in Nat
  <2>1. PICK k \in Nat : d = c + 1 + k
    <3>1. d - c - 1 \in Nat /\ d = c + 1 + (d - c - 1)
      BY <1>2
    <3> QED BY <3>1
  <2>2. (c + 1 + k) * n = c * n + n + k * n /\ k * n \in Nat /\ c * n \in Nat
    OBVIOUS
  <2> QED BY <2>1, <2>2
<1>3. a < b => a * n + n <= b * n
  BY <1>2
<1>4. a * n < b * n => a < b
  <2> SUFFICES ASSUME a * n < b * n, ~(a < b) PROVE FALSE
    OBVIOUS
  <2>1. a = b \/ b < a
    OBVIOUS
  <2>2. CASE a = b
    BY <2>2, <1>1
  <2>3. CASE b < a
    BY <1>1, <1>2, <2>3
  <2> QED BY <2>1, <2>2, <2>3
<1> QED BY <1>1, <1>3, <1>4

\* Quotients are in the order of what is divided.
LEMMA QuotientOrder ==
    ASSUME NEW n \in Nat \ {0}, NEW x \in Nat, NEW y \in Nat, x <= y
    PROVE  x \div n <= y \div n
<1> DEFINE a == x \div n
           b == y \div n
<1>1. a \in Nat /\ a * n <= x /\ b \in Nat /\ y < b * n + n
  BY Quotient
<1> HIDE DEF a, b
<1>2. ~(b < a)
  <2>1. a * n \in Nat /\ b * n \in Nat /\ (b < a => b * n + n <= a * n)
    BY <1>1, Product
  <2> QED BY <1>1, <2>1
<1>3. a <= b
  BY <1>1, <1>2
<1> QED BY <1>3 DEF a, b

\* The pages of an image's data, of its first page and of its last one.
LEMMA ImageFactsAt ==
    ASSUME NEW i \in Images
    PROVE  LET begin == ImageRange[i][1]
               end == ImageRange[i][2]
               f == begin \div PageUnits
               l == (end - 1) \div PageUnits
           IN  /\ begin \in Nat /\ end \in Nat /\ begin < end /\ f \in Nat /\ l \in Nat
               /\ f <= l /\ l <= PageCount - 1 /\ HeadEnd(i) \in Nat /\ TailBegin(i) \in Nat
               /\ begin < HeadEnd(i) /\ HeadEnd(i) \div PageUnits = f + 1
               /\ (HeadEnd(i) - 1) \div PageUnits = f
               /\ TailBegin(i) < end => /\ TailBegin(i) \div PageUnits = l
                                        /\ begin < TailBegin(i) =>
                                             /\ (TailBegin(i) - 1) \div PageUnits = l - 1
                                             /\ f < l
               /\ HeadEnd(i) < end => f < l
               /\ TailBegin(i) < end /\ begin < TailBegin(i) => HeadEnd(i) <= TailBegin(i)
<1> DEFINE n == PageUnits
           begin == ImageRange[i][1]
           end == ImageRange[i][2]
           f == begin \div n
           l == (end - 1) \div n
           e == end \div n
           h == HeadEnd(i)
           t == TailBegin(i)
<1>0. /\ n \in Nat \ {0} /\ PageCount \in Nat \ {0} /\ begin \in Nat /\ end \in Nat /\ begin < end
      /\ end <= PageCount * n /\ end - 1 \in Nat
  BY TrackingAssumption
<1>1. h = (f + 1) * n /\ t = e * n
  BY DEF HeadEnd, TailBegin
<1>2. f \in Nat /\ f * n <= begin /\ begin < f * n + n
  BY <1>0, Quotient
<1>3. l \in Nat /\ l * n <= end - 1 /\ end - 1 < l * n + n
  BY <1>0, Quotient
<1>4. e \in Nat /\ e * n <= end /\ end < e * n + n
  BY <1>0, Quotient
<1>5. f <= l
  BY <1>0, QuotientOrder
<1>6. \A x \in Nat : \A q \in Nat : q * n <= x /\ x < q * n + n => x \div n = q
  BY <1>0, Quotient
<1> HIDE DEF n, begin, end, f, l, e, h, t
<1>7. f * n \in Nat /\ l * n \in Nat /\ e * n \in Nat /\ (f + 1) * n = f * n + n
  BY <1>0, <1>2, <1>3, <1>4
<1>8. l <= PageCount - 1
  <2>1. l * n < PageCount * n
    BY <1>0, <1>3, <1>7
  <2>2. l < PageCount
    BY <1>0, <1>3, <2>1, Product
  <2> QED BY <1>0, <1>3, <2>2
<1>9. h \in Nat /\ t \in Nat /\ begin < h /\ f + 1 \in Nat
  BY <1>0, <1>1, <1>2, <1>7
<1>10. h \div n = f + 1
  BY <1>0, <1>1, <1>6, <1>9
<1>11. (h - 1) \div n = f
  <2>1. h - 1 \in Nat /\ f * n <= h - 1 /\ h - 1 < f * n + n
    BY <1>0, <1>1, <1>7
  <2> QED BY <1>2, <1>6, <2>1
<1>12. ASSUME t < end PROVE t \div n = l /\ e = l
  <2>1. e * n <= end - 1 /\ end - 1 < e * n + n
    BY <1>0, <1>1, <1>4, <1>7, <1>12
  <2>2. (end - 1) \div n = e
    BY <1>0, <1>4, <1>6, <2>1
  <2>3. t \div n = e
    BY <1>0, <1>1, <1>4, <1>6, <1>7
  <2> QED BY <2>2, <2>3 DEF l
<1>13. ASSUME t < end, begin < t PROVE (t - 1) \div n = l - 1 /\ f < l /\ h <= t
  <2>1. e = l /\ t = l * n
    BY <1>1, <1>12, <1>13
  <2>2. f * n < l * n
    BY <1>0, <1>2, <1>7, <1>13, <2>1
  <2>3. f < l
    BY <1>0, <1>2, <1>3, <2>2, Product
  <2>4. l - 1 \in Nat /\ (l - 1) * n = l * n - n /\ (l - 1) * n \in Nat
    BY <1>0, <1>2, <1>3, <2>3
  <2>5. t - 1 \in Nat /\ (l - 1) * n <= t - 1 /\ t - 1 < (l - 1) * n + n
    BY <1>0, <1>7, <1>9, <1>13, <2>1, <2>4
  <2>6. (t - 1) \div n = l - 1
    BY <1>6, <2>4, <2>5
  <2>7. f * n + n <= l * n
    BY <1>0, <1>2, <1>3, <2>3, Product
  <2> QED BY <1>1, <1>7, <2>1, <2>3, <2>6, <2>7
<1>14. ASSUME h < end PROVE f < l
  <2>1. (f + 1) * n <= end - 1
    BY <1>0, <1>1, <1>9, <1>14
  <2>2. h \div n <= (end - 1) \div n
    BY <1>0, <1>1, <1>9, <2>1, QuotientOrder
  <2>3. f + 1 <= l
    BY <1>10, <2>2 DEF l
  <2> QED BY <1>2, <1>3, <2>3
<1>15. /\ begin \in Nat /\ end \in Nat /\ begin < end /\ f \in Nat /\ l \in Nat
       /\ f <= l /\ l <= PageCount - 1 /\ h \in Nat /\ t \in Nat
       /\ begin < h /\ h \div n = f + 1 /\ (h - 1) \div n = f
       /\ t < end => t \div n = l /\ (begin < t => (t - 1) \div n = l - 1 /\ f < l)
       /\ h < end => f < l
       /\ t < end /\ begin < t => h <= t
  BY <1>0, <1>2, <1>3, <1>5, <1>8, <1>9, <1>10, <1>11, <1>12, <1>13, <1>14
<1> QED BY <1>15 DEF n, begin, end, f, l, h, t

-----------------------------------------------------------------------------
TrackPages(t) == IF t # Untracked THEN PagesAt(t[1], t[2]) ELSE {}

LEMMA PagesOfImage ==
    ASSUME NEW i
    PROVE  ImagePages(i) = TrackPages(image[i].track)
BY DEF ImagePages, TrackPages, IsTracked

\* An image that is tracked watches all its pages, but for the first or the
\* last one where that was given up.
LEMMA TrackedPages ==
    ASSUME NEW i \in Images, NEW t, TrackedRange(i, t)
    PROVE  LET begin == ImageRange[i][1]
               end == ImageRange[i][2]
               f == begin \div PageUnits
               l == (end - 1) \div PageUnits
           IN  /\ PagesAt(t[1], t[2]) = (IF t[1] = begin THEN f ELSE f + 1)
                                           ..(IF t[2] = end THEN l ELSE l - 1)
               /\ PagesAt(t[1], t[2]) \in SUBSET Pages
<1> DEFINE begin == ImageRange[i][1]
           end == ImageRange[i][2]
           f == begin \div PageUnits
           l == (end - 1) \div PageUnits
<1>1. /\ begin \in Nat /\ end \in Nat /\ f \in Nat /\ l \in Nat /\ f <= l /\ l <= PageCount - 1
      /\ HeadEnd(i) \in Nat /\ TailBegin(i) \in Nat
      /\ begin < HeadEnd(i) /\ HeadEnd(i) \div PageUnits = f + 1
      /\ TailBegin(i) < end /\ begin < TailBegin(i) => (TailBegin(i) - 1) \div PageUnits = l - 1
  BY ImageFactsAt
<1> HIDE DEF f, l
<1>2. t[1] \div PageUnits = IF t[1] = begin THEN f ELSE f + 1
  BY <1>1 DEF TrackedRange, f
<1>3. (t[2] - 1) \div PageUnits = IF t[2] = end THEN l ELSE l - 1
  BY <1>1 DEF TrackedRange, l
<1>4. PagesAt(t[1], t[2]) = (IF t[1] = begin THEN f ELSE f + 1)..(IF t[2] = end THEN l ELSE l - 1)
  BY <1>2, <1>3 DEF PagesAt
<1>5. PagesAt(t[1], t[2]) \in SUBSET Pages
  <2>1. PageCount \in Nat
    BY TrackingAssumption
  <2> QED BY <1>1, <1>4, <2>1 DEF Pages
<1> QED BY <1>4, <1>5 DEF f, l

LEMMA TrackPagesTyped ==
    ASSUME NEW i \in Images, NEW t, t # Untracked => TrackedRange(i, t)
    PROVE  TrackPages(t) \in SUBSET Pages
BY TrackedPages DEF TrackPages

\* The calls C are one for each region of the pages X.
CallsFor(C, X, track) ==
    /\ C \subseteq Calls /\ \A c \in C : c.track = track /\ \A p \in c.mask : RegionOf(p) = c.r
    /\ \A c, d \in C : \A p \in c.mask : p \in d.mask => c = d
    /\ \A p : p \in X <=> \E c \in C : p \in c.mask

LEMMA ChunksFacts ==
    ASSUME NEW begin, NEW end, PagesAt(begin, end) \in SUBSET Pages, NEW track \in BOOLEAN
    PROVE  CallsFor(Chunks(begin, end, track), PagesAt(begin, end), track)
<1> DEFINE X == PagesAt(begin, end)
           C == Chunks(begin, end, track)
           call(r) == [r |-> r, mask |-> X \cap PagesOf(r), track |-> track]
<1>1. C = {call(r) : r \in RegionsOf(X)}
  BY DEF Chunks
<1>2. \A r \in RegionsOf(X) : /\ call(r) \in Calls /\ call(r).r = r /\ call(r).track = track
                              /\ call(r).mask = X \cap PagesOf(r)
  BY DEF Calls, RegionsOf, Regions, PagesOf
<1>3. \A p \in X : RegionOf(p) \in RegionsOf(X)
  BY DEF RegionsOf
<1> HIDE DEF X, C, call
<1>4. \A p \in X : \A r : p \in PagesOf(r) <=> RegionOf(p) = r
  BY DEF PagesOf, X
<1>5. \A c \in C : \E r \in RegionsOf(X) : c = call(r)
  BY <1>1
<1>6. \A c \in C : /\ c \in Calls /\ c.track = track
                   /\ \A p : p \in c.mask <=> p \in X /\ RegionOf(p) = c.r
  BY <1>2, <1>4, <1>5
<1>7. \A c, d \in C : c.r = d.r => c = d
  BY <1>2, <1>5
<1>8. \A p \in X : \E c \in C : p \in c.mask
  BY <1>1, <1>2, <1>3, <1>4
<1> QED BY <1>6, <1>7, <1>8 DEF CallsFor, X, C

LEMMA CallsTogether ==
    ASSUME NEW C, NEW D, NEW X, NEW Y, NEW track, CallsFor(C, X, track), CallsFor(D, Y, track),
           X \cap Y = {}
    PROVE  CallsFor(C \cup D, X \cup Y, track)
<1>1. \A c \in C, d \in D : \A p : ~(p \in c.mask /\ p \in d.mask)
  BY DEF CallsFor
<1> QED BY <1>1 DEF CallsFor

LEMMA NoCalls == \A track \in BOOLEAN : CallsFor({}, {}, track)
BY DEF CallsFor

-----------------------------------------------------------------------------
LEMMA WatchedFinite ==
    /\ IsFiniteSet(Images) /\ Cardinality(Images) \in Nat
    /\ \A p : /\ IsFiniteSet(WatchedBy(p)) /\ Cardinality(WatchedBy(p)) \in Nat
              /\ Cardinality(WatchedBy(p)) <= Cardinality(Images)
<1>1. IsFiniteSet(Images) /\ Cardinality(Images) \in Nat
  BY TrackingAssumption, FS_CardinalityType
<1>2. ASSUME NEW p PROVE /\ IsFiniteSet(WatchedBy(p)) /\ Cardinality(WatchedBy(p)) \in Nat
                         /\ Cardinality(WatchedBy(p)) <= Cardinality(Images)
  <2>1. WatchedBy(p) \subseteq Images
    BY DEF WatchedBy
  <2> QED BY <1>1, <2>1, FS_Subset, FS_CardinalityType
<1> QED BY <1>1, <1>2

\* An image changes what it watches, and notes the calls that are due.
LEMMA ImageStep ==
    ASSUME TrackGood, NEW i \in Images, NEW new, NEW calls, ImageUpdate(i, new, calls),
           new \in [registered : BOOLEAN, track : Nat \X Nat],
           new.track # Untracked => new.registered /\ TrackedRange(i, new.track),
           NEW X, NEW t \in BOOLEAN, CallsFor(calls, X, t),
           t => X \cap ImagePages(i) = {} /\ TrackPages(new.track) = ImagePages(i) \cup X,
           ~t => X \subseteq ImagePages(i) /\ TrackPages(new.track) = ImagePages(i) \ X
    PROVE  TrackGood' /\ ~fatal'
<1>0. /\ TrackTypes /\ BitsInv /\ TaskInv /\ ImagesInv /\ ChunksInv /\ PairInv /\ KnownInv /\ LoopInv
  BY DEF TrackGood
<1>1. /\ chunks = {} /\ ~fatal /\ ~scan.on /\ image' = [image EXCEPT ![i] = new] /\ chunks' = calls
      /\ UNCHANGED <<bits, known, watch, prot, scan, fatal, task>>
  BY DEF ImageUpdate
<1>2. /\ managers' = managers /\ cpuDirty' = cpuDirty /\ gpuDirty' = gpuDirty
      /\ writable' = writable /\ readable' = readable /\ known' = known /\ watch' = watch
      /\ prot' = prot /\ scan' = scan /\ task' = task /\ fatal' = fatal
  BY <1>1 DEF bits
<1>3. image \in [Images -> [registered : BOOLEAN, track : Nat \X Nat]]
  BY <1>0 DEF TrackTypes, TrackingTypeOK
<1>4. image'[i] = new /\ \A j \in Images : j # i => image'[j] = image[j]
  BY <1>1, <1>3
<1>5. TrackTypes'
  <2>1. image' \in [Images -> [registered : BOOLEAN, track : Nat \X Nat]]
    BY <1>1, <1>3
  <2>2. chunks' \subseteq Calls
    BY <1>1 DEF CallsFor
  <2> QED BY <1>0, <1>2, <2>1, <2>2 DEF TrackTypes, TrackingTypeOK
<1>6. BitsInv' /\ TaskInv'
  BY <1>0, <1>2 DEF BitsInv, TaskInv
<1>7. ImagesInv'
  BY <1>0, <1>4 DEF ImagesInv
<1>8. ImagePages(i)' = TrackPages(new.track) /\ \A j \in Images : j # i => ImagePages(j)' = ImagePages(j)
  BY <1>4 DEF ImagePages, IsTracked, TrackPages
<1>9. \A c \in calls : \A p \in c.mask : p \in X
  BY DEF CallsFor
<1>10. ChunksInv'
  <2>1. ASSUME NEW c \in calls PROVE \A p \in c.mask : p \in ImagePages(i)' <=> c.track
    <3>1. c.track = t
      BY DEF CallsFor
    <3> QED BY <1>8, <1>9, <3>1
  <2> QED BY <1>1, <2>1 DEF ChunksInv, CallsFor
<1>11. KnownInv' /\ LoopInv'
  BY <1>0, <1>2 DEF KnownInv, LoopInv, Released
<1>12. ASSUME NEW p \in Pages
       PROVE  Final(p)' = Final(p) /\ Awaits(p, TRUE) = 0 /\ Awaits(p, FALSE) = 0
  BY <1>1, <1>2 DEF Final, Awaits
<1>13. ASSUME NEW p, NEW u \in BOOLEAN PROVE Awaits(p, u)' = IF p \in X /\ u = t THEN 1 ELSE 0
  BY <1>1 DEF Awaits, CallsFor
<1>14. ASSUME NEW p \in Pages
       PROVE  /\ p \in X /\ t => Cardinality(WatchedBy(p)') = Cardinality(WatchedBy(p)) + 1
              /\ p \in X /\ ~t => Cardinality(WatchedBy(p)') + 1 = Cardinality(WatchedBy(p))
              /\ p \notin X => WatchedBy(p)' = WatchedBy(p)
              /\ Cardinality(WatchedBy(p)) \in Nat /\ Cardinality(WatchedBy(p)') \in Nat
  <2>1. WatchedBy(p)' = {j \in Images : p \in ImagePages(j)'}
    BY DEF WatchedBy
  <2>2. IsFiniteSet(WatchedBy(p)) /\ Cardinality(WatchedBy(p)) \in Nat
    BY WatchedFinite
  <2>3. CASE p \in X /\ t
    <3>1. WatchedBy(p)' = WatchedBy(p) \cup {i} /\ i \notin WatchedBy(p)
      BY <1>8, <2>1, <2>3 DEF WatchedBy
    <3>2. Cardinality(WatchedBy(p)') = Cardinality(WatchedBy(p)) + 1
      BY <2>2, <3>1, FS_AddElement
    <3> QED BY <2>2, <2>3, <3>2
  <2>4. CASE p \in X /\ ~t
    <3>1. WatchedBy(p)' = WatchedBy(p) \ {i} /\ i \in WatchedBy(p)
      BY <1>8, <2>1, <2>4 DEF WatchedBy
    <3>2. Cardinality(WatchedBy(p)') = Cardinality(WatchedBy(p)) - 1
      BY <2>2, <3>1, FS_RemoveElement
    <3>3. IsFiniteSet(WatchedBy(p)') /\ Cardinality(WatchedBy(p)') \in Nat
      BY <2>2, <3>1, FS_RemoveElement, FS_CardinalityType
    <3> QED BY <2>2, <2>4, <3>2, <3>3
  <2>5. CASE p \notin X
    <3>1. \A j \in Images : p \in ImagePages(j)' <=> p \in ImagePages(j)
      BY <1>8, <2>5
    <3>2. WatchedBy(p)' = WatchedBy(p)
      BY <2>1, <3>1 DEF WatchedBy
    <3> QED BY <2>2, <2>5, <3>2
  <2> QED BY <2>3, <2>4, <2>5
<1>15. ASSUME NEW p \in Pages
       PROVE  /\ Final(p)'.w + Awaits(p, TRUE)'
                   = (IF p \in cpuDirty' THEN 0 ELSE 1) + Cardinality(WatchedBy(p)')
                     + Awaits(p, FALSE)'
              /\ Final(p)'.a = (IF p \in gpuDirty' THEN 1 ELSE 0)
  <2>1. /\ Final(p).w + 0 = (IF p \in cpuDirty THEN 0 ELSE 1) + Cardinality(WatchedBy(p)) + 0
        /\ Final(p).a = (IF p \in gpuDirty THEN 1 ELSE 0)
    BY <1>0, <1>12 DEF PairInv
  <2>2. Final(p)' = Final(p) /\ cpuDirty' = cpuDirty /\ gpuDirty' = gpuDirty
    BY <1>2, <1>12
  <2>3. /\ Awaits(p, TRUE)' = IF p \in X /\ t THEN 1 ELSE 0
        /\ Awaits(p, FALSE)' = IF p \in X /\ ~t THEN 1 ELSE 0
    BY <1>13
  <2>4. Final(p).w \in Nat
    BY <1>0, <1>1 DEF TrackTypes, TrackingTypeOK, Final
  <2> DEFINE k == IF p \in cpuDirty THEN 0 ELSE 1
             w == Final(p).w
             before == Cardinality(WatchedBy(p))
             after == Cardinality(WatchedBy(p)')
  <2>5. k \in Nat /\ w \in Nat /\ w + 0 = k + before + 0
    BY <2>1, <2>4
  <2>6. /\ Final(p)'.w = w /\ (IF p \in cpuDirty' THEN 0 ELSE 1) = k
        /\ Final(p)'.a = (IF p \in gpuDirty' THEN 1 ELSE 0)
    BY <2>1, <2>2
  <2> HIDE DEF k, w
  <2>7. CASE p \in X /\ t
    <3>1. Cardinality(WatchedBy(p)') = Cardinality(WatchedBy(p)) + 1 /\ Cardinality(WatchedBy(p)) \in Nat
      BY <1>14, <2>7
    <3>2. Awaits(p, TRUE)' = 1 /\ Awaits(p, FALSE)' = 0
      BY <2>3, <2>7
    <3>3. w + 1 = k + after + 0
      BY <2>5, <3>1
    <3> QED BY <2>6, <3>2, <3>3
  <2>8. CASE p \in X /\ ~t
    <3>1. /\ Cardinality(WatchedBy(p)') + 1 = Cardinality(WatchedBy(p))
          /\ Cardinality(WatchedBy(p)) \in Nat /\ Cardinality(WatchedBy(p)') \in Nat
      BY <1>14, <2>8
    <3>2. Awaits(p, TRUE)' = 0 /\ Awaits(p, FALSE)' = 1
      BY <2>3, <2>8
    <3>3. w + 0 = k + after + 1
      BY <2>5, <3>1
    <3> QED BY <2>6, <3>2, <3>3
  <2>9. CASE p \notin X
    <3>1. Cardinality(WatchedBy(p)') = Cardinality(WatchedBy(p)) /\ Cardinality(WatchedBy(p)) \in Nat
      BY <1>14, <2>9
    <3>2. Awaits(p, TRUE)' = 0 /\ Awaits(p, FALSE)' = 0
      BY <2>3, <2>9
    <3>3. w + 0 = k + after + 0
      BY <2>5, <3>1
    <3> QED BY <2>6, <3>2, <3>3
  <2> QED BY <2>7, <2>8, <2>9
<1>16. PairInv'
  BY <1>15 DEF PairInv
<1> QED BY <1>1, <1>2, <1>5, <1>6, <1>7, <1>10, <1>11, <1>16 DEF TrackGood

-----------------------------------------------------------------------------
(* The images' operations. *)

\* The pages of the parts an image is tracked and untracked by.
LEMMA ImageParts ==
    ASSUME NEW i \in Images
    PROVE  LET begin == ImageRange[i][1]
               end == ImageRange[i][2]
               f == begin \div PageUnits
               l == (end - 1) \div PageUnits
           IN  /\ f \in Nat /\ l \in Nat /\ f <= l /\ l <= PageCount - 1
               /\ PagesAt(begin, end) = f..l
               /\ PagesAt(begin, HeadEnd(i)) = {f}
               /\ TailBegin(i) < end => PagesAt(TailBegin(i), end) = {l}
               /\ f \in Pages /\ l \in Pages /\ PagesAt(begin, end) \in SUBSET Pages
<1> DEFINE begin == ImageRange[i][1]
           end == ImageRange[i][2]
           f == begin \div PageUnits
           l == (end - 1) \div PageUnits
<1>1. /\ f \in Nat /\ l \in Nat /\ f <= l /\ l <= PageCount - 1
      /\ (HeadEnd(i) - 1) \div PageUnits = f
      /\ TailBegin(i) < end => TailBegin(i) \div PageUnits = l
  BY ImageFactsAt
<1>2. /\ PagesAt(begin, end) = f..l /\ PagesAt(begin, HeadEnd(i)) = f..f
      /\ TailBegin(i) < end => PagesAt(TailBegin(i), end) = l..l
  BY <1>1 DEF PagesAt
<1>3. PageCount \in Nat
  BY TrackingAssumption
<1> HIDE DEF f, l
<1>4. f..f = {f} /\ l..l = {l} /\ f \in Pages /\ l \in Pages /\ f..l \in SUBSET Pages
  BY <1>1, <1>3 DEF Pages
<1> QED BY <1>1, <1>2, <1>4 DEF f, l

LEMMA RegisterGood ==
    ASSUME TrackGood, NEW i \in Images, Register(i)
    PROVE  TrackGood' /\ ~fatal'
<1>1. ImageUpdate(i, [registered |-> TRUE, track |-> Untracked], {})
  BY DEF Register
<1>2. image[i].track = Untracked
  BY DEF Register, TrackGood, ImagesInv
<1>3. ImagePages(i) = {}
  BY <1>2 DEF ImagePages, IsTracked
<1> DEFINE new == [registered |-> TRUE, track |-> Untracked]
<1>4. /\ new \in [registered : BOOLEAN, track : Nat \X Nat] /\ new.track = Untracked
      /\ TrackPages(new.track) = {}
  BY DEF Untracked, TrackPages
<1> QED BY <1>1, <1>3, <1>4, NoCalls, ImageStep

LEMMA TrackGoodImage ==
    ASSUME TrackGood, NEW i \in Images, NEW t, t = image[i].track
    PROVE  /\ image[i] \in [registered : BOOLEAN, track : Nat \X Nat]
           /\ t = <<t[1], t[2]>> /\ t[1] \in Nat /\ t[2] \in Nat
           /\ IsTracked(i) => /\ image[i].registered /\ t # Untracked /\ TrackedRange(i, t)
                              /\ ImagePages(i) = PagesAt(t[1], t[2])
           /\ ~IsTracked(i) => t = Untracked /\ ImagePages(i) = {}
<1>1. image[i] \in [registered : BOOLEAN, track : Nat \X Nat]
  BY DEF TrackGood, TrackTypes, TrackingTypeOK
<1>2. t = <<t[1], t[2]>> /\ t[1] \in Nat /\ t[2] \in Nat
  BY <1>1
<1> QED BY <1>1, <1>2 DEF TrackGood, ImagesInv, ImagePages, IsTracked

LEMMA TrackImageGood ==
    ASSUME TrackGood, NEW i \in Images, TrackImage(i)
    PROVE  TrackGood' /\ ~fatal'
<1> DEFINE begin == ImageRange[i][1]
           end == ImageRange[i][2]
           f == begin \div PageUnits
           l == (end - 1) \div PageUnits
           old == image[i].track
           new == Track(i)
<1>1. /\ f \in Nat /\ l \in Nat /\ f <= l /\ l <= PageCount - 1
      /\ PagesAt(begin, end) = f..l /\ PagesAt(begin, HeadEnd(i)) = {f}
      /\ TailBegin(i) < end => PagesAt(TailBegin(i), end) = {l}
      /\ f \in Pages /\ l \in Pages /\ PagesAt(begin, end) \in SUBSET Pages
  BY ImageParts
<1>2. begin \in Nat /\ end \in Nat /\ begin < end /\ ImageRange[i] = <<begin, end>>
  BY TrackingAssumption
<1>3. /\ new \in [registered : BOOLEAN, track : Nat \X Nat] /\ new.track = ImageRange[i]
      /\ new.registered /\ TrackedRange(i, new.track)
  BY <1>2 DEF Track, TrackedRange
<1>4. ImageRange[i] # Untracked
  BY <1>2 DEF Untracked
<1>5. TrackPages(new.track) = f..l
  BY <1>1, <1>3, <1>4 DEF TrackPages
<1>6. CASE ~IsTracked(i)
  <2>1. ImageUpdate(i, new, Chunks(begin, end, TRUE))
    BY <1>6 DEF TrackImage
  <2>2. ImagePages(i) = {}
    BY <1>6, TrackGoodImage
  <2>3. CallsFor(Chunks(begin, end, TRUE), f..l, TRUE)
    BY <1>1, ChunksFacts
  <2> HIDE DEF new, f, l
  <2> QED BY <1>3, <1>5, <2>1, <2>2, <2>3, ImageStep
<1>7. CASE IsTracked(i)
  <2> DEFINE C == IF begin < old[1] THEN Chunks(begin, old[1], TRUE) ELSE {}
             D == IF old[2] < end THEN Chunks(old[2], end, TRUE) ELSE {}
             X == IF begin < old[1] THEN {f} ELSE {}
             Y == IF old[2] < end THEN {l} ELSE {}
  <2>1. ImageUpdate(i, new, C \cup D)
    BY <1>7 DEF TrackImage
  <2>2. /\ old[1] \in Nat /\ old[2] \in Nat /\ TrackedRange(i, old)
        /\ ImagePages(i) = PagesAt(old[1], old[2])
    BY <1>7, TrackGoodImage
  <2>3. begin < HeadEnd(i) /\ (HeadEnd(i) < end => f < l)
        /\ (TailBegin(i) < end /\ begin < TailBegin(i) => f < l)
    BY ImageFactsAt
  <2>4. /\ old[1] = begin \/ (old[1] = HeadEnd(i) /\ f < l)
        /\ old[2] = end \/ (old[2] = TailBegin(i) /\ TailBegin(i) < end /\ f < l)
    BY <2>2, <2>3 DEF TrackedRange
  <2>5. ImagePages(i) = (IF old[1] = begin THEN f ELSE f + 1)..(IF old[2] = end THEN l ELSE l - 1)
    BY <2>2, TrackedPages
  <2>6. CallsFor(C, X, TRUE)
    <3>1. CASE begin < old[1]
      <4>1. old[1] = HeadEnd(i)
        BY <1>2, <2>4, <3>1
      <4>2. CallsFor(Chunks(begin, HeadEnd(i), TRUE), {f}, TRUE)
        BY <1>1, ChunksFacts
      <4> QED BY <3>1, <4>1, <4>2
    <3>2. CASE ~(begin < old[1])
      BY <3>2, NoCalls
    <3> QED BY <3>1, <3>2
  <2>7. CallsFor(D, Y, TRUE)
    <3>1. CASE old[2] < end
      <4>1. old[2] = TailBegin(i)
        BY <1>2, <2>4, <3>1
      <4>2. CallsFor(Chunks(TailBegin(i), end, TRUE), {l}, TRUE)
        BY <1>1, <3>1, <4>1, ChunksFacts
      <4> QED BY <3>1, <4>1, <4>2
    <3>2. CASE ~(old[2] < end)
      BY <3>2, NoCalls
    <3> QED BY <3>1, <3>2
  <2> HIDE DEF new, f, l, C, D
  <2>8. begin < old[1] /\ old[2] < end => f < l
    BY <1>2, <2>4
  <2>9. X \cap Y = {}
    BY <1>1, <2>8
  <2>10. CallsFor(C \cup D, X \cup Y, TRUE)
    BY <2>6, <2>7, <2>9, CallsTogether
  <2>11. (begin < old[1] <=> old[1] # begin) /\ (old[2] < end <=> old[2] # end)
    BY <1>2, <2>3, <2>4
  <2>12. (X \cup Y) \cap ImagePages(i) = {}
    BY <1>1, <2>5, <2>11
  <2>13. f..l = ImagePages(i) \cup X \cup Y
    BY <1>1, <2>4, <2>5, <2>11
  <2> HIDE DEF X, Y
  <2> QED BY <1>3, <1>5, <2>1, <2>10, <2>12, <2>13, ImageStep
<1> QED BY <1>6, <1>7

LEMMA UntrackImageGood ==
    ASSUME TrackGood, NEW i \in Images, NEW stays \in BOOLEAN, UntrackImage(i, stays)
    PROVE  TrackGood' /\ ~fatal'
<1> DEFINE old == image[i].track
           new == [registered |-> stays, track |-> Untracked]
           calls == IF ~IsTracked(i) \/ old[1] = old[2] THEN {} ELSE Chunks(old[1], old[2], FALSE)
<1>1. ImageUpdate(i, new, calls)
  BY DEF UntrackImage
<1>2. /\ new \in [registered : BOOLEAN, track : Nat \X Nat] /\ new.track = Untracked
      /\ TrackPages(new.track) = {}
  BY DEF Untracked, TrackPages
<1>3. CallsFor(calls, ImagePages(i), FALSE)
  <2>1. CASE ~IsTracked(i)
    BY <2>1, TrackGoodImage, NoCalls
  <2>2. CASE IsTracked(i)
    <3>1. /\ TrackedRange(i, old) /\ ImagePages(i) = PagesAt(old[1], old[2])
      BY <2>2, TrackGoodImage
    <3>2. old[1] # old[2]
      BY <3>1 DEF TrackedRange
    <3>3. PagesAt(old[1], old[2]) \in SUBSET Pages
      BY <3>1, TrackedPages
    <3> QED BY <2>2, <3>1, <3>2, <3>3, ChunksFacts
  <2> QED BY <2>1, <2>2
<1> HIDE DEF new, calls
<1> QED BY <1>1, <1>2, <1>3, ImageStep

LEMMA UntrackImageHeadGood ==
    ASSUME TrackGood, NEW i \in Images, UntrackImageHead(i)
    PROVE  TrackGood' /\ ~fatal'
<1> DEFINE begin == ImageRange[i][1]
           end == ImageRange[i][2]
           f == begin \div PageUnits
           l == (end - 1) \div PageUnits
           old == image[i].track
           h == HeadEnd(i)
           new == [image[i] EXCEPT !.track = Rest(h, old[2])]
<1>1. /\ IsTracked(i) /\ begin >= old[1] /\ h < end
      /\ ImageUpdate(i, new, Chunks(begin, h, FALSE))
  BY DEF UntrackImageHead, HeadEnd
<1>2. /\ image[i] \in [registered : BOOLEAN, track : Nat \X Nat] /\ image[i].registered
      /\ old = <<old[1], old[2]>> /\ old[1] \in Nat /\ old[2] \in Nat /\ TrackedRange(i, old)
      /\ ImagePages(i) = PagesAt(old[1], old[2])
  BY <1>1, TrackGoodImage
<1>3. /\ begin \in Nat /\ end \in Nat /\ begin < end /\ h \in Nat /\ TailBegin(i) \in Nat
      /\ begin < h /\ f < l
      /\ h \div PageUnits = f + 1
      /\ TailBegin(i) < end /\ begin < TailBegin(i) =>
            h <= TailBegin(i) /\ TailBegin(i) \div PageUnits = l
  BY <1>1, ImageFactsAt
<1>4. /\ f \in Nat /\ l \in Nat /\ PagesAt(begin, h) = {f} /\ f \in Pages
  BY ImageParts
<1>5. CallsFor(Chunks(begin, h, FALSE), {f}, FALSE)
  BY <1>4, ChunksFacts
<1>6. old[1] = begin
  BY <1>1, <1>2, <1>3 DEF TrackedRange
<1>7. ImagePages(i) = f..(IF old[2] = end THEN l ELSE l - 1)
  BY <1>2, <1>6, TrackedPages
<1> HIDE DEF f, l, h
<1>8. h <= old[2] /\ (old[2] # end => old[2] = TailBegin(i) /\ TailBegin(i) \div PageUnits = l)
  BY <1>1, <1>2, <1>3 DEF TrackedRange
<1>9. new \in [registered : BOOLEAN, track : Nat \X Nat] /\ new.track = Rest(h, old[2]) /\ new.registered
  <2>1. Rest(h, old[2]) \in Nat \X Nat
    BY <1>2, <1>3 DEF Rest, Untracked
  <2> QED BY <1>2, <2>1
<1> HIDE DEF new
<1>10. {f} \subseteq ImagePages(i)
  BY <1>3, <1>4, <1>7
<1>11. CASE h = old[2]
  <2>1. new.track = Untracked /\ TrackPages(new.track) = {}
    BY <1>9, <1>11 DEF Rest, TrackPages
  <2>2. l = f + 1 /\ old[2] # end
    BY <1>1, <1>3, <1>8, <1>11
  <2>3. ImagePages(i) \ {f} = {}
    BY <1>4, <1>7, <2>2
  <2> QED BY <1>1, <1>5, <1>9, <1>10, <2>1, <2>3, ImageStep
<1>12. CASE h # old[2]
  <2>1. new.track = <<h, old[2]>> /\ h < old[2]
    BY <1>2, <1>3, <1>8, <1>9, <1>12 DEF Rest
  <2>2. TrackedRange(i, new.track)
    BY <1>1, <1>2, <1>3, <2>1 DEF TrackedRange, h
  <2>3. new.track # Untracked
    BY <1>2, <1>3, <2>1 DEF Untracked
  <2>4. PagesAt(h, old[2]) = (f + 1)..(IF old[2] = end THEN l ELSE l - 1)
    <3>1. new.track[1] = h /\ new.track[2] = old[2] /\ h # begin
      BY <1>3, <2>1
    <3> QED BY <2>2, <3>1, TrackedPages DEF f, l
  <2>5. TrackPages(new.track) = ImagePages(i) \ {f}
    <3>1. TrackPages(new.track) = PagesAt(h, old[2])
      BY <2>1, <2>3 DEF TrackPages
    <3> QED BY <1>3, <1>4, <1>7, <2>4, <3>1
  <2> QED BY <1>1, <1>5, <1>9, <1>10, <2>2, <2>5, ImageStep
<1> QED BY <1>11, <1>12

LEMMA UntrackImageTailGood ==
    ASSUME TrackGood, NEW i \in Images, UntrackImageTail(i)
    PROVE  TrackGood' /\ ~fatal'
<1> DEFINE begin == ImageRange[i][1]
           end == ImageRange[i][2]
           f == begin \div PageUnits
           l == (end - 1) \div PageUnits
           old == image[i].track
           t == TailBegin(i)
           new == [image[i] EXCEPT !.track = Rest(old[1], t)]
<1>1. /\ IsTracked(i) /\ old[2] >= end /\ begin < t /\ t < end
      /\ ImageUpdate(i, new, Chunks(t, end, FALSE))
  BY DEF UntrackImageTail, TailBegin
<1>2. /\ image[i] \in [registered : BOOLEAN, track : Nat \X Nat] /\ image[i].registered
      /\ old = <<old[1], old[2]>> /\ old[1] \in Nat /\ old[2] \in Nat /\ TrackedRange(i, old)
      /\ ImagePages(i) = PagesAt(old[1], old[2])
  BY <1>1, TrackGoodImage
<1>3. /\ begin \in Nat /\ end \in Nat /\ begin < end /\ HeadEnd(i) \in Nat /\ t \in Nat
      /\ begin < HeadEnd(i) /\ f < l
      /\ HeadEnd(i) \div PageUnits = f + 1
      /\ HeadEnd(i) <= t /\ t \div PageUnits = l
  BY <1>1, ImageFactsAt
<1>4. /\ f \in Nat /\ l \in Nat /\ PagesAt(t, end) = {l} /\ l \in Pages
  BY <1>1, ImageParts
<1>5. CallsFor(Chunks(t, end, FALSE), {l}, FALSE)
  BY <1>4, ChunksFacts
<1>6. old[2] = end
  BY <1>1, <1>2, <1>3 DEF TrackedRange
<1>7. ImagePages(i) = (IF old[1] = begin THEN f ELSE f + 1)..l
  BY <1>2, <1>6, TrackedPages
<1> HIDE DEF f, l, t
<1>8. old[1] <= t /\ (old[1] # begin => old[1] = HeadEnd(i) /\ HeadEnd(i) < end)
  BY <1>1, <1>2, <1>3 DEF TrackedRange
<1>9. new \in [registered : BOOLEAN, track : Nat \X Nat] /\ new.track = Rest(old[1], t) /\ new.registered
  <2>1. Rest(old[1], t) \in Nat \X Nat
    BY <1>2, <1>3 DEF Rest, Untracked
  <2> QED BY <1>2, <2>1
<1> HIDE DEF new
<1>10. {l} \subseteq ImagePages(i)
  BY <1>3, <1>4, <1>7
<1>11. CASE old[1] = t
  <2>1. new.track = Untracked /\ TrackPages(new.track) = {}
    BY <1>9, <1>11 DEF Rest, TrackPages
  <2>2. l = f + 1 /\ old[1] # begin
    BY <1>1, <1>3, <1>8, <1>11
  <2>3. ImagePages(i) \ {l} = {}
    BY <1>4, <1>7, <2>2
  <2> QED BY <1>1, <1>5, <1>9, <1>10, <2>1, <2>3, ImageStep
<1>12. CASE old[1] # t
  <2>1. new.track = <<old[1], t>> /\ old[1] < t
    BY <1>2, <1>3, <1>8, <1>9, <1>12 DEF Rest
  <2>2. TrackedRange(i, new.track)
    BY <1>1, <1>2, <1>3, <1>8, <2>1 DEF TrackedRange, t
  <2>3. new.track # Untracked
    BY <1>2, <1>3, <2>1 DEF Untracked
  <2>4. PagesAt(old[1], t) = (IF old[1] = begin THEN f ELSE f + 1)..(l - 1)
    <3>1. new.track[1] = old[1] /\ new.track[2] = t /\ t # end
      BY <1>1, <1>3, <2>1
    <3> QED BY <2>2, <3>1, TrackedPages DEF f, l
  <2>5. TrackPages(new.track) = ImagePages(i) \ {l}
    <3>1. TrackPages(new.track) = PagesAt(old[1], t)
      BY <2>1, <2>3 DEF TrackPages
    <3> QED BY <1>3, <1>4, <1>7, <2>4, <3>1
  <2> QED BY <1>1, <1>5, <1>9, <1>10, <2>2, <2>5, ImageStep
<1> QED BY <1>11, <1>12

-----------------------------------------------------------------------------
(* The page manager's loop. *)

LEMMA AddDeltaIs ==
    ASSUME NEW s \in Watchers, NEW track \in BOOLEAN, NEW read \in BOOLEAN
    PROVE  LET t == AddDelta(s, track, read)
           IN  /\ s = [w |-> s.w, a |-> s.a] /\ t = [w |-> t.w, a |-> t.a]
               /\ s.w \in Nat /\ s.a \in Nat /\ t.w \in Int /\ t.a \in Int
               /\ read => t.w = s.w
               /\ ~read => t.a = s.a
               /\ read /\ track => t.a = s.a + 1
               /\ read /\ ~track => t.a = s.a - 1
               /\ ~read /\ track => t.w = s.w + 1
               /\ ~read /\ ~track => t.w = s.w - 1
<1>1. s = [w |-> s.w, a |-> s.a] /\ s.w \in Nat /\ s.a \in Nat
  BY TrackingAssumption DEF Watchers
<1>2. CASE read
  BY <1>1, <1>2 DEF AddDelta
<1>3. CASE ~read
  BY <1>1, <1>3 DEF AddDelta
<1> QED BY <1>2, <1>3

LEMMA FinalIs ==
    ASSUME TrackGood, NEW p \in Pages
    PROVE  /\ watch[p] \in Watchers /\ scan.track \in BOOLEAN /\ scan.read \in BOOLEAN
           /\ Final(p).w \in Int /\ Final(p).a \in Int /\ Final(p) = [w |-> Final(p).w, a |-> Final(p).a]
<1>1. watch[p] \in Watchers /\ scan.track \in BOOLEAN /\ scan.read \in BOOLEAN
  BY DEF TrackGood, TrackTypes, TrackingTypeOK, Watchers, Scans
<1> QED BY <1>1, AddDeltaIs DEF Final

\* The terms of PairInv are numbers, and calls due have somebody behind them.
LEMMA PairTerms ==
    ASSUME TrackGood, NEW p \in Pages
    PROVE  /\ Cardinality(WatchedBy(p)) \in Nat /\ Cardinality(WatchedBy(p)) <= Cardinality(Images)
           /\ Awaits(p, TRUE) \in 0..1 /\ Awaits(p, FALSE) \in 0..1
           /\ Awaits(p, TRUE) = 1 => Cardinality(WatchedBy(p)) >= 1
           /\ Awaits(p, FALSE) = 1 => Cardinality(WatchedBy(p)) + 1 <= Cardinality(Images)
<1>1. /\ IsFiniteSet(Images) /\ Cardinality(Images) \in Nat /\ IsFiniteSet(WatchedBy(p))
      /\ Cardinality(WatchedBy(p)) \in Nat /\ Cardinality(WatchedBy(p)) <= Cardinality(Images)
  BY WatchedFinite
<1>2. Awaits(p, TRUE) \in 0..1 /\ Awaits(p, FALSE) \in 0..1
  BY DEF Awaits
<1>3. ASSUME Awaits(p, TRUE) = 1 PROVE Cardinality(WatchedBy(p)) >= 1
  <2>1. PICK c \in chunks : p \in c.mask /\ c.track = TRUE
    BY <1>3 DEF Awaits
  <2>2. PICK i \in Images : \A q \in c.mask : q \in ImagePages(i) <=> c.track
    BY DEF TrackGood, ChunksInv
  <2>3. i \in WatchedBy(p)
    BY <2>1, <2>2 DEF WatchedBy
  <2>4. Cardinality(WatchedBy(p)) # 0
    BY <1>1, <2>3, FS_EmptySet
  <2> QED BY <1>1, <2>4
<1>4. ASSUME Awaits(p, FALSE) = 1 PROVE Cardinality(WatchedBy(p)) + 1 <= Cardinality(Images)
  <2>1. PICK c \in chunks : p \in c.mask /\ c.track = FALSE
    BY <1>4 DEF Awaits
  <2>2. PICK i \in Images : \A q \in c.mask : q \in ImagePages(i) <=> c.track
    BY DEF TrackGood, ChunksInv
  <2>3. i \notin WatchedBy(p) /\ WatchedBy(p) \subseteq Images
    BY <2>1, <2>2 DEF WatchedBy
  <2>4. Cardinality(WatchedBy(p)) < Cardinality(Images)
    <3>1. WatchedBy(p) # Images
      BY <2>3
    <3>2. Cardinality(WatchedBy(p)) # Cardinality(Images)
      BY <1>1, <2>3, <3>1, FS_Subset
    <3> QED BY <1>1, <3>2
  <2> QED BY <1>1, <2>4
<1> QED BY <1>1, <1>2, <1>3, <1>4

\* With that the counts stay in their range, and a page the tracker watches
\* has a watcher.
LEMMA FinalInRange ==
    ASSUME CountersSuffice, TrackGood, NEW p \in Pages
    PROVE  /\ Final(p).w >= 0 /\ Final(p).w <= WatcherLimit
           /\ Final(p).a >= 0 /\ Final(p).a <= 1 /\ Final(p) \in Watchers
           /\ p \notin cpuDirty => Final(p).w >= 1
<1> DEFINE k == IF p \in cpuDirty THEN 0 ELSE 1
           n == Cardinality(WatchedBy(p))
           m == Cardinality(Images)
           w == Final(p).w
           x == Awaits(p, TRUE)
           y == Awaits(p, FALSE)
<1>1. /\ n \in Nat /\ n <= m /\ x \in 0..1 /\ y \in 0..1
      /\ x = 1 => n >= 1
      /\ y = 1 => n + 1 <= m
  BY PairTerms
<1>2. w \in Int /\ Final(p) = [w |-> w, a |-> Final(p).a] /\ Final(p).a \in Int
  BY FinalIs
<1>0. PairInv
  BY DEF TrackGood
<1>3. w + x = k + n + y /\ k \in 0..1 /\ (p \notin cpuDirty => k = 1)
  <2>1. w + x = k + n + y
    BY <1>0 DEF PairInv
  <2>2. k \in 0..1 /\ (p \notin cpuDirty => k = 1)
    OBVIOUS
  <2> QED BY <2>1, <2>2
<1>4. Final(p).a \in 0..1
  <2>1. Final(p).a = (IF p \in gpuDirty THEN 1 ELSE 0)
    BY <1>0 DEF PairInv
  <2> QED BY <2>1
<1>5. m \in Nat /\ m < WatcherLimit /\ WatcherLimit \in Nat
  BY WatchedFinite, TrackingAssumption DEF CountersSuffice
<1> HIDE DEF k, n, m, w, x, y
<1>6. w >= 0 /\ w <= WatcherLimit /\ (k = 1 => w >= 1)
  BY <1>1, <1>2, <1>3, <1>5
<1>7. Final(p) \in Watchers
  BY <1>2, <1>4, <1>5, <1>6 DEF Watchers
<1> QED BY <1>3, <1>4, <1>6, <1>7 DEF w

\* The counts do not depend on anything but images, calls, bits and Final.
LEMMA PairKept ==
    ASSUME PairInv, UNCHANGED <<image, chunks, cpuDirty, gpuDirty>>,
           \A p \in Pages : Final(p)' = Final(p)
    PROVE  PairInv'
<1>1. ASSUME NEW p \in Pages
      PROVE  /\ Awaits(p, TRUE)' = Awaits(p, TRUE) /\ Awaits(p, FALSE)' = Awaits(p, FALSE)
             /\ WatchedBy(p)' = WatchedBy(p)
  BY DEF Awaits, WatchedBy, ImagePages, IsTracked
<1> QED BY <1>1 DEF PairInv

LEMMA ImagesKept ==
    ASSUME ImagesInv, ChunksInv, UNCHANGED image, chunks' \subseteq chunks
    PROVE  ImagesInv' /\ ChunksInv'
<1>1. \A i \in Images : ImagePages(i)' = ImagePages(i)
  BY DEF ImagePages, IsTracked
<1> QED BY <1>1 DEF ImagesInv, ChunksInv

\* Nothing waits outside the loop, and a call leaves its pages exact.
LEMMA ReleaseExact ==
    ASSUME TrackGood, NEW q \in Pages
    PROVE  Release[q] = Perms(watch[q])
<1>1. LoopInv /\ scan \in Scans
  BY DEF TrackGood, TrackTypes
<1>2. scan.begin \in Nat /\ scan.bytes \in Nat /\ scan.page \in Nat /\ scan.potential \in Nat /\ q \in Nat
  BY <1>1, TrackingAssumption DEF Scans, Pages
<1>3. CASE Released(q)
  <2>1. scan.bytes # 0 /\ scan.begin <= q /\ q < scan.begin + scan.bytes
    BY <1>2, <1>3 DEF Released
  <2>2. /\ scan.begin + scan.potential = scan.page /\ scan.bytes <= scan.potential
        /\ \A z \in Pages : scan.begin <= z /\ z < scan.page => Perms(watch[z]) = scan.perms
    BY <1>1, <2>1 DEF LoopInv
  <2>3. q < scan.page
    BY <1>2, <2>1, <2>2
  <2> QED BY <1>3, <2>1, <2>2, <2>3 DEF Release
<1>4. CASE ~Released(q)
  BY <1>1, <1>4 DEF Release, LoopInv
<1> QED BY <1>3, <1>4

LEMMA NoScanIs ==
    /\ NoScan \in Scans /\ ~NoScan.on /\ NoScan.bytes = 0 /\ NoScan.begin = 0 /\ NoScan.mask = {}
    /\ NoScan.potential = 0
BY DEF NoScan, Scans, Protections

LEMMA UpdateEndGood ==
    ASSUME TrackGood, UpdateEnd
    PROVE  TrackGood' /\ ~fatal'
<1>0. /\ TrackTypes /\ BitsInv /\ TaskInv /\ ImagesInv /\ ChunksInv /\ PairInv /\ KnownInv /\ LoopInv
  BY DEF TrackGood
<1>1. /\ scan.on /\ ~fatal /\ \A q \in scan.mask : q < scan.page
      /\ prot' = Release /\ scan' = NoScan /\ managers' = managers /\ cpuDirty' = cpuDirty
      /\ gpuDirty' = gpuDirty /\ writable' = writable /\ readable' = readable /\ known' = known
      /\ watch' = watch /\ fatal' = fatal /\ task' = task /\ image' = image /\ chunks' = chunks
  BY DEF UpdateEnd, bits
<1>2. TrackTypes'
  <2>1. scan.perms \in Protections /\ prot \in [Pages -> Protections]
    BY <1>0 DEF TrackTypes, TrackingTypeOK, Scans, Protections
  <2>2. prot' \in [Pages -> Protections]
    BY <1>1, <2>1 DEF Release
  <2> QED BY <1>0, <1>1, <2>2, NoScanIs DEF TrackTypes, TrackingTypeOK, Protections
<1>3. BitsInv' /\ TaskInv'
  BY <1>0, <1>1 DEF BitsInv, TaskInv
<1>4. ImagesInv' /\ ChunksInv'
  BY <1>0, <1>1, ImagesKept
<1>5. PairInv'
  <2>1. \A p \in scan.mask : ~(scan.page <= p)
    <3>1. scan.page \in Nat /\ \A p \in scan.mask : p \in Nat
      BY <1>0, TrackingAssumption DEF TrackTypes, Scans, Pages
    <3> QED BY <1>1, <3>1
  <2>2. \A p \in Pages : Final(p)' = Final(p)
    BY <1>1, <2>1, NoScanIs DEF Final
  <2> QED BY <1>0, <1>1, <2>2, PairKept
<1>6. KnownInv'
  BY <1>0, <1>1, NoScanIs DEF KnownInv
<1>7. LoopInv'
  <2>1. \A p \in Pages : prot'[p] = Perms(watch'[p])
    BY <1>1, ReleaseExact
  <2> QED BY <1>1, <2>1, NoScanIs DEF LoopInv
<1> QED BY <1>1, <1>2, <1>3, <1>4, <1>5, <1>6, <1>7 DEF TrackGood

\* A page whose protection changes is at the edge the code looks for.
LEMMA EdgeIsNeeded ==
    ASSUME NEW s \in Watchers, NEW track \in BOOLEAN, NEW read \in BOOLEAN,
           AddDelta(s, track, read) \in Watchers, Perms(s) # Perms(AddDelta(s, track, read))
    PROVE  LET t == AddDelta(s, track, read)
           IN  (IF read THEN t.a ELSE t.w) = (IF track THEN 1 ELSE 0)
<1> DEFINE t == AddDelta(s, track, read)
<1>1. /\ s.w \in Nat /\ s.a \in Nat /\ (read => t.w = s.w) /\ (~read => t.a = s.a)
      /\ (read /\ track => t.a = s.a + 1) /\ (read /\ ~track => t.a = s.a - 1)
      /\ (~read /\ track => t.w = s.w + 1) /\ (~read /\ ~track => t.w = s.w - 1)
  BY AddDeltaIs
<1>2. t.w \in Nat /\ t.a \in Nat /\ (t.a = 0 \/ t.a = 1)
  BY TrackingAssumption DEF Watchers
<1> HIDE DEF t
<1>3. Perms(s) # Perms(t)
  BY DEF t
<1>4. \/ s.a # 0 /\ t.a = 0
      \/ s.a = 0 /\ t.a # 0
      \/ s.w # 0 /\ t.w = 0
      \/ s.w = 0 /\ t.w # 0
  BY <1>3 DEF Perms
<1>5. (read /\ track => t.a = 1) /\ (read /\ ~track => t.a = 0)
  BY <1>1, <1>2, <1>4
<1>6. (~read /\ track => t.w = 1) /\ (~read /\ ~track => t.w = 0)
  BY <1>1, <1>2, <1>4
<1>7. (IF read THEN t.a ELSE t.w) = (IF track THEN 1 ELSE 0)
  BY <1>5, <1>6, Zenon
<1> QED BY <1>7 DEF t

LEMMA UpdateRegionWatchersGood ==
    ASSUME CountersSuffice, TrackGood, UpdateRegionWatchers
    PROVE  TrackGood' /\ ~fatal'
<1> DEFINE p == scan.page
           old == watch[p]
           update == p \in scan.mask
           new == IF update THEN AddDelta(old, scan.track, scan.read) ELSE old
           edge == (IF scan.read THEN new.a ELSE new.w) = (IF scan.track THEN 1 ELSE 0)
           needed == update /\ edge /\ Perms(old) # Perms(new)
           same == Perms(new) = scan.perms
           kept == IF same THEN scan.bytes ELSE 0
           potential == IF kept # 0 THEN scan.potential + 1 ELSE 0
<1>0. /\ TrackTypes /\ BitsInv /\ TaskInv /\ ImagesInv /\ ChunksInv /\ PairInv /\ KnownInv /\ LoopInv
  BY DEF TrackGood
<1>1. /\ scan.on /\ ~fatal /\ \E q \in scan.mask : p <= q
      /\ managers' = managers /\ cpuDirty' = cpuDirty /\ gpuDirty' = gpuDirty
      /\ writable' = writable /\ readable' = readable /\ known' = known
      /\ task' = task /\ image' = image /\ chunks' = chunks
      /\ IF update /\ OutOfRange(old, scan.track, scan.read)
         THEN fatal' = TRUE /\ UNCHANGED <<watch, prot, scan>>
         ELSE /\ watch' = [watch EXCEPT ![p] = new]
              /\ prot' = IF Perms(new) # scan.perms THEN Release ELSE prot
              /\ scan' = PlacePage(p, new, needed)
              /\ UNCHANGED fatal
  BY DEF UpdateRegionWatchers, bits
<1>2. scan \in Scans /\ watch \in [Pages -> Watchers] /\ prot \in [Pages -> Protections]
  BY <1>0 DEF TrackTypes, TrackingTypeOK, Watchers, Protections
<1>3. /\ scan.mask \in SUBSET Pages /\ scan.track \in BOOLEAN /\ scan.read \in BOOLEAN
      /\ scan.page \in Nat /\ scan.perms \in Protections /\ scan.begin \in Nat
      /\ scan.bytes \in Nat /\ scan.potential \in Nat
  BY <1>2 DEF Scans
<1>4. p \in Pages
  BY <1>1, <1>3, TrackingAssumption DEF Pages
<1>5. old \in Watchers /\ new = Final(p) /\ new \in Watchers
  <2>1. p <= p
    BY <1>3
  <2>2. new = Final(p)
    BY <1>1, <2>1 DEF Final
  <2> QED BY <1>2, <1>4, <2>2, FinalInRange
<1>6. ~(update /\ OutOfRange(old, scan.track, scan.read))
  <2> SUFFICES ASSUME update, OutOfRange(old, scan.track, scan.read) PROVE FALSE
    OBVIOUS
  <2> DEFINE u == scan.track
             v == scan.read
  <2>1. /\ new = AddDelta(old, u, v) /\ new.w \in Nat /\ new.a \in Nat /\ new.w <= WatcherLimit
        /\ new.a <= 1 /\ WatcherLimit \in Nat
    BY <1>5, TrackingAssumption DEF Watchers
  <2> HIDE DEF new, old
  <2>2. /\ old.w \in Nat /\ old.a \in Nat
        /\ (v /\ u => new.a = old.a + 1) /\ (v /\ ~u => new.a = old.a - 1)
        /\ (~v /\ u => new.w = old.w + 1) /\ (~v /\ ~u => new.w = old.w - 1)
    BY <1>3, <1>5, <2>1, AddDeltaIs
  <2>3. /\ (v /\ u => old.a >= 1) /\ (v /\ ~u => old.a = 0)
        /\ (~v /\ u => old.w >= WatcherLimit) /\ (~v /\ ~u => old.w = 0)
    BY DEF OutOfRange
  <2> QED BY <2>1, <2>2, <2>3
<1>7. /\ watch' = [watch EXCEPT ![p] = new]
      /\ prot' = IF same THEN prot ELSE Release
      /\ scan' = PlacePage(p, new, needed) /\ fatal' = fatal
  BY <1>1, <1>6
<1>8. needed <=> Perms(old) # Perms(new)
  BY <1>3, <1>5, EdgeIsNeeded
<1>9. Perms(new) \in Protections
  BY DEF Perms, Protections
<1> HIDE DEF new, needed
<1>10. /\ scan' \in Scans /\ scan'.on /\ scan'.mask = scan.mask /\ scan'.track = scan.track
       /\ scan'.read = scan.read /\ scan'.page = p + 1 /\ scan'.perms = Perms(new)
       /\ scan'.begin = (IF needed /\ kept = 0 THEN p ELSE scan.begin)
       /\ scan'.bytes = (IF needed /\ kept = 0 THEN 1 ELSE IF needed THEN potential ELSE kept)
       /\ scan'.potential = (IF needed /\ kept = 0 THEN 1 ELSE potential)
  <2> DEFINE starts == needed /\ kept = 0
             b == IF starts THEN p ELSE scan.begin
             y == IF starts THEN 1 ELSE IF needed THEN potential ELSE kept
             o == IF starts THEN 1 ELSE potential
  <2>1. scan' = [scan EXCEPT !.page = p + 1, !.perms = Perms(new), !.begin = b, !.bytes = y,
                             !.potential = o]
    BY <1>7 DEF PlacePage
  <2>2. kept \in Nat /\ potential \in Nat
    BY <1>3
  <2>3. b \in Nat /\ y \in Nat /\ o \in Nat /\ p + 1 \in Nat
    BY <1>3, <2>2
  <2> HIDE DEF b, y, o
  <2>4. /\ scan' \in Scans /\ scan'.on /\ scan'.mask = scan.mask /\ scan'.track = scan.track
        /\ scan'.read = scan.read /\ scan'.page = p + 1 /\ scan'.perms = Perms(new)
        /\ scan'.begin = b /\ scan'.bytes = y /\ scan'.potential = o
    BY <1>1, <1>2, <1>9, <2>1, <2>3 DEF Scans
  <2> QED BY <2>4 DEF b, y, o
<1>11. watch'[p] = new /\ watch' \in [Pages -> Watchers]
       /\ \A q \in Pages : q # p => watch'[q] = watch[q]
  BY <1>2, <1>4, <1>5, <1>7
<1>12. TrackTypes'
  <2>1. Release \in [Pages -> Protections]
    BY <1>2, <1>3 DEF Release
  <2>2. prot' \in [Pages -> Protections]
    BY <1>2, <1>7, <2>1
  <2> QED BY <1>0, <1>1, <1>10, <1>11, <2>2 DEF TrackTypes, TrackingTypeOK, Watchers, Protections
<1>13. BitsInv' /\ TaskInv'
  BY <1>0, <1>1 DEF BitsInv, TaskInv
<1>14. ImagesInv' /\ ChunksInv'
  BY <1>0, <1>1, ImagesKept
<1>15. ASSUME NEW q \in Pages PROVE Final(q)' = Final(q)
  <2>0. q \in Nat
    BY TrackingAssumption DEF Pages
  <2>1. CASE q = p
    <3>1. ~(scan'.page <= q)
      BY <1>3, <1>10, <2>0, <2>1
    <3>2. Final(q)' = watch'[q]
      BY <3>1 DEF Final
    <3> QED BY <1>5, <1>11, <2>1, <3>2
  <2>2. CASE q # p
    <3>1. scan'.page <= q <=> scan.page <= q
      BY <1>3, <1>10, <2>0, <2>2
    <3> QED BY <1>1, <1>10, <1>11, <2>2, <3>1 DEF Final
  <2> QED BY <2>1, <2>2
<1>16. PairInv'
  BY <1>0, <1>1, <1>15, PairKept
<1>17. KnownInv'
  <2>1. ASSUME NEW q \in Pages, watch'[q].w # 0 \/ watch'[q].a # 0 \/ q \in scan.mask
        PROVE  RegionOf(q) \in known
    <3>1. CASE q \in scan.mask
      BY <1>0, <1>1, <3>1 DEF KnownInv
    <3>2. CASE q \notin scan.mask
      <4>1. watch'[q] = watch[q]
        BY <1>11, <3>2 DEF new
      <4> QED BY <1>0, <2>1, <3>2, <4>1 DEF KnownInv
    <3> QED BY <3>1, <3>2
  <2> QED BY <1>1, <1>10, <2>1 DEF KnownInv
<1>18. /\ scan.bytes # 0 => /\ scan.begin + scan.potential = p /\ scan.bytes <= scan.potential
                            /\ \A q \in Pages : scan.begin <= q /\ q < p => Perms(watch[q]) = scan.perms
       /\ \A q \in Pages : ~Released(q) => prot[q] = Perms(watch[q])
  BY <1>0 DEF LoopInv
<1>19. \A q \in Pages : q \in Nat
  BY TrackingAssumption DEF Pages
<1>20. scan'.on
  BY <1>10
<1>21. ASSUME kept = 0 PROVE LoopInv'
  <2>1. \A q \in Pages : prot'[q] = Perms(watch[q])
    <3>1. CASE same
      <4>1. \A q \in Pages : ~Released(q)
        BY <1>3, <1>19, <1>21, <3>1 DEF Released
      <4> QED BY <1>7, <1>18, <3>1, <4>1
    <3>2. CASE ~same
      BY <1>7, <3>2, ReleaseExact
    <3> QED BY <3>1, <3>2
  <2>2. CASE needed
    <3>1. scan'.begin = p /\ scan'.bytes = 1 /\ scan'.potential = 1
      BY <1>10, <1>21, <2>2
    <3>2. \A q \in Pages : Released(q)' <=> q = p
      BY <1>3, <1>19, <3>1 DEF Released
    <3>3. \A q \in Pages : p <= q /\ q < p + 1 => q = p
      BY <1>3, <1>19
    <3>4. scan'.begin + scan'.potential = scan'.page /\ scan'.bytes <= scan'.potential
      BY <1>3, <1>10, <3>1
    <3>5. \A q \in Pages : scan'.begin <= q /\ q < scan'.page => Perms(watch'[q]) = scan'.perms
      BY <1>10, <1>11, <3>1, <3>3
    <3>6. \A q \in Pages : ~Released(q)' => prot'[q] = Perms(watch'[q])
      BY <1>11, <2>1, <3>2
    <3> QED BY <1>20, <3>4, <3>5, <3>6 DEF LoopInv
  <2>3. CASE ~needed
    <3>1. scan'.bytes = 0
      BY <1>10, <1>21, <2>3
    <3>2. \A q \in Pages : prot'[q] = Perms(watch'[q])
      BY <1>8, <1>11, <2>1, <2>3
    <3> QED BY <1>20, <3>1, <3>2 DEF LoopInv
  <2> QED BY <2>2, <2>3
<1>22. ASSUME kept # 0 PROVE LoopInv'
  <2>1. same /\ scan.bytes # 0 /\ potential = scan.potential + 1 /\ kept = scan.bytes
    BY <1>22
  <2>2. scan.begin + scan.potential = p /\ scan.bytes <= scan.potential
    BY <1>18, <2>1
  <2>3. /\ scan'.begin = scan.begin /\ scan'.potential = scan.potential + 1
        /\ scan'.bytes = IF needed THEN scan.potential + 1 ELSE scan.bytes
    BY <1>10, <1>22, <2>1
  <2>4. scan'.begin + scan'.potential = scan'.page /\ scan'.bytes <= scan'.potential
    BY <1>3, <1>10, <2>2, <2>3
  <2>5. ASSUME NEW q \in Pages, scan'.begin <= q, q < scan'.page PROVE Perms(watch'[q]) = scan'.perms
    <3>1. q = p \/ (scan.begin <= q /\ q < p)
      BY <1>3, <1>10, <1>19, <2>3, <2>5
    <3>2. CASE q = p
      BY <1>10, <1>11, <3>2
    <3>3. CASE q # p
      BY <1>10, <1>11, <1>18, <2>1, <3>1, <3>3
    <3> QED BY <3>2, <3>3
  <2>6. ASSUME NEW q \in Pages, ~Released(q)' PROVE prot'[q] = Perms(watch'[q])
    <3>0. q \in Nat /\ ~(scan'.begin <= q /\ q < scan'.begin + scan'.bytes)
      BY <1>3, <1>10, <1>19, <2>6 DEF Released, Scans
    <3>1. ~Released(q)
      <4> SUFFICES ASSUME Released(q) PROVE FALSE
        OBVIOUS
      <4>1. scan.begin <= q /\ q < scan.begin + scan.bytes
        BY <1>3, <1>19 DEF Released
      <4>2. scan.bytes <= scan'.bytes /\ scan'.bytes \in Nat
        BY <1>3, <2>2, <2>3
      <4> QED BY <1>3, <2>3, <3>0, <4>1, <4>2
    <3>2. prot'[q] = Perms(watch[q])
      BY <1>7, <1>18, <2>1, <3>1
    <3>3. CASE q # p
      BY <1>11, <3>2, <3>3
    <3>4. CASE q = p
      <4>1. ~needed
        BY <1>3, <2>2, <2>3, <3>0, <3>4
      <4> QED BY <1>8, <1>11, <3>2, <3>4, <4>1
    <3> QED BY <3>3, <3>4
  <2> QED BY <1>20, <2>4, <2>5, <2>6 DEF LoopInv
<1> QED BY <1>1, <1>7, <1>12, <1>13, <1>14, <1>16, <1>17, <1>21, <1>22 DEF TrackGood

-----------------------------------------------------------------------------
(* The calls that start the loop. *)

LEMMA StartFacts ==
    ASSUME TrackGood, ~fatal, ~scan.on, NEW r \in Regions, NEW mask \in SUBSET PagesOf(r),
           NEW track \in BOOLEAN, NEW read \in BOOLEAN, UpdateWatchers(r, mask, track, read),
           UNCHANGED <<watch, prot>>, ~track /\ mask # {} => r \in known
    PROVE  /\ ~fatal' /\ scan' \in Scans /\ known' \subseteq Regions /\ KnownInv' /\ LoopInv'
           /\ \A p \in Pages : /\ Final(p) = watch[p]
                               /\ Final(p)' = IF p \in mask THEN AddDelta(watch[p], track, read)
                                              ELSE watch[p]
<1>0. TrackTypes /\ KnownInv /\ LoopInv
  BY DEF TrackGood
<1>1. scan = NoScan /\ known \subseteq Regions
  BY <1>0 DEF LoopInv, TrackTypes, TrackingTypeOK
<1>2. \A p \in Pages : Final(p) = watch[p]
  BY DEF Final
<1>3. \A p \in Pages : p \in Nat
  BY TrackingAssumption DEF Pages
<1>4. \A p \in Pages : prot[p] = Perms(watch[p])
  <2>1. \A p \in Pages : ~Released(p)
    BY <1>1, <1>3, NoScanIs DEF Released
  <2> QED BY <1>0, <2>1 DEF LoopInv
<1>5. \A p \in mask : p \in Pages /\ RegionOf(p) = r
  BY DEF PagesOf
<1>6. CASE mask = {}
  <2>1. known' = known /\ scan' = scan /\ fatal' = fatal
    BY <1>6 DEF UpdateWatchers
  <2>2. KnownInv' /\ LoopInv'
    BY <1>0, <2>1 DEF KnownInv, LoopInv, Released
  <2>3. \A p \in Pages : Final(p)' = watch[p]
    BY <2>1 DEF Final
  <2> QED BY <1>0, <1>1, <1>2, <1>6, <2>1, <2>2, <2>3 DEF TrackTypes
<1>7. CASE mask # {}
  <2>1. PICK first \in mask :
            /\ \A q \in mask : first <= q
            /\ known' = IF track THEN known \cup {r} ELSE known
            /\ fatal' = (~track /\ r \notin known)
            /\ scan' = [NoScan EXCEPT !.on = TRUE, !.mask = mask, !.track = track, !.read = read,
                                      !.page = first, !.perms = Perms(watch[first])]
    BY <1>7 DEF UpdateWatchers
  <2>2. ~fatal' /\ r \in known' /\ known \subseteq known' /\ known' \subseteq Regions
    BY <1>1, <1>7, <2>1
  <2>3. first \in Nat /\ mask \in SUBSET Pages /\ Perms(watch[first]) \in Protections
    BY <1>3, <1>5 DEF Perms, Protections
  <2>4. /\ scan' \in Scans /\ scan'.on /\ scan'.mask = mask /\ scan'.track = track
        /\ scan'.read = read /\ scan'.page = first /\ scan'.begin = 0 /\ scan'.bytes = 0
    BY <2>1, <2>3, NoScanIs DEF Scans
  <2>5. KnownInv'
    BY <1>0, <1>5, <2>2, <2>4 DEF KnownInv
  <2>6. LoopInv'
    BY <1>4, <2>4 DEF LoopInv
  <2>7. \A p \in Pages : Final(p)' = IF p \in mask THEN AddDelta(watch[p], track, read) ELSE watch[p]
    BY <2>1, <2>4 DEF Final
  <2> QED BY <1>2, <2>2, <2>4, <2>5, <2>6, <2>7
<1> QED BY <1>6, <1>7

LEMMA ChunkStepGood ==
    ASSUME CountersSuffice, TrackGood, NEW c \in chunks, ChunkStep(c)
    PROVE  TrackGood' /\ ~fatal'
<1>0. /\ TrackTypes /\ BitsInv /\ TaskInv /\ ImagesInv /\ ChunksInv /\ PairInv /\ KnownInv /\ LoopInv
  BY DEF TrackGood
<1>1. /\ ~fatal /\ ~scan.on /\ UpdateWatchers(c.r, c.mask, c.track, FALSE)
      /\ chunks' = chunks \ {c} /\ managers' = managers /\ cpuDirty' = cpuDirty
      /\ gpuDirty' = gpuDirty /\ writable' = writable /\ readable' = readable
      /\ watch' = watch /\ prot' = prot /\ task' = task /\ image' = image
  BY DEF ChunkStep, bits
<1>2. c.r \in Regions /\ c.mask \in SUBSET Pages /\ c.track \in BOOLEAN /\ c.mask \in SUBSET PagesOf(c.r)
  BY <1>0 DEF TrackTypes, Calls, ChunksInv, PagesOf
<1> DEFINE track == c.track
<1>3. ASSUME NEW p \in Pages
      PROVE  /\ p \in c.mask => /\ Awaits(p, track) = 1 /\ Awaits(p, ~track) = 0
                                /\ Awaits(p, track)' = 0 /\ Awaits(p, ~track)' = 0
             /\ p \notin c.mask => \A u \in BOOLEAN : Awaits(p, u)' = Awaits(p, u)
  <2>1. CASE p \in c.mask
    <3>1. \A d \in chunks : p \in d.mask => d = c
      BY <1>0, <2>1 DEF ChunksInv
    <3>2. Awaits(p, track) = 1
      BY <2>1 DEF Awaits
    <3>3. Awaits(p, ~track) = 0
      BY <1>2, <3>1 DEF Awaits
    <3>4. \A d \in chunks' : p \notin d.mask
      BY <1>1, <3>1
    <3> QED BY <2>1, <3>2, <3>3, <3>4 DEF Awaits
  <2>2. CASE p \notin c.mask
    BY <1>1, <2>2 DEF Awaits
  <2> QED BY <2>1, <2>2
<1>4. \A p \in Pages : Final(p) = watch[p]
  BY <1>1 DEF Final
<1>5. ASSUME ~track, c.mask # {} PROVE c.r \in known
  <2>1. PICK p \in c.mask : TRUE
    BY <1>5
  <2>2. p \in Pages /\ RegionOf(p) = c.r
    BY <1>0, <1>2 DEF ChunksInv
  <2>3. Awaits(p, FALSE) = 1 /\ Awaits(p, TRUE) = 0
    <3>1. track = FALSE /\ (~track) = TRUE
      BY <1>2, <1>5
    <3> QED BY <1>3, <2>1, <2>2, <3>1
  <2>4. watch[p].w + 0 = (IF p \in cpuDirty THEN 0 ELSE 1) + Cardinality(WatchedBy(p)) + 1
    BY <1>0, <1>4, <2>2, <2>3 DEF PairInv
  <2>5. Cardinality(WatchedBy(p)) \in Nat
    BY WatchedFinite
  <2>6. watch[p].w # 0
    BY <2>4, <2>5
  <2> QED BY <1>0, <2>2, <2>6 DEF KnownInv
<1>6. /\ ~fatal' /\ scan' \in Scans /\ known' \subseteq Regions /\ KnownInv' /\ LoopInv'
      /\ \A p \in Pages : Final(p)' = IF p \in c.mask THEN AddDelta(watch[p], track, FALSE) ELSE watch[p]
  <2>1. PICK writes \in BOOLEAN : writes = FALSE
    OBVIOUS
  <2>2. UpdateWatchers(c.r, c.mask, track, writes) /\ UNCHANGED <<watch, prot>>
    BY <1>1, <2>1
  <2>3. /\ ~fatal' /\ scan' \in Scans /\ known' \subseteq Regions /\ KnownInv' /\ LoopInv'
        /\ \A p \in Pages : Final(p)' = IF p \in c.mask THEN AddDelta(watch[p], track, writes)
                                        ELSE watch[p]
    BY <1>1, <1>2, <1>5, <2>2, StartFacts
  <2> QED BY <2>1, <2>3
<1>7. TrackTypes'
  BY <1>0, <1>1, <1>6 DEF TrackTypes, TrackingTypeOK
<1>8. BitsInv' /\ TaskInv'
  BY <1>0, <1>1 DEF BitsInv, TaskInv
<1>9. ImagesInv' /\ ChunksInv'
  BY <1>0, <1>1, ImagesKept
<1>10. ASSUME NEW p \in Pages
       PROVE  /\ Final(p)'.w + Awaits(p, TRUE)'
                   = (IF p \in cpuDirty' THEN 0 ELSE 1) + Cardinality(WatchedBy(p)') + Awaits(p, FALSE)'
              /\ Final(p)'.a = (IF p \in gpuDirty' THEN 1 ELSE 0)
  <2> DEFINE k == IF p \in cpuDirty THEN 0 ELSE 1
             n == Cardinality(WatchedBy(p))
  <2>1. WatchedBy(p)' = WatchedBy(p)
    BY <1>1 DEF WatchedBy, ImagePages, IsTracked
  <2>2. /\ watch[p].w + Awaits(p, TRUE) = k + n + Awaits(p, FALSE)
        /\ watch[p].a = (IF p \in gpuDirty THEN 1 ELSE 0)
    BY <1>0, <1>4 DEF PairInv
  <2>3. n \in Nat /\ k \in Nat /\ watch[p] \in Watchers
    BY WatchedFinite, FinalIs
  <2> HIDE DEF k, n
  <2>4. CASE p \notin c.mask
    <3>1. Final(p)' = watch[p] /\ Awaits(p, TRUE)' = Awaits(p, TRUE) /\ Awaits(p, FALSE)' = Awaits(p, FALSE)
      BY <1>3, <1>6, <2>4
    <3> QED BY <1>1, <2>1, <2>2, <3>1 DEF k, n
  <2>5. CASE p \in c.mask /\ track
    <3>1. /\ Awaits(p, TRUE) = 1 /\ Awaits(p, FALSE) = 0 /\ Awaits(p, TRUE)' = 0 /\ Awaits(p, FALSE)' = 0
      BY <1>2, <1>3, <2>5
    <3>2. Final(p)'.w = watch[p].w + 1 /\ Final(p)'.a = watch[p].a /\ watch[p].w \in Nat
      <4>0. PICK writes \in BOOLEAN : writes = FALSE
        OBVIOUS
      <4>1. Final(p)' = AddDelta(watch[p], track, writes)
        BY <1>6, <2>5, <4>0
      <4> QED BY <1>2, <2>3, <2>5, <4>0, <4>1, AddDeltaIs
    <3>3. watch[p].w + 1 = k + n + 0
      BY <2>2, <3>1
    <3>4. Final(p)'.w + 0 = k + n + 0
      BY <2>3, <3>2, <3>3
    <3> QED BY <1>1, <2>1, <2>2, <3>1, <3>2, <3>4 DEF k, n
  <2>6. CASE p \in c.mask /\ ~track
    <3>1. /\ Awaits(p, TRUE) = 0 /\ Awaits(p, FALSE) = 1 /\ Awaits(p, TRUE)' = 0 /\ Awaits(p, FALSE)' = 0
      BY <1>2, <1>3, <2>6
    <3>2. Final(p)'.w = watch[p].w - 1 /\ Final(p)'.a = watch[p].a /\ watch[p].w \in Nat
      <4>0. PICK writes \in BOOLEAN : writes = FALSE
        OBVIOUS
      <4>1. Final(p)' = AddDelta(watch[p], track, writes)
        BY <1>6, <2>6, <4>0
      <4> QED BY <1>2, <2>3, <2>6, <4>0, <4>1, AddDeltaIs
    <3>4. watch[p].w + 0 = k + n + 1
      BY <2>2, <3>1
    <3>3. Final(p)'.w + 0 = k + n + 0
      BY <2>3, <3>2, <3>4
    <3> QED BY <1>1, <2>1, <2>2, <3>1, <3>2, <3>3 DEF k, n
  <2> QED BY <2>4, <2>5, <2>6
<1>11. PairInv'
  BY <1>10 DEF PairInv
<1> QED BY <1>6, <1>7, <1>8, <1>9, <1>11 DEF TrackGood

\* The tracker takes up or gives up a watcher for each page of the mask, whose
\* bit it changes.
LEMMA BitsStep ==
    ASSUME CountersSuffice, TrackGood, ~fatal, ~scan.on,
           NEW r \in Regions, NEW mask \in SUBSET PagesOf(r),
           NEW track \in BOOLEAN, NEW read \in BOOLEAN, UpdateWatchers(r, mask, track, read),
           UNCHANGED <<watch, prot, chunks, image>>,
           ~read => gpuDirty' = gpuDirty,
           read => cpuDirty' = cpuDirty,
           ~read /\ track => mask \subseteq cpuDirty /\ cpuDirty' = cpuDirty \ mask,
           ~read /\ ~track => mask \cap cpuDirty = {} /\ cpuDirty' = cpuDirty \cup mask,
           read /\ track => mask \cap gpuDirty = {} /\ gpuDirty' = gpuDirty \cup mask,
           read /\ ~track => mask \subseteq gpuDirty /\ gpuDirty' = gpuDirty \ mask
    PROVE  /\ ~fatal' /\ scan' \in Scans /\ known' \subseteq Regions /\ KnownInv' /\ LoopInv'
           /\ PairInv' /\ ImagesInv' /\ ChunksInv'
<1>0. TrackTypes /\ ImagesInv /\ ChunksInv /\ PairInv /\ KnownInv /\ LoopInv
  BY DEF TrackGood
<1>1. \A p \in Pages : Final(p) = watch[p]
  BY DEF Final
<1>2. \A p \in mask : p \in Pages /\ RegionOf(p) = r
  BY DEF PagesOf
<1>3. ASSUME ~track, mask # {} PROVE r \in known
  <2>1. PICK p \in mask : TRUE
    BY <1>3
  <2>2. p \in Pages /\ RegionOf(p) = r
    BY <1>2
  <2>3. CASE read
    <3>0. p \in gpuDirty
      BY <1>3, <2>1, <2>3
    <3>1. watch[p].a # 0
      <4>1. watch[p].a = (IF p \in gpuDirty THEN 1 ELSE 0)
        BY <1>0, <1>1, <2>2 DEF PairInv
      <4> QED BY <3>0, <4>1
    <3> QED BY <1>0, <2>2, <3>1 DEF KnownInv
  <2>4. CASE ~read
    <3>1. p \notin cpuDirty
      BY <1>3, <2>1, <2>4
    <3>2. watch[p].w >= 1
      BY <1>1, <2>2, <3>1, FinalInRange
    <3>3. watch[p].w # 0
      BY <3>2
    <3> QED BY <1>0, <2>2, <3>3 DEF KnownInv
  <2> QED BY <2>3, <2>4
<1>4. /\ ~fatal' /\ scan' \in Scans /\ known' \subseteq Regions /\ KnownInv' /\ LoopInv'
      /\ \A p \in Pages : Final(p)' = IF p \in mask THEN AddDelta(watch[p], track, read) ELSE watch[p]
  BY <1>3, StartFacts
<1>5. ImagesInv' /\ ChunksInv'
  BY <1>0, ImagesKept
<1>6. ASSUME NEW p \in Pages
      PROVE  /\ Final(p)'.w + Awaits(p, TRUE)'
                  = (IF p \in cpuDirty' THEN 0 ELSE 1) + Cardinality(WatchedBy(p)') + Awaits(p, FALSE)'
             /\ Final(p)'.a = (IF p \in gpuDirty' THEN 1 ELSE 0)
  <2> DEFINE n == Cardinality(WatchedBy(p))
             x == Awaits(p, TRUE)
             y == Awaits(p, FALSE)
             w == watch[p].w
             a == watch[p].a
  <2>1. WatchedBy(p)' = WatchedBy(p) /\ Awaits(p, TRUE)' = x /\ Awaits(p, FALSE)' = y
    BY DEF WatchedBy, ImagePages, IsTracked, Awaits
  <2>2. /\ w + x = (IF p \in cpuDirty THEN 0 ELSE 1) + n + y
        /\ a = (IF p \in gpuDirty THEN 1 ELSE 0)
    BY <1>0, <1>1 DEF PairInv
  <2>3. n \in Nat /\ x \in Nat /\ y \in Nat /\ watch[p] \in Watchers /\ w \in Nat /\ a \in Nat
    BY WatchedFinite, FinalIs, AddDeltaIs DEF Awaits
  <2> DEFINE t == AddDelta(watch[p], track, read)
  <2>4. /\ read => t.w = w
        /\ ~read => t.a = a
        /\ read /\ track => t.a = a + 1
        /\ read /\ ~track => t.a = a - 1
        /\ ~read /\ track => t.w = w + 1
        /\ ~read /\ ~track => t.w = w - 1
    BY <2>3, AddDeltaIs
  <2> HIDE DEF n, x, y, w, a, t
  <2>5. CASE p \notin mask
    <3>1. Final(p)' = watch[p] /\ (p \in cpuDirty' <=> p \in cpuDirty) /\ (p \in gpuDirty' <=> p \in gpuDirty)
      BY <1>4, <2>5
    <3> QED BY <2>1, <2>2, <3>1 DEF n, w, a
  <2>6. CASE p \in mask
    <3>1. Final(p)' = t
      BY <1>4, <2>6 DEF t
    <3>2. CASE read /\ track
      <4>1. p \notin gpuDirty /\ p \in gpuDirty' /\ cpuDirty' = cpuDirty
        BY <2>6, <3>2
      <4>2. t.w = w /\ t.a = 1
        BY <2>2, <2>3, <2>4, <3>2, <4>1
      <4> QED BY <2>1, <2>2, <3>1, <4>1, <4>2 DEF n
    <3>3. CASE read /\ ~track
      <4>1. p \in gpuDirty /\ p \notin gpuDirty' /\ cpuDirty' = cpuDirty
        BY <2>6, <3>3
      <4>2. t.w = w /\ t.a = 0
        BY <2>2, <2>3, <2>4, <3>3, <4>1
      <4> QED BY <2>1, <2>2, <3>1, <4>1, <4>2 DEF n
    <3>4. CASE ~read /\ track
      <4>1. p \in cpuDirty /\ p \notin cpuDirty' /\ gpuDirty' = gpuDirty
        BY <2>6, <3>4
      <4>2. t.w + x = 1 + n + y /\ t.a = a
        BY <2>2, <2>3, <2>4, <3>4, <4>1
      <4> QED BY <2>1, <2>2, <3>1, <4>1, <4>2 DEF n
    <3>5. CASE ~read /\ ~track
      <4>1. p \notin cpuDirty /\ p \in cpuDirty' /\ gpuDirty' = gpuDirty
        BY <2>6, <3>5
      <4>2. t.w + x = 0 + n + y /\ t.a = a
        BY <2>2, <2>3, <2>4, <3>5, <4>1
      <4> QED BY <2>1, <2>2, <3>1, <4>1, <4>2 DEF n
    <3> QED BY <3>2, <3>3, <3>4, <3>5
  <2> QED BY <2>5, <2>6
<1>7. PairInv'
  BY <1>6 DEF PairInv
<1> QED BY <1>4, <1>5, <1>7

-----------------------------------------------------------------------------
(* The tracker's operations. *)

LEMMA BeginGood ==
    ASSUME TrackGood, NEW S \in SUBSET Pages, NEW kind, NEW made, Begin(kind, S, made),
           kind \in {"Cpu", "Gpu", "Clean", "Upload", "UploadWrite", "FlushThenCpu"},
           managers \subseteq made, made \subseteq Regions,
           kind = "Cpu" => S \cap gpuDirty = {},
           kind = "Gpu" => S \cap cpuDirty = {},
           kind \in {"Gpu", "UploadWrite"} => RegionsOf(S) \subseteq made
    PROVE  TrackGood' /\ ~fatal'
<1>0. /\ TrackTypes /\ BitsInv /\ TaskInv /\ ImagesInv /\ ChunksInv /\ PairInv /\ KnownInv /\ LoopInv
  BY DEF TrackGood
<1>1. /\ ~fatal /\ managers' = made
      /\ task' = [kind |-> kind, pages |-> S, left |-> RegionsOf(S) \cap made]
      /\ cpuDirty' = cpuDirty /\ gpuDirty' = gpuDirty /\ writable' = writable
      /\ readable' = readable /\ known' = known /\ watch' = watch /\ prot' = prot /\ scan' = scan
      /\ fatal' = fatal /\ image' = image /\ chunks' = chunks
  BY DEF Begin
<1>2. TrackTypes'
  <2>1. task' \in Tasks
    BY <1>1 DEF Tasks
  <2> QED BY <1>0, <1>1, <2>1 DEF TrackTypes, TrackingTypeOK
<1>3. BitsInv'
  BY <1>0, <1>1 DEF BitsInv
<1>4. TaskInv'
  <2>1. task'.kind = kind /\ task'.pages = S /\ task'.left = RegionsOf(S) \cap made
    BY <1>1
  <2>2. \A p \in S : RegionOf(p) \in RegionsOf(S)
    BY DEF RegionsOf
  <2>3. \A p \in gpuDirty : RegionOf(p) \in made
    BY <1>0 DEF BitsInv
  <2> QED BY <1>1, <2>1, <2>2, <2>3 DEF TaskInv
<1>5. ImagesInv' /\ ChunksInv'
  BY <1>0, <1>1, ImagesKept
<1>6. PairInv'
  <2>1. \A p \in Pages : Final(p)' = Final(p)
    BY <1>1 DEF Final
  <2> QED BY <1>0, <1>1, <2>1, PairKept
<1>7. KnownInv' /\ LoopInv'
  BY <1>0, <1>1 DEF KnownInv, LoopInv, Released
<1> QED BY <1>1, <1>2, <1>3, <1>4, <1>5, <1>6, <1>7 DEF TrackGood

LEMMA OperationsGood ==
    ASSUME TrackGood, NEW S \in Ranges,
           \/ MarkRegionAsCpuModified(S) \/ MarkRegionAsGpuModified(S)
           \/ UnmarkRegionAsGpuModified(S) \/ UntrackMemory(S)
           \/ TryMarkCleanRegionAsCpuModified(S) \/ InvalidateRegion(S)
           \/ \E is_written \in BOOLEAN : ForEachUploadRange(S, is_written)
    PROVE  TrackGood' /\ ~fatal'
<1>1. S \in SUBSET Pages
  BY TrackingAssumption DEF Ranges, Pages
<1>2. /\ managers \subseteq managers /\ managers \subseteq Regions /\ managers \subseteq Created(S)
      /\ Created(S) \subseteq Regions /\ RegionsOf(S) \subseteq Created(S)
  BY <1>1 DEF TrackGood, TrackTypes, TrackingTypeOK, Created, RegionsOf, Regions
<1>3. CASE MarkRegionAsCpuModified(S)
  <2>1. Begin("Cpu", S, Created(S)) /\ S \cap gpuDirty = {}
    BY <1>3 DEF MarkRegionAsCpuModified, GpuModified
  <2> QED BY <1>1, <1>2, <2>1, BeginGood
<1>4. CASE MarkRegionAsGpuModified(S)
  <2>1. Begin("Gpu", S, Created(S)) /\ S \cap cpuDirty = {}
    BY <1>4 DEF MarkRegionAsGpuModified, CpuModified
  <2> QED BY <1>1, <1>2, <2>1, BeginGood
<1>5. CASE UnmarkRegionAsGpuModified(S)
  <2>1. Begin("Clean", S, managers)
    BY <1>5 DEF UnmarkRegionAsGpuModified
  <2> QED BY <1>1, <1>2, <2>1, BeginGood
<1>6. CASE UntrackMemory(S) \/ TryMarkCleanRegionAsCpuModified(S)
  <2>1. Begin("Cpu", S, managers) /\ S \cap gpuDirty = {}
    BY <1>6 DEF UntrackMemory, TryMarkCleanRegionAsCpuModified, GpuModified
  <2> QED BY <1>1, <1>2, <2>1, BeginGood
<1>7. CASE InvalidateRegion(S)
  <2>1. \/ Begin("FlushThenCpu", S, managers)
        \/ Begin("Cpu", S, managers) /\ S \cap gpuDirty = {}
    BY <1>7 DEF InvalidateRegion, GpuModified
  <2>2. CASE Begin("FlushThenCpu", S, managers)
    BY <1>1, <1>2, <2>2, BeginGood
  <2>3. CASE Begin("Cpu", S, managers) /\ S \cap gpuDirty = {}
    BY <1>1, <1>2, <2>3, BeginGood
  <2> QED BY <2>1, <2>2, <2>3
<1>8. CASE \E is_written \in BOOLEAN : ForEachUploadRange(S, is_written)
  <2>1. Begin("UploadWrite", S, Created(S)) \/ Begin("Upload", S, Created(S))
    BY <1>8 DEF ForEachUploadRange
  <2>2. CASE Begin("UploadWrite", S, Created(S))
    BY <1>1, <1>2, <2>2, BeginGood
  <2>3. CASE Begin("Upload", S, Created(S))
    BY <1>1, <1>2, <2>3, BeginGood
  <2> QED BY <2>1, <2>2, <2>3
<1> QED BY <1>3, <1>4, <1>5, <1>6, <1>7, <1>8

LEMMA TaskNextGood ==
    ASSUME TrackGood, TaskNext
    PROVE  TrackGood' /\ ~fatal'
<1>0. /\ TrackTypes /\ BitsInv /\ TaskInv /\ ImagesInv /\ ChunksInv /\ PairInv /\ KnownInv /\ LoopInv
  BY DEF TrackGood
<1>1. /\ ~fatal /\ task.left = {} /\ managers' = managers
      /\ cpuDirty' = cpuDirty /\ gpuDirty' = gpuDirty /\ writable' = writable
      /\ readable' = readable /\ known' = known /\ watch' = watch /\ prot' = prot /\ scan' = scan
      /\ fatal' = fatal /\ image' = image /\ chunks' = chunks
  BY DEF TaskNext, bits
<1>2. task \in Tasks /\ task.pages \in SUBSET Pages /\ managers \subseteq Regions
  BY <1>0 DEF TrackTypes, TrackingTypeOK, Tasks
<1>3. RegionsOf(task.pages) \subseteq Regions
  BY <1>2 DEF RegionsOf, Regions
<1>4. \/ task.kind = "UploadWrite" /\ task' = [task EXCEPT !.kind = "Gpu", !.left = RegionsOf(task.pages)]
      \/ /\ task.kind = "FlushThenCpu"
         /\ task' = [task EXCEPT !.kind = "Cpu", !.left = RegionsOf(task.pages) \cap managers]
      \/ task' = NoTask
  BY DEF TaskNext
<1>5. task' \in Tasks /\ TaskInv'
  <2>1. CASE task.kind = "UploadWrite" /\ task' = [task EXCEPT !.kind = "Gpu", !.left = RegionsOf(task.pages)]
    <3>1. task' \in Tasks /\ task'.kind = "Gpu" /\ task'.pages = task.pages /\ task'.left = RegionsOf(task.pages)
      BY <1>2, <1>3, <2>1 DEF Tasks
    <3> QED BY <1>0, <1>1, <2>1, <3>1 DEF TaskInv
  <2>2. CASE /\ task.kind = "FlushThenCpu"
             /\ task' = [task EXCEPT !.kind = "Cpu", !.left = RegionsOf(task.pages) \cap managers]
    <3>1. /\ task' \in Tasks /\ task'.kind = "Cpu" /\ task'.pages = task.pages
          /\ task'.left = RegionsOf(task.pages) \cap managers
      BY <1>2, <1>3, <2>2 DEF Tasks
    <3> QED BY <1>0, <1>1, <2>2, <3>1 DEF TaskInv
  <2>3. CASE task' = NoTask
    <3>1. task' \in Tasks /\ task'.kind = "None" /\ task'.left = {}
      BY <2>3 DEF NoTask, Tasks
    <3> QED BY <3>1 DEF TaskInv
  <2> QED BY <1>4, <2>1, <2>2, <2>3
<1>6. TrackTypes'
  BY <1>0, <1>1, <1>5 DEF TrackTypes, TrackingTypeOK
<1>7. BitsInv'
  BY <1>0, <1>1 DEF BitsInv
<1>8. ImagesInv' /\ ChunksInv'
  BY <1>0, <1>1, ImagesKept
<1>9. PairInv'
  <2>1. \A p \in Pages : Final(p)' = Final(p)
    BY <1>1 DEF Final
  <2> QED BY <1>0, <1>1, <2>1, PairKept
<1>10. KnownInv' /\ LoopInv'
  BY <1>0, <1>1 DEF KnownInv, LoopInv, Released
<1> QED BY <1>1, <1>5, <1>6, <1>7, <1>8, <1>9, <1>10 DEF TrackGood

\* The masks of the two kinds of update: the pages whose bit changes.
LEMMA CpuUpdate ==
    ASSUME CountersSuffice, TrackGood, ~fatal, ~scan.on, NEW r \in Regions,
           NEW S \in SUBSET PagesOf(r), NEW track \in BOOLEAN,
           NEW dirty, track => dirty = cpuDirty \ S, ~track => dirty = cpuDirty \cup S,
           UpdateCpuProtection(r, dirty, track), UNCHANGED <<watch, prot, chunks, image>>
    PROVE  /\ cpuDirty' = dirty /\ writable' = dirty /\ dirty \subseteq Pages
           /\ gpuDirty' = gpuDirty /\ readable' = readable
           /\ ~fatal' /\ scan' \in Scans /\ known' \subseteq Regions /\ KnownInv' /\ LoopInv'
           /\ PairInv' /\ ImagesInv' /\ ChunksInv'
<1> DEFINE mask == SymDiff(dirty, writable) \cap PagesOf(r)
<1>1. writable = cpuDirty /\ cpuDirty \subseteq Pages /\ PagesOf(r) \subseteq Pages
  BY DEF TrackGood, TrackTypes, TrackingTypeOK, BitsInv, PagesOf
<1>2. /\ cpuDirty' = dirty /\ UpdateWatchers(r, mask, track, FALSE)
      /\ writable' = (writable \ PagesOf(r)) \cup (dirty \cap PagesOf(r))
      /\ gpuDirty' = gpuDirty /\ readable' = readable
  BY DEF UpdateCpuProtection
<1>3. mask = IF track THEN S \cap cpuDirty ELSE S \ cpuDirty
  BY <1>1 DEF SymDiff
<1>4. writable' = dirty /\ dirty \subseteq Pages
  BY <1>1, <1>2
<1>5. mask \in SUBSET PagesOf(r)
  OBVIOUS
<1> HIDE DEF mask
<1>6. /\ track => mask \subseteq cpuDirty /\ cpuDirty' = cpuDirty \ mask
      /\ ~track => mask \cap cpuDirty = {} /\ cpuDirty' = cpuDirty \cup mask
  BY <1>2, <1>3
<1>7. PICK writes \in BOOLEAN : writes = FALSE
  OBVIOUS
<1>8. UpdateWatchers(r, mask, track, writes)
  BY <1>2, <1>7
<1>9. /\ ~fatal' /\ scan' \in Scans /\ known' \subseteq Regions /\ KnownInv' /\ LoopInv'
      /\ PairInv' /\ ImagesInv' /\ ChunksInv'
  BY <1>2, <1>5, <1>6, <1>7, <1>8, BitsStep
<1> QED BY <1>2, <1>4, <1>9

LEMMA GpuUpdate ==
    ASSUME CountersSuffice, TrackGood, ~fatal, ~scan.on, NEW r \in Regions,
           NEW S \in SUBSET PagesOf(r), NEW track \in BOOLEAN,
           NEW dirty, track => dirty = gpuDirty \cup S, ~track => dirty = gpuDirty \ S,
           UpdateGpuProtection(r, dirty, track), UNCHANGED <<watch, prot, chunks, image>>
    PROVE  /\ gpuDirty' = dirty /\ readable' = Pages \ dirty /\ dirty \subseteq Pages
           /\ cpuDirty' = cpuDirty /\ writable' = writable
           /\ ~fatal' /\ scan' \in Scans /\ known' \subseteq Regions /\ KnownInv' /\ LoopInv'
           /\ PairInv' /\ ImagesInv' /\ ChunksInv'
<1> DEFINE mask == SymDiff(Pages \ dirty, readable) \cap PagesOf(r)
<1>1. readable = Pages \ gpuDirty /\ gpuDirty \subseteq Pages /\ PagesOf(r) \subseteq Pages
  BY DEF TrackGood, TrackTypes, TrackingTypeOK, BitsInv, PagesOf
<1>2. /\ gpuDirty' = dirty /\ UpdateWatchers(r, mask, track, TRUE)
      /\ readable' = (readable \ PagesOf(r)) \cup (PagesOf(r) \ dirty)
      /\ cpuDirty' = cpuDirty /\ writable' = writable
  BY DEF UpdateGpuProtection
<1>3. mask = IF track THEN S \ gpuDirty ELSE S \cap gpuDirty
  BY <1>1 DEF SymDiff
<1>4. readable' = Pages \ dirty /\ dirty \subseteq Pages
  BY <1>1, <1>2
<1>5. mask \in SUBSET PagesOf(r)
  OBVIOUS
<1> HIDE DEF mask
<1>6. /\ track => mask \cap gpuDirty = {} /\ gpuDirty' = gpuDirty \cup mask
      /\ ~track => mask \subseteq gpuDirty /\ gpuDirty' = gpuDirty \ mask
  BY <1>2, <1>3
<1>7. PICK reads \in BOOLEAN : reads = TRUE
  OBVIOUS
<1>8. UpdateWatchers(r, mask, track, reads)
  BY <1>2, <1>7
<1>9. /\ ~fatal' /\ scan' \in Scans /\ known' \subseteq Regions /\ KnownInv' /\ LoopInv'
      /\ PairInv' /\ ImagesInv' /\ ChunksInv'
  BY <1>2, <1>5, <1>6, <1>7, <1>8, BitsStep
<1> QED BY <1>2, <1>4, <1>9

LEMMA TaskStepGood ==
    ASSUME CountersSuffice, TrackGood, NEW r \in task.left, TaskStep(r)
    PROVE  TrackGood' /\ ~fatal'
<1> DEFINE S == task.pages \cap PagesOf(r)
<1>0. /\ TrackTypes /\ BitsInv /\ TaskInv
  BY DEF TrackGood
<1>1. /\ ~fatal /\ ~scan.on /\ task' = [task EXCEPT !.left = task.left \ {r}]
      /\ managers' = managers /\ watch' = watch /\ prot' = prot /\ image' = image /\ chunks' = chunks
  BY DEF TaskStep
<1>2. \/ task.kind = "Cpu" /\ SetCpu(r, S)
      \/ task.kind = "Gpu" /\ SetGpu(r, S)
      \/ task.kind \in {"Clean", "FlushThenCpu"} /\ ClearGpu(r, S)
      \/ task.kind \in {"Upload", "UploadWrite"} /\ ClearCpu(r, S)
  BY DEF TaskStep
<1>3. task \in Tasks /\ task.left \subseteq Regions /\ r \in Regions /\ r \in managers
  BY <1>0 DEF TrackTypes, Tasks, TaskInv
<1>4. /\ task' \in Tasks /\ task'.kind = task.kind /\ task'.pages = task.pages
      /\ task'.left = task.left \ {r}
  BY <1>1, <1>3 DEF Tasks
<1>5. S \in SUBSET PagesOf(r) /\ \A p \in S : RegionOf(p) = r
  BY DEF PagesOf
<1>6. \A p \in task.pages : RegionOf(p) = r => p \in S
  BY <1>3 DEF Tasks, PagesOf
<1>7. UNCHANGED <<watch, prot, chunks, image>>
  BY <1>1
<1>8. PICK yes \in BOOLEAN, no \in BOOLEAN : yes = TRUE /\ no = FALSE
  OBVIOUS
<1> HIDE DEF S
<1>9. CASE task.kind = "Cpu" /\ SetCpu(r, S)
  <2>1. S \cap gpuDirty = {}
    BY <1>0, <1>9 DEF TaskInv, S
  <2>2. PICK dirty : dirty = cpuDirty \cup S
    OBVIOUS
  <2>3. /\ ~fatal /\ ~scan.on /\ r \in Regions /\ S \in SUBSET PagesOf(r) /\ no \in BOOLEAN
        /\ (no => dirty = cpuDirty \ S) /\ (~no => dirty = cpuDirty \cup S)
        /\ UpdateCpuProtection(r, dirty, no)
    <3>1. UpdateCpuProtection(r, cpuDirty \cup S, no)
      BY <1>8, <1>9, <2>1 DEF SetCpu
    <3> QED BY <1>1, <1>3, <1>5, <1>8, <2>2, <3>1
  <2>4. /\ cpuDirty' = dirty /\ writable' = dirty /\ dirty \subseteq Pages
        /\ gpuDirty' = gpuDirty /\ readable' = readable
        /\ ~fatal' /\ scan' \in Scans /\ known' \subseteq Regions /\ KnownInv' /\ LoopInv'
        /\ PairInv' /\ ImagesInv' /\ ChunksInv'
    BY <1>7, <2>3, CpuUpdate
  <2>5. TrackTypes'
    BY <1>0, <1>1, <1>4, <2>2, <2>4 DEF TrackTypes, TrackingTypeOK
  <2>6. BitsInv'
    BY <1>0, <1>1, <2>2, <2>4 DEF BitsInv
  <2>7. TaskInv'
    BY <1>0, <1>1, <1>4, <1>9, <2>2, <2>4 DEF TaskInv
  <2> QED BY <2>4, <2>5, <2>6, <2>7 DEF TrackGood
<1>10. CASE task.kind = "Gpu" /\ SetGpu(r, S)
  <2>1. S \cap cpuDirty = {}
    BY <1>0, <1>10 DEF TaskInv, S
  <2>2. PICK dirty : dirty = gpuDirty \cup S
    OBVIOUS
  <2>3. /\ ~fatal /\ ~scan.on /\ r \in Regions /\ S \in SUBSET PagesOf(r) /\ yes \in BOOLEAN
        /\ (yes => dirty = gpuDirty \cup S) /\ (~yes => dirty = gpuDirty \ S)
        /\ UpdateGpuProtection(r, dirty, yes)
    <3>1. UpdateGpuProtection(r, gpuDirty \cup S, yes)
      BY <1>8, <1>10, <2>1 DEF SetGpu
    <3> QED BY <1>1, <1>3, <1>5, <1>8, <2>2, <3>1
  <2>4. /\ gpuDirty' = dirty /\ readable' = Pages \ dirty /\ dirty \subseteq Pages
        /\ cpuDirty' = cpuDirty /\ writable' = writable
        /\ ~fatal' /\ scan' \in Scans /\ known' \subseteq Regions /\ KnownInv' /\ LoopInv'
        /\ PairInv' /\ ImagesInv' /\ ChunksInv'
    BY <1>7, <2>3, GpuUpdate
  <2>5. TrackTypes'
    BY <1>0, <1>1, <1>4, <2>2, <2>4 DEF TrackTypes, TrackingTypeOK
  <2>6. BitsInv'
    BY <1>0, <1>1, <1>3, <1>5, <2>2, <2>4 DEF BitsInv
  <2>7. TaskInv'
    BY <1>0, <1>1, <1>4, <1>10, <2>2, <2>4 DEF TaskInv
  <2> QED BY <2>4, <2>5, <2>6, <2>7 DEF TrackGood
<1>11. CASE task.kind \in {"Clean", "FlushThenCpu"} /\ ClearGpu(r, S)
  <2>2. PICK dirty : dirty = gpuDirty \ S
    OBVIOUS
  <2>3. /\ ~fatal /\ ~scan.on /\ r \in Regions /\ S \in SUBSET PagesOf(r) /\ no \in BOOLEAN
        /\ (no => dirty = gpuDirty \cup S) /\ (~no => dirty = gpuDirty \ S)
        /\ UpdateGpuProtection(r, dirty, no)
    <3>1. UpdateGpuProtection(r, gpuDirty \ S, no)
      BY <1>8, <1>11 DEF ClearGpu
    <3> QED BY <1>1, <1>3, <1>5, <1>8, <2>2, <3>1
  <2>4. /\ gpuDirty' = dirty /\ readable' = Pages \ dirty /\ dirty \subseteq Pages
        /\ cpuDirty' = cpuDirty /\ writable' = writable
        /\ ~fatal' /\ scan' \in Scans /\ known' \subseteq Regions /\ KnownInv' /\ LoopInv'
        /\ PairInv' /\ ImagesInv' /\ ChunksInv'
    BY <1>7, <2>3, GpuUpdate
  <2>5. TrackTypes'
    BY <1>0, <1>1, <1>4, <2>2, <2>4 DEF TrackTypes, TrackingTypeOK
  <2>6. BitsInv'
    BY <1>0, <1>1, <2>2, <2>4 DEF BitsInv
  <2>7. TaskInv'
    BY <1>0, <1>1, <1>4, <1>6, <1>11, <2>2, <2>4 DEF TaskInv
  <2> QED BY <2>4, <2>5, <2>6, <2>7 DEF TrackGood
<1>12. CASE task.kind \in {"Upload", "UploadWrite"} /\ ClearCpu(r, S)
  <2>2. PICK dirty : dirty = cpuDirty \ S
    OBVIOUS
  <2>3. /\ ~fatal /\ ~scan.on /\ r \in Regions /\ S \in SUBSET PagesOf(r) /\ yes \in BOOLEAN
        /\ (yes => dirty = cpuDirty \ S) /\ (~yes => dirty = cpuDirty \cup S)
        /\ UpdateCpuProtection(r, dirty, yes)
    <3>1. UpdateCpuProtection(r, cpuDirty \ S, yes)
      BY <1>8, <1>12 DEF ClearCpu
    <3> QED BY <1>1, <1>3, <1>5, <1>8, <2>2, <3>1
  <2>4. /\ cpuDirty' = dirty /\ writable' = dirty /\ dirty \subseteq Pages
        /\ gpuDirty' = gpuDirty /\ readable' = readable
        /\ ~fatal' /\ scan' \in Scans /\ known' \subseteq Regions /\ KnownInv' /\ LoopInv'
        /\ PairInv' /\ ImagesInv' /\ ChunksInv'
    BY <1>7, <2>3, CpuUpdate
  <2>5. TrackTypes'
    BY <1>0, <1>1, <1>4, <2>2, <2>4 DEF TrackTypes, TrackingTypeOK
  <2>6. BitsInv'
    BY <1>0, <1>1, <2>2, <2>4 DEF BitsInv
  <2>7. TaskInv'
    BY <1>0, <1>1, <1>4, <1>6, <1>12, <2>2, <2>4 DEF TaskInv
  <2> QED BY <2>4, <2>5, <2>6, <2>7 DEF TrackGood
<1> QED BY <1>2, <1>9, <1>10, <1>11, <1>12

-----------------------------------------------------------------------------
LEMMA TrackStep ==
    ASSUME TrackIInv, [TrackingNext]_trackingVars
    PROVE  TrackIInv'
<1>0. CountersSuffice /\ ~fatal /\ TrackGood
  BY DEF TrackIInv
<1>1. CountersSuffice'
  BY <1>0 DEF CountersSuffice
<1>2. TrackGood' /\ ~fatal'
  <2>1. ASSUME NEW S \in Ranges,
               \/ MarkRegionAsCpuModified(S) \/ MarkRegionAsGpuModified(S)
               \/ UnmarkRegionAsGpuModified(S) \/ UntrackMemory(S)
               \/ TryMarkCleanRegionAsCpuModified(S) \/ InvalidateRegion(S)
               \/ \E is_written \in BOOLEAN : ForEachUploadRange(S, is_written)
        PROVE  TrackGood' /\ ~fatal'
    BY <1>0, <2>1, OperationsGood
  <2>2. ASSUME NEW r \in task.left, TaskStep(r) PROVE TrackGood' /\ ~fatal'
    BY <1>0, <2>2, TaskStepGood
  <2>3. CASE TaskNext
    BY <1>0, <2>3, TaskNextGood
  <2>4. ASSUME NEW i \in Images,
               \/ Register(i) \/ TrackImage(i)
               \/ \E stays \in BOOLEAN : UntrackImage(i, stays)
               \/ UntrackImageHead(i) \/ UntrackImageTail(i)
        PROVE  TrackGood' /\ ~fatal'
    BY <1>0, <2>4, RegisterGood, TrackImageGood, UntrackImageGood, UntrackImageHeadGood,
       UntrackImageTailGood
  <2>5. ASSUME NEW c \in chunks, ChunkStep(c) PROVE TrackGood' /\ ~fatal'
    BY <1>0, <2>5, ChunkStepGood
  <2>6. CASE UpdateRegionWatchers
    BY <1>0, <2>6, UpdateRegionWatchersGood
  <2>7. CASE UpdateEnd
    BY <1>0, <2>7, UpdateEndGood
  <2>8. CASE UNCHANGED trackingVars
    <3>1. /\ managers' = managers /\ cpuDirty' = cpuDirty /\ gpuDirty' = gpuDirty
          /\ writable' = writable /\ readable' = readable /\ known' = known /\ watch' = watch
          /\ prot' = prot /\ scan' = scan /\ fatal' = fatal /\ task' = task /\ image' = image
          /\ chunks' = chunks
      BY <2>8 DEF trackingVars, bits
    <3>2. TrackTypes' /\ BitsInv' /\ TaskInv' /\ KnownInv' /\ LoopInv'
      BY <1>0, <3>1 DEF TrackGood, TrackTypes, TrackingTypeOK, BitsInv, TaskInv, KnownInv, LoopInv,
                        Released
    <3>3. ImagesInv' /\ ChunksInv'
      BY <1>0, <3>1, ImagesKept DEF TrackGood
    <3>4. PairInv'
      <4>1. \A p \in Pages : Final(p)' = Final(p)
        BY <3>1 DEF Final
      <4> QED BY <1>0, <3>1, <4>1, PairKept DEF TrackGood
    <3> QED BY <1>0, <3>1, <3>2, <3>3, <3>4 DEF TrackGood
  <2> QED BY <2>1, <2>2, <2>3, <2>4, <2>5, <2>6, <2>7, <2>8 DEF TrackingNext
<1> QED BY <1>1, <1>2 DEF TrackIInv

LEMMA TrackStart ==
    ASSUME CountersSuffice, TrackingInit
    PROVE  TrackIInv
<1>0. /\ managers = {} /\ known = {} /\ cpuDirty = Pages /\ gpuDirty = {} /\ writable = Pages
      /\ readable = Pages /\ watch = [p \in Pages |-> [w |-> 0, a |-> 0]]
      /\ prot = [p \in Pages |-> "ReadWrite"] /\ scan = NoScan /\ fatal = FALSE /\ task = NoTask
      /\ image = [i \in Images |-> [registered |-> FALSE, track |-> Untracked]] /\ chunks = {}
  BY DEF TrackingInit
<1>1. TrackTypes
  <2>1. watch \in [Pages -> [w : 0..WatcherLimit, a : 0..1]]
    BY <1>0, TrackingAssumption
  <2>2. image \in [Images -> [registered : BOOLEAN, track : Nat \X Nat]]
    BY <1>0 DEF Untracked
  <2>3. prot \in [Pages -> {"ReadWrite", "ReadOnly", "NoAccess"}]
    BY <1>0
  <2>4. task \in Tasks
    BY <1>0 DEF NoTask, Tasks
  <2> QED BY <1>0, <2>1, <2>2, <2>3, <2>4, NoScanIs DEF TrackTypes, TrackingTypeOK
<1>2. BitsInv
  BY <1>0 DEF BitsInv
<1>3. TaskInv
  BY <1>0 DEF TaskInv, NoTask
<1>4. \A i \in Images : image[i].track = Untracked /\ ImagePages(i) = {}
  BY <1>0 DEF ImagePages, IsTracked
<1>5. ImagesInv /\ ChunksInv
  BY <1>0, <1>4 DEF ImagesInv, ChunksInv
<1>6. PairInv
  <2> SUFFICES ASSUME NEW p \in Pages
               PROVE  /\ Final(p).w + Awaits(p, TRUE)
                           = (IF p \in cpuDirty THEN 0 ELSE 1) + Cardinality(WatchedBy(p)) + Awaits(p, FALSE)
                      /\ Final(p).a = (IF p \in gpuDirty THEN 1 ELSE 0)
    BY DEF PairInv
  <2>1. Final(p) = [w |-> 0, a |-> 0]
    BY <1>0, NoScanIs DEF Final
  <2>2. Awaits(p, TRUE) = 0 /\ Awaits(p, FALSE) = 0
    BY <1>0 DEF Awaits
  <2>3. WatchedBy(p) = {} /\ Cardinality(WatchedBy(p)) = 0
    BY <1>4, FS_EmptySet DEF WatchedBy
  <2>4. Final(p).w = 0 /\ Final(p).a = 0 /\ p \in cpuDirty /\ p \notin gpuDirty
    BY <1>0, <2>1
  <2>5. (IF p \in cpuDirty THEN 0 ELSE 1) = 0 /\ (IF p \in gpuDirty THEN 1 ELSE 0) = 0
    BY <2>4
  <2>6. 0 + 0 = 0 + 0 + 0
    OBVIOUS
  <2> QED BY <2>2, <2>3, <2>4, <2>5, <2>6, Zenon
<1>7. KnownInv
  BY <1>0, NoScanIs DEF KnownInv
<1>8. LoopInv
  BY <1>0, NoScanIs DEF LoopInv, Perms
<1> QED BY <1>0, <1>1, <1>2, <1>3, <1>5, <1>6, <1>7, <1>8 DEF TrackIInv, TrackGood

\* Between loops the invariant is what TrackingExact says.
LEMMA TrackIInvMeans ==
    ASSUME TrackIInv
    PROVE  TrackingExact /\ TrackingTypeOK
<1>0. /\ CountersSuffice /\ ~fatal /\ TrackGood /\ TrackTypes /\ ChunksInv /\ PairInv /\ LoopInv
  BY DEF TrackIInv, TrackGood
<1>1. TrackingTypeOK
  BY <1>0 DEF TrackTypes
<1>2. ProtectionExact
  <2> SUFFICES ASSUME ~scan.on, NEW p \in Pages PROVE prot[p] = Perms(watch[p])
    BY DEF ProtectionExact
  <2>1. scan = NoScan /\ p \in Nat
    BY <1>0, TrackingAssumption DEF LoopInv, Pages
  <2>2. ~Released(p)
    BY <2>1, NoScanIs DEF Released
  <2> QED BY <1>0, <2>2 DEF LoopInv
<1>3. ASSUME NEW p, NEW track \in BOOLEAN PROVE Outstanding(p, track) = Awaits(p, track)
  <2> DEFINE C == {c \in chunks : p \in c.mask /\ c.track = track}
  <2>1. CASE C = {}
    <3>1. Cardinality(C) = 0
      BY <2>1, FS_EmptySet
    <3> QED BY <2>1, <3>1 DEF Outstanding, Awaits
  <2>2. CASE C # {}
    <3>1. PICK c \in C : TRUE
      BY <2>2
    <3>2. C = {c}
      BY <1>0, <3>1 DEF ChunksInv
    <3>3. Cardinality(C) = 1
      BY <3>2, FS_Singleton
    <3>4. \E d \in chunks : p \in d.mask /\ d.track = track
      BY <3>1
    <3> QED BY <3>3, <3>4 DEF Outstanding, Awaits
  <2> QED BY <2>1, <2>2
<1>4. WatchersPair
  <2> SUFFICES ASSUME ~scan.on, NEW p \in Pages
               PROVE  /\ watch[p].w + Outstanding(p, TRUE)
                           = (IF p \in cpuDirty THEN 0 ELSE 1)
                             + Cardinality({i \in Images : p \in ImagePages(i)}) + Outstanding(p, FALSE)
                      /\ watch[p].a = (IF p \in gpuDirty THEN 1 ELSE 0)
    BY DEF WatchersPair
  <2>1. Final(p) = watch[p]
    BY DEF Final
  <2>2. Outstanding(p, TRUE) = Awaits(p, TRUE) /\ Outstanding(p, FALSE) = Awaits(p, FALSE)
    <3>1. PICK yes \in BOOLEAN, no \in BOOLEAN : yes = TRUE /\ no = FALSE
      OBVIOUS
    <3>2. Outstanding(p, yes) = Awaits(p, yes) /\ Outstanding(p, no) = Awaits(p, no)
      BY <1>3
    <3> QED BY <3>1, <3>2
  <2> QED BY <1>0, <2>1, <2>2 DEF PairInv, WatchedBy
<1> QED BY <1>0, <1>1, <1>2, <1>4 DEF TrackingExact, TrackerSurvives

\* The invariant of page tracking, for any pages, regions and images.
THEOREM TrackIInvHolds == CountersSuffice /\ TrackingSpec => []TrackIInv
<1>1. CountersSuffice /\ TrackingInit => TrackIInv
  BY TrackStart
<1>2. TrackIInv /\ [TrackingNext]_trackingVars => TrackIInv'
  BY TrackStep
<1> QED BY <1>1, <1>2, PTL DEF TrackingSpec

LEMMA TrackingAlone == MCSpec => TrackingSpec
<1>1. MCInit => TrackingInit
  BY DEF MCInit
<1>2. [MCNext]_<<part, trackingVars, cache, rangeVars, videoVars>> => [TrackingNext]_trackingVars
  <2> SUFFICES ASSUME MCNext PROVE [TrackingNext]_trackingVars
    OBVIOUS
  <2>1. CASE part = "tracking"
    BY <2>1 DEF MCNext
  <2>2. CASE part # "tracking"
    BY <2>2 DEF MCNext, Rests
  <2> QED BY <2>1, <2>2
<1> QED BY <1>1, <1>2, PTL DEF MCSpec, TrackingSpec

\* For any number of pages, any region and page size and any images, as long
\* as the watcher counts have room for the images: whenever the page
\* manager's loop is not under way every page has the protection its watchers
\* ask for, its watchers are those of the dirty bits and the images, and no
\* check of the code ends the program.
THEOREM TrackingIsExact == CountersSuffice /\ MCSpec => []TrackingExact
<1>1. TrackIInv => TrackingExact
  BY TrackIInvMeans
<1> QED BY <1>1, TrackingAlone, TrackIInvHolds, PTL

\* Page tracking, buffer cache and video output keep their types together.
THEOREM GpuMemoryIsTyped == CountersSuffice /\ MCSpec => []GpuTypeOK
<1>1. TrackIInv => TrackingTypeOK
  BY TrackIInvMeans
<1>2. CacheIInv => CacheTypeOK
  BY CacheIInvMeans
<1>3. VideoIInv => VideoTypeOK
  BY VideoIInvMeans
<1>4. TrackingTypeOK /\ CacheTypeOK /\ VideoTypeOK => GpuTypeOK
  BY DEF GpuTypeOK
<1> QED BY <1>1, <1>2, <1>3, <1>4, TrackingAlone, TrackIInvHolds, CacheAlone, CacheIInvHolds,
           VideoAlone, VideoIInvHolds, PTL

=============================================================================
