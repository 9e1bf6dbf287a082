------------------------------ MODULE RangeSet ------------------------------
(***************************************************************************)
(* RangeSet (rangeSet.h): a set of addresses kept as a map from the begin  *)
(* of each range to its end.  The buffer cache records with it what the    *)
(* GPU has modified, the resource manager what is mapped; both rely on the *)
(* ranges being the maximal ones.  Add and Subtract walk the map from an   *)
(* iterator that may start one entry back; an iteration is a step.         *)
(***************************************************************************)
EXTENDS Integers, FiniteSets

CONSTANT LastAddress

ASSUME RangeSetAssumption == LastAddress \in Nat \ {0}

Addresses == 1..LastAddress

VARIABLES
    ranges,     \* m_ranges, as pairs
    loop,       \* the locals of Add or Subtract: rest holds the entries from the iterator on
    bytes       \* the addresses a reference implementation would hold

rangeVars == <<ranges, loop, bytes>>

NoLoop == [op |-> "None", a |-> 0, end |-> 0, begin |-> 0, last |-> 0, rest |-> {}]

RangesInit == ranges = {} /\ loop = NoLoop /\ bytes = {}

\* The entries from lower_bound (first key not below a) on, and from
\* upper_bound (first key above a) on.
FromLower(R, a) == {r \in R : r[1] >= a}
FromUpper(R, a) == {r \in R : r[1] > a}

\* The entry std::prev would give for the iterator at the entries S.
Previous(R, S) == {r \in R \ S : \A q \in R \ S : q[1] <= r[1]}

\* The entry the iterator is at.
IsFirst(r) == r \in loop.rest /\ \A q \in loop.rest : r[1] <= q[1]

-----------------------------------------------------------------------------
\* Mutant: a range that ends where the new one begins is not merged.
MutAddFrom(R, a) ==
    FromLower(R, a) \cup {r \in Previous(R, FromLower(R, a)) : r[2] > a}

AddFrom(R, a) ==
    FromLower(R, a) \cup {r \in Previous(R, FromLower(R, a)) : r[2] >= a}

\* Add(address, end - address).
AddBegin(a, end) ==
    /\ loop.op = "None"
    /\ loop' = [op |-> "Add", a |-> a, end |-> end, begin |-> a, last |-> end,
                rest |-> AddFrom(ranges, a)]
    /\ UNCHANGED <<ranges, bytes>>

AddMerge(r) ==
    /\ loop.op = "Add" /\ IsFirst(r) /\ r[1] <= loop.last
    /\ ranges' = ranges \ {r}
    /\ loop' = [loop EXCEPT !.begin = IF r[1] < @ THEN r[1] ELSE @,
                            !.last = IF r[2] > @ THEN r[2] ELSE @,
                            !.rest = @ \ {r}]
    /\ UNCHANGED bytes

AddEnd ==
    /\ loop.op = "Add" /\ \A r \in loop.rest : r[1] > loop.last
    /\ ranges' = ranges \cup {<<loop.begin, loop.last>>}
    /\ loop' = NoLoop
    /\ bytes' = bytes \cup (loop.a..(loop.end - 1))

-----------------------------------------------------------------------------
SubtractFrom(R, a) ==
    FromLower(R, a) \cup {r \in Previous(R, FromLower(R, a)) : r[2] > a}

\* Subtract(address, end - address).
SubtractBegin(a, end) ==
    /\ loop.op = "None"
    /\ loop' = [op |-> "Subtract", a |-> a, end |-> end, begin |-> a, last |-> end,
                rest |-> SubtractFrom(ranges, a)]
    /\ UNCHANGED <<ranges, bytes>>

\* What is left of r on both sides; a piece behind the end is the last.
SubtractCut(r) ==
    /\ loop.op = "Subtract" /\ IsFirst(r) /\ r[1] < loop.end
    /\ ranges' = (ranges \ {r}) \cup (IF r[1] < loop.a THEN {<<r[1], loop.a>>} ELSE {})
                                \cup (IF r[2] > loop.end THEN {<<loop.end, r[2]>>} ELSE {})
    /\ loop' = [loop EXCEPT !.rest = IF r[2] > loop.end THEN {} ELSE @ \ {r}]
    /\ UNCHANGED bytes

SubtractEnd ==
    /\ loop.op = "Subtract" /\ \A r \in loop.rest : r[1] >= loop.end
    /\ loop' = NoLoop
    /\ bytes' = bytes \ (loop.a..(loop.end - 1))
    /\ UNCHANGED ranges

-----------------------------------------------------------------------------
\* ForEachIntersection, and Intersections: the loop ends at the first entry
\* that begins at the end or behind it.
Intersections(R, a, end) ==
    LET begin(r) == IF r[1] > a THEN r[1] ELSE a
        last(r) == IF r[2] < end THEN r[2] ELSE end
    IN  {<<begin(r), last(r)>> :
            r \in {q \in FromUpper(R, a) \cup Previous(R, FromUpper(R, a)) :
                     q[1] < end /\ begin(q) < last(q)}}

\* Contains.
ContainsRange(R, a, end) ==
    \E r \in Previous(R, FromUpper(R, a)) : r[1] <= a /\ r[2] >= end

Intersects(R, a, end) ==
    \/ \E r \in Previous(R, FromUpper(R, a)) : r[2] > a
    \/ \E r \in FromUpper(R, a) : (\A q \in FromUpper(R, a) : r[1] <= q[1]) /\ r[1] < end

RangesNext ==
    \/ \E a \in Addresses, end \in Addresses :
          a < end /\ (AddBegin(a, end) \/ SubtractBegin(a, end))
    \/ \E r \in ranges : AddMerge(r) \/ SubtractCut(r)
    \/ AddEnd \/ SubtractEnd

RangesSpec == RangesInit /\ [][RangesNext]_rangeVars

-----------------------------------------------------------------------------
Bytes(R) == UNION {r[1]..(r[2] - 1) : r \in R}

\* The entries have keys of their own, as a map's, are not empty, and neither
\* overlap nor touch.
Maximal(R) ==
    /\ \A r \in R : r[1] < r[2]
    /\ \A q, r \in R : q[1] < r[1] => q[2] < r[1]
    /\ \A q, r \in R : q[1] = r[1] => q = r

\* After any sequence of Add and Subtract the map holds the same addresses as
\* a plain set, in ranges that are maximal.
RangesExact == loop.op = "None" => Bytes(ranges) = bytes /\ Maximal(ranges)

\* The queries agree with the set: also Contains, which looks at one range
\* only, and so relies on touching ranges having been merged.
QueriesExact ==
    loop.op = "None" =>
        \A a \in Addresses, end \in Addresses : a < end =>
            /\ ContainsRange(ranges, a, end) <=> (a..(end - 1)) \subseteq bytes
            /\ Intersects(ranges, a, end) <=> (a..(end - 1)) \cap bytes # {}
            /\ Bytes(Intersections(ranges, a, end)) = (a..(end - 1)) \cap bytes

=============================================================================
