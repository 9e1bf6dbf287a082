----------------------------- MODULE AtomicSema -----------------------------
(***************************************************************************)
(* What a guest may rely on of a kernel semaphore: an abstract counting    *)
(* semaphore without a queue, a scan or a lock.  A signal adds its units   *)
(* and serves waiters in one step; whom it serves is left open, but nobody *)
(* who could be served with what is left stays behind.  KernelSema is      *)
(* shown to implement it.                                                  *)
(***************************************************************************)
EXTENDS Integers, FiniteSets

CONSTANTS Threads, InitCount, MaxCount, NeedCounts, SignalCounts, CancelCounts

VARIABLES
    life,       \* "Set", "Deleted" or "Freed"
    units,      \* the units nobody has been given
    demand,     \* what each waiting thread asked for, 0 if it is not waiting
    verdict,    \* "Pending", or what the thread's wait will return
    answer      \* the thread and the result of the call the last step ended

vars == <<life, units, demand, verdict, answer>>

Init ==
    /\ life = "Set"
    /\ units = InitCount
    /\ demand = [t \in Threads |-> 0]
    /\ verdict = [t \in Threads |-> "Pending"]
    /\ answer = <<>>

Outside(t) == demand[t] = 0

Pending == {t \in Threads : ~Outside(t) /\ verdict[t] = "Pending"}

Fits(n) == n \in 1..MaxCount

\* Give a thread its units at once.
Take(t, n) ==
    /\ life = "Set" /\ Outside(t) /\ Fits(n) /\ n <= units
    /\ units' = units - n
    /\ answer' = <<t, "Ok">>
    /\ UNCHANGED <<life, demand, verdict>>

\* A poll that would wait, a count out of range, a deleted semaphore.
Refuse(t, n) ==
    /\ life # "Freed" /\ Outside(t)
    /\ \E r \in {"InvalCount", "TimedOut", "Deleted"} :
          /\ r = "InvalCount" <=> ~Fits(n)
          /\ r = "TimedOut" => life = "Set" /\ n > units
          /\ r = "Deleted" => life = "Deleted"
          /\ answer' = <<t, r>>
    /\ UNCHANGED <<life, units, demand, verdict>>

Await(t, n) ==
    /\ life = "Set" /\ Outside(t) /\ Fits(n) /\ n > units
    /\ demand' = [demand EXCEPT ![t] = n]
    /\ answer' = <<>>
    /\ UNCHANGED <<life, units, verdict>>

\* The wait ends with its verdict, or, while there is none, with a timeout.
Return(t) ==
    /\ life # "Freed" /\ ~Outside(t)
    /\ answer' = <<t, IF verdict[t] = "Pending" THEN "TimedOut" ELSE verdict[t]>>
    /\ demand' = [demand EXCEPT ![t] = 0]
    /\ verdict' = [verdict EXCEPT ![t] = "Pending"]
    /\ UNCHANGED <<life, units>>

\* What the threads of S asked for, unit by unit.
Demanded(S) == UNION {{t} \X (1..demand[t]) : t \in S}

\* The units of the served threads are theirs, and nobody who is left could
\* be served with the rest.
Signal(n) ==
    /\ life = "Set" /\ units + n <= MaxCount
    /\ \E served \in SUBSET Pending :
          /\ units' = units + n - Cardinality(Demanded(served))
          /\ served # {} => units' >= 0
          /\ \A t \in Pending \ served : demand[t] > units'
          /\ verdict' = [t \in Threads |->
                            IF t \in served THEN "Ok" ELSE verdict[t]]
    /\ answer' = <<>>
    /\ UNCHANGED <<life, demand>>

EndAll(r) ==
    verdict' = [t \in Threads |-> IF t \in Pending THEN r ELSE verdict[t]]

Cancel(c) ==
    /\ life = "Set" /\ c <= MaxCount
    /\ units' = IF c < 0 THEN InitCount ELSE c
    /\ EndAll("Canceled")
    /\ answer' = <<>>
    /\ UNCHANGED <<life, demand>>

Delete ==
    /\ life = "Set" /\ life' = "Deleted"
    /\ EndAll("Deleted")
    /\ answer' = <<>>
    /\ UNCHANGED <<units, demand>>

Free ==
    /\ life = "Deleted" /\ life' = "Freed"
    /\ \A t \in Threads : Outside(t)
    /\ answer' = <<>>
    /\ UNCHANGED <<units, demand, verdict>>

Create ==
    /\ life = "Freed" /\ life' = "Set"
    /\ units' = InitCount
    /\ answer' = <<>>
    /\ UNCHANGED <<demand, verdict>>

Next ==
    \/ \E t \in Threads :
          \/ \E n \in NeedCounts : Take(t, n) \/ Refuse(t, n) \/ Await(t, n)
          \/ Return(t)
    \/ \E n \in SignalCounts : Signal(n)
    \/ \E c \in CancelCounts : Cancel(c)
    \/ Delete \/ Free \/ Create

Spec == Init /\ [][Next]_vars

=============================================================================
