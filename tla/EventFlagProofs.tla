--------------------------- MODULE EventFlagProofs ---------------------------
(***************************************************************************)
(* Proofs about EventFlag, for every set of threads, every pattern and any *)
(* requests: the counter the polling loops of Cancel and of the destructor *)
(* read is the number of threads inside WaitFor on every path, and nobody  *)
(* they announced themselves to is overlooked.                             *)
(***************************************************************************)
EXTENDS EventFlag, FiniteSetTheorems, TLAPS

\* The threads inside WaitFor came one by one, so that they can be counted
\* whatever the set of threads is.
IInv == TypeOK /\ IsFiniteSet(asleep) /\ CancelLeavesNobody

-----------------------------------------------------------------------------
\* m_waiting_threads is zero exactly when no thread is inside WaitFor.
LEMMA NobodyCounted ==
    ASSUME TypeOK, IsFiniteSet(asleep)
    PROVE  /\ waiting \in Nat
           /\ waiting = 0 <=> asleep = {}
<1>1. waiting = Cardinality(asleep)
  BY DEF TypeOK
<1> QED BY <1>1, FS_CardinalityType, FS_EmptySet

LEMMA InitIInv == Init => IInv
<1> SUFFICES ASSUME Init PROVE IInv
  OBVIOUS
<1>1. IsFiniteSet(asleep) /\ waiting = Cardinality(asleep)
  BY FS_EmptySet DEF Init
<1>2. TypeOK
  BY <1>1, FlagAssumption DEF Init, TypeOK
<1> QED BY <1>1, <1>2 DEF Init, IInv, CancelLeavesNobody

\* A pattern that survives a successful Wait is one the flag may have.
LEMMA ClearedIsPattern ==
    ASSUME bits \subseteq Bits, NEW w \in Requests \cup {NoWait}
    PROVE  Cleared(w) \subseteq Bits
BY DEF Cleared, Requests, NoWait, ClearModes

\* A call of Wait or Poll that returns without sleeping.
LEMMA ReturnIInv ==
    ASSUME IInv, NEW t \in Threads, NEW r \in Results,
           ret' = [ret EXCEPT ![t] = r], bits' \subseteq Bits,
           UNCHANGED <<single, status, waiting, asleep, want, doomed>>
    PROVE  IInv'
<1>1. TypeOK'
  BY DEF IInv, TypeOK
<1> QED BY <1>1 DEF IInv, CancelLeavesNobody

LEMMA WaitSleepIInv ==
    ASSUME IInv, NEW t \in Threads, NEW w \in Requests, WaitSleep(t, w)
    PROVE  IInv'
<1> USE DEF WaitSleep, Calls
<1>1. /\ IsFiniteSet(asleep') /\ waiting' = Cardinality(asleep')
      /\ asleep' = asleep \cup {t} /\ waiting' = waiting + 1
  BY FS_AddElement DEF IInv, TypeOK
<1>2. single' => waiting' <= 1
  BY <1>1, NobodyCounted DEF IInv, Busy
<1>3. want' \in [Threads -> Requests \cup {NoWait}] /\ ret' \in [Threads -> Results \cup {"None"}]
  BY DEF IInv, TypeOK
<1>4. TypeOK'
  BY <1>1, <1>2, <1>3 DEF IInv, TypeOK
<1> QED BY <1>1, <1>4 DEF IInv, CancelLeavesNobody

\* The four ways out of WaitFor all give the counter back.
LEMMA LeaveIInv ==
    ASSUME IInv, NEW t \in Threads, NEW r \in Results, Leave(t, r),
           bits' \subseteq Bits
    PROVE  IInv'
<1> USE DEF Leave
<1>1. /\ IsFiniteSet(asleep') /\ waiting' = Cardinality(asleep')
      /\ asleep' = asleep \ {t} /\ waiting' = waiting - 1
  BY FS_RemoveElement DEF IInv, TypeOK
<1>2. single' => waiting' <= 1
  BY <1>1, NobodyCounted DEF IInv, TypeOK
<1>3. want' \in [Threads -> Requests \cup {NoWait}] /\ ret' \in [Threads -> Results \cup {"None"}]
  BY DEF IInv, TypeOK
<1>4. TypeOK'
  BY <1>1, <1>2, <1>3 DEF IInv, TypeOK
<1> QED BY <1>1, <1>4 DEF IInv, CancelLeavesNobody

LEMMA WakeIInv ==
    ASSUME IInv, NEW t \in Threads, Wake(t)
    PROVE  IInv'
<1>0. bits \subseteq Bits /\ want[t] \in Requests \cup {NoWait}
  BY DEF IInv, TypeOK
<1>1. CASE WakeCanceled(t)
  BY <1>0, <1>1, LeaveIInv DEF WakeCanceled, Results
<1>2. CASE WakeDeleted(t)
  BY <1>0, <1>2, LeaveIInv DEF WakeDeleted, Results
<1>3. CASE WakeOk(t)
  BY <1>0, <1>3, LeaveIInv, ClearedIsPattern DEF WakeOk, Results
<1>4. CASE WakeTimedOut(t)
  BY <1>0, <1>4, LeaveIInv DEF WakeTimedOut, Results
<1> QED BY <1>1, <1>2, <1>3, <1>4 DEF Wake

\* Set and Clear move nothing but the pattern.
LEMMA PatternIInv ==
    ASSUME IInv, bits' \subseteq Bits,
           UNCHANGED <<single, status, waiting, asleep, want, ret, doomed>>
    PROVE  IInv'
<1>1. TypeOK'
  BY DEF IInv, TypeOK
<1> QED BY <1>1 DEF IInv, CancelLeavesNobody

\* Every step of the flag preserves the invariant.
LEMMA NextIInv == IInv /\ [Next]_vars => IInv'
<1> SUFFICES ASSUME IInv, [Next]_vars PROVE IInv'
  OBVIOUS
<1>0. bits \subseteq Bits /\ waiting \in Nat /\ (waiting = 0 <=> asleep = {})
  BY NobodyCounted DEF IInv, TypeOK
<1>1. ASSUME NEW t \in Threads, WaitCall(t) PROVE IInv'
  <2>1. CASE WaitAlreadyWaiting(t)
    BY <1>0, <2>1, ReturnIInv DEF WaitAlreadyWaiting, Results
  <2>2. ASSUME NEW w \in Requests, WaitAtOnce(t, w) PROVE IInv'
    BY <1>0, <2>2, ReturnIInv, ClearedIsPattern DEF WaitAtOnce, Results
  <2>3. ASSUME NEW w \in Requests, PollTimedOut(t, w) PROVE IInv'
    BY <1>0, <2>3, ReturnIInv DEF PollTimedOut, Results
  <2> QED BY <1>1, <2>1, <2>2, <2>3, WaitSleepIInv DEF WaitCall
<1>2. ASSUME NEW b \in SUBSET Bits, SetBits(b) \/ Clear(b) PROVE IInv'
  BY <1>0, <1>2, PatternIInv DEF SetBits, Clear
<1>3. ASSUME NEW b \in SUBSET Bits, CancelBegin(b) PROVE IInv'
  BY <1>3 DEF CancelBegin, IInv, TypeOK, CancelLeavesNobody
<1>4. CASE CancelEnd
  <2>1. doomed = {}
    BY <1>0, <1>4 DEF CancelEnd, IInv, TypeOK
  <2> QED BY <1>4, <2>1 DEF CancelEnd, IInv, TypeOK, CancelLeavesNobody
<1>5. CASE DeleteBegin
  BY <1>5 DEF DeleteBegin, IInv, TypeOK, CancelLeavesNobody
<1>6. CASE DeleteEnd
  <2>1. asleep = {} /\ doomed = {}
    BY <1>0, <1>6 DEF DeleteEnd, IInv, TypeOK
  <2> QED BY <1>6, <2>1 DEF DeleteEnd, IInv, TypeOK, CancelLeavesNobody
<1>7. CASE Create
  <2>1. asleep = {} /\ waiting = 0
    BY <1>0, <1>7 DEF Create, IInv, CancelLeavesNobody
  <2> QED BY <1>7, <2>1, FlagAssumption DEF Create, IInv, TypeOK, CancelLeavesNobody
<1>8. CASE UNCHANGED vars
  BY <1>8 DEF vars, IInv, TypeOK, CancelLeavesNobody
<1> QED
  BY <1>1, <1>2, <1>3, <1>4, <1>5, <1>6, <1>7, <1>8, WakeIInv DEF Next

\* The inductive invariant holds in every reachable state of the flag.
THEOREM IInvHolds == Spec => []IInv
BY InitIInv, NextIInv, PTL DEF Spec

\* The fields keep their types, m_waiting_threads is the number of threads
\* inside WaitFor, and a flag made for one waiter never has two.
THEOREM FlagTypeCorrect == Spec => []TypeOK
<1>1. IInv => TypeOK
  BY DEF IInv
<1> QED BY IInvHolds, <1>1, PTL

\* When Cancel or the destructor returns, nobody it announced itself to is
\* still inside WaitFor.
THEOREM NobodyLeftBehind == Spec => []CancelLeavesNobody
<1>1. IInv => CancelLeavesNobody
  BY DEF IInv
<1> QED BY IInvHolds, <1>1, PTL

\* Whoever was asleep when a Cancel or the deletion began returns with its
\* status: Canceled or Deleted, never Ok or TimedOut.
THEOREM AnnouncementReachesAll == Spec => CancelReachesAll
<1> DEFINE Reached == \A t \in doomed : t \notin doomed' => ret'[t] = status
<1>1. IInv /\ [Next]_vars => [Reached]_vars
  <2> SUFFICES ASSUME IInv, Next, NEW t \in doomed, t \notin doomed'
               PROVE  ret'[t] = status
    OBVIOUS
  <2>1. status \in {"Canceled", "Deleted"} /\ t \in Threads
    BY DEF IInv, TypeOK, CancelLeavesNobody
  <2>2. PICK u \in Threads : Wake(u)
    <3>1. \A u \in Threads : ~WaitCall(u)
      BY DEF WaitCall, WaitAlreadyWaiting, WaitAtOnce, PollTimedOut, WaitSleep
    <3>2. \A b \in SUBSET Bits : ~SetBits(b) /\ ~Clear(b) /\ ~CancelBegin(b)
      BY <2>1 DEF SetBits, Clear, CancelBegin
    <3>3. ~CancelEnd /\ ~DeleteBegin /\ ~DeleteEnd /\ ~Create
      BY DEF CancelEnd, DeleteBegin, DeleteEnd, Create, IInv, CancelLeavesNobody
    <3> QED BY <3>1, <3>2, <3>3 DEF Next
  <2>3. Leave(u, status)
    BY <2>1, <2>2 DEF Wake, WakeCanceled, WakeDeleted, WakeOk, WakeTimedOut
  <2>4. u = t
    BY <2>3 DEF Leave
  <2> QED BY <2>1, <2>3, <2>4 DEF Leave, IInv, TypeOK
<1>2. [][Reached]_vars => CancelReachesAll
  BY DEF CancelReachesAll
<1> QED BY <1>1, <1>2, IInvHolds, PTL DEF Spec
=============================================================================
