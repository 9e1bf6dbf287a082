------------------------------ MODULE EventFlag ------------------------------
(***************************************************************************)
(* The kernel event flag of src/src/kernel/eventFlag.cpp, class            *)
(* KernelEventFlagPrivate: a bit pattern, and threads that sleep until     *)
(* some or all of the bits they want are set.  There is no queue and no    *)
(* per-waiter record: a waiter is a thread inside CondVar::WaitFor,        *)
(* counted by m_waiting_threads, that re-tests its condition when it gets  *)
(* the mutex back.  Cancel and the destructor announce themselves in       *)
(* m_status and poll until that counter is zero.                           *)
(***************************************************************************)
EXTENDS Integers, FiniteSets

CONSTANTS
    Threads,        \* guest threads that may wait
    Bits,           \* the bits of the pattern
    InitPattern,    \* init_pattern
    WaitPatterns    \* the bit_pattern arguments of Wait and Poll

ASSUME FlagAssumption ==
    /\ InitPattern \subseteq Bits
    \* KernelWaitEventFlag and KernelPollEventFlag reject an empty pattern.
    /\ WaitPatterns \subseteq (SUBSET Bits) \ {{}}

VARIABLES
    single,     \* m_single_thread, decoded from the attribute at creation
    status,     \* m_status, and "Freed" once the destructor has returned
    bits,       \* m_bits
    waiting,    \* m_waiting_threads
    asleep,     \* the threads inside WaitFor
    want,       \* their arguments: bits, wait mode, clear mode, timeout
    ret,        \* what the last Wait of each thread returned
    doomed      \* history: asleep when the running Cancel or delete began

vars == <<single, status, bits, waiting, asleep, want, ret, doomed>>

WaitModes == {"And", "Or"}
ClearModes == {"None", "All", "Bits"}
Results == {"Ok", "AlreadyWaiting", "TimedOut", "Canceled", "Deleted"}

NoWait == [bits |-> {}, mode |-> "And", clear |-> "None", timed |-> FALSE]
Requests == [bits : WaitPatterns, mode : WaitModes, clear : ClearModes,
             timed : BOOLEAN]

Init ==
    /\ single \in BOOLEAN
    /\ status = "Set"
    /\ bits = InitPattern
    /\ waiting = 0
    /\ asleep = {}
    /\ want = [t \in Threads |-> NoWait]
    /\ ret = [t \in Threads |-> "None"]
    /\ doomed = {}

-----------------------------------------------------------------------------
\* The condition of the loop in Wait.
Satisfied(w) ==
    \/ w.mode = "And" /\ w.bits \subseteq bits
    \/ w.mode = "Or" /\ w.bits \cap bits # {}

\* What a successful Wait leaves of the pattern.
Cleared(w) ==
    CASE w.clear = "All"  -> {}
      [] w.clear = "Bits" -> bits \ w.bits
      [] w.clear = "None" -> bits

\* Thread t calls Wait while the object exists.
Calls(t) == status # "Freed" /\ t \notin asleep

\* Mutant: the test of m_single_thread lets a second thread in.
MutBusy == single /\ waiting > 1

Busy == single /\ waiting > 0

WaitAlreadyWaiting(t) ==
    /\ Calls(t) /\ Busy
    /\ ret' = [ret EXCEPT ![t] = "AlreadyWaiting"]
    /\ UNCHANGED <<single, status, bits, waiting, asleep, want, doomed>>

\* The condition holds on entry.  The status is not looked at.
WaitAtOnce(t, w) ==
    /\ Calls(t) /\ ~Busy
    /\ Satisfied(w)
    /\ bits' = Cleared(w)
    /\ ret' = [ret EXCEPT ![t] = "Ok"]
    /\ UNCHANGED <<single, status, waiting, asleep, want, doomed>>

\* Poll is Wait with a timeout of zero.
PollTimedOut(t, w) ==
    /\ Calls(t) /\ ~Busy
    /\ ~Satisfied(w)
    /\ ret' = [ret EXCEPT ![t] = "TimedOut"]
    /\ UNCHANGED <<single, status, bits, waiting, asleep, want, doomed>>

WaitSleep(t, w) ==
    /\ Calls(t) /\ ~Busy
    /\ ~Satisfied(w)
    /\ waiting' = waiting + 1
    /\ asleep' = asleep \cup {t}
    /\ want' = [want EXCEPT ![t] = w]
    /\ ret' = [ret EXCEPT ![t] = "None"]
    /\ UNCHANGED <<single, status, bits, doomed>>

\* WaitFor of thread t returned and Wait ends with r.  A thread that finds
\* nothing to return goes back to sleep, which changes nothing.
Leave(t, r) ==
    /\ t \in asleep
    /\ waiting' = waiting - 1
    /\ asleep' = asleep \ {t}
    /\ want' = [want EXCEPT ![t] = NoWait]
    /\ ret' = [ret EXCEPT ![t] = r]
    /\ doomed' = doomed \ {t}
    /\ UNCHANGED <<single, status>>

\* Mutant: the canceled path forgets m_waiting_threads--.
MutWakeCanceled(t) ==
    /\ status = "Canceled"
    /\ t \in asleep
    /\ asleep' = asleep \ {t}
    /\ want' = [want EXCEPT ![t] = NoWait]
    /\ ret' = [ret EXCEPT ![t] = "Canceled"]
    /\ doomed' = doomed \ {t}
    /\ UNCHANGED <<single, status, bits, waiting>>

WakeCanceled(t) ==
    /\ status = "Canceled"
    /\ Leave(t, "Canceled")
    /\ UNCHANGED bits

WakeDeleted(t) ==
    /\ status = "Deleted"
    /\ Leave(t, "Deleted")
    /\ UNCHANGED bits

WakeOk(t) ==
    /\ status = "Set"
    /\ Satisfied(want[t])
    /\ Leave(t, "Ok")
    /\ bits' = Cleared(want[t])

\* Mutant: the timeout is tested before the status.
MutWakeTimedOut(t) ==
    /\ ~Satisfied(want[t])
    /\ want[t].timed
    /\ Leave(t, "TimedOut")
    /\ UNCHANGED bits

WakeTimedOut(t) ==
    /\ status = "Set"
    /\ ~Satisfied(want[t])
    /\ want[t].timed
    /\ Leave(t, "TimedOut")
    /\ UNCHANGED bits

-----------------------------------------------------------------------------
(* Set, Clear and Cancel poll until the status is Set again; a call made    *)
(* after the deletion began ends the program (EXIT_NOT_IMPLEMENTED) and is  *)
(* outside the guest's contract.                                            *)

SetBits(b) ==
    /\ status = "Set"
    /\ bits' = bits \cup b
    /\ UNCHANGED <<single, status, waiting, asleep, want, ret, doomed>>

Clear(b) ==
    /\ status = "Set"
    /\ bits' = bits \cap b
    /\ UNCHANGED <<single, status, waiting, asleep, want, ret, doomed>>

CancelBegin(b) ==
    /\ status = "Set"
    /\ status' = "Canceled"
    /\ bits' = b
    /\ doomed' = asleep
    /\ UNCHANGED <<single, waiting, asleep, want, ret>>

CancelEnd ==
    /\ status = "Canceled"
    /\ waiting = 0
    /\ status' = "Set"
    /\ UNCHANGED <<single, bits, waiting, asleep, want, ret, doomed>>

DeleteBegin ==
    /\ status = "Set"
    /\ status' = "Deleted"
    /\ doomed' = asleep
    /\ UNCHANGED <<single, bits, waiting, asleep, want, ret>>

\* Mutant: the destructor returns while threads are inside WaitFor.
MutDeleteEnd ==
    /\ status = "Deleted"
    /\ status' = "Freed"
    /\ UNCHANGED <<single, bits, waiting, asleep, want, ret, doomed>>

DeleteEnd ==
    /\ status = "Deleted"
    /\ waiting = 0
    /\ status' = "Freed"
    /\ UNCHANGED <<single, bits, waiting, asleep, want, ret, doomed>>

\* KernelCreateEventFlag makes a new object, for one waiter or for many.
Create ==
    /\ status = "Freed"
    /\ status' = "Set"
    /\ bits' = InitPattern
    /\ single' \in BOOLEAN
    /\ UNCHANGED <<waiting, asleep, want, ret, doomed>>

-----------------------------------------------------------------------------
WaitCall(t) ==
    \/ WaitAlreadyWaiting(t)
    \/ \E w \in Requests :
          WaitAtOnce(t, w) \/ WaitSleep(t, w) \/ PollTimedOut(t, w)

Wake(t) == WakeCanceled(t) \/ WakeDeleted(t) \/ WakeOk(t) \/ WakeTimedOut(t)

Next ==
    \/ \E t \in Threads : WaitCall(t) \/ Wake(t)
    \/ \E b \in SUBSET Bits : SetBits(b) \/ Clear(b) \/ CancelBegin(b)
    \/ CancelEnd \/ DeleteBegin \/ DeleteEnd \/ Create

Spec == Init /\ [][Next]_vars

\* A sleeping thread wakes at the end of its slice (one second, or its own
\* timeout) whether or not it was signalled, and the polling loops of Cancel
\* and the destructor look again every 10 microseconds.  Nothing is assumed
\* of the guest's calls.
Fairness ==
    /\ \A t \in Threads :
          WF_vars(WakeOk(t)) /\ WF_vars(WakeCanceled(t)) /\ WF_vars(WakeDeleted(t))
    /\ WF_vars(CancelEnd) /\ WF_vars(DeleteEnd)

FairSpec == Spec /\ Fairness

-----------------------------------------------------------------------------
(* Properties.                                                             *)

\* Types of the fields of KernelEventFlagPrivate.  The counter is the number
\* of threads inside WaitFor on every path through Wait, so the polling
\* loops that read it see the truth, and a flag created for a single waiter
\* never has two, whatever canceled or timed-out waiter is on its way out.
TypeOK ==
    /\ single \in BOOLEAN
    /\ status \in {"Set", "Canceled", "Deleted", "Freed"}
    /\ bits \subseteq Bits
    /\ asleep \subseteq Threads
    /\ waiting = Cardinality(asleep)
    /\ want \in [Threads -> Requests \cup {NoWait}]
    /\ ret \in [Threads -> Results \cup {"None"}]
    /\ doomed \subseteq asleep
    /\ single => waiting <= 1

\* A thread that was asleep when a Cancel (or the deletion) began leaves Wait
\* with Canceled (Deleted) and nothing else: neither its own timeout nor a
\* condition that became true wins over the announcement.
CancelReachesAll ==
    [][\A t \in doomed : t \notin doomed' => ret'[t] = status]_vars

\* When Cancel returns and the status is Set again, no thread it announced
\* itself to is still inside WaitFor: a sleeper cannot miss the canceled
\* status by waking too late; and the object is freed only when no thread is
\* inside WaitFor.
CancelLeavesNobody ==
    /\ doomed # {} => status \in {"Canceled", "Deleted"}
    /\ status = "Freed" => asleep = {}

\* A thread whose condition stays true does not sleep forever, and the
\* canceled or deleted status reaches every sleeper.
SleepersLeave ==
    \A t \in Threads :
        []<>(t \notin asleep \/ (status = "Set" /\ ~Satisfied(want[t])))

\* Cancel returns, and so does the destructor, provided threads do not keep
\* coming to sleep on the flag for ever.
DrainCompletes ==
    <>[][\A t \in Threads : ~(t \notin asleep /\ t \in asleep')]_vars =>
        /\ (status = "Canceled") ~> (status = "Set")
        /\ (status = "Deleted") ~> (status = "Freed")

\* Nobody sleeps on a flag without a reason: neither a waiter, nor Cancel or
\* the destructor, which wait for the waiters.
BlockedLeave == SleepersLeave /\ DrainCompletes

=============================================================================
