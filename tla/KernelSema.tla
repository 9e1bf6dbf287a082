----------------------------- MODULE KernelSema -----------------------------
(***************************************************************************)
(* The kernel counting semaphore of src/src/kernel/semaphore.cpp, class    *)
(* KernelSemaPrivate: a counter, and a queue of waiting threads each of    *)
(* which needs some number of units.  Every method runs under m_mutex, so  *)
(* a method that returns without releasing the mutex is one action.  Two   *)
(* methods release it on the way: Wait, which sleeps in slices on the      *)
(* condition variable, and the destructor, which polls until the queue is  *)
(* empty.  The loop of WakeWaiters is modelled iteration by iteration with *)
(* the mutex held (scan > 0): nobody else moves meanwhile.                 *)
(***************************************************************************)
EXTENDS Integers, Sequences, FiniteSets, SequencesExt

CONSTANTS
    Threads,        \* guest threads that may call sceKernelWaitSema
    InitCount,      \* m_init_count
    MaxCount,       \* m_max_count
    NeedCounts,     \* the need_count arguments callers pass to Wait and Poll
    SignalCounts,   \* the signal_count arguments callers pass to Signal
    CancelCounts,   \* the set_count arguments callers pass to Cancel
    Priorities,     \* guest thread priorities, read in priority order only
    CountFloor      \* bound: Signal with a negative count stops here

\* KernelCreateSema rejects init < 0, max <= 0 and init > max.
ASSUME CreateAssumption ==
    /\ MaxCount \in Int /\ MaxCount > 0
    /\ InitCount \in 0..MaxCount

ASSUME ArgumentAssumption ==
    /\ NeedCounts \subseteq Int
    /\ SignalCounts \subseteq Int
    /\ CancelCounts \subseteq Int
    /\ Priorities \subseteq Int
    /\ CountFloor \in Int

VARIABLES
    fifo,       \* m_fifo_order, decoded from the attribute at creation
    status,     \* m_status, and "Freed" once the destructor has returned
    count,      \* m_count
    queue,      \* m_waiting_threads, each waiter named by its thread
    need,       \* WaitingThread.need_count
    priority,   \* WaitingThread.priority
    timed,      \* the Wait call has a timeout pointer
    outcome,    \* WaitingThread.result, "Pending" while !ready
    ret,        \* the thread and the result of the last call, if it was a Wait or Poll
    scan,       \* 0, or the queue index WakeWaiters examines next
    signal,     \* history: the Signal that scans, and whom it has served so far
    ledger      \* history: units put in, minus units taken by returned calls

vars == <<fifo, status, count, queue, need, priority, timed, outcome, ret, scan, signal, ledger>>

waiterVars == <<need, priority, timed>>

\* No Signal is running.
NoSignal == [units |-> 0, n |-> 0, served |-> {}]

Results == {"Ok", "TimedOut", "Canceled", "Deleted", "InvalCount"}

Init ==
    /\ fifo \in BOOLEAN
    /\ status = "Set"
    /\ count = InitCount
    /\ queue = <<>>
    /\ need = [t \in Threads |-> 0]
    /\ priority = [t \in Threads |-> 0]
    /\ timed = [t \in Threads |-> FALSE]
    /\ outcome = [t \in Threads |-> "Pending"]
    /\ ret = <<>>
    /\ scan = 0 /\ signal = NoSignal
    /\ ledger = InitCount

-----------------------------------------------------------------------------
Waiting(t) == \E i \in 1..Len(queue) : queue[i] = t

Ready(t) == outcome[t] # "Pending"

\* The object exists, and its mutex is free.
Enter == status # "Freed" /\ scan = 0

\* Thread t calls a method that returns r without queueing.
Return(t, r) ==
    /\ ret' = <<t, r>>
    /\ UNCHANGED <<fifo, status, queue, waiterVars, outcome, scan, signal>>

\* The position AddWaiter inserts at: behind every waiter whose priority
\* value is not larger, or at the end in FIFO order.
AddPosition(p, k) ==
    IF fifo THEN k = Len(queue) + 1
    ELSE /\ \A i \in 1..(k - 1) : priority[queue[i]] <= p
         /\ k <= Len(queue) => priority[queue[k]] > p

-----------------------------------------------------------------------------
(* Wait and Poll (Poll is Wait with a timeout of zero).                    *)

WaitInvalCount(t, n) ==
    /\ Enter /\ ~Waiting(t)
    /\ n < 1 \/ n > MaxCount
    /\ Return(t, "InvalCount")
    /\ UNCHANGED <<count, ledger>>

WaitDeleted(t, n) ==
    /\ Enter /\ ~Waiting(t)
    /\ n >= 1 /\ n <= MaxCount
    /\ status = "Deleted"
    /\ Return(t, "Deleted")
    /\ UNCHANGED <<count, ledger>>

\* The units are there: take them without looking at the queue.
WaitFast(t, n) ==
    /\ Enter /\ ~Waiting(t)
    /\ n >= 1 /\ n <= MaxCount
    /\ status = "Set"
    /\ count >= n
    /\ count' = count - n
    /\ ledger' = ledger - n
    /\ Return(t, "Ok")

PollTimedOut(t, n) ==
    /\ Enter /\ ~Waiting(t)
    /\ n >= 1 /\ n <= MaxCount
    /\ status = "Set"
    /\ count < n
    /\ Return(t, "TimedOut")
    /\ UNCHANGED <<count, ledger>>

WaitBlock(t, n, p, tm) ==
    /\ Enter /\ ~Waiting(t)
    /\ n >= 1 /\ n <= MaxCount
    /\ status = "Set"
    /\ count < n
    /\ need' = [need EXCEPT ![t] = n]
    /\ priority' = [priority EXCEPT ![t] = IF fifo THEN 0 ELSE p]
    /\ timed' = [timed EXCEPT ![t] = tm]
    /\ outcome' = [outcome EXCEPT ![t] = "Pending"]
    /\ \E k \in 1..(Len(queue) + 1) :
          AddPosition(p, k) /\ queue' = InsertAt(queue, k, t)
    /\ ret' = <<>>
    /\ UNCHANGED <<fifo, status, count, scan, signal, ledger>>

\* Wait returns r: RemoveWaiter, and the WaitingThread record, a local of
\* Wait, is gone.
Leave(t, i, r) ==
    /\ queue[i] = t
    /\ queue' = RemoveAt(queue, i)
    /\ need' = [need EXCEPT ![t] = 0]
    /\ priority' = [priority EXCEPT ![t] = 0]
    /\ timed' = [timed EXCEPT ![t] = FALSE]
    /\ outcome' = [outcome EXCEPT ![t] = "Pending"]
    /\ ret' = <<t, r>>
    /\ UNCHANGED <<fifo, status, count, scan, signal>>

\* The wait loop finds ready set: the result is returned, even when the
\* timeout has passed as well.
WaitReady(t) ==
    /\ Enter
    /\ Ready(t)
    /\ \E i \in 1..Len(queue) : Leave(t, i, outcome[t])
    /\ ledger' = ledger - (IF outcome[t] = "Ok" THEN need[t] ELSE 0)

\* Mutant: the timeout is tested before the ready flag.
MutWaitTimedOut(t) ==
    /\ Enter
    /\ timed[t]
    /\ \E i \in 1..Len(queue) : Leave(t, i, "TimedOut")
    /\ UNCHANGED ledger

\* The wait loop finds ready unset and the timeout passed.
WaitTimedOut(t) ==
    /\ Enter
    /\ ~Ready(t) /\ timed[t]
    /\ \E i \in 1..Len(queue) : Leave(t, i, "TimedOut")
    /\ UNCHANGED ledger

-----------------------------------------------------------------------------
(* Signal: add the units, run WakeWaiters over the queue, wake sleepers.   *)

\* Mutant: the limit is tested before the units are added.
MutSignalBegin(n) ==
    /\ Enter
    /\ status = "Set"
    /\ count < MaxCount
    /\ count' = count + n
    /\ ledger' = ledger + n
    /\ scan' = 1
    /\ signal' = [units |-> count, n |-> n, served |-> {}]
    /\ UNCHANGED <<fifo, status, queue, waiterVars, outcome, ret>>

SignalBegin(n) ==
    /\ Enter
    /\ status = "Set"
    /\ count + n <= MaxCount
    /\ count + n >= CountFloor
    /\ count' = count + n
    /\ ledger' = ledger + n
    /\ scan' = 1
    /\ signal' = [units |-> count, n |-> n, served |-> {}]
    /\ UNCHANGED <<fifo, status, queue, waiterVars, outcome, ret>>

WakeGrant ==
    /\ scan \in 1..Len(queue)
    /\ ~Ready(queue[scan]) /\ need[queue[scan]] <= count
    /\ count' = count - need[queue[scan]]
    /\ outcome' = [outcome EXCEPT ![queue[scan]] = "Ok"]
    /\ scan' = scan + 1
    /\ signal' = [signal EXCEPT !.served = @ \cup {queue[scan]}]
    /\ UNCHANGED <<fifo, status, queue, waiterVars, ret, ledger>>

\* Mutant: WakeWaiters stops at the first waiter it cannot serve.
MutWakeSkip ==
    /\ scan \in 1..Len(queue)
    /\ Ready(queue[scan]) \/ need[queue[scan]] > count
    /\ scan' = Len(queue) + 1
    /\ UNCHANGED <<fifo, status, count, queue, waiterVars, outcome, ret, signal, ledger>>

WakeSkip ==
    /\ scan \in 1..Len(queue)
    /\ Ready(queue[scan]) \/ need[queue[scan]] > count
    /\ scan' = scan + 1
    /\ UNCHANGED <<fifo, status, count, queue, waiterVars, outcome, ret, signal, ledger>>

SignalEnd ==
    /\ scan = Len(queue) + 1
    /\ scan' = 0 /\ signal' = NoSignal
    /\ ret' = <<>>
    /\ UNCHANGED <<fifo, status, count, queue, waiterVars, outcome, ledger>>

-----------------------------------------------------------------------------
(* Cancel and the destructor end every pending wait with result r.         *)

EndAllPending(r) ==
    outcome' = [t \in Threads |->
                   IF Waiting(t) /\ ~Ready(t) THEN r ELSE outcome[t]]

\* Mutant: the counter is reset but the waiters are left pending.
MutCancel(c) ==
    /\ Enter
    /\ c <= MaxCount
    /\ status = "Set"
    /\ count' = IF c < 0 THEN InitCount ELSE c
    /\ ledger' = ledger + (count' - count)
    /\ ret' = <<>>
    /\ UNCHANGED <<fifo, status, queue, waiterVars, outcome, scan, signal>>

Cancel(c) ==
    /\ Enter
    /\ c <= MaxCount
    /\ status = "Set"
    /\ count' = IF c < 0 THEN InitCount ELSE c
    /\ ledger' = ledger + (count' - count)
    /\ EndAllPending("Canceled")
    /\ ret' = <<>>
    /\ UNCHANGED <<fifo, status, queue, waiterVars, scan, signal>>

\* KernelDeleteSema is called once per object: a second delete of the same
\* handle is outside the guest's contract.
DeleteBegin ==
    /\ Enter
    /\ status = "Set"
    /\ status' = "Deleted"
    /\ EndAllPending("Deleted")
    /\ ret' = <<>>
    /\ UNCHANGED <<fifo, count, queue, waiterVars, scan, signal, ledger>>

\* Mutant: the destructor returns without draining the queue.
MutDeleteEnd ==
    /\ Enter
    /\ status = "Deleted"
    /\ status' = "Freed"
    /\ ret' = <<>>
    /\ UNCHANGED <<fifo, count, queue, waiterVars, outcome, scan, signal, ledger>>

DeleteEnd ==
    /\ Enter
    /\ status = "Deleted"
    /\ Len(queue) = 0
    /\ status' = "Freed"
    /\ ret' = <<>>
    /\ UNCHANGED <<fifo, count, queue, waiterVars, outcome, scan, signal, ledger>>

\* KernelCreateSema makes a new object with the same arguments.
Create ==
    /\ status = "Freed"
    /\ status' = "Set"
    /\ count' = InitCount
    /\ ledger' = InitCount
    /\ ret' = <<>>
    /\ UNCHANGED <<fifo, queue, waiterVars, outcome, scan, signal>>

-----------------------------------------------------------------------------
WaitCall(t) ==
    \E n \in NeedCounts :
        \/ WaitInvalCount(t, n)
        \/ WaitDeleted(t, n)
        \/ WaitFast(t, n)
        \/ PollTimedOut(t, n)
        \/ \E p \in Priorities, tm \in BOOLEAN : WaitBlock(t, n, p, tm)

Next ==
    \/ \E t \in Threads : WaitCall(t) \/ WaitReady(t) \/ WaitTimedOut(t)
    \/ \E n \in SignalCounts : SignalBegin(n)
    \/ WakeGrant \/ WakeSkip \/ SignalEnd
    \/ \E c \in CancelCounts : Cancel(c)
    \/ DeleteBegin \/ DeleteEnd \/ Create

Spec == Init /\ [][Next]_vars

\* A thread inside Wait never sleeps longer than one slice (10 ms, or its
\* own timeout), a method holding the mutex runs to its end, and the
\* destructor polls every 10 microseconds: these steps are taken if they
\* stay possible.  Nothing is assumed of the guest's calls.
Fairness ==
    /\ \A t \in Threads : WF_vars(WaitReady(t))
    /\ WF_vars(WakeGrant) /\ WF_vars(WakeSkip) /\ WF_vars(SignalEnd)
    /\ WF_vars(DeleteEnd)

FairSpec == Spec /\ Fairness

-----------------------------------------------------------------------------
(* Properties.                                                             *)

\* Every variable has the type its C++ counterpart has, and the counter never
\* passes m_max_count.
TypeOK ==
    /\ fifo \in BOOLEAN
    /\ status \in {"Set", "Deleted", "Freed"}
    /\ count \in Int /\ count <= MaxCount
    /\ queue \in Seq(Threads)
    /\ need \in [Threads -> Int]
    /\ priority \in [Threads -> Int]
    /\ timed \in [Threads -> BOOLEAN]
    /\ outcome \in [Threads -> {"Pending", "Ok", "Canceled", "Deleted"}]
    /\ ret \in (Threads \X Results) \cup {<<>>}
    /\ scan \in 0..(Len(queue) + 1)
    /\ ledger \in Int

\* Whenever the mutex is free, no waiter sleeps on units that are there:
\* Signal, Cancel, timeouts and barging Wait calls never leave a waiter
\* whose need the counter covers.
NoLostWakeup ==
    scan = 0 => \A i \in 1..Len(queue) :
                    ~Ready(queue[i]) => need[queue[i]] > count

\* Units are neither lost nor made: what was put in and not yet taken by a
\* returned Wait is in the counter or set aside for a granted waiter, also
\* when the grant races the waiter's timeout, a Cancel or the deletion.
Granted == {t \in Threads : Waiting(t) /\ outcome[t] = "Ok"}

\* Each unit set aside, with the thread it is for.
GrantedUnits == UNION {{t} \X (1..need[t]) : t \in Granted}

UnitsConserved == ledger = count + Cardinality(GrantedUnits)

\* In FIFO order a waiter is never passed by a later one that asks for at
\* least as much.
FifoFair ==
    fifo => \A i, j \in 1..Len(queue) :
        (/\ i < j
         /\ need[queue[i]] <= need[queue[j]]
         /\ outcome[queue[j]] = "Ok") => Ready(queue[i])

\* Whoever receives units, queued or barging in through the fast path,
\* never takes them while a waiter at an earlier position, or any waiter
\* for the fast path, could have been served with no more units.
NoOvertaking ==
    [][ \A t \in Threads :
          /\ (outcome[t] = "Pending" /\ outcome'[t] = "Ok") =>
               \A i \in 1..(scan - 1) :
                  ~Ready(queue[i]) => need[queue[i]] > need[t]
          /\ \A n \in NeedCounts : WaitFast(t, n) =>
               \A i \in 1..Len(queue) :
                  ~Ready(queue[i]) => need[queue[i]] > n ]_vars

\* The destructor frees the object only after every thread left Wait, and
\* while it drains no waiter is left pending.
DeleteSafe ==
    /\ status = "Freed" => Len(queue) = 0
    /\ status = "Deleted" => \A i \in 1..Len(queue) : Ready(queue[i])

\* The destructor's polling loop ends: every queued thread leaves Wait, and
\* no caller can queue behind its back.
DeleteCompletes == (status = "Deleted") ~> (status = "Freed")

-----------------------------------------------------------------------------
(* The refinement of AtomicSema.  A Signal takes effect when it ends: what  *)
(* it has done so far is not counted yet, which is what the mutex makes     *)
(* true for everyone else.                                                  *)

Atomic == INSTANCE AtomicSema WITH
    life    <- status,
    units   <- IF scan = 0 THEN count ELSE signal.units,
    demand  <- need,
    verdict <- [t \in Threads |-> IF t \in signal.served THEN "Pending" ELSE outcome[t]],
    answer  <- ret

\* The semaphore with its queue, its priorities and its scan in several steps
\* is indistinguishable, by its counter and by what its calls return, from
\* one that serves each signal in a single step and leaves nobody behind who
\* could be served (KernelSemaPrivate as a whole).
ImplementsAtomic == Atomic!Spec

=============================================================================
