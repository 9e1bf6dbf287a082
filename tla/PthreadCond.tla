----------------------------- MODULE PthreadCond -----------------------------
(***************************************************************************)
(* A guest mutex and a guest condition variable of                         *)
(* src/src/kernel/pthread.cpp.  The mutex is an owner and a recursion      *)
(* count under a host mutex; the condition variable is a list of waiters   *)
(* and two counters under another: a broadcast moves the counter of the    *)
(* condition variable, a signal the counter of the one thread it chose,    *)
(* and a waiter compares both with what they were when it joined.          *)
(*                                                                         *)
(* A critical section is one step.  Waits poll every 10 ms, so a thread    *)
(* may look again at any moment and a host notification only hurries it;   *)
(* the guest signal handlers a poll may run are not modelled.              *)
(***************************************************************************)
EXTENDS Integers, Sequences, SequencesExt, FiniteSets

CONSTANTS
    CondThreads,    \* guest threads
    NoThread,       \* the null owner
    MaxRecursion,   \* bound: how often a recursive mutex is locked
    MaxBroadcasts   \* bound: the values of the counter of the condition variable

ASSUME CondAssumption ==
    /\ NoThread \notin CondThreads
    /\ MaxRecursion \in Nat \ {0}
    /\ MaxBroadcasts \in Nat

VARIABLES
    recursive,  \* PthreadMutexPrivate.type = 2
    owner,      \* PthreadMutexPrivate.owner
    depth,      \* PthreadMutexPrivate.count
    waiters,    \* PthreadCondPrivate.waiters
    sequence,   \* PthreadCondPrivate.sequence
    threadSeq,  \* PthreadPrivate.cond_sequence, its parity: see ListedIffWaiting
    condCall,   \* what each thread is doing in a lock or wait call
    held,       \* history: the locks each thread holds by what its calls returned
    owed        \* history: the waiters signalled and not back yet

condVars == <<recursive, owner, depth, waiters, sequence, threadSeq, condCall,
              held, owed>>

Running == [at |-> "Run"]

CondInit ==
    /\ recursive \in BOOLEAN
    /\ owner = NoThread /\ depth = 0
    /\ waiters = <<>> /\ sequence = 0
    /\ threadSeq = [t \in CondThreads |-> 0]
    /\ condCall = [t \in CondThreads |-> Running]
    /\ held = [t \in CondThreads |-> 0]
    /\ owed = {}

At(t, where) == condCall[t].at = where

CondGoto(t, c) == condCall' = [condCall EXCEPT ![t] = c]

-----------------------------------------------------------------------------
(***************************************************************************)
(* The mutex.  Lock, Timedlock and Trylock of a mutex somebody else owns   *)
(* wait, wait until a deadline, or fail, which changes nothing.            *)
(***************************************************************************)
Acquire(t) ==
    /\ owner = NoThread
    /\ owner' = t /\ depth' = 1
    /\ UNCHANGED <<recursive, waiters, sequence, threadSeq, owed>>

LockFree(t) ==
    /\ At(t, "Run")
    /\ Acquire(t)
    /\ held' = [held EXCEPT ![t] = 1]
    /\ UNCHANGED condCall

LockAgain(t) ==
    /\ At(t, "Run") /\ owner = t
    /\ recursive /\ depth < MaxRecursion
    /\ depth' = depth + 1
    /\ held' = [held EXCEPT ![t] = @ + 1]
    /\ UNCHANGED <<recursive, owner, waiters, sequence, threadSeq, condCall, owed>>

LockBlock(t, timed) ==
    /\ At(t, "Run") /\ owner \notin {t, NoThread}
    /\ CondGoto(t, [at |-> "Lock", timed |-> timed])
    /\ UNCHANGED <<recursive, owner, depth, waiters, sequence, threadSeq, held, owed>>

LockAcquire(t) ==
    /\ At(t, "Lock")
    /\ Acquire(t)
    /\ held' = [held EXCEPT ![t] = 1]
    /\ CondGoto(t, Running)

LockTimedOut(t) ==
    /\ At(t, "Lock") /\ condCall[t].timed /\ owner # NoThread
    /\ CondGoto(t, Running)
    /\ UNCHANGED <<recursive, owner, depth, waiters, sequence, threadSeq, held, owed>>

\* NativeMutexUnlock; a caller that is not the owner gets EPERM.
Unlock(t) ==
    /\ At(t, "Run") /\ owner = t
    /\ held' = [held EXCEPT ![t] = @ - 1]
    /\ IF recursive /\ depth > 1
       THEN depth' = depth - 1 /\ UNCHANGED owner
       ELSE depth' = 0 /\ owner' = NoThread
    /\ UNCHANGED <<recursive, waiters, sequence, threadSeq, condCall, owed>>

-----------------------------------------------------------------------------
(***************************************************************************)
(* The condition variable.  Wait, under the lock of the condition          *)
(* variable, notes both counters, joins the list and gives up the mutex    *)
(* with all its recursion.                                                 *)
(***************************************************************************)
Release ==
    /\ owner' = NoThread /\ depth' = 0

Wait(t, timed) ==
    /\ At(t, "Run") /\ owner = t
    /\ CondGoto(t, [at |-> "Wait", timed |-> timed, recurse |-> depth,
                    seq |-> sequence, tseq |-> threadSeq[t]])
    /\ waiters' = Append(waiters, t)
    /\ Release
    /\ UNCHANGED <<recursive, sequence, threadSeq, held, owed>>

\* A timeout of zero has passed before the lock of the condition variable
\* is released: the thread leaves the list in the step it joined it.
WaitZero(t) ==
    /\ At(t, "Run") /\ owner = t
    /\ CondGoto(t, [at |-> "Relock", recurse |-> depth, result |-> "TimedOut"])
    /\ Release
    /\ UNCHANGED <<recursive, waiters, sequence, threadSeq, held, owed>>

CondReady(t) ==
    sequence # condCall[t].seq \/ threadSeq[t] # condCall[t].tseq

\* std::find and erase.
Unlist(t) ==
    \E i \in 1..Len(waiters) : waiters[i] = t /\ waiters' = RemoveAt(waiters, i)

CondRemoveWaiter(t) ==
    \/ Unlist(t)
    \/ ~Contains(waiters, t) /\ UNCHANGED waiters

\* The wait is over, and on to taking the mutex back.
WaitEnds(t, r) ==
    /\ CondRemoveWaiter(t)
    /\ CondGoto(t, [at |-> "Relock", recurse |-> condCall[t].recurse, result |-> r])
    /\ UNCHANGED <<recursive, owner, depth, sequence, threadSeq, held, owed>>

WaitWoken(t) ==
    /\ At(t, "Wait") /\ CondReady(t)
    /\ WaitEnds(t, "Ok")

\* Mutant: once the deadline has passed the counters are not looked at.
MutWaitTimedOut(t) ==
    /\ At(t, "Wait") /\ condCall[t].timed
    /\ WaitEnds(t, "TimedOut")

\* The deadline has passed and the counters have not moved.
WaitTimedOut(t) ==
    /\ At(t, "Wait") /\ condCall[t].timed /\ ~CondReady(t)
    /\ WaitEnds(t, "TimedOut")

\* NativeMutexLockRecurse: take the mutex, then, in a critical section of
\* its own, put the recursion back.
Relock(t) ==
    /\ At(t, "Relock")
    /\ Acquire(t)
    /\ CondGoto(t, [condCall[t] EXCEPT !.at = "SetCount"])
    /\ UNCHANGED held

SetCount(t) ==
    /\ At(t, "SetCount")
    /\ depth' = condCall[t].recurse
    /\ CondGoto(t, Running)
    /\ owed' = owed \ {t}
    /\ UNCHANGED <<recursive, owner, waiters, sequence, threadSeq, held>>

\* CondWakeWaiter of thread u, for PthreadCondSignal the first in the list.
WakeWaiter(u) ==
    /\ Unlist(u)
    /\ threadSeq' = [threadSeq EXCEPT ![u] = (@ + 1) % 2]
    /\ owed' = owed \cup {u}
    /\ UNCHANGED <<recursive, owner, depth, sequence, condCall, held>>

Signal == waiters # <<>> /\ WakeWaiter(Head(waiters))

SignalTo(u) == WakeWaiter(u)

\* Mutant: the list is left as it is.
MutBroadcast ==
    /\ waiters # <<>> /\ sequence < MaxBroadcasts
    /\ sequence' = sequence + 1
    /\ owed' = owed \cup ToSet(waiters)
    /\ UNCHANGED <<recursive, owner, depth, waiters, threadSeq, condCall, held>>

Broadcast ==
    /\ waiters # <<>> /\ sequence < MaxBroadcasts
    /\ sequence' = sequence + 1
    /\ waiters' = <<>>
    /\ owed' = owed \cup ToSet(waiters)
    /\ UNCHANGED <<recursive, owner, depth, threadSeq, condCall, held>>

-----------------------------------------------------------------------------
CondNext ==
    \/ \E t \in CondThreads :
          \/ LockFree(t) \/ LockAgain(t) \/ LockAcquire(t) \/ LockTimedOut(t)
          \/ Unlock(t)
          \/ \E timed \in BOOLEAN : LockBlock(t, timed) \/ Wait(t, timed)
          \/ WaitZero(t) \/ WaitWoken(t) \/ WaitTimedOut(t)
          \/ Relock(t) \/ SetCount(t)
          \/ SignalTo(t)
    \/ Signal \/ Broadcast

CondSpec == CondInit /\ [][CondNext]_condVars

\* A thread in a lock or wait call looks again every 10 ms.
CondFairness ==
    \A t \in CondThreads :
        /\ WF_condVars(LockAcquire(t)) /\ WF_condVars(Relock(t))
        /\ WF_condVars(SetCount(t)) /\ WF_condVars(WaitWoken(t))

-----------------------------------------------------------------------------
CallStates ==
    {Running} \cup [at : {"Lock"}, timed : BOOLEAN]
    \cup [at : {"Wait"}, timed : BOOLEAN, recurse : 1..MaxRecursion,
          seq : 0..MaxBroadcasts, tseq : {0, 1}]
    \cup [at : {"Relock", "SetCount"}, recurse : 1..MaxRecursion,
          result : {"Ok", "TimedOut"}]

CondTypeOK ==
    /\ recursive \in BOOLEAN
    /\ owner \in CondThreads \cup {NoThread}
    /\ depth \in 0..MaxRecursion
    /\ waiters \in Seq(CondThreads)
    /\ sequence \in 0..MaxBroadcasts
    /\ threadSeq \in [CondThreads -> {0, 1}]
    /\ condCall \in [CondThreads -> CallStates]
    /\ held \in [CondThreads -> 0..MaxRecursion]
    /\ owed \subseteq CondThreads

\* A thread that runs has the mutex exactly when its calls told it so, and
\* as often: waiting on a condition variable gives up a recursive mutex
\* altogether and gives it back at the depth it had, so that the guest's
\* unlocks still pair up (NativeMutexUnlock, NativeMutexLockRecurse).
LocksAgree ==
    \A t \in CondThreads :
        /\ At(t, "Run") => (held[t] > 0 <=> owner = t)
        /\ At(t, "Run") /\ held[t] > 0 => depth = held[t]
        /\ condCall[t].at \in {"Lock", "Wait", "Relock"} => owner # t

\* Somebody who waits is on the list exactly as long as neither counter has
\* moved for it: no signal goes to a waiter that has been served already,
\* and no waiter is off the list with nothing to wake it (CondAddWaiter,
\* CondWakeWaiter, CondClearWaiters).  In particular a thread's own counter
\* moves at most once during a wait, so that its parity shows every move.
ListedIffWaiting ==
    \A t \in CondThreads :
        /\ At(t, "Wait") => (Contains(waiters, t) <=> ~CondReady(t))
        /\ ~At(t, "Wait") => ~Contains(waiters, t)

\* A wait returns OK exactly when a signal or a broadcast chose this thread
\* while it waited: a signal is never swallowed by a waiter that reports a
\* timeout, and a thread that came later is not woken in its place
\* (PthreadCondSignal, PthreadCondTimedwait).
SignalsAnswered ==
    [][\A t \in CondThreads : (At(t, "SetCount") /\ condCall'[t].at = "Run") =>
          (condCall[t].result = "Ok" <=> t \in owed)]_condVars

\* A free mutex does not stay free while somebody waits for it, though the
\* unlock notifies one waiter only and the notification may go to a thread
\* that has given up (NativeMutexLock).
FreeMutexTaken ==
    []<>(owner # NoThread \/ \A t \in CondThreads : ~At(t, "Lock") /\ ~At(t, "Relock"))

\* Mutex, condition variable and threads agree on who holds what and who
\* waits for what.
CondAgrees == LocksAgree /\ ListedIffWaiting

=============================================================================
