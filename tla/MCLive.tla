------------------------------- MODULE MCLive -------------------------------
(***************************************************************************)
(* The liveness of the guest's objects on one finite instance, again as a  *)
(* union: those of MCGuestSync, the kernel semaphore, whose safety has a   *)
(* run of its own, and the ring of host memory.                            *)
(***************************************************************************)
EXTENDS MCGuestSync, StreamBuffer

CONSTANT SemaThreads

VARIABLES fifo, status, count, queue, need, priority, timed, outcome, ret, scan, signal, ledger

\* The arguments MCKernelSema also uses, without the invalid ones.
Sema == INSTANCE KernelSema WITH
    Threads <- SemaThreads, InitCount <- 1, MaxCount <- 2, NeedCounts <- {1, 2},
    SignalCounts <- {-1, 1}, CancelCounts <- {-1, 0}, Priorities <- {1},
    CountFloor <- -1

\* Sizes and alignments of reservations that are not multiples of the atom,
\* and one that is larger than the ring.
AtomRequests == {<<1, 1>>, <<1, 3>>, <<3, 0>>, <<2, 4>>, <<9, 1>>}

semaVars == <<fifo, status, count, queue, need, priority, timed, outcome, ret, scan, signal, ledger>>

LiveInit ==
    /\ MCInit /\ Sema!Init /\ Init
    /\ program # "sema" => fifo = FALSE

LiveNext ==
    \/ MCNext /\ UNCHANGED <<semaVars, vars>>
    \/ program = "sema" /\ Sema!Next /\ UNCHANGED <<syncVars, vars>>
    \/ program = "ring" /\ Next /\ UNCHANGED <<syncVars, semaVars>>

\* The fairness of each component, in the program that uses it.
LiveFairness ==
    /\ MCFairness
    /\ \A t \in SemaThreads : WF_semaVars(program = "sema" /\ Sema!WaitReady(t))
    /\ WF_semaVars(program = "sema" /\ Sema!WakeGrant)
    /\ WF_semaVars(program = "sema" /\ Sema!WakeSkip)
    /\ WF_semaVars(program = "sema" /\ Sema!SignalEnd)
    /\ WF_semaVars(program = "sema" /\ Sema!DeleteEnd)
    /\ WF_vars(program = "ring" /\ GpuComplete)
    /\ WF_vars(program = "ring" /\ RunPriority)
    /\ WF_vars(program = "ring" /\ (WaitRefuse \/ WaitSubmit \/ WaitNext \/ MapEnd))

LiveSpec == LiveInit /\ [][LiveNext]_<<syncVars, semaVars, vars>> /\ LiveFairness

-----------------------------------------------------------------------------
\* No wake-up is lost where one waiter is notified of what all may take: the
\* mutex, the read-write lock, the POSIX semaphore, and the address, whose
\* waiters heal by their timeouts.
WakeupsNotLost == FreeMutexTaken /\ FreeLockTaken /\ PostsNotLost /\ MissedWakeHeals

\* Calls that wait for others to finish return: pthread_once, the reaper's
\* joins, the destructor of a kernel semaphore, and Map.
CallsEnd == OnceReturns /\ ThreadsReaped /\ Sema!DeleteCompletes /\ MapReturns

=============================================================================
