------------------------------ MODULE PosixSem ------------------------------
(***************************************************************************)
(* A POSIX semaphore of src/src/kernel/semaphore.cpp, class                *)
(* PosixSemPrivate: a count and a number of waiters under m_mutex, and a   *)
(* copy of both in guest memory that SyncGuest refreshes.  Wait loops: it  *)
(* counts itself as a waiter, sleeps, lets pending signals run without the *)
(* mutex, and looks at the count again.  A sleep without a timeout is a    *)
(* poll of 10 ms; one with a timeout lasts until a post or the timeout.    *)
(* Every critical section is one step.  The guest destroys a semaphore, or *)
(* makes a new one at its address, only while no call on it is in          *)
(* progress, as POSIX asks of it.                                          *)
(***************************************************************************)
EXTENDS Integers, FiniteSets

CONSTANTS
    SemThreads,     \* guest threads
    SemInit0,       \* the value given to sem_init
    SemValueMax     \* POSIX_SEM_VALUE_MAX

ASSUME SemAssumption ==
    /\ SemValueMax \in Nat \ {0}
    /\ SemInit0 \in 0..SemValueMax

VARIABLES
    semLive,        \* the address is in g_posix_sems
    semCount,       \* m_count
    semWaiters,     \* m_waiters
    guestCount,     \* PosixSemGuest.count
    guestWaiters,   \* PosixSemGuest.has_waiters
    semCall         \* "Run", or what the thread does inside Wait

semVars == <<semLive, semCount, semWaiters, guestCount, guestWaiters, semCall>>

\* A sleeper has been signalled ("Called") or not ("Poll" if it looks again
\* every 10 ms, "Timed" if it sleeps until its timeout).
Sleeping == {"Poll", "Timed", "Called"}

PosixInit ==
    /\ semLive = TRUE
    /\ semCount = SemInit0 /\ semWaiters = 0
    /\ guestCount = SemInit0 /\ guestWaiters = FALSE
    /\ semCall = [t \in SemThreads |-> "Run"]

\* SyncGuest at the end of a critical section.
SyncGuest ==
    /\ guestCount' = semCount'
    /\ guestWaiters' = (semWaiters' > 0)

-----------------------------------------------------------------------------
Unused == \A t \in SemThreads : semCall[t] = "Run"

\* sem_init: a new object, which takes the place of one that is still there.
SemInit(v) ==
    /\ Unused
    /\ semLive' = TRUE
    /\ semCount' = v /\ semWaiters' = 0
    /\ UNCHANGED semCall
    /\ SyncGuest

\* sem_destroy: the object goes and the copy is cleared.
SemDestroy ==
    /\ semLive /\ Unused
    /\ semLive' = FALSE
    /\ semCount' = 0 /\ semWaiters' = 0
    /\ UNCHANGED semCall
    /\ SyncGuest

\* sem_wait, sem_timedwait and sem_trywait that find a unit.
Take(t) ==
    /\ semLive /\ semCall[t] = "Run"
    /\ semCount > 0
    /\ semCount' = semCount - 1
    /\ UNCHANGED <<semLive, semWaiters, semCall>>
    /\ SyncGuest

\* The loop counts the thread as a waiter; a timeout of zero and sem_trywait
\* return instead, with the copy refreshed.
FallAsleep(t, how) ==
    /\ semLive /\ semCall[t] = "Run"
    /\ semCount <= 0
    /\ semWaiters' = semWaiters + 1
    /\ semCall' = [semCall EXCEPT ![t] = how]
    /\ UNCHANGED <<semLive, semCount>>
    /\ SyncGuest

\* The sleep is over and there is a unit: it is taken, even if the timeout
\* has passed as well.
WakeTake(t) ==
    /\ semCall[t] \in Sleeping
    /\ semCount > 0
    /\ semWaiters' = semWaiters - 1
    /\ semCount' = semCount - 1
    /\ semCall' = [semCall EXCEPT ![t] = "Run"]
    /\ UNCHANGED semLive
    /\ SyncGuest

WakeTimedOut(t) ==
    /\ semCall[t] \in {"Timed", "Called"}
    /\ semCount <= 0
    /\ semWaiters' = semWaiters - 1
    /\ semCall' = [semCall EXCEPT ![t] = "Run"]
    /\ UNCHANGED <<semLive, semCount>>
    /\ SyncGuest

\* A signalled thread finds that somebody was quicker and sleeps again.
WakeAgain(t, how) ==
    /\ semCall[t] = "Called"
    /\ semCount <= 0
    /\ semCall' = [semCall EXCEPT ![t] = how]
    /\ UNCHANGED <<semLive, semCount, semWaiters>>
    /\ SyncGuest

PostSignal == TRUE

\* sem_post adds a unit and signals one sleeper; EOVERFLOW at the maximum.
Post ==
    /\ semLive /\ semCount < SemValueMax
    /\ semCount' = semCount + 1
    /\ LET asleep == {t \in SemThreads : semCall[t] \in {"Poll", "Timed"}}
       IN  IF asleep = {} \/ ~PostSignal THEN UNCHANGED semCall
           ELSE \E t \in asleep : semCall' = [semCall EXCEPT ![t] = "Called"]
    /\ UNCHANGED <<semLive, semWaiters>>
    /\ SyncGuest

PosixNext ==
    \/ \E t \in SemThreads :
          \/ Take(t) \/ WakeTake(t) \/ WakeTimedOut(t)
          \/ \E how \in {"Poll", "Timed"} : FallAsleep(t, how) \/ WakeAgain(t, how)
    \/ Post
    \/ SemDestroy \/ \E v \in 0..SemValueMax : SemInit(v)

PosixSpec == PosixInit /\ [][PosixNext]_semVars

\* A thread that polls or was signalled looks at the count; one that sleeps
\* until its timeout is not assumed to look any earlier.
PosixFairness ==
    \A t \in SemThreads :
        WF_semVars(semCall[t] \in {"Poll", "Called"} /\ WakeTake(t))

-----------------------------------------------------------------------------
\* Types, and m_waiters is the number of threads inside the loop.
PosixTypeOK ==
    /\ semLive \in BOOLEAN /\ semCount \in 0..SemValueMax
    /\ semCall \in [SemThreads -> {"Run"} \cup Sleeping]
    /\ semWaiters = Cardinality({t \in SemThreads : semCall[t] \in Sleeping})

\* The guest's copy is exact whenever the mutex is free, on the timeout path
\* too: guest code that reads has_waiters to skip a post never skips one
\* somebody sleeps for (SyncGuest).
GuestCopyExact ==
    /\ guestCount = semCount
    /\ guestWaiters <=> semWaiters > 0

\* Units do not lie idle while somebody sleeps for one, though a post
\* signals a single sleeper and a thread that comes by may take the unit
\* before it: there is always a signalled or polling sleeper that looks.
PostsNotLost ==
    []<>(semCount = 0 \/ \A t \in SemThreads : semCall[t] = "Run")

=============================================================================
