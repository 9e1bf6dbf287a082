---------------------------- MODULE SyncOnAddress ----------------------------
(***************************************************************************)
(* Waiting on an address, src/src/kernel/syncOnAddress.cpp and its callers *)
(* in src/src/libs/libKernel.cpp: a generation counter and a condition     *)
(* variable for each address.  KernelSyncOnAddressWaitV1 does not compare  *)
(* the memory with the value the guest passes, so a wake that comes after  *)
(* the guest has looked at its word and before Wait has noted the          *)
(* generation is missed; every wait is bounded by 100 ms instead, and the  *)
(* guest looks again.  The word and the loop around Wait are the guest's.  *)
(*                                                                         *)
(* Wake changes the generation with the mutex held and notifies after it   *)
(* has let go of it: two steps, between which other threads wait and wake. *)
(* A wake is known by the generation it made.                              *)
(***************************************************************************)
EXTENDS Integers, FiniteSets

CONSTANTS
    AddrThreads,    \* guest threads that wait
    MaxGeneration   \* bound: the number of wakes

ASSUME AddrAssumption == MaxGeneration \in Nat

VARIABLES
    generation, \* State.generation
    observed,   \* what each sleeper observed
    addrAt,     \* where each waiting thread is
    notifiedBy, \* per sleeper, the wake whose notification chose it, or 0
    unsent,     \* the wakes that have not notified yet
    ofAll,      \* history: the wakes that were of all waiters
    go          \* the guest's word: what the threads wait for has happened

addrVars == <<generation, observed, addrAt, notifiedBy, unsent, ofAll, go>>

wakeVars == <<generation, unsent, ofAll>>

AddrInit ==
    /\ generation = 0
    /\ observed = [t \in AddrThreads |-> 0]
    /\ addrAt = [t \in AddrThreads |-> "Look"]
    /\ notifiedBy = [t \in AddrThreads |-> 0]
    /\ unsent = {} /\ ofAll = {}
    /\ go = FALSE

Asleep == {t \in AddrThreads : addrAt[t] = "Asleep"}

\* The sleepers the condition variable can still choose.
Choosable == {t \in Asleep : notifiedBy[t] = 0}

-----------------------------------------------------------------------------
\* The guest looks at its word before it calls Wait.
GuestLooks(t) ==
    /\ addrAt[t] = "Look"
    /\ addrAt' = [addrAt EXCEPT ![t] = IF go THEN "Done" ELSE "Call"]
    /\ UNCHANGED <<wakeVars, observed, notifiedBy, go>>

AddrWait(t) ==
    /\ addrAt[t] = "Call"
    /\ addrAt' = [addrAt EXCEPT ![t] = "Asleep"]
    /\ observed' = [observed EXCEPT ![t] = generation]
    /\ UNCHANGED <<wakeVars, notifiedBy, go>>

AddrLeave(t) ==
    /\ addrAt' = [addrAt EXCEPT ![t] = "Look"]
    /\ notifiedBy' = [notifiedBy EXCEPT ![t] = 0]
    /\ UNCHANGED <<wakeVars, observed, go>>

\* The predicate holds: after a signal, or when the condition variable
\* wakes for no reason after a wake meant for somebody else.
AddrWoken(t) ==
    /\ t \in Asleep /\ generation # observed[t]
    /\ AddrLeave(t)

\* It was chosen, but came after the generation had changed: it sleeps on,
\* and the notification is spent.
AddrSleepsOn(t) ==
    /\ t \in Asleep /\ notifiedBy[t] # 0 /\ generation = observed[t]
    /\ notifiedBy' = [notifiedBy EXCEPT ![t] = 0]
    /\ UNCHANGED <<wakeVars, observed, addrAt, go>>

\* At most 100 ms have passed.
AddrTimedOut(t) ==
    /\ t \in Asleep
    /\ AddrLeave(t)

\* The guest sets its word, and wakes the address in later steps.
GuestSets ==
    /\ ~go /\ go' = TRUE
    /\ UNCHANGED <<wakeVars, observed, addrAt, notifiedBy>>

\* Wake, for the guest's word or for something else at this address: the
\* generation changes, under the mutex ...
WakeBegin(n) ==
    /\ generation < MaxGeneration
    /\ generation' = generation + 1
    /\ unsent' = unsent \cup {generation'}
    /\ ofAll' = IF n = 1 THEN ofAll ELSE ofAll \cup {generation'}
    /\ UNCHANGED <<observed, addrAt, notifiedBy, go>>

\* Mutant: a wake of all that notifies one.
MutWakeNotify(g) ==
    /\ g \in unsent
    /\ unsent' = unsent \ {g}
    /\ \E s \in SUBSET Choosable :
          /\ Cardinality(s) = (IF Choosable = {} THEN 0 ELSE 1)
          /\ notifiedBy' = [t \in AddrThreads |-> IF t \in s THEN g ELSE notifiedBy[t]]
    /\ UNCHANGED <<generation, ofAll, observed, addrAt, go>>

\* ... and without it one sleeper is signalled if the count was one, and all
\* of them otherwise: who sleeps by now, not who slept then.
WakeNotify(g) ==
    /\ g \in unsent
    /\ unsent' = unsent \ {g}
    /\ \E s \in SUBSET Choosable :
          /\ IF g \in ofAll THEN s = Choosable
                           ELSE Cardinality(s) = (IF Choosable = {} THEN 0 ELSE 1)
          /\ notifiedBy' = [t \in AddrThreads |-> IF t \in s THEN g ELSE notifiedBy[t]]
    /\ UNCHANGED <<generation, ofAll, observed, addrAt, go>>

AddrNext ==
    \/ \E t \in AddrThreads :
          \/ GuestLooks(t) \/ AddrWait(t)
          \/ AddrWoken(t) \/ AddrSleepsOn(t) \/ AddrTimedOut(t)
    \/ GuestSets
    \/ \E n \in {0, 1} : WakeBegin(n)
    \/ \E g \in unsent : WakeNotify(g)

AddrSpec == AddrInit /\ [][AddrNext]_addrVars

\* The waiting threads run, and no sleep outlasts its bound.
AddrFairness ==
    \A t \in AddrThreads :
        WF_addrVars(GuestLooks(t) \/ AddrWait(t)) /\ WF_addrVars(AddrTimedOut(t))

-----------------------------------------------------------------------------
AddrTypeOK ==
    /\ generation \in 0..MaxGeneration
    /\ observed \in [AddrThreads -> 0..MaxGeneration]
    /\ addrAt \in [AddrThreads -> {"Look", "Call", "Asleep", "Done"}]
    /\ notifiedBy \in [AddrThreads -> 0..MaxGeneration]
    /\ unsent \subseteq 1..MaxGeneration /\ ofAll \subseteq 1..MaxGeneration
    /\ go \in BOOLEAN

\* Whoever slept before a wake changed the generation is reached by it: the
\* notification of a wake is wasted only on a thread that came after it, and
\* once a wake of all has notified, nobody from before it sleeps on.
WakesReach ==
    /\ \A t \in AddrThreads : notifiedBy[t] # 0 =>
          /\ t \in Asleep
          /\ generation = observed[t] => observed[t] >= notifiedBy[t]
    /\ \A g \in ofAll \ unsent : \A t \in Asleep :
          observed[t] < g => notifiedBy[t] # 0

\* A missed wake heals itself: once the word is set every thread that waits
\* for it gets to see it, even if the wake came before it slept or went to
\* somebody else (the bounded timeout of Wait).
MissedWakeHeals ==
    \A t \in AddrThreads : go ~> addrAt[t] = "Done"

=============================================================================
