----------------------------- MODULE PthreadOnce -----------------------------
(***************************************************************************)
(* Lazy initialisation in src/src/kernel/pthread.cpp, twice.  pthread_once *)
(* keeps a state under one global mutex and runs the routine outside it.   *)
(* PthreadStaticObjects::CreateObject makes the object behind a statically *)
(* initialised guest mutex (condition variable, read-write lock) at its    *)
(* first use: it reads the guest's word, and if there is no object yet     *)
(* takes m_mutex, reads the word again and creates one.  A word of one     *)
(* asks for an adaptive mutex.                                             *)
(***************************************************************************)
EXTENDS Integers, Sequences, FiniteSets

CONSTANTS
    OnceThreads,    \* guest threads
    MaxObjects      \* bound: how many objects are created

ASSUME OnceAssumption == MaxObjects \in Nat

VARIABLES
    onceState,  \* PthreadOnce.state
    onceCall,   \* where each thread is in pthread_once
    initRuns,   \* history: how often the routine was started
    initDone,   \* history: the routine has returned
    word,       \* the guest's word: Null, Adaptive, or an object
    locked,     \* the thread inside m_mutex of PthreadStaticObjects, as a set
    useCall,    \* where each thread is in CreateObject and the call after it
    using,      \* the object each thread found
    created     \* the objects created so far

Null == 0
Adaptive == -1

onceVars == <<onceState, onceCall, initRuns, initDone, word, locked, useCall,
              using, created>>

oncePart == <<onceState, onceCall, initRuns, initDone>>
staticPart == <<word, locked, useCall, using, created>>

OnceInit ==
    /\ onceState = "Needs" /\ initRuns = 0 /\ initDone = FALSE
    /\ onceCall = [t \in OnceThreads |-> "Idle"]
    /\ word \in {Null, Adaptive}
    /\ locked = {}
    /\ useCall = [t \in OnceThreads |-> "Idle"]
    /\ using = [t \in OnceThreads |-> 0]
    /\ created = 0

-----------------------------------------------------------------------------
(* pthread_once.  Once it has returned a thread does not call it again.    *)

OnceGoto(t, from, to) ==
    /\ onceCall[t] = from
    /\ onceCall' = [onceCall EXCEPT ![t] = to]
    /\ UNCHANGED staticPart

OnceStart(t) ==
    /\ onceState = "Needs"
    /\ onceState' = "InProgress"
    /\ OnceGoto(t, "Idle", "Init")
    /\ initRuns' = initRuns + 1
    /\ UNCHANGED initDone

OnceWait(t) ==
    /\ onceState \in {"InProgress", "Wait"}
    /\ onceState' = "Wait"
    /\ OnceGoto(t, "Idle", "Waiting")
    /\ UNCHANGED <<initRuns, initDone>>

OnceDone(t) ==
    /\ onceState = "Done"
    /\ OnceGoto(t, "Idle", "Returned")
    /\ UNCHANGED <<onceState, initRuns, initDone>>

\* The inner loop ends and the outer one looks at the state again.
OnceWake(t) ==
    /\ onceState # "Wait"
    /\ OnceGoto(t, "Waiting", "Idle")
    /\ UNCHANGED <<onceState, initRuns, initDone>>

OnceRoutine(t) ==
    /\ OnceGoto(t, "Init", "Publish")
    /\ initDone' = TRUE
    /\ UNCHANGED <<onceState, initRuns>>

OncePublish(t) ==
    /\ onceState' = "Done"
    /\ OnceGoto(t, "Publish", "Returned")
    /\ UNCHANGED <<initRuns, initDone>>

-----------------------------------------------------------------------------
(* CreateObject, and the use of the object by the call that asked for it.  *)

IsObject(w) == w > 0

UseGoto(t, from, to) ==
    /\ useCall[t] = from
    /\ useCall' = [useCall EXCEPT ![t] = to]
    /\ UNCHANGED oncePart

\* The first look, without the lock.
Peek(t) ==
    /\ IF IsObject(word)
       THEN UseGoto(t, "Idle", "Use") /\ using' = [using EXCEPT ![t] = word]
       ELSE UseGoto(t, "Idle", "Lock") /\ UNCHANGED using
    /\ UNCHANGED <<word, locked, created>>

EnterStatic(t) ==
    /\ locked = {}
    /\ locked' = {t}
    /\ UseGoto(t, "Lock", "Look")
    /\ UNCHANGED <<word, using, created>>

\* Mutant: the word is not read again.
MutLookAgain(t) ==
    /\ UseGoto(t, "Look", "Create")
    /\ UNCHANGED <<word, locked, using, created>>

\* The second look: somebody else may have been here first.
LookAgain(t) ==
    /\ IF IsObject(word)
       THEN UseGoto(t, "Look", "Use") /\ using' = [using EXCEPT ![t] = word]
                                      /\ locked' = {}
       ELSE UseGoto(t, "Look", "Create") /\ UNCHANGED <<using, locked>>
    /\ UNCHANGED <<word, created>>

\* The object, an adaptive mutex for a word of one, is published in its place.
CreateObject(t) ==
    /\ created < MaxObjects
    /\ created' = created + 1
    /\ word' = created + 1
    /\ using' = [using EXCEPT ![t] = created + 1]
    /\ locked' = {}
    /\ UseGoto(t, "Create", "Use")

\* The lock, unlock, wait or signal the object was wanted for.
UseObject(t) ==
    /\ UseGoto(t, "Use", "Idle")
    /\ using' = [using EXCEPT ![t] = 0]
    /\ UNCHANGED <<word, locked, created>>

\* PthreadMutexDestroy by the guest, which may not destroy what somebody
\* uses: the word is empty again, and the next use makes a new object.
DestroyObject ==
    /\ IsObject(word)
    /\ \A t \in OnceThreads : useCall[t] = "Idle"
    /\ word' = Null
    /\ UNCHANGED <<oncePart, locked, useCall, using, created>>

-----------------------------------------------------------------------------
OnceStep(t) ==
    \/ OnceWake(t) \/ OnceRoutine(t) \/ OncePublish(t)

StaticStep(t) ==
    EnterStatic(t) \/ LookAgain(t) \/ CreateObject(t) \/ UseObject(t)

OnceNext ==
    \/ \E t \in OnceThreads :
          \/ OnceStart(t) \/ OnceWait(t) \/ OnceDone(t) \/ OnceStep(t)
          \/ Peek(t) \/ StaticStep(t)
    \/ DestroyObject

OnceSpec == OnceInit /\ [][OnceNext]_onceVars

\* A call goes on: waits poll every 10 ms, and the routine returns.
OnceFairness ==
    \A t \in OnceThreads :
        WF_onceVars(OnceStart(t) \/ OnceWait(t) \/ OnceDone(t)) /\ WF_onceVars(OnceStep(t))

-----------------------------------------------------------------------------
OnceTypeOK ==
    /\ onceState \in {"Needs", "InProgress", "Wait", "Done"}
    /\ onceCall \in [OnceThreads -> {"Idle", "Waiting", "Init", "Publish", "Returned"}]
    /\ initRuns \in Nat /\ initDone \in BOOLEAN
    /\ word \in {Null, Adaptive} \cup 1..MaxObjects
    /\ locked \subseteq OnceThreads
    /\ useCall \in [OnceThreads -> {"Idle", "Lock", "Look", "Create", "Use"}]
    /\ using \in [OnceThreads -> 0..MaxObjects]
    /\ created \in 0..MaxObjects

\* The routine runs once, however many callers come before, during and
\* after it, and no caller returns before it is done.
OnceExactly ==
    /\ initRuns <= 1
    /\ \A t \in OnceThreads : onceCall[t] = "Returned" => initDone

\* Every caller returns: a waiter that turned the state into Wait after the
\* routine was started does not hide that it is done.
OnceReturns ==
    \A t \in OnceThreads : onceCall[t] = "Waiting" ~> onceCall[t] = "Returned"

\* All users of a static object that are inside a call use the one object
\* the word holds: the race of two first uses does not give each a mutex of
\* its own (CreateObject).
OneObject ==
    \A t \in OnceThreads : useCall[t] = "Use" => using[t] = word

\* What the first use of an object does is done once.
FirstUseOnce == OnceExactly /\ OneObject

=============================================================================
