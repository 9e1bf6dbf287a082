---------------------------- MODULE PthreadKeys ----------------------------
(***************************************************************************)
(* Thread-specific values of src/src/kernel/pthread.cpp, class             *)
(* PthreadKeys.  A key is a slot that is reused; a thread that ends calls  *)
(* Destruct, which collects its values under m_mutex and calls their       *)
(* destructors without it, and starts over, a limited number of times,     *)
(* since a destructor may set values again.  Every critical section and    *)
(* every call of a destructor is one step.                                 *)
(***************************************************************************)
EXTENDS Integers, FiniteSets

CONSTANTS
    KeySlots,       \* the slots of m_keys
    KeyThreads,     \* guest threads
    Iterations,     \* DESTRUCTOR_ITERATIONS
    MaxKeys,        \* bound: how many keys are created
    MaxValues       \* bound: how many values are set

ASSUME KeyAssumption == Iterations \in Nat \ {0} /\ MaxKeys \in Nat /\ MaxValues \in Nat

VARIABLES
    slot,       \* m_keys: the key in each slot, 0 if it is not used
    hasDtor,    \* the keys that were created with a destructor
    keysMade,   \* how many keys have been created
    specific,   \* specific_values: slot, thread and value, 0 for a null one
    valuesMade, \* how many values have been set: each is different
    valueOf,    \* history: the key each value was set under
    exits,      \* where each thread is: running, or in a pass of Destruct
    calls       \* history: the destructor and the value of every call

keyVars == <<slot, hasDtor, keysMade, specific, valuesMade, valueOf, exits, calls>>

Alive == [at |-> "Run", pass |-> 0, list |-> {}]

KeysInit ==
    /\ slot = [k \in KeySlots |-> 0]
    /\ hasDtor \in [1..MaxKeys -> BOOLEAN]
    /\ keysMade = 0
    /\ specific = {}
    /\ valuesMade = 0
    /\ valueOf = [v \in 1..MaxValues |-> 0]
    /\ exits = [t \in KeyThreads |-> Alive]
    /\ calls = {}

KeyCreate(k) ==
    /\ slot[k] = 0 /\ \A j \in KeySlots : slot[j] = 0 => k <= j
    /\ keysMade < MaxKeys
    /\ keysMade' = keysMade + 1
    /\ slot' = [slot EXCEPT ![k] = keysMade + 1]
    /\ specific' = {s \in specific : s.k # k}
    /\ UNCHANGED <<hasDtor, valuesMade, valueOf, exits, calls>>

KeyDelete(k) ==
    /\ slot[k] # 0
    /\ slot' = [slot EXCEPT ![k] = 0]
    /\ specific' = {s \in specific : s.k # k}
    /\ UNCHANGED <<hasDtor, keysMade, valuesMade, valueOf, exits, calls>>

\* Set by a thread that runs, or by one of its destructors.
SetSpecific(t, k) ==
    /\ exits[t].at \in {"Run", "Call"}
    /\ slot[k] # 0 /\ valuesMade < MaxValues
    /\ valuesMade' = valuesMade + 1
    /\ valueOf' = [valueOf EXCEPT ![valuesMade + 1] = slot[k]]
    /\ specific' = {s \in specific : s.k # k \/ s.t # t}
                   \cup {[k |-> k, t |-> t, v |-> valuesMade + 1]}
    /\ UNCHANGED <<slot, hasDtor, keysMade, exits, calls>>

\* The thread ends: Destruct begins its first pass.
ThreadEnds(t) ==
    /\ exits[t].at = "Run"
    /\ exits' = [exits EXCEPT ![t] = [at |-> "Collect", pass |-> 1, list |-> {}]]
    /\ UNCHANGED <<slot, hasDtor, keysMade, specific, valuesMade, valueOf, calls>>

\* The values of thread t that a pass has to destroy.
Due(t) ==
    {s \in specific : s.t = t /\ s.v # 0 /\ slot[s.k] # 0 /\ hasDtor[slot[s.k]]}

\* Mutant: a value that is collected stays where it is.
MutNulled(t) == specific

\* Collected values are null from now on.
Nulled(t) == (specific \ Due(t)) \cup {[s EXCEPT !.v = 0] : s \in Due(t)}

Collect(t) ==
    /\ exits[t].at = "Collect"
    /\ exits' = [exits EXCEPT ![t] =
          IF Due(t) = {} THEN [at |-> "Done", pass |-> 0, list |-> {}]
          ELSE [at |-> "Call", pass |-> exits[t].pass,
                list |-> {<<slot[s.k], s.v>> : s \in Due(t)}]]
    /\ specific' = Nulled(t)
    /\ UNCHANGED <<slot, hasDtor, keysMade, valuesMade, valueOf, calls>>

CallDestructor(t) ==
    /\ exits[t].at = "Call"
    /\ \E c \in exits[t].list :
          /\ calls' = calls \cup {<<t, exits[t].pass, c>>}
          /\ exits' = [exits EXCEPT ![t].list = @ \ {c}]
    /\ UNCHANGED <<slot, hasDtor, keysMade, specific, valuesMade, valueOf>>

\* All called: another pass, or, after the last one, whatever is left goes.
PassEnds(t) ==
    /\ exits[t].at = "Call" /\ exits[t].list = {}
    /\ IF exits[t].pass < Iterations
       THEN /\ exits' = [exits EXCEPT ![t] = [at |-> "Collect", pass |-> @.pass + 1, list |-> {}]]
            /\ UNCHANGED specific
       ELSE /\ exits' = [exits EXCEPT ![t] = [at |-> "Done", pass |-> 0, list |-> {}]]
            /\ specific' = {s \in specific : s.t # t}
    /\ UNCHANGED <<slot, hasDtor, keysMade, valuesMade, valueOf, calls>>

KeysNext ==
    \/ \E k \in KeySlots : KeyCreate(k) \/ KeyDelete(k)
    \/ \E t \in KeyThreads :
          \/ ThreadEnds(t) \/ Collect(t) \/ CallDestructor(t) \/ PassEnds(t)
          \/ \E k \in KeySlots : SetSpecific(t, k)

KeysSpec == KeysInit /\ [][KeysNext]_keyVars

-----------------------------------------------------------------------------
KeysTypeOK ==
    /\ slot \in [KeySlots -> 0..MaxKeys]
    /\ specific \subseteq [k : KeySlots, t : KeyThreads, v : 0..MaxValues]
    /\ \A s, r \in specific : s.k = r.k /\ s.t = r.t => s = r
    /\ exits \in [KeyThreads -> [at : {"Run", "Collect", "Call", "Done"},
                                 pass : 0..Iterations,
                                 list : SUBSET ((1..MaxKeys) \X (1..MaxValues))]]

\* A value is destroyed once and by the destructor of the key it was set
\* under, though keys are deleted, their slots reused and values set again
\* while Destruct works without the mutex.
DestroyedOnce ==
    \A c, d \in calls :
        /\ valueOf[c[3][2]] = c[3][1]
        /\ c[3][2] = d[3][2] => c = d

\* When a thread is gone no value that has a destructor is left of it, even
\* if its destructors set values in every pass.
NothingDueLeft ==
    \A t \in KeyThreads : exits[t].at = "Done" => Due(t) = {}

\* Every value that has a destructor when its thread ends is destroyed, once.
ValuesDestroyed == DestroyedOnce /\ NothingDueLeft

=============================================================================
