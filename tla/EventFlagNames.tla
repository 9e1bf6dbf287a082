--------------------------- MODULE EventFlagNames ---------------------------
(***************************************************************************)
(* The registry of event flags in src/src/kernel/eventFlag.cpp: the live   *)
(* flags, the flag each name resolves to, and the references of a flag,    *)
(* all under g_event_flag_registry_mutex.  The flag itself is deleted      *)
(* after the mutex is released.  EventFlag models what is inside a flag.   *)
(***************************************************************************)
EXTENDS Integers, FiniteSets

CONSTANTS
    FlagNames,      \* names the guest uses
    MaxFlags,       \* bound: how many flags are created
    MaxReferences   \* bound: how often one flag is open

ASSUME FlagAssumption == MaxFlags \in Nat /\ MaxReferences \in Nat \ {0}

Flags == 1..MaxFlags

VARIABLES
    flagsMade,  \* how many flags have been created: the next is its successor
    flagName,   \* KernelEventFlagPrivate.m_name
    live,       \* g_event_flags
    published,  \* g_named_event_flags, as pairs of a name and a flag
    references, \* m_open_references
    deleting    \* flags taken out of the registry and not deleted yet: how often

flagVars == <<flagsMade, flagName, live, published, references, deleting>>

FlagsInit ==
    /\ flagsMade = 0
    /\ flagName \in [Flags -> FlagNames]
    /\ live = {} /\ published = {}
    /\ references = [f \in Flags |-> 0]
    /\ deleting = [f \in Flags |-> 0]

\* KernelCreateEventFlag; the first live flag keeps the name.
CreateFlag ==
    /\ flagsMade < MaxFlags
    /\ LET f == flagsMade + 1
       IN  /\ flagsMade' = f
           /\ live' = live \cup {f}
           /\ references' = [references EXCEPT ![f] = 1]
           /\ published' = IF \E p \in published : p[1] = flagName[f] THEN published
                           ELSE published \cup {<<flagName[f], f>>}
    /\ UNCHANGED <<flagName, deleting>>

\* KernelOpenEventFlag, if the name resolves; ESRCH otherwise.
OpenFlag(n) ==
    /\ \E p \in published :
          /\ p[1] = n /\ p[2] \in live
          /\ references[p[2]] < MaxReferences
          /\ references' = [references EXCEPT ![p[2]] = @ + 1]
    /\ UNCHANGED <<flagsMade, flagName, live, published, deleting>>

\* Mutant: whatever the name stands for is removed.
MutRemovePublishedName(f) == {p \in published : p[1] # flagName[f]}

RemovePublishedName(f) == published \ {<<flagName[f], f>>}

\* Out of the registry, and to be deleted once the mutex is released.
Retire(f) ==
    /\ published' = RemovePublishedName(f)
    /\ live' = live \ {f}
    /\ deleting' = [deleting EXCEPT ![f] = @ + 1]

\* KernelCloseEventFlag of a flag that is live.
CloseFlag(f) ==
    /\ f \in live
    /\ references' = [references EXCEPT ![f] = @ - 1]
    /\ IF references[f] = 1 THEN Retire(f) ELSE UNCHANGED <<published, live, deleting>>
    /\ UNCHANGED <<flagsMade, flagName>>

\* Mutant: the registry is not asked whether the flag is still there.
MutDeleteFlag(f) ==
    /\ f <= flagsMade /\ deleting[f] < 2
    /\ Retire(f)
    /\ UNCHANGED <<flagsMade, flagName, references>>

\* KernelDeleteEventFlag, whatever references are left.
DeleteFlag(f) ==
    /\ f \in live
    /\ Retire(f)
    /\ UNCHANGED <<flagsMade, flagName, references>>

FlagsNext ==
    \/ CreateFlag
    \/ \E n \in FlagNames : OpenFlag(n)
    \/ \E f \in Flags : CloseFlag(f) \/ DeleteFlag(f)

FlagsSpec == FlagsInit /\ [][FlagsNext]_flagVars

-----------------------------------------------------------------------------
FlagsTypeOK ==
    /\ flagsMade \in 0..MaxFlags
    /\ live \subseteq 1..flagsMade
    /\ published \subseteq FlagNames \X Flags
    /\ references \in [Flags -> 0..MaxReferences]

\* A flag is deleted once, though closing its last reference and deleting it
\* race, and never while the registry or a name still leads to it.
FlagDeletedOnce ==
    \A f \in 1..flagsMade :
        /\ deleting[f] = (IF f \in live THEN 0 ELSE 1)
        /\ <<flagName[f], f>> \in published => f \in live

\* A name goes on resolving to the first flag that took it until that flag
\* is closed or deleted, whatever happens to later flags of the same name
\* (the comment in KernelCreateEventFlag, RemovePublishedName).
NameKept ==
    [][\A p \in published : p[2] \in live' => p \in published']_flagVars

=============================================================================
