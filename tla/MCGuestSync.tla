----------------------------- MODULE MCGuestSync -----------------------------
(***************************************************************************)
(* The guest's synchronisation and thread objects that have no run of      *)
(* their own, and its memory, in one finite instance: a behaviour is a     *)
(* guest program that uses one kind of object, chosen at the start.  The   *)
(* objects do not call one another, so that the union of their behaviours, *)
(* rather than a product, is what there is to check.                       *)
(***************************************************************************)
EXTENDS PthreadCond, PthreadRwlock, PthreadOnce, PthreadPool, PthreadKeys,
        PosixSem, SyncOnAddress, EventFlagNames, KernelMemoryLoops

CONSTANT Programs   \* the kinds of object the run is about

VARIABLE program    \* the one the guest program uses

\* Direct memory with its release and with reservations, flexible and private
\* memory, protections, and the pool.
DirectMix == {"AllocateDirect", "MapDirect", "ReleaseDirect", "SetName", "Munmap"}

MemoryMixes ==
    {DirectMix,
     {"AllocateDirect", "MapDirect", "Reserve", "Munmap"},
     {"AllocateDirect", "MapDirect", "Mprotect"},
     {"AllocateDirect", "MapDirect", "MapFlexible", "Reserve"},
     {"MapFlexible", "Reserve", "Munmap", "Runtime"},
     {"MapFlexible", "Mprotect", "Munmap"},
     {"PoolExpand", "PoolReserve", "PoolCommit", "PoolDecommit", "ReleaseDirect", "Munmap"}}

\* The program whose aliases AliasesOwned is about.
AliasMixes == {DirectMix}

syncVars ==
    <<program, condVars, rwVars, onceVars, poolVars, keyVars, semVars, addrVars, flagVars,
      memVars>>

MCInit ==
    /\ program \in Programs
    /\ CondInit /\ RwInit /\ OnceInit /\ PoolInit /\ KeysInit /\ PosixInit
    /\ AddrInit /\ FlagsInit /\ MemoryInit
    \* The choices of an object that is not used are fixed.
    /\ program # "cond" => recursive = FALSE
    /\ program # "once" => word = Null
    /\ program # "keys" => hasDtor = [k \in 1..MaxKeys |-> FALSE]
    /\ program # "flags" => flagName = [f \in Flags |-> CHOOSE n \in FlagNames : TRUE]
    /\ program # "memory" => allowed = CHOOSE c \in CallMixes : TRUE

\* The object of program p moves only in that program.
Rests(p, v) == IF program = p THEN TRUE ELSE UNCHANGED v

MCNext ==
    /\ \/ program = "cond" /\ CondNext
       \/ program = "rwlock" /\ RwNext
       \/ program = "once" /\ OnceNext
       \/ program = "pool" /\ PoolNext
       \/ program = "keys" /\ KeysNext
       \/ program = "sem" /\ PosixNext
       \/ program = "addr" /\ AddrNext
       \/ program = "flags" /\ FlagsNext
       \/ program = "memory" /\ MemoryNext
    /\ UNCHANGED program
    /\ Rests("cond", condVars) /\ Rests("rwlock", rwVars) /\ Rests("once", onceVars)
    /\ Rests("pool", poolVars) /\ Rests("keys", keyVars) /\ Rests("sem", semVars)
    /\ Rests("addr", addrVars) /\ Rests("flags", flagVars)
    /\ Rests("memory", memVars)

\* The fairness of each component, in the program that uses it.
MCFairness ==
    /\ \A t \in CondThreads :
          /\ WF_condVars(program = "cond" /\ LockAcquire(t))
          /\ WF_condVars(program = "cond" /\ Relock(t))
          /\ WF_condVars(program = "cond" /\ SetCount(t))
          /\ WF_condVars(program = "cond" /\ WaitWoken(t))
    /\ \A t \in RwThreads :
          /\ WF_rwVars(program = "rwlock" /\ ReadAcquire(t))
          /\ WF_rwVars(program = "rwlock" /\ WriteAcquire(t))
    /\ \A t \in OnceThreads :
          /\ WF_onceVars(program = "once" /\ (OnceStart(t) \/ OnceWait(t) \/ OnceDone(t)))
          /\ WF_onceVars(program = "once" /\ OnceStep(t))
    /\ WF_poolVars(program = "pool" /\ ReaperStart)
    /\ WF_poolVars(program = "pool" /\ ReaperLook)
    /\ WF_poolVars(program = "pool" /\ ReaperJoin)
    /\ \A e \in Entries : WF_poolVars(program = "pool" /\ HostExit(e))
    /\ \A t \in SemThreads :
          WF_semVars(program = "sem" /\ semCall[t] \in {"Poll", "Called"} /\ WakeTake(t))
    /\ \A t \in AddrThreads :
          /\ WF_addrVars(program = "addr" /\ (GuestLooks(t) \/ AddrWait(t)))
          /\ WF_addrVars(program = "addr" /\ AddrTimedOut(t))

MCSpec == MCInit /\ [][MCNext]_syncVars

-----------------------------------------------------------------------------
\* Every object's variables have their types, with the sums and counts their
\* modules state, and the small objects are consistent: the copy of a
\* semaphore in guest memory, the wakes of an address and the names of flags.
SyncConsistent ==
    /\ CondTypeOK /\ RwTypeOK /\ OnceTypeOK /\ PoolTypeOK /\ KeysTypeOK
    /\ PosixTypeOK /\ AddrTypeOK /\ FlagsTypeOK
    /\ GuestCopyExact /\ WakesReach /\ FlagDeletedOnce

\* The loops over ranges and chunks leave what KernelMemory says of them, in
\* every memory a program that uses memory can make.
MemoryLoopsAgree == program = "memory" => LoopsAgree

=============================================================================
