----------------------------- MODULE PthreadPool -----------------------------
(***************************************************************************)
(* The life of guest threads in src/src/kernel/pthread.cpp: the pool whose *)
(* entries are reused, PthreadCreate, PthreadDetach and PthreadJoin by     *)
(* guest code, the clean-up at a thread's end, the reaper that joins       *)
(* detached threads every 10 ms with the pool's mutex held, and the cache  *)
(* of guest stacks.  The flags of an entry are atomics that are written    *)
(* and read without the pool's mutex: a step of the model touches one of   *)
(* them, or flags nobody else looks at in between.  The host's threads and *)
(* pthread_join are external.                                              *)
(***************************************************************************)
EXTENDS Integers, Sequences, FiniteSets

CONSTANTS
    Creators,   \* guest code that creates, detaches and joins threads
    MaxThreads, \* bound: entries of the pool
    MaxStacks   \* guest stacks the address range has room for

ASSUME PoolAssumption == MaxThreads \in Nat /\ MaxStacks \in Nat

Entries == 1..MaxThreads
NoStack == 0

VARIABLES
    poolSize,   \* m_threads.size()
    entry,      \* the flags and the attribute of each entry of the pool
    host,       \* the host's thread of each entry
    mine,       \* guest's knowledge: the entries it has to join or detach
    poolCall,   \* what each creator is doing
    reaper,     \* what FreeDetachedThreads is doing
    stackCache, \* g_guest_stack_cache
    stackLast   \* how many stacks have been cut off g_guest_stack_last

poolVars == <<poolSize, entry, host, mine, poolCall, reaper, stackCache, stackLast>>

Fresh == [free |-> FALSE, detached |-> FALSE, almostDone |-> FALSE,
          stack |-> NoStack, wants |-> FALSE]

PoolInit ==
    /\ poolSize = 0
    /\ entry = [e \in Entries |-> Fresh]
    /\ host = [e \in Entries |-> "None"]
    /\ mine = {}
    /\ poolCall = [c \in Creators |-> [at |-> "Run", e |-> 0]]
    /\ reaper = [at |-> "Sleep", e |-> 0]
    /\ stackCache = <<>> /\ stackLast = 0

PoolAt(c, where) == poolCall[c].at = where

PoolGoto(c, where, e) == poolCall' = [poolCall EXCEPT ![c] = [at |-> where, e |-> e]]

\* m_mutex is held across steps by the reaper only.
MutexFree == reaper.at = "Sleep"

-----------------------------------------------------------------------------
(* PthreadCreate.                                                          *)

FreeEntries == {e \in 1..poolSize : entry[e].free}

\* PthreadPool::Create: the first entry that is free, or a new one.
PoolCreate(c) ==
    /\ PoolAt(c, "Run") /\ MutexFree
    /\ \/ \E e \in FreeEntries :
             /\ \A f \in FreeEntries : e <= f
             /\ entry' = [entry EXCEPT ![e].free = FALSE]
             /\ PoolGoto(c, "Attr", e)
             /\ UNCHANGED poolSize
       \/ /\ FreeEntries = {} /\ poolSize < MaxThreads
          /\ poolSize' = poolSize + 1
          /\ entry' = [entry EXCEPT ![poolSize + 1] = Fresh]
          /\ PoolGoto(c, "Attr", poolSize + 1)
    /\ UNCHANGED <<host, mine, reaper, stackCache, stackLast>>

\* The attribute is made anew; the flag of the entry itself is set later.
CopyAttr(c, detached) ==
    /\ PoolAt(c, "Attr")
    /\ entry' = [entry EXCEPT ![poolCall[c].e].stack = NoStack,
                              ![poolCall[c].e].wants = detached]
    /\ PoolGoto(c, "Stack", poolCall[c].e)
    /\ UNCHANGED <<poolSize, host, mine, reaper, stackCache, stackLast>>

\* The cache without the stack it hands out.
CacheRest == Tail(stackCache)

\* CreateGuestStack: the guest's own, one from the cache or a new one; EAGAIN
\* if there is no room, or if its memory cannot be mapped or protected, and
\* then the stack is lost.
CreateGuestStack(c) ==
    /\ PoolAt(c, "Stack")
    /\ LET e == poolCall[c].e
           Got(stack) == \/ /\ entry' = [entry EXCEPT ![e].stack = stack]
                            /\ PoolGoto(c, "Flags", e)
                         \/ PoolGoto(c, "Failed", e) /\ UNCHANGED entry
       IN  \/ PoolGoto(c, "Flags", e) /\ UNCHANGED <<entry, stackCache, stackLast>>
           \/ /\ stackCache # <<>>
              /\ Got(Head(stackCache))
              /\ stackCache' = CacheRest
              /\ UNCHANGED stackLast
           \/ /\ stackCache = <<>> /\ stackLast < MaxStacks
              /\ Got(stackLast + 1)
              /\ stackLast' = stackLast + 1
              /\ UNCHANGED stackCache
           \/ /\ stackCache = <<>> /\ stackLast = MaxStacks
              /\ PoolGoto(c, "Failed", e)
              /\ UNCHANGED <<entry, stackCache, stackLast>>
    /\ UNCHANGED <<poolSize, host, mine, reaper>>

SetFlags(c) ==
    /\ PoolAt(c, "Flags")
    /\ LET e == poolCall[c].e
       IN  /\ entry' = [entry EXCEPT ![e].almostDone = FALSE,
                                     ![e].detached = entry[e].wants]
           /\ PoolGoto(c, "Start", e)
    /\ UNCHANGED <<poolSize, host, mine, reaper, stackCache, stackLast>>

\* FreeGuestStack of entry e: a stack of the guest's own is not kept.
StackFreed(e) ==
    stackCache' = IF entry[e].stack = NoStack THEN stackCache
                  ELSE Append(stackCache, entry[e].stack)

\* pthread_create of the host succeeds, or fails and the stack is given back.
StartThread(c) ==
    /\ PoolAt(c, "Start")
    /\ LET e == poolCall[c].e
       IN  \/ /\ host' = [host EXCEPT ![e] = "Running"]
              /\ mine' = IF entry[e].wants THEN mine ELSE mine \cup {e}
              /\ PoolGoto(c, "Run", 0)
              /\ UNCHANGED <<entry, stackCache>>
           \/ /\ StackFreed(e)
              /\ entry' = [entry EXCEPT ![e].stack = NoStack]
              /\ PoolGoto(c, "Failed", e)
              /\ UNCHANGED <<host, mine>>
    /\ UNCHANGED <<poolSize, reaper, stackLast>>

CreateFailed(c) ==
    /\ PoolAt(c, "Failed")
    /\ entry' = [entry EXCEPT ![poolCall[c].e].free = TRUE]
    /\ PoolGoto(c, "Run", 0)
    /\ UNCHANGED <<poolSize, host, mine, reaper, stackCache, stackLast>>

-----------------------------------------------------------------------------
(* A thread's end, and what the guest does about it.                       *)

CleanupThread(e) ==
    /\ host[e] = "Running"
    /\ host' = [host EXCEPT ![e] = "Ending"]
    /\ entry' = [entry EXCEPT ![e].almostDone = TRUE]
    /\ UNCHANGED <<poolSize, mine, poolCall, reaper, stackCache, stackLast>>

\* RunThread returns to the host.
HostExit(e) ==
    /\ host[e] = "Ending"
    /\ host' = [host EXCEPT ![e] = "Ended"]
    /\ UNCHANGED <<poolSize, entry, mine, poolCall, reaper, stackCache, stackLast>>

\* The guest detaches a thread it has not joined or detached.
Detach(e) ==
    /\ e \in mine
    /\ mine' = mine \ {e}
    /\ entry' = [entry EXCEPT ![e].detached = TRUE]
    /\ UNCHANGED <<poolSize, host, poolCall, reaper, stackCache, stackLast>>

JoinBegin(c, e) ==
    /\ PoolAt(c, "Run") /\ e \in mine
    /\ mine' = mine \ {e}
    /\ PoolGoto(c, "Join", e)
    /\ UNCHANGED <<poolSize, entry, host, reaper, stackCache, stackLast>>

-----------------------------------------------------------------------------
(* PthreadJoin, for the guest and for the reaper: the host's join, the     *)
(* stack, almost_done, and free last.                                      *)

HostJoin(e) ==
    /\ host[e] = "Ended"
    /\ host' = [host EXCEPT ![e] = "None"]
    /\ StackFreed(e)
    /\ entry' = [entry EXCEPT ![e].stack = NoStack]

\* Mutant: free is set first and almost_done cleared after it.
MutJoinStep(from, to, e) ==
    \/ /\ from = "Join" /\ to = "Clear"
       /\ HostJoin(e)
    \/ /\ from = "Clear" /\ to = "Free"
       /\ entry' = [entry EXCEPT ![e].free = TRUE]
       /\ UNCHANGED <<host, stackCache>>
    \/ /\ from = "Free" /\ to = "Done"
       /\ entry' = [entry EXCEPT ![e].almostDone = FALSE]
       /\ UNCHANGED <<host, stackCache>>

JoinStep(from, to, e) ==
    \/ /\ from = "Join" /\ to = "Clear"
       /\ HostJoin(e)
    \/ /\ from = "Clear" /\ to = "Free"
       /\ entry' = [entry EXCEPT ![e].almostDone = FALSE]
       /\ UNCHANGED <<host, stackCache>>
    \/ /\ from = "Free" /\ to = "Done"
       /\ entry' = [entry EXCEPT ![e].free = TRUE]
       /\ UNCHANGED <<host, stackCache>>

JoinGuest(c) ==
    /\ \E to \in {"Clear", "Free", "Done"} :
          /\ JoinStep(poolCall[c].at, to, poolCall[c].e)
          /\ IF to = "Done" THEN PoolGoto(c, "Run", 0)
             ELSE PoolGoto(c, to, poolCall[c].e)
    /\ UNCHANGED <<poolSize, mine, reaper, stackLast>>

ReaperGoto(where, e) == reaper' = [at |-> where, e |-> e]

\* The 10 ms have passed: the reaper takes the mutex.
ReaperStart ==
    /\ reaper.at = "Sleep"
    /\ ReaperGoto("Look", 1)
    /\ UNCHANGED <<poolSize, entry, host, mine, poolCall, stackCache, stackLast>>

\* Mutant: a detached thread is joined while it still runs.
MutIsReapable(e) == entry[e].detached /\ ~entry[e].free

IsReapable(e) == entry[e].detached /\ entry[e].almostDone /\ ~entry[e].free

ReaperLook ==
    /\ reaper.at = "Look"
    /\ IF reaper.e > poolSize THEN ReaperGoto("Sleep", 0)
       ELSE IF IsReapable(reaper.e) THEN ReaperGoto("Join", reaper.e)
       ELSE ReaperGoto("Look", reaper.e + 1)
    /\ UNCHANGED <<poolSize, entry, host, mine, poolCall, stackCache, stackLast>>

ReaperJoin ==
    /\ \E to \in {"Clear", "Free", "Done"} :
          /\ JoinStep(reaper.at, to, reaper.e)
          /\ IF to = "Done" THEN ReaperGoto("Look", reaper.e + 1)
             ELSE ReaperGoto(to, reaper.e)
    /\ UNCHANGED <<poolSize, mine, poolCall, stackLast>>

-----------------------------------------------------------------------------
PoolNext ==
    \/ \E c \in Creators :
          \/ PoolCreate(c) \/ CreateGuestStack(c) \/ SetFlags(c) \/ StartThread(c)
          \/ CreateFailed(c) \/ JoinGuest(c)
          \/ \E detached \in BOOLEAN : CopyAttr(c, detached)
          \/ \E e \in Entries : JoinBegin(c, e)
    \/ \E e \in Entries : CleanupThread(e) \/ HostExit(e) \/ Detach(e)
    \/ ReaperStart \/ ReaperLook \/ ReaperJoin

PoolSpec == PoolInit /\ [][PoolNext]_poolVars

\* The reaper goes on, and a thread past its clean-up reaches its end.
PoolFairness ==
    /\ WF_poolVars(ReaperStart) /\ WF_poolVars(ReaperLook) /\ WF_poolVars(ReaperJoin)
    /\ \A e \in Entries : WF_poolVars(HostExit(e))

-----------------------------------------------------------------------------
PoolTypeOK ==
    /\ poolSize \in 0..MaxThreads
    /\ entry \in [Entries -> [free : BOOLEAN, detached : BOOLEAN, almostDone : BOOLEAN,
                              stack : 0..MaxStacks, wants : BOOLEAN]]
    /\ host \in [Entries -> {"None", "Running", "Ending", "Ended"}]
    /\ mine \subseteq Entries
    /\ stackCache \in Seq(1..MaxStacks) /\ stackLast \in 0..MaxStacks
    /\ reaper.e \in 0..(MaxThreads + 1)

Creating(e) == {c \in Creators : /\ poolCall[c].e = e
                                 /\ poolCall[c].at \in {"Attr", "Stack", "Flags", "Start", "Failed"}}
Joining(e) == {c \in Creators : poolCall[c].e = e
                                /\ poolCall[c].at \in {"Join", "Clear", "Free"}}
Reaping(e) == reaper.e = e /\ reaper.at \in {"Join", "Clear", "Free"}

\* An entry has one user at a time, and none while it is free: the reaper
\* looks at entries that are being created with the flags of their last
\* life still on them, and never joins one (PthreadJoin clears almost_done
\* before it sets free, so that what it leaves behind is not reapable).
EntryOwned ==
    \A e \in Entries :
        /\ Cardinality(Creating(e)) + Cardinality(Joining(e))
             + (IF Reaping(e) THEN 1 ELSE 0) <= 1
        /\ entry[e].free => /\ host[e] = "None" /\ Creating(e) = {}
                            /\ Joining(e) = {} /\ ~Reaping(e)

\* No stack serves two threads, or lies in the cache while a thread runs on
\* it: it is given back only after the host's join, or when the host's
\* create has failed (CreateGuestStack, FreeGuestStack).
StacksApart ==
    /\ \A e, f \in Entries : e # f /\ entry[e].stack = entry[f].stack
                             => entry[e].stack = NoStack
    /\ \A i \in 1..Len(stackCache) :
          /\ \A e \in Entries : entry[e].stack # stackCache[i]
          /\ \A j \in 1..Len(stackCache) : stackCache[i] = stackCache[j] => i = j

\* The reaper, which holds the pool's mutex while it joins, always lets go
\* of it again: it joins threads past their clean-up only, which need
\* nothing any more.
ReaperReturns == []<>(reaper.at = "Sleep")

\* A detached thread that ends gives its entry back, whether it was created
\* detached or was detached before, during or after its clean-up.
DetachedReaped ==
    \A e \in Entries :
        (host[e] = "Ended" /\ entry[e].detached) ~> entry[e].free

\* Neither an entry of the pool nor a stack has two owners.
PoolOwned == EntryOwned /\ StacksApart

\* The reaper goes on reaping.
ThreadsReaped == ReaperReturns /\ DetachedReaped

=============================================================================
