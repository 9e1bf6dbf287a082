--------------------------- MODULE GuestSyncProofs ---------------------------
(***************************************************************************)
(* Proofs about the guest's synchronisation and thread objects and its     *)
(* memory, for any number of threads and any bounds: read-write locks,     *)
(* lazy initialisation, thread-specific values, POSIX semaphores,          *)
(* addresses, the names of event flags, mutexes with condition variables,  *)
(* the pool of threads, and kernel memory.                                 *)
(***************************************************************************)
EXTENDS MCGuestSync, FiniteSetTheorems, QueueLemmas, TLAPS

-----------------------------------------------------------------------------
(* Read-write locks.                                                        *)

Writing == {t \in RwThreads : InWrite(t)}

\* The two counters count finite sets, and with them the lock is safe.
RwIInv ==
    /\ RwTypeOK /\ RwSafe
    /\ IsFiniteSet(ReadEntries) /\ IsFiniteSet(Writing)

LEMMA RwInitIInv == RwInit => RwIInv
<1> SUFFICES ASSUME RwInit PROVE RwIInv
  OBVIOUS
<1>1. ReadEntries = {} /\ Writing = {}
  BY RwAssumption DEF RwInit, ReadEntries, Writing, InWrite, RwIdle
<1>2. RwSafe
  BY RwAssumption DEF RwInit, RwSafe, RwExclusive, NoSelfWait, IsReader, InRead, InWrite, RwIdle
<1> QED BY <1>1, <1>2, FS_EmptySet, RwAssumption DEF RwInit, RwIInv, RwTypeOK, Writing

\* One more entry of a reader, or one less, changes the total by one.
LEMMA ReadEntriesStep ==
    ASSUME RwIInv, NEW t \in RwThreads, NEW d \in {-1, 1}, readers[t] + d \in 0..MaxReads,
           readers' = [readers EXCEPT ![t] = readers[t] + d], readerCount' = readerCount + d
    PROVE  IsFiniteSet(ReadEntries') /\ readerCount' = Cardinality(ReadEntries')
<1>0. /\ readers \in [RwThreads -> 0..MaxReads] /\ IsFiniteSet(ReadEntries)
      /\ readerCount = Cardinality(ReadEntries) /\ MaxReads \in Nat
  BY RwAssumption DEF RwIInv, RwTypeOK
<1>1. CASE d = 1
  <2> DEFINE e == <<t, readers[t] + 1>>
  <2>1. e \notin ReadEntries /\ ReadEntries' = ReadEntries \cup {e}
    BY <1>0, <1>1 DEF ReadEntries
  <2> HIDE DEF e
  <2> QED BY <1>0, <1>1, <2>1, FS_AddElement
<1>2. CASE d = -1
  <2> DEFINE e == <<t, readers[t]>>
  <2>1. e \in ReadEntries /\ ReadEntries' = ReadEntries \ {e}
    BY <1>0, <1>2 DEF ReadEntries
  <2> HIDE DEF e
  <2> QED BY <1>0, <1>2, <2>1, FS_RemoveElement
<1> QED BY <1>1, <1>2

\* A thread joins the waiting writers, or leaves them.
LEMMA WritingStep ==
    ASSUME RwIInv, NEW t \in RwThreads,
           NEW c \in {RwIdle} \cup [at : {"Read", "Write"}, timed : BOOLEAN],
           rwCall' = [rwCall EXCEPT ![t] = c],
           \/ c.at # "Write" /\ ~InWrite(t) /\ waitingWriters' = waitingWriters
           \/ c.at = "Write" /\ ~InWrite(t) /\ waitingWriters' = waitingWriters + 1
           \/ c.at # "Write" /\ InWrite(t) /\ waitingWriters' = waitingWriters - 1
    PROVE  /\ IsFiniteSet(Writing') /\ waitingWriters' = Cardinality(Writing')
           /\ rwCall' \in [RwThreads -> {RwIdle} \cup [at : {"Read", "Write"}, timed : BOOLEAN]]
<1>0. /\ IsFiniteSet(Writing) /\ waitingWriters = Cardinality(Writing)
      /\ rwCall \in [RwThreads -> {RwIdle} \cup [at : {"Read", "Write"}, timed : BOOLEAN]]
      /\ Cardinality(Writing) \in Nat
  BY FS_CardinalityType DEF RwIInv, RwTypeOK, Writing
<1>1. CASE c.at # "Write" /\ ~InWrite(t)
  <2>1. Writing' = Writing
    BY <1>0, <1>1 DEF Writing, InWrite
  <2> QED BY <1>0, <1>1, <2>1
<1>2. CASE c.at = "Write" /\ ~InWrite(t)
  <2>1. Writing' = Writing \cup {t} /\ t \notin Writing
    BY <1>0, <1>2 DEF Writing, InWrite
  <2> QED BY <1>0, <1>2, <2>1, FS_AddElement
<1>3. CASE c.at # "Write" /\ InWrite(t)
  <2>1. Writing' = Writing \ {t} /\ t \in Writing
    BY <1>0, <1>3 DEF Writing, InWrite
  <2> QED BY <1>0, <1>3, <2>1, FS_RemoveElement
<1> QED BY <1>1, <1>2, <1>3

\* A lock that may be written has no reader.
LEMMA MayWriteAlone ==
    ASSUME RwIInv, MayWrite PROVE \A t \in RwThreads : ~IsReader(t)
<1> SUFFICES ASSUME NEW t \in RwThreads, readers[t] > 0 PROVE FALSE
  BY DEF IsReader
<1>1. ReadEntries = {}
  BY FS_EmptySet DEF RwIInv, RwTypeOK, MayWrite
<1>2. <<t, 1>> \in ReadEntries
  BY RwAssumption DEF RwIInv, RwTypeOK, ReadEntries
<1> QED BY <1>1, <1>2

LEMMA RwNextIInv == RwIInv /\ [RwNext]_rwVars => RwIInv'
<1> SUFFICES ASSUME RwIInv, [RwNext]_rwVars PROVE RwIInv'
  OBVIOUS
<1> USE RwAssumption
<1>0. /\ writer \in RwThreads \cup {NoWriter} /\ readers \in [RwThreads -> 0..MaxReads]
      /\ rwCall \in [RwThreads -> {RwIdle} \cup [at : {"Read", "Write"}, timed : BOOLEAN]]
      /\ readerCount = Cardinality(ReadEntries) /\ IsFiniteSet(ReadEntries)
      /\ waitingWriters = Cardinality(Writing) /\ IsFiniteSet(Writing)
      /\ readerCount \in Nat /\ waitingWriters \in Nat
      /\ RwExclusive /\ NoSelfWait
  BY FS_CardinalityType DEF RwIInv, RwTypeOK, RwSafe, Writing
<1> DEFINE Total == IsFiniteSet(ReadEntries') /\ readerCount' = Cardinality(ReadEntries')
           Waiting == /\ IsFiniteSet(Writing') /\ waitingWriters' = Cardinality(Writing')
                      /\ rwCall' \in [RwThreads -> {RwIdle} \cup
                                        [at : {"Read", "Write"}, timed : BOOLEAN]]
           Held == /\ writer' \in RwThreads \cup {NoWriter}
                   /\ readers' \in [RwThreads -> 0..MaxReads] /\ RwSafe'
<1>a. UNCHANGED <<readers, readerCount>> => Total
  BY <1>0 DEF ReadEntries
<1>b. UNCHANGED <<waitingWriters, rwCall>> => Waiting
  BY <1>0 DEF Writing, InWrite
<1>c. Total /\ Waiting /\ Held => RwIInv'
  BY DEF RwIInv, RwTypeOK, Writing
<1> HIDE DEF Total, Waiting, Held
<1>1. ASSUME NEW t \in RwThreads, ReadLock(t) \/ ReadAcquire(t) PROVE RwIInv'
  <2>1. Total
    BY <1>0, <1>1, ReadEntriesStep DEF ReadLock, ReadAcquire, AddReader, Total
  <2>2. Waiting
    <3>1. CASE ReadLock(t)
      BY <1>b, <3>1 DEF ReadLock, AddReader
    <3>2. CASE ReadAcquire(t)
      <4>1. ~InWrite(t) /\ RwIdle.at # "Write" /\ rwCall' = [rwCall EXCEPT ![t] = RwIdle]
            /\ waitingWriters' = waitingWriters
        BY <3>2 DEF ReadAcquire, AddReader, InRead, InWrite, RwIdle
      <4> HIDE DEF RwIdle
      <4> QED BY <4>1, WritingStep DEF Waiting
    <3> QED BY <1>1, <3>1, <3>2
  <2>3. Held
    BY <1>0, <1>1 DEF ReadLock, ReadAcquire, AddReader, MayRead, Held, RwSafe, RwExclusive,
       NoSelfWait, IsReader, InRead, InWrite, RwRuns, RwIdle
  <2> QED BY <1>c, <2>1, <2>2, <2>3
<1>2. ASSUME NEW t \in RwThreads, NEW timed \in BOOLEAN,
             ReadBlock(t, timed) \/ WriteBlock(t, timed)
      PROVE  RwIInv'
  <2>1. Total
    BY <1>a, <1>2 DEF ReadBlock, WriteBlock
  <2>2. Waiting
    <3>1. CASE ReadBlock(t, timed)
      <4> DEFINE c == [at |-> "Read", timed |-> timed]
      <4>1. ~InWrite(t) /\ c.at # "Write" /\ rwCall' = [rwCall EXCEPT ![t] = c]
            /\ waitingWriters' = waitingWriters
            /\ c \in {RwIdle} \cup [at : {"Read", "Write"}, timed : BOOLEAN]
        BY <3>1 DEF ReadBlock, InWrite, RwRuns
      <4> HIDE DEF c
      <4> QED BY <4>1, WritingStep DEF Waiting
    <3>2. CASE WriteBlock(t, timed)
      <4> DEFINE c == [at |-> "Write", timed |-> timed]
      <4>1. ~InWrite(t) /\ c.at = "Write" /\ rwCall' = [rwCall EXCEPT ![t] = c]
            /\ waitingWriters' = waitingWriters + 1
            /\ c \in {RwIdle} \cup [at : {"Read", "Write"}, timed : BOOLEAN]
        BY <3>2 DEF WriteBlock, InWrite, RwRuns
      <4> HIDE DEF c
      <4> QED BY <4>1, WritingStep DEF Waiting
    <3> QED BY <1>2, <3>1, <3>2
  <2>3. Held
    <3>1. UNCHANGED <<writer, readers>> /\ ~IsReader(t) /\ writer # t
      BY <1>0, <1>2 DEF ReadBlock, WriteBlock, MayRead, SelfDeadlock, RwExclusive
    <3>2. \A u \in RwThreads \ {t} : rwCall'[u] = rwCall[u]
      BY <1>0, <1>2 DEF ReadBlock, WriteBlock
    <3> QED BY <1>0, <3>1, <3>2 DEF Held, RwSafe, RwExclusive, NoSelfWait, IsReader, InRead, InWrite
  <2> QED BY <1>c, <2>1, <2>2, <2>3
<1>3. ASSUME NEW t \in RwThreads, WriteLock(t) \/ WriteAcquire(t) PROVE RwIInv'
  <2>1. Total
    BY <1>a, <1>3 DEF WriteLock, WriteAcquire
  <2>2. Waiting
    <3>1. CASE WriteLock(t)
      BY <1>b, <3>1 DEF WriteLock
    <3>2. CASE WriteAcquire(t)
      <4>1. InWrite(t) /\ RwIdle.at # "Write" /\ rwCall' = [rwCall EXCEPT ![t] = RwIdle]
            /\ waitingWriters' = waitingWriters - 1
        BY <3>2 DEF WriteAcquire, InWrite, RwIdle
      <4> HIDE DEF RwIdle
      <4> QED BY <4>1, WritingStep DEF Waiting
    <3> QED BY <1>3, <3>1, <3>2
  <2>3. Held
    <3>1. \A u \in RwThreads : ~IsReader(u)
      BY <1>3, MayWriteAlone DEF WriteLock, WriteAcquire
    <3>2. ~InRead(t)' /\ ~InWrite(t)' /\ \A u \in RwThreads \ {t} : rwCall'[u] = rwCall[u]
      BY <1>0, <1>3 DEF WriteLock, WriteAcquire, RwRuns, InRead, InWrite, RwIdle
    <3>3. readers' = readers /\ writer' = t
      BY <1>3 DEF WriteLock, WriteAcquire
    <3> QED BY <1>0, <3>1, <3>2, <3>3 DEF Held, RwSafe, RwExclusive, NoSelfWait, IsReader,
       InRead, InWrite
  <2> QED BY <1>c, <2>1, <2>2, <2>3
<1>4. ASSUME NEW t \in RwThreads, ReadTimedOut(t) \/ WriteTimedOut(t) PROVE RwIInv'
  <2>1. Total
    BY <1>a, <1>4 DEF ReadTimedOut, WriteTimedOut
  <2>2. Waiting
    <3>1. /\ RwIdle.at # "Write" /\ rwCall' = [rwCall EXCEPT ![t] = RwIdle]
          /\ \/ ~InWrite(t) /\ waitingWriters' = waitingWriters
             \/ InWrite(t) /\ waitingWriters' = waitingWriters - 1
      BY <1>0, <1>4 DEF ReadTimedOut, WriteTimedOut, InRead, InWrite, RwIdle
    <3> HIDE DEF RwIdle
    <3> QED BY <3>1, WritingStep DEF Waiting
  <2>3. Held
    BY <1>0, <1>4 DEF ReadTimedOut, WriteTimedOut, Held, RwSafe, RwExclusive, NoSelfWait,
       IsReader, InRead, InWrite, RwIdle
  <2> QED BY <1>c, <2>1, <2>2, <2>3
<1>5. ASSUME NEW t \in RwThreads, RwUnlock(t) PROVE RwIInv'
  <2>1. Total
    <3>1. CASE IsReader(t)
      <4>1. readers[t] + -1 \in 0..MaxReads /\ readers' = [readers EXCEPT ![t] = readers[t] + -1]
            /\ readerCount' = readerCount + -1
        BY <1>0, <1>5, <3>1 DEF RwUnlock, IsReader
      <4> QED BY <4>1, ReadEntriesStep DEF Total
    <3>2. CASE ~IsReader(t)
      BY <1>a, <1>5, <3>2 DEF RwUnlock
    <3> QED BY <3>1, <3>2
  <2>2. Waiting
    BY <1>b, <1>5 DEF RwUnlock
  <2>3. Held
    BY <1>0, <1>5 DEF RwUnlock, Held, RwSafe, RwExclusive, NoSelfWait,
       IsReader, InRead, InWrite, RwRuns
  <2> QED BY <1>c, <2>1, <2>2, <2>3
<1>6. CASE UNCHANGED rwVars
  BY <1>6 DEF rwVars, RwIInv, RwTypeOK, ReadEntries, Writing, RwSafe, RwExclusive, NoSelfWait,
     IsReader, InRead, InWrite
<1> QED BY <1>1, <1>2, <1>3, <1>4, <1>5, <1>6 DEF RwNext

\* The inductive invariant of the read-write lock holds: both counters are
\* the sizes of what they count (PthreadRwlockRdlock, PthreadRwlockWrlock,
\* PthreadRwlockUnlock).
THEOREM RwIInvHolds == RwSpec => []RwIInv
BY RwInitIInv, RwNextIInv, PTL DEF RwSpec

\* Readers and a writer never have the lock together, and nobody waits for
\* itself, for any number of threads.
THEOREM RwlockIsSafe == RwSpec => []RwSafe
<1>1. RwIInv => RwSafe
  BY DEF RwIInv
<1> QED BY <1>1, RwIInvHolds, PTL

\* While a writer waits no thread becomes a reader.
THEOREM RwlockDrains == RwSpec => ReadersDrain
<1> DEFINE A == waitingWriters > 0 =>
                  {t \in RwThreads : readers'[t] > 0 /\ writer # t}
                      \subseteq {t \in RwThreads : readers[t] > 0}
<1>1. RwIInv /\ [RwNext]_rwVars => [A]_rwVars
  <2> SUFFICES ASSUME RwIInv, RwNext, waitingWriters > 0,
                      NEW t \in RwThreads, readers'[t] > 0, writer # t
               PROVE  readers[t] > 0
    OBVIOUS
  <2>1. PICK u \in RwThreads :
           \/ ReadLock(u) \/ ReadAcquire(u) \/ ReadTimedOut(u)
           \/ WriteLock(u) \/ WriteAcquire(u) \/ WriteTimedOut(u)
           \/ (\E timed \in BOOLEAN : ReadBlock(u, timed) \/ WriteBlock(u, timed))
           \/ RwUnlock(u)
    BY DEF RwNext
  <2>2. readers \in [RwThreads -> 0..MaxReads] /\ waitingWriters \in Nat /\ MaxReads \in Nat
    BY RwAssumption, FS_CardinalityType DEF RwIInv, RwTypeOK, Writing
  <2> QED BY <2>1, <2>2 DEF ReadLock, ReadAcquire, ReadTimedOut, WriteLock, WriteAcquire,
       WriteTimedOut, ReadBlock, WriteBlock, RwUnlock, AddReader, MayRead, IsReader
<1>2. [][A]_rwVars <=> ReadersDrain
  BY DEF ReadersDrain
<1> HIDE DEF A
<1> QED BY <1>1, <1>2, RwIInvHolds, PTL DEF RwSpec

-----------------------------------------------------------------------------
(* Lazy initialisation.                                                     *)

\* One thread at most is between the start of the routine and its
\* publication, the state says so, and it is published after it has run.
OnceStates ==
    /\ onceState = "Needs" => /\ initRuns = 0
                              /\ \A t \in OnceThreads : onceCall[t] \in {"Idle", "Waiting"}
    /\ onceState # "Needs" => initRuns = 1
    /\ \A t \in OnceThreads :
          /\ onceCall[t] \in {"Init", "Publish"} =>
                /\ onceState \in {"InProgress", "Wait"}
                /\ \A u \in OnceThreads : onceCall[u] \in {"Init", "Publish"} => u = t
          /\ onceCall[t] \in {"Publish", "Returned"} => initDone
          /\ onceCall[t] = "Returned" => onceState = "Done"
    /\ onceState = "Done" => initDone

\* The thread in m_mutex is the one about to look again or to create, which
\* it does only while the word holds no object; users use what it holds.
StaticStates ==
    /\ \A t \in OnceThreads :
          /\ useCall[t] \in {"Look", "Create"} => t \in locked
          /\ useCall[t] = "Create" => ~IsObject(word)
          /\ useCall[t] = "Use" => IsObject(word) /\ using[t] = word
    /\ \A t, u \in locked : t = u

OnceIInv == OnceTypeOK /\ OnceStates /\ StaticStates

LEMMA OnceNextIInv == OnceIInv /\ [OnceNext]_onceVars => OnceIInv'
<1> SUFFICES ASSUME OnceIInv, [OnceNext]_onceVars PROVE OnceIInv'
  OBVIOUS
<1> USE OnceAssumption DEF oncePart, staticPart, Null, Adaptive
<1>0. OnceTypeOK /\ OnceStates /\ StaticStates
  BY DEF OnceIInv
<1>1. ASSUME NEW t \in OnceThreads,
             OnceStart(t) \/ OnceWait(t) \/ OnceDone(t) \/ OnceStep(t)
      PROVE  OnceIInv'
  <2>1. UNCHANGED staticPart
    BY <1>1 DEF OnceStart, OnceWait, OnceDone, OnceStep, OnceWake, OnceRoutine, OncePublish,
       OnceGoto
  <2>2. StaticStates'
    BY <1>0, <2>1 DEF StaticStates, IsObject
  <2>3. CASE OnceStart(t)
    BY <1>0, <2>1, <2>2, <2>3 DEF OnceStart, OnceGoto, OnceIInv, OnceTypeOK, OnceStates
  <2>4. CASE OnceWait(t) \/ OnceDone(t)
    BY <1>0, <2>1, <2>2, <2>4 DEF OnceWait, OnceDone, OnceGoto, OnceIInv, OnceTypeOK, OnceStates
  <2>5. CASE OnceWake(t)
    BY <1>0, <2>1, <2>2, <2>5 DEF OnceWake, OnceGoto, OnceIInv, OnceTypeOK, OnceStates
  <2>6. CASE OnceRoutine(t)
    BY <1>0, <2>1, <2>2, <2>6 DEF OnceRoutine, OnceGoto, OnceIInv, OnceTypeOK, OnceStates
  <2>7. CASE OncePublish(t)
    BY <1>0, <2>1, <2>2, <2>7 DEF OncePublish, OnceGoto, OnceIInv, OnceTypeOK, OnceStates
  <2> QED BY <1>1, <2>3, <2>4, <2>5, <2>6, <2>7 DEF OnceStep
<1>2. ASSUME UNCHANGED oncePart,
             /\ word' \in {Null, Adaptive} \cup 1..MaxObjects
             /\ locked' \subseteq OnceThreads
             /\ useCall' \in [OnceThreads -> {"Idle", "Lock", "Look", "Create", "Use"}]
             /\ using' \in [OnceThreads -> 0..MaxObjects]
             /\ created' \in 0..MaxObjects,
             StaticStates'
      PROVE  OnceIInv'
  BY <1>0, <1>2 DEF OnceIInv, OnceTypeOK, OnceStates
<1>3. ASSUME NEW t \in OnceThreads, Peek(t) PROVE OnceIInv'
  BY <1>0, <1>2, <1>3 DEF Peek, UseGoto, OnceTypeOK, StaticStates, IsObject
<1>4. ASSUME NEW t \in OnceThreads, EnterStatic(t) PROVE OnceIInv'
  BY <1>0, <1>2, <1>4 DEF EnterStatic, UseGoto, OnceTypeOK, StaticStates, IsObject
<1>5. ASSUME NEW t \in OnceThreads, LookAgain(t) PROVE OnceIInv'
  BY <1>0, <1>2, <1>5 DEF LookAgain, UseGoto, OnceTypeOK, StaticStates, IsObject
<1>6. ASSUME NEW t \in OnceThreads, CreateObject(t) PROVE OnceIInv'
  BY <1>0, <1>2, <1>6 DEF CreateObject, UseGoto, OnceTypeOK, StaticStates, IsObject
<1>7. ASSUME NEW t \in OnceThreads, UseObject(t) PROVE OnceIInv'
  BY <1>0, <1>2, <1>7 DEF UseObject, UseGoto, OnceTypeOK, StaticStates, IsObject
<1>8. CASE DestroyObject
  BY <1>0, <1>2, <1>8 DEF DestroyObject, OnceTypeOK, StaticStates, IsObject
<1>9. CASE UNCHANGED onceVars
  BY <1>0, <1>9 DEF onceVars, OnceIInv, OnceTypeOK, OnceStates, StaticStates, IsObject
<1> QED BY <1>1, <1>3, <1>4, <1>5, <1>6, <1>7, <1>8, <1>9 DEF OnceNext, StaticStep

LEMMA OnceInitIInv == OnceInit => OnceIInv
<1> SUFFICES ASSUME OnceInit PROVE OnceIInv
  OBVIOUS
<1>1. OnceTypeOK
  <2>0. initDone \in BOOLEAN /\ locked \subseteq OnceThreads
    BY DEF OnceInit
  <2>1. /\ onceState = "Needs" /\ initRuns \in Nat
        /\ word \in {Null, Adaptive} /\ created \in 0..MaxObjects
    BY OnceAssumption DEF OnceInit
  <2>2. /\ onceCall \in [OnceThreads -> {"Idle", "Waiting", "Init", "Publish", "Returned"}]
        /\ useCall \in [OnceThreads -> {"Idle", "Lock", "Look", "Create", "Use"}]
        /\ using \in [OnceThreads -> 0..MaxObjects]
    BY OnceAssumption DEF OnceInit
  <2> QED BY <2>0, <2>1, <2>2 DEF OnceTypeOK
<1>2. OnceStates
  BY DEF OnceInit, OnceStates
<1>3. StaticStates
  BY DEF OnceInit, StaticStates
<1> QED BY <1>1, <1>2, <1>3 DEF OnceIInv

\* The inductive invariant of first use holds (PthreadOnce and the making of
\* static objects).
THEOREM OnceIInvHolds == OnceSpec => []OnceIInv
BY OnceInitIInv, OnceNextIInv, PTL DEF OnceSpec

\* The routine runs once and nobody returns before it has; all users of a
\* statically initialised object use the same one.
THEOREM OnceIsOnce == OnceSpec => []FirstUseOnce
<1>1. OnceIInv => FirstUseOnce
  <2> SUFFICES ASSUME OnceIInv PROVE FirstUseOnce
    OBVIOUS
  <2>1. OnceExactly
    BY DEF OnceIInv, OnceTypeOK, OnceStates, OnceExactly
  <2>2. OneObject
    BY DEF OnceIInv, StaticStates, OneObject
  <2> QED BY <2>1, <2>2 DEF FirstUseOnce
<1> QED BY <1>1, OnceIInvHolds, PTL

-----------------------------------------------------------------------------
(* The names of event flags.                                                *)

\* A name stands for a live flag that has it; a live flag is referenced; a
\* flag that has not been made is nowhere.
FlagsIInv ==
    /\ FlagsTypeOK /\ FlagDeletedOnce
    /\ flagName \in [Flags -> FlagNames] /\ deleting \in [Flags -> Nat]
    /\ \A p \in published : p = <<flagName[p[2]], p[2]>> /\ p[2] \in live
    /\ \A f \in live : references[f] >= 1
    /\ \A f \in Flags : f > flagsMade => deleting[f] = 0

LEMMA FlagsNextIInv == FlagsIInv /\ [FlagsNext]_flagVars => FlagsIInv'
<1> SUFFICES ASSUME FlagsIInv, [FlagsNext]_flagVars PROVE FlagsIInv'
  OBVIOUS
<1> USE FlagAssumption DEF Flags
<1>0. /\ flagsMade \in 0..MaxFlags /\ live \subseteq 1..flagsMade
      /\ published \subseteq FlagNames \X Flags
      /\ references \in [Flags -> 0..MaxReferences] /\ FlagDeletedOnce
      /\ flagName \in [Flags -> FlagNames] /\ deleting \in [Flags -> Nat]
      /\ \A p \in published : p = <<flagName[p[2]], p[2]>> /\ p[2] \in live
      /\ \A f \in live : references[f] >= 1
      /\ \A f \in Flags : f > flagsMade => deleting[f] = 0
  BY DEF FlagsIInv, FlagsTypeOK
<1>1. CASE CreateFlag
  <2> DEFINE f == flagsMade + 1
  <2>1. /\ f \in Flags /\ flagsMade' = f /\ live' = live \cup {f} /\ f \notin live
        /\ references' = [references EXCEPT ![f] = 1] /\ UNCHANGED <<flagName, deleting>>
        /\ published' = published \/ published' = published \cup {<<flagName[f], f>>}
        /\ f \in Nat
    BY <1>0, <1>1 DEF CreateFlag
  <2> HIDE DEF f
  <2>2. /\ published' \subseteq FlagNames \X Flags
        /\ \A p \in published' : p = <<flagName[p[2]], p[2]>> /\ p[2] \in live'
    BY <1>0, <2>1
  <2>3. /\ live' \subseteq 1..flagsMade' /\ flagsMade' \in 0..MaxFlags
        /\ references' \in [Flags -> 0..MaxReferences] /\ \A g \in live' : references'[g] >= 1
    BY <1>0, <2>1 DEF f
  <2>4. \A g \in Flags : g > flagsMade' => deleting'[g] = 0
    BY <1>0, <2>1 DEF f
  <2>5. FlagDeletedOnce'
    <3> SUFFICES ASSUME NEW g \in 1..flagsMade'
                 PROVE  /\ deleting'[g] = (IF g \in live' THEN 0 ELSE 1)
                        /\ <<flagName'[g], g>> \in published' => g \in live'
      BY DEF FlagDeletedOnce
    <3>1. <<flagName'[g], g>> \in published' => g \in live'
      BY <2>2
    <3>2. deleting[f] = 0
      BY <1>0, <2>1 DEF f
    <3> QED BY <1>0, <2>1, <3>1, <3>2 DEF FlagDeletedOnce, f
  <2> QED BY <1>0, <2>1, <2>2, <2>3, <2>4, <2>5 DEF FlagsIInv, FlagsTypeOK
<1>2. ASSUME NEW n \in FlagNames, OpenFlag(n) PROVE FlagsIInv'
  <2>1. PICK p \in published : /\ references[p[2]] < MaxReferences
                               /\ references' = [references EXCEPT ![p[2]] = @ + 1]
    BY <1>2 DEF OpenFlag
  <2>2. p[2] \in Flags
    BY <1>0, <2>1
  <2>3. UNCHANGED <<flagsMade, flagName, live, published, deleting>>
    BY <1>2 DEF OpenFlag
  <2>4. references' \in [Flags -> 0..MaxReferences] /\ \A f \in live : references'[f] >= 1
    BY <1>0, <2>1, <2>2
  <2> QED BY <1>0, <2>3, <2>4 DEF FlagsIInv, FlagsTypeOK, FlagDeletedOnce
<1>3. ASSUME NEW f \in Flags, f \in live, Retire(f), UNCHANGED <<flagsMade, flagName>>,
             references' \in [Flags -> 0..MaxReferences],
             \A g \in live \ {f} : references'[g] = references[g]
      PROVE  FlagsIInv'
  <2>1. /\ published' \subseteq published /\ live' \subseteq live
        /\ \A p \in published' : p[2] # f
    BY <1>0, <1>3 DEF Retire, RemovePublishedName
  <2>2. deleting[f] = 0 /\ f \in 1..flagsMade
    BY <1>0, <1>3 DEF FlagDeletedOnce
  <2>3. FlagDeletedOnce'
    BY <1>0, <1>3, <2>1, <2>2 DEF Retire, FlagDeletedOnce
  <2>4. /\ deleting' \in [Flags -> Nat] /\ \A g \in Flags : g > flagsMade' => deleting'[g] = 0
    BY <1>0, <1>3, <2>2 DEF Retire
  <2> QED BY <1>0, <1>3, <2>1, <2>3, <2>4 DEF Retire, FlagsIInv, FlagsTypeOK
<1>4. ASSUME NEW f \in Flags, CloseFlag(f) PROVE FlagsIInv'
  <2>1. references' \in [Flags -> 0..MaxReferences] /\ f \in live
    BY <1>0, <1>4 DEF CloseFlag
  <2>2. CASE references[f] = 1
    <3>1. /\ Retire(f) /\ UNCHANGED <<flagsMade, flagName>>
          /\ \A g \in live \ {f} : references'[g] = references[g]
      BY <1>0, <1>4, <2>2 DEF CloseFlag
    <3> QED BY <1>3, <2>1, <3>1
  <2>3. CASE references[f] # 1
    <3>1. UNCHANGED <<flagsMade, flagName, published, live, deleting>>
      BY <1>4, <2>3 DEF CloseFlag
    <3>2. \A g \in live : references'[g] >= 1
      BY <1>0, <1>4, <2>1, <2>3 DEF CloseFlag
    <3> QED BY <1>0, <2>1, <3>1, <3>2 DEF FlagsIInv, FlagsTypeOK, FlagDeletedOnce
  <2> QED BY <2>2, <2>3
<1>5. ASSUME NEW f \in Flags, DeleteFlag(f) PROVE FlagsIInv'
  BY <1>0, <1>3, <1>5 DEF DeleteFlag
<1>6. CASE UNCHANGED flagVars
  BY <1>0, <1>6 DEF flagVars, FlagsIInv, FlagsTypeOK, FlagDeletedOnce
<1> QED BY <1>1, <1>2, <1>4, <1>5, <1>6 DEF FlagsNext

LEMMA FlagsInitIInv == FlagsInit => FlagsIInv
BY FlagAssumption DEF FlagsInit, FlagsIInv, FlagsTypeOK, FlagDeletedOnce, Flags

\* Every flag is deleted once, when the registry no longer leads to it.
THEOREM FlagsIInvHolds == FlagsSpec => []FlagsIInv
BY FlagsInitIInv, FlagsNextIInv, PTL DEF FlagsSpec

\* A name keeps resolving to its flag until that flag goes.
THEOREM NamesAreKept == FlagsSpec => NameKept
<1> DEFINE A == \A p \in published : p[2] \in live' => p \in published'
<1>1. FlagsIInv /\ [FlagsNext]_flagVars => [A]_flagVars
  <2> SUFFICES ASSUME FlagsIInv, FlagsNext, NEW p \in published, p[2] \in live'
               PROVE  p \in published'
    OBVIOUS
  <2> QED BY DEF FlagsNext, CreateFlag, OpenFlag, CloseFlag, DeleteFlag, Retire,
       RemovePublishedName, FlagsIInv
<1>2. [][A]_flagVars <=> NameKept
  BY DEF NameKept
<1> HIDE DEF A
<1> QED BY <1>1, <1>2, FlagsIInvHolds, PTL DEF FlagsSpec

-----------------------------------------------------------------------------
(* POSIX semaphores.                                                        *)

SemSleepers == {t \in SemThreads : semCall[t] \in Sleeping}

PosixIInv == PosixTypeOK /\ GuestCopyExact /\ IsFiniteSet(SemSleepers)

LEMMA PosixNextIInv == PosixIInv /\ [PosixNext]_semVars => PosixIInv'
<1> SUFFICES ASSUME PosixIInv, [PosixNext]_semVars PROVE PosixIInv'
  OBVIOUS
<1> USE SemAssumption
<1>0. /\ semLive \in BOOLEAN /\ semCount \in 0..SemValueMax
      /\ semCall \in [SemThreads -> {"Run"} \cup Sleeping]
      /\ semWaiters = Cardinality(SemSleepers) /\ IsFiniteSet(SemSleepers)
      /\ semWaiters \in Nat /\ GuestCopyExact
  BY FS_CardinalityType DEF PosixIInv, PosixTypeOK, SemSleepers
<1>a. ASSUME semLive' \in BOOLEAN, semCount' \in 0..SemValueMax,
             semCall' \in [SemThreads -> {"Run"} \cup Sleeping], SyncGuest,
             semWaiters' = Cardinality(SemSleepers'), IsFiniteSet(SemSleepers')
      PROVE  PosixIInv'
  BY <1>a DEF PosixIInv, PosixTypeOK, GuestCopyExact, SyncGuest, SemSleepers
<1>b. ASSUME UNCHANGED semCall PROVE SemSleepers' = SemSleepers
  BY <1>b DEF SemSleepers
<1>1. ASSUME NEW t \in SemThreads, Take(t) PROVE PosixIInv'
  BY <1>0, <1>a, <1>b, <1>1 DEF Take
<1>2. ASSUME NEW t \in SemThreads, NEW how \in {"Poll", "Timed"}, FallAsleep(t, how)
      PROVE  PosixIInv'
  <2>1. SemSleepers' = SemSleepers \cup {t} /\ t \notin SemSleepers
    BY <1>0, <1>2 DEF FallAsleep, SemSleepers, Sleeping
  <2>2. IsFiniteSet(SemSleepers') /\ Cardinality(SemSleepers') = semWaiters + 1
    BY <1>0, <2>1, FS_AddElement
  <2>3. semCall' \in [SemThreads -> {"Run"} \cup Sleeping]
    BY <1>0, <1>2 DEF FallAsleep, Sleeping
  <2> QED BY <1>0, <1>a, <1>2, <2>2, <2>3 DEF FallAsleep
<1>3. ASSUME NEW t \in SemThreads, WakeTake(t) \/ WakeTimedOut(t) PROVE PosixIInv'
  <2>1. SemSleepers' = SemSleepers \ {t} /\ t \in SemSleepers
    BY <1>0, <1>3 DEF WakeTake, WakeTimedOut, SemSleepers, Sleeping
  <2>2. IsFiniteSet(SemSleepers') /\ Cardinality(SemSleepers') = semWaiters - 1
    BY <1>0, <2>1, FS_RemoveElement
  <2>3. semCall' \in [SemThreads -> {"Run"} \cup Sleeping]
    BY <1>0, <1>3 DEF WakeTake, WakeTimedOut
  <2> QED BY <1>0, <1>a, <1>3, <2>2, <2>3 DEF WakeTake, WakeTimedOut
<1>4. ASSUME NEW t \in SemThreads, NEW how \in {"Poll", "Timed"}, WakeAgain(t, how)
      PROVE  PosixIInv'
  <2>1. SemSleepers' = SemSleepers
    BY <1>0, <1>4 DEF WakeAgain, SemSleepers, Sleeping
  <2>3. semCall' \in [SemThreads -> {"Run"} \cup Sleeping]
    BY <1>0, <1>4 DEF WakeAgain, Sleeping
  <2> QED BY <1>0, <1>a, <1>4, <2>1, <2>3 DEF WakeAgain
<1>5. CASE Post
  <2>1. \/ UNCHANGED semCall
        \/ \E t \in SemThreads : /\ semCall[t] \in {"Poll", "Timed"}
                                 /\ semCall' = [semCall EXCEPT ![t] = "Called"]
    BY <1>5 DEF Post
  <2>2. SemSleepers' = SemSleepers
    BY <1>0, <2>1 DEF SemSleepers, Sleeping
  <2>3. semCall' \in [SemThreads -> {"Run"} \cup Sleeping]
    BY <1>0, <2>1 DEF Sleeping
  <2> QED BY <1>0, <1>a, <1>5, <2>2, <2>3 DEF Post
<1>6. CASE SemDestroy \/ \E v \in 0..SemValueMax : SemInit(v)
  <2>1. UNCHANGED semCall /\ SemSleepers = {} /\ semWaiters' = 0
    BY <1>6 DEF SemDestroy, SemInit, Unused, SemSleepers, Sleeping
  <2>2. semLive' \in BOOLEAN /\ SyncGuest
    BY <1>6 DEF SemDestroy, SemInit
  <2>3. semCount' \in 0..SemValueMax
    BY <1>6 DEF SemDestroy, SemInit
  <2>4. semWaiters' = Cardinality(SemSleepers') /\ IsFiniteSet(SemSleepers')
    BY <1>b, <2>1, FS_EmptySet
  <2> QED BY <1>0, <1>a, <2>1, <2>2, <2>3, <2>4
<1>7. CASE UNCHANGED semVars
  BY <1>0, <1>b, <1>7 DEF semVars, PosixIInv, PosixTypeOK, GuestCopyExact, SemSleepers
<1> QED BY <1>1, <1>2, <1>3, <1>4, <1>5, <1>6, <1>7 DEF PosixNext

LEMMA PosixInitIInv == PosixInit => PosixIInv
<1> SUFFICES ASSUME PosixInit PROVE PosixIInv
  OBVIOUS
<1>1. SemSleepers = {}
  BY DEF PosixInit, SemSleepers, Sleeping
<1> QED BY <1>1, FS_EmptySet, SemAssumption DEF PosixInit, PosixIInv, PosixTypeOK,
   GuestCopyExact, SemSleepers

\* The inductive invariant of the POSIX semaphore holds: types, and the copy
\* of the count in guest memory is exact (sem_post, sem_wait).
THEOREM PosixIInvHolds == PosixSpec => []PosixIInv
BY PosixInitIInv, PosixNextIInv, PTL DEF PosixSpec

-----------------------------------------------------------------------------
(* Waiting on an address.                                                   *)

\* Nobody has observed a generation that is still to come, and every wake that
\* has notified or is to notify has changed the generation before.
AddrIInv ==
    /\ AddrTypeOK /\ WakesReach
    /\ \A t \in AddrThreads : observed[t] <= generation /\ notifiedBy[t] <= generation
    /\ \A g \in unsent \cup ofAll : g <= generation

LEMMA AddrNextIInv == AddrIInv /\ [AddrNext]_addrVars => AddrIInv'
<1> SUFFICES ASSUME AddrIInv, [AddrNext]_addrVars PROVE AddrIInv'
  OBVIOUS
<1> USE AddrAssumption DEF AddrIInv, AddrTypeOK, WakesReach, Asleep, wakeVars
<1>1. ASSUME NEW t \in AddrThreads, GuestLooks(t) PROVE AddrIInv'
  BY <1>1 DEF GuestLooks
<1>2. ASSUME NEW t \in AddrThreads, AddrWait(t) PROVE AddrIInv'
  BY <1>2 DEF AddrWait
<1>3. ASSUME NEW t \in AddrThreads, AddrWoken(t) \/ AddrTimedOut(t) PROVE AddrIInv'
  <2>1. /\ addrAt' = [addrAt EXCEPT ![t] = "Look"]
        /\ notifiedBy' = [notifiedBy EXCEPT ![t] = 0]
        /\ UNCHANGED <<generation, unsent, ofAll, observed, go>>
    BY <1>3 DEF AddrWoken, AddrTimedOut, AddrLeave
  <2>2. AddrTypeOK'
    BY <2>1
  <2>3. \A r \in AddrThreads :
          /\ addrAt'[r] = (IF r = t THEN "Look" ELSE addrAt[r])
          /\ notifiedBy'[r] = (IF r = t THEN 0 ELSE notifiedBy[r])
    BY <2>1
  <2>4. WakesReach'
    BY <2>1, <2>3
  <2>5. /\ \A r \in AddrThreads : observed'[r] <= generation' /\ notifiedBy'[r] <= generation'
        /\ \A g \in unsent' \cup ofAll' : g <= generation'
    BY <2>1, <2>3
  <2> QED BY <2>2, <2>4, <2>5
<1>4. ASSUME NEW t \in AddrThreads, AddrSleepsOn(t) PROVE AddrIInv'
  BY <1>4 DEF AddrSleepsOn
<1>5. CASE GuestSets
  BY <1>5 DEF GuestSets
\* A new wake is larger than what anybody has observed and than every earlier
\* wake, and it has not notified yet.
<1>6. ASSUME NEW n \in {0, 1}, WakeBegin(n) PROVE AddrIInv'
  <2>1. /\ generation' = generation + 1 /\ generation' \in 1..MaxGeneration
        /\ unsent' = unsent \cup {generation'} /\ ofAll' \subseteq ofAll \cup {generation'}
        /\ UNCHANGED <<observed, addrAt, notifiedBy, go>>
    BY <1>6 DEF WakeBegin
  <2>2. ofAll' \ unsent' \subseteq ofAll \ unsent
    BY <2>1
  <2>3. AddrTypeOK'
    BY <2>1
  <2>4. WakesReach'
    BY <2>1, <2>2
  <2>5. /\ \A t \in AddrThreads : observed'[t] <= generation' /\ notifiedBy'[t] <= generation'
        /\ \A g \in unsent' \cup ofAll' : g <= generation'
    BY <2>1
  <2> QED BY <2>3, <2>4, <2>5
\* A notification finds among the sleepers those from before its wake, whose
\* predicate holds, and later ones, who observed it.
<1>7. ASSUME NEW g \in unsent, WakeNotify(g) PROVE AddrIInv'
  <2>1. PICK s \in SUBSET Choosable :
          /\ g \in ofAll => s = Choosable
          /\ notifiedBy' = [t \in AddrThreads |-> IF t \in s THEN g ELSE notifiedBy[t]]
    BY <1>7 DEF WakeNotify
  <2>2. /\ unsent' = unsent \ {g}
        /\ UNCHANGED <<generation, ofAll, observed, addrAt, go>>
        /\ g \in 1..MaxGeneration /\ g <= generation
    BY <1>7 DEF WakeNotify
  <2>3. \A t \in AddrThreads :
          /\ notifiedBy'[t] = (IF t \in s THEN g ELSE notifiedBy[t])
          /\ t \in s => t \in Asleep
    BY <2>1 DEF Choosable
  <2>4. AddrTypeOK'
    BY <2>1, <2>2
  <2>5. \A t \in AddrThreads : notifiedBy'[t] # 0 =>
          /\ addrAt'[t] = "Asleep"
          /\ generation' = observed'[t] => observed'[t] >= notifiedBy'[t]
    BY <2>2, <2>3
  <2>6. ASSUME NEW h \in ofAll' \ unsent', NEW t \in Asleep', observed'[t] < h
        PROVE notifiedBy'[t] # 0
    <3>1. CASE h = g
      <4>1. t \in s \/ notifiedBy[t] # 0
        BY <2>1, <2>2, <2>6, <3>1 DEF Choosable
      <4> QED BY <2>2, <2>3, <2>6, <4>1
    <3>2. CASE h # g
      BY <2>2, <2>3, <2>6, <3>2
    <3> QED BY <3>1, <3>2
  <2>7. /\ \A t \in AddrThreads : observed'[t] <= generation' /\ notifiedBy'[t] <= generation'
        /\ \A h \in unsent' \cup ofAll' : h <= generation'
    BY <2>2, <2>3
  <2> QED BY <2>4, <2>5, <2>6, <2>7
<1>8. CASE UNCHANGED addrVars
  BY <1>8 DEF addrVars
<1> QED BY <1>1, <1>2, <1>3, <1>4, <1>5, <1>6, <1>7, <1>8 DEF AddrNext

LEMMA AddrInitIInv == AddrInit => AddrIInv
<1> SUFFICES ASSUME AddrInit PROVE AddrIInv
  OBVIOUS
<1>1. /\ go \in BOOLEAN /\ unsent = {} /\ ofAll = {}
      /\ \A t \in AddrThreads : notifiedBy[t] = 0
  BY DEF AddrInit
<1>2. /\ generation \in 0..MaxGeneration /\ observed \in [AddrThreads -> 0..MaxGeneration]
      /\ addrAt \in [AddrThreads -> {"Look", "Call", "Asleep", "Done"}]
      /\ notifiedBy \in [AddrThreads -> 0..MaxGeneration]
      /\ \A t \in AddrThreads : observed[t] <= generation /\ notifiedBy[t] <= generation
  BY AddrAssumption DEF AddrInit
<1>3. WakesReach
  BY <1>1 DEF WakesReach
<1> QED BY <1>1, <1>2, <1>3 DEF AddrIInv, AddrTypeOK

\* The inductive invariant of waiting on an address holds: types, and a wake
\* reaches those who slept before it (src/src/kernel/syncOnAddress.cpp).
THEOREM AddrIInvHolds == AddrSpec => []AddrIInv
BY AddrInitIInv, AddrNextIInv, PTL DEF AddrSpec

-----------------------------------------------------------------------------
(* Thread-specific values.                                                  *)

CallRecords == KeyThreads \X (0..Iterations) \X ((1..MaxKeys) \X (1..MaxValues))

KeysTypes ==
    /\ KeysTypeOK
    /\ hasDtor \in [1..MaxKeys -> BOOLEAN] /\ keysMade \in 0..MaxKeys
    /\ valuesMade \in 0..MaxValues /\ valueOf \in [1..MaxValues -> 0..MaxKeys]
    /\ calls \subseteq CallRecords

\* A value is stored under the key it was set for, which is still in its slot,
\* and it is not stored twice.
ValuesStored ==
    /\ \A s \in specific :
          s.v # 0 => s.v <= valuesMade /\ slot[s.k] # 0 /\ valueOf[s.v] = slot[s.k]
    /\ \A s, r \in specific : s.v = r.v /\ s.v # 0 => s = r

\* A value that was collected was set under the key it was collected with,
\* is stored no more, and is on the list of one thread only.
ValuesListed ==
    \A t \in KeyThreads : \A c \in exits[t].list :
        /\ c[2] <= valuesMade /\ valueOf[c[2]] = c[1]
        /\ \A s \in specific : s.v # c[2]
        /\ \A u \in KeyThreads : u # t => \A d \in exits[u].list : d[2] # c[2]

\* A value whose destructor was called is neither stored nor on a list.
ValuesCalled ==
    \A c \in calls :
        /\ c[3][2] <= valuesMade
        /\ \A s \in specific : s.v # c[3][2]
        /\ \A t \in KeyThreads : \A d \in exits[t].list : d[2] # c[3][2]

KeysIInv ==
    /\ KeysTypes /\ ValuesStored /\ ValuesListed /\ ValuesCalled
    /\ ValuesDestroyed

LEMMA KeysInitIInv == KeysInit => KeysIInv
<1> SUFFICES ASSUME KeysInit PROVE KeysIInv
  OBVIOUS
<1> USE KeyAssumption DEF KeysInit, Alive
<1>1. /\ slot \in [KeySlots -> 0..MaxKeys]
      /\ hasDtor \in [1..MaxKeys -> BOOLEAN] /\ keysMade \in 0..MaxKeys
      /\ valuesMade \in 0..MaxValues /\ valueOf \in [1..MaxValues -> 0..MaxKeys]
  OBVIOUS
<1>2. exits \in [KeyThreads -> [at : {"Run", "Collect", "Call", "Done"},
                                 pass : 0..Iterations,
                                 list : SUBSET ((1..MaxKeys) \X (1..MaxValues))]]
  OBVIOUS
<1>3. KeysTypes
  BY <1>1, <1>2 DEF KeysTypes, KeysTypeOK
<1>4. ValuesStored /\ ValuesListed /\ ValuesCalled
  BY DEF ValuesStored, ValuesListed, ValuesCalled
<1>5. ValuesDestroyed
  BY DEF ValuesDestroyed, DestroyedOnce, NothingDueLeft, Due
<1> QED BY <1>3, <1>4, <1>5 DEF KeysIInv

ExitStates == [at : {"Run", "Collect", "Call", "Done"}, pass : 0..Iterations,
               list : SUBSET ((1..MaxKeys) \X (1..MaxValues))]

LEMMA KeysTypesUsed ==
    ASSUME KeysIInv
    PROVE  /\ slot \in [KeySlots -> 0..MaxKeys]
           /\ specific \subseteq [k : KeySlots, t : KeyThreads, v : 0..MaxValues]
           /\ \A s, r \in specific : s.k = r.k /\ s.t = r.t => s = r
           /\ exits \in [KeyThreads -> ExitStates]
           /\ hasDtor \in [1..MaxKeys -> BOOLEAN] /\ keysMade \in 0..MaxKeys
           /\ valuesMade \in 0..MaxValues /\ valueOf \in [1..MaxValues -> 0..MaxKeys]
           /\ calls \subseteq CallRecords
           /\ MaxValues \in Nat /\ MaxKeys \in Nat /\ Iterations \in Nat
BY KeyAssumption DEF KeysIInv, KeysTypes, KeysTypeOK, ExitStates

\* Forgetting stored values, as KeyCreate, KeyDelete and the last pass do,
\* disturbs nothing, nor does taking the key out of an empty slot.
LEMMA ValuesForgotten ==
    ASSUME KeysIInv, specific' \subseteq specific, slot' \in [KeySlots -> 0..MaxKeys],
           \A s \in specific' : slot'[s.k] = slot[s.k],
           exits' \in [KeyThreads -> ExitStates],
           \A t \in KeyThreads : exits'[t].list \subseteq exits[t].list,
           \A t \in KeyThreads : (exits'[t].at = "Done" /\ exits[t].at # "Done") =>
              \A s \in specific' : s.t # t,
           keysMade' \in 0..MaxKeys, UNCHANGED <<hasDtor, valuesMade, valueOf, calls>>
    PROVE  KeysIInv'
<1> USE KeysTypesUsed
<1>1. KeysTypes'
  BY DEF KeysTypes, KeysTypeOK, ExitStates, CallRecords
<1>2. ValuesStored'
  BY DEF KeysIInv, ValuesStored
<1>3. ValuesListed'
  BY DEF KeysIInv, ValuesListed
<1>4. ValuesCalled'
  BY DEF KeysIInv, ValuesCalled
<1>5. DestroyedOnce'
  BY DEF KeysIInv, ValuesDestroyed, DestroyedOnce
<1>6. NothingDueLeft'
  BY DEF KeysIInv, ValuesDestroyed, NothingDueLeft, Due
<1> QED BY <1>1, <1>2, <1>3, <1>4, <1>5, <1>6 DEF KeysIInv, ValuesDestroyed

LEMMA SetSpecificStep ==
    ASSUME KeysIInv, NEW t \in KeyThreads, NEW k \in KeySlots, SetSpecific(t, k)
    PROVE  KeysIInv'
<1> DEFINE v == valuesMade + 1
           new == [k |-> k, t |-> t, v |-> v]
<1>0. /\ v \in 1..MaxValues /\ valuesMade' = v /\ slot[k] # 0 /\ slot[k] \in 1..MaxKeys
      /\ valueOf' = [valueOf EXCEPT ![v] = slot[k]]
      /\ specific' = {s \in specific : s.k # k \/ s.t # t} \cup {new}
      /\ UNCHANGED <<slot, hasDtor, keysMade, exits, calls>>
      /\ exits[t].at \in {"Run", "Call"} /\ v > valuesMade
      /\ new \in [k : KeySlots, t : KeyThreads, v : 0..MaxValues]
      /\ new.k = k /\ new.t = t /\ new.v = v
  BY KeysTypesUsed DEF SetSpecific
<1> HIDE DEF new
<1>a. \A s \in specific : s.v # v /\ s.v \in Nat
  BY <1>0, KeysTypesUsed DEF KeysIInv, ValuesStored
<1>b. \A u \in KeyThreads : \A c \in exits[u].list : c[2] # v /\ c[2] \in 1..MaxValues
  <2>1. \A u \in KeyThreads : exits[u].list \subseteq (1..MaxKeys) \X (1..MaxValues)
    BY KeysTypesUsed DEF ExitStates
  <2> QED BY <1>0, <2>1, KeysTypesUsed DEF KeysIInv, ValuesListed
<1>c. \A c \in calls : c[3][2] # v /\ c[3][2] \in 1..MaxValues
  BY <1>0, KeysTypesUsed DEF KeysIInv, ValuesCalled, CallRecords
<1>1. KeysTypes'
  <2>1. specific' \subseteq [k : KeySlots, t : KeyThreads, v : 0..MaxValues]
    BY <1>0, KeysTypesUsed
  <2>2. \A s, r \in specific' : s.k = r.k /\ s.t = r.t => s = r
    BY <1>0, KeysTypesUsed
  <2>3. valueOf' \in [1..MaxValues -> 0..MaxKeys] /\ valuesMade' \in 0..MaxValues
    BY <1>0, KeysTypesUsed
  <2> QED BY <1>0, <2>1, <2>2, <2>3, KeysTypesUsed DEF KeysTypes, KeysTypeOK, ExitStates
<1>2. ValuesStored'
  <2>1. \A s \in specific : s.v # 0 => s.v <= valuesMade /\ slot[s.k] # 0 /\ valueOf[s.v] = slot[s.k]
    BY DEF KeysIInv, ValuesStored
  <2>2. \A s \in specific : s.v # 0 => /\ s.v <= v /\ slot[s.k] # 0
                                       /\ valueOf'[s.v] = slot[s.k]
    BY <1>0, <1>a, <2>1, KeysTypesUsed
  <2>3. valueOf'[v] = slot[k]
    BY <1>0, KeysTypesUsed
  <2>4. \A s, r \in specific : s.v = r.v /\ s.v # 0 => s = r
    BY DEF KeysIInv, ValuesStored
  <2> QED BY <1>0, <1>a, <2>2, <2>3, <2>4 DEF ValuesStored
<1>3. ValuesListed'
  <2> SUFFICES ASSUME NEW u \in KeyThreads, NEW c \in exits[u].list
               PROVE  /\ c[2] <= v /\ valueOf'[c[2]] = c[1]
                      /\ \A s \in specific' : s.v # c[2]
                      /\ \A w \in KeyThreads : w # u => \A d \in exits[w].list : d[2] # c[2]
    BY <1>0 DEF ValuesListed
  <2>1. /\ c[2] <= valuesMade /\ valueOf[c[2]] = c[1]
        /\ \A s \in specific : s.v # c[2]
        /\ \A w \in KeyThreads : w # u => \A d \in exits[w].list : d[2] # c[2]
    BY DEF KeysIInv, ValuesListed
  <2> QED BY <1>0, <1>b, <2>1, KeysTypesUsed
<1>4. ValuesCalled'
  BY <1>0, <1>c, KeysTypesUsed DEF KeysIInv, ValuesCalled
<1>5. DestroyedOnce'
  BY <1>0, <1>c, KeysTypesUsed DEF KeysIInv, ValuesDestroyed, DestroyedOnce
<1>6. NothingDueLeft'
  BY <1>0 DEF KeysIInv, ValuesDestroyed, NothingDueLeft, Due
<1> QED BY <1>1, <1>2, <1>3, <1>4, <1>5, <1>6 DEF KeysIInv, ValuesDestroyed

LEMMA CollectStep ==
    ASSUME KeysIInv, NEW t \in KeyThreads, Collect(t) PROVE KeysIInv'
<1> DEFINE new == {<<slot[s.k], s.v>> : s \in Due(t)}
           nulled == {[s EXCEPT !.v = 0] : s \in Due(t)}
<1>0. /\ specific' = (specific \ Due(t)) \cup nulled
      /\ UNCHANGED <<slot, hasDtor, keysMade, valuesMade, valueOf, calls>>
      /\ exits[t].at = "Collect"
  BY DEF Collect, Nulled
<1>a. \A s \in Due(t) : /\ s \in specific /\ s.t = t /\ s.v \in 1..MaxValues
                        /\ slot[s.k] \in 1..MaxKeys /\ s.k \in KeySlots
                        /\ s.v <= valuesMade /\ valueOf[s.v] = slot[s.k]
  BY KeysTypesUsed DEF Due, KeysIInv, ValuesStored
<1>b. new \subseteq (1..MaxKeys) \X (1..MaxValues)
  BY <1>a
<1>c. \A r \in nulled : /\ r.v = 0 /\ r \in [k : KeySlots, t : KeyThreads, v : 0..MaxValues]
                        /\ \E s \in Due(t) : r.k = s.k /\ r.t = s.t
                                              /\ r = [s EXCEPT !.v = 0]
  <2> SUFFICES ASSUME NEW r \in nulled
               PROVE  /\ r.v = 0 /\ r \in [k : KeySlots, t : KeyThreads, v : 0..MaxValues]
                      /\ \E s \in Due(t) : r.k = s.k /\ r.t = s.t /\ r = [s EXCEPT !.v = 0]
    OBVIOUS
  <2>1. PICK s \in Due(t) : r = [s EXCEPT !.v = 0]
    OBVIOUS
  <2>2. s \in [k : KeySlots, t : KeyThreads, v : 0..MaxValues] /\ MaxValues \in Nat
    BY <1>a, <2>1, KeysTypesUsed
  <2>3. /\ r.v = 0 /\ r \in [k : KeySlots, t : KeyThreads, v : 0..MaxValues]
        /\ r.k = s.k /\ r.t = s.t
    BY <2>1, <2>2
  <2> QED BY <2>1, <2>3
<1>d. /\ exits'[t].list \subseteq new /\ exits' \in [KeyThreads -> ExitStates]
      /\ exits'[t].at = "Done" => Due(t) = {}
      /\ \A u \in KeyThreads \ {t} : exits'[u] = exits[u]
  <2>1. CASE Due(t) = {}
    <3>1. exits' = [exits EXCEPT ![t] = [at |-> "Done", pass |-> 0, list |-> {}]]
      BY <2>1 DEF Collect
    <3>2. [at |-> "Done", pass |-> 0, list |-> {}] \in ExitStates
      BY KeysTypesUsed DEF ExitStates
    <3> QED BY <2>1, <3>1, <3>2, KeysTypesUsed
  <2>2. CASE Due(t) # {}
    <3> HIDE DEF new
    <3>1. exits' = [exits EXCEPT ![t] = [at |-> "Call", pass |-> exits[t].pass, list |-> new]]
      BY <2>2 DEF Collect, new
    <3>2. [at |-> "Call", pass |-> exits[t].pass, list |-> new] \in ExitStates
      BY <1>b, KeysTypesUsed DEF ExitStates
    <3> QED BY <3>1, <3>2, KeysTypesUsed
  <2> QED BY <2>1, <2>2
<1>e. \A c \in new : \E s \in Due(t) : c[1] = slot[s.k] /\ c[2] = s.v
  OBVIOUS
<1> HIDE DEF new, nulled
<1>f. \A s \in specific' : \/ s \in specific /\ s \notin Due(t)
                          \/ s.v = 0
  BY <1>0, <1>c
<1>1. KeysTypes'
  <2>1. specific' \subseteq [k : KeySlots, t : KeyThreads, v : 0..MaxValues]
    BY <1>0, <1>c, KeysTypesUsed
  <2>2. \A s, r \in specific' : s.k = r.k /\ s.t = r.t => s = r
    <3> SUFFICES ASSUME NEW s \in specific', NEW r \in specific', s.k = r.k, s.t = r.t
                 PROVE  s = r
      OBVIOUS
    <3>1. ASSUME NEW x \in specific'
          PROVE  \E y \in specific : /\ y.k = x.k /\ y.t = x.t
                                     /\ y \in Due(t) => x = [y EXCEPT !.v = 0]
                                     /\ y \notin Due(t) => x = y
      BY <1>0, <1>a, <1>c
    <3>2. PICK y \in specific : /\ y.k = s.k /\ y.t = s.t
                                /\ y \in Due(t) => s = [y EXCEPT !.v = 0]
                                /\ y \notin Due(t) => s = y
      BY <3>1
    <3>3. PICK z \in specific : /\ z.k = r.k /\ z.t = r.t
                                /\ z \in Due(t) => r = [z EXCEPT !.v = 0]
                                /\ z \notin Due(t) => r = z
      BY <3>1
    <3>4. y = z
      BY <3>2, <3>3, KeysTypesUsed
    <3> QED BY <3>2, <3>3, <3>4
  <2> QED BY <1>0, <1>d, <2>1, <2>2, KeysTypesUsed DEF KeysTypes, KeysTypeOK, ExitStates
<1>2. ValuesStored'
  BY <1>0, <1>f DEF KeysIInv, ValuesStored
<1>3. ValuesListed'
  <2> SUFFICES ASSUME NEW u \in KeyThreads, NEW c \in exits'[u].list
               PROVE  /\ c[2] <= valuesMade /\ valueOf[c[2]] = c[1]
                      /\ \A s \in specific' : s.v # c[2]
                      /\ \A w \in KeyThreads : w # u => \A d \in exits'[w].list : d[2] # c[2]
    BY <1>0 DEF ValuesListed
  <2>0. c[2] \in 1..MaxValues
    BY <1>d DEF ExitStates
  <2>1. CASE u = t
    <3>1. PICK s \in Due(t) : c[1] = slot[s.k] /\ c[2] = s.v
      BY <1>d, <1>e, <2>1
    <3>2. c[2] <= valuesMade /\ valueOf[c[2]] = c[1] /\ s \in specific
      BY <1>a, <3>1
    <3>3. ASSUME NEW r \in specific' PROVE r.v # c[2]
      BY <1>f, <2>0, <3>1, <3>2 DEF KeysIInv, ValuesStored
    <3>4. ASSUME NEW w \in KeyThreads, w # u, NEW d \in exits'[w].list PROVE d[2] # c[2]
      BY <1>d, <2>1, <3>1, <3>2, <3>4 DEF KeysIInv, ValuesListed
    <3> QED BY <3>2, <3>3, <3>4
  <2>2. CASE u # t
    <3>1. c \in exits[u].list
      BY <1>d, <2>2
    <3>2. /\ c[2] <= valuesMade /\ valueOf[c[2]] = c[1]
          /\ \A s \in specific : s.v # c[2]
          /\ \A w \in KeyThreads : w # u => \A d \in exits[w].list : d[2] # c[2]
      BY <3>1 DEF KeysIInv, ValuesListed
    <3>3. ASSUME NEW r \in specific' PROVE r.v # c[2]
      BY <1>f, <2>0, <3>2
    <3>4. ASSUME NEW w \in KeyThreads, w # u, NEW d \in exits'[w].list PROVE d[2] # c[2]
      <4>1. CASE w = t
        BY <1>a, <1>d, <1>e, <3>2, <3>4, <4>1
      <4>2. CASE w # t
        BY <1>d, <3>2, <3>4, <4>2
      <4> QED BY <4>1, <4>2
    <3> QED BY <3>2, <3>3, <3>4
  <2> QED BY <2>1, <2>2
<1>4. ValuesCalled'
  <2> SUFFICES ASSUME NEW c \in calls
               PROVE  /\ c[3][2] <= valuesMade
                      /\ \A s \in specific' : s.v # c[3][2]
                      /\ \A u \in KeyThreads : \A d \in exits'[u].list : d[2] # c[3][2]
    BY <1>0 DEF ValuesCalled
  <2>0. c[3][2] \in 1..MaxValues
    BY KeysTypesUsed DEF CallRecords
  <2>1. /\ c[3][2] <= valuesMade
        /\ \A s \in specific : s.v # c[3][2]
        /\ \A u \in KeyThreads : \A d \in exits[u].list : d[2] # c[3][2]
    BY DEF KeysIInv, ValuesCalled
  <2>2. ASSUME NEW s \in specific' PROVE s.v # c[3][2]
    BY <1>f, <2>0, <2>1
  <2>3. ASSUME NEW u \in KeyThreads, NEW d \in exits'[u].list PROVE d[2] # c[3][2]
    <3>1. CASE u = t
      BY <1>a, <1>d, <1>e, <2>1, <2>3, <3>1
    <3>2. CASE u # t
      BY <1>d, <2>1, <2>3, <3>2
    <3> QED BY <3>1, <3>2
  <2> QED BY <2>1, <2>2, <2>3
<1>5. DestroyedOnce'
  BY <1>0 DEF KeysIInv, ValuesDestroyed, DestroyedOnce
<1>6. NothingDueLeft'
  <2> SUFFICES ASSUME NEW u \in KeyThreads, exits'[u].at = "Done" PROVE Due(u)' = {}
    BY DEF NothingDueLeft
  <2>1. Due(u)' \subseteq Due(u) \ Due(t)
    BY <1>0, <1>f DEF Due
  <2>2. Due(u) \ Due(t) = {}
    BY <1>d DEF KeysIInv, ValuesDestroyed, NothingDueLeft
  <2> QED BY <2>1, <2>2
<1> QED BY <1>1, <1>2, <1>3, <1>4, <1>5, <1>6 DEF KeysIInv, ValuesDestroyed

LEMMA CallDestructorStep ==
    ASSUME KeysIInv, NEW t \in KeyThreads, CallDestructor(t) PROVE KeysIInv'
<1>0. PICK c \in exits[t].list :
         /\ calls' = calls \cup {<<t, exits[t].pass, c>>}
         /\ exits' = [exits EXCEPT ![t].list = exits[t].list \ {c}]
  BY DEF CallDestructor
<1>a. /\ UNCHANGED <<slot, hasDtor, keysMade, specific, valuesMade, valueOf>>
      /\ exits[t].at = "Call"
  BY DEF CallDestructor
<1>b. exits[t] \in ExitStates /\ c \in (1..MaxKeys) \X (1..MaxValues)
  BY <1>0, KeysTypesUsed DEF ExitStates
<1>c. /\ exits' \in [KeyThreads -> ExitStates] /\ exits'[t].at = "Call"
      /\ exits'[t].list = exits[t].list \ {c}
      /\ \A u \in KeyThreads \ {t} : exits'[u] = exits[u]
  <2>1. [exits[t] EXCEPT !.list = exits[t].list \ {c}] \in ExitStates
    BY <1>a, <1>b DEF ExitStates
  <2>2. exits' = [exits EXCEPT ![t] = [exits[t] EXCEPT !.list = exits[t].list \ {c}]]
    BY <1>0, KeysTypesUsed
  <2>3. /\ [exits[t] EXCEPT !.list = exits[t].list \ {c}].at = "Call"
        /\ [exits[t] EXCEPT !.list = exits[t].list \ {c}].list = exits[t].list \ {c}
    BY <1>a, <1>b DEF ExitStates
  <2> QED BY <2>1, <2>2, <2>3, KeysTypesUsed
<1>d. /\ c[2] <= valuesMade /\ valueOf[c[2]] = c[1]
      /\ \A s \in specific : s.v # c[2]
      /\ \A u \in KeyThreads : u # t => \A d \in exits[u].list : d[2] # c[2]
  BY <1>0 DEF KeysIInv, ValuesListed
<1>e. \A d \in exits[t].list : d[2] = c[2] => d = c
  <2> SUFFICES ASSUME NEW d \in exits[t].list, d[2] = c[2] PROVE d = c
    OBVIOUS
  <2>1. d \in (1..MaxKeys) \X (1..MaxValues) /\ valueOf[d[2]] = d[1]
    BY <1>b DEF KeysIInv, ValuesListed, ExitStates
  <2> QED BY <1>b, <1>d, <2>1
<1>1. KeysTypes'
  <2>1. <<t, exits[t].pass, c>> \in CallRecords
    BY <1>b DEF CallRecords, ExitStates
  <2>2. calls' \subseteq CallRecords
    BY <1>0, <2>1, KeysTypesUsed
  <2> QED BY <1>a, <1>c, <2>2, KeysTypesUsed DEF KeysTypes, KeysTypeOK, ExitStates, CallRecords
<1>2. ValuesStored'
  BY <1>a DEF KeysIInv, ValuesStored
<1>3. ValuesListed'
  BY <1>a, <1>c DEF KeysIInv, ValuesListed
<1>4. ValuesCalled'
  <2> SUFFICES ASSUME NEW x \in calls'
               PROVE  /\ x[3][2] <= valuesMade
                      /\ \A s \in specific : s.v # x[3][2]
                      /\ \A u \in KeyThreads : \A d \in exits'[u].list : d[2] # x[3][2]
    BY <1>a DEF ValuesCalled
  <2>1. CASE x = <<t, exits[t].pass, c>>
    <3>1. x[3] = c
      BY <2>1
    <3>2. ASSUME NEW u \in KeyThreads, NEW d \in exits'[u].list PROVE d[2] # c[2]
      BY <1>c, <1>d, <1>e, <3>2
    <3> QED BY <1>d, <3>1, <3>2
  <2>2. CASE x \in calls
    <3>1. \A u \in KeyThreads : exits'[u].list \subseteq exits[u].list
      BY <1>c
    <3> QED BY <2>2, <3>1 DEF KeysIInv, ValuesCalled
  <2> QED BY <1>0, <2>1, <2>2
<1>5. DestroyedOnce'
  <2> DEFINE n == <<t, exits[t].pass, c>>
  <2>1. n[3] = c
    OBVIOUS
  <2>2. \A x \in calls : x[3][2] # c[2]
    BY <1>0 DEF KeysIInv, ValuesCalled
  <2> HIDE DEF n
  <2>3. \A x, y \in calls : valueOf[x[3][2]] = x[3][1] /\ (x[3][2] = y[3][2] => x = y)
    BY DEF KeysIInv, ValuesDestroyed, DestroyedOnce
  <2>4. calls' = calls \cup {n}
    BY <1>0 DEF n
  <2> QED BY <1>a, <1>d, <2>1, <2>2, <2>3, <2>4 DEF DestroyedOnce
<1>6. NothingDueLeft'
  BY <1>a, <1>c DEF KeysIInv, ValuesDestroyed, NothingDueLeft, Due
<1> QED BY <1>1, <1>2, <1>3, <1>4, <1>5, <1>6 DEF KeysIInv, ValuesDestroyed

LEMMA KeysNextIInv == KeysIInv /\ [KeysNext]_keyVars => KeysIInv'
<1> SUFFICES ASSUME KeysIInv, [KeysNext]_keyVars PROVE KeysIInv'
  OBVIOUS
<1>0. /\ slot \in [KeySlots -> 0..MaxKeys] /\ exits \in [KeyThreads -> ExitStates]
      /\ keysMade \in 0..MaxKeys /\ MaxKeys \in Nat /\ Iterations \in Nat
      /\ specific \subseteq [k : KeySlots, t : KeyThreads, v : 0..MaxValues]
  BY KeysTypesUsed
<1>1. ASSUME NEW k \in KeySlots, KeyCreate(k) \/ KeyDelete(k) PROVE KeysIInv'
  <2>1. /\ specific' = {s \in specific : s.k # k} /\ slot' \in [KeySlots -> 0..MaxKeys]
        /\ \A j \in KeySlots \ {k} : slot'[j] = slot[j]
        /\ keysMade' \in 0..MaxKeys
        /\ UNCHANGED <<hasDtor, valuesMade, valueOf, exits, calls>>
    BY <1>0, <1>1 DEF KeyCreate, KeyDelete
  <2>2. \A s \in specific' : slot'[s.k] = slot[s.k]
    BY <1>0, <2>1
  <2> QED BY <1>0, <2>1, <2>2, ValuesForgotten
<1>2. ASSUME NEW t \in KeyThreads, ThreadEnds(t) \/ PassEnds(t) PROVE KeysIInv'
  <2>1. UNCHANGED <<slot, hasDtor, keysMade, valuesMade, valueOf, calls>>
    BY <1>2 DEF ThreadEnds, PassEnds
  <2>2. CASE \E n \in 1..Iterations :
               /\ exits' = [exits EXCEPT ![t] = [at |-> "Collect", pass |-> n, list |-> {}]]
               /\ specific' = specific
    <3>1. PICK n \in 1..Iterations :
               exits' = [exits EXCEPT ![t] = [at |-> "Collect", pass |-> n, list |-> {}]]
      BY <2>2
    <3>2. [at |-> "Collect", pass |-> n, list |-> {}] \in ExitStates
      BY <1>0 DEF ExitStates
    <3>3. /\ exits' \in [KeyThreads -> ExitStates]
          /\ \A u \in KeyThreads : exits'[u].list \subseteq exits[u].list
          /\ \A u \in KeyThreads : ~(exits'[u].at = "Done" /\ exits[u].at # "Done")
      BY <1>0, <3>1, <3>2
    <3> QED BY <1>0, <2>1, <2>2, <3>3, ValuesForgotten
  <2>3. CASE /\ exits' = [exits EXCEPT ![t] = [at |-> "Done", pass |-> 0, list |-> {}]]
             /\ specific' = {s \in specific : s.t # t}
    <3>2. [at |-> "Done", pass |-> 0, list |-> {}] \in ExitStates
      BY <1>0 DEF ExitStates
    <3>3. /\ exits' \in [KeyThreads -> ExitStates]
          /\ \A u \in KeyThreads : exits'[u].list \subseteq exits[u].list
          /\ \A u \in KeyThreads : u # t => ~(exits'[u].at = "Done" /\ exits[u].at # "Done")
      BY <1>0, <2>3, <3>2
    <3> QED BY <1>0, <2>1, <2>3, <3>3, ValuesForgotten
  <2>4. CASE ThreadEnds(t)
    <3>1. 1 \in 1..Iterations
      BY KeyAssumption
    <3>2. /\ exits' = [exits EXCEPT ![t] = [at |-> "Collect", pass |-> 1, list |-> {}]]
          /\ specific' = specific
      BY <2>4 DEF ThreadEnds
    <3> QED BY <2>2, <3>1, <3>2
  <2>5. CASE PassEnds(t) /\ exits[t].pass < Iterations
    <3>1. exits[t].pass + 1 \in 1..Iterations
      BY <1>0, <2>5 DEF ExitStates
    <3> QED BY <2>2, <2>5, <3>1 DEF PassEnds
  <2>6. CASE PassEnds(t) /\ ~(exits[t].pass < Iterations)
    BY <2>3, <2>6 DEF PassEnds
  <2> QED BY <1>2, <2>4, <2>5, <2>6
<1>3. CASE UNCHANGED keyVars
  BY <1>0, <1>3, ValuesForgotten DEF keyVars
<1> QED BY <1>1, <1>2, <1>3, SetSpecificStep, CollectStep, CallDestructorStep DEF KeysNext

\* The inductive invariant of thread-specific values holds (PthreadKeyCreate,
\* PthreadKeyDelete, PthreadSetspecific and Destruct).
THEOREM KeysIInvHolds == KeysSpec => []KeysIInv
BY KeysInitIInv, KeysNextIInv, PTL DEF KeysSpec

\* A value is destroyed once and by the destructor of its own key, and no
\* value that has one is left of a thread that is gone.
THEOREM ValuesAreDestroyed == KeysSpec => []ValuesDestroyed
<1>1. KeysIInv => ValuesDestroyed
  BY DEF KeysIInv
<1> QED BY <1>1, KeysIInvHolds, PTL

-----------------------------------------------------------------------------
(* A mutex and a condition variable.                                        *)

\* What a thread in each kind of call has and is owed: a waiter remembers the
\* depth at which it held the mutex, it is listed until a counter moves for
\* it, and it is owed an answer from then on until it is back.
CondThreadInv(t) ==
    /\ At(t, "Run") => /\ held[t] > 0 <=> owner = t
                       /\ held[t] > 0 => depth = held[t]
                       /\ t \notin owed
    /\ At(t, "Lock") => owner # t /\ held[t] = 0 /\ t \notin owed
    /\ At(t, "Wait") => /\ owner # t /\ condCall[t].recurse = held[t]
                        /\ condCall[t].seq <= sequence
                        /\ Contains(waiters, t) <=> ~CondReady(t)
                        /\ t \in owed <=> CondReady(t)
    /\ condCall[t].at \in {"Relock", "SetCount"} =>
          /\ owner = t <=> At(t, "SetCount")
          /\ condCall[t].recurse = held[t]
          /\ condCall[t].result = "Ok" <=> t \in owed
    /\ ~At(t, "Wait") => ~Contains(waiters, t)

CondIInv ==
    /\ CondTypeOK
    /\ owner = NoThread <=> depth = 0
    /\ ~recursive => depth <= 1 /\ \A t \in CondThreads : held[t] <= 1
    /\ \A i, j \in 1..Len(waiters) : waiters[i] = waiters[j] => i = j
    /\ \A t \in CondThreads : CondThreadInv(t)

LEMMA CondInitIInv == CondInit => CondIInv
<1> SUFFICES ASSUME CondInit PROVE CondIInv
  OBVIOUS
<1> USE CondAssumption DEF CondInit
<1>1. /\ threadSeq \in [CondThreads -> {0, 1}] /\ held \in [CondThreads -> 0..MaxRecursion]
      /\ owner \in CondThreads \cup {NoThread} /\ depth \in 0..MaxRecursion
      /\ sequence \in 0..MaxBroadcasts
  OBVIOUS
<1>2. waiters \in Seq(CondThreads) /\ owed \subseteq CondThreads /\ recursive \in BOOLEAN
  OBVIOUS
<1>3. condCall \in [CondThreads -> CallStates]
  BY DEF CallStates
<1>4. \A t \in CondThreads : CondThreadInv(t)
  BY DEF CondThreadInv, At, Running, Contains
<1>5. /\ owner = NoThread <=> depth = 0
      /\ ~recursive => depth <= 1 /\ \A t \in CondThreads : held[t] <= 1
      /\ \A i, j \in 1..Len(waiters) : waiters[i] = waiters[j] => i = j
  OBVIOUS
<1> QED BY <1>1, <1>2, <1>3, <1>4, <1>5 DEF CondIInv, CondTypeOK

\* std::find and erase take out the one place of a listed thread.
LEMMA UnlistFacts ==
    ASSUME CondIInv, NEW t \in CondThreads, Unlist(t)
    PROVE  /\ waiters' \in Seq(CondThreads) /\ Contains(waiters, t)
           /\ \A i, j \in 1..Len(waiters') : waiters'[i] = waiters'[j] => i = j
           /\ \A u : Contains(waiters', u) <=> Contains(waiters, u) /\ u # t
<1>0. /\ waiters \in Seq(CondThreads) /\ Len(waiters) \in Nat
      /\ \A i, j \in 1..Len(waiters) : waiters[i] = waiters[j] => i = j
  BY DEF CondIInv, CondTypeOK
<1>1. PICK k \in 1..Len(waiters) : waiters[k] = t /\ waiters' = RemoveAt(waiters, k)
  BY DEF Unlist
<1>2. /\ waiters' \in Seq(CondThreads) /\ Len(waiters') = Len(waiters) - 1
      /\ \A i \in 1..(Len(waiters) - 1) :
            waiters'[i] = IF i < k THEN waiters[i] ELSE waiters[i + 1]
  BY <1>0, <1>1, RemoveAtFacts
<1>3. Contains(waiters, t)
  BY <1>1 DEF Contains
<1>4. \A i, j \in 1..Len(waiters') : waiters'[i] = waiters'[j] => i = j
  BY <1>0, <1>1, <1>2
<1>5. ASSUME NEW u PROVE Contains(waiters', u) <=> Contains(waiters, u) /\ u # t
  <2>1. ASSUME Contains(waiters', u) PROVE Contains(waiters, u) /\ u # t
    <3>1. PICK i \in 1..Len(waiters') : waiters'[i] = u
      BY <2>1 DEF Contains
    <3>2. \E j \in 1..Len(waiters) : waiters[j] = u /\ j # k
      BY <1>0, <1>1, <1>2, <3>1
    <3> QED BY <1>0, <1>1, <3>2 DEF Contains
  <2>2. ASSUME Contains(waiters, u), u # t PROVE Contains(waiters', u)
    <3>1. PICK j \in 1..Len(waiters) : waiters[j] = u
      BY <2>2 DEF Contains
    <3>2. j # k
      BY <1>1, <2>2, <3>1
    <3>3. CASE j < k
      BY <1>0, <1>1, <1>2, <3>1, <3>3 DEF Contains
    <3>4. CASE j > k
      <4>1. j - 1 \in 1..Len(waiters') /\ waiters'[j - 1] = u
        BY <1>0, <1>1, <1>2, <3>1, <3>4
      <4> QED BY <4>1 DEF Contains
    <3> QED BY <1>0, <3>1, <3>2, <3>3, <3>4
  <2> QED BY <2>1, <2>2
<1> QED BY <1>2, <1>3, <1>4, <1>5

\* The fields of the call a thread is in.
LEMMA CallFacts ==
    ASSUME CondTypeOK, NEW t \in CondThreads
    PROVE  /\ condCall[t].at \in {"Run", "Lock", "Wait", "Relock", "SetCount"}
           /\ At(t, "Wait") => /\ condCall[t].recurse \in 1..MaxRecursion
                               /\ condCall[t].seq \in 0..MaxBroadcasts
                               /\ condCall[t].tseq \in {0, 1}
           /\ condCall[t].at \in {"Relock", "SetCount"} =>
                 /\ condCall[t].recurse \in 1..MaxRecursion
                 /\ condCall[t].result \in {"Ok", "TimedOut"}
<1>1. condCall[t] \in CallStates
  BY DEF CondTypeOK
<1> QED BY <1>1 DEF CallStates, Running, At

\* The steps of a thread that leave the condition variable alone.
LEMMA MutexSteps ==
    ASSUME CondIInv, NEW t \in CondThreads, NEW timed \in BOOLEAN,
           \/ LockFree(t) \/ LockAgain(t) \/ LockBlock(t, timed) \/ LockAcquire(t)
           \/ LockTimedOut(t) \/ Unlock(t) \/ WaitZero(t) \/ Relock(t)
    PROVE  CondIInv'
<1>0. /\ recursive \in BOOLEAN /\ owner \in CondThreads \cup {NoThread}
      /\ depth \in 0..MaxRecursion /\ held \in [CondThreads -> 0..MaxRecursion]
      /\ owner = NoThread <=> depth = 0
      /\ ~recursive => depth <= 1 /\ \A u \in CondThreads : held[u] <= 1
      /\ MaxRecursion \in Nat \ {0} /\ NoThread \notin CondThreads
      /\ t # NoThread
  BY CondAssumption DEF CondIInv, CondTypeOK
<1>1. condCall \in [CondThreads -> CallStates]
  BY DEF CondIInv, CondTypeOK
<1>2. /\ waiters' = waiters /\ sequence' = sequence /\ threadSeq' = threadSeq
      /\ owed' = owed /\ recursive' = recursive
  BY DEF LockFree, LockAgain, LockBlock, LockAcquire, LockTimedOut, Unlock, WaitZero, Relock,
         Acquire
<1>3. \A u \in CondThreads : CondThreadInv(u)
  BY DEF CondIInv
<1>4. /\ condCall[t].at \in {"Run", "Lock", "Wait", "Relock", "SetCount"}
      /\ condCall[t].at \in {"Relock", "SetCount"} =>
            /\ condCall[t].recurse \in 1..MaxRecursion
            /\ condCall[t].result \in {"Ok", "TimedOut"}
  BY CallFacts DEF CondIInv
<1>5. \E c \in CallStates : condCall' = [condCall EXCEPT ![t] = c]
  <2>1. condCall[t] \in CallStates /\ condCall = [condCall EXCEPT ![t] = condCall[t]]
    BY <1>1
  <2>2. Running \in CallStates /\ [at |-> "Lock", timed |-> timed] \in CallStates
    BY DEF CallStates
  <2>3. CASE LockBlock(t, timed)
    BY <2>2, <2>3 DEF LockBlock, CondGoto
  <2>4. CASE LockAcquire(t) \/ LockTimedOut(t)
    BY <2>2, <2>4 DEF LockAcquire, LockTimedOut, CondGoto
  <2>5. CASE WaitZero(t)
    <3>1. held[t] > 0 /\ depth = held[t]
      BY <1>0, <1>3, <2>5 DEF WaitZero, CondThreadInv
    <3>2. [at |-> "Relock", recurse |-> depth, result |-> "TimedOut"] \in CallStates
      BY <1>0, <3>1 DEF CallStates
    <3> QED BY <2>5, <3>2 DEF WaitZero, CondGoto
  <2>6. CASE Relock(t)
    <3>1. condCall[t] \in [at : {"Relock", "SetCount"}, recurse : 1..MaxRecursion,
                           result : {"Ok", "TimedOut"}]
      BY <2>1, <2>6 DEF Relock, At, CallStates, Running
    <3>2. [condCall[t] EXCEPT !.at = "SetCount"] \in CallStates
      BY <3>1 DEF CallStates
    <3> QED BY <2>6, <3>2 DEF Relock, CondGoto
  <2>7. CASE LockFree(t) \/ LockAgain(t) \/ Unlock(t)
    BY <2>1, <2>7 DEF LockFree, LockAgain, Unlock
  <2> QED BY <2>3, <2>4, <2>5, <2>6, <2>7
<1>6. /\ owner' \in CondThreads \cup {NoThread} /\ depth' \in 0..MaxRecursion
      /\ owner' = NoThread <=> depth' = 0
      /\ ~recursive' => depth' <= 1
  BY <1>0, <1>2 DEF LockFree, LockAgain, LockBlock, LockAcquire, LockTimedOut, Unlock, WaitZero,
         Relock, Acquire, Release
<1>7. /\ held' \in [CondThreads -> 0..MaxRecursion]
      /\ ~recursive' => \A u \in CondThreads : held'[u] <= 1
      /\ \A u \in CondThreads : u # t => held'[u] = held[u]
      /\ condCall[t].at # "Run" /\ condCall[t].at # "Lock" => held' = held
  <2>1. At(t, "Run") /\ owner = t => held[t] > 0 /\ depth = held[t]
    BY <1>3 DEF CondThreadInv
  <2>2. held' = held \/ held' = [held EXCEPT ![t] = 1]
        \/ (owner = t /\ At(t, "Run") /\ recursive /\ depth < MaxRecursion
            /\ held' = [held EXCEPT ![t] = held[t] + 1])
        \/ (owner = t /\ At(t, "Run") /\ held' = [held EXCEPT ![t] = held[t] - 1])
    BY DEF LockFree, LockAgain, LockBlock, LockAcquire, LockTimedOut, Unlock, WaitZero, Relock
  <2>3. condCall[t].at # "Run" /\ condCall[t].at # "Lock" => held' = held
    BY DEF LockFree, LockAgain, LockBlock, LockAcquire, LockTimedOut, Unlock, WaitZero, Relock, At
  <2> QED BY <1>0, <1>2, <2>1, <2>2, <2>3
<1>8. ASSUME NEW u \in CondThreads, u # t PROVE CondThreadInv(u)'
  <2>1. condCall'[u] = condCall[u] /\ held'[u] = held[u]
    BY <1>1, <1>5, <1>7, <1>8
  <2>2. owner' = u <=> owner = u
    BY <1>0, <1>8 DEF LockFree, LockAgain, LockBlock, LockAcquire, LockTimedOut, Unlock, WaitZero,
         Relock, Acquire, Release
  <2>3. owner = u => depth' = depth
    BY <1>0, <1>8 DEF LockFree, LockAgain, LockBlock, LockAcquire, LockTimedOut, Unlock, WaitZero,
         Relock, Acquire, Release
  <2>4. CondThreadInv(u)
    BY <1>3
  <2> QED BY <1>2, <2>1, <2>2, <2>3, <2>4 DEF CondThreadInv, At, CondReady
<1>9. CondThreadInv(t)'
  <2>1. CondThreadInv(t)
    BY <1>3
  <2>2. CASE LockFree(t)
    BY <1>0, <1>1, <1>2, <2>1, <2>2 DEF CondThreadInv, At, LockFree, Acquire
  <2>3. CASE LockAgain(t)
    BY <1>0, <1>1, <1>2, <2>1, <2>3 DEF CondThreadInv, At, LockAgain
  <2>4. CASE LockBlock(t, timed)
    BY <1>0, <1>1, <1>2, <2>1, <2>4 DEF CondThreadInv, At, LockBlock, CondGoto
  <2>5. CASE LockAcquire(t)
    BY <1>0, <1>1, <1>2, <2>1, <2>5 DEF CondThreadInv, At, LockAcquire, Acquire, CondGoto, Running
  <2>6. CASE LockTimedOut(t)
    BY <1>0, <1>1, <1>2, <2>1, <2>6 DEF CondThreadInv, At, LockTimedOut, CondGoto, Running
  <2>7. CASE Unlock(t)
    BY <1>0, <1>1, <1>2, <2>1, <2>7 DEF CondThreadInv, At, Unlock
  <2>8. CASE WaitZero(t)
    BY <1>0, <1>1, <1>2, <2>1, <2>8 DEF CondThreadInv, At, WaitZero, CondGoto, Release
  <2>9. CASE Relock(t)
    <3>1. condCall[t] \in [at : {"Relock", "SetCount"}, recurse : 1..MaxRecursion,
                           result : {"Ok", "TimedOut"}]
      BY <1>1, <2>9 DEF Relock, At, CallStates, Running
    <3>2. /\ condCall'[t].at = "SetCount" /\ condCall'[t].recurse = condCall[t].recurse
          /\ condCall'[t].result = condCall[t].result
      BY <1>1, <2>9, <3>1 DEF Relock, CondGoto
    <3> QED BY <1>0, <1>2, <2>1, <2>9, <3>2 DEF CondThreadInv, At, Relock, Acquire
  <2> QED BY <2>2, <2>3, <2>4, <2>5, <2>6, <2>7, <2>8, <2>9
<1>10. condCall' \in [CondThreads -> CallStates]
  BY <1>1, <1>5
<1>11. CondTypeOK'
  BY <1>2, <1>6, <1>7, <1>10 DEF CondIInv, CondTypeOK
<1> QED BY <1>2, <1>6, <1>7, <1>8, <1>9, <1>11 DEF CondIInv

\* Joining the list.
LEMMA WaitStep ==
    ASSUME CondIInv, NEW t \in CondThreads, NEW timed \in BOOLEAN, Wait(t, timed)
    PROVE  CondIInv'
<1>0. /\ recursive \in BOOLEAN /\ owner = t /\ At(t, "Run")
      /\ depth \in 0..MaxRecursion /\ held \in [CondThreads -> 0..MaxRecursion]
      /\ ~recursive => depth <= 1 /\ \A u \in CondThreads : held[u] <= 1
      /\ MaxRecursion \in Nat \ {0} /\ NoThread \notin CondThreads
      /\ sequence \in 0..MaxBroadcasts /\ MaxBroadcasts \in Nat
      /\ threadSeq \in [CondThreads -> {0, 1}] /\ owed \subseteq CondThreads
  BY CondAssumption DEF CondIInv, CondTypeOK, Wait
<1>1. condCall \in [CondThreads -> CallStates]
  BY DEF CondIInv, CondTypeOK
<1>2. CondThreadInv(t) /\ held[t] > 0 /\ depth = held[t] /\ ~Contains(waiters, t) /\ t \notin owed
  BY <1>0 DEF CondIInv, CondThreadInv, At
<1> DEFINE c == [at |-> "Wait", timed |-> timed, recurse |-> depth,
                 seq |-> sequence, tseq |-> threadSeq[t]]
<1>3. c \in CallStates
  BY <1>0, <1>2 DEF CallStates
<1>4. /\ c.at = "Wait" /\ c.recurse = depth /\ c.seq = sequence /\ c.tseq = threadSeq[t]
      /\ condCall' = [condCall EXCEPT ![t] = c]
  BY DEF Wait, CondGoto
<1> HIDE DEF c
<1>5. /\ owner' = NoThread /\ depth' = 0 /\ recursive' = recursive /\ sequence' = sequence
      /\ threadSeq' = threadSeq /\ held' = held /\ owed' = owed
      /\ waiters' = Append(waiters, t)
  BY DEF Wait, Release
<1>6. /\ waiters \in Seq(CondThreads) /\ Len(waiters) \in Nat
      /\ \A i, j \in 1..Len(waiters) : waiters[i] = waiters[j] => i = j
  BY DEF CondIInv, CondTypeOK
<1>7. /\ waiters' \in Seq(CondThreads) /\ Len(waiters') = Len(waiters) + 1
      /\ waiters'[Len(waiters) + 1] = t
      /\ \A i \in 1..Len(waiters) : waiters'[i] = waiters[i]
  BY <1>5, <1>6
<1>8. \A i, j \in 1..Len(waiters') : waiters'[i] = waiters'[j] => i = j
  BY <1>2, <1>6, <1>7 DEF Contains
<1>9. \A u : Contains(waiters', u) <=> Contains(waiters, u) \/ u = t
  <2>1. ASSUME NEW u, Contains(waiters', u) PROVE Contains(waiters, u) \/ u = t
    BY <1>6, <1>7, <2>1 DEF Contains
  <2>2. ASSUME NEW u, Contains(waiters, u) PROVE Contains(waiters', u)
    BY <1>6, <1>7, <2>2 DEF Contains
  <2>3. Contains(waiters', t)
    BY <1>6, <1>7 DEF Contains
  <2> QED BY <2>1, <2>2, <2>3
<1>10. ASSUME NEW u \in CondThreads, u # t PROVE CondThreadInv(u)'
  <2>1. CondThreadInv(u)
    BY DEF CondIInv
  <2>2. condCall'[u] = condCall[u] /\ owner' # u /\ owner # u
        /\ (Contains(waiters', u) <=> Contains(waiters, u))
    BY <1>0, <1>1, <1>4, <1>5, <1>9, <1>10
  <2> QED BY <1>5, <2>1, <2>2 DEF CondThreadInv, At, CondReady
<1>11. CondThreadInv(t)'
  <2>1. condCall'[t] = c
    BY <1>1, <1>4
  <2> QED BY <1>0, <1>2, <1>4, <1>5, <1>9, <2>1 DEF CondThreadInv, At, CondReady
<1>12. condCall' \in [CondThreads -> CallStates]
  BY <1>1, <1>3, <1>4
<1>13. CondTypeOK'
  BY <1>0, <1>5, <1>7, <1>12 DEF CondTypeOK
<1>14. owner' = NoThread <=> depth' = 0
  BY <1>5
<1>15. ~recursive' => depth' <= 1 /\ \A u \in CondThreads : held'[u] <= 1
  BY <1>0, <1>5
<1> QED BY <1>8, <1>10, <1>11, <1>13, <1>14, <1>15 DEF CondIInv

\* The end of a wait, by a counter or by the deadline.
LEMMA WaitEndsStep ==
    ASSUME CondIInv, NEW t \in CondThreads, WaitWoken(t) \/ WaitTimedOut(t)
    PROVE  CondIInv'
<1>0. /\ held \in [CondThreads -> 0..MaxRecursion] /\ MaxRecursion \in Nat \ {0}
      /\ condCall \in [CondThreads -> CallStates] /\ At(t, "Wait")
      /\ waiters \in Seq(CondThreads)
      /\ \A i, j \in 1..Len(waiters) : waiters[i] = waiters[j] => i = j
  BY CondAssumption DEF CondIInv, CondTypeOK, WaitWoken, WaitTimedOut
<1>1. PICK r \in {"Ok", "TimedOut"} : WaitEnds(t, r) /\ (r = "Ok" <=> CondReady(t))
  BY DEF WaitWoken, WaitTimedOut
<1>2. CondThreadInv(t) /\ condCall[t].recurse \in 1..MaxRecursion
  BY <1>0, CallFacts DEF CondIInv
<1> DEFINE c == [at |-> "Relock", recurse |-> condCall[t].recurse, result |-> r]
<1>3. c \in CallStates
  BY <1>1, <1>2 DEF CallStates
<1>4. /\ c.at = "Relock" /\ c.recurse = condCall[t].recurse /\ c.result = r
      /\ condCall' = [condCall EXCEPT ![t] = c]
  BY <1>1 DEF WaitEnds, CondGoto
<1> HIDE DEF c
<1>5. /\ UNCHANGED <<recursive, owner, depth, sequence, threadSeq, held, owed>>
      /\ CondRemoveWaiter(t)
  BY <1>1 DEF WaitEnds
<1>6. /\ waiters' \in Seq(CondThreads)
      /\ \A i, j \in 1..Len(waiters') : waiters'[i] = waiters'[j] => i = j
      /\ \A u : Contains(waiters', u) <=> Contains(waiters, u) /\ u # t
  <2>1. CASE Unlist(t)
    BY <2>1, UnlistFacts
  <2>2. CASE ~Contains(waiters, t) /\ waiters' = waiters
    BY <1>0, <2>2
  <2> QED BY <1>5, <2>1, <2>2 DEF CondRemoveWaiter
<1>7. ASSUME NEW u \in CondThreads, u # t PROVE CondThreadInv(u)'
  <2>1. CondThreadInv(u)
    BY DEF CondIInv
  <2>2. condCall'[u] = condCall[u] /\ (Contains(waiters', u) <=> Contains(waiters, u))
    BY <1>0, <1>4, <1>6, <1>7
  <2> QED BY <1>5, <2>1, <2>2 DEF CondThreadInv, At, CondReady
<1>8. CondThreadInv(t)'
  <2>1. condCall'[t] = c
    BY <1>0, <1>4
  <2> QED BY <1>0, <1>1, <1>2, <1>4, <1>5, <1>6, <2>1 DEF CondThreadInv, At
<1>9. condCall' \in [CondThreads -> CallStates]
  BY <1>0, <1>3, <1>4
<1>10. CondTypeOK'
  BY <1>5, <1>6, <1>9 DEF CondIInv, CondTypeOK
<1> QED BY <1>5, <1>6, <1>7, <1>8, <1>10 DEF CondIInv

\* Putting the recursion back.
LEMMA SetCountStep ==
    ASSUME CondIInv, NEW t \in CondThreads, SetCount(t)
    PROVE  CondIInv'
<1>0. /\ held \in [CondThreads -> 0..MaxRecursion] /\ MaxRecursion \in Nat \ {0}
      /\ condCall \in [CondThreads -> CallStates] /\ At(t, "SetCount")
      /\ NoThread \notin CondThreads
      /\ ~recursive => \A u \in CondThreads : held[u] <= 1
  BY CondAssumption DEF CondIInv, CondTypeOK, SetCount
<1>1. /\ CondThreadInv(t) /\ condCall[t].recurse \in 1..MaxRecursion
  BY <1>0, CallFacts DEF CondIInv, At
<1>2. /\ owner = t /\ depth' = condCall[t].recurse /\ depth' = held[t]
      /\ owed' = owed \ {t} /\ condCall' = [condCall EXCEPT ![t] = Running]
      /\ UNCHANGED <<recursive, owner, waiters, sequence, threadSeq, held>>
  BY <1>0, <1>1 DEF SetCount, CondThreadInv, At, CondGoto
<1>3. ASSUME NEW u \in CondThreads, u # t PROVE CondThreadInv(u)'
  <2>1. CondThreadInv(u)
    BY DEF CondIInv
  <2>2. condCall'[u] = condCall[u] /\ (u \in owed' <=> u \in owed) /\ owner # u
    BY <1>0, <1>2, <1>3
  <2> QED BY <1>2, <2>1, <2>2 DEF CondThreadInv, At, CondReady
<1>4. CondThreadInv(t)'
  BY <1>0, <1>1, <1>2 DEF CondThreadInv, At, Running
<1>5. condCall' \in [CondThreads -> CallStates]
  BY <1>0, <1>2 DEF CallStates
<1>6. CondTypeOK'
  BY <1>1, <1>2, <1>5 DEF CondIInv, CondTypeOK
<1>7. owner' # NoThread /\ depth' # 0 /\ (~recursive' => depth' <= 1)
  BY <1>0, <1>1, <1>2
<1> QED BY <1>2, <1>3, <1>4, <1>6, <1>7 DEF CondIInv

\* A signal, to the first waiter or to a chosen one.
LEMMA WakeStep ==
    ASSUME CondIInv, NEW t \in CondThreads, WakeWaiter(t)
    PROVE  CondIInv'
<1>0. /\ threadSeq \in [CondThreads -> {0, 1}] /\ owed \subseteq CondThreads
      /\ sequence \in 0..MaxBroadcasts
  BY DEF CondIInv, CondTypeOK
<1>1. /\ Unlist(t) /\ threadSeq' = [threadSeq EXCEPT ![t] = (threadSeq[t] + 1) % 2]
      /\ owed' = owed \cup {t}
      /\ UNCHANGED <<recursive, owner, depth, sequence, condCall, held>>
  BY DEF WakeWaiter
<1>2. /\ waiters' \in Seq(CondThreads) /\ Contains(waiters, t)
      /\ \A i, j \in 1..Len(waiters') : waiters'[i] = waiters'[j] => i = j
      /\ \A u : Contains(waiters', u) <=> Contains(waiters, u) /\ u # t
  BY <1>1, UnlistFacts
<1>3. CondThreadInv(t) /\ At(t, "Wait") /\ ~CondReady(t)
  BY <1>2 DEF CondIInv, CondThreadInv
<1>4. /\ threadSeq' \in [CondThreads -> {0, 1}] /\ threadSeq'[t] # threadSeq[t]
      /\ \A u \in CondThreads : u # t => threadSeq'[u] = threadSeq[u]
  BY <1>0, <1>1
<1>5. ASSUME NEW u \in CondThreads, u # t PROVE CondThreadInv(u)'
  <2>1. CondThreadInv(u)
    BY DEF CondIInv
  <2>2. threadSeq'[u] = threadSeq[u] /\ (Contains(waiters', u) <=> Contains(waiters, u))
        /\ (u \in owed' <=> u \in owed)
    BY <1>1, <1>2, <1>4, <1>5
  <2> QED BY <1>1, <2>1, <2>2 DEF CondThreadInv, At, CondReady
<1>6. CondThreadInv(t)'
  BY <1>1, <1>2, <1>3, <1>4 DEF CondThreadInv, At, CondReady
<1>7. CondTypeOK'
  BY <1>0, <1>1, <1>2, <1>4 DEF CondIInv, CondTypeOK
<1> QED BY <1>1, <1>2, <1>5, <1>6, <1>7 DEF CondIInv

\* A broadcast, to everybody on the list.
LEMMA BroadcastStep == ASSUME CondIInv, Broadcast PROVE CondIInv'
<1>0. /\ owed \subseteq CondThreads /\ waiters \in Seq(CondThreads)
      /\ sequence \in 0..MaxBroadcasts /\ MaxBroadcasts \in Nat
  BY CondAssumption DEF CondIInv, CondTypeOK
<1>1. /\ sequence' = sequence + 1 /\ waiters' = <<>> /\ sequence < MaxBroadcasts
      /\ owed' = owed \cup ToSet(waiters)
      /\ UNCHANGED <<recursive, owner, depth, threadSeq, condCall, held>>
  BY DEF Broadcast
<1>2. \A u : u \in ToSet(waiters) <=> Contains(waiters, u)
  BY DEF ToSet, Contains
<1>3. \A u : ~Contains(waiters', u)
  BY <1>1 DEF Contains
<1>4. ToSet(waiters) \subseteq CondThreads
  BY <1>0 DEF ToSet
<1>5. ASSUME NEW u \in CondThreads PROVE CondThreadInv(u)'
  <2>1. CondThreadInv(u)
    BY DEF CondIInv
  <2>2. u \in owed' <=> u \in owed \/ Contains(waiters, u)
    BY <1>1, <1>2
  <2>3. CASE At(u, "Wait")
    <3>1. condCall[u].seq <= sequence /\ condCall[u].seq \in 0..MaxBroadcasts
      BY <2>1, <2>3, CallFacts DEF CondThreadInv, CondIInv
    <3>2. sequence' # condCall[u].seq /\ condCall[u].seq <= sequence'
      BY <1>0, <1>1, <3>1
    <3>3. u \in owed'
      BY <2>1, <2>2, <2>3 DEF CondThreadInv
    <3> QED BY <1>1, <1>3, <2>1, <2>3, <3>2, <3>3 DEF CondThreadInv, At, CondReady
  <2>4. CASE ~At(u, "Wait")
    BY <1>1, <1>3, <2>1, <2>2, <2>4 DEF CondThreadInv, At
  <2> QED BY <2>3, <2>4
<1>6. CondTypeOK'
  BY <1>0, <1>1, <1>4 DEF CondIInv, CondTypeOK
<1>7. \A i, j \in 1..Len(waiters') : waiters'[i] = waiters'[j] => i = j
  BY <1>1
<1> QED BY <1>1, <1>5, <1>6, <1>7 DEF CondIInv

LEMMA CondNextIInv == CondIInv /\ [CondNext]_condVars => CondIInv'
<1> SUFFICES ASSUME CondIInv, [CondNext]_condVars PROVE CondIInv'
  OBVIOUS
<1>1. CASE Signal
  <2>1. waiters \in Seq(CondThreads)
    BY DEF CondIInv, CondTypeOK
  <2>2. Head(waiters) \in CondThreads
    BY <1>1, <2>1 DEF Signal
  <2> QED BY <1>1, <2>2, WakeStep DEF Signal
<1>2. CASE UNCHANGED condVars
  BY <1>2 DEF condVars, CondIInv, CondTypeOK, CondThreadInv, At, CondReady
<1>3. CASE \E t \in CondThreads : \E timed \in BOOLEAN : LockBlock(t, timed) \/ Wait(t, timed)
  BY <1>3, MutexSteps, WaitStep
<1>4. ASSUME NEW t \in CondThreads,
             \/ LockFree(t) \/ LockAgain(t) \/ LockAcquire(t) \/ LockTimedOut(t)
             \/ Unlock(t) \/ WaitZero(t) \/ WaitWoken(t) \/ WaitTimedOut(t)
             \/ Relock(t) \/ SetCount(t) \/ SignalTo(t)
      PROVE  CondIInv'
  <2>1. TRUE \in BOOLEAN
    OBVIOUS
  <2> QED BY <1>4, <2>1, MutexSteps, WaitEndsStep, SetCountStep, WakeStep DEF SignalTo
<1> QED BY <1>1, <1>2, <1>3, <1>4, BroadcastStep DEF CondNext

\* The inductive invariant of the mutex and the condition variable holds.
THEOREM CondIInvHolds == CondSpec => []CondIInv
BY CondInitIInv, CondNextIInv, PTL DEF CondSpec

\* A thread has the mutex exactly when and as often as its calls told it so,
\* also after a wait that gave up a recursive mutex, and a waiter is on the
\* list exactly as long as no counter has moved for it.
THEOREM CondIsConsistent == CondSpec => []CondAgrees
<1>1. CondIInv => CondAgrees
  BY DEF CondIInv, CondThreadInv, CondAgrees, LocksAgree, ListedIffWaiting, At
<1> QED BY <1>1, CondIInvHolds, PTL

\* A wait returns OK exactly when a signal or a broadcast chose this thread
\* while it waited.
THEOREM SignalsAreAnswered == CondSpec => SignalsAnswered
<1>1. CondIInv /\ [CondNext]_condVars =>
         [\A t \in CondThreads : (At(t, "SetCount") /\ condCall'[t].at = "Run") =>
             (condCall[t].result = "Ok" <=> t \in owed)]_condVars
  BY DEF CondIInv, CondThreadInv, At
<1> QED BY <1>1, CondIInvHolds, PTL DEF CondSpec, SignalsAnswered

-----------------------------------------------------------------------------
(* The pool of threads.                                                    *)

CreatingAt == {"Attr", "Stack", "Flags", "Start", "Failed"}
JoiningAt == {"Join", "Clear", "Free"}

EntryStates == [free : BOOLEAN, detached : BOOLEAN, almostDone : BOOLEAN,
                stack : 0..MaxStacks, wants : BOOLEAN]

PoolTyped ==
    /\ poolSize \in 0..MaxThreads
    /\ host \in [Entries -> {"None", "Running", "Ending", "Ended"}]
    /\ mine \subseteq Entries
    /\ poolCall \in [Creators -> [at : {"Run"} \cup CreatingAt \cup JoiningAt,
                                  e : 0..MaxThreads]]
    /\ reaper \in [at : {"Sleep", "Look"} \cup JoiningAt, e : 0..(MaxThreads + 1)]

\* A creator in a call has an entry to itself, and what it does with it says
\* which flags the entry may have.
CreatorInv(c) ==
    LET e == poolCall[c].e
        at == poolCall[c].at
    IN  at # "Run" =>
          /\ e \in 1..poolSize /\ ~entry[e].free /\ e \notin mine
          /\ reaper.at \in JoiningAt => reaper.e # e
          /\ at \in CreatingAt => host[e] = "None" /\ ~entry[e].almostDone
          /\ at = "Start" => (entry[e].detached <=> entry[e].wants)
          /\ at \in JoiningAt => ~entry[e].detached
          /\ at = "Join" <=> host[e] # "None"
          /\ at = "Free" => ~entry[e].almostDone

\* The reaper has an entry to itself while it joins.
ReaperInv ==
    /\ reaper.at = "Look" => reaper.e \in 1..(poolSize + 1)
    /\ reaper.at \in JoiningAt =>
          /\ reaper.e \in 1..poolSize
          /\ ~entry[reaper.e].free /\ entry[reaper.e].detached /\ reaper.e \notin mine
          /\ reaper.at = "Join" <=> host[reaper.e] # "None"
          /\ reaper.at = "Free" => ~entry[reaper.e].almostDone

\* What lets the reaper tell a thread to join by three flags: nothing else
\* that is not free is detached and almost done.
EntryInv(e) ==
    /\ e > poolSize => ~entry[e].free /\ ~entry[e].almostDone /\ host[e] = "None"
    /\ entry[e].free => host[e] = "None" /\ ~entry[e].almostDone
    /\ e \in mine => e <= poolSize /\ ~entry[e].free /\ ~entry[e].detached /\ host[e] # "None"
    /\ host[e] = "Running" => ~entry[e].almostDone
    /\ entry[e].almostDone /\ entry[e].detached /\ host[e] = "None" =>
          reaper.at = "Clear" /\ reaper.e = e

PoolControl ==
    /\ PoolTyped
    /\ \A c, d \in Creators : poolCall[c].at # "Run" /\ poolCall[c].e = poolCall[d].e => c = d
    /\ \A c \in Creators : poolCall[c].at = "Run" => poolCall[c].e = 0
    /\ \A c \in Creators : CreatorInv(c)
    /\ ReaperInv
    /\ \A e \in Entries : EntryInv(e)

\* Every stack in use or in the cache has been cut off the range.
PoolStacks ==
    /\ entry \in [Entries -> EntryStates]
    /\ stackCache \in Seq(1..MaxStacks) /\ stackLast \in 0..MaxStacks
    /\ StacksApart
    /\ \A e \in Entries : entry[e].stack <= stackLast
    /\ \A i \in 1..Len(stackCache) : stackCache[i] <= stackLast

PoolIInv == PoolControl /\ PoolStacks

LEMMA PoolInitIInv == PoolInit => PoolIInv
<1> SUFFICES ASSUME PoolInit PROVE PoolIInv
  OBVIOUS
<1> USE PoolAssumption DEF PoolInit, Entries
<1>1. PoolTyped
  BY DEF PoolTyped, CreatingAt, JoiningAt
<1>2. entry \in [Entries -> EntryStates] /\ \A e \in Entries : entry[e] = Fresh
  BY DEF Fresh, EntryStates, NoStack
<1>3. /\ \A c, d \in Creators : poolCall[c].at # "Run" /\ poolCall[c].e = poolCall[d].e => c = d
      /\ \A c \in Creators : poolCall[c].at = "Run" /\ poolCall[c].e = 0
  OBVIOUS
<1>4. ReaperInv
  BY DEF ReaperInv, JoiningAt
<1>5. \A e \in Entries : EntryInv(e)
  BY <1>2 DEF EntryInv, Fresh
<1>6. PoolStacks
  <2>1. \A e \in Entries : entry[e].stack = 0
    BY <1>2 DEF Fresh, NoStack
  <2>2. stackCache \in Seq(1..MaxStacks) /\ Len(stackCache) = 0 /\ stackLast = 0
    OBVIOUS
  <2> QED BY <1>2, <2>1, <2>2 DEF PoolStacks, StacksApart, NoStack
<1> QED BY <1>1, <1>3, <1>4, <1>5, <1>6 DEF PoolIInv, PoolControl, CreatorInv

\* A creator goes on with the entry it is creating a thread in.
LEMMA CreatingStep ==
    ASSUME PoolControl, NEW c \in Creators, NEW e, e = poolCall[c].e, NEW to \in CreatingAt,
           poolCall[c].at \in CreatingAt,
           PoolGoto(c, to, e), UNCHANGED <<poolSize, host, mine, reaper>>,
           \A f \in Entries : f # e => entry'[f] = entry[f],
           entry'[e].free = entry[e].free,
           entry'[e].almostDone => entry[e].almostDone,
           to = "Start" => (entry'[e].detached <=> entry'[e].wants)
    PROVE  PoolControl'
<1> USE PoolAssumption DEF Entries, CreatingAt, JoiningAt
<1>0. /\ PoolTyped /\ CreatorInv(c) /\ ReaperInv
      /\ \A d \in Creators : CreatorInv(d)
      /\ \A f \in Entries : EntryInv(f)
      /\ \A d, g \in Creators : poolCall[d].at # "Run" /\ poolCall[d].e = poolCall[g].e => d = g
      /\ \A d \in Creators : poolCall[d].at = "Run" => poolCall[d].e = 0
  BY DEF PoolControl
<1>1. /\ poolSize \in 0..MaxThreads /\ e \in 1..poolSize /\ e \in Entries /\ ~entry[e].free
      /\ e \notin mine /\ host[e] = "None" /\ ~entry[e].almostDone /\ e # 0
      /\ reaper.at \in JoiningAt => reaper.e # e
  BY <1>0 DEF CreatorInv, PoolTyped
<1>2. /\ poolCall' = [poolCall EXCEPT ![c] = [at |-> to, e |-> e]]
      /\ poolCall \in [Creators -> [at : {"Run"} \cup CreatingAt \cup JoiningAt,
                                    e : 0..MaxThreads]]
  BY <1>0 DEF PoolGoto, PoolTyped
<1>3. /\ poolCall'[c].at = to /\ poolCall'[c].e = e
      /\ \A d \in Creators : d # c => poolCall'[d] = poolCall[d] /\ poolCall[d].e # e
      /\ poolCall' \in [Creators -> [at : {"Run"} \cup CreatingAt \cup JoiningAt,
                                     e : 0..MaxThreads]]
  BY <1>0, <1>1, <1>2
<1>4. PoolTyped'
  BY <1>0, <1>3 DEF PoolTyped
<1>5. /\ \A d, g \in Creators : poolCall'[d].at # "Run" /\ poolCall'[d].e = poolCall'[g].e => d = g
      /\ \A d \in Creators : poolCall'[d].at = "Run" => poolCall'[d].e = 0
  BY <1>0, <1>3
<1>6. CreatorInv(c)'
  BY <1>1, <1>3 DEF CreatorInv
<1>7. ASSUME NEW d \in Creators, d # c PROVE CreatorInv(d)'
  <2>1. CASE poolCall[d].at = "Run"
    BY <1>3, <1>7, <2>1 DEF CreatorInv
  <2>2. CASE poolCall[d].at # "Run"
    <3>1. poolCall[d].e \in Entries /\ entry'[poolCall[d].e] = entry[poolCall[d].e]
      BY <1>0, <1>1, <1>3, <1>7, <2>2 DEF CreatorInv
    <3> QED BY <1>0, <1>3, <1>7, <3>1 DEF CreatorInv
  <2> QED BY <2>1, <2>2
<1>8. ReaperInv'
  <2>1. reaper.at \in JoiningAt => entry'[reaper.e] = entry[reaper.e]
    BY <1>0, <1>1 DEF ReaperInv
  <2> QED BY <1>0, <2>1 DEF ReaperInv
<1>9. ASSUME NEW f \in Entries PROVE EntryInv(f)'
  <2>1. CASE f = e
    BY <1>1, <2>1 DEF EntryInv
  <2>2. CASE f # e
    BY <1>0, <2>2 DEF EntryInv
  <2> QED BY <2>1, <2>2
<1> QED BY <1>4, <1>5, <1>6, <1>7, <1>8, <1>9 DEF PoolControl

\* A step that works on entry e says nothing about the others.
LEMMA Elsewhere ==
    ASSUME PoolControl, NEW e \in Entries,
           \A f \in Entries : f # e => /\ entry'[f] = entry[f] /\ host'[f] = host[f]
                                       /\ f \in mine' <=> f \in mine,
           poolSize' = poolSize \/ (poolSize' = poolSize + 1 /\ e = poolSize + 1),
           \/ reaper' = reaper
           \/ /\ reaper.at \in JoiningAt => reaper.e = e
              /\ reaper'.at \in JoiningAt => reaper'.e = e
    PROVE  /\ \A d \in Creators :
                 poolCall'[d] = poolCall[d] /\ poolCall[d].e # e => CreatorInv(d)'
           /\ \A f \in Entries : f # e => EntryInv(f)'
           /\ reaper' = reaper /\ (reaper.at \in JoiningAt => reaper.e # e) => ReaperInv'
<1> USE PoolAssumption DEF Entries, JoiningAt
<1>0. /\ PoolTyped /\ ReaperInv
      /\ \A d \in Creators : CreatorInv(d)
      /\ \A f \in Entries : EntryInv(f)
      /\ poolSize \in 0..MaxThreads
  BY DEF PoolControl, PoolTyped
<1>1. ASSUME NEW d \in Creators, poolCall'[d] = poolCall[d], poolCall[d].e # e
      PROVE  CreatorInv(d)'
  <2>1. CASE poolCall[d].at = "Run"
    BY <1>1, <2>1 DEF CreatorInv
  <2>2. CASE poolCall[d].at # "Run"
    <3> DEFINE k == poolCall[d].e
    <3>1. CreatorInv(d) /\ k \in 1..poolSize /\ k \in Entries
      BY <1>0, <2>2 DEF CreatorInv
    <3>2. entry'[k] = entry[k] /\ host'[k] = host[k] /\ (k \in mine' <=> k \in mine)
          /\ k \in 1..poolSize'
      BY <1>0, <1>1, <3>1
    <3>3. reaper'.at \in JoiningAt => reaper'.e # k
      BY <1>1, <2>2, <3>1 DEF CreatorInv
    <3> QED BY <1>1, <2>2, <3>1, <3>2, <3>3 DEF CreatorInv
  <2> QED BY <2>1, <2>2
<1>2. ASSUME NEW f \in Entries, f # e PROVE EntryInv(f)'
  <2>1. EntryInv(f) /\ entry'[f] = entry[f] /\ host'[f] = host[f] /\ (f \in mine' <=> f \in mine)
    BY <1>0, <1>2
  <2>2. (f > poolSize' => f > poolSize) /\ (f <= poolSize => f <= poolSize')
    BY <1>0, <1>2
  <2>3. reaper.at = "Clear" /\ reaper.e = f => reaper'.at = "Clear" /\ reaper'.e = f
    BY <1>2
  <2> QED BY <2>1, <2>2, <2>3 DEF EntryInv
<1>3. ASSUME reaper' = reaper, reaper.at \in JoiningAt => reaper.e # e PROVE ReaperInv'
  <2>1. CASE reaper.at \in JoiningAt
    <3>1. reaper.e \in 1..poolSize /\ reaper.e \in Entries /\ reaper.e \in 1..poolSize'
      BY <1>0, <2>1 DEF ReaperInv
    <3>2. /\ entry'[reaper.e] = entry[reaper.e] /\ host'[reaper.e] = host[reaper.e]
          /\ reaper.e \in mine' <=> reaper.e \in mine
      BY <1>3, <2>1, <3>1
    <3> QED BY <1>0, <1>3, <2>1, <3>1, <3>2 DEF ReaperInv
  <2>2. CASE reaper.at \notin JoiningAt
    BY <1>0, <1>3, <2>2 DEF ReaperInv
  <2> QED BY <2>1, <2>2
<1> QED BY <1>1, <1>2, <1>3

\* The parts of the invariant a step of creator c on entry e has to restore.
LEMMA PoolParts ==
    ASSUME PoolTyped', ReaperInv',
           \A d, g \in Creators : poolCall'[d].at # "Run" /\ poolCall'[d].e = poolCall'[g].e => d = g,
           \A d \in Creators : poolCall'[d].at = "Run" => poolCall'[d].e = 0,
           \A d \in Creators : CreatorInv(d)', \A f \in Entries : EntryInv(f)'
    PROVE  PoolControl'
BY DEF PoolControl

LEMMA PoolFacts ==
    ASSUME PoolControl
    PROVE  /\ PoolTyped /\ ReaperInv
           /\ \A d \in Creators : CreatorInv(d)
           /\ \A f \in Entries : EntryInv(f)
           /\ \A d, g \in Creators : poolCall[d].at # "Run" /\ poolCall[d].e = poolCall[g].e => d = g
           /\ \A d \in Creators : poolCall[d].at = "Run" => poolCall[d].e = 0
           /\ poolSize \in 0..MaxThreads /\ mine \subseteq Entries
           /\ host \in [Entries -> {"None", "Running", "Ending", "Ended"}]
           /\ poolCall \in [Creators -> [at : {"Run"} \cup CreatingAt \cup JoiningAt,
                                         e : 0..MaxThreads]]
           /\ reaper \in [at : {"Sleep", "Look"} \cup JoiningAt, e : 0..(MaxThreads + 1)]
           /\ MaxThreads \in Nat /\ MaxStacks \in Nat
BY PoolAssumption DEF PoolControl, PoolTyped

\* PthreadPool::Create takes an entry nobody uses.
LEMMA PoolCreateStep ==
    ASSUME PoolControl, NEW c \in Creators, PoolCreate(c), entry \in [Entries -> EntryStates]
    PROVE  PoolControl'
<1> USE DEF Entries, JoiningAt, CreatingAt
<1>0. /\ PoolTyped /\ ReaperInv
      /\ \A d \in Creators : CreatorInv(d)
      /\ \A f \in Entries : EntryInv(f)
      /\ \A d, g \in Creators : poolCall[d].at # "Run" /\ poolCall[d].e = poolCall[g].e => d = g
      /\ \A d \in Creators : poolCall[d].at = "Run" => poolCall[d].e = 0
      /\ poolSize \in 0..MaxThreads /\ mine \subseteq Entries
      /\ poolCall \in [Creators -> [at : {"Run"} \cup CreatingAt \cup JoiningAt,
                                    e : 0..MaxThreads]]
      /\ MaxThreads \in Nat
  BY PoolFacts
<1>1. /\ poolCall[c].at = "Run" /\ reaper.at = "Sleep"
      /\ UNCHANGED <<host, mine, reaper, stackCache, stackLast>>
  BY DEF PoolCreate, PoolAt, MutexFree
<1>2. PICK e \in Entries :
        /\ poolCall' = [poolCall EXCEPT ![c] = [at |-> "Attr", e |-> e]]
        /\ \A f \in Entries : f # e => entry'[f] = entry[f]
        /\ ~entry'[e].free /\ ~entry'[e].almostDone /\ host[e] = "None" /\ e \notin mine
        /\ e \in 1..poolSize'
        /\ \/ poolSize' = poolSize /\ entry[e].free
           \/ poolSize' = poolSize + 1 /\ e = poolSize + 1 /\ poolSize < MaxThreads
  <2>1. CASE \E e \in FreeEntries :
               /\ entry' = [entry EXCEPT ![e].free = FALSE]
               /\ PoolGoto(c, "Attr", e) /\ poolSize' = poolSize
    <3>1. PICK e \in FreeEntries :
               /\ entry' = [entry EXCEPT ![e].free = FALSE]
               /\ PoolGoto(c, "Attr", e) /\ poolSize' = poolSize
      BY <2>1
    <3>2. e \in Entries /\ e \in 1..poolSize /\ entry[e].free /\ entry[e] \in EntryStates
      BY <1>0, <3>1 DEF FreeEntries
    <3>3. /\ entry'[e].free = FALSE /\ entry'[e].almostDone = entry[e].almostDone
          /\ \A f \in Entries : f # e => entry'[f] = entry[f]
      BY <3>1, <3>2 DEF EntryStates
    <3>4. host[e] = "None" /\ ~entry[e].almostDone /\ e \notin mine
      BY <1>0, <3>2 DEF EntryInv
    <3> QED BY <3>1, <3>2, <3>3, <3>4 DEF PoolGoto
  <2>2. CASE /\ poolSize < MaxThreads /\ poolSize' = poolSize + 1
             /\ entry' = [entry EXCEPT ![poolSize + 1] = Fresh]
             /\ PoolGoto(c, "Attr", poolSize + 1)
    <3>1. poolSize + 1 \in Entries /\ poolSize + 1 > poolSize /\ poolSize + 1 \in 1..poolSize'
      BY <1>0, <2>2
    <3>2. entry'[poolSize + 1] = Fresh /\ \A f \in Entries : f # poolSize + 1 => entry'[f] = entry[f]
      BY <2>2, <3>1
    <3>3. host[poolSize + 1] = "None" /\ poolSize + 1 \notin mine
      BY <1>0, <3>1 DEF EntryInv
    <3>4. ~Fresh.free /\ ~Fresh.almostDone
      BY DEF Fresh
    <3> QED BY <2>2, <3>1, <3>2, <3>3, <3>4 DEF PoolGoto
  <2> QED BY <2>1, <2>2 DEF PoolCreate
<1>3. \A d \in Creators : poolCall[d].e # e
  <2>1. ASSUME NEW d \in Creators, poolCall[d].e = e PROVE FALSE
    <3>1. poolCall[d].at # "Run"
      BY <1>0, <2>1
    <3> QED BY <1>0, <1>2, <2>1, <3>1 DEF CreatorInv
  <2> QED BY <2>1
<1>4. /\ \A d \in Creators : poolCall'[d] = poolCall[d] /\ poolCall[d].e # e => CreatorInv(d)'
      /\ \A f \in Entries : f # e => EntryInv(f)'
      /\ ReaperInv'
  BY <1>1, <1>2, Elsewhere
<1>5. /\ poolCall'[c].at = "Attr" /\ poolCall'[c].e = e
      /\ \A d \in Creators : d # c => poolCall'[d] = poolCall[d]
      /\ poolCall' \in [Creators -> [at : {"Run"} \cup CreatingAt \cup JoiningAt,
                                     e : 0..MaxThreads]]
  BY <1>0, <1>2
<1>6. PoolTyped'
  BY <1>0, <1>1, <1>2, <1>5 DEF PoolTyped
<1>7. CreatorInv(c)'
  BY <1>1, <1>2, <1>5 DEF CreatorInv
<1>8. EntryInv(e)'
  BY <1>1, <1>2 DEF EntryInv
<1>9. \A d, g \in Creators : poolCall'[d].at # "Run" /\ poolCall'[d].e = poolCall'[g].e => d = g
  BY <1>0, <1>3, <1>5
<1>10. \A d \in Creators : poolCall'[d].at = "Run" => poolCall'[d].e = 0
  BY <1>0, <1>5
<1> QED BY <1>3, <1>4, <1>5, <1>6, <1>7, <1>8, <1>9, <1>10, PoolParts

\* A step of creator c with the entry it has.
LEMMA OwnStep ==
    ASSUME PoolControl, NEW c \in Creators, poolCall[c].at # "Run",
           NEW e, e = poolCall[c].e, NEW to \in {"Run"} \cup CreatingAt \cup JoiningAt,
           poolCall' = [poolCall EXCEPT ![c] =
                           [at |-> to, e |-> IF to = "Run" THEN 0 ELSE e]],
           UNCHANGED <<poolSize, reaper>>,
           \A f \in Entries : f # e => /\ entry'[f] = entry[f] /\ host'[f] = host[f]
                                       /\ f \in mine' <=> f \in mine,
           mine' \subseteq Entries,
           host' \in [Entries -> {"None", "Running", "Ending", "Ended"}],
           EntryInv(e)', CreatorInv(c)'
    PROVE  PoolControl'
<1> USE DEF Entries, JoiningAt, CreatingAt
<1>0. /\ PoolTyped /\ ReaperInv
      /\ \A d \in Creators : CreatorInv(d)
      /\ \A f \in Entries : EntryInv(f)
      /\ \A d, g \in Creators : poolCall[d].at # "Run" /\ poolCall[d].e = poolCall[g].e => d = g
      /\ \A d \in Creators : poolCall[d].at = "Run" => poolCall[d].e = 0
      /\ poolSize \in 0..MaxThreads
      /\ poolCall \in [Creators -> [at : {"Run"} \cup CreatingAt \cup JoiningAt,
                                    e : 0..MaxThreads]]
      /\ MaxThreads \in Nat
  BY PoolFacts
<1>1. e \in 1..poolSize /\ e \in Entries /\ e # 0 /\ (reaper.at \in JoiningAt => reaper.e # e)
  BY <1>0 DEF CreatorInv
<1>2. \A d \in Creators : d # c => poolCall[d].e # e
  BY <1>0, <1>1
<1>3. /\ \A d \in Creators : poolCall'[d] = poolCall[d] /\ poolCall[d].e # e => CreatorInv(d)'
      /\ \A f \in Entries : f # e => EntryInv(f)'
      /\ ReaperInv'
  BY <1>1, Elsewhere
<1>4. /\ poolCall'[c].at = to /\ poolCall'[c].e = IF to = "Run" THEN 0 ELSE e
      /\ \A d \in Creators : d # c => poolCall'[d] = poolCall[d]
      /\ poolCall' \in [Creators -> [at : {"Run"} \cup CreatingAt \cup JoiningAt,
                                     e : 0..MaxThreads]]
  BY <1>0, <1>1
<1>5. PoolTyped'
  BY <1>0, <1>4 DEF PoolTyped
<1>6. \A d, g \in Creators : poolCall'[d].at # "Run" /\ poolCall'[d].e = poolCall'[g].e => d = g
  <2>1. \A d \in Creators : d # c /\ poolCall'[d].at # "Run" => poolCall'[d].e # 0
    BY <1>0, <1>4 DEF CreatorInv
  <2> QED BY <1>0, <1>1, <1>2, <1>4, <2>1
<1>7. \A d \in Creators : poolCall'[d].at = "Run" => poolCall'[d].e = 0
  BY <1>0, <1>4
<1>8. \A d \in Creators : CreatorInv(d)'
  BY <1>2, <1>3, <1>4
<1>9. \A f \in Entries : EntryInv(f)'
  BY <1>3
<1> QED BY <1>3, <1>5, <1>6, <1>7, <1>8, <1>9, PoolParts

\* What a step of PthreadJoin does to the entry, by the name of the step.
LEMMA JoinStepFacts ==
    ASSUME NEW from, NEW to, NEW e \in Entries, JoinStep(from, to, e),
           entry \in [Entries -> EntryStates],
           host \in [Entries -> {"None", "Running", "Ending", "Ended"}]
    PROVE  /\ \A f \in Entries : f # e => entry'[f] = entry[f] /\ host'[f] = host[f]
           /\ host' \in [Entries -> {"None", "Running", "Ending", "Ended"}]
           /\ entry'[e].detached = entry[e].detached
           /\ \/ /\ from = "Join" /\ to = "Clear" /\ host[e] = "Ended" /\ host'[e] = "None"
                 /\ entry'[e].free = entry[e].free
                 /\ entry'[e].almostDone = entry[e].almostDone
              \/ /\ from = "Clear" /\ to = "Free" /\ host'[e] = host[e]
                 /\ entry'[e].free = entry[e].free /\ entry'[e].almostDone = FALSE
              \/ /\ from = "Free" /\ to = "Done" /\ host'[e] = host[e]
                 /\ entry'[e].free = TRUE
                 /\ entry'[e].almostDone = entry[e].almostDone
<1>1. entry[e] \in EntryStates
  OBVIOUS
<1>2. CASE from = "Join" /\ to = "Clear" /\ HostJoin(e)
  BY <1>1, <1>2 DEF HostJoin, EntryStates
<1>3. CASE from = "Clear" /\ to = "Free" /\ host' = host
           /\ entry' = [entry EXCEPT ![e].almostDone = FALSE]
  BY <1>1, <1>3 DEF EntryStates
<1>4. CASE from = "Free" /\ to = "Done" /\ host' = host
           /\ entry' = [entry EXCEPT ![e].free = TRUE]
  BY <1>1, <1>4 DEF EntryStates
<1> QED BY <1>2, <1>3, <1>4 DEF JoinStep

LEMMA JoinGuestStep ==
    ASSUME PoolControl, NEW c \in Creators, JoinGuest(c), entry \in [Entries -> EntryStates]
    PROVE  PoolControl'
<1> USE DEF Entries, JoiningAt, CreatingAt
<1>e. PICK e : e = poolCall[c].e
  OBVIOUS
<1>1. PICK to \in {"Clear", "Free", "Done"} :
         /\ JoinStep(poolCall[c].at, to, e)
         /\ IF to = "Done" THEN PoolGoto(c, "Run", 0) ELSE PoolGoto(c, to, e)
  BY <1>e DEF JoinGuest
<1>2. UNCHANGED <<poolSize, mine, reaper, stackLast>>
  BY DEF JoinGuest
<1>3. poolCall[c].at \in JoiningAt
  BY <1>1 DEF JoinStep
<1>4. /\ e \in 1..poolSize /\ e \in Entries /\ ~entry[e].free /\ e \notin mine /\ ~entry[e].detached
      /\ reaper.at \in JoiningAt => reaper.e # e
      /\ poolCall[c].at = "Join" <=> host[e] # "None"
      /\ poolCall[c].at = "Free" => ~entry[e].almostDone
      /\ poolSize \in 0..MaxThreads /\ mine \subseteq Entries /\ MaxThreads \in Nat
      /\ host \in [Entries -> {"None", "Running", "Ending", "Ended"}]
  BY <1>e, <1>3, PoolFacts DEF CreatorInv
<1>5. /\ \A f \in Entries : f # e => entry'[f] = entry[f] /\ host'[f] = host[f]
      /\ host' \in [Entries -> {"None", "Running", "Ending", "Ended"}]
      /\ entry'[e].detached = entry[e].detached
      /\ \/ /\ poolCall[c].at = "Join" /\ to = "Clear" /\ host[e] = "Ended" /\ host'[e] = "None"
            /\ entry'[e].free = entry[e].free
            /\ entry'[e].almostDone = entry[e].almostDone
         \/ /\ poolCall[c].at = "Clear" /\ to = "Free" /\ host'[e] = host[e]
            /\ entry'[e].free = entry[e].free /\ entry'[e].almostDone = FALSE
         \/ /\ poolCall[c].at = "Free" /\ to = "Done" /\ host'[e] = host[e]
            /\ entry'[e].free = TRUE
            /\ entry'[e].almostDone = entry[e].almostDone
  BY <1>1, <1>4, JoinStepFacts
<1> DEFINE at == IF to = "Done" THEN "Run" ELSE to
<1>6. poolCall' = [poolCall EXCEPT ![c] = [at |-> at, e |-> IF at = "Run" THEN 0 ELSE e]]
  BY <1>1 DEF PoolGoto
<1>7. poolCall'[c].at = at /\ poolCall'[c].e = IF at = "Run" THEN 0 ELSE e
  BY <1>6, PoolFacts
<1>8. CreatorInv(c)'
  BY <1>2, <1>4, <1>5, <1>7 DEF CreatorInv
<1>9. EntryInv(e)'
  BY <1>2, <1>4, <1>5 DEF EntryInv
<1>10. at \in {"Run"} \cup CreatingAt \cup JoiningAt
  BY <1>1
<1>11. /\ poolCall[c].at # "Run" /\ mine' \subseteq Entries
       /\ \A f \in Entries : f # e => /\ entry'[f] = entry[f] /\ host'[f] = host[f]
                                      /\ f \in mine' <=> f \in mine
  BY <1>2, <1>3, <1>4, <1>5
<1> HIDE DEF at
<1> QED BY <1>2, <1>5, <1>6, <1>8, <1>9, <1>10, <1>11, <1>e, OwnStep

\* The end of a create, with a thread or without.
LEMMA CreateEndsStep ==
    ASSUME PoolControl, NEW c \in Creators, entry \in [Entries -> EntryStates],
           \/ CreateFailed(c)
           \/ /\ PoolAt(c, "Start") /\ entry' = entry
              /\ host' = [host EXCEPT ![poolCall[c].e] = "Running"]
              /\ mine' = IF entry[poolCall[c].e].wants THEN mine ELSE mine \cup {poolCall[c].e}
              /\ PoolGoto(c, "Run", 0) /\ UNCHANGED <<poolSize, reaper>>
    PROVE  PoolControl'
<1> USE DEF Entries, JoiningAt, CreatingAt
<1>e. PICK e : e = poolCall[c].e
  OBVIOUS
<1>1. poolCall[c].at \in {"Start", "Failed"} /\ UNCHANGED <<poolSize, reaper>>
      /\ poolCall' = [poolCall EXCEPT ![c] = [at |-> "Run", e |-> 0]]
  BY DEF CreateFailed, PoolAt, PoolGoto
<1>2. /\ e \in 1..poolSize /\ e \in Entries /\ ~entry[e].free /\ e \notin mine
      /\ host[e] = "None" /\ ~entry[e].almostDone
      /\ poolCall[c].at = "Start" => (entry[e].detached <=> entry[e].wants)
      /\ poolSize \in 0..MaxThreads /\ mine \subseteq Entries /\ MaxThreads \in Nat
      /\ host \in [Entries -> {"None", "Running", "Ending", "Ended"}]
  BY <1>e, <1>1, PoolFacts DEF CreatorInv
<1>3. poolCall'[c].at = "Run"
  BY <1>1, PoolFacts
<1>4. CreatorInv(c)'
  BY <1>3 DEF CreatorInv
<1>5. CASE CreateFailed(c)
  <2>1. entry[e] \in EntryStates /\ entry' = [entry EXCEPT ![e].free = TRUE] /\ host' = host
        /\ mine' = mine
    BY <1>e, <1>2, <1>5 DEF CreateFailed
  <2>2. /\ entry'[e].free = TRUE /\ entry'[e].almostDone = entry[e].almostDone
        /\ \A f \in Entries : f # e => entry'[f] = entry[f]
    BY <1>2, <2>1 DEF EntryStates
  <2>3. EntryInv(e)'
    BY <1>1, <1>2, <2>1, <2>2 DEF EntryInv
  <2> QED BY <1>1, <1>2, <1>4, <2>1, <2>2, <2>3, <1>e, OwnStep
<1>6. CASE /\ PoolAt(c, "Start") /\ entry' = entry
           /\ host' = [host EXCEPT ![e] = "Running"]
           /\ mine' = IF entry[e].wants THEN mine ELSE mine \cup {e}
  <2>1. /\ host'[e] = "Running" /\ \A f \in Entries : f # e => host'[f] = host[f]
        /\ host' \in [Entries -> {"None", "Running", "Ending", "Ended"}]
    BY <1>2, <1>6
  <2>2. /\ \A f \in Entries : f # e => (f \in mine' <=> f \in mine)
        /\ mine' \subseteq Entries /\ (e \in mine' => ~entry[e].wants)
    BY <1>2, <1>6
  <2>3. EntryInv(e)'
    BY <1>1, <1>2, <1>6, <2>1, <2>2 DEF EntryInv, PoolAt
  <2> QED BY <1>1, <1>2, <1>4, <1>6, <2>1, <2>2, <2>3, <1>e, OwnStep
<1> QED BY <1>e, <1>5, <1>6

\* PthreadJoin by a guest that may still join the thread.
LEMMA JoinBeginStep ==
    ASSUME PoolControl, NEW c \in Creators, NEW e \in Entries, JoinBegin(c, e)
    PROVE  PoolControl'
<1> USE DEF Entries, JoiningAt, CreatingAt
<1>0. /\ PoolTyped /\ ReaperInv
      /\ \A d \in Creators : CreatorInv(d)
      /\ \A d, g \in Creators : poolCall[d].at # "Run" /\ poolCall[d].e = poolCall[g].e => d = g
      /\ \A d \in Creators : poolCall[d].at = "Run" => poolCall[d].e = 0
      /\ poolSize \in 0..MaxThreads /\ mine \subseteq Entries
      /\ poolCall \in [Creators -> [at : {"Run"} \cup CreatingAt \cup JoiningAt,
                                    e : 0..MaxThreads]]
      /\ MaxThreads \in Nat
  BY PoolFacts
<1>1. /\ poolCall[c].at = "Run" /\ e \in mine /\ mine' = mine \ {e}
      /\ poolCall' = [poolCall EXCEPT ![c] = [at |-> "Join", e |-> e]]
      /\ UNCHANGED <<poolSize, entry, host, reaper>>
  BY DEF JoinBegin, PoolAt, PoolGoto
<1>2. /\ EntryInv(e) /\ e <= poolSize /\ ~entry[e].free /\ ~entry[e].detached /\ host[e] # "None"
      /\ reaper.at \in JoiningAt => reaper.e # e
  BY <1>1, PoolFacts DEF EntryInv, ReaperInv
<1>3. \A d \in Creators : poolCall[d].e # e
  <2>1. ASSUME NEW d \in Creators, poolCall[d].e = e PROVE FALSE
    <3>1. poolCall[d].at # "Run"
      BY <1>0, <2>1
    <3> QED BY <1>0, <1>1, <2>1, <3>1 DEF CreatorInv
  <2> QED BY <2>1
<1>4. /\ \A d \in Creators : poolCall'[d] = poolCall[d] /\ poolCall[d].e # e => CreatorInv(d)'
      /\ \A f \in Entries : f # e => EntryInv(f)'
      /\ ReaperInv'
  BY <1>1, <1>2, Elsewhere
<1>5. /\ poolCall'[c].at = "Join" /\ poolCall'[c].e = e
      /\ \A d \in Creators : d # c => poolCall'[d] = poolCall[d]
      /\ poolCall' \in [Creators -> [at : {"Run"} \cup CreatingAt \cup JoiningAt,
                                     e : 0..MaxThreads]]
  BY <1>0, <1>1
<1>6. PoolTyped'
  BY <1>0, <1>1, <1>5 DEF PoolTyped
<1>7. CreatorInv(c)'
  BY <1>0, <1>1, <1>2, <1>5 DEF CreatorInv
<1>8. EntryInv(e)'
  BY <1>1, <1>2 DEF EntryInv
<1>9. \A d, g \in Creators : poolCall'[d].at # "Run" /\ poolCall'[d].e = poolCall'[g].e => d = g
  BY <1>0, <1>3, <1>5
<1>10. \A d \in Creators : poolCall'[d].at = "Run" => poolCall'[d].e = 0
  BY <1>0, <1>5
<1> QED BY <1>3, <1>4, <1>5, <1>6, <1>7, <1>8, <1>9, <1>10, PoolParts

\* A thread's end, and a detach before, during or after it.
LEMMA ThreadStep ==
    ASSUME PoolControl, NEW e \in Entries, entry \in [Entries -> EntryStates],
           CleanupThread(e) \/ HostExit(e) \/ Detach(e)
    PROVE  PoolControl'
<1> USE DEF Entries, JoiningAt, CreatingAt
<1>0. /\ PoolTyped /\ ReaperInv
      /\ \A d \in Creators : CreatorInv(d)
      /\ \A d, g \in Creators : poolCall[d].at # "Run" /\ poolCall[d].e = poolCall[g].e => d = g
      /\ \A d \in Creators : poolCall[d].at = "Run" => poolCall[d].e = 0
      /\ EntryInv(e) /\ mine \subseteq Entries
      /\ host \in [Entries -> {"None", "Running", "Ending", "Ended"}]
  BY PoolFacts
<1>1. /\ UNCHANGED <<poolSize, poolCall, reaper>>
      /\ \A f \in Entries : f # e => entry'[f] = entry[f] /\ host'[f] = host[f]
      /\ entry'[e].free = entry[e].free
      /\ host' \in [Entries -> {"None", "Running", "Ending", "Ended"}]
  <2>1. entry[e] \in EntryStates
    OBVIOUS
  <2>2. CASE CleanupThread(e)
    BY <1>0, <2>1, <2>2 DEF CleanupThread, EntryStates
  <2>3. CASE HostExit(e)
    BY <1>0, <2>3 DEF HostExit
  <2>4. CASE Detach(e)
    BY <1>0, <2>1, <2>4 DEF Detach, EntryStates
  <2> QED BY <2>2, <2>3, <2>4
<1>2. /\ mine' \subseteq mine /\ \A f \in Entries : f # e => (f \in mine' <=> f \in mine)
      /\ host[e] # "None" /\ host'[e] # "None"
      /\ host'[e] = "Running" => ~entry'[e].almostDone
      /\ \/ mine' = mine /\ (entry'[e].detached <=> entry[e].detached)
         \/ e \in mine /\ e \notin mine'
  <2>1. entry[e] \in EntryStates
    OBVIOUS
  <2>2. CASE CleanupThread(e)
    BY <1>0, <2>1, <2>2 DEF CleanupThread, EntryStates
  <2>3. CASE HostExit(e)
    BY <1>0, <2>1, <2>3 DEF HostExit
  <2>4. CASE Detach(e)
    BY <1>0, <2>1, <2>4 DEF Detach, EntryStates, EntryInv
  <2> QED BY <2>2, <2>3, <2>4
<1>3. /\ \A d \in Creators : poolCall'[d] = poolCall[d] /\ poolCall[d].e # e => CreatorInv(d)'
      /\ \A f \in Entries : f # e => EntryInv(f)'
      /\ (reaper.at \in JoiningAt => reaper.e # e) => ReaperInv'
  BY <1>1, <1>2, Elsewhere
<1>4. EntryInv(e)'
  BY <1>0, <1>1, <1>2 DEF EntryInv
<1>5. ReaperInv'
  <2>1. CASE reaper.at \in JoiningAt /\ reaper.e = e
    BY <1>0, <1>1, <1>2, <2>1 DEF ReaperInv
  <2> QED BY <1>3, <2>1
<1>6. ASSUME NEW d \in Creators, poolCall[d].e = e PROVE CreatorInv(d)'
  BY <1>0, <1>1, <1>2, <1>6 DEF CreatorInv
<1>7. \A d \in Creators : CreatorInv(d)'
  BY <1>1, <1>3, <1>6
<1>8. PoolTyped'
  BY <1>0, <1>1, <1>2 DEF PoolTyped
<1> QED BY <1>0, <1>1, <1>3, <1>4, <1>5, <1>7, <1>8, PoolParts

\* FreeDetachedThreads starts, and looks at an entry: what it may join is a
\* thread that has ended, and nobody else has its entry.
LEMMA ReaperLookStep ==
    ASSUME PoolControl, ReaperStart \/ ReaperLook
    PROVE  PoolControl'
<1> USE DEF Entries, JoiningAt, CreatingAt
<1>0. /\ PoolTyped /\ ReaperInv
      /\ \A d \in Creators : CreatorInv(d)
      /\ \A f \in Entries : EntryInv(f)
      /\ \A d, g \in Creators : poolCall[d].at # "Run" /\ poolCall[d].e = poolCall[g].e => d = g
      /\ \A d \in Creators : poolCall[d].at = "Run" => poolCall[d].e = 0
      /\ poolSize \in 0..MaxThreads /\ MaxThreads \in Nat
      /\ reaper \in [at : {"Sleep", "Look"} \cup JoiningAt, e : 0..(MaxThreads + 1)]
  BY PoolFacts
<1>1. UNCHANGED <<poolSize, entry, host, mine, poolCall>> /\ reaper.at \in {"Sleep", "Look"}
  BY DEF ReaperStart, ReaperLook
<1>2. CASE reaper'.at \in {"Sleep", "Look"} /\ (reaper'.at = "Look" => reaper'.e \in 1..(poolSize + 1))
           /\ reaper' \in [at : {"Sleep", "Look"} \cup JoiningAt, e : 0..(MaxThreads + 1)]
  <2>1. PoolTyped' /\ ReaperInv'
    BY <1>0, <1>1, <1>2 DEF PoolTyped, ReaperInv
  <2>2. \A d \in Creators : CreatorInv(d)'
    BY <1>0, <1>1, <1>2 DEF CreatorInv
  <2>3. \A f \in Entries : EntryInv(f)'
    BY <1>0, <1>1, <1>2 DEF EntryInv
  <2> QED BY <1>0, <1>1, <2>1, <2>2, <2>3, PoolParts
<1>3. CASE reaper.at = "Look" /\ reaper.e <= poolSize /\ IsReapable(reaper.e)
           /\ reaper' = [at |-> "Join", e |-> reaper.e]
  <2>1. PICK e : e = reaper.e
    OBVIOUS
  <2>2. e \in 1..poolSize /\ e \in Entries /\ EntryInv(e)
    BY <1>0, <1>3, <2>1 DEF ReaperInv
  <2>3. /\ entry[e].detached /\ entry[e].almostDone /\ ~entry[e].free
        /\ reaper'.at = "Join" /\ reaper'.e = e
    BY <1>3, <2>1 DEF IsReapable
  <2>4. host[e] # "None" /\ e \notin mine
    BY <1>3, <2>2, <2>3 DEF EntryInv
  <2>5. \A d \in Creators : poolCall[d].at # "Run" => poolCall[d].e # e
    BY <1>0, <2>3, <2>4 DEF CreatorInv
  <2>6. ReaperInv'
    BY <1>1, <2>2, <2>3, <2>4 DEF ReaperInv
  <2>7. \A d \in Creators : CreatorInv(d)'
    BY <1>0, <1>1, <2>3, <2>5 DEF CreatorInv
  <2>8. \A f \in Entries : EntryInv(f)'
    BY <1>0, <1>1, <1>3 DEF EntryInv
  <2>9. reaper' \in [at : {"Sleep", "Look"} \cup JoiningAt, e : 0..(MaxThreads + 1)]
    BY <1>0, <1>3
  <2>10. PoolTyped'
    BY <1>0, <1>1, <2>9 DEF PoolTyped
  <2> QED BY <1>0, <1>1, <2>6, <2>7, <2>8, <2>10, PoolParts
<1>4. CASE ReaperStart
  BY <1>0, <1>2, <1>4 DEF ReaperStart, ReaperGoto
<1>5. CASE ReaperLook
  <2>1. reaper.at = "Look" /\ reaper.e \in 1..(poolSize + 1)
    BY <1>0, <1>5 DEF ReaperLook, ReaperInv
  <2>2. CASE reaper.e > poolSize
    BY <1>0, <1>2, <1>5, <2>1, <2>2 DEF ReaperLook, ReaperGoto
  <2>3. CASE reaper.e <= poolSize /\ IsReapable(reaper.e)
    BY <1>0, <1>3, <1>5, <2>1, <2>3 DEF ReaperLook, ReaperGoto
  <2>4. CASE reaper.e <= poolSize /\ ~IsReapable(reaper.e)
    <3>1. reaper' = [at |-> "Look", e |-> reaper.e + 1]
      BY <1>0, <1>5, <2>1, <2>4 DEF ReaperLook, ReaperGoto
    <3> QED BY <1>0, <1>2, <2>1, <2>4, <3>1
  <2> QED BY <1>0, <2>1, <2>2, <2>3, <2>4
<1> QED BY <1>4, <1>5

\* The reaper joins.
LEMMA ReaperJoinStep ==
    ASSUME PoolControl, ReaperJoin, entry \in [Entries -> EntryStates]
    PROVE  PoolControl'
<1> USE DEF Entries, JoiningAt, CreatingAt
<1>0. /\ PoolTyped /\ ReaperInv
      /\ \A d \in Creators : CreatorInv(d)
      /\ \A d, g \in Creators : poolCall[d].at # "Run" /\ poolCall[d].e = poolCall[g].e => d = g
      /\ \A d \in Creators : poolCall[d].at = "Run" => poolCall[d].e = 0
      /\ poolSize \in 0..MaxThreads /\ MaxThreads \in Nat
      /\ host \in [Entries -> {"None", "Running", "Ending", "Ended"}]
      /\ reaper \in [at : {"Sleep", "Look"} \cup JoiningAt, e : 0..(MaxThreads + 1)]
  BY PoolFacts
<1>e. PICK e : e = reaper.e
  OBVIOUS
<1>1. PICK to \in {"Clear", "Free", "Done"} :
         /\ JoinStep(reaper.at, to, e)
         /\ IF to = "Done" THEN ReaperGoto("Look", e + 1) ELSE ReaperGoto(to, e)
  BY <1>e DEF ReaperJoin
<1>2. UNCHANGED <<poolSize, mine, poolCall, stackLast>>
  BY DEF ReaperJoin
<1>3. reaper.at \in JoiningAt
  BY <1>1 DEF JoinStep
<1>4. /\ e \in 1..poolSize /\ e \in Entries /\ ~entry[e].free /\ e \notin mine /\ entry[e].detached
      /\ reaper.at = "Join" <=> host[e] # "None"
      /\ reaper.at = "Free" => ~entry[e].almostDone
  BY <1>0, <1>3, <1>e DEF ReaperInv
<1>5. /\ \A f \in Entries : f # e => entry'[f] = entry[f] /\ host'[f] = host[f]
      /\ host' \in [Entries -> {"None", "Running", "Ending", "Ended"}]
      /\ entry'[e].detached = entry[e].detached
      /\ \/ /\ reaper.at = "Join" /\ to = "Clear" /\ host[e] = "Ended" /\ host'[e] = "None"
            /\ entry'[e].free = entry[e].free
            /\ entry'[e].almostDone = entry[e].almostDone
         \/ /\ reaper.at = "Clear" /\ to = "Free" /\ host'[e] = host[e]
            /\ entry'[e].free = entry[e].free /\ entry'[e].almostDone = FALSE
         \/ /\ reaper.at = "Free" /\ to = "Done" /\ host'[e] = host[e]
            /\ entry'[e].free = TRUE
            /\ entry'[e].almostDone = entry[e].almostDone
  BY <1>0, <1>1, <1>4, JoinStepFacts
<1>6. /\ reaper'.at = IF to = "Done" THEN "Look" ELSE to
      /\ reaper'.e = IF to = "Done" THEN e + 1 ELSE e
      /\ reaper' \in [at : {"Sleep", "Look"} \cup JoiningAt, e : 0..(MaxThreads + 1)]
  BY <1>0, <1>1, <1>4 DEF ReaperGoto
<1>7. /\ \A d \in Creators : poolCall'[d] = poolCall[d] /\ poolCall[d].e # e => CreatorInv(d)'
      /\ \A f \in Entries : f # e => EntryInv(f)'
  <2>1. reaper'.at \in JoiningAt => reaper'.e = e
    BY <1>6
  <2> QED BY <1>2, <1>4, <1>5, <1>e, <2>1, Elsewhere
<1>8. ReaperInv'
  <2>1. CASE to = "Done"
    <3>1. reaper'.at = "Look" /\ reaper'.e = e + 1
      BY <1>6, <2>1
    <3>2. e + 1 \in 1..(poolSize' + 1)
      BY <1>0, <1>2, <1>4
    <3> QED BY <3>1, <3>2 DEF ReaperInv
  <2>2. CASE to # "Done"
    <3>1. reaper'.at = to /\ reaper'.e = e /\ e \notin mine' /\ e \in 1..poolSize'
      BY <1>2, <1>4, <1>6, <2>2
    <3>2. /\ ~entry'[e].free /\ entry'[e].detached /\ host'[e] = "None"
          /\ to = "Free" => ~entry'[e].almostDone
      BY <1>4, <1>5, <2>2
    <3> QED BY <1>1, <2>2, <3>1, <3>2 DEF ReaperInv
  <2> QED BY <2>1, <2>2
<1>9. EntryInv(e)'
  BY <1>0, <1>2, <1>4, <1>5, <1>6 DEF EntryInv
<1>10. \A d \in Creators : CreatorInv(d)'
  <2>1. ASSUME NEW d \in Creators, poolCall[d].e = e PROVE CreatorInv(d)'
    <3>1. poolCall[d].at = "Run"
      BY <1>0, <1>3, <1>e, <2>1 DEF CreatorInv
    <3> QED BY <1>2, <3>1 DEF CreatorInv
  <2> QED BY <1>2, <1>7, <2>1
<1>11. PoolTyped'
  BY <1>0, <1>2, <1>5, <1>6 DEF PoolTyped
<1> QED BY <1>0, <1>2, <1>7, <1>8, <1>9, <1>10, <1>11, PoolParts

\* Entry e gets the stack s, or none, with what that means for the cache and
\* the range: nothing, its first or a new one is taken, or e's own is added.
StackMove(e, s) ==
    \/ s \in {NoStack, entry[e].stack} /\ UNCHANGED <<stackCache, stackLast>>
    \/ /\ stackCache # <<>> /\ stackCache' = Tail(stackCache) /\ stackLast' = stackLast
       /\ s \in {entry[e].stack, Head(stackCache)}
    \/ /\ stackCache' = stackCache /\ stackLast < MaxStacks /\ stackLast' = stackLast + 1
       /\ s \in {entry[e].stack, stackLast + 1}
    \/ s = NoStack /\ StackFreed(e) /\ stackLast' = stackLast

LEMMA StackStep ==
    ASSUME PoolStacks, NEW e \in Entries, NEW s \in 0..MaxStacks,
           entry' \in [Entries -> EntryStates],
           \A f \in Entries : f # e => entry'[f].stack = entry[f].stack,
           entry'[e].stack = s,
           StackMove(e, s)
    PROVE  PoolStacks'
<1> USE DEF NoStack
<1>0. /\ stackCache \in Seq(1..MaxStacks) /\ stackLast \in 0..MaxStacks
      /\ Len(stackCache) \in Nat /\ MaxStacks \in Nat
      /\ \A f \in Entries : entry[f].stack \in 0..MaxStacks /\ entry[f].stack <= stackLast
      /\ \A i \in 1..Len(stackCache) : stackCache[i] \in 1..MaxStacks /\ stackCache[i] <= stackLast
  BY PoolAssumption DEF PoolStacks, EntryStates
<1>1. /\ \A g, f \in Entries : g # f /\ entry[g].stack = entry[f].stack => entry[g].stack = 0
      /\ \A i \in 1..Len(stackCache) : \A f \in Entries : entry[f].stack # stackCache[i]
      /\ \A i, j \in 1..Len(stackCache) : stackCache[i] = stackCache[j] => i = j
  BY DEF PoolStacks, StacksApart
<1>2. \A f \in Entries : entry'[f].stack = IF f = e THEN s ELSE entry[f].stack
  OBVIOUS
<1> DEFINE Fine ==
      /\ stackCache' \in Seq(1..MaxStacks) /\ stackLast' \in 0..MaxStacks
      /\ \A g, f \in Entries : g # f /\ entry'[g].stack = entry'[f].stack => entry'[g].stack = 0
      /\ \A i \in 1..Len(stackCache') : \A f \in Entries : entry'[f].stack # stackCache'[i]
      /\ \A i, j \in 1..Len(stackCache') : stackCache'[i] = stackCache'[j] => i = j
      /\ \A f \in Entries : entry'[f].stack <= stackLast'
      /\ \A i \in 1..Len(stackCache') : stackCache'[i] <= stackLast'
<1>3. CASE s \in {0, entry[e].stack} /\ UNCHANGED <<stackCache, stackLast>>
  <2>1. \A f \in Entries : f # e /\ entry[f].stack = s => s = 0
    BY <1>1, <1>3
  <2>2. s <= stackLast /\ \A i \in 1..Len(stackCache) : s # stackCache[i]
    BY <1>0, <1>1, <1>3
  <2>3. \A g, f \in Entries : g # f /\ entry'[g].stack = entry'[f].stack => entry'[g].stack = 0
    BY <1>1, <1>2, <2>1
  <2>4. \A i \in 1..Len(stackCache) : \A f \in Entries : entry'[f].stack # stackCache[i]
    BY <1>1, <1>2, <2>2
  <2>5. \A f \in Entries : entry'[f].stack <= stackLast
    BY <1>0, <1>2, <2>2
  <2>6. Fine
    BY <1>0, <1>1, <1>3, <2>3, <2>4, <2>5
  <2> QED BY <2>6 DEF PoolStacks, StacksApart
<1>4. CASE /\ stackCache # <<>> /\ stackCache' = Tail(stackCache) /\ stackLast' = stackLast
           /\ s \in {entry[e].stack, Head(stackCache)}
  <2>1. /\ stackCache' \in Seq(1..MaxStacks) /\ Len(stackCache') = Len(stackCache) - 1
        /\ \A i \in 1..(Len(stackCache) - 1) : stackCache'[i] = stackCache[i + 1]
        /\ Head(stackCache) = stackCache[1] /\ 1 \in 1..Len(stackCache)
    BY <1>0, <1>4
  <2>2. \A i \in 1..Len(stackCache') : i + 1 \in 1..Len(stackCache) /\ i + 1 # 1
                                       /\ stackCache'[i] = stackCache[i + 1]
    BY <1>0, <2>1
  <2>3. s <= stackLast /\ (s = entry[e].stack \/ s = stackCache[1])
    BY <1>0, <1>4, <2>1
  <2>4. \A f \in Entries : f # e /\ entry[f].stack = s => s = 0
    BY <1>1, <2>1, <2>3
  <2>5. \A i \in 1..Len(stackCache') : s # stackCache'[i]
    BY <1>1, <2>1, <2>2, <2>3
  <2>6. Fine
    <3>1. \A g, f \in Entries : g # f /\ entry'[g].stack = entry'[f].stack => entry'[g].stack = 0
      BY <1>1, <1>2, <2>4
    <3>2. \A i \in 1..Len(stackCache') : \A f \in Entries : entry'[f].stack # stackCache'[i]
      BY <1>1, <1>2, <2>2, <2>5
    <3>3. \A i, j \in 1..Len(stackCache') : stackCache'[i] = stackCache'[j] => i = j
      BY <1>1, <2>2
    <3>4. \A f \in Entries : entry'[f].stack <= stackLast'
      BY <1>0, <1>2, <1>4, <2>3
    <3>5. \A i \in 1..Len(stackCache') : stackCache'[i] <= stackLast'
      BY <1>0, <1>4, <2>2
    <3> QED BY <1>0, <1>4, <2>1, <3>1, <3>2, <3>3, <3>4, <3>5
  <2> QED BY <2>6 DEF PoolStacks, StacksApart
<1>5. CASE /\ stackCache' = stackCache /\ stackLast < MaxStacks /\ stackLast' = stackLast + 1
           /\ s \in {entry[e].stack, stackLast + 1}
  <2>1. /\ \A f \in Entries : entry[f].stack # stackLast + 1
        /\ \A i \in 1..Len(stackCache) : stackCache[i] # stackLast + 1
        /\ stackLast' \in 0..MaxStacks
    BY <1>0, <1>5
  <2>2. s = entry[e].stack \/ s = stackLast + 1
    BY <1>5
  <2>3. \A g, f \in Entries : g # f /\ entry'[g].stack = entry'[f].stack => entry'[g].stack = 0
    BY <1>1, <1>2, <2>1, <2>2
  <2>4. \A i \in 1..Len(stackCache) : \A f \in Entries : entry'[f].stack # stackCache[i]
    BY <1>1, <1>2, <2>1, <2>2
  <2>5. \A f \in Entries : entry'[f].stack <= stackLast + 1
    BY <1>0, <1>2, <2>2
  <2>6. \A i \in 1..Len(stackCache) : stackCache[i] <= stackLast + 1
    BY <1>0
  <2>7. Fine
    BY <1>0, <1>1, <1>5, <2>1, <2>3, <2>4, <2>5, <2>6
  <2> QED BY <2>7 DEF PoolStacks, StacksApart
<1>6. CASE s = 0 /\ StackFreed(e) /\ stackLast' = stackLast
  <2>1. CASE entry[e].stack = 0
    BY <1>3, <1>6, <2>1 DEF StackFreed
  <2>2. CASE entry[e].stack # 0
    <3>1. stackCache' = Append(stackCache, entry[e].stack) /\ entry[e].stack \in 1..MaxStacks
      BY <1>0, <1>6, <2>2 DEF StackFreed
    <3>2. /\ stackCache' \in Seq(1..MaxStacks) /\ Len(stackCache') = Len(stackCache) + 1
          /\ stackCache'[Len(stackCache) + 1] = entry[e].stack
          /\ \A i \in 1..Len(stackCache) : stackCache'[i] = stackCache[i]
      BY <1>0, <3>1
    <3>3. \A i \in 1..Len(stackCache') :
             \/ i \in 1..Len(stackCache) /\ stackCache'[i] = stackCache[i]
             \/ i = Len(stackCache) + 1 /\ stackCache'[i] = entry[e].stack
      BY <1>0, <3>2
    <3>4. Fine
      <4>1. \A g, f \in Entries : g # f /\ entry'[g].stack = entry'[f].stack => entry'[g].stack = 0
        BY <1>1, <1>2, <1>6
      <4>2. \A i \in 1..Len(stackCache') : \A f \in Entries : entry'[f].stack # stackCache'[i]
        BY <1>0, <1>1, <1>2, <1>6, <2>2, <3>3
      <4>3. \A i, j \in 1..Len(stackCache') : stackCache'[i] = stackCache'[j] => i = j
        BY <1>1, <3>3
      <4>4. \A f \in Entries : entry'[f].stack <= stackLast'
        BY <1>0, <1>2, <1>6
      <4>5. \A i \in 1..Len(stackCache') : stackCache'[i] <= stackLast'
        BY <1>0, <1>6, <3>3
      <4> QED BY <1>0, <1>6, <3>2, <4>1, <4>2, <4>3, <4>4, <4>5
    <3> QED BY <3>4 DEF PoolStacks, StacksApart
  <2> QED BY <2>1, <2>2
<1> QED BY <1>3, <1>4, <1>5, <1>6 DEF StackMove

\* The updates of an entry that leave its stack alone, and the others.
LEMMA EntryUpdates ==
    ASSUME PoolStacks, NEW e \in Entries, NEW a \in BOOLEAN, NEW b \in BOOLEAN, NEW x,
           \/ x = [entry EXCEPT ![e].free = a]
           \/ x = [entry EXCEPT ![e].almostDone = a]
           \/ x = [entry EXCEPT ![e].detached = a]
           \/ x = [entry EXCEPT ![e].almostDone = a, ![e].detached = b]
    PROVE  /\ x \in [Entries -> EntryStates] /\ x[e].stack = entry[e].stack
           /\ \A f \in Entries : f # e => x[f].stack = entry[f].stack
<1>1. entry \in [Entries -> EntryStates] /\ entry[e] \in EntryStates
  BY DEF PoolStacks
<1>2. CASE x = [entry EXCEPT ![e].free = a]
  BY <1>1, <1>2 DEF EntryStates
<1>3. CASE x = [entry EXCEPT ![e].almostDone = a]
  BY <1>1, <1>3 DEF EntryStates
<1>4. CASE x = [entry EXCEPT ![e].detached = a]
  BY <1>1, <1>4 DEF EntryStates
<1>5. CASE x = [entry EXCEPT ![e].almostDone = a, ![e].detached = b]
  BY <1>1, <1>5 DEF EntryStates
<1> QED BY <1>2, <1>3, <1>4, <1>5

LEMMA StackUpdates ==
    ASSUME PoolStacks, NEW e \in Entries, NEW a \in BOOLEAN, NEW s \in 0..MaxStacks, NEW x,
           \/ x = [entry EXCEPT ![e].stack = s]
           \/ x = [entry EXCEPT ![e].stack = s, ![e].wants = a]
           \/ s = NoStack /\ x = [entry EXCEPT ![e] = Fresh]
           \/ s = entry[e].stack /\ x = entry
    PROVE  /\ x \in [Entries -> EntryStates] /\ x[e].stack = s
           /\ \A f \in Entries : f # e => x[f].stack = entry[f].stack
<1>1. entry \in [Entries -> EntryStates] /\ entry[e] \in EntryStates
  BY DEF PoolStacks
<1>2. CASE x = [entry EXCEPT ![e].stack = s]
  BY <1>1, <1>2 DEF EntryStates
<1>3. CASE x = [entry EXCEPT ![e].stack = s, ![e].wants = a]
  BY <1>1, <1>3 DEF EntryStates
<1>4. CASE s = NoStack /\ x = [entry EXCEPT ![e] = Fresh]
  <2>1. Fresh \in EntryStates /\ Fresh.stack = NoStack
    BY PoolAssumption DEF Fresh, EntryStates, NoStack
  <2> QED BY <1>1, <1>4, <2>1
<1>5. CASE s = entry[e].stack /\ x = entry
  BY <1>1, <1>5
<1> QED BY <1>2, <1>3, <1>4, <1>5

LEMMA HeadIsElement == ASSUME NEW S, NEW q \in Seq(S), q # <<>> PROVE Head(q) \in S
OBVIOUS

LEMMA PoolNextStacks == PoolIInv /\ [PoolNext]_poolVars => PoolStacks'
<1> SUFFICES ASSUME PoolIInv, [PoolNext]_poolVars PROVE PoolStacks'
  OBVIOUS
<1>0. /\ PoolStacks /\ PoolControl /\ NoStack \in 0..MaxStacks
      /\ \A e \in Entries : entry[e].stack \in 0..MaxStacks
      /\ \A c \in Creators : poolCall[c].at # "Run" => poolCall[c].e \in Entries
      /\ reaper.at \in JoiningAt => reaper.e \in Entries
      /\ TRUE \in BOOLEAN /\ FALSE \in BOOLEAN
  <2>1. PoolStacks /\ PoolControl /\ poolSize \in 0..MaxThreads
    BY PoolFacts DEF PoolIInv
  <2>2. NoStack \in 0..MaxStacks
    BY PoolAssumption DEF NoStack
  <2>3. \A e \in Entries : entry[e].stack \in 0..MaxStacks
    BY <2>1 DEF PoolStacks, EntryStates
  <2>4. \A c \in Creators : poolCall[c].at # "Run" => poolCall[c].e \in Entries
    BY <2>1, PoolFacts DEF CreatorInv, Entries
  <2>5. reaper.at \in JoiningAt => reaper.e \in Entries
    BY <2>1, PoolFacts DEF ReaperInv, Entries
  <2> QED BY <2>1, <2>2, <2>3, <2>4, <2>5
<1>1. CASE entry' = entry /\ UNCHANGED <<stackCache, stackLast>>
  BY <1>0, <1>1 DEF PoolStacks, StacksApart
<1>2. ASSUME NEW e \in Entries, NEW a \in BOOLEAN, NEW b \in BOOLEAN,
             \/ entry' = [entry EXCEPT ![e].free = a]
             \/ entry' = [entry EXCEPT ![e].almostDone = a]
             \/ entry' = [entry EXCEPT ![e].detached = a]
             \/ entry' = [entry EXCEPT ![e].almostDone = a, ![e].detached = b],
             UNCHANGED <<stackCache, stackLast>>
      PROVE  PoolStacks'
  <2>1. entry[e].stack \in 0..MaxStacks
    BY <1>0
  <2>2. StackMove(e, entry[e].stack)
    BY <1>2 DEF StackMove
  <2>3. /\ entry' \in [Entries -> EntryStates] /\ entry'[e].stack = entry[e].stack
        /\ \A f \in Entries : f # e => entry'[f].stack = entry[f].stack
    BY <1>0, <1>2, <2>1, EntryUpdates
  <2> QED BY <1>0, <2>1, <2>2, <2>3, StackStep
<1>3. ASSUME NEW e \in Entries, NEW a \in BOOLEAN, NEW s \in 0..MaxStacks, StackMove(e, s),
             \/ entry' = [entry EXCEPT ![e].stack = s]
             \/ entry' = [entry EXCEPT ![e].stack = s, ![e].wants = a]
             \/ s = NoStack /\ entry' = [entry EXCEPT ![e] = Fresh]
             \/ s = entry[e].stack /\ entry' = entry
      PROVE  PoolStacks'
  <2>1. /\ entry' \in [Entries -> EntryStates] /\ entry'[e].stack = s
        /\ \A f \in Entries : f # e => entry'[f].stack = entry[f].stack
    BY <1>0, <1>3, StackUpdates
  <2> QED BY <1>0, <1>3, <2>1, StackStep
<1>4. ASSUME NEW e \in Entries, NEW from, NEW to, JoinStep(from, to, e), stackLast' = stackLast
      PROVE  PoolStacks'
  <2>1. CASE HostJoin(e)
    <3>1. StackMove(e, NoStack) /\ entry' = [entry EXCEPT ![e].stack = NoStack]
      BY <1>4, <2>1 DEF HostJoin, StackMove
    <3> QED BY <1>0, <1>3, <3>1
  <2>2. CASE /\ \/ entry' = [entry EXCEPT ![e].almostDone = FALSE]
                \/ entry' = [entry EXCEPT ![e].free = TRUE]
             /\ stackCache' = stackCache
    BY <1>0, <1>2, <1>4, <2>2
  <2> QED BY <1>4, <2>1, <2>2 DEF JoinStep
<1>5. ASSUME NEW c \in Creators, PoolCreate(c) PROVE PoolStacks'
  <2>1. UNCHANGED <<stackCache, stackLast>>
    BY <1>5 DEF PoolCreate
  <2>2. CASE \E e \in FreeEntries : entry' = [entry EXCEPT ![e].free = FALSE]
    <3>1. FreeEntries \subseteq Entries
      BY <1>0, PoolFacts DEF FreeEntries, Entries
    <3> QED BY <1>0, <1>2, <2>1, <2>2, <3>1
  <2>3. CASE poolSize < MaxThreads /\ entry' = [entry EXCEPT ![poolSize + 1] = Fresh]
    <3>1. poolSize + 1 \in Entries
      BY <1>0, <2>3, PoolFacts DEF Entries
    <3>2. StackMove(poolSize + 1, NoStack)
      BY <2>1 DEF StackMove
    <3> QED BY <1>0, <1>3, <2>3, <3>1, <3>2
  <2> QED BY <1>5, <2>2, <2>3 DEF PoolCreate
<1>6. ASSUME NEW c \in Creators, NEW detached \in BOOLEAN, CopyAttr(c, detached)
      PROVE  PoolStacks'
  <2>1. poolCall[c].e \in Entries
    BY <1>0, <1>6 DEF CopyAttr, PoolAt
  <2>2. StackMove(poolCall[c].e, NoStack)
    BY <1>6 DEF CopyAttr, StackMove
  <2> QED BY <1>0, <1>3, <1>6, <2>1, <2>2 DEF CopyAttr
<1>7. ASSUME NEW c \in Creators, CreateGuestStack(c) PROVE PoolStacks'
  <2>e. PICK e \in Entries : e = poolCall[c].e
    BY <1>0, <1>7 DEF CreateGuestStack, PoolAt
  <2>0. entry[e].stack \in 0..MaxStacks
    BY <1>0, <2>e
  <2>1. CASE entry' = entry /\ UNCHANGED <<stackCache, stackLast>>
    BY <1>1, <2>1
  <2>2. CASE /\ stackCache # <<>> /\ stackCache' = Tail(stackCache) /\ stackLast' = stackLast
             /\ entry' = entry \/ entry' = [entry EXCEPT ![e].stack = Head(stackCache)]
    <3>1. StackMove(e, entry[e].stack) /\ StackMove(e, Head(stackCache))
      BY <2>2 DEF StackMove
    <3>2. Head(stackCache) \in 0..MaxStacks
      <4>1. stackCache \in Seq(1..MaxStacks)
        BY <1>0 DEF PoolStacks
      <4>2. stackCache # <<>>
        BY <2>2
      <4>3. Head(stackCache) \in 1..MaxStacks
        BY <4>1, <4>2, HeadIsElement
      <4> QED BY <4>3, PoolAssumption
    <3> QED BY <1>0, <1>3, <2>e, <2>0, <2>2, <3>1, <3>2
  <2>3. CASE /\ stackCache' = stackCache /\ stackLast < MaxStacks /\ stackLast' = stackLast + 1
             /\ entry' = entry \/ entry' = [entry EXCEPT ![e].stack = stackLast + 1]
    <3>1. StackMove(e, entry[e].stack) /\ StackMove(e, stackLast + 1)
      BY <2>3 DEF StackMove
    <3>2. stackLast + 1 \in 0..MaxStacks
      BY <1>0, <2>3, PoolAssumption DEF PoolStacks
    <3> QED BY <1>0, <1>3, <2>e, <2>0, <2>3, <3>1, <3>2
  <2> QED BY <1>7, <2>e, <2>1, <2>2, <2>3 DEF CreateGuestStack, CacheRest
<1>8. ASSUME NEW c \in Creators, SetFlags(c) \/ CreateFailed(c) PROVE PoolStacks'
  <2>1. poolCall[c].e \in Entries
    BY <1>0, <1>8 DEF SetFlags, CreateFailed, PoolAt
  <2>2. entry[poolCall[c].e].wants \in BOOLEAN
    BY <1>0, <2>1 DEF PoolStacks, EntryStates
  <2> QED BY <1>0, <1>2, <1>8, <2>1, <2>2 DEF SetFlags, CreateFailed
<1>9. ASSUME NEW c \in Creators, StartThread(c) PROVE PoolStacks'
  <2>1. poolCall[c].e \in Entries
    BY <1>0, <1>9 DEF StartThread, PoolAt
  <2>2. CASE StackFreed(poolCall[c].e) /\ entry' = [entry EXCEPT ![poolCall[c].e].stack = NoStack]
    <3>1. StackMove(poolCall[c].e, NoStack)
      BY <1>9, <2>2 DEF StackMove, StartThread
    <3> QED BY <1>0, <1>3, <2>1, <2>2, <3>1
  <2> QED BY <1>1, <1>9, <2>2 DEF StartThread
<1>10. ASSUME NEW c \in Creators, JoinGuest(c) PROVE PoolStacks'
  <2>1. poolCall[c].e \in Entries
    BY <1>0, <1>10 DEF JoinGuest, JoinStep
  <2> QED BY <1>4, <1>10, <2>1 DEF JoinGuest
<1>11. CASE ReaperJoin
  <2>1. reaper.e \in Entries
    BY <1>0, <1>11 DEF ReaperJoin, JoinStep, JoiningAt
  <2> QED BY <1>4, <1>11, <2>1 DEF ReaperJoin
<1>12. ASSUME NEW e \in Entries, CleanupThread(e) \/ HostExit(e) \/ Detach(e) PROVE PoolStacks'
  BY <1>0, <1>1, <1>2, <1>12 DEF CleanupThread, HostExit, Detach
<1>13. CASE ReaperStart \/ ReaperLook \/ UNCHANGED poolVars
            \/ \E c \in Creators : \E e \in Entries : JoinBegin(c, e)
  BY <1>1, <1>13 DEF ReaperStart, ReaperLook, poolVars, JoinBegin
<1> QED BY <1>5, <1>6, <1>7, <1>8, <1>9, <1>10, <1>11, <1>12, <1>13 DEF PoolNext

LEMMA PoolNextControl == PoolIInv /\ [PoolNext]_poolVars => PoolControl'
<1> SUFFICES ASSUME PoolIInv, [PoolNext]_poolVars PROVE PoolControl'
  OBVIOUS
<1>0. /\ PoolControl /\ entry \in [Entries -> EntryStates]
      /\ \A c \in Creators : poolCall[c].at # "Run" => poolCall[c].e \in Entries
  <2>1. PoolControl /\ entry \in [Entries -> EntryStates] /\ poolSize \in 0..MaxThreads
    BY PoolFacts DEF PoolIInv, PoolStacks
  <2> QED BY <2>1, PoolFacts DEF CreatorInv, Entries
<1>1. ASSUME NEW c \in Creators, NEW detached \in BOOLEAN,
             CopyAttr(c, detached) \/ SetFlags(c) \/ CreateGuestStack(c)
             \/ (StartThread(c) /\ UNCHANGED <<host, mine>>)
      PROVE  PoolControl'
  <2>e. PICK e \in Entries : e = poolCall[c].e
    BY <1>0, <1>1 DEF CopyAttr, SetFlags, CreateGuestStack, StartThread, PoolAt
  <2>0. /\ entry[e] \in EntryStates
        /\ \A f \in Entries : f # e => entry'[f] = entry[f]
        /\ UNCHANGED <<poolSize, host, mine, reaper>>
    BY <1>0, <1>1, <2>e DEF CopyAttr, SetFlags, CreateGuestStack, StartThread
  <2>1. CASE CopyAttr(c, detached)
    <3>1. /\ entry'[e].free = entry[e].free /\ entry'[e].almostDone = entry[e].almostDone
          /\ poolCall[c].at \in CreatingAt /\ PoolGoto(c, "Stack", e)
      BY <1>0, <2>e, <2>0, <2>1 DEF CopyAttr, PoolAt, CreatingAt, EntryStates
    <3>2. "Stack" \in CreatingAt
      BY DEF CreatingAt
    <3> QED BY <1>0, <2>e, <2>0, <3>1, <3>2, CreatingStep
  <2>2. CASE SetFlags(c)
    <3>1. /\ entry'[e].free = entry[e].free /\ entry'[e].almostDone = FALSE
          /\ entry'[e].detached = entry[e].wants /\ entry'[e].wants = entry[e].wants
          /\ poolCall[c].at \in CreatingAt /\ PoolGoto(c, "Start", e)
      BY <1>0, <2>e, <2>0, <2>2 DEF SetFlags, PoolAt, CreatingAt, EntryStates
    <3>2. "Start" \in CreatingAt
      BY DEF CreatingAt
    <3> QED BY <1>0, <2>e, <2>0, <3>1, <3>2, CreatingStep
  <2>3. CASE CreateGuestStack(c) \/ (StartThread(c) /\ UNCHANGED <<host, mine>>)
    <3>1. poolCall[c].at \in CreatingAt
      BY <2>3 DEF CreateGuestStack, StartThread, PoolAt, CreatingAt
    <3>2. poolCall[c].at = "Start" => PoolGoto(c, "Failed", e)
      <4>1. CASE StartThread(c) /\ host' = host /\ PoolAt(c, "Start")
        <5>1. /\ CreatorInv(c) /\ host \in [Entries -> {"None", "Running", "Ending", "Ended"}]
          BY <1>0, PoolFacts
        <5>2. host[e] = "None"
          BY <2>e, <4>1, <5>1 DEF CreatorInv, PoolAt, CreatingAt
        <5>3. host' # [host EXCEPT ![e] = "Running"]
          BY <2>e, <4>1, <5>1, <5>2
        <5> QED BY <2>e, <4>1, <5>3 DEF StartThread
      <4> QED BY <2>3, <4>1 DEF CreateGuestStack, StartThread, PoolAt
    <3>3. \E to \in {"Flags", "Failed"} : PoolGoto(c, to, e)
      <4>1. CASE CreateGuestStack(c)
        BY <2>e, <4>1 DEF CreateGuestStack
      <4>2. CASE StartThread(c)
        BY <3>2, <4>2 DEF StartThread, PoolAt
      <4> QED BY <2>3, <4>1, <4>2
    <3>4. entry'[e].free = entry[e].free /\ entry'[e].almostDone = entry[e].almostDone
      <4>1. entry' = entry \/ \E s : entry' = [entry EXCEPT ![e].stack = s]
        BY <2>3, <2>e DEF CreateGuestStack, StartThread
      <4>2. ASSUME NEW s, entry' = [entry EXCEPT ![e].stack = s]
            PROVE  entry'[e].free = entry[e].free /\ entry'[e].almostDone = entry[e].almostDone
        BY <1>0, <2>e, <2>0, <4>2 DEF EntryStates
      <4> QED BY <4>1, <4>2
    <3>5. PICK to \in {"Flags", "Failed"} : PoolGoto(c, to, e)
      BY <3>3
    <3>6. to \in CreatingAt /\ to # "Start"
      BY <3>5 DEF CreatingAt
    <3> QED BY <1>0, <2>e, <2>0, <3>1, <3>4, <3>5, <3>6, CreatingStep
  <2> QED BY <1>1, <2>1, <2>2, <2>3
<1>2. ASSUME NEW c \in Creators, StartThread(c) PROVE PoolControl'
  <2>1. CASE UNCHANGED <<host, mine>>
    <3>1. TRUE \in BOOLEAN
      OBVIOUS
    <3> QED BY <1>1, <1>2, <2>1, <3>1
  <2>2. CASE ~UNCHANGED <<host, mine>>
    BY <1>0, <1>2, <2>2, CreateEndsStep DEF StartThread
  <2> QED BY <2>1, <2>2
<1>3. ASSUME NEW c \in Creators,
             PoolCreate(c) \/ CreateGuestStack(c) \/ SetFlags(c) \/ CreateFailed(c) \/ JoinGuest(c)
      PROVE  PoolControl'
  <2>1. TRUE \in BOOLEAN
    OBVIOUS
  <2> QED BY <1>0, <1>1, <1>3, <2>1, PoolCreateStep, CreateEndsStep, JoinGuestStep
<1>4. ASSUME NEW c \in Creators, NEW e \in Entries, JoinBegin(c, e) PROVE PoolControl'
  BY <1>0, <1>4, JoinBeginStep
<1>5. ASSUME NEW e \in Entries, CleanupThread(e) \/ HostExit(e) \/ Detach(e) PROVE PoolControl'
  BY <1>0, <1>5, ThreadStep
<1>6. CASE ReaperStart \/ ReaperLook \/ ReaperJoin
  BY <1>0, <1>6, ReaperLookStep, ReaperJoinStep
<1>7. CASE UNCHANGED poolVars
  BY <1>0, <1>7 DEF poolVars, PoolControl, PoolTyped, CreatorInv, ReaperInv, EntryInv
<1> QED BY <1>1, <1>2, <1>3, <1>4, <1>5, <1>6, <1>7 DEF PoolNext

\* The inductive invariant of the pool holds.
THEOREM PoolIInvHolds == PoolSpec => []PoolIInv
<1>1. PoolIInv /\ [PoolNext]_poolVars => PoolIInv'
  BY PoolNextStacks, PoolNextControl DEF PoolIInv
<1> QED BY <1>1, PoolInitIInv, PTL DEF PoolSpec

\* Neither an entry of the pool nor a guest stack ever has two owners: not
\* two creators, not a creator and the reaper, which looks at the flags of
\* an entry without the locks of those that write them.
THEOREM PoolIsOwned == PoolSpec => []PoolOwned
<1>1. PoolIInv => PoolOwned
  <2> SUFFICES ASSUME PoolIInv PROVE EntryOwned
    BY DEF PoolIInv, PoolStacks, PoolOwned
  <2>0. /\ ReaperInv /\ PoolTyped
        /\ \A d \in Creators : CreatorInv(d)
        /\ \A f \in Entries : EntryInv(f)
        /\ \A d, g \in Creators : poolCall[d].at # "Run" /\ poolCall[d].e = poolCall[g].e => d = g
    BY PoolFacts DEF PoolIInv
  <2> SUFFICES ASSUME NEW e \in Entries
               PROVE  /\ Cardinality(Creating(e)) + Cardinality(Joining(e))
                           + (IF Reaping(e) THEN 1 ELSE 0) <= 1
                      /\ entry[e].free => /\ host[e] = "None" /\ Creating(e) = {}
                                          /\ Joining(e) = {} /\ ~Reaping(e)
    BY DEF EntryOwned
  <2>1. \A c \in Creating(e) \cup Joining(e) :
           c \in Creators /\ poolCall[c].at # "Run" /\ poolCall[c].e = e
    BY DEF Creating, Joining
  <2>2. \A c, d \in Creating(e) \cup Joining(e) : c = d
    BY <2>0, <2>1
  <2>3. Creating(e) \cap Joining(e) = {}
    BY DEF Creating, Joining
  <2>4. Reaping(e) => Creating(e) \cup Joining(e) = {}
    BY <2>0, <2>1 DEF CreatorInv, Reaping, JoiningAt
  <2>5. entry[e].free => /\ host[e] = "None" /\ Creating(e) = {}
                         /\ Joining(e) = {} /\ ~Reaping(e)
    BY <2>0, <2>1 DEF CreatorInv, Reaping, JoiningAt, EntryInv, ReaperInv
  <2>6. Cardinality({}) = 0 /\ \A c : Cardinality({c}) = 1
    BY FS_EmptySet, FS_Singleton
  <2>7. CASE Creating(e) \cup Joining(e) = {}
    <3>1. Creating(e) = {} /\ Joining(e) = {}
      BY <2>7
    <3> QED BY <2>5, <2>6, <3>1
  <2>8. CASE Creating(e) \cup Joining(e) # {}
    <3>1. PICK c : c \in Creating(e) \cup Joining(e)
      BY <2>8
    <3>2. \/ Creating(e) = {c} /\ Joining(e) = {}
          \/ Creating(e) = {} /\ Joining(e) = {c}
      BY <2>2, <2>3, <3>1
    <3>3. ~Reaping(e)
      BY <2>4, <2>8
    <3>4. \/ Cardinality(Creating(e)) = 1 /\ Cardinality(Joining(e)) = 0
          \/ Cardinality(Creating(e)) = 0 /\ Cardinality(Joining(e)) = 1
      BY <2>6, <3>2
    <3> QED BY <2>5, <3>3, <3>4
  <2> QED BY <2>7, <2>8
<1> QED BY <1>1, PoolIInvHolds, PTL

-----------------------------------------------------------------------------
(* Kernel memory.                                                          *)

\* The types a range has.
Types == CommittedTypes \cup Reservations

\* The names a range has: the guest's, and those the calls give.
AllNames == Names \cup {"guest", "anon", "rt", ""}

\* A range as a record.
Range0 ==
    [start : Pages, size : Nat \ {0}, type : Types, offset : Int,
     prot : Prots \cup {"None"}, name : AllNames]

\* A range of the guest's address space.
IsRange(r) == r \in Range0 /\ End(r) <= MaxPage + 1

\* No page is of two ranges of R.
Disjoint(R) == \A r, s \in R : \A p \in Pages : p \in Cells(r) /\ p \in Cells(s) => r = s

\* R holds ranges only.
AllRanges(R) == \A r \in R : IsRange(r)

\* No two ranges of R could be one.
Merged(R) == \A r, s \in R : ~(End(r) = s.start /\ SameMergeKey(r, s))

\* What VirtualRanges keeps true of its ranges.
RangesOK(R) == AllRanges(R) /\ Disjoint(R) /\ Merged(R)

\* What is added to a page of a direct range or mapping to get its backing.
Base(r) == r.offset - r.start

\* The direct range r is a part of the mapping b.
Backs(b, r) == Cells(r) \subseteq Cells(b) /\ Base(r) = Base(b) /\ r.prot = b.prot

\* The mappings M of direct memory are those behind the ranges R.
MapsOK(R, M) ==
    /\ AllRanges(M) /\ Disjoint(M) /\ \A b \in M : b.type = "Direct"
    /\ CellsOf(M) = PagesOf(R, {"Direct"})
    /\ \A r \in R : r.type = "Direct" => \E b \in M : Backs(b, r)

\* Offsets of S behind some of the pages.
Partial(S) == UNION {[D -> S] : D \in SUBSET Pages}

\* The memory as a record.
Memory ==
    [ranges : SUBSET Range0, free : SUBSET Direct, allocated : SUBSET Direct,
     expansions : SUBSET SUBSET Direct, maps : SUBSET Range0,
     flex : Partial(Flexible), flexFree : SUBSET Flexible,
     pool : Partial(Direct), poolFree : SUBSET Direct, committed : Int,
     host : [Pages -> Int], gpu : SUBSET Pages, torn : BOOLEAN,
     status : {"Up", "Ended", "Escaped", "Broken"}]

\* The host has behind every page what the page's owner says.
HostOK(m) ==
    /\ \A b \in m.maps : \A p \in Cells(b) : m.host[p] = Base(b) + p
    /\ \A p \in DOMAIN m.flex : m.host[p] = m.flex[p]
    /\ \A p \in DOMAIN m.pool : m.host[p] = m.pool[p]
    /\ \A p \in PagesOf(m.ranges, PrivateTypes) : m.host[p] = Private
    /\ \A p \in Pages \ PagesOf(m.ranges, CommittedTypes) : m.host[p] = Unmapped

\* The offsets in all are behind one page each, or free.
Fills(f, free, all) ==
    /\ \A p, q \in DOMAIN f : f[p] = f[q] => p = q
    /\ Taken(f) \cup free = all /\ Taken(f) \cap free = {}

\* Every backing page has one owner.
BackingOK(m) ==
    /\ m.free \cup m.allocated \cup UNION m.expansions = Direct
    /\ m.free \cap m.allocated = {}
    /\ (m.free \cup m.allocated) \cap (UNION m.expansions) = {}
    /\ \A S, T \in m.expansions : S # T => S \cap T = {}
    /\ Fills(m.flex, m.flexFree, Flexible)
    /\ Fills(m.pool, m.poolFree, UNION m.expansions)
    /\ m.committed = Cardinality(DOMAIN m.pool)
    /\ \A b \in m.maps : Span(b.offset, b.size) \subseteq m.allocated

\* The GPU has the committed pages, all of them unless an unmapping failed.
GpuOK(m) ==
    /\ m.gpu \subseteq PagesOf(m.ranges, CommittedTypes)
    /\ ~m.torn => m.gpu = PagesOf(m.ranges, CommittedTypes)

\* The five records agree: the invariant of every call.
MemoryOK(m) ==
    /\ m \in Memory
    /\ RangesOK(m.ranges)
    /\ MapsOK(m.ranges, m.maps)
    /\ DOMAIN m.flex = PagesOf(m.ranges, {"Flexible"})
    /\ DOMAIN m.pool = PagesOf(m.ranges, {"Pooled"})
    /\ HostOK(m)
    /\ BackingOK(m)
    /\ GpuOK(m)

\* Min is the smallest element of a set of naturals.
LEMMA MinIn ==
    ASSUME NEW S \in SUBSET Nat, S # {}
    PROVE  Min(S) \in S /\ \A x \in S : Min(S) <= x
<1>1. \E m \in S : \A x \in S : m <= x
  BY Smallest
<1> QED BY <1>1 DEF Min

\* The part of S from p on ends where Stop says.
LEMMA StopFacts ==
    ASSUME NEW S \in SUBSET Pages, NEW p \in S
    PROVE  /\ Stop(S, p) \in (p + 1)..(MaxPage + 1)
           /\ Stop(S, p) \notin S
           /\ p..(Stop(S, p) - 1) \subseteq S
<1> DEFINE T == {q \in p..(MaxPage + 1) : q \notin S}
<1>0. MaxPage \in Nat /\ p \in Nat /\ p <= MaxPage /\ MaxPage + 1 \notin S
  BY MemoryAssumption DEF Pages
<1>1. T \in SUBSET Nat /\ MaxPage + 1 \in T
  BY <1>0
<1>2. Min(T) \in T /\ \A x \in T : Min(T) <= x
  BY <1>1, MinIn
<1>3. Stop(S, p) = Min(T)
  BY DEF Stop
<1> DEFINE m == Min(T)
<1>4. m \in p..(MaxPage + 1) /\ m \notin S
  BY <1>2
<1> HIDE DEF m
<1>5. ASSUME NEW x \in p..(m - 1) PROVE x \in S
  <2>1. x \in p..(MaxPage + 1) /\ ~(m <= x)
    BY <1>0, <1>4
  <2> QED BY <2>1, <1>2 DEF m
<1> QED BY <1>0, <1>3, <1>4, <1>5 DEF m

\* x is a part of the range r.
PartOf(x, r) ==
    /\ x.type = r.type /\ x.prot = r.prot /\ x.name = r.name
    /\ Cells(x) \subseteq Cells(r)
    /\ x.type = "Direct" => Base(x) = Base(r)

\* The pages of a range are pages from its start to its end.
LEMMA CellsIn ==
    ASSUME NEW r, IsRange(r)
    PROVE  /\ r.start \in Cells(r) /\ Cells(r) \subseteq Pages /\ r.start \in Pages
           /\ r.size \in Nat \ {0} /\ End(r) \in Nat
           /\ \A p \in Pages : p \in Cells(r) <=> r.start <= p /\ p < End(r)
<1>1. r.start \in Pages /\ r.size \in Nat \ {0} /\ r.start + r.size <= MaxPage + 1
  BY DEF IsRange, Range0, End
<1>2. MaxPage \in Nat /\ r.start \in Nat /\ r.start >= 1
  BY <1>1, MemoryAssumption DEF Pages
<1>3. Cells(r) = r.start..(r.start + r.size - 1)
  BY DEF Cells, Span
<1> QED BY <1>1, <1>2, <1>3 DEF Pages, End

\* A piece of a range is a range and a part of it.
LEMMA PieceFacts ==
    ASSUME NEW r, IsRange(r), NEW p \in Cells(r), NEW q \in (p + 1)..End(r)
    PROVE  /\ IsRange(Piece(r, p, q)) /\ PartOf(Piece(r, p, q), r)
           /\ Cells(Piece(r, p, q)) = p..(q - 1)
           /\ Piece(r, p, q).start = p
<1> DEFINE x == Piece(r, p, q)
<1>1. r \in Range0 /\ p \in Pages /\ p \in Nat /\ q \in Nat /\ p < q /\ q <= MaxPage + 1
      /\ MaxPage \in Nat /\ r.start \in Nat /\ r.start <= p /\ r.size \in Nat /\ r.offset \in Int
  <2>1. r \in Range0 /\ End(r) <= MaxPage + 1 /\ r.offset \in Int
    BY DEF IsRange, Range0
  <2>2. /\ Cells(r) \subseteq Pages /\ r.start \in Pages
        /\ r.size \in Nat \ {0} /\ End(r) \in Nat
        /\ r.start <= p
    BY CellsIn
  <2>3. MaxPage \in Nat
    BY MemoryAssumption
  <2> QED BY <2>1, <2>2, <2>3 DEF Pages
<1>2. /\ x.start = p /\ x.size = q - p /\ x.type = r.type /\ x.prot = r.prot /\ x.name = r.name
      /\ r.type = "Direct" => x.offset = r.offset + p - r.start
      /\ r.type # "Direct" => x.offset = r.offset
      /\ x \in Range0
  <2>1. q - p \in Nat \ {0}
    BY <1>1
  <2>2. CASE r.type = "Direct"
    <3>1. x = [r EXCEPT !.start = p, !.size = q - p, !.offset = r.offset + p - r.start]
      BY <2>2, <1>1 DEF Piece, Range0
    <3>2. r.offset + p - r.start \in Int
      BY <1>1
    <3> HIDE DEF x
    <3> QED BY <2>1, <2>2, <3>1, <3>2, <1>1 DEF Range0
  <2>3. CASE r.type # "Direct"
    <3>1. x = [r EXCEPT !.start = p, !.size = q - p]
      BY <2>3, <1>1 DEF Piece, Range0
    <3> HIDE DEF x
    <3> QED BY <2>1, <2>3, <3>1, <1>1 DEF Range0
  <2> QED BY <2>2, <2>3
<1> HIDE DEF x
<1>3. Cells(x) = p..(q - 1) /\ End(x) <= MaxPage + 1
  BY <1>1, <1>2 DEF Cells, Span, End
<1>4. p..(q - 1) \subseteq Cells(r)
  BY <1>1 DEF Cells, Span, End
<1>5. x.type = "Direct" => Base(x) = Base(r)
  BY <1>1, <1>2 DEF Base
<1> QED BY <1>2, <1>3, <1>4, <1>5 DEF x, IsRange, PartOf

\* PartsOf cuts a range to a set of its pages: parts of it, disjoint, with
\* every run of pages of the set in one of them.
LEMMA PartsOfFacts ==
    ASSUME NEW r, IsRange(r), NEW S \in SUBSET Cells(r)
    PROVE  /\ \A x \in PartsOf(r, S) : IsRange(x) /\ PartOf(x, r) /\ Cells(x) \subseteq S
           /\ \A u, v \in Pages : u <= v /\ u..v \subseteq S
                 => \E x \in PartsOf(r, S) : u..v \subseteq Cells(x)
           /\ \A x, y \in PartsOf(r, S) : \A p \in Pages :
                 p \in Cells(x) /\ p \in Cells(y) => x = y
<1>0. S \in SUBSET Pages /\ MaxPage \in Nat /\ Cells(r) \subseteq Pages
  BY CellsIn, MemoryAssumption
<1>1. ASSUME NEW p \in S
      PROVE  /\ IsRange(Piece(r, p, Stop(S, p))) /\ PartOf(Piece(r, p, Stop(S, p)), r)
             /\ Cells(Piece(r, p, Stop(S, p))) = p..(Stop(S, p) - 1)
             /\ p..(Stop(S, p) - 1) \subseteq S
             /\ Stop(S, p) \notin S /\ Stop(S, p) \in Nat /\ p < Stop(S, p)
  <2>1. /\ Stop(S, p) \in (p + 1)..(MaxPage + 1)
        /\ Stop(S, p) \notin S
        /\ p..(Stop(S, p) - 1) \subseteq S
    BY <1>0, StopFacts
  <2>2. Stop(S, p) - 1 \in Cells(r) /\ p \in Nat
    <3>1. Stop(S, p) - 1 \in p..(Stop(S, p) - 1) /\ p \in Nat
      BY <1>0, <2>1 DEF Pages
    <3> QED BY <2>1, <3>1
  <2>3. Stop(S, p) \in (p + 1)..End(r)
    BY <2>1, <2>2, <1>0, CellsIn DEF Pages
  <2>4. p \in Cells(r)
    OBVIOUS
  <2> QED BY <2>1, <2>2, <2>3, <2>4, PieceFacts
<1>2. \A x \in PartsOf(r, S) : IsRange(x) /\ PartOf(x, r) /\ Cells(x) \subseteq S
  BY <1>1 DEF PartsOf
<1>3. ASSUME NEW u \in Pages, NEW v \in Pages, u <= v, u..v \subseteq S
      PROVE  \E x \in PartsOf(r, S) : u..v \subseteq Cells(x)
  <2> DEFINE T == {p \in S : p <= u /\ p..u \subseteq S}
  <2>0. u \in Nat /\ v \in Nat /\ S \subseteq Nat /\ 0 \notin S
    BY <1>0 DEF Pages
  <2>1. u \in T /\ T \in SUBSET Nat
    <3>1. u \in u..v
      BY <1>3, <2>0
    <3>2. u \in S /\ u..u = {u}
      BY <1>3, <2>0, <3>1
    <3>3. u \in T
      BY <2>0, <3>2
    <3>4. T \subseteq S
      OBVIOUS
    <3> HIDE DEF T
    <3> QED BY <2>0, <3>3, <3>4
  <2>2. PICK p \in T : \A x \in T : p <= x
    BY <2>1, Smallest
  <2>3. p - 1 \notin S
    <3>1. SUFFICES ASSUME p - 1 \in S PROVE FALSE
      OBVIOUS
    <3>2. (p - 1)..u \subseteq S
      BY <2>0, <2>2, <3>1
    <3>3. p - 1 \in T
      BY <2>0, <2>2, <3>1, <3>2
    <3> QED BY <2>0, <2>2, <3>3
  <2>4. Piece(r, p, Stop(S, p)) \in PartsOf(r, S)
    BY <2>3 DEF PartsOf
  <2>5. v < Stop(S, p)
    <3>1. p \in S /\ p..u \subseteq S /\ p <= u /\ p \in Nat
      BY <2>0
    <3>2. Stop(S, p) \notin S /\ Stop(S, p) \in Nat /\ p < Stop(S, p)
      BY <1>1, <3>1
    <3> QED BY <1>3, <2>0, <3>1, <3>2
  <2>6. u..v \subseteq p..(Stop(S, p) - 1)
    BY <2>0, <2>5, <1>1
  <2> QED BY <2>4, <2>6, <1>1
<1>4. ASSUME NEW x \in PartsOf(r, S), NEW y \in PartsOf(r, S), NEW z \in Pages,
             z \in Cells(x), z \in Cells(y)
      PROVE  x = y
  <2>1. PICK p \in S : p - 1 \notin S /\ x = Piece(r, p, Stop(S, p))
    BY DEF PartsOf
  <2>2. PICK q \in S : q - 1 \notin S /\ y = Piece(r, q, Stop(S, q))
    BY DEF PartsOf
  <2>3. z \in p..(Stop(S, p) - 1) /\ z \in q..(Stop(S, q) - 1)
    BY <1>1, <1>4, <2>1, <2>2
  <2>4. p \in Nat /\ q \in Nat /\ z \in Nat
    BY <1>0 DEF Pages
  <2>5. ~(p < q)
    BY <1>1, <2>2, <2>3, <2>4
  <2>6. ~(q < p)
    BY <1>1, <2>1, <2>3, <2>4
  <2>7. p = q
    BY <2>4, <2>5, <2>6
  <2> QED BY <2>1, <2>2, <2>7
<1> QED BY <1>2, <1>3, <1>4

\* The pages of ranges, one by one.
LEMMA InPagesOf ==
    ASSUME NEW R, NEW T, NEW p
    PROVE  /\ p \in PagesOf(R, T) <=> \E r \in R : r.type \in T /\ p \in Cells(r)
           /\ p \in CellsOf(R) <=> \E r \in R : p \in Cells(r)
BY DEF PagesOf, CellsOf

\* Parts cuts disjoint ranges to a set of pages.
LEMMA PartsFacts ==
    ASSUME NEW R, AllRanges(R), Disjoint(R), NEW S \in SUBSET Pages
    PROVE  /\ AllRanges(Parts(R, S)) /\ Disjoint(Parts(R, S))
           /\ \A x \in Parts(R, S) : Cells(x) \subseteq S /\ \E r \in R : PartOf(x, r)
           /\ \A r \in R, u, v \in Pages : u <= v /\ u..v \subseteq Cells(r) \cap S
                 => \E x \in Parts(R, S) : u..v \subseteq Cells(x) /\ PartOf(x, r)
           /\ \A T : PagesOf(Parts(R, S), T) = PagesOf(R, T) \cap S
           /\ CellsOf(Parts(R, S)) = CellsOf(R) \cap S
<1>1. ASSUME NEW r \in R
      PROVE  /\ IsRange(r) /\ Cells(r) \cap S \in SUBSET Cells(r)
             /\ \A x \in PartsOf(r, Cells(r) \cap S) :
                   IsRange(x) /\ PartOf(x, r) /\ Cells(x) \subseteq Cells(r) \cap S
             /\ \A u, v \in Pages : u <= v /\ u..v \subseteq Cells(r) \cap S
                   => \E x \in PartsOf(r, Cells(r) \cap S) : u..v \subseteq Cells(x)
             /\ \A x, y \in PartsOf(r, Cells(r) \cap S) : \A p \in Pages :
                   p \in Cells(x) /\ p \in Cells(y) => x = y
  <2>1. IsRange(r) /\ Cells(r) \cap S \in SUBSET Cells(r)
    BY DEF AllRanges
  <2>2. PICK Z \in SUBSET Cells(r) : Z = Cells(r) \cap S
    BY <2>1
  <2>3. /\ \A x \in PartsOf(r, Z) : IsRange(x) /\ PartOf(x, r) /\ Cells(x) \subseteq Z
        /\ \A u, v \in Pages : u <= v /\ u..v \subseteq Z
              => \E x \in PartsOf(r, Z) : u..v \subseteq Cells(x)
        /\ \A x, y \in PartsOf(r, Z) : \A p \in Pages :
              p \in Cells(x) /\ p \in Cells(y) => x = y
    BY <2>1, PartsOfFacts
  <2> QED BY <2>1, <2>2, <2>3
<1>2. \A x : x \in Parts(R, S) <=> \E r \in R : x \in PartsOf(r, Cells(r) \cap S)
  BY DEF Parts
<1>3. AllRanges(Parts(R, S))
  BY <1>1, <1>2 DEF AllRanges
<1>4. \A x \in Parts(R, S) : Cells(x) \subseteq S /\ \E r \in R : PartOf(x, r)
  BY <1>1, <1>2
<1>5. Disjoint(Parts(R, S))
  <2> SUFFICES ASSUME NEW x \in Parts(R, S), NEW y \in Parts(R, S), NEW p \in Pages,
                      p \in Cells(x), p \in Cells(y)
               PROVE  x = y
    BY DEF Disjoint
  <2>1. PICK r \in R : x \in PartsOf(r, Cells(r) \cap S)
    BY <1>2
  <2>2. PICK s \in R : y \in PartsOf(s, Cells(s) \cap S)
    BY <1>2
  <2>3. p \in Cells(r) /\ p \in Cells(s)
    BY <1>1, <2>1, <2>2
  <2>4. r = s
    BY <2>3 DEF Disjoint
  <2> QED BY <1>1, <2>1, <2>2, <2>4
<1>6. ASSUME NEW r \in R, NEW u \in Pages, NEW v \in Pages, u <= v, u..v \subseteq Cells(r) \cap S
      PROVE  \E x \in Parts(R, S) : u..v \subseteq Cells(x) /\ PartOf(x, r)
  <2>1. PICK x \in PartsOf(r, Cells(r) \cap S) : u..v \subseteq Cells(x)
    BY <1>1, <1>6
  <2> QED BY <1>1, <1>2, <2>1
<1>7. ASSUME NEW r \in R, NEW p, p \in Cells(r), p \in S
      PROVE  \E x \in Parts(R, S) : p \in Cells(x) /\ PartOf(x, r)
  <2>1. p \in Pages /\ p \in Nat /\ p..p = {p}
    BY <1>7 DEF Pages
  <2>2. p <= p /\ p..p \subseteq Cells(r) \cap S
    BY <1>7, <2>1
  <2>3. PICK x \in Parts(R, S) : p..p \subseteq Cells(x) /\ PartOf(x, r)
    BY <1>6, <2>1, <2>2
  <2> QED BY <2>1, <2>3
<1>8. ASSUME NEW T PROVE PagesOf(Parts(R, S), T) = PagesOf(R, T) \cap S
  <2>1. ASSUME NEW p \in PagesOf(Parts(R, S), T) PROVE p \in PagesOf(R, T) \cap S
    <3>1. PICK x \in Parts(R, S) : x.type \in T /\ p \in Cells(x)
      BY InPagesOf
    <3>2. PICK r \in R : PartOf(x, r)
      BY <1>4
    <3>3. r.type \in T /\ p \in Cells(r) /\ p \in S
      BY <1>4, <3>1, <3>2 DEF PartOf
    <3> QED BY <3>3, InPagesOf
  <2>2. ASSUME NEW p \in PagesOf(R, T) \cap S PROVE p \in PagesOf(Parts(R, S), T)
    <3>1. PICK r \in R : r.type \in T /\ p \in Cells(r)
      BY InPagesOf
    <3>2. PICK x \in Parts(R, S) : p \in Cells(x) /\ PartOf(x, r)
      BY <1>7, <3>1
    <3>3. x.type \in T
      BY <3>1, <3>2 DEF PartOf
    <3> QED BY <3>2, <3>3, InPagesOf
  <2> QED BY <2>1, <2>2
<1>9. CellsOf(Parts(R, S)) = CellsOf(R) \cap S
  <2>1. ASSUME NEW p \in CellsOf(Parts(R, S)) PROVE p \in CellsOf(R) \cap S
    <3>1. PICK x \in Parts(R, S) : p \in Cells(x)
      BY InPagesOf
    <3>2. PICK r \in R : PartOf(x, r)
      BY <1>4
    <3>3. p \in Cells(r) /\ p \in S
      BY <1>4, <3>1, <3>2 DEF PartOf
    <3> QED BY <3>3, InPagesOf
  <2>2. ASSUME NEW p \in CellsOf(R) \cap S PROVE p \in CellsOf(Parts(R, S))
    <3>1. PICK r \in R : p \in Cells(r)
      BY InPagesOf
    <3>2. PICK x \in Parts(R, S) : p \in Cells(x) /\ PartOf(x, r)
      BY <1>7, <3>1
    <3> QED BY <3>2, InPagesOf
  <2> QED BY <2>1, <2>2
<1> QED BY <1>3, <1>4, <1>5, <1>6, <1>8, <1>9

\* Two ranges that a merge may join.
Alike(s, t) ==
    /\ s.type = t.type /\ s.prot = t.prot /\ s.name = t.name
    /\ t.type = "Direct" => s = t

\* Two ranges like a third could be merged.
LEMMA AlikeMerge ==
    ASSUME NEW r, NEW s, NEW t, Alike(s, r), Alike(t, r), s # t
    PROVE  SameMergeKey(s, t)
BY DEF Alike, SameMergeKey

\* Where a merged range ends: at the end of a range where nothing is joined,
\* with ranges it is made of in between.
LEMMA MergedEndFacts ==
    ASSUME NEW R, AllRanges(R), Disjoint(R), NEW r \in R
    PROVE  /\ MergedEnd(R, r) \in (r.start + 1)..(MaxPage + 1)
           /\ \E t \in R : End(t) = MergedEnd(R, r) /\ t.start >= r.start
           /\ ~Joined(R, MergedEnd(R, r))
           /\ \A t \in R : t.start >= r.start /\ ~Joined(R, End(t)) => MergedEnd(R, r) <= End(t)
<1> DEFINE B == {t \in R : t.start >= r.start}
           U == {End(t) : t \in B}
           C == {t \in R : t.start >= r.start /\ ~Joined(R, End(t))}
           T == {End(t) : t \in C}
<1>0. MaxPage + 1 \in Nat
  BY MemoryAssumption
<1>1. \A t \in R : /\ t.start \in Nat /\ t.size \in Nat \ {0} /\ End(t) = t.start + t.size
                   /\ End(t) \in Nat /\ End(t) <= MaxPage + 1 /\ t.start < End(t)
  <2> SUFFICES ASSUME NEW t \in R
               PROVE  /\ t.start \in Nat /\ t.size \in Nat \ {0} /\ End(t) = t.start + t.size
                      /\ End(t) \in Nat /\ End(t) <= MaxPage + 1 /\ t.start < End(t)
    OBVIOUS
  <2>1. IsRange(t)
    BY DEF AllRanges
  <2>2. t.start \in Pages /\ t.size \in Nat \ {0} /\ End(t) <= MaxPage + 1
    BY <2>1 DEF IsRange, Range0
  <2> QED BY <2>2 DEF End, Pages
<1>2. r \in B /\ U \in SUBSET Nat /\ \A x \in U : x <= MaxPage + 1
  BY <1>1
<1>3. PICK e \in U : \A x \in U : x <= e
  <2>1. U # {}
    BY <1>2
  <2> HIDE DEF U, B
  <2> QED BY <1>0, <1>2, <2>1, Largest
<1>4. PICK t \in B : e = End(t)
  OBVIOUS
<1>5. ~Joined(R, End(t))
  <2> SUFFICES ASSUME NEW s \in R, s.start = End(t) PROVE FALSE
    BY DEF Joined
  <2>1. s \in B /\ End(s) \in U
    BY <1>1, <1>4
  <2>2. End(s) <= e
    BY <1>3, <2>1
  <2>3. s.start = e /\ s.start < End(s) /\ s.start \in Nat /\ End(s) \in Nat
    BY <1>1, <1>4
  <2> QED BY <2>2, <2>3
<1>6. T \in SUBSET Nat /\ T # {}
  <2>1. t \in C
    BY <1>4, <1>5
  <2> QED BY <1>1, <2>1
<1>7. Min(T) \in T /\ \A x \in T : Min(T) <= x
  <2> HIDE DEF T, C
  <2> QED BY <1>6, MinIn
<1>8. MergedEnd(R, r) = Min(T)
  BY DEF MergedEnd
<1> DEFINE m == Min(T)
<1> HIDE DEF m
<1>9. PICK l \in C : m = End(l)
  BY <1>7 DEF m
<1>10. \A x \in R : x.start >= r.start /\ ~Joined(R, End(x)) => m <= End(x)
  BY <1>7 DEF m
<1>11. m \in (r.start + 1)..(MaxPage + 1) /\ ~Joined(R, m)
  BY <1>0, <1>1, <1>9
<1> QED BY <1>8, <1>9, <1>10, <1>11 DEF m

\* Its pages are those of ranges that are alike.
LEMMA MergedPages ==
    ASSUME NEW R, AllRanges(R), Disjoint(R), NEW r \in R,
           NEW p \in r.start..(MergedEnd(R, r) - 1)
    PROVE  \E t \in R : p \in Cells(t) /\ Alike(t, r) /\ t.start >= r.start
<1> DEFINE e == MergedEnd(R, r)
           Good(q) == \E t \in R : q \in Cells(t) /\ Alike(t, r) /\ t.start >= r.start
           B == {q \in r.start..(e - 1) : ~Good(q)}
<1>1. /\ e \in (r.start + 1)..(MaxPage + 1)
      /\ ~Joined(R, e)
      /\ \A t \in R : t.start >= r.start /\ ~Joined(R, End(t)) => e <= End(t)
  BY MergedEndFacts
<1>2. \A t \in R : /\ t.start \in Cells(t) /\ Cells(t) \subseteq Pages /\ t.start \in Pages
                   /\ t.size \in Nat \ {0} /\ End(t) \in Nat
                   /\ \A x \in Pages : x \in Cells(t) <=> t.start <= x /\ x < End(t)
  BY CellsIn DEF AllRanges
<1>3. MaxPage \in Nat /\ r.start \in Nat /\ r.start >= 1 /\ e \in Nat /\ e <= MaxPage + 1
  BY <1>1, <1>2, MemoryAssumption DEF Pages
<1> HIDE DEF e
<1> SUFFICES ASSUME ~Good(p) PROVE FALSE
  OBVIOUS
<1>4. p \in B /\ B \in SUBSET Nat
  <2>1. p \in r.start..(e - 1)
    BY DEF e
  <2> QED BY <1>3, <2>1
<1>5. PICK q \in B : \A x \in B : q <= x
  <2>1. B # {}
    BY <1>4
  <2> HIDE DEF B
  <2> QED BY <1>4, <2>1, Smallest
<1>6. q # r.start
  <2>1. Good(r.start)
    BY <1>2, <1>3 DEF Alike
  <2> QED BY <2>1
<1>7. q - 1 \in r.start..(e - 1) /\ q - 1 \notin B /\ q \in Pages /\ q \in Nat
      /\ q - 1 \in Pages /\ q < e
  BY <1>3, <1>5, <1>6 DEF Pages
<1>8. PICK t \in R : q - 1 \in Cells(t) /\ Alike(t, r) /\ t.start >= r.start
  BY <1>7
<1>9. q \notin Cells(t)
  BY <1>5, <1>8
<1>10. End(t) = q
  <2>1. t.start \in Nat /\ t.start <= q - 1 /\ q - 1 < End(t) /\ End(t) \in Nat
    BY <1>2, <1>7, <1>8 DEF Pages
  <2>2. ~(t.start <= q /\ q < End(t))
    BY <1>2, <1>7, <1>8, <1>9
  <2> QED BY <1>7, <2>1, <2>2
<1>11. Joined(R, q)
  BY <1>1, <1>7, <1>8, <1>10
<1>12. PICK x \in R, s \in R : End(x) = q /\ s.start = q /\ SameMergeKey(x, s)
  BY <1>11 DEF Joined
<1>13. x = t
  <2>1. q - 1 \in Cells(x)
    <3>1. x.start < q
      BY <1>2, <1>7, <1>12
    <3>2. x.start \in Nat
      BY <1>2 DEF Pages
    <3> QED BY <1>2, <1>7, <1>12, <3>1, <3>2
  <2> QED BY <1>7, <1>8, <2>1 DEF Disjoint
<1>14. q \in Cells(s) /\ Alike(s, r) /\ s.start >= r.start
  <2>1. q \in Cells(s) /\ s.start >= r.start
    BY <1>2, <1>3, <1>5, <1>12
  <2>2. Alike(s, r)
    BY <1>8, <1>12, <1>13 DEF Alike, SameMergeKey
  <2> QED BY <2>1, <2>2
<1> QED BY <1>5, <1>14

\* Every page of a range is in the merged range that begins at some head.
LEMMA MergedCovers ==
    ASSUME NEW R, AllRanges(R), Disjoint(R), NEW t \in R, NEW p \in Cells(t)
    PROVE  \E r \in R : /\ ~Joined(R, r.start) /\ Alike(t, r)
                        /\ p \in r.start..(MergedEnd(R, r) - 1)
<1> DEFINE Chain(h) == /\ h.start <= p /\ Alike(h, t)
                       /\ \A q \in h.start..p : \E s \in R : q \in Cells(s) /\ Alike(s, t)
           H == {h \in R : Chain(h)}
           B == {h.start : h \in H}
<1>1. \A r \in R : /\ r.start \in Cells(r) /\ Cells(r) \subseteq Pages /\ r.start \in Pages
                   /\ r.start \in Nat /\ r.size \in Nat \ {0} /\ End(r) \in Nat
                   /\ \A x \in Pages : x \in Cells(r) <=> r.start <= x /\ x < End(r)
  BY CellsIn DEF AllRanges, Pages
<1>2. p \in Pages /\ p \in Nat
  BY <1>1 DEF Pages
<1>3. t \in H
  <2>1. t.start <= p /\ Alike(t, t)
    BY <1>1, <1>2 DEF Alike
  <2>2. ASSUME NEW q \in t.start..p PROVE q \in Cells(t)
    <3>1. q \in Pages
      BY <1>1, <1>2, <2>2, MemoryAssumption DEF Pages
    <3> QED BY <1>1, <1>2, <3>1
  <2> QED BY <2>1, <2>2
<1>4. PICK b \in B : \A x \in B : b <= x
  <2>1. B \in SUBSET Nat
    BY <1>1
  <2>2. B # {}
    BY <1>3
  <2> HIDE DEF B
  <2> QED BY <2>1, <2>2, Smallest
<1>5. PICK h \in H : b = h.start
  BY <1>4
<1>6. \A x \in H : h.start <= x.start
  BY <1>4, <1>5
<1>7. h \in R /\ Chain(h)
  OBVIOUS
<1> HIDE DEF H, B
<1>8. ~Joined(R, h.start)
  <2> SUFFICES ASSUME Joined(R, h.start) PROVE FALSE
    OBVIOUS
  <2>1. PICK g \in R, s \in R : End(g) = h.start /\ s.start = h.start /\ SameMergeKey(g, s)
    BY DEF Joined
  <2>2. s = h
    BY <1>1, <1>7, <2>1 DEF Disjoint
  <2>3. Alike(g, t)
    BY <1>7, <2>1, <2>2 DEF Alike, SameMergeKey
  <2>4. g.start < h.start /\ g.start <= p
    <3>1. g.start \in Nat /\ g.size \in Nat \ {0} /\ End(g) = g.start + g.size /\ h.start \in Nat
      BY <1>1, <1>7 DEF End
    <3> QED BY <1>2, <1>7, <2>1, <3>1
  <2>5. ASSUME NEW q \in g.start..p PROVE \E x \in R : q \in Cells(x) /\ Alike(x, t)
    <3>0. q \in Pages /\ q \in Nat
      BY <1>1, <1>2, <2>5, MemoryAssumption DEF Pages
    <3>1. CASE q < h.start
      BY <1>1, <2>1, <2>3, <3>0, <3>1
    <3>2. CASE h.start <= q
      BY <1>1, <1>2, <1>7, <3>0, <3>2
    <3> QED BY <1>1, <1>7, <3>0, <3>1, <3>2
  <2>6. g \in H
    BY <2>3, <2>4, <2>5 DEF H
  <2> QED BY <1>1, <1>6, <1>7, <2>4, <2>6
<1>9. p < MergedEnd(R, h)
  <2> DEFINE e == MergedEnd(R, h)
  <2>1. /\ e \in (h.start + 1)..(MaxPage + 1) /\ ~Joined(R, e)
        /\ \E l \in R : End(l) = e /\ l.start >= h.start
    BY <1>7, MergedEndFacts
  <2> HIDE DEF e
  <2>2. PICK l \in R : End(l) = e /\ l.start >= h.start
    BY <2>1
  <2>3. e \in Nat
    BY <1>1, <2>2
  <2> SUFFICES ASSUME e <= p PROVE FALSE
    BY <1>2, <2>3 DEF e
  <2>4. e \in Pages /\ e - 1 \in Pages /\ e \in h.start..p /\ e - 1 \in h.start..p
    BY <1>1, <1>2, <1>7, <2>1, <2>3 DEF Pages
  <2>5. PICK s \in R : e \in Cells(s) /\ Alike(s, t)
    BY <1>7, <2>4
  <2>6. PICK k \in R : e - 1 \in Cells(k) /\ Alike(k, t)
    BY <1>7, <2>4
  <2>7. e - 1 \in Cells(l) /\ e \notin Cells(l)
    <3>1. l.start \in Nat /\ l.start < e
      BY <1>1, <2>2
    <3> QED BY <1>1, <2>2, <2>3, <2>4, <3>1
  <2>8. k = l /\ s # l
    BY <2>4, <2>5, <2>6, <2>7 DEF Disjoint
  <2>9. s.start = e
    <3>1. e - 1 \notin Cells(s)
      BY <2>4, <2>7, <2>8 DEF Disjoint
    <3>2. s.start \in Nat /\ s.start <= e /\ e < End(s) /\ End(s) \in Nat
      BY <1>1, <2>4, <2>5
    <3>3. ~(s.start <= e - 1 /\ e - 1 < End(s))
      BY <1>1, <2>4, <3>1
    <3> QED BY <2>3, <3>2, <3>3
  <2>10. SameMergeKey(l, s)
    BY <2>5, <2>6, <2>8, AlikeMerge
  <2> QED BY <2>1, <2>2, <2>9, <2>10 DEF Joined
<1>10. p \in h.start..(MergedEnd(R, h) - 1)
  <2>1. MergedEnd(R, h) \in (h.start + 1)..(MaxPage + 1)
    BY <1>7, MergedEndFacts
  <2>2. MaxPage \in Nat /\ h.start \in Nat
    BY <1>1, <1>7, MemoryAssumption
  <2> QED BY <1>2, <1>7, <1>9, <2>1, <2>2
<1>11. Alike(t, h)
  BY <1>7 DEF Alike
<1> QED BY <1>7, <1>8, <1>10, <1>11

\* The merged range from r on.
MergedRange(R, r) == [r EXCEPT !.size = MergedEnd(R, r) - r.start]

\* A merged range is a range, like the one it starts with.
LEMMA MergedRangeFacts ==
    ASSUME NEW R, AllRanges(R), Disjoint(R), NEW r \in R
    PROVE  /\ IsRange(MergedRange(R, r))
           /\ Cells(MergedRange(R, r)) = r.start..(MergedEnd(R, r) - 1)
           /\ End(MergedRange(R, r)) = MergedEnd(R, r)
           /\ MergedRange(R, r).start = r.start
           /\ MergedRange(R, r).type = r.type /\ MergedRange(R, r).prot = r.prot
           /\ MergedRange(R, r).name = r.name
           /\ r.type = "Direct" => MergedRange(R, r) = r
<1> DEFINE e == MergedEnd(R, r)
           x == MergedRange(R, r)
<1>1. /\ e \in (r.start + 1)..(MaxPage + 1)
      /\ \E t \in R : End(t) = e /\ t.start >= r.start
      /\ ~Joined(R, e)
      /\ \A t \in R : t.start >= r.start /\ ~Joined(R, End(t)) => e <= End(t)
  BY MergedEndFacts
<1>2. IsRange(r) /\ r \in Range0 /\ r.start \in Nat /\ MaxPage \in Nat /\ r.size \in Nat \ {0}
      /\ End(r) \in Nat /\ End(r) = r.start + r.size
  <2>1. IsRange(r)
    BY DEF AllRanges
  <2>2. r \in Range0 /\ r.start \in Pages /\ r.size \in Nat \ {0} /\ End(r) = r.start + r.size
    BY <2>1 DEF IsRange, Range0, End
  <2> QED BY <2>1, <2>2, MemoryAssumption DEF Pages
<1>3. e \in Nat /\ r.start < e /\ e <= MaxPage + 1 /\ e - r.start \in Nat \ {0}
  BY <1>1, <1>2
<1> HIDE DEF e
<1>4. x = [r EXCEPT !.size = e - r.start]
  BY DEF MergedRange, e
<1> HIDE DEF x
<1>5. /\ x \in Range0 /\ x.start = r.start /\ x.size = e - r.start
      /\ x.type = r.type /\ x.prot = r.prot /\ x.name = r.name
  BY <1>2, <1>3, <1>4 DEF Range0
<1>6. End(x) = e /\ Cells(x) = r.start..(e - 1)
  BY <1>2, <1>3, <1>5 DEF End, Cells, Span
<1>7. ASSUME r.type = "Direct" PROVE x = r
  <2>1. \A t \in R : /\ t.start \in Cells(t) /\ Cells(t) \subseteq Pages /\ t.start \in Pages
                     /\ t.start \in Nat /\ t.size \in Nat \ {0} /\ End(t) \in Nat
                     /\ End(t) = t.start + t.size
                     /\ \A p \in Pages : p \in Cells(t) <=> t.start <= p /\ p < End(t)
    BY CellsIn DEF AllRanges, Pages, End
  <2>2. ~Joined(R, End(r))
    <3> SUFFICES ASSUME NEW s \in R, End(s) = End(r), s.type # "Direct" PROVE FALSE
      BY DEF Joined, SameMergeKey
    <3> DEFINE q == End(r) - 1
    <3>1. q \in Nat /\ r.start <= q /\ q < End(r) /\ s.start <= q /\ q < End(s)
      BY <2>1
    <3>2. q \in Pages
      BY <1>2, <3>1, <2>1 DEF Pages, AllRanges, IsRange
    <3> HIDE DEF q
    <3>3. q \in Cells(r) /\ q \in Cells(s)
      BY <2>1, <3>1, <3>2
    <3>4. r = s
      BY <3>2, <3>3 DEF Disjoint
    <3> QED BY <1>7, <3>4
  <2>3. e <= End(r)
    BY <1>1, <1>2, <2>2
  <2>4. PICK t \in R : End(t) = e /\ t.start >= r.start
    BY <1>1
  <2>5. End(r) <= e
    <3> SUFFICES ASSUME e < End(r) PROVE FALSE
      BY <1>2, <1>3
    <3>1. t.start \in Pages /\ t.start \in Cells(t) /\ r.start <= t.start /\ t.start < End(r)
      BY <1>2, <1>3, <2>1, <2>4
    <3>2. t = r
      BY <2>1, <3>1 DEF Disjoint
    <3> QED BY <1>2, <2>4, <3>2
  <2>6. e - r.start = r.size
    BY <1>2, <1>3, <2>3, <2>5
  <2> QED BY <1>2, <1>4, <2>6 DEF Range0
<1> QED BY <1>2, <1>3, <1>5, <1>6, <1>7 DEF IsRange, x, e

\* Merge leaves the pages of every type as they are, and nothing to merge.
LEMMA MergeFacts ==
    ASSUME NEW R, AllRanges(R), Disjoint(R)
    PROVE  /\ RangesOK(Merge(R))
           /\ \A T : PagesOf(Merge(R), T) = PagesOf(R, T)
           /\ CellsOf(Merge(R)) = CellsOf(R)
           /\ \A x \in Merge(R) : x.type = "Direct" => x \in R
<1>0. \A x : x \in Merge(R) <=> \E r \in R : ~Joined(R, r.start) /\ x = MergedRange(R, r)
  BY DEF Merge, MergedRange
<1>1. \A r \in R : /\ r.start \in Cells(r) /\ Cells(r) \subseteq Pages /\ r.start \in Pages
                   /\ r.start \in Nat /\ r.size \in Nat \ {0} /\ End(r) \in Nat
                   /\ \A p \in Pages : p \in Cells(r) <=> r.start <= p /\ p < End(r)
  BY CellsIn DEF AllRanges, Pages
<1>2. \A r \in R : /\ IsRange(MergedRange(R, r))
                   /\ Cells(MergedRange(R, r)) = r.start..(MergedEnd(R, r) - 1)
                   /\ End(MergedRange(R, r)) = MergedEnd(R, r)
                   /\ MergedRange(R, r).start = r.start
                   /\ MergedRange(R, r).type = r.type /\ MergedRange(R, r).prot = r.prot
                   /\ MergedRange(R, r).name = r.name
                   /\ r.type = "Direct" => MergedRange(R, r) = r
  BY MergedRangeFacts
<1>3. AllRanges(Merge(R))
  BY <1>0, <1>2 DEF AllRanges
<1>4. \A x \in Merge(R) : x.type = "Direct" => x \in R
  BY <1>0, <1>2
<1>5. ASSUME NEW r \in R, NEW s \in R, ~Joined(R, s.start), r.start < s.start,
             NEW p \in Cells(MergedRange(R, r)), p \in Cells(MergedRange(R, s))
      PROVE  FALSE
  <2> DEFINE q == s.start
  <2>1. q \in Nat /\ q \in Pages /\ q - 1 \in Nat /\ q - 1 \in Pages /\ r.start \in Nat
    <3>1. r.start \in Pages /\ s.start \in Pages /\ MaxPage \in Nat
      BY <1>1, MemoryAssumption
    <3> QED BY <1>5, <3>1 DEF Pages
  <2>2. p \in r.start..(MergedEnd(R, r) - 1) /\ p \in q..(MergedEnd(R, s) - 1)
    BY <1>2, <1>5
  <2>3. MergedEnd(R, r) \in (r.start + 1)..(MaxPage + 1) /\ MaxPage \in Nat
    BY MergedEndFacts, MemoryAssumption
  <2> HIDE DEF q
  <2>4. q \in r.start..(MergedEnd(R, r) - 1) /\ q - 1 \in r.start..(MergedEnd(R, r) - 1)
    BY <1>5, <2>1, <2>2, <2>3 DEF q
  <2>5. PICK t \in R : q - 1 \in Cells(t) /\ Alike(t, r)
    BY <2>4, MergedPages
  <2>6. PICK u \in R : q \in Cells(u) /\ Alike(u, r)
    BY <2>4, MergedPages
  <2>7. u = s
    BY <1>1, <2>1, <2>6 DEF q, Disjoint
  <2>8. q - 1 \notin Cells(s)
    BY <1>1, <2>1 DEF q
  <2>9. q \notin Cells(t)
    BY <2>1, <2>5, <2>6, <2>7, <2>8 DEF Disjoint
  <2>10. End(t) = q
    <3>1. t.start \in Nat /\ t.start <= q - 1 /\ q - 1 < End(t) /\ End(t) \in Nat
      BY <1>1, <2>1, <2>5
    <3>2. ~(t.start <= q /\ q < End(t))
      BY <1>1, <2>1, <2>9
    <3> QED BY <2>1, <3>1, <3>2
  <2>11. SameMergeKey(t, s)
    BY <2>5, <2>6, <2>7, <2>8, AlikeMerge
  <2> QED BY <1>5, <2>10, <2>11 DEF Joined, q
<1>6. Disjoint(Merge(R))
  <2> SUFFICES ASSUME NEW x \in Merge(R), NEW y \in Merge(R), NEW p \in Pages,
                      p \in Cells(x), p \in Cells(y)
               PROVE  x = y
    BY DEF Disjoint
  <2>1. PICK r \in R : ~Joined(R, r.start) /\ x = MergedRange(R, r)
    BY <1>0
  <2>2. PICK s \in R : ~Joined(R, s.start) /\ y = MergedRange(R, s)
    BY <1>0
  <2>3. ~(r.start < s.start)
    BY <1>5, <2>1, <2>2
  <2>4. ~(s.start < r.start)
    BY <1>5, <2>1, <2>2
  <2>5. r.start = s.start
    BY <1>1, <2>3, <2>4
  <2>6. r = s
    BY <1>1, <2>5 DEF Disjoint
  <2> QED BY <2>1, <2>2, <2>6
<1>7. Merged(Merge(R))
  <2> SUFFICES ASSUME NEW x \in Merge(R), NEW y \in Merge(R), End(x) = y.start, SameMergeKey(x, y)
               PROVE  FALSE
    BY DEF Merged
  <2>1. PICK r \in R : ~Joined(R, r.start) /\ x = MergedRange(R, r)
    BY <1>0
  <2>2. PICK s \in R : ~Joined(R, s.start) /\ y = MergedRange(R, s)
    BY <1>0
  <2> DEFINE e == MergedEnd(R, r)
  <2>3. e \in (r.start + 1)..(MaxPage + 1) /\ ~Joined(R, e)
        /\ \E t \in R : End(t) = e /\ t.start >= r.start
    BY MergedEndFacts
  <2>4. s.start = e /\ SameMergeKey(r, s)
    BY <1>2, <2>1, <2>2 DEF SameMergeKey
  <2> HIDE DEF e
  <2>5. PICK t \in R : End(t) = e /\ t.start >= r.start
    BY <2>3
  <2>6. e \in Nat /\ r.start \in Nat /\ MaxPage \in Nat /\ e - 1 \in r.start..(e - 1)
        /\ e - 1 \in Pages
    BY <1>1, <2>3, MemoryAssumption DEF Pages
  <2>7. PICK u \in R : e - 1 \in Cells(u) /\ Alike(u, r)
    BY <2>6, MergedPages DEF e
  <2>8. e - 1 \in Cells(t)
    <3>1. t.start \in Nat /\ t.start < e
      BY <1>1, <2>5
    <3> QED BY <1>1, <2>5, <2>6, <3>1
  <2>9. u = t
    BY <2>6, <2>7, <2>8 DEF Disjoint
  <2>10. SameMergeKey(t, s)
    BY <2>4, <2>7, <2>9 DEF Alike, SameMergeKey
  <2> QED BY <2>3, <2>4, <2>5, <2>10 DEF Joined
<1>8. ASSUME NEW x \in Merge(R), NEW p \in Cells(x)
      PROVE  \E t \in R : p \in Cells(t) /\ t.type = x.type
  <2>1. PICK r \in R : ~Joined(R, r.start) /\ x = MergedRange(R, r)
    BY <1>0
  <2>2. p \in r.start..(MergedEnd(R, r) - 1) /\ x.type = r.type
    BY <1>2, <2>1
  <2>3. PICK t \in R : p \in Cells(t) /\ Alike(t, r)
    BY <2>2, MergedPages
  <2> QED BY <2>2, <2>3 DEF Alike
<1>9. ASSUME NEW t \in R, NEW p \in Cells(t)
      PROVE  \E x \in Merge(R) : p \in Cells(x) /\ x.type = t.type
  <2>1. PICK r \in R : ~Joined(R, r.start) /\ Alike(t, r) /\ p \in r.start..(MergedEnd(R, r) - 1)
    BY MergedCovers
  <2>2. MergedRange(R, r) \in Merge(R) /\ p \in Cells(MergedRange(R, r))
        /\ MergedRange(R, r).type = t.type
    BY <1>0, <1>2, <2>1 DEF Alike
  <2> QED BY <2>2
<1>10. ASSUME NEW T PROVE PagesOf(Merge(R), T) = PagesOf(R, T)
  <2>1. ASSUME NEW p \in PagesOf(Merge(R), T) PROVE p \in PagesOf(R, T)
    <3>1. PICK x \in Merge(R) : x.type \in T /\ p \in Cells(x)
      BY InPagesOf
    <3>2. PICK t \in R : p \in Cells(t) /\ t.type = x.type
      BY <1>8, <3>1
    <3> QED BY <3>1, <3>2, InPagesOf
  <2>2. ASSUME NEW p \in PagesOf(R, T) PROVE p \in PagesOf(Merge(R), T)
    <3>1. PICK t \in R : t.type \in T /\ p \in Cells(t)
      BY InPagesOf
    <3>2. PICK x \in Merge(R) : p \in Cells(x) /\ x.type = t.type
      BY <1>9, <3>1
    <3> QED BY <3>1, <3>2, InPagesOf
  <2> QED BY <2>1, <2>2
<1>11. CellsOf(Merge(R)) = CellsOf(R)
  <2>1. ASSUME NEW p \in CellsOf(Merge(R)) PROVE p \in CellsOf(R)
    <3>1. PICK x \in Merge(R) : p \in Cells(x)
      BY InPagesOf
    <3>2. PICK t \in R : p \in Cells(t)
      BY <1>8, <3>1
    <3> QED BY <3>2, InPagesOf
  <2>2. ASSUME NEW p \in CellsOf(R) PROVE p \in CellsOf(Merge(R))
    <3>1. PICK t \in R : p \in Cells(t)
      BY InPagesOf
    <3>2. PICK x \in Merge(R) : p \in Cells(x)
      BY <1>9, <3>1
    <3> QED BY <3>2, InPagesOf
  <2> QED BY <2>1, <2>2
<1> QED BY <1>3, <1>4, <1>6, <1>7, <1>10, <1>11 DEF RangesOK

\* Ranges that are cut to S, with others outside S, merged.
LEMMA MixFacts ==
    ASSUME NEW R, AllRanges(R), Disjoint(R), NEW S \in SUBSET Pages,
           NEW N, AllRanges(N), Disjoint(N), CellsOf(N) \cap S = {}
    PROVE  /\ RangesOK(Merge(Parts(R, S) \cup N))
           /\ \A T : PagesOf(Merge(Parts(R, S) \cup N), T) = (PagesOf(R, T) \cap S) \cup PagesOf(N, T)
           /\ CellsOf(Merge(Parts(R, S) \cup N)) = (CellsOf(R) \cap S) \cup CellsOf(N)
           /\ \A x \in Merge(Parts(R, S) \cup N) : x.type = "Direct" =>
                 \/ x \in N
                 \/ Cells(x) \subseteq S /\ \E r \in R : PartOf(x, r)
<1> DEFINE P == Parts(R, S)
<1>1. /\ AllRanges(P) /\ Disjoint(P)
      /\ \A x \in P : Cells(x) \subseteq S /\ \E r \in R : PartOf(x, r)
      /\ \A T : PagesOf(P, T) = PagesOf(R, T) \cap S
      /\ CellsOf(P) = CellsOf(R) \cap S
  BY PartsFacts
<1> HIDE DEF P
<1>2. AllRanges(P \cup N)
  BY <1>1 DEF AllRanges
<1>3. Disjoint(P \cup N)
  <2>1. \A x \in N, p \in Pages : p \in Cells(x) => p \notin S
    BY DEF CellsOf
  <2> QED BY <1>1, <2>1 DEF Disjoint
<1>4. /\ RangesOK(Merge(P \cup N))
      /\ \A T : PagesOf(Merge(P \cup N), T) = PagesOf(P \cup N, T)
      /\ CellsOf(Merge(P \cup N)) = CellsOf(P \cup N)
      /\ \A x \in Merge(P \cup N) : x.type = "Direct" => x \in P \cup N
  BY <1>2, <1>3, MergeFacts
<1>5. \A T : PagesOf(P \cup N, T) = PagesOf(P, T) \cup PagesOf(N, T)
  BY DEF PagesOf, CellsOf
<1>6. CellsOf(P \cup N) = CellsOf(P) \cup CellsOf(N)
  BY DEF CellsOf
<1>7. \A T : PagesOf(Merge(P \cup N), T) = (PagesOf(R, T) \cap S) \cup PagesOf(N, T)
  BY <1>1, <1>4, <1>5
<1>8. CellsOf(Merge(P \cup N)) = (CellsOf(R) \cap S) \cup CellsOf(N)
  BY <1>1, <1>4, <1>6
<1>9. \A x \in Merge(P \cup N) : x.type = "Direct" =>
         \/ x \in N
         \/ Cells(x) \subseteq S /\ \E r \in R : PartOf(x, r)
  BY <1>1, <1>4
<1> QED BY <1>4, <1>7, <1>8, <1>9 DEF P

\* RemoveRange takes pages from the ranges, and leaves the others.
LEMMA RemoveFacts ==
    ASSUME NEW R, AllRanges(R), Disjoint(R), NEW S \in SUBSET Pages
    PROVE  /\ RangesOK(RemovePages(R, S))
           /\ \A T : PagesOf(RemovePages(R, S), T) = PagesOf(R, T) \ S
           /\ CellsOf(RemovePages(R, S)) = CellsOf(R) \ S
           /\ \A x \in RemovePages(R, S) : x.type = "Direct" =>
                 Cells(x) \subseteq Pages \ S /\ \E r \in R : PartOf(x, r)
<1>1. PICK N : N = {}
  OBVIOUS
<1>2. PICK Q \in SUBSET Pages : Q = Pages \ S
  OBVIOUS
<1>3. AllRanges(N) /\ Disjoint(N) /\ CellsOf(N) = {} /\ \A T : PagesOf(N, T) = {}
  BY <1>1 DEF AllRanges, Disjoint, CellsOf, PagesOf
<1>4. RemovePages(R, S) = Merge(Parts(R, Q) \cup N)
  BY <1>1, <1>2 DEF RemovePages
<1>5. CellsOf(N) \cap Q = {}
  BY <1>3
<1>6. /\ RangesOK(Merge(Parts(R, Q) \cup N))
      /\ \A T : PagesOf(Merge(Parts(R, Q) \cup N), T) = (PagesOf(R, T) \cap Q) \cup PagesOf(N, T)
      /\ CellsOf(Merge(Parts(R, Q) \cup N)) = (CellsOf(R) \cap Q) \cup CellsOf(N)
      /\ \A x \in Merge(Parts(R, Q) \cup N) : x.type = "Direct" =>
            \/ x \in N
            \/ Cells(x) \subseteq Q /\ \E r \in R : PartOf(x, r)
  BY <1>3, <1>5, MixFacts
<1>7. CellsOf(R) \subseteq Pages /\ \A T : PagesOf(R, T) \subseteq Pages
  BY CellsIn DEF AllRanges, CellsOf, PagesOf
<1>8. \A T : PagesOf(RemovePages(R, S), T) = PagesOf(R, T) \ S
  BY <1>2, <1>3, <1>4, <1>6, <1>7
<1>9. CellsOf(RemovePages(R, S)) = CellsOf(R) \ S
  BY <1>2, <1>3, <1>4, <1>6, <1>7
<1>10. \A x \in RemovePages(R, S) : x.type = "Direct" =>
                 Cells(x) \subseteq Pages \ S /\ \E r \in R : PartOf(x, r)
  BY <1>1, <1>2, <1>4, <1>6
<1> QED BY <1>4, <1>6, <1>8, <1>9, <1>10

\* Add puts a range where there is none.
LEMMA AddFacts ==
    ASSUME NEW R, RangesOK(R), NEW r, IsRange(r), CellsOf(R) \cap Cells(r) = {}
    PROVE  /\ RangesOK(AddRange(R, r))
           /\ \A T : PagesOf(AddRange(R, r), T) = PagesOf(R, T) \cup PagesOf({r}, T)
           /\ CellsOf(AddRange(R, r)) = CellsOf(R) \cup Cells(r)
           /\ \A x \in AddRange(R, r) : x.type = "Direct" => x \in R \/ x = r
<1>1. ~Overlapping(R, r.start, r.size)
  BY DEF Overlapping, CellsOf, Cells
<1>2. AddRange(R, r) = Merge(R \cup {r})
  BY <1>1 DEF AddRange
<1>3. AllRanges(R \cup {r})
  BY DEF RangesOK, AllRanges
<1>4. Disjoint(R \cup {r})
  <2>1. \A x \in R, p \in Pages : p \in Cells(x) => p \notin Cells(r)
    BY DEF CellsOf
  <2> QED BY <2>1 DEF RangesOK, Disjoint
<1>5. /\ RangesOK(Merge(R \cup {r}))
      /\ \A T : PagesOf(Merge(R \cup {r}), T) = PagesOf(R \cup {r}, T)
      /\ CellsOf(Merge(R \cup {r})) = CellsOf(R \cup {r})
      /\ \A x \in Merge(R \cup {r}) : x.type = "Direct" => x \in R \cup {r}
  BY <1>3, <1>4, MergeFacts
<1>6. \A T : PagesOf(R \cup {r}, T) = PagesOf(R, T) \cup PagesOf({r}, T)
  BY DEF PagesOf, CellsOf
<1>7. CellsOf(R \cup {r}) = CellsOf(R) \cup Cells(r)
  BY DEF CellsOf
<1> QED BY <1>2, <1>5, <1>6, <1>7

\* The pages of one range.
LEMMA SingleFacts ==
    ASSUME NEW r, IsRange(r)
    PROVE  /\ AllRanges({r}) /\ Disjoint({r}) /\ CellsOf({r}) = Cells(r)
           /\ \A T : PagesOf({r}, T) = IF r.type \in T THEN Cells(r) ELSE {}
<1>1. AllRanges({r}) /\ Disjoint({r}) /\ CellsOf({r}) = Cells(r)
  BY DEF AllRanges, Disjoint, CellsOf
<1>2. ASSUME NEW T, r.type \in T PROVE PagesOf({r}, T) = Cells(r)
  BY <1>2 DEF PagesOf, CellsOf
<1>3. ASSUME NEW T, r.type \notin T PROVE PagesOf({r}, T) = {}
  BY <1>3 DEF PagesOf, CellsOf
<1> QED BY <1>1, <1>2, <1>3

\* No page has ranges of two types.
LEMMA OneType ==
    ASSUME NEW R, AllRanges(R), Disjoint(R), NEW T, NEW U, T \cap U = {}
    PROVE  PagesOf(R, T) \cap PagesOf(R, U) = {} /\ PagesOf(R, T) \subseteq Pages
           /\ CellsOf(R) \subseteq Pages
<1>0. CellsOf(R) \subseteq Pages /\ PagesOf(R, T) \subseteq Pages
  BY CellsIn DEF AllRanges, CellsOf, PagesOf
<1> SUFFICES ASSUME NEW p, p \in PagesOf(R, T), p \in PagesOf(R, U) PROVE FALSE
  BY <1>0
<1>1. PICK r \in R : r.type \in T /\ p \in Cells(r)
  BY InPagesOf
<1>2. PICK s \in R : s.type \in U /\ p \in Cells(s)
  BY InPagesOf
<1>3. r = s
  BY <1>0, <1>1, <1>2 DEF Disjoint
<1> QED BY <1>1, <1>2, <1>3

\* The pages of more types.
LEMMA PagesOfUnion ==
    ASSUME NEW R, NEW T, NEW U
    PROVE  /\ PagesOf(R, T \cup U) = PagesOf(R, T) \cup PagesOf(R, U)
           /\ T \subseteq U => PagesOf(R, T) \subseteq PagesOf(R, U)
           /\ PagesOf(R, T) \subseteq CellsOf(R)
BY DEF PagesOf, CellsOf

\* Pages given back: the offsets behind them are free again.
LEMMA FillsShrink ==
    ASSUME NEW f, NEW g, NEW free, NEW all, NEW Q, Fills(f, free, all),
           DOMAIN g = DOMAIN f \ Q, \A p \in DOMAIN g : g[p] = f[p]
    PROVE  Fills(g, free \cup {f[p] : p \in DOMAIN f \cap Q}, all)
<1> DEFINE B == {f[p] : p \in DOMAIN f \cap Q}
<1>1. \A y : y \in Taken(f) <=> \E p \in DOMAIN f : y = f[p]
  BY DEF Taken, Images
<1>2. \A y : y \in Taken(g) <=> \E p \in DOMAIN f : p \notin Q /\ y = f[p]
  BY DEF Taken, Images
<1>3. \A y : y \in B <=> \E p \in DOMAIN f : p \in Q /\ y = f[p]
  OBVIOUS
<1> HIDE DEF B
<1>4. /\ \A p, q \in DOMAIN f : f[p] = f[q] => p = q
      /\ Taken(f) \cup free = all /\ Taken(f) \cap free = {}
  BY DEF Fills
<1>5. Taken(g) \cup (free \cup B) = all
  <2>1. Taken(g) \cup B = Taken(f)
    BY <1>1, <1>2, <1>3
  <2> QED BY <1>4, <2>1
<1>6. Taken(g) \cap (free \cup B) = {}
  <2>1. Taken(g) \cap B = {}
    BY <1>2, <1>3, <1>4
  <2>2. Taken(g) \subseteq Taken(f)
    BY <1>1, <1>2
  <2> QED BY <1>4, <2>1, <2>2
<1>7. \A p, q \in DOMAIN g : g[p] = g[q] => p = q
  BY <1>4
<1> QED BY <1>5, <1>6, <1>7 DEF Fills, B

\* The memory m2 is m with the pages Q given back, its ranges named and
\* protected anew, its mappings cut anew, and reservations made or dropped.
Kept(m, m2, Q) ==
    /\ RangesOK(m2.ranges)
    /\ \A T \in SUBSET CommittedTypes : PagesOf(m2.ranges, T) = PagesOf(m.ranges, T) \ Q
    /\ AllRanges(m2.maps) /\ Disjoint(m2.maps) /\ \A b \in m2.maps : b.type = "Direct"
    /\ CellsOf(m2.maps) = CellsOf(m.maps) \ Q
    /\ \A b \in m2.maps : \A p \in Cells(b) : \E c \in m.maps : p \in Cells(c) /\ Base(b) = Base(c)
    /\ \A r \in m2.ranges : r.type = "Direct" => \E b \in m2.maps : Backs(b, r)
    /\ DOMAIN m2.flex = DOMAIN m.flex \ Q
    /\ \A p \in DOMAIN m2.flex : m2.flex[p] = m.flex[p]
    /\ m2.flexFree = m.flexFree \cup {m.flex[p] : p \in DOMAIN m.flex \cap Q}
    /\ DOMAIN m2.pool = DOMAIN m.pool \ Q
    /\ \A p \in DOMAIN m2.pool : m2.pool[p] = m.pool[p]
    /\ m2.poolFree = m.poolFree \cup {m.pool[p] : p \in DOMAIN m.pool \cap Q}
    /\ m2.committed = m.committed - Cardinality(DOMAIN m.pool \cap Q)
    /\ \A p \in Pages : /\ p \in Q => m2.host[p] = Unmapped
                        /\ p \notin Q => m2.host[p] = m.host[p]
    /\ m2.free = m.free /\ m2.allocated = m.allocated /\ m2.expansions = m.expansions

\* Offsets behind finitely many pages.
LEMMA PartialFacts ==
    ASSUME NEW S, NEW f \in Partial(S)
    PROVE  DOMAIN f \in SUBSET Pages /\ f \in [DOMAIN f -> S] /\ IsFiniteSet(DOMAIN f)
<1>1. DOMAIN f \in SUBSET Pages /\ f \in [DOMAIN f -> S]
  BY DEF Partial
<1>2. IsFiniteSet(Pages)
  BY MemoryAssumption, FS_Interval DEF Pages
<1> QED BY <1>1, <1>2, FS_Subset

\* What only gives pages back leaves the records in agreement.
LEMMA KeptOK ==
    ASSUME NEW m, MemoryOK(m), NEW m2, m2 \in Memory, NEW Q, Q \subseteq Pages,
           Kept(m, m2, Q), GpuOK(m2)
    PROVE  MemoryOK(m2)
<1>1. /\ m \in Memory
      /\ RangesOK(m.ranges)
      /\ MapsOK(m.ranges, m.maps)
      /\ DOMAIN m.flex = PagesOf(m.ranges, {"Flexible"})
      /\ DOMAIN m.pool = PagesOf(m.ranges, {"Pooled"})
      /\ HostOK(m)
      /\ BackingOK(m)
  BY DEF MemoryOK
<1>2. /\ {"Direct"} \in SUBSET CommittedTypes /\ {"Flexible"} \in SUBSET CommittedTypes
      /\ {"Pooled"} \in SUBSET CommittedTypes /\ PrivateTypes \in SUBSET CommittedTypes
      /\ CommittedTypes \in SUBSET CommittedTypes
  BY DEF CommittedTypes, PrivateTypes, BackedTypes
<1>3. MapsOK(m2.ranges, m2.maps)
  <2>1. CellsOf(m2.maps) = PagesOf(m2.ranges, {"Direct"})
    BY <1>1, <1>2 DEF Kept, MapsOK
  <2> QED BY <2>1 DEF Kept, MapsOK
<1>4. DOMAIN m2.flex = PagesOf(m2.ranges, {"Flexible"}) /\ DOMAIN m2.pool = PagesOf(m2.ranges, {"Pooled"})
  BY <1>1, <1>2 DEF Kept
<1>5. CellsOf(m2.maps) \subseteq Pages /\ DOMAIN m2.flex \subseteq Pages /\ DOMAIN m2.pool \subseteq Pages
      /\ \A T : PagesOf(m.ranges, T) \subseteq Pages
  <2>1. \A T : PagesOf(m.ranges, T) \subseteq Pages
    BY <1>1, CellsIn DEF RangesOK, AllRanges, PagesOf, CellsOf
  <2>2. CellsOf(m2.maps) \subseteq Pages
    BY CellsIn DEF Kept, AllRanges, CellsOf
  <2> QED BY <1>1, <2>1, <2>2 DEF Kept
<1>6. HostOK(m2)
  <2>1. ASSUME NEW b \in m2.maps, NEW p \in Cells(b) PROVE m2.host[p] = Base(b) + p
    <3>1. PICK c \in m.maps : p \in Cells(c) /\ Base(b) = Base(c)
      BY <2>1 DEF Kept
    <3>2. p \in CellsOf(m2.maps)
      BY <2>1 DEF CellsOf
    <3>3. p \in Pages /\ p \notin Q
      BY <1>5, <3>2 DEF Kept
    <3> QED BY <1>1, <3>1, <3>3 DEF HostOK, Kept
  <2>2. ASSUME NEW p \in DOMAIN m2.flex PROVE m2.host[p] = m2.flex[p]
    <3>1. p \in Pages /\ p \notin Q /\ p \in DOMAIN m.flex /\ m2.flex[p] = m.flex[p]
      BY <1>5, <2>2 DEF Kept
    <3> QED BY <1>1, <3>1 DEF HostOK, Kept
  <2>3. ASSUME NEW p \in DOMAIN m2.pool PROVE m2.host[p] = m2.pool[p]
    <3>1. p \in Pages /\ p \notin Q /\ p \in DOMAIN m.pool /\ m2.pool[p] = m.pool[p]
      BY <1>5, <2>3 DEF Kept
    <3> QED BY <1>1, <3>1 DEF HostOK, Kept
  <2>4. ASSUME NEW p \in PagesOf(m2.ranges, PrivateTypes) PROVE m2.host[p] = Private
    <3>1. p \in PagesOf(m.ranges, PrivateTypes) /\ p \notin Q
      BY <1>2, <2>4 DEF Kept
    <3> QED BY <1>1, <1>5, <3>1 DEF HostOK, Kept
  <2>5. ASSUME NEW p \in Pages \ PagesOf(m2.ranges, CommittedTypes) PROVE m2.host[p] = Unmapped
    <3>1. p \in Q \/ p \notin PagesOf(m.ranges, CommittedTypes)
      BY <1>2, <2>5 DEF Kept
    <3> QED BY <1>1, <2>5, <3>1 DEF HostOK, Kept
  <2> QED BY <2>1, <2>2, <2>3, <2>4, <2>5 DEF HostOK
<1>7. BackingOK(m2)
  <2>1. /\ m2.free \cup m2.allocated \cup UNION m2.expansions = Direct
        /\ m2.free \cap m2.allocated = {}
        /\ (m2.free \cup m2.allocated) \cap (UNION m2.expansions) = {}
        /\ \A S, T \in m2.expansions : S # T => S \cap T = {}
    BY <1>1 DEF BackingOK, Kept
  <2>2. Fills(m2.flex, m2.flexFree, Flexible)
    <3>1. Fills(m.flex, m.flexFree, Flexible)
      BY <1>1 DEF BackingOK
    <3> QED BY <3>1, FillsShrink DEF Kept
  <2>3. Fills(m2.pool, m2.poolFree, UNION m2.expansions)
    <3>1. Fills(m.pool, m.poolFree, UNION m.expansions)
      BY <1>1 DEF BackingOK
    <3> QED BY <3>1, FillsShrink DEF Kept
  <2>4. m2.committed = Cardinality(DOMAIN m2.pool)
    <3>1. IsFiniteSet(DOMAIN m.pool) /\ m.committed = Cardinality(DOMAIN m.pool)
      BY <1>1, PartialFacts DEF Memory, BackingOK
    <3>2. Cardinality(DOMAIN m.pool \ Q) = Cardinality(DOMAIN m.pool) - Cardinality(DOMAIN m.pool \cap Q)
      BY <3>1, FS_Difference
    <3> QED BY <3>1, <3>2 DEF Kept
  <2>5. ASSUME NEW b \in m2.maps PROVE Span(b.offset, b.size) \subseteq m2.allocated
    <3>1. IsRange(b)
      BY DEF Kept, AllRanges
    <3>2. b.offset \in Int /\ b.start \in Nat /\ b.size \in Nat
      <4>1. b.offset \in Int /\ b.start \in Pages /\ b.size \in Nat
        BY <3>1 DEF IsRange, Range0
      <4> QED BY <4>1, MemoryAssumption DEF Pages
    <3> SUFFICES ASSUME NEW x \in Span(b.offset, b.size) PROVE x \in m2.allocated
      OBVIOUS
    <3>3. PICK p \in Cells(b) : x = Base(b) + p
      <4>1. x - Base(b) \in Cells(b) /\ x = Base(b) + (x - Base(b))
        BY <3>2 DEF Span, Cells, Base
      <4> QED BY <4>1
    <3>4. PICK c \in m.maps : p \in Cells(c) /\ Base(b) = Base(c)
      BY DEF Kept
    <3>5. IsRange(c)
      BY <1>1 DEF MapsOK, AllRanges
    <3>6. c.offset \in Int /\ c.start \in Nat /\ c.size \in Nat
      <4>1. c.offset \in Int /\ c.start \in Pages /\ c.size \in Nat
        BY <3>5 DEF IsRange, Range0
      <4> QED BY <4>1, MemoryAssumption DEF Pages
    <3>7. x \in Span(c.offset, c.size)
      BY <3>2, <3>3, <3>4, <3>6 DEF Span, Cells, Base
    <3> QED BY <1>1, <3>7 DEF BackingOK, Kept
  <2> QED BY <2>1, <2>2, <2>3, <2>4, <2>5 DEF BackingOK
<1> QED BY <1>3, <1>4, <1>6, <1>7 DEF MemoryOK, Kept

\* Mappings that are cut.
LEMMA CutMaps ==
    ASSUME NEW M, AllRanges(M), Disjoint(M), \A b \in M : b.type = "Direct",
           NEW S \in SUBSET Pages
    PROVE  /\ AllRanges(Parts(M, S)) /\ Disjoint(Parts(M, S))
           /\ \A b \in Parts(M, S) : b.type = "Direct" /\ Cells(b) \subseteq S
           /\ CellsOf(Parts(M, S)) = CellsOf(M) \cap S
           /\ \A c \in Parts(M, S) : \E b \in M : Cells(c) \subseteq Cells(b) /\ Base(c) = Base(b)
           /\ \A r, x : /\ \E b \in M : Backs(b, r)
                        /\ PartOf(x, r) /\ IsRange(x) /\ x.type = "Direct" /\ Cells(x) \subseteq S
                        => \E c \in Parts(M, S) : Backs(c, x)
<1>1. /\ AllRanges(Parts(M, S)) /\ Disjoint(Parts(M, S))
      /\ \A x \in Parts(M, S) : Cells(x) \subseteq S /\ \E r \in M : PartOf(x, r)
      /\ \A r \in M, u, v \in Pages : u <= v /\ u..v \subseteq Cells(r) \cap S
            => \E x \in Parts(M, S) : u..v \subseteq Cells(x) /\ PartOf(x, r)
      /\ CellsOf(Parts(M, S)) = CellsOf(M) \cap S
  BY PartsFacts
<1>2. \A c \in Parts(M, S) : \E b \in M : Cells(c) \subseteq Cells(b) /\ Base(c) = Base(b)
                                           /\ c.type = "Direct"
  BY <1>1 DEF PartOf
<1>3. ASSUME NEW r, NEW x, NEW b \in M, Backs(b, r), PartOf(x, r), IsRange(x),
             x.type = "Direct", Cells(x) \subseteq S
      PROVE  \E c \in Parts(M, S) : Backs(c, x)
  <2>1. /\ x.start \in Pages /\ End(x) - 1 \in Pages /\ x.start <= End(x) - 1
        /\ Cells(x) = x.start..(End(x) - 1)
    <3>1. x.start \in Pages /\ x.size \in Nat \ {0} /\ End(x) <= MaxPage + 1 /\ MaxPage \in Nat
      BY <1>3, MemoryAssumption DEF IsRange, Range0
    <3> QED BY <3>1 DEF Pages, Cells, Span, End
  <2>2. Cells(x) \subseteq Cells(b) \cap S
    BY <1>3 DEF Backs, PartOf
  <2>3. PICK c \in Parts(M, S) : Cells(x) \subseteq Cells(c) /\ PartOf(c, b)
    BY <1>1, <2>1, <2>2
  <2>4. c.type = "Direct"
    BY <1>2, <2>3
  <2>5. Backs(c, x)
    BY <1>3, <2>3, <2>4 DEF Backs, PartOf
  <2> QED BY <2>5
<1> QED BY <1>1, <1>2, <1>3

\* The count of committed pages never meets its floor.
LEMMA MaxIs ==
    ASSUME NEW x \in Int, NEW k \in Int, k <= x
    PROVE  Max({0, x - k}) = x - k
<1> DEFINE S == {0, x - k}
<1>1. x - k \in S /\ \A y \in S : x - k >= y
  OBVIOUS
<1>2. \A y \in S : (\A z \in S : y >= z) => y = x - k
  BY <1>1
<1> QED BY <1>1, <1>2 DEF Max

\* What SetHost leaves.
LEMMA HostFacts ==
    ASSUME NEW h \in [Pages -> Int], NEW D \in SUBSET Pages, NEW f \in [D -> Int]
    PROVE  /\ Onto(f, h) \in [Pages -> Int]
           /\ \A p \in Pages : /\ p \in D => Onto(f, h)[p] = f[p]
                               /\ p \notin D => Onto(f, h)[p] = h[p]
BY DEF Onto

\* What a release of chunks leaves.
Freed(m, m2, C) ==
    /\ m2.host = Onto([p \in CellsOf(C) |-> Unmapped], m.host)
    /\ m2.maps = Parts(m.maps, Pages \ PagesOf(C, {"Direct"}))
    /\ m2.flex = Restrict(m.flex, DOMAIN m.flex \ PagesOf(C, {"Flexible"}))
    /\ m2.flexFree = m.flexFree \cup Images(m.flex, PagesOf(C, {"Flexible"}))
    /\ m2.pool = Restrict(m.pool, DOMAIN m.pool \ PagesOf(C, {"Pooled"}))
    /\ m2.poolFree = m.poolFree \cup Images(m.pool, PagesOf(C, {"Pooled"}))
    /\ m2.committed = Max({0, m.committed - Cardinality(PagesOf(C, {"Pooled"}))})

\* The chunks are of pages whose ranges have their types.
Owns(m, C) == AllRanges(C) /\ \A c \in C : Cells(c) \subseteq PagesOf(m.ranges, {c.type})

\* The pages of chunks are those of their types.
LEMMA OwnedPages ==
    ASSUME NEW m, RangesOK(m.ranges), NEW C, Owns(m, C), NEW t
    PROVE  /\ PagesOf(m.ranges, {t}) \cap CellsOf(C) = PagesOf(C, {t})
           /\ PagesOf(C, {t}) \subseteq Pages /\ CellsOf(C) \subseteq Pages
<1>0. PagesOf(m.ranges, {t}) \subseteq Pages
  BY CellsIn DEF RangesOK, AllRanges, PagesOf, CellsOf
<1>1. CellsOf(C) \subseteq Pages /\ PagesOf(C, {t}) \subseteq Pages
  BY CellsIn DEF Owns, AllRanges, PagesOf, CellsOf
<1>2. ASSUME NEW p, p \in PagesOf(m.ranges, {t}), p \in CellsOf(C) PROVE p \in PagesOf(C, {t})
  <2>1. PICK c \in C : p \in Cells(c)
    BY <1>2, InPagesOf
  <2>2. p \in PagesOf(m.ranges, {c.type})
    BY <2>1 DEF Owns
  <2>3. c.type = t
    <3>1. AllRanges(m.ranges) /\ Disjoint(m.ranges)
      BY DEF RangesOK
    <3>2. {c.type} \cap {t} = {} => PagesOf(m.ranges, {c.type}) \cap PagesOf(m.ranges, {t}) = {}
      BY <3>1, OneType
    <3> QED BY <1>2, <2>2, <3>2
  <2> QED BY <2>1, <2>3, InPagesOf
<1>3. ASSUME NEW p, p \in PagesOf(C, {t}) PROVE p \in PagesOf(m.ranges, {t}) \cap CellsOf(C)
  <2>1. PICK c \in C : c.type \in {t} /\ p \in Cells(c)
    BY <1>3, InPagesOf
  <2>2. p \in CellsOf(C) /\ p \in PagesOf(m.ranges, {c.type})
    BY <2>1, InPagesOf DEF Owns
  <2> QED BY <2>1, <2>2
<1> QED BY <1>1, <1>2, <1>3

\* Chunks that are released, and removed from the ranges, are given back.
LEMMA FreedKept ==
    ASSUME NEW m, MemoryOK(m), NEW C, Owns(m, C), NEW m2, Freed(m, m2, C),
           RangesOK(m2.ranges),
           \A T \in SUBSET CommittedTypes : PagesOf(m2.ranges, T) = PagesOf(m.ranges, T) \ CellsOf(C),
           \A x \in m2.ranges : x.type = "Direct" =>
                 Cells(x) \cap CellsOf(C) = {} /\ \E r \in m.ranges : PartOf(x, r),
           m2.free = m.free, m2.allocated = m.allocated, m2.expansions = m.expansions
    PROVE  Kept(m, m2, CellsOf(C)) /\ CellsOf(C) \subseteq Pages
<1> DEFINE Q == CellsOf(C)
<1>1. /\ m \in Memory /\ RangesOK(m.ranges) /\ MapsOK(m.ranges, m.maps)
      /\ DOMAIN m.flex = PagesOf(m.ranges, {"Flexible"})
      /\ DOMAIN m.pool = PagesOf(m.ranges, {"Pooled"})
      /\ m.committed = Cardinality(DOMAIN m.pool)
      /\ m.host \in [Pages -> Int]
  BY DEF MemoryOK, BackingOK, Memory
<1>2. /\ PagesOf(m.ranges, {"Direct"}) \cap Q = PagesOf(C, {"Direct"})
      /\ PagesOf(m.ranges, {"Flexible"}) \cap Q = PagesOf(C, {"Flexible"})
      /\ PagesOf(m.ranges, {"Pooled"}) \cap Q = PagesOf(C, {"Pooled"})
      /\ Q \subseteq Pages
  <2>1. ASSUME NEW t
        PROVE  /\ PagesOf(m.ranges, {t}) \cap CellsOf(C) = PagesOf(C, {t})
               /\ PagesOf(C, {t}) \subseteq Pages /\ CellsOf(C) \subseteq Pages
    <3>1. RangesOK(m.ranges)
      BY <1>1
    <3> QED BY <3>1, OwnedPages
  <2> QED BY <2>1
<1> HIDE DEF Q
<1>3. PICK S \in SUBSET Pages : S = Pages \ PagesOf(C, {"Direct"})
  OBVIOUS
<1>4. /\ m2.maps = Parts(m.maps, S)
      /\ AllRanges(m.maps) /\ Disjoint(m.maps) /\ \A b \in m.maps : b.type = "Direct"
      /\ CellsOf(m.maps) = PagesOf(m.ranges, {"Direct"})
      /\ \A r \in m.ranges : r.type = "Direct" => \E b \in m.maps : Backs(b, r)
  BY <1>1, <1>3 DEF Freed, MapsOK
<1>5. /\ AllRanges(m2.maps) /\ Disjoint(m2.maps)
      /\ \A b \in m2.maps : b.type = "Direct" /\ Cells(b) \subseteq S
      /\ CellsOf(m2.maps) = CellsOf(m.maps) \cap S
      /\ \A c \in m2.maps : \E b \in m.maps : Cells(c) \subseteq Cells(b) /\ Base(c) = Base(b)
      /\ \A r, x : /\ \E b \in m.maps : Backs(b, r)
                   /\ PartOf(x, r) /\ IsRange(x) /\ x.type = "Direct" /\ Cells(x) \subseteq S
                   => \E c \in m2.maps : Backs(c, x)
  BY <1>4, CutMaps
<1>6. CellsOf(m2.maps) = CellsOf(m.maps) \ Q
  <2>1. CellsOf(m.maps) \subseteq Pages
    BY <1>4, CellsIn DEF AllRanges, CellsOf
  <2> QED BY <1>2, <1>3, <1>4, <1>5, <2>1
<1>7. \A b \in m2.maps : \A p \in Cells(b) : \E c \in m.maps : p \in Cells(c) /\ Base(b) = Base(c)
  BY <1>5
<1>8. ASSUME NEW x \in m2.ranges, x.type = "Direct" PROVE \E b \in m2.maps : Backs(b, x)
  <2>1. PICK r \in m.ranges : PartOf(x, r)
    BY <1>8
  <2>2. IsRange(x) /\ Cells(x) \subseteq Pages
    BY CellsIn DEF RangesOK, AllRanges
  <2>3. Cells(x) \subseteq S
    BY <1>2, <1>3, <1>8, <2>2 DEF Q
  <2>4. \E b \in m.maps : Backs(b, r)
    BY <1>4, <1>8, <2>1 DEF PartOf
  <2> QED BY <1>5, <1>8, <2>1, <2>2, <2>3, <2>4
<1>9. /\ DOMAIN m2.flex = DOMAIN m.flex \ Q
      /\ \A p \in DOMAIN m2.flex : m2.flex[p] = m.flex[p]
      /\ DOMAIN m2.pool = DOMAIN m.pool \ Q
      /\ \A p \in DOMAIN m2.pool : m2.pool[p] = m.pool[p]
  BY <1>1, <1>2 DEF Freed, Restrict
<1>10. /\ m2.flexFree = m.flexFree \cup {m.flex[p] : p \in DOMAIN m.flex \cap Q}
       /\ m2.poolFree = m.poolFree \cup {m.pool[p] : p \in DOMAIN m.pool \cap Q}
  BY <1>1, <1>2 DEF Freed, Images
<1>11. m2.committed = m.committed - Cardinality(DOMAIN m.pool \cap Q)
  <2>1. IsFiniteSet(DOMAIN m.pool)
    BY <1>1, PartialFacts DEF Memory
  <2>2. /\ Cardinality(DOMAIN m.pool) \in Nat
        /\ IsFiniteSet(DOMAIN m.pool \cap Q)
        /\ Cardinality(DOMAIN m.pool \cap Q) <= Cardinality(DOMAIN m.pool)
    BY <2>1, FS_Intersection, FS_CardinalityType
  <2>3. Cardinality(DOMAIN m.pool \cap Q) \in Nat
    BY <2>2, FS_CardinalityType
  <2>4. m2.committed = Max({0, m.committed - Cardinality(DOMAIN m.pool \cap Q)})
    BY <1>1, <1>2 DEF Freed
  <2>5. m.committed \in Int /\ Cardinality(DOMAIN m.pool \cap Q) \in Int
        /\ Cardinality(DOMAIN m.pool \cap Q) <= m.committed
    BY <1>1, <2>2, <2>3
  <2> HIDE DEF Q
  <2>6. Max({0, m.committed - Cardinality(DOMAIN m.pool \cap Q)})
           = m.committed - Cardinality(DOMAIN m.pool \cap Q)
    BY <2>5, MaxIs
  <2> QED BY <2>4, <2>6
<1>12. \A p \in Pages : /\ p \in Q => m2.host[p] = Unmapped
                        /\ p \notin Q => m2.host[p] = m.host[p]
  <2> DEFINE f == [p \in Q |-> Unmapped]
  <2>1. f \in [Q -> Int] /\ \A p \in Q : f[p] = Unmapped
    BY DEF Unmapped
  <2>2. m2.host = Onto(f, m.host)
    BY DEF Freed, Q
  <2> HIDE DEF f
  <2> QED BY <1>1, <1>2, <2>1, <2>2, HostFacts
<1> QED BY <1>2, <1>5, <1>6, <1>7, <1>8, <1>9, <1>10, <1>11, <1>12 DEF Kept, Q

\* Release of chunks, field by field.
LEMMA ReleaseFields ==
    ASSUME NEW m \in Memory, NEW C, AllRanges(m.maps), Disjoint(m.maps),
           CellsOf(C) \subseteq Pages,
           PagesOf(C, {"Flexible"}) \subseteq DOMAIN m.flex,
           PagesOf(C, {"Pooled"}) \subseteq DOMAIN m.pool
    PROVE  /\ ReleaseChunks(m, C) \in Memory /\ Freed(m, ReleaseChunks(m, C), C)
           /\ ReleaseChunks(m, C).ranges = m.ranges
           /\ ReleaseChunks(m, C).free = m.free
           /\ ReleaseChunks(m, C).allocated = m.allocated
           /\ ReleaseChunks(m, C).expansions = m.expansions
           /\ ReleaseChunks(m, C).gpu = m.gpu
           /\ ReleaseChunks(m, C).torn = m.torn
           /\ ReleaseChunks(m, C).status = m.status
<1> DEFINE h  == Onto([p \in CellsOf(C) |-> Unmapped], m.host)
           M  == Parts(m.maps, Pages \ PagesOf(C, {"Direct"}))
           f  == Restrict(m.flex, DOMAIN m.flex \ PagesOf(C, {"Flexible"}))
           ff == m.flexFree \cup Images(m.flex, PagesOf(C, {"Flexible"}))
           g  == Restrict(m.pool, DOMAIN m.pool \ PagesOf(C, {"Pooled"}))
           gf == m.poolFree \cup Images(m.pool, PagesOf(C, {"Pooled"}))
           c  == Max({0, m.committed - Cardinality(PagesOf(C, {"Pooled"}))})
           m0 == [m EXCEPT !.host = h]
           m1 == [m0 EXCEPT !.maps = M]
           m2 == [m1 EXCEPT !.flex = f, !.flexFree = ff]
           m3 == [m2 EXCEPT !.pool = g, !.poolFree = gf, !.committed = c]
<1>1. h \in [Pages -> Int]
  <2>1. [p \in CellsOf(C) |-> Unmapped] \in [CellsOf(C) -> Int] /\ m.host \in [Pages -> Int]
    BY DEF Unmapped, Memory
  <2> QED BY <2>1, HostFacts
<1>2. M \in SUBSET Range0
  <2>1. PICK S \in SUBSET Pages : S = Pages \ PagesOf(C, {"Direct"})
    OBVIOUS
  <2>2. AllRanges(Parts(m.maps, S))
    BY PartsFacts
  <2> QED BY <2>1, <2>2 DEF AllRanges, IsRange
<1>3. f \in Partial(Flexible) /\ g \in Partial(Direct)
  <2>1. /\ DOMAIN m.flex \in SUBSET Pages /\ m.flex \in [DOMAIN m.flex -> Flexible]
        /\ DOMAIN m.pool \in SUBSET Pages /\ m.pool \in [DOMAIN m.pool -> Direct]
    BY PartialFacts DEF Memory
  <2>2. f \in [DOMAIN m.flex \ PagesOf(C, {"Flexible"}) -> Flexible]
    BY <2>1 DEF Restrict
  <2>3. g \in [DOMAIN m.pool \ PagesOf(C, {"Pooled"}) -> Direct]
    BY <2>1 DEF Restrict
  <2>4. /\ DOMAIN m.flex \ PagesOf(C, {"Flexible"}) \in SUBSET Pages
        /\ DOMAIN m.pool \ PagesOf(C, {"Pooled"}) \in SUBSET Pages
    BY <2>1
  <2> HIDE DEF f, g
  <2> QED BY <2>2, <2>3, <2>4 DEF Partial
<1>4. ff \in SUBSET Flexible /\ gf \in SUBSET Direct
  <2>1. /\ DOMAIN m.flex \in SUBSET Pages /\ m.flex \in [DOMAIN m.flex -> Flexible]
        /\ DOMAIN m.pool \in SUBSET Pages /\ m.pool \in [DOMAIN m.pool -> Direct]
    BY PartialFacts DEF Memory
  <2>2. m.flexFree \in SUBSET Flexible /\ m.poolFree \in SUBSET Direct
    BY DEF Memory
  <2> QED BY <2>1, <2>2 DEF Images
<1>5. c \in Int
  <2>1. IsFiniteSet(PagesOf(C, {"Pooled"}))
    BY PartialFacts, FS_Subset DEF Memory
  <2>2. Cardinality(PagesOf(C, {"Pooled"})) \in Nat /\ m.committed \in Int
    BY <2>1, FS_CardinalityType DEF Memory
  <2> DEFINE d == m.committed - Cardinality(PagesOf(C, {"Pooled"}))
  <2>3. d \in Int
    BY <2>2
  <2> HIDE DEF d
  <2>4. \E x \in {0, d} : \A y \in {0, d} : x >= y
    BY <2>3
  <2>5. Max({0, d}) \in {0, d}
    BY <2>4 DEF Max
  <2> QED BY <2>3, <2>5 DEF d
<1>6. /\ UnmapDirect(UnmapHost(m, CellsOf(C)), PagesOf(C, {"Direct"})) = m1
      /\ m0.maps = m.maps
  BY DEF UnmapDirect, UnmapHost, SetHost, Memory
<1> HIDE DEF h, M, f, ff, g, gf, c
<1>7. /\ m0 \in Memory /\ m0.host = h /\ m0.ranges = m.ranges /\ m0.free = m.free
      /\ m0.allocated = m.allocated /\ m0.expansions = m.expansions /\ m0.gpu = m.gpu
      /\ m0.torn = m.torn /\ m0.status = m.status /\ m0.flex = m.flex
      /\ m0.flexFree = m.flexFree /\ m0.pool = m.pool /\ m0.poolFree = m.poolFree
      /\ m0.committed = m.committed
  BY <1>1 DEF Memory
<1> HIDE DEF m0
<1>8. /\ m1 \in Memory /\ m1.host = h /\ m1.maps = M /\ m1.ranges = m.ranges /\ m1.free = m.free
      /\ m1.allocated = m.allocated /\ m1.expansions = m.expansions /\ m1.gpu = m.gpu
      /\ m1.torn = m.torn /\ m1.status = m.status /\ m1.flex = m.flex
      /\ m1.flexFree = m.flexFree /\ m1.pool = m.pool /\ m1.poolFree = m.poolFree
      /\ m1.committed = m.committed
  BY <1>2, <1>7 DEF Memory
<1> HIDE DEF m1
<1>9. /\ m2 \in Memory /\ m2.host = h /\ m2.maps = M /\ m2.ranges = m.ranges /\ m2.free = m.free
      /\ m2.allocated = m.allocated /\ m2.expansions = m.expansions /\ m2.gpu = m.gpu
      /\ m2.torn = m.torn /\ m2.status = m.status /\ m2.flex = f
      /\ m2.flexFree = ff /\ m2.pool = m.pool /\ m2.poolFree = m.poolFree
      /\ m2.committed = m.committed
  BY <1>3, <1>4, <1>8 DEF Memory
<1>10. UnmapFlexible(m1, PagesOf(C, {"Flexible"})) = m2
  BY <1>8 DEF UnmapFlexible, f, ff
<1> HIDE DEF m2
<1>11. /\ m3 \in Memory /\ m3.host = h /\ m3.maps = M /\ m3.ranges = m.ranges /\ m3.free = m.free
       /\ m3.allocated = m.allocated /\ m3.expansions = m.expansions /\ m3.gpu = m.gpu
       /\ m3.torn = m.torn /\ m3.status = m.status /\ m3.flex = f
       /\ m3.flexFree = ff /\ m3.pool = g /\ m3.poolFree = gf
       /\ m3.committed = c
  BY <1>3, <1>4, <1>5, <1>9 DEF Memory
<1>12. UnmapPooled(m2, PagesOf(C, {"Pooled"})) = m3
  BY <1>9 DEF UnmapPooled, g, gf, c
<1> HIDE DEF m3
<1>13. ReleaseChunks(m, C) = m3
  BY <1>6, <1>10, <1>12 DEF ReleaseChunks
<1>14. Freed(m, m3, C)
  BY <1>11 DEF Freed, h, M, f, ff, g, gf, c
<1> QED BY <1>11, <1>13, <1>14

\* m2 differs from m in the ranges and the GPU's pages only.
SameOwners(m, m2) ==
    /\ m2.maps = m.maps /\ m2.flex = m.flex /\ m2.flexFree = m.flexFree
    /\ m2.pool = m.pool /\ m2.poolFree = m.poolFree /\ m2.committed = m.committed
    /\ m2.host = m.host /\ m2.free = m.free /\ m2.allocated = m.allocated
    /\ m2.expansions = m.expansions /\ m2.torn = m.torn /\ m2.status = m.status

\* Ranges that only have other names and reservations than R.
SameCommitted(R, R2) ==
    /\ RangesOK(R2)
    /\ \A T \in SUBSET CommittedTypes : PagesOf(R2, T) = PagesOf(R, T)
    /\ \A x \in R2 : x.type = "Direct" =>
          \E r \in R : /\ r.type = "Direct" /\ Cells(x) \subseteq Cells(r)
                       /\ Base(x) = Base(r) /\ x.prot = r.prot

\* Other names and reservations leave the records in agreement.
LEMMA RerangeOK ==
    ASSUME NEW m, MemoryOK(m), NEW m2, m2 \in Memory, SameOwners(m, m2),
           SameCommitted(m.ranges, m2.ranges), m2.gpu = m.gpu
    PROVE  MemoryOK(m2)
<1>1. PICK Q : Q = {}
  OBVIOUS
<1>2. MapsOK(m.ranges, m.maps) /\ GpuOK(m) /\ m \in Memory
  BY DEF MemoryOK
<1>3. \A r \in m2.ranges : r.type = "Direct" => \E b \in m2.maps : Backs(b, r)
  <2> SUFFICES ASSUME NEW x \in m2.ranges, x.type = "Direct"
               PROVE  \E b \in m2.maps : Backs(b, x)
    OBVIOUS
  <2>1. PICK r \in m.ranges : /\ r.type = "Direct" /\ Cells(x) \subseteq Cells(r)
                              /\ Base(x) = Base(r) /\ x.prot = r.prot
    BY DEF SameCommitted
  <2>2. PICK b \in m.maps : Backs(b, r)
    BY <1>2, <2>1 DEF MapsOK
  <2> QED BY <2>1, <2>2 DEF Backs, SameOwners
<1>4. Cardinality(DOMAIN m.pool \cap Q) = 0 /\ m.committed \in Int
  BY <1>1, <1>2, FS_EmptySet DEF Memory
<1>5. /\ AllRanges(m2.maps) /\ Disjoint(m2.maps) /\ \A b \in m2.maps : b.type = "Direct"
      /\ CellsOf(m2.maps) = CellsOf(m.maps) \ Q
      /\ \A b \in m2.maps : \A p \in Cells(b) :
            \E c \in m.maps : p \in Cells(c) /\ Base(b) = Base(c)
  BY <1>1, <1>2 DEF MapsOK, SameOwners
<1>6. /\ RangesOK(m2.ranges)
      /\ \A T \in SUBSET CommittedTypes : PagesOf(m2.ranges, T) = PagesOf(m.ranges, T) \ Q
  BY <1>1 DEF SameCommitted
<1>7. /\ m2.flexFree = m.flexFree \cup {m.flex[p] : p \in DOMAIN m.flex \cap Q}
      /\ m2.poolFree = m.poolFree \cup {m.pool[p] : p \in DOMAIN m.pool \cap Q}
      /\ DOMAIN m2.flex = DOMAIN m.flex \ Q /\ DOMAIN m2.pool = DOMAIN m.pool \ Q
  BY <1>1 DEF SameOwners
<1>8. Kept(m, m2, Q)
  BY <1>1, <1>3, <1>4, <1>5, <1>6, <1>7 DEF Kept, SameOwners
<1>9. GpuOK(m2)
  <2>1. PagesOf(m2.ranges, CommittedTypes) = PagesOf(m.ranges, CommittedTypes)
    BY DEF SameCommitted
  <2> QED BY <1>2, <2>1 DEF GpuOK, SameOwners
<1> QED BY <1>1, <1>8, <1>9, KeptOK

\* UnmapGpuRange changes the GPU's pages only.
LEMMA GpuOff ==
    ASSUME NEW m \in Memory, NEW S
    PROVE  /\ UnmapGpuRange(m, S) \in Memory /\ UnmapGpuRange(m, S).gpu = m.gpu \ S
           /\ UnmapGpuRange(m, S).ranges = m.ranges /\ SameOwners(m, UnmapGpuRange(m, S))
<1>1. m.gpu \ S \in SUBSET Pages
  BY DEF Memory
<1> DEFINE g == m.gpu \ S
<1>2. UnmapGpuRange(m, S) = [m EXCEPT !.gpu = g]
  BY DEF UnmapGpuRange
<1> HIDE DEF g
<1> QED BY <1>1, <1>2 DEF Memory, SameOwners, g

\* Pages that hold nothing committed are not the GPU's.
LEMMA GpuOffFree ==
    ASSUME NEW m, MemoryOK(m), NEW S, S \cap PagesOf(m.ranges, CommittedTypes) = {}
    PROVE  UnmapGpuRange(m, S).gpu = m.gpu
<1>1. m \in Memory /\ m.gpu \subseteq PagesOf(m.ranges, CommittedTypes)
  BY DEF MemoryOK, GpuOK
<1>2. m.gpu \ S = m.gpu
  BY <1>1
<1> QED BY <1>1, <1>2, GpuOff

\* New ranges for a memory that has given up pages of the GPU.
LEMMA WithRanges ==
    ASSUME NEW m \in Memory, NEW R \in SUBSET Range0
    PROVE  /\ [m EXCEPT !.ranges = R] \in Memory /\ [m EXCEPT !.ranges = R].ranges = R
           /\ [m EXCEPT !.ranges = R].gpu = m.gpu /\ SameOwners(m, [m EXCEPT !.ranges = R])
BY DEF Memory, SameOwners

\* The pages of ranges are pages.
LEMMA RangesTyped ==
    ASSUME NEW R, AllRanges(R)
    PROVE  R \in SUBSET Range0 /\ CellsOf(R) \subseteq Pages
           /\ \A T : PagesOf(R, T) \subseteq CellsOf(R)
<1>1. R \in SUBSET Range0
  BY DEF AllRanges, IsRange
<1>2. CellsOf(R) \subseteq Pages
  BY CellsIn DEF AllRanges, CellsOf
<1>3. \A T : PagesOf(R, T) \subseteq CellsOf(R)
  BY DEF PagesOf, CellsOf
<1> QED BY <1>1, <1>2, <1>3

\* A memory whose ranges change where nothing is committed, by the operators.
LEMMA RerangedOK ==
    ASSUME NEW m, MemoryOK(m), NEW S, S \cap PagesOf(m.ranges, CommittedTypes) = {},
           NEW R, SameCommitted(m.ranges, R)
    PROVE  /\ MemoryOK([UnmapGpuRange(m, S) EXCEPT !.ranges = R])
           /\ [UnmapGpuRange(m, S) EXCEPT !.ranges = R].ranges = R
           /\ SameOwners(m, [UnmapGpuRange(m, S) EXCEPT !.ranges = R])
<1> DEFINE u == UnmapGpuRange(m, S)
           z == [u EXCEPT !.ranges = R]
<1>1. m \in Memory
  BY DEF MemoryOK
<1>2. u \in Memory /\ SameOwners(m, u) /\ u.gpu = m.gpu
  BY <1>1, GpuOff, GpuOffFree
<1> HIDE DEF u
<1>3. R \in SUBSET Range0
  BY RangesTyped DEF SameCommitted, RangesOK
<1>4. z \in Memory /\ z.ranges = R /\ z.gpu = u.gpu /\ SameOwners(u, z)
  BY <1>2, <1>3, WithRanges
<1> HIDE DEF z
<1>5. SameOwners(m, z)
  BY <1>2, <1>4 DEF SameOwners
<1>6. MemoryOK(z)
  BY <1>2, <1>4, <1>5, RerangeOK
<1> QED BY <1>4, <1>5, <1>6 DEF z, u

\* Other ranges of the same committed pages.
LEMMA RerangedHere ==
    ASSUME NEW m, MemoryOK(m), NEW R, SameCommitted(m.ranges, R)
    PROVE  /\ MemoryOK([m EXCEPT !.ranges = R])
           /\ [m EXCEPT !.ranges = R].ranges = R
           /\ SameOwners(m, [m EXCEPT !.ranges = R])
<1> DEFINE z == [m EXCEPT !.ranges = R]
<1>1. m \in Memory
  BY DEF MemoryOK
<1>3. R \in SUBSET Range0
  BY RangesTyped DEF SameCommitted, RangesOK
<1>4. z \in Memory /\ z.ranges = R /\ z.gpu = m.gpu /\ SameOwners(m, z)
  BY <1>1, <1>3, WithRanges
<1> HIDE DEF z
<1>6. MemoryOK(z)
  BY <1>4, RerangeOK
<1> QED BY <1>4, <1>6 DEF z

\* Chunks are released and the ranges brought up to date.
LEMMA ReleaseOK ==
    ASSUME NEW m, MemoryOK(m), NEW C, Owns(m, C), NEW m2 \in Memory, Freed(m, m2, C),
           RangesOK(m2.ranges),
           \A T \in SUBSET CommittedTypes : PagesOf(m2.ranges, T) = PagesOf(m.ranges, T) \ CellsOf(C),
           \A x \in m2.ranges : x.type = "Direct" =>
                 Cells(x) \cap CellsOf(C) = {} /\ \E r \in m.ranges : PartOf(x, r),
           m2.free = m.free, m2.allocated = m.allocated, m2.expansions = m.expansions,
           GpuOK(m2)
    PROVE  MemoryOK(m2)
<1>1. Kept(m, m2, CellsOf(C)) /\ CellsOf(C) \subseteq Pages
  BY FreedKept
<1>2. PICK Q : Q = CellsOf(C)
  OBVIOUS
<1> QED BY <1>1, <1>2, KeptOK

\* ReleaseChunks after UnmapGpuRange, field by field.
LEMMA ReleasedFields ==
    ASSUME NEW m, MemoryOK(m), NEW C, Owns(m, C), NEW S
    PROVE  LET z == ReleaseChunks(UnmapGpuRange(m, S), C)
           IN  /\ z \in Memory /\ Freed(m, z, C) /\ z.ranges = m.ranges /\ z.free = m.free
               /\ z.allocated = m.allocated /\ z.expansions = m.expansions
               /\ z.gpu = m.gpu \ S /\ z.torn = m.torn /\ z.status = m.status
<1> DEFINE u == UnmapGpuRange(m, S)
           z == ReleaseChunks(u, C)
<1>1. m \in Memory /\ RangesOK(m.ranges) /\ AllRanges(m.maps) /\ Disjoint(m.maps)
      /\ DOMAIN m.flex = PagesOf(m.ranges, {"Flexible"})
      /\ DOMAIN m.pool = PagesOf(m.ranges, {"Pooled"})
  BY DEF MemoryOK, MapsOK
<1>2. u \in Memory /\ SameOwners(m, u) /\ u.gpu = m.gpu \ S /\ u.ranges = m.ranges
  BY <1>1, GpuOff
<1> HIDE DEF u
<1>3. /\ CellsOf(C) \subseteq Pages
      /\ PagesOf(C, {"Flexible"}) \subseteq DOMAIN m.flex
      /\ PagesOf(C, {"Pooled"}) \subseteq DOMAIN m.pool
  <2>1. ASSUME NEW t
        PROVE  /\ PagesOf(m.ranges, {t}) \cap CellsOf(C) = PagesOf(C, {t})
               /\ CellsOf(C) \subseteq Pages
    BY <1>1, OwnedPages
  <2> QED BY <1>1, <2>1
<1>4. /\ AllRanges(u.maps) /\ Disjoint(u.maps)
      /\ PagesOf(C, {"Flexible"}) \subseteq DOMAIN u.flex
      /\ PagesOf(C, {"Pooled"}) \subseteq DOMAIN u.pool
  BY <1>1, <1>2, <1>3 DEF SameOwners
<1>5. /\ z \in Memory /\ Freed(u, z, C) /\ z.ranges = u.ranges /\ z.free = u.free
      /\ z.allocated = u.allocated /\ z.expansions = u.expansions
      /\ z.gpu = u.gpu /\ z.torn = u.torn /\ z.status = u.status
  BY <1>2, <1>3, <1>4, ReleaseFields
<1> HIDE DEF z
<1>6. Freed(m, z, C)
  BY <1>2, <1>5 DEF Freed, SameOwners
<1>7. /\ z \in Memory /\ Freed(m, z, C) /\ z.ranges = m.ranges /\ z.free = m.free
      /\ z.allocated = m.allocated /\ z.expansions = m.expansions
      /\ z.gpu = m.gpu \ S /\ z.torn = m.torn /\ z.status = m.status
  BY <1>2, <1>5, <1>6 DEF SameOwners
<1> QED BY <1>7 DEF z, u

\* The parts of the ranges in a set of pages.
LEMMA InsideFacts ==
    ASSUME NEW m, MemoryOK(m), NEW S \in SUBSET Pages, NEW C, C \subseteq Parts(m.ranges, S)
    PROVE  /\ AllRanges(C) /\ Disjoint(C) /\ Owns(m, C)
           /\ CellsOf(C) \subseteq S /\ CellsOf(C) \subseteq CellsOf(m.ranges)
           /\ \A x \in C : \E r \in m.ranges : PartOf(x, r)
           /\ C = Parts(m.ranges, S) => /\ CellsOf(C) = CellsOf(m.ranges) \cap S
                                        /\ \A T : PagesOf(C, T) = PagesOf(m.ranges, T) \cap S
<1>1. AllRanges(m.ranges) /\ Disjoint(m.ranges)
  BY DEF MemoryOK, RangesOK
<1> DEFINE P == Parts(m.ranges, S)
<1>2. /\ AllRanges(P) /\ Disjoint(P)
      /\ \A x \in P : Cells(x) \subseteq S /\ \E r \in m.ranges : PartOf(x, r)
      /\ \A T : PagesOf(P, T) = PagesOf(m.ranges, T) \cap S
      /\ CellsOf(P) = CellsOf(m.ranges) \cap S
  BY <1>1, PartsFacts
<1>3. C \subseteq P
  OBVIOUS
<1> HIDE DEF P
<1>4. AllRanges(C) /\ Disjoint(C)
  BY <1>2, <1>3 DEF AllRanges, Disjoint
<1>5. CellsOf(C) \subseteq CellsOf(P)
  BY <1>3 DEF CellsOf
<1>6. ASSUME NEW c \in C PROVE Cells(c) \subseteq PagesOf(m.ranges, {c.type})
  <2>1. PICK r \in m.ranges : PartOf(c, r)
    BY <1>2, <1>3
  <2> QED BY <2>1 DEF PartOf, PagesOf, CellsOf
<1>7. Owns(m, C)
  BY <1>4, <1>6 DEF Owns
<1> QED BY <1>2, <1>3, <1>4, <1>5, <1>7 DEF P

\* UnmapMemoryRange with the chunks that are done.
Undone(m, a, n, done, torn) ==
    [ReleaseChunks(UnmapGpuRange(m, Span(a, n)), done) EXCEPT
        !.ranges = RemovePages(@, CellsOf(done)), !.torn = torn]

\* The chunks are of the span, and all of them unless something failed.
Done(m, a, n, done, torn) ==
    /\ torn \in BOOLEAN /\ done \subseteq Inside(m.ranges, a, n)
    /\ ~torn => done = Inside(m.ranges, a, n) /\ ~m.torn

\* UnmapMemoryRange: chunks that are done leave the owners and the ranges.
LEMMA UnmapOK ==
    ASSUME NEW m, MemoryOK(m), NEW a \in Pages, NEW n \in Nat \ {0}, a + n - 1 <= MaxPage,
           NEW done, NEW torn, Done(m, a, n, done, torn)
    PROVE  MemoryOK(Undone(m, a, n, done, torn)) /\ Undone(m, a, n, done, torn).status = m.status
<1>0. torn \in BOOLEAN
  BY DEF Done
<1> DEFINE S == Span(a, n)
           u == ReleaseChunks(UnmapGpuRange(m, S), done)
           z == [u EXCEPT !.ranges = RemovePages(@, CellsOf(done)), !.torn = torn]
<1>1. S \in SUBSET Pages /\ done \subseteq Parts(m.ranges, S)
      /\ (~torn => done = Parts(m.ranges, S) /\ ~m.torn)
  <2>1. Span(a, n) \in SUBSET Pages
    BY MemoryAssumption DEF Pages, Span
  <2> QED BY <2>1 DEF Inside, Done
<1> HIDE DEF S
<1>2. /\ AllRanges(done) /\ Disjoint(done) /\ Owns(m, done)
      /\ CellsOf(done) \subseteq S
      /\ ~torn => CellsOf(done) = CellsOf(m.ranges) \cap S /\ ~m.torn
  BY <1>1, InsideFacts
<1>3. /\ u \in Memory /\ Freed(m, u, done) /\ u.ranges = m.ranges /\ u.free = m.free
      /\ u.allocated = m.allocated /\ u.expansions = m.expansions
      /\ u.gpu = m.gpu \ S /\ u.torn = m.torn /\ u.status = m.status
  BY <1>2, ReleasedFields
<1> HIDE DEF u
<1>4. AllRanges(m.ranges) /\ Disjoint(m.ranges) /\ m \in Memory
  BY DEF MemoryOK, RangesOK
<1> DEFINE R == RemovePages(m.ranges, CellsOf(done))
<1>5. PICK Q \in SUBSET Pages : Q = CellsOf(done)
  BY <1>1, <1>2
<1>6. /\ RangesOK(R)
      /\ \A T : PagesOf(R, T) = PagesOf(m.ranges, T) \ CellsOf(done)
      /\ \A x \in R : x.type = "Direct" =>
            Cells(x) \cap CellsOf(done) = {} /\ \E r \in m.ranges : PartOf(x, r)
  <2>1. /\ RangesOK(RemovePages(m.ranges, Q))
        /\ \A T : PagesOf(RemovePages(m.ranges, Q), T) = PagesOf(m.ranges, T) \ Q
        /\ \A x \in RemovePages(m.ranges, Q) : x.type = "Direct" =>
              Cells(x) \subseteq Pages \ Q /\ \E r \in m.ranges : PartOf(x, r)
    BY <1>4, RemoveFacts
  <2> QED BY <1>5, <2>1
<1>7. z = [u EXCEPT !.ranges = R, !.torn = torn]
  BY <1>3 DEF Memory
<1> HIDE DEF R, z
<1>8. R \in SUBSET Range0
  BY <1>4, <1>6, RangesTyped DEF RangesOK, Memory
<1>9. /\ z \in Memory /\ Freed(m, z, done) /\ z.ranges = R /\ z.free = m.free
      /\ z.allocated = m.allocated /\ z.expansions = m.expansions
      /\ z.gpu = m.gpu \ S /\ z.torn = torn /\ z.status = m.status
  BY <1>0, <1>3, <1>7, <1>8 DEF Memory, Freed
<1>10. GpuOK(z)
  <2>1. GpuOK(m) /\ PagesOf(R, CommittedTypes) = PagesOf(m.ranges, CommittedTypes) \ CellsOf(done)
        /\ PagesOf(m.ranges, CommittedTypes) \subseteq CellsOf(m.ranges)
    BY <1>4, <1>6, RangesTyped DEF MemoryOK
  <2>2. z.gpu \subseteq PagesOf(R, CommittedTypes)
    BY <1>2, <1>9, <2>1 DEF GpuOK
  <2>3. ASSUME ~z.torn PROVE z.gpu = PagesOf(R, CommittedTypes)
    <3>1. ~torn /\ ~m.torn
      BY <1>2, <1>9, <2>3
    <3>2. CellsOf(done) = CellsOf(m.ranges) \cap S /\ m.gpu = PagesOf(m.ranges, CommittedTypes)
      BY <1>2, <2>1, <3>1 DEF GpuOK
    <3> QED BY <1>9, <2>1, <3>2
  <2> QED BY <1>9, <2>2, <2>3 DEF GpuOK
<1>11. \A T \in SUBSET CommittedTypes : PagesOf(z.ranges, T) = PagesOf(m.ranges, T) \ CellsOf(done)
  BY <1>6, <1>9
<1>12. RangesOK(z.ranges)
       /\ \A x \in z.ranges : x.type = "Direct" =>
             Cells(x) \cap CellsOf(done) = {} /\ \E r \in m.ranges : PartOf(x, r)
  BY <1>6, <1>9
<1>13. MemoryOK(z)
  BY <1>2, <1>9, <1>10, <1>11, <1>12, ReleaseOK
<1> QED BY <1>9, <1>13 DEF z, u, S, Undone


\* A memory that no rollback or check has found broken.
Fine(m) == MemoryOK(m) /\ m.status # "Broken"

\* A call that ends the program leaves the records in agreement.
LEMMA StatusOK ==
    ASSUME NEW m, MemoryOK(m), NEW s \in {"Up", "Ended", "Escaped"}
    PROVE  Fine([m EXCEPT !.status = s])
<1> DEFINE z == [m EXCEPT !.status = s]
<1>1. m \in Memory
  BY DEF MemoryOK
<1>2. /\ z \in Memory /\ z.status = s /\ z.ranges = m.ranges /\ z.gpu = m.gpu
      /\ z.torn = m.torn /\ z.maps = m.maps /\ z.flex = m.flex /\ z.flexFree = m.flexFree
      /\ z.pool = m.pool /\ z.poolFree = m.poolFree /\ z.committed = m.committed
      /\ z.host = m.host /\ z.free = m.free /\ z.allocated = m.allocated
      /\ z.expansions = m.expansions
  BY <1>1 DEF Memory
<1> HIDE DEF z
<1>3. HostOK(z)
  BY <1>2 DEF MemoryOK, HostOK
<1>4. BackingOK(z)
  BY <1>2 DEF MemoryOK, BackingOK
<1>5. GpuOK(z)
  BY <1>2 DEF MemoryOK, GpuOK
<1>6. MemoryOK(z)
  BY <1>2, <1>3, <1>4, <1>5 DEF MemoryOK
<1> QED BY <1>2, <1>6 DEF Fine, z

\* m2 differs from m in the ranges, the mappings and the GPU's pages only.
SameBacking(m, m2) ==
    /\ m2.flex = m.flex /\ m2.flexFree = m.flexFree
    /\ m2.pool = m.pool /\ m2.poolFree = m.poolFree /\ m2.committed = m.committed
    /\ m2.host = m.host /\ m2.free = m.free /\ m2.allocated = m.allocated
    /\ m2.expansions = m.expansions /\ m2.torn = m.torn /\ m2.status = m.status

\* Mappings that are cut and protected anew, behind ranges of the same pages.
LEMMA RemapOK ==
    ASSUME NEW m, MemoryOK(m), NEW m2, m2 \in Memory, SameBacking(m, m2),
           RangesOK(m2.ranges),
           \A T \in SUBSET CommittedTypes : PagesOf(m2.ranges, T) = PagesOf(m.ranges, T),
           AllRanges(m2.maps), Disjoint(m2.maps), \A b \in m2.maps : b.type = "Direct",
           CellsOf(m2.maps) = CellsOf(m.maps),
           \A b \in m2.maps : \A p \in Cells(b) :
              \E c \in m.maps : p \in Cells(c) /\ Base(b) = Base(c),
           \A r \in m2.ranges : r.type = "Direct" => \E b \in m2.maps : Backs(b, r),
           GpuOK(m2)
    PROVE  MemoryOK(m2)
<1>1. PICK Q : Q = {}
  OBVIOUS
<1>2. m \in Memory
  BY DEF MemoryOK
<1>3. Cardinality(DOMAIN m.pool \cap Q) = 0 /\ m.committed \in Int
  BY <1>1, <1>2, FS_EmptySet DEF Memory
<1>4. /\ CellsOf(m2.maps) = CellsOf(m.maps) \ Q
      /\ \A T \in SUBSET CommittedTypes : PagesOf(m2.ranges, T) = PagesOf(m.ranges, T) \ Q
  BY <1>1
<1>5. /\ m2.flexFree = m.flexFree \cup {m.flex[p] : p \in DOMAIN m.flex \cap Q}
      /\ m2.poolFree = m.poolFree \cup {m.pool[p] : p \in DOMAIN m.pool \cap Q}
      /\ DOMAIN m2.flex = DOMAIN m.flex \ Q /\ DOMAIN m2.pool = DOMAIN m.pool \ Q
  BY <1>1 DEF SameBacking
<1>6. /\ \A p \in DOMAIN m2.flex : m2.flex[p] = m.flex[p]
      /\ \A p \in DOMAIN m2.pool : m2.pool[p] = m.pool[p]
      /\ m2.committed = m.committed - Cardinality(DOMAIN m.pool \cap Q)
      /\ \A p \in Pages : /\ p \in Q => m2.host[p] = Unmapped
                          /\ p \notin Q => m2.host[p] = m.host[p]
      /\ m2.free = m.free /\ m2.allocated = m.allocated /\ m2.expansions = m.expansions
  BY <1>1, <1>3 DEF SameBacking
<1>7. Kept(m, m2, Q)
  BY <1>4, <1>5, <1>6 DEF Kept
<1> QED BY <1>1, <1>7, KeptOK

\* The part of a mapping that a part of a direct range is.
LEMMA BackedPart ==
    ASSUME NEW m, MemoryOK(m), NEW r \in m.ranges, NEW x, IsRange(x), PartOf(x, r),
           x.type = "Direct"
    PROVE  /\ \E b \in m.maps : Backs(b, x)
           /\ Span(x.offset, x.size) \subseteq m.allocated
           /\ Cells(x) \subseteq CellsOf(m.maps)
<1>1. MapsOK(m.ranges, m.maps) /\ BackingOK(m)
  BY DEF MemoryOK
<1>2. PICK b \in m.maps : Backs(b, r)
  BY <1>1 DEF PartOf, MapsOK
<1>3. Backs(b, x) /\ Cells(x) \subseteq Cells(b) /\ Base(x) = Base(b)
  BY <1>2 DEF PartOf, Backs
<1>4. IsRange(b) /\ Span(b.offset, b.size) \subseteq m.allocated
  BY <1>1 DEF MapsOK, AllRanges, BackingOK
<1>5. /\ x.offset \in Int /\ x.start \in Int /\ x.size \in Int
      /\ b.offset \in Int /\ b.start \in Int /\ b.size \in Int
  <2>1. /\ x.offset \in Int /\ x.start \in Pages /\ x.size \in Nat
        /\ b.offset \in Int /\ b.start \in Pages /\ b.size \in Nat
    BY <1>4 DEF IsRange, Range0
  <2> QED BY <2>1, MemoryAssumption DEF Pages
<1>6. ASSUME NEW y \in Span(x.offset, x.size) PROVE y \in m.allocated
  <2>1. y - Base(x) \in Cells(x)
    BY <1>5 DEF Span, Cells, Base
  <2>2. y - Base(b) \in Cells(b)
    BY <1>3, <2>1
  <2>3. y \in Span(b.offset, b.size)
    BY <1>5, <2>2 DEF Span, Cells, Base
  <2> QED BY <1>4, <2>3
<1> QED BY <1>3, <1>6 DEF CellsOf

\* A range under another name, or with another protection.
LEMMA Renamed ==
    ASSUME NEW r, IsRange(r), NEW v
    PROVE  /\ v \in AllNames =>
                 /\ IsRange([r EXCEPT !.name = v])
                 /\ Cells([r EXCEPT !.name = v]) = Cells(r)
                 /\ Base([r EXCEPT !.name = v]) = Base(r)
                 /\ [r EXCEPT !.name = v].type = r.type /\ [r EXCEPT !.name = v].prot = r.prot
           /\ v \in Prots =>
                 /\ IsRange([r EXCEPT !.prot = v])
                 /\ Cells([r EXCEPT !.prot = v]) = Cells(r)
                 /\ Base([r EXCEPT !.prot = v]) = Base(r)
                 /\ [r EXCEPT !.prot = v].type = r.type /\ [r EXCEPT !.prot = v].prot = v
BY DEF IsRange, Range0, Cells, Base, End

\* Disjoint chunks under other names.
LEMMA BackFacts ==
    ASSUME NEW C, AllRanges(C), Disjoint(C), NEW v \in AllNames
    PROVE  LET B == {[r EXCEPT !.name = v] : r \in C}
           IN  AllRanges(B) /\ Disjoint(B) /\ CellsOf(B) = CellsOf(C)
<1> DEFINE B == {[r EXCEPT !.name = v] : r \in C}
<1>1. \A r \in C : IsRange([r EXCEPT !.name = v]) /\ Cells([r EXCEPT !.name = v]) = Cells(r)
  BY Renamed DEF AllRanges
<1>2. AllRanges(B)
  BY <1>1 DEF AllRanges
<1>3. Disjoint(B)
  <2> SUFFICES ASSUME NEW r \in C, NEW s \in C, NEW p \in Pages,
                      p \in Cells([r EXCEPT !.name = v]), p \in Cells([s EXCEPT !.name = v])
               PROVE  [r EXCEPT !.name = v] = [s EXCEPT !.name = v]
    BY DEF Disjoint
  <2>1. r = s
    BY <1>1 DEF Disjoint
  <2> QED BY <2>1
<1>4. CellsOf(B) = CellsOf(C)
  <2>1. \A p : p \in CellsOf(B) <=> \E r \in C : p \in Cells([r EXCEPT !.name = v])
    BY DEF CellsOf
  <2>2. \A p : p \in CellsOf(C) <=> \E r \in C : p \in Cells(r)
    BY DEF CellsOf
  <2>3. \A p : p \in CellsOf(B) <=> p \in CellsOf(C)
    BY <1>1, <2>1, <2>2
  <2> HIDE DEF B
  <2> QED BY <2>3
<1> QED BY <1>2, <1>3, <1>4

\* restore_chunks puts everything back, and finds that it can.
LEMMA RestoreOK ==
    ASSUME NEW m, Fine(m), NEW a, NEW n, Span(a, n) \subseteq Pages,
           NEW done, done \subseteq Inside(m.ranges, a, n)
    PROVE  LET z == RestoreChunks(m, Inside(m.ranges, a, n), done, a, n)
           IN  Fine(z) /\ z.allocated = m.allocated /\ z.flexFree = m.flexFree
<1> DEFINE back   == {r \in done : r.type = "Direct"}
           named  == {[r EXCEPT !.name = ""] : r \in back}
           chunks == Inside(m.ranges, a, n)
           cut    == Parts(m.maps, Pages \ CellsOf(back))
           M      == cut \cup named
           R      == Merge(Outside(m.ranges, a, n) \cup chunks)
           g      == (m.gpu \ Span(a, n)) \cup PagesOf(chunks, CommittedTypes)
           z      == [m EXCEPT !.maps = M, !.ranges = R, !.gpu = g]
<1>1. /\ MemoryOK(m) /\ m \in Memory /\ AllRanges(m.ranges) /\ Disjoint(m.ranges)
      /\ MapsOK(m.ranges, m.maps)
  BY DEF Fine, MemoryOK, RangesOK
<1>2. PICK S \in SUBSET Pages : S = Span(a, n)
  OBVIOUS
<1>3. chunks = Parts(m.ranges, S) /\ Outside(m.ranges, a, n) = Parts(m.ranges, Pages \ S)
  BY <1>2 DEF Inside, Outside
<1> HIDE DEF chunks
<1>4. /\ AllRanges(chunks) /\ Disjoint(chunks)
      /\ \A x \in chunks : \E r \in m.ranges : PartOf(x, r)
      /\ CellsOf(chunks) = CellsOf(m.ranges) \cap S
      /\ \A T : PagesOf(chunks, T) = PagesOf(m.ranges, T) \cap S
  BY <1>1, <1>3, InsideFacts
<1>5. /\ back \subseteq chunks /\ \A r \in back : r.type = "Direct"
      /\ \A r \in chunks : r.type = "Direct" /\ r \in done => r \in back
  BY DEF chunks
<1> HIDE DEF back
<1>6. AllRanges(back) /\ Disjoint(back) /\ CellsOf(back) \subseteq S
  <2>1. AllRanges(back) /\ Disjoint(back)
    BY <1>4, <1>5 DEF AllRanges, Disjoint
  <2>2. CellsOf(back) \subseteq CellsOf(chunks)
    BY <1>5 DEF CellsOf
  <2> QED BY <1>4, <2>1, <2>2
<1>7. \A x \in chunks : IsRange(x) /\ (x.type = "Direct" =>
          /\ \E b \in m.maps : Backs(b, x)
          /\ Span(x.offset, x.size) \subseteq m.allocated
          /\ Cells(x) \subseteq CellsOf(m.maps))
  <2> SUFFICES ASSUME NEW x \in chunks
               PROVE  IsRange(x) /\ (x.type = "Direct" =>
                        /\ \E b \in m.maps : Backs(b, x)
                        /\ Span(x.offset, x.size) \subseteq m.allocated
                        /\ Cells(x) \subseteq CellsOf(m.maps))
    OBVIOUS
  <2>1. IsRange(x)
    BY <1>4 DEF AllRanges
  <2>2. PICK r \in m.ranges : PartOf(x, r)
    BY <1>4
  <2> QED BY <1>1, <2>1, <2>2, BackedPart
<1>8. PICK N : N = chunks
  OBVIOUS
<1>9. /\ RangesOK(R)
      /\ \A T : PagesOf(R, T) = (PagesOf(m.ranges, T) \cap (Pages \ S)) \cup PagesOf(chunks, T)
      /\ \A x \in R : x.type = "Direct" =>
            \/ x \in chunks
            \/ Cells(x) \subseteq Pages \ S /\ \E r \in m.ranges : PartOf(x, r)
  <2>1. PICK U \in SUBSET Pages : U = Pages \ S
    OBVIOUS
  <2>2. AllRanges(N) /\ Disjoint(N) /\ CellsOf(N) \cap U = {}
    BY <1>4, <1>8, <2>1
  <2>3. R = Merge(Parts(m.ranges, U) \cup N)
    BY <1>3, <1>8, <2>1
  <2> HIDE DEF R
  <2>4. /\ RangesOK(R)
        /\ \A T : PagesOf(R, T) = (PagesOf(m.ranges, T) \cap U) \cup PagesOf(N, T)
        /\ \A x \in R : x.type = "Direct" =>
              \/ x \in N
              \/ Cells(x) \subseteq U /\ \E r \in m.ranges : PartOf(x, r)
    BY <1>1, <2>2, <2>3, MixFacts
  <2> QED BY <1>8, <2>1, <2>4
<1> HIDE DEF R
<1>10. \A T : PagesOf(R, T) = PagesOf(m.ranges, T)
  <2> SUFFICES ASSUME NEW T PROVE PagesOf(R, T) = PagesOf(m.ranges, T)
    OBVIOUS
  <2>1. PagesOf(m.ranges, T) \subseteq Pages
    BY <1>1, CellsIn DEF AllRanges, PagesOf, CellsOf
  <2>2. PagesOf(R, T) = (PagesOf(m.ranges, T) \cap (Pages \ S)) \cup (PagesOf(m.ranges, T) \cap S)
    BY <1>4, <1>9
  <2> QED BY <2>1, <2>2
<1>11. PICK K \in SUBSET Pages : K = Pages \ CellsOf(back)
  OBVIOUS
<1>12. /\ AllRanges(cut) /\ Disjoint(cut)
       /\ \A b \in cut : b.type = "Direct" /\ Cells(b) \subseteq K
       /\ CellsOf(cut) = CellsOf(m.maps) \cap K
       /\ \A c \in cut : \E b \in m.maps : Cells(c) \subseteq Cells(b) /\ Base(c) = Base(b)
       /\ \A r, x : /\ \E b \in m.maps : Backs(b, r)
                    /\ PartOf(x, r) /\ IsRange(x) /\ x.type = "Direct" /\ Cells(x) \subseteq K
                    => \E c \in cut : Backs(c, x)
  <2>1. AllRanges(m.maps) /\ Disjoint(m.maps) /\ \A b \in m.maps : b.type = "Direct"
    BY <1>1 DEF MapsOK
  <2>2. cut = Parts(m.maps, K)
    BY <1>11
  <2> HIDE DEF cut
  <2> QED BY <2>1, <2>2, CutMaps
<1> HIDE DEF cut
<1>13. AllRanges(named) /\ Disjoint(named) /\ CellsOf(named) = CellsOf(back)
  <2>1. "" \in AllNames
    BY DEF AllNames
  <2> QED BY <1>6, <2>1, BackFacts
<1>14. \A r \in back : LET b == [r EXCEPT !.name = ""]
                       IN  /\ b \in named /\ Cells(b) = Cells(r) /\ Base(b) = Base(r)
                           /\ b.type = "Direct" /\ b.prot = r.prot
  <2> SUFFICES ASSUME NEW r \in back
               PROVE  LET b == [r EXCEPT !.name = ""]
                      IN  /\ b \in named /\ Cells(b) = Cells(r) /\ Base(b) = Base(r)
                          /\ b.type = "Direct" /\ b.prot = r.prot
    OBVIOUS
  <2>1. IsRange(r) /\ r.type = "Direct" /\ "" \in AllNames
    BY <1>5, <1>6 DEF AllRanges, AllNames
  <2>2. [r EXCEPT !.name = ""] \in named
    OBVIOUS
  <2> HIDE DEF named
  <2> QED BY <2>1, <2>2, Renamed
<1>15. \A b \in named : \E r \in back : Cells(b) = Cells(r) /\ Base(b) = Base(r) /\ b.type = "Direct"
  BY <1>14
<1> HIDE DEF named
<1>16. AllRanges(M) /\ Disjoint(M) /\ \A b \in M : b.type = "Direct"
  <2>1. AllRanges(M)
    BY <1>12, <1>13 DEF AllRanges
  <2>2. \A b \in M : b.type = "Direct"
    BY <1>12, <1>15
  <2>3. ASSUME NEW b \in cut, NEW c \in named, NEW p, p \in Cells(b), p \in Cells(c) PROVE FALSE
    <3>1. p \in CellsOf(named)
      BY <2>3 DEF CellsOf
    <3> QED BY <1>11, <1>12, <1>13, <2>3, <3>1
  <2>4. Disjoint(M)
    BY <1>12, <1>13, <2>3 DEF Disjoint
  <2> QED BY <2>1, <2>2, <2>4
<1>17. CellsOf(M) = CellsOf(m.maps)
  <2>1. CellsOf(M) = CellsOf(cut) \cup CellsOf(named)
    BY DEF CellsOf
  <2>2. CellsOf(back) \subseteq CellsOf(m.maps)
    BY <1>5, <1>7 DEF CellsOf
  <2>3. CellsOf(m.maps) \subseteq Pages
    BY <1>1, CellsIn DEF MapsOK, AllRanges, CellsOf
  <2> QED BY <1>11, <1>12, <1>13, <2>1, <2>2, <2>3
<1>18. \A b \in M : \A p \in Cells(b) : \E c \in m.maps : p \in Cells(c) /\ Base(b) = Base(c)
  <2>1. \A b \in named : \E c \in m.maps : Cells(b) \subseteq Cells(c) /\ Base(b) = Base(c)
    BY <1>5, <1>7, <1>15 DEF Backs
  <2> QED BY <1>12, <2>1
<1>19. \A x \in R : x.type = "Direct" => \E b \in M : Backs(b, x)
  <2> SUFFICES ASSUME NEW x \in R, x.type = "Direct" PROVE \E b \in M : Backs(b, x)
    OBVIOUS
  <2>1. CASE x \in back
    <3>1. Backs([x EXCEPT !.name = ""], x) /\ [x EXCEPT !.name = ""] \in named
      BY <1>14, <2>1 DEF Backs
    <3> QED BY <3>1
  <2>2. CASE x \notin back
    <3>1. IsRange(x) /\ Cells(x) \subseteq Pages
      BY <1>9, CellsIn DEF RangesOK, AllRanges
    <3>2. PICK r \in m.ranges : PartOf(x, r)
      BY <1>4, <1>9
    <3>3. \E b \in m.maps : Backs(b, r)
      BY <1>1, <3>2 DEF MapsOK, PartOf
    <3>4. Cells(x) \cap CellsOf(back) = {}
      <4>1. CASE x \in chunks
        <5>1. ASSUME NEW p \in Cells(x), NEW y \in back, p \in Cells(y) PROVE FALSE
          <6>1. x = y
            BY <1>4, <1>5, <3>1, <4>1, <5>1 DEF Disjoint
          <6> QED BY <2>2, <6>1
        <5> QED BY <5>1 DEF CellsOf
      <4>2. CASE x \notin chunks
        <5>1. Cells(x) \subseteq Pages \ S
          BY <1>9, <4>2
        <5> QED BY <1>6, <5>1
      <4> QED BY <4>1, <4>2
    <3>5. Cells(x) \subseteq K
      BY <1>11, <3>1, <3>4
    <3> QED BY <1>12, <3>1, <3>2, <3>3, <3>5
  <2> QED BY <2>1, <2>2
<1>20. g = (m.gpu \ S) \cup (PagesOf(m.ranges, CommittedTypes) \cap S) /\ g \in SUBSET Pages
  <2>1. g = (m.gpu \ S) \cup (PagesOf(m.ranges, CommittedTypes) \cap S)
    BY <1>2, <1>4
  <2>2. m.gpu \subseteq Pages
    BY <1>1 DEF Memory
  <2> QED BY <2>1, <2>2
<1> HIDE DEF g, M
<1>21. M \in SUBSET Range0 /\ R \in SUBSET Range0
  BY <1>9, <1>16 DEF AllRanges, IsRange, RangesOK
<1>22. /\ z \in Memory /\ z.maps = M /\ z.ranges = R /\ z.gpu = g /\ SameBacking(m, z)
  BY <1>1, <1>20, <1>21 DEF Memory, SameBacking
<1> HIDE DEF z
<1>23. MemoryOK(z)
  <2>1. GpuOK(z)
    <3>1. GpuOK(m)
      BY <1>1 DEF MemoryOK
    <3>2. PagesOf(z.ranges, CommittedTypes) = PagesOf(m.ranges, CommittedTypes)
      BY <1>10, <1>22
    <3> QED BY <1>20, <1>22, <3>1, <3>2 DEF GpuOK, SameBacking
  <2> QED BY <1>1, <1>9, <1>10, <1>16, <1>17, <1>18, <1>19, <1>22, <2>1, RemapOK
<1>24. \A r \in back : Span(r.offset, r.size) \subseteq m.allocated
  BY <1>5, <1>7
<1>25. RestoreChunks(m, chunks, done, a, n) = z
  BY <1>24 DEF RestoreChunks, z, M, R, g, cut, named, back
<1> QED BY <1>22, <1>23, <1>25 DEF Fine, SameBacking, chunks

\* A reservation is a range.
LEMMA ReservationIs ==
    ASSUME NEW a \in Pages, NEW n \in Nat \ {0}, a + n - 1 <= MaxPage,
           NEW v \in AllNames
    PROVE  /\ IsRange(Reservation(a, n, v)) /\ Cells(Reservation(a, n, v)) = Span(a, n)
           /\ Reservation(a, n, v).type = "Reserved"
           /\ \A T \in SUBSET CommittedTypes : "Reserved" \notin T
           /\ IsRange(NewRange(a, n, "PoolReserved", 0, "None", v))
           /\ Cells(NewRange(a, n, "PoolReserved", 0, "None", v)) = Span(a, n)
           /\ NewRange(a, n, "PoolReserved", 0, "None", v).type = "PoolReserved"
           /\ \A T \in SUBSET CommittedTypes : "PoolReserved" \notin T
<1>1. a \in Nat /\ MaxPage \in Nat
  BY MemoryAssumption DEF Pages
<1>2. "Reserved" \in Types /\ "PoolReserved" \in Types
      /\ "Reserved" \notin CommittedTypes /\ "PoolReserved" \notin CommittedTypes
  BY DEF Types, Reservations, CommittedTypes, PrivateTypes, BackedTypes
<1> QED BY <1>1, <1>2 DEF Reservation, NewRange, IsRange, Range0, Cells, End

\* The pages of a fixed address, which a call names.
LEMMA SpanIn ==
    ASSUME NEW a \in Pages, NEW n \in Nat \ {0}, a + n - 1 <= MaxPage
    PROVE  Span(a, n) \in SUBSET Pages /\ a \in Span(a, n) /\ a - 1 \notin Span(a, n)
BY MemoryAssumption DEF Pages, Span

\* What is removed and replaced by a reservation.
LEMMA ReserveFacts ==
    ASSUME NEW R, RangesOK(R), NEW r, IsRange(r), r.type \in Reservations
    PROVE  LET Z == AddRange(RemovePages(R, Cells(r)), r)
           IN  /\ RangesOK(Z)
               /\ \A T : PagesOf(Z, T) = (PagesOf(R, T) \ Cells(r)) \cup PagesOf({r}, T)
               /\ \A T \in SUBSET CommittedTypes : PagesOf(Z, T) = PagesOf(R, T) \ Cells(r)
               /\ \A x \in Z : x.type = "Direct" =>
                     Cells(x) \cap Cells(r) = {} /\ \E s \in R : PartOf(x, s)
<1> DEFINE Y == RemovePages(R, Cells(r))
           Z == AddRange(Y, r)
<1>1. Cells(r) \in SUBSET Pages /\ AllRanges(R) /\ Disjoint(R)
  BY CellsIn DEF RangesOK
<1>2. /\ RangesOK(Y) /\ CellsOf(Y) = CellsOf(R) \ Cells(r)
      /\ \A T : PagesOf(Y, T) = PagesOf(R, T) \ Cells(r)
      /\ \A x \in Y : x.type = "Direct" => Cells(x) \subseteq Pages \ Cells(r) /\ \E s \in R : PartOf(x, s)
  BY <1>1, RemoveFacts
<1> HIDE DEF Y
<1>3. CellsOf(Y) \cap Cells(r) = {}
  BY <1>2
<1>4. /\ RangesOK(Z)
      /\ \A T : PagesOf(Z, T) = PagesOf(Y, T) \cup PagesOf({r}, T)
      /\ \A x \in Z : x.type = "Direct" => x \in Y \/ x = r
  BY <1>2, <1>3, AddFacts
<1> HIDE DEF Z
<1>5. r.type # "Direct" /\ r.type \notin CommittedTypes
  BY DEF Reservations, CommittedTypes, PrivateTypes, BackedTypes
<1>6. \A T \in SUBSET CommittedTypes : PagesOf({r}, T) = {}
  BY <1>5, SingleFacts
<1>7. \A T : PagesOf(Z, T) = (PagesOf(R, T) \ Cells(r)) \cup PagesOf({r}, T)
  BY <1>2, <1>4
<1>8. \A T \in SUBSET CommittedTypes : PagesOf(Z, T) = PagesOf(R, T) \ Cells(r)
  BY <1>6, <1>7
<1>9. \A x \in Z : x.type = "Direct" => Cells(x) \cap Cells(r) = {} /\ \E s \in R : PartOf(x, s)
  BY <1>2, <1>4, <1>5
<1> QED BY <1>4, <1>7, <1>8, <1>9 DEF Z, Y

\* ReplaceFixedRangeWithReserved: what it leaves is in step, and a reservation
\* when it succeeds.
LEMMA ReplaceOK ==
    ASSUME NEW m, Fine(m), NEW a \in Pages, NEW n \in Nat \ {0}, a + n - 1 <= MaxPage, NEW fault
    PROVE  LET z == ReplaceFixedRangeWithReserved(m, a, n, fault)
           IN  /\ Fine(z.mem) /\ z.mem.allocated = m.allocated /\ m.flexFree \subseteq z.mem.flexFree
               /\ z.ok => Span(a, n) \subseteq PagesOf(z.mem.ranges, {"Reserved"})
<1> DEFINE chunks  == Inside(m.ranges, a, n)
           failing == Failing(m, chunks, fault)
           done    == Completed(chunks, failing)
           z       == ReplaceFixedRangeWithReserved(m, a, n, fault)
           u       == ReleaseChunks(UnmapGpuRange(m, Span(a, n)), chunks)
           v       == Reservation(a, n, "anon")
           R       == AddRange(RemovePages(m.ranges, Cells(v)), v)
           w       == [u EXCEPT !.ranges = R]
<1>1. MemoryOK(m) /\ m \in Memory /\ RangesOK(m.ranges) /\ m.status # "Broken"
  BY DEF Fine, MemoryOK
<1>2. PICK S \in SUBSET Pages : S = Span(a, n)
  BY SpanIn
<1>3. done \subseteq chunks
  BY DEF Completed
<1>4. IsRange(v) /\ Cells(v) = S /\ v.type = "Reserved" /\ v.type \in Reservations
  <2>1. "anon" \in AllNames
    BY DEF AllNames
  <2>2. IsRange(v) /\ Cells(v) = Span(a, n) /\ v.type = "Reserved"
    BY <2>1, ReservationIs
  <2> QED BY <1>2, <2>2 DEF Reservations
<1>5. CASE \E r \in chunks : r.type = "Pooled"
  <2>1. z.mem = [m EXCEPT !.status = "Ended"] /\ ~z.ok
    BY <1>5 DEF ReplaceFixedRangeWithReserved, ReplaceChunks
  <2>2. Fine(z.mem)
    BY <1>1, <2>1, StatusOK
  <2>3. z.mem.allocated = m.allocated /\ z.mem.flexFree = m.flexFree
    BY <1>1, <2>1 DEF Memory
  <2> QED BY <2>1, <2>2, <2>3
<1>6. CASE /\ ~\E r \in chunks : r.type = "Pooled"
           /\ failing # {} \/ ~HostIs(m, Span(a, n) \ CellsOf(chunks), Unmapped)
  <2>1. z.mem = RestoreChunks(m, chunks, done, a, n) /\ ~z.ok
    BY <1>6 DEF ReplaceFixedRangeWithReserved, ReplaceChunks
  <2>2. Fine(z.mem) /\ z.mem.allocated = m.allocated /\ z.mem.flexFree = m.flexFree
    BY <1>2, <1>3, <2>1, RestoreOK
  <2> QED BY <2>1, <2>2
<1>7. CASE /\ ~\E r \in chunks : r.type = "Pooled"
           /\ failing = {} /\ HostIs(m, Span(a, n) \ CellsOf(chunks), Unmapped)
  <2>1. chunks = Parts(m.ranges, S) /\ chunks \subseteq Parts(m.ranges, S)
    BY <1>2 DEF Inside
  <2>2. Owns(m, chunks) /\ CellsOf(chunks) = CellsOf(m.ranges) \cap S
    <3>1. PICK C : C = chunks
      OBVIOUS
    <3>2. C = Parts(m.ranges, S) /\ C \subseteq Parts(m.ranges, S)
      BY <2>1, <3>1
    <3>3. Owns(m, C)
      BY <1>1, <1>2, <3>2, InsideFacts
    <3>4. CellsOf(C) = CellsOf(m.ranges) \cap S
      BY <1>1, <1>2, <3>2, InsideFacts
    <3> QED BY <3>1, <3>3, <3>4
  <2>3. /\ u \in Memory /\ Freed(m, u, chunks) /\ u.ranges = m.ranges /\ u.free = m.free
        /\ u.allocated = m.allocated /\ u.expansions = m.expansions
        /\ u.gpu = m.gpu \ S /\ u.torn = m.torn /\ u.status = m.status
    BY <1>1, <1>2, <2>2, ReleasedFields
  <2>4. z.mem = w /\ z.ok
    <3>1. RemoveRange(u.ranges, a, n) = RemovePages(m.ranges, Cells(v))
      BY <1>2, <1>4, <2>3 DEF RemoveRange
    <3>2. [u EXCEPT !.ranges = AddRange(RemoveRange(@, a, n), Reservation(a, n, "anon"))] = w
      BY <3>1
    <3> HIDE DEF w, u, v
    <3> QED BY <1>7, <3>2 DEF ReplaceFixedRangeWithReserved, ReplaceChunks, u
  <2>5. /\ RangesOK(R)
        /\ \A T : PagesOf(R, T) = (PagesOf(m.ranges, T) \ S) \cup PagesOf({v}, T)
        /\ \A T \in SUBSET CommittedTypes : PagesOf(R, T) = PagesOf(m.ranges, T) \ S
        /\ \A x \in R : x.type = "Direct" => Cells(x) \cap S = {} /\ \E s \in m.ranges : PartOf(x, s)
    <3>1. /\ RangesOK(R)
          /\ \A T : PagesOf(R, T) = (PagesOf(m.ranges, T) \ Cells(v)) \cup PagesOf({v}, T)
          /\ \A T \in SUBSET CommittedTypes : PagesOf(R, T) = PagesOf(m.ranges, T) \ Cells(v)
          /\ \A x \in R : x.type = "Direct" =>
                Cells(x) \cap Cells(v) = {} /\ \E s \in m.ranges : PartOf(x, s)
      BY <1>1, <1>4, ReserveFacts
    <3> HIDE DEF R, v
    <3> QED BY <1>4, <3>1
  <2> HIDE DEF chunks, u, R
  <2>6. R \in SUBSET Range0
    BY <2>5, RangesTyped DEF RangesOK
  <2>7. /\ w \in Memory /\ Freed(m, w, chunks) /\ w.ranges = R /\ w.free = m.free
        /\ w.allocated = m.allocated /\ w.expansions = m.expansions
        /\ w.gpu = m.gpu \ S /\ w.torn = m.torn /\ w.status = m.status
    BY <2>3, <2>6 DEF Memory, Freed
  <2> HIDE DEF w
  <2>8. \A T : PagesOf(m.ranges, T) \subseteq CellsOf(m.ranges)
    BY PagesOfUnion
  <2>9. \A T \in SUBSET CommittedTypes : PagesOf(w.ranges, T) = PagesOf(m.ranges, T) \ CellsOf(chunks)
    BY <2>2, <2>5, <2>7, <2>8
  <2>10. GpuOK(w)
    <3>1. GpuOK(m) /\ PagesOf(w.ranges, CommittedTypes) = PagesOf(m.ranges, CommittedTypes) \ S
      BY <1>1, <2>5, <2>7 DEF MemoryOK
    <3> QED BY <2>7, <3>1 DEF GpuOK
  <2>11. /\ RangesOK(w.ranges)
         /\ \A x \in w.ranges : x.type = "Direct" =>
               Cells(x) \cap CellsOf(chunks) = {} /\ \E s \in m.ranges : PartOf(x, s)
    BY <2>2, <2>5, <2>7
  <2>12. MemoryOK(w)
    BY <1>1, <2>2, <2>7, <2>9, <2>10, <2>11, ReleaseOK
  <2>13. m.flexFree \subseteq w.flexFree
    BY <2>7 DEF Freed
  <2>14. S \subseteq PagesOf(w.ranges, {"Reserved"})
    <3>1. PagesOf({v}, {"Reserved"}) = S
      BY <1>4, SingleFacts
    <3> QED BY <2>5, <2>7, <3>1
  <2> QED BY <1>1, <1>2, <2>4, <2>7, <2>12, <2>13, <2>14 DEF Fine
<1> QED BY <1>5, <1>6, <1>7

\* Reserved pages hold nothing that is committed, nor do pages without a range.
LEMMA ReservedFree ==
    ASSUME NEW m, MemoryOK(m), NEW S,
           S \subseteq PagesOf(m.ranges, Reservations) \/ S \cap CellsOf(m.ranges) = {}
    PROVE  \A T \in SUBSET CommittedTypes : S \cap PagesOf(m.ranges, T) = {}
<1> SUFFICES ASSUME NEW T \in SUBSET CommittedTypes PROVE S \cap PagesOf(m.ranges, T) = {}
  OBVIOUS
<1>1. AllRanges(m.ranges) /\ Disjoint(m.ranges)
  BY DEF MemoryOK, RangesOK
<1>2. Reservations \cap T = {}
  BY DEF Reservations, CommittedTypes, PrivateTypes, BackedTypes
<1>3. PagesOf(m.ranges, Reservations) \cap PagesOf(m.ranges, T) = {}
  BY <1>1, <1>2, OneType
<1>4. PagesOf(m.ranges, T) \subseteq CellsOf(m.ranges)
  BY PagesOfUnion
<1> QED BY <1>3, <1>4

\* Ranges and new reservations, or without old ones, hold the same.
LEMMA SameBut ==
    ASSUME NEW R, NEW S, NEW R2, RangesOK(R2),
           \A T \in SUBSET CommittedTypes : S \cap PagesOf(R, T) = {},
           \A T \in SUBSET CommittedTypes : PagesOf(R2, T) = PagesOf(R, T) \ S,
           \A x \in R2 : x.type = "Direct" => \E r \in R : PartOf(x, r)
    PROVE  SameCommitted(R, R2)
<1>1. \A T \in SUBSET CommittedTypes : PagesOf(R2, T) = PagesOf(R, T)
  BY Zenon
<1>2. ASSUME NEW x \in R2, x.type = "Direct"
      PROVE  \E r \in R : /\ r.type = "Direct" /\ Cells(x) \subseteq Cells(r)
                          /\ Base(x) = Base(r) /\ x.prot = r.prot
  <2>1. PICK r \in R : PartOf(x, r)
    BY <1>2
  <2> QED BY <1>2, <2>1 DEF PartOf
<1> QED BY <1>1, <1>2 DEF SameCommitted

\* A place for n pages, in a memory that has what m has.
PlaceOK(m, pl, n) ==
    /\ Fine(pl.mem) /\ pl.mem.allocated = m.allocated /\ m.flexFree \subseteq pl.mem.flexFree
    /\ pl.name \in AllNames
    /\ pl.at # 0 => /\ pl.at \in Pages /\ pl.at + n - 1 <= MaxPage
                    /\ Span(pl.at, n) \cap CellsOf(pl.mem.ranges) = {}

\* A reservation that is consumed is a place for a mapping.
LEMMA ConsumeOK ==
    ASSUME NEW m, NEW o, Fine(m), m.allocated = o.allocated, o.flexFree \subseteq m.flexFree,
           NEW a \in Pages, NEW n \in Nat \ {0}, a + n - 1 <= MaxPage,
           Span(a, n) \subseteq PagesOf(m.ranges, {"Reserved"}), NEW v \in AllNames
    PROVE  PlaceOK(o, Consume(m, a, n, v), n)
<1> DEFINE R == RemovePages(m.ranges, Span(a, n))
           z == [UnmapGpuRange(m, Span(a, n)) EXCEPT !.ranges = R]
<1>1. MemoryOK(m) /\ m \in Memory /\ AllRanges(m.ranges) /\ Disjoint(m.ranges)
  BY DEF Fine, MemoryOK, RangesOK
<1>2. PICK S \in SUBSET Pages : S = Span(a, n)
  BY SpanIn
<1>3. \A T \in SUBSET CommittedTypes : S \cap PagesOf(m.ranges, T) = {}
  <2>1. {"Reserved"} \subseteq Reservations
    BY DEF Reservations
  <2>2. S \subseteq PagesOf(m.ranges, Reservations)
    BY <1>2, <2>1, PagesOfUnion
  <2> QED BY <1>1, <2>2, ReservedFree
<1>4. /\ RangesOK(R) /\ CellsOf(R) = CellsOf(m.ranges) \ S
      /\ \A T : PagesOf(R, T) = PagesOf(m.ranges, T) \ S
      /\ \A x \in R : x.type = "Direct" => \E r \in m.ranges : PartOf(x, r)
  <2>1. R = RemovePages(m.ranges, S)
    BY <1>2
  <2> HIDE DEF R
  <2> QED BY <1>1, <2>1, RemoveFacts
<1> HIDE DEF R
<1>5. SameCommitted(m.ranges, R)
  <2>1. /\ RangesOK(R)
        /\ \A T \in SUBSET CommittedTypes : PagesOf(R, T) = PagesOf(m.ranges, T) \ S
        /\ \A x \in R : x.type = "Direct" => \E r \in m.ranges : PartOf(x, r)
    BY <1>4
  <2> QED BY <1>3, <2>1, SameBut
<1>6. S \cap PagesOf(m.ranges, CommittedTypes) = {}
  BY <1>3
<1>7. MemoryOK(z) /\ z.ranges = R /\ SameOwners(m, z)
  BY <1>1, <1>2, <1>5, <1>6, RerangedOK
<1>8. Consume(m, a, n, v).at = a /\ Consume(m, a, n, v).name = v
  BY DEF Consume
<1>9. Consume(m, a, n, v).mem = z
  <2>1. UnmapGpuRange(m, Span(a, n)).ranges = m.ranges
    BY <1>1, GpuOff
  <2> QED BY <2>1 DEF Consume, RemoveRange, R
<1> HIDE DEF z
<1>10. Span(a, n) \cap CellsOf(z.ranges) = {}
  BY <1>2, <1>4, <1>7
<1>11. Fine(z) /\ z.allocated = o.allocated /\ o.flexFree \subseteq z.flexFree
  BY <1>7 DEF Fine, SameOwners
<1> QED BY <1>8, <1>9, <1>10, <1>11 DEF PlaceOK

\* FindGuestFreeRange finds free pages.
LEMMA FoundFree ==
    ASSUME NEW m, NEW a, NEW n, FindGuestFreeRange(m, a, n) # 0
    PROVE  LET p == FindGuestFreeRange(m, a, n)
           IN  /\ p \in Pages /\ p + n - 1 <= MaxPage
               /\ HostIs(m, Span(p, n), Unmapped)
               /\ Span(p, n) \cap CellsOf(m.ranges) = {}
<1> DEFINE fits == {p \in Pages : /\ p >= a /\ p + n - 1 <= MaxPage
                                  /\ HostIs(m, Span(p, n), Unmapped)
                                  /\ ~Overlapping(m.ranges, p, n)}
<1>1. fits # {} /\ FindGuestFreeRange(m, a, n) = Min(fits)
  BY DEF FindGuestFreeRange
<1>2. fits \in SUBSET Nat
  BY MemoryAssumption DEF Pages
<1>3. Min(fits) \in fits
  BY <1>1, <1>2, MinIn
<1>4. \A p \in fits : /\ p \in Pages /\ p + n - 1 <= MaxPage
                      /\ HostIs(m, Span(p, n), Unmapped)
                      /\ Span(p, n) \cap CellsOf(m.ranges) = {}
  BY DEF Overlapping, CellsOf
<1> HIDE DEF fits
<1> QED BY <1>1, <1>3, <1>4

\* The ranges themselves.
LEMMA SameSelf ==
    ASSUME NEW R, RangesOK(R)
    PROVE  SameCommitted(R, R)
BY DEF SameCommitted

\* The GPU loses no page when its ranges of free pages are unmapped.
LEMMA GpuOffOK ==
    ASSUME NEW m, MemoryOK(m), NEW S, S \cap CellsOf(m.ranges) = {}
    PROVE  LET u == UnmapGpuRange(m, S)
           IN  MemoryOK(u) /\ u.ranges = m.ranges /\ u.gpu = m.gpu /\ SameOwners(m, u)
<1>1. m \in Memory /\ RangesOK(m.ranges) /\ S \cap PagesOf(m.ranges, CommittedTypes) = {}
  BY ReservedFree DEF MemoryOK
<1> DEFINE u == UnmapGpuRange(m, S)
<1>2. u \in Memory /\ u.ranges = m.ranges /\ u.gpu = m.gpu /\ SameOwners(m, u)
  BY <1>1, GpuOff, GpuOffFree
<1> HIDE DEF u
<1>3. MemoryOK(u)
  BY <1>1, <1>2, RerangeOK, SameSelf
<1> QED BY <1>2, <1>3 DEF u

\* Pages that are free are a place for a mapping.
LEMMA FreePlaceOK ==
    ASSUME NEW m, Fine(m), NEW a, NEW n
    PROVE  PlaceOK(m, FreePlace(m, n, FindGuestFreeRange(m, a, n)), n)
<1>1. PICK p : p = FindGuestFreeRange(m, a, n)
  OBVIOUS
<1>2. PICK pl : pl = FreePlace(m, n, p)
  OBVIOUS
<1>3. pl.name \in AllNames
  BY <1>2 DEF FreePlace, NoPlace, AllNames
<1>4. CASE p = 0
  <2>1. pl.at = 0 /\ pl.mem = m
    BY <1>2, <1>4 DEF FreePlace, NoPlace
  <2> QED BY <1>1, <1>2, <1>3, <2>1 DEF PlaceOK
<1>5. CASE p # 0
  <2>1. /\ p \in Pages /\ p + n - 1 <= MaxPage /\ Span(p, n) \cap CellsOf(m.ranges) = {}
    BY <1>1, <1>5, FoundFree
  <2>2. pl.at = p /\ pl.mem = UnmapGpuRange(m, Span(p, n))
    BY <1>2, <1>5 DEF FreePlace
  <2>3. MemoryOK(pl.mem) /\ pl.mem.ranges = m.ranges /\ SameOwners(m, pl.mem)
    BY <2>1, <2>2, GpuOffOK DEF Fine
  <2> QED BY <1>1, <1>2, <1>3, <2>1, <2>2, <2>3 DEF PlaceOK, Fine, SameOwners
<1> QED BY <1>4, <1>5

\* The parts of a span that is covered: one starts at its start, and they cover it.
LEMMA QueryFacts ==
    ASSUME NEW m, MemoryOK(m), NEW a \in Pages, NEW n \in Nat \ {0}, a + n - 1 <= MaxPage,
           QuerySpan(m.ranges, a, n) # {}
    PROVE  LET C == QuerySpan(m.ranges, a, n)
           IN  /\ C = Inside(m.ranges, a, n) /\ C = Parts(m.ranges, Span(a, n))
               /\ AllRanges(C) /\ CellsOf(C) = Span(a, n) /\ Owns(m, C) /\ Disjoint(C)
               /\ \E r \in C : r.start = a
               /\ \A T : PagesOf(C, T) = PagesOf(m.ranges, T) \cap Span(a, n)
<1>1. PICK S \in SUBSET Pages : S = Span(a, n) /\ a \in S /\ a - 1 \notin S
  BY SpanIn
<1>2. PICK C : C = QuerySpan(m.ranges, a, n)
  OBVIOUS
<1>3. /\ S \subseteq CellsOf(m.ranges) /\ C = Inside(m.ranges, a, n)
      /\ C = Parts(m.ranges, S)
  BY <1>1, <1>2 DEF QuerySpan, Inside
<1>4. /\ AllRanges(C) /\ CellsOf(C) = CellsOf(m.ranges) \cap S /\ Owns(m, C)
      /\ Disjoint(C)
      /\ \A T : PagesOf(C, T) = PagesOf(m.ranges, T) \cap S
  <2>1. C \subseteq Parts(m.ranges, S)
    BY <1>3
  <2>2. S \in SUBSET Pages
    BY <1>1
  <2>3. AllRanges(C) /\ Disjoint(C) /\ Owns(m, C)
    BY <2>1, <2>2, InsideFacts
  <2>4. AllRanges(m.ranges) /\ Disjoint(m.ranges)
    BY DEF MemoryOK, RangesOK
  <2>5. CellsOf(C) = CellsOf(m.ranges) \cap S /\ \A T : PagesOf(C, T) = PagesOf(m.ranges, T) \cap S
    BY <1>3, <2>2, <2>4, PartsFacts
  <2> QED BY <2>3, <2>5
<1>5. CellsOf(C) = S
  BY <1>3, <1>4
<1>6. PICK r \in C : a \in Cells(r)
  BY <1>1, <1>5 DEF CellsOf
<1>7. r.start = a
  <2>1. IsRange(r) /\ Cells(r) \subseteq S
    BY <1>4, <1>5 DEF AllRanges, CellsOf
  <2>2. r.start \in S /\ r.start <= a
    BY <1>6, <2>1, CellsIn
  <2>3. a <= r.start
    BY <1>1, <2>2, MemoryAssumption DEF Span, Pages
  <2>4. r.start \in Nat /\ a \in Nat
    BY <1>1, <2>2, MemoryAssumption DEF Pages
  <2> QED BY <2>2, <2>3, <2>4
<1>8. \E s \in C : s.start = a
  BY <1>7
<1> QED BY <1>1, <1>2, <1>3, <1>4, <1>5, <1>8

\* What a fixed mapping replaces is a place for it.
LEMMA ReplacedPlaceOK ==
    ASSUME NEW m, Fine(m), NEW a \in Pages, NEW n \in Nat \ {0}, a + n - 1 <= MaxPage, NEW fault
    PROVE  PlaceOK(m, ReplacedPlace(ReplaceFixedRangeWithReserved(m, a, n, fault), a, n), n)
<1>1. PICK z : z = ReplaceFixedRangeWithReserved(m, a, n, fault)
  OBVIOUS
<1>2. /\ Fine(z.mem) /\ z.mem.allocated = m.allocated /\ m.flexFree \subseteq z.mem.flexFree
      /\ z.ok => Span(a, n) \subseteq PagesOf(z.mem.ranges, {"Reserved"})
  BY <1>1, ReplaceOK
<1>3. "anon" \in AllNames /\ "" \in AllNames
  BY DEF AllNames
<1>4. CASE z.ok
  <2>1. PlaceOK(m, Consume(z.mem, a, n, "anon"), n)
    BY <1>2, <1>3, <1>4, ConsumeOK
  <2> QED BY <1>1, <1>4, <2>1 DEF ReplacedPlace
<1>5. CASE ~z.ok
  <2>1. ReplacedPlace(z, a, n) = NoPlace(z.mem)
    BY <1>5 DEF ReplacedPlace
  <2>2. PICK pl : pl = NoPlace(z.mem)
    OBVIOUS
  <2>3. pl.at = 0 /\ pl.mem = z.mem /\ pl.name \in AllNames
    BY <1>3, <2>2 DEF NoPlace
  <2> QED BY <1>1, <1>2, <2>1, <2>2, <2>3 DEF PlaceOK
<1> QED BY <1>4, <1>5

\* Where a mapping goes, its pages are free.
LEMMA PlaceIsOK ==
    ASSUME NEW m, Fine(m), NEW a \in 0..MaxPage, NEW n \in Nat \ {0}, a + n - 1 <= MaxPage,
           NEW fixed \in BOOLEAN, NEW hint \in BOOLEAN, NEW fault, fixed => a # 0
    PROVE  PlaceOK(m, Place(m, a, n, fixed, hint, fault), n)
<1>1. MemoryOK(m) /\ a # 0 => a \in Pages
  BY MemoryAssumption DEF Pages
<1>2. PICK span : span = IF a = 0 THEN {} ELSE QuerySpan(m.ranges, a, n)
  OBVIOUS
<1>3. Place(m, a, n, fixed, hint, fault) = PlaceIn(m, a, n, span, fixed, hint, fault)
  BY <1>2 DEF Place
<1> DEFINE reserved == AllOf(span, {"Reserved"})
<1>4. CASE reserved /\ (fixed \/ hint)
  <2>1. span # {} /\ \A r \in span : r.type = "Reserved"
    BY <1>4 DEF AllOf
  <2>2. a # 0 /\ a \in Pages /\ span = QuerySpan(m.ranges, a, n) /\ MemoryOK(m)
    BY <1>1, <1>2, <2>1 DEF Fine
  <2>3. /\ AllRanges(span) /\ CellsOf(span) = Span(a, n) /\ \E r \in span : r.start = a
        /\ PagesOf(span, {"Reserved"}) = PagesOf(m.ranges, {"Reserved"}) \cap Span(a, n)
    BY <2>1, <2>2, QueryFacts
  <2>4. PagesOf(span, {"Reserved"}) = CellsOf(span)
    BY <2>1 DEF PagesOf, CellsOf
  <2>5. Span(a, n) \subseteq PagesOf(m.ranges, {"Reserved"})
    BY <2>3, <2>4
  <2>6. PICK r : r = CHOOSE s \in span : s.start = a
    OBVIOUS
  <2>7. r \in span
    BY <2>3, <2>6
  <2>8. r.name \in AllNames
    BY <2>3, <2>7 DEF AllRanges, IsRange, Range0
  <2>9. PlaceOK(m, Consume(m, a, n, r.name), n)
    BY <2>2, <2>5, <2>8, ConsumeOK
  <2> QED BY <1>3, <1>4, <2>6, <2>9 DEF PlaceIn
<1>5. CASE ~reserved /\ fixed
  <2>1. a \in Pages
    BY <1>5, MemoryAssumption DEF Pages
  <2>2. PlaceOK(m, ReplacedPlace(ReplaceFixedRangeWithReserved(m, a, n, fault), a, n), n)
    BY <2>1, ReplacedPlaceOK
  <2> QED BY <1>3, <1>5, <2>2 DEF PlaceIn
<1>6. CASE ~(reserved /\ (fixed \/ hint)) /\ ~(~reserved /\ fixed)
  <2>1. PlaceOK(m, FreePlace(m, n, FindGuestFreeRange(m, a, n)), n)
    BY FreePlaceOK
  <2> QED BY <1>3, <1>6, <2>1 DEF PlaceIn
<1> QED BY <1>4, <1>5, <1>6

\* PutBack leaves a memory in step.
LEMMA PutBackOK ==
    ASSUME NEW o, NEW n \in Nat \ {0}, NEW pl, PlaceOK(o, pl, n), pl.at # 0
    PROVE  Fine(PutBack(pl, n))
<1>1. PICK m : m = pl.mem
  OBVIOUS
<1>2. /\ MemoryOK(m) /\ m \in Memory /\ RangesOK(m.ranges) /\ m.status # "Broken"
      /\ pl.at \in Pages /\ pl.at + n - 1 <= MaxPage /\ pl.name \in AllNames
      /\ Span(pl.at, n) \cap CellsOf(m.ranges) = {}
  BY <1>1 DEF PlaceOK, Fine, MemoryOK
<1>3. ASSUME NEW R, SameCommitted(m.ranges, R) PROVE Fine([m EXCEPT !.ranges = R])
  <2>1. MemoryOK([m EXCEPT !.ranges = R]) /\ SameOwners(m, [m EXCEPT !.ranges = R])
    BY <1>2, <1>3, RerangedHere
  <2> QED BY <1>2, <2>1 DEF Fine, SameOwners
<1>4. CASE pl.name = ""
  <2>1. PutBack(pl, n) = [m EXCEPT !.ranges = m.ranges]
    BY <1>1, <1>4 DEF PutBack
  <2> QED BY <1>2, <1>3, <2>1, SameSelf
<1>5. CASE pl.name # ""
  <2> DEFINE v == Reservation(pl.at, n, pl.name)
             R == AddRange(m.ranges, v)
  <2>1. PutBack(pl, n) = [m EXCEPT !.ranges = R]
    BY <1>1, <1>5 DEF PutBack
  <2>2. IsRange(v) /\ Cells(v) = Span(pl.at, n) /\ v.type = "Reserved"
        /\ \A T \in SUBSET CommittedTypes : v.type \notin T
    BY <1>2, ReservationIs
  <2> HIDE DEF v
  <2>3. CellsOf(m.ranges) \cap Cells(v) = {}
    BY <1>2, <2>2
  <2>4. /\ RangesOK(R)
        /\ \A T : PagesOf(R, T) = PagesOf(m.ranges, T) \cup PagesOf({v}, T)
        /\ \A x \in R : x.type = "Direct" => x \in m.ranges \/ x = v
    BY <1>2, <2>2, <2>3, AddFacts
  <2> HIDE DEF R
  <2>5. \A T \in SUBSET CommittedTypes : PagesOf({v}, T) = {}
    BY <2>2, SingleFacts
  <2>6. SameCommitted(m.ranges, R)
    BY <2>2, <2>4, <2>5 DEF SameCommitted
  <2> QED BY <1>3, <2>1, <2>6
<1> QED BY <1>4, <1>5

\* The elements of F below x.
Under(F, x) == {y \in F : y < x}

\* Of a finite set of naturals with more than k elements, one has k below it.
LEMMA NthExists ==
    ASSUME NEW bound \in Nat, NEW F \in SUBSET (0..bound), NEW k \in Nat, k < Cardinality(F)
    PROVE  \E x \in F : Cardinality(Under(F, x)) = k
<1> DEFINE Below(x) == {y \in F : y < x}
           A == {x \in F : Cardinality(Below(x)) >= k}
<1>1. IsFiniteSet(F) /\ F \in SUBSET Nat /\ \A x \in F : x <= bound
  <2>1. IsFiniteSet(0..bound) /\ F \subseteq 0..bound
    BY FS_Interval
  <2>2. IsFiniteSet(F)
    BY <2>1, FS_Subset
  <2>3. \A x \in F : x \in Nat /\ x <= bound
    OBVIOUS
  <2> QED BY <2>2, <2>3
<1>2. \A x \in F : IsFiniteSet(Below(x)) /\ Cardinality(Below(x)) \in Nat
  <2> SUFFICES ASSUME NEW x \in F PROVE IsFiniteSet(Below(x)) /\ Cardinality(Below(x)) \in Nat
    OBVIOUS
  <2>1. Below(x) \subseteq F
    OBVIOUS
  <2>2. IsFiniteSet(Below(x))
    BY <1>1, <2>1, FS_Subset
  <2> QED BY <2>2, FS_CardinalityType
<1>3. F # {}
  <2>1. Cardinality({}) = 0
    BY FS_EmptySet
  <2> QED BY <2>1
<1>4. A # {}
  <2>1. PICK x \in F : \A y \in F : y <= x
    BY <1>1, <1>3, Largest
  <2>2. Below(x) = F \ {x}
    <3>1. \A y \in F : y < x <=> y # x
      BY <1>1, <2>1
    <3> QED BY <3>1
  <2>3. Cardinality(F \ {x}) = Cardinality(F) - 1 /\ Cardinality(F) \in Nat
    BY <1>1, <2>1, FS_RemoveElement, FS_CardinalityType
  <2>4. Cardinality(Below(x)) >= k
    BY <2>2, <2>3
  <2> QED BY <2>1, <2>4
<1>5. A \in SUBSET Nat
  BY <1>1
<1>6. PICK x \in A : \A y \in A : x <= y
  BY <1>4, <1>5, Smallest
<1>7. x \in F /\ Cardinality(Below(x)) >= k
  BY <1>6
<1> SUFFICES ASSUME Cardinality(Below(x)) # k PROVE FALSE
  BY <1>7 DEF Under
<1>8. Cardinality(Below(x)) > k /\ Below(x) # {}
  <2>1. Cardinality(Below(x)) \in Nat
    BY <1>2, <1>7
  <2>2. Cardinality(Below(x)) > k
    BY <1>7, <2>1
  <2>3. Cardinality({}) = 0
    BY FS_EmptySet
  <2> HIDE DEF Below
  <2>4. Below(x) # {}
    BY <2>2, <2>3
  <2> QED BY <2>2, <2>4
<1>9. PICK y \in Below(x) : \A z \in Below(x) : z <= y
  <2>1. Below(x) \in SUBSET Nat /\ \A z \in Below(x) : z <= bound
    BY <1>1
  <2> HIDE DEF Below
  <2> QED BY <1>8, <2>1, Largest
<1>10. Below(y) = Below(x) \ {y}
  <2>1. y \in F /\ y < x /\ x \in Nat /\ y \in Nat
    BY <1>1, <1>7, <1>9
  <2>2. ASSUME NEW z \in F PROVE z < y <=> z < x /\ z # y
    <3>1. z \in Nat
      BY <1>1
    <3>2. z < x => z <= y
      BY <1>9
    <3> QED BY <2>1, <3>1, <3>2
  <2> QED BY <2>2
<1>11. Cardinality(Below(x) \ {y}) = Cardinality(Below(x)) - 1 /\ Cardinality(Below(x)) \in Nat
  BY <1>2, <1>7, <1>9, FS_RemoveElement
<1>12. Cardinality(Below(y)) >= k
  BY <1>8, <1>10, <1>11
<1>13. y \in A /\ y < x
  BY <1>9, <1>12
<1> QED BY <1>1, <1>6, <1>13

\* An offset of F behind each page of S, no two the same.
Each(g, S, F) == g \in [S -> F] /\ \A p, q \in S : g[p] = g[q] => p = q

\* The lowest offsets, one behind each page.
LEMMA LowestFacts ==
    ASSUME NEW bound \in Nat, NEW F \in SUBSET (0..bound), NEW a \in Nat, NEW n \in Nat,
           n <= Cardinality(F)
    PROVE  Each(Lowest(F, a, n), Span(a, n), F)
<1> DEFINE f == Lowest(F, a, n)
<1>1. Cardinality(F) \in Nat
  <2>1. IsFiniteSet(0..bound) /\ F \subseteq 0..bound
    BY FS_Interval
  <2>2. IsFiniteSet(F)
    BY <2>1, FS_Subset
  <2> QED BY <2>2, FS_CardinalityType
<1>2. ASSUME NEW p \in Span(a, n)
      PROVE  Behind(F, a, p) \in F /\ Cardinality({y \in F : y < Behind(F, a, p)}) = p - a
  <2>1. p - a \in Nat /\ p - a < Cardinality(F)
    BY <1>1 DEF Span
  <2>2. PICK k : k = p - a
    OBVIOUS
  <2>3. \E x \in F : Cardinality(Under(F, x)) = k
    <3>1. k \in Nat /\ k < Cardinality(F)
      BY <2>1, <2>2
    <3> QED BY <3>1, NthExists
  <2> QED BY <2>2, <2>3 DEF Behind, Under
<1>3. f = [p \in Span(a, n) |-> Behind(F, a, p)]
  BY DEF Lowest
<1> HIDE DEF f
<1>4. f \in [Span(a, n) -> F]
  BY <1>2, <1>3
<1>5. ASSUME NEW p \in Span(a, n), NEW q \in Span(a, n), f[p] = f[q] PROVE p = q
  <2>1. Behind(F, a, p) = Behind(F, a, q)
    BY <1>3, <1>5
  <2>2. p - a = q - a
    BY <1>2, <2>1
  <2> QED BY <2>2 DEF Span
<1> QED BY <1>4, <1>5 DEF f, Each

\* h is f on its own pages and g on those of S.
Extended(h, f, g, S) ==
    /\ DOMAIN h = DOMAIN f \cup S /\ \A p \in DOMAIN f : h[p] = f[p]
    /\ \A p \in S : h[p] = g[p]

\* Offsets that go behind new pages.
LEMMA FillsGrow ==
    ASSUME NEW f, NEW free, NEW all, Fills(f, free, all), NEW S, S \cap DOMAIN f = {},
           NEW g, Each(g, S, free)
    PROVE  /\ Fills(Onto(g, f), free \ Taken(g), all)
           /\ Extended(Onto(g, f), f, g, S)
<1>1. PICK h : h = Onto(g, f)
  OBVIOUS
<1>0. g \in [S -> free] /\ \A p, q \in S : g[p] = g[q] => p = q
  BY DEF Each
<1>2. /\ DOMAIN h = DOMAIN f \cup S /\ \A p \in DOMAIN f : h[p] = f[p]
      /\ \A p \in S : h[p] = g[p]
  BY <1>0, <1>1 DEF Onto
<1>3. /\ \A y : y \in Taken(f) <=> \E p \in DOMAIN f : y = f[p]
      /\ \A y : y \in Taken(g) <=> \E p \in S : y = g[p]
      /\ \A y : y \in Taken(h) <=> \E p \in DOMAIN h : y = h[p]
  BY <1>0 DEF Taken, Images
<1>4. Taken(h) = Taken(f) \cup Taken(g)
  <2>1. \A y : y \in Taken(h) <=> y \in Taken(f) \/ y \in Taken(g)
    BY <1>2, <1>3
  <2> QED BY <2>1
<1>5. Taken(g) \subseteq free
  BY <1>0, <1>3
<1>6. /\ \A p, q \in DOMAIN f : f[p] = f[q] => p = q
      /\ Taken(f) \cup free = all /\ Taken(f) \cap free = {}
  BY DEF Fills
<1>7. /\ Taken(h) \cup (free \ Taken(g)) = all /\ Taken(h) \cap (free \ Taken(g)) = {}
  BY <1>4, <1>5, <1>6
<1>8. ASSUME NEW p \in DOMAIN h, NEW q \in DOMAIN h, h[p] = h[q] PROVE p = q
  <2>1. CASE p \in DOMAIN f /\ q \in DOMAIN f
    BY <1>2, <1>6, <1>8, <2>1
  <2>2. CASE p \in S /\ q \in S
    BY <1>0, <1>2, <1>8, <2>2
  <2>3. CASE p \in DOMAIN f /\ q \in S
    <3>1. h[p] \in Taken(f) /\ h[q] \in free
      BY <1>0, <1>2, <1>3, <2>3
    <3> QED BY <1>6, <1>8, <3>1
  <2>4. CASE p \in S /\ q \in DOMAIN f
    <3>1. h[q] \in Taken(f) /\ h[p] \in free
      BY <1>0, <1>2, <1>3, <2>4
    <3> QED BY <1>6, <1>8, <3>1
  <2> QED BY <1>2, <2>1, <2>2, <2>3, <2>4
<1> QED BY <1>1, <1>2, <1>7, <1>8 DEF Fills, Extended

\* The memory m2 is m with a range of its own for free pages.
Grown(m, m2, r) ==
    /\ m2.ranges = AddRange(m.ranges, r)
    /\ m2.gpu = m.gpu \cup Cells(r) /\ m2.torn = m.torn
    /\ m2.free = m.free /\ m2.allocated = m.allocated /\ m2.expansions = m.expansions
    /\ \A p \in Pages : p \notin Cells(r) => m2.host[p] = m.host[p]

\* What the owner of the range has for it.
MapsGrown(m, m2, r) ==
    IF r.type = "Direct"
    THEN \E b : /\ IsRange(b) /\ Backs(b, r) /\ Cells(b) = Cells(r) /\ b.type = "Direct"
                /\ m2.maps = m.maps \cup {b}
                /\ Span(b.offset, b.size) \subseteq m.allocated
                /\ \A p \in Cells(r) : m2.host[p] = Base(b) + p
    ELSE m2.maps = m.maps

\* FlexibleMemory has r if it is flexible.
FlexGrown(m, m2, r) ==
    /\ DOMAIN m2.flex = DOMAIN m.flex \cup (IF r.type = "Flexible" THEN Cells(r) ELSE {})
    /\ \A p \in DOMAIN m.flex : m2.flex[p] = m.flex[p]
    /\ r.type = "Flexible" => \A p \in Cells(r) : m2.host[p] = m2.flex[p]
    /\ Fills(m2.flex, m2.flexFree, Flexible)

\* PooledMemory has r if it is pooled.
PoolGrown(m, m2, r) ==
    /\ DOMAIN m2.pool = DOMAIN m.pool \cup (IF r.type = "Pooled" THEN Cells(r) ELSE {})
    /\ \A p \in DOMAIN m.pool : m2.pool[p] = m.pool[p]
    /\ r.type = "Pooled" => \A p \in Cells(r) : m2.host[p] = m2.pool[p]
    /\ Fills(m2.pool, m2.poolFree, UNION m.expansions)
    /\ m2.committed = Cardinality(DOMAIN m2.pool)

\* A committed range that is added with what is behind it leaves the records
\* in agreement.
LEMMA GrowOK ==
    ASSUME NEW m, MemoryOK(m), NEW r, IsRange(r), r.type \in CommittedTypes,
           CellsOf(m.ranges) \cap Cells(r) = {}, NEW m2 \in Memory, Grown(m, m2, r),
           MapsGrown(m, m2, r), FlexGrown(m, m2, r), PoolGrown(m, m2, r),
           r.type \in PrivateTypes => \A p \in Cells(r) : m2.host[p] = Private
    PROVE  MemoryOK(m2)
<1>1. /\ RangesOK(m.ranges) /\ MapsOK(m.ranges, m.maps) /\ HostOK(m) /\ BackingOK(m) /\ GpuOK(m)
      /\ DOMAIN m.flex = PagesOf(m.ranges, {"Flexible"})
      /\ DOMAIN m.pool = PagesOf(m.ranges, {"Pooled"})
  BY DEF MemoryOK
<1>2. /\ RangesOK(m2.ranges)
      /\ \A T : PagesOf(m2.ranges, T) = PagesOf(m.ranges, T) \cup PagesOf({r}, T)
      /\ \A x \in m2.ranges : x.type = "Direct" => x \in m.ranges \/ x = r
  BY <1>1, AddFacts DEF Grown
<1>3. \A T : PagesOf({r}, T) = IF r.type \in T THEN Cells(r) ELSE {}
  BY SingleFacts
<1>4. /\ Cells(r) \subseteq Pages
      /\ \A T : PagesOf(m.ranges, T) \cap Cells(r) = {} /\ PagesOf(m.ranges, T) \subseteq Pages
  <2>1. AllRanges(m.ranges)
    BY <1>1 DEF RangesOK
  <2>2. CellsOf(m.ranges) \subseteq Pages /\ \A T : PagesOf(m.ranges, T) \subseteq CellsOf(m.ranges)
    BY <2>1, RangesTyped
  <2>3. Cells(r) \subseteq Pages
    BY CellsIn
  <2> QED BY <2>2, <2>3
<1>5. MapsOK(m2.ranges, m2.maps)
  <2>1. CASE r.type = "Direct"
    <3>1. PICK b : /\ IsRange(b) /\ Backs(b, r) /\ Cells(b) = Cells(r) /\ b.type = "Direct"
                   /\ m2.maps = m.maps \cup {b}
      BY <2>1 DEF MapsGrown
    <3>2. AllRanges(m.maps) /\ Disjoint(m.maps) /\ (\A c \in m.maps : c.type = "Direct")
          /\ CellsOf(m.maps) = PagesOf(m.ranges, {"Direct"})
      BY <1>1 DEF MapsOK
    <3>3. CellsOf(m.maps) \cap Cells(b) = {}
      BY <1>4, <3>1, <3>2
    <3>4. AllRanges(m2.maps) /\ \A c \in m2.maps : c.type = "Direct"
      BY <3>1, <3>2 DEF AllRanges
    <3>5. Disjoint(m2.maps)
      <4>1. \A c \in m.maps, p \in Pages : p \in Cells(c) => p \notin Cells(b)
        BY <3>3 DEF CellsOf
      <4> QED BY <3>1, <3>2, <4>1 DEF Disjoint
    <3>6. CellsOf(m2.maps) = PagesOf(m2.ranges, {"Direct"})
      <4>1. CellsOf(m2.maps) = CellsOf(m.maps) \cup Cells(b)
        BY <3>1 DEF CellsOf
      <4>2. PagesOf(m2.ranges, {"Direct"}) = PagesOf(m.ranges, {"Direct"}) \cup Cells(r)
        BY <1>2, <1>3, <2>1
      <4> QED BY <3>1, <3>2, <4>1, <4>2
    <3>7. \A x \in m2.ranges : x.type = "Direct" => \E c \in m2.maps : Backs(c, x)
      BY <1>1, <1>2, <3>1 DEF MapsOK
    <3> QED BY <3>4, <3>5, <3>6, <3>7 DEF MapsOK
  <2>2. CASE r.type # "Direct"
    <3>1. m2.maps = m.maps /\ PagesOf(m2.ranges, {"Direct"}) = PagesOf(m.ranges, {"Direct"})
      BY <1>2, <1>3, <2>2 DEF MapsGrown
    <3>2. \A x \in m2.ranges : x.type = "Direct" => x \in m.ranges
      BY <1>2, <2>2
    <3> QED BY <1>1, <3>1, <3>2 DEF MapsOK
  <2> QED BY <2>1, <2>2
<1>6. DOMAIN m2.flex = PagesOf(m2.ranges, {"Flexible"}) /\ DOMAIN m2.pool = PagesOf(m2.ranges, {"Pooled"})
  BY <1>1, <1>2, <1>3 DEF FlexGrown, PoolGrown
<1>7. \A p \in Pages : p \notin Cells(r) => m2.host[p] = m.host[p]
  BY DEF Grown
<1>8. HostOK(m2)
  <2>1. ASSUME NEW b \in m2.maps, NEW p \in Cells(b) PROVE m2.host[p] = Base(b) + p
    <3>1. CASE b \in m.maps
      <4>1. p \in PagesOf(m.ranges, {"Direct"})
        BY <1>1, <3>1 DEF MapsOK, CellsOf
      <4>2. p \in Pages /\ p \notin Cells(r)
        BY <1>4, <4>1
      <4> QED BY <1>1, <1>7, <3>1, <4>2 DEF HostOK
    <3>2. CASE b \notin m.maps
      BY <2>1, <3>2 DEF MapsGrown
    <3> QED BY <3>1, <3>2
  <2>2. ASSUME NEW p \in DOMAIN m2.flex PROVE m2.host[p] = m2.flex[p]
    <3>1. CASE p \in DOMAIN m.flex
      <4>1. p \in Pages /\ p \notin Cells(r)
        BY <1>1, <1>4, <3>1
      <4> QED BY <1>1, <1>7, <3>1, <4>1 DEF HostOK, FlexGrown
    <3>2. CASE p \notin DOMAIN m.flex
      BY <2>2, <3>2 DEF FlexGrown
    <3> QED BY <3>1, <3>2
  <2>3. ASSUME NEW p \in DOMAIN m2.pool PROVE m2.host[p] = m2.pool[p]
    <3>1. CASE p \in DOMAIN m.pool
      <4>1. p \in Pages /\ p \notin Cells(r)
        BY <1>1, <1>4, <3>1
      <4> QED BY <1>1, <1>7, <3>1, <4>1 DEF HostOK, PoolGrown
    <3>2. CASE p \notin DOMAIN m.pool
      BY <2>3, <3>2 DEF PoolGrown
    <3> QED BY <3>1, <3>2
  <2>4. ASSUME NEW p \in PagesOf(m2.ranges, PrivateTypes) PROVE m2.host[p] = Private
    <3>1. CASE p \in PagesOf(m.ranges, PrivateTypes)
      <4>1. p \in Pages /\ p \notin Cells(r)
        BY <1>4, <3>1
      <4> QED BY <1>1, <1>7, <3>1, <4>1 DEF HostOK
    <3>2. CASE p \notin PagesOf(m.ranges, PrivateTypes)
      <4>1. p \in PagesOf({r}, PrivateTypes)
        BY <1>2, <2>4, <3>2
      <4>2. r.type \in PrivateTypes /\ p \in Cells(r)
        BY <1>3, <4>1
      <4> QED BY <4>2
    <3> QED BY <3>1, <3>2
  <2>5. ASSUME NEW p \in Pages \ PagesOf(m2.ranges, CommittedTypes) PROVE m2.host[p] = Unmapped
    <3>1. PagesOf(m2.ranges, CommittedTypes) = PagesOf(m.ranges, CommittedTypes) \cup Cells(r)
      BY <1>2, <1>3
    <3>2. p \in Pages \ PagesOf(m.ranges, CommittedTypes) /\ p \notin Cells(r)
      BY <2>5, <3>1
    <3> QED BY <1>1, <1>7, <3>2 DEF HostOK
  <2> QED BY <2>1, <2>2, <2>3, <2>4, <2>5 DEF HostOK
<1>9. BackingOK(m2)
  <2>1. /\ m2.free \cup m2.allocated \cup UNION m2.expansions = Direct
        /\ m2.free \cap m2.allocated = {}
        /\ (m2.free \cup m2.allocated) \cap (UNION m2.expansions) = {}
        /\ \A S, T \in m2.expansions : S # T => S \cap T = {}
    BY <1>1 DEF BackingOK, Grown
  <2>2. Fills(m2.flex, m2.flexFree, Flexible)
    BY DEF FlexGrown
  <2>3. Fills(m2.pool, m2.poolFree, UNION m2.expansions) /\ m2.committed = Cardinality(DOMAIN m2.pool)
    BY DEF PoolGrown, Grown
  <2>4. \A b \in m2.maps : Span(b.offset, b.size) \subseteq m2.allocated
    BY <1>1 DEF BackingOK, MapsGrown, Grown
  <2> QED BY <2>1, <2>2, <2>3, <2>4 DEF BackingOK
<1>10. GpuOK(m2)
  <2>1. PagesOf(m2.ranges, CommittedTypes) = PagesOf(m.ranges, CommittedTypes) \cup Cells(r)
    BY <1>2, <1>3
  <2> QED BY <1>1, <2>1 DEF GpuOK, Grown
<1> QED BY <1>2, <1>5, <1>6, <1>8, <1>9, <1>10 DEF MemoryOK

\* A new range is a range.
LEMMA NewRangeIs ==
    ASSUME NEW a \in Pages, NEW n \in Nat \ {0}, a + n - 1 <= MaxPage, NEW t \in Types,
           NEW x \in Int, NEW prot \in Prots \cup {"None"}, NEW v \in AllNames
    PROVE  LET r == NewRange(a, n, t, x, prot, v)
           IN  /\ IsRange(r) /\ Cells(r) = Span(a, n) /\ r.type = t /\ r.prot = prot
               /\ r.start = a /\ r.size = n /\ r.offset = x /\ r.name = v
<1>1. a \in Nat /\ MaxPage \in Nat
  BY MemoryAssumption DEF Pages
<1> QED BY <1>1 DEF NewRange, IsRange, Range0, Cells, End

\* What a memory is made of.
LEMMA MemoryTypes ==
    ASSUME NEW m, MemoryOK(m)
    PROVE  /\ m \in Memory /\ RangesOK(m.ranges) /\ m.ranges \in SUBSET Range0
           /\ m.maps \in SUBSET Range0 /\ m.host \in [Pages -> Int] /\ m.gpu \in SUBSET Pages
           /\ DOMAIN m.flex = PagesOf(m.ranges, {"Flexible"})
           /\ DOMAIN m.pool = PagesOf(m.ranges, {"Pooled"})
           /\ CellsOf(m.maps) = PagesOf(m.ranges, {"Direct"})
           /\ Fills(m.flex, m.flexFree, Flexible)
           /\ Fills(m.pool, m.poolFree, UNION m.expansions)
           /\ m.committed = Cardinality(DOMAIN m.pool)
           /\ m.flex \in Partial(Flexible) /\ m.pool \in Partial(Direct)
           /\ m.flexFree \in SUBSET Flexible /\ m.poolFree \in SUBSET Direct
           /\ m.status \in {"Up", "Ended", "Escaped", "Broken"}
<1>1. m \in Memory
  BY DEF MemoryOK
<1>2. /\ m.ranges \in SUBSET Range0
      /\ m.maps \in SUBSET Range0 /\ m.host \in [Pages -> Int] /\ m.gpu \in SUBSET Pages
      /\ m.flex \in Partial(Flexible) /\ m.pool \in Partial(Direct)
      /\ m.flexFree \in SUBSET Flexible /\ m.poolFree \in SUBSET Direct
      /\ m.status \in {"Up", "Ended", "Escaped", "Broken"}
  BY <1>1 DEF Memory
<1>3. /\ RangesOK(m.ranges)
      /\ DOMAIN m.flex = PagesOf(m.ranges, {"Flexible"})
      /\ DOMAIN m.pool = PagesOf(m.ranges, {"Pooled"})
      /\ CellsOf(m.maps) = PagesOf(m.ranges, {"Direct"})
      /\ Fills(m.flex, m.flexFree, Flexible)
      /\ Fills(m.pool, m.poolFree, UNION m.expansions)
      /\ m.committed = Cardinality(DOMAIN m.pool)
  BY DEF MemoryOK, MapsOK, BackingOK
<1> QED BY <1>1, <1>2, <1>3

\* What the owners keep when a range is not theirs.
LEMMA OwnersKept ==
    ASSUME NEW m, MemoryOK(m), NEW m2, NEW r
    PROVE  /\ r.type # "Direct" /\ m2.maps = m.maps => MapsGrown(m, m2, r)
           /\ r.type # "Flexible" /\ m2.flex = m.flex /\ m2.flexFree = m.flexFree
              => FlexGrown(m, m2, r)
           /\ r.type # "Pooled" /\ m2.pool = m.pool /\ m2.poolFree = m.poolFree
              /\ m2.committed = m.committed => PoolGrown(m, m2, r)
<1>1. /\ Fills(m.flex, m.flexFree, Flexible) /\ Fills(m.pool, m.poolFree, UNION m.expansions)
      /\ m.committed = Cardinality(DOMAIN m.pool)
  BY MemoryTypes
<1> QED BY <1>1 DEF MapsGrown, FlexGrown, PoolGrown

\* The host and the ranges of a memory that gets a range, and the GPU's pages.
LEMMA GrowFields ==
    ASSUME NEW m, MemoryOK(m), NEW r, IsRange(r), CellsOf(m.ranges) \cap Cells(r) = {},
           NEW f \in [Cells(r) -> Int]
    PROVE  LET u == SetHost(m, f)
               z == MapGpuRange([u EXCEPT !.ranges = AddRange(@, r)], Cells(r))
           IN  /\ z \in Memory /\ Grown(m, z, r) /\ \A p \in Cells(r) : z.host[p] = f[p]
               /\ z.maps = m.maps /\ z.flex = m.flex /\ z.flexFree = m.flexFree
               /\ z.pool = m.pool /\ z.poolFree = m.poolFree /\ z.committed = m.committed
               /\ z.status = m.status /\ z.ranges = AddRange(m.ranges, r)
               /\ z.host = Onto(f, m.host) /\ z.gpu = m.gpu \cup Cells(r)
<1> DEFINE h == Onto(f, m.host)
           R == AddRange(m.ranges, r)
           g == m.gpu \cup Cells(r)
           u == SetHost(m, f)
           w == [u EXCEPT !.ranges = AddRange(@, r)]
           z == MapGpuRange(w, Cells(r))
<1>1. /\ m \in Memory /\ RangesOK(m.ranges) /\ m.host \in [Pages -> Int] /\ m.gpu \in SUBSET Pages
  BY MemoryTypes
<1>2. Cells(r) \in SUBSET Pages
  BY CellsIn
<1>3. h \in [Pages -> Int] /\ \A p \in Pages : /\ p \in Cells(r) => h[p] = f[p]
                                               /\ p \notin Cells(r) => h[p] = m.host[p]
  BY <1>1, <1>2, HostFacts
<1>4. R \in SUBSET Range0
  BY <1>1, AddFacts, RangesTyped DEF RangesOK
<1>5. g \in SUBSET Pages
  BY <1>1, <1>2
<1>6. u = [m EXCEPT !.host = h] /\ u.ranges = m.ranges
  BY <1>1 DEF SetHost, Memory
<1> HIDE DEF u, h
<1>7. w = [u EXCEPT !.ranges = R]
  BY <1>6
<1> HIDE DEF w, R
<1>8. /\ w \in Memory /\ w.ranges = R /\ w.host = h /\ w.maps = m.maps /\ w.flex = m.flex
      /\ w.flexFree = m.flexFree /\ w.pool = m.pool /\ w.poolFree = m.poolFree
      /\ w.committed = m.committed /\ w.status = m.status /\ w.gpu = m.gpu /\ w.torn = m.torn
      /\ w.free = m.free /\ w.allocated = m.allocated /\ w.expansions = m.expansions
  BY <1>1, <1>3, <1>4, <1>6, <1>7 DEF Memory
<1>9. z = [w EXCEPT !.gpu = g]
  BY <1>8 DEF MapGpuRange
<1> HIDE DEF z, g
<1>10. /\ z \in Memory /\ z.ranges = R /\ z.host = h /\ z.maps = m.maps /\ z.flex = m.flex
       /\ z.flexFree = m.flexFree /\ z.pool = m.pool /\ z.poolFree = m.poolFree
       /\ z.committed = m.committed /\ z.status = m.status /\ z.gpu = g /\ z.torn = m.torn
       /\ z.free = m.free /\ z.allocated = m.allocated /\ z.expansions = m.expansions
  BY <1>5, <1>8, <1>9 DEF Memory
<1>11. Grown(m, z, r)
  BY <1>3, <1>10 DEF Grown, R, g
<1>12. ASSUME NEW p \in Cells(r) PROVE z.host[p] = f[p]
  <2>1. p \in Pages
    BY <1>2
  <2>2. h[p] = f[p]
    BY <1>3, <1>12, <2>1
  <2>3. z.host = h
    BY <1>10
  <2> QED BY <2>2, <2>3
<1> QED BY <1>10, <1>11, <1>12 DEF z, w, u, R, g, h

\* A new mapping of direct memory.
LEMMA DirectAtOK ==
    ASSUME NEW o, NEW n \in Nat \ {0}, NEW pl, PlaceOK(o, pl, n), NEW x \in Int,
           Span(x, n) \subseteq o.allocated, NEW fault
    PROVE  Fine(DirectAt(pl, n, x, fault))
<1>1. PICK m : m = pl.mem
  OBVIOUS
<1>2. MemoryOK(m) /\ Fine(m) /\ m.status # "Broken" /\ m \in Memory
      /\ m.maps \in SUBSET Range0 /\ Span(x, n) \subseteq m.allocated
  BY <1>1, MemoryTypes DEF PlaceOK, Fine
<1>3. CASE pl.at = 0
  <2>1. DirectAt(pl, n, x, fault) = m
    BY <1>1, <1>3 DEF DirectAt
  <2> QED BY <1>2, <2>1
<1>4. CASE pl.at # 0 /\ Refused(pl, n, fault)
  <2>1. DirectAt(pl, n, x, fault) = PutBack(pl, n)
    BY <1>4 DEF DirectAt
  <2> QED BY <1>4, <2>1, PutBackOK
<1>5. CASE pl.at # 0 /\ ~Refused(pl, n, fault)
  <2>1. PICK a : a = pl.at
    OBVIOUS
  <2>2. a \in Pages /\ a + n - 1 <= MaxPage /\ Span(a, n) \cap CellsOf(m.ranges) = {}
    BY <1>1, <1>5, <2>1 DEF PlaceOK
  <2>3. PICK e : e = ""
    OBVIOUS
  <2> DEFINE b == NewRange(a, n, "Direct", x, "RW", e)
             r == [b EXCEPT !.name = "guest"]
             f == [p \in Span(a, n) |-> x + p - a]
             u == SetHost(m, f)
             v == [u EXCEPT !.ranges = AddRange(@, r)]
             w == MapGpuRange(v, Cells(r))
             z == [w EXCEPT !.maps = m.maps \cup {b}]
  <2>4. /\ IsRange(b) /\ Cells(b) = Span(a, n) /\ b.type = "Direct" /\ b.prot = "RW"
        /\ b.start = a /\ b.size = n /\ b.offset = x
    <3>1. "Direct" \in Types /\ "RW" \in Prots \cup {"None"}
      BY MemoryAssumption DEF Types, CommittedTypes, BackedTypes
    <3>2. e \in AllNames
      BY <2>3 DEF AllNames
    <3> QED BY <2>2, <3>1, <3>2, NewRangeIs
  <2> HIDE DEF b
  <2>5. IsRange(r) /\ Cells(r) = Span(a, n) /\ r.type = "Direct" /\ r.prot = "RW" /\ Base(r) = Base(b)
    <3>1. "guest" \in AllNames
      BY DEF AllNames
    <3> QED BY <2>4, <3>1, Renamed
  <2> HIDE DEF r
  <2>6. f \in [Cells(r) -> Int] /\ \A p \in Cells(r) : f[p] = Base(b) + p
    <3>1. a \in Int
      BY <2>2, MemoryAssumption DEF Pages
    <3>2. \A p \in Span(a, n) : p \in Int
      BY DEF Span
    <3> QED BY <2>4, <2>5, <3>1, <3>2 DEF Base
  <2> HIDE DEF f
  <2>7. CellsOf(m.ranges) \cap Cells(r) = {}
    BY <2>2, <2>5
  <2>8. /\ w \in Memory /\ Grown(m, w, r) /\ \A p \in Cells(r) : w.host[p] = f[p]
        /\ w.maps = m.maps /\ w.flex = m.flex /\ w.flexFree = m.flexFree
        /\ w.pool = m.pool /\ w.poolFree = m.poolFree /\ w.committed = m.committed
        /\ w.status = m.status
    BY <1>2, <2>5, <2>6, <2>7, GrowFields
  <2>9. DirectAt(pl, n, x, fault) = z
    <3>1. u = [m EXCEPT !.host = Onto(f, m.host)] /\ m \in Memory
      BY <1>2 DEF SetHost
    <3>2. MapGpuRange([u EXCEPT !.maps = @ \cup {b}, !.ranges = AddRange(@, r)], Span(a, n)) = z
      <4>1. Onto(f, m.host) \in [Pages -> Int]
        <5>1. Cells(r) \in SUBSET Pages /\ m.host \in [Pages -> Int]
          BY <1>2, <2>5, CellsIn, MemoryTypes
        <5> QED BY <2>6, <5>1, HostFacts
      <4>2. u \in Memory /\ u.maps = m.maps
        BY <3>1, <4>1 DEF Memory
      <4> HIDE DEF u
      <4> QED BY <2>5, <4>2 DEF MapGpuRange, Memory
    <3> QED BY <1>1, <1>5, <2>1, <2>3, <3>2 DEF DirectAt, u, f, r, b
  <2> HIDE DEF w
  <2>10. m.maps \cup {b} \in SUBSET Range0
    BY <1>2, <2>4 DEF IsRange
  <2>11. /\ z \in Memory /\ Grown(m, z, r) /\ \A p \in Cells(r) : z.host[p] = f[p]
         /\ z.maps = m.maps \cup {b} /\ z.flex = m.flex /\ z.flexFree = m.flexFree
         /\ z.pool = m.pool /\ z.poolFree = m.poolFree /\ z.committed = m.committed
         /\ z.status = m.status
    BY <2>8, <2>10 DEF Memory, Grown
  <2> HIDE DEF z
  <2>12. MapsGrown(m, z, r)
    <3>1. Span(b.offset, b.size) \subseteq m.allocated
      BY <1>2, <2>4
    <3>2. Backs(b, r)
      BY <2>4, <2>5 DEF Backs
    <3> QED BY <2>4, <2>5, <2>6, <2>11, <3>1, <3>2 DEF MapsGrown
  <2>13. FlexGrown(m, z, r) /\ PoolGrown(m, z, r)
    BY <1>2, <2>5, <2>11, OwnersKept
  <2>14. r.type \in CommittedTypes /\ r.type \notin PrivateTypes
    BY <2>5 DEF CommittedTypes, PrivateTypes, BackedTypes
  <2>15. MemoryOK(z)
    BY <1>2, <2>5, <2>7, <2>11, <2>12, <2>13, <2>14, GrowOK
  <2> QED BY <1>2, <2>9, <2>11, <2>15 DEF Fine
<1> QED BY <1>3, <1>4, <1>5

\* Offsets behind new pages.
LEMMA LowestOK ==
    ASSUME NEW F, F \subseteq Flexible \/ F \subseteq Direct, NEW a \in Pages, NEW n \in Nat,
           n <= Cardinality(F)
    PROVE  Each(Lowest(F, a, n), Span(a, n), F) /\ F \subseteq Int
<1>1. PICK bound \in Nat : F \in SUBSET (0..bound)
  <2>1. DirectPages \in Nat /\ FlexiblePages \in Nat
    BY MemoryAssumption
  <2>2. DirectPages + FlexiblePages \in Nat /\ F \subseteq 0..(DirectPages + FlexiblePages)
    BY <2>1 DEF Flexible, Direct
  <2> QED BY <2>2
<1>2. a \in Nat
  BY MemoryAssumption DEF Pages
<1>3. Each(Lowest(F, a, n), Span(a, n), F)
  BY <1>1, <1>2, LowestFacts
<1> QED BY <1>1, <1>3

\* A function that is changed on some pages.
LEMMA OntoPartial ==
    ASSUME NEW S, NEW f \in Partial(S), NEW D \in SUBSET Pages, NEW g \in [D -> S]
    PROVE  Onto(g, f) \in Partial(S)
<1>1. DOMAIN f \in SUBSET Pages /\ f \in [DOMAIN f -> S]
  BY PartialFacts
<1>2. Onto(g, f) \in [D \cup DOMAIN f -> S]
  BY <1>1 DEF Onto
<1> QED BY <1>1, <1>2 DEF Partial

\* A new mapping of flexible memory.
LEMMA FlexibleAtOK ==
    ASSUME NEW o, NEW n \in Nat \ {0}, NEW pl, PlaceOK(o, pl, n), Fine(o),
           n <= Cardinality(o.flexFree), NEW fault
    PROVE  Fine(FlexibleIn(pl, n, fault))
<1>1. PICK m : m = pl.mem
  OBVIOUS
<1>2. /\ MemoryOK(m) /\ Fine(m) /\ m.status # "Broken" /\ m \in Memory
      /\ m.flex \in Partial(Flexible) /\ m.flexFree \in SUBSET Flexible
      /\ DOMAIN m.flex = PagesOf(m.ranges, {"Flexible"}) /\ Fills(m.flex, m.flexFree, Flexible)
      /\ o.flexFree \subseteq m.flexFree
  BY <1>1, MemoryTypes DEF PlaceOK, Fine
<1>3. PICK g : g = Lowest(m.flexFree, pl.at, n)
  OBVIOUS
<1>4. FlexibleIn(pl, n, fault) = FlexibleAt(pl, n, g, fault)
  BY <1>1, <1>3 DEF FlexibleIn
<1>5. CASE pl.at = 0
  <2>1. FlexibleAt(pl, n, g, fault) = m
    BY <1>1, <1>5 DEF FlexibleAt
  <2> QED BY <1>2, <1>4, <2>1
<1>6. CASE pl.at # 0 /\ Refused(pl, n, fault)
  <2>1. FlexibleAt(pl, n, g, fault) = PutBack(pl, n)
    BY <1>6 DEF FlexibleAt
  <2> QED BY <1>4, <1>6, <2>1, PutBackOK
<1>7. CASE pl.at # 0 /\ ~Refused(pl, n, fault)
  <2>1. PICK a : a = pl.at
    OBVIOUS
  <2>2. a \in Pages /\ a + n - 1 <= MaxPage /\ Span(a, n) \cap CellsOf(m.ranges) = {}
    BY <1>1, <1>7, <2>1 DEF PlaceOK
  <2> DEFINE r == NewRange(a, n, "Flexible", 0, "RW", "guest")
             u == SetHost(m, g)
             v == [u EXCEPT !.ranges = AddRange(@, r)]
             w == MapGpuRange(v, Cells(r))
             z == [w EXCEPT !.flex = Onto(g, m.flex), !.flexFree = m.flexFree \ Taken(g)]
  <2>3. IsRange(r) /\ Cells(r) = Span(a, n) /\ r.type = "Flexible"
    <3>1. "Flexible" \in Types /\ "RW" \in Prots \cup {"None"} /\ "guest" \in AllNames
      BY MemoryAssumption DEF Types, CommittedTypes, BackedTypes, AllNames
    <3> QED BY <2>2, <3>1, NewRangeIs
  <2> HIDE DEF r
  <2>4. Each(g, Cells(r), m.flexFree) /\ g \in [Cells(r) -> m.flexFree] /\ g \in [Cells(r) -> Int]
    <3>1. n <= Cardinality(m.flexFree)
      <4>1. IsFiniteSet(Flexible)
        BY MemoryAssumption, FS_Interval DEF Flexible
      <4>2. IsFiniteSet(m.flexFree)
        BY <1>2, <4>1, FS_Subset
      <4>3. /\ Cardinality(o.flexFree) <= Cardinality(m.flexFree)
            /\ IsFiniteSet(o.flexFree)
        BY <1>2, <4>2, FS_Subset
      <4>4. Cardinality(o.flexFree) \in Nat /\ Cardinality(m.flexFree) \in Nat
        BY <4>2, <4>3, FS_CardinalityType
      <4> QED BY <4>3, <4>4
    <3>2. PICK F : F = m.flexFree
      OBVIOUS
    <3>3. F \subseteq Flexible /\ n <= Cardinality(F) /\ g = Lowest(F, a, n)
      BY <1>2, <1>3, <2>1, <3>1, <3>2
    <3>4. Each(g, Span(a, n), F) /\ F \subseteq Int
      BY <2>2, <3>3, LowestOK
    <3>5. Each(g, Cells(r), m.flexFree) /\ m.flexFree \subseteq Int
      BY <2>3, <3>2, <3>4
    <3> QED BY <3>5 DEF Each
  <2>5. CellsOf(m.ranges) \cap Cells(r) = {} /\ Cells(r) \in SUBSET Pages
    BY <2>2, <2>3, CellsIn
  <2>6. /\ w \in Memory /\ Grown(m, w, r) /\ \A p \in Cells(r) : w.host[p] = g[p]
        /\ w.maps = m.maps /\ w.flex = m.flex /\ w.flexFree = m.flexFree
        /\ w.pool = m.pool /\ w.poolFree = m.poolFree /\ w.committed = m.committed
        /\ w.status = m.status
    BY <1>2, <2>3, <2>4, <2>5, GrowFields
  <2>7. FlexibleAt(pl, n, g, fault) = z
    <3>1. u = [m EXCEPT !.host = Onto(g, m.host)] /\ m \in Memory
      BY <1>2 DEF SetHost
    <3>2. MapGpuRange([u EXCEPT !.flex = Onto(g, @), !.flexFree = @ \ Taken(g),
                                !.ranges = AddRange(@, r)], Span(a, n)) = z
      <4>1. Onto(g, m.host) \in [Pages -> Int]
        <5>1. m.host \in [Pages -> Int]
          BY <1>2, MemoryTypes
        <5> QED BY <2>4, <2>5, <5>1, HostFacts
      <4>2. u \in Memory /\ u.flex = m.flex /\ u.flexFree = m.flexFree
        BY <3>1, <4>1 DEF Memory
      <4> HIDE DEF u
      <4> QED BY <2>3, <4>2 DEF MapGpuRange, Memory
    <3> QED BY <1>1, <1>7, <2>1, <3>2 DEF FlexibleAt, u, r
  <2> HIDE DEF w
  <2>8. /\ Fills(Onto(g, m.flex), m.flexFree \ Taken(g), Flexible)
        /\ DOMAIN Onto(g, m.flex) = DOMAIN m.flex \cup Cells(r)
        /\ \A p \in DOMAIN m.flex : Onto(g, m.flex)[p] = m.flex[p]
        /\ \A p \in Cells(r) : Onto(g, m.flex)[p] = g[p]
    <3>1. Cells(r) \cap DOMAIN m.flex = {}
      <4>1. PagesOf(m.ranges, {"Flexible"}) \subseteq CellsOf(m.ranges)
        BY PagesOfUnion
      <4> QED BY <1>2, <2>5, <4>1
    <3>2. Fills(m.flex, m.flexFree, Flexible) /\ Each(g, Cells(r), m.flexFree)
      BY <1>2, <2>4
    <3>3. Fills(Onto(g, m.flex), m.flexFree \ Taken(g), Flexible)
          /\ Extended(Onto(g, m.flex), m.flex, g, Cells(r))
      BY <3>1, <3>2, FillsGrow
    <3> QED BY <3>3 DEF Extended
  <2>9. Onto(g, m.flex) \in Partial(Flexible) /\ m.flexFree \ Taken(g) \in SUBSET Flexible
    <3>1. g \in [Cells(r) -> Flexible]
      BY <1>2, <2>4
    <3> QED BY <1>2, <2>5, <3>1, OntoPartial
  <2>10. PICK f : f = Onto(g, m.flex)
    OBVIOUS
  <2>11. PICK free : free = m.flexFree \ Taken(g)
    OBVIOUS
  <2>12. z = [w EXCEPT !.flex = f, !.flexFree = free]
    BY <2>10, <2>11
  <2> HIDE DEF z
  <2>13. /\ z \in Memory /\ Grown(m, z, r) /\ z.host = w.host
         /\ z.maps = m.maps /\ z.flex = f /\ z.flexFree = free
         /\ z.pool = m.pool /\ z.poolFree = m.poolFree /\ z.committed = m.committed
         /\ z.status = m.status
    BY <2>6, <2>9, <2>10, <2>11, <2>12 DEF Memory, Grown
  <2>14. MapsGrown(m, z, r) /\ PoolGrown(m, z, r)
    BY <1>2, <2>3, <2>13, OwnersKept
  <2>15. FlexGrown(m, z, r)
    BY <2>3, <2>6, <2>8, <2>10, <2>11, <2>13 DEF FlexGrown
  <2>16. r.type \in CommittedTypes /\ r.type \notin PrivateTypes
    BY <2>3 DEF CommittedTypes, PrivateTypes, BackedTypes
  <2>17. MemoryOK(z)
    BY <1>2, <2>3, <2>5, <2>13, <2>14, <2>15, <2>16, GrowOK
  <2> QED BY <1>2, <1>4, <2>7, <2>13, <2>17 DEF Fine
<1> QED BY <1>5, <1>6, <1>7

\* A new range of private memory.
LEMMA PrivateOK ==
    ASSUME NEW m, Fine(m), NEW a \in Pages, NEW n \in Nat \ {0}, a + n - 1 <= MaxPage,
           Span(a, n) \cap CellsOf(m.ranges) = {}, NEW t \in PrivateTypes
    PROVE  Fine(MapGpuRange([SetHost(UnmapGpuRange(m, Span(a, n)), [p \in Span(a, n) |-> Private])
                  EXCEPT !.ranges = AddRange(@, NewRange(a, n, t, 0, "RW", "rt"))], Span(a, n)))
<1>1. PICK u : u = UnmapGpuRange(m, Span(a, n))
  OBVIOUS
<1>2. MemoryOK(u) /\ u.ranges = m.ranges /\ u.status # "Broken"
  BY <1>1, GpuOffOK DEF Fine, SameOwners
<1> DEFINE r == NewRange(a, n, t, 0, "RW", "rt")
           f == [p \in Span(a, n) |-> Private]
           w == SetHost(u, f)
           v == [w EXCEPT !.ranges = AddRange(@, r)]
           z == MapGpuRange(v, Cells(r))
<1>3. IsRange(r) /\ Cells(r) = Span(a, n) /\ r.type = t
  <2>1. t \in Types /\ "RW" \in Prots \cup {"None"} /\ "rt" \in AllNames
    BY MemoryAssumption DEF Types, CommittedTypes, AllNames
  <2> QED BY <2>1, NewRangeIs
<1> HIDE DEF r
<1>4. f \in [Cells(r) -> Int] /\ \A p \in Cells(r) : f[p] = Private
  BY <1>3 DEF Private
<1>5. f = [p \in Span(a, n) |-> Private]
  OBVIOUS
<1> HIDE DEF f
<1>6. CellsOf(u.ranges) \cap Cells(r) = {}
  BY <1>2, <1>3
<1>7. /\ z \in Memory /\ Grown(u, z, r) /\ \A p \in Cells(r) : z.host[p] = f[p]
      /\ z.maps = u.maps /\ z.flex = u.flex /\ z.flexFree = u.flexFree
      /\ z.pool = u.pool /\ z.poolFree = u.poolFree /\ z.committed = u.committed
      /\ z.status = u.status
  BY <1>2, <1>3, <1>4, <1>6, GrowFields
<1>8. MapGpuRange([SetHost(UnmapGpuRange(m, Span(a, n)), [p \in Span(a, n) |-> Private])
                  EXCEPT !.ranges = AddRange(@, NewRange(a, n, t, 0, "RW", "rt"))], Span(a, n)) = z
  BY <1>1, <1>3, <1>5 DEF r
<1> HIDE DEF z
<1>9. r.type \in CommittedTypes /\ r.type \notin {"Direct", "Flexible", "Pooled"}
  BY <1>3 DEF CommittedTypes, PrivateTypes, BackedTypes
<1>10. MapsGrown(u, z, r) /\ FlexGrown(u, z, r) /\ PoolGrown(u, z, r)
  BY <1>2, <1>7, <1>9, OwnersKept
<1>11. \A p \in Cells(r) : z.host[p] = Private
  BY <1>4, <1>7
<1>12. MemoryOK(z)
  BY <1>2, <1>3, <1>6, <1>7, <1>9, <1>10, <1>11, GrowOK
<1> QED BY <1>2, <1>7, <1>8, <1>12 DEF Fine

\* Ranges that lose pages with no memory behind.
LEMMA UnreserveOK ==
    ASSUME NEW m, Fine(m), NEW S \in SUBSET Pages, S \subseteq PagesOf(m.ranges, Reservations)
    PROVE  LET R == RemovePages(m.ranges, S)
               z == [m EXCEPT !.ranges = R]
           IN  Fine(z) /\ z.ranges = R /\ SameOwners(m, z) /\ CellsOf(R) \cap S = {}
               /\ z.gpu = m.gpu
<1> DEFINE R == RemovePages(m.ranges, S)
           z == [m EXCEPT !.ranges = R]
<1>1. MemoryOK(m) /\ AllRanges(m.ranges) /\ Disjoint(m.ranges) /\ m \in Memory
  BY DEF Fine, MemoryOK, RangesOK
<1>2. /\ RangesOK(R) /\ CellsOf(R) = CellsOf(m.ranges) \ S
      /\ \A T : PagesOf(R, T) = PagesOf(m.ranges, T) \ S
      /\ \A x \in R : x.type = "Direct" => \E r \in m.ranges : PartOf(x, r)
  BY <1>1, RemoveFacts
<1> HIDE DEF R
<1>3. \A T \in SUBSET CommittedTypes : S \cap PagesOf(m.ranges, T) = {}
  BY <1>1, ReservedFree
<1>4. \A T \in SUBSET CommittedTypes : PagesOf(R, T) = PagesOf(m.ranges, T) \ S
  BY <1>2
<1>5. SameCommitted(m.ranges, R)
  BY <1>2, <1>3, <1>4, SameBut
<1>6. MemoryOK(z) /\ z.ranges = R /\ SameOwners(m, z)
  BY <1>1, <1>5, RerangedHere
<1>7. z.gpu = m.gpu
  BY <1>1 DEF Memory
<1> HIDE DEF z
<1>8. Fine(z)
  BY <1>6 DEF Fine, SameOwners
<1> QED BY <1>2, <1>6, <1>7, <1>8 DEF z, R

\* A new mapping of pooled memory, in place of a reservation.
LEMMA CommitOK ==
    ASSUME NEW m, Fine(m), NEW a \in Pages, NEW n \in Nat \ {0}, a + n - 1 <= MaxPage,
           Span(a, n) \subseteq PagesOf(m.ranges, Reservations),
           n <= Cardinality(m.poolFree), NEW v \in AllNames
    PROVE  LET g == Lowest(m.poolFree, a, n)
           IN  Fine(MapGpuRange(
                      [SetHost(m, g) EXCEPT
                          !.pool = Onto(g, @),
                          !.poolFree = @ \ Taken(g),
                          !.committed = @ + n,
                          !.ranges = AddRange(RemoveRange(@, a, n),
                                              NewRange(a, n, "Pooled", 0, "RW", v))],
                      Span(a, n)))
<1> DEFINE R == RemovePages(m.ranges, Span(a, n))
           k == [m EXCEPT !.ranges = R]
           r == NewRange(a, n, "Pooled", 0, "RW", v)
<1>1. /\ MemoryOK(m) /\ m \in Memory /\ m.status # "Broken"
      /\ m.pool \in Partial(Direct) /\ m.poolFree \in SUBSET Direct
      /\ DOMAIN m.pool = PagesOf(m.ranges, {"Pooled"})
      /\ Fills(m.pool, m.poolFree, UNION m.expansions)
      /\ m.committed = Cardinality(DOMAIN m.pool) /\ m.host \in [Pages -> Int]
  BY MemoryTypes DEF Fine
<1>2. Span(a, n) \in SUBSET Pages
  BY SpanIn
<1>3. Fine(k) /\ k.ranges = R /\ SameOwners(m, k) /\ CellsOf(R) \cap Span(a, n) = {}
      /\ k.gpu = m.gpu
  BY <1>2, UnreserveOK
<1>4. k = [m EXCEPT !.ranges = R] /\ MemoryOK(k) /\ k \in Memory
  BY <1>3 DEF Fine, MemoryOK
<1>5. IsRange(r) /\ Cells(r) = Span(a, n) /\ r.type = "Pooled"
  <2>1. "Pooled" \in Types /\ "RW" \in Prots \cup {"None"}
    BY MemoryAssumption DEF Types, CommittedTypes, BackedTypes
  <2> QED BY <2>1, NewRangeIs
<1> HIDE DEF k
<1>6. RemoveRange(m.ranges, a, n) = R
  BY DEF RemoveRange
<1> DEFINE x == AddRange(RemoveRange(m.ranges, a, n), NewRange(a, n, "Pooled", 0, "RW", v))
<1>7. x = AddRange(k.ranges, r)
  BY <1>3, <1>6
<1> HIDE DEF r, R, x
<1>8. PICK g : g = Lowest(m.poolFree, a, n)
  OBVIOUS
<1>9. Each(g, Cells(r), m.poolFree) /\ g \in [Cells(r) -> m.poolFree] /\ g \in [Cells(r) -> Int]
  <2>1. PICK F : F = m.poolFree
    OBVIOUS
  <2>2. F \subseteq Direct /\ n <= Cardinality(F) /\ g = Lowest(F, a, n)
    BY <1>1, <1>8, <2>1
  <2>3. Each(g, Span(a, n), F) /\ F \subseteq Int
    BY <2>2, LowestOK
  <2>4. Each(g, Cells(r), m.poolFree) /\ m.poolFree \subseteq Int
    BY <1>5, <2>1, <2>3
  <2> QED BY <2>4 DEF Each
<1> DEFINE f == Onto(g, m.pool)
           free == m.poolFree \ Taken(g)
           h == Onto(g, m.host)
           u == [m EXCEPT !.host = h]
           y == [u EXCEPT !.pool = f, !.poolFree = free, !.committed = m.committed + n,
                          !.ranges = x]
           z == [y EXCEPT !.gpu = @ \cup Span(a, n)]
<1>10. CellsOf(k.ranges) \cap Cells(r) = {} /\ Cells(r) \in SUBSET Pages
  BY <1>2, <1>3, <1>5
<1>11. /\ h \in [Pages -> Int]
       /\ \A p \in Pages : /\ p \in Cells(r) => h[p] = g[p]
                           /\ p \notin Cells(r) => h[p] = m.host[p]
  BY <1>1, <1>9, <1>10, HostFacts
<1> HIDE DEF h
<1>12. Cells(r) \cap DOMAIN m.pool = {}
  <2>1. PagesOf(k.ranges, {"Pooled"}) \subseteq CellsOf(k.ranges)
    BY PagesOfUnion
  <2>2. DOMAIN k.pool = PagesOf(k.ranges, {"Pooled"})
    BY <1>4 DEF MemoryOK
  <2> QED BY <1>3, <1>10, <2>1, <2>2 DEF SameOwners
<1>13. Fills(f, free, UNION m.expansions) /\ Extended(f, m.pool, g, Cells(r))
  BY <1>1, <1>9, <1>12, FillsGrow
<1>14. f \in Partial(Direct) /\ free \in SUBSET Direct
  <2>1. g \in [Cells(r) -> Direct]
    BY <1>1, <1>9
  <2> QED BY <1>1, <1>10, <2>1, OntoPartial
<1> HIDE DEF f, free
<1>15. m.committed + n = Cardinality(DOMAIN f) /\ m.committed + n \in Int
  <2>1. DOMAIN f = DOMAIN m.pool \cup Cells(r) /\ IsFiniteSet(DOMAIN m.pool)
    BY <1>1, <1>13, PartialFacts DEF Extended
  <2>2. Cells(r) = a..(a + n - 1) /\ a \in Nat
    BY <1>5, MemoryAssumption DEF Span, Pages
  <2>3. IsFiniteSet(Cells(r)) /\ Cardinality(Cells(r)) = n
    <3>1. PICK b \in Int : b = a + n - 1
      BY <2>2
    <3>2. ~(a > b) /\ b - a + 1 = n /\ a \in Int
      BY <2>2, <3>1
    <3>3. IsFiniteSet(a..b) /\ Cardinality(a..b) = IF a > b THEN 0 ELSE b - a + 1
      BY <3>2, FS_Interval
    <3>4. IsFiniteSet(a..b) /\ Cardinality(a..b) = n
      BY <3>2, <3>3
    <3> QED BY <2>2, <3>1, <3>4
  <2>4. Cardinality(DOMAIN m.pool \cup Cells(r))
           = Cardinality(DOMAIN m.pool) + Cardinality(Cells(r))
             - Cardinality(DOMAIN m.pool \cap Cells(r))
    BY <2>1, <2>3, FS_Union
  <2>5. Cardinality(DOMAIN m.pool \cap Cells(r)) = 0
    <3>1. DOMAIN m.pool \cap Cells(r) = {}
      BY <1>12
    <3> QED BY <3>1, FS_EmptySet
  <2>6. Cardinality(DOMAIN m.pool) \in Nat
    BY <2>1, FS_CardinalityType
  <2> QED BY <1>1, <2>1, <2>3, <2>4, <2>5, <2>6
<1>16. MapGpuRange([SetHost(m, g) EXCEPT !.pool = Onto(g, @), !.poolFree = @ \ Taken(g),
                      !.committed = @ + n,
                      !.ranges = AddRange(RemoveRange(@, a, n),
                                          NewRange(a, n, "Pooled", 0, "RW", v))], Span(a, n)) = z
       /\ u \in Memory /\ u.host = h /\ u.pool = m.pool /\ u.poolFree = m.poolFree
       /\ u.ranges = m.ranges /\ u.committed = m.committed /\ u.gpu = m.gpu /\ u.maps = m.maps
       /\ u.flex = m.flex /\ u.flexFree = m.flexFree /\ u.free = m.free
       /\ u.allocated = m.allocated /\ u.expansions = m.expansions /\ u.torn = m.torn
       /\ u.status = m.status
  <2>1. SetHost(m, g) = u
    BY DEF SetHost, h
  <2>2. /\ u \in Memory /\ u.host = h /\ u.pool = m.pool /\ u.poolFree = m.poolFree
        /\ u.ranges = m.ranges /\ u.committed = m.committed /\ u.gpu = m.gpu /\ u.maps = m.maps
        /\ u.flex = m.flex /\ u.flexFree = m.flexFree /\ u.free = m.free
        /\ u.allocated = m.allocated /\ u.expansions = m.expansions /\ u.torn = m.torn
        /\ u.status = m.status
    BY <1>1, <1>11 DEF Memory
  <2> HIDE DEF u
  <2> QED BY <2>1, <2>2 DEF MapGpuRange, f, free, x
<1> HIDE DEF u
<1>17. /\ z \in Memory /\ Grown(k, z, r) /\ z.host = h /\ z.maps = k.maps
       /\ z.flex = k.flex /\ z.flexFree = k.flexFree /\ z.pool = f /\ z.poolFree = free
       /\ z.committed = m.committed + n /\ z.status = m.status
  <2>1. x \in SUBSET Range0 /\ m.gpu \cup Span(a, n) \in SUBSET Pages
    <3>1. RangesOK(k.ranges) /\ m.gpu \in SUBSET Pages
      BY <1>1, <1>4 DEF MemoryOK, Memory
    <3>2. RangesOK(x)
      BY <1>5, <1>7, <1>10, <3>1, AddFacts
    <3> QED BY <1>2, <3>1, <3>2, RangesTyped DEF RangesOK
  <2>2. /\ z \in Memory /\ z.ranges = x /\ z.host = h /\ z.gpu = m.gpu \cup Span(a, n)
        /\ z.maps = m.maps /\ z.flex = m.flex /\ z.flexFree = m.flexFree /\ z.free = m.free
        /\ z.allocated = m.allocated /\ z.expansions = m.expansions /\ z.torn = m.torn
        /\ z.status = m.status /\ z.pool = f /\ z.poolFree = free /\ z.committed = m.committed + n
    BY <1>14, <1>15, <1>16, <2>1 DEF Memory
  <2> HIDE DEF z
  <2>3. k.host = m.host
    BY <1>3 DEF SameOwners
  <2>4. Grown(k, z, r)
    BY <1>3, <1>5, <1>7, <1>11, <2>2, <2>3 DEF Grown, SameOwners
  <2> QED BY <1>3, <2>2, <2>4 DEF SameOwners
<1> HIDE DEF z
<1>18. MapsGrown(k, z, r) /\ FlexGrown(k, z, r)
  BY <1>4, <1>5, <1>17, OwnersKept
<1>19. PoolGrown(k, z, r)
  <2>1. /\ DOMAIN f = DOMAIN m.pool \cup Cells(r) /\ \A p \in DOMAIN m.pool : f[p] = m.pool[p]
    BY <1>13 DEF Extended
  <2>2. \A p \in Cells(r) : z.host[p] = f[p]
    BY <1>10, <1>11, <1>13, <1>17 DEF Extended
  <2>3. k.pool = m.pool /\ k.expansions = m.expansions
    BY <1>3 DEF SameOwners
  <2> QED BY <1>5, <1>13, <1>15, <1>17, <2>1, <2>2, <2>3 DEF PoolGrown
<1>20. r.type \in CommittedTypes /\ r.type \notin PrivateTypes
  BY <1>5 DEF CommittedTypes, PrivateTypes, BackedTypes
<1>21. MemoryOK(z)
  BY <1>4, <1>5, <1>10, <1>17, <1>18, <1>19, <1>20, GrowOK
<1> QED BY <1>1, <1>8, <1>16, <1>17, <1>21 DEF Fine

\* KernelReserveVirtualRange.
LEMMA ReserveOK ==
    ASSUME NEW m, Fine(m), NEW a \in 0..MaxPage, NEW n \in Nat \ {0}, a + n - 1 <= MaxPage,
           NEW fixed \in BOOLEAN, NEW fault, fixed => a # 0
    PROVE  Fine(ReserveVirtualRange(m, a, n, fixed, fault).mem)
<1>1. CASE fixed
  <2>1. a \in Pages
    BY <1>1, MemoryAssumption DEF Pages
  <2>2. Fine(ReplaceFixedRangeWithReserved(m, a, n, fault).mem)
    BY <2>1, ReplaceOK
  <2> QED BY <1>1, <2>2 DEF ReserveVirtualRange, ReplacedAt
<1>2. CASE ~fixed
  <2>1. PICK p : p = FindGuestFreeRange(m, a, n)
    OBVIOUS
  <2>2. ReserveVirtualRange(m, a, n, fixed, fault) = ReservedAt(m, n, p)
    BY <1>2, <2>1 DEF ReserveVirtualRange
  <2>3. CASE p = 0
    BY <2>2, <2>3 DEF ReservedAt
  <2>4. CASE p # 0
    <3> DEFINE v == Reservation(p, n, "anon")
               R == AddRange(m.ranges, v)
               u == UnmapGpuRange(m, Span(p, n))
    <3>1. /\ p \in Pages /\ p + n - 1 <= MaxPage /\ Span(p, n) \cap CellsOf(m.ranges) = {}
          /\ MemoryOK(m) /\ m \in Memory /\ RangesOK(m.ranges)
      BY <2>1, <2>4, FoundFree DEF Fine, MemoryOK
    <3>2. IsRange(v) /\ Cells(v) = Span(p, n) /\ v.type = "Reserved"
          /\ \A T \in SUBSET CommittedTypes : v.type \notin T
      <4>1. "anon" \in AllNames
        BY DEF AllNames
      <4> QED BY <3>1, <4>1, ReservationIs
    <3> HIDE DEF v
    <3>3. CellsOf(m.ranges) \cap Cells(v) = {}
      BY <3>1, <3>2
    <3>4. /\ RangesOK(R)
          /\ \A T : PagesOf(R, T) = PagesOf(m.ranges, T) \cup PagesOf({v}, T)
          /\ \A x \in R : x.type = "Direct" => x \in m.ranges \/ x = v
      BY <3>1, <3>2, <3>3, AddFacts
    <3>5. u.ranges = m.ranges
      BY <3>1, GpuOff
    <3> HIDE DEF R
    <3>6. \A T \in SUBSET CommittedTypes : PagesOf({v}, T) = {}
      BY <3>2, SingleFacts
    <3>7. SameCommitted(m.ranges, R)
      BY <3>2, <3>4, <3>6 DEF SameCommitted
    <3>8. Span(p, n) \cap PagesOf(m.ranges, CommittedTypes) = {}
      BY <3>1, ReservedFree
    <3>9. MemoryOK([u EXCEPT !.ranges = R]) /\ SameOwners(m, [u EXCEPT !.ranges = R])
      BY <3>1, <3>7, <3>8, RerangedOK
    <3>10. ReservedAt(m, n, p).mem = [u EXCEPT !.ranges = R]
      BY <2>4, <3>5 DEF ReservedAt, R, v
    <3> HIDE DEF u
    <3> QED BY <2>2, <3>9, <3>10 DEF Fine, SameOwners
  <2> QED BY <2>3, <2>4
<1> QED BY <1>1, <1>2

\* KernelMemoryPoolReserve, with the reservation made the pool's.
LEMMA PoolReservedOK ==
    ASSUME NEW pl, Fine(pl.mem), NEW n \in Nat \ {0}
    PROVE  Fine(PoolReservedAt(pl, n))
<1>1. PICK m : m = pl.mem
  OBVIOUS
<1>2. Fine(m) /\ MemoryOK(m) /\ RangesOK(m.ranges) /\ m.status # "Broken"
  BY <1>1 DEF Fine, MemoryOK
<1>3. CASE ~\E r \in m.ranges : r.start = pl.at /\ r.size = n /\ r.type \in Reservations
  BY <1>1, <1>3 DEF PoolReservedAt
<1>4. CASE \E r \in m.ranges : r.start = pl.at /\ r.size = n /\ r.type \in Reservations
  <2>1. PICK r \in m.ranges : r.start = pl.at /\ r.size = n /\ r.type \in Reservations
    BY <1>4
  <2>2. IsRange(r)
    BY <1>2 DEF RangesOK, AllRanges
  <2>3. pl.at \in Pages /\ pl.at + n <= MaxPage + 1
    BY <2>1, <2>2 DEF IsRange, Range0, End
  <2>4. pl.at + n - 1 <= MaxPage
    BY <2>3, MemoryAssumption DEF Pages
  <2> DEFINE v == NewRange(pl.at, n, "PoolReserved", 0, "None", "anon")
             R == AddRange(RemovePages(m.ranges, Cells(v)), v)
  <2>5. IsRange(v) /\ Cells(v) = Span(pl.at, n) /\ v.type \in Reservations
    <3>1. "anon" \in AllNames
      BY DEF AllNames
    <3>2. IsRange(v) /\ Cells(v) = Span(pl.at, n) /\ v.type = "PoolReserved"
      BY <2>3, <2>4, <3>1, ReservationIs
    <3> QED BY <3>2 DEF Reservations
  <2>6. PoolReservedAt(pl, n) = [m EXCEPT !.ranges = R]
    <3>1. RemoveRange(m.ranges, pl.at, n) = RemovePages(m.ranges, Cells(v))
      BY <2>5 DEF RemoveRange
    <3> QED BY <1>1, <2>1, <3>1 DEF PoolReservedAt
  <2> HIDE DEF v
  <2>7. /\ RangesOK(R)
        /\ \A T \in SUBSET CommittedTypes : PagesOf(R, T) = PagesOf(m.ranges, T) \ Cells(v)
        /\ \A x \in R : x.type = "Direct" => \E s \in m.ranges : PartOf(x, s)
    BY <1>2, <2>5, ReserveFacts
  <2> HIDE DEF R
  <2>8. Cells(v) \subseteq PagesOf(m.ranges, Reservations)
    <3>1. Cells(v) = Cells(r)
      BY <2>1, <2>5 DEF Cells
    <3> QED BY <2>1, <3>1 DEF PagesOf, CellsOf
  <2>9. \A T \in SUBSET CommittedTypes : Cells(v) \cap PagesOf(m.ranges, T) = {}
    BY <1>2, <2>8, ReservedFree
  <2>10. SameCommitted(m.ranges, R)
    BY <2>7, <2>9, SameBut
  <2>11. MemoryOK([m EXCEPT !.ranges = R]) /\ SameOwners(m, [m EXCEPT !.ranges = R])
    BY <1>2, <2>10, RerangedHere
  <2> QED BY <1>2, <2>6, <2>11 DEF Fine, SameOwners
<1> QED BY <1>1, <1>3, <1>4

\* KernelMunmap.
LEMMA MunmapOK ==
    ASSUME NEW m, Fine(m), NEW a \in Pages, NEW n \in Nat \ {0}, a + n - 1 <= MaxPage,
           QuerySpan(m.ranges, a, n) # {}, NEW fault
    PROVE  Fine(UnmapMemoryRange(UnmapGpuRange(m, Span(a, n)), QuerySpan(m.ranges, a, n), fault))
<1>1. MemoryOK(m) /\ m \in Memory /\ m.status # "Broken" /\ Span(a, n) \subseteq Pages
  BY SpanIn DEF Fine, MemoryOK
<1>2. PICK C : C = QuerySpan(m.ranges, a, n)
  OBVIOUS
<1>3. C = Inside(m.ranges, a, n)
  BY <1>1, <1>2, QueryFacts
<1>4. PICK u : u = UnmapGpuRange(m, Span(a, n))
  OBVIOUS
<1>5. PICK failing : failing = Failing(u, C, fault)
  OBVIOUS
<1>6. PICK done : done = Completed(C, failing)
  OBVIOUS
<1> DEFINE w == ReleaseChunks(UnmapGpuRange(m, Span(a, n)), done)
<1>7. PICK torn \in BOOLEAN : torn = (w.torn \/ failing # {})
  OBVIOUS
<1>8. Done(m, a, n, done, torn)
  <2>1. done \subseteq C /\ (failing = {} => done = C)
    BY <1>6 DEF Completed
  <2>2. w.torn = m.torn
    <3>1. done \subseteq Parts(m.ranges, Span(a, n)) /\ Span(a, n) \in SUBSET Pages
      BY <1>1, <1>3, <2>1 DEF Inside
    <3>2. Owns(m, done)
      BY <1>1, <3>1, InsideFacts
    <3> QED BY <1>1, <3>2, ReleasedFields
  <2> HIDE DEF w
  <2> QED BY <1>3, <1>7, <2>1, <2>2 DEF Done
<1> DEFINE z == [w EXCEPT !.ranges = RemovePages(@, CellsOf(done)), !.torn = torn]
<1>9. MemoryOK(z) /\ z.status = m.status
  <2>1. MemoryOK(Undone(m, a, n, done, torn)) /\ Undone(m, a, n, done, torn).status = m.status
    <3>1. MemoryOK(m)
      BY <1>1
    <3> HIDE DEF w, z
    <3> QED BY <3>1, <1>8, UnmapOK
  <2> QED BY <2>1 DEF Undone
<1>10. UnmapMemoryRange(UnmapGpuRange(m, Span(a, n)), QuerySpan(m.ranges, a, n), fault) = z
  BY <1>2, <1>4, <1>5, <1>6, <1>7 DEF UnmapMemoryRange, UnmapChunks
<1> HIDE DEF z
<1> QED BY <1>1, <1>9, <1>10 DEF Fine

\* Chunks that are changed one by one, pages and types as before.
LEMMA EachFacts ==
    ASSUME NEW C, AllRanges(C), Disjoint(C), NEW e,
           \A y \in C : IsRange(e[y]) /\ Cells(e[y]) = Cells(y) /\ e[y].type = y.type
    PROVE  LET N == Images(e, C)
           IN  /\ AllRanges(N) /\ Disjoint(N) /\ CellsOf(N) = CellsOf(C)
               /\ \A T : PagesOf(N, T) = PagesOf(C, T)
<1> DEFINE N == Images(e, C)
<1>0. N = {e[y] : y \in C}
  BY DEF Images
<1> HIDE DEF N
<1>1. AllRanges(N)
  BY <1>0 DEF AllRanges
<1>2. Disjoint(N)
  <2> SUFFICES ASSUME NEW r \in C, NEW s \in C, NEW p \in Pages, p \in Cells(e[r]), p \in Cells(e[s])
               PROVE  e[r] = e[s]
    BY <1>0 DEF Disjoint
  <2>1. r = s
    BY DEF Disjoint
  <2> QED BY <2>1
<1>3. ASSUME NEW T PROVE PagesOf(N, T) = PagesOf(C, T)
  <2>1. \A p : p \in PagesOf(N, T) <=> \E x \in N : x.type \in T /\ p \in Cells(x)
    BY InPagesOf
  <2>2. \A p : p \in PagesOf(C, T) <=> \E x \in C : x.type \in T /\ p \in Cells(x)
    BY InPagesOf
  <2>3. \A p : p \in PagesOf(N, T) <=> p \in PagesOf(C, T)
    BY <1>0, <2>1, <2>2
  <2> QED BY <2>3
<1>4. CellsOf(N) = CellsOf(C)
  <2>1. \A p : p \in CellsOf(N) <=> \E x \in N : p \in Cells(x)
    BY InPagesOf
  <2>2. \A p : p \in CellsOf(C) <=> \E x \in C : p \in Cells(x)
    BY InPagesOf
  <2>3. \A p : p \in CellsOf(N) <=> p \in CellsOf(C)
    BY <1>0, <2>1, <2>2
  <2> QED BY <2>3
<1> QED BY <1>1, <1>2, <1>3, <1>4 DEF N

\* The parts of the ranges in S, changed one by one.
LEMMA EditFacts ==
    ASSUME NEW R, RangesOK(R), NEW S \in SUBSET Pages, NEW e,
           \A y \in Parts(R, S) : /\ IsRange(e[y]) /\ Cells(e[y]) = Cells(y)
                                  /\ e[y].type = y.type
    PROVE  LET N == Images(e, Parts(R, S))
               Z == Merge(Parts(R, Pages \ S) \cup N)
           IN  /\ RangesOK(Z) /\ \A T : PagesOf(Z, T) = PagesOf(R, T)
               /\ \A x \in Z : x.type = "Direct" =>
                     \/ \E y \in Parts(R, S) : x = e[y] /\ y.type = "Direct"
                     \/ Cells(x) \subseteq Pages \ S /\ \E r \in R : PartOf(x, r)
<1> DEFINE C == Parts(R, S)
           N == Images(e, C)
<1>1. AllRanges(R) /\ Disjoint(R)
  BY DEF RangesOK
<1>2. /\ AllRanges(C) /\ Disjoint(C) /\ CellsOf(C) = CellsOf(R) \cap S
      /\ \A T : PagesOf(C, T) = PagesOf(R, T) \cap S
  BY <1>1, PartsFacts
<1>3. PICK K \in SUBSET Pages : K = Pages \ S
  OBVIOUS
<1> DEFINE Z == Merge(Parts(R, K) \cup N)
<1>4. \A y \in C : IsRange(e[y]) /\ Cells(e[y]) = Cells(y) /\ e[y].type = y.type
  OBVIOUS
<1> HIDE DEF C
<1>5. /\ AllRanges(N) /\ Disjoint(N) /\ CellsOf(N) = CellsOf(C)
      /\ \A T : PagesOf(N, T) = PagesOf(C, T)
  BY <1>2, <1>4, EachFacts
<1>6. \A x \in N : \E y \in C : x = e[y] /\ (x.type = "Direct" => y.type = "Direct")
  BY <1>4 DEF Images
<1> HIDE DEF N
<1>7. CellsOf(N) \cap K = {}
  BY <1>2, <1>3, <1>5
<1>8. /\ RangesOK(Z)
      /\ \A T : PagesOf(Z, T) = (PagesOf(R, T) \cap K) \cup PagesOf(N, T)
      /\ \A x \in Z : x.type = "Direct" =>
            \/ x \in N
            \/ Cells(x) \subseteq K /\ \E r \in R : PartOf(x, r)
  BY <1>1, <1>5, <1>7, MixFacts
<1> HIDE DEF Z
<1>9. \A T : PagesOf(Z, T) = PagesOf(R, T)
  <2> SUFFICES ASSUME NEW T PROVE PagesOf(Z, T) = PagesOf(R, T)
    OBVIOUS
  <2>1. PagesOf(R, T) \subseteq Pages
    BY <1>1, CellsIn DEF AllRanges, PagesOf, CellsOf
  <2>2. PagesOf(Z, T) = (PagesOf(R, T) \cap K) \cup (PagesOf(R, T) \cap S)
    BY <1>2, <1>5, <1>8
  <2> QED BY <1>3, <2>1, <2>2
<1>10. \A x \in Z : x.type = "Direct" =>
          \/ \E y \in C : x = e[y] /\ y.type = "Direct"
          \/ Cells(x) \subseteq Pages \ S /\ \E r \in R : PartOf(x, r)
  BY <1>3, <1>6, <1>8
<1> QED BY <1>3, <1>8, <1>9, <1>10 DEF Z, N, C

\* KernelSetVirtualRangeName.
LEMMA SetNameOK ==
    ASSUME NEW m, Fine(m), NEW a \in Pages, NEW n \in Nat \ {0}, a + n - 1 <= MaxPage,
           NEW v \in AllNames
    PROVE  Fine([m EXCEPT !.ranges = Edit(@, a, n, "name", v)])
<1>1. PICK S \in SUBSET Pages : S = Span(a, n)
  BY SpanIn
<1> DEFINE C == Parts(m.ranges, S)
           e == [y \in C |-> [y EXCEPT !.name = v]]
           R == Merge(Parts(m.ranges, Pages \ S) \cup Images(e, C))
<1>2. MemoryOK(m) /\ m \in Memory /\ m.status # "Broken" /\ RangesOK(m.ranges)
      /\ AllRanges(m.ranges) /\ Disjoint(m.ranges)
  BY DEF Fine, MemoryOK, RangesOK
<1>3. AllRanges(C) /\ \A y \in C : \E r \in m.ranges : PartOf(y, r)
  BY <1>2, PartsFacts
<1>4. Edit(m.ranges, a, n, "name", v) = R
  BY <1>1 DEF Edit, Inside, Outside, Images
<1> HIDE DEF C
<1>5. \A y \in C : /\ IsRange(e[y]) /\ Cells(e[y]) = Cells(y) /\ e[y].type = y.type
                   /\ Base(e[y]) = Base(y) /\ e[y].prot = y.prot
  <2> SUFFICES ASSUME NEW y \in C
               PROVE  /\ IsRange(e[y]) /\ Cells(e[y]) = Cells(y) /\ e[y].type = y.type
                      /\ Base(e[y]) = Base(y) /\ e[y].prot = y.prot
    OBVIOUS
  <2>1. e[y] = [y EXCEPT !.name = v]
    OBVIOUS
  <2>2. IsRange(y)
    BY <1>3 DEF AllRanges
  <2> QED BY <2>1, <2>2, Renamed
<1> HIDE DEF e
<1>6. /\ RangesOK(R) /\ \A T : PagesOf(R, T) = PagesOf(m.ranges, T)
      /\ \A x \in R : x.type = "Direct" =>
            \/ \E y \in C : x = e[y] /\ y.type = "Direct"
            \/ Cells(x) \subseteq Pages \ S /\ \E r \in m.ranges : PartOf(x, r)
  <2>1. \A y \in Parts(m.ranges, S) : /\ IsRange(e[y]) /\ Cells(e[y]) = Cells(y)
                                      /\ e[y].type = y.type
    BY <1>5 DEF C
  <2> QED BY <1>2, <2>1, EditFacts DEF C
<1> HIDE DEF R
<1>7. \A x \in R : x.type = "Direct" =>
         \E r \in m.ranges : /\ r.type = "Direct" /\ Cells(x) \subseteq Cells(r)
                             /\ Base(x) = Base(r) /\ x.prot = r.prot
  BY <1>3, <1>5, <1>6 DEF PartOf
<1>8. SameCommitted(m.ranges, R)
  BY <1>6, <1>7 DEF SameCommitted
<1>9. MemoryOK([m EXCEPT !.ranges = R]) /\ SameOwners(m, [m EXCEPT !.ranges = R])
  BY <1>2, <1>8, RerangedHere
<1> QED BY <1>2, <1>4, <1>9 DEF Fine, SameOwners

\* ProtectMapping cuts the mappings of direct chunks, and protects the pieces.
LEMMA ProtectFacts ==
    ASSUME NEW M, AllRanges(M), Disjoint(M), \A b \in M : b.type = "Direct",
           NEW D, AllRanges(D), Disjoint(D), NEW prot \in Prots
    PROVE  LET N == ProtectMappings(M, D, prot)
           IN  /\ AllRanges(N) /\ Disjoint(N) /\ \A b \in N : b.type = "Direct"
               /\ CellsOf(N) = CellsOf(M)
               /\ \A b \in N : \E c \in M : Cells(b) \subseteq Cells(c) /\ Base(b) = Base(c)
               /\ \A c \in Parts(M, Pages \ CellsOf(D)) : c \in N
               /\ \A r \in D : \A c \in Parts(M, Cells(r)) : [c EXCEPT !.prot = prot] \in N
<1> DEFINE cut == Parts(M, Pages \ CellsOf(D))
           protected == UNION {{[b EXCEPT !.prot = prot] : b \in Parts(M, Cells(r))} : r \in D}
           N   == cut \cup protected
<1>1. \A r \in D : Cells(r) \in SUBSET Pages
  BY CellsIn DEF AllRanges
<1>2. PICK K \in SUBSET Pages : K = Pages \ CellsOf(D)
  OBVIOUS
<1>3. /\ AllRanges(cut) /\ Disjoint(cut) /\ CellsOf(cut) = CellsOf(M) \cap K
      /\ \A b \in cut : b.type = "Direct" /\ Cells(b) \subseteq K
      /\ \A c \in cut : \E b \in M : Cells(c) \subseteq Cells(b) /\ Base(c) = Base(b)
  BY <1>2, CutMaps
<1> HIDE DEF cut
<1>4. ASSUME NEW r \in D
      PROVE  LET P == Parts(M, Cells(r))
             IN  /\ AllRanges(P) /\ Disjoint(P) /\ CellsOf(P) = CellsOf(M) \cap Cells(r)
                 /\ \A b \in P : b.type = "Direct" /\ Cells(b) \subseteq Cells(r)
                 /\ \A c \in P : \E b \in M : Cells(c) \subseteq Cells(b) /\ Base(c) = Base(b)
  <2>1. PICK S \in SUBSET Pages : S = Cells(r)
    BY <1>1
  <2> QED BY <2>1, CutMaps
<1>5. \A x \in protected : \E r \in D : \E b \in Parts(M, Cells(r)) : x = [b EXCEPT !.prot = prot]
  OBVIOUS
<1>6. \A r \in D : \A b \in Parts(M, Cells(r)) : [b EXCEPT !.prot = prot] \in protected
  OBVIOUS
<1> HIDE DEF protected
<1>7. \A r \in D : \A b \in Parts(M, Cells(r)) :
         LET x == [b EXCEPT !.prot = prot]
         IN  /\ IsRange(x) /\ Cells(x) = Cells(b) /\ Base(x) = Base(b) /\ x.type = "Direct"
  <2> SUFFICES ASSUME NEW r \in D, NEW b \in Parts(M, Cells(r))
               PROVE  LET x == [b EXCEPT !.prot = prot]
                      IN  /\ IsRange(x) /\ Cells(x) = Cells(b) /\ Base(x) = Base(b)
                          /\ x.type = "Direct"
    OBVIOUS
  <2>1. IsRange(b) /\ b.type = "Direct"
    BY <1>4 DEF AllRanges
  <2> QED BY <2>1, Renamed
<1>8. AllRanges(protected) /\ \A x \in protected : x.type = "Direct"
  BY <1>5, <1>7 DEF AllRanges
<1>9. Disjoint(protected)
  <2> SUFFICES ASSUME NEW x \in protected, NEW y \in protected, NEW p \in Pages, p \in Cells(x), p \in Cells(y)
               PROVE  x = y
    BY DEF Disjoint
  <2>1. PICK r \in D : \E b \in Parts(M, Cells(r)) : x = [b EXCEPT !.prot = prot]
    BY <1>5
  <2>2. PICK b \in Parts(M, Cells(r)) : x = [b EXCEPT !.prot = prot]
    BY <2>1
  <2>3. PICK s \in D : \E c \in Parts(M, Cells(s)) : y = [c EXCEPT !.prot = prot]
    BY <1>5
  <2>4. PICK c \in Parts(M, Cells(s)) : y = [c EXCEPT !.prot = prot]
    BY <2>3
  <2>5. p \in Cells(b) /\ p \in Cells(c)
    BY <1>7, <2>2, <2>4
  <2>6. p \in Cells(r) /\ p \in Cells(s)
    BY <1>4, <2>5
  <2>7. r = s
    BY <2>6 DEF Disjoint
  <2>8. Disjoint(Parts(M, Cells(r)))
    BY <1>4
  <2>9. b = c
    BY <2>2, <2>4, <2>5, <2>7, <2>8 DEF Disjoint
  <2> QED BY <2>2, <2>4, <2>9
<1>10. CellsOf(protected) = CellsOf(M) \cap CellsOf(D)
  <2>1. ASSUME NEW p \in CellsOf(protected) PROVE p \in CellsOf(M) /\ p \in CellsOf(D)
    <3>1. PICK x \in protected : p \in Cells(x)
      BY InPagesOf
    <3>2. PICK r \in D : \E b \in Parts(M, Cells(r)) : x = [b EXCEPT !.prot = prot]
      BY <1>5
    <3>3. PICK b \in Parts(M, Cells(r)) : x = [b EXCEPT !.prot = prot]
      BY <3>2
    <3>4. p \in Cells(b)
      BY <1>7, <3>1, <3>3
    <3>5. p \in CellsOf(Parts(M, Cells(r)))
      BY <3>4 DEF CellsOf
    <3>6. p \in CellsOf(M) /\ p \in Cells(r)
      BY <1>4, <3>5
    <3> QED BY <3>6 DEF CellsOf
  <2>2. ASSUME NEW p \in CellsOf(M), p \in CellsOf(D) PROVE p \in CellsOf(protected)
    <3>1. PICK r \in D : p \in Cells(r)
      BY <2>2, InPagesOf
    <3>2. p \in CellsOf(Parts(M, Cells(r)))
      BY <1>4, <3>1
    <3>3. PICK b \in Parts(M, Cells(r)) : p \in Cells(b)
      BY <3>2 DEF CellsOf
    <3>4. [b EXCEPT !.prot = prot] \in protected /\ p \in Cells([b EXCEPT !.prot = prot])
      BY <1>6, <1>7, <3>3
    <3> QED BY <3>4, InPagesOf
  <2> QED BY <2>1, <2>2
<1>11. AllRanges(N) /\ \A b \in N : b.type = "Direct"
  BY <1>3, <1>8 DEF AllRanges
<1>12. Disjoint(N)
  <2>1. ASSUME NEW b \in cut, NEW c \in protected, NEW p, p \in Cells(b), p \in Cells(c) PROVE FALSE
    <3>1. p \in CellsOf(protected)
      BY <2>1 DEF CellsOf
    <3> QED BY <1>2, <1>3, <1>10, <2>1, <3>1
  <2> QED BY <1>3, <1>9, <2>1 DEF Disjoint
<1>13. CellsOf(N) = CellsOf(M)
  <2>1. CellsOf(N) = CellsOf(cut) \cup CellsOf(protected)
    BY DEF CellsOf
  <2>2. CellsOf(M) \subseteq Pages
    BY CellsIn DEF AllRanges, CellsOf
  <2> QED BY <1>2, <1>3, <1>10, <2>1, <2>2
<1>14. \A b \in N : \E c \in M : Cells(b) \subseteq Cells(c) /\ Base(b) = Base(c)
  <2>1. ASSUME NEW x \in protected PROVE \E c \in M : Cells(x) \subseteq Cells(c) /\ Base(x) = Base(c)
    <3>1. PICK r \in D : \E b \in Parts(M, Cells(r)) : x = [b EXCEPT !.prot = prot]
      BY <1>5
    <3>2. PICK b \in Parts(M, Cells(r)) : x = [b EXCEPT !.prot = prot]
      BY <3>1
    <3>3. PICK c \in M : Cells(b) \subseteq Cells(c) /\ Base(b) = Base(c)
      BY <1>4, <3>2
    <3>4. Cells(x) = Cells(b) /\ Base(x) = Base(b)
      BY <1>7, <3>2
    <3> QED BY <3>3, <3>4
  <2> QED BY <1>3, <2>1
<1>15. ProtectMappings(M, D, prot) = N
  BY DEF ProtectMappings, cut, protected
<1>16. Parts(M, Pages \ CellsOf(D)) = cut
  BY DEF cut
<1>17. /\ \A c \in Parts(M, Pages \ CellsOf(D)) : c \in N
       /\ \A r \in D : \A c \in Parts(M, Cells(r)) : [c EXCEPT !.prot = prot] \in N
  BY <1>6, <1>16
<1> HIDE DEF N
<1> QED BY <1>11, <1>12, <1>13, <1>14, <1>15, <1>17

\* KernelMprotect.
LEMMA MprotectOK ==
    ASSUME NEW m, Fine(m), NEW a \in Pages, NEW n \in Nat \ {0}, a + n - 1 <= MaxPage,
           NEW prot \in Prots, QuerySpan(m.ranges, a, n) # {}
    PROVE  LET chunks == QuerySpan(m.ranges, a, n)
           IN  Fine([m EXCEPT
                      !.maps = ProtectMappings(@, {r \in chunks : r.type = "Direct"}, prot),
                      !.ranges = Edit(@, a, n, "prot", prot)])
<1>1. PICK S \in SUBSET Pages : S = Span(a, n)
  BY SpanIn
<1> DEFINE C == Parts(m.ranges, S)
           D == {r \in C : r.type = "Direct"}
           e == [y \in C |-> [y EXCEPT !.prot = prot]]
           R == Merge(Parts(m.ranges, Pages \ S) \cup Images(e, C))
           M == ProtectMappings(m.maps, D, prot)
           z == [m EXCEPT !.maps = M, !.ranges = R]
<1>2. /\ MemoryOK(m) /\ m \in Memory /\ m.status # "Broken" /\ RangesOK(m.ranges)
      /\ AllRanges(m.ranges) /\ Disjoint(m.ranges) /\ GpuOK(m)
      /\ AllRanges(m.maps) /\ Disjoint(m.maps) /\ \A b \in m.maps : b.type = "Direct"
      /\ \A r \in m.ranges : r.type = "Direct" => \E b \in m.maps : Backs(b, r)
  BY DEF Fine, MemoryOK, RangesOK, MapsOK
<1>3. /\ AllRanges(C) /\ Disjoint(C) /\ CellsOf(C) = CellsOf(m.ranges) \cap S
      /\ \A y \in C : \E r \in m.ranges : PartOf(y, r)
  BY <1>2, PartsFacts
<1>4. QuerySpan(m.ranges, a, n) = C
  BY <1>1, <1>2, QueryFacts
<1>5. Edit(m.ranges, a, n, "prot", prot) = R
  BY <1>1 DEF Edit, Inside, Outside, Images
<1> HIDE DEF C
<1>6. \A y \in C : /\ IsRange(e[y]) /\ Cells(e[y]) = Cells(y) /\ e[y].type = y.type
                   /\ Base(e[y]) = Base(y) /\ e[y].prot = prot
  <2> SUFFICES ASSUME NEW y \in C
               PROVE  /\ IsRange(e[y]) /\ Cells(e[y]) = Cells(y) /\ e[y].type = y.type
                      /\ Base(e[y]) = Base(y) /\ e[y].prot = prot
    OBVIOUS
  <2>1. e[y] = [y EXCEPT !.prot = prot]
    OBVIOUS
  <2>2. IsRange(y)
    BY <1>3 DEF AllRanges
  <2>3. prot \in Prots
    OBVIOUS
  <2> HIDE DEF e, D, R, M, z
  <2>4. PICK x : x = [y EXCEPT !.prot = prot]
    OBVIOUS
  <2>5. /\ IsRange(x) /\ Cells(x) = Cells(y) /\ x.type = y.type
        /\ Base(x) = Base(y) /\ x.prot = prot
    BY <2>2, <2>3, <2>4, Renamed
  <2> QED BY <2>1, <2>4, <2>5
<1> HIDE DEF e
<1>7. /\ RangesOK(R) /\ \A T : PagesOf(R, T) = PagesOf(m.ranges, T)
      /\ \A x \in R : x.type = "Direct" =>
            \/ \E y \in C : x = e[y] /\ y.type = "Direct"
            \/ Cells(x) \subseteq Pages \ S /\ \E r \in m.ranges : PartOf(x, r)
  <2>1. \A y \in Parts(m.ranges, S) : /\ IsRange(e[y]) /\ Cells(e[y]) = Cells(y)
                                      /\ e[y].type = y.type
    BY <1>6 DEF C
  <2>2. RangesOK(m.ranges)
    BY <1>2
  <2> HIDE DEF D, M, z
  <2>3. /\ RangesOK(Merge(Parts(m.ranges, Pages \ S) \cup Images(e, Parts(m.ranges, S))))
        /\ \A T : PagesOf(Merge(Parts(m.ranges, Pages \ S) \cup Images(e, Parts(m.ranges, S))), T)
                   = PagesOf(m.ranges, T)
        /\ \A x \in Merge(Parts(m.ranges, Pages \ S) \cup Images(e, Parts(m.ranges, S))) :
              x.type = "Direct" =>
                 \/ \E y \in Parts(m.ranges, S) : x = e[y] /\ y.type = "Direct"
                 \/ Cells(x) \subseteq Pages \ S /\ \E r \in m.ranges : PartOf(x, r)
    BY <2>1, <2>2, EditFacts
  <2> QED BY <2>3 DEF C
<1> HIDE DEF R
<1>8. AllRanges(D) /\ Disjoint(D) /\ CellsOf(D) \subseteq S
  <2>1. AllRanges(D) /\ Disjoint(D)
    BY <1>3 DEF AllRanges, Disjoint
  <2>2. CellsOf(D) \subseteq CellsOf(C)
    BY DEF CellsOf
  <2> QED BY <1>3, <2>1, <2>2
<1>9. \A y : y \in D <=> y \in C /\ y.type = "Direct"
  OBVIOUS
<1>10. QuerySpan(m.ranges, a, n) # {} /\ D = {r \in QuerySpan(m.ranges, a, n) : r.type = "Direct"}
  BY <1>4
<1> HIDE DEF D
<1>11. /\ AllRanges(M) /\ Disjoint(M) /\ \A b \in M : b.type = "Direct"
       /\ CellsOf(M) = CellsOf(m.maps)
       /\ \A b \in M : \E c \in m.maps : Cells(b) \subseteq Cells(c) /\ Base(b) = Base(c)
       /\ \A c \in Parts(m.maps, Pages \ CellsOf(D)) : c \in M
       /\ \A r \in D : \A c \in Parts(m.maps, Cells(r)) : [c EXCEPT !.prot = prot] \in M
  BY <1>2, <1>8, ProtectFacts
<1>12. M = ProtectMappings(m.maps, D, prot)
  OBVIOUS
<1> HIDE DEF M
<1>13. \A x \in R : x.type = "Direct" => \E b \in M : Backs(b, x)
  <2> SUFFICES ASSUME NEW x \in R, x.type = "Direct" PROVE \E b \in M : Backs(b, x)
    OBVIOUS
  <2>0. IsRange(x) /\ Cells(x) \subseteq Pages
    BY <1>7, CellsIn DEF RangesOK, AllRanges
  <2>1. CASE \E y \in C : x = e[y] /\ y.type = "Direct"
    <3>1. PICK y \in C : x = e[y] /\ y.type = "Direct"
      BY <2>1
    <3>2. IsRange(y) /\ y \in D
      BY <1>3, <1>9, <3>1 DEF AllRanges
    <3>3. PICK r \in m.ranges : PartOf(y, r)
      BY <1>3, <3>1
    <3>4. PICK b \in m.maps : Backs(b, r)
      BY <1>2, <3>1, <3>3 DEF PartOf
    <3>5. PICK Q \in SUBSET Pages : Q = Cells(y)
      BY <3>2, CellsIn
    <3>6. PICK c \in Parts(m.maps, Q) : Backs(c, y) /\ IsRange(c)
      <4>1. \A s, w : /\ \E d \in m.maps : Backs(d, s)
                      /\ PartOf(w, s) /\ IsRange(w) /\ w.type = "Direct" /\ Cells(w) \subseteq Q
                      => \E d \in Parts(m.maps, Q) : Backs(d, w)
        BY <1>2, CutMaps
      <4>2. AllRanges(Parts(m.maps, Q))
        BY <1>2, CutMaps
      <4>3. \E d \in Parts(m.maps, Q) : Backs(d, y)
        BY <3>1, <3>2, <3>3, <3>4, <3>5, <4>1
      <4> QED BY <4>2, <4>3 DEF AllRanges
    <3>7. [c EXCEPT !.prot = prot] \in M
      BY <1>11, <3>2, <3>5, <3>6
    <3>8. Cells(c) = Cells([c EXCEPT !.prot = prot]) /\ Base(c) = Base([c EXCEPT !.prot = prot])
          /\ [c EXCEPT !.prot = prot].prot = prot
      BY <3>6, Renamed
    <3>9. Backs([c EXCEPT !.prot = prot], x)
      BY <1>6, <3>1, <3>6, <3>8 DEF Backs
    <3> QED BY <3>7, <3>9
  <2>2. CASE Cells(x) \subseteq Pages \ S /\ \E r \in m.ranges : PartOf(x, r)
    <3>1. PICK r \in m.ranges : PartOf(x, r)
      BY <2>2
    <3>2. \E b \in m.maps : Backs(b, r)
      BY <1>2, <3>1 DEF PartOf
    <3>3. PICK K \in SUBSET Pages : K = Pages \ CellsOf(D)
      OBVIOUS
    <3>4. Cells(x) \subseteq K
      BY <1>8, <2>2, <3>3
    <3>5. \A s, w : /\ \E d \in m.maps : Backs(d, s)
                    /\ PartOf(w, s) /\ IsRange(w) /\ w.type = "Direct" /\ Cells(w) \subseteq K
                    => \E d \in Parts(m.maps, K) : Backs(d, w)
      BY <1>2, CutMaps
    <3>6. \E d \in Parts(m.maps, K) : Backs(d, x)
      BY <2>0, <3>1, <3>2, <3>4, <3>5
    <3> QED BY <1>11, <3>3, <3>6
  <2> QED BY <1>7, <2>1, <2>2
<1>14. M \in SUBSET Range0 /\ R \in SUBSET Range0
  BY <1>7, <1>11 DEF AllRanges, IsRange, RangesOK
<1>15. /\ z \in Memory /\ z.maps = M /\ z.ranges = R /\ z.gpu = m.gpu /\ SameBacking(m, z)
  BY <1>2, <1>14 DEF Memory, SameBacking
<1>16. z = [m EXCEPT !.maps = M, !.ranges = R]
  OBVIOUS
<1> HIDE DEF z
<1>17. GpuOK(z)
  BY <1>2, <1>7, <1>15 DEF GpuOK, SameBacking
<1>18. MemoryOK(z)
  <2>1. \A T \in SUBSET CommittedTypes : PagesOf(z.ranges, T) = PagesOf(m.ranges, T)
    BY <1>7, <1>15
  <2>2. \A b \in z.maps : \A p \in Cells(b) : \E c \in m.maps : p \in Cells(c) /\ Base(b) = Base(c)
    BY <1>11, <1>15
  <2>3. /\ RangesOK(z.ranges) /\ AllRanges(z.maps) /\ Disjoint(z.maps)
        /\ \A b \in z.maps : b.type = "Direct"
        /\ CellsOf(z.maps) = CellsOf(m.maps)
        /\ \A r \in z.ranges : r.type = "Direct" => \E b \in z.maps : Backs(b, r)
    BY <1>7, <1>11, <1>13, <1>15
  <2> QED BY <1>2, <1>15, <1>17, <2>1, <2>2, <2>3, RemapOK
<1>19. Fine(z)
  BY <1>2, <1>15, <1>18 DEF Fine, SameBacking
<1>20. [m EXCEPT !.maps = ProtectMappings(@, {r \in QuerySpan(m.ranges, a, n) : r.type = "Direct"}, prot),
                 !.ranges = Edit(@, a, n, "prot", prot)] = z
  BY <1>2, <1>5, <1>10, <1>12, <1>16 DEF Memory
<1> QED BY <1>19, <1>20

\* A span all of whose chunks have one of the types.
LEMMA SpanTypes ==
    ASSUME NEW m, MemoryOK(m), NEW a \in Pages, NEW n \in Nat \ {0}, a + n - 1 <= MaxPage,
           NEW T, AllOf(QuerySpan(m.ranges, a, n), T)
    PROVE  Span(a, n) \subseteq PagesOf(m.ranges, T)
<1> DEFINE C == QuerySpan(m.ranges, a, n)
<1>1. C # {} /\ \A r \in C : r.type \in T
  BY DEF AllOf
<1>2. CellsOf(C) = Span(a, n) /\ \A U : PagesOf(C, U) = PagesOf(m.ranges, U) \cap Span(a, n)
  BY <1>1, QueryFacts
<1> HIDE DEF C
<1>3. CellsOf(C) \subseteq PagesOf(C, T)
  BY <1>1 DEF CellsOf, PagesOf
<1> QED BY <1>2, <1>3

\* FreeGuestMemory: the host has private memory there, and gives it back.
LEMMA FreeGuestOK ==
    ASSUME NEW m, Fine(m), NEW a \in Pages, NEW n \in Nat \ {0}, a + n - 1 <= MaxPage,
           AllOf(QuerySpan(m.ranges, a, n), {"Code", "Runtime"})
    PROVE  /\ HostIs(m, Span(a, n), Private)
           /\ Fine([UnmapHost(UnmapGpuRange(m, Span(a, n)), Span(a, n))
                      EXCEPT !.ranges = RemoveRange(@, a, n)])
<1>1. PICK S \in SUBSET Pages : S = Span(a, n)
  BY SpanIn
<1>2. /\ MemoryOK(m) /\ m \in Memory /\ m.status # "Broken" /\ RangesOK(m.ranges)
      /\ AllRanges(m.ranges) /\ Disjoint(m.ranges) /\ GpuOK(m) /\ HostOK(m)
      /\ MapsOK(m.ranges, m.maps)
  BY DEF Fine, MemoryOK, RangesOK
<1>3. S \subseteq PagesOf(m.ranges, PrivateTypes)
  <2>1. S \subseteq PagesOf(m.ranges, {"Code", "Runtime"})
    BY <1>1, <1>2, SpanTypes
  <2>2. {"Code", "Runtime"} \subseteq PrivateTypes
    BY DEF PrivateTypes
  <2>3. PagesOf(m.ranges, {"Code", "Runtime"}) \subseteq PagesOf(m.ranges, PrivateTypes)
    BY <2>2, PagesOfUnion
  <2> QED BY <2>1, <2>3
<1>4. HostIs(m, S, Private)
  BY <1>2, <1>3 DEF HostOK, HostIs
<1>5. /\ S \cap PagesOf(m.ranges, {"Direct"}) = {}
      /\ S \cap PagesOf(m.ranges, {"Flexible"}) = {}
      /\ S \cap PagesOf(m.ranges, {"Pooled"}) = {}
  <2>1. \A U : PrivateTypes \cap U = {} => PagesOf(m.ranges, PrivateTypes) \cap PagesOf(m.ranges, U) = {}
    BY <1>2, OneType
  <2>2. PrivateTypes \cap {"Direct"} = {} /\ PrivateTypes \cap {"Flexible"} = {}
        /\ PrivateTypes \cap {"Pooled"} = {}
    BY DEF PrivateTypes
  <2> QED BY <1>3, <2>1, <2>2
<1>6. /\ S \cap CellsOf(m.maps) = {} /\ S \cap DOMAIN m.flex = {} /\ S \cap DOMAIN m.pool = {}
  BY <1>2, <1>5 DEF MemoryOK, MapsOK
<1> DEFINE u == UnmapGpuRange(m, S)
           f == [p \in S |-> Unmapped]
           h == Onto(f, m.host)
           R == RemovePages(m.ranges, S)
           z == [u EXCEPT !.host = h, !.ranges = R]
<1>7. u \in Memory /\ u.gpu = m.gpu \ S /\ u.ranges = m.ranges /\ SameOwners(m, u)
  BY <1>2, GpuOff
<1>8. m.host \in [Pages -> Int] /\ m.gpu \in SUBSET Pages /\ f \in [S -> Int]
  BY <1>2 DEF Memory, Unmapped
<1>9. /\ h \in [Pages -> Int]
      /\ \A p \in Pages : /\ p \in S => h[p] = Unmapped
                          /\ p \notin S => h[p] = m.host[p]
  <2>1. \A p \in S : f[p] = Unmapped
    OBVIOUS
  <2> HIDE DEF f
  <2> QED BY <1>8, <2>1, HostFacts
<1> HIDE DEF f
<1>10. /\ RangesOK(R)
       /\ \A T : PagesOf(R, T) = PagesOf(m.ranges, T) \ S
       /\ \A x \in R : x.type = "Direct" =>
             Cells(x) \subseteq Pages \ S /\ \E r \in m.ranges : PartOf(x, r)
  BY <1>2, RemoveFacts
<1>11. R \in SUBSET Range0
  BY <1>10, RangesTyped DEF RangesOK
<1>12. [UnmapHost(u, S) EXCEPT !.ranges = RemoveRange(@, a, n)] = z
  <2>1. UnmapHost(u, S) = [u EXCEPT !.host = h]
    BY <1>7 DEF UnmapHost, SetHost, SameOwners, f
  <2>2. [u EXCEPT !.host = h].ranges = m.ranges
    BY <1>7 DEF Memory
  <2>3. RemoveRange(m.ranges, a, n) = R
    BY <1>1 DEF RemoveRange
  <2> HIDE DEF u, h, R
  <2> QED BY <1>7, <2>1, <2>2, <2>3 DEF Memory
<1> HIDE DEF u, h, R
<1>13. /\ z \in Memory /\ z.host = h /\ z.ranges = R /\ z.gpu = m.gpu \ S
       /\ z.maps = m.maps /\ z.flex = m.flex /\ z.flexFree = m.flexFree
       /\ z.pool = m.pool /\ z.poolFree = m.poolFree /\ z.committed = m.committed
       /\ z.free = m.free /\ z.allocated = m.allocated /\ z.expansions = m.expansions
       /\ z.torn = m.torn /\ z.status = m.status
  BY <1>7, <1>9, <1>11 DEF Memory, SameOwners
<1> HIDE DEF z
<1>14. Kept(m, z, S)
  <2>1. /\ RangesOK(z.ranges)
        /\ \A T \in SUBSET CommittedTypes : PagesOf(z.ranges, T) = PagesOf(m.ranges, T) \ S
    BY <1>10, <1>13
  <2>2. AllRanges(z.maps) /\ Disjoint(z.maps) /\ \A b \in z.maps : b.type = "Direct"
    BY <1>2, <1>13 DEF MapsOK
  <2>3. /\ CellsOf(z.maps) = CellsOf(m.maps) \ S
        /\ \A b \in z.maps : \A p \in Cells(b) :
              \E c \in m.maps : p \in Cells(c) /\ Base(b) = Base(c)
    BY <1>6, <1>13
  <2>4. \A x \in z.ranges : x.type = "Direct" => \E b \in z.maps : Backs(b, x)
    <3> SUFFICES ASSUME NEW x \in R, x.type = "Direct" PROVE \E b \in m.maps : Backs(b, x)
      BY <1>13
    <3>1. PICK r \in m.ranges : PartOf(x, r)
      BY <1>10
    <3>2. IsRange(x)
      BY <1>10 DEF RangesOK, AllRanges
    <3> QED BY <1>2, <3>1, <3>2, BackedPart
  <2>5. /\ DOMAIN z.flex = DOMAIN m.flex \ S /\ \A p \in DOMAIN z.flex : z.flex[p] = m.flex[p]
        /\ DOMAIN z.pool = DOMAIN m.pool \ S /\ \A p \in DOMAIN z.pool : z.pool[p] = m.pool[p]
    BY <1>6, <1>13
  <2>6. /\ z.flexFree = m.flexFree \cup {m.flex[p] : p \in DOMAIN m.flex \cap S}
        /\ z.poolFree = m.poolFree \cup {m.pool[p] : p \in DOMAIN m.pool \cap S}
    BY <1>6, <1>13
  <2>7. z.committed = m.committed - Cardinality(DOMAIN m.pool \cap S)
    <3>1. DOMAIN m.pool \cap S = {} /\ m.committed \in Int
      BY <1>2, <1>6 DEF Memory
    <3>2. Cardinality(DOMAIN m.pool \cap S) = 0
      BY <3>1, FS_EmptySet
    <3> QED BY <1>13, <3>1, <3>2
  <2>8. \A p \in Pages : /\ p \in S => z.host[p] = Unmapped
                         /\ p \notin S => z.host[p] = m.host[p]
    BY <1>9, <1>13
  <2> QED BY <1>13, <2>1, <2>2, <2>3, <2>4, <2>5, <2>6, <2>7, <2>8 DEF Kept
<1>15. GpuOK(z)
  <2>1. PagesOf(R, CommittedTypes) = PagesOf(m.ranges, CommittedTypes) \ S
    BY <1>10
  <2> QED BY <1>2, <1>13, <2>1 DEF GpuOK
<1>16. MemoryOK(z)
  BY <1>2, <1>13, <1>14, <1>15, KeptOK
<1> QED BY <1>1, <1>2, <1>4, <1>12, <1>13, <1>16 DEF Fine, u

\* AllocateGuestRuntimeMemory, whether or not the host has the pages.
LEMMA RuntimeOK ==
    ASSUME NEW m, Fine(m), NEW a \in Pages, NEW n \in Nat \ {0}, a + n - 1 <= MaxPage,
           ~Overlapping(m.ranges, a, n), NEW t \in PrivateTypes
    PROVE  LET m1 == UnmapGpuRange(m, Span(a, n))
           IN  /\ Fine(m1)
               /\ Fine(MapGpuRange([SetHost(m1, [p \in Span(a, n) |-> Private])
                     EXCEPT !.ranges = AddRange(@, NewRange(a, n, t, 0, "RW", "rt"))], Span(a, n)))
<1>1. Span(a, n) \cap CellsOf(m.ranges) = {}
  BY DEF Overlapping, CellsOf
<1>2. MemoryOK(m) /\ m.status # "Broken"
  BY DEF Fine
<1>3. Fine(UnmapGpuRange(m, Span(a, n)))
  BY <1>1, <1>2, GpuOffOK DEF Fine, SameOwners
<1> QED BY <1>1, <1>3, PrivateOK

\* KernelMemoryPoolCommit: where it commits is reserved, under a proper name.
LEMMA PoolHostOK ==
    ASSUME NEW m, Fine(m), NEW a, NEW n,
           NEW hosts, hosts = {r \in m.ranges : r.type = "PoolReserved" /\ Span(a, n) \subseteq Cells(r)},
           hosts # {}
    PROVE  /\ Span(a, n) \subseteq PagesOf(m.ranges, Reservations)
           /\ (CHOOSE r \in hosts : TRUE).name \in AllNames
<1>1. AllRanges(m.ranges)
  BY DEF Fine, MemoryOK, RangesOK
<1>2. PICK r : r = (CHOOSE x \in hosts : TRUE)
  OBVIOUS
<1>3. r \in hosts
  BY <1>2
<1>4. r \in m.ranges /\ r.type = "PoolReserved" /\ Span(a, n) \subseteq Cells(r)
  BY <1>3
<1>5. r.name \in AllNames
  <2>1. r \in Range0
    BY <1>1, <1>4 DEF AllRanges, IsRange
  <2> QED BY <2>1 DEF Range0
<1>6. Span(a, n) \subseteq PagesOf(m.ranges, Reservations)
  BY <1>4, InPagesOf DEF Reservations
<1> QED BY <1>2, <1>5, <1>6

\* The reservations that pooled chunks become again.
Reserved(C) == {NewRange(r.start, r.size, "PoolReserved", 0, "None", r.name) : r \in C}

\* They are the chunks as reservations.
LEMMA ReservedFacts ==
    ASSUME NEW C, AllRanges(C), Disjoint(C)
    PROVE  LET N == Reserved(C)
           IN  /\ AllRanges(N) /\ Disjoint(N) /\ CellsOf(N) = CellsOf(C)
               /\ \A x \in N : x.type = "PoolReserved"
               /\ \A T \in SUBSET CommittedTypes : PagesOf(N, T) = {}
<1> DEFINE e(r) == NewRange(r.start, r.size, "PoolReserved", 0, "None", r.name)
           N == Reserved(C)
<1>1. \A r \in C : IsRange(e(r)) /\ Cells(e(r)) = Cells(r) /\ e(r).type = "PoolReserved"
  <2> SUFFICES ASSUME NEW r \in C
               PROVE  IsRange(e(r)) /\ Cells(e(r)) = Cells(r) /\ e(r).type = "PoolReserved"
    OBVIOUS
  <2>1. r \in Range0 /\ End(r) <= MaxPage + 1
    BY DEF AllRanges, IsRange
  <2>2. r.start \in Pages /\ r.size \in Nat \ {0} /\ r.name \in AllNames
    BY <2>1 DEF Range0
  <2>3. r.start + r.size - 1 <= MaxPage
    BY <2>1, <2>2, MemoryAssumption DEF End, Pages
  <2>4. /\ IsRange(e(r)) /\ Cells(e(r)) = Span(r.start, r.size) /\ e(r).type = "PoolReserved"
    BY <2>2, <2>3, ReservationIs
  <2> QED BY <2>4 DEF Cells
<1>2. \A x : x \in N <=> \E r \in C : x = e(r)
  BY DEF Reserved
<1> HIDE DEF N, e
<1>3. AllRanges(N) /\ \A x \in N : x.type = "PoolReserved"
  BY <1>1, <1>2 DEF AllRanges
<1>4. Disjoint(N)
  <2> SUFFICES ASSUME NEW r \in C, NEW s \in C, NEW p \in Pages, p \in Cells(e(r)), p \in Cells(e(s))
               PROVE  e(r) = e(s)
    BY <1>2 DEF Disjoint
  <2>1. r = s
    BY <1>1 DEF Disjoint
  <2> QED BY <2>1
<1>5. CellsOf(N) = CellsOf(C)
  <2>1. \A p : p \in CellsOf(N) <=> \E x \in N : p \in Cells(x)
    BY InPagesOf
  <2>2. \A p : p \in CellsOf(C) <=> \E x \in C : p \in Cells(x)
    BY InPagesOf
  <2>3. \A p : p \in CellsOf(N) <=> p \in CellsOf(C)
    BY <1>1, <1>2, <2>1, <2>2
  <2> QED BY <2>3
<1>6. \A T \in SUBSET CommittedTypes : PagesOf(N, T) = {}
  <2>1. "PoolReserved" \notin CommittedTypes
    BY DEF CommittedTypes, PrivateTypes, BackedTypes
  <2> QED BY <1>3, <2>1 DEF PagesOf, CellsOf
<1> QED BY <1>3, <1>4, <1>5, <1>6 DEF N

\* What KernelMemoryPoolDecommit leaves.
Decommitted(m, S, C) ==
    [ReleaseChunks(UnmapGpuRange(m, S), C) EXCEPT !.ranges =
        Merge(Parts(@, Pages \ CellsOf(C)) \cup Reserved(C))]

\* C is the pooled ones of the chunks.
ArePooled(C, chunks) == C = {r \in chunks : r.type = "Pooled"}

\* KernelMemoryPoolDecommit: the pool has what its ranges say.
LEMMA DecommitOK ==
    ASSUME NEW m, Fine(m), NEW a \in Pages, NEW n \in Nat \ {0}, a + n - 1 <= MaxPage,
           AllOf(QuerySpan(m.ranges, a, n), {"Pooled", "PoolReserved"}),
           NEW C, ArePooled(C, QuerySpan(m.ranges, a, n))
    PROVE  (\A r \in C : Releasable(m, r)) /\ Fine(Decommitted(m, Span(a, n), C))
<1>1. PICK S \in SUBSET Pages : S = Span(a, n)
  BY SpanIn
<1>2. /\ MemoryOK(m) /\ m \in Memory /\ m.status # "Broken" /\ RangesOK(m.ranges)
      /\ AllRanges(m.ranges) /\ Disjoint(m.ranges) /\ GpuOK(m) /\ HostOK(m)
  BY DEF Fine, MemoryOK, RangesOK
<1>3. QuerySpan(m.ranges, a, n) # {}
  BY DEF AllOf
<1>4. QuerySpan(m.ranges, a, n) = Parts(m.ranges, S)
      /\ \A T : PagesOf(QuerySpan(m.ranges, a, n), T) = PagesOf(m.ranges, T) \cap S
  BY <1>1, <1>2, <1>3, QueryFacts
<1>5. /\ C \subseteq Parts(m.ranges, S) /\ \A r \in C : r.type = "Pooled"
  BY <1>4 DEF ArePooled
<1>6. /\ AllRanges(C) /\ Disjoint(C) /\ Owns(m, C) /\ CellsOf(C) \subseteq S
  <2>1. MemoryOK(m) /\ C \subseteq Parts(m.ranges, S) /\ S \in SUBSET Pages
    BY <1>1, <1>2, <1>5
  <2>2. AllRanges(C) /\ Disjoint(C)
    BY <2>1, InsideFacts
  <2>3. Owns(m, C) /\ CellsOf(C) \subseteq S
    BY <2>1, InsideFacts
  <2> QED BY <2>2, <2>3
<1>7. CellsOf(C) = PagesOf(m.ranges, {"Pooled"}) \cap S
  <2>1. CellsOf(C) = PagesOf(QuerySpan(m.ranges, a, n), {"Pooled"})
    BY DEF CellsOf, PagesOf, ArePooled
  <2> QED BY <1>4, <2>1
<1>8. CellsOf(C) = PagesOf(m.ranges, CommittedTypes) \cap S
  <2>1. S \subseteq PagesOf(m.ranges, {"Pooled", "PoolReserved"})
    BY <1>1, <1>2, SpanTypes
  <2>2. PagesOf(m.ranges, {"Pooled", "PoolReserved"})
          = PagesOf(m.ranges, {"Pooled"}) \cup PagesOf(m.ranges, {"PoolReserved"})
    <3>1. {"Pooled", "PoolReserved"} = {"Pooled"} \cup {"PoolReserved"}
      OBVIOUS
    <3> QED BY <3>1, PagesOfUnion
  <2>3. PagesOf(m.ranges, {"PoolReserved"}) \cap PagesOf(m.ranges, CommittedTypes) = {}
    <3>1. {"PoolReserved"} \cap CommittedTypes = {}
      BY DEF CommittedTypes, PrivateTypes, BackedTypes
    <3> QED BY <1>2, <3>1, OneType
  <2>4. PagesOf(m.ranges, {"Pooled"}) \subseteq PagesOf(m.ranges, CommittedTypes)
    <3>1. {"Pooled"} \subseteq CommittedTypes
      BY DEF CommittedTypes, BackedTypes
    <3> QED BY <3>1, PagesOfUnion
  <2> QED BY <1>7, <2>1, <2>2, <2>3, <2>4
<1>9. \A r \in C : Releasable(m, r)
  <2> SUFFICES ASSUME NEW r \in C PROVE Releasable(m, r)
    OBVIOUS
  <2>1. r.type = "Pooled" /\ Cells(r) \subseteq DOMAIN m.pool
    <3>1. Cells(r) \subseteq CellsOf(C)
      BY DEF CellsOf
    <3> QED BY <1>2, <1>5, <1>7, <3>1 DEF MemoryOK
  <2>2. IsBacked(m, Cells(r))
    <3> SUFFICES ASSUME NEW p \in Cells(r) PROVE m.host[p] >= 0
      BY DEF IsBacked
    <3>1. m.pool \in Partial(Direct)
      BY <1>2 DEF Memory
    <3>2. m.pool \in [DOMAIN m.pool -> Direct]
      BY <3>1, PartialFacts
    <3>3. m.host[p] = m.pool[p] /\ m.pool[p] \in Direct
      BY <1>2, <2>1, <3>2 DEF HostOK
    <3> QED BY <3>3, MemoryAssumption DEF Direct
  <2> QED BY <2>1, <2>2 DEF Releasable, Reservations, PrivateTypes
<1> DEFINE u == ReleaseChunks(UnmapGpuRange(m, S), C)
           R == Merge(Parts(m.ranges, Pages \ CellsOf(C)) \cup Reserved(C))
           z == [u EXCEPT !.ranges = R]
<1>10. /\ u \in Memory /\ Freed(m, u, C) /\ u.ranges = m.ranges /\ u.free = m.free
       /\ u.allocated = m.allocated /\ u.expansions = m.expansions
       /\ u.gpu = m.gpu \ S /\ u.torn = m.torn /\ u.status = m.status
  <2>1. MemoryOK(m) /\ Owns(m, C)
    BY <1>2, <1>6
  <2> HIDE DEF z, R
  <2> QED BY <2>1, ReleasedFields
<1>11. /\ RangesOK(R)
       /\ \A T \in SUBSET CommittedTypes : PagesOf(R, T) = PagesOf(m.ranges, T) \ CellsOf(C)
       /\ \A x \in R : x.type = "Direct" =>
             Cells(x) \cap CellsOf(C) = {} /\ \E r \in m.ranges : PartOf(x, r)
  <2>1. PICK N : N = Reserved(C)
    OBVIOUS
  <2>2. /\ AllRanges(N) /\ Disjoint(N) /\ CellsOf(N) = CellsOf(C)
        /\ \A x \in N : x.type = "PoolReserved"
        /\ \A T \in SUBSET CommittedTypes : PagesOf(N, T) = {}
    BY <1>6, <2>1, ReservedFacts
  <2>3. PICK K \in SUBSET Pages : K = Pages \ CellsOf(C)
    OBVIOUS
  <2>4. CellsOf(N) \cap K = {}
    BY <2>2, <2>3
  <2>5. R = Merge(Parts(m.ranges, K) \cup N)
    BY <2>1, <2>3
  <2> HIDE DEF R, u, z
  <2>6. /\ RangesOK(R)
        /\ \A T : PagesOf(R, T) = (PagesOf(m.ranges, T) \cap K) \cup PagesOf(N, T)
        /\ \A x \in R : x.type = "Direct" =>
              \/ x \in N
              \/ Cells(x) \subseteq K /\ \E r \in m.ranges : PartOf(x, r)
    BY <1>2, <2>2, <2>4, <2>5, MixFacts
  <2>7. \A T : PagesOf(m.ranges, T) \subseteq Pages
    BY <1>2, CellsIn DEF AllRanges, PagesOf, CellsOf
  <2>8. \A T \in SUBSET CommittedTypes : PagesOf(R, T) = PagesOf(m.ranges, T) \ CellsOf(C)
    BY <2>2, <2>3, <2>6, <2>7
  <2>9. \A x \in R : x.type = "Direct" =>
             Cells(x) \cap CellsOf(C) = {} /\ \E r \in m.ranges : PartOf(x, r)
    BY <2>2, <2>3, <2>6
  <2> QED BY <2>6, <2>8, <2>9
<1>12. R \in SUBSET Range0
  BY <1>11, RangesTyped DEF RangesOK
<1>13. Decommitted(m, S, C) = z
  BY <1>10 DEF Decommitted
<1> HIDE DEF u, R
<1>14. /\ z \in Memory /\ Freed(m, z, C) /\ z.ranges = R /\ z.free = m.free
       /\ z.allocated = m.allocated /\ z.expansions = m.expansions
       /\ z.gpu = m.gpu \ S /\ z.torn = m.torn /\ z.status = m.status
  BY <1>10, <1>12 DEF Memory, Freed
<1> HIDE DEF z
<1>15. GpuOK(z)
  <2>1. PagesOf(R, CommittedTypes) = PagesOf(m.ranges, CommittedTypes) \ S
    BY <1>8, <1>11
  <2> QED BY <1>2, <1>14, <2>1 DEF GpuOK
<1>16. MemoryOK(z)
  <2>1. \A T \in SUBSET CommittedTypes : PagesOf(z.ranges, T) = PagesOf(m.ranges, T) \ CellsOf(C)
    BY <1>11, <1>14
  <2>2. RangesOK(z.ranges)
        /\ \A x \in z.ranges : x.type = "Direct" =>
              Cells(x) \cap CellsOf(C) = {} /\ \E r \in m.ranges : PartOf(x, r)
    BY <1>11, <1>14
  <2> QED BY <1>2, <1>6, <1>14, <1>15, <2>1, <2>2, ReleaseOK
<1> QED BY <1>1, <1>2, <1>9, <1>13, <1>14, <1>16 DEF Fine

\* m2 differs from m in what is behind the pages only: in direct memory that
\* is allocated, free or the pool's.
SamePages(m, m2) ==
    /\ m2.ranges = m.ranges /\ m2.maps = m.maps /\ m2.flex = m.flex /\ m2.flexFree = m.flexFree
    /\ m2.pool = m.pool /\ m2.committed = m.committed /\ m2.host = m.host /\ m2.gpu = m.gpu
    /\ m2.torn = m.torn /\ m2.status = m.status

\* Backing pages that change owners leave the records in agreement.
LEMMA SamePagesOK ==
    ASSUME NEW m, Fine(m), NEW m2 \in Memory, SamePages(m, m2), BackingOK(m2)
    PROVE  Fine(m2)
<1>1. MemoryOK(m) /\ m.status # "Broken"
  BY DEF Fine
<1>2. HostOK(m2)
  BY <1>1 DEF MemoryOK, HostOK, SamePages
<1>3. GpuOK(m2)
  BY <1>1 DEF MemoryOK, GpuOK, SamePages
<1>4. /\ RangesOK(m2.ranges) /\ MapsOK(m2.ranges, m2.maps)
      /\ DOMAIN m2.flex = PagesOf(m2.ranges, {"Flexible"})
      /\ DOMAIN m2.pool = PagesOf(m2.ranges, {"Pooled"})
      /\ m2.status # "Broken"
  BY <1>1 DEF MemoryOK, SamePages
<1> QED BY <1>2, <1>3, <1>4 DEF Fine, MemoryOK

\* PhysicalMemory::Alloc finds pages that are free.
LEMMA FitFree ==
    ASSUME NEW m, NEW s, NEW n, FirstFit(m, s, n) < DirectPages
    PROVE  Span(FirstFit(m, s, n), n) \subseteq m.free
<1> DEFINE fits == {p \in Direct : p >= s /\ Span(p, n) \subseteq m.free}
<1>1. fits # {} /\ FirstFit(m, s, n) = Min(fits)
  BY MemoryAssumption DEF FirstFit
<1>2. fits \in SUBSET Nat
  BY MemoryAssumption DEF Direct
<1>3. Min(fits) \in fits
  BY <1>1, <1>2, MinIn
<1> QED BY <1>1, <1>3

\* KernelAllocateDirectMemory.
LEMMA AllocateOK ==
    ASSUME NEW m, Fine(m), NEW S, S \subseteq m.free
    PROVE  Fine([m EXCEPT !.free = @ \ S, !.allocated = @ \cup S])
<1> DEFINE z == [m EXCEPT !.free = @ \ S, !.allocated = @ \cup S]
<1>1. m \in Memory /\ BackingOK(m)
  BY DEF Fine, MemoryOK
<1>2. m.free \in SUBSET Direct /\ m.allocated \in SUBSET Direct
  BY <1>1 DEF Memory
<1>3. /\ z \in Memory /\ z.free = m.free \ S /\ z.allocated = m.allocated \cup S
      /\ z.expansions = m.expansions /\ z.poolFree = m.poolFree /\ SamePages(m, z)
  <2>1. m.free \ S \in SUBSET Direct /\ m.allocated \cup S \in SUBSET Direct
    BY <1>2
  <2> QED BY <1>1, <2>1 DEF Memory, SamePages
<1> HIDE DEF z
<1>4. BackingOK(z)
  <2>1. /\ m.free \cup m.allocated \cup UNION m.expansions = Direct
        /\ m.free \cap m.allocated = {}
        /\ (m.free \cup m.allocated) \cap (UNION m.expansions) = {}
    BY <1>1 DEF BackingOK
  <2>2. PICK X : X = UNION m.expansions
    OBVIOUS
  <2>3. /\ z.free \cup z.allocated \cup X = Direct
        /\ z.free \cap z.allocated = {}
        /\ (z.free \cup z.allocated) \cap X = {}
    BY <1>3, <2>1, <2>2
  <2>4. /\ \A A, B \in z.expansions : A # B => A \cap B = {}
        /\ Fills(z.flex, z.flexFree, Flexible)
        /\ Fills(z.pool, z.poolFree, UNION z.expansions)
        /\ z.committed = Cardinality(DOMAIN z.pool)
    BY <1>1, <1>3 DEF BackingOK, SamePages
  <2>5. \A b \in z.maps : Span(b.offset, b.size) \subseteq z.allocated
    BY <1>1, <1>3 DEF BackingOK, SamePages
  <2> QED BY <1>3, <2>2, <2>3, <2>4, <2>5 DEF BackingOK
<1>5. Fine(z)
  BY <1>3, <1>4, SamePagesOK
<1> QED BY <1>5 DEF z

\* KernelMemoryPoolExpand.
LEMMA ExpandOK ==
    ASSUME NEW m, Fine(m), NEW S, S \subseteq m.free
    PROVE  Fine([m EXCEPT !.free = @ \ S, !.expansions = @ \cup {S}, !.poolFree = @ \cup S])
<1> DEFINE z == [m EXCEPT !.free = @ \ S, !.expansions = @ \cup {S}, !.poolFree = @ \cup S]
<1>1. m \in Memory /\ BackingOK(m)
  BY DEF Fine, MemoryOK
<1>2. /\ m.free \in SUBSET Direct /\ m.expansions \in SUBSET SUBSET Direct
      /\ m.poolFree \in SUBSET Direct
  BY <1>1 DEF Memory
<1>3. /\ z \in Memory /\ z.free = m.free \ S /\ z.allocated = m.allocated
      /\ z.expansions = m.expansions \cup {S} /\ z.poolFree = m.poolFree \cup S
      /\ SamePages(m, z)
  <2>1. /\ m.free \ S \in SUBSET Direct /\ m.poolFree \cup S \in SUBSET Direct
        /\ m.expansions \cup {S} \in SUBSET SUBSET Direct
    BY <1>2
  <2> QED BY <1>1, <2>1 DEF Memory, SamePages
<1> HIDE DEF z
<1>4. BackingOK(z)
  <2>1. /\ m.free \cup m.allocated \cup UNION m.expansions = Direct
        /\ m.free \cap m.allocated = {}
        /\ (m.free \cup m.allocated) \cap (UNION m.expansions) = {}
    BY <1>1 DEF BackingOK
  <2>2. PICK X : X = UNION m.expansions
    OBVIOUS
  <2>3. UNION z.expansions = X \cup S
    BY <1>3, <2>2
  <2>4. /\ z.free \cup z.allocated \cup (X \cup S) = Direct
        /\ z.free \cap z.allocated = {}
        /\ (z.free \cup z.allocated) \cap (X \cup S) = {}
    BY <1>3, <2>1, <2>2
  <2>5. \A A, B \in z.expansions : A # B => A \cap B = {}
    <3>1. \A A \in m.expansions : A \cap S = {}
      BY <2>1
    <3>2. \A A, B \in m.expansions : A # B => A \cap B = {}
      BY <1>1 DEF BackingOK
    <3> QED BY <1>3, <3>1, <3>2
  <2>6. /\ Fills(z.flex, z.flexFree, Flexible)
        /\ z.committed = Cardinality(DOMAIN z.pool)
        /\ \A b \in z.maps : Span(b.offset, b.size) \subseteq z.allocated
    BY <1>1, <1>3 DEF BackingOK, SamePages
  <2>7. Fills(z.pool, z.poolFree, X \cup S)
    <3>1. Fills(m.pool, m.poolFree, X)
      BY <1>1, <2>2 DEF BackingOK
    <3>2. S \cap X = {}
      BY <2>1, <2>2
    <3> QED BY <1>3, <3>1, <3>2 DEF Fills, SamePages
  <2> QED BY <2>3, <2>4, <2>5, <2>6, <2>7 DEF BackingOK
<1>5. Fine(z)
  BY <1>3, <1>4, SamePagesOK
<1> QED BY <1>5 DEF z

\* PooledMemory::ReleaseExpansion: an expansion none of which is committed.
LEMMA ShrinkOK ==
    ASSUME NEW m, Fine(m), NEW S, S \in m.expansions, S \subseteq m.poolFree
    PROVE  Fine([m EXCEPT !.expansions = @ \ {S}, !.poolFree = @ \ S, !.free = @ \cup S])
<1> DEFINE z == [m EXCEPT !.expansions = @ \ {S}, !.poolFree = @ \ S, !.free = @ \cup S]
<1>1. m \in Memory /\ BackingOK(m)
  BY DEF Fine, MemoryOK
<1>2. /\ m.free \in SUBSET Direct /\ m.expansions \in SUBSET SUBSET Direct
      /\ m.poolFree \in SUBSET Direct
  BY <1>1 DEF Memory
<1>3. /\ z \in Memory /\ z.free = m.free \cup S /\ z.allocated = m.allocated
      /\ z.expansions = m.expansions \ {S} /\ z.poolFree = m.poolFree \ S
      /\ SamePages(m, z)
  BY <1>1, <1>2 DEF Memory, SamePages
<1> HIDE DEF z
<1>4. BackingOK(z)
  <2>1. /\ m.free \cup m.allocated \cup UNION m.expansions = Direct
        /\ m.free \cap m.allocated = {}
        /\ (m.free \cup m.allocated) \cap (UNION m.expansions) = {}
        /\ \A A, B \in m.expansions : A # B => A \cap B = {}
    BY <1>1 DEF BackingOK
  <2>2. PICK X : X = UNION m.expansions
    OBVIOUS
  <2>3. UNION z.expansions = X \ S
    BY <1>3, <2>1, <2>2
  <2>4. S \subseteq X
    BY <2>2
  <2>5. /\ z.free \cup z.allocated \cup (X \ S) = Direct
        /\ z.free \cap z.allocated = {}
        /\ (z.free \cup z.allocated) \cap (X \ S) = {}
    BY <1>3, <2>1, <2>2, <2>4
  <2>6. /\ Fills(z.flex, z.flexFree, Flexible)
        /\ z.committed = Cardinality(DOMAIN z.pool)
        /\ \A b \in z.maps : Span(b.offset, b.size) \subseteq z.allocated
        /\ \A A, B \in z.expansions : A # B => A \cap B = {}
    BY <1>1, <1>3 DEF BackingOK, SamePages
  <2>7. Fills(z.pool, z.poolFree, X \ S)
    <3>1. Fills(m.pool, m.poolFree, X)
      BY <1>1, <2>2 DEF BackingOK
    <3> QED BY <1>3, <2>4, <3>1 DEF Fills, SamePages
  <2> QED BY <2>3, <2>5, <2>6, <2>7 DEF BackingOK
<1>5. Fine(z)
  BY <1>3, <1>4, SamePagesOK
<1> QED BY <1>5 DEF z

\* PhysicalMemory::Release of pages that no mapping is a view of.
LEMMA DeallocateOK ==
    ASSUME NEW m, Fine(m), NEW S, S \subseteq m.allocated,
           \A b \in m.maps : Span(b.offset, b.size) \cap S = {},
           NEW z \in Memory, SamePages(m, z), z.free = m.free \cup S,
           z.allocated = m.allocated \ S, z.expansions = m.expansions, z.poolFree = m.poolFree
    PROVE  Fine(z)
<1>1. m \in Memory /\ BackingOK(m)
  BY DEF Fine, MemoryOK
<1>2. BackingOK(z)
  <2>1. /\ m.free \cup m.allocated \cup UNION m.expansions = Direct
        /\ m.free \cap m.allocated = {}
        /\ (m.free \cup m.allocated) \cap (UNION m.expansions) = {}
    BY <1>1 DEF BackingOK
  <2>2. PICK X : X = UNION m.expansions
    OBVIOUS
  <2>3. /\ z.free \cup z.allocated \cup X = Direct
        /\ z.free \cap z.allocated = {}
        /\ (z.free \cup z.allocated) \cap X = {}
    BY <2>1, <2>2
  <2>4. /\ \A A, B \in z.expansions : A # B => A \cap B = {}
        /\ Fills(z.flex, z.flexFree, Flexible)
        /\ Fills(z.pool, z.poolFree, UNION z.expansions)
        /\ z.committed = Cardinality(DOMAIN z.pool)
    BY <1>1 DEF BackingOK, SamePages
  <2>5. \A b \in z.maps : Span(b.offset, b.size) \subseteq z.allocated
    <3> SUFFICES ASSUME NEW b \in m.maps PROVE Span(b.offset, b.size) \subseteq m.allocated \ S
      BY DEF SamePages
    <3>1. Span(b.offset, b.size) \subseteq m.allocated
      BY <1>1 DEF BackingOK
    <3> QED BY <3>1
  <2> QED BY <2>2, <2>3, <2>4, <2>5 DEF BackingOK
<1> QED BY <1>2, SamePagesOK

\* FindMappings: views of S, and all of them.
LEMMA AliasFacts ==
    ASSUME NEW m, MemoryOK(m), NEW S
    PROVE  LET C == Aliases(m, S)
           IN  /\ AllRanges(C) /\ Owns(m, C) /\ \A x \in C : x.type = "Direct"
               /\ CellsOf(C) \subseteq CellsOf(m.maps) /\ CellsOf(C) \subseteq Pages
               /\ \A b \in m.maps : \A p \in Cells(b) : Base(b) + p \in S => p \in CellsOf(C)
<1> DEFINE V(b) == {p \in Cells(b) : b.offset + p - b.start \in S}
           C == Aliases(m, S)
<1>1. /\ AllRanges(m.maps) /\ \A b \in m.maps : b.type = "Direct"
      /\ CellsOf(m.maps) = PagesOf(m.ranges, {"Direct"})
  BY DEF MemoryOK, MapsOK
<1>2. \A x : x \in C <=> \E b \in m.maps : x \in PartsOf(b, V(b))
  BY DEF Aliases
<1>3. ASSUME NEW b \in m.maps
      PROVE  /\ \A x \in PartsOf(b, V(b)) : IsRange(x) /\ x.type = "Direct" /\ Cells(x) \subseteq Cells(b)
             /\ \A p \in V(b) : \E x \in PartsOf(b, V(b)) : p \in Cells(x)
  <2>1. IsRange(b) /\ b.type = "Direct"
    BY <1>1 DEF AllRanges
  <2>2. PICK W \in SUBSET Cells(b) : W = V(b)
    OBVIOUS
  <2> HIDE DEF V
  <2>3. \A x \in PartsOf(b, W) : IsRange(x) /\ PartOf(x, b)
    BY <2>1, <2>2, PartsOfFacts
  <2>4. \A u, v \in Pages : u <= v /\ u..v \subseteq W
                 => \E x \in PartsOf(b, W) : u..v \subseteq Cells(x)
    BY <2>1, <2>2, PartsOfFacts
  <2>5. ASSUME NEW p \in W PROVE \E x \in PartsOf(b, W) : p \in Cells(x)
    <3>1. p \in Pages /\ p \in Int
      <4>1. p \in Pages
        BY <2>1, <2>2, CellsIn
      <4> QED BY <4>1, MemoryAssumption DEF Pages
    <3>2. p..p = {p}
      BY <3>1
    <3>3. \E x \in PartsOf(b, W) : p..p \subseteq Cells(x)
      BY <2>4, <3>1, <3>2
    <3> QED BY <3>2, <3>3
  <2> QED BY <2>1, <2>2, <2>3, <2>5 DEF PartOf
<1> HIDE DEF C
<1>4. AllRanges(C) /\ \A x \in C : x.type = "Direct"
  BY <1>2, <1>3 DEF AllRanges
<1>5. \A x \in C : Cells(x) \subseteq CellsOf(m.maps)
  <2> SUFFICES ASSUME NEW x \in C, NEW p \in Cells(x) PROVE p \in CellsOf(m.maps)
    OBVIOUS
  <2>1. PICK b \in m.maps : x \in PartsOf(b, V(b))
    BY <1>2
  <2>2. p \in Cells(b)
    BY <1>3, <2>1
  <2> QED BY <2>2, InPagesOf
<1>6. Owns(m, C)
  <2>1. \A c \in C : Cells(c) \subseteq PagesOf(m.ranges, {c.type})
    BY <1>1, <1>4, <1>5
  <2> QED BY <1>4, <2>1 DEF Owns
<1>7. CellsOf(C) \subseteq CellsOf(m.maps) /\ CellsOf(C) \subseteq Pages
  <2>1. CellsOf(C) \subseteq CellsOf(m.maps)
    BY <1>5 DEF CellsOf
  <2>2. CellsOf(m.maps) \subseteq Pages
    BY <1>1, CellsIn DEF AllRanges, CellsOf
  <2> QED BY <2>1, <2>2
<1>8. ASSUME NEW b \in m.maps, NEW p \in Cells(b), Base(b) + p \in S PROVE p \in CellsOf(C)
  <2>1. IsRange(b)
    BY <1>1 DEF AllRanges
  <2>2. b.offset \in Int /\ b.start \in Pages /\ p \in Pages
    BY <1>8, <2>1, CellsIn DEF IsRange, Range0
  <2>3. b.offset + p - b.start = Base(b) + p
    BY <2>2, MemoryAssumption DEF Pages, Base
  <2>4. p \in V(b)
    BY <1>8, <2>3
  <2>5. PICK x \in PartsOf(b, V(b)) : p \in Cells(x)
    BY <1>3, <2>4
  <2>6. x \in C
    BY <1>2, <2>5
  <2> QED BY <2>5, <2>6, InPagesOf
<1> QED BY <1>4, <1>6, <1>7, <1>8 DEF C

\* What ReleaseDirectMemoryInternal leaves when nothing fails.
Deallocated(m, S) ==
    LET aliases == Aliases(m, S)
        seen    == CellsOf(aliases)
    IN  [ReleaseChunks(UnmapGpuRange(m, seen), aliases) EXCEPT
            !.ranges = RemovePages(@, seen), !.allocated = @ \ S, !.free = @ \cup S]

\* ReleaseDirectMemoryInternal, and its way back.
LEMMA ReleaseDirectOK ==
    ASSUME NEW m, Fine(m), NEW S
    PROVE  /\ S \subseteq m.allocated => Fine(Deallocated(m, S))
           /\ Fine(MapGpuRange(m, CellsOf(Aliases(m, S))))
<1>1. PICK C : C = Aliases(m, S)
  OBVIOUS
<1>2. /\ MemoryOK(m) /\ m \in Memory /\ m.status # "Broken" /\ RangesOK(m.ranges)
      /\ AllRanges(m.ranges) /\ Disjoint(m.ranges) /\ GpuOK(m) /\ BackingOK(m)
      /\ AllRanges(m.maps) /\ Disjoint(m.maps) /\ \A b \in m.maps : b.type = "Direct"
      /\ CellsOf(m.maps) = PagesOf(m.ranges, {"Direct"})
  BY DEF Fine, MemoryOK, RangesOK, MapsOK
<1>3. /\ AllRanges(C) /\ Owns(m, C) /\ \A x \in C : x.type = "Direct"
      /\ CellsOf(C) \subseteq CellsOf(m.maps) /\ CellsOf(C) \subseteq Pages
      /\ \A b \in m.maps : \A p \in Cells(b) : Base(b) + p \in S => p \in CellsOf(C)
  <2>1. MemoryOK(m)
    BY <1>2
  <2> QED BY <1>1, <2>1, AliasFacts
<1>4. PICK Q \in SUBSET Pages : Q = CellsOf(C)
  BY <1>3
<1>5. Q \subseteq PagesOf(m.ranges, CommittedTypes)
  <2>1. {"Direct"} \subseteq CommittedTypes
    BY DEF CommittedTypes, BackedTypes
  <2>2. PagesOf(m.ranges, {"Direct"}) \subseteq PagesOf(m.ranges, CommittedTypes)
    BY <2>1, PagesOfUnion
  <2> QED BY <1>2, <1>3, <1>4, <2>2
<1>6. Fine(MapGpuRange(m, Q))
  <2> DEFINE z == MapGpuRange(m, Q)
  <2>1. m.gpu \in SUBSET Pages
    BY <1>2 DEF Memory
  <2>2. z \in Memory /\ z.gpu = m.gpu \cup Q /\ z.ranges = m.ranges /\ SameOwners(m, z)
    BY <1>2, <1>4, <2>1 DEF Memory, MapGpuRange, SameOwners
  <2> HIDE DEF z
  <2>3. GpuOK(z)
    BY <1>2, <1>5, <2>2 DEF GpuOK, SameOwners
  <2>4. HostOK(z)
    BY <1>2, <2>2 DEF MemoryOK, HostOK, SameOwners
  <2>5. BackingOK(z)
    BY <1>2, <2>2 DEF BackingOK, SameOwners
  <2>6. MemoryOK(z)
    BY <1>2, <2>2, <2>3, <2>4, <2>5 DEF MemoryOK, SameOwners
  <2> QED BY <1>2, <2>2, <2>6 DEF Fine, SameOwners, z
<1>7. ASSUME S \subseteq m.allocated PROVE Fine(Deallocated(m, S))
  <2> DEFINE u == ReleaseChunks(UnmapGpuRange(m, Q), C)
             R == RemovePages(m.ranges, Q)
             w == [u EXCEPT !.ranges = R]
             z == [u EXCEPT !.ranges = R, !.allocated = @ \ S, !.free = @ \cup S]
  <2>1. /\ u \in Memory /\ Freed(m, u, C) /\ u.ranges = m.ranges /\ u.free = m.free
        /\ u.allocated = m.allocated /\ u.expansions = m.expansions
        /\ u.gpu = m.gpu \ Q /\ u.torn = m.torn /\ u.status = m.status
    <3>1. MemoryOK(m) /\ Owns(m, C)
      BY <1>2, <1>3
    <3> HIDE DEF w, z, R
    <3> QED BY <3>1, ReleasedFields
  <2>2. Deallocated(m, S) = z
    BY <1>1, <1>4, <2>1 DEF Deallocated
  <2> HIDE DEF u
  <2>3. /\ RangesOK(R)
        /\ \A T : PagesOf(R, T) = PagesOf(m.ranges, T) \ Q
        /\ \A x \in R : x.type = "Direct" =>
              Cells(x) \subseteq Pages \ Q /\ \E r \in m.ranges : PartOf(x, r)
    BY <1>2, RemoveFacts
  <2>4. R \in SUBSET Range0
    BY <2>3, RangesTyped DEF RangesOK
  <2> HIDE DEF R
  <2>5. /\ w \in Memory /\ Freed(m, w, C) /\ w.ranges = R /\ w.free = m.free
        /\ w.allocated = m.allocated /\ w.expansions = m.expansions
        /\ w.gpu = m.gpu \ Q /\ w.torn = m.torn /\ w.status = m.status
    BY <2>1, <2>4 DEF Memory, Freed
  <2>6. m.free \in SUBSET Direct /\ m.allocated \in SUBSET Direct
    BY <1>2 DEF Memory
  <2>7. m.allocated \ S \in SUBSET Direct /\ m.free \cup S \in SUBSET Direct
    BY <1>7, <2>6
  <2>8. /\ z \in Memory /\ SamePages(w, z) /\ z.free = w.free \cup S
        /\ z.allocated = w.allocated \ S /\ z.expansions = w.expansions
        /\ z.poolFree = w.poolFree
    BY <2>1, <2>4, <2>7 DEF Memory, SamePages
  <2> HIDE DEF w, z
  <2>9. GpuOK(w)
    <3>1. PagesOf(R, CommittedTypes) = PagesOf(m.ranges, CommittedTypes) \ Q
      BY <2>3
    <3> QED BY <1>2, <2>5, <3>1 DEF GpuOK
  <2>10. MemoryOK(w)
    <3>1. \A T \in SUBSET CommittedTypes : PagesOf(w.ranges, T) = PagesOf(m.ranges, T) \ CellsOf(C)
      BY <1>4, <2>3, <2>5
    <3>2. RangesOK(w.ranges)
          /\ \A x \in w.ranges : x.type = "Direct" =>
                Cells(x) \cap CellsOf(C) = {} /\ \E r \in m.ranges : PartOf(x, r)
      BY <1>4, <2>3, <2>5
    <3> QED BY <1>2, <1>3, <2>5, <2>9, <3>1, <3>2, ReleaseOK
  <2>11. PagesOf(C, {"Direct"}) = Q
    BY <1>3, <1>4 DEF PagesOf, CellsOf
  <2>12. \A b \in w.maps : Span(b.offset, b.size) \cap S = {}
    <3> SUFFICES ASSUME NEW b \in w.maps, NEW x \in Span(b.offset, b.size), x \in S PROVE FALSE
      OBVIOUS
    <3>1. PICK K \in SUBSET Pages : K = Pages \ Q
      OBVIOUS
    <3>2. b \in Parts(m.maps, K)
      BY <2>5, <2>11, <3>1 DEF Freed
    <3>3. IsRange(b) /\ Cells(b) \subseteq K
          /\ \E c \in m.maps : Cells(b) \subseteq Cells(c) /\ Base(b) = Base(c)
      <4>1. /\ AllRanges(Parts(m.maps, K)) /\ \A d \in Parts(m.maps, K) : Cells(d) \subseteq K
            /\ \A d \in Parts(m.maps, K) : \E c \in m.maps : Cells(d) \subseteq Cells(c) /\ Base(d) = Base(c)
        BY <1>2, CutMaps
      <4> QED BY <3>2, <4>1 DEF AllRanges
    <3>4. PICK c \in m.maps : Cells(b) \subseteq Cells(c) /\ Base(b) = Base(c)
      BY <3>3
    <3>5. b.offset \in Int /\ b.start \in Int /\ b.size \in Int /\ x \in Int
      <4>1. b.offset \in Int /\ b.start \in Pages /\ b.size \in Nat
        BY <3>3 DEF IsRange, Range0
      <4> QED BY <4>1, MemoryAssumption DEF Pages, Span
    <3>6. x - Base(b) \in Cells(b) /\ Base(b) + (x - Base(b)) = x
      BY <3>5 DEF Span, Cells, Base
    <3>7. x - Base(b) \in CellsOf(C)
      BY <1>3, <3>4, <3>6
    <3> QED BY <1>4, <3>1, <3>3, <3>6, <3>7
  <2>13. Fine(w)
    BY <1>2, <2>5, <2>10 DEF Fine
  <2>14. S \subseteq w.allocated
    BY <1>7, <2>5
  <2>15. Fine(z)
    BY <2>8, <2>12, <2>13, <2>14, DeallocateOK
  <2> QED BY <2>2, <2>15
<1> QED BY <1>1, <1>4, <1>6, <1>7

\* The memory of a program that starts.
LEMMA InitFine ==
    ASSUME MemoryInit
    PROVE  Fine(mem)
<1>1. PICK f : f = <<>>
  OBVIOUS
<1>2. DOMAIN f = {}
  BY <1>1
<1>3. \A S : f \in Partial(S)
  <2> SUFFICES ASSUME NEW S PROVE f \in Partial(S)
    OBVIOUS
  <2>1. {} \in SUBSET Pages
    OBVIOUS
  <2>2. f \in [{} -> S]
    BY <1>1
  <2> QED BY <2>1, <2>2 DEF Partial
<1>4. /\ mem.ranges = {} /\ mem.free = Direct /\ mem.allocated = {} /\ mem.expansions = {}
      /\ mem.maps = {} /\ mem.flex = f /\ mem.flexFree = Flexible /\ mem.pool = f
      /\ mem.poolFree = {} /\ mem.committed = 0 /\ mem.host = [p \in Pages |-> Unmapped]
      /\ mem.gpu = {} /\ mem.torn = FALSE /\ mem.status = "Up"
  BY <1>1 DEF MemoryInit
<1>5. mem \in Memory
  <2>1. Unmapped \in Int
    BY DEF Unmapped
  <2>2. mem.host \in [Pages -> Int]
    BY <1>4, <2>1
  <2> DEFINE z == [ranges |-> {}, free |-> Direct, allocated |-> {}, expansions |-> {},
                   maps |-> {}, flex |-> f, flexFree |-> Flexible, pool |-> f,
                   poolFree |-> {}, committed |-> 0, host |-> mem.host,
                   gpu |-> {}, torn |-> FALSE, status |-> "Up"]
  <2>3. mem = z
    BY <1>1, <1>4 DEF MemoryInit
  <2>4. z \in Memory
    BY <1>3, <2>2 DEF Memory
  <2> QED BY <2>3, <2>4
<1>6. \A T : PagesOf({}, T) = {} /\ CellsOf({}) = {}
  BY DEF PagesOf, CellsOf
<1>7. RangesOK(mem.ranges) /\ MapsOK(mem.ranges, mem.maps)
  BY <1>4, <1>6 DEF RangesOK, MapsOK, AllRanges, Disjoint, Merged
<1>8. DOMAIN mem.flex = PagesOf(mem.ranges, {"Flexible"})
      /\ DOMAIN mem.pool = PagesOf(mem.ranges, {"Pooled"})
  BY <1>2, <1>4, <1>6
<1>9. HostOK(mem)
  BY <1>2, <1>4, <1>6 DEF HostOK
<1>10. BackingOK(mem)
  <2>1. Taken(f) = {}
    BY <1>2 DEF Taken, Images
  <2>2. Fills(f, Flexible, Flexible) /\ Fills(f, {}, {})
    BY <1>2, <2>1 DEF Fills
  <2>3. Cardinality(DOMAIN f) = 0
    BY <1>2, FS_EmptySet
  <2>4. UNION mem.expansions = {}
    BY <1>4
  <2>5. /\ mem.free \cup mem.allocated \cup UNION mem.expansions = Direct
        /\ mem.free \cap mem.allocated = {}
        /\ (mem.free \cup mem.allocated) \cap (UNION mem.expansions) = {}
        /\ \A S, T \in mem.expansions : S # T => S \cap T = {}
        /\ \A b \in mem.maps : Span(b.offset, b.size) \subseteq mem.allocated
    BY <1>4, <2>4
  <2> QED BY <1>4, <2>2, <2>3, <2>4, <2>5 DEF BackingOK
<1>11. GpuOK(mem)
  BY <1>4, <1>6 DEF GpuOK
<1>12. mem.status # "Broken"
  BY <1>4
<1> QED BY <1>5, <1>7, <1>8, <1>9, <1>10, <1>11, <1>12 DEF Fine, MemoryOK

\* A call the guest must not make ends the program.
LEMMA EndedFine ==
    ASSUME NEW m, Fine(m)
    PROVE  /\ Fine([m EXCEPT !.status = "Ended"])
           /\ Fine([m EXCEPT !.status = "Escaped"])
<1>1. MemoryOK(m)
  BY DEF Fine
<1> QED BY <1>1, StatusOK

\* The calls about direct memory.
LEMMA DirectCalls ==
    ASSUME Fine(mem), NEW n \in Nat \ {0}, NEW s, NEW fault,
           AllocateDirectMemory(s, n) \/ MemoryPoolExpand(s, n) \/ ReleaseDirectMemory(s, n, fault)
    PROVE  Fine(mem')
<1>1. CASE AllocateDirectMemory(s, n)
  <2>1. PICK p : p = FirstFit(mem, s, n)
    OBVIOUS
  <2>2. p < DirectPages /\ mem' = [mem EXCEPT !.free = @ \ Span(p, n), !.allocated = @ \cup Span(p, n)]
    BY <1>1, <2>1 DEF AllocateDirectMemory
  <2>3. Span(p, n) \subseteq mem.free
    BY <2>1, <2>2, FitFree
  <2> QED BY <2>2, <2>3, AllocateOK
<1>2. CASE MemoryPoolExpand(s, n)
  <2>1. PICK p : p = FirstFit(mem, s, n)
    OBVIOUS
  <2>2. p < DirectPages
        /\ mem' = [mem EXCEPT !.free = @ \ Span(p, n), !.expansions = @ \cup {Span(p, n)},
                              !.poolFree = @ \cup Span(p, n)]
    BY <1>2, <2>1 DEF MemoryPoolExpand
  <2>3. Span(p, n) \subseteq mem.free
    BY <2>1, <2>2, FitFree
  <2> QED BY <2>2, <2>3, ExpandOK
<1>3. CASE ReleaseDirectMemory(s, n, fault)
  <2>1. PICK S : S = Span(s, n)
    OBVIOUS
  <2>2. CASE IsIdleExpansion(S)
    <3>1. mem' = [mem EXCEPT !.expansions = @ \ {S}, !.poolFree = @ \ S, !.free = @ \cup S]
      BY <1>3, <2>1, <2>2 DEF ReleaseDirectMemory
    <3>2. S \in mem.expansions /\ S \subseteq mem.poolFree
      BY <2>2 DEF IsIdleExpansion
    <3> QED BY <3>1, <3>2, ShrinkOK
  <2>3. CASE ~IsIdleExpansion(S) /\ \E b \in Aliases(mem, S) : ~Owned(mem, b)
    <3>1. mem' = [mem EXCEPT !.status = "Escaped"]
      BY <1>3, <2>1, <2>3 DEF ReleaseDirectMemory
    <3> QED BY <3>1, EndedFine
  <2>4. CASE ~IsIdleExpansion(S) /\ ~\E b \in Aliases(mem, S) : ~Owned(mem, b)
    <3>1. S \subseteq mem.allocated
      BY <1>3, <2>1, <2>4 DEF ReleaseDirectMemory, IsAllocatedSpan
    <3>2. \/ mem' = MapGpuRange(mem, CellsOf(Aliases(mem, S)))
          \/ mem' = Deallocated(mem, S)
      BY <1>3, <2>1, <2>4 DEF ReleaseDirectMemory, Deallocated
    <3> QED BY <3>1, <3>2, ReleaseDirectOK
  <2> QED BY <2>2, <2>3, <2>4
<1> QED BY <1>1, <1>2, <1>3

\* The calls that map or reserve pages.
LEMMA MapCalls ==
    ASSUME Fine(mem), NEW n \in Nat \ {0}, NEW a \in 0..MaxPage, NEW fixed \in BOOLEAN,
           NEW fault, a + n - 1 <= MaxPage, NEW offset \in Int,
           \/ Reserve(a, n, fixed, fault)
           \/ MemoryPoolReserve(a, n, fixed, fault)
           \/ MapFlexibleMemory(a, n, fixed, fault)
           \/ MapDirectMemory(a, n, fixed, offset, fault)
    PROVE  Fine(mem')
<1>1. fixed => a # 0
  BY DEF Reserve, MemoryPoolReserve, MapFlexibleMemory, MapDirectMemory
<1>2. Fine(ReserveVirtualRange(mem, a, n, fixed, fault).mem)
  BY <1>1, ReserveOK
<1>3. CASE Reserve(a, n, fixed, fault)
  BY <1>2, <1>3 DEF Reserve
<1>4. CASE MemoryPoolReserve(a, n, fixed, fault)
  <2>1. PICK pl : pl = ReserveVirtualRange(mem, a, n, fixed, fault)
    OBVIOUS
  <2>2. mem' = PoolReservedAt(pl, n)
    BY <1>4, <2>1 DEF MemoryPoolReserve
  <2>3. Fine(PoolReservedAt(pl, n))
    BY <1>2, <2>1, PoolReservedOK
  <2> QED BY <2>2, <2>3
<1>5. CASE MapFlexibleMemory(a, n, fixed, fault)
  <2>1. PICK pl : pl = Place(mem, a, n, fixed, FALSE, fault)
    OBVIOUS
  <2>2. mem' = FlexibleIn(pl, n, fault) /\ n <= Cardinality(mem.flexFree)
    BY <1>5, <2>1 DEF MapFlexibleMemory
  <2>3. PlaceOK(mem, pl, n)
    BY <1>1, <2>1, PlaceIsOK
  <2>4. Fine(FlexibleIn(pl, n, fault))
    BY <2>2, <2>3, FlexibleAtOK
  <2> QED BY <2>2, <2>4
<1>6. CASE MapDirectMemory(a, n, fixed, offset, fault)
  <2>1. PICK pl : pl = Place(mem, a, n, fixed, TRUE, fault)
    OBVIOUS
  <2>2. mem' = DirectAt(pl, n, offset, fault) /\ Span(offset, n) \subseteq mem.allocated
    BY <1>6, <2>1 DEF MapDirectMemory, CanMapDirect
  <2>3. PlaceOK(mem, pl, n)
    BY <1>1, <2>1, PlaceIsOK
  <2>4. Fine(DirectAt(pl, n, offset, fault))
    BY <2>2, <2>3, DirectAtOK
  <2> QED BY <2>2, <2>4
<1> QED BY <1>3, <1>4, <1>5, <1>6

\* The calls about a span of pages.
LEMMA SpanCalls ==
    ASSUME Fine(mem), NEW n \in Nat \ {0}, NEW a \in Pages, a + n - 1 <= MaxPage,
           NEW fault,
           \/ Munmap(a, n, fault)
           \/ MemoryPoolDecommit(a, n, fault)
           \/ \E name \in Names : SetVirtualRangeName(a, n, name)
           \/ FreeGuestMemory(a, n)
           \/ \E prot \in Prots : Mprotect(a, n, prot, fault)
           \/ MemoryPoolCommit(a, n, fault)
    PROVE  Fine(mem')
<1>1. CASE Munmap(a, n, fault)
  <2>1. /\ QuerySpan(mem.ranges, a, n) # {}
        /\ mem' = UnmapMemoryRange(UnmapGpuRange(mem, Span(a, n)), QuerySpan(mem.ranges, a, n), fault)
    BY <1>1 DEF Munmap
  <2> QED BY <2>1, MunmapOK
<1>2. CASE MemoryPoolDecommit(a, n, fault)
  <2> DEFINE chunks == QuerySpan(mem.ranges, a, n)
             C == {r \in chunks : r.type = "Pooled"}
  <2>1. ArePooled(C, chunks)
    BY DEF ArePooled
  <2>2. AllOf(chunks, {"Pooled", "PoolReserved"})
    BY <1>2 DEF MemoryPoolDecommit
  <2>3. PICK D : D = C
    OBVIOUS
  <2>4. (\A r \in D : Releasable(mem, r)) /\ Fine(Decommitted(mem, Span(a, n), D))
    BY <2>1, <2>2, <2>3, DecommitOK
  <2>5. mem' = [mem EXCEPT !.status = "Ended"] \/ mem' = Decommitted(mem, Span(a, n), D)
    BY <1>2, <2>3, <2>4 DEF MemoryPoolDecommit, Decommitted, Reserved
  <2> QED BY <2>4, <2>5, EndedFine
<1>3. CASE \E name \in Names : SetVirtualRangeName(a, n, name)
  <2>0. PICK name \in Names : SetVirtualRangeName(a, n, name)
    BY <1>3
  <2>1. name \in AllNames
    BY <2>0 DEF AllNames
  <2>2. mem' = [mem EXCEPT !.ranges = Edit(@, a, n, "name", name)]
    BY <2>0 DEF SetVirtualRangeName
  <2> QED BY <2>1, <2>2, SetNameOK
<1>4. CASE FreeGuestMemory(a, n)
  <2>1. CASE ~AllOf(QuerySpan(mem.ranges, a, n), {"Code", "Runtime"})
    <3>1. mem' = [mem EXCEPT !.status = "Ended"]
      BY <1>4, <2>1 DEF FreeGuestMemory
    <3> QED BY <3>1, EndedFine
  <2>2. CASE AllOf(QuerySpan(mem.ranges, a, n), {"Code", "Runtime"})
    <3>1. /\ HostIs(mem, Span(a, n), Private)
          /\ Fine([UnmapHost(UnmapGpuRange(mem, Span(a, n)), Span(a, n))
                      EXCEPT !.ranges = RemoveRange(@, a, n)])
      BY <2>2, FreeGuestOK
    <3>2. mem' = [UnmapHost(UnmapGpuRange(mem, Span(a, n)), Span(a, n))
                      EXCEPT !.ranges = RemoveRange(@, a, n)]
      BY <1>4, <2>2, <3>1 DEF FreeGuestMemory
    <3> QED BY <3>1, <3>2
  <2> QED BY <2>1, <2>2
<1>5. CASE \E prot \in Prots : Mprotect(a, n, prot, fault)
  <2>0. PICK prot \in Prots : Mprotect(a, n, prot, fault)
    BY <1>5
  <2> DEFINE chunks == QuerySpan(mem.ranges, a, n)
  <2>1. CASE fault = 0 /\ AllOf(chunks, CommittedTypes)
    <3>1. chunks # {}
      BY <2>1 DEF AllOf
    <3>2. mem' = [mem EXCEPT
                    !.maps = ProtectMappings(@, {r \in chunks : r.type = "Direct"}, prot),
                    !.ranges = Edit(@, a, n, "prot", prot)]
      BY <2>0, <2>1 DEF Mprotect
    <3> QED BY <2>0, <3>1, <3>2, MprotectOK
  <2>2. CASE ~(fault = 0 /\ AllOf(chunks, CommittedTypes))
    <3>1. mem' = [mem EXCEPT !.status = "Ended"]
      BY <2>0, <2>2 DEF Mprotect
    <3> QED BY <3>1, EndedFine
  <2> QED BY <2>1, <2>2
<1>6. CASE MemoryPoolCommit(a, n, fault)
  <2>1. PICK hosts : hosts = {r \in mem.ranges : r.type = "PoolReserved" /\ Span(a, n) \subseteq Cells(r)}
    OBVIOUS
  <2>2. PICK v : v = (CHOOSE r \in hosts : TRUE).name
    OBVIOUS
  <2>3. hosts # {} /\ n <= Cardinality(mem.poolFree)
    BY <1>6, <2>1 DEF MemoryPoolCommit
  <2>4. Span(a, n) \subseteq PagesOf(mem.ranges, Reservations) /\ v \in AllNames
    BY <2>1, <2>2, <2>3, PoolHostOK
  <2> DEFINE g == Lowest(mem.poolFree, a, n)
             z == MapGpuRange(
                      [SetHost(mem, g) EXCEPT
                          !.pool = Onto(g, @),
                          !.poolFree = @ \ Taken(g),
                          !.committed = @ + n,
                          !.ranges = AddRange(RemoveRange(@, a, n),
                                              NewRange(a, n, "Pooled", 0, "RW", v))],
                      Span(a, n))
  <2>5. mem' = mem \/ mem' = z
    BY <1>6, <2>1, <2>2 DEF MemoryPoolCommit
  <2>6. Fine(z)
    BY <2>3, <2>4, CommitOK
  <2> HIDE DEF z
  <2> QED BY <2>5, <2>6
<1> QED BY <1>1, <1>2, <1>3, <1>4, <1>5, <1>6

\* AllocateGuestRuntimeMemory.
LEMMA RuntimeCall ==
    ASSUME Fine(mem), NEW n \in Nat \ {0}, NEW a \in Pages, a + n - 1 <= MaxPage,
           NEW fault, NEW t \in PrivateTypes, NEW fixed \in BOOLEAN,
           AllocateGuestRuntimeMemory(a, n, t, fixed, fault)
    PROVE  Fine(mem')
<1>1. PICK x : x = IF fixed THEN a ELSE FindGuestFreeRange(mem, a, n)
  OBVIOUS
<1> DEFINE m1 == UnmapGpuRange(mem, Span(x, n))
           z  == MapGpuRange([SetHost(m1, [p \in Span(x, n) |-> Private])
                     EXCEPT !.ranges = AddRange(@, NewRange(x, n, t, 0, "RW", "rt"))], Span(x, n))
<1>2. x # 0 /\ ~Overlapping(mem.ranges, x, n) /\ (mem' = m1 \/ mem' = z)
  BY <1>1 DEF AllocateGuestRuntimeMemory
<1>3. x \in Pages /\ x + n - 1 <= MaxPage
  <2>1. CASE fixed
    BY <1>1, <2>1
  <2>2. CASE ~fixed
    BY <1>1, <1>2, <2>2, FoundFree
  <2> QED BY <2>1, <2>2
<1>4. Fine(m1) /\ Fine(z)
  BY <1>2, <1>3, RuntimeOK
<1> HIDE DEF m1, z
<1> QED BY <1>2, <1>4

\* Every call leaves the memory in step.
LEMMA NextFine ==
    ASSUME Fine(mem), MemoryNext
    PROVE  Fine(mem')
<1>1. \A n \in Lengths : n \in Nat \ {0}
  BY MemoryAssumption DEF Lengths
<1>2. \A x \in Direct : x \in Int
  BY MemoryAssumption DEF Direct
<1>3. CASE \E s \in Direct, n \in Lengths : AllocateDirectMemory(s, n) \/ MemoryPoolExpand(s, n)
  <2>1. PICK s \in Direct, n \in Lengths : AllocateDirectMemory(s, n) \/ MemoryPoolExpand(s, n)
    BY <1>3
  <2>2. n \in Nat \ {0}
    BY <1>1
  <2> QED BY <2>1, <2>2, DirectCalls
<1>4. CASE \E offset \in Direct, n \in Lengths, fault \in Unmapping :
              ReleaseDirectMemory(offset, n, fault)
  <2>1. PICK offset \in Direct, n \in Lengths, fault \in Unmapping :
           ReleaseDirectMemory(offset, n, fault)
    BY <1>4
  <2>2. n \in Nat \ {0}
    BY <1>1
  <2> QED BY <2>1, <2>2, DirectCalls
<1>5. CASE \E n \in Lengths, a \in 0..MaxPage, fixed \in BOOLEAN, fault \in Unmapping \cup {-1} :
              /\ a + n - 1 <= MaxPage
              /\ \/ Reserve(a, n, fixed, fault)
                 \/ MemoryPoolReserve(a, n, fixed, fault)
                 \/ MapFlexibleMemory(a, n, fixed, fault)
                 \/ \E offset \in Direct : MapDirectMemory(a, n, fixed, offset, fault)
  <2>1. PICK n \in Lengths, a \in 0..MaxPage, fixed \in BOOLEAN, fault \in Unmapping \cup {-1} :
              /\ a + n - 1 <= MaxPage
              /\ \/ Reserve(a, n, fixed, fault)
                 \/ MemoryPoolReserve(a, n, fixed, fault)
                 \/ MapFlexibleMemory(a, n, fixed, fault)
                 \/ \E offset \in Direct : MapDirectMemory(a, n, fixed, offset, fault)
    BY <1>5
  <2>2. n \in Nat \ {0}
    BY <1>1
  <2>3. CASE \E offset \in Direct : MapDirectMemory(a, n, fixed, offset, fault)
    <3>1. PICK offset \in Direct : MapDirectMemory(a, n, fixed, offset, fault)
      BY <2>3
    <3>2. offset \in Int
      BY <1>2
    <3> QED BY <2>1, <2>2, <3>1, <3>2, MapCalls
  <2>4. 0 \in Int
    OBVIOUS
  <2> QED BY <2>1, <2>2, <2>3, <2>4, MapCalls
<1>6. CASE \E n \in Lengths, a \in Pages :
              /\ a + n - 1 <= MaxPage
              /\ \/ \E fault \in Unmapping : Munmap(a, n, fault) \/ MemoryPoolDecommit(a, n, fault)
                 \/ \E name \in Names : SetVirtualRangeName(a, n, name)
                 \/ FreeGuestMemory(a, n)
                 \/ \E fault \in {0, -1} :
                       \/ \E type \in {"Stack", "Code", "Runtime"}, fixed \in BOOLEAN :
                             AllocateGuestRuntimeMemory(a, n, type, fixed, fault)
                       \/ \E prot \in Prots : Mprotect(a, n, prot, fault)
                       \/ MemoryPoolCommit(a, n, fault)
  <2>1. PICK n \in Lengths, a \in Pages :
              /\ a + n - 1 <= MaxPage
              /\ \/ \E fault \in Unmapping : Munmap(a, n, fault) \/ MemoryPoolDecommit(a, n, fault)
                 \/ \E name \in Names : SetVirtualRangeName(a, n, name)
                 \/ FreeGuestMemory(a, n)
                 \/ \E fault \in {0, -1} :
                       \/ \E type \in {"Stack", "Code", "Runtime"}, fixed \in BOOLEAN :
                             AllocateGuestRuntimeMemory(a, n, type, fixed, fault)
                       \/ \E prot \in Prots : Mprotect(a, n, prot, fault)
                       \/ MemoryPoolCommit(a, n, fault)
    BY <1>6
  <2>2. n \in Nat \ {0} /\ a \in Pages /\ a + n - 1 <= MaxPage
    BY <1>1, <2>1
  <2>4. CASE \E fault \in Unmapping : Munmap(a, n, fault) \/ MemoryPoolDecommit(a, n, fault)
    BY <2>2, <2>4, SpanCalls
  <2>5. CASE \E name \in Names : SetVirtualRangeName(a, n, name)
    BY <2>2, <2>5, SpanCalls
  <2>6. CASE FreeGuestMemory(a, n)
    BY <2>2, <2>6, SpanCalls
  <2>7. CASE \E fault \in {0, -1} :
                \E type \in {"Stack", "Code", "Runtime"}, fixed \in BOOLEAN :
                   AllocateGuestRuntimeMemory(a, n, type, fixed, fault)
    <3>1. PICK fault \in {0, -1}, type \in {"Stack", "Code", "Runtime"}, fixed \in BOOLEAN :
             AllocateGuestRuntimeMemory(a, n, type, fixed, fault)
      BY <2>7
    <3>2. type \in PrivateTypes
      BY <3>1 DEF PrivateTypes
    <3> QED BY <2>2, <3>1, <3>2, RuntimeCall
  <2>8. CASE \E fault \in {0, -1} : \E prot \in Prots : Mprotect(a, n, prot, fault)
    BY <2>2, <2>8, SpanCalls
  <2>9. CASE \E fault \in {0, -1} : MemoryPoolCommit(a, n, fault)
    BY <2>2, <2>9, SpanCalls
  <2> QED BY <2>1, <2>4, <2>5, <2>6, <2>7, <2>8, <2>9
<1> QED BY <1>3, <1>4, <1>5, <1>6 DEF MemoryNext

\* As many pages as offsets behind them.
LEMMA TakenCount ==
    ASSUME NEW S, NEW f \in Partial(S), NEW free, NEW all, Fills(f, free, all)
    PROVE  Cardinality(Taken(f)) = Cardinality(DOMAIN f)
<1>1. IsFiniteSet(DOMAIN f) /\ f \in [DOMAIN f -> S]
  BY PartialFacts
<1>2. f \in [DOMAIN f -> Taken(f)] /\ \A y \in Taken(f) : \E p \in DOMAIN f : f[p] = y
  BY <1>1 DEF Taken, Images
<1>3. \A p, q \in DOMAIN f : f[p] = f[q] => p = q
  BY DEF Fills
<1>4. f \in Surjection(DOMAIN f, Taken(f)) /\ f \in Injection(DOMAIN f, Taken(f))
  <2>1. f \in Surjection(DOMAIN f, Taken(f))
    BY <1>2 DEF Surjection
  <2>2. f \in Injection(DOMAIN f, Taken(f))
    BY <1>2, <1>3 DEF Injection, IsInjective
  <2> QED BY <2>1, <2>2
<1> QED BY <1>1, <1>4, FS_Surjection

\* The host has behind a page what the owner of its range says.
LEMMA HostAgrees ==
    ASSUME MemoryOK(mem), NEW r \in mem.ranges, NEW p \in Cells(r)
    PROVE  mem.host[p] = Backing(r, p)
<1>1. /\ AllRanges(mem.ranges) /\ Disjoint(mem.ranges) /\ HostOK(mem)
      /\ MapsOK(mem.ranges, mem.maps)
      /\ DOMAIN mem.flex = PagesOf(mem.ranges, {"Flexible"})
      /\ DOMAIN mem.pool = PagesOf(mem.ranges, {"Pooled"})
  BY DEF MemoryOK, RangesOK
<1>2. IsRange(r) /\ r.type \in Types /\ p \in Pages
  <2>1. IsRange(r)
    BY <1>1 DEF AllRanges
  <2> QED BY <2>1, CellsIn DEF IsRange, Range0
<1>3. \A T : r.type \in T => p \in PagesOf(mem.ranges, T)
  BY InPagesOf
<1>4. CASE r.type = "Direct"
  <2>1. PICK b \in mem.maps : Backs(b, r)
    BY <1>1, <1>4 DEF MapsOK
  <2>2. mem.host[p] = Base(b) + p /\ Base(r) = Base(b)
    BY <1>1, <2>1 DEF HostOK, Backs
  <2>3. r.offset \in Int /\ r.start \in Int /\ p \in Int
    <3>1. r.offset \in Int /\ r.start \in Pages
      BY <1>2 DEF IsRange, Range0
    <3> QED BY <1>2, <3>1, MemoryAssumption DEF Pages
  <2>4. mem.host[p] = r.offset + p - r.start
    BY <2>2, <2>3 DEF Base
  <2> QED BY <1>4, <2>4 DEF Backing, Reservations, PrivateTypes
<1>5. CASE r.type = "Flexible"
  <2>1. p \in DOMAIN mem.flex
    BY <1>1, <1>3, <1>5
  <2>2. mem.host[p] = mem.flex[p]
    BY <1>1, <2>1 DEF HostOK
  <2> QED BY <1>5, <2>2 DEF Backing, Reservations, PrivateTypes
<1>6. CASE r.type = "Pooled"
  <2>1. p \in DOMAIN mem.pool
    BY <1>1, <1>3, <1>6
  <2>2. mem.host[p] = mem.pool[p]
    BY <1>1, <2>1 DEF HostOK
  <2> QED BY <1>6, <2>2 DEF Backing, Reservations, PrivateTypes
<1>7. CASE r.type \in PrivateTypes
  <2>1. mem.host[p] = Private
    BY <1>1, <1>3, <1>7 DEF HostOK
  <2> QED BY <1>7, <2>1 DEF Backing, Reservations, PrivateTypes
<1>8. CASE r.type \in Reservations
  <2>1. Reservations \cap CommittedTypes = {}
    BY DEF Reservations, CommittedTypes, PrivateTypes, BackedTypes
  <2>2. PagesOf(mem.ranges, Reservations) \cap PagesOf(mem.ranges, CommittedTypes) = {}
    BY <1>1, <2>1, OneType
  <2>3. p \in Pages \ PagesOf(mem.ranges, CommittedTypes)
    BY <1>2, <1>3, <1>8, <2>2
  <2>4. mem.host[p] = Unmapped
    BY <1>1, <2>3 DEF HostOK
  <2> QED BY <1>8, <2>4 DEF Backing, Reservations, PrivateTypes
<1> QED BY <1>2, <1>4, <1>5, <1>6, <1>7, <1>8 DEF Types, CommittedTypes, BackedTypes

\* No backing page is lost or has two owners.
LEMMA AccountOK ==
    ASSUME MemoryOK(mem)
    PROVE  BackingAccounted
<1>1. BackingOK(mem) /\ mem \in Memory
  BY DEF MemoryOK
<1>2. PICK F : F = mem.free
  OBVIOUS
<1>3. PICK A : A = mem.allocated
  OBVIOUS
<1>4. PICK X : X = UNION mem.expansions
  OBVIOUS
<1>5. F \cup A \cup X = Direct /\ F \cap A = {} /\ (F \cup A) \cap X = {}
  BY <1>1, <1>2, <1>3, <1>4 DEF BackingOK
<1>6. IsFiniteSet(Direct)
  BY MemoryAssumption, FS_Interval DEF Direct
<1>7. F \in SUBSET Direct /\ A \in SUBSET Direct /\ X \in SUBSET Direct
  BY <1>5
<1>8. IsFiniteSet(F) /\ IsFiniteSet(A) /\ IsFiniteSet(X)
  BY <1>6, <1>7, FS_Subset
<1>9. Cardinality({}) = 0 /\ Cardinality(F) \in Nat /\ Cardinality(A) \in Nat
      /\ Cardinality(X) \in Nat
  BY <1>8, FS_EmptySet, FS_CardinalityType
<1>10. IsFiniteSet(F \cup A) /\ Cardinality(F \cup A) = Cardinality(F) + Cardinality(A)
  <2>1. /\ IsFiniteSet(F \cup A)
        /\ Cardinality(F \cup A) = Cardinality(F) + Cardinality(A) - Cardinality(F \cap A)
    BY <1>8, FS_Union
  <2>2. Cardinality(F \cap A) = 0
    BY <1>5, <1>9
  <2> QED BY <1>9, <2>1, <2>2
<1>11. Cardinality(Direct) = Cardinality(F) + Cardinality(A) + Cardinality(X)
  <2>1. PICK Y : Y = F \cup A
    OBVIOUS
  <2>2. IsFiniteSet(Y) /\ Cardinality(Y) = Cardinality(F) + Cardinality(A)
    BY <1>10, <2>1
  <2>3. Cardinality(Y \cup X) = Cardinality(Y) + Cardinality(X) - Cardinality(Y \cap X)
    BY <1>8, <2>2, FS_Union
  <2>4. Y \cup X = Direct /\ Y \cap X = {}
    BY <1>5, <2>1
  <2>5. Cardinality(Y \cap X) = 0 /\ Cardinality(Y \cup X) = Cardinality(Direct)
    BY <1>9, <2>4
  <2> QED BY <1>9, <2>2, <2>3, <2>5
<1>12. /\ Fills(mem.flex, mem.flexFree, Flexible)
       /\ Fills(mem.pool, mem.poolFree, X)
       /\ \A b \in mem.maps : Span(b.offset, b.size) \subseteq mem.allocated
  BY <1>1, <1>4 DEF BackingOK
<1>13. mem.flex \in Partial(Flexible) /\ mem.pool \in Partial(Direct)
  BY <1>1 DEF Memory
<1>14. /\ Cardinality(Taken(mem.flex)) = Cardinality(DOMAIN mem.flex)
       /\ Cardinality(Taken(mem.pool)) = Cardinality(DOMAIN mem.pool)
  BY <1>12, <1>13, TakenCount
<1>15. /\ Taken(mem.flex) \cup mem.flexFree = Flexible /\ Taken(mem.flex) \cap mem.flexFree = {}
       /\ Taken(mem.pool) \cup mem.poolFree = X /\ Taken(mem.pool) \cap mem.poolFree = {}
  BY <1>12 DEF Fills
<1> QED BY <1>2, <1>3, <1>4, <1>5, <1>11, <1>12, <1>14, <1>15 DEF BackingAccounted

\* What is fine is in step.
LEMMA FineInStep ==
    ASSUME Fine(mem)
    PROVE  MemoryInStep
<1>1. MemoryOK(mem) /\ mem.status # "Broken"
  BY DEF Fine
<1>2. /\ RangesOK(mem.ranges) /\ AllRanges(mem.ranges) /\ Disjoint(mem.ranges)
      /\ MapsOK(mem.ranges, mem.maps) /\ HostOK(mem) /\ GpuOK(mem)
  BY <1>1 DEF MemoryOK, RangesOK
<1>3. RangesCanonical
  <2> SUFFICES ASSUME NEW r \in mem.ranges, NEW s \in mem.ranges, r # s
               PROVE  Cells(r) \cap Cells(s) = {} /\ ~(End(r) = s.start /\ SameMergeKey(r, s))
    BY DEF RangesCanonical
  <2>1. IsRange(r)
    BY <1>2 DEF AllRanges
  <2>2. Cells(r) \subseteq Pages
    BY <2>1, CellsIn
  <2>3. Cells(r) \cap Cells(s) = {}
    BY <1>2, <2>2 DEF Disjoint
  <2> QED BY <1>2, <2>3 DEF RangesOK, Merged
<1>4. OwnersAgree
  <2>1. /\ DOMAIN mem.flex = PagesOf(mem.ranges, {"Flexible"})
        /\ DOMAIN mem.pool = PagesOf(mem.ranges, {"Pooled"})
        /\ mem.committed = Cardinality(DOMAIN mem.pool)
    BY <1>1 DEF MemoryOK, BackingOK
  <2>2. CellsOf(mem.maps) = PagesOf(mem.ranges, {"Direct"})
        /\ \A r \in mem.ranges : r.type = "Direct" => \E b \in mem.maps : Backs(b, r)
    BY <1>2 DEF MapsOK
  <2>3. \A r \in mem.ranges : r.type = "Direct" =>
          \E b \in mem.maps : /\ Cells(r) \subseteq Cells(b)
                              /\ r.offset - r.start = b.offset - b.start /\ r.prot = b.prot
    BY <2>2 DEF Backs, Base
  <2> QED BY <2>1, <2>2, <2>3 DEF OwnersAgree
<1>5. BackingAccounted
  BY <1>1, AccountOK
<1>6. \A r \in mem.ranges, p \in Pages : p \in Cells(r) => mem.host[p] = Backing(r, p)
  BY <1>1, HostAgrees
<1>7. HostIs(mem, Pages \ CellsOf(mem.ranges), Unmapped)
  <2>1. PagesOf(mem.ranges, CommittedTypes) \subseteq CellsOf(mem.ranges)
    BY PagesOfUnion
  <2> QED BY <1>2, <2>1 DEF HostOK, HostIs
<1>8. /\ mem.gpu \subseteq PagesOf(mem.ranges, CommittedTypes)
      /\ ~mem.torn => mem.gpu = PagesOf(mem.ranges, CommittedTypes)
  BY <1>2 DEF GpuOK
<1> QED BY <1>1, <1>3, <1>4, <1>5, <1>6, <1>7, <1>8 DEF MemoryInStep

\* After every call of the guest, whichever call to the host failed in it:
\* ranges are disjoint and merged, the owners of direct, flexible and pooled
\* memory hold exactly the pages and offsets of their ranges, the host maps
\* what they say and nothing else, the GPU is told of committed pages only,
\* and no rollback or internal check found otherwise (virtualMemory.cpp,
\* virtualRanges.cpp).
THEOREM MemorySpecInStep == MemorySpec => []MemoryInStep
<1>1. MemoryInit => Fine(mem)
  BY InitFine
<1>2. Fine(mem) /\ [MemoryNext]_memVars => Fine(mem)'
  <2> SUFFICES ASSUME Fine(mem), [MemoryNext]_memVars PROVE Fine(mem')
    BY DEF Fine, MemoryOK
  <2> QED BY NextFine DEF memVars
<1>3. Fine(mem) => MemoryInStep
  BY FineInStep
<1> QED BY <1>1, <1>2, <1>3, PTL DEF MemorySpec

-----------------------------------------------------------------------------
(* The objects together.                                                   *)

\* A step of a guest program is, for each kind of object, a step of its
\* component or none.
LEMMA ProgramStep ==
    ASSUME [MCNext]_syncVars
    PROVE  /\ [CondNext]_condVars /\ [RwNext]_rwVars /\ [OnceNext]_onceVars
           /\ [PoolNext]_poolVars /\ [KeysNext]_keyVars /\ [PosixNext]_semVars
           /\ [AddrNext]_addrVars /\ [FlagsNext]_flagVars /\ [MemoryNext]_memVars
<1>1. CASE UNCHANGED syncVars
  BY <1>1 DEF syncVars
<1>2. CASE MCNext
  <2>1. /\ program = "cond" => CondNext
        /\ program = "rwlock" => RwNext
        /\ program = "once" => OnceNext
        /\ program = "pool" => PoolNext
        /\ program = "keys" => KeysNext
        /\ program = "sem" => PosixNext
        /\ program = "addr" => AddrNext
        /\ program = "flags" => FlagsNext
        /\ program = "memory" => MemoryNext
    BY <1>2 DEF MCNext
  <2>2. /\ program # "cond" => UNCHANGED condVars
        /\ program # "rwlock" => UNCHANGED rwVars
        /\ program # "once" => UNCHANGED onceVars
        /\ program # "pool" => UNCHANGED poolVars
        /\ program # "keys" => UNCHANGED keyVars
        /\ program # "sem" => UNCHANGED semVars
        /\ program # "addr" => UNCHANGED addrVars
        /\ program # "flags" => UNCHANGED flagVars
        /\ program # "memory" => UNCHANGED memVars
    BY <1>2 DEF MCNext, Rests
  <2> QED BY <2>1, <2>2
<1> QED BY <1>1, <1>2

\* In whatever guest program, every object's variables have their types with
\* the counts its module states, the guest's copy of a semaphore is exact, a
\* wake of an address reaches those who slept before it and a flag is deleted once.
THEOREM SyncIsConsistent == MCSpec => []SyncConsistent
<1>1. MCSpec => /\ CondSpec /\ RwSpec /\ OnceSpec /\ PoolSpec /\ KeysSpec
                /\ PosixSpec /\ AddrSpec /\ FlagsSpec
  <2>1. MCInit => /\ CondInit /\ RwInit /\ OnceInit /\ PoolInit /\ KeysInit
                  /\ PosixInit /\ AddrInit /\ FlagsInit
    BY DEF MCInit
  <2>2. [MCNext]_syncVars =>
           /\ [CondNext]_condVars /\ [RwNext]_rwVars /\ [OnceNext]_onceVars
           /\ [PoolNext]_poolVars /\ [KeysNext]_keyVars /\ [PosixNext]_semVars
           /\ [AddrNext]_addrVars /\ [FlagsNext]_flagVars
    BY ProgramStep
  <2> QED BY <2>1, <2>2, PTL DEF MCSpec, CondSpec, RwSpec, OnceSpec, PoolSpec, KeysSpec,
                                  PosixSpec, AddrSpec, FlagsSpec
<1>2. PoolIInv => PoolTypeOK
  <2> SUFFICES ASSUME PoolIInv PROVE PoolTypeOK
    OBVIOUS
  <2>1. reaper.e \in 0..(MaxThreads + 1)
    BY DEF PoolIInv, PoolControl, PoolTyped
  <2> QED BY <2>1 DEF PoolIInv, PoolControl, PoolTyped, PoolStacks, EntryStates, PoolTypeOK
<1>3. /\ CondIInv => CondTypeOK
      /\ RwIInv => RwTypeOK
      /\ OnceIInv => OnceTypeOK
      /\ KeysIInv => KeysTypeOK
      /\ PosixIInv => PosixTypeOK /\ GuestCopyExact
      /\ AddrIInv => AddrTypeOK /\ WakesReach
      /\ FlagsIInv => FlagsTypeOK /\ FlagDeletedOnce
  BY DEF CondIInv, RwIInv, OnceIInv, KeysIInv, KeysTypes, PosixIInv, AddrIInv, FlagsIInv
<1>4. CondIInv /\ RwIInv /\ OnceIInv /\ PoolIInv /\ KeysIInv /\ PosixIInv /\ AddrIInv /\ FlagsIInv
      => SyncConsistent
  BY <1>2, <1>3 DEF SyncConsistent
<1> QED BY <1>1, <1>4, CondIInvHolds, RwIInvHolds, OnceIInvHolds, PoolIInvHolds, KeysIInvHolds,
           PosixIInvHolds, AddrIInvHolds, FlagsIInvHolds, PTL

\* In whatever guest program, and after every one of its calls, the records
\* of its memory agree: the map of ranges, the owners of
\* direct, flexible and pooled memory, the host's address space and the
\* pages the GPU is told of.
THEOREM MemoryStaysInStep == MCSpec => []MemoryInStep
<1>1. MCSpec => MemorySpec
  <2>1. MCInit => MemoryInit
    BY DEF MCInit
  <2>2. [MCNext]_syncVars => [MemoryNext]_memVars
    BY ProgramStep
  <2> QED BY <2>1, <2>2, PTL DEF MCSpec, MemorySpec
<1> QED BY <1>1, MemorySpecInStep, PTL

=============================================================================
