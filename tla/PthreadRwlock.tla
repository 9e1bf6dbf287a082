---------------------------- MODULE PthreadRwlock ----------------------------
(***************************************************************************)
(* A guest read-write lock of src/src/kernel/pthread.cpp: a writer, a list *)
(* of readers with a count each, their total, and the number of writers    *)
(* that wait.  A thread that cannot have the lock polls (at most 10 ms     *)
(* apart) in RwlockLockCooperative; each pass of its loop is one critical  *)
(* section and one step.  Readers give way to waiting writers, except      *)
(* those who hold the lock already.                                        *)
(***************************************************************************)
EXTENDS Integers, FiniteSets

CONSTANTS
    RwThreads,  \* guest threads
    NoWriter,   \* the null writer
    MaxReads    \* bound: how often one thread holds the lock for reading

ASSUME RwAssumption ==
    /\ NoWriter \notin RwThreads
    /\ MaxReads \in Nat \ {0}

VARIABLES
    writer,         \* PthreadRwlockPrivate.writer; writer_count is 1 with it
    readers,        \* PthreadRwlockPrivate.readers: the count of each thread
    readerCount,    \* PthreadRwlockPrivate.reader_count
    waitingWriters, \* PthreadRwlockPrivate.waiting_writers
    rwCall          \* what each thread is doing in a lock call

rwVars == <<writer, readers, readerCount, waitingWriters, rwCall>>

RwIdle == [at |-> "Run"]

RwInit ==
    /\ writer = NoWriter
    /\ readers = [t \in RwThreads |-> 0]
    /\ readerCount = 0
    /\ waitingWriters = 0
    /\ rwCall = [t \in RwThreads |-> RwIdle]

InRead(t) == rwCall[t].at = "Read"
InWrite(t) == rwCall[t].at = "Write"
RwRuns(t) == rwCall[t].at = "Run"

\* RwlockFindReader.
IsReader(t) == readers[t] > 0

-----------------------------------------------------------------------------
\* Mutant: a thread that reads already gives way to waiting writers too.
MutMayRead(t) ==
    \/ writer = NoWriter /\ waitingWriters = 0
    \/ writer = t

MayRead(t) ==
    \/ writer = NoWriter /\ (waitingWriters = 0 \/ IsReader(t))
    \/ writer = t

\* Mutant: waiting writers are overlooked.
MutAddReader(t) ==
    /\ writer = NoWriter \/ writer = t
    /\ readers[t] < MaxReads
    /\ readers' = [readers EXCEPT ![t] = @ + 1]
    /\ readerCount' = readerCount + 1
    /\ UNCHANGED <<writer, waitingWriters>>

AddReader(t) ==
    /\ MayRead(t)
    /\ readers[t] < MaxReads
    /\ readers' = [readers EXCEPT ![t] = @ + 1]
    /\ readerCount' = readerCount + 1
    /\ UNCHANGED <<writer, waitingWriters>>

\* Rdlock, Timedrdlock and Tryrdlock that succeed at once.
ReadLock(t) ==
    /\ RwRuns(t)
    /\ AddReader(t)
    /\ UNCHANGED rwCall

\* Rdlock or Timedrdlock has to wait; Tryrdlock returns EBUSY instead.
ReadBlock(t, timed) ==
    /\ RwRuns(t) /\ ~MayRead(t)
    /\ rwCall' = [rwCall EXCEPT ![t] = [at |-> "Read", timed |-> timed]]
    /\ UNCHANGED <<writer, readers, readerCount, waitingWriters>>

ReadAcquire(t) ==
    /\ InRead(t)
    /\ AddReader(t)
    /\ rwCall' = [rwCall EXCEPT ![t] = RwIdle]

ReadTimedOut(t) ==
    /\ InRead(t) /\ rwCall[t].timed /\ ~MayRead(t)
    /\ rwCall' = [rwCall EXCEPT ![t] = RwIdle]
    /\ UNCHANGED <<writer, readers, readerCount, waitingWriters>>

-----------------------------------------------------------------------------
MayWrite == writer = NoWriter /\ readerCount = 0

\* EDEADLK: a writer or reader asks for the lock it holds.  It changes
\* nothing, and such a caller never waits.
SelfDeadlock(t) == writer = t \/ IsReader(t)

\* Wrlock, Timedwrlock and Trywrlock that succeed at once.
WriteLock(t) ==
    /\ RwRuns(t) /\ ~SelfDeadlock(t) /\ MayWrite
    /\ writer' = t
    /\ UNCHANGED <<readers, readerCount, waitingWriters, rwCall>>

\* The first pass that finds the lock taken registers the writer.
WriteBlock(t, timed) ==
    /\ RwRuns(t) /\ ~SelfDeadlock(t) /\ ~MayWrite
    /\ waitingWriters' = waitingWriters + 1
    /\ rwCall' = [rwCall EXCEPT ![t] = [at |-> "Write", timed |-> timed]]
    /\ UNCHANGED <<writer, readers, readerCount>>

WriteAcquire(t) ==
    /\ InWrite(t) /\ MayWrite
    /\ waitingWriters' = waitingWriters - 1
    /\ writer' = t
    /\ rwCall' = [rwCall EXCEPT ![t] = RwIdle]
    /\ UNCHANGED <<readers, readerCount>>

\* Mutant: a writer that gives up stays registered.
MutWriteTimedOut(t) ==
    /\ InWrite(t) /\ rwCall[t].timed /\ ~MayWrite
    /\ rwCall' = [rwCall EXCEPT ![t] = RwIdle]
    /\ UNCHANGED <<writer, readers, readerCount, waitingWriters>>

WriteTimedOut(t) ==
    /\ InWrite(t) /\ rwCall[t].timed /\ ~MayWrite
    /\ waitingWriters' = waitingWriters - 1
    /\ rwCall' = [rwCall EXCEPT ![t] = RwIdle]
    /\ UNCHANGED <<writer, readers, readerCount>>

-----------------------------------------------------------------------------
\* A reader's entry goes first, then the write lock; EPERM for others.
RwUnlock(t) ==
    /\ RwRuns(t)
    /\ IF IsReader(t)
       THEN /\ readers' = [readers EXCEPT ![t] = @ - 1]
            /\ readerCount' = readerCount - 1
            /\ UNCHANGED writer
       ELSE /\ writer = t /\ writer' = NoWriter
            /\ UNCHANGED <<readers, readerCount>>
    /\ UNCHANGED <<waitingWriters, rwCall>>

RwNext ==
    \E t \in RwThreads :
        \/ ReadLock(t) \/ ReadAcquire(t) \/ ReadTimedOut(t)
        \/ WriteLock(t) \/ WriteAcquire(t) \/ WriteTimedOut(t)
        \/ \E timed \in BOOLEAN : ReadBlock(t, timed) \/ WriteBlock(t, timed)
        \/ RwUnlock(t)

RwSpec == RwInit /\ [][RwNext]_rwVars

\* A thread in a lock call looks again at least every 10 ms.
RwFairness ==
    \A t \in RwThreads : WF_rwVars(ReadAcquire(t)) /\ WF_rwVars(WriteAcquire(t))

-----------------------------------------------------------------------------
\* The list of readers spelled out: an element for each time a thread has the
\* lock for reading.
ReadEntries == {e \in RwThreads \X (1..MaxReads) : e[2] <= readers[e[1]]}

\* Types; the total and the number of waiting writers are what the entries
\* and the threads in the call say on every path, timeouts included.
RwTypeOK ==
    /\ writer \in RwThreads \cup {NoWriter}
    /\ readers \in [RwThreads -> 0..MaxReads]
    /\ rwCall \in [RwThreads -> {RwIdle} \cup [at : {"Read", "Write"}, timed : BOOLEAN]]
    /\ readerCount = Cardinality(ReadEntries)
    /\ waitingWriters = Cardinality({t \in RwThreads : InWrite(t)})

\* Nobody else reads while somebody writes, though a writer may take the
\* lock for reading as well and give both up one by one
\* (RwlockLockCooperative, PthreadRwlockUnlock).
RwExclusive ==
    \A t \in RwThreads : writer # NoWriter /\ IsReader(t) => writer = t

\* A thread that waits for the lock holds none of it: recursive readers are
\* let in past waiting writers and a reader that wants to write is refused,
\* so nobody waits for itself.
NoSelfWait ==
    \A t \in RwThreads : InRead(t) \/ InWrite(t) => ~IsReader(t) /\ writer # t

\* While a writer waits the threads that read become no more: a stream of
\* readers cannot keep it out (waiting_writers).
ReadersDrain ==
    [][waitingWriters > 0 =>
         {t \in RwThreads : readers'[t] > 0 /\ writer # t}
             \subseteq {t \in RwThreads : readers[t] > 0}]_rwVars

\* A lock nobody holds does not stay so while somebody waits for it: in
\* particular a writer that timed out leaves no registration behind that
\* keeps readers out for ever.
FreeLockTaken ==
    []<>(\/ writer # NoWriter \/ readerCount > 0
         \/ \A t \in RwThreads : RwRuns(t))

\* The lock keeps readers and writers apart without anybody waiting for
\* itself.
RwSafe == RwExclusive /\ NoSelfWait

=============================================================================
