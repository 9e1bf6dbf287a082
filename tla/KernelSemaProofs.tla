-------------------------- MODULE KernelSemaProofs --------------------------
(***************************************************************************)
(* Proofs about KernelSema, for every set of threads, every counter limit  *)
(* and all arguments.  Type correctness, no lost wake-up, FIFO fairness    *)
(* and safe deletion are parts of one inductive invariant; a second layer  *)
(* that counts units gives their conservation and the refinement of        *)
(* AtomicSema.                                                             *)
(***************************************************************************)
EXTENDS KernelSema, QueueLemmas, FiniteSetTheorems

\* A thread has at most one WaitingThread record in the queue.
Distinct ==
    \A i, j \in 1..Len(queue) : queue[i] = queue[j] => i = j

\* Behind the scan position, or everywhere when no scan is running, the
\* waiters left pending need more than the counter holds.
Scanned ==
    \A i \in 1..Len(queue) :
        ((scan = 0 \/ i < scan) /\ outcome[queue[i]] = "Pending")
            => need[queue[i]] > count

\* Only Signal scans, and Signal refuses a deleted semaphore.
ScanLive == scan # 0 => status = "Set"

\* A queued waiter passed the need_count test of Wait.
PositiveNeeds == \A i \in 1..Len(queue) : need[queue[i]] >= 1

IInv == /\ TypeOK /\ Distinct /\ PositiveNeeds /\ Scanned /\ ScanLive
        /\ FifoFair /\ DeleteSafe

-----------------------------------------------------------------------------
LEMMA InitIInv == Init => IInv
<1> SUFFICES ASSUME Init PROVE IInv
  OBVIOUS
<1> USE CreateAssumption
<1>1. TypeOK
  BY DEF Init, TypeOK
<1>2. Distinct /\ PositiveNeeds /\ Scanned /\ ScanLive /\ FifoFair /\ DeleteSafe
  BY DEF Init, Distinct, PositiveNeeds, Scanned, ScanLive, FifoFair, DeleteSafe
<1> QED BY <1>1, <1>2 DEF IInv

\* A Wait or Poll that does not queue changes at most the counter, downwards.
LEMMA ReturnIInv ==
    ASSUME IInv, NEW t \in Threads, NEW r \in Results, Return(t, r),
           count' \in Int, count' <= count, ledger' \in Int
    PROVE  IInv'
<1> USE DEF IInv, Return, waiterVars, Ready
<1>1. TypeOK'
  BY CreateAssumption DEF TypeOK, Results
<1>2. Distinct' /\ PositiveNeeds' /\ ScanLive' /\ FifoFair' /\ DeleteSafe'
  BY DEF Distinct, PositiveNeeds, ScanLive, FifoFair, DeleteSafe
<1>3. Scanned'
  <2> SUFFICES ASSUME NEW i \in 1..Len(queue), scan = 0 \/ i < scan,
                      outcome[queue[i]] = "Pending"
               PROVE  need[queue[i]] > count'
    BY DEF Scanned
  <2>1. queue[i] \in Threads
    BY DEF TypeOK
  <2>2. need[queue[i]] > count /\ need[queue[i]] \in Int /\ count \in Int
    BY <2>1 DEF Scanned, TypeOK
  <2> QED BY <2>2
<1> QED BY <1>1, <1>2, <1>3

LEMMA WaitBlockIInv ==
    ASSUME IInv, NEW t \in Threads, NEW n \in Int, NEW p \in Int,
           NEW tm \in BOOLEAN, WaitBlock(t, n, p, tm)
    PROVE  IInv'
<1> PICK k \in 1..(Len(queue) + 1) :
        AddPosition(p, k) /\ queue' = InsertAt(queue, k, t)
  BY DEF WaitBlock
<1>0. queue \in Seq(Threads) /\ Len(queue) \in Nat
  BY DEF IInv, TypeOK
<1>1. /\ queue' \in Seq(Threads)
      /\ Len(queue') = Len(queue) + 1
      /\ \A i \in 1..(Len(queue) + 1) :
            queue'[i] = IF i < k THEN queue[i]
                        ELSE IF i = k THEN t ELSE queue[i - 1]
  <2>1. queue' = InsertAt(queue, k, t)
    OBVIOUS
  <2>2. Inserted(InsertAt(queue, k, t), queue, k, t, Threads)
    BY ONLY <1>0, InsertAtFacts
  <2>3. Inserted(queue', queue, k, t, Threads)
    BY ONLY <2>1, <2>2
  <2> QED BY ONLY <2>3 DEF Inserted
<1>2. \A i \in 1..Len(queue) : queue[i] # t /\ queue[i] \in Threads
  BY <1>0 DEF WaitBlock, Waiting
<1>3. /\ scan = 0 /\ scan' = 0 /\ status = "Set" /\ status' = "Set"
      /\ count' = count /\ fifo' = fifo
  BY DEF WaitBlock, Enter
<1>4. TypeOK'
  <2>1. need' \in [Threads -> Int] /\ priority' \in [Threads -> Int]
    BY DEF WaitBlock, IInv, TypeOK
  <2>2. /\ timed' \in [Threads -> BOOLEAN]
        /\ outcome' \in [Threads -> {"Pending", "Ok", "Canceled", "Deleted"}]
        /\ ret' \in (Threads \X Results) \cup {<<>>}
    BY DEF WaitBlock, IInv, TypeOK
  <2>3. fifo' \in BOOLEAN /\ status' \in {"Set", "Deleted", "Freed"}
    BY <1>3 DEF IInv, TypeOK
  <2>4. count' \in Int /\ count' <= MaxCount
    BY <1>3 DEF IInv, TypeOK
  <2>5. scan' \in 0..(Len(queue') + 1)
    BY ONLY <1>0, <1>1, <1>3
  <2>6. ledger' \in Int
    BY DEF WaitBlock, IInv, TypeOK
  <2> QED BY ONLY <1>1, <2>1, <2>2, <2>3, <2>4, <2>5, <2>6 DEF TypeOK
<1>5. \A i \in 1..Len(queue') :
         \/ i = k /\ queue'[i] = t
         \/ \E j \in 1..Len(queue) :
               queue'[i] = queue[j] /\ j = (IF i < k THEN i ELSE i - 1)
  BY <1>0, <1>1
<1>6. Distinct'
  <2> SUFFICES ASSUME NEW i \in 1..Len(queue'), NEW j \in 1..Len(queue'),
                      queue'[i] = queue'[j]
               PROVE  i = j
    BY DEF Distinct
  <2>1. CASE i = k \/ j = k
    BY <1>1, <1>2, <1>5, <2>1
  <2>2. CASE i # k /\ j # k
    <3>1. PICK a \in 1..Len(queue) :
             queue'[i] = queue[a] /\ a = (IF i < k THEN i ELSE i - 1)
      BY <1>5, <2>2
    <3>2. PICK b \in 1..Len(queue) :
             queue'[j] = queue[b] /\ b = (IF j < k THEN j ELSE j - 1)
      BY <1>5, <2>2
    <3>3. a = b
      BY <3>1, <3>2 DEF IInv, Distinct
    <3> QED BY <1>0, <1>1, <2>2, <3>1, <3>2, <3>3
  <2> QED BY <2>1, <2>2
<1>7. \A u \in Threads : u # t => outcome'[u] = outcome[u] /\ need'[u] = need[u]
  BY DEF WaitBlock, IInv, TypeOK
<1>8. outcome'[t] = "Pending" /\ need'[t] = n /\ n > count /\ n >= 1
  BY DEF WaitBlock, IInv, TypeOK
<1>9. Scanned' /\ PositiveNeeds'
  <2> SUFFICES ASSUME NEW i \in 1..Len(queue')
               PROVE  /\ outcome'[queue'[i]] = "Pending" => need'[queue'[i]] > count'
                      /\ need'[queue'[i]] >= 1
    BY DEF Scanned, PositiveNeeds
  <2>1. CASE i = k /\ queue'[i] = t
    BY <1>3, <1>8, <2>1
  <2>2. ASSUME NEW j \in 1..Len(queue), queue'[i] = queue[j]
        PROVE  /\ outcome'[queue'[i]] = "Pending" => need'[queue'[i]] > count'
               /\ need'[queue'[i]] >= 1
    BY <1>2, <1>3, <1>7, <2>2 DEF IInv, Scanned, PositiveNeeds
  <2> QED BY <1>5, <2>1, <2>2
<1>10. FifoFair'
  <2> SUFFICES ASSUME fifo, NEW i \in 1..Len(queue'), NEW j \in 1..Len(queue'),
                      i < j, need'[queue'[i]] <= need'[queue'[j]],
                      outcome'[queue'[j]] = "Ok"
               PROVE  outcome'[queue'[i]] # "Pending"
    BY <1>3 DEF FifoFair, Ready
  <2>1. k = Len(queue) + 1
    BY DEF AddPosition
  <2>2. i \in 1..Len(queue) /\ j \in 1..Len(queue)
    BY <1>0, <1>1, <1>8, <2>1
  <2>3. queue'[i] = queue[i] /\ queue'[j] = queue[j]
    BY <1>1, <2>1, <2>2
  <2> QED BY <1>2, <1>7, <2>2, <2>3 DEF IInv, FifoFair, Ready
<1>11. ScanLive' /\ DeleteSafe'
  BY <1>3 DEF ScanLive, DeleteSafe
<1> QED BY <1>4, <1>6, <1>9, <1>10, <1>11 DEF IInv

\* Taking one waiter out of the queue preserves the relations between the others.
LEMMA LeaveIInv ==
    ASSUME IInv, scan = 0, NEW t \in Threads, NEW k \in 1..Len(queue),
           NEW r \in Results, Leave(t, k, r), ledger' \in Int
    PROVE  IInv'
<1>0. queue \in Seq(Threads) /\ Len(queue) \in Nat
  BY DEF IInv, TypeOK
<1>1. /\ queue' \in Seq(Threads)
      /\ Len(queue') = Len(queue) - 1
      /\ \A i \in 1..(Len(queue) - 1) :
            queue'[i] = IF i < k THEN queue[i] ELSE queue[i + 1]
  BY <1>0, RemoveAtFacts DEF Leave
<1>2. \A i \in 1..Len(queue') : \E j \in 1..Len(queue) :
         /\ queue'[i] = queue[j] /\ queue[j] \in Threads
         /\ j # k /\ j = (IF i < k THEN i ELSE i + 1)
  <2> SUFFICES ASSUME NEW i \in 1..Len(queue')
               PROVE  \E j \in 1..Len(queue) :
                         /\ queue'[i] = queue[j] /\ queue[j] \in Threads
                         /\ j # k /\ j = (IF i < k THEN i ELSE i + 1)
    OBVIOUS
  <2> DEFINE j == IF i < k THEN i ELSE i + 1
  <2>1. j \in 1..Len(queue) /\ j # k /\ queue'[i] = queue[j]
    BY <1>0, <1>1
  <2>2. queue[j] \in Threads
    BY <1>0, <2>1
  <2> QED BY <2>1, <2>2
<1>3. /\ scan = 0 /\ scan' = 0 /\ status' = status /\ count' = count
      /\ fifo' = fifo
  BY DEF Leave
<1>4. TypeOK'
  <2>1. need' \in [Threads -> Int] /\ priority' \in [Threads -> Int]
    BY DEF Leave, IInv, TypeOK
  <2>2. /\ timed' \in [Threads -> BOOLEAN]
        /\ outcome' \in [Threads -> {"Pending", "Ok", "Canceled", "Deleted"}]
        /\ ret' \in (Threads \X Results) \cup {<<>>}
    BY DEF Leave, IInv, TypeOK, Results
  <2>3. fifo' \in BOOLEAN /\ status' \in {"Set", "Deleted", "Freed"}
    BY <1>3 DEF IInv, TypeOK
  <2>4. count' \in Int /\ count' <= MaxCount
    BY <1>3 DEF IInv, TypeOK
  <2>5. scan' \in 0..(Len(queue') + 1)
    BY ONLY <1>0, <1>1, <1>3
  <2>6. ledger' \in Int
    BY DEF Leave
  <2> QED BY ONLY <1>1, <2>1, <2>2, <2>3, <2>4, <2>5, <2>6 DEF TypeOK
<1>5. Distinct'
  <2>1. \A i, j \in 1..Len(queue) : queue[i] = queue[j] => i = j
    BY DEF IInv, Distinct
  <2> SUFFICES ASSUME NEW i \in 1..Len(queue'), NEW j \in 1..Len(queue'),
                      queue'[i] = queue'[j]
               PROVE  i = j
    BY DEF Distinct
  <2>2. PICK a \in 1..Len(queue) :
           queue'[i] = queue[a] /\ a = (IF i < k THEN i ELSE i + 1)
    BY <1>2
  <2>3. PICK b \in 1..Len(queue) :
           queue'[j] = queue[b] /\ b = (IF j < k THEN j ELSE j + 1)
    BY <1>2
  <2>4. a = b
    BY <2>1, <2>2, <2>3
  <2> QED BY <2>2, <2>3, <2>4
<1>6. \A j \in 1..Len(queue) : j # k => queue[j] # t
  BY DEF IInv, Distinct, Leave
<1>7. \A u \in Threads : u # t => outcome'[u] = outcome[u] /\ need'[u] = need[u]
  BY DEF Leave, IInv, TypeOK
<1>8. Scanned' /\ PositiveNeeds'
  <2>1. /\ \A j \in 1..Len(queue) :
              outcome[queue[j]] = "Pending" => need[queue[j]] > count
        /\ \A j \in 1..Len(queue) : need[queue[j]] >= 1
    BY DEF IInv, Scanned, PositiveNeeds
  <2> SUFFICES ASSUME NEW i \in 1..Len(queue')
               PROVE  /\ outcome'[queue'[i]] = "Pending" => need'[queue'[i]] > count'
                      /\ need'[queue'[i]] >= 1
    BY DEF Scanned, PositiveNeeds
  <2>2. PICK a \in 1..Len(queue) :
           queue'[i] = queue[a] /\ queue[a] \in Threads /\ a # k
    BY <1>2
  <2> QED BY <1>3, <1>6, <1>7, <2>1, <2>2
<1>9. FifoFair'
  <2> SUFFICES ASSUME fifo, NEW i \in 1..Len(queue'), NEW j \in 1..Len(queue'),
                      i < j, need'[queue'[i]] <= need'[queue'[j]],
                      outcome'[queue'[j]] = "Ok"
               PROVE  outcome'[queue'[i]] # "Pending"
    BY <1>3 DEF FifoFair, Ready
  <2>1. PICK a \in 1..Len(queue) :
           /\ queue'[i] = queue[a] /\ queue[a] \in Threads
           /\ a # k /\ a = (IF i < k THEN i ELSE i + 1)
    BY <1>2
  <2>2. PICK b \in 1..Len(queue) :
           /\ queue'[j] = queue[b] /\ queue[b] \in Threads
           /\ b # k /\ b = (IF j < k THEN j ELSE j + 1)
    BY <1>2
  <2>3. a < b
    BY <2>1, <2>2
  <2>4. /\ need[queue[a]] <= need[queue[b]] /\ outcome[queue[b]] = "Ok"
        /\ outcome'[queue[a]] = outcome[queue[a]]
    BY <1>6, <1>7, <2>1, <2>2
  <2> QED BY <2>1, <2>3, <2>4 DEF IInv, FifoFair, Ready
<1>10. ScanLive'
  BY <1>3 DEF ScanLive
<1>11. DeleteSafe'
  BY <1>0, <1>1, <1>2, <1>3, <1>6, <1>7 DEF IInv, DeleteSafe, Ready
<1> QED BY <1>4, <1>5, <1>8, <1>9, <1>10, <1>11 DEF IInv

LEMMA SignalBeginIInv ==
    ASSUME IInv, NEW n \in Int, SignalBegin(n)
    PROVE  IInv'
<1> USE DEF SignalBegin, Enter, waiterVars
<1>1. TypeOK'
  BY DEF IInv, TypeOK
<1>2. Distinct' /\ PositiveNeeds' /\ ScanLive' /\ FifoFair' /\ DeleteSafe'
  BY DEF IInv, Distinct, PositiveNeeds, ScanLive, FifoFair, DeleteSafe, Ready
<1>3. Scanned'
  BY DEF Scanned
<1> QED BY <1>1, <1>2, <1>3 DEF IInv

\* One iteration of WakeWaiters that serves its waiter.  A pending waiter
\* already examined needs more than the counter held, hence more than the
\* one served now.
LEMMA WakeGrantIInv ==
    ASSUME IInv, WakeGrant
    PROVE  IInv'
<1> DEFINE g == queue[scan]
<1>0. /\ queue \in Seq(Threads) /\ Len(queue) \in Nat /\ scan \in 1..Len(queue)
      /\ \A i \in 1..Len(queue) : queue[i] \in Threads
  BY DEF IInv, TypeOK, WakeGrant
<1>1. /\ g \in Threads /\ outcome[g] = "Pending" /\ need[g] <= count
      /\ count' = count - need[g]
      /\ outcome' = [outcome EXCEPT ![g] = "Ok"]
      /\ need' = need /\ queue' = queue /\ scan' = scan + 1 /\ status' = status
      /\ fifo' = fifo
  BY <1>0 DEF WakeGrant, waiterVars, Ready
<1>2. need \in [Threads -> Int] /\ count \in Int
  BY DEF IInv, TypeOK
<1>3. PositiveNeeds
  BY DEF IInv
<1>4. need[g] >= 1
  BY <1>0, <1>3 DEF PositiveNeeds
<1>5. TypeOK'
  <2>1. count' \in Int /\ count' <= MaxCount
    BY <1>1, <1>2, <1>4, CreateAssumption DEF IInv, TypeOK
  <2>2. outcome' \in [Threads -> {"Pending", "Ok", "Canceled", "Deleted"}]
    BY <1>1 DEF IInv, TypeOK
  <2>3. scan' \in 0..(Len(queue') + 1)
    BY <1>0, <1>1
  <2> QED BY <1>1, <2>1, <2>2, <2>3 DEF IInv, TypeOK, WakeGrant, waiterVars
<1>6. \A i \in 1..Len(queue) : i # scan => queue[i] # g
  BY <1>0 DEF IInv, Distinct
<1>7. outcome'[g] = "Ok" /\ \A u \in Threads : u # g => outcome'[u] = outcome[u]
  BY <1>1 DEF IInv, TypeOK
<1> HIDE DEF g
<1>8. Scanned'
  <2> SUFFICES ASSUME NEW i \in 1..Len(queue), i < scan + 1,
                      outcome'[queue[i]] = "Pending"
               PROVE  need[queue[i]] > count'
    BY <1>0, <1>1 DEF Scanned
  <2>1. i < scan /\ outcome[queue[i]] = "Pending"
    <3>1. queue[i] # g
      BY <1>7
    <3> QED BY <1>0, <1>7, <3>1 DEF g
  <2>2. need[queue[i]] > count
    BY <2>1 DEF IInv, Scanned
  <2> QED BY <1>0, <1>1, <1>2, <1>4, <2>2
<1>9. FifoFair'
  <2> SUFFICES ASSUME fifo, NEW i \in 1..Len(queue), NEW j \in 1..Len(queue),
                      i < j, need[queue[i]] <= need[queue[j]],
                      outcome'[queue[j]] = "Ok", outcome'[queue[i]] = "Pending"
               PROVE  FALSE
    BY <1>1 DEF FifoFair, Ready
  <2>1. queue[i] # g /\ outcome[queue[i]] = "Pending"
    BY <1>0, <1>7
  <2>2. CASE queue[j] = g
    <3>1. j = scan
      BY <1>6, <2>2
    <3>2. need[queue[i]] > count
      BY <2>1, <3>1 DEF IInv, Scanned
    <3> QED BY <1>0, <1>1, <1>2, <2>2, <3>2
  <2>3. CASE queue[j] # g
    BY <1>0, <1>7, <2>1, <2>3 DEF IInv, FifoFair, Ready
  <2> QED BY <2>2, <2>3
<1>10. Distinct' /\ ScanLive' /\ DeleteSafe' /\ PositiveNeeds'
  BY <1>0, <1>1, <1>3 DEF IInv, Distinct, ScanLive, DeleteSafe, PositiveNeeds
<1> QED BY <1>5, <1>8, <1>9, <1>10 DEF IInv

LEMMA WakeSkipIInv ==
    ASSUME IInv, WakeSkip
    PROVE  IInv'
<1> USE DEF WakeSkip, waiterVars
<1>1. TypeOK'
  BY DEF IInv, TypeOK
<1>2. Distinct' /\ FifoFair' /\ PositiveNeeds'
  BY DEF IInv, Distinct, FifoFair, PositiveNeeds, Ready
<1>3. ScanLive' /\ DeleteSafe'
  BY DEF IInv, ScanLive, DeleteSafe, Ready
<1>4. Scanned'
  <2> SUFFICES ASSUME NEW i \in 1..Len(queue), i < scan + 1,
                      outcome[queue[i]] = "Pending"
               PROVE  need[queue[i]] > count
    BY DEF IInv, TypeOK, Scanned
  <2>1. CASE i < scan
    BY <2>1 DEF IInv, Scanned
  <2>2. CASE i = scan
    BY <2>2 DEF Ready
  <2> QED BY <2>1, <2>2 DEF IInv, TypeOK
<1> QED BY <1>1, <1>2, <1>3, <1>4 DEF IInv

LEMMA SignalEndIInv ==
    ASSUME IInv, SignalEnd
    PROVE  IInv'
<1> USE DEF SignalEnd, waiterVars
<1>1. TypeOK' /\ Distinct' /\ FifoFair' /\ ScanLive' /\ PositiveNeeds'
  BY DEF IInv, TypeOK, Distinct, FifoFair, ScanLive, PositiveNeeds, Ready
<1>2. DeleteSafe'
  BY DEF IInv, ScanLive, DeleteSafe, Ready
<1>3. Scanned'
  BY DEF IInv, TypeOK, Scanned
<1> QED BY <1>1, <1>2, <1>3 DEF IInv

\* Cancel and the destructor leave no waiter pending.
LEMMA EndAllIInv ==
    ASSUME IInv, scan = 0, NEW r \in {"Canceled", "Deleted"}, EndAllPending(r),
           ret' = <<>>, UNCHANGED <<fifo, queue, waiterVars, scan>>,
           count' \in Int, count' <= MaxCount, ledger' \in Int,
           status' \in {"Set", "Deleted"}
    PROVE  IInv'
<1> USE DEF waiterVars
<1>0. /\ \A i \in 1..Len(queue) : queue[i] \in Threads
      /\ outcome \in [Threads -> {"Pending", "Ok", "Canceled", "Deleted"}]
  BY DEF IInv, TypeOK
<1>1. \A i \in 1..Len(queue) : outcome'[queue[i]] # "Pending"
  BY <1>0 DEF EndAllPending, Waiting, Ready
<1>2. outcome' \in [Threads -> {"Pending", "Ok", "Canceled", "Deleted"}]
  BY <1>0 DEF EndAllPending
<1>3. TypeOK'
  BY <1>2 DEF IInv, TypeOK
<1>4. Distinct' /\ Scanned' /\ ScanLive' /\ FifoFair' /\ DeleteSafe' /\ PositiveNeeds'
  BY <1>1 DEF IInv, Distinct, Scanned, ScanLive, FifoFair, DeleteSafe, PositiveNeeds, Ready
<1> QED BY <1>3, <1>4 DEF IInv

LEMMA DeleteEndIInv ==
    ASSUME IInv, DeleteEnd
    PROVE  IInv'
<1> USE DEF DeleteEnd, Enter, waiterVars
<1>1. TypeOK'
  BY DEF IInv, TypeOK
<1>2. Distinct' /\ Scanned' /\ ScanLive' /\ FifoFair' /\ DeleteSafe' /\ PositiveNeeds'
  BY DEF IInv, Distinct, Scanned, ScanLive, FifoFair, DeleteSafe, PositiveNeeds
<1> QED BY <1>1, <1>2 DEF IInv

LEMMA CreateIInv ==
    ASSUME IInv, Create
    PROVE  IInv'
<1> USE DEF Create, waiterVars
<1>1. TypeOK'
  BY CreateAssumption DEF IInv, TypeOK
<1>2. Len(queue) = 0 /\ scan = 0
  BY DEF IInv, ScanLive, DeleteSafe
<1>3. Distinct' /\ Scanned' /\ ScanLive' /\ FifoFair' /\ DeleteSafe' /\ PositiveNeeds'
  BY <1>2 DEF Distinct, Scanned, ScanLive, FifoFair, DeleteSafe, PositiveNeeds
<1> QED BY <1>1, <1>3 DEF IInv

-----------------------------------------------------------------------------
\* Every step of the semaphore preserves the invariant.
LEMMA NextIInv == IInv /\ [Next]_vars => IInv'
<1> SUFFICES ASSUME IInv, [Next]_vars PROVE IInv'
  OBVIOUS
<1> USE CreateAssumption, ArgumentAssumption
<1>0. count \in Int /\ ledger \in Int /\ need \in [Threads -> Int]
  BY DEF IInv, TypeOK
<1>1. ASSUME NEW t \in Threads, WaitCall(t) PROVE IInv'
  <2> PICK n \in NeedCounts :
        \/ WaitInvalCount(t, n)
        \/ WaitDeleted(t, n)
        \/ WaitFast(t, n)
        \/ PollTimedOut(t, n)
        \/ \E p \in Priorities, tm \in BOOLEAN : WaitBlock(t, n, p, tm)
    BY <1>1 DEF WaitCall
  <2>0. n \in Int
    OBVIOUS
  <2>1. CASE WaitInvalCount(t, n)
    BY <1>0, <2>1, ReturnIInv DEF WaitInvalCount, Results
  <2>2. CASE WaitDeleted(t, n)
    BY <1>0, <2>2, ReturnIInv DEF WaitDeleted, Results
  <2>3. CASE WaitFast(t, n)
    <3>1. Return(t, "Ok") /\ count' = count - n /\ ledger' = ledger - n /\ n >= 1
      BY <2>3 DEF WaitFast
    <3>2. count' \in Int /\ count' <= count /\ ledger' \in Int
      BY <1>0, <2>0, <3>1
    <3> QED BY <3>1, <3>2, ReturnIInv DEF Results
  <2>4. CASE PollTimedOut(t, n)
    BY <1>0, <2>4, ReturnIInv DEF PollTimedOut, Results
  <2>5. ASSUME NEW p \in Priorities, NEW tm \in BOOLEAN, WaitBlock(t, n, p, tm)
        PROVE  IInv'
    BY <2>0, <2>5, WaitBlockIInv
  <2> QED BY <2>1, <2>2, <2>3, <2>4, <2>5
<1>2. ASSUME NEW t \in Threads, WaitReady(t) PROVE IInv'
  <2>1. PICK i \in 1..Len(queue) : Leave(t, i, outcome[t])
    BY <1>2 DEF WaitReady
  <2>2. outcome[t] \in Results
    BY <1>2 DEF WaitReady, Ready, IInv, TypeOK, Results
  <2>3. scan = 0 /\ ledger' \in Int
    BY <1>0, <1>2 DEF WaitReady, Enter
  <2> QED BY <2>1, <2>2, <2>3, LeaveIInv
<1>3. ASSUME NEW t \in Threads, WaitTimedOut(t) PROVE IInv'
  <2>1. PICK i \in 1..Len(queue) : Leave(t, i, "TimedOut")
    BY <1>3 DEF WaitTimedOut
  <2>2. scan = 0 /\ ledger' \in Int /\ "TimedOut" \in Results
    BY <1>0, <1>3 DEF WaitTimedOut, Enter, Results
  <2> QED BY <2>1, <2>2, LeaveIInv
<1>4. ASSUME NEW n \in SignalCounts, SignalBegin(n) PROVE IInv'
  BY <1>4, SignalBeginIInv
<1>5. ASSUME NEW c \in CancelCounts, Cancel(c) PROVE IInv'
  <2>1. /\ scan = 0 /\ EndAllPending("Canceled") /\ ret' = <<>>
        /\ UNCHANGED <<fifo, queue, waiterVars, scan>>
    BY <1>5 DEF Cancel, Enter
  <2>2. count' \in Int /\ count' <= MaxCount /\ status' = "Set"
    BY <1>5 DEF Cancel
  <2>3. ledger' \in Int
    BY <1>0, <1>5, <2>2 DEF Cancel
  <2> QED BY <2>1, <2>2, <2>3, EndAllIInv
<1>6. CASE DeleteBegin
  <2>1. /\ scan = 0 /\ EndAllPending("Deleted") /\ ret' = <<>>
        /\ UNCHANGED <<fifo, queue, waiterVars, scan>>
    BY <1>6 DEF DeleteBegin, Enter
  <2>2. count' \in Int /\ count' <= MaxCount /\ status' = "Deleted" /\ ledger' \in Int
    BY <1>6 DEF DeleteBegin, IInv, TypeOK
  <2> QED BY <2>1, <2>2, EndAllIInv
<1>7. CASE UNCHANGED vars
  <2>1. TypeOK' /\ Distinct' /\ Scanned' /\ PositiveNeeds'
    BY <1>7 DEF vars, waiterVars, IInv, TypeOK, Distinct, Scanned, PositiveNeeds
  <2>2. ScanLive' /\ FifoFair' /\ DeleteSafe'
    BY <1>7 DEF vars, waiterVars, IInv, ScanLive, FifoFair, DeleteSafe, Ready
  <2> QED BY <2>1, <2>2 DEF IInv
<1> QED
  BY <1>1, <1>2, <1>3, <1>4, <1>5, <1>6, <1>7, WakeGrantIInv, WakeSkipIInv,
     SignalEndIInv, DeleteEndIInv, CreateIInv DEF Next

\* The inductive invariant holds in every reachable state of the semaphore.
THEOREM IInvHolds == Spec => []IInv
BY InitIInv, NextIInv, PTL DEF Spec

\* The counter and every waiter record keep their types, and m_count never
\* passes m_max_count, whatever arguments the guest passes.
THEOREM TypeCorrect == Spec => []TypeOK
<1>1. IInv => TypeOK
  BY DEF IInv
<1> QED BY IInvHolds, <1>1, PTL

\* No waiter whose need the counter covers is ever left asleep: Signal's
\* scan, Cancel, timeouts and the fast path all preserve it.
THEOREM NoWakeupIsLost == Spec => []NoLostWakeup
<1>1. IInv => NoLostWakeup
  BY DEF IInv, Scanned, NoLostWakeup, Ready
<1> QED BY IInvHolds, <1>1, PTL

\* In FIFO order no waiter is passed by a later one that needs no less.
THEOREM FifoIsFair == Spec => []FifoFair
<1>1. IInv => FifoFair
  BY DEF IInv
<1> QED BY IInvHolds, <1>1, PTL

\* The destructor frees the object only when no thread is inside Wait.
THEOREM DeletionIsSafe == Spec => []DeleteSafe
<1>1. IInv => DeleteSafe
  BY DEF IInv
<1> QED BY IInvHolds, <1>1, PTL

\* No step hands units to a thread past a waiter that could use them first.
THEOREM NobodyOvertakes == Spec => NoOvertaking
<1> DEFINE Fair ==
      \A t \in Threads :
          /\ (outcome[t] = "Pending" /\ outcome'[t] = "Ok") =>
               \A i \in 1..(scan - 1) :
                  ~Ready(queue[i]) => need[queue[i]] > need[t]
          /\ \A n \in NeedCounts : WaitFast(t, n) =>
               \A i \in 1..Len(queue) :
                  ~Ready(queue[i]) => need[queue[i]] > n
<1>1. IInv /\ [Next]_vars => [Fair]_vars
  <2> SUFFICES ASSUME IInv, Next PROVE Fair
    OBVIOUS
  <2>0. /\ \A i \in 1..Len(queue) : queue[i] \in Threads
        /\ need \in [Threads -> Int] /\ count \in Int /\ Len(queue) \in Nat
    BY DEF IInv, TypeOK
  <2>1. ASSUME NEW t \in Threads, NEW n \in NeedCounts, WaitFast(t, n),
               NEW i \in 1..Len(queue), ~Ready(queue[i])
        PROVE  need[queue[i]] > n
    <3>1. scan = 0 /\ count >= n
      BY <2>1 DEF WaitFast, Enter
    <3>2. need[queue[i]] > count
      BY <2>1, <3>1 DEF IInv, Scanned, Ready
    <3> QED BY <2>0, <3>1, <3>2, ArgumentAssumption
  <2>2. ASSUME NEW t \in Threads, outcome[t] = "Pending", outcome'[t] = "Ok",
               NEW i \in 1..(scan - 1), ~Ready(queue[i])
        PROVE  need[queue[i]] > need[t]
    <3>1. WakeGrant
      <4>1. ~(\E c \in CancelCounts : Cancel(c)) /\ ~DeleteBegin
        BY <2>2 DEF Cancel, DeleteBegin, EndAllPending
      <4>2. \A u \in Threads : ~WaitReady(u) /\ ~WaitTimedOut(u)
        BY <2>2 DEF WaitReady, WaitTimedOut, Leave, IInv, TypeOK
      <4>3. \A u \in Threads : ~WaitCall(u)
        <5> SUFFICES ASSUME NEW u \in Threads, WaitCall(u) PROVE FALSE
          OBVIOUS
        <5>1. outcome' = outcome \/ outcome' = [outcome EXCEPT ![u] = "Pending"]
          BY DEF WaitCall, WaitInvalCount, WaitDeleted, WaitFast, PollTimedOut,
                 WaitBlock, Return
        <5>2. outcome \in [Threads -> {"Pending", "Ok", "Canceled", "Deleted"}]
          BY DEF IInv, TypeOK
        <5> QED BY <2>2, <5>1, <5>2
      <4>4. \A n \in SignalCounts : ~SignalBegin(n)
        BY <2>2 DEF SignalBegin
      <4>5. ~WakeSkip /\ ~SignalEnd /\ ~DeleteEnd /\ ~Create
        BY <2>2 DEF WakeSkip, SignalEnd, DeleteEnd, Create
      <4> QED BY <4>1, <4>2, <4>3, <4>4, <4>5 DEF Next
    <3>2. scan \in 1..Len(queue) /\ t = queue[scan] /\ need[t] <= count
      BY <2>2, <3>1 DEF WakeGrant, IInv, TypeOK
    <3>3. i \in 1..Len(queue) /\ i < scan
      BY <2>0, <3>2
    <3>4. need[queue[i]] > count
      BY <2>2, <3>3 DEF IInv, Scanned, Ready
    <3> QED BY <2>0, <3>2, <3>3, <3>4
  <2> QED BY <2>1, <2>2
<1>2. [][Fair]_vars => NoOvertaking
  BY DEF NoOvertaking
<1> QED BY <1>1, <1>2, IInvHolds, PTL DEF Spec

-----------------------------------------------------------------------------
(* Conservation of units and the refinement of AtomicSema.  Both count the *)
(* units of a set of waiters, each unit named by its thread and a number.  *)

UnitsOf(f, S) == UNION {{t} \X (1..f[t]) : t \in S}

\* A thread that is not inside Wait has no record: no need and no outcome.
Records ==
    \A t \in Threads :
        /\ Waiting(t) => need[t] \in 1..MaxCount
        /\ ~Waiting(t) => need[t] = 0 /\ outcome[t] = "Pending"

\* The units set aside are finitely many, and they balance the counter.
Balance == IsFiniteSet(GrantedUnits) /\ UnitsConserved

\* What the Signal that holds the mutex has done so far: it has added its
\* units, and taken from them what it has given to the waiters it served.
Progress ==
    /\ signal \in [units : Int, n : Int, served : SUBSET Threads]
    /\ scan = 0 => signal = NoSignal
    /\ scan # 0 =>
          /\ signal.n \in SignalCounts
          /\ signal.units + signal.n <= MaxCount
          /\ signal.served \subseteq Granted
          /\ IsFiniteSet(UnitsOf(need, signal.served))
          /\ count = signal.units + signal.n
                       - Cardinality(UnitsOf(need, signal.served))
          /\ signal.served # {} => count >= 0

LInv == IInv /\ Records /\ Balance /\ Progress

-----------------------------------------------------------------------------
\* One more thread's units come on top of the others'.
LEMMA UnitsAdd ==
    ASSUME NEW S, NEW f, NEW u, u \notin S, f[u] \in Nat,
           IsFiniteSet(UnitsOf(f, S))
    PROVE  /\ IsFiniteSet(UnitsOf(f, S \cup {u}))
           /\ Cardinality(UnitsOf(f, S \cup {u}))
                 = Cardinality(UnitsOf(f, S)) + f[u]
<1> DEFINE N == {u} \X (1..f[u])
<1>1. UnitsOf(f, S \cup {u}) = UnitsOf(f, S) \cup N
  BY DEF UnitsOf
<1>2. UnitsOf(f, S) \cap N = {}
  BY DEF UnitsOf
<1>3. IsFiniteSet({u}) /\ Cardinality({u}) = 1
  BY FS_Singleton
<1>4. IsFiniteSet(1..f[u]) /\ Cardinality(1..f[u]) = f[u]
  BY FS_Interval
<1>5. IsFiniteSet(N) /\ Cardinality(N) = f[u]
  <2>1. IsFiniteSet(N) /\ Cardinality(N) = Cardinality({u}) * Cardinality(1..f[u])
    BY <1>3, <1>4, FS_Product
  <2>2. Cardinality({u}) * Cardinality(1..f[u]) = f[u]
    BY ONLY <1>3, <1>4, f[u] \in Nat
  <2> QED BY ONLY <2>1, <2>2
<1>6. /\ IsFiniteSet(UnitsOf(f, S) \cup N)
      /\ Cardinality(UnitsOf(f, S) \cup N)
           = Cardinality(UnitsOf(f, S)) + Cardinality(N)
                - Cardinality(UnitsOf(f, S) \cap N)
  BY <1>5, FS_Union
<1>7. Cardinality(UnitsOf(f, S) \cap N) = 0
  BY <1>2, FS_EmptySet
<1>8. Cardinality(UnitsOf(f, S)) \in Nat
  BY FS_CardinalityType
<1> HIDE DEF N
<1>9. Cardinality(UnitsOf(f, S \cup {u})) = Cardinality(UnitsOf(f, S)) + f[u] - 0
  BY ONLY <1>1, <1>5, <1>6, <1>7
<1>10. IsFiniteSet(UnitsOf(f, S \cup {u}))
  BY ONLY <1>1, <1>6
<1> QED BY ONLY <1>8, <1>9, <1>10, f[u] \in Nat

\* Nobody's units are none.
LEMMA UnitsNone ==
    ASSUME NEW f
    PROVE  IsFiniteSet(UnitsOf(f, {})) /\ Cardinality(UnitsOf(f, {})) = 0
<1>1. UnitsOf(f, {}) = {}
  BY DEF UnitsOf
<1> QED BY <1>1, FS_EmptySet

\* The units of some of the threads are among the units of all of them.
LEMMA UnitsPart ==
    ASSUME NEW S, NEW T, T \subseteq S, NEW f, IsFiniteSet(UnitsOf(f, S))
    PROVE  IsFiniteSet(UnitsOf(f, T))
<1>1. UnitsOf(f, T) \subseteq UnitsOf(f, S)
  BY DEF UnitsOf
<1> QED BY <1>1, FS_Subset

\* Only the needs of the threads counted matter.
LEMMA UnitsSame ==
    ASSUME NEW S, NEW f, NEW g, \A t \in S : f[t] = g[t]
    PROVE  UnitsOf(f, S) = UnitsOf(g, S)
BY DEF UnitsOf

LEMMA GrantedUnitsOf == GrantedUnits = UnitsOf(need, Granted)
BY DEF GrantedUnits, UnitsOf

-----------------------------------------------------------------------------
\* AddWaiter adds its thread to those inside Wait, and nobody else.
LEMMA BlockWaiting ==
    ASSUME IInv, NEW t \in Threads, NEW n, NEW p, NEW tm, WaitBlock(t, n, p, tm)
    PROVE  \A u \in Threads : Waiting(u)' <=> (Waiting(u) \/ u = t)
<1> PICK k \in 1..(Len(queue) + 1) : queue' = InsertAt(queue, k, t)
  BY DEF WaitBlock
<1>0. queue \in Seq(Threads) /\ Len(queue) \in Nat
  BY DEF IInv, TypeOK
<1>1. Inserted(queue', queue, k, t, Threads)
  BY <1>0, InsertAtFacts
<1>2. /\ Len(queue') = Len(queue) + 1
      /\ \A i \in 1..(Len(queue) + 1) :
            queue'[i] = IF i < k THEN queue[i]
                        ELSE IF i = k THEN t ELSE queue[i - 1]
  BY ONLY <1>1 DEF Inserted
<1>3. ASSUME NEW u \in Threads, Waiting(u) PROVE Waiting(u)'
  <2>1. PICK i \in 1..Len(queue) : queue[i] = u
    BY <1>3 DEF Waiting
  <2> DEFINE j == IF i < k THEN i ELSE i + 1
  <2>2. j \in 1..Len(queue') /\ queue'[j] = u
    BY <1>0, <1>2, <2>1
  <2> QED BY <2>2 DEF Waiting
<1>4. Waiting(t)'
  BY <1>0, <1>2 DEF Waiting
<1>5. ASSUME NEW u \in Threads, Waiting(u)', u # t PROVE Waiting(u)
  <2>1. PICK i \in 1..Len(queue') : queue'[i] = u
    BY <1>5 DEF Waiting
  <2> DEFINE j == IF i < k THEN i ELSE i - 1
  <2>2. j \in 1..Len(queue) /\ queue[j] = u
    BY <1>0, <1>2, <1>5, <2>1
  <2> QED BY <2>2 DEF Waiting
<1> QED BY <1>3, <1>4, <1>5

\* RemoveWaiter takes its thread out, and nobody else.
LEMMA LeaveWaiting ==
    ASSUME IInv, NEW t \in Threads, NEW k \in 1..Len(queue), NEW r, Leave(t, k, r)
    PROVE  /\ Waiting(t)
           /\ \A u \in Threads : Waiting(u)' <=> (Waiting(u) /\ u # t)
<1>0. queue \in Seq(Threads) /\ Len(queue) \in Nat
  BY DEF IInv, TypeOK
<1>1. /\ Len(queue') = Len(queue) - 1
      /\ \A i \in 1..(Len(queue) - 1) :
            queue'[i] = IF i < k THEN queue[i] ELSE queue[i + 1]
  BY <1>0, RemoveAtFacts DEF Leave
<1>2. /\ queue[k] = t
      /\ \A j \in 1..Len(queue) : j # k => queue[j] # t
  BY DEF IInv, Distinct, Leave
<1>3. Waiting(t)
  BY <1>2 DEF Waiting
<1>4. ASSUME NEW u \in Threads, Waiting(u), u # t PROVE Waiting(u)'
  <2>1. PICK i \in 1..Len(queue) : queue[i] = u
    BY <1>4 DEF Waiting
  <2> DEFINE j == IF i < k THEN i ELSE i - 1
  <2>2. j \in 1..Len(queue') /\ queue'[j] = u
    BY <1>0, <1>1, <1>2, <1>4, <2>1
  <2> QED BY <2>2 DEF Waiting
<1>5. ASSUME NEW u \in Threads, Waiting(u)' PROVE Waiting(u) /\ u # t
  <2>1. PICK i \in 1..Len(queue') : queue'[i] = u
    BY <1>5 DEF Waiting
  <2> DEFINE j == IF i < k THEN i ELSE i + 1
  <2>2. j \in 1..Len(queue) /\ queue[j] = u /\ j # k
    BY <1>0, <1>1, <2>1
  <2> QED BY <1>2, <2>2 DEF Waiting
<1> QED BY <1>3, <1>4, <1>5

\* A step with no Signal running that leaves the set of granted waiters and
\* their needs alone, and moves the counter as it moves the ledger.
LEMMA SameGrants ==
    ASSUME LInv, scan = 0, scan' = 0, signal' = signal, Granted' = Granted,
           \A u \in Granted : need'[u] = need[u],
           NEW d \in Int, count' = count + d, ledger' = ledger + d
    PROVE  Balance' /\ Progress'
<1>1. GrantedUnits' = GrantedUnits
  BY UnitsSame DEF GrantedUnits, UnitsOf
<1>2. count \in Int /\ ledger \in Int
  BY DEF LInv, IInv, TypeOK
<1>3. IsFiniteSet(GrantedUnits) /\ ledger = count + Cardinality(GrantedUnits)
  BY DEF LInv, Balance, UnitsConserved
<1>4. Cardinality(GrantedUnits) \in Nat
  BY <1>3, FS_CardinalityType
<1>5. ledger' = count' + Cardinality(GrantedUnits)
  BY <1>2, <1>3, <1>4
<1>6. Balance'
  BY <1>1, <1>3, <1>5 DEF Balance, UnitsConserved
<1>7. Progress'
  BY DEF LInv, Progress
<1> QED BY <1>6, <1>7

LEMMA InitLInv == Init => LInv
<1> SUFFICES ASSUME Init PROVE LInv
  OBVIOUS
<1>1. IInv
  BY InitIInv
<1>2. \A t \in Threads : ~Waiting(t)
  BY DEF Init, Waiting
<1>3. Records
  BY <1>2 DEF Init, Records
<1>4. Granted = {}
  BY <1>2 DEF Granted
<1>5. IsFiniteSet(GrantedUnits) /\ Cardinality(GrantedUnits) = 0
  BY <1>4, GrantedUnitsOf, UnitsNone
<1>6. Balance
  BY <1>5, CreateAssumption DEF Balance, UnitsConserved, Init
<1>7. Progress
  BY DEF Init, NoSignal, Progress
<1> QED BY <1>1, <1>3, <1>6, <1>7 DEF LInv

LEMMA ReturnLInv ==
    ASSUME LInv, scan = 0, NEW t \in Threads, NEW r, Return(t, r),
           NEW d \in Int, count' = count + d, ledger' = ledger + d
    PROVE  Records' /\ Balance' /\ Progress'
<1> USE DEF Return, waiterVars
<1>1. \A u \in Threads : Waiting(u)' <=> Waiting(u)
  BY DEF Waiting
<1>2. Records'
  BY <1>1 DEF LInv, Records
<1>3. Granted' = Granted
  BY <1>1 DEF Granted
<1>4. Balance' /\ Progress'
  BY <1>3, SameGrants
<1> QED BY <1>2, <1>4

LEMMA WaitBlockLInv ==
    ASSUME LInv, NEW t \in Threads, NEW n \in Int, NEW p, NEW tm,
           WaitBlock(t, n, p, tm)
    PROVE  Records' /\ Balance' /\ Progress'
<1>0. /\ need \in [Threads -> Int] /\ count \in Int /\ ledger \in Int
      /\ outcome \in [Threads -> {"Pending", "Ok", "Canceled", "Deleted"}]
  BY DEF LInv, IInv, TypeOK
<1>1. \A u \in Threads : Waiting(u)' <=> (Waiting(u) \/ u = t)
  BY BlockWaiting DEF LInv
<1>2. /\ need' = [need EXCEPT ![t] = n] /\ n \in 1..MaxCount /\ ~Waiting(t)
      /\ outcome' = [outcome EXCEPT ![t] = "Pending"]
  BY CreateAssumption DEF WaitBlock
<1>3. /\ need'[t] = n /\ outcome'[t] = "Pending"
      /\ \A u \in Threads : u # t => need'[u] = need[u] /\ outcome'[u] = outcome[u]
  BY <1>0, <1>2
<1>4. Records'
  BY <1>1, <1>2, <1>3 DEF LInv, Records
<1>5. Granted' = Granted
  BY <1>1, <1>2, <1>3 DEF Granted
<1>6. \A u \in Granted : need'[u] = need[u]
  BY <1>2, <1>3 DEF Granted
<1>7. /\ scan = 0 /\ scan' = 0 /\ signal' = signal
      /\ count' = count + 0 /\ ledger' = ledger + 0
  BY <1>0 DEF WaitBlock, Enter
<1>8. Balance' /\ Progress'
  BY <1>5, <1>6, <1>7, SameGrants
<1> QED BY <1>4, <1>8

\* A granted waiter takes its units along, any other leaves none behind.
LEMMA LeaveLInv ==
    ASSUME LInv, scan = 0, NEW t \in Threads, NEW k \in 1..Len(queue),
           NEW r, Leave(t, k, r),
           ledger' = ledger - (IF outcome[t] = "Ok" THEN need[t] ELSE 0)
    PROVE  Records' /\ Balance' /\ Progress'
<1>0. /\ need \in [Threads -> Int] /\ count \in Int /\ ledger \in Int
      /\ outcome \in [Threads -> {"Pending", "Ok", "Canceled", "Deleted"}]
  BY DEF LInv, IInv, TypeOK
<1>1. Waiting(t) /\ \A u \in Threads : Waiting(u)' <=> (Waiting(u) /\ u # t)
  BY LeaveWaiting DEF LInv
<1>2. /\ need'[t] = 0 /\ outcome'[t] = "Pending"
      /\ \A u \in Threads : u # t => need'[u] = need[u] /\ outcome'[u] = outcome[u]
  BY <1>0 DEF Leave
<1>3. scan' = 0 /\ signal' = signal /\ count' = count
  BY DEF Leave
<1>4. Records'
  BY <1>1, <1>2 DEF LInv, Records
<1>5. Granted' = Granted \ {t}
  BY <1>1, <1>2 DEF Granted
<1>6. CASE outcome[t] # "Ok"
  <2>1. Granted' = Granted /\ \A u \in Granted : need'[u] = need[u]
    BY <1>2, <1>5, <1>6 DEF Granted
  <2>2. count' = count + 0 /\ ledger' = ledger + 0
    BY <1>0, <1>3, <1>6
  <2>3. Balance' /\ Progress'
    BY <1>3, <2>1, <2>2, SameGrants
  <2> QED BY <1>4, <2>3
<1>7. CASE outcome[t] = "Ok"
  <2>1. need[t] \in Nat
    BY <1>1, CreateAssumption DEF LInv, Records
  <2>2. t \in Granted
    BY <1>1, <1>7 DEF Granted
  <2> DEFINE S == Granted \ {t}
  <2>3. S \cup {t} = Granted /\ t \notin S /\ S \subseteq Granted
    BY <2>2
  <2>4. IsFiniteSet(UnitsOf(need, Granted))
    BY GrantedUnitsOf DEF LInv, Balance
  <2>5. IsFiniteSet(UnitsOf(need, S))
    BY <2>3, <2>4, UnitsPart
  <2>6. Cardinality(UnitsOf(need, Granted)) = Cardinality(UnitsOf(need, S)) + need[t]
    <3> HIDE DEF S
    <3>1. Cardinality(UnitsOf(need, S \cup {t})) = Cardinality(UnitsOf(need, S)) + need[t]
      BY ONLY <2>1, <2>3, <2>5, UnitsAdd
    <3> QED BY ONLY <2>3, <3>1
  <2>7. GrantedUnits' = UnitsOf(need, S)
    BY <1>2, <1>5 DEF GrantedUnits, UnitsOf, Granted
  <2>8. ledger = count + Cardinality(UnitsOf(need, Granted))
    BY GrantedUnitsOf DEF LInv, Balance, UnitsConserved
  <2>9. Cardinality(UnitsOf(need, S)) \in Nat
    BY <2>5, FS_CardinalityType
  <2> HIDE DEF S
  <2>10. ledger' = count' + Cardinality(UnitsOf(need, S))
    BY <1>0, <1>3, <1>7, <2>1, <2>6, <2>8, <2>9
  <2>11. Balance'
    BY <2>5, <2>7, <2>10 DEF Balance, UnitsConserved
  <2>12. Progress'
    BY <1>3 DEF LInv, Progress
  <2> QED BY <1>4, <2>11, <2>12
<1> QED BY <1>6, <1>7

LEMMA SignalBeginLInv ==
    ASSUME LInv, NEW n \in SignalCounts, SignalBegin(n)
    PROVE  Records' /\ Balance' /\ Progress'
<1> USE ArgumentAssumption DEF SignalBegin, Enter, waiterVars
<1>0. count \in Int /\ ledger \in Int /\ n \in Int
  BY DEF LInv, IInv, TypeOK
<1>1. \A u \in Threads : Waiting(u)' <=> Waiting(u)
  BY DEF Waiting
<1>2. Records'
  BY <1>1 DEF LInv, Records
<1>3. Granted' = Granted
  BY <1>1 DEF Granted
<1>4. GrantedUnits' = GrantedUnits
  BY <1>3 DEF GrantedUnits
<1>5. IsFiniteSet(GrantedUnits) /\ ledger = count + Cardinality(GrantedUnits)
  BY DEF LInv, Balance, UnitsConserved
<1>6. Cardinality(GrantedUnits) \in Nat
  BY <1>5, FS_CardinalityType
<1>7. ledger' = count' + Cardinality(GrantedUnits)
  BY <1>0, <1>5, <1>6
<1>8. Balance'
  BY <1>4, <1>5, <1>7 DEF Balance, UnitsConserved
<1>9. /\ signal'.units = count /\ signal'.n = n /\ signal'.served = {}
      /\ signal' \in [units : Int, n : Int, served : SUBSET Threads]
  BY <1>0
<1>10. /\ IsFiniteSet(UnitsOf(need', signal'.served))
       /\ Cardinality(UnitsOf(need', signal'.served)) = 0
  BY <1>9, UnitsNone
<1>11. Progress'
  BY <1>0, <1>9, <1>10 DEF Progress
<1> QED BY <1>2, <1>8, <1>11

\* Serving a waiter moves its units from the counter to what is set aside,
\* and to what this Signal has given away.
LEMMA WakeGrantLInv ==
    ASSUME LInv, WakeGrant
    PROVE  Records' /\ Balance' /\ Progress'
<1> PICK g : g = queue[scan]
  OBVIOUS
<1>0. /\ scan \in 1..Len(queue) /\ g \in Threads /\ scan # 0 /\ scan' # 0
      /\ need \in [Threads -> Int] /\ count \in Int /\ ledger \in Int
      /\ outcome \in [Threads -> {"Pending", "Ok", "Canceled", "Deleted"}]
  BY DEF LInv, IInv, TypeOK, WakeGrant
<1>1. /\ outcome[g] = "Pending" /\ need[g] <= count /\ count' = count - need[g]
      /\ outcome' = [outcome EXCEPT ![g] = "Ok"]
      /\ need' = need /\ queue' = queue /\ ledger' = ledger
      /\ signal' = [signal EXCEPT !.served = @ \cup {g}]
  BY DEF WakeGrant, waiterVars, Ready
<1>2. Waiting(g) /\ \A u \in Threads : Waiting(u)' <=> Waiting(u)
  BY <1>0, <1>1 DEF Waiting
<1>3. outcome'[g] = "Ok" /\ \A u \in Threads : u # g => outcome'[u] = outcome[u]
  BY <1>0, <1>1
<1>4. Records'
  BY <1>1, <1>2, <1>3 DEF LInv, Records
<1>5. g \notin Granted /\ Granted' = Granted \cup {g}
  BY <1>0, <1>1, <1>2, <1>3 DEF Granted
<1>6. need[g] \in Nat
  BY <1>0, <1>2, CreateAssumption DEF LInv, Records
<1>7. Balance'
  <2>1. IsFiniteSet(UnitsOf(need, Granted))
    BY GrantedUnitsOf DEF LInv, Balance
  <2>2. /\ IsFiniteSet(UnitsOf(need, Granted \cup {g}))
        /\ Cardinality(UnitsOf(need, Granted \cup {g}))
             = Cardinality(UnitsOf(need, Granted)) + need[g]
    BY ONLY <1>5, <1>6, <2>1, UnitsAdd
  <2>3. GrantedUnits' = UnitsOf(need, Granted \cup {g})
    BY <1>1, <1>5 DEF GrantedUnits, UnitsOf
  <2>4. ledger = count + Cardinality(UnitsOf(need, Granted))
    BY GrantedUnitsOf DEF LInv, Balance, UnitsConserved
  <2>5. Cardinality(UnitsOf(need, Granted)) \in Nat
    BY <2>1, FS_CardinalityType
  <2>6. ledger' = count' + (Cardinality(UnitsOf(need, Granted)) + need[g])
    BY ONLY <1>0, <1>1, <1>6, <2>4, <2>5
  <2> QED BY ONLY <2>2, <2>3, <2>6 DEF Balance, UnitsConserved
<1>8. Progress'
  <2> PICK S : S = signal.served
    OBVIOUS
  <2>1. /\ signal \in [units : Int, n : Int, served : SUBSET Threads]
        /\ S \subseteq Granted /\ IsFiniteSet(UnitsOf(need, S))
        /\ count = signal.units + signal.n - Cardinality(UnitsOf(need, S))
        /\ signal.n \in SignalCounts /\ signal.units + signal.n <= MaxCount
    BY <1>0 DEF LInv, Progress
  <2>2. /\ signal'.units = signal.units /\ signal'.n = signal.n
        /\ signal'.served = S \cup {g}
        /\ signal' \in [units : Int, n : Int, served : SUBSET Threads]
    BY <1>0, <1>1, <2>1
  <2>3. g \notin S /\ S \cup {g} \subseteq Granted'
    BY <1>5, <2>1
  <2>4. /\ IsFiniteSet(UnitsOf(need, S \cup {g}))
        /\ Cardinality(UnitsOf(need, S \cup {g}))
             = Cardinality(UnitsOf(need, S)) + need[g]
    BY ONLY <1>6, <2>1, <2>3, UnitsAdd
  <2>5. Cardinality(UnitsOf(need, S)) \in Nat /\ signal.units \in Int /\ signal.n \in Int
    BY <2>1, FS_CardinalityType
  <2>6. count' = signal.units + signal.n - Cardinality(UnitsOf(need, S \cup {g}))
    BY ONLY <1>0, <1>1, <1>6, <2>1, <2>4, <2>5
  <2>7. count' >= 0
    BY ONLY <1>0, <1>1, <1>6
  <2>8. need' = need /\ scan' # 0
    BY <1>0, <1>1
  <2> QED BY ONLY <2>1, <2>2, <2>3, <2>4, <2>6, <2>7, <2>8 DEF Progress
<1> QED BY <1>4, <1>7, <1>8

LEMMA WakeSkipLInv ==
    ASSUME LInv, WakeSkip
    PROVE  Records' /\ Balance' /\ Progress'
<1> USE DEF WakeSkip, waiterVars
<1>0. scan # 0 /\ scan' # 0
  BY DEF LInv, IInv, TypeOK
<1>1. \A u \in Threads : Waiting(u)' <=> Waiting(u)
  BY DEF Waiting
<1>2. Records'
  BY <1>1 DEF LInv, Records
<1>3. Granted' = Granted
  BY <1>1 DEF Granted
<1>4. GrantedUnits' = GrantedUnits
  BY <1>3 DEF GrantedUnits
<1>5. Balance'
  BY <1>4 DEF LInv, Balance, UnitsConserved
<1>6. Progress'
  BY <1>0, <1>3 DEF LInv, Progress
<1> QED BY <1>2, <1>5, <1>6

LEMMA SignalEndLInv ==
    ASSUME LInv, SignalEnd
    PROVE  Records' /\ Balance' /\ Progress'
<1> USE DEF SignalEnd, waiterVars
<1>1. \A u \in Threads : Waiting(u)' <=> Waiting(u)
  BY DEF Waiting
<1>2. Records'
  BY <1>1 DEF LInv, Records
<1>3. Granted' = Granted
  BY <1>1 DEF Granted
<1>4. GrantedUnits' = GrantedUnits
  BY <1>3 DEF GrantedUnits
<1>5. Balance'
  BY <1>4 DEF LInv, Balance, UnitsConserved
<1>6. Progress'
  BY DEF Progress, NoSignal
<1> QED BY <1>2, <1>5, <1>6

\* Cancel and the destructor leave the granted waiters alone.
LEMMA EndAllLInv ==
    ASSUME LInv, scan = 0, NEW r \in {"Canceled", "Deleted"}, EndAllPending(r),
           UNCHANGED <<queue, waiterVars, scan, signal>>,
           NEW d \in Int, count' = count + d, ledger' = ledger + d
    PROVE  Records' /\ Balance' /\ Progress'
<1> USE DEF waiterVars
<1>1. \A u \in Threads : Waiting(u)' <=> Waiting(u)
  BY DEF Waiting
<1>2. \A u \in Threads :
         outcome'[u] = IF Waiting(u) /\ outcome[u] = "Pending" THEN r ELSE outcome[u]
  BY DEF EndAllPending, Ready
<1>3. Records'
  BY <1>1, <1>2 DEF LInv, Records
<1>4. Granted' = Granted
  BY <1>1, <1>2 DEF Granted
<1>5. Balance' /\ Progress'
  BY <1>4, SameGrants
<1> QED BY <1>3, <1>5

LEMMA DeleteEndLInv ==
    ASSUME LInv, DeleteEnd
    PROVE  Records' /\ Balance' /\ Progress'
<1> USE DEF DeleteEnd, Enter, waiterVars
<1>0. count \in Int /\ ledger \in Int
  BY DEF LInv, IInv, TypeOK
<1>1. \A u \in Threads : Waiting(u)' <=> Waiting(u)
  BY DEF Waiting
<1>2. Records'
  BY <1>1 DEF LInv, Records
<1>3. Granted' = Granted
  BY <1>1 DEF Granted
<1>4. count' = count + 0 /\ ledger' = ledger + 0
  BY <1>0
<1>5. Balance' /\ Progress'
  BY <1>3, <1>4, SameGrants
<1> QED BY <1>2, <1>5

LEMMA CreateLInv ==
    ASSUME LInv, Create
    PROVE  Records' /\ Balance' /\ Progress'
<1> USE DEF Create, waiterVars
<1>1. Len(queue) = 0 /\ scan = 0
  BY DEF LInv, IInv, DeleteSafe, ScanLive
<1>2. \A u \in Threads : ~Waiting(u) /\ ~Waiting(u)'
  BY <1>1 DEF Waiting
<1>3. Records'
  BY <1>2 DEF LInv, Records
<1>4. Granted' = {}
  BY <1>2 DEF Granted
<1>5. GrantedUnits' = {}
  BY <1>4 DEF GrantedUnits
<1>6. Balance'
  BY <1>5, FS_EmptySet, CreateAssumption DEF Balance, UnitsConserved
<1>7. Progress'
  BY <1>1 DEF LInv, Progress
<1> QED BY <1>3, <1>6, <1>7

\* Every step of the semaphore preserves both layers of the invariant.
LEMMA NextLInv == LInv /\ [Next]_vars => LInv'
<1> SUFFICES ASSUME LInv, [Next]_vars PROVE Records' /\ Balance' /\ Progress'
  BY NextIInv DEF LInv
<1> USE CreateAssumption, ArgumentAssumption
<1>0. /\ count \in Int /\ ledger \in Int /\ need \in [Threads -> Int]
      /\ count = count + 0 /\ ledger = ledger + 0
  BY DEF LInv, IInv, TypeOK
<1>1. ASSUME NEW t \in Threads, WaitCall(t) PROVE Records' /\ Balance' /\ Progress'
  <2> PICK n \in NeedCounts :
        \/ WaitInvalCount(t, n)
        \/ WaitDeleted(t, n)
        \/ WaitFast(t, n)
        \/ PollTimedOut(t, n)
        \/ \E p \in Priorities, tm \in BOOLEAN : WaitBlock(t, n, p, tm)
    BY <1>1 DEF WaitCall
  <2>0. n \in Int
    OBVIOUS
  <2>1. CASE WaitInvalCount(t, n)
    BY <1>0, <2>1, ReturnLInv DEF WaitInvalCount, Enter
  <2>2. CASE WaitDeleted(t, n)
    BY <1>0, <2>2, ReturnLInv DEF WaitDeleted, Enter
  <2>3. CASE WaitFast(t, n)
    <3>1. Return(t, "Ok") /\ scan = 0 /\ count' = count + (-n) /\ ledger' = ledger + (-n)
      BY <1>0, <2>0, <2>3 DEF WaitFast, Enter
    <3>2. -n \in Int
      BY <2>0
    <3> QED BY <3>1, <3>2, ReturnLInv
  <2>4. CASE PollTimedOut(t, n)
    BY <1>0, <2>4, ReturnLInv DEF PollTimedOut, Enter
  <2>5. ASSUME NEW p \in Priorities, NEW tm \in BOOLEAN, WaitBlock(t, n, p, tm)
        PROVE  Records' /\ Balance' /\ Progress'
    BY <2>0, <2>5, WaitBlockLInv
  <2> QED BY <2>1, <2>2, <2>3, <2>4, <2>5
<1>2. ASSUME NEW t \in Threads, WaitReady(t) PROVE Records' /\ Balance' /\ Progress'
  <2>1. PICK i \in 1..Len(queue) : Leave(t, i, outcome[t])
    BY <1>2 DEF WaitReady
  <2>2. scan = 0 /\ ledger' = ledger - (IF outcome[t] = "Ok" THEN need[t] ELSE 0)
    BY <1>2 DEF WaitReady, Enter
  <2> QED BY <2>1, <2>2, LeaveLInv
<1>3. ASSUME NEW t \in Threads, WaitTimedOut(t) PROVE Records' /\ Balance' /\ Progress'
  <2>1. PICK i \in 1..Len(queue) : Leave(t, i, "TimedOut")
    BY <1>3 DEF WaitTimedOut
  <2>2. scan = 0 /\ ledger' = ledger - (IF outcome[t] = "Ok" THEN need[t] ELSE 0)
    BY <1>0, <1>3 DEF WaitTimedOut, Enter, Ready
  <2> QED BY <2>1, <2>2, LeaveLInv
<1>4. ASSUME NEW n \in SignalCounts, SignalBegin(n) PROVE Records' /\ Balance' /\ Progress'
  BY <1>4, SignalBeginLInv
<1>5. ASSUME NEW c \in CancelCounts, Cancel(c) PROVE Records' /\ Balance' /\ Progress'
  <2>1. /\ scan = 0 /\ EndAllPending("Canceled")
        /\ UNCHANGED <<queue, waiterVars, scan, signal>>
    BY <1>5 DEF Cancel, Enter
  <2>2. /\ count' - count \in Int /\ count' = count + (count' - count)
        /\ ledger' = ledger + (count' - count)
    BY <1>0, <1>5 DEF Cancel
  <2> QED BY <2>1, <2>2, EndAllLInv
<1>6. CASE DeleteBegin
  <2>1. /\ scan = 0 /\ EndAllPending("Deleted")
        /\ UNCHANGED <<queue, waiterVars, scan, signal>>
    BY <1>6 DEF DeleteBegin, Enter
  <2>2. count' = count + 0 /\ ledger' = ledger + 0
    BY <1>0, <1>6 DEF DeleteBegin
  <2> QED BY <2>1, <2>2, EndAllLInv
<1>7. CASE UNCHANGED vars
  <2>1. \A u \in Threads : Waiting(u)' <=> Waiting(u)
    BY <1>7 DEF vars, Waiting
  <2>2. Records' /\ Granted' = Granted
    BY <1>7, <2>1 DEF vars, waiterVars, LInv, Records, Granted
  <2>3. GrantedUnits' = GrantedUnits
    BY <1>7, <2>2 DEF vars, waiterVars, GrantedUnits
  <2>4. Balance' /\ Progress'
    BY <1>7, <2>2, <2>3 DEF vars, waiterVars, LInv, Balance, Progress, UnitsConserved
  <2> QED BY <2>2, <2>4
<1> QED
  BY <1>1, <1>2, <1>3, <1>4, <1>5, <1>6, <1>7, WakeGrantLInv, WakeSkipLInv,
     SignalEndLInv, DeleteEndLInv, CreateLInv DEF Next

\* Both layers hold in every reachable state of the semaphore.
THEOREM LInvHolds == Spec => []LInv
BY InitLInv, NextLInv, PTL DEF Spec

\* Units are neither lost nor made, whatever races a grant: what Signal and
\* Cancel put in and no returned Wait took is in m_count or set aside for a
\* waiter that was granted it and has not returned yet.
THEOREM UnitsAreConserved == Spec => []UnitsConserved
<1>1. LInv => UnitsConserved
  BY DEF LInv, Balance
<1> QED BY LInvHolds, <1>1, PTL

-----------------------------------------------------------------------------
(* The refinement: every step is a step of AtomicSema or changes nothing   *)
(* that AtomicSema sees.                                                   *)

\* What the abstract semaphore sees while no Signal runs: the counter and
\* the outcomes as they are, and a thread outside exactly when it is not
\* queued.
LEMMA Seen ==
    ASSUME LInv, scan = 0
    PROVE  /\ signal = NoSignal /\ signal.served = {}
           /\ [t \in Threads |-> IF t \in signal.served THEN "Pending" ELSE outcome[t]]
                 = outcome
           /\ \A t \in Threads : Waiting(t) <=> need[t] # 0
<1>1. signal = NoSignal /\ signal.served = {}
  BY DEF LInv, Progress, NoSignal
<1>2. outcome \in [Threads -> {"Pending", "Ok", "Canceled", "Deleted"}]
  BY DEF LInv, IInv, TypeOK
<1>3. [t \in Threads |-> IF t \in signal.served THEN "Pending" ELSE outcome[t]] = outcome
  BY <1>1, <1>2
<1>4. \A t \in Threads : Waiting(t) <=> need[t] # 0
  BY CreateAssumption DEF LInv, Records
<1> QED BY <1>1, <1>3, <1>4

LEMMA InitAtomic == Init => Atomic!Init
BY DEF Init, Atomic!Init, NoSignal

LEMMA WaitFastAtomic ==
    ASSUME LInv, NEW t \in Threads, NEW n \in NeedCounts, WaitFast(t, n)
    PROVE  Atomic!Take(t, n)
<1>1. n \in Int /\ scan = 0 /\ scan' = 0 /\ signal' = signal
  BY ArgumentAssumption DEF WaitFast, Enter, Return
<1>2. need[t] = 0
  BY <1>1, Seen DEF WaitFast
<1> QED BY <1>1, <1>2, CreateAssumption
        DEF Atomic!Take, Atomic!Outside, Atomic!Fits, WaitFast, Return, waiterVars

LEMMA WaitRefusedAtomic ==
    ASSUME LInv, NEW t \in Threads, NEW n \in NeedCounts,
           WaitInvalCount(t, n) \/ WaitDeleted(t, n) \/ PollTimedOut(t, n)
    PROVE  Atomic!Refuse(t, n)
<1>1. /\ n \in Int /\ scan = 0 /\ scan' = 0 /\ signal' = signal
      /\ status # "Freed" /\ ~Waiting(t)
      /\ status' = status /\ count' = count /\ need' = need /\ outcome' = outcome
  BY ArgumentAssumption
     DEF WaitInvalCount, WaitDeleted, PollTimedOut, Enter, Return, waiterVars
<1>2. need[t] = 0
  BY <1>1, Seen
<1>3. \E r \in {"InvalCount", "TimedOut", "Deleted"} :
          /\ r = "InvalCount" <=> ~(n \in 1..MaxCount)
          /\ r = "TimedOut" => status = "Set" /\ n > count
          /\ r = "Deleted" => status = "Deleted"
          /\ ret' = <<t, r>>
  <2>0. count \in Int
    BY DEF LInv, IInv, TypeOK
  <2>1. CASE WaitInvalCount(t, n)
    BY <1>1, <2>1, CreateAssumption DEF WaitInvalCount, Return
  <2>2. CASE WaitDeleted(t, n)
    BY <1>1, <2>2, CreateAssumption DEF WaitDeleted, Return
  <2>3. CASE PollTimedOut(t, n)
    BY <1>1, <2>0, <2>3, CreateAssumption DEF PollTimedOut, Return
  <2> QED BY <2>1, <2>2, <2>3
<1> QED BY <1>1, <1>2, <1>3 DEF Atomic!Refuse, Atomic!Outside, Atomic!Fits

LEMMA WaitBlockAtomic ==
    ASSUME LInv, NEW t \in Threads, NEW n \in NeedCounts, NEW p, NEW tm,
           WaitBlock(t, n, p, tm)
    PROVE  Atomic!Await(t, n)
<1>0. /\ outcome \in [Threads -> {"Pending", "Ok", "Canceled", "Deleted"}]
      /\ count \in Int /\ n \in Int
  BY ArgumentAssumption DEF LInv, IInv, TypeOK
<1>1. /\ scan = 0 /\ scan' = 0 /\ signal' = signal
      /\ status = "Set" /\ ~Waiting(t) /\ n > count
      /\ status' = status /\ count' = count /\ n \in 1..MaxCount
      /\ need' = [need EXCEPT ![t] = n] /\ ret' = <<>>
  BY <1>0, CreateAssumption DEF WaitBlock, Enter
<1>2. need[t] = 0
  BY <1>1, Seen
<1>3. outcome' = outcome
  BY <1>0, <1>1 DEF WaitBlock, LInv, Records
<1> QED BY <1>1, <1>2, <1>3 DEF Atomic!Await, Atomic!Outside, Atomic!Fits

LEMMA LeaveAtomic ==
    ASSUME LInv, scan = 0, status # "Freed", NEW t \in Threads,
           NEW k \in 1..Len(queue), NEW r, Leave(t, k, r),
           r = IF outcome[t] = "Pending" THEN "TimedOut" ELSE outcome[t]
    PROVE  Atomic!Return(t)
<1>0. outcome \in [Threads -> {"Pending", "Ok", "Canceled", "Deleted"}]
  BY DEF LInv, IInv, TypeOK
<1>1. /\ scan' = 0 /\ signal' = signal /\ status' = status /\ count' = count
      /\ need' = [need EXCEPT ![t] = 0] /\ ret' = <<t, r>>
      /\ outcome' = [outcome EXCEPT ![t] = "Pending"]
  BY DEF Leave
<1>2. need[t] # 0
  BY LeaveWaiting, Seen DEF LInv
<1>3. signal.served = {} /\ signal'.served = {}
  BY <1>1, Seen
<1>4. /\ [u \in Threads |-> IF u \in signal.served THEN "Pending" ELSE outcome[u]] = outcome
      /\ [u \in Threads |-> IF u \in signal'.served THEN "Pending" ELSE outcome'[u]] = outcome'
  BY <1>0, <1>1, <1>3
<1> QED BY <1>1, <1>2, <1>4 DEF Atomic!Return, Atomic!Outside

\* Adding the units and examining waiters is not visible yet.
LEMMA ScanAtomic ==
    ASSUME LInv, (\E n \in SignalCounts : SignalBegin(n)) \/ WakeGrant \/ WakeSkip
    PROVE  UNCHANGED Atomic!vars
<1> DEFINE U == IF scan = 0 THEN count ELSE signal.units
           V == [t \in Threads |-> IF t \in signal.served THEN "Pending" ELSE outcome[t]]
<1> SUFFICES /\ status' = status /\ U' = U /\ need' = need /\ V' = V /\ ret' = ret
  BY DEF Atomic!vars
<1>0. /\ outcome \in [Threads -> {"Pending", "Ok", "Canceled", "Deleted"}]
      /\ signal \in [units : Int, n : Int, served : SUBSET Threads]
      /\ scan \in Nat
  BY DEF LInv, IInv, TypeOK, Progress
<1>1. ASSUME NEW n \in SignalCounts, SignalBegin(n)
      PROVE  /\ status' = status /\ U' = U /\ need' = need /\ V' = V /\ ret' = ret
  <2>1. /\ scan = 0 /\ scan' = 1 /\ status' = status /\ need' = need /\ ret' = ret
        /\ outcome' = outcome /\ signal'.units = count /\ signal'.served = {}
    BY <1>1 DEF SignalBegin, Enter, waiterVars
  <2>2. signal.served = {}
    BY <2>1, Seen
  <2> QED BY <2>1, <2>2
<1>2. CASE WakeGrant
  <2> PICK g : g = queue[scan]
    OBVIOUS
  <2>1. /\ scan # 0 /\ scan' # 0 /\ status' = status /\ need' = need /\ ret' = ret
        /\ g \in Threads /\ outcome[g] = "Pending"
        /\ outcome' = [outcome EXCEPT ![g] = "Ok"]
    BY <1>2 DEF WakeGrant, waiterVars, Ready, LInv, IInv, TypeOK
  <2>2. signal'.units = signal.units /\ signal'.served = signal.served \cup {g}
    BY <1>0, <1>2 DEF WakeGrant
  <2>3. \A t \in Threads : V'[t] = V[t]
    BY <1>0, <2>1, <2>2
  <2> QED BY <2>1, <2>2, <2>3
<1>3. CASE WakeSkip
  <2>1. /\ scan # 0 /\ scan' # 0 /\ status' = status /\ need' = need /\ ret' = ret
        /\ outcome' = outcome /\ signal' = signal
    BY <1>0, <1>3 DEF WakeSkip, waiterVars
  <2> QED BY <2>1
<1> QED BY <1>1, <1>2, <1>3

\* The two modules count alike.
LEMMA AtomicCardinality == \A S : Atomic!Cardinality(S) = Cardinality(S)
BY DEF Atomic!Cardinality, Cardinality, Atomic!IsFiniteSet, IsFiniteSet

\* The end of the scan is the whole Signal: whoever it served has been given
\* the units it needs, and the scan has passed everyone else without finding
\* enough for them.
LEMMA SignalEndAtomic ==
    ASSUME LInv, SignalEnd
    PROVE  \E n \in SignalCounts : Atomic!Signal(n)
<1> DEFINE U == IF scan = 0 THEN count ELSE signal.units
           V == [t \in Threads |-> IF t \in signal.served THEN "Pending" ELSE outcome[t]]
<1> PICK S : S = signal.served
  OBVIOUS
<1>0. /\ outcome \in [Threads -> {"Pending", "Ok", "Canceled", "Deleted"}]
      /\ need \in [Threads -> Int] /\ count \in Int /\ Len(queue) \in Nat
  BY DEF LInv, IInv, TypeOK
<1>1. /\ scan = Len(queue) + 1 /\ scan # 0 /\ scan' = 0
      /\ status' = status /\ count' = count /\ need' = need /\ outcome' = outcome
      /\ ret' = <<>> /\ signal'.served = {}
  BY <1>0 DEF SignalEnd, waiterVars, NoSignal
<1>2. /\ signal.n \in SignalCounts /\ signal.units + signal.n <= MaxCount
      /\ S \subseteq Granted
      /\ count = signal.units + signal.n - Cardinality(UnitsOf(need, S))
      /\ S # {} => count >= 0
  BY <1>1 DEF LInv, Progress
<1>3. status = "Set"
  BY <1>1 DEF LInv, IInv, ScanLive
<1>4. \A t \in Threads : Waiting(t) <=> need[t] # 0
  BY CreateAssumption DEF LInv, Records
<1>5. S \subseteq Atomic!Pending
  BY <1>2, <1>4 DEF Atomic!Pending, Atomic!Outside, Granted
<1>6. Atomic!Demanded(S) = UnitsOf(need, S)
  BY DEF Atomic!Demanded, UnitsOf
<1>7. ASSUME NEW t \in Atomic!Pending \ S PROVE need[t] > count
  <2>1. t \in Threads /\ need[t] # 0 /\ outcome[t] = "Pending"
    BY <1>7 DEF Atomic!Pending, Atomic!Outside
  <2>2. PICK i \in 1..Len(queue) : queue[i] = t
    BY <1>4, <2>1 DEF Waiting
  <2>3. i < scan
    BY <1>0, <1>1, <2>2
  <2> QED BY <2>1, <2>2, <2>3 DEF LInv, IInv, Scanned
<1>8. V' = [t \in Threads |-> IF t \in S THEN "Ok" ELSE V[t]]
  <2>1. \A t \in S : outcome[t] = "Ok"
    BY <1>2 DEF Granted
  <2> QED BY <1>0, <1>1, <2>1
<1>9. U = signal.units /\ U' = count'
  BY <1>1
<1> PICK n \in SignalCounts : n = signal.n
  BY <1>2
<1>10. U' = U + n - Atomic!Cardinality(Atomic!Demanded(S)) /\ (S # {} => U' >= 0)
  BY <1>1, <1>2, <1>6, <1>9, AtomicCardinality
<1>11. \A t \in Atomic!Pending \ S : need[t] > U'
  BY <1>1, <1>7, <1>9
<1>12. status = "Set" /\ U + n <= MaxCount /\ ret' = <<>> /\ UNCHANGED <<status, need>>
  BY <1>1, <1>2, <1>3, <1>9
<1> HIDE DEF U, V
<1>13. \E served \in SUBSET Atomic!Pending :
          /\ U' = U + n - Atomic!Cardinality(Atomic!Demanded(served))
          /\ served # {} => U' >= 0
          /\ \A t \in Atomic!Pending \ served : need[t] > U'
          /\ V' = [t \in Threads |-> IF t \in served THEN "Ok" ELSE V[t]]
  BY <1>5, <1>8, <1>10, <1>11
<1>14. Atomic!Signal(n)
  BY <1>12, <1>13 DEF Atomic!Signal, U, V
<1> QED BY <1>14

LEMMA EndAllAtomic ==
    ASSUME LInv, scan = 0, scan' = 0, signal' = signal, NEW r, EndAllPending(r)
    PROVE  Atomic!EndAll(r)
<1>1. \A t \in Threads : t \in Atomic!Pending <=> (Waiting(t) /\ ~Ready(t))
  BY Seen DEF Atomic!Pending, Atomic!Outside, Ready
<1>2. signal.served = {}
  BY Seen
<1> QED BY <1>1, <1>2 DEF Atomic!EndAll, EndAllPending

LEMMA CancelAtomic ==
    ASSUME LInv, NEW c, Cancel(c)
    PROVE  Atomic!Cancel(c)
<1>1. Atomic!EndAll("Canceled")
  BY EndAllAtomic DEF Cancel, Enter
<1> QED BY <1>1 DEF Cancel, Enter, Atomic!Cancel, waiterVars

LEMMA DeleteAtomic ==
    ASSUME LInv
    PROVE  /\ DeleteBegin => Atomic!Delete
           /\ DeleteEnd => Atomic!Free
           /\ Create => Atomic!Create
<1>1. ASSUME DeleteBegin PROVE Atomic!Delete
  <2>1. Atomic!EndAll("Deleted")
    BY <1>1, EndAllAtomic DEF DeleteBegin, Enter
  <2> QED BY <1>1, <2>1 DEF DeleteBegin, Enter, Atomic!Delete, waiterVars
<1>2. ASSUME DeleteEnd PROVE Atomic!Free
  <2>1. \A t \in Threads : need[t] = 0
    BY <1>2 DEF DeleteEnd, Waiting, LInv, Records
  <2> QED BY <1>2, <2>1 DEF DeleteEnd, Enter, Atomic!Free, Atomic!Outside, waiterVars
<1>3. ASSUME Create PROVE Atomic!Create
  <2>1. scan = 0
    BY <1>3 DEF Create, LInv, IInv, ScanLive
  <2> QED BY <1>3, <2>1 DEF Create, Atomic!Create, waiterVars
<1> QED BY <1>1, <1>2, <1>3

\* Every step of the semaphore is a step of the abstract one or none at all.
LEMMA NextAtomic == LInv /\ [Next]_vars => [Atomic!Next]_(Atomic!vars)
<1> SUFFICES ASSUME LInv, [Next]_vars PROVE Atomic!Next \/ UNCHANGED Atomic!vars
  OBVIOUS
<1>1. ASSUME NEW t \in Threads, WaitCall(t) PROVE Atomic!Next
  <2> PICK n \in NeedCounts :
        \/ WaitInvalCount(t, n)
        \/ WaitDeleted(t, n)
        \/ WaitFast(t, n)
        \/ PollTimedOut(t, n)
        \/ \E p \in Priorities, tm \in BOOLEAN : WaitBlock(t, n, p, tm)
    BY <1>1 DEF WaitCall
  <2>1. Atomic!Take(t, n) \/ Atomic!Refuse(t, n) \/ Atomic!Await(t, n)
    BY WaitFastAtomic, WaitRefusedAtomic, WaitBlockAtomic
  <2> QED BY <2>1 DEF Atomic!Next
<1>2. ASSUME NEW t \in Threads, WaitReady(t) \/ WaitTimedOut(t) PROVE Atomic!Next
  <2>1. scan = 0 /\ status # "Freed"
    BY <1>2 DEF WaitReady, WaitTimedOut, Enter
  <2>2. PICK i \in 1..Len(queue) :
           Leave(t, i, IF outcome[t] = "Pending" THEN "TimedOut" ELSE outcome[t])
    BY <1>2 DEF WaitReady, WaitTimedOut, Ready
  <2>3. Atomic!Return(t)
    BY <2>1, <2>2, LeaveAtomic
  <2> QED BY <2>3 DEF Atomic!Next
<1>3. ASSUME NEW n \in SignalCounts, SignalBegin(n) PROVE UNCHANGED Atomic!vars
  BY <1>3, ScanAtomic
<1>4. CASE WakeGrant \/ WakeSkip
  BY <1>4, ScanAtomic
<1>5. CASE SignalEnd
  BY <1>5, SignalEndAtomic DEF Atomic!Next
<1>6. ASSUME NEW c \in CancelCounts, Cancel(c) PROVE Atomic!Next
  BY <1>6, CancelAtomic DEF Atomic!Next
<1>7. CASE DeleteBegin \/ DeleteEnd \/ Create
  BY <1>7, DeleteAtomic DEF Atomic!Next
<1>8. CASE UNCHANGED vars
  BY <1>8 DEF vars, waiterVars, Atomic!vars
<1> QED BY <1>1, <1>2, <1>3, <1>4, <1>5, <1>6, <1>7, <1>8 DEF Next

\* KernelSemaPrivate, with its queue, its priorities and its scan in several
\* steps, implements the semaphore that serves each Signal in one step and
\* leaves nobody behind who could be served, for every set of threads, every
\* limit and all arguments.
THEOREM SemaImplementsAtomic == Spec => ImplementsAtomic
<1>1. Init => Atomic!Init
  BY InitAtomic
<1>2. LInv /\ [Next]_vars => [Atomic!Next]_(Atomic!vars)
  BY NextAtomic
<1> QED BY <1>1, <1>2, LInvHolds, PTL DEF Spec, ImplementsAtomic, Atomic!Spec
=============================================================================
