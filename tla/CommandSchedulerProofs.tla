----------------------- MODULE CommandSchedulerProofs -----------------------
(***************************************************************************)
(* Proofs about CommandScheduler, for any ring of at least two command     *)
(* buffers, any other threads and any number of submissions and deferred   *)
(* operations: deferred work runs only after the GPU has passed its tick,  *)
(* waiting for priority work covers what it says, and shutdown loses       *)
(* nothing.  The inductive invariant has five parts.                       *)
(***************************************************************************)
EXTENDS CommandScheduler, FiniteSetTheorems, TLAPS

Slots == 0..(BufferCount - 1)

Ops == [kind : {"normal", "priority", "inline"}, at : Nat, ran : BOOLEAN, taken : BOOLEAN]

\* The control states are records, and a counter the runner read is one the
\* semaphore had.
Records ==
    /\ owner \in [pc : OwnerPcs, tick : Nat, op : Nat, cont : {"idle", "sd_drain"}]
    /\ runner \in [pc : RunnerPcs, op : Nat, counter : Nat]
    /\ runner.counter <= gpuDone
    /\ active \in Nat
    /\ ops \in Seq(Ops)

Polling == {"fence", "refresh", "pop", "run"}
Draining == {"sd_drain", "sd_stop", "sd_notify", "sd_join", "sd_close"}

\* The owner's control state follows m_operation_state: a poll returns to
\* where it was called from, and shutdown submits once more.
Phase ==
    /\ opState = "Open" =>
          /\ curTick <= MaxTick + 1
          /\ \/ owner.pc \in {"idle", "waitprio", "drain"}
             \/ owner.pc \in Polling /\ owner.cont = "idle"
    /\ opState = "Draining" =>
          \/ owner.pc = "sd_finish" /\ curTick <= MaxTick + 1
          \/ owner.pc \in Draining
          \/ owner.pc \in Polling /\ owner.cont = "sd_drain"
    /\ opState = "Closed" => owner.pc \in {"sd_wake", "closed"}

\* Every submission the GPU has not completed is in a buffer of the ring, and
\* the current buffer is not one of them once its fence was awaited.
Ring ==
    /\ \A tick \in (gpuDone + 1)..(curTick - 1) :
          \E b \in Slots : slotTick[b] = tick
    /\ \/ slotTick[current] <= gpuDone
       \/ owner.pc = "fence" /\ slotTick[current] <= owner.tick

\* The entries of queue q are operations of that kind with their ticks.
Queued(q, kind) ==
    \A i \in 1..Len(q) :
        /\ q[i].op \in 1..Len(ops)
        /\ ops[q[i].op].kind = kind
        /\ ops[q[i].op].at = q[i].tick
        /\ q[i].tick >= 1 /\ q[i].tick <= curTick

\* The queues hold what they should, the priority queue by rising ticks, and
\* so do the two threads that have taken an operation out.
Queues ==
    /\ Queued(pending, "normal") /\ Queued(prio, "priority")
    /\ \A i, j \in 1..Len(prio) : i <= j => prio[i].tick <= prio[j].tick
    /\ owner.pc = "run" =>
          /\ owner.op \in 1..Len(ops)
          /\ ops[owner.op].kind = "normal" /\ ops[owner.op].at <= known
    /\ runner.pc \in {"wait", "refresh", "run", "done"} =>
          /\ runner.op \in 1..Len(ops)
          /\ ops[runner.op].kind = "priority" /\ ops[runner.op].at = active
    /\ runner.pc \in {"refresh", "run", "done"} => active <= gpuDone

NormalAt(o) ==
    \/ \E i \in 1..Len(pending) : pending[i].op = o
    \/ owner.pc = "run" /\ owner.op = o

PriorityAt(o) ==
    \/ \E i \in 1..Len(prio) : prio[i].op = o
    \/ runner.pc \in {"wait", "refresh", "run"} /\ runner.op = o

\* An operation that has not run is still in its queue, or in the hands of
\* the thread that took it out.
Accounted ==
    \A o \in 1..Len(ops) :
        \/ ops[o].ran
        \/ ops[o].kind = "normal" /\ NormalAt(o)
        \/ ops[o].kind = "priority" /\ PriorityAt(o)

\* The last poll of shutdown finds every pending operation free, and from
\* then on the queues are empty one after the other.
Emptied ==
    /\ owner.cont = "sd_drain" /\ owner.pc \in Polling =>
          \A i \in 1..Len(pending) :
              pending[i].tick <= (CASE owner.pc = "fence" -> owner.tick
                                    [] owner.pc = "refresh" -> gpuDone
                                    [] OTHER -> known)
    /\ owner.pc \in Draining \cup {"sd_wake", "closed"} => pending = <<>>
    /\ owner.pc \in (Draining \ {"sd_drain"}) \cup {"sd_wake", "closed"} => prio = <<>> /\ active = 0
    /\ stop => owner.pc \in {"sd_notify", "sd_join", "sd_close", "sd_wake", "closed"}

IInv ==
    /\ TypeOK /\ Records /\ Phase /\ Ring
    /\ Queues /\ Accounted /\ OpsAfterCompletion /\ Emptied

-----------------------------------------------------------------------------
LEMMA InitIInv == Init => IInv
<1> SUFFICES ASSUME Init PROVE IInv
  OBVIOUS
<1> USE SchedulerAssumption DEF Init, Idle
<1>1. TypeOK /\ Records
  <2>1. Len(ops) = 0 /\ owes \in [Threads -> 0..Len(ops)] /\ ops \in Seq(Ops)
    OBVIOUS
  <2>2. pending \in Seq(Entries) /\ prio \in Seq(Entries)
    OBVIOUS
  <2>3. /\ owner \in [pc : OwnerPcs, tick : Nat, op : Nat, cont : {"idle", "sd_drain"}]
        /\ runner \in [pc : RunnerPcs, op : Nat, counter : Nat] /\ runner.counter <= gpuDone
    BY DEF OwnerPcs, RunnerPcs
  <2>4. Records
    BY <2>1, <2>3 DEF Records
  <2>5. slotTick[current] <= gpuDone /\ curTick - 1 - gpuDone < BufferCount
    OBVIOUS
  <2>6. sleepers \subseteq Threads /\ other \in [Others -> {"idle", "defer", "shutdown"}]
    OBVIOUS
  <2>7. /\ curTick \in 1..(MaxTick + 2) /\ gpuDone \in 0..(curTick - 1) /\ known \in 0..gpuDone
        /\ current \in 0..(BufferCount - 1)
        /\ slotTick \in [0..(BufferCount - 1) -> 0..(curTick - 1)]
    OBVIOUS
  <2>8. active = 0 /\ runner.pc = "top" /\ stop = FALSE /\ opState = "Open"
    OBVIOUS
  <2>9. owner.pc \in OwnerPcs /\ runner.pc \in RunnerPcs
    BY DEF OwnerPcs, RunnerPcs
  <2> QED
    <3> HIDE DEF Init
    <3> QED BY <2>1, <2>2, <2>4, <2>5, <2>6, <2>7, <2>8, <2>9 DEF TypeOK
<1>2. Phase /\ Ring
  BY DEF Phase, Ring
<1>3. Queues /\ Accounted /\ OpsAfterCompletion
  BY DEF Queues, Queued, Accounted, OpsAfterCompletion
<1>4. Emptied
  BY DEF Emptied, Polling, Draining
<1> QED BY <1>1, <1>2, <1>3, <1>4 DEF IInv

\* What the owner does, as far as its phase is concerned.
LEMMA PhaseStep == IInv /\ Next => Phase'
<1> SUFFICES ASSUME IInv, Next PROVE Phase'
  OBVIOUS
<1> USE SchedulerAssumption DEF Idle, Phase, Polling, Draining, gpuVars, queueVars, cvVars
<1>0. /\ Phase /\ curTick \in Nat /\ opState \in {"Open", "Draining", "Closed"}
      /\ owner \in [pc : OwnerPcs, tick : Nat, op : Nat, cont : {"idle", "sd_drain"}]
  BY DEF IInv, TypeOK, Records
<1>1. CASE OwnerStep
  BY <1>0, <1>1 DEF OwnerStep, OwnerFence, OwnerRefresh, OwnerPop, OwnerRun,
     OwnerPopEnd, OwnerWaitDone, OwnerWaitSleep, ShutdownFinish, ShutdownStop,
     ShutdownNotify, ShutdownJoin, ShutdownClose, ShutdownWake
<1>2. CASE OwnerCall
  <2>1. CASE Flush \/ FinishCurrent
    <3>1. opState' = "Open" /\ owner'.pc = "fence" /\ owner'.cont = "idle"
      BY <1>0, <2>1 DEF Flush, FinishCurrent, OwnerPcs
    <3>2. curTick' <= MaxTick + 1
      BY <1>0, <2>1 DEF Flush, FinishCurrent, SubmitCurrent
    <3> QED BY <3>1, <3>2
  <2>2. ASSUME NEW kind \in Kinds, OwnerDefer(kind) PROVE Phase'
    BY <1>0, <2>2 DEF OwnerDefer
  <2>3. ASSUME NEW tick \in 1..(MaxTick + 1), WaitTick(tick) \/ WaitPriorityOperations(tick)
        PROVE  Phase'
    BY <1>0, <2>3 DEF WaitTick, WaitPriorityOperations
  <2>4. CASE DrainPriorityOperations \/ ShutdownBegin
    BY <1>0, <2>4 DEF DrainPriorityOperations, ShutdownBegin
  <2> QED BY <1>2, <2>1, <2>2, <2>3, <2>4 DEF OwnerCall
<1>3. ASSUME NEW t \in Others, OtherStep(t) PROVE Phase'
  BY <1>0, <1>3 DEF OtherStep, OtherDefer, OtherDeferWait, OtherShutdown, OtherProceed, OtherSleep
<1>4. CASE RunnerStep
  BY <1>0, <1>4 DEF RunnerStep, RunnerExit, RunnerTake, RunnerEval, RunnerBlock, RunnerWoken,
     RunnerWaited, RunnerRefresh, RunnerRun, RunnerDone, RunnerNotify
<1>5. CASE GpuComplete \/ \E t \in Threads : NotifyOne(t)
  BY <1>0, <1>5 DEF GpuComplete, NotifyOne
<1> QED BY <1>1, <1>2, <1>3, <1>4, <1>5 DEF Next

\* The ring.  A submission goes into the current buffer, whose own is complete.
LEMMA NextSlot ==
    ASSUME NEW b \in Slots
    PROVE  (b + 1) % BufferCount \in Slots /\ (b + 1) % BufferCount # b
<1>1. CASE b + 1 < BufferCount
  BY <1>1, SchedulerAssumption DEF Slots
<1>2. CASE b + 1 = BufferCount
  BY <1>2, SchedulerAssumption DEF Slots
<1> QED BY <1>1, <1>2, SchedulerAssumption DEF Slots

\* The submissions in flight are in buffers other than the current one, so
\* that there are fewer of them than buffers.
LEMMA RingBound ==
    ASSUME NEW tick \in Nat, NEW done \in 0..(tick - 1), NEW slot \in [Slots -> Int],
           NEW cur \in Slots, slot[cur] <= done,
           \A n \in (done + 1)..(tick - 1) : \E b \in Slots : slot[b] = n
    PROVE  tick - 1 - done < BufferCount
<1> DEFINE flying == (done + 1)..(tick - 1)
           rest == Slots \ {cur}
<1>0. BufferCount \in Nat /\ BufferCount >= 2
  BY SchedulerAssumption
<1>1. IsFiniteSet(rest) /\ Cardinality(rest) = BufferCount - 1
  <2>1. IsFiniteSet(Slots) /\ Cardinality(Slots) = BufferCount
    BY <1>0, FS_Interval DEF Slots
  <2> QED BY <1>0, <2>1, FS_RemoveElement
<1>2. /\ IsFiniteSet({slot[b] : b \in rest})
      /\ Cardinality({slot[b] : b \in rest}) <= BufferCount - 1
  <2> DEFINE f == [b \in rest |-> slot[b]]
             T == {slot[b] : b \in rest}
  <2>1. f \in Surjection(rest, T)
    BY DEF Surjection
  <2>2. IsFiniteSet(T) /\ Cardinality(T) <= Cardinality(rest)
    <3> HIDE DEF f, T, rest
    <3> QED BY <1>1, <2>1, FS_Surjection
  <2> QED BY <1>1, <2>2
<1>3. flying \subseteq {slot[b] : b \in rest}
  <2> SUFFICES ASSUME NEW n \in flying PROVE \E b \in rest : slot[b] = n
    OBVIOUS
  <2>1. PICK b \in Slots : slot[b] = n
    OBVIOUS
  <2>2. b # cur
    BY <1>0, <2>1
  <2> QED BY <2>1, <2>2
<1>4. IsFiniteSet(flying) /\ Cardinality(flying) <= BufferCount - 1
  <2> HIDE DEF flying
  <2>1. /\ Cardinality(flying) <= Cardinality({slot[b] : b \in rest})
        /\ IsFiniteSet(flying)
    BY <1>2, <1>3, FS_Subset
  <2>2. Cardinality(flying) \in Int /\ Cardinality({slot[b] : b \in rest}) \in Int
    BY <1>2, <2>1, FS_CardinalityType
  <2> QED BY <1>0, <1>2, <2>1, <2>2
<1>5. CASE done + 1 <= tick - 1
  <2>1. Cardinality(flying) = tick - 1 - done
    BY <1>0, <1>5, FS_Interval
  <2> QED BY <1>0, <1>4, <2>1
<1>6. CASE done + 1 > tick - 1
  BY <1>0, <1>6
<1> QED BY <1>0, <1>5, <1>6

LEMMA SubmitRing ==
    ASSUME IInv, slotTick[current] <= gpuDone, gpuDone' = gpuDone,
           slotTick' = [slotTick EXCEPT ![current] = curTick], curTick' = curTick + 1,
           owner'.pc = "fence",
           \/ current' = current /\ owner'.tick = curTick
           \/ current' = (current + 1) % BufferCount /\ owner'.tick = slotTick[current']
    PROVE  Ring'
<1>0. /\ curTick \in Int /\ gpuDone \in Int /\ gpuDone < curTick /\ current \in Slots
      /\ slotTick \in [Slots -> Int]
  BY SchedulerAssumption DEF IInv, TypeOK, Slots
<1>1. ASSUME NEW tick \in (gpuDone' + 1)..(curTick' - 1)
      PROVE  \E b \in Slots : slotTick'[b] = tick
  <2>1. CASE tick = curTick
    BY <1>0, <2>1
  <2>2. CASE tick # curTick
    <3>1. PICK b \in Slots : slotTick[b] = tick
      BY <1>0, <2>2 DEF IInv, Ring
    <3>2. b # current
      BY <1>0, <3>1
    <3> QED BY <1>0, <3>1, <3>2
  <2> QED BY <2>1, <2>2
<1>2. slotTick'[current'] <= owner'.tick
  BY <1>0, NextSlot
<1> QED BY <1>1, <1>2 DEF Ring

LEMMA RingStep == IInv /\ Next => Ring'
<1> SUFFICES ASSUME IInv, Next PROVE Ring'
  OBVIOUS
<1> USE SchedulerAssumption DEF Idle, Ring, gpuVars, queueVars, cvVars
<1>0. /\ Ring /\ curTick \in Nat /\ gpuDone \in Nat /\ current \in Slots
      /\ slotTick \in [Slots -> Int]
      /\ owner \in [pc : OwnerPcs, tick : Nat, op : Nat, cont : {"idle", "sd_drain"}]
  BY DEF IInv, TypeOK, Records, Slots
<1>1. CASE Flush \/ FinishCurrent \/ ShutdownFinish
  <2>1. slotTick[current] <= gpuDone
    BY <1>0, <1>1 DEF Flush, FinishCurrent, ShutdownFinish
  <2> QED BY <1>1, <2>1, SubmitRing DEF Flush, FinishCurrent, ShutdownFinish, SubmitCurrent
<1>2. CASE OwnerStep /\ ~ShutdownFinish
  BY <1>0, <1>2 DEF OwnerStep, OwnerFence, OwnerRefresh, OwnerPop, OwnerRun,
     OwnerPopEnd, OwnerWaitDone, OwnerWaitSleep, ShutdownStop,
     ShutdownNotify, ShutdownJoin, ShutdownClose, ShutdownWake
<1>3. CASE OwnerCall /\ ~Flush /\ ~FinishCurrent
  BY <1>0, <1>3 DEF OwnerCall, OwnerDefer, WaitTick,
     WaitPriorityOperations, DrainPriorityOperations, ShutdownBegin
<1>4. ASSUME NEW t \in Others, OtherStep(t) PROVE Ring'
  BY <1>0, <1>4 DEF OtherStep, OtherDefer, OtherDeferWait, OtherShutdown, OtherProceed, OtherSleep
<1>5. CASE RunnerStep
  BY <1>0, <1>5 DEF RunnerStep, RunnerExit, RunnerTake, RunnerEval, RunnerBlock, RunnerWoken,
     RunnerWaited, RunnerRefresh, RunnerRun, RunnerDone, RunnerNotify
<1>6. CASE GpuComplete
  BY <1>0, <1>6 DEF GpuComplete
<1>7. CASE \E t \in Threads : NotifyOne(t)
  BY <1>0, <1>7 DEF NotifyOne
<1> QED BY <1>1, <1>2, <1>3, <1>4, <1>5, <1>6, <1>7 DEF Next

-----------------------------------------------------------------------------
(* The operations.  Deferring and running move the history, and the queues  *)
(* with it.                                                                 *)

\* The operations R are run, and at most one is added: run in place, or
\* queued with the current tick.
Recorded(R) ==
    LET n == Len(ops) + 1
        entry == [op |-> n, tick |-> curTick]
    IN
    /\ ops' \in Seq(Ops)
    /\ \A o \in 1..Len(ops) :
          /\ ops'[o].kind = ops[o].kind /\ ops'[o].at = ops[o].at
          /\ ops'[o].ran <=> (ops[o].ran \/ o \in R)
    /\ \/ Len(ops') = Len(ops) /\ UNCHANGED <<pending, prio>>
       \/ /\ Len(ops') = n /\ ops'[n].kind = "inline" /\ ops'[n].ran
          /\ UNCHANGED <<pending, prio>>
       \/ /\ opState = "Open" /\ Len(ops') = n /\ ops'[n].at = curTick /\ ~ops'[n].ran
          /\ ops'[n].kind = "normal"
          /\ pending' = Append(pending, entry) /\ UNCHANGED prio
       \/ /\ opState = "Open" /\ Len(ops') = n /\ ops'[n].at = curTick /\ ~ops'[n].ran
          /\ ops'[n].kind = "priority"
          /\ prio' = Append(prio, entry) /\ UNCHANGED pending

\* A history that differs from ops by what has been run since.
LEMMA PushRecords ==
    ASSUME IInv, opState = "Open", NEW R, NEW before \in Seq(Ops), Len(before) = Len(ops),
           \A o \in 1..Len(ops) :
              /\ before[o].kind = ops[o].kind /\ before[o].at = ops[o].at
              /\ before[o].ran <=> (ops[o].ran \/ o \in R),
           NEW t, NEW kind \in Kinds, Push(t, kind, before)
    PROVE  Recorded(R)
<1> DEFINE n == Len(ops) + 1
           new == [kind |-> kind, at |-> curTick, ran |-> FALSE, taken |-> FALSE]
<1>0. ops \in Seq(Ops) /\ Len(ops) \in Nat /\ curTick \in Nat
  BY DEF IInv, TypeOK, Records
<1>1. new \in Ops /\ ops' = Append(before, new)
  BY <1>0 DEF Push, NewOp, Ops, Kinds
<1>2. /\ ops' \in Seq(Ops) /\ Len(ops') = n /\ ops'[n] = new
      /\ \A o \in 1..Len(ops) : ops'[o] = before[o]
  <2> HIDE DEF new
  <2> QED BY <1>0, <1>1
<1>3. \/ /\ kind = "normal"
         /\ pending' = Append(pending, [op |-> n, tick |-> curTick]) /\ UNCHANGED prio
      \/ /\ kind = "priority"
         /\ prio' = Append(prio, [op |-> n, tick |-> curTick]) /\ UNCHANGED pending
  BY DEF Push, DeferTick, Kinds
<1>4. ops'[n].kind = kind /\ ops'[n].at = curTick /\ ops'[n].ran = FALSE
  BY <1>2
<1>5. \A o \in 1..Len(ops) :
         /\ ops'[o].kind = ops[o].kind /\ ops'[o].at = ops[o].at
         /\ ops'[o].ran <=> (ops[o].ran \/ o \in R)
  BY <1>2
<1> HIDE DEF new
<1> QED BY <1>0, <1>2, <1>3, <1>4, <1>5 DEF Recorded

LEMMA RunRecords ==
    ASSUME IInv, NEW t, NEW x \in 1..Len(ops), RunOperation(t, x)
    PROVE  Recorded({x})
<1> DEFINE ran == [ops EXCEPT ![x].ran = TRUE]
<1>0. ops \in Seq(Ops) /\ Len(ops) \in Nat /\ curTick \in Nat
  BY DEF IInv, TypeOK, Records
<1>1. /\ ran \in Seq(Ops) /\ Len(ran) = Len(ops)
      /\ \A o \in 1..Len(ops) :
            /\ ran[o].kind = ops[o].kind /\ ran[o].at = ops[o].at
            /\ ran[o].ran <=> (ops[o].ran \/ o \in {x})
  <2>0. ops[x] \in Ops
    BY <1>0
  <2>1. ops[x] \in Ops /\ [ops[x] EXCEPT !.ran = TRUE] \in Ops
    BY <2>0 DEF Ops
  <2>2. ran = [ops EXCEPT ![x] = [ops[x] EXCEPT !.ran = TRUE]]
    BY <1>0
  <2>3. ran \in Seq(Ops) /\ Len(ran) = Len(ops)
    <3> HIDE DEF ran
    <3> QED BY <1>0, <2>1, <2>2
  <2>4. ASSUME NEW o \in 1..Len(ops)
        PROVE  /\ ran[o].kind = ops[o].kind /\ ran[o].at = ops[o].at
               /\ ran[o].ran <=> (ops[o].ran \/ o \in {x})
    BY <1>0, <2>1 DEF Ops
  <2> QED BY <2>3, <2>4
<1>2. CASE ops' = ran /\ UNCHANGED <<pending, prio, owes>>
  <2> HIDE DEF ran
  <2> QED BY <1>0, <1>1, <1>2 DEF Recorded
<1>3. ASSUME NEW kind \in Kinds, CallbackDefer(t, kind, ran)
      PROVE  Recorded({x})
  <2> HIDE DEF ran
  <2>1. CASE opState = "Open"
    BY <1>1, <1>3, <2>1, PushRecords DEF CallbackDefer
  <2>2. CASE opState # "Open"
    <3> DEFINE new == [kind |-> "inline", at |-> curTick, ran |-> TRUE, taken |-> FALSE]
    <3>1. new \in Ops /\ ops' = Append(ran, new) /\ UNCHANGED <<pending, prio, owes>>
      BY <1>0, <1>3, <2>2 DEF CallbackDefer, NewOp, Ops
    <3>2. /\ ops' \in Seq(Ops) /\ Len(ops') = Len(ops) + 1 /\ ops'[Len(ops) + 1] = new
          /\ \A o \in 1..Len(ops) : ops'[o] = ran[o]
      <4> HIDE DEF new
      <4> QED BY <1>0, <1>1, <3>1
    <3> QED BY <1>0, <1>1, <3>1, <3>2 DEF Recorded
  <2> QED BY <2>1, <2>2
<1> QED BY <1>2, <1>3 DEF RunOperation

\* What such a step does to the queues: they still describe the operations.
LEMMA RecordedQueues ==
    ASSUME IInv, NEW R, Recorded(R), curTick' \in Nat, curTick' >= curTick
    PROVE  /\ Queued(pending, "normal")' /\ Queued(prio, "priority")'
           /\ (\A i, j \in 1..Len(prio) : i <= j => prio[i].tick <= prio[j].tick)'
           /\ pending' \in Seq(Entries') /\ prio' \in Seq(Entries')
<1>0. /\ ops \in Seq(Ops) /\ Len(ops) \in Nat /\ ops' \in Seq(Ops) /\ Len(ops') \in Nat
      /\ Len(ops') >= Len(ops)
      /\ curTick \in 1..(MaxTick + 2) /\ MaxTick \in Nat
      /\ pending \in Seq(Entries) /\ prio \in Seq(Entries)
      /\ Queued(pending, "normal") /\ Queued(prio, "priority")
      /\ \A i, j \in 1..Len(prio) : i <= j => prio[i].tick <= prio[j].tick
  <2>1. /\ ops \in Seq(Ops) /\ Len(ops) \in Nat
        /\ curTick \in 1..(MaxTick + 2) /\ MaxTick \in Nat
        /\ pending \in Seq(Entries) /\ prio \in Seq(Entries)
    BY SchedulerAssumption DEF IInv, TypeOK, Records
  <2>2. ops' \in Seq(Ops) /\ Len(ops') \in Nat
    BY DEF Recorded
  <2>3. Len(ops') >= Len(ops)
    BY <2>1, <2>2 DEF Recorded
  <2> QED BY <2>1, <2>2, <2>3 DEF IInv, Queues
<1>1. Entries \subseteq Entries'
  BY <1>0 DEF Entries
<1>2. ASSUME NEW q \in Seq(Entries), NEW kind, Queued(q, kind)
      PROVE  /\ q \in Seq(Entries')
             /\ \A i \in 1..Len(q) :
                   /\ q[i].op \in 1..Len(ops') /\ ops'[q[i].op].kind = kind
                   /\ ops'[q[i].op].at = q[i].tick
                   /\ q[i].tick >= 1 /\ q[i].tick <= curTick /\ q[i].tick \in Nat
  <2>1. q \in Seq(Entries')
    BY <1>1, <1>2
  <2>2. ASSUME NEW i \in 1..Len(q)
        PROVE  /\ q[i].op \in 1..Len(ops') /\ ops'[q[i].op].kind = kind
               /\ ops'[q[i].op].at = q[i].tick
               /\ q[i].tick >= 1 /\ q[i].tick <= curTick /\ q[i].tick \in Nat
    <3>1. /\ q[i].op \in 1..Len(ops) /\ ops[q[i].op].kind = kind
          /\ ops[q[i].op].at = q[i].tick /\ q[i].tick >= 1 /\ q[i].tick <= curTick
      BY <1>2 DEF Queued
    <3>2. q[i] \in Entries
      OBVIOUS
    <3>3. q[i].tick \in Nat
      BY <3>2, SchedulerAssumption DEF Entries
    <3>4. ops'[q[i].op].kind = ops[q[i].op].kind /\ ops'[q[i].op].at = ops[q[i].op].at
      BY <3>1 DEF Recorded
    <3> QED BY <1>0, <3>1, <3>3, <3>4
  <2> QED BY <2>1, <2>2
<1>a. /\ pending \in Seq(Entries')
      /\ \A i \in 1..Len(pending) :
            /\ pending[i].op \in 1..Len(ops') /\ ops'[pending[i].op].kind = "normal"
            /\ ops'[pending[i].op].at = pending[i].tick
            /\ pending[i].tick >= 1 /\ pending[i].tick <= curTick /\ pending[i].tick \in Nat
  BY <1>0, <1>2
<1>b. /\ prio \in Seq(Entries')
      /\ \A i \in 1..Len(prio) :
            /\ prio[i].op \in 1..Len(ops') /\ ops'[prio[i].op].kind = "priority"
            /\ ops'[prio[i].op].at = prio[i].tick
            /\ prio[i].tick >= 1 /\ prio[i].tick <= curTick /\ prio[i].tick \in Nat
  BY <1>0, <1>2
<1>c. pending' = pending => Queued(pending, "normal")'
  BY <1>0, <1>a DEF Queued
<1>d. prio' = prio => Queued(prio, "priority")'
  BY <1>0, <1>b DEF Queued
<1> DEFINE n == Len(ops) + 1
           entry == [op |-> n, tick |-> curTick]
<1>3. Len(ops') = n => entry \in Entries'
  BY <1>0 DEF Entries
<1>4. CASE UNCHANGED <<pending, prio>>
  BY <1>0, <1>a, <1>b, <1>c, <1>d, <1>4
<1>5. CASE /\ Len(ops') = n /\ ops'[n].at = curTick /\ ops'[n].kind = "normal"
           /\ pending' = Append(pending, entry) /\ UNCHANGED prio
  <2>1. /\ pending' \in Seq(Entries') /\ Len(pending') = Len(pending) + 1
        /\ pending'[Len(pending) + 1] = entry
        /\ \A i \in 1..Len(pending) : pending'[i] = pending[i]
    <3> HIDE DEF entry
    <3> QED BY <1>0, <1>a, <1>3, <1>5
  <2>2. Queued(pending, "normal")'
    <3> SUFFICES ASSUME NEW i \in 1..Len(pending')
                 PROVE  /\ pending'[i].op \in 1..Len(ops') /\ ops'[pending'[i].op].kind = "normal"
                        /\ ops'[pending'[i].op].at = pending'[i].tick
                        /\ pending'[i].tick >= 1 /\ pending'[i].tick <= curTick'
      BY DEF Queued
    <3>1. CASE i = Len(pending) + 1
      BY <1>0, <1>5, <2>1, <3>1
    <3>2. CASE i \in 1..Len(pending)
      <4>1. pending'[i] = pending[i] /\ i \in 1..Len(pending)
        BY <2>1, <3>2
      <4> QED BY <1>0, <1>a, <4>1
    <3> QED BY <1>0, <2>1, <3>1, <3>2
  <2> QED BY <1>0, <1>b, <1>d, <1>5, <2>1, <2>2
<1>6. CASE /\ Len(ops') = n /\ ops'[n].at = curTick /\ ops'[n].kind = "priority"
           /\ prio' = Append(prio, entry) /\ UNCHANGED pending
  <2>1. /\ prio' \in Seq(Entries') /\ Len(prio') = Len(prio) + 1
        /\ prio'[Len(prio) + 1] = entry
        /\ \A i \in 1..Len(prio) : prio'[i] = prio[i]
    <3> HIDE DEF entry
    <3> QED BY <1>0, <1>b, <1>3, <1>6
  <2>2. Queued(prio, "priority")'
    <3> SUFFICES ASSUME NEW i \in 1..Len(prio')
                 PROVE  /\ prio'[i].op \in 1..Len(ops') /\ ops'[prio'[i].op].kind = "priority"
                        /\ ops'[prio'[i].op].at = prio'[i].tick
                        /\ prio'[i].tick >= 1 /\ prio'[i].tick <= curTick'
      BY DEF Queued
    <3>1. CASE i = Len(prio) + 1
      BY <1>0, <1>6, <2>1, <3>1
    <3>2. CASE i \in 1..Len(prio)
      <4>1. prio'[i] = prio[i] /\ i \in 1..Len(prio)
        BY <2>1, <3>2
      <4> QED BY <1>0, <1>b, <4>1
    <3> QED BY <1>0, <2>1, <3>1, <3>2
  <2>3. (\A i, j \in 1..Len(prio) : i <= j => prio[i].tick <= prio[j].tick)'
    BY <1>0, <1>b, <1>6, <2>1
  <2> QED BY <1>0, <1>a, <1>c, <1>6, <2>1, <2>2, <2>3
<1> QED BY <1>4, <1>5, <1>6 DEF Recorded

\* ... an operation that is not run stays where it was ...
LEMMA RecordedAccounted ==
    ASSUME IInv, NEW R, Recorded(R),
           owner.pc = "run" => owner.op \in R \/ UNCHANGED <<owner>>,
           runner.pc \in {"wait", "refresh", "run"} =>
              \/ runner.op \in R
              \/ runner'.pc \in {"wait", "refresh", "run"} /\ runner'.op = runner.op
    PROVE  Accounted'
<1>0. /\ Len(ops) \in Nat /\ Len(ops') \in Nat
      /\ Len(pending) \in Nat /\ Len(prio) \in Nat
  <2>1. ops \in Seq(Ops) /\ pending \in Seq(Entries) /\ prio \in Seq(Entries)
    BY DEF IInv, TypeOK, Records
  <2>2. ops' \in Seq(Ops)
    BY DEF Recorded
  <2> QED BY <2>1, <2>2
<1>a. \/ pending' = pending
      \/ /\ pending' = Append(pending, [op |-> Len(ops) + 1, tick |-> curTick])
         /\ Len(ops') = Len(ops) + 1 /\ ops'[Len(ops) + 1].kind = "normal"
  BY DEF Recorded
<1>b. \/ prio' = prio
      \/ /\ prio' = Append(prio, [op |-> Len(ops) + 1, tick |-> curTick])
         /\ Len(ops') = Len(ops) + 1 /\ ops'[Len(ops) + 1].kind = "priority"
  BY DEF Recorded
<1>c. /\ \A i \in 1..Len(pending) : i \in 1..Len(pending') /\ pending'[i] = pending[i]
      /\ pending' # pending => \E i \in 1..Len(pending') : pending'[i].op = Len(ops) + 1
  <2>1. pending \in Seq(Entries)
    BY DEF IInv, TypeOK
  <2> DEFINE e == [op |-> Len(ops) + 1, tick |-> curTick]
  <2>2. e.op = Len(ops) + 1
    OBVIOUS
  <2> HIDE DEF e
  <2>3. CASE pending' = Append(pending, e)
    <3>1. pending'[Len(pending) + 1] = e /\ Len(pending) + 1 \in 1..Len(pending')
      BY <1>0, <2>1, <2>3
    <3> QED BY <1>0, <2>1, <2>2, <2>3, <3>1
  <2> QED BY <1>a, <2>3 DEF e
<1>d. /\ \A i \in 1..Len(prio) : i \in 1..Len(prio') /\ prio'[i] = prio[i]
      /\ prio' # prio => \E i \in 1..Len(prio') : prio'[i].op = Len(ops) + 1
  <2>1. prio \in Seq(Entries)
    BY DEF IInv, TypeOK
  <2> DEFINE e == [op |-> Len(ops) + 1, tick |-> curTick]
  <2>2. e.op = Len(ops) + 1
    OBVIOUS
  <2> HIDE DEF e
  <2>3. CASE prio' = Append(prio, e)
    <3>1. prio'[Len(prio) + 1] = e /\ Len(prio) + 1 \in 1..Len(prio')
      BY <1>0, <2>1, <2>3
    <3> QED BY <1>0, <2>1, <2>2, <2>3, <3>1
  <2> QED BY <1>b, <2>3 DEF e
<1> SUFFICES ASSUME NEW o \in 1..Len(ops'), ~ops'[o].ran
             PROVE  \/ ops'[o].kind = "normal" /\ NormalAt(o)'
                    \/ ops'[o].kind = "priority" /\ PriorityAt(o)'
  BY DEF Accounted
<1>1. CASE o = Len(ops) + 1
  <2>1. Len(ops') # Len(ops) /\ ops'[o].kind # "inline"
    BY <1>0, <1>1 DEF Recorded
  <2>2. \/ ops'[o].kind = "normal" /\ \E i \in 1..Len(pending') : pending'[i].op = o
        \/ ops'[o].kind = "priority" /\ \E i \in 1..Len(prio') : prio'[i].op = o
    <3>1. \/ pending' # pending /\ ops'[o].kind = "normal"
          \/ prio' # prio /\ ops'[o].kind = "priority"
      <4>1. pending # Append(pending, [op |-> Len(ops) + 1, tick |-> curTick])
        BY <1>0 DEF IInv, TypeOK
      <4>2. prio # Append(prio, [op |-> Len(ops) + 1, tick |-> curTick])
        BY <1>0 DEF IInv, TypeOK
      <4> QED BY <1>1, <2>1, <4>1, <4>2 DEF Recorded
    <3> QED BY <1>1, <1>c, <1>d, <3>1
  <2> QED BY <2>2 DEF NormalAt, PriorityAt
<1>2. CASE o \in 1..Len(ops)
  <2>1. o \notin R /\ ~ops[o].ran /\ ops'[o].kind = ops[o].kind
    BY <1>2 DEF Recorded
  <2>2. CASE ops[o].kind = "normal" /\ NormalAt(o)
    BY <1>c, <2>1, <2>2 DEF NormalAt
  <2>3. CASE ops[o].kind = "priority" /\ PriorityAt(o)
    BY <1>d, <2>1, <2>3 DEF PriorityAt
  <2> QED BY <1>2, <2>1, <2>2, <2>3 DEF IInv, Accounted
<1>3. Len(ops') = Len(ops) \/ Len(ops') = Len(ops) + 1
  BY DEF Recorded
<1> QED BY <1>0, <1>1, <1>2, <1>3

\* ... and one that is run was complete on the GPU.
LEMMA RecordedCompleted ==
    ASSUME IInv, NEW R, Recorded(R), gpuDone' \in Nat, gpuDone' >= gpuDone,
           \A o \in 1..Len(ops) : o \in R => ops[o].at <= gpuDone
    PROVE  OpsAfterCompletion'
<1>0. /\ Len(ops) \in Nat /\ Len(ops') \in Nat /\ gpuDone \in Nat
      /\ ops' \in Seq(Ops) /\ ops \in Seq(Ops)
  <2>1. gpuDone \in Nat /\ ops \in Seq(Ops)
    BY DEF IInv, TypeOK, Records
  <2>2. ops' \in Seq(Ops)
    BY DEF Recorded
  <2> QED BY <2>1, <2>2
<1> SUFFICES ASSUME NEW o \in 1..Len(ops'), ops'[o].ran, ops'[o].kind # "inline"
             PROVE  gpuDone' >= ops'[o].at
  BY DEF OpsAfterCompletion
<1>1. o \in 1..Len(ops)
  BY <1>0 DEF Recorded
<1>2. /\ ops[o].ran \/ o \in R
      /\ ops[o].kind # "inline" /\ ops'[o].at = ops[o].at
  BY <1>1 DEF Recorded
<1>3. ops[o].at <= gpuDone /\ ops[o].at \in Nat
  <2>1. ops[o] \in Ops
    BY <1>0, <1>1
  <2> QED BY <1>1, <1>2, <2>1 DEF IInv, OpsAfterCompletion, Ops
<1> QED BY <1>0, <1>2, <1>3

-----------------------------------------------------------------------------
(* The steps.                                                               *)

\* Every step but the two that take an operation out of its queue is of that
\* form, with R what the owner or the runner runs.
Recording ==
    \E R :
        /\ Recorded(R)
        /\ owner.pc = "run" => owner.op \in R \/ UNCHANGED <<owner>>
        /\ runner.pc \in {"wait", "refresh", "run"} =>
              \/ runner.op \in R
              \/ runner'.pc \in {"wait", "refresh", "run"} /\ runner'.op = runner.op
        /\ \A o \in 1..Len(ops) : o \in R => ops[o].at <= gpuDone
        /\ R = {} \/ (R = {owner.op} /\ owner.pc = "run" /\ owner'.pc = "pop")
                  \/ (R = {runner.op} /\ runner.pc = "run" /\ UNCHANGED owner)

LEMMA QuietRecords ==
    ASSUME IInv, UNCHANGED <<ops, pending, prio>>,
           owner.pc = "run" => UNCHANGED <<owner>>,
           runner.pc \in {"wait", "refresh", "run"} =>
              runner'.pc \in {"wait", "refresh", "run"} /\ runner'.op = runner.op
    PROVE  Recording
<1>1. Recorded({})
  BY DEF Recorded, IInv, Records
<1> QED BY <1>1 DEF Recording

\* Marking an operation as one whose notification was taken.
LEMMA MarkedTaken ==
    ASSUME NEW q \in Seq(Ops), NEW k \in 1..Len(q)
    PROVE  \A m : m = [q EXCEPT ![k].taken = TRUE] =>
           /\ m \in Seq(Ops) /\ Len(m) = Len(q)
           /\ \A o \in 1..Len(q) :
                 /\ m[o].kind = q[o].kind /\ m[o].at = q[o].at
                 /\ m[o].ran <=> q[o].ran
<1> DEFINE e == [q[k] EXCEPT !.taken = TRUE]
<1>1. q[k] \in Ops
  OBVIOUS
<1>2. e \in Ops /\ e.kind = q[k].kind /\ e.at = q[k].at /\ e.ran = q[k].ran
  BY <1>1 DEF Ops
<1>3. [q EXCEPT ![k].taken = TRUE] = [q EXCEPT ![k] = e]
  OBVIOUS
<1> SUFFICES ASSUME NEW m, m = [q EXCEPT ![k] = e]
             PROVE  /\ m \in Seq(Ops) /\ Len(m) = Len(q)
                    /\ \A o \in 1..Len(q) :
                          /\ m[o].kind = q[o].kind /\ m[o].at = q[o].at
                          /\ m[o].ran <=> q[o].ran
  BY <1>3
<1> HIDE DEF e
<1>4. m \in Seq(Ops) /\ Len(m) = Len(q)
  BY <1>2
<1>5. \A o \in 1..Len(q) : m[o] = (IF o = k THEN e ELSE q[o])
  OBVIOUS
<1> QED BY <1>2, <1>4, <1>5

LEMMA StepRecords == IInv /\ Next => OwnerPop \/ RunnerTake \/ Recording
<1> SUFFICES ASSUME IInv, Next, ~OwnerPop, ~RunnerTake PROVE Recording
  OBVIOUS
<1> USE DEF Idle, gpuVars, queueVars, cvVars
<1>0. /\ owner \in [pc : OwnerPcs, tick : Nat, op : Nat, cont : {"idle", "sd_drain"}]
      /\ runner \in [pc : RunnerPcs, op : Nat, counter : Nat]
      /\ ops \in Seq(Ops) /\ curTick \in Nat
  BY DEF IInv, TypeOK, Records
<1>1. CASE OwnerRun
  <2>1. /\ owner.op \in 1..Len(ops) /\ RunOperation("owner", owner.op) /\ runner' = runner
        /\ ops[owner.op].at <= gpuDone
    <3>1. /\ owner.op \in 1..Len(ops) /\ ops[owner.op].at <= known
      BY <1>1 DEF OwnerRun, IInv, Queues
    <3>2. ops[owner.op] \in Ops
      BY <1>0, <3>1
    <3> QED BY <1>1, <3>1, <3>2 DEF OwnerRun, IInv, TypeOK, Ops
  <2>2. Recorded({owner.op})
    BY <2>1, RunRecords
  <2>3. owner.pc = "run" /\ owner'.pc = "pop"
    BY <1>0, <1>1 DEF OwnerRun
  <2> QED BY <2>1, <2>2, <2>3 DEF Recording
<1>2. CASE RunnerRun
  <2>1. ~stop /\ runner.op \in 1..Len(ops) /\ ops[runner.op].at <= gpuDone
    <3>1. active # 0 /\ runner.pc = "run"
      BY <1>2 DEF RunnerRun, IInv, TypeOK
    <3>2. ~stop
      BY <3>1 DEF IInv, Emptied, Draining
    <3> QED BY <3>1, <3>2 DEF IInv, Queues
  <2>2. RunOperation("runner", runner.op) /\ owner' = owner
    BY <1>2, <2>1 DEF RunnerRun
  <2>3. Recorded({runner.op})
    BY <2>1, <2>2, RunRecords
  <2> QED BY <1>2, <2>1, <2>2, <2>3 DEF Recording, RunnerRun
<1>3. ASSUME NEW kind \in Kinds,
             OwnerDefer(kind) \/ \E t \in Others : OtherDefer(t, kind)
      PROVE  Recording
  <2>1. opState = "Open" /\ (\E t : Push(t, kind, ops)) /\ UNCHANGED <<owner, runner>>
    BY <1>3 DEF OwnerDefer, OtherDefer
  <2>2. Recorded({})
    BY <1>0, <2>1, PushRecords
  <2> QED BY <2>1, <2>2 DEF Recording
<1>4. ASSUME NEW t \in Others, OtherProceed(t) PROVE Recording
  <2> DEFINE new == [kind |-> "inline", at |-> curTick, ran |-> TRUE, taken |-> FALSE]
  <2>1. new \in Ops /\ (ops' = ops \/ ops' = Append(ops, new))
    BY <1>0, <1>4 DEF OtherProceed, NewOp, Ops
  <2>2. new.kind = "inline" /\ new.ran
    OBVIOUS
  <2>3. /\ ops' \in Seq(Ops) /\ (\A o \in 1..Len(ops) : ops'[o] = ops[o])
        /\ \/ ops' = ops
           \/ Len(ops') = Len(ops) + 1 /\ ops'[Len(ops) + 1] = new
    <3> HIDE DEF new
    <3>1. CASE ops' = ops
      BY <1>0, <3>1
    <3>2. CASE ops' = Append(ops, new)
      BY <1>0, <2>1, <3>2
    <3> QED BY <2>1, <3>1, <3>2
  <2>4. UNCHANGED <<pending, prio, owner, runner>>
    BY <1>4 DEF OtherProceed
  <2>5. Recorded({})
    BY <2>2, <2>3, <2>4 DEF Recorded
  <2> QED BY <2>4, <2>5 DEF Recording
<1>5. CASE OwnerStep /\ ~OwnerRun
  BY <1>0, <1>5, QuietRecords DEF OwnerStep, OwnerFence, OwnerRefresh,
     OwnerPopEnd, OwnerWaitDone, OwnerWaitSleep, ShutdownFinish, ShutdownStop,
     ShutdownNotify, ShutdownJoin, ShutdownClose, ShutdownWake
<1>6. CASE OwnerCall /\ ~\E kind \in Kinds : OwnerDefer(kind)
  BY <1>0, <1>6, QuietRecords DEF OwnerCall, Flush, FinishCurrent, WaitTick,
     WaitPriorityOperations, DrainPriorityOperations, ShutdownBegin
<1>7. ASSUME NEW t \in Others, OtherDeferWait(t) \/ OtherShutdown(t) \/ OtherSleep(t)
      PROVE  Recording
  BY <1>0, <1>7, QuietRecords DEF OtherDeferWait, OtherShutdown, OtherSleep
<1>8. CASE RunnerStep /\ ~RunnerRun
  BY <1>0, <1>8, QuietRecords DEF RunnerStep, RunnerExit, RunnerEval, RunnerBlock,
     RunnerWoken, RunnerWaited, RunnerRefresh, RunnerDone, RunnerNotify
<1>9. CASE GpuComplete
  BY <1>0, <1>9, QuietRecords DEF GpuComplete
<1>10. ASSUME NEW t \in Threads, NotifyOne(t) PROVE Recording
  <2>1. UNCHANGED <<pending, prio, owner, runner>>
    BY <1>10 DEF NotifyOne
  <2>2. ops' = ops \/ ops' = [ops EXCEPT ![owes[t]].taken = TRUE]
    BY <1>10 DEF NotifyOne
  <2>3. owes[t] \in 1..Len(ops)
    BY <1>0, <1>10 DEF NotifyOne, IInv, TypeOK
  <2>4. /\ ops' \in Seq(Ops) /\ Len(ops') = Len(ops)
        /\ \A o \in 1..Len(ops) :
              /\ ops'[o].kind = ops[o].kind /\ ops'[o].at = ops[o].at
              /\ ops'[o].ran <=> ops[o].ran
    <3>1. CASE ops' = ops
      BY <1>0, <3>1
    <3>2. CASE ops' = [ops EXCEPT ![owes[t]].taken = TRUE]
      <4> DEFINE k == owes[t]
      <4>1. k \in 1..Len(ops) /\ ops' = [ops EXCEPT ![k].taken = TRUE]
        BY <2>3, <3>2
      <4>2. \A m : m = [ops EXCEPT ![k].taken = TRUE] =>
               /\ m \in Seq(Ops) /\ Len(m) = Len(ops)
               /\ \A o \in 1..Len(ops) :
                     /\ m[o].kind = ops[o].kind /\ m[o].at = ops[o].at
                     /\ m[o].ran <=> ops[o].ran
        <5>1. ops \in Seq(Ops) /\ k \in 1..Len(ops)
          BY <1>0, <4>1
        <5> HIDE DEF k
        <5> QED BY ONLY <5>1, MarkedTaken
      <4> HIDE DEF k
      <4> QED BY ONLY <4>1, <4>2
    <3> QED BY <2>2, <3>1, <3>2
  <2>5. Recorded({})
    BY <2>1, <2>4 DEF Recorded
  <2> QED BY <2>1, <2>5 DEF Recording
<1> QED BY <1>1, <1>2, <1>3, <1>4, <1>5, <1>6, <1>7, <1>8, <1>9, <1>10
        DEF Next, OwnerCall, OtherStep

\* Taking the front out of a queue.
LEMMA FrontTaken ==
    ASSUME IInv, NEW q \in Seq(Entries), NEW kind, Queued(q, kind), q # <<>>, ops' = ops,
           curTick' = curTick
    PROVE  /\ Tail(q) \in Seq(Entries') /\ Len(Tail(q)) = Len(q) - 1 /\ Len(q) \in Nat
           /\ \A i \in 1..Len(Tail(q)) : Tail(q)[i] = q[i + 1] /\ i + 1 \in 1..Len(q)
           /\ Queued(Tail(q), kind)
           /\ Head(q) = q[1] /\ 1 \in 1..Len(q) /\ q[1].tick \in Nat /\ q[1].tick >= 1
           /\ q[1].op \in 1..Len(ops) /\ q[1].op \in Nat
<1>1. /\ Tail(q) \in Seq(Entries) /\ Len(Tail(q)) = Len(q) - 1 /\ Len(q) \in Nat
      /\ \A i \in 1..Len(Tail(q)) : Tail(q)[i] = q[i + 1] /\ i + 1 \in 1..Len(q)
      /\ Head(q) = q[1] /\ 1 \in 1..Len(q)
  OBVIOUS
<1>2. Entries' = Entries
  BY DEF Entries
<1>3. Queued(Tail(q), kind)
  BY <1>1 DEF Queued
<1>4. q[1] \in Entries
  BY <1>1
<1>5. MaxTick \in Nat /\ Len(ops) \in Nat
  BY SchedulerAssumption DEF IInv, Records
<1>6. q[1].tick \in Nat /\ q[1].op \in Nat /\ q[1].tick >= 1 /\ q[1].op \in 1..Len(ops)
  <2>1. q[1].tick \in Nat /\ q[1].op \in Nat
    BY <1>4, <1>5 DEF Entries
  <2> QED BY <1>1, <2>1 DEF Queued
<1> QED BY <1>1, <1>2, <1>3, <1>6

LEMMA PopStep ==
    ASSUME IInv, OwnerPop
    PROVE  /\ Queued(pending, "normal")' /\ Queued(prio, "priority")'
           /\ pending' \in Seq(Entries') /\ prio' \in Seq(Entries')
           /\ owner'.op \in 1..Len(ops) /\ owner'.op \in Nat
           /\ ops[owner'.op].kind = "normal" /\ ops[owner'.op].at <= known
           /\ Accounted'
<1>0. /\ pending \in Seq(Entries) /\ Queued(pending, "normal") /\ pending # <<>>
      /\ prio \in Seq(Entries) /\ Queued(prio, "priority")
      /\ UNCHANGED <<ops, curTick, prio, runner>> /\ pending' = Tail(pending)
      /\ owner \in [pc : OwnerPcs, tick : Nat, op : Nat, cont : {"idle", "sd_drain"}]
      /\ owner.pc = "pop" /\ owner' = [owner EXCEPT !.pc = "run", !.op = Head(pending).op]
      /\ known >= Head(pending).tick
  BY DEF IInv, TypeOK, Records, Queues, OwnerPop, gpuVars, IsFree
<1>1. /\ pending' \in Seq(Entries') /\ Len(pending') = Len(pending) - 1
      /\ \A i \in 1..Len(pending') : pending'[i] = pending[i + 1] /\ i + 1 \in 1..Len(pending)
      /\ Queued(pending, "normal")' /\ Len(pending) \in Nat
      /\ Head(pending) = pending[1] /\ pending[1].op \in 1..Len(ops) /\ pending[1].op \in Nat
  <2>1. Queued(Tail(pending), "normal")
    BY <1>0, FrontTaken
  <2>2. Queued(pending, "normal")'
    BY <1>0, <2>1 DEF Queued
  <2> QED BY <1>0, <2>2, FrontTaken
<1>2. Queued(prio, "priority")' /\ prio' \in Seq(Entries')
  BY <1>0 DEF Queued, Entries
<1>3. owner'.op = pending[1].op /\ owner'.pc = "run"
  BY <1>0, <1>1
<1>4. ops[owner'.op].kind = "normal" /\ ops[owner'.op].at <= known
  BY <1>0, <1>1, <1>3 DEF Queued
<1>5. Accounted'
  <2> SUFFICES ASSUME NEW o \in 1..Len(ops), ~ops[o].ran
               PROVE  \/ ops[o].kind = "normal" /\ NormalAt(o)'
                      \/ ops[o].kind = "priority" /\ PriorityAt(o)'
    BY <1>0 DEF Accounted
  <2>1. CASE ops[o].kind = "normal" /\ NormalAt(o)
    <3>1. PICK i \in 1..Len(pending) : pending[i].op = o
      BY <1>0, <2>1 DEF NormalAt
    <3>2. CASE i = 1
      BY <1>3, <2>1, <3>1, <3>2 DEF NormalAt
    <3>3. CASE i # 1
      <4>1. i - 1 \in 1..Len(pending') /\ pending'[i - 1] = pending[i]
        BY <1>1, <3>3
      <4> QED BY <2>1, <3>1, <4>1 DEF NormalAt
    <3> QED BY <3>2, <3>3
  <2>2. CASE ops[o].kind = "priority" /\ PriorityAt(o)
    BY <1>0, <2>2 DEF PriorityAt
  <2> QED BY <2>1, <2>2 DEF IInv, Accounted
<1> QED BY <1>1, <1>2, <1>3, <1>4, <1>5

LEMMA TakeStep ==
    ASSUME IInv, RunnerTake
    PROVE  /\ Queued(pending, "normal")' /\ Queued(prio, "priority")'
           /\ (\A i, j \in 1..Len(prio) : i <= j => prio[i].tick <= prio[j].tick)'
           /\ pending' \in Seq(Entries') /\ prio' \in Seq(Entries')
           /\ active' \in Nat /\ active' # 0 /\ runner'.op \in Nat
           /\ runner'.op \in 1..Len(ops)
           /\ ops[runner'.op].kind = "priority" /\ ops[runner'.op].at = active'
           /\ Accounted'
<1>0. /\ prio \in Seq(Entries) /\ Queued(prio, "priority") /\ prio # <<>>
      /\ pending \in Seq(Entries) /\ Queued(pending, "normal")
      /\ \A i, j \in 1..Len(prio) : i <= j => prio[i].tick <= prio[j].tick
      /\ UNCHANGED <<ops, curTick, pending, owner>> /\ prio' = Tail(prio)
      /\ runner \in [pc : RunnerPcs, op : Nat, counter : Nat]
      /\ runner.pc = "top" /\ runner' = [runner EXCEPT !.pc = "wait", !.op = Head(prio).op]
      /\ active' = Head(prio).tick
  BY DEF IInv, TypeOK, Records, Queues, RunnerTake, gpuVars
<1>1. /\ prio' \in Seq(Entries') /\ Len(prio') = Len(prio) - 1
      /\ \A i \in 1..Len(prio') : prio'[i] = prio[i + 1] /\ i + 1 \in 1..Len(prio)
      /\ Queued(prio, "priority")' /\ Len(prio) \in Nat
      /\ Head(prio) = prio[1] /\ prio[1].op \in 1..Len(ops) /\ prio[1].op \in Nat
      /\ prio[1].tick \in Nat /\ prio[1].tick >= 1
  <2>1. Queued(Tail(prio), "priority")
    BY <1>0, FrontTaken
  <2>2. Queued(prio, "priority")'
    BY <1>0, <2>1 DEF Queued
  <2> QED BY <1>0, <2>2, FrontTaken
<1>2. Queued(pending, "normal")' /\ pending' \in Seq(Entries')
  BY <1>0 DEF Queued, Entries
<1>3. runner'.op = prio[1].op /\ runner'.pc = "wait" /\ active' = prio[1].tick
  BY <1>0, <1>1
<1>4. ops[runner'.op].kind = "priority" /\ ops[runner'.op].at = active'
  <2>1. 1 \in 1..Len(prio) /\ Queued(prio, "priority")
    BY <1>0, FrontTaken
  <2> QED BY <1>3, <2>1 DEF Queued
<1>5. (\A i, j \in 1..Len(prio) : i <= j => prio[i].tick <= prio[j].tick)'
  <2> SUFFICES ASSUME NEW i \in 1..Len(prio'), NEW j \in 1..Len(prio'), i <= j
               PROVE  prio'[i].tick <= prio'[j].tick
    OBVIOUS
  <2>1. prio[i + 1].tick <= prio[j + 1].tick
    <3>1. i + 1 \in 1..Len(prio) /\ j + 1 \in 1..Len(prio) /\ i + 1 <= j + 1
      BY <1>1
    <3> HIDE DEF Queued
    <3> QED BY <1>0, <3>1
  <2> QED BY <1>1, <2>1
<1>6. Accounted'
  <2> SUFFICES ASSUME NEW o \in 1..Len(ops), ~ops[o].ran
               PROVE  \/ ops[o].kind = "normal" /\ NormalAt(o)'
                      \/ ops[o].kind = "priority" /\ PriorityAt(o)'
    BY <1>0 DEF Accounted
  <2>1. CASE ops[o].kind = "priority" /\ PriorityAt(o)
    <3>1. PICK i \in 1..Len(prio) : prio[i].op = o
      BY <1>0, <2>1 DEF PriorityAt
    <3>2. CASE i = 1
      BY <1>3, <2>1, <3>1, <3>2 DEF PriorityAt
    <3>3. CASE i # 1
      <4>1. i - 1 \in 1..Len(prio') /\ prio'[i - 1] = prio[i]
        BY <1>1, <3>3
      <4> QED BY <2>1, <3>1, <4>1 DEF PriorityAt
    <3> QED BY <3>2, <3>3
  <2>2. CASE ops[o].kind = "normal" /\ NormalAt(o)
    BY <1>0, <2>2 DEF NormalAt
  <2> QED BY <2>1, <2>2 DEF IInv, Accounted
<1> QED BY <1>1, <1>2, <1>3, <1>4, <1>5, <1>6

\* The queues, and the two threads with an operation in hand.
LEMMA QueuesStep ==
    ASSUME IInv, Next, curTick' \in Nat, curTick' >= curTick, known' \in Nat,
           known' >= known, gpuDone' \in Nat, gpuDone' >= gpuDone
    PROVE  /\ Queues' /\ Accounted' /\ OpsAfterCompletion'
           /\ pending' \in Seq(Entries') /\ prio' \in Seq(Entries')
<1> USE DEF gpuVars, queueVars, cvVars, Idle
<1>0. /\ owner \in [pc : OwnerPcs, tick : Nat, op : Nat, cont : {"idle", "sd_drain"}]
      /\ runner \in [pc : RunnerPcs, op : Nat, counter : Nat]
      /\ ops \in Seq(Ops) /\ Len(ops) \in Nat /\ gpuDone \in Nat /\ known \in Nat
      /\ active \in Nat /\ known <= gpuDone
  BY DEF IInv, TypeOK, Records
<1>a. /\ owner'.pc = "run" => (owner' = owner \/ OwnerPop)
      /\ runner'.pc \in {"wait", "refresh", "run", "done"} =>
            \/ RunnerTake
            \/ /\ runner.pc \in {"wait", "refresh", "run", "done"}
               /\ runner'.op = runner.op /\ active' = active
               /\ runner'.pc \in {"refresh", "run", "done"} =>
                     \/ runner.pc \in {"refresh", "run", "done"}
                     \/ active <= gpuDone
  <2>1. CASE OwnerStep
    BY <1>0, <2>1 DEF OwnerStep, OwnerFence, OwnerRefresh, OwnerRun, OwnerPop,
     OwnerPopEnd, OwnerWaitDone, OwnerWaitSleep, ShutdownFinish, ShutdownStop,
     ShutdownNotify, ShutdownJoin, ShutdownClose, ShutdownWake, IInv, Phase
  <2>2. CASE OwnerCall
    BY <1>0, <2>2 DEF OwnerCall, OwnerDefer, Flush, FinishCurrent, WaitTick,
     WaitPriorityOperations, DrainPriorityOperations, ShutdownBegin
  <2>3. ASSUME NEW t \in Others, OtherStep(t)
        PROVE  UNCHANGED <<owner, runner, active>>
    BY <2>3 DEF OtherStep, OtherDefer, OtherDeferWait, OtherShutdown, OtherProceed, OtherSleep
  <2>4. CASE RunnerStep
    BY <1>0, <2>4 DEF RunnerStep, RunnerExit, RunnerTake, RunnerEval, RunnerBlock, RunnerWoken,
     RunnerWaited, RunnerRefresh, RunnerRun, RunnerDone, RunnerNotify
  <2>5. CASE GpuComplete \/ \E t \in Threads : NotifyOne(t)
    BY <1>0, <2>5 DEF GpuComplete, NotifyOne
  <2> QED BY <2>1, <2>2, <2>3, <2>4, <2>5 DEF Next
<1>b. /\ owner.pc = "run" =>
            /\ owner.op \in 1..Len(ops)
            /\ ops[owner.op].kind = "normal" /\ ops[owner.op].at <= known
      /\ runner.pc \in {"wait", "refresh", "run", "done"} =>
            /\ runner.op \in 1..Len(ops)
            /\ ops[runner.op].kind = "priority" /\ ops[runner.op].at = active
      /\ runner.pc \in {"refresh", "run", "done"} => active <= gpuDone
  BY DEF IInv, Queues
<1>c. \A o \in 1..Len(ops) : ops[o].at \in Nat
  <2>1. \A o \in 1..Len(ops) : ops[o] \in Ops
    BY <1>0
  <2> QED BY <2>1 DEF Ops
<1>1. CASE Recording
  <2>1. PICK R : /\ Recorded(R)
                 /\ owner.pc = "run" => owner.op \in R \/ UNCHANGED <<owner>>
                 /\ runner.pc \in {"wait", "refresh", "run"} =>
                       \/ runner.op \in R
                       \/ /\ runner'.pc \in {"wait", "refresh", "run"}
                          /\ runner'.op = runner.op
                 /\ \A o \in 1..Len(ops) : o \in R => ops[o].at <= gpuDone
    BY <1>1 DEF Recording
  <2>2. /\ Queued(pending, "normal")' /\ Queued(prio, "priority")'
        /\ (\A i, j \in 1..Len(prio) : i <= j => prio[i].tick <= prio[j].tick)'
        /\ pending' \in Seq(Entries') /\ prio' \in Seq(Entries')
    BY <2>1, RecordedQueues
  <2>3. Accounted' /\ OpsAfterCompletion'
    BY <2>1, RecordedAccounted, RecordedCompleted
  <2>4. /\ \A o \in 1..Len(ops) :
              o \in 1..Len(ops') /\ ops'[o].kind = ops[o].kind /\ ops'[o].at = ops[o].at
    BY <1>0, <2>1 DEF Recorded
  <2>5. ~OwnerPop /\ ~RunnerTake
    <3>1. Len(ops') = Len(ops) \/ Len(ops') = Len(ops) + 1
      BY <2>1 DEF Recorded
    <3>2. OwnerPop => pending' = Tail(pending) /\ prio' = prio /\ pending # <<>>
      BY DEF OwnerPop
    <3>3. RunnerTake => prio' = Tail(prio) /\ pending' = pending /\ prio # <<>>
      BY DEF RunnerTake
    <3>4. /\ pending' = pending \/ Len(pending') = Len(pending) + 1
          /\ prio' = prio \/ Len(prio') = Len(prio) + 1
          /\ pending \in Seq(Entries) /\ prio \in Seq(Entries)
      <4>1. pending \in Seq(Entries) /\ prio \in Seq(Entries)
        BY DEF IInv, TypeOK
      <4> QED BY <2>1, <4>1 DEF Recorded
    <3> QED BY <3>2, <3>3, <3>4
  <2>6. owner'.pc = "run" =>
          /\ owner'.op \in 1..Len(ops')
          /\ ops'[owner'.op].kind = "normal" /\ ops'[owner'.op].at <= known'
    BY <1>0, <1>a, <1>b, <1>c, <2>4, <2>5
  <2>7. /\ runner'.pc \in {"wait", "refresh", "run", "done"} =>
              /\ runner'.op \in 1..Len(ops')
              /\ ops'[runner'.op].kind = "priority" /\ ops'[runner'.op].at = active'
        /\ runner'.pc \in {"refresh", "run", "done"} => active' <= gpuDone'
    BY <1>0, <1>a, <1>b, <1>c, <2>4, <2>5
  <2> QED BY <2>2, <2>3, <2>6, <2>7 DEF Queues
<1>2. CASE OwnerPop
  <2>1. /\ UNCHANGED <<ops, known, gpuDone, runner, active, prio>>
        /\ owner'.pc = "run"
    BY <1>0, <1>2 DEF OwnerPop
  <2>2. OpsAfterCompletion' /\ \A i, j \in 1..Len(prio) : i <= j => prio[i].tick <= prio[j].tick
    BY <2>1 DEF IInv, OpsAfterCompletion, Queues
  <2> QED BY <1>2, <1>b, <2>1, <2>2, PopStep DEF Queues
<1>3. CASE RunnerTake
  <2>1. /\ UNCHANGED <<ops, known, gpuDone, owner>> /\ runner'.pc = "wait"
    BY <1>0, <1>3 DEF RunnerTake
  <2>2. OpsAfterCompletion'
    BY <2>1 DEF IInv, OpsAfterCompletion
  <2> QED BY <1>3, <1>b, <2>1, <2>2, TakeStep DEF Queues
<1> QED BY <1>1, <1>2, <1>3, StepRecords

\* The clocks only advance, in their order.
LEMMA ClockStep ==
    ASSUME IInv, Next
    PROVE  /\ curTick' \in 1..(MaxTick + 2) /\ curTick' >= curTick
           /\ gpuDone' \in 0..(curTick' - 1) /\ gpuDone' >= gpuDone
           /\ known' \in 0..gpuDone' /\ known' >= known
           /\ curTick \in Nat /\ gpuDone \in Nat /\ known \in Nat
<1> USE SchedulerAssumption DEF gpuVars, queueVars, cvVars, Idle
<1>0. /\ curTick \in 1..(MaxTick + 2) /\ gpuDone \in 0..(curTick - 1)
      /\ known \in 0..gpuDone /\ curTick \in Nat /\ gpuDone \in Nat /\ known \in Nat
      /\ runner.counter \in Nat /\ runner.counter <= gpuDone
      /\ opState \in {"Open", "Draining", "Closed"} /\ Phase
  BY DEF IInv, TypeOK, Records
<1>1. CASE ShutdownFinish
  BY <1>0, <1>1 DEF ShutdownFinish, Phase, Polling, Draining
<1>2. CASE Flush \/ FinishCurrent
  BY <1>0, <1>2 DEF Flush, FinishCurrent, SubmitCurrent
<1>3. CASE OwnerRefresh \/ RunnerRefresh \/ GpuComplete
  BY <1>0, <1>3 DEF OwnerRefresh, RunnerRefresh, GpuComplete
<1>4. ASSUME UNCHANGED <<curTick, gpuDone, known>>
      PROVE  /\ curTick' \in 1..(MaxTick + 2) /\ curTick' >= curTick
             /\ gpuDone' \in 0..(curTick' - 1) /\ gpuDone' >= gpuDone
             /\ known' \in 0..gpuDone' /\ known' >= known
  BY <1>0, <1>4
<1>5. CASE OwnerStep /\ ~ShutdownFinish /\ ~OwnerRefresh
  BY <1>0, <1>4, <1>5 DEF OwnerStep, OwnerFence, OwnerRun, OwnerPop,
     OwnerPopEnd, OwnerWaitDone, OwnerWaitSleep, ShutdownStop,
     ShutdownNotify, ShutdownJoin, ShutdownClose, ShutdownWake
<1>6. CASE OwnerCall /\ ~Flush /\ ~FinishCurrent
  BY <1>0, <1>4, <1>6 DEF OwnerCall, OwnerDefer, WaitTick,
     WaitPriorityOperations, DrainPriorityOperations, ShutdownBegin
<1>7. CASE (\E t \in Others : OtherStep(t)) \/ (\E t \in Threads : NotifyOne(t))
  BY <1>0, <1>4, <1>7 DEF OtherStep, OtherDefer, OtherDeferWait, OtherShutdown,
     OtherProceed, OtherSleep, NotifyOne
<1>8. CASE RunnerStep /\ ~RunnerRefresh
  BY <1>0, <1>4, <1>8 DEF RunnerStep, RunnerExit, RunnerTake, RunnerEval, RunnerBlock,
     RunnerWoken, RunnerWaited, RunnerRun, RunnerDone, RunnerNotify
<1> QED BY <1>0, <1>1, <1>2, <1>3, <1>5, <1>6, <1>7, <1>8 DEF Next

\* Once the scheduler is not open, nothing is queued any more.
LEMMA ClosedQueues ==
    ASSUME IInv, Recording, opState # "Open"
    PROVE  UNCHANGED <<pending, prio>>
BY DEF Recording, Recorded

LEMMA EmptiedStep == IInv /\ Next => Emptied'
<1> SUFFICES ASSUME IInv, Next PROVE Emptied'
  OBVIOUS
<1> USE DEF gpuVars, queueVars, cvVars, Idle, Polling, Draining
<1>0. /\ owner \in [pc : OwnerPcs, tick : Nat, op : Nat, cont : {"idle", "sd_drain"}]
      /\ opState \in {"Open", "Draining", "Closed"} /\ Phase /\ Emptied
      /\ curTick \in Nat /\ gpuDone \in Nat /\ known \in Nat
      /\ runner.pc \in RunnerPcs /\ stop \in BOOLEAN
      /\ active # 0 <=> runner.pc \in {"wait", "refresh", "run", "done"}
  BY DEF IInv, TypeOK, Records
<1>a. /\ pending \in Seq(Entries) /\ prio \in Seq(Entries)
      /\ \A i \in 1..Len(pending) : pending[i].tick <= curTick /\ pending[i].tick \in Nat
  <2>1. pending \in Seq(Entries) /\ prio \in Seq(Entries)
    BY DEF IInv, TypeOK
  <2>2. \A i \in 1..Len(pending) : pending[i] \in Entries
    BY <2>1
  <2> QED BY <2>1, <2>2, SchedulerAssumption DEF IInv, Queues, Queued, Entries
<1>1. CASE OwnerPop
  <2>1. /\ pending' = Tail(pending) /\ pending # <<>>
        /\ \A i \in 1..Len(Tail(pending)) :
              Tail(pending)[i] = pending[i + 1] /\ i + 1 \in 1..Len(pending)
    BY <1>1, <1>a DEF OwnerPop
  <2>2. /\ owner.pc = "pop" /\ owner'.pc = "run" /\ owner'.cont = owner.cont
        /\ UNCHANGED <<known, gpuDone, prio, active, stop>>
    BY <1>0, <1>1 DEF OwnerPop
  <2>3. owner.cont = "sd_drain" => \A i \in 1..Len(pending) : pending[i].tick <= known
    BY <1>0, <2>2 DEF Emptied
  <2>4. ~stop
    BY <1>0, <2>2 DEF Emptied
  <2> QED BY <2>1, <2>2, <2>3, <2>4 DEF Emptied
<1>2. CASE RunnerTake
  <2>1. /\ prio # <<>> /\ UNCHANGED <<known, gpuDone, pending, owner, stop>>
    BY <1>2 DEF RunnerTake
  <2>2. owner.pc \notin (Draining \ {"sd_drain"}) \cup {"sd_wake", "closed"}
    BY <1>0, <2>1 DEF Emptied
  <2> QED BY <1>0, <2>1, <2>2 DEF Emptied
<1>3. CASE Recording
  <2>0. opState # "Open" => UNCHANGED <<pending, prio>>
    BY <1>3, ClosedQueues
  <2>1. CASE ShutdownFinish
    <3>1. opState = "Draining" /\ ~stop
      BY <1>0, <2>1 DEF ShutdownFinish, Phase, Emptied
    <3> QED BY <1>0, <1>a, <2>0, <2>1, <3>1 DEF ShutdownFinish, Emptied
  <2>2. CASE OwnerPopEnd
    <3>1. pending' = pending /\ UNCHANGED <<known, gpuDone, prio, active, stop>>
      BY <2>2 DEF OwnerPopEnd
    <3>2. owner.cont = "sd_drain" => pending = <<>>
      <4> SUFFICES ASSUME owner.cont = "sd_drain", pending # <<>> PROVE FALSE
        OBVIOUS
      <4>1. 1 \in 1..Len(pending) /\ Head(pending) = pending[1]
        BY <1>a
      <4>2. pending[1].tick <= known
        BY <1>0, <2>2, <4>1 DEF OwnerPopEnd, Emptied
      <4> QED BY <1>0, <1>a, <2>2, <4>1, <4>2 DEF OwnerPopEnd, IsFree
    <3>3. owner'.pc = owner.cont /\ owner'.cont = "idle" /\ ~stop
      BY <1>0, <2>2 DEF OwnerPopEnd, Emptied
    <3> QED BY <1>0, <3>1, <3>2, <3>3 DEF Emptied
  <2>3. CASE OwnerStep /\ ~ShutdownFinish /\ ~OwnerPopEnd /\ ~OwnerPop
    <3>1. CASE OwnerFence
      BY <1>0, <1>a, <2>0, <3>1 DEF OwnerFence, Emptied, Phase
    <3>2. CASE OwnerRefresh
      BY <1>0, <1>a, <2>0, <3>2 DEF OwnerRefresh, Emptied, Phase
    <3>3. CASE OwnerRun
      <4>1. /\ owner.pc = "run" /\ owner'.pc = "pop" /\ owner'.cont = owner.cont
            /\ UNCHANGED <<known, gpuDone, active, stop>>
        BY <1>0, <3>3 DEF OwnerRun
      <4>2. owner.cont = "sd_drain" => pending' = pending
        BY <1>0, <2>0, <4>1 DEF Phase
      <4> QED BY <1>0, <4>1, <4>2 DEF Emptied
    <3>4. CASE OwnerWaitDone
      BY <1>0, <2>0, <3>4 DEF OwnerWaitDone, OwnerAwaits, Drained, Emptied, Phase
    <3>5. CASE OwnerWaitSleep
      BY <1>0, <2>0, <3>5 DEF OwnerWaitSleep, Emptied, Phase
    <3>6. CASE ShutdownStop \/ ShutdownNotify \/ ShutdownJoin \/ ShutdownClose \/ ShutdownWake
      BY <1>0, <2>0, <3>6 DEF ShutdownStop, ShutdownNotify, ShutdownJoin, ShutdownClose, ShutdownWake,
         Emptied, Phase
    <3> QED BY <2>3, <3>1, <3>2, <3>3, <3>4, <3>5, <3>6 DEF OwnerStep
  <2>4. CASE OwnerCall
    <3>1. ~stop /\ ~stop'
      <4>1. owner.pc = "idle" /\ stop' = stop
        BY <1>0, <2>4 DEF OwnerCall, OwnerDefer, Flush, FinishCurrent, WaitTick,
           WaitPriorityOperations, DrainPriorityOperations, ShutdownBegin
      <4> QED BY <1>0, <4>1 DEF Emptied
    <3>2. /\ owner'.pc \notin Draining \cup {"sd_wake", "closed"}
          /\ ~(owner'.cont = "sd_drain" /\ owner'.pc \in Polling)
      <4>1. (owner' = owner /\ owner.pc = "idle") \/ owner'.cont = "idle"
        BY <1>0, <2>4 DEF OwnerCall, OwnerDefer, Flush, FinishCurrent, WaitTick,
           WaitPriorityOperations, DrainPriorityOperations, ShutdownBegin
      <4>2. owner'.pc \in {"idle", "fence", "waitprio", "drain", "sd_finish"}
        BY <1>0, <2>4 DEF OwnerCall, OwnerDefer, Flush, FinishCurrent, WaitTick,
           WaitPriorityOperations, DrainPriorityOperations, ShutdownBegin
      <4> QED BY <4>1, <4>2
    <3> QED BY <3>1, <3>2 DEF Emptied
  <2>5. ASSUME UNCHANGED <<owner, gpuDone, stop>>, known' \in Nat, known' >= known,
               active' = active \/ active' = 0
        PROVE  Emptied'
    <3>1. owner.pc \in Draining \cup {"sd_wake", "closed"} \/ (owner.cont = "sd_drain" /\ owner.pc \in Polling)
            => UNCHANGED <<pending, prio>>
      BY <1>0, <2>0 DEF Phase
    <3> QED BY <1>0, <1>a, <2>5, <3>1 DEF Emptied
  <2>6. ASSUME NEW t \in Others, OtherStep(t) PROVE Emptied'
    <3>1. known' \in Nat /\ known' >= known
      BY ClockStep
    <3>2. UNCHANGED <<owner, gpuDone, stop, active>>
      BY <2>6 DEF OtherStep, OtherDefer, OtherDeferWait, OtherShutdown,
         OtherProceed, OtherSleep
    <3> QED BY <2>5, <3>1, <3>2
  <2>7. CASE RunnerStep /\ ~RunnerTake
    <3>1. known' \in Nat /\ known' >= known
      BY ClockStep
    <3> QED BY <1>0, <2>5, <2>7, <3>1 DEF RunnerStep, RunnerExit, RunnerEval,
       RunnerBlock, RunnerWoken, RunnerWaited, RunnerRefresh, RunnerRun, RunnerDone, RunnerNotify
  <2>8. CASE GpuComplete
    <3>1. /\ gpuDone' = gpuDone + 1
          /\ UNCHANGED <<known, pending, prio, active, stop, owner>>
      BY <2>8 DEF GpuComplete
    <3> QED BY <1>0, <1>a, <3>1 DEF Emptied
  <2>9. CASE \E t \in Threads : NotifyOne(t)
    BY <1>0, <2>5, <2>9 DEF NotifyOne
  <2> QED BY <1>1, <1>2, <2>1, <2>2, <2>3, <2>4, <2>6, <2>7, <2>8, <2>9 DEF Next
<1> QED BY <1>1, <1>2, <1>3, StepRecords

\* Types; the bound on the submissions in flight is what the ring gives.
LEMMA RecordsStep == IInv /\ Next => Records'
<1> SUFFICES ASSUME IInv, Next PROVE Records'
  OBVIOUS
<1> USE SchedulerAssumption DEF gpuVars, queueVars, cvVars, Idle
<1>0. /\ owner \in [pc : OwnerPcs, tick : Nat, op : Nat, cont : {"idle", "sd_drain"}]
      /\ runner \in [pc : RunnerPcs, op : Nat, counter : Nat]
      /\ runner.counter <= gpuDone /\ active \in Nat /\ ops \in Seq(Ops)
      /\ curTick \in Nat /\ gpuDone \in Nat /\ current \in Slots
      /\ slotTick \in [Slots -> 0..(curTick - 1)]
  BY DEF IInv, TypeOK, Records, Slots
<1>1. ops' \in Seq(Ops)
  BY <1>0, StepRecords DEF OwnerPop, RunnerTake, Recording, Recorded
<1>2. owner' \in [pc : OwnerPcs, tick : Nat, op : Nat, cont : {"idle", "sd_drain"}]
  <2>1. CASE OwnerPop
    <3>1. Head(pending).op \in Nat
      <4>1. pending \in Seq(Entries) /\ Queued(pending, "normal") /\ pending # <<>>
            /\ ops' = ops /\ curTick' = curTick
        BY <2>1 DEF OwnerPop, IInv, TypeOK, Queues
      <4> QED BY <4>1, FrontTaken
    <3> QED BY <1>0, <2>1, <3>1 DEF OwnerPop, OwnerPcs
  <2>2. CASE Flush
    <3>1. slotTick'[current'] \in Nat /\ slotTick[current'] \in Nat
      BY <1>0, <2>2, NextSlot DEF Flush, SubmitCurrent
    <3> QED BY <1>0, <2>2, <3>1 DEF Flush, OwnerPcs
  <2>3. CASE OwnerStep /\ ~OwnerPop
    <3>1. CASE OwnerFence \/ OwnerRefresh \/ OwnerRun \/ OwnerWaitSleep
      <4>1. PICK p \in OwnerPcs :
               \/ owner' = [owner EXCEPT !.pc = p]
               \/ owner' = [owner EXCEPT !.pc = p, !.op = 0]
               \/ owner' = owner
        BY <3>1 DEF OwnerFence, OwnerRefresh, OwnerRun, OwnerWaitSleep, OwnerPcs
      <4>2. owner \in [pc : OwnerPcs, tick : Nat, op : Nat, cont : {"idle", "sd_drain"}]
        BY <1>0
      <4>3. CASE owner' = [owner EXCEPT !.pc = p]
        BY <4>1, <4>2, <4>3
      <4>4. CASE owner' = [owner EXCEPT !.pc = p, !.op = 0]
        BY <4>1, <4>2, <4>4
      <4> QED BY <4>1, <4>2, <4>3, <4>4
    <3>2. CASE OwnerPopEnd
      BY <1>0, <3>2 DEF OwnerPopEnd, OwnerPcs
    <3>3. CASE OwnerWaitDone
      BY <1>0, <3>3 DEF OwnerWaitDone, OwnerPcs
    <3>4. CASE ShutdownFinish
      BY <1>0, <3>4 DEF ShutdownFinish, OwnerPcs
    <3>5. CASE ShutdownStop \/ ShutdownNotify \/ ShutdownJoin \/ ShutdownClose \/ ShutdownWake
      <4>1. PICK p \in OwnerPcs : owner' = [Idle EXCEPT !.pc = p]
        BY <3>5 DEF ShutdownStop, ShutdownNotify, ShutdownJoin, ShutdownClose, ShutdownWake, OwnerPcs
      <4>2. owner' = [pc |-> p, tick |-> 0, op |-> 0, cont |-> "idle"]
        BY <4>1
      <4>3. p \in OwnerPcs
        BY <4>1
      <4> QED BY <4>2, <4>3
    <3> QED BY <2>3, <3>1, <3>2, <3>3, <3>4, <3>5 DEF OwnerStep
  <2>4. CASE OwnerCall /\ ~Flush
    <3>1. ASSUME NEW kind \in Kinds, OwnerDefer(kind) PROVE owner' = owner
      BY <3>1 DEF OwnerDefer
    <3>2. CASE FinishCurrent
      BY <1>0, <3>2 DEF FinishCurrent, OwnerPcs
    <3>3. ASSUME NEW tick \in 1..(MaxTick + 1), WaitTick(tick) \/ WaitPriorityOperations(tick)
          PROVE  owner' \in [pc : OwnerPcs, tick : Nat, op : Nat, cont : {"idle", "sd_drain"}]
      <4>1. PICK p \in OwnerPcs : owner' = [Idle EXCEPT !.pc = p, !.tick = tick]
        BY <3>3 DEF WaitTick, WaitPriorityOperations, OwnerPcs
      <4>2. owner' = [pc |-> p, tick |-> tick, op |-> 0, cont |-> "idle"]
        BY <4>1
      <4>3. tick \in Nat /\ p \in OwnerPcs
        BY <4>1
      <4> HIDE DEF Idle
      <4> QED BY <4>2, <4>3
    <3>4. CASE DrainPriorityOperations \/ ShutdownBegin
      <4>1. CASE owner' = [Idle EXCEPT !.pc = "drain"]
        BY <4>1 DEF OwnerPcs
      <4>2. CASE owner' = [Idle EXCEPT !.pc = "sd_finish"]
        BY <4>2 DEF OwnerPcs
      <4> QED BY <3>4, <4>1, <4>2 DEF DrainPriorityOperations, ShutdownBegin
    <3> QED BY <1>0, <2>4, <3>1, <3>2, <3>3, <3>4 DEF OwnerCall
  <2>5. CASE \E t \in Others : OtherStep(t)
    BY <1>0, <2>5 DEF OtherStep, OtherDefer, OtherDeferWait, OtherShutdown,
     OtherProceed, OtherSleep
  <2>6. CASE RunnerStep \/ GpuComplete \/ \E t \in Threads : NotifyOne(t)
    BY <1>0, <2>6 DEF RunnerStep, RunnerExit, RunnerTake, RunnerEval, RunnerBlock,
     RunnerWoken, RunnerWaited, RunnerRefresh, RunnerRun, RunnerDone, RunnerNotify, GpuComplete, NotifyOne
  <2> QED BY <2>1, <2>2, <2>3, <2>4, <2>5, <2>6 DEF Next
<1>3. /\ runner' \in [pc : RunnerPcs, op : Nat, counter : Nat] /\ active' \in Nat
      /\ runner'.counter <= gpuDone'
  <2>0. gpuDone' \in Nat /\ gpuDone' >= gpuDone
    <3>1. curTick' \in Nat /\ gpuDone' \in 0..(curTick' - 1) /\ gpuDone' >= gpuDone
      BY ClockStep
    <3> QED BY <3>1
  <2>1. CASE RunnerTake
    <3>1. Head(prio).op \in Nat /\ Head(prio).tick \in Nat
      <4>1. prio \in Seq(Entries) /\ Queued(prio, "priority") /\ prio # <<>>
            /\ ops' = ops /\ curTick' = curTick
        BY <2>1 DEF RunnerTake, IInv, TypeOK, Queues
      <4> QED BY <4>1, FrontTaken
    <3> QED BY <1>0, <2>0, <2>1, <3>1 DEF RunnerTake, RunnerPcs
  <2>2. CASE RunnerStep /\ ~RunnerTake
    <3>1. CASE RunnerExit \/ RunnerEval \/ RunnerBlock \/ RunnerWoken \/ RunnerRun
      <4>1. /\ runner.counter = runner'.counter /\ active' = active
            /\ runner' \in [pc : RunnerPcs, op : Nat, counter : Nat]
        BY <1>0, <3>1 DEF RunnerExit, RunnerEval, RunnerBlock, RunnerWoken, RunnerRun, RunnerPcs
      <4> QED BY <1>0, <2>0, <4>1
    <3>2. CASE RunnerWaited \/ RunnerRefresh
      <4>1. PICK p \in RunnerPcs, n \in {gpuDone, 0} : runner' = [runner EXCEPT !.pc = p, !.counter = n]
        BY <3>2 DEF RunnerWaited, RunnerRefresh, RunnerPcs
      <4>2. active' = active
        BY <3>2 DEF RunnerWaited, RunnerRefresh
      <4>3. runner \in [pc : RunnerPcs, op : Nat, counter : Nat] /\ gpuDone \in Nat
        BY <1>0
      <4>4. /\ runner' \in [pc : RunnerPcs, op : Nat, counter : Nat]
            /\ runner'.counter = n
        <5>1. n \in Nat /\ p \in RunnerPcs
          BY <4>1, <4>3
        <5>2. runner' = [pc |-> p, op |-> runner.op, counter |-> n]
          BY <4>1, <4>3
        <5>3. runner.op \in Nat
          BY <4>3
        <5> QED BY <5>1, <5>2, <5>3
      <4>5. n <= gpuDone
        BY <4>1, <4>3
      <4> QED BY <1>0, <2>0, <4>2, <4>4, <4>5
    <3>3. CASE RunnerDone \/ RunnerNotify
      <4>1. CASE RunnerDone
        BY <1>0, <2>0, <4>1 DEF RunnerDone, RunnerPcs
      <4>2. CASE RunnerNotify
        BY <1>0, <2>0, <4>2 DEF RunnerNotify, RunnerPcs
      <4> QED BY <3>3, <4>1, <4>2
    <3> QED BY <2>2, <3>1, <3>2, <3>3 DEF RunnerStep
  <2>3. ASSUME UNCHANGED <<runner, active>>
        PROVE  /\ runner' \in [pc : RunnerPcs, op : Nat, counter : Nat] /\ active' \in Nat
               /\ runner'.counter <= gpuDone'
    BY <1>0, <2>0, <2>3
  <2>4. CASE OwnerStep
    BY <2>3, <2>4 DEF OwnerStep, OwnerFence, OwnerRefresh, OwnerRun, OwnerPop,
     OwnerPopEnd, OwnerWaitDone, OwnerWaitSleep, ShutdownFinish, ShutdownStop,
     ShutdownNotify, ShutdownJoin, ShutdownClose, ShutdownWake
  <2>5. CASE OwnerCall
    BY <2>3, <2>5 DEF OwnerCall, OwnerDefer, FinishCurrent, WaitTick, Flush,
     WaitPriorityOperations, DrainPriorityOperations, ShutdownBegin
  <2>6. CASE (\E t \in Others : OtherStep(t)) \/ GpuComplete \/ \E t \in Threads : NotifyOne(t)
    BY <2>3, <2>6 DEF OtherStep, OtherDefer, OtherDeferWait, OtherShutdown,
     OtherProceed, OtherSleep, GpuComplete, NotifyOne
  <2> QED BY <2>1, <2>2, <2>4, <2>5, <2>6 DEF Next
<1> QED BY <1>1, <1>2, <1>3 DEF Records

\* The history only grows.
LEMMA OpsGrow ==
    ASSUME IInv, Next
    PROVE  Len(ops') \in Nat /\ Len(ops') >= Len(ops)
<1>1. ops \in Seq(Ops) /\ Len(ops) \in Nat
  BY DEF IInv, Records
<1>2. OwnerPop \/ RunnerTake => ops' = ops
  BY DEF OwnerPop, RunnerTake
<1>3. Recording => Len(ops') \in Nat /\ Len(ops') >= Len(ops)
  <2> SUFFICES ASSUME NEW R, Recorded(R) PROVE Len(ops') \in Nat /\ Len(ops') >= Len(ops)
    BY DEF Recording
  <2> QED BY <1>1 DEF Recorded
<1> QED BY <1>1, <1>2, <1>3, StepRecords

\* A thread comes to owe a notification by queueing a new operation.
LEMMA OwesStep ==
    ASSUME IInv, Next
    PROVE  \/ owes' = owes
           \/ \E t \in Threads : owes' = [owes EXCEPT ![t] = 0]
           \/ /\ Len(ops') = Len(ops) + 1
              /\ \E t \in Threads : owes' = [owes EXCEPT ![t] = Len(ops) + 1]
<1> USE DEF gpuVars, queueVars, cvVars
<1>0. ops \in Seq(Ops)
  BY DEF IInv, Records
<1>1. ASSUME NEW t \in Threads, NEW kind \in Kinds, NEW before, Len(before) = Len(ops),
             before \in Seq(Ops), Push(t, kind, before)
      PROVE  \/ owes' = owes
             \/ Len(ops') = Len(ops) + 1 /\ owes' = [owes EXCEPT ![t] = Len(ops) + 1]
  <2>1. owes' = owes \/ owes' = [owes EXCEPT ![t] = Len(before) + 1]
    BY <1>1 DEF Push
  <2>2. NewOp(kind, FALSE) \in Ops /\ ops' = Append(before, NewOp(kind, FALSE))
    <3>1. curTick \in Nat
      BY SchedulerAssumption DEF IInv, TypeOK
    <3> QED BY <1>1, <3>1 DEF Push, NewOp, Ops, Kinds
  <2>3. Len(ops') = Len(before) + 1
    <3> HIDE DEF NewOp
    <3> QED BY <1>1, <2>2
  <2> QED BY <1>1, <2>1, <2>3
<1>2. ASSUME NEW t \in Threads, NEW x \in 1..Len(ops), RunOperation(t, x)
      PROVE  \/ owes' = owes
             \/ Len(ops') = Len(ops) + 1 /\ owes' = [owes EXCEPT ![t] = Len(ops) + 1]
  <2> DEFINE ran == [ops EXCEPT ![x].ran = TRUE]
  <2>1. ran \in Seq(Ops) /\ Len(ran) = Len(ops)
    <3>1. ops[x] \in Ops
      BY <1>0, <1>2
    <3>2. [ops[x] EXCEPT !.ran = TRUE] \in Ops
      BY <3>1 DEF Ops
    <3> QED BY <1>0, <1>2, <3>2
  <2>2. \/ UNCHANGED owes
        \/ \E kind \in Kinds : CallbackDefer(t, kind, ran)
    BY <1>2 DEF RunOperation
  <2> HIDE DEF ran
  <2>3. ASSUME NEW kind \in Kinds, CallbackDefer(t, kind, ran)
        PROVE  \/ owes' = owes
               \/ Len(ops') = Len(ops) + 1 /\ owes' = [owes EXCEPT ![t] = Len(ops) + 1]
    <3>1. UNCHANGED owes \/ Push(t, kind, ran)
      BY <2>3 DEF CallbackDefer
    <3> QED BY <1>1, <1>2, <2>1, <3>1
  <2> QED BY <2>2, <2>3
<1>3. "owner" \in Threads /\ "runner" \in Threads /\ Others \subseteq Threads
  BY DEF Threads
<1>4. CASE OwnerRun
  <2>1. owner.op \in 1..Len(ops) /\ RunOperation("owner", owner.op)
    BY <1>4 DEF OwnerRun, IInv, Queues
  <2> QED BY <1>2, <1>3, <2>1
<1>5. CASE RunnerRun
  <2>1. runner.op \in 1..Len(ops)
    BY <1>5 DEF RunnerRun, IInv, Queues
  <2>2. UNCHANGED owes \/ RunOperation("runner", runner.op)
    BY <1>5 DEF RunnerRun
  <2> QED BY <1>2, <1>3, <2>1, <2>2
<1>6. ASSUME NEW kind \in Kinds, OwnerDefer(kind)
      PROVE  \/ owes' = owes
             \/ Len(ops') = Len(ops) + 1 /\ \E t \in Threads : owes' = [owes EXCEPT ![t] = Len(ops) + 1]
  <2>1. Push("owner", kind, ops)
    BY <1>6 DEF OwnerDefer
  <2> QED BY <1>0, <1>1, <1>3, <2>1
<1>7. ASSUME NEW u \in Others, NEW kind \in Kinds, OtherDefer(u, kind)
      PROVE  \/ owes' = owes
             \/ Len(ops') = Len(ops) + 1 /\ \E t \in Threads : owes' = [owes EXCEPT ![t] = Len(ops) + 1]
  <2>1. Push(u, kind, ops) /\ u \in Threads
    BY <1>3, <1>7 DEF OtherDefer
  <2> QED BY <1>0, <1>1, <2>1
<1>8. CASE \E t \in Threads : NotifyOne(t)
  BY <1>8 DEF NotifyOne
<1>9. CASE OwnerStep /\ ~OwnerRun
  BY <1>9 DEF OwnerStep, OwnerFence, OwnerRefresh, OwnerPop, OwnerPopEnd, OwnerWaitDone,
     OwnerWaitSleep, ShutdownFinish, ShutdownStop, ShutdownNotify, ShutdownJoin,
     ShutdownClose, ShutdownWake
<1>10. CASE OwnerCall /\ ~\E kind \in Kinds : OwnerDefer(kind)
  BY <1>10 DEF OwnerCall, Flush, FinishCurrent, WaitTick, WaitPriorityOperations,
     DrainPriorityOperations, ShutdownBegin
<1>11. ASSUME NEW u \in Others, OtherStep(u), ~\E kind \in Kinds : OtherDefer(u, kind)
       PROVE  owes' = owes
  BY <1>11 DEF OtherStep, OtherDeferWait, OtherShutdown, OtherProceed, OtherSleep
<1>12. CASE RunnerStep /\ ~RunnerRun
  BY <1>12 DEF RunnerStep, RunnerExit, RunnerTake, RunnerEval, RunnerBlock, RunnerWoken,
     RunnerWaited, RunnerRefresh, RunnerDone, RunnerNotify
<1>13. CASE GpuComplete
  BY <1>13 DEF GpuComplete
<1> QED BY <1>4, <1>5, <1>6, <1>7, <1>8, <1>9, <1>10, <1>11, <1>12, <1>13 DEF Next

LEMMA TypeStep ==
    ASSUME IInv, Next, Records', Ring', pending' \in Seq(Entries'), prio' \in Seq(Entries')
    PROVE  TypeOK'
<1> USE SchedulerAssumption DEF gpuVars, queueVars, cvVars, Idle
<1>0. /\ owner \in [pc : OwnerPcs, tick : Nat, op : Nat, cont : {"idle", "sd_drain"}]
      /\ runner \in [pc : RunnerPcs, op : Nat, counter : Nat]
      /\ curTick \in Nat /\ gpuDone \in Nat /\ current \in Slots
      /\ slotTick \in [Slots -> 0..(curTick - 1)] /\ active \in Nat
      /\ active # 0 <=> runner.pc \in {"wait", "refresh", "run", "done"}
      /\ opState \in {"Open", "Draining", "Closed"} /\ stop \in BOOLEAN
      /\ sleepers \subseteq Threads
      /\ other \in [Others -> {"idle", "defer", "shutdown"}]
  <2>1. /\ owner \in [pc : OwnerPcs, tick : Nat, op : Nat, cont : {"idle", "sd_drain"}]
        /\ runner \in [pc : RunnerPcs, op : Nat, counter : Nat] /\ active \in Nat
    BY DEF IInv, Records
  <2>2. /\ curTick \in Nat /\ gpuDone \in Nat /\ current \in Slots
        /\ slotTick \in [Slots -> 0..(curTick - 1)]
    BY DEF IInv, TypeOK, Slots
  <2> QED BY <2>1, <2>2 DEF IInv, TypeOK
<1>1. /\ curTick' \in 1..(MaxTick + 2) /\ gpuDone' \in 0..(curTick' - 1)
      /\ known' \in 0..gpuDone' /\ curTick' \in Nat /\ curTick' >= curTick
  BY ClockStep
<1>2. current' \in Slots
  BY <1>0, NextSlot DEF Next, OwnerStep, OwnerFence, OwnerRefresh, OwnerRun, OwnerPop,
     OwnerPopEnd, OwnerWaitDone, OwnerWaitSleep, ShutdownFinish, ShutdownStop,
     ShutdownNotify, ShutdownJoin, ShutdownClose, ShutdownWake,
     OwnerCall, OwnerDefer, FinishCurrent, WaitTick, Flush,
     WaitPriorityOperations, DrainPriorityOperations, ShutdownBegin,
     OtherStep, OtherDefer, OtherDeferWait, OtherShutdown,
     OtherProceed, OtherSleep, GpuComplete, NotifyOne,
     RunnerStep, RunnerExit, RunnerEval, RunnerBlock, RunnerTake,
     RunnerWoken, RunnerWaited, RunnerRefresh, RunnerRun, RunnerDone, RunnerNotify
<1>3. slotTick' \in [Slots -> 0..(curTick' - 1)]
  <2>1. CASE Flush \/ FinishCurrent \/ ShutdownFinish
    <3>1. curTick' = curTick + 1 /\ slotTick' = [slotTick EXCEPT ![current] = curTick]
      BY <2>1 DEF Flush, FinishCurrent, ShutdownFinish, SubmitCurrent
    <3> QED BY <1>0, <3>1
  <2>2. CASE slotTick' = slotTick
    BY <1>0, <1>1, <2>2
  <2> QED BY <2>1, <2>2 DEF Next, OwnerStep, OwnerFence, OwnerRefresh, OwnerRun, OwnerPop,
     OwnerPopEnd, OwnerWaitDone, OwnerWaitSleep, ShutdownStop,
     ShutdownNotify, ShutdownJoin, ShutdownClose, ShutdownWake,
     OwnerCall, OwnerDefer, WaitTick,
     WaitPriorityOperations, DrainPriorityOperations, ShutdownBegin,
     OtherStep, OtherDefer, OtherDeferWait, OtherShutdown,
     OtherProceed, OtherSleep, GpuComplete, NotifyOne,
     RunnerStep, RunnerExit, RunnerEval, RunnerBlock, RunnerTake,
     RunnerWoken, RunnerWaited, RunnerRefresh, RunnerRun, RunnerDone, RunnerNotify
<1>4. /\ opState' \in {"Open", "Draining", "Closed"} /\ stop' \in BOOLEAN
      /\ other' \in [Others -> {"idle", "defer", "shutdown"}]
  BY <1>0 DEF Next, OwnerStep, OwnerFence, OwnerRefresh, OwnerRun, OwnerPop,
     OwnerPopEnd, OwnerWaitDone, OwnerWaitSleep, ShutdownFinish, ShutdownStop,
     ShutdownNotify, ShutdownJoin, ShutdownClose, ShutdownWake,
     OwnerCall, OwnerDefer, FinishCurrent, WaitTick, Flush,
     WaitPriorityOperations, DrainPriorityOperations, ShutdownBegin,
     OtherStep, OtherDefer, OtherDeferWait, OtherShutdown,
     OtherProceed, OtherSleep, GpuComplete, NotifyOne,
     RunnerStep, RunnerExit, RunnerEval, RunnerBlock, RunnerTake,
     RunnerWoken, RunnerWaited, RunnerRefresh, RunnerRun, RunnerDone, RunnerNotify
<1>5. sleepers' \subseteq Threads
  <2>3. CASE OwnerStep
    BY <1>0, <2>3 DEF Threads, OwnerStep, OwnerFence, OwnerRefresh, OwnerRun, OwnerPop,
     OwnerPopEnd, OwnerWaitDone, OwnerWaitSleep, ShutdownFinish, ShutdownStop,
     ShutdownNotify, ShutdownJoin, ShutdownClose, ShutdownWake, NotifyAll
  <2>4. CASE OwnerCall
    BY <1>0, <2>4 DEF OwnerCall, OwnerDefer, FinishCurrent, WaitTick, Flush,
     WaitPriorityOperations, DrainPriorityOperations, ShutdownBegin
  <2>5. CASE \E t \in Others : OtherStep(t)
    <3>1. PICK t \in Others : OtherStep(t)
      BY <2>5
    <3>2. sleepers' \subseteq sleepers \/ sleepers' = sleepers \cup {t}
      BY <3>1 DEF OtherStep, OtherDefer, OtherDeferWait, OtherShutdown,
         OtherProceed, OtherSleep
    <3>3. sleepers \subseteq Threads
      BY <1>0
    <3> QED BY <3>1, <3>2, <3>3 DEF Threads
  <2>6. CASE RunnerStep
    BY <1>0, <2>6 DEF Threads, RunnerStep, RunnerExit, RunnerEval, RunnerBlock, RunnerTake,
     RunnerWoken, RunnerWaited, RunnerRefresh, RunnerRun, RunnerDone, RunnerNotify, NotifyAll
  <2>7. CASE GpuComplete
    BY <1>0, <2>7 DEF GpuComplete
  <2>8. CASE \E t \in Threads : NotifyOne(t)
    BY <1>0, <2>8 DEF NotifyOne
  <2> QED BY <2>3, <2>4, <2>5, <2>6, <2>7, <2>8 DEF Next
<1>6. active' # 0 <=> runner'.pc \in {"wait", "refresh", "run", "done"}
  <2>1. CASE RunnerTake
    BY <1>0, <2>1, TakeStep DEF RunnerTake
  <2>2. CASE RunnerStep /\ ~RunnerTake
    BY <1>0, <2>2 DEF RunnerStep, RunnerExit, RunnerEval, RunnerBlock,
     RunnerWoken, RunnerWaited, RunnerRefresh, RunnerRun, RunnerDone, RunnerNotify
  <2>3. CASE UNCHANGED <<runner, active>>
    BY <1>0, <2>3
  <2> QED BY <2>1, <2>2, <2>3 DEF Next, OwnerStep, OwnerFence, OwnerRefresh, OwnerRun, OwnerPop,
     OwnerPopEnd, OwnerWaitDone, OwnerWaitSleep, ShutdownFinish, ShutdownStop,
     ShutdownNotify, ShutdownJoin, ShutdownClose, ShutdownWake,
     OwnerCall, OwnerDefer, FinishCurrent, WaitTick, Flush,
     WaitPriorityOperations, DrainPriorityOperations, ShutdownBegin,
     OtherStep, OtherDefer, OtherDeferWait, OtherShutdown,
     OtherProceed, OtherSleep, GpuComplete, NotifyOne
<1>7. owner'.pc \in OwnerPcs /\ runner'.pc \in RunnerPcs
  BY DEF Records
<1>8. owner'.pc = "idle" => /\ slotTick'[current'] <= gpuDone'
                            /\ curTick' - 1 - gpuDone' < BufferCount
  <2> SUFFICES ASSUME owner'.pc = "idle"
               PROVE  /\ slotTick'[current'] <= gpuDone'
                      /\ curTick' - 1 - gpuDone' < BufferCount
    OBVIOUS
  <2>1. /\ slotTick'[current'] <= gpuDone'
        /\ \A n \in (gpuDone' + 1)..(curTick' - 1) : \E b \in Slots : slotTick'[b] = n
    BY DEF Ring
  <2>2. slotTick' \in [Slots -> Int]
    BY <1>1, <1>3
  <2> QED BY <1>1, <1>2, <2>1, <2>2, RingBound
<1>9. owes' \in [Threads -> 0..Len(ops')]
  <2>1. owes \in [Threads -> 0..Len(ops)] /\ Len(ops) \in Nat
    <3>1. owes \in [Threads -> 0..Len(ops)]
      BY DEF IInv, TypeOK
    <3>2. Len(ops) \in Nat
      BY DEF IInv, Records
    <3> QED BY <3>1, <3>2
  <2>2. Len(ops') \in Nat /\ Len(ops') >= Len(ops)
    BY <2>1, OpsGrow
  <2>3. \/ owes' = owes
        \/ \E t \in Threads : owes' = [owes EXCEPT ![t] = 0]
        \/ /\ Len(ops') = Len(ops) + 1
           /\ \E t \in Threads : owes' = [owes EXCEPT ![t] = Len(ops) + 1]
    BY OwesStep
  <2> QED BY <2>1, <2>2, <2>3
<1> QED BY <1>1, <1>2, <1>3, <1>4, <1>5, <1>6, <1>7, <1>8, <1>9 DEF TypeOK, Slots

LEMMA NextIInv == IInv /\ [Next]_vars => IInv'
<1> SUFFICES ASSUME IInv, [Next]_vars PROVE IInv'
  OBVIOUS
<1>1. CASE Next
  <2>1. /\ curTick' \in Nat /\ curTick' >= curTick /\ known' \in Nat
        /\ known' >= known /\ gpuDone' \in Nat /\ gpuDone' >= gpuDone
    <3>1. /\ curTick' \in 1..(MaxTick + 2) /\ curTick' >= curTick
          /\ gpuDone' \in 0..(curTick' - 1) /\ gpuDone' >= gpuDone
          /\ known' \in 0..gpuDone' /\ known' >= known
      BY <1>1, ClockStep
    <3> QED BY <3>1, SchedulerAssumption
  <2>2. /\ Queues' /\ Accounted' /\ OpsAfterCompletion'
        /\ pending' \in Seq(Entries') /\ prio' \in Seq(Entries')
    BY <1>1, <2>1, QueuesStep
  <2>3. Ring' /\ Phase' /\ Records' /\ Emptied'
    BY <1>1, RingStep, PhaseStep, RecordsStep, EmptiedStep
  <2>4. TypeOK'
    BY <1>1, <2>2, <2>3, TypeStep
  <2> QED BY <2>2, <2>3, <2>4 DEF IInv
<1>2. CASE UNCHANGED vars
  BY <1>2 DEF vars, IInv, TypeOK, Entries, Records, Phase, Ring, Queues, Queued, Accounted,
     NormalAt, PriorityAt, OpsAfterCompletion, Emptied
<1> QED BY <1>1, <1>2

-----------------------------------------------------------------------------
(* Theorems.                                                                *)

\* The invariant holds: every reachable state of the scheduler is in it.
THEOREM IInvHolds == Spec => []IInv
BY InitIInv, NextIInv, PTL DEF Spec

\* TypeOK always holds; in particular the recorder never records into a
\* command buffer that the GPU may be executing, whatever the ring's size.
THEOREM SchedulerTypeCorrect == Spec => []TypeOK
<1>1. IInv => TypeOK
  BY DEF IInv
<1> QED BY <1>1, IInvHolds, PTL

\* A deferred operation never runs before the GPU has completed the tick it
\* was deferred at: PopPendingOperations and the priority thread both wait.
THEOREM RunsAfterCompletion == Spec => []OpsAfterCompletion
<1>1. IInv => OpsAfterCompletion
  BY DEF IInv
<1> QED BY <1>1, IInvHolds, PTL

\* Shutdown finds the queues empty where it asserts so, and once it has closed
\* the scheduler every operation ever deferred has run.
THEOREM ShutdownLosesNothing == Spec => []NothingLost
<1>1. IInv => NothingLost
  <2> SUFFICES ASSUME IInv PROVE NothingLost
    OBVIOUS
  <2>1. owner.pc = "sd_close" => pending = <<>> /\ prio = <<>> /\ active = 0
    BY DEF IInv, Emptied, Draining
  <2>2. ASSUME opState = "Closed", NEW o \in 1..Len(ops) PROVE ops[o].ran
    <3>1. pending = <<>> /\ prio = <<>> /\ active = 0 /\ owner.pc \in {"sd_wake", "closed"}
      BY <2>2 DEF IInv, Phase, Emptied
    <3>2. runner.pc \notin {"wait", "refresh", "run", "done"}
      BY <3>1 DEF IInv, TypeOK
    <3> QED BY <2>2, <3>1, <3>2 DEF IInv, Accounted, NormalAt, PriorityAt
  <2> QED BY <2>1, <2>2 DEF NothingLost
<1> QED BY <1>1, IInvHolds, PTL

\* When WaitPriorityOperations(tick) returns, every priority operation that
\* was deferred at or before tick has run, although it looked only at the
\* active tick and the front of the queue.
THEOREM PriorityWaitIsEnough == Spec => PriorityWaitCovers
<1> DEFINE A == (owner.pc = "waitprio" /\ owner'.pc = "idle") =>
                  \A o \in 1..Len(ops) :
                      (ops[o].kind = "priority" /\ ops[o].at <= owner.tick) => ops[o].ran
<1>1. IInv /\ [Next]_vars => [A]_vars
  <2> SUFFICES ASSUME IInv, Next, owner.pc = "waitprio", owner'.pc = "idle",
                      NEW o \in 1..Len(ops), ops[o].kind = "priority",
                      ops[o].at <= owner.tick, ~ops[o].ran
               PROVE  FALSE
    OBVIOUS
  <2> USE DEF gpuVars, queueVars, cvVars, Idle
  <2>0. owner \in [pc : OwnerPcs, tick : Nat, op : Nat, cont : {"idle", "sd_drain"}]
    BY DEF IInv, Records
  <2>1. PriorityDone(owner.tick)
    <3>1. CASE OwnerStep
      BY <2>0, <3>1 DEF OwnerStep, OwnerFence, OwnerRefresh, OwnerRun, OwnerPop,
       OwnerPopEnd, OwnerWaitDone, OwnerWaitSleep, ShutdownFinish, ShutdownStop,
       ShutdownNotify, ShutdownJoin, ShutdownClose, ShutdownWake, OwnerAwaits
    <3>2. CASE OwnerCall
      BY <2>0, <3>2 DEF OwnerCall, OwnerDefer, FinishCurrent, WaitTick, Flush,
       WaitPriorityOperations, DrainPriorityOperations, ShutdownBegin
    <3>3. CASE \/ \E t \in Others : OtherStep(t)
               \/ \E t \in Threads : NotifyOne(t)
               \/ RunnerStep \/ GpuComplete
      BY <2>0, <3>3 DEF OtherStep, OtherDefer, OtherDeferWait, OtherShutdown,
       OtherProceed, OtherSleep, RunnerStep, RunnerExit, RunnerEval, RunnerBlock, RunnerTake,
       RunnerWoken, RunnerWaited, RunnerRefresh, RunnerRun, RunnerDone, RunnerNotify, GpuComplete, NotifyOne
    <3> QED BY <3>1, <3>2, <3>3 DEF Next
  <2>2. PriorityAt(o)
    BY DEF IInv, Accounted
  <2>3. CASE \E i \in 1..Len(prio) : prio[i].op = o
    <3>1. PICK i \in 1..Len(prio) : prio[i].op = o
      BY <2>3
    <3>2. /\ prio \in Seq(Entries) /\ Queued(prio, "priority")
          /\ \A x, y \in 1..Len(prio) : x <= y => prio[x].tick <= prio[y].tick
      BY DEF IInv, TypeOK, Queues
    <3>3. prio # <<>> /\ 1 \in 1..Len(prio) /\ Head(prio) = prio[1] /\ 1 <= i
      BY <3>1, <3>2
    <3>4. prio[1].tick <= prio[i].tick /\ prio[i].tick = ops[o].at
      BY <3>1, <3>2, <3>3 DEF Queued
    <3>5. prio[1] \in Entries /\ prio[i] \in Entries
      BY <3>1, <3>2, <3>3
    <3>6. prio[1].tick \in Nat /\ prio[i].tick \in Nat
      BY <3>5, SchedulerAssumption DEF Entries
    <3> QED BY <2>0, <2>1, <3>3, <3>4, <3>6 DEF PriorityDone
  <2>4. CASE runner.pc \in {"wait", "refresh", "run"} /\ runner.op = o
    <3>1. ops[o].at = active /\ active # 0
      BY <2>4 DEF IInv, Queues, TypeOK
    <3> QED BY <2>1, <3>1 DEF PriorityDone
  <2> QED BY <2>2, <2>3, <2>4 DEF PriorityAt
<1>2. [][A]_vars <=> PriorityWaitCovers
  BY DEF PriorityWaitCovers
<1> HIDE DEF A
<1> QED BY <1>1, <1>2, IInvHolds, PTL DEF Spec

=============================================================================
