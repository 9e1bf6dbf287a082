-------------------------- MODULE CommandScheduler --------------------------
(***************************************************************************)
(* The submission timeline of the host GPU:                                *)
(* src/src/graphics/host_gpu/renderer/commandScheduler.cpp with            *)
(* masterSemaphore.cpp.  One thread, the owner, records command buffers    *)
(* and submits them; submission n signals tick n of a timeline semaphore.  *)
(* Work that must wait for the GPU is deferred: a normal operation is run  *)
(* by the owner when it polls, a priority operation by a runner thread     *)
(* that sleeps on a condition variable shared with every other waiter.     *)
(*                                                                         *)
(* m_operation_mutex protects both queues, the state and the active flag.  *)
(* A critical section is one action; only the runner's section that ends   *)
(* in condition_variable::wait is split (RunnerEval, RunnerBlock), because *)
(* Shutdown requests the stop without taking the mutex.  Every notify_one  *)
(* and notify_all comes after the mutex is released: a step of its own.    *)
(***************************************************************************)
EXTENDS Integers, Sequences, FiniteSets

CONSTANTS
    Others,         \* threads that defer work concurrently with the owner
    BufferCount,    \* command buffers in the ring
    MaxTick,        \* bound: submissions of one behaviour
    MaxOps          \* bound: deferred operations of one behaviour

ASSUME SchedulerAssumption ==
    /\ BufferCount \in Nat /\ BufferCount >= 2
    /\ MaxTick \in Nat /\ MaxOps \in Nat

VARIABLES
    curTick,    \* m_current_tick: the tick the recorded buffer will signal
    gpuDone,    \* the semaphore's counter: the last submission completed
    known,      \* m_gpu_tick: the last completed tick the host has seen
    current,    \* m_current
    slotTick,   \* per command buffer, the tick of its last submission
    pending,    \* m_pending_operations: operation ids with their ticks
    prio,       \* m_priority_operations
    active,     \* m_priority_active_tick while m_priority_active, else 0
    opState,    \* m_operation_state
    stop,       \* the jthread's stop token
    sleepers,   \* threads blocked in m_operation_available
    owes,       \* per thread, the operation it queued and has not notified, or 0
    owner,      \* control state of the owner: pc, tick and continuation
    runner,     \* control state of PriorityOperationsThread
    other,      \* control state of the other threads
    ops         \* history: what was deferred, when, how, and whether it ran

vars == <<curTick, gpuDone, known, current, slotTick, pending, prio, active,
          opState, stop, sleepers, owes, owner, runner, other, ops>>

queueVars == <<pending, prio, active, opState, stop>>
gpuVars == <<curTick, gpuDone, known, current, slotTick>>
cvVars == <<sleepers, owes>>

Threads == {"owner", "runner"} \cup Others

Idle == [pc |-> "idle", tick |-> 0, op |-> 0, cont |-> "idle"]

Init ==
    /\ curTick = 1
    /\ gpuDone = 0
    /\ known = 0
    /\ current = 0
    /\ slotTick = [b \in 0..(BufferCount - 1) |-> 0]
    /\ pending = <<>>
    /\ prio = <<>>
    /\ active = 0
    /\ opState = "Open"
    /\ stop = FALSE
    /\ sleepers = {}
    /\ owes = [t \in Threads |-> 0]
    /\ owner = Idle
    /\ runner = [pc |-> "top", op |-> 0, counter |-> 0]
    /\ other = [t \in Others |-> "idle"]
    /\ ops = <<>>

-----------------------------------------------------------------------------
(* Deferring an operation.                                                 *)

\* Nobody is in a critical section that a step of another thread could split.
MutexFree == runner.pc # "block"

\* Mutant: the tick the host knows to be complete, not the recorded one.
MutDeferTick == known

DeferTick == curTick

Kinds == {"normal", "priority"}

\* The history entry of a new operation: queued operations remember the tick
\* recorded at the time, operations run in place are done at once.  "taken":
\* its notification woke another waiter while the runner slept.
NewOp(kind, inline) ==
    [kind  |-> IF inline THEN "inline" ELSE kind,
     at    |-> curTick,
     ran   |-> inline,
     taken |-> FALSE]

NotifyAll == sleepers' = {}

\* Mutant: the runner is not notified of new work.
MutPush(t, kind, opsBefore) ==
    LET entry == [op |-> Len(opsBefore) + 1, tick |-> DeferTick] IN
    /\ ops' = Append(opsBefore, NewOp(kind, FALSE))
    /\ IF kind = "normal"
       THEN pending' = Append(pending, entry) /\ UNCHANGED <<prio, owes>>
       ELSE prio' = Append(prio, entry) /\ UNCHANGED <<pending, owes>>

\* State Open: thread t queues the operation with the current tick; having
\* released the mutex it will notify the waiters of a priority operation.
Push(t, kind, opsBefore) ==
    LET entry == [op |-> Len(opsBefore) + 1, tick |-> DeferTick] IN
    /\ ops' = Append(opsBefore, NewOp(kind, FALSE))
    /\ IF kind = "normal"
       THEN pending' = Append(pending, entry) /\ UNCHANGED <<prio, owes>>
       ELSE /\ prio' = Append(prio, entry)
            /\ owes' = [owes EXCEPT ![t] = entry.op]
            /\ UNCHANGED pending

\* notify_one wakes some sleeper, if there is one: the runner, or a thread
\* that waits for something else on the same condition variable.
NotifyOne(t) ==
    /\ owes[t] # 0
    /\ owes' = [owes EXCEPT ![t] = 0]
    /\ \/ sleepers = {} /\ UNCHANGED <<sleepers, ops>>
       \/ \E s \in sleepers :
             /\ sleepers' = sleepers \ {s}
             /\ ops' = IF "runner" \in sleepers'
                       THEN [ops EXCEPT ![owes[t]].taken = TRUE] ELSE ops
    /\ UNCHANGED <<gpuVars, queueVars, owner, runner, other>>

\* A callback, run by t, defers one more operation.  Once the state is not
\* Open it is run in place.
CallbackDefer(t, kind, opsBefore) ==
    IF opState = "Open" THEN Push(t, kind, opsBefore)
    ELSE /\ ops' = Append(opsBefore, NewOp(kind, TRUE))
         /\ UNCHANGED <<pending, prio, owes>>

\* RunOperation: thread t runs the callback of o, which may defer another.
RunOperation(t, o) ==
    LET ran == [ops EXCEPT ![o].ran = TRUE] IN
    \/ ops' = ran /\ UNCHANGED <<pending, prio, owes>>
    \/ \E kind \in Kinds : Len(ops) < MaxOps /\ CallbackDefer(t, kind, ran)

OwnerDefer(kind) ==
    /\ owner.pc = "idle" /\ MutexFree
    /\ opState = "Open"
    /\ Len(ops) < MaxOps
    /\ Push("owner", kind, ops)
    /\ UNCHANGED <<gpuVars, active, opState, stop, sleepers, owner, runner, other>>

OtherDefer(t, kind) ==
    /\ other[t] = "idle" /\ MutexFree
    /\ opState = "Open"
    /\ Len(ops) < MaxOps
    /\ Push(t, kind, ops)
    /\ UNCHANGED <<gpuVars, active, opState, stop, sleepers, owner, runner, other>>

\* Once the owner drains, another thread's operation waits for Closed.
OtherDeferWait(t) ==
    /\ other[t] = "idle" /\ MutexFree
    /\ opState # "Open"
    /\ Len(ops) < MaxOps
    /\ other' = [other EXCEPT ![t] = "defer"]
    /\ UNCHANGED <<gpuVars, queueVars, cvVars, owner, runner, ops>>

\* A second Shutdown waits for the first one's end.
OtherShutdown(t) ==
    /\ other[t] = "idle" /\ MutexFree
    /\ opState = "Draining"
    /\ other' = [other EXCEPT ![t] = "shutdown"]
    /\ UNCHANGED <<gpuVars, queueVars, cvVars, owner, runner, ops>>

\* Both test m_operation_state == Closed, and sleep until it is.
OtherProceed(t) ==
    /\ other[t] # "idle" /\ t \notin sleepers /\ MutexFree
    /\ opState = "Closed"
    /\ other' = [other EXCEPT ![t] = "idle"]
    /\ ops' = IF other[t] = "defer" THEN Append(ops, NewOp("normal", TRUE)) ELSE ops
    /\ UNCHANGED <<gpuVars, queueVars, cvVars, owner, runner>>

OtherSleep(t) ==
    /\ other[t] # "idle" /\ t \notin sleepers /\ MutexFree
    /\ opState # "Closed"
    /\ sleepers' = sleepers \cup {t}
    /\ UNCHANGED <<gpuVars, queueVars, owes, owner, runner, other, ops>>

-----------------------------------------------------------------------------
(* The owner: recording, submitting and polling.                           *)

\* SubmitCurrent: the recorded buffer takes the current tick with it.
SubmitCurrent ==
    /\ curTick <= MaxTick
    /\ slotTick' = [slotTick EXCEPT ![current] = curTick]
    /\ curTick' = curTick + 1

\* Mutant: the next buffer of the ring is reused without its fence.
MutFlush ==
    /\ owner.pc = "idle"
    /\ SubmitCurrent
    /\ current' = (current + 1) % BufferCount
    /\ owner' = [Idle EXCEPT !.pc = "refresh"]
    /\ UNCHANGED <<gpuDone, known, queueVars, cvVars, runner, other, ops>>

\* Flush, first half: submit, and turn to the next buffer of the ring.
Flush ==
    /\ owner.pc = "idle"
    /\ SubmitCurrent
    /\ current' = (current + 1) % BufferCount
    /\ owner' = [Idle EXCEPT !.pc = "fence", !.tick = slotTick[current']]
    /\ UNCHANGED <<gpuDone, known, queueVars, cvVars, runner, other, ops>>

\* FinishCurrent, also reached through Wait(CurrentTick): the same buffer is
\* submitted, awaited and recorded again.  So it is by Finish, which waits
\* for the older buffers too.
FinishCurrent ==
    /\ owner.pc = "idle"
    /\ SubmitCurrent
    /\ owner' = [Idle EXCEPT !.pc = "fence", !.tick = curTick]
    /\ UNCHANGED <<gpuDone, known, current, queueVars, cvVars, runner, other, ops>>

\* Wait(tick) for a submitted tick.
WaitTick(tick) ==
    /\ owner.pc = "idle"
    /\ tick < curTick
    /\ owner' = [Idle EXCEPT !.pc = "fence", !.tick = tick]
    /\ UNCHANGED <<gpuVars, queueVars, cvVars, runner, other, ops>>

\* The fence is signalled, or the semaphore reached the tick.
OwnerFence ==
    /\ owner.pc = "fence"
    /\ gpuDone >= owner.tick
    /\ owner' = [owner EXCEPT !.pc = "refresh"]
    /\ UNCHANGED <<gpuVars, queueVars, cvVars, runner, other, ops>>

\* PopPendingOperations begins with one Refresh.
OwnerRefresh ==
    /\ owner.pc = "refresh"
    /\ known' = IF known < gpuDone THEN gpuDone ELSE known
    /\ owner' = [owner EXCEPT !.pc = "pop"]
    /\ UNCHANGED <<curTick, gpuDone, current, slotTick, queueVars, cvVars,
                   runner, other, ops>>

IsFree(tick) == known >= tick

\* One turn of the loop: the front operation is popped if its tick is free ...
OwnerPop ==
    /\ owner.pc = "pop" /\ MutexFree
    /\ pending # <<>> /\ IsFree(Head(pending).tick)
    /\ owner' = [owner EXCEPT !.pc = "run", !.op = Head(pending).op]
    /\ pending' = Tail(pending)
    /\ UNCHANGED <<gpuVars, prio, active, opState, stop, cvVars, runner, other, ops>>

\* ... and run without the mutex.
OwnerRun ==
    /\ owner.pc = "run" /\ MutexFree
    /\ RunOperation("owner", owner.op)
    /\ owner' = [owner EXCEPT !.pc = "pop", !.op = 0]
    /\ UNCHANGED <<gpuVars, active, opState, stop, sleepers, runner, other>>

\* The loop ends, and the buffer is recorded again.
OwnerPopEnd ==
    /\ owner.pc = "pop" /\ MutexFree
    /\ pending # <<>> => ~IsFree(Head(pending).tick)
    /\ owner' = [Idle EXCEPT !.pc = owner.cont]
    /\ UNCHANGED <<gpuVars, queueVars, cvVars, runner, other, ops>>

-----------------------------------------------------------------------------
(* Waiting for the runner.                                                 *)

\* Mutant: only the queue is looked at, not the operation being run.
MutPriorityDone(tick) == ~(prio # <<>> /\ Head(prio).tick <= tick)

\* The predicate of WaitPriorityOperations(tick).
PriorityDone(tick) ==
    /\ ~(active # 0 /\ active <= tick)
    /\ ~(prio # <<>> /\ Head(prio).tick <= tick)

WaitPriorityOperations(tick) ==
    /\ owner.pc = "idle"
    /\ owner' = [Idle EXCEPT !.pc = "waitprio", !.tick = tick]
    /\ UNCHANGED <<gpuVars, queueVars, cvVars, runner, other, ops>>

DrainPriorityOperations ==
    /\ owner.pc = "idle"
    /\ owner' = [Idle EXCEPT !.pc = "drain"]
    /\ UNCHANGED <<gpuVars, queueVars, cvVars, runner, other, ops>>

\* Mutant: an operation being run does not count.
MutDrained == prio = <<>>

Drained == prio = <<>> /\ active = 0

OwnerAwaits ==
    IF owner.pc = "waitprio" THEN PriorityDone(owner.tick) ELSE Drained

OwnerWaitDone ==
    /\ owner.pc \in {"waitprio", "drain", "sd_drain"} /\ "owner" \notin sleepers
    /\ MutexFree
    /\ OwnerAwaits
    /\ owner' = [Idle EXCEPT !.pc = IF owner.pc = "sd_drain" THEN "sd_stop" ELSE "idle"]
    /\ UNCHANGED <<gpuVars, queueVars, cvVars, runner, other, ops>>

OwnerWaitSleep ==
    /\ owner.pc \in {"waitprio", "drain", "sd_drain"} /\ "owner" \notin sleepers
    /\ MutexFree
    /\ ~OwnerAwaits
    /\ sleepers' = sleepers \cup {"owner"}
    /\ UNCHANGED <<gpuVars, queueVars, owes, owner, runner, other, ops>>

-----------------------------------------------------------------------------
(* Shutdown, called by the owner.                                          *)

\* Open -> Draining, then Finish: submit, wait for every buffer's fence and
\* the semaphore, poll once more.
ShutdownBegin ==
    /\ owner.pc = "idle" /\ MutexFree
    /\ opState = "Open"
    /\ opState' = "Draining"
    /\ owner' = [Idle EXCEPT !.pc = "sd_finish"]
    /\ UNCHANGED <<gpuVars, pending, prio, active, stop, cvVars, runner, other, ops>>

ShutdownFinish ==
    /\ owner.pc = "sd_finish"
    /\ slotTick' = [slotTick EXCEPT ![current] = curTick]
    /\ curTick' = curTick + 1
    /\ owner' = [Idle EXCEPT !.pc = "fence", !.tick = curTick, !.cont = "sd_drain"]
    /\ UNCHANGED <<gpuDone, known, current, queueVars, cvVars, runner, other, ops>>

\* request_stop, without the mutex ...
ShutdownStop ==
    /\ owner.pc = "sd_stop"
    /\ stop' = TRUE
    /\ owner' = [Idle EXCEPT !.pc = "sd_notify"]
    /\ UNCHANGED <<gpuVars, pending, prio, active, opState, cvVars, runner, other, ops>>

\* ... then notify_all, without it as well ...
ShutdownNotify ==
    /\ owner.pc = "sd_notify"
    /\ NotifyAll
    /\ owner' = [Idle EXCEPT !.pc = "sd_join"]
    /\ UNCHANGED <<gpuVars, queueVars, owes, runner, other, ops>>

\* ... and join.
ShutdownJoin ==
    /\ owner.pc = "sd_join"
    /\ runner.pc = "exit"
    /\ owner' = [Idle EXCEPT !.pc = "sd_close"]
    /\ UNCHANGED <<gpuVars, queueVars, cvVars, runner, other, ops>>

\* EXIT_IF anything is left (NothingLost), then Closed ...
ShutdownClose ==
    /\ owner.pc = "sd_close"
    /\ opState' = "Closed"
    /\ owner' = [Idle EXCEPT !.pc = "sd_wake"]
    /\ UNCHANGED <<gpuVars, pending, prio, active, stop, cvVars, runner, other, ops>>

\* ... and the threads that wait for it are woken.
ShutdownWake ==
    /\ owner.pc = "sd_wake"
    /\ NotifyAll
    /\ owner' = [Idle EXCEPT !.pc = "closed"]
    /\ UNCHANGED <<gpuVars, queueVars, owes, runner, other, ops>>

-----------------------------------------------------------------------------
(* PriorityOperationsThread.                                               *)

\* The mutex is taken and the predicate of the wait evaluated: stop ends the
\* thread, an operation is popped and becomes the active one.
RunnerExit ==
    /\ runner.pc = "top" /\ stop
    /\ runner' = [runner EXCEPT !.pc = "exit"]
    /\ UNCHANGED <<gpuVars, queueVars, cvVars, owner, other, ops>>

RunnerTake ==
    /\ runner.pc = "top" /\ ~stop
    /\ prio # <<>>
    /\ prio' = Tail(prio)
    /\ active' = Head(prio).tick
    /\ runner' = [runner EXCEPT !.pc = "wait", !.op = Head(prio).op]
    /\ UNCHANGED <<gpuVars, pending, opState, stop, cvVars, owner, other, ops>>

\* Nothing to do: the mutex is still held ...
RunnerEval ==
    /\ runner.pc = "top" /\ ~stop
    /\ prio = <<>>
    /\ runner' = [runner EXCEPT !.pc = "block"]
    /\ UNCHANGED <<gpuVars, queueVars, cvVars, owner, other, ops>>

\* ... until the thread blocks.
RunnerBlock ==
    /\ runner.pc = "block"
    /\ runner' = [runner EXCEPT !.pc = "asleep"]
    /\ sleepers' = sleepers \cup {"runner"}
    /\ UNCHANGED <<gpuVars, queueVars, owes, owner, other, ops>>

RunnerWoken ==
    /\ runner.pc = "asleep" /\ "runner" \notin sleepers
    /\ runner' = [runner EXCEPT !.pc = "top"]
    /\ UNCHANGED <<gpuVars, queueVars, cvVars, owner, other, ops>>

\* MasterSemaphore::Wait returns, with the counter just read by Refresh ...
RunnerWaited ==
    /\ runner.pc = "wait"
    /\ gpuDone >= active
    /\ runner' = [runner EXCEPT !.pc = "refresh", !.counter = gpuDone]
    /\ UNCHANGED <<gpuVars, queueVars, cvVars, owner, other, ops>>

\* ... and published by the compare-exchange loop.
RunnerRefresh ==
    /\ runner.pc = "refresh"
    /\ known' = IF known < runner.counter THEN runner.counter ELSE known
    /\ runner' = [runner EXCEPT !.pc = "run", !.counter = 0]
    /\ UNCHANGED <<curTick, gpuDone, current, slotTick, queueVars, cvVars,
                   owner, other, ops>>

\* The callback runs, unless a stop was requested meanwhile: that would drop
\* the operation.
RunnerRun ==
    /\ runner.pc = "run"
    /\ IF stop THEN UNCHANGED <<pending, prio, owes, ops>>
       ELSE RunOperation("runner", runner.op)
    /\ runner' = [runner EXCEPT !.pc = "done"]
    /\ UNCHANGED <<gpuVars, active, opState, stop, sleepers, owner, other>>

RunnerDone ==
    /\ runner.pc = "done"
    /\ active' = 0
    /\ runner' = [runner EXCEPT !.pc = "notify", !.op = 0]
    /\ UNCHANGED <<gpuVars, pending, prio, opState, stop, cvVars, owner, other, ops>>

RunnerNotify ==
    /\ runner.pc = "notify"
    /\ NotifyAll
    /\ runner' = [runner EXCEPT !.pc = "top"]
    /\ UNCHANGED <<gpuVars, queueVars, owes, owner, other, ops>>

-----------------------------------------------------------------------------
\* The device completes the submissions in order.
GpuComplete ==
    /\ gpuDone < curTick - 1
    /\ gpuDone' = gpuDone + 1
    /\ UNCHANGED <<curTick, known, current, slotTick, queueVars, cvVars, owner,
                   runner, other, ops>>

\* A thread that owes a notification does nothing else before it.
OwnerStep ==
    /\ owes["owner"] = 0
    /\ \/ OwnerFence \/ OwnerRefresh \/ OwnerPop \/ OwnerRun \/ OwnerPopEnd
       \/ OwnerWaitDone \/ OwnerWaitSleep
       \/ ShutdownFinish \/ ShutdownStop \/ ShutdownNotify \/ ShutdownJoin
       \/ ShutdownClose \/ ShutdownWake

OwnerCall ==
    /\ owes["owner"] = 0
    /\ \/ \E kind \in Kinds : OwnerDefer(kind)
       \/ Flush \/ FinishCurrent
       \/ \E tick \in 1..(MaxTick + 1) : WaitTick(tick)
       \/ \E tick \in 1..(MaxTick + 1) : tick < curTick /\ WaitPriorityOperations(tick)
       \/ DrainPriorityOperations
       \/ ShutdownBegin

OtherStep(t) ==
    /\ owes[t] = 0
    /\ \/ \E kind \in Kinds : OtherDefer(t, kind)
       \/ OtherDeferWait(t) \/ OtherShutdown(t) \/ OtherProceed(t) \/ OtherSleep(t)

RunnerStep ==
    /\ owes["runner"] = 0
    /\ \/ RunnerExit \/ RunnerTake \/ RunnerEval \/ RunnerBlock \/ RunnerWoken
       \/ RunnerWaited \/ RunnerRefresh \/ RunnerRun \/ RunnerDone \/ RunnerNotify

Next ==
    \/ OwnerStep \/ OwnerCall
    \/ \E t \in Others : OtherStep(t)
    \/ RunnerStep
    \/ \E t \in Threads : NotifyOne(t)
    \/ GpuComplete

Spec == Init /\ [][Next]_vars

\* Threads that can run do run, a thread inside a call finishes it, and the
\* device completes what was submitted.  Which calls are made is free.
Fairness ==
    /\ WF_vars(OwnerStep) /\ WF_vars(RunnerStep) /\ WF_vars(GpuComplete)
    /\ \A t \in Others : WF_vars(OtherProceed(t)) /\ WF_vars(OtherSleep(t))
    /\ \A t \in Threads : WF_vars(NotifyOne(t))

FairSpec == Spec /\ Fairness

-----------------------------------------------------------------------------
(* Properties.                                                             *)

OwnerPcs == {"idle", "fence", "refresh", "pop", "run", "waitprio", "drain",
             "sd_finish", "sd_drain", "sd_stop", "sd_notify", "sd_join",
             "sd_close", "sd_wake", "closed"}
RunnerPcs == {"top", "block", "asleep", "wait", "refresh", "run", "done", "notify", "exit"}
Entries == [op : 1..Len(ops), tick : 0..(MaxTick + 2)]

\* Types; the host never knows of a completion before it happens, and the
\* active flag is set exactly while the runner has an operation.  The recorder
\* is never more than the ring ahead of the GPU: the buffer it records into is
\* not being executed.
TypeOK ==
    /\ curTick \in 1..(MaxTick + 2)
    /\ gpuDone \in 0..(curTick - 1)
    /\ known \in 0..gpuDone
    /\ current \in 0..(BufferCount - 1)
    /\ slotTick \in [0..(BufferCount - 1) -> 0..(curTick - 1)]
    /\ pending \in Seq(Entries) /\ prio \in Seq(Entries)
    /\ opState \in {"Open", "Draining", "Closed"}
    /\ stop \in BOOLEAN
    /\ sleepers \subseteq Threads
    /\ owes \in [Threads -> 0..Len(ops)]
    /\ other \in [Others -> {"idle", "defer", "shutdown"}]
    /\ owner.pc \in OwnerPcs /\ runner.pc \in RunnerPcs
    /\ active # 0 <=> runner.pc \in {"wait", "refresh", "run", "done"}
    /\ owner.pc = "idle" => /\ slotTick[current] <= gpuDone
                             /\ curTick - 1 - gpuDone < BufferCount

\* A queued operation runs only after the GPU completed everything recorded
\* before it was deferred, whichever thread deferred it and however the
\* submission raced it.
OpsAfterCompletion ==
    \A o \in 1..Len(ops) :
        (ops[o].ran /\ ops[o].kind # "inline") => gpuDone >= ops[o].at

\* When WaitPriorityOperations(tick) returns, every priority operation
\* deferred at or before that tick has run: looking at the active one and at
\* the front of the queue is enough.
PriorityWaitCovers ==
    [][(owner.pc = "waitprio" /\ owner'.pc = "idle") =>
          \A o \in 1..Len(ops) :
              (ops[o].kind = "priority" /\ ops[o].at <= owner.tick) => ops[o].ran]_vars

\* Shutdown loses no work: before it closes both queues are empty and the
\* runner is idle, as it asserts, also when callbacks and other threads keep
\* deferring; and when it is closed every operation ever deferred has run.
NothingLost ==
    /\ owner.pc = "sd_close" => pending = <<>> /\ prio = <<>> /\ active = 0
    /\ opState = "Closed" => \A o \in 1..Len(ops) : ops[o].ran

\* Every priority operation whose submission is made is run, except when its
\* own notify_one woke a thread that waits for something else on the same
\* condition variable while the runner slept: no wake-up is lost otherwise,
\* whoever defers and however the notifications are delayed.
PriorityOpsRun ==
    \A o \in 1..MaxOps :
        (o <= Len(ops) /\ ops[o].kind = "priority" /\ ops[o].at < curTick)
            ~> (o <= Len(ops) /\ (ops[o].ran \/ ops[o].taken))

\* Shutdown, once begun, completes.
ShutdownCompletes == (opState = "Draining") ~> (opState = "Closed")

=============================================================================
