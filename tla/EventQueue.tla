----------------------------- MODULE EventQueue -----------------------------
(***************************************************************************)
(* A kernel event queue of src/src/kernel/eventQueue.cpp, from its entry   *)
(* in the registry of handles to its deletion, and the end-of-pipe (EOP)   *)
(* registrations the renderer keeps of it (renderContext.cpp, sync.cpp).   *)
(*                                                                         *)
(* A kernel call first pins the queue, which succeeds while its handle is  *)
(* in g_equeues, and then runs a method under m_mutex: two steps, between  *)
(* which the queue may be deleted.  A method is one step.  WaitForEvents   *)
(* scans the events under the mutex and sleeps on the condition variable;  *)
(* every sleep is bounded (CondVar::Wait returns after a slice of 10 ms    *)
(* once the signal poll callback is installed, WaitFor after its time), so *)
(* a sleeper may wake at any moment and CondVar::Signal only hurries it.   *)
(*                                                                         *)
(* The payload of a trigger is a stamp.  The kinds of events differ in     *)
(* their trigger and reset functions:                                      *)
(*   Level   KernelAddUserEvent: stays triggered until it is deleted       *)
(*   Edge    KernelAddUserEventEdge: delivery resets it                    *)
(*   Fd      KernelAddFdEvent: added, then triggered at once; as an edge   *)
(*   Timer   KernelAddHRTimerEvent: a deadline, delivered once and erased  *)
(*   Queued  KernelAddAmprEvent: triggers queue up behind the current one  *)
(*   Eop     AddEqEvent: as Queued, and listed with the renderer           *)
(***************************************************************************)
EXTENDS Integers, Sequences, FiniteSets, SequencesExt, FiniteSetsExt

CONSTANTS
    Threads,    \* guest threads
    Events,     \* the <ident, filter> pairs in use
    Mixes,      \* what the events may be: functions from Events to Kinds
    AgcEvent,   \* the identifier AGC_USER_INTERRUPT_EVENT, if it is in use
    Nums,       \* the num arguments of KernelWaitEqueue
    MaxStamp    \* bound: the number of triggers

Kinds == {"Level", "Edge", "Fd", "Timer", "Queued", "Eop"}

\* KernelAddUserEvent and KernelAddUserEventEdge share the user filter.
UserKinds == {"Level", "Edge"}

Waits == {"Poll", "Timed", "Forever"}

ASSUME EventAssumption ==
    /\ Mixes \subseteq [Events -> Kinds] /\ Mixes # {}
    /\ Nums \subseteq Nat \ {0}
    /\ MaxStamp \in Nat

VARIABLES
    kind,       \* the kind of each event, fixed by the program that runs
    registry,   \* the handle is in g_equeues
    closed,     \* m_closed
    order,      \* m_events: the registered events in the order of addition
    triggered,  \* KernelEqueueEvent.triggered
    current,    \* KernelEqueueEvent.event: its stamp
    pending,    \* KernelEqueueEvent.pending_events
    deadline,   \* deadline_ns: "None", "Running", or "Passed"
    eopList,    \* m_eop_eqs: the events of this queue the renderer lists
    call,       \* what each guest thread is doing
    gpu,        \* what the GPU thread is doing in TriggerEopEvent
    ret,        \* the result of each thread's last KernelWaitEqueue
    stamp,      \* the number of triggers so far
    sent, got   \* history: stamps sent to, and received from, a registration

eventVars == <<order, triggered, current, pending, deadline, sent, got>>

vars == <<kind, registry, closed, eventVars, eopList, call, gpu, ret, stamp>>

Idle == [at |-> "Idle"]

Init ==
    /\ kind \in Mixes
    /\ registry = TRUE /\ closed = FALSE
    /\ order = <<>>
    /\ triggered = [e \in Events |-> FALSE]
    /\ current = [e \in Events |-> 0]
    /\ pending = [e \in Events |-> <<>>]
    /\ deadline = [e \in Events |-> "None"]
    /\ eopList = {}
    /\ call = [t \in Threads |-> Idle]
    /\ gpu = [at |-> "Idle", todo |-> {}]
    /\ ret = [t \in Threads |-> "None"]
    /\ stamp = 0
    /\ sent = [e \in Events |-> <<>>] /\ got = [e \in Events |-> <<>>]

-----------------------------------------------------------------------------
Registered(e) == Contains(order, e)

\* The events of S leave m_events; the others stay, in the order they had.
Unlist(S) ==
    LET kept == {e \in Events : Registered(e) /\ e \notin S} IN
    /\ order' \in SeqOf(kept, Len(order))
    /\ \A e \in kept : Contains(order', e)
    /\ \A i, j \in 1..Len(order') :
          i < j => \E a, b \in 1..Len(order) :
                      a < b /\ order[a] = order'[i] /\ order[b] = order'[j]

\* The events of S are erased from m_events, and their state with them.
Erase(S) ==
    /\ Unlist(S)
    /\ triggered' = [e \in Events |-> triggered[e] /\ e \notin S]
    /\ current' = [e \in Events |-> IF e \in S THEN 0 ELSE current[e]]
    /\ pending' = [e \in Events |-> IF e \in S THEN <<>> ELSE pending[e]]
    /\ deadline' = [e \in Events |-> IF e \in S THEN "None" ELSE deadline[e]]
    /\ sent' = [e \in Events |-> IF e \in S THEN <<>> ELSE sent[e]]
    /\ got' = [e \in Events |-> IF e \in S THEN <<>> ELSE got[e]]

\* Every trigger of such an event is delivered as a result of its own.
Queues(e) == kind[e] \in {"Queued", "Eop"}

Goto(t, c) == call' = [call EXCEPT ![t] = c]

\* KernelPinEqueue at the start of a kernel call.
Pin(t, c) ==
    /\ registry
    /\ Goto(t, c)
    /\ UNCHANGED <<kind, registry, closed, eventVars, eopList, gpu, ret, stamp>>

Begin(t) ==
    /\ call[t].at = "Idle"
    /\ \/ \E e \in Events, at \in {"Add", "Delete"} : Pin(t, [at |-> at, ev |-> e])
       \/ \E e \in Events :
              kind[e] \in {"Level", "Edge", "Queued"} /\ Pin(t, [at |-> "Trigger", ev |-> e])
       \/ \E n \in Nums, w \in Waits : Pin(t, [at |-> "Scan", num |-> n, wait |-> w])

-----------------------------------------------------------------------------
(***************************************************************************)
(* AddEvent.  An event that exists keeps its state and gets the new        *)
(* deadline.  AddEqEvent goes on to list an EOP event with the renderer,   *)
(* and KernelAddFdEvent to trigger the event it added.                     *)
(***************************************************************************)
AfterAdd(e) ==
    CASE kind[e] = "Eop" -> [at |-> "AddEop", ev |-> e]
      [] kind[e] = "Fd"  -> [at |-> "FdReady", ev |-> e]
      [] OTHER           -> Idle

\* Mutant: an event that exists is added again.
MutAddEvent(t) ==
    LET e == call[t].ev IN
    /\ call[t].at = "Add"
    /\ IF closed
       THEN Goto(t, Idle) /\ UNCHANGED eventVars
       ELSE /\ Goto(t, AfterAdd(e))
            /\ deadline' = [deadline EXCEPT ![e] =
                                IF kind[e] = "Timer" THEN "Running" ELSE "None"]
            /\ order' = Append(order, e)
            /\ UNCHANGED <<triggered, current, pending, sent, got>>
    /\ UNCHANGED <<kind, registry, closed, eopList, gpu, ret, stamp>>

AddEvent(t) ==
    LET e == call[t].ev IN
    /\ call[t].at = "Add"
    /\ IF closed
       THEN Goto(t, Idle) /\ UNCHANGED eventVars
       ELSE /\ Goto(t, AfterAdd(e))
            /\ deadline' = [deadline EXCEPT ![e] =
                                IF kind[e] = "Timer" THEN "Running" ELSE "None"]
            /\ order' = IF Registered(e) THEN order ELSE Append(order, e)
            /\ UNCHANGED <<triggered, current, pending, sent, got>>
    /\ UNCHANGED <<kind, registry, closed, eopList, gpu, ret, stamp>>

\* AddEopEq pins the queue once more, and lists the event under m_eop_mutex.
AddEopPin(t) ==
    /\ call[t].at = "AddEop"
    /\ Goto(t, IF registry THEN [call[t] EXCEPT !.at = "Push"] ELSE Idle)
    /\ UNCHANGED <<kind, registry, closed, eventVars, eopList, gpu, ret, stamp>>

AddEopPush(t) ==
    /\ call[t].at = "Push"
    /\ Goto(t, Idle)
    /\ eopList' = eopList \cup {call[t].ev}
    /\ UNCHANGED <<kind, registry, closed, eventVars, gpu, ret, stamp>>

\* The KernelTriggerEvent of KernelAddFdEvent pins the queue for itself.
FdReady(t) ==
    /\ call[t].at = "FdReady"
    /\ Goto(t, IF registry THEN [call[t] EXCEPT !.at = "Trigger"] ELSE Idle)
    /\ UNCHANGED <<kind, registry, closed, eventVars, eopList, gpu, ret, stamp>>

-----------------------------------------------------------------------------
(***************************************************************************)
(* TriggerEvent and the trigger functions.                                 *)
(***************************************************************************)

\* Mutant: a trigger overwrites the one not yet delivered.
MutTrigger(e, s) ==
    /\ triggered' = [triggered EXCEPT ![e] = TRUE]
    /\ current' = [current EXCEPT ![e] = s]
    /\ sent' = [sent EXCEPT ![e] = IF Queues(e) THEN Append(@, s) ELSE @]
    /\ UNCHANGED <<order, pending, deadline, got>>

Trigger(e, s) ==
    /\ triggered' = [triggered EXCEPT ![e] = TRUE]
    /\ IF Queues(e) /\ triggered[e]
       THEN pending' = [pending EXCEPT ![e] = Append(@, s)] /\ UNCHANGED current
       ELSE current' = [current EXCEPT ![e] = s] /\ UNCHANGED pending
    /\ sent' = [sent EXCEPT ![e] = IF Queues(e) THEN Append(@, s) ELSE @]
    /\ UNCHANGED <<order, deadline, got>>

TriggerEvent(t) ==
    /\ call[t].at = "Trigger"
    /\ stamp < MaxStamp
    /\ Goto(t, Idle)
    /\ stamp' = stamp + 1
    /\ IF ~closed /\ Registered(call[t].ev)
       THEN Trigger(call[t].ev, stamp')
       ELSE UNCHANGED eventVars
    /\ UNCHANGED <<kind, registry, closed, eopList, gpu, ret>>

\* DeleteEvent: the delete function of an EOP event unlists it.
DeleteEvent(t) ==
    LET e == call[t].ev IN
    /\ call[t].at = "Delete"
    /\ Goto(t, Idle)
    /\ Erase({e})
    /\ eopList' = IF Registered(e) THEN eopList \ {e} ELSE eopList
    /\ UNCHANGED <<kind, registry, closed, gpu, ret, stamp>>

\* KernelDeleteEqueue takes the handle out of the registry and closes the
\* queue: all events are deleted and all sleepers wake.
DeleteEqueue(t) ==
    /\ call[t].at = "Idle" /\ registry
    /\ registry' = FALSE
    /\ Goto(t, [at |-> "Close"])
    /\ UNCHANGED <<kind, closed, eventVars, eopList, gpu, ret, stamp>>

Close(t) ==
    /\ call[t].at = "Close"
    /\ Goto(t, Idle)
    /\ closed' = TRUE
    /\ eopList' = {e \in eopList : ~Registered(e)}
    /\ Erase(Events)
    /\ UNCHANGED <<kind, registry, gpu, ret, stamp>>

-----------------------------------------------------------------------------
(***************************************************************************)
(* KernelWaitEqueue: GetTriggeredEvents, alone for a zero timeout, and in  *)
(* the loop of WaitForEvents otherwise.                                    *)
(***************************************************************************)

\* The clock reaches the deadline of a timer.
TimerPasses(e) ==
    /\ Registered(e) /\ deadline[e] = "Running"
    /\ deadline' = [deadline EXCEPT ![e] = "Passed"]
    /\ UNCHANGED <<kind, registry, closed, order, triggered, current, pending, sent,
                   got, eopList, call, gpu, ret, stamp>>

\* Mutant: expired timers are not looked for.
MutUp(e) == Registered(e) /\ triggered[e]

\* TriggerExpiredTimers comes first.
Up(e) == Registered(e) /\ (triggered[e] \/ deadline[e] = "Passed")

\* What event e can deliver in one scan: a persistent event represents one
\* result, a queue all it holds.
Available(e) ==
    IF ~Up(e) THEN <<>> ELSE IF Queues(e) THEN <<current[e]>> \o pending[e]
    ELSE <<current[e]>>

\* How many results the events before the i-th have.
Before(i) ==
    FoldSeq(LAMBDA e, n : n + Len(Available(e)), 0, SubSeq(order, 1, i - 1))

\* How many results the scan takes of the i-th event: the list is scanned in
\* order until num results are found.
Taken(i, num) ==
    Cardinality({k \in 1..Len(Available(order[i])) : Before(i) + k <= num})

\* The results each event contributes to a scan, and what it has left.
Takes(num) ==
    [e \in Events |->
        LET at == {i \in 1..Len(order) : order[i] = e}
        IN  IF at = {} THEN 0 ELSE Taken(Min(at), num)]

Rest(e, n) == SubSeq(Available(e), n + 1, Len(Available(e)))

\* Some event is up.  A timer that is delivered is erased, a level event
\* stays as it is, and the others are reset to what they have left (a file
\* descriptor's reset keeps the data).
Scan(t) ==
    LET takes == Takes(call[t].num)
        fired == {e \in Events : kind[e] = "Timer" /\ takes[e] > 0}
        reset == {e \in Events : kind[e] \notin {"Timer", "Level"} /\ takes[e] > 0}
    IN
    /\ call[t].at \in {"Scan", "Rescan"}
    /\ ~closed
    /\ \E e \in Events : Up(e)
    /\ Goto(t, Idle)
    /\ ret' = [ret EXCEPT ![t] = "Events"]
    /\ Unlist(fired)
    /\ triggered' = [e \in Events |->
            CASE e \in fired -> FALSE
              [] e \in reset -> Rest(e, takes[e]) # <<>>
              [] OTHER       -> Up(e)]
    /\ current' = [e \in Events |->
            IF e \notin reset \/ kind[e] = "Fd" THEN current[e]
            ELSE IF Rest(e, takes[e]) = <<>> THEN 0 ELSE Head(Rest(e, takes[e]))]
    /\ pending' = [e \in Events |->
            IF e \notin reset \/ pending[e] = <<>> THEN pending[e]
            ELSE SubSeq(pending[e], takes[e] + 1, Len(pending[e]))]
    /\ deadline' = [e \in Events |-> IF e \in fired THEN "None" ELSE deadline[e]]
    /\ got' = [e \in Events |->
            IF Queues(e) THEN got[e] \o SubSeq(Available(e), 1, takes[e]) ELSE got[e]]
    /\ UNCHANGED <<kind, registry, closed, sent, eopList, gpu, stamp>>

\* Mutant: only the entry of WaitForEvents looks at m_closed.
MutScanClosed(t) ==
    /\ call[t].at \in {"Scan", "Rescan"}
    /\ closed
    /\ IF call[t].at = "Rescan" /\ call[t].wait = "Forever"
       THEN Goto(t, [call[t] EXCEPT !.at = "Asleep"]) /\ UNCHANGED ret
       ELSE Goto(t, Idle) /\ ret' = [ret EXCEPT ![t] = "Closed"]
    /\ UNCHANGED <<kind, registry, closed, eventVars, eopList, gpu, stamp>>

\* The queue was closed: EBADF, at once and also for those woken by it.
ScanClosed(t) ==
    /\ call[t].at \in {"Scan", "Rescan"}
    /\ closed
    /\ Goto(t, Idle)
    /\ ret' = [ret EXCEPT ![t] = "Closed"]
    /\ UNCHANGED <<kind, registry, closed, eventVars, eopList, gpu, stamp>>

\* Nothing is up: a poll gives up, and so does a wait whose time has passed,
\* which it cannot have on the first scan.
ScanTimedOut(t) ==
    /\ call[t].at \in {"Scan", "Rescan"}
    /\ ~closed
    /\ ~\E e \in Events : Up(e)
    /\ call[t].wait = "Poll" \/ (call[t].wait = "Timed" /\ call[t].at = "Rescan")
    /\ Goto(t, Idle)
    /\ ret' = [ret EXCEPT ![t] = "TimedOut"]
    /\ UNCHANGED <<kind, registry, closed, eventVars, eopList, gpu, stamp>>

Sleep(t) ==
    /\ call[t].at \in {"Scan", "Rescan"}
    /\ ~closed
    /\ ~\E e \in Events : Up(e)
    /\ call[t].wait # "Poll"
    /\ Goto(t, [call[t] EXCEPT !.at = "Asleep"])
    /\ UNCHANGED <<kind, registry, closed, eventVars, eopList, gpu, ret, stamp>>

Wake(t) ==
    /\ call[t].at = "Asleep"
    /\ Goto(t, [call[t] EXCEPT !.at = "Rescan"])
    /\ UNCHANGED <<kind, registry, closed, eventVars, eopList, gpu, ret, stamp>>

-----------------------------------------------------------------------------
(***************************************************************************)
(* RenderContext::TriggerEopEvent, on the GPU thread: it copies the list   *)
(* of registrations, triggers each, and unlists the ones whose queue or    *)
(* event is gone; then it triggers the AGC user event on every queue.      *)
(***************************************************************************)
GpuBegin ==
    /\ gpu.at = "Idle"
    /\ stamp < MaxStamp
    /\ stamp' = stamp + 1
    /\ gpu' = [at |-> "Next", todo |-> eopList]
    /\ UNCHANGED <<kind, registry, closed, eventVars, eopList, call, ret>>

GpuPin(e) ==
    /\ gpu.at = "Next" /\ e \in gpu.todo
    /\ gpu' = [at |-> IF registry THEN "Trigger" ELSE "Prune",
               todo |-> gpu.todo \ {e}, ev |-> e, stamp |-> stamp]
    /\ UNCHANGED <<kind, registry, closed, eventVars, eopList, call, ret, stamp>>

GpuTrigger ==
    LET live == ~closed /\ Registered(gpu.ev) IN
    /\ gpu.at = "Trigger"
    /\ gpu' = [gpu EXCEPT !.at = IF live THEN "Next" ELSE "Prune"]
    /\ IF live THEN Trigger(gpu.ev, gpu.stamp) ELSE UNCHANGED eventVars
    /\ UNCHANGED <<kind, registry, closed, eopList, call, ret, stamp>>

GpuPrune ==
    /\ gpu.at = "Prune"
    /\ eopList' = eopList \ {gpu.ev}
    /\ gpu' = [gpu EXCEPT !.at = "Next"]
    /\ UNCHANGED <<kind, registry, closed, eventVars, call, ret, stamp>>

\* KernelTriggerUserEventForAll pins every queue of the registry first.
GpuPinAll ==
    /\ gpu.at = "Next" /\ gpu.todo = {}
    /\ gpu' = [at |-> IF registry THEN "All" ELSE "Idle", todo |-> {}]
    /\ UNCHANGED <<kind, registry, closed, eventVars, eopList, call, ret, stamp>>

GpuTriggerAll ==
    /\ gpu.at = "All"
    /\ gpu' = [gpu EXCEPT !.at = "Idle"]
    /\ IF ~closed /\ Registered(AgcEvent) /\ kind[AgcEvent] \in UserKinds
       THEN Trigger(AgcEvent, stamp)
       ELSE UNCHANGED eventVars
    /\ UNCHANGED <<kind, registry, closed, eopList, call, ret, stamp>>

-----------------------------------------------------------------------------
Method(t) ==
    \/ AddEvent(t) \/ AddEopPin(t) \/ AddEopPush(t) \/ FdReady(t)
    \/ TriggerEvent(t) \/ DeleteEvent(t) \/ Close(t)

Waiting(t) == Scan(t) \/ ScanClosed(t) \/ ScanTimedOut(t) \/ Sleep(t) \/ Wake(t)

Gpu ==
    \/ GpuBegin \/ (\E e \in Events : GpuPin(e)) \/ GpuTrigger \/ GpuPrune
    \/ GpuPinAll \/ GpuTriggerAll

Next ==
    \/ \E t \in Threads : Begin(t) \/ DeleteEqueue(t) \/ Method(t) \/ Waiting(t)
    \/ \E e \in Events : TimerPasses(e)
    \/ Gpu

Spec == Init /\ [][Next]_vars

\* A thread inside a call goes on: methods end, and every sleep is bounded.
FairSpec ==
    /\ Spec
    /\ \A t \in Threads : WF_vars(Method(t)) /\ WF_vars(Waiting(t))

-----------------------------------------------------------------------------
\* Every variable has its type; no event is registered twice.
TypeOK ==
    /\ kind \in Mixes
    /\ registry \in BOOLEAN /\ closed \in BOOLEAN
    /\ order \in Seq(Events) /\ IsInjective(order)
    /\ triggered \in [Events -> BOOLEAN]
    /\ current \in [Events -> 0..MaxStamp]
    /\ pending \in [Events -> Seq(1..MaxStamp)]
    /\ deadline \in [Events -> {"None", "Running", "Passed"}]
    /\ eopList \subseteq Events
    /\ ret \in [Threads -> {"None", "Events", "TimedOut", "Closed"}]
    /\ stamp \in 0..MaxStamp

\* Every trigger of a queueing event is delivered once and in order, to
\* whichever waiters come, however few results they ask for: what was sent
\* is what was received, then what is current, then what is pending
\* (AmprEventTriggerFunc, EopEventTriggerFunc, GetTriggeredEvents).
ExactlyOnce ==
    \A e \in Events :
        Queues(e) /\ Registered(e) => sent[e] = got[e] \o Available(e)

\* Whatever becomes due while a thread sleeps is noticed, a timer that passes
\* with nobody to signal it too: the sleeper returns, unless another waiter
\* takes the events first (TriggerExpiredTimers, WaitForEvents).
SleeperNotices ==
    \A t \in Threads :
        LET due == \E e \in Events :
                       Registered(e) /\ (triggered[e] \/ deadline[e] = "Passed")
        IN  call[t].at = "Asleep" /\ due ~> call[t].at = "Idle" \/ ~due

\* Deleting the queue releases everyone who waits on it, those without a
\* timeout too (KernelEqueuePrivate::Close).
WaitersLeave ==
    \A t \in Threads : closed /\ call[t].at = "Asleep" ~> call[t].at = "Idle"

\* While the queue lives and nobody is in the middle of adding or triggering
\* an EOP event, every one that is registered is listed with the renderer,
\* so that the next end of pipe reaches it (AddEqEvent, TriggerEopEvent).
EopListed ==
    /\ registry
    /\ gpu.at = "Idle"
    /\ \A t \in Threads : call[t].at \notin {"AddEop", "Push"}
    => \A e \in Events : kind[e] = "Eop" /\ Registered(e) => e \in eopList

=============================================================================
