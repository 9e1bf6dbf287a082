------------------------------ MODULE VideoOut ------------------------------
(***************************************************************************)
(* The video output port and its flip queue (videoOut.cpp).  Guest threads *)
(* open and close the port, register buffers and submit flips; the GPU     *)
(* thread records the frame of a flip, for the flips of guest command      *)
(* buffers as well; the priority thread completes those when the GPU has;  *)
(* and the present thread shows the front request once per vertical blank. *)
(*                                                                         *)
(* The driver's mutex is held by Close from end to end and by what looks a *)
(* port up; the port's mutex (cfg) by the present thread while it shows a  *)
(* frame; the queue's mutex never across a step.  There is one port        *)
(* (VIDEO_OUT_NUM_MAX is 2 and port 0 is not handed out).                  *)
(***************************************************************************)
EXTENDS Integers, Sequences, SequencesExt, FiniteSets

CONSTANTS
    Guests,         \* guest threads
    Buffers,        \* buffer indexes, each registered as a set of its own
    Blank,          \* VIDEO_OUT_BUFFER_INDEX_BLANK
    Capacity,       \* VIDEO_OUT_FLIP_QUEUE_CAPACITY
    MaxRequests,    \* bound on m_next_request_id
    MaxPortChanges, \* bound on the generation
    MaxWork         \* bound on the two together

ASSUME VideoOutAssumption ==
    /\ Capacity \in Nat \ {0} /\ MaxRequests \in Nat /\ MaxPortChanges \in Nat
    /\ MaxWork \in Nat
    /\ Blank \notin Buffers

VARIABLES
    port,       \* VideoOutConfig
    registered, \* the buffers that belong to an occupied set
    requests,   \* m_requests
    cpuRequests, cancelled,     \* lists that are only searched: sets
    processing, \* m_processing
    nextId, nextOrder,
    guest,      \* what each guest thread is doing
    gpu,        \* what the GPU thread is doing
    jobs,       \* the flip preparations submitted to the GPU thread
    eops,       \* the end-of-pipe completions of flips, in order
    priority,   \* the request the priority thread is completing
    present,    \* where the present thread is, and with what
    lastOrder,  \* request_order of the last flip shown
    ended       \* "Saturated", "Rejected", "StaleRate" or "Broken": a check has
                \* ended the program

queueVars == <<requests, cpuRequests, cancelled, processing, nextId, nextOrder>>
gpuVars == <<gpu, jobs, eops>>
videoVars == <<port, registered, queueVars, guest, gpuVars, priority, present, lastOrder, ended>>

Indexes == Buffers \cup {Blank}
NoId == 0
IdleGuest == [pc |-> "Idle", call |-> "None", arg |-> Blank, id |-> NoId]
IdleGpu == [pc |-> "Idle", id |-> NoId, source |-> "Cpu", index |-> Blank]

VideoInit ==
    /\ port = [opened |-> FALSE, closing |-> FALSE, gen |-> 0, rate |-> 0, vblank |-> 0,
               shown |-> FALSE, current |-> Blank, pending |-> 0, gc |-> 0]
    /\ registered = {}
    /\ requests = <<>> /\ cpuRequests = {} /\ cancelled = {}
    /\ processing = FALSE /\ nextId = 1 /\ nextOrder = 1
    /\ guest = [g \in Guests |-> IdleGuest]
    /\ gpu = IdleGpu /\ jobs = <<>> /\ eops = <<>> /\ priority = NoId
    /\ present = [pc |-> "Vblank", id |-> NoId]
    /\ lastOrder = 0 /\ ended = "No"

Running == ended = "No"
CfgFree == present.pc # "Presenting"
DriverFree == \A g \in Guests : guest[g].pc \notin {"Cancel", "CancelEnd"}
Total == Len(requests) + Cardinality(cpuRequests)

Listed == ToSet(requests)
Has(S, id) == \E r \in S : r.id = id
The(S, id) == CHOOSE r \in S : r.id = id
Without(S, id) == {r \in S : r.id # id}
At(id) == CHOOSE k \in DOMAIN requests : requests[k].id = id

\* FlipRequestOrderPrecedes, and the stable sort of m_requests by it: flips
\* the GPU has not executed have order zero and stay behind.
Precedes(a, b) == a # 0 /\ (b = 0 \/ a < b)
Stable(s) ==
    {f \in [DOMAIN s -> DOMAIN s] :
        /\ \A k \in DOMAIN s : \E i \in DOMAIN s : f[i] = k
        /\ \A i, j \in DOMAIN s : i < j =>
              \/ Precedes(s[f[i]].order, s[f[j]].order)
              \/ ~Precedes(s[f[j]].order, s[f[i]].order) /\ f[i] < f[j]}
Sort(s) == \E f \in Stable(s) : requests' = [i \in DOMAIN s |-> s[f[i]]]

InBounds == nextId + port.gen <= MaxWork
MayReserve == nextId <= MaxRequests /\ InBounds

Break == ended' = "Broken"

-----------------------------------------------------------------------------
(***************************************************************************)
(* Guest threads.  A call looks the port up and then locks it: the port    *)
(* may have been closed, and opened again, in between.                     *)
(***************************************************************************)
Get(g, call, arg) ==
    /\ Running /\ guest[g].pc = "Idle" /\ DriverFree /\ port.opened
    /\ guest' = [guest EXCEPT ![g] = [IdleGuest EXCEPT !.pc = "Got", !.call = call, !.arg = arg]]
    /\ UNCHANGED <<port, registered, queueVars, gpuVars, priority, present, lastOrder, ended>>

Locked(g, call) == Running /\ guest[g].pc = "Got" /\ guest[g].call = call /\ CfgFree
Done(g) == guest' = [guest EXCEPT ![g] = IdleGuest]

\* VideoOutSetFlipRate: does not look at the port again.
SetFlipRate(g) ==
    /\ Locked(g, "Rate")
    /\ port' = [port EXCEPT !.rate = 1 - @]
    /\ Done(g)
    /\ UNCHANGED <<registered, queueVars, gpuVars, priority, present, lastOrder, ended>>

RegisterBuffers(g) ==
    /\ Locked(g, "Register")
    /\ registered' = IF port.closing THEN registered ELSE registered \cup {guest[g].arg}
    /\ Done(g)
    /\ UNCHANGED <<port, queueVars, gpuVars, priority, present, lastOrder, ended>>

Pending(i) == \E r \in Listed \cup cpuRequests : r.index = i

\* Mutant: only prepared requests count as a use of the set.
MutInUse(i) == port.current = i \/ \E r \in Listed : r.index = i

InUse(i) == port.current = i \/ Pending(i)

UnregisterBuffers(g) ==
    /\ Locked(g, "Unregister")
    /\ registered' = IF port.closing \/ InUse(guest[g].arg) THEN registered
                     ELSE registered \ {guest[g].arg}
    /\ Done(g)
    /\ UNCHANGED <<port, queueVars, gpuVars, priority, present, lastOrder, ended>>

\* FlipQueue::Reserve, with the port and the queue locked.
Reserve(i, source) ==
    LET new == [id |-> nextId, gen |-> port.gen, index |-> i, source |-> source,
                order |-> IF source = "Cpu" THEN nextOrder ELSE 0,
                state |-> "Reserved", frame |-> FALSE]
    IN  /\ MayReserve
        /\ requests' = IF source = "Gpu" THEN Append(requests, new) ELSE requests
        /\ cpuRequests' = IF source = "Cpu" THEN cpuRequests \cup {new} ELSE cpuRequests
        /\ nextId' = nextId + 1
        /\ nextOrder' = IF source = "Cpu" THEN nextOrder + 1 ELSE nextOrder
        /\ port' = [port EXCEPT !.pending = Total + 1,
                                !.gc = IF source = "Gpu" THEN @ + 1 ELSE @]
        /\ UNCHANGED <<cancelled, processing>>

\* VideoOutSubmitFlip: ReserveFlipRequest, and the preparation is submitted
\* to the GPU thread afterwards.
SubmitFlip(g) ==
    /\ Locked(g, "Flip")
    /\ IF port.closing \/ guest[g].arg \notin registered \cup {Blank} \/ Total >= Capacity
       THEN Done(g) /\ UNCHANGED <<port, queueVars>>
       ELSE /\ Reserve(guest[g].arg, "Cpu")
            /\ guest' = [guest EXCEPT ![g].pc = "Submit", ![g].id = nextId]
    /\ UNCHANGED <<registered, gpuVars, priority, present, lastOrder, ended>>

SubmitFlipPreparation(g) ==
    /\ Running /\ guest[g].pc = "Submit"
    /\ jobs' = Append(jobs, guest[g].id)
    /\ Done(g)
    /\ UNCHANGED <<port, registered, queueVars, gpu, eops, priority, present, lastOrder, ended>>

\* A port that is not reset ends the program (EXIT_IF): by a flip rate that
\* was set after the close, or by a buffer or a group left registered.
Open ==
    /\ Running /\ DriverFree /\ CfgFree /\ ~port.opened
    /\ port.gen < MaxPortChanges /\ InBounds
    /\ IF port.rate = 0 /\ registered = {}
       THEN /\ port' = [port EXCEPT !.opened = TRUE, !.closing = FALSE, !.gen = @ + 1,
                                    !.shown = FALSE, !.current = Blank, !.vblank = 0,
                                    !.pending = 0, !.gc = 0]
            /\ UNCHANGED ended
       ELSE /\ IF registered = {} THEN ended' = "StaleRate" ELSE Break
            /\ UNCHANGED port
    /\ UNCHANGED <<registered, queueVars, guest, gpuVars, priority, present, lastOrder>>

Close(g) ==
    /\ Running /\ guest[g].pc = "Idle" /\ DriverFree /\ CfgFree
    /\ port.opened /\ port.gen < MaxPortChanges /\ InBounds
    /\ port' = [port EXCEPT !.opened = FALSE, !.closing = TRUE, !.gen = @ + 1, !.rate = 0]
    /\ registered' = {}
    /\ guest' = [guest EXCEPT ![g].pc = "Cancel"]
    /\ UNCHANGED <<queueVars, gpuVars, priority, present, lastOrder, ended>>

\* Mutant: requests nobody will complete are kept as well.
MutKept(S) == S

\* Requests whose frame is being recorded are kept for the recording.
Kept(S) == {r \in S : r.state \in {"Reserved", "Recording"}}

\* Mutant: a request that is ready to be shown stays in the queue.
MutCancelReady(g) ==
    /\ Running /\ guest[g].pc = "Cancel"
    /\ ~(processing /\ requests # <<>>)
    /\ cancelled' = cancelled \cup Kept(Listed \cup cpuRequests)
    /\ requests' = SelectSeq(requests, LAMBDA r : r.state = "Ready") /\ cpuRequests' = {}
    /\ guest' = [guest EXCEPT ![g].pc = "CancelEnd"]
    /\ UNCHANGED <<port, registered, processing, nextId, nextOrder, gpuVars, priority,
                   present, lastOrder, ended>>

\* FlipQueue::Cancel waits while the present thread has a request in hand.
Cancel(g) ==
    /\ Running /\ guest[g].pc = "Cancel"
    /\ ~(processing /\ requests # <<>>)
    /\ cancelled' = cancelled \cup Kept(Listed \cup cpuRequests)
    /\ requests' = <<>> /\ cpuRequests' = {}
    /\ IF \E r \in Listed : r.state = "Presenting" THEN Break
       ELSE UNCHANGED ended
    /\ guest' = [guest EXCEPT ![g].pc = "CancelEnd"]
    /\ UNCHANGED <<port, registered, processing, nextId, nextOrder, gpuVars, priority,
                   present, lastOrder>>

CancelEnd(g) ==
    /\ Running /\ guest[g].pc = "CancelEnd" /\ CfgFree
    /\ port' = [port EXCEPT !.pending = 0, !.gc = 0]
    /\ Done(g)
    /\ UNCHANGED <<registered, queueVars, gpuVars, priority, present, lastOrder, ended>>

-----------------------------------------------------------------------------
(***************************************************************************)
(* The GPU thread.  A flip in a command buffer is reserved, if need be     *)
(* once a slot is free, and prepared; a flip a guest thread submitted is   *)
(* prepared, and completed at once.                                        *)
(***************************************************************************)
GpuFlip(i) ==
    /\ Running /\ DriverFree /\ CfgFree /\ port.opened /\ i \in registered \cup {Blank}
    /\ gpu.pc = "Idle" \/ (gpu.pc = "Retry" /\ gpu.index = i)
    /\ IF Total >= Capacity
       THEN /\ gpu' = [IdleGpu EXCEPT !.pc = "Slot", !.index = i]
            /\ UNCHANGED <<port, queueVars>>
       ELSE /\ Reserve(i, "Gpu")
            /\ gpu' = [IdleGpu EXCEPT !.pc = "Prepare", !.id = nextId, !.source = "Gpu"]
    /\ UNCHANGED <<registered, guest, jobs, eops, priority, present, lastOrder, ended>>

\* PrepareVideoOutFlip ends the program when the port does not take the flip
\* for another reason: here because it was closed during the wait.
GpuRejected ==
    /\ Running /\ gpu.pc = "Retry" /\ DriverFree /\ CfgFree
    /\ ~(port.opened /\ gpu.index \in registered \cup {Blank})
    /\ ended' = "Rejected"
    /\ UNCHANGED <<port, registered, queueVars, guest, gpuVars, priority, present, lastOrder>>

\* WaitForSubmitSlot: only requests that are prepared can make room.
WaitForSubmitSlot ==
    /\ Running /\ gpu.pc = "Slot" /\ (Total < Capacity \/ requests = <<>>)
    /\ IF Total < Capacity THEN gpu' = [gpu EXCEPT !.pc = "Retry"] /\ UNCHANGED ended
       ELSE ended' = "Saturated" /\ UNCHANGED gpu
    /\ UNCHANGED <<port, registered, queueVars, guest, jobs, eops, priority, present, lastOrder>>

TakeJob ==
    /\ Running /\ gpu.pc = "Idle" /\ jobs # <<>>
    /\ gpu' = [IdleGpu EXCEPT !.pc = "Prepare", !.id = Head(jobs)]
    /\ jobs' = Tail(jobs)
    /\ UNCHANGED <<port, registered, queueVars, guest, eops, priority, present, lastOrder, ended>>

\* WaitFlipDone.
WaitBegin(i) ==
    /\ Running /\ gpu.pc = "Idle" /\ DriverFree /\ port.opened
    /\ gpu' = [IdleGpu EXCEPT !.pc = "WaitDone", !.index = i]
    /\ UNCHANGED <<port, registered, queueVars, guest, jobs, eops, priority, present, lastOrder, ended>>
WaitEnd ==
    /\ Running /\ gpu.pc = "WaitDone" /\ ~Pending(gpu.index)
    /\ gpu' = IdleGpu
    /\ UNCHANGED <<port, registered, queueVars, guest, jobs, eops, priority, present, lastOrder, ended>>

\* Prepare has returned: the completion of a GPU flip goes with the command
\* buffer to the priority thread.
Prepared ==
    IF gpu.source = "Gpu" THEN gpu' = IdleGpu /\ eops' = Append(eops, gpu.id)
    ELSE gpu' = [gpu EXCEPT !.pc = "Complete"] /\ UNCHANGED eops

\* The three parts of FlipQueue::Prepare: mark the request, look at the
\* port, and attach the frame that was recorded.
PrepareBegin ==
    /\ Running /\ gpu.pc = "Prepare"
    /\ LET id == gpu.id
           r == The(Listed \cup cpuRequests, id)
           marked == [r EXCEPT !.state = "Recording"]
       IN  IF Has(Listed \cup cpuRequests, id)
           THEN /\ IF r.state # "Reserved" THEN Break ELSE UNCHANGED ended
                /\ Sort(IF Has(Listed, id) THEN [requests EXCEPT ![At(id)] = marked]
                        ELSE Append(requests, marked))
                /\ cpuRequests' = Without(cpuRequests, id)
                /\ gpu' = [gpu EXCEPT !.pc = "Look"]
                /\ UNCHANGED <<cancelled, eops>>
           ELSE IF Has(cancelled, id) /\ The(cancelled, id).state = "Reserved"
           THEN /\ cancelled' = Without(cancelled, id)
                                   \cup {[The(cancelled, id) EXCEPT !.state = "Recording"]}
                /\ Prepared /\ UNCHANGED <<requests, cpuRequests, ended>>
           ELSE Break /\ UNCHANGED <<requests, cpuRequests, cancelled, gpu, eops>>
    /\ UNCHANGED <<port, registered, processing, nextId, nextOrder, guest, jobs, priority,
                   present, lastOrder>>

\* The request gpu.id, wherever Cancel may have put it.
TheRequest == The(Listed \cup cpuRequests \cup cancelled, gpu.id)

PrepareLook ==
    /\ Running /\ gpu.pc = "Look" /\ CfgFree
    /\ LET current == port.opened /\ ~port.closing /\ port.gen = TheRequest.gen
       IN  /\ gpu' = [gpu EXCEPT !.pc = IF current THEN "Frame" ELSE "Drop"]
           /\ IF current /\ TheRequest.index \notin registered \cup {Blank} THEN Break
              ELSE UNCHANGED ended
    /\ UNCHANGED <<port, registered, queueVars, guest, jobs, eops, priority, present, lastOrder>>

PrepareDrop ==
    /\ Running /\ gpu.pc = "Drop"
    /\ IF Has(Listed, gpu.id)
       THEN /\ cancelled' = cancelled \cup {TheRequest}
            /\ requests' = RemoveAt(requests, At(gpu.id))
       ELSE UNCHANGED <<requests, cancelled>>
    /\ Prepared
    /\ UNCHANGED <<port, registered, cpuRequests, processing, nextId, nextOrder, guest, jobs,
                   priority, present, lastOrder, ended>>

PrepareFrame ==
    /\ Running /\ gpu.pc = "Frame"
    /\ LET framed == [TheRequest EXCEPT !.frame = TRUE]
       IN  IF Has(Listed, gpu.id)
           THEN requests' = [requests EXCEPT ![At(gpu.id)] = framed] /\ UNCHANGED cancelled
           ELSE /\ cancelled' = IF Has(cancelled, gpu.id)
                                THEN Without(cancelled, gpu.id) \cup {framed} ELSE cancelled
                /\ UNCHANGED requests
    /\ IF ~Has(Listed \cup cancelled, gpu.id) THEN Break
       ELSE IF TheRequest.state # "Recording" \/ TheRequest.frame THEN Break
       ELSE UNCHANGED ended
    /\ Prepared
    /\ UNCHANGED <<port, registered, cpuRequests, processing, nextId, nextOrder, guest, jobs,
                   priority, present, lastOrder>>

-----------------------------------------------------------------------------
(***************************************************************************)
(* FlipQueue::Complete, by the GPU thread or the priority thread: a GPU    *)
(* flip takes its place in the order; then, with the port locked too, the  *)
(* request becomes ready, unless Cancel got there first.                   *)
(***************************************************************************)
CompleteBegin(id) ==
    /\ IF Has(Listed, id)
       THEN LET r == The(Listed, id)
            IN  /\ IF r.state # "Recording" \/ ~r.frame \/ (r.source = "Gpu" /\ r.order # 0)
                   THEN Break ELSE UNCHANGED ended
                /\ IF r.source = "Gpu"
                   THEN /\ Sort([requests EXCEPT ![At(id)] = [r EXCEPT !.order = nextOrder]])
                        /\ nextOrder' = nextOrder + 1
                   ELSE UNCHANGED <<requests, nextOrder>>
       ELSE /\ IF Has(cancelled, id) /\ The(cancelled, id).state = "Recording"
               THEN UNCHANGED ended ELSE Break
            /\ UNCHANGED <<requests, nextOrder>>
    /\ UNCHANGED <<port, registered, cpuRequests, cancelled, processing, nextId, guest, jobs,
                   present, lastOrder>>

\* CompleteFlipExecution.
Executed(r) == IF r.source = "Gpu" /\ port.gc > 0 THEN port.gc - 1 ELSE port.gc

CompleteEnd(id) ==
    /\ CfgFree
    /\ IF Has(Listed, id)
       THEN LET r == The(Listed, id)
            IN  /\ IF r.state # "Recording" \/ ~r.frame THEN Break ELSE UNCHANGED ended
                /\ port' = [port EXCEPT !.gc = Executed(r)]
                /\ requests' = [requests EXCEPT ![At(id)] = [r EXCEPT !.state = "Ready"]]
                /\ UNCHANGED cancelled
       ELSE /\ IF Has(cancelled, id) /\ The(cancelled, id).state = "Recording"
               THEN UNCHANGED ended ELSE Break
            /\ cancelled' = Without(cancelled, id)
            /\ UNCHANGED <<port, requests>>
    /\ UNCHANGED <<registered, cpuRequests, processing, nextId, nextOrder, guest, jobs,
                   present, lastOrder>>

GpuComplete1 ==
    /\ Running /\ gpu.pc = "Complete" /\ CompleteBegin(gpu.id)
    /\ gpu' = [gpu EXCEPT !.pc = "Completing"] /\ UNCHANGED <<eops, priority>>
GpuComplete2 ==
    /\ Running /\ gpu.pc = "Completing" /\ CompleteEnd(gpu.id)
    /\ gpu' = IdleGpu /\ UNCHANGED <<eops, priority>>
PriorityComplete1 ==
    /\ Running /\ priority = NoId /\ eops # <<>> /\ CompleteBegin(Head(eops))
    /\ priority' = Head(eops) /\ eops' = Tail(eops) /\ UNCHANGED gpu
PriorityComplete2 ==
    /\ Running /\ priority # NoId /\ CompleteEnd(priority)
    /\ priority' = NoId /\ UNCHANGED <<gpu, eops>>

-----------------------------------------------------------------------------
\* The present thread between two flips: VblankEnd, and VblankBegin.
Vblank ==
    /\ Running /\ present.pc = "Vblank" /\ DriverFree
    /\ port' = IF port.opened THEN [port EXCEPT !.vblank = (@ + 1) % 2] ELSE port
    /\ present' = [present EXCEPT !.pc = "Flip"]
    /\ UNCHANGED <<registered, queueVars, guest, gpuVars, priority, lastOrder, ended>>

\* Mutant: does not look for CPU flips that have not been prepared.
MutMayFlip == requests # <<>> /\ requests[1].state = "Ready"

MayFlip ==
    /\ requests # <<>> /\ requests[1].state = "Ready"
    /\ ~\E r \in cpuRequests : Precedes(r.order, requests[1].order)

FlipBegin ==
    /\ Running /\ present.pc = "Flip"
    /\ IF MayFlip
       THEN processing' = TRUE /\ present' = [pc |-> "Picked", id |-> requests[1].id]
       ELSE present' = [pc |-> "Vblank", id |-> NoId] /\ UNCHANGED processing
    /\ IF processing /\ requests # <<>> THEN Break ELSE UNCHANGED ended
    /\ UNCHANGED <<port, registered, requests, cpuRequests, cancelled, nextId, nextOrder,
                   guest, gpuVars, priority, lastOrder>>

\* IsFlipDueLocked, for the mode that waits for the interval.
Due(r) ==
    /\ port.opened /\ ~port.closing /\ port.gen = r.gen
    /\ \/ ~port.shown \/ r.index = Blank
       \/ port.current # r.index /\ r.index \in registered
       \/ port.vblank % (port.rate + 1) = 0

FlipPresent ==
    /\ Running /\ present.pc = "Picked"
    /\ IF requests # <<>> /\ requests[1].id = present.id /\ ~Due(requests[1])
       THEN /\ processing' = FALSE /\ present' = [pc |-> "Vblank", id |-> NoId]
            /\ UNCHANGED <<requests, ended>>
       ELSE /\ IF requests = <<>> THEN Break /\ UNCHANGED requests
               ELSE /\ IF requests[1].id # present.id \/ requests[1].state # "Ready" THEN Break
                       ELSE UNCHANGED ended
                    /\ requests' = [requests EXCEPT ![1].state = "Presenting"]
            /\ present' = [present EXCEPT !.pc = "Presenting"]
            /\ UNCHANGED processing
    /\ UNCHANGED <<port, registered, cpuRequests, cancelled, nextId, nextOrder, guest, gpuVars,
                   priority, lastOrder>>

FlipEnd ==
    /\ Running /\ present.pc = "Presenting"
    /\ IF requests = <<>>
       THEN Break /\ UNCHANGED <<port, requests, lastOrder>>
       ELSE /\ IF requests[1].id # present.id \/ requests[1].state # "Presenting" THEN Break
               ELSE UNCHANGED ended
            /\ requests' = Tail(requests)
            /\ lastOrder' = requests[1].order
            /\ port' = [port EXCEPT !.shown = TRUE, !.current = requests[1].index,
                                    !.pending = Total - 1]
    /\ processing' = FALSE /\ present' = [pc |-> "Vblank", id |-> NoId]
    /\ UNCHANGED <<registered, cpuRequests, cancelled, nextId, nextOrder, guest, gpuVars,
                   priority>>

-----------------------------------------------------------------------------
VideoNext ==
    \/ \E g \in Guests :
          \/ Get(g, "Rate", Blank)
          \/ \E b \in Buffers : Get(g, "Register", b) \/ Get(g, "Unregister", b)
          \/ \E i \in Indexes : Get(g, "Flip", i)
          \/ SetFlipRate(g) \/ RegisterBuffers(g) \/ UnregisterBuffers(g)
          \/ SubmitFlip(g) \/ SubmitFlipPreparation(g)
          \/ Close(g) \/ Cancel(g) \/ CancelEnd(g)
    \/ Open
    \/ \E i \in Indexes : GpuFlip(i) \/ WaitBegin(i)
    \/ GpuRejected \/ WaitForSubmitSlot \/ TakeJob \/ WaitEnd
    \/ PrepareBegin \/ PrepareLook \/ PrepareDrop \/ PrepareFrame
    \/ GpuComplete1 \/ GpuComplete2 \/ PriorityComplete1 \/ PriorityComplete2
    \/ Vblank \/ FlipBegin \/ FlipPresent \/ FlipEnd

VideoSpec == VideoInit /\ [][VideoNext]_videoVars

-----------------------------------------------------------------------------
States == {"Reserved", "Recording", "Ready", "Presenting"}

VideoTypeOK ==
    /\ \A r \in Listed \cup cpuRequests \cup cancelled :
          /\ r.state \in States /\ r.index \in Indexes
          /\ \A q \in Listed \cup cpuRequests \cup cancelled : q.id = r.id => q = r
    /\ \A j, k \in DOMAIN requests : requests[j].id = requests[k].id => j = k
    /\ Listed \cap cpuRequests = {} /\ cancelled \cap (Listed \cup cpuRequests) = {}
    /\ \A r \in cancelled : r.state \in {"Reserved", "Recording"}
    /\ Total <= Capacity /\ registered \subseteq Buffers
    /\ port.pending \in 0..Capacity /\ port.gc \in 0..Capacity

\* Flips are shown in the order they were asked for: CPU flips in the order
\* of their calls, GPU flips when the GPU got there, the two kinds mixed;
\* although CPU flips are prepared by another thread than the one that asks.
FlipsInOrder == [][lastOrder' # lastOrder => lastOrder' > lastOrder]_videoVars

\* None of the checks in Prepare, Complete, Cancel and Flip that a request is
\* still where and what it was before the lock was released ever fails, no
\* flip is prepared from a buffer that was unregistered meanwhile, and Open
\* finds no buffer that a call registered after the close.  (A flip rate set
\* after the close it does find, and ends the program: "StaleRate".)
FlipQueueSurvives == ended # "Broken"

\* What GetFlipStatus tells the guest about an open port is the state of the
\* queue: the requests not shown, and those the GPU has not executed; also
\* after a close that found requests half recorded.
FlipCountsExact ==
    Running /\ port.opened =>
        /\ port.pending = Total
        /\ port.gc = Cardinality({r \in Listed :
                        r.source = "Gpu" /\ r.state \in {"Reserved", "Recording"}})

\* The GPU thread waits for a flip, or for room in the queue, and what it
\* waits for is or is behind a CPU flip that only it could prepare.
GpuWaitsForItself ==
    LET first == {r \in cpuRequests :
                     requests = <<>> \/ Precedes(r.order, requests[1].order)}
    IN  \/ /\ gpu.pc = "WaitDone" /\ Pending(gpu.index)
           /\ first # {} \/ \E r \in cpuRequests : r.index = gpu.index
        \/ gpu.pc = "Slot" /\ Total >= Capacity /\ first # {}

\* A flip that is reserved is shown, or cancelled by a close, unless the GPU
\* thread waits for itself, a check ends the program, or the bound on the
\* requests keeps a GPU flip from being reserved.
FlipsLeave ==
    \A id \in 1..MaxRequests :
        Has(Listed \cup cpuRequests, id)
            ~> \/ ~Running \/ GpuWaitsForItself
               \/ gpu.pc = "Retry" /\ ~MayReserve
               \/ ~Has(Listed \cup cpuRequests, id)

\* The queue is what its users and the guest take it for.
FlipQueueExact == FlipQueueSurvives /\ FlipCountsExact

=============================================================================
