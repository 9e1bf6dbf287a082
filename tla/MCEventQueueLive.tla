-------------------------- MODULE MCEventQueueLive --------------------------
(***************************************************************************)
(* How the guest learns of the GPU's progress: the liveness of the event   *)
(* queue and, in a program of its own, of the flips of the video output.   *)
(***************************************************************************)
EXTENDS MCEventQueue

CONSTANTS Programs, Guests, Blank

VARIABLES
    program,
    port, registered, requests, cpuRequests, cancelled, processing, nextId, nextOrder,
    guest, flipGpu, jobs, eops, priority, present, lastOrder, ended

\* A guest that flips to the blank buffer only, and a queue that two requests
\* fill.
Video == INSTANCE VideoOut WITH
    Buffers <- {}, Capacity <- 2, MaxRequests <- 2, MaxPortChanges <- 2, MaxWork <- 3,
    gpu <- flipGpu

flipVars == <<port, registered, requests, cpuRequests, cancelled, processing, nextId, nextOrder,
              guest, flipGpu, jobs, eops, priority, present, lastOrder, ended>>

LiveInit == program \in Programs /\ Init /\ Video!VideoInit

LiveNext ==
    \/ program = "queue" /\ Next /\ UNCHANGED <<program, flipVars>>
    \/ program = "video" /\ Video!VideoNext /\ UNCHANGED <<program, vars>>

Flips(A) == program = "video" /\ A

\* Every thread runs on; the calls of the guest and the packets of its
\* command buffers come as they please.  The GPU thread takes what is
\* submitted to it in order, so that no preparation waits for ever behind
\* packets; and the present thread sleeps between two vertical blanks, so
\* that Close gets to a queue with no request in hand.
VideoFairness ==
    /\ WF_flipVars(Flips(Video!Vblank)) /\ WF_flipVars(Flips(Video!FlipBegin))
    /\ WF_flipVars(Flips(Video!FlipPresent)) /\ WF_flipVars(Flips(Video!FlipEnd))
    /\ SF_flipVars(Flips(Video!TakeJob)) /\ WF_flipVars(Flips(Video!WaitEnd))
    /\ WF_flipVars(Flips(Video!WaitForSubmitSlot)) /\ WF_flipVars(Flips(Video!GpuRejected))
    /\ WF_flipVars(Flips(flipGpu.pc = "Retry" /\ Video!GpuFlip(Blank)))
    /\ WF_flipVars(Flips(Video!PrepareBegin)) /\ WF_flipVars(Flips(Video!PrepareLook))
    /\ WF_flipVars(Flips(Video!PrepareDrop)) /\ WF_flipVars(Flips(Video!PrepareFrame))
    /\ WF_flipVars(Flips(Video!GpuComplete1)) /\ WF_flipVars(Flips(Video!GpuComplete2))
    /\ WF_flipVars(Flips(Video!PriorityComplete1))
    /\ WF_flipVars(Flips(Video!PriorityComplete2))
    /\ \A g \in Guests :
          /\ WF_flipVars(Flips(Video!SubmitFlipPreparation(g)))
          /\ SF_flipVars(Flips(Video!Cancel(g))) /\ WF_flipVars(Flips(Video!CancelEnd(g)))

LiveSpec ==
    /\ LiveInit
    /\ [][LiveNext]_<<program, vars, flipVars>>
    /\ \A t \in Threads :
          /\ WF_vars(program = "queue" /\ Method(t))
          /\ WF_vars(program = "queue" /\ Waiting(t))
    /\ VideoFairness

-----------------------------------------------------------------------------
\* A flip that is reserved is shown, or cancelled by a close, unless the GPU
\* thread waits for itself or a check ends the program.
FlipsLeave == Video!FlipsLeave

=============================================================================
