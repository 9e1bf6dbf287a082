---------------------------- MODULE MCEventQueue ----------------------------
(***************************************************************************)
(* Instances of EventQueue.  Events interact only through the capacity of  *)
(* a scan and through the two threads, so a run takes few of them: a       *)
(* queue with a timer that is erased behind its back, an EOP event with    *)
(* the AGC user event as a level or an edge, a descriptor with a timer.    *)
(***************************************************************************)
EXTENDS EventQueue, TLC

CONSTANTS t1, t2, e1, e2, none

MixQueuedAndTimer == e1 :> "Queued" @@ e2 :> "Timer"

MixEopAndLevel == e1 :> "Eop" @@ e2 :> "Level"

MixEopAndEdge == e1 :> "Eop" @@ e2 :> "Edge"

MixFdAndTimer == e1 :> "Fd" @@ e2 :> "Timer"

SafetyMixes == {MixQueuedAndTimer, MixEopAndLevel, MixFdAndTimer}

ListedMixes == {MixEopAndEdge}

LiveMixes == {MixFdAndTimer}

ThreadSymmetry == Permutations({t1, t2})

=============================================================================
