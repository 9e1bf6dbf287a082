----------------------------- MODULE MCGpuMemory -----------------------------
(***************************************************************************)
(* What lies between guest memory and the GPU, in one finite instance: a   *)
(* behaviour is about one part, chosen at the start, as in MCGuestSync.    *)
(*                                                                         *)
(* Page tracking has three pages, two in the first region and one in the   *)
(* next, an image that starts and ends inside a page and crosses the       *)
(* regions, and one that shares its last two pages with it.  The           *)
(* buffer cache has a page of two addresses and one of a single address,   *)
(* and any range may be drawn from, written or be an image, so also one    *)
(* that does not fill its pages.  The video output has one buffer and the  *)
(* blank one, two guest threads and a queue of two; its port can be        *)
(* opened, closed under its requests and opened again.                     *)
(***************************************************************************)
EXTENDS PageTracking, BufferCache, RangeSet, VideoOut, TLC

CONSTANTS Parts, long, short

VARIABLE part

MCImageRange == long :> <<1, 5>> @@ short :> <<3, 5>>

GuestSymmetry == Permutations(Guests)

MCInit == part \in Parts /\ TrackingInit /\ CacheInit /\ RangesInit /\ VideoInit

Rests(p, v) == IF part = p THEN TRUE ELSE UNCHANGED v

MCNext ==
    /\ \/ part = "tracking" /\ TrackingNext
       \/ part = "buffers" /\ CacheNext
       \/ part = "ranges" /\ RangesNext
       \/ part = "video" /\ VideoNext
    /\ UNCHANGED part
    /\ Rests("tracking", trackingVars) /\ Rests("buffers", cache)
    /\ Rests("ranges", rangeVars) /\ Rests("video", videoVars)

MCSpec == MCInit /\ [][MCNext]_<<part, trackingVars, cache, rangeVars, videoVars>>

-----------------------------------------------------------------------------
\* Every part's variables have their types, with the counts their modules
\* state.
GpuTypeOK == TrackingTypeOK /\ CacheTypeOK /\ VideoTypeOK

\* The range set is a set of addresses, and its queries agree with it.
RangesAreSets == RangesExact /\ (part = "ranges" => QueriesExact)

=============================================================================
