---------------------------- MODULE MCEventFlag ----------------------------
(***************************************************************************)
(* Finite instances of EventFlag for TLC.                                  *)
(***************************************************************************)
EXTENDS EventFlag, TLC

CONSTANTS t1, t2, t3, b1, b2

MCThreeThreads == {t1, t2, t3}
MCBits == {b1, b2}
MCPatterns == {{b1}, {b1, b2}}

\* One pattern still tells AND from OR; the run with many sleepers uses it.
MCBothBits == {MCBits}

\* Threads are interchangeable in a run without liveness.
MCSymmetry == Permutations(MCThreeThreads)
=============================================================================
