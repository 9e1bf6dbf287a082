---------------------------- MODULE MCKernelSema ----------------------------
(***************************************************************************)
(* Finite instances of KernelSema for TLC.                                 *)
(***************************************************************************)
EXTENDS KernelSema, TLC

CONSTANTS t1, t2, t3

MCThreads == {t1, t2, t3}

\* Threads are interchangeable: no action or property names one.
MCSymmetry == Permutations(MCThreads)

\* Zero is rejected by Wait, and so is anything above MaxCount.
MCNeedCounts == {0, 1, 2}

\* KernelSignalSema passes the guest's count on unchecked: a negative one
\* takes units away.
MCSignalCounts == {-1, 1, 2}

MCCountFloor == -1

MCCancelCounts == {-1, 0, 2}
=============================================================================
