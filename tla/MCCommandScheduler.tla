------------------------- MODULE MCCommandScheduler -------------------------
(***************************************************************************)
(* Finite instances of CommandScheduler for TLC.                           *)
(***************************************************************************)
EXTENDS CommandScheduler

MCOthers == {"guest"}
=============================================================================
