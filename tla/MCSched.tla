------------------------------ MODULE MCSched ------------------------------
(***************************************************************************)
(* Instances of Sched for TLC.                                             *)
(***************************************************************************)
EXTENDS SchedProps

DefaultOnly == {DEFAULT_FD}
DefaultOrPipe == {DEFAULT_FD, 3, 4}
=============================================================================
