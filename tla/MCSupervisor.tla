---------------------------- MODULE MCSupervisor ----------------------------
(***************************************************************************)
(* The instance of Supervisor for TLC.                                     *)
(***************************************************************************)
EXTENDS Supervisor
=============================================================================
