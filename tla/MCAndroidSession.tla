-------------------------- MODULE MCAndroidSession --------------------------
(***************************************************************************)
(* The instance of AndroidSession for TLC.                                 *)
(***************************************************************************)
EXTENDS AndroidSession
=============================================================================
