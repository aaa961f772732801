--------------------------- MODULE MCVolumeChange ---------------------------
(***************************************************************************)
(* The instance of VolumeChange for TLC.                                   *)
(***************************************************************************)
EXTENDS VolumeChange
=============================================================================
