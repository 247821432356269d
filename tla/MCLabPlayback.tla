---------------------------- MODULE MCLabPlayback ----------------------------
(* Model-checking instances of LabPlayback. *)
EXTENDS LabPlayback
=============================================================================
