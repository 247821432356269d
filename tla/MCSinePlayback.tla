---------------------------- MODULE MCSinePlayback ----------------------------
(* Model-checking instance of SinePlayback. *)
EXTENDS SinePlayback

MCCallbackSamples == {1, 3}
=============================================================================
