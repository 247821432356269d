---------------------------- MODULE MCOpusLoopback ----------------------------
(* Model-checking instances of OpusLoopback; the bounds are its constants. *)
EXTENDS OpusLoopbackProperties
=============================================================================
