------------------------- MODULE MCFramePlaybackQueue -------------------------
(* Model-checking instances of FramePlaybackQueue. *)
EXTENDS FramePlaybackQueue
=============================================================================
