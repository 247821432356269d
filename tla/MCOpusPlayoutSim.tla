--------------------------- MODULE MCOpusPlayoutSim ---------------------------
(* Model-checking instance of OpusPlayoutSim. *)
EXTENDS OpusPlayoutSim

(* Four frames at depth 2 with jitter of up to three frames and up to two     *)
(* repairs in a bundle.                                                      *)
Recovery == [frame_count |-> 4, loss_model |-> "independent", burst_min_frames |-> 2,
             burst_max_frames |-> 4, jitter_ms |-> 3, redundancy_frames |-> 2,
             jitter_depth_frames |-> 2, recovery_mode |-> "fec"]

(* Eight frames in bursts of 2 or 3 and without repairs, every delay too long. *)
Bursts == [frame_count |-> 8, loss_model |-> "burst", burst_min_frames |-> 2,
           burst_max_frames |-> 3, jitter_ms |-> 1, redundancy_frames |-> 0,
           jitter_depth_frames |-> 0, recovery_mode |-> "fec"]

(* More asked for than there may be, of repairs and of lengths; no FEC.        *)
Clamped == [Bursts EXCEPT !.frame_count = 3, !.burst_min_frames = 5,
                          !.recovery_mode = "plc", !.redundancy_frames = 5]

MCSettings == {Recovery, Bursts, Clamped}
=============================================================================
