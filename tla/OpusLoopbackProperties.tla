------------------------ MODULE OpusLoopbackProperties ------------------------
(* What udp_audio_opus_loopback guarantees, and one thing it does not. *)
EXTENDS OpusLoopback

(* Type invariant. *)
TypeOK ==
    /\ jitter_depth_frames \in Depths
    /\ pending \subseteq SequenceNumbers /\ network \subseteq SequenceNumbers
    /\ Buffer!TypeOK
    /\ phase \in {"send", "drain", "tail", "done", "failed"}
    /\ step \in {"schedule", "release", "await", "receive", "play", "stop"}
    /\ i \in 0..FrameCount /\ sequence \in 0..FrameCount
    /\ redundancy_history \in Seq(SequenceNumbers)
    /\ Len(redundancy_history) <= RedundancyFrames
    /\ repairs \in [SequenceNumbers -> SUBSET SequenceNumbers]
    /\ {generated, dropped, sent, lost, duplicated, datagrams, invalid_datagrams,
        received} \subseteq Nat
    /\ stats \in [decoded : Nat, concealed : Nat, redundancy_recovered : Nat,
                  fec_recovered : Nat, plc_generated : Nat, opus_decode_errors : Nat]
    /\ arrived \subseteq SequenceNumbers /\ latecomers \subseteq arrived
    /\ output \in Seq([status : {"decoded", "opus_redundant", "opus_fec", "opus_plc"},
                       audio : SequenceNumbers \union {Synthetic, Silence}])

(* The send loop's i - depth and the tail loop's own counter, which starts *)
(* from frame_count - depth, together play every frame once and in order,  *)
(* for streams longer and shorter than the depth; and whatever a frame is  *)
(* made from, it is never the audio of another frame, although packets     *)
(* that arrived after their playout stay in the slots of later ones.       *)
EveryFrameInItsPlace ==
    /\ phase # "failed" => Len(output) = Upcoming
    /\ phase = "done" => Len(output) = FrameCount
    /\ \A n \in DOMAIN output : output[n].audio \in {n - 1, Synthetic, Silence}

(* A bundle repairs the frames just before its own, newest first and       *)
(* without a gap, so a run of losses is covered as far as it reaches.      *)
RepairsAreThePreviousFrames ==
    \A seq \in SequenceNumbers :
        repairs[seq] = {older \in SequenceNumbers :
                           older < seq /\ seq - older <= Cardinality(repairs[seq])}

(* The counters of the summary add up with what happened on the network,   *)
(* in the jitter buffer and in playback.  Frames whose only decode failed  *)
(* are silence and appear neither as decoded nor as concealed.             *)
Silent == Cardinality({n \in DOMAIN output : output[n].audio = Silence})

CountersAddUp ==
    /\ sent + duplicated = lost + Cardinality(network) + received
    /\ received = bufferStats.inserted + bufferStats.late_or_collided_packets
    /\ Len(output) = stats.decoded + stats.concealed + Silent
    /\ stats.concealed = stats.fec_recovered + stats.plc_generated
    /\ bufferStats.underruns >= stats.redundancy_recovered + stats.concealed
    /\ Silent <= stats.opus_decode_errors

(* The consequence of ignoring lateness is confined: a slot still held by  *)
(* a frame whose playout has passed is held by a packet that came late,    *)
(* and push refuses a packet only after some other one came late.          *)
OnlyLatecomersLinger ==
    /\ {seq \in Buffer!Held : seq < Upcoming} \subseteq latecomers
    /\ bufferStats.late_or_collided_packets > 0 => latecomers # {}

(* Whenever the audio of the frame being played has arrived, as its own    *)
(* packet or as a repair in a later one, it is played, or its decoding is  *)
(* tried and fails.  This holds for streams that fit the buffer.           *)
RealAudioWhenAvailable ==
    [][output # output' =>
          LET seq == Len(output)
          IN  (\E packet \in arrived : packet = seq \/ seq \in repairs[packet]) =>
                 \/ output'[seq + 1].audio = seq
                 \/ stats'.opus_decode_errors > stats.opus_decode_errors]_vars

(* docs/OPUS_REDUNDANCY.md:3-4, "The primary Opus packet is still decoded  *)
(* normally": if it arrived before its playout.                            *)
PrimaryIsDecoded ==
    [][output # output' /\ Len(output) \in arrived =>
          \/ output'[Len(output) + 1].audio = Len(output)
          \/ stats'.opus_decode_errors > stats.opus_decode_errors]_vars

(* While the network makes no copies, leaving a receive loop before its    *)
(* deadline leaves nothing behind, late packets included.                  *)
EarlyExitIsSafe ==
    [][BreakEarly \/ DrainCompletes => network = {} /\ lost = 0]_vars

(* A frame that was encoded is played, repaired or concealed, unless a     *)
(* socket call or the encoder fails.                                       *)
EveryFrameIsOutput ==
    \A seq \in SequenceNumbers :
        generated > seq ~> (Len(output) > seq \/ phase = "failed")

(* The summary, over well-typed state. *)
SummaryAddsUp == TypeOK /\ CountersAddUp

(* In a stream longer than the jitter buffer and the history of repairs     *)
(* nothing is out of its place: the frames that are played, the repairs in *)
(* the bundles, and what late packets leave in the buffer.                 *)
EverythingInItsPlace ==
    /\ TypeOK /\ EveryFrameInItsPlace
    /\ RepairsAreThePreviousFrames /\ OnlyLatecomersLinger
=============================================================================
