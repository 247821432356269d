-------------------------- MODULE LoopbackProperties --------------------------
(* What udp_audio_loopback guarantees, whatever the network does. *)
EXTENDS Loopback

(* All counters the type invariant ranges over. *)
Counters == {played, concealed, datagrams, invalid_datagrams, late_datagrams,
             received, generated, dropped, sent, lost, duplicated}

(* Type invariant. *)
TypeOK ==
    /\ pending \subseteq SequenceNumbers
    /\ network \subseteq SequenceNumbers
    /\ Buffer!TypeOK
    /\ phase \in {"send", "tail", "final", "settle", "done", "failed"}
    /\ step \in {"schedule", "release", "await", "drain", "play", "stop"}
    /\ settled \in 0..3 /\ i \in 0..FrameCount
    /\ next_play_sequence \in 0..FrameCount
    /\ Counters \subseteq Nat
    /\ target_depth \in MinDepth..MaxDepth
    /\ ontime \subseteq SequenceNumbers
    /\ output \in Seq(SequenceNumbers \union {Concealed})

(* The jitter buffer holds exactly the frames that arrived in time and are *)
(* still to be played, each under its own number: no late or duplicated    *)
(* datagram leaves anything behind in a slot, and none is missing.         *)
BufferHoldsTheFuture ==
    /\ Buffer!Held = {seq \in ontime : seq >= next_play_sequence}
    /\ \A seq \in Buffer!Held : Buffer!Content(seq) = seq

(* push never meets a slot taken by another frame, so ignoring its result  *)
(* (udp_audio_loopback.cpp:346) loses nothing.                             *)
PushNeverRefused == bufferStats.late_or_collided_packets = 0

(* Every frame that arrived before its playout is played, unmodified, in   *)
(* its place, and every other one is concealed: the receiver implements    *)
(* IdealPlayout, which has no buffer to overflow.                          *)
Ideal == INSTANCE IdealPlayout WITH accepted <- ontime
ImplementsIdealPlayout == Ideal!Spec

(* The packet counters of the summary add up at every moment: a generated  *)
(* packet was dropped, sent or waits; a datagram sent or duplicated was    *)
(* lost, is in flight, was late or was received.                           *)
PacketsAddUp ==
    /\ generated =
          dropped + sent + Cardinality(pending)
    /\ sent + duplicated =
          lost + Cardinality(network) + late_datagrams + received
    /\ datagrams = invalid_datagrams + late_datagrams + received

(* The frame counters of the summary (played, concealed, output_frames,    *)
(* jitter_underruns) agree with what was handed to playback.               *)
FramesAddUp ==
    /\ Len(output) = next_play_sequence
    /\ played = Cardinality({n \in DOMAIN output : output[n] # Concealed})
    /\ concealed = Len(output) - played
    /\ bufferStats.popped = played /\ bufferStats.underruns = concealed
    /\ bufferStats.inserted = received

(* main returns 0 only after a full stream was played, with everything     *)
(* received either played or a duplicate of something played.              *)
DoneIsComplete ==
    phase = "done" => /\ Len(output) = FrameCount
                      /\ played = Cardinality(ontime)
                      /\ Buffer!Held = {}

(* All of the summary, at every moment and at the end. *)
SummaryAddsUp == PacketsAddUp /\ FramesAddUp /\ DoneIsComplete

(* Playout stays behind the sender by at most the maximal depth once a     *)
(* send tick is over, and never overtakes it: a frame is not played before *)
(* the tick MinDepth after the one that sent it.                           *)
PlayoutLag ==
    (phase = "send" /\ step = "schedule") =>
        /\ i - next_play_sequence <= MaxDepth
        /\ next_play_sequence # 0 => i - next_play_sequence >= MinDepth

(* While the network makes no copies, leaving the receive loop early is    *)
(* safe: nothing that was sent is still on its way, and nothing was lost   *)
(* or late so far.  One late or lost datagram disables it for good.        *)
EarlyBreakIsSafe ==
    [][BreakEarly /\ duplicated = 0 =>
                     /\ network = {} /\ lost = 0 /\ late_datagrams = 0
                     /\ received = sent]_vars

(* main returns. *)
Terminates == <>(phase \in {"done", "failed"})

(* The strengthening that makes the above inductive.  Control: what the    *)
(* position in main says about its counters.  Window: whatever is on its   *)
(* way or buffered was generated by now, and playout is at most MaxDepth   *)
(* frames behind, so the frames still wanted never span a whole buffer.    *)
Control ==
    /\ phase = "send" => step \in {"schedule", "release", "await", "drain", "play"}
    /\ phase = "send" /\ step # "schedule" => i < FrameCount
    /\ phase = "tail" => next_play_sequence < FrameCount
    /\ phase \in {"done", "failed"} => step = "stop"
    /\ phase # "done" => settled < 3

Window ==
    /\ pending \union network \union ontime \subseteq 0..i
    /\ i <= next_play_sequence + MaxDepth

InductiveInvariant ==
    /\ TypeOK /\ Control /\ Window
    /\ BufferHoldsTheFuture /\ PushNeverRefused
    /\ Len(output) = next_play_sequence
=============================================================================
