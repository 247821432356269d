----------------------------- MODULE OpusLoopback -----------------------------
(***************************************************************************)
(* main of apps/udp_audio_opus_loopback.cpp: one thread encodes a frame    *)
(* every 10 ms, sends it with copies of the previous ones through the      *)
(* impaired path, and plays frame i - depth in tick i, repairing what is   *)
(* missing from a later bundle, by in-band FEC or by concealment.          *)
(*                                                                         *)
(* An encoded packet is identified with its sequence number; what a bundle *)
(* adds to its primary packet is in repairs.  Clocks are abstracted as in  *)
(* Loopback.                                                               *)
(***************************************************************************)
EXTENDS ImpairedPath, Sequences

CONSTANTS FrameCount,       \* options.frame_count
          Capacity,         \* kJitterCapacityFrames
          Depths,           \* values of options.jitter_depth_frames
          RedundancyFrames, \* options.redundancy_frames
          UseFec,           \* options.recovery_mode is "fec"
          MaxInvalid,       \* bound: foreign datagrams the socket receives
          MaxDecodeErrors,  \* bound: failures of opus_decode_float
          NoFrame,          \* an empty slot of the jitter buffer
          Synthetic,        \* what FEC and PLC decode to
          Silence           \* what a failed decode leaves in the frame

ASSUME FrameCountAssumption == FrameCount \in Nat \ {0}
ASSUME RingAssumption == Capacity \in Nat /\ Capacity >= 4
ASSUME DepthsAssumption ==
    \A depth \in Depths : depth \in 1..Capacity /\ 2 * depth <= Capacity
ASSUME RedundancyAssumption == RedundancyFrames \in 0..3 /\ UseFec \in BOOLEAN
ASSUME BoundsAssumption == MaxInvalid \in Nat /\ MaxDecodeErrors \in Nat
ASSUME FrameAssumption ==
    /\ {NoFrame, Synthetic, Silence} \intersect (0..(FrameCount - 1)) = {}
    /\ Synthetic # Silence

SequenceNumbers == 0..(FrameCount - 1)

VARIABLES
    jitter_depth_frames,    \* of options, which nothing changes
    frames, sequences, occupied, bufferStats,           \* FixedJitterBuffer
    phase,                  \* which loop of main
    step,                   \* position inside that loop
    i,                      \* the send loop's counter
    sequence,               \* the tail loop's counter
    redundancy_history,
    repairs,                \* per packet, the older packets in its bundle
    datagrams, invalid_datagrams, received,             \* LoopbackStats
    stats,                  \* LoopbackStats, the playout counters
    arrived,                \* history: packets received at least once
    latecomers,             \* history: packets received after their playout
    output                  \* history: frames handed to playback, in order

bufferVars == <<frames, sequences, occupied, bufferStats>>
controlVars == <<phase, step, i, sequence>>
encodeVars == <<jitter_depth_frames, redundancy_history, repairs>>
receiveVars == <<datagrams, invalid_datagrams, received, arrived, latecomers>>
playVars == <<stats, output>>
vars == <<pathVars, bufferVars, controlVars, encodeVars, receiveVars, playVars>>

Buffer == INSTANCE FixedJitterBuffer
             WITH Sequences <- SequenceNumbers, Frames <- SequenceNumbers,
                  EmptyFrame <- NoFrame

Init ==
    /\ jitter_depth_frames \in Depths
    /\ PathInit
    /\ Buffer!Init
    /\ phase = "send" /\ step = "schedule" /\ i = 0 /\ sequence = 0
    /\ redundancy_history = <<>>
    /\ repairs = [seq \in SequenceNumbers |-> {}]
    /\ datagrams = 0 /\ invalid_datagrams = 0 /\ received = 0
    /\ stats = [decoded |-> 0, concealed |-> 0, redundancy_recovered |-> 0,
                fec_recovered |-> 0, plc_generated |-> 0, opus_decode_errors |-> 0]
    /\ arrived = {} /\ latecomers = {} /\ output = <<>>

GoTo(newPhase, newStep) == phase' = newPhase /\ step' = newStep

Running == phase \notin {"done", "failed"}

(* The next frame play_expected_frame will be called for. *)
Upcoming ==
    IF phase \in {"tail", "done"} THEN sequence
    ELSE IF i >= jitter_depth_frames THEN i - jitter_depth_frames ELSE 0
-----------------------------------------------------------------------------
(* Send loop: frame i is encoded, bundled and enters the impaired path.    *)

(* The newest count members of the history. *)
Newest(count) ==
    {redundancy_history[n] : n \in (Len(redundancy_history) - count + 1)
                                      ..Len(redundancy_history)}

(* Mutant of Remember: the history is trimmed from its newest end. *)
RememberOldest(seq) ==
    redundancy_history' =
        IF Len(redundancy_history) < RedundancyFrames
        THEN Append(redundancy_history, seq) ELSE redundancy_history

(* push_back, then erase from the front down to redundancy_frames. *)
Remember(seq) ==
    LET longer == Append(redundancy_history, seq)
    IN redundancy_history' =
          IF Len(longer) > RedundancyFrames THEN Tail(longer) ELSE longer

(* serialize_opus_bundle stops at the first repair that would not fit, so  *)
(* a bundle carries some number of the newest members of the history.      *)
Bundle(seq) ==
    \E count \in 0..Len(redundancy_history) :
        repairs' = [repairs EXCEPT ![seq] = Newest(count)]

SchedulePacket ==
    /\ phase = "send" /\ step = "schedule" /\ i < FrameCount
    /\ Bundle(i)
    /\ Remember(i)
    /\ Schedule(i)
    /\ GoTo("send", "release")
    /\ UNCHANGED <<jitter_depth_frames, bufferVars, i, sequence, receiveVars, playVars>>

EncodeFails ==
    /\ phase = "send" /\ step = "schedule" /\ i < FrameCount
    /\ GoTo("failed", "stop")
    /\ UNCHANGED <<pathVars, bufferVars, i, sequence, encodeVars, receiveVars, playVars>>

(* The passes of release_due_packets: after scheduling, in the 2 ms        *)
(* receive loop, in the drain loop and before each tail frame.             *)
ReleasePass(next) ==
    \/ phase = "send" /\ step = "release" /\ next = "await"
    \/ phase \in {"send", "drain"} /\ step = "await" /\ next = "receive"
    \/ phase = "tail" /\ step = "release" /\ next = "receive"

(* Mutant of MoreToDrain: packets in flight are not waited for. *)
MoreToDrainHere == phase = "drain" => pending # {}

(* The condition of the drain loop, apart from its deadline. *)
MoreToDrain == phase = "drain" => (pending # {} \/ received < sent)

ReleaseDuePackets ==
    /\ \E next \in {"await", "receive"} : ReleasePass(next) /\ GoTo(phase, next)
    /\ MoreToDrain
    /\ \E due \in SUBSET pending : Release(due)
    /\ UNCHANGED <<bufferVars, i, sequence, encodeVars, receiveVars, playVars>>

(* send_to fails with at least one due packet unsent: main returns 1. *)
SendFails ==
    /\ \E next \in {"await", "receive"} : ReleasePass(next)
    /\ MoreToDrain
    /\ \E due \in SUBSET pending : due # pending /\ Release(due)
    /\ GoTo("failed", "stop")
    /\ UNCHANGED <<bufferVars, i, sequence, encodeVars, receiveVars, playVars>>
-----------------------------------------------------------------------------
(* drain_receiver, one datagram at a time. *)

(* Too short, no valid header, or parse_opus_bundle rejects it.  That no    *)
(* other sender makes well-formed datagrams is assumed.                    *)
ReceiveInvalid ==
    /\ step = "receive" /\ invalid_datagrams < MaxInvalid
    /\ datagrams' = datagrams + 1
    /\ invalid_datagrams' = invalid_datagrams + 1
    /\ UNCHANGED <<pathVars, bufferVars, controlVars, encodeVars, received, arrived,
                   latecomers, playVars>>

(* push is called whether or not the packet's playout has passed, and its  *)
(* result is ignored.                                                      *)
ReceivePacket(seq) ==
    /\ step = "receive" /\ Deliver(seq)
    /\ datagrams' = datagrams + 1
    /\ received' = received + 1
    /\ Buffer!Push(seq, seq)
    /\ arrived' = arrived \union {seq}
    /\ latecomers' = latecomers \union (IF seq < Upcoming THEN {seq} ELSE {})
    /\ UNCHANGED <<controlVars, encodeVars, invalid_datagrams, playVars>>

(* receive_from reports an error: main returns 1. *)
ReceiveFails ==
    /\ step = "receive"
    /\ GoTo("failed", "stop")
    /\ UNCHANGED <<pathVars, bufferVars, i, sequence, encodeVars, receiveVars, playVars>>

(* receive_from reports that no datagram is waiting: on to the frame to    *)
(* play, or another round of the loop.                                     *)
Quiet(next) ==
    /\ step = "receive"
    /\ GoTo(phase, next)
    /\ UNCHANGED <<pathVars, bufferVars, i, sequence, encodeVars, receiveVars, playVars>>

BreakEarly == phase = "send" /\ pending = {} /\ received >= sent /\ Quiet("play")
AwaitMore == phase = "send" /\ ~(pending = {} /\ received >= sent) /\ Quiet("await")
DrainRound == phase = "drain" /\ Quiet("await")
TailReceived == phase = "tail" /\ Quiet("play")

ReceiveDeadline ==
    /\ phase = "send" /\ step = "await"
    /\ GoTo("send", "play")
    /\ UNCHANGED <<pathVars, bufferVars, i, sequence, encodeVars, receiveVars, playVars>>
-----------------------------------------------------------------------------
(* play_expected_frame. *)
Entry(status, audio) == [status |-> status, audio |-> audio]

(* decode_opus_packet on the expected packet.  A failed decode is counted  *)
(* neither as decoded nor as concealed, and silence is played.             *)
PlayPrimary(seq) ==
    /\ Buffer!PopHit(seq)
    /\ \/ /\ stats' = [stats EXCEPT !.decoded = @ + 1]
          /\ output' = Append(output, Entry("decoded", Buffer!Content(seq)))
       \/ /\ stats.opus_decode_errors < MaxDecodeErrors
          /\ stats' = [stats EXCEPT !.opus_decode_errors = @ + 1]
          /\ output' = Append(output, Entry("decoded", Silence))

(* Mutant of Carriers: the search stops one packet short. *)
CarriersShort(seq) ==
    {n \in 1..(RedundancyFrames - 1) :
        Buffer!Holds(seq + n) /\ seq \in repairs[Buffer!Content(seq + n)]}

(* find_redundant_packet: the lookaheads at which a copy is found. *)
Carriers(seq) ==
    {n \in 1..RedundancyFrames :
        Buffer!Holds(seq + n) /\ seq \in repairs[Buffer!Content(seq + n)]}

(* The decoders tried for a missing frame, until one succeeds. *)
Attempts(seq) ==
    (IF Carriers(seq) # {} THEN <<"opus_redundant">> ELSE <<>>)
    \o (IF UseFec /\ Buffer!Holds(seq + 1) THEN <<"opus_fec">> ELSE <<>>)
    \o <<"opus_plc">>

(* Mutant of Count: a recovered frame is counted as concealed as well. *)
CountTwice(counters, status) ==
    IF status = "opus_redundant"
    THEN [counters EXCEPT !.decoded = @ + 1, !.redundancy_recovered = @ + 1,
                          !.concealed = @ + 1]
    ELSE IF status = "opus_fec"
    THEN [counters EXCEPT !.concealed = @ + 1, !.fec_recovered = @ + 1]
    ELSE [counters EXCEPT !.concealed = @ + 1, !.plc_generated = @ + 1]

(* What the successful decoder counts. *)
Count(counters, status) ==
    IF status = "opus_redundant"
    THEN [counters EXCEPT !.decoded = @ + 1, !.redundancy_recovered = @ + 1]
    ELSE IF status = "opus_fec"
    THEN [counters EXCEPT !.concealed = @ + 1, !.fec_recovered = @ + 1]
    ELSE [counters EXCEPT !.concealed = @ + 1, !.plc_generated = @ + 1]

(* The first failures attempts fail and the next one, if any, succeeds. *)
PlayMissing(seq) ==
    /\ Buffer!PopMiss(seq)
    /\ \E failures \in 0..Len(Attempts(seq)) :
          LET status == Attempts(seq)[failures + 1]
              failed == [stats EXCEPT !.opus_decode_errors = @ + failures]
          IN  /\ failed.opus_decode_errors <= MaxDecodeErrors
              /\ IF failures = Len(Attempts(seq))
                 THEN /\ stats' = failed
                      /\ output' = Append(output, Entry("opus_plc", Silence))
                 ELSE /\ stats' = Count(failed, status)
                      /\ output' = Append(output, Entry(status,
                                      IF status = "opus_redundant" THEN seq ELSE Synthetic))

PlayExpectedFrame(seq) == PlayPrimary(seq) \/ PlayMissing(seq)

PlayTick ==
    /\ phase = "send" /\ step = "play"
    /\ IF i >= jitter_depth_frames THEN PlayExpectedFrame(i - jitter_depth_frames)
                     ELSE UNCHANGED <<bufferVars, playVars>>
    /\ i' = i + 1
    /\ GoTo("send", "schedule")
    /\ UNCHANGED <<pathVars, sequence, encodeVars, receiveVars>>

SendLoopEnds ==
    /\ phase = "send" /\ step = "schedule" /\ i = FrameCount
    /\ GoTo("drain", "await")
    /\ UNCHANGED <<pathVars, bufferVars, i, sequence, encodeVars, receiveVars, playVars>>

(* Mutant of TailStart: a stream shorter than the depth is not played, as  *)
(* if the unsigned subtraction had wrapped around.                         *)
TailStartWrapped ==
    IF FrameCount >= jitter_depth_frames THEN FrameCount - jitter_depth_frames ELSE FrameCount

TailStart ==
    IF FrameCount > jitter_depth_frames THEN FrameCount - jitter_depth_frames ELSE 0

StartTail ==
    /\ phase = "drain" /\ step = "await"
    /\ sequence' = TailStart
    /\ GoTo("tail", "release")
    /\ UNCHANGED <<pathVars, bufferVars, i, encodeVars, receiveVars, playVars>>

DrainCompletes == ~MoreToDrain /\ StartTail

(* Clock::now() has reached drain_until. *)
DrainDeadline == MoreToDrain /\ StartTail

PlayTail ==
    /\ phase = "tail" /\ step = "play"
    /\ PlayExpectedFrame(sequence)
    /\ sequence' = sequence + 1
    /\ IF sequence + 1 < FrameCount THEN GoTo("tail", "release")
                                    ELSE GoTo("done", "stop")
    /\ UNCHANGED <<pathVars, i, encodeVars, receiveVars>>

(* External: a datagram is lost on the way. *)
NetworkLoses ==
    /\ Running
    /\ \E seq \in network : Lose(seq)
    /\ UNCHANGED <<bufferVars, controlVars, encodeVars, receiveVars, playVars>>

(* main has returned. *)
Returned == ~Running /\ UNCHANGED vars

Receive == ReceiveInvalid \/ \E seq \in network : ReceivePacket(seq)

(* The calls that may fail, and end main with 1. *)
Failure == EncodeFails \/ SendFails \/ ReceiveFails

Program ==
    \/ SchedulePacket \/ ReleaseDuePackets \/ Receive \/ BreakEarly \/ AwaitMore
    \/ DrainRound \/ TailReceived \/ ReceiveDeadline \/ PlayTick \/ SendLoopEnds
    \/ DrainCompletes \/ DrainDeadline \/ PlayTail

Next == Program \/ Failure \/ NetworkLoses \/ Returned

Spec == Init /\ [][Next]_vars

(* The thread keeps running, with no help from a call that fails, and a    *)
(* loop that keeps testing its deadline finds it expired.                  *)
FairSpec ==
    /\ Spec
    /\ WF_vars(Program)
    /\ SF_vars(ReceiveDeadline)
    /\ SF_vars(DrainDeadline)
=============================================================================
