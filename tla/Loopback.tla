------------------------------ MODULE Loopback ------------------------------
(***************************************************************************)
(* main of apps/udp_audio_loopback.cpp: one thread sends a frame every     *)
(* 10 ms through the impaired path, receives what comes back into the      *)
(* jitter buffer, and plays the expected frame or conceals it.             *)
(*                                                                         *)
(* The loops of main are the values of phase, the position inside a loop   *)
(* is step.  Clocks and sleeps are abstracted: a loop that runs until a    *)
(* deadline may end at any test of its condition.                          *)
(***************************************************************************)
EXTENDS ImpairedPath, Sequences

CONSTANTS FrameCount,   \* options.frame_count
          Capacity,     \* kJitterCapacityFrames
          MinDepth,     \* kJitterDepthFrames
          MaxDepth,     \* kAdaptiveMaxJitterDepthFrames, MinDepth if fixed
          MaxInvalid,   \* bound: foreign datagrams the socket receives
          NoFrame,      \* an empty slot of the jitter buffer
          Concealed     \* a frame made by synthesize_missing_frame

ASSUME FrameCountAssumption == FrameCount \in Nat \ {0}
ASSUME DepthAssumption ==
    MinDepth \in Nat \ {0} /\ MaxDepth \in Nat /\ MinDepth <= MaxDepth
ASSUME RingAssumption == Capacity \in Nat /\ Capacity >= 4 /\ MaxDepth < Capacity
ASSUME InvalidAssumption == MaxInvalid \in Nat
ASSUME FrameAssumption ==
    /\ NoFrame \notin 0..(FrameCount - 1)
    /\ Concealed \notin 0..(FrameCount - 1)

SequenceNumbers == 0..(FrameCount - 1)

VARIABLES
    frames, sequences, occupied, bufferStats,           \* FixedJitterBuffer
    phase,                  \* which loop of main
    step,                   \* position inside that loop
    i,                      \* the send loop's counter
    settled,                \* rounds of the settling loop
    next_play_sequence,
    target_depth,           \* current_target_depth()
    datagrams, invalid_datagrams, late_datagrams, received, \* LoopbackStats
    played, concealed,                                      \* LoopbackStats
    ontime,                 \* history: sequence numbers buffered on arrival
    output                  \* history: frames handed to playback, in order

bufferVars == <<frames, sequences, occupied, bufferStats>>
controlVars == <<phase, step, i, settled>>
playVars == <<next_play_sequence, played, concealed, output>>
receiveVars == <<target_depth, datagrams, invalid_datagrams, late_datagrams,
                 received, ontime>>
vars == <<pathVars, bufferVars, controlVars, playVars, receiveVars>>

(* A frame is identified with its sequence number; the buffer moves it.    *)
Buffer == INSTANCE FixedJitterBuffer
             WITH Sequences <- SequenceNumbers, Frames <- SequenceNumbers,
                  EmptyFrame <- NoFrame

Init ==
    /\ PathInit
    /\ Buffer!Init
    /\ phase = "send" /\ step = "schedule" /\ i = 0 /\ settled = 0
    /\ next_play_sequence = 0 /\ played = 0 /\ concealed = 0 /\ output = <<>>
    /\ target_depth = MinDepth
    /\ datagrams = 0 /\ invalid_datagrams = 0 /\ late_datagrams = 0
    /\ received = 0 /\ ontime = {}

GoTo(newPhase, newStep) == phase' = newPhase /\ step' = newStep

Running == phase \notin {"done", "failed"}
-----------------------------------------------------------------------------
(* Send loop: frame i enters the impaired path. *)
SchedulePacket ==
    /\ phase = "send" /\ step = "schedule" /\ i < FrameCount
    /\ Schedule(i)
    /\ GoTo("send", "release")
    /\ UNCHANGED <<bufferVars, i, settled, playVars, receiveVars>>

(* The passes of release_due_packets: after scheduling, in the 2 ms        *)
(* receive loop, before each tail frame, and in the final drain loop.      *)
ReleasePass(next) ==
    \/ phase = "send" /\ step = "release" /\ next = "await"
    \/ phase = "send" /\ step = "await" /\ next = "drain"
    \/ phase = "tail" /\ step = "release" /\ next = "drain"
    \/ phase = "final" /\ step = "await" /\ pending # {} /\ next = "drain"

ReleaseDuePackets ==
    /\ \E next \in {"await", "drain"} : ReleasePass(next) /\ GoTo(phase, next)
    /\ \E due \in SUBSET pending : Release(due)
    /\ UNCHANGED <<bufferVars, i, settled, playVars, receiveVars>>

(* send_to fails with at least one due packet unsent: main returns 1. *)
SendFails ==
    /\ \E next \in {"await", "drain"} : ReleasePass(next)
    /\ \E due \in SUBSET pending : due # pending /\ Release(due)
    /\ GoTo("failed", "stop")
    /\ UNCHANGED <<bufferVars, i, settled, playVars, receiveVars>>

(* Clock::now() has reached receive_until. *)
ReceiveDeadline ==
    /\ phase = "send" /\ step = "await"
    /\ GoTo("send", "play")
    /\ UNCHANGED <<pathVars, bufferVars, i, settled, playVars, receiveVars>>
-----------------------------------------------------------------------------
(* drain_receiver, one datagram at a time. *)
Draining == step = "drain"

(* Too short, or not a valid header and size.  That no other sender makes   *)
(* well-formed datagrams, whose sequence is not checked, is assumed.       *)
ReceiveInvalid ==
    /\ Draining /\ invalid_datagrams < MaxInvalid
    /\ datagrams' = datagrams + 1
    /\ invalid_datagrams' = invalid_datagrams + 1
    /\ UNCHANGED <<pathVars, bufferVars, controlVars, playVars, target_depth,
                   late_datagrams, received, ontime>>

(* Mutant of IsLate: the check against next_play_sequence is missing. *)
NeverLate(seq) == FALSE

IsLate(seq) == seq < next_play_sequence

ReceiveLate(seq) ==
    /\ Draining /\ Deliver(seq) /\ IsLate(seq)
    /\ datagrams' = datagrams + 1
    /\ late_datagrams' = late_datagrams + 1
    /\ UNCHANGED <<bufferVars, controlVars, playVars, target_depth,
                   invalid_datagrams, received, ontime>>

(* Mutant of ObserveInterArrival: the target is not clamped to the maximum. *)
ObserveUnclamped ==
    IF received = 0 THEN target_depth' = target_depth
                    ELSE target_depth' \in MinDepth..(MaxDepth + 1)

(* observe_inter_arrival, from the second accepted packet on.  The clamp   *)
(* keeps the target in range; the gaps it depends on are abstracted.       *)
ObserveInterArrival ==
    IF received = 0 THEN target_depth' = target_depth
                    ELSE target_depth' \in MinDepth..MaxDepth

(* make_buffered_frame and push, whose result is ignored. *)
ReceiveFrame(seq) ==
    /\ Draining /\ Deliver(seq) /\ ~IsLate(seq)
    /\ datagrams' = datagrams + 1
    /\ ObserveInterArrival
    /\ received' = received + 1
    /\ Buffer!Push(seq, seq)
    /\ ontime' = ontime \union {seq}
    /\ UNCHANGED <<controlVars, playVars, invalid_datagrams, late_datagrams>>

(* Mutant of BreakEarly: the comparison of received with sent is missing. *)
BreakWhenNothingPending ==
    /\ phase = "send" /\ Draining
    /\ pending = {}
    /\ GoTo("send", "play")
    /\ UNCHANGED <<pathVars, bufferVars, i, settled, playVars, receiveVars>>

(* receive_from reports that no datagram is waiting.  The send loop leaves *)
(* its receive loop early when everything sent has been received.          *)
BreakEarly ==
    /\ phase = "send" /\ Draining
    /\ pending = {} /\ received >= sent
    /\ GoTo("send", "play")
    /\ UNCHANGED <<pathVars, bufferVars, i, settled, playVars, receiveVars>>

AwaitMore ==
    /\ phase = "send" /\ Draining
    /\ ~(pending = {} /\ received >= sent)
    /\ GoTo("send", "await")
    /\ UNCHANGED <<pathVars, bufferVars, i, settled, playVars, receiveVars>>

DrainedForTail ==
    /\ phase = "tail" /\ Draining
    /\ GoTo("tail", "play")
    /\ UNCHANGED <<pathVars, bufferVars, i, settled, playVars, receiveVars>>

DrainedFinal ==
    /\ phase = "final" /\ Draining
    /\ GoTo("final", "await")
    /\ UNCHANGED <<pathVars, bufferVars, i, settled, playVars, receiveVars>>

(* Mutant of Settle: the round counter is not advanced. *)
SettleForever ==
    /\ phase = "settle" /\ Draining
    /\ GoTo("settle", "drain")
    /\ UNCHANGED <<pathVars, bufferVars, i, settled, playVars, receiveVars>>

(* Three rounds; then main closes the devices and returns 0. *)
Settle ==
    /\ phase = "settle" /\ Draining
    /\ settled' = settled + 1
    /\ IF settled < 2 THEN GoTo("settle", "drain") ELSE GoTo("done", "stop")
    /\ UNCHANGED <<pathVars, bufferVars, i, playVars, receiveVars>>

(* receive_from reports an error: main returns 1. *)
ReceiveFails ==
    /\ Draining
    /\ GoTo("failed", "stop")
    /\ UNCHANGED <<pathVars, bufferVars, i, settled, playVars, receiveVars>>
-----------------------------------------------------------------------------
(* play_expected_frame and the increment that follows every call of it.    *)
PlayBuffered ==
    /\ Buffer!PopHit(next_play_sequence)
    /\ played' = played + 1
    /\ output' = Append(output, Buffer!Content(next_play_sequence))
    /\ UNCHANGED concealed

Conceal ==
    /\ Buffer!PopMiss(next_play_sequence)
    /\ concealed' = concealed + 1
    /\ output' = Append(output, Concealed)
    /\ UNCHANGED played

(* Mutant of PlayExpectedFrame: a concealed frame is not stepped over. *)
PlayAndStayOnMiss ==
    \/ PlayBuffered /\ next_play_sequence' = next_play_sequence + 1
    \/ Conceal /\ UNCHANGED next_play_sequence

PlayExpectedFrame ==
    /\ PlayBuffered \/ Conceal
    /\ next_play_sequence' = next_play_sequence + 1

(* Mutant of PlayoutDue: off by one. *)
PlayoutDueLate == next_play_sequence + target_depth < i

(* End of a send tick: at most one frame is played, and none while the     *)
(* stream is less than the target depth behind the sender.                 *)
PlayoutDue == next_play_sequence + target_depth <= i

PlayTick ==
    /\ phase = "send" /\ step = "play"
    /\ IF PlayoutDue THEN PlayExpectedFrame ELSE UNCHANGED <<bufferVars, playVars>>
    /\ i' = i + 1
    /\ GoTo("send", "schedule")
    /\ UNCHANGED <<pathVars, settled, receiveVars>>

SendLoopEnds ==
    /\ phase = "send" /\ step = "schedule" /\ i = FrameCount
    /\ IF next_play_sequence < FrameCount THEN GoTo("tail", "release")
                                          ELSE GoTo("final", "await")
    /\ UNCHANGED <<pathVars, bufferVars, i, settled, playVars, receiveVars>>

(* Mutant of PlayTail: the last tail frame is left out. *)
PlayTailShort ==
    /\ phase = "tail" /\ step = "play"
    /\ PlayExpectedFrame
    /\ IF next_play_sequence + 2 < FrameCount THEN GoTo("tail", "release")
                                              ELSE GoTo("final", "await")
    /\ UNCHANGED <<pathVars, i, settled, receiveVars>>

PlayTail ==
    /\ phase = "tail" /\ step = "play"
    /\ PlayExpectedFrame
    /\ IF next_play_sequence + 1 < FrameCount THEN GoTo("tail", "release")
                                              ELSE GoTo("final", "await")
    /\ UNCHANGED <<pathVars, i, settled, receiveVars>>

(* The final drain stops when nothing is pending or at its deadline. *)
FinalDrainEnds ==
    /\ phase = "final" /\ step = "await"
    /\ GoTo("settle", "drain")
    /\ UNCHANGED <<pathVars, bufferVars, i, settled, playVars, receiveVars>>

(* External: a datagram is lost on the way. *)
NetworkLoses ==
    /\ Running
    /\ \E seq \in network : Lose(seq)
    /\ UNCHANGED <<bufferVars, controlVars, playVars, receiveVars>>

(* main has returned. *)
Returned == ~Running /\ UNCHANGED vars

Receive ==
    \/ ReceiveInvalid
    \/ \E seq \in network : ReceiveLate(seq) \/ ReceiveFrame(seq)

(* The calls that may fail, and end main with 1. *)
Failure == SendFails \/ ReceiveFails

Program ==
    \/ SchedulePacket \/ ReleaseDuePackets \/ ReceiveDeadline
    \/ Receive \/ BreakEarly \/ AwaitMore \/ DrainedForTail \/ DrainedFinal
    \/ Settle \/ PlayTick \/ SendLoopEnds \/ PlayTail \/ FinalDrainEnds

Next == Program \/ Failure \/ NetworkLoses \/ Returned

Spec == Init /\ [][Next]_vars

(* The thread keeps running, with no help from a call that fails, and time *)
(* passes: a loop that keeps testing its deadline finds it expired.        *)
FairSpec ==
    /\ Spec
    /\ WF_vars(Program)
    /\ SF_vars(ReceiveDeadline)
    /\ SF_vars(FinalDrainEnds)
=============================================================================
