-------------------------- MODULE FramePlaybackQueue --------------------------
(***************************************************************************)
(* audio::FramePlaybackQueue as the loopback applications use it: main     *)
(* enqueues the preroll before it starts the device, then the output       *)
(* frames and the fade-out, waits until the device has rendered them all   *)
(* or a deadline passes, and stops it.  The device calls render on its own *)
(* thread, for any number of samples, and never again once stopped.        *)
(*                                                                         *)
(* Frames travel through SpscRingBuffer, step by step: its n-th item (from *)
(* 0) is the n-th frame accepted, and sample k of that frame is the number *)
(* n * kFrameSamples + k.                                                  *)
(***************************************************************************)
EXTENDS Integers, Sequences, FiniteSets

CONSTANTS Capacity,             \* kPlaybackQueueCapacityFrames
          kFrameSamples,
          PrerollFrames,        \* kPlaybackPrerollFrames
          OutputFrames,         \* frames played or concealed
          FadeOutFrames,        \* kPlaybackFadeOutFrames
          MaxDecodeErrors,      \* bound: output frames no decoder produces
          CallbackSamples,      \* sample counts render is called with
          MaxCallbacks          \* bound: calls of render

ASSUME RingAssumption ==
    Capacity \in Nat /\ Capacity >= 2 /\ \E k \in 1..Capacity : Capacity = 2^k
ASSUME SamplesAssumption == kFrameSamples \in Nat \ {0}
ASSUME CallsAssumption ==
    PrerollFrames \in Nat /\ OutputFrames \in Nat /\ FadeOutFrames \in Nat
ASSUME DecodeAssumption == MaxDecodeErrors \in Nat
ASSUME CallbackAssumption == CallbackSamples \subseteq Nat \ {0} /\ MaxCallbacks \in Nat

VARIABLES
    storage, pushes, pops, producer, consumer, producerSeen, consumerSeen,
    producerSynced, consumerSynced, value,      \* queue_
    offered,                \* enqueue calls completed by main
    undecoded,              \* output frames among them that are in neither of
                            \* the stats main adds up, decoded and concealed
    device,                 \* off, started, stopped
    current_frame,          \* the item in current_frame_
    current_offset,
    remaining,              \* sample_count - written of the running render
    callbacks,              \* calls of render so far
    playbackStats,          \* stats_
    heard                   \* history: what render wrote, Zero where filled

ringVars == <<storage, pushes, pops, producer, consumer, producerSeen, consumerSeen,
              producerSynced, consumerSynced, value>>
renderVars == <<current_frame, current_offset, remaining, callbacks, heard>>
callVars == <<offered, undecoded>>
vars == <<ringVars, renderVars, callVars, device, playbackStats>>

queue_ == INSTANCE SpscRingBuffer

Zero == -1

Total == PrerollFrames + OutputFrames + FadeOutFrames

Init ==
    /\ queue_!Init
    /\ offered = 0 /\ undecoded = 0 /\ device = "off"
    /\ current_frame = queue_!NoItem /\ current_offset = kFrameSamples
    /\ remaining = 0 /\ callbacks = 0 /\ heard = <<>>
    /\ playbackStats = [preroll_frames |-> 0, enqueued_output_frames |-> 0,
                        fadeout_frames |-> 0, dropped_output_frames |-> 0,
                        rendered_device_frames |-> 0, callback_underruns |-> 0]
-----------------------------------------------------------------------------
(* main: enqueue_preroll, enqueue_output, enqueue_fadeout. *)

(* The device runs when main enqueues anything but the preroll. *)
MayEnqueue ==
    /\ offered < Total
    /\ device = (IF offered < PrerollFrames THEN "off" ELSE "started")

(* An output frame is enqueued, as silence, even if no decoder produces it: *)
(* the Opus program counts it in neither stat.  The PCM program's frames   *)
(* are all played or concealed: MaxDecodeErrors is 0.                      *)
Offered ==
    /\ offered' = offered + 1
    /\ \/ UNCHANGED undecoded
       \/ /\ offered \in PrerollFrames..(PrerollFrames + OutputFrames - 1)
          /\ undecoded < MaxDecodeErrors
          /\ undecoded' = undecoded + 1

(* push finds the queue full and the frame is dropped, or goes on. *)
EnqueueLoad(seen) ==
    /\ MayEnqueue
    /\ queue_!PushLoad(seen)
    /\ IF queue_!FullAt(seen)
       THEN /\ Offered
            /\ playbackStats' = [playbackStats EXCEPT !.dropped_output_frames = @ + 1]
       ELSE UNCHANGED <<callVars, playbackStats>>
    /\ UNCHANGED <<renderVars, device>>

EnqueueWrite ==
    /\ queue_!PushWrite
    /\ UNCHANGED <<renderVars, callVars, device, playbackStats>>

CountAccepted ==
    playbackStats' =
        IF offered < PrerollFrames
        THEN [playbackStats EXCEPT !.preroll_frames = @ + 1]
        ELSE IF offered < PrerollFrames + OutputFrames
        THEN [playbackStats EXCEPT !.enqueued_output_frames = @ + 1]
        ELSE [playbackStats EXCEPT !.fadeout_frames = @ + 1]

EnqueuePublish ==
    /\ queue_!PushPublish
    /\ Offered
    /\ CountAccepted
    /\ UNCHANGED <<renderVars, device>>

StartDevice ==
    /\ device = "off" /\ offered = PrerollFrames
    /\ device' = "started"
    /\ UNCHANGED <<ringVars, renderVars, callVars, playbackStats>>

(* Mutant of ExpectedSamples: the preroll is not waited for. *)
ExpectedWithoutPreroll == (OutputFrames - undecoded + FadeOutFrames) * kFrameSamples

(* expected_device_frames, whatever push refused: the frames played (or    *)
(* decoded) and concealed, with preroll and fade-out.                      *)
ExpectedSamples == (PrerollFrames + (OutputFrames - undecoded) + FadeOutFrames) * kFrameSamples

(* ma_device_stop lets a running callback finish. *)
StopDevice ==
    /\ device = "started" /\ offered = Total
    /\ remaining = 0
    /\ device' = "stopped"
    /\ UNCHANGED <<ringVars, renderVars, callVars, playbackStats>>

StopAfterAll ==
    /\ playbackStats.rendered_device_frames >= ExpectedSamples
    /\ StopDevice

StopAtDeadline ==
    /\ playbackStats.rendered_device_frames < ExpectedSamples
    /\ StopDevice
-----------------------------------------------------------------------------
(* render, called by the device. *)
RenderCalled(sample_count) ==
    /\ device = "started" /\ remaining = 0 /\ callbacks < MaxCallbacks
    /\ remaining' = sample_count
    /\ callbacks' = callbacks + 1
    /\ UNCHANGED <<ringVars, current_frame, current_offset, heard, callVars, device,
                   playbackStats>>

NeedsFrame == remaining > 0 /\ current_offset >= kFrameSamples

(* Mutant of Underrun: the zeros are not counted as rendered. *)
UnderrunUncounted ==
    /\ heard' = heard \o [k \in 1..remaining |-> Zero]
    /\ playbackStats' = [playbackStats EXCEPT !.callback_underruns = @ + 1]
    /\ remaining' = 0

(* pop finds the queue empty: the rest is zeros and the call returns. *)
Underrun ==
    /\ heard' = heard \o [k \in 1..remaining |-> Zero]
    /\ playbackStats' = [playbackStats EXCEPT !.callback_underruns = @ + 1,
                                              !.rendered_device_frames = @ + remaining]
    /\ remaining' = 0

(* Mutant of PopFrameLoad: the frame's rest is filled before its end. *)
PopFrameLoadEarly(seen) ==
    /\ remaining > 0 /\ current_offset >= kFrameSamples - 1
    /\ queue_!PopLoad(seen)
    /\ IF queue_!EmptyAt(seen) THEN Underrun
                               ELSE UNCHANGED <<heard, playbackStats, remaining>>
    /\ UNCHANGED <<current_frame, current_offset, callbacks, callVars, device>>

PopFrameLoad(seen) ==
    /\ NeedsFrame
    /\ queue_!PopLoad(seen)
    /\ IF queue_!EmptyAt(seen) THEN Underrun
                               ELSE UNCHANGED <<heard, playbackStats, remaining>>
    /\ UNCHANGED <<current_frame, current_offset, callbacks, callVars, device>>

PopFrameCopy ==
    /\ queue_!PopCopy
    /\ UNCHANGED <<renderVars, callVars, device, playbackStats>>

(* Mutant of PopFramePublish: the offset is not reset. *)
PopFrameKeepOffset ==
    /\ queue_!PopPublish
    /\ current_frame' = value
    /\ current_offset' = 1
    /\ UNCHANGED <<remaining, callbacks, heard, callVars, device, playbackStats>>

PopFramePublish ==
    /\ queue_!PopPublish
    /\ current_frame' = value
    /\ current_offset' = 0
    /\ UNCHANGED <<remaining, callbacks, heard, callVars, device, playbackStats>>

SamplesToCopy ==
    IF kFrameSamples - current_offset < remaining
    THEN kFrameSamples - current_offset ELSE remaining

CopySamples ==
    /\ remaining > 0 /\ current_offset < kFrameSamples
    /\ LET count == SamplesToCopy
           first == current_frame * kFrameSamples + current_offset
       IN  /\ heard' = heard \o [k \in 1..count |-> first + k - 1]
           /\ remaining' = remaining - count
           /\ current_offset' = current_offset + count
           /\ playbackStats' =
                 [playbackStats EXCEPT !.rendered_device_frames = @ + count]
    /\ UNCHANGED <<ringVars, current_frame, callbacks, callVars, device>>

Main ==
    \/ \E seen \in producerSeen..pops : EnqueueLoad(seen)
    \/ EnqueueWrite \/ EnqueuePublish \/ StartDevice \/ StopAfterAll \/ StopAtDeadline

Device ==
    \/ \E sample_count \in CallbackSamples : RenderCalled(sample_count)
    \/ \E seen \in consumerSeen..pushes : PopFrameLoad(seen)
    \/ PopFrameCopy \/ PopFramePublish \/ CopySamples

Next == Main \/ Device

Spec == Init /\ [][Next]_vars
-----------------------------------------------------------------------------
(* Type invariant. *)
TypeOK ==
    /\ queue_!TypeOK
    /\ offered \in 0..Total /\ undecoded \in 0..MaxDecodeErrors
    /\ device \in {"off", "started", "stopped"}
    /\ current_frame \in Nat \union {queue_!NoItem}
    /\ current_offset \in 0..kFrameSamples
    /\ remaining \in Nat /\ callbacks \in 0..MaxCallbacks
    /\ playbackStats \in [preroll_frames : Nat, enqueued_output_frames : Nat,
                          fadeout_frames : Nat, dropped_output_frames : Nat,
                          rendered_device_frames : Nat, callback_underruns : Nat]
    /\ heard \in Seq(Nat \union {Zero})

(* The samples of accepted frames among the first n that were rendered. *)
AudibleAmong(n) == Cardinality({m \in 1..n : heard[m] # Zero})
Audible == AudibleAmong(Len(heard))

(* The device hears the accepted frames from the first sample on, in order *)
(* and without a sample lost or repeated, however the callback's sizes cut *)
(* them up: a sample's number is how many were heard before it.            *)
HeardInOrder ==
    \A n \in DOMAIN heard : heard[n] # Zero => heard[n] = AudibleAmong(n - 1)

(* Silence is inserted only between two frames: an underrun never cuts a   *)
(* frame in two.                                                           *)
SilenceBetweenFrames ==
    \A n \in 1..(Len(heard) - 1) :
        heard[n] # Zero /\ heard[n + 1] = Zero => (heard[n] + 1) % kFrameSamples = 0

(* Every frame offered is counted once, as accepted or dropped, and every  *)
(* sample asked for is rendered.                                           *)
StatsAddUp ==
    /\ playbackStats.preroll_frames + playbackStats.enqueued_output_frames
          + playbackStats.fadeout_frames = pushes
    /\ offered = pushes + playbackStats.dropped_output_frames
    /\ playbackStats.rendered_device_frames = Len(heard)

(* When main stops the device before the deadline, what it cuts off the    *)
(* end of the stream is accounted for, sample by sample: by the silence    *)
(* underruns have inserted, and by the frames no decoder produced, which   *)
(* main does not wait for.  Without either, everything accepted is heard,  *)
(* fade-out included.                                                      *)
CutsAccountedFor ==
    [][StopAfterAll =>
          pushes * kFrameSamples - Audible <=
             (Len(heard) - Audible) + undecoded * kFrameSamples]_vars

(* Frames and silence reach the device as they should. *)
HeardAsOffered == TypeOK /\ HeardInOrder /\ SilenceBetweenFrames

=============================================================================
