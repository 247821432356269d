----------------------------- MODULE SinePlayback -----------------------------
(***************************************************************************)
(* apps/udp_audio_miniaudio_playback.cpp: main fills the queue, starts a   *)
(* thread that adds a frame every 10 ms until the time is up, and the      *)
(* device, whose thread plays them; it joins the one and stops the other.  *)
(*                                                                         *)
(* The queue between the threads is what SpscRingBuffer promises, a        *)
(* BoundedFifo: its n-th item (from 0) is the n-th frame accepted, and     *)
(* sample k of that frame is the number n * kFrameSamples + k.  A thread   *)
(* that has not seen the other's last steps may find it full or empty, but *)
(* the device's sees what was pushed before it started.                    *)
(***************************************************************************)
EXTENDS Integers, Sequences, FiniteSets

CONSTANTS QueueLimit,           \* kQueueCapacityFrames - 1
          kFrameSamples,
          PrerollFrames,        \* 4
          MaxFrames,            \* bound: frames of duration_seconds
          CallbackSamples,      \* sample counts data_callback is called with
          MaxRendered           \* bound: samples rendered

ASSUME QueueAssumption == QueueLimit \in Nat /\ kFrameSamples \in Nat \ {0}
ASSUME FramesAssumption == PrerollFrames \in Nat /\ MaxFrames \in Nat
ASSUME CallbackAssumption == CallbackSamples \subseteq Nat \ {0} /\ MaxRendered \in Nat

VARIABLES
    main,                   \* preroll, init, start, join, stop, uninit, returned
    producer,               \* none, check, push, done
    running,
    device,                 \* none, initialized, started, stopping
    sequence,               \* of the next frame, main's and then producer's
    queue,
    produced_frames, dropped_producer_frames, queue_underruns, rendered_device_frames,
    current_frame, current_offset,
    remaining,              \* frame_count - written of the running callback
    heard                   \* history: what the device was given, Zero where filled

threadVars == <<main, producer, running, device>>
pushVars == <<sequence, queue, produced_frames, dropped_producer_frames>>
renderVars == <<queue_underruns, rendered_device_frames, current_frame, current_offset,
                remaining, heard>>
vars == <<threadVars, pushVars, renderVars>>

Fifo == INSTANCE BoundedFifo
           WITH Limit <- QueueLimit, pushed <- produced_frames, last <- current_frame

Zero == -1

Init ==
    /\ main = "preroll" /\ producer = "none" /\ running = TRUE /\ device = "none"
    /\ sequence = 0 /\ dropped_producer_frames = 0
    /\ Fifo!Init
    /\ queue_underruns = 0 /\ rendered_device_frames = 0
    /\ current_offset = kFrameSamples /\ remaining = 0 /\ heard = <<>>
-----------------------------------------------------------------------------
(* push_sine_frame: the tone goes on whether or not the frame is accepted.  *)
PushSineFrame ==
    /\ sequence < PrerollFrames + MaxFrames
    /\ sequence' = sequence + 1
    /\ \/ Fifo!Push /\ UNCHANGED dropped_producer_frames
       \/ /\ produced_frames >= QueueLimit
          /\ dropped_producer_frames' = dropped_producer_frames + 1
          /\ UNCHANGED <<queue, produced_frames, current_frame>>

Preroll ==
    /\ main = "preroll"
    /\ IF sequence < PrerollFrames
       THEN PushSineFrame /\ UNCHANGED <<threadVars, queue_underruns, rendered_device_frames,
                                         current_offset, remaining, heard>>
       ELSE /\ main' = "init"
            /\ UNCHANGED <<producer, running, device, pushVars, renderVars>>

InitDevice ==
    /\ main = "init"
    /\ \/ main' = "start" /\ device' = "initialized" /\ producer' = "check"
       \/ main' = "returned" /\ UNCHANGED <<device, producer>>
    /\ UNCHANGED <<running, pushVars, renderVars>>

(* Mutant of StartDevice: a device that fails is given up without the join. *)
StartDeviceOrLeave ==
    /\ main = "start"
    /\ \/ device' = "started" /\ main' = "join" /\ UNCHANGED running
       \/ running' = FALSE /\ main' = "uninit" /\ UNCHANGED device
    /\ UNCHANGED <<producer, pushVars, renderVars>>

StartDevice ==
    /\ main = "start"
    /\ main' = "join"
    /\ \/ device' = "started" /\ UNCHANGED running
       \/ running' = FALSE /\ UNCHANGED device
    /\ UNCHANGED <<producer, pushVars, renderVars>>

JoinProducer ==
    /\ main = "join" /\ producer = "done"
    /\ main' = IF device = "started" THEN "stop" ELSE "uninit"
    /\ UNCHANGED <<producer, running, device, pushVars, renderVars>>

(* ma_device_stop: no callback begins any more, and the last one is waited  *)
(* for.                                                                    *)
StopDevice ==
    /\ main = "stop"
    /\ \/ device = "started" /\ device' = "stopping" /\ UNCHANGED main
       \/ device = "stopping" /\ remaining = 0 /\ device' = "initialized" /\ main' = "uninit"
    /\ UNCHANGED <<producer, running, pushVars, renderVars>>

UninitDevice ==
    /\ main = "uninit"
    /\ device' = "none" /\ main' = "returned"
    /\ UNCHANGED <<producer, running, pushVars, renderVars>>

Main == Preroll \/ InitDevice \/ StartDevice \/ JoinProducer \/ StopDevice \/ UninitDevice
-----------------------------------------------------------------------------
(* Mutant of LoopAgain: either reason is enough. *)
LoopWhileRunning(timeIsUp) == running \/ ~timeIsUp

LoopAgain(timeIsUp) == running /\ ~timeIsUp

(* The head of produce_sine_frames's loop.  The clock reaches stop_time     *)
(* when MaxFrames frames were made, or before if the thread came late.     *)
CheckTime ==
    /\ producer = "check"
    /\ \E timeIsUp \in BOOLEAN :
          /\ sequence = PrerollFrames + MaxFrames => timeIsUp
          /\ IF LoopAgain(timeIsUp)
             THEN producer' = "push" /\ UNCHANGED running
             ELSE producer' = "done" /\ running' = FALSE
    /\ UNCHANGED <<main, device, pushVars, renderVars>>

Produce ==
    /\ producer = "push"
    /\ PushSineFrame
    /\ producer' = "check"
    /\ UNCHANGED <<main, running, device, queue_underruns, rendered_device_frames,
                   current_offset, remaining, heard>>

Producer == CheckTime \/ Produce
-----------------------------------------------------------------------------
(* data_callback, on the device's thread. *)
CallbackBegins(frame_count) ==
    /\ device = "started" /\ remaining = 0
    /\ rendered_device_frames + frame_count <= MaxRendered
    /\ remaining' = frame_count
    /\ UNCHANGED <<threadVars, pushVars, queue_underruns, rendered_device_frames,
                   current_frame, current_offset, heard>>

NeedsFrame == remaining > 0 /\ current_offset >= kFrameSamples

Lesser(a, b) == IF a < b THEN a ELSE b

(* Mutant of NextFrame: the frame is played from its second sample on. *)
NextFrameLate ==
    /\ NeedsFrame
    /\ Fifo!Pop
    /\ current_offset' = 1
    /\ UNCHANGED <<threadVars, sequence, dropped_producer_frames, queue_underruns,
                   rendered_device_frames, remaining, heard>>

NextFrame ==
    /\ NeedsFrame
    /\ Fifo!Pop
    /\ current_offset' = 0
    /\ UNCHANGED <<threadVars, sequence, dropped_producer_frames, queue_underruns,
                   rendered_device_frames, remaining, heard>>

(* Mutant of Underrun: the samples filled in are not counted. *)
UnderrunUncounted ==
    /\ NeedsFrame /\ current_frame + 1 >= Lesser(PrerollFrames, QueueLimit)
    /\ heard' = heard \o [k \in 1..remaining |-> Zero]
    /\ queue_underruns' = queue_underruns + 1
    /\ remaining' = 0
    /\ UNCHANGED <<threadVars, pushVars, rendered_device_frames, current_frame, current_offset>>

Underrun ==
    /\ NeedsFrame /\ current_frame + 1 >= Lesser(PrerollFrames, QueueLimit)
    /\ heard' = heard \o [k \in 1..remaining |-> Zero]
    /\ queue_underruns' = queue_underruns + 1
    /\ rendered_device_frames' = rendered_device_frames + remaining
    /\ remaining' = 0
    /\ UNCHANGED <<threadVars, pushVars, current_frame, current_offset>>

CopySamples ==
    /\ remaining > 0 /\ current_offset < kFrameSamples
    /\ LET count == Lesser(kFrameSamples - current_offset, remaining)
           first == current_frame * kFrameSamples + current_offset
       IN  /\ heard' = heard \o [k \in 1..count |-> first + k - 1]
           /\ remaining' = remaining - count
           /\ current_offset' = current_offset + count
           /\ rendered_device_frames' = rendered_device_frames + count
    /\ UNCHANGED <<threadVars, pushVars, queue_underruns, current_frame>>

Render == NextFrame \/ Underrun \/ CopySamples

Next == Main \/ Producer \/ (\E frame_count \in CallbackSamples : CallbackBegins(frame_count))
             \/ Render

Spec == Init /\ [][Next]_vars

(* Both threads of the program run, and a callback that was begun ends. *)
FairSpec == Spec /\ WF_vars(Main) /\ WF_vars(Producer) /\ WF_vars(Render)
-----------------------------------------------------------------------------
(* Type invariant. *)
TypeOK ==
    /\ main \in {"preroll", "init", "start", "join", "stop", "uninit", "returned"}
    /\ producer \in {"none", "check", "push", "done"}
    /\ running \in BOOLEAN /\ device \in {"none", "initialized", "started", "stopping"}
    /\ queue \in Seq(0..(sequence - 1)) /\ Len(queue) <= QueueLimit
    /\ current_frame \in -1..(sequence - 1) /\ current_offset \in 0..kFrameSamples
    /\ remaining \in 0..MaxRendered /\ heard \in Seq(Nat \union {Zero})

(* The samples of the tone among the first n that were heard. *)
AudibleAmong(n) == Cardinality({m \in 1..n : heard[m] # Zero})
Audible == AudibleAmong(Len(heard))

(* The device hears every accepted frame from its first sample on, in       *)
(* order, and silence only between two frames, whatever the producer does  *)
(* while a callback runs: a sample's number is how many were heard before. *)
HeardInOrder ==
    /\ \A n \in DOMAIN heard : heard[n] # Zero => heard[n] = AudibleAmong(n - 1)
    /\ \A n \in 1..(Len(heard) - 1) :
          heard[n] # Zero /\ heard[n + 1] = Zero => (heard[n] + 1) % kFrameSamples = 0

(* The summary adds up at any time: every frame made was produced or        *)
(* dropped, every one produced is queued or was taken, every sample the    *)
(* device was given is counted, and an underrun shows in what was heard.   *)
StatsAddUp ==
    /\ produced_frames + dropped_producer_frames = sequence
    /\ produced_frames = Len(queue) + current_frame + 1
    /\ rendered_device_frames = Len(heard)
    /\ queue_underruns <= Len(heard) - Audible

(* When main returns, on any of its ways out, nothing runs any more that    *)
(* uses its state: the producer has ended and no callback is under way.    *)
NobodyLeftBehind ==
    main = "returned" => producer \in {"none", "done"} /\ device = "none" /\ remaining = 0

(* main comes to its end: the time runs out for the producer, and the join  *)
(* and the stop are waited for in vain in no case.                         *)
MainReturns == <>(main = "returned")

(* Two threads and a callback share one queue, and part from it in order. *)
SharedInOrder == TypeOK /\ HeardInOrder /\ StatsAddUp /\ NobodyLeftBehind

=============================================================================
