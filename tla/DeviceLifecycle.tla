--------------------------- MODULE DeviceLifecycle ---------------------------
(***************************************************************************)
(* How the three programs with an audio device acquire what they use and   *)
(* how main gives it back on each of its ways out: explicit calls on some, *)
(* the destructors of main's locals on all.  Meanwhile the device's thread *)
(* runs callbacks on playback_state, a local of main.                      *)
(***************************************************************************)
EXTENDS Naturals, Sequences

Programs == {"pcm", "opus", "lab"}

VARIABLES
    program, play_audio, record,    \* which main, and its options
    at,                     \* position in Order[program]
    failed,                 \* the step that failed, or "none"
    todo,                   \* release calls before the return
    phase,                  \* setup, releasing, returned
    held,                   \* what main has acquired and not released
    playback_device,        \* none, initialized, started, stopping
    callback,               \* whether playback_callback is running
    playback_state,         \* whether main's local is alive
    patched                 \* whether the recording's header was patched

options == <<program, play_audio, record>>
progress == <<options, at, failed, todo, phase>>
outcome == <<callback, playback_state, patched>>
lifecycleVars == <<progress, held, playback_device, outcome>>

(* What main does in order, the part with the frames being "stream". *)
Order ==
    [pcm |-> <<"receiver", "sender", "init", "start", "recorder", "stream">>,
     opus |-> <<"encoder", "decoder", "receiver", "sender", "recorder", "init", "start", "stream">>,
     lab |-> <<"init", "start", "stream">>]

Holdable == {"receiver", "sender", "recorder", "encoder", "decoder"}

Wanted(step) ==
    /\ step \in {"init", "start"} => play_audio
    /\ step = "recorder" => record

LifecycleInit ==
    /\ program \in Programs /\ play_audio \in BOOLEAN /\ record \in BOOLEAN
    /\ program = "lab" => (play_audio /\ ~record)
    /\ at = 1 /\ failed = "none" /\ todo = <<>> /\ phase = "setup"
    /\ held = {} /\ playback_device = "none" /\ callback = FALSE
    /\ playback_state = TRUE /\ patched = FALSE

(* playback_started, and then playback_device_initialized is true as well;  *)
(* in the Lab audio_ok.                                                    *)
Playing == playback_device = "started"
-----------------------------------------------------------------------------
(* The calls main makes after a failed step, or after none.  The PCM        *)
(* program stops the device when the recording cannot be opened, and       *)
(* releases nothing by hand when the stream fails.                         *)
PcmReleases(step) ==
    CASE step = "start" -> <<"uninit">>
      [] step = "recorder" /\ Playing -> <<"stop", "uninit">>
      [] step = "none" /\ Playing -> <<"stop", "uninit", "close">>
      [] step = "none" /\ ~Playing -> <<"close">>
      [] OTHER -> <<>>

(* Mutant of OpusReleases: cleanup destroys the codec and no more. *)
OpusReleasesCodec(step) ==
    CASE step = "encoder" -> <<>>
      [] step = "decoder" -> <<"encoder">>
      [] step = "start" -> <<"uninit", "close", "decoder", "encoder">>
      [] step = "none" /\ Playing -> <<"stop", "uninit", "close", "decoder", "encoder">>
      [] OTHER -> <<"decoder", "encoder">>

(* Mutant of OpusReleases: a failed start takes the way of a failed stream. *)
OpusReleasesAfterStart(step) ==
    CASE step = "encoder" -> <<>>
      [] step = "decoder" -> <<"encoder">>
      [] step = "start" -> <<"uninit", "close", "uninit", "decoder", "encoder">>
      [] step \in {"stream", "none"} /\ Playing ->
            <<"close", "stop", "uninit", "decoder", "encoder">>
      [] OTHER -> <<"close", "decoder", "encoder">>

(* The Opus program releases what it holds, on each way out. *)
OpusReleases(step) ==
    CASE step = "encoder" -> <<>>
      [] step = "decoder" -> <<"encoder">>
      [] step \in {"receiver", "sender", "recorder"} -> <<"decoder", "encoder">>
      [] step = "start" -> <<"uninit", "close", "decoder", "encoder">>
      [] step = "stream" /\ Playing -> <<"close", "stop", "uninit", "decoder", "encoder">>
      [] step = "none" /\ Playing -> <<"stop", "uninit", "close", "decoder", "encoder">>
      [] OTHER -> <<"close", "decoder", "encoder">>

(* The Lab runs without a device when there is none: audio_ok. *)
LabReleases == IF Playing THEN <<"stop", "uninit">> ELSE <<>>

Releases(step) ==
    CASE program = "pcm" -> PcmReleases(step)
      [] program = "opus" -> OpusReleases(step)
      [] program = "lab" -> LabReleases

Return(step) ==
    /\ failed' = IF step = "none" THEN failed ELSE step
    /\ phase' = "releasing" /\ todo' = Releases(step)

Doing(step) ==
    /\ phase = "setup" /\ at <= Len(Order[program])
    /\ step = Order[program][at]

SkipStep ==
    \E step \in {"init", "start", "recorder"} :
       /\ Doing(step) /\ ~Wanted(step)
       /\ at' = at + 1
       /\ UNCHANGED <<options, failed, todo, phase, held, playback_device, outcome>>

Acquire ==
    \E step \in Holdable :
       /\ Doing(step) /\ Wanted(step)
       /\ held' = held \union {step}
       /\ at' = at + 1
       /\ UNCHANGED <<options, failed, todo, phase, playback_device, outcome>>

BringUpDevice ==
    \E step \in {"init", "start"} :
       /\ Doing(step) /\ Wanted(step)
       /\ playback_device' = IF step = "init" THEN "initialized" ELSE "started"
       /\ at' = at + 1
       /\ UNCHANGED <<options, failed, todo, phase, held, outcome>>

EndStream ==
    /\ Doing("stream")
    /\ Return("none")
    /\ UNCHANGED <<options, at, held, playback_device, outcome>>

(* main returns 1, the Lab goes on without a device and knows no failure    *)
(* of its stream.                                                          *)
Fail ==
    /\ \E step \in Holdable \union {"init", "start", "stream"} :
          /\ Doing(step) /\ Wanted(step)
          /\ IF program = "lab"
             THEN /\ step # "stream"
                  /\ at' = Len(Order[program]) /\ failed' = step /\ UNCHANGED <<phase, todo>>
             ELSE Return(step) /\ UNCHANGED at
    /\ UNCHANGED <<options, held, playback_device, outcome>>
-----------------------------------------------------------------------------
Due(call) == phase = "releasing" /\ todo # <<>> /\ Head(todo) = call

(* Mutant of DeviceStop: callbacks are not waited for. *)
DeviceStopAtOnce ==
    /\ Due("stop")
    /\ playback_device' = "initialized"
    /\ todo' = Tail(todo)
    /\ UNCHANGED <<options, at, failed, phase, held, outcome>>

(* ma_device_stop: no callback begins any more, and the last one is waited  *)
(* for.                                                                    *)
DeviceStop ==
    /\ Due("stop")
    /\ \/ playback_device = "started" /\ playback_device' = "stopping" /\ UNCHANGED todo
       \/ /\ playback_device = "stopping" /\ ~callback
          /\ playback_device' = "initialized" /\ todo' = Tail(todo)
    /\ UNCHANGED <<options, at, failed, phase, held, outcome>>

DeviceUninit ==
    /\ Due("uninit")
    /\ playback_device' = "none"
    /\ todo' = Tail(todo)
    /\ UNCHANGED <<options, at, failed, phase, held, outcome>>

(* recorder.close, which does nothing when there is no recording. *)
CloseRecorder ==
    /\ Due("close")
    /\ patched' = (patched \/ "recorder" \in held)
    /\ held' = held \ {"recorder"}
    /\ todo' = Tail(todo)
    /\ UNCHANGED <<options, at, failed, phase, playback_device, callback, playback_state>>

DestroyCodec ==
    \E codec \in {"encoder", "decoder"} :
       /\ Due(codec)
       /\ held' = held \ {codec}
       /\ todo' = Tail(todo)
       /\ UNCHANGED <<options, at, failed, phase, playback_device, outcome>>

(* main returns: its locals are destroyed, the codec is not a local and the *)
(* device is a structure without a destructor.                             *)
LeaveScope ==
    /\ phase = "releasing" /\ todo = <<>>
    /\ phase' = "returned"
    /\ playback_state' = FALSE
    /\ held' = held \ {"receiver", "sender", "recorder"}
    /\ UNCHANGED <<options, at, failed, todo, playback_device, callback, patched>>

(* Mutant of PlaybackBegins: callbacks go on while the device is stopping. *)
PlaybackBeginsAlways ==
    /\ playback_device \in {"started", "stopping"} /\ ~callback
    /\ callback' = TRUE
    /\ UNCHANGED <<progress, held, playback_device, playback_state, patched>>

PlaybackBegins ==
    /\ playback_device = "started" /\ ~callback
    /\ callback' = TRUE
    /\ UNCHANGED <<progress, held, playback_device, playback_state, patched>>

PlaybackEnds ==
    /\ callback
    /\ callback' = FALSE
    /\ UNCHANGED <<progress, held, playback_device, playback_state, patched>>

Returned == phase = "returned" /\ UNCHANGED lifecycleVars

MainThread ==
    \/ SkipStep \/ Acquire \/ BringUpDevice \/ EndStream \/ Fail
    \/ DeviceStop \/ DeviceUninit \/ CloseRecorder \/ DestroyCodec \/ LeaveScope

LifecycleNext == MainThread \/ PlaybackBegins \/ PlaybackEnds \/ Returned

LifecycleSpec == LifecycleInit /\ [][LifecycleNext]_lifecycleVars

(* main's thread runs, and a callback that was begun ends. *)
FairLifecycleSpec == LifecycleSpec /\ WF_lifecycleVars(MainThread) /\ WF_lifecycleVars(PlaybackEnds)
-----------------------------------------------------------------------------
(* Type invariant. *)
LifecycleTypeOK ==
    /\ program \in Programs /\ play_audio \in BOOLEAN /\ record \in BOOLEAN
    /\ at \in 1..Len(Order[program])
    /\ phase \in {"setup", "releasing", "returned"}
    /\ held \subseteq Holdable
    /\ "recorder" \in held => record
    /\ playback_device \in {"none", "initialized", "started", "stopping"}
    /\ playback_device # "none" => play_audio
    /\ callback \in BOOLEAN /\ playback_state \in BOOLEAN /\ patched \in BOOLEAN

(* main of the PCM program returned 1 from one of its loops. *)
PcmStreamFailed == program = "pcm" /\ failed = "stream"

(* No callback ever runs on a playback_state that is gone, on any way out   *)
(* of any program, except that the PCM program leaves its device running   *)
(* when the stream fails.                                                  *)
CallbackStateAlive == callback => (playback_state \/ PcmStreamFailed)

(* When main has returned, encoder, decoder and device are released, except *)
(* after a failed PCM stream and for a Lab device that did not start.      *)
EverythingReleased ==
    phase = "returned" =>
        /\ held = {}
        /\ \/ playback_device = "none"
           \/ PcmStreamFailed
           \/ (program = "lab" /\ failed = "start")

(* Nothing is released that is not held: encoder and decoder exactly once,  *)
(* and the device is stopped before it is uninitialised.                   *)
ReleasedOnce ==
    /\ Due("stop") => playback_device \in {"started", "stopping"}
    /\ Due("uninit") => playback_device = "initialized" /\ ~callback
    /\ \A codec \in {"encoder", "decoder"} : Due(codec) => codec \in held

(* Every recording that was begun gets its header, also when the device or  *)
(* the stream fails, except in the PCM program when the stream does (it    *)
(* begins its recording only after the device).                            *)
RecordingPatched ==
    phase = "returned" /\ record /\ failed \notin {"encoder", "decoder", "receiver", "sender",
                                                   "recorder"}
        => patched \/ PcmStreamFailed \/ (program = "pcm" /\ failed \in {"init", "start"})

(* Waiting for the last callback never keeps main from returning. *)
EveryWayOutReturns == <>(phase = "returned")

(* On every way out everything is released, and in the right order. *)
ReleasedInOrder == LifecycleTypeOK /\ EverythingReleased /\ ReleasedOnce /\ RecordingPatched

=============================================================================
