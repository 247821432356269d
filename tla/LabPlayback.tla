----------------------------- MODULE LabPlayback -----------------------------
(***************************************************************************)
(* The preview playback of the Lossy Audio Lab: the GUI thread simulates,  *)
(* starts, pauses, seeks and clears; the audio device's thread calls       *)
(* playback_callback at any time; the file dialog answers on a thread of   *)
(* its own.  Every critical section of playback.mutex and                  *)
(* file_dialog_state.mutex is one step, so what a step decides may be      *)
(* stale in the next.                                                      *)
(*                                                                         *)
(* The audio of a result is its run number and its length; a playback      *)
(* buffer is the run it was made from and its size.                        *)
(***************************************************************************)
EXTENDS Naturals

CONSTANTS Lengths,              \* possible sizes of result.samples, 0 on an error
          TailSamples,          \* kPlaybackTailSilenceSamples
          CallbackSizes,        \* frame_count of a callback
          MaxRuns,              \* bound: simulations
          MaxInputs             \* bound: inputs of the user

ASSUME LengthsAssumption == Lengths \subseteq Nat
ASSUME TailAssumption == TailSamples \in Nat \ {0}
ASSUME CallbackSizesAssumption == CallbackSizes \subseteq Nat \ {0}
ASSUME BoundsAssumption == MaxRuns \in Nat /\ MaxInputs \in Nat

VARIABLES
    gui,                    \* position of main: simulating, idle, closed
    audio_ok,
    result,                 \* the last simulation's run number and length
    samples, cursor, playing, callback_underruns, rendered_samples,   \* PlaybackState
    origin,                 \* history: the cursor when playback last started
    dialog,                 \* whether the system's file dialog is on the screen
    selected_path, message, \* FileDialogState: whether the optional has a value
    file_dialog_open,
    inputs                  \* inputs so far

playback == <<samples, cursor, playing, callback_underruns, rendered_samples, origin>>
dialogVars == <<dialog, selected_path, message, file_dialog_open>>
vars == <<gui, audio_ok, result, playback, dialogVars, inputs>>

NoSamples == [run |-> 0, size |-> 0]

(* make_playback_samples: the tail of silence follows the audio. *)
MakePlaybackSamples == [run |-> result.run, size |-> result.length + TailSamples]

(* main starts the device, which may fail, and then simulates a first time. *)
Init ==
    /\ gui = "simulating" /\ audio_ok \in BOOLEAN
    /\ result = [run |-> 0, length |-> 0]
    /\ samples = NoSamples /\ cursor = 0 /\ playing = FALSE
    /\ callback_underruns = 0 /\ rendered_samples = 0 /\ origin = 0
    /\ dialog = FALSE /\ selected_path = FALSE /\ message = FALSE
    /\ file_dialog_open = FALSE /\ inputs = 0

(* The user does something while the GUI thread is in its event loop. *)
Input ==
    /\ gui = "idle" /\ inputs < MaxInputs
    /\ inputs' = inputs + 1
-----------------------------------------------------------------------------
ClearPlayback ==
    /\ samples' = NoSamples /\ cursor' = 0 /\ playing' = FALSE
    /\ UNCHANGED <<callback_underruns, rendered_samples, origin>>

(* Mutant of RunWithSeedPolicy: the preview is stopped but kept. *)
RunAndOnlyStop ==
    /\ result.run < MaxRuns
    /\ gui' = "simulating"
    /\ playing' = FALSE
    /\ UNCHANGED <<samples, cursor, callback_underruns, rendered_samples, origin>>

(* clear_playback, and the simulation begins. *)
RunWithSeedPolicy ==
    /\ result.run < MaxRuns
    /\ gui' = "simulating"
    /\ ClearPlayback

(* Simulate, a preset or the test tone. *)
Simulate ==
    /\ Input
    /\ RunWithSeedPolicy
    /\ UNCHANGED <<audio_ok, result, dialogVars>>

SimulationEnds(length) ==
    /\ gui = "simulating"
    /\ gui' = "idle"
    /\ result' = [run |-> result.run + 1, length |-> length]
    /\ UNCHANGED <<audio_ok, playback, dialogVars, inputs>>

(* load_selected_audio_path: a file that does not load changes a text only. *)
LoadSelectedAudioPath ==
    \/ RunWithSeedPolicy
    \/ UNCHANGED <<gui, playback>>

LoadAudio ==
    /\ Input
    /\ LoadSelectedAudioPath
    /\ UNCHANGED <<audio_ok, result, dialogVars>>

(* Mutant of StartFrom: the counters are kept. *)
StartAndKeepCounting(position) ==
    /\ playing' = TRUE
    /\ cursor' = position /\ origin' = position
    /\ UNCHANGED <<callback_underruns, rendered_samples>>

(* Where resume_or_start_playback and seek_playback_buffer end. *)
StartFrom(position) ==
    /\ playing' = TRUE
    /\ cursor' = position /\ origin' = position
    /\ callback_underruns' = 0 /\ rendered_samples' = 0

(* Mutant of Resumed: the tail counts as audio. *)
ResumedInBuffer == IF cursor >= samples.size THEN 0 ELSE cursor

(* A preview that was left in its tail, or has ended, starts again. *)
Resumed == IF cursor >= result.length THEN 0 ELSE cursor

(* Play Preview.  The early return for empty samples is never taken: main   *)
(* tests them first and a playback buffer has at least its tail.           *)
ResumeOrStartPlayback ==
    /\ Input
    /\ audio_ok /\ result.length > 0
    /\ IF samples.size = 0
       THEN samples' = MakePlaybackSamples /\ StartFrom(0)
       ELSE UNCHANGED samples /\ StartFrom(Resumed)
    /\ UNCHANGED <<gui, audio_ok, result, dialogVars>>

StopPlayback ==
    /\ Input
    /\ playing' = FALSE
    /\ UNCHANGED <<gui, audio_ok, result, samples, cursor, callback_underruns,
                   rendered_samples, origin, dialogVars>>

(* A click on the seek bar or the waveform, with or without a device. *)
SeekPlaybackBuffer(position) ==
    /\ Input
    /\ result.length > 0 /\ position < result.length
    /\ samples' = IF samples.size = 0 \/ samples.size < result.length
                  THEN MakePlaybackSamples ELSE samples
    /\ StartFrom(position)
    /\ UNCHANGED <<gui, audio_ok, result, dialogVars>>

(* The window is closed: main stops the device and returns. *)
CloseWindow ==
    /\ gui = "idle"
    /\ gui' = "closed"
    /\ UNCHANGED <<audio_ok, result, playback, dialogVars, inputs>>
-----------------------------------------------------------------------------
(* The device's thread. *)

(* Mutant of PlayRest: the end is counted and playing stays set. *)
PlayRestForever ==
    /\ cursor' = samples.size
    /\ rendered_samples' = rendered_samples + samples.size - cursor
    /\ callback_underruns' = callback_underruns + 1
    /\ UNCHANGED playing

(* Mutant of PlayRest: the end of the buffer does not end the playback. *)
PlayRestSilently ==
    /\ cursor' = samples.size
    /\ rendered_samples' = rendered_samples + samples.size - cursor
    /\ UNCHANGED <<callback_underruns, playing>>

(* The callback meets the end of the buffer. *)
PlayRest ==
    /\ cursor' = samples.size
    /\ rendered_samples' = rendered_samples + samples.size - cursor
    /\ callback_underruns' = callback_underruns + 1
    /\ playing' = FALSE

PlayWhole(frame_count) ==
    /\ cursor' = cursor + frame_count
    /\ rendered_samples' = rendered_samples + frame_count
    /\ UNCHANGED <<callback_underruns, playing>>

(* A callback while nothing plays writes zeros and changes nothing. *)
PlaybackCallback(frame_count) ==
    /\ audio_ok /\ gui # "closed" /\ playing
    /\ IF frame_count > samples.size - cursor THEN PlayRest ELSE PlayWhole(frame_count)
    /\ UNCHANGED <<gui, audio_ok, result, samples, origin, dialogVars, inputs>>
-----------------------------------------------------------------------------
(* The file dialog. *)
Browse ==
    /\ Input
    /\ ~file_dialog_open
    /\ file_dialog_open' = TRUE /\ dialog' = TRUE
    /\ UNCHANGED <<gui, audio_ok, result, playback, selected_path, message>>

(* It is answered with a path, or with an error or a cancellation. *)
FileDialogCallback ==
    /\ dialog /\ gui # "closed"
    /\ dialog' = FALSE
    /\ \/ selected_path' = TRUE /\ UNCHANGED message
       \/ message' = TRUE /\ UNCHANGED selected_path
    /\ UNCHANGED <<gui, audio_ok, result, playback, file_dialog_open, inputs>>

(* Mutant of PollDialog: a cancelled dialog leaves the flag set. *)
PollDialogForPath ==
    /\ gui = "idle" /\ (selected_path \/ message)
    /\ selected_path' = FALSE /\ message' = FALSE
    /\ IF selected_path THEN LoadSelectedAudioPath /\ file_dialog_open' = FALSE
                        ELSE UNCHANGED <<gui, playback, file_dialog_open>>
    /\ UNCHANGED <<audio_ok, result, dialog, inputs>>

(* main takes the answer and acts on it after the mutex is released. *)
PollDialog ==
    /\ gui = "idle" /\ (selected_path \/ message)
    /\ selected_path' = FALSE /\ message' = FALSE /\ file_dialog_open' = FALSE
    /\ IF selected_path THEN LoadSelectedAudioPath ELSE UNCHANGED <<gui, playback>>
    /\ UNCHANGED <<audio_ok, result, dialog, inputs>>

Closed == gui = "closed" /\ UNCHANGED vars

Callback == \E frame_count \in CallbackSizes : PlaybackCallback(frame_count)
Simulation == \E length \in Lengths : SimulationEnds(length)

Next ==
    \/ Simulate \/ Simulation \/ LoadAudio
    \/ ResumeOrStartPlayback \/ StopPlayback
    \/ \E position \in 0..(result.length - 1) : SeekPlaybackBuffer(position)
    \/ Callback
    \/ Browse \/ FileDialogCallback \/ PollDialog
    \/ CloseWindow \/ Closed

Spec == Init /\ [][Next]_vars

(* The device keeps calling back, simulations end and the event loop turns; *)
(* nothing is assumed of the user.                                         *)
FairSpec == Spec /\ WF_vars(Callback) /\ WF_vars(Simulation) /\ WF_vars(PollDialog)
-----------------------------------------------------------------------------
(* Type invariant. *)
TypeOK ==
    /\ gui \in {"simulating", "idle", "closed"}
    /\ audio_ok \in BOOLEAN
    /\ result \in [run : Nat, length : Nat]
    /\ samples \in [run : Nat, size : Nat]
    /\ cursor \in 0..samples.size /\ playing \in BOOLEAN
    /\ callback_underruns \in Nat /\ rendered_samples \in Nat /\ origin \in Nat
    /\ dialog \in BOOLEAN /\ selected_path \in BOOLEAN /\ message \in BOOLEAN
    /\ file_dialog_open \in BOOLEAN
    /\ inputs \in Nat

(* No preview of an earlier run is ever kept: the buffer is rebuilt only    *)
(* when it is empty, so it must have been cleared before each new result,  *)
(* and nothing may refill it or play while the simulation runs.            *)
BufferMatchesResult ==
    \/ samples = NoSamples /\ ~playing
    \/ gui # "simulating" /\ samples = MakePlaybackSamples

(* The counters on the screen belong to this playback: between seeks,       *)
(* pauses and callbacks, exactly the samples from the last start up to the *)
(* cursor were rendered.                                                   *)
RenderedSinceStart == samples = NoSamples \/ rendered_samples = cursor - origin

(* An underrun is the natural end of a preview and is counted once: it      *)
(* leaves nothing playing, and a preview that plays has none.              *)
UnderrunOnlyAtEnd ==
    /\ callback_underruns \in 0..1
    /\ callback_underruns = 1 => ~playing /\ cursor = samples.size

(* While a dialog is on the screen, or its answer waits, file_dialog_open   *)
(* is set and Browse refuses a second one; otherwise Browse is usable.     *)
DialogAccounted ==
    /\ file_dialog_open = (dialog \/ selected_path \/ message)
    /\ ~(dialog /\ (selected_path \/ message))

(* However a preview is started, audio is heard and not only the silence    *)
(* that follows it, wherever the callback had left the cursor.             *)
StartsInAudio == [][~playing /\ playing' => cursor' < result.length]_vars

(* A preview ends by itself, or when it is stopped, unless it was started   *)
(* without a device, which only the seek bar allows.                       *)
PreviewEnds == playing /\ audio_ok ~> ~playing \/ gui = "closed"

(* The preview on the screen fits its result, over well-typed state. *)
PreviewFits == TypeOK /\ BufferMatchesResult /\ RenderedSinceStart /\ UnderrunOnlyAtEnd

=============================================================================
