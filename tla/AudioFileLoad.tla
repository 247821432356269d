---------------------------- MODULE AudioFileLoad ----------------------------
(* load_audio_file_mono_48k of the Lossy Audio Lab: a file is read in       *)
(* pieces until it ends, fails or is as long as the Lab accepts.  The      *)
(* decoder decides how much each read returns and when it fails.           *)
EXTENDS Naturals, FiniteSetsExt

CONSTANTS FileLengths,          \* sample counts of the files
          MaxInputSamples,      \* kMaxInputSamples
          ReadBufferFrames      \* kReadBufferFrames

ASSUME LimitsAssumption ==
    /\ FileLengths \subseteq Nat
    /\ MaxInputSamples \in Nat \ {0} /\ ReadBufferFrames \in Nat \ {0}

VARIABLES load_phase,           \* opening, reading, probing, done
          file_samples,         \* samples in the file
          loaded,               \* loaded.samples.size()
          load_error, truncated,
          broken                \* history: the first read that failed, and how

loadVars == <<load_phase, file_samples, loaded, load_error, truncated, broken>>

LoadInit ==
    /\ load_phase = "opening" /\ file_samples \in FileLengths /\ loaded = 0
    /\ load_error = FALSE /\ truncated = FALSE /\ broken = "no"

(* No path, or ma_decoder_init_file fails. *)
DecoderFails ==
    /\ load_phase = "opening" /\ load_phase' = "done" /\ load_error' = TRUE
    /\ UNCHANGED <<file_samples, loaded, truncated, broken>>

DecoderOpens ==
    /\ load_phase = "opening" /\ load_phase' = "reading"
    /\ UNCHANGED <<file_samples, loaded, load_error, truncated, broken>>

(* Mutant of FramesToRead: a read is not limited by what is still missing. *)
WholeBuffer == ReadBufferFrames

FramesToRead == Min({ReadBufferFrames, MaxInputSamples - loaded})

(* The decoder returns at least one sample until the file ends, which it   *)
(* may announce with the last samples or with none.                        *)
Read ==
    /\ load_phase = "reading" /\ loaded < MaxInputSamples
    /\ \E frames_read \in 0..Min({FramesToRead, file_samples - loaded}), at_end \in BOOLEAN :
          /\ at_end => loaded + frames_read = file_samples
          /\ frames_read = 0 => at_end
          /\ loaded' = loaded + frames_read
          /\ load_phase' = IF at_end THEN "probing" ELSE "reading"
    /\ UNCHANGED <<file_samples, load_error, truncated, broken>>

(* A failing read is an error only if it also returned something: the test *)
(* of frames_read comes first.  On an error the samples are cleared.       *)
ReadFails ==
    /\ load_phase = "reading" /\ loaded < MaxInputSamples
    /\ \/ /\ broken' = "empty" /\ load_phase' = "probing"
          /\ UNCHANGED <<loaded, load_error>>
       \/ /\ file_samples > loaded
          /\ broken' = "partial" /\ load_phase' = "done" /\ load_error' = TRUE /\ loaded' = 0
    /\ UNCHANGED <<file_samples, truncated>>

LoopEnds ==
    /\ load_phase = "reading" /\ loaded >= MaxInputSamples /\ load_phase' = "probing"
    /\ UNCHANGED <<file_samples, loaded, load_error, truncated, broken>>

(* Mutant of Longer: a file that fills the limit counts as trimmed. *)
FillsLimit == loaded >= MaxInputSamples

Longer == file_samples > loaded

(* One more sample is asked for.  The probe is a read like the others, and  *)
(* may fail like them: then the file passes for no longer than was loaded. *)
ProbeOneMore ==
    /\ load_phase = "probing" /\ load_phase' = "done"
    /\ \/ truncated' = Longer /\ UNCHANGED broken
       \/ truncated' = FALSE /\ broken' = IF broken = "no" THEN "probe" ELSE broken
    /\ load_error' = (loaded = 0)
    /\ UNCHANGED <<file_samples, loaded>>

LoadNext == DecoderFails \/ DecoderOpens \/ Read \/ ReadFails \/ LoopEnds \/ ProbeOneMore

LoadSpec == LoadInit /\ [][LoadNext]_loadVars
-----------------------------------------------------------------------------
(* Type invariant. *)
LoadTypeOK ==
    /\ load_phase \in {"opening", "reading", "probing", "done"}
    /\ file_samples \in Nat /\ loaded \in 0..MaxInputSamples
    /\ load_error \in BOOLEAN /\ truncated \in BOOLEAN
    /\ broken \in {"no", "empty", "partial", "probe"}

(* An error loads nothing.  Otherwise what is loaded is the whole file or   *)
(* as much of it as the Lab accepts, and is announced as trimmed exactly   *)
(* if more was left: only a decoder that fails before the probe, returning *)
(* nothing, makes it shorter, and only one that fails before or in the     *)
(* probe keeps a trimmed file from being announced.  No file that fits is  *)
(* ever announced as trimmed.                                              *)
WholeOrTrimmed ==
    /\ LoadTypeOK
    /\ load_phase = "done" =>
          \/ load_error /\ loaded = 0
          \/ /\ loaded > 0
             /\ broken # "empty" => loaded = Min({file_samples, MaxInputSamples})
             /\ broken = "no" => (truncated <=> file_samples > loaded)
             /\ truncated => file_samples > loaded
=============================================================================
