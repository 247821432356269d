---------------------------- MODULE OpusPlayoutSim ----------------------------
(***************************************************************************)
(* sim::run_opus_playout_simulation: all frames are encoded and bundled,   *)
(* a loss schedule and arrival times are drawn, and playout is computed    *)
(* offline, frame by frame.  Random draws are nondeterministic choices;    *)
(* times are in units of which kFrameDurationMs make a frame.                 *)
(***************************************************************************)
EXTENDS Integers, Sequences, FiniteSetsExt

CONSTANTS Settings,             \* the values of OpusSimulationSettings
          kFrameDurationMs,
          MaxDecodeErrors       \* bound: decoder calls that fail

ASSUME SettingsAssumption ==
    /\ Settings \subseteq
          [frame_count : Nat \ {0}, loss_model : {"independent", "burst"},
           burst_min_frames : Nat, burst_max_frames : Nat, jitter_ms : Nat,
           redundancy_frames : Nat, jitter_depth_frames : Nat,
           recovery_mode : {"plc", "fec"}]
    /\ kFrameDurationMs \in Nat \ {0} /\ MaxDecodeErrors \in Nat

VARIABLES
    settings,
    phase,                  \* encoding, losing, playing, done, failed
    carried,                \* per bundle, the number of repairs in it
    i,                      \* position in the schedule
    dropped, arrival,       \* dropped, arrival_ms
    current_burst_length, loss_bursts, max_loss_burst_frames,
    drawn,                  \* history: the bursts drawn, by first frame and length
    statuses,               \* the status of each frame played
    stats                   \* the playout counters of the result

lossStats == <<loss_bursts, max_loss_burst_frames, drawn>>
schedule == <<i, dropped, arrival, current_burst_length, lossStats>>
vars == <<settings, phase, carried, schedule, statuses, stats>>

FrameCount == settings.frame_count
Frames == 0..(FrameCount - 1)

Clamp(value, low, high) == Max({low, Min({value, high})})

kMaxOpusRedundancyFrames == 3
EffectiveRedundancyFrames == Clamp(settings.redundancy_frames, 0, kMaxOpusRedundancyFrames)

MinBurst == Clamp(settings.burst_min_frames, 1, FrameCount)
MaxBurst == Clamp(settings.burst_max_frames, MinBurst, FrameCount)

Init ==
    /\ settings \in Settings
    /\ phase = "encoding" /\ i = 0
    /\ carried = [frame \in Frames |-> 0]
    /\ dropped = {} /\ arrival = [frame \in Frames |-> 0]
    /\ current_burst_length = 0 /\ loss_bursts = 0 /\ max_loss_burst_frames = 0
    /\ drawn = {} /\ statuses = <<>>
    /\ stats = [decoded |-> 0, redundant |-> 0, fec_attempts |-> 0, plc |-> 0,
                late_or_missing |-> 0, decode_errors |-> 0]

(* No input, or the encoder, a bundle or the decoder fails: the result has  *)
(* an error, and no frames.                                                *)
Fail ==
    /\ phase = "encoding" \/ (phase = "playing" /\ statuses = <<>>)
    /\ phase' = "failed"
    /\ UNCHANGED <<carried, schedule, statuses, stats>>

(* Each bundle holds the newest members of a history of redundancy_frames, *)
(* as many as its payload has room for.                                    *)
Encode ==
    /\ phase = "encoding" /\ phase' = "losing"
    /\ carried' \in {c \in [Frames -> 0..EffectiveRedundancyFrames] :
                       \A frame \in Frames : c[frame] <= frame}
    /\ UNCHANGED <<schedule, statuses, stats>>
-----------------------------------------------------------------------------
(* The loss schedule. *)
Losing(model) == phase = "losing" /\ settings.loss_model = model /\ i < FrameCount

(* mark_dropped_frame for count frames from i on. *)
MarkDropped(count, before) ==
    /\ dropped' = dropped \union i..(i + count - 1)
    /\ current_burst_length' = before + count
    /\ max_loss_burst_frames' = Max({max_loss_burst_frames, before + count})

Arrives(frame, jitter) == arrival' = [arrival EXCEPT ![frame] = frame * kFrameDurationMs + jitter]

(* Mutant of DropOne: every dropped frame counts as a burst. *)
DropOneBurst ==
    /\ Losing("independent")
    /\ loss_bursts' = loss_bursts + 1
    /\ MarkDropped(1, current_burst_length)
    /\ Arrives(i, 0)
    /\ i' = i + 1
    /\ UNCHANGED <<phase, carried, drawn, statuses, stats>>

(* generate_independent_loss_schedule, a frame lost. *)
DropOne ==
    /\ Losing("independent")
    /\ loss_bursts' = IF current_burst_length = 0 THEN loss_bursts + 1 ELSE loss_bursts
    /\ MarkDropped(1, current_burst_length)
    /\ Arrives(i, 0)
    /\ i' = i + 1
    /\ UNCHANGED <<phase, carried, drawn, statuses, stats>>

KeepOne(jitter) ==
    /\ Losing("independent")
    /\ current_burst_length' = 0
    /\ Arrives(i, jitter)
    /\ i' = i + 1
    /\ UNCHANGED <<phase, carried, dropped, lossStats, statuses, stats>>

(* Mutant of BurstLengths: bursts may be as short as one frame. *)
AnyLength == 1..MaxBurst

BurstLengths == MinBurst..MaxBurst

(* Mutant of DropBurst: a burst is reported at the length that was drawn. *)
DropBurstDrawn(burst_length) ==
    /\ Losing("burst")
    /\ LET count == Min({burst_length, FrameCount - i})
       IN  dropped' = dropped \union i..(i + count - 1) /\ i' = i + count
    /\ max_loss_burst_frames' = Max({max_loss_burst_frames, burst_length})
    /\ current_burst_length' = burst_length
    /\ loss_bursts' = loss_bursts + 1
    /\ drawn' = drawn \union {<<i, burst_length>>}
    /\ UNCHANGED <<phase, carried, arrival, statuses, stats>>

(* Mutant of DropBurst: a burst is counted when it starts and when it ends. *)
DropBurstTwice(burst_length) ==
    /\ Losing("burst")
    /\ LET count == Min({burst_length, FrameCount - i})
       IN  MarkDropped(count, 0) /\ i' = i + count
    /\ loss_bursts' = loss_bursts + 2
    /\ drawn' = drawn \union {<<i, burst_length>>}
    /\ UNCHANGED <<phase, carried, arrival, statuses, stats>>

(* generate_burst_loss_schedule: a burst starts here, and the end of the    *)
(* stream may cut it.                                                      *)
DropBurst(burst_length) ==
    /\ Losing("burst")
    /\ LET count == Min({burst_length, FrameCount - i})
       IN  MarkDropped(count, 0) /\ i' = i + count
    /\ loss_bursts' = loss_bursts + 1
    /\ drawn' = drawn \union {<<i, burst_length>>}
    /\ UNCHANGED <<phase, carried, arrival, statuses, stats>>

SkipOne ==
    /\ Losing("burst")
    /\ i' = i + 1
    /\ UNCHANGED <<phase, carried, dropped, arrival, current_burst_length, lossStats,
                   statuses, stats>>

(* After a burst schedule the frames that are left draw their jitter. *)
Delay ==
    /\ phase = "losing" /\ i = FrameCount /\ phase' = "playing"
    /\ IF settings.loss_model = "independent" THEN UNCHANGED arrival
       ELSE \E jitter \in [Frames \ dropped -> 0..settings.jitter_ms] :
               arrival' = [frame \in Frames |-> frame * kFrameDurationMs
                              + (IF frame \in dropped THEN 0 ELSE jitter[frame])]
    /\ UNCHANGED <<carried, i, dropped, current_burst_length, lossStats, statuses, stats>>
-----------------------------------------------------------------------------
(* Playout. *)
sequence == Len(statuses)

(* Mutant of InTime: the frame's own time is the deadline. *)
InTimeForSender(frame) ==
    frame \in Frames \ dropped /\ arrival[frame] <= sequence * kFrameDurationMs

(* Not dropped and there by playout_ms. *)
InTime(frame) ==
    /\ frame \in Frames \ dropped
    /\ arrival[frame] <= (sequence + settings.jitter_depth_frames) * kFrameDurationMs

(* Mutant of Carriers: the last lookahead is not tried. *)
CarriersShort ==
    {c \in (sequence + 1)..(sequence + EffectiveRedundancyFrames - 1) :
        InTime(c) /\ c - sequence <= carried[c]}

(* The bundles in time that hold a copy of the frame. *)
Carriers ==
    {c \in (sequence + 1)..(sequence + EffectiveRedundancyFrames) :
        InTime(c) /\ c - sequence <= carried[c]}

Status ==
    IF InTime(sequence) THEN "decoded"
    ELSE IF Carriers # {} THEN "redundant"
    ELSE IF settings.recovery_mode = "fec" /\ InTime(sequence + 1) THEN "fec_attempt"
    ELSE "plc"

(* Mutant of Counted: a redundant frame is not counted as decoded. *)
CountedOnce(status, errors) ==
    stats' = [stats EXCEPT
        !.decoded = IF status = "decoded" THEN @ + 1 ELSE @,
        !.redundant = IF status = "redundant" THEN @ + 1 ELSE @,
        !.fec_attempts = IF status = "fec_attempt" THEN @ + 1 ELSE @,
        !.plc = IF status = "plc" THEN @ + 1 ELSE @,
        !.late_or_missing = IF status # "decoded" THEN @ + 1 ELSE @,
        !.decode_errors = @ + errors]

Counted(status, errors) ==
    stats' = [stats EXCEPT
        !.decoded = IF status \in {"decoded", "redundant"} THEN @ + 1 ELSE @,
        !.redundant = IF status = "redundant" THEN @ + 1 ELSE @,
        !.fec_attempts = IF status = "fec_attempt" THEN @ + 1 ELSE @,
        !.plc = IF status = "plc" THEN @ + 1 ELSE @,
        !.late_or_missing = IF status # "decoded" THEN @ + 1 ELSE @,
        !.decode_errors = @ + errors]

(* One frame: a decoder call that fails is counted and leaves silence, and  *)
(* nothing else is tried instead.                                          *)
PlayFrame(errors) ==
    /\ phase = "playing" /\ sequence < FrameCount
    /\ stats.decode_errors + errors <= MaxDecodeErrors
    /\ statuses' = Append(statuses, Status)
    /\ Counted(Status, errors)
    /\ UNCHANGED <<phase, carried, schedule>>

Finish ==
    /\ phase = "playing" /\ sequence = FrameCount /\ phase' = "done"
    /\ UNCHANGED <<carried, schedule, statuses, stats>>

Returned == phase \in {"done", "failed"} /\ UNCHANGED vars

Steps ==
    \/ Encode \/ Fail
    \/ DropOne \/ \E jitter \in 0..settings.jitter_ms : KeepOne(jitter)
    \/ SkipOne \/ \E burst_length \in BurstLengths : DropBurst(burst_length)
    \/ Delay
    \/ \E errors \in 0..1 : PlayFrame(errors)
    \/ Finish

Next == (Steps /\ UNCHANGED settings) \/ Returned

Spec == Init /\ [][Next]_vars
-----------------------------------------------------------------------------
(* Type invariant. *)
TypeOK ==
    /\ settings \in Settings
    /\ phase \in {"encoding", "losing", "playing", "done", "failed"}
    /\ carried \in [Frames -> 0..EffectiveRedundancyFrames]
    /\ i \in 0..FrameCount /\ dropped \subseteq Frames
    /\ arrival \in [Frames -> Nat]
    /\ current_burst_length \in Nat /\ loss_bursts \in Nat
    /\ max_loss_burst_frames \in 0..FrameCount
    /\ drawn \subseteq Frames \X BurstLengths
    /\ statuses \in Seq({"decoded", "redundant", "fec_attempt", "plc"})
    /\ stats \in [decoded : Nat, redundant : Nat, fec_attempts : Nat, plc : Nat,
                  late_or_missing : Nat, decode_errors : Nat]

(* The result's counters account for every frame played: a redundant frame  *)
(* is decoded and late, and the three kinds of recovery are what was late. *)
CountersAddUp ==
    /\ stats.decoded + stats.fec_attempts + stats.plc = Len(statuses)
    /\ stats.redundant + stats.fec_attempts + stats.plc = stats.late_or_missing
    /\ stats.decode_errors <= Len(statuses)

(* When the frame numbered frame is due, the bundle is there and holds it. *)
Reaches(bundle, frame) ==
    /\ bundle \notin dropped
    /\ arrival[bundle] <= (frame + settings.jitter_depth_frames) * kFrameDurationMs
    /\ bundle >= frame /\ bundle - frame <= carried[bundle]

(* A frame is concealed only if no bundle of the whole stream, its own among *)
(* them, brings it in time, nor the next one its FEC; a repair is used only *)
(* for want of the original, and FEC for want of any copy.                 *)
BestAvailable ==
    \A n \in DOMAIN statuses :
        LET status == statuses[n]
            copies == {bundle \in Frames : Reaches(bundle, n - 1)}
        IN  /\ status = "decoded" <=> n - 1 \in copies
            /\ status \in {"fec_attempt", "plc"} <=> copies = {}
            /\ settings.recovery_mode = "fec" /\ n \in Frames \ dropped
               /\ arrival[n] <= (n - 1 + settings.jitter_depth_frames) * kFrameDurationMs
                  => status # "plc"

(* The maximal runs of consecutive dropped frames, by first and last. *)
Runs == {run \in Frames \X Frames :
            /\ run[1] <= run[2] /\ run[1]..run[2] \subseteq dropped
            /\ run[1] - 1 \notin dropped /\ run[2] + 1 \notin dropped}
Lengths == {run[2] - run[1] + 1 : run \in Runs}

(* The frames lost to a burst: the stream may end before it does. *)
Lost(burst) == Min({burst[2], FrameCount - burst[1]})
Stretch(burst) == burst[1]..(burst[1] + Lost(burst) - 1)

(* The frames dropped are those of the bursts drawn, and the result reports *)
(* as many bursts as were drawn and the longest at what was lost to it.    *)
(* One hears less: bursts that follow each other without a gap are counted *)
(* one by one, so there may be more, and shorter ones, than there are runs, *)
(* but no more than the frames dropped have room for.                      *)
BurstsAsDrawn ==
    LET longest == Max(Lengths \union {0})
    IN  /\ dropped = UNION {Stretch(burst) : burst \in drawn}
        /\ loss_bursts = Cardinality(drawn)
        /\ max_loss_burst_frames = Max({Lost(burst) : burst \in drawn} \union {0})
        /\ max_loss_burst_frames <= Min({longest, MaxBurst})
        /\ loss_bursts >= Cardinality(Runs)
        /\ loss_bursts = 0 \/ MinBurst * (loss_bursts - 1) < Cardinality(dropped)

(* loss_bursts and max_loss_burst_frames are those of the schedule: of the  *)
(* runs of dropped frames where each is drawn by itself, and of the bursts *)
(* where bursts are drawn.                                                 *)
BurstsReported ==
    i = FrameCount =>
        IF settings.loss_model = "burst" THEN BurstsAsDrawn
        ELSE /\ loss_bursts = Cardinality(Runs)
             /\ max_loss_burst_frames = Max(Lengths \union {0})

(* The burst model never loses fewer frames in a row than its minimum,      *)
(* whatever minimum and maximum were asked for, except at the stream's end. *)
DropsComeInBursts ==
    settings.loss_model = "burst" =>
        \A run \in Runs : run[2] - run[1] + 1 >= MinBurst \/ run[2] = FrameCount - 1

(* What the playout makes of the packets that arrive, over well-typed state. *)
PlayoutIsBest == TypeOK /\ CountersAddUp /\ BestAvailable

(* What is said of the losses, in both models. *)
LossesAsReported == BurstsReported /\ DropsComeInBursts
=============================================================================
