---------------------------- MODULE HoldAndDecayPlc ----------------------------
(***************************************************************************)
(* Packet loss concealment of dsp/plc.hpp: good frames enter a history     *)
(* ring, a lost frame is read back from it one estimated period ago and    *)
(* enters the ring in its turn.                                            *)
(*                                                                         *)
(* A sample is the set of what was added up for it: a received sample,     *)
(* named by its position in the signal, and how often                      *)
(* kGainDecayPerLostFrame was applied to it.  The correlation that chooses *)
(* the period is arithmetic on samples: any period it may return is taken. *)
(***************************************************************************)
EXTENDS Integers, Sequences, FiniteSetsExt

CONSTANTS FrameSamples,
          MinHistory, MinWindow,    \* 16 and 8 samples in estimate_period
          PeriodDivisor,            \* 20
          SmoothingSamples,         \* kStartSmoothingSamples
          MaxFrames                 \* bound: frames, good and lost

ASSUME FrameAssumption == FrameSamples \in Nat \ {0, 1}
ASSUME EstimateAssumption ==
    /\ MinHistory \in Nat \ {0} /\ MinWindow \in Nat /\ PeriodDivisor \in Nat \ {0}
    /\ SmoothingSamples \in Nat \ {0, 1} /\ MaxFrames \in Nat

HistorySamples == 4 * FrameSamples
Modes == {"repeat_last_frame", "periodic", "periodic_interpolated"}

VARIABLES
    mode,                   \* the mode the program was started with
    last_good_frame,
    history_,               \* slots 0..HistorySamples - 1
    history_write_index, history_size,
    concealment_gain,       \* how often the decay was multiplied into it
    signal,                 \* history: every sample of every frame
    lost,                   \* history: lost frames since the last good one
    out                     \* the frame synthesized last, or <<>>

plcVars == <<mode, last_good_frame, history_, history_write_index, history_size,
          concealment_gain, signal, lost, out>>

Zero == {}
NotWritten == {[at |-> 0, decay |-> 0]}     \* positions of the signal start at 1

Decayed(sample, gain) == {[part EXCEPT !.decay = @ + gain] : part \in sample}
-----------------------------------------------------------------------------
Index(writeIndex, offset) == (writeIndex + HistorySamples - offset) % HistorySamples

(* Mutant of Recent: the read is one slot off. *)
RecentOffByOne(ring, writeIndex, size, offset) ==
    IF size = 0 THEN Zero ELSE ring[Index(writeIndex, Min({offset + 1, size}))]

(* sample_from_recent for a whole offset. *)
Recent(ring, writeIndex, size, offset) ==
    IF size = 0 THEN Zero ELSE ring[Index(writeIndex, Min({offset, size}))]

(* sample_from_recent for a fractional one, between two neighbours: an      *)
(* offset is doubled here, so that an odd one lies in between.             *)
RecentBetween(ring, writeIndex, size, offset2) ==
    LET clamped == Min({Max({offset2, 2}), 2 * size})
        newer == clamped \div 2
        older == Min({newer + 1, size})
    IN  IF clamped % 2 = 0 THEN Recent(ring, writeIndex, size, newer)
        ELSE Recent(ring, writeIndex, size, newer) \union Recent(ring, writeIndex, size, older)

MinPeriod == Max({1, FrameSamples \div PeriodDivisor})

(* Mutant of MaxPeriod: half the history, however long. *)
MaxPeriodHalf == history_size \div 2

MaxPeriod == Min({FrameSamples, history_size \div 2})

(* Mutant of Window: two frames are compared, the delay left out of account. *)
WindowOfTwoFrames == Min({2 * FrameSamples, history_size})

Window == Min({FrameSamples, history_size - MaxPeriod})

(* The lags estimate_period may return, doubled, when it finds one.        *)
Lags ==
    IF \/ history_size < MinHistory \/ MaxPeriod <= MinPeriod \/ Window < MinWindow THEN {}
    ELSE IF mode = "periodic_interpolated"
         THEN {lag2 \in (2 * MinPeriod)..(2 * MaxPeriod) :
                  lag2 % 2 = 0 \/ MaxPeriod > MinPeriod + 1}
         ELSE {2 * period : period \in MinPeriod..MaxPeriod}
-----------------------------------------------------------------------------
(* append_history, n samples at once. *)
AppendHistory(samples, n) ==
    /\ history_' = [slot \in 0..(HistorySamples - 1) |->
                       LET k == (slot + HistorySamples - history_write_index) % HistorySamples
                       IN  IF k < n THEN samples[k + 1] ELSE history_[slot]]
    /\ history_write_index' = (history_write_index + n) % HistorySamples
    /\ history_size' = Min({history_size + n, HistorySamples})
    /\ signal' = signal \o samples

PlcInit ==
    /\ mode \in Modes
    /\ last_good_frame = [k \in 1..FrameSamples |-> Zero]
    /\ history_ = [slot \in 0..(HistorySamples - 1) |-> NotWritten]
    /\ history_write_index = 0 /\ history_size = 0 /\ concealment_gain = 0
    /\ signal = <<>> /\ lost = 0 /\ out = <<>>

AcceptGoodFrame ==
    /\ Len(signal) < MaxFrames * FrameSamples
    /\ LET frame == [k \in 1..FrameSamples |-> {[at |-> Len(signal) + k, decay |-> 0]}]
       IN  last_good_frame' = frame /\ AppendHistory(frame, FrameSamples)
    /\ concealment_gain' = 0
    /\ lost' = 0 /\ out' = <<>>
    /\ UNCHANGED mode

(* The ring with the first k samples of a frame in it, as the loop sees it. *)
RingWith(frame, k) ==
    [slot \in 0..(HistorySamples - 1) |->
        LET n == (slot + HistorySamples - history_write_index) % HistorySamples
        IN  IF n < k THEN frame[n + 1] ELSE history_[slot]]

(* What is added at the start of the frame, in the modes with whole lags.  *)
Correction(lag2) ==
    IF mode = "periodic_interpolated" \/ history_size = 0 THEN Zero
    ELSE Recent(history_, history_write_index, history_size, 1)
            \union Decayed(Recent(history_, history_write_index, history_size, lag2 \div 2),
                           concealment_gain)

(* Sample k of the frame, when the ones before it are in the ring.         *)
SynthesizedSample(k, done, lag2) ==
    LET size == Min({history_size + k - 1, HistorySamples})
        end == (history_write_index + k - 1) % HistorySamples
    IN  Decayed(RecentBetween(RingWith(done, k - 1), end, size, lag2), concealment_gain)
            \union (IF k < Min({SmoothingSamples, FrameSamples}) THEN Correction(lag2) ELSE Zero)

Synthesized(lag2) ==
    LET frame[k \in 1..FrameSamples] ==
            SynthesizedSample(k, [j \in 1..(k - 1) |-> frame[j]], lag2)
    IN  frame

LastGoodFaded == [k \in 1..FrameSamples |-> Decayed(last_good_frame[k], concealment_gain)]

(* A period may be found, and need not, however long the history is.       *)
Concealed == {LastGoodFaded} \union {Synthesized(lag2) : lag2 \in Lags}

(* Mutant of SynthesizeMissingFrame: the last good frame is repeated as it is. *)
SynthesizeWithoutDecay ==
    /\ Len(signal) < MaxFrames * FrameSamples
    /\ out' \in Concealed
    /\ AppendHistory(out', FrameSamples)
    /\ concealment_gain' = IF out' = LastGoodFaded THEN concealment_gain
                           ELSE concealment_gain + 1
    /\ lost' = lost + 1
    /\ UNCHANGED <<mode, last_good_frame>>

SynthesizeMissingFrame ==
    /\ Len(signal) < MaxFrames * FrameSamples
    /\ out' \in Concealed
    /\ AppendHistory(out', FrameSamples)
    /\ concealment_gain' = concealment_gain + 1
    /\ lost' = lost + 1
    /\ UNCHANGED <<mode, last_good_frame>>

PlcNext == AcceptGoodFrame \/ SynthesizeMissingFrame

PlcSpec == PlcInit /\ [][PlcNext]_plcVars
-----------------------------------------------------------------------------
Parts(frame) == UNION {frame[k] : k \in DOMAIN frame}

(* Type invariant. *)
PlcTypeOK ==
    /\ mode \in Modes
    /\ history_size \in 0..HistorySamples /\ history_write_index \in 0..(HistorySamples - 1)
    /\ concealment_gain \in Nat /\ lost \in Nat
    /\ \A part \in UNION {signal[k] : k \in DOMAIN signal} :
          part.at \in 1..Len(signal) /\ part.decay \in Nat

(* However often the ring has gone round, what is read from it is the       *)
(* newest samples of the signal, good and concealed, in their order.       *)
RingHoldsRecent ==
    /\ history_size = Min({Len(signal), HistorySamples})
    /\ \A offset \in 1..history_size :
          Recent(history_, history_write_index, history_size, offset)
              = signal[Len(signal) + 1 - offset]

(* The correlation never asks for a sample older than the history, where   *)
(* the clamp would compare it with the wrong one, not even for the         *)
(* neighbours of the best period.                                          *)
OffsetsInside ==
    Lags # {} => Window + MaxPeriod <= history_size /\ MinPeriod >= 1

(* The first lost frame after a good one is made of samples of that frame   *)
(* alone, at full gain: what was concealed before it does not come back.   *)
RecoveryIsFresh ==
    lost = 1 /\ Len(signal) > FrameSamples =>
        \A part \in Parts(out) :
           part.decay = 0 /\ part.at > Len(signal) - 2 * FrameSamples

(* A burst of losses fades: in the n-th lost frame the decay was applied    *)
(* n - 1 times at least, and n - 2 times to the last sample before it,     *)
(* which the start correction holds on to.                                 *)
BurstFades ==
    \A part \in Parts(out) :
       part.decay >= lost - (IF mode = "periodic_interpolated" THEN 1 ELSE 2)

(* What the ring and the fade promise, over well-typed state. *)
ConcealmentIsSound ==
    PlcTypeOK /\ RingHoldsRecent /\ OffsetsInside /\ RecoveryIsFresh /\ BurstFades

(* kGainDecayPerLostFrame is applied once per lost frame: the second lost   *)
(* frame in a row has it once, the third twice.                            *)
DecayPerLostFrame ==
    mode = "periodic_interpolated" => \A part \in Parts(out) : part.decay = lost - 1
=============================================================================
