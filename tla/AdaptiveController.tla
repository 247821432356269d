-------------------------- MODULE AdaptiveController --------------------------
(***************************************************************************)
(* AdaptiveJitterController: the playout depth from the gaps between       *)
(* arrivals.  Loopback takes any depth its clamp admits; this is how the   *)
(* depth is computed.                                                      *)
(*                                                                         *)
(* kAlpha is 2/25, so that after n gaps in whole milliseconds mean and     *)
(* deviation are numerators over 25^(n - 1), exactly.  What double         *)
(* arithmetic rounds differently shows only where std::ceil is handed the  *)
(* quotient of a deviation that ought to be whole, and where a deviation   *)
(* underflows after thousands of equal gaps.  The variance is left out:    *)
(* nothing is computed from it.                                            *)
(***************************************************************************)
EXTENDS Integers, FiniteSetsExt

CONSTANTS MinDepth, MaxDepth,       \* min_depth_frames_, max_depth_frames_
          NominalMs,                \* nominal_frame_ms_
          Gaps,                     \* gaps between arrivals, in milliseconds
          MaxObservations           \* bound: gaps observed

ASSUME DepthAssumption == MinDepth \in Nat /\ MaxDepth \in Nat /\ MinDepth <= MaxDepth
ASSUME GapAssumption == NominalMs \in Nat \ {0} /\ Gaps \subseteq Nat
ASSUME ObservationAssumption == MaxObservations \in Nat

VARIABLES
    observations,
    mean, deviation,        \* mean_inter_arrival_ms, mean_abs_deviation_ms,
    denominator,            \* both over this
    target_depth_frames,
    deepest,                \* max_target_depth_frames
    shortest, longest,      \* history: the gaps observed so far, and the
    latest                  \* one observed last

depthVars == <<observations, mean, deviation, denominator, target_depth_frames, deepest,
               shortest, longest, latest>>

Distance(a, b) == IF a >= b THEN a - b ELSE b - a

SmoothedDeviation(gap) == 23 * deviation + 2 * Distance(gap * denominator, mean)

(* Mutant of SmoothedMean: the old mean keeps its whole weight. *)
HeavyMean(gap) == 25 * mean + 2 * gap * denominator

SmoothedMean(gap) == 23 * mean + 2 * gap * denominator

Ceil(a, b) == (a + b - 1) \div b

(* Mutant of LateGap: the whole gap, the period included. *)
WholeGap(gap) == gap

LateGap(gap) == Max({0, gap - NominalMs})

(* Mutant of ExtraDepths: the deviation counts once. *)
ExtraDepthsNarrow(gap, spread, over) ==
    {Ceil(Max({spread, LateGap(gap) * over}), NominalMs * over)}

(* Mutant of ExtraDepths: a late gap is worth one frame, however late. *)
ExtraDepthsOne(gap, spread, over) ==
    {Ceil(Max({2 * spread, Min({LateGap(gap), NominalMs}) * over}), NominalMs * over)}

(* extra_depth, for a deviation of spread / over. *)
ExtraDepths(gap, spread, over) ==
    LET budget == Max({2 * spread, LateGap(gap) * over})
        frame == NominalMs * over
        mayRoundUp == 2 * spread = budget /\ budget > 0 /\ budget % frame = 0 /\ over > 1
    IN  {Ceil(budget, frame)} \union (IF mayRoundUp THEN {Ceil(budget, frame) + 1} ELSE {})

Clamped(depth) == Min({Max({depth, MinDepth}), MaxDepth})

DepthInit ==
    /\ observations = 0 /\ mean = 0 /\ deviation = 0 /\ denominator = 1
    /\ target_depth_frames = MinDepth /\ deepest = MinDepth
    /\ shortest = 0 /\ longest = 0 /\ latest = 0

ObserveInterArrival(gap) ==
    /\ observations < MaxObservations
    /\ mean' = IF observations = 0 THEN gap ELSE SmoothedMean(gap)
    /\ deviation' = IF observations = 0 THEN 0 ELSE SmoothedDeviation(gap)
    /\ denominator' = IF observations = 0 THEN 1 ELSE 25 * denominator
    /\ observations' = observations + 1
    /\ \E extra \in ExtraDepths(gap, deviation', denominator') :
          target_depth_frames' = Clamped(MinDepth + extra)
    /\ deepest' = Max({deepest, target_depth_frames'})
    /\ shortest' = IF observations = 0 THEN gap ELSE Min({shortest, gap})
    /\ longest' = Max({longest, gap}) /\ latest' = gap

DepthNext == \E gap \in Gaps : ObserveInterArrival(gap)

DepthSpec == DepthInit /\ [][DepthNext]_depthVars
-----------------------------------------------------------------------------
(* Type invariant: the depth stays between its limits, which is all that   *)
(* Loopback assumes of it.                                                 *)
DepthTypeOK ==
    /\ observations \in 0..MaxObservations /\ mean \in Nat /\ deviation \in Nat
    /\ denominator \in Nat \ {0}
    /\ target_depth_frames \in MinDepth..MaxDepth
    /\ deepest \in target_depth_frames..MaxDepth

(* The estimate stays inside what was observed: the mean between the        *)
(* shortest and the longest gap, the deviation within their difference.    *)
(* And it heeds what it observes: a gap that stands out from the mean it    *)
(* has drawn to itself leaves a deviation in proportion.                   *)
EstimateInside ==
    observations > 0 =>
        /\ mean \in (shortest * denominator)..(longest * denominator)
        /\ deviation <= (longest - shortest) * denominator
        /\ 23 * deviation >= 2 * Distance(latest * denominator, mean)

(* frames more than the least depth last as long as the last gap was late,  *)
(* and as twice the deviation.                                             *)
Covers(frames) ==
    /\ frames * NominalMs >= latest - NominalMs
    /\ frames * NominalMs * denominator >= 2 * deviation

(* The depth is enough for both, short of its limit, and one frame less     *)
(* would not be, or would just be where the quotient is rounded up.        *)
DepthCovers ==
    LET frames == target_depth_frames - MinDepth
    IN  observations > 0 =>
            /\ Covers(frames) \/ target_depth_frames = MaxDepth
            /\ frames > 0 => \/ ~Covers(frames - 1)
                             \/ (frames - 1) * NominalMs * denominator = 2 * deviation

(* In terms of the gaps alone: the depth exceeds the least one only by the  *)
(* frames that twice their spread, or the longest being late, fill.        *)
DepthIsExplained ==
    target_depth_frames <=
        MinDepth + Ceil(Max({0, 2 * (longest - shortest), longest - NominalMs}), NominalMs)

(* Gaps that differ once are never forgotten: a depth above the least one   *)
(* may shrink, but not to the least one again.                             *)
NeverBackToMinimum == deepest > MinDepth => target_depth_frames > MinDepth

(* Gaps of the nominal length, however many, leave the depth where it       *)
(* began, and a single gap longer than that raises it.                     *)
SteadyStaysShallow ==
    observations > 0 =>
        ((deepest = MinDepth) <=> (MinDepth = MaxDepth
                                  \/ (shortest = longest /\ longest <= NominalMs)))

(* The depth is what the gaps account for, neither more nor less: it covers *)
(* the last gap's lateness and twice the deviation with no frame to spare, *)
(* on an estimate that the gaps observed bound from both sides.            *)
DepthIsJustified ==
    /\ DepthTypeOK /\ EstimateInside /\ DepthCovers
    /\ DepthIsExplained /\ NeverBackToMinimum /\ SteadyStaysShallow
=============================================================================
