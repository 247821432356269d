--------------------------- MODULE OpusLoopbackProofs ---------------------------
(* Proofs about the Opus receiver for every stream length, jitter buffer    *)
(* capacity, playout depth, redundancy and network behaviour.              *)
EXTENDS OpusLoopbackProperties, FiniteSetTheorems, TLAPS

Facts == INSTANCE FixedJitterBufferProofs
             WITH Sequences <- SequenceNumbers, Frames <- SequenceNumbers,
                  EmptyFrame <- NoFrame

(* Where the loops of main are, and what their counters are there. *)
Control ==
    /\ phase = "send" => step \in {"schedule", "release", "await", "receive", "play"}
    /\ phase = "send" /\ step # "schedule" => i < FrameCount
    /\ phase = "drain" => step \in {"await", "receive"}
    /\ phase \in {"drain", "tail", "done"} => i = FrameCount
    /\ phase = "tail" => /\ step \in {"release", "receive", "play"}
                         /\ TailStart <= sequence /\ sequence < FrameCount
    /\ phase = "done" => sequence = FrameCount
    /\ phase \in {"done", "failed"} => step = "stop"

(* Only numbers already scheduled are on their way or have arrived, and a   *)
(* number is pending or sent, never both.                                  *)
Travelling ==
    /\ pending \union network \union arrived \subseteq 0..i
    /\ phase = "send" /\ step = "schedule" => i \notin pending \union network \union arrived
    /\ pending \cap network = {}

(* The history holds the numbers before the next one to encode. *)
NextToEncode == IF step = "schedule" THEN i ELSE i + 1

History ==
    phase = "send" =>
        /\ Len(redundancy_history) <= NextToEncode
        /\ \A n \in 1..Len(redundancy_history) :
              redundancy_history[n] = NextToEncode - Len(redundancy_history) + n - 1

(* A bundle reaches back no further than options.redundancy_frames. *)
RepairsReach == \A seq \in SequenceNumbers : Cardinality(repairs[seq]) <= RedundancyFrames

(* The buffer holds packets that arrived, each under its own number. *)
BufferHoldsArrivals ==
    /\ Buffer!Held \subseteq arrived
    /\ \A seq \in Buffer!Held : Buffer!Content(seq) = seq

InductiveInvariant ==
    /\ EverythingInItsPlace
    /\ Control /\ Travelling /\ History /\ RepairsReach /\ BufferHoldsArrivals

(* A stream that fits the buffer loses nothing there: what arrived and was  *)
(* not played yet is held.                                                 *)
NothingRefused ==
    FrameCount <= Capacity =>
        \A packet \in arrived : packet >= Len(output) => packet \in Buffer!Held
-----------------------------------------------------------------------------
(* The names of the jitter buffer's definitions in the two instances.       *)
LEMMA SameBuffer ==
  /\ Facts!TypeOK <=> Buffer!TypeOK
  /\ Facts!Held = Buffer!Held
  /\ \A seq : Facts!Content(seq) = Buffer!Content(seq)
  BY DEF Facts!TypeOK, Buffer!TypeOK, Facts!Slots, Buffer!Slots,
         Facts!Slot, Buffer!Slot, Facts!Held, Buffer!Held,
         Facts!Holds, Buffer!Holds, Facts!Content, Buffer!Content

LEMMA SameBufferNext ==
  /\ Facts!TypeOK' <=> Buffer!TypeOK'
  /\ Facts!Held' = Buffer!Held'
  /\ \A seq : Facts!Content(seq)' = Buffer!Content(seq)'
  BY DEF Facts!TypeOK, Buffer!TypeOK, Facts!Slots, Buffer!Slots,
         Facts!Slot, Buffer!Slot, Facts!Held, Buffer!Held,
         Facts!Holds, Buffer!Holds, Facts!Content, Buffer!Content

LEMMA NumberFacts ==
  /\ Capacity \in Nat /\ Capacity >= 4
  /\ FrameCount \in Nat \ {0} /\ SequenceNumbers = 0..(FrameCount - 1)
  /\ SequenceNumbers \subseteq Nat /\ 0 \in SequenceNumbers
  BY RingAssumption, FrameCountAssumption DEF SequenceNumbers

LEMMA DepthFacts ==
  ASSUME InductiveInvariant
  PROVE  /\ jitter_depth_frames \in Nat \ {0} /\ 2 * jitter_depth_frames <= Capacity
         /\ i \in Nat /\ i <= FrameCount /\ sequence \in Nat /\ sequence <= FrameCount
         /\ FrameCount \in Nat /\ Capacity \in Nat
<1>1. jitter_depth_frames \in Depths /\ i \in 0..FrameCount /\ sequence \in 0..FrameCount
  BY DEF InductiveInvariant, EverythingInItsPlace, TypeOK
<1>2. jitter_depth_frames \in 1..Capacity /\ 2 * jitter_depth_frames <= Capacity
  BY <1>1, DepthsAssumption
<1> QED BY <1>1, <1>2, NumberFacts

(* An accepted push adds its number and moves no other. *)
LEMMA BufferInsert ==
  ASSUME Buffer!TypeOK, NEW seq \in SequenceNumbers, Buffer!Insert(seq, seq)
  PROVE  /\ Buffer!TypeOK'
         /\ Buffer!Held' = Buffer!Held \union {seq}
         /\ Buffer!Content(seq)' = seq
         /\ \A s \in Buffer!Held \ {seq} : Buffer!Content(s)' = Buffer!Content(s)
<1>1. Facts!TypeOK
  BY SameBuffer
<1>2. Facts!Insert(seq, seq)
  BY DEF Facts!Insert, Buffer!Insert, Facts!Collides, Buffer!Collides,
         Facts!Slot, Buffer!Slot
<1>3. /\ Facts!TypeOK'
      /\ Facts!Held' = Facts!Held \union {seq}
      /\ Facts!Content(seq)' = seq
      /\ \A s \in Facts!Held \ {seq} : Facts!Content(s)' = Facts!Content(s)
  BY <1>1, <1>2, NumberFacts, Facts!InsertEffect
<1> QED BY <1>3, SameBuffer, SameBufferNext

(* A pop that succeeds removes its number only. *)
LEMMA BufferPop ==
  ASSUME Buffer!TypeOK, NEW seq \in SequenceNumbers, Buffer!PopHit(seq)
  PROVE  /\ Buffer!TypeOK'
         /\ seq \in Buffer!Held
         /\ Buffer!Held' = Buffer!Held \ {seq}
         /\ \A s \in Buffer!Held \ {seq} : Buffer!Content(s)' = Buffer!Content(s)
<1>1. Facts!TypeOK
  BY SameBuffer
<1>2. Facts!PopHit(seq)
  BY DEF Facts!PopHit, Buffer!PopHit, Facts!Holds, Buffer!Holds,
         Facts!Slot, Buffer!Slot
<1>3. /\ Facts!TypeOK'
      /\ seq \in Facts!Held
      /\ Facts!Held' = Facts!Held \ {seq}
      /\ \A s \in Facts!Held \ {seq} : Facts!Content(s)' = Facts!Content(s)
  BY <1>1, <1>2, NumberFacts, Facts!PopEffect
<1> QED BY <1>3, SameBuffer, SameBufferNext

(* A refused push and a pop that finds nothing move nothing. *)
LEMMA BufferMiss ==
  ASSUME Buffer!TypeOK, NEW seq \in SequenceNumbers, Buffer!Refuse(seq) \/ Buffer!PopMiss(seq)
  PROVE  /\ Buffer!TypeOK'
         /\ Buffer!Held' = Buffer!Held
         /\ \A s \in Buffer!Held : Buffer!Content(s)' = Buffer!Content(s)
<1>1. Facts!TypeOK
  BY SameBuffer
<1>2. Facts!Refuse(seq) \/ Facts!PopMiss(seq)
  BY DEF Facts!PopMiss, Buffer!PopMiss, Facts!Holds, Buffer!Holds,
         Facts!Slot, Buffer!Slot, Facts!Refuse, Buffer!Refuse, Facts!Collides, Buffer!Collides
<1>3. /\ Facts!TypeOK'
      /\ Facts!Held' = Facts!Held
      /\ \A s \in Facts!Held : Facts!Content(s)' = Facts!Content(s)
  BY <1>1, <1>2, NumberFacts, Facts!MissEffect
<1> QED BY <1>3, SameBuffer, SameBufferNext

LEMMA BufferUnchanged ==
  ASSUME UNCHANGED bufferVars
  PROVE  /\ Buffer!TypeOK' <=> Buffer!TypeOK
         /\ Buffer!Held' = Buffer!Held
         /\ \A s : Buffer!Content(s)' = Buffer!Content(s)
  BY DEF bufferVars, Buffer!TypeOK, Buffer!Held, Buffer!Holds,
         Buffer!Content, Buffer!Slot, Buffer!Slots

(* A number that is refused shares its slot with a held one at least a      *)
(* whole capacity away.                                                    *)
LEMMA CollisionIsFar ==
  ASSUME Buffer!TypeOK, NEW seq \in SequenceNumbers, Buffer!Collides(seq)
  PROVE  \E other \in Buffer!Held : seq - other >= Capacity \/ other - seq >= Capacity
<1> DEFINE other == sequences[Buffer!Slot(seq)]
<1>2. Facts!Slot(seq) \in Facts!Slots
  BY NumberFacts, Facts!SlotInRange
<1>3. Buffer!Slot(seq) \in Buffer!Slots
  BY <1>2 DEF Facts!Slot, Buffer!Slot, Facts!Slots, Buffer!Slots
<1>4. /\ other \in SequenceNumbers /\ other # seq
      /\ Buffer!Slot(other) = Buffer!Slot(seq)
  BY <1>3 DEF Buffer!TypeOK, Buffer!Collides
<1>5. other \in Buffer!Held
  BY <1>4 DEF Buffer!Held, Buffer!Holds, Buffer!Collides
<1>6. other \in Nat /\ seq \in Nat
  BY <1>4, NumberFacts
<1>7. Facts!Slot(other) = Facts!Slot(seq)
  BY <1>4 DEF Facts!Slot, Buffer!Slot
<1> HIDE DEF other
<1>8. CASE seq < other
  <2>1. ~(other - seq < Capacity)
    BY <1>6, <1>7, <1>8, NumberFacts, Facts!SlotsDistinct
  <2> QED BY <1>5, <1>6, <2>1, NumberFacts
<1>9. CASE other < seq
  <2>1. ~(seq - other < Capacity)
    BY <1>6, <1>7, <1>9, NumberFacts, Facts!SlotsDistinct
  <2> QED BY <1>5, <1>6, <2>1, NumberFacts
<1> QED BY <1>4, <1>6, <1>8, <1>9
-----------------------------------------------------------------------------
LEMMA InitInductive == Init => InductiveInvariant
<1> SUFFICES ASSUME Init PROVE InductiveInvariant
  OBVIOUS
<1> USE DEF Init, PathInit, Buffer!Init
<1>1. Buffer!TypeOK
  BY DEF Buffer!TypeOK
<1>2. Buffer!Held = {}
  <2>1. ASSUME NEW seq \in SequenceNumbers PROVE ~Buffer!Holds(seq)
    <3>1. Facts!Slot(seq) \in Facts!Slots
      BY NumberFacts, Facts!SlotInRange
    <3> QED BY <3>1 DEF Buffer!Holds, Facts!Slot, Buffer!Slot, Facts!Slots, Buffer!Slots
  <2> QED BY <2>1 DEF Buffer!Held
<1>3. /\ redundancy_history = <<>> /\ Len(redundancy_history) = 0
      /\ RedundancyFrames \in Nat
  BY RedundancyAssumption
<1>4. TypeOK
  BY <1>1, <1>3, NumberFacts DEF TypeOK
<1>5. Control /\ Travelling /\ History
  BY <1>3, NumberFacts DEF Control, Travelling, History, NextToEncode
<1>6. BufferHoldsArrivals /\ OnlyLatecomersLinger
  BY <1>2 DEF BufferHoldsArrivals, OnlyLatecomersLinger
<1>7. jitter_depth_frames \in 1..Capacity
  BY DepthsAssumption
<1>8. EveryFrameInItsPlace
  BY <1>7, NumberFacts DEF EveryFrameInItsPlace, Upcoming
<1>9. Cardinality({}) = 0
  BY FS_EmptySet
<1>10. RepairsAreThePreviousFrames
  <2>1. ASSUME NEW seq \in SequenceNumbers, NEW older \in SequenceNumbers,
               older < seq, seq - older <= 0
        PROVE  FALSE
    BY <2>1, NumberFacts
  <2> QED BY <1>9, <2>1 DEF RepairsAreThePreviousFrames
<1>11. RepairsReach
  BY <1>3, <1>9 DEF RepairsReach
<1> QED BY <1>4, <1>5, <1>6, <1>8, <1>10, <1>11 DEF InductiveInvariant, EverythingInItsPlace
-----------------------------------------------------------------------------
(* Steps that leave the buffer, playout and what arrived as they are. *)
Untouched == UNCHANGED <<bufferVars, playVars, arrived, latecomers>>

(* Nor do they move the next frame to play, except that main may fail. *)
Settled ==
    /\ Upcoming' \in Nat /\ Upcoming' <= Upcoming
    /\ phase' # "failed" => phase # "failed" /\ Upcoming' = Upcoming
    /\ phase' = "done" => phase = "done"

LEMMA UpcomingInRange ==
  ASSUME InductiveInvariant
  PROVE  Upcoming \in 0..FrameCount
  BY DepthFacts DEF Upcoming

(* The moves of the program counter that settle. *)
LEMMA MovesSettle ==
  ASSUME InductiveInvariant, UNCHANGED <<jitter_depth_frames, i>>,
         \/ /\ sequence' = sequence
            /\ \/ phase' = phase
               \/ phase = "send" /\ i = FrameCount /\ phase' = "drain"
               \/ phase' = "failed"
         \/ phase = "drain" /\ phase' = "tail" /\ sequence' = TailStart
  PROVE  Settled
<1>1. /\ jitter_depth_frames \in Nat \ {0}
      /\ i \in Nat /\ i <= FrameCount /\ sequence \in Nat /\ sequence <= FrameCount
      /\ FrameCount \in Nat
      /\ (phase \in {"drain", "tail", "done"} => i = FrameCount)
      /\ (phase = "tail" => TailStart <= sequence)
      /\ (phase = "done" => sequence = FrameCount)
  BY DepthFacts DEF InductiveInvariant, Control
<1>2. CASE phase' = phase /\ sequence' = sequence
  BY <1>1, <1>2 DEF Settled, Upcoming
<1>3. CASE phase = "send" /\ i = FrameCount /\ phase' = "drain"
  BY <1>1, <1>3 DEF Settled, Upcoming
<1>4. CASE phase' = "failed"
  <2>1. Upcoming' = IF i >= jitter_depth_frames THEN i - jitter_depth_frames ELSE 0
    BY <1>4 DEF Upcoming
  <2>2. CASE phase \notin {"tail", "done"}
    BY <1>1, <1>4, <2>1, <2>2 DEF Settled, Upcoming
  <2>3. CASE phase = "tail"
    BY <1>1, <1>4, <2>1, <2>3 DEF Settled, Upcoming, TailStart
  <2>4. CASE phase = "done"
    BY <1>1, <1>4, <2>1, <2>4 DEF Settled, Upcoming
  <2> QED BY <2>2, <2>3, <2>4
<1>5. CASE phase = "drain" /\ phase' = "tail" /\ sequence' = TailStart
  BY <1>1, <1>5 DEF Settled, Upcoming, TailStart
<1> QED BY <1>2, <1>3, <1>4, <1>5

LEMMA UntouchedParts ==
  ASSUME InductiveInvariant, Untouched, Settled
  PROVE  /\ Buffer!TypeOK'
         /\ EveryFrameInItsPlace' /\ OnlyLatecomersLinger' /\ BufferHoldsArrivals'
<1>1. UNCHANGED <<bufferVars, bufferStats, output, arrived, latecomers>>
  BY DEF Untouched, bufferVars, playVars
<1>2. Buffer!TypeOK' /\ BufferHoldsArrivals'
  BY <1>1, BufferUnchanged
  DEF InductiveInvariant, EverythingInItsPlace, TypeOK, BufferHoldsArrivals
<1>3. EveryFrameInItsPlace'
  BY <1>1 DEF Settled, InductiveInvariant, EverythingInItsPlace, EveryFrameInItsPlace
<1>4. Upcoming \in Nat /\ Upcoming' \in Nat /\ SequenceNumbers \subseteq Nat
  BY NumberFacts, UpcomingInRange DEF Settled
<1>5. OnlyLatecomersLinger'
  <2>1. ASSUME NEW seq \in Buffer!Held, seq < Upcoming' PROVE seq \in latecomers
    <3>1. seq \in Nat
      BY <1>4 DEF Buffer!Held
    <3>2. seq < Upcoming
      BY <1>4, <2>1, <3>1 DEF Settled
    <3> QED BY <3>2 DEF InductiveInvariant, EverythingInItsPlace, OnlyLatecomersLinger
  <2> QED BY <1>1, <2>1, BufferUnchanged
          DEF InductiveInvariant, EverythingInItsPlace, OnlyLatecomersLinger
<1> QED BY <1>2, <1>3, <1>5
-----------------------------------------------------------------------------
(* Sizes of sets of sequence numbers. *)
LEMMA NumbersAreFinite ==
  ASSUME NEW S \in SUBSET SequenceNumbers
  PROVE  IsFiniteSet(S) /\ Cardinality(S) \in Nat
<1>1. IsFiniteSet(SequenceNumbers)
  BY NumberFacts, FS_Interval
<1> QED BY <1>1, FS_Subset, FS_CardinalityType

(* What encoding finds: the numbers before i, newest last. *)
LEMMA HistoryFacts ==
  ASSUME InductiveInvariant, phase = "send", step = "schedule"
  PROVE  /\ redundancy_history \in Seq(SequenceNumbers)
         /\ Len(redundancy_history) \in Nat /\ Len(redundancy_history) <= i
         /\ Len(redundancy_history) <= RedundancyFrames /\ RedundancyFrames \in Nat
         /\ repairs \in [SequenceNumbers -> SUBSET SequenceNumbers]
         /\ \A n \in 1..Len(redundancy_history) :
               redundancy_history[n] = i - Len(redundancy_history) + n - 1
<1>1. /\ redundancy_history \in Seq(SequenceNumbers)
      /\ Len(redundancy_history) <= RedundancyFrames
      /\ repairs \in [SequenceNumbers -> SUBSET SequenceNumbers]
  BY DEF InductiveInvariant, EverythingInItsPlace, TypeOK
<1>2. Len(redundancy_history) \in Nat /\ RedundancyFrames \in Nat
  BY <1>1, RedundancyAssumption
<1>3. NextToEncode = i /\ History
  BY DEF InductiveInvariant, NextToEncode
<1> QED BY <1>1, <1>2, <1>3 DEF History

(* Encoding: the bundle of frame i repairs the count frames before it. *)
LEMMA BundleRepairs ==
  ASSUME InductiveInvariant, phase = "send", step = "schedule", i < FrameCount, Bundle(i)
  PROVE  /\ repairs' \in [SequenceNumbers -> SUBSET SequenceNumbers]
         /\ RepairsAreThePreviousFrames' /\ RepairsReach'
<1>1. PICK count \in 0..Len(redundancy_history) :
          repairs' = [repairs EXCEPT ![i] = Newest(count)]
  BY DEF Bundle
<1>2. /\ redundancy_history \in Seq(SequenceNumbers)
      /\ Len(redundancy_history) \in Nat /\ Len(redundancy_history) <= i
      /\ Len(redundancy_history) <= RedundancyFrames /\ RedundancyFrames \in Nat
      /\ repairs \in [SequenceNumbers -> SUBSET SequenceNumbers]
      /\ \A n \in 1..Len(redundancy_history) :
            redundancy_history[n] = i - Len(redundancy_history) + n - 1
  BY HistoryFacts
<1>3. i \in Nat /\ i \in SequenceNumbers /\ count \in Nat /\ count <= i
  BY <1>2, DepthFacts, NumberFacts
<1>4. Newest(count) = (i - count)..(i - 1)
  <2> DEFINE len == Len(redundancy_history)
             wanted == (len - count + 1)..len
  <2>1. \A n \in wanted : redundancy_history[n] = i - len + n - 1
    BY <1>2, <1>3
  <2>2. ASSUME NEW x \in (i - count)..(i - 1)
        PROVE  /\ x - i + len + 1 \in wanted
               /\ x = i - len + (x - i + len + 1) - 1
    BY <1>2, <1>3
  <2>3. ASSUME NEW n \in wanted PROVE i - len + n - 1 \in (i - count)..(i - 1)
    BY <1>2, <1>3
  <2>4. Newest(count) = {redundancy_history[n] : n \in wanted}
    BY DEF Newest
  <2> HIDE DEF len, wanted
  <2>5. ASSUME NEW x \in (i - count)..(i - 1) PROVE x \in Newest(count)
    BY <2>1, <2>2, <2>4
  <2>6. ASSUME NEW x \in Newest(count) PROVE x \in (i - count)..(i - 1)
    BY <2>1, <2>3, <2>4
  <2> QED BY <2>5, <2>6
<1>5. Cardinality(Newest(count)) = count
  <2>1. i - count \in Int /\ i - 1 \in Int /\ (i - 1) - (i - count) + 1 = count
    BY <1>3
  <2>2. Cardinality((i - count)..(i - 1)) =
            IF i - count > i - 1 THEN 0 ELSE (i - 1) - (i - count) + 1
    BY <2>1, FS_Interval
  <2>3. Cardinality((i - count)..(i - 1)) = count
    BY <1>3, <2>2
  <2> QED BY <1>4, <2>3
<1>6. Newest(count) = {older \in SequenceNumbers : older < i /\ i - older <= count}
  <2>1. ASSUME NEW x
        PROVE  x \in (i - count)..(i - 1) <=>
                  x \in SequenceNumbers /\ x < i /\ i - x <= count
    BY <1>3, NumberFacts, DepthFacts
  <2> QED BY <1>4, <2>1
<1>7. Newest(count) \in SUBSET SequenceNumbers
  BY <1>6
<1>8. repairs' \in [SequenceNumbers -> SUBSET SequenceNumbers]
  BY <1>1, <1>2, <1>3, <1>7
<1>9. ASSUME NEW seq \in SequenceNumbers
      PROVE  /\ repairs'[seq] = {older \in SequenceNumbers :
                   older < seq /\ seq - older <= Cardinality(repairs'[seq])}
             /\ Cardinality(repairs'[seq]) <= RedundancyFrames
  <2>1. CASE seq = i
    <3>1. repairs'[seq] = Newest(count)
      BY <1>1, <1>2, <2>1
    <3>2. Cardinality(repairs'[seq]) = count
      BY <1>5, <3>1
    <3>3. repairs'[seq] = {older \in SequenceNumbers : older < seq /\ seq - older <= count}
      BY <1>6, <2>1, <3>1, Zenon
    <3>4. repairs'[seq] = {older \in SequenceNumbers :
                   older < seq /\ seq - older <= Cardinality(repairs'[seq])}
      BY <3>2, <3>3, Zenon
    <3>5. Cardinality(repairs'[seq]) <= RedundancyFrames
      BY <1>2, <1>3, <3>2
    <3> QED BY <3>4, <3>5, Zenon
  <2>2. CASE seq # i
    <3>1. repairs'[seq] = repairs[seq]
      BY <1>1, <1>2, <2>2
    <3> QED BY <3>1 DEF InductiveInvariant, EverythingInItsPlace,
                        RepairsAreThePreviousFrames, RepairsReach
  <2> QED BY <2>1, <2>2
<1> QED BY <1>8, <1>9 DEF RepairsAreThePreviousFrames, RepairsReach

(* The history slides by one number. *)
LEMMA RememberSlides ==
  ASSUME InductiveInvariant, phase = "send", step = "schedule", i < FrameCount,
         Remember(i), i' = i, GoTo("send", "release")
  PROVE  /\ redundancy_history' \in Seq(SequenceNumbers)
         /\ Len(redundancy_history') <= RedundancyFrames
         /\ History'
<1> DEFINE old == redundancy_history
           longer == Append(old, i)
           len == Len(old)
<1>1. /\ old \in Seq(SequenceNumbers) /\ len \in Nat
      /\ len <= RedundancyFrames /\ len <= i /\ RedundancyFrames \in Nat
      /\ \A n \in 1..len : old[n] = i - len + n - 1
      /\ i \in Nat /\ i \in SequenceNumbers
  BY HistoryFacts, DepthFacts, NumberFacts
<1>2. /\ longer \in Seq(SequenceNumbers) /\ Len(longer) = len + 1
      /\ \A n \in 1..len : longer[n] = old[n]
      /\ longer[len + 1] = i
  BY <1>1
<1>3. \A n \in 1..(len + 1) : longer[n] = i - len + n - 1
  BY <1>1, <1>2
<1>4. /\ Tail(longer) \in Seq(SequenceNumbers) /\ Len(Tail(longer)) = len
      /\ \A n \in 1..len : Tail(longer)[n] = longer[n + 1]
  BY <1>1, <1>2
<1>5. redundancy_history' = IF Len(longer) > RedundancyFrames THEN Tail(longer) ELSE longer
  BY DEF Remember
<1>6. NextToEncode' = i + 1
  BY DEF NextToEncode, GoTo
<1> HIDE DEF old, longer, len
<1>7. CASE Len(longer) > RedundancyFrames
  <2>1. redundancy_history' = Tail(longer)
    BY <1>5, <1>7
  <2>2. \A n \in 1..len : redundancy_history'[n] = (i + 1) - len + n - 1
    BY <1>1, <1>3, <1>4, <2>1
  <2>3. Len(redundancy_history') = len /\ redundancy_history' \in Seq(SequenceNumbers)
    BY <1>4, <2>1
  <2>4. History'
    BY <1>1, <1>6, <2>2, <2>3 DEF History
  <2> QED BY <1>1, <2>3, <2>4
<1>8. CASE ~(Len(longer) > RedundancyFrames)
  <2>1. redundancy_history' = longer
    BY <1>5, <1>8
  <2>2. \A n \in 1..(len + 1) : redundancy_history'[n] = (i + 1) - (len + 1) + n - 1
    BY <1>1, <1>3, <2>1
  <2>3. Len(redundancy_history') = len + 1 /\ redundancy_history' \in Seq(SequenceNumbers)
    BY <1>2, <2>1
  <2>4. History'
    BY <1>1, <1>6, <2>2, <2>3 DEF History
  <2> QED BY <1>1, <1>2, <1>8, <2>3, <2>4
<1> QED BY <1>7, <1>8
-----------------------------------------------------------------------------
(* Typing of the counters of the path. *)
PathTypes ==
    /\ pending \subseteq SequenceNumbers /\ network \subseteq SequenceNumbers
    /\ {generated, dropped, sent, lost, duplicated} \subseteq Nat

ReceiveTypes ==
    /\ {datagrams, invalid_datagrams, received} \subseteq Nat
    /\ arrived \subseteq SequenceNumbers /\ latecomers \subseteq arrived

EncodeTypes ==
    /\ jitter_depth_frames \in Depths
    /\ redundancy_history \in Seq(SequenceNumbers)
    /\ Len(redundancy_history) <= RedundancyFrames
    /\ repairs \in [SequenceNumbers -> SUBSET SequenceNumbers]

ControlTypes ==
    /\ phase \in {"send", "drain", "tail", "done", "failed"}
    /\ step \in {"schedule", "release", "await", "receive", "play", "stop"}
    /\ i \in 0..FrameCount /\ sequence \in 0..FrameCount

PlayTypes ==
    /\ stats \in [decoded : Nat, concealed : Nat, redundancy_recovered : Nat,
                  fec_recovered : Nat, plc_generated : Nat, opus_decode_errors : Nat]
    /\ output \in Seq([status : {"decoded", "opus_redundant", "opus_fec", "opus_plc"},
                       audio : SequenceNumbers \union {Synthetic, Silence}])

(* The type invariant, by the groups of variables that change together. *)
LEMMA TypeGroups ==
  TypeOK <=> /\ PathTypes /\ ReceiveTypes /\ EncodeTypes /\ ControlTypes /\ PlayTypes
             /\ Buffer!TypeOK
  BY DEF TypeOK, PathTypes, ReceiveTypes, EncodeTypes, ControlTypes, PlayTypes

LEMMA TypeGroupsNext ==
  TypeOK' <=> /\ PathTypes' /\ ReceiveTypes' /\ EncodeTypes' /\ ControlTypes' /\ PlayTypes'
              /\ Buffer!TypeOK'
  BY DEF TypeOK, PathTypes, ReceiveTypes, EncodeTypes, ControlTypes, PlayTypes

LEMMA Typed ==
  ASSUME InductiveInvariant
  PROVE  /\ PathTypes /\ ReceiveTypes /\ EncodeTypes /\ ControlTypes /\ PlayTypes
         /\ Buffer!TypeOK
  BY TypeGroups DEF InductiveInvariant, EverythingInItsPlace

LEMMA TypesUnchanged ==
  /\ ReceiveTypes /\ UNCHANGED receiveVars => ReceiveTypes'
  /\ EncodeTypes /\ UNCHANGED encodeVars => EncodeTypes'
  /\ PlayTypes /\ UNCHANGED playVars => PlayTypes'
  /\ PathTypes /\ UNCHANGED pathVars => PathTypes'
  /\ ControlTypes /\ UNCHANGED controlVars => ControlTypes'
  BY DEF receiveVars, encodeVars, playVars, pathVars, controlVars,
         ReceiveTypes, EncodeTypes, PlayTypes, PathTypes, ControlTypes

(* The parts about the bundles, while nothing is encoded. *)
LEMMA EncodingKept ==
  ASSUME InductiveInvariant, UNCHANGED encodeVars,
         phase' = "send" => phase = "send" /\ NextToEncode' = NextToEncode
  PROVE  History' /\ RepairsAreThePreviousFrames' /\ RepairsReach'
<1>1. UNCHANGED <<redundancy_history, repairs>>
  BY DEF encodeVars
<1> QED BY <1>1 DEF InductiveInvariant, EverythingInItsPlace, History,
                    RepairsAreThePreviousFrames, RepairsReach
-----------------------------------------------------------------------------
LEMMA ScheduleStep ==
  ASSUME InductiveInvariant, SchedulePacket
  PROVE  InductiveInvariant'
<1>1. /\ phase = "send" /\ step = "schedule" /\ i < FrameCount
      /\ phase' = "send" /\ step' = "release" /\ GoTo("send", "release")
      /\ UNCHANGED <<jitter_depth_frames, bufferVars, i, sequence, receiveVars, playVars>>
      /\ Bundle(i) /\ Remember(i) /\ Schedule(i)
  BY DEF SchedulePacket, GoTo
<1>2. Untouched /\ UNCHANGED arrived
  BY <1>1 DEF Untouched, receiveVars
<1>3. Settled
  BY <1>1, MovesSettle
<1>4. /\ Buffer!TypeOK'
      /\ EveryFrameInItsPlace' /\ OnlyLatecomersLinger' /\ BufferHoldsArrivals'
  BY <1>2, <1>3, UntouchedParts
<1>5. /\ repairs' \in [SequenceNumbers -> SUBSET SequenceNumbers]
      /\ RepairsAreThePreviousFrames' /\ RepairsReach'
  BY <1>1, BundleRepairs
<1>6. /\ redundancy_history' \in Seq(SequenceNumbers)
      /\ Len(redundancy_history') <= RedundancyFrames /\ History'
  BY <1>1, RememberSlides
<1>7. /\ i \in SequenceNumbers /\ i \in 0..i /\ i \in Nat
  BY <1>1, DepthFacts, NumberFacts
<1>8. /\ pending' \subseteq pending \union {i} /\ network' = network
      /\ {generated', dropped', sent', lost', duplicated'} \subseteq Nat
  BY <1>1, Typed DEF Schedule, Drop, Enqueue, PathTypes
<1>9. PathTypes'
  BY <1>7, <1>8, Typed DEF PathTypes
<1>10. Travelling'
  BY <1>1, <1>2, <1>7, <1>8 DEF InductiveInvariant, Travelling
<1>11. ControlTypes' /\ Control'
  BY <1>1, Typed DEF ControlTypes, InductiveInvariant, Control
<1>12. EncodeTypes'
  BY <1>1, <1>5, <1>6, Typed DEF EncodeTypes
<1>13. TypeOK'
  BY <1>1, <1>4, <1>9, <1>11, <1>12, Typed, TypesUnchanged, TypeGroupsNext
<1> QED BY <1>4, <1>5, <1>6, <1>10, <1>11, <1>13 DEF InductiveInvariant, EverythingInItsPlace

(* A pass of release_due_packets, or a loss on the way. *)
LEMMA PathStep ==
  ASSUME InductiveInvariant, ReleaseDuePackets \/ SendFails \/ NetworkLoses
  PROVE  InductiveInvariant'
<1>1. UNCHANGED <<bufferVars, i, sequence, encodeVars, receiveVars, playVars>>
  BY DEF ReleaseDuePackets, SendFails, NetworkLoses, controlVars
<1>2. Untouched /\ UNCHANGED <<arrived, jitter_depth_frames>>
  BY <1>1 DEF Untouched, receiveVars, encodeVars
<1>3. \/ phase' = "failed" /\ step' = "stop"
      \/ phase' = phase /\ step' = step
      \/ /\ phase' = phase /\ phase \in {"send", "drain", "tail"} /\ step # "schedule"
         /\ step' \in {"await", "receive"}
         /\ phase = "tail" => step' = "receive"
  BY DEF ReleaseDuePackets, SendFails, NetworkLoses, GoTo, ReleasePass, controlVars
<1>4. /\ Buffer!TypeOK'
      /\ EveryFrameInItsPlace' /\ OnlyLatecomersLinger' /\ BufferHoldsArrivals'
  BY <1>1, <1>2, <1>3, MovesSettle, UntouchedParts
<1>5. History' /\ RepairsAreThePreviousFrames' /\ RepairsReach'
  BY <1>1, <1>3, EncodingKept DEF NextToEncode
<1>6. /\ pending' \subseteq pending /\ network' \subseteq network \union pending
      /\ pending' \cap network' = {}
      /\ {generated', dropped', sent', lost', duplicated'} \subseteq Nat
  <2>1. {generated, dropped, sent, lost, duplicated} \subseteq Nat
    BY Typed DEF PathTypes
  <2>2. ASSUME NEW due \in SUBSET pending, Release(due)
        PROVE  /\ pending' \subseteq pending /\ network' \subseteq network \union pending
               /\ pending' \cap network' = {}
               /\ {generated', dropped', sent', lost', duplicated'} \subseteq Nat
    <3>1. Cardinality(due) \in Nat
      BY NumbersAreFinite, Typed DEF PathTypes
    <3>2. {generated', dropped', sent', lost', duplicated'} \subseteq Nat
      BY <2>1, <2>2, <3>1 DEF Release
    <3> QED BY <2>2, <3>2 DEF Release, InductiveInvariant, Travelling
  <2>3. CASE NetworkLoses
    BY <2>1, <2>3 DEF NetworkLoses, Lose, InductiveInvariant, Travelling
  <2> QED BY <2>2, <2>3 DEF ReleaseDuePackets, SendFails
<1>7. PathTypes'
  BY <1>6, Typed DEF PathTypes
<1>8. Travelling'
  BY <1>1, <1>2, <1>3, <1>6 DEF InductiveInvariant, Travelling
<1>9. ControlTypes'
  BY <1>1, <1>3, Typed DEF ControlTypes
<1>10. Control'
  BY <1>1, <1>2, <1>3, Typed DEF ControlTypes, InductiveInvariant, Control, TailStart
<1>11. TypeOK'
  BY <1>1, <1>4, <1>7, <1>9, Typed, TypesUnchanged, TypeGroupsNext
<1> QED BY <1>4, <1>5, <1>8, <1>10, <1>11 DEF InductiveInvariant, EverythingInItsPlace

(* Steps that only move the program counter. *)
ControlStep ==
    \/ EncodeFails \/ ReceiveFails \/ BreakEarly \/ AwaitMore \/ DrainRound
    \/ TailReceived \/ ReceiveDeadline \/ SendLoopEnds \/ DrainCompletes \/ DrainDeadline

LEMMA ControlStepInductive ==
  ASSUME InductiveInvariant, ControlStep
  PROVE  InductiveInvariant'
<1>1. UNCHANGED <<pathVars, bufferVars, i, encodeVars, receiveVars, playVars>>
  BY DEF ControlStep, EncodeFails, ReceiveFails, BreakEarly, AwaitMore, DrainRound, Quiet,
         TailReceived, ReceiveDeadline, SendLoopEnds, DrainCompletes, DrainDeadline, StartTail
<1>2. /\ Untouched
      /\ UNCHANGED <<arrived, jitter_depth_frames, pending, network>>
  BY <1>1 DEF Untouched, receiveVars, encodeVars, pathVars
<1>3. \/ /\ sequence' = sequence
         /\ \/ phase' = "failed" /\ step' = "stop"
            \/ /\ phase = "send" /\ phase' = "send" /\ step # "schedule"
               /\ step' \in {"await", "play"}
            \/ phase = "drain" /\ phase' = "drain" /\ step' = "await"
            \/ phase = "tail" /\ phase' = "tail" /\ step' = "play"
            \/ phase = "send" /\ i = FrameCount /\ phase' = "drain" /\ step' = "await"
      \/ phase = "drain" /\ phase' = "tail" /\ step' = "release" /\ sequence' = TailStart
  BY DEF ControlStep, EncodeFails, ReceiveFails, BreakEarly, AwaitMore, DrainRound, Quiet,
         TailReceived, ReceiveDeadline, SendLoopEnds, DrainCompletes, DrainDeadline, StartTail,
         GoTo
<1>4. /\ Buffer!TypeOK'
      /\ EveryFrameInItsPlace' /\ OnlyLatecomersLinger' /\ BufferHoldsArrivals'
  <2>1. Settled
    BY <1>1, <1>2, <1>3, MovesSettle
  <2> QED BY <1>2, <2>1, UntouchedParts
<1>5. History' /\ RepairsAreThePreviousFrames' /\ RepairsReach'
  BY <1>1, <1>3, EncodingKept DEF NextToEncode
<1>6. Travelling'
  BY <1>1, <1>2, <1>3 DEF InductiveInvariant, Travelling
<1>7. TailStart \in 0..FrameCount /\ TailStart < FrameCount
  BY DepthFacts, NumberFacts DEF TailStart
<1>8. ControlTypes'
  BY <1>1, <1>3, <1>7, Typed DEF ControlTypes
<1>9. Control'
  <2>1. TailStart' = TailStart
    BY <1>2 DEF TailStart
  <2>2. (phase \in {"drain", "tail"} => i = FrameCount)
        /\ (phase = "send" /\ step # "schedule" => i < FrameCount)
        /\ (phase = "tail" => TailStart <= sequence /\ sequence < FrameCount)
    BY DEF InductiveInvariant, Control
  <2> QED BY <1>1, <1>3, <1>7, <2>1, <2>2, DepthFacts DEF Control
<1>10. TypeOK'
  BY <1>1, <1>4, <1>8, Typed, TypesUnchanged, TypeGroupsNext
<1> QED BY <1>4, <1>5, <1>6, <1>9, <1>10 DEF InductiveInvariant, EverythingInItsPlace
-----------------------------------------------------------------------------
(* Packets that have been sent are at most the depth ahead of playout. *)
LEMMA SentWindow ==
  ASSUME InductiveInvariant, phase # "failed",
         NEW seq \in SequenceNumbers, seq \in pending \union network \union arrived
  PROVE  seq \in Nat /\ seq <= Upcoming + jitter_depth_frames
<1>1. seq \in Nat /\ seq <= i /\ seq < FrameCount
  BY DepthFacts, NumberFacts DEF InductiveInvariant, Travelling
<1>2. /\ phase \in {"send", "drain", "tail", "done"}
      /\ (phase = "tail" => TailStart <= sequence) /\ (phase = "done" => sequence = FrameCount)
  BY Typed DEF ControlTypes, InductiveInvariant, Control
<1>3. CASE phase \in {"send", "drain"}
  BY <1>1, <1>3, DepthFacts DEF Upcoming
<1>4. CASE phase = "tail"
  BY <1>1, <1>2, <1>4, DepthFacts DEF Upcoming, TailStart
<1>5. CASE phase = "done"
  BY <1>1, <1>2, <1>5, DepthFacts DEF Upcoming
<1> QED BY <1>2, <1>3, <1>4, <1>5

LEMMA ReceiveInvalidStep ==
  ASSUME InductiveInvariant, ReceiveInvalid
  PROVE  InductiveInvariant'
<1>1. /\ UNCHANGED <<pathVars, bufferVars, controlVars, encodeVars, received, arrived,
                     latecomers, playVars>>
      /\ datagrams' = datagrams + 1 /\ invalid_datagrams' = invalid_datagrams + 1
  BY DEF ReceiveInvalid
<1>2. /\ Untouched
      /\ UNCHANGED <<phase, step, i, sequence, jitter_depth_frames, pending, network>>
  BY <1>1 DEF Untouched, controlVars, encodeVars, pathVars
<1>3. /\ Buffer!TypeOK'
      /\ EveryFrameInItsPlace' /\ OnlyLatecomersLinger' /\ BufferHoldsArrivals'
  <2>1. Settled
    BY <1>2, MovesSettle
  <2> QED BY <1>2, <2>1, UntouchedParts
<1>4. History' /\ RepairsAreThePreviousFrames' /\ RepairsReach'
  BY <1>1, <1>2, EncodingKept DEF NextToEncode
<1>5. Travelling' /\ Control'
  BY <1>1, <1>2 DEF InductiveInvariant, Travelling, Control, TailStart
<1>6. ReceiveTypes'
  BY <1>1, Typed DEF ReceiveTypes
<1>7. TypeOK'
  BY <1>1, <1>3, <1>6, Typed, TypesUnchanged, TypeGroupsNext
<1> QED BY <1>3, <1>4, <1>5, <1>7 DEF InductiveInvariant, EverythingInItsPlace

(* push: the packet is held under its number or, if it shares a slot with   *)
(* another, refused; and then one of the two came late.                    *)
LEMMA PushEffect ==
  ASSUME InductiveInvariant, phase # "failed", NEW seq \in network, Buffer!Push(seq, seq)
  PROVE  /\ Buffer!TypeOK'
         /\ Buffer!Held' \subseteq Buffer!Held \union {seq}
         /\ Buffer!Held \subseteq Buffer!Held'
         /\ \A s \in Buffer!Held' : Buffer!Content(s)' = s
         /\ bufferStats'.late_or_collided_packets > 0 =>
               latecomers \union (IF seq < Upcoming THEN {seq} ELSE {}) # {}
<1>1. /\ seq \in SequenceNumbers /\ Buffer!TypeOK
      /\ \A s \in Buffer!Held : Buffer!Content(s) = s
  BY Typed DEF PathTypes, InductiveInvariant, BufferHoldsArrivals
<1>2. CASE Buffer!Insert(seq, seq)
  <2>1. /\ Buffer!TypeOK' /\ Buffer!Held' = Buffer!Held \union {seq}
        /\ Buffer!Content(seq)' = seq
        /\ \A s \in Buffer!Held \ {seq} : Buffer!Content(s)' = Buffer!Content(s)
    BY <1>1, <1>2, BufferInsert
  <2>2. bufferStats'.late_or_collided_packets = bufferStats.late_or_collided_packets
    BY <1>1, <1>2 DEF Buffer!Insert, Buffer!TypeOK
  <2>3. \A s \in Buffer!Held' : Buffer!Content(s)' = s
    BY <1>1, <2>1
  <2> QED BY <2>1, <2>2, <2>3
          DEF InductiveInvariant, EverythingInItsPlace, OnlyLatecomersLinger
<1>3. CASE Buffer!Refuse(seq)
  <2>1. /\ Buffer!TypeOK' /\ Buffer!Held' = Buffer!Held
        /\ \A s \in Buffer!Held : Buffer!Content(s)' = Buffer!Content(s)
    BY <1>1, <1>3, BufferMiss
  <2>2. PICK other \in Buffer!Held : seq - other >= Capacity \/ other - seq >= Capacity
    BY <1>1, <1>3, CollisionIsFar DEF Buffer!Refuse
  <2>3. other \in SequenceNumbers /\ other \in arrived
    BY <2>2 DEF Buffer!Held, InductiveInvariant, BufferHoldsArrivals
  <2>4. /\ seq \in Nat /\ seq <= Upcoming + jitter_depth_frames
        /\ other \in Nat /\ other <= Upcoming + jitter_depth_frames
    BY <1>1, <2>3, SentWindow
  <2>5. seq < Upcoming \/ other < Upcoming
    BY <2>2, <2>4, DepthFacts, UpcomingInRange
  <2>6. other < Upcoming => other \in latecomers
    BY <2>2 DEF InductiveInvariant, EverythingInItsPlace, OnlyLatecomersLinger
  <2>7. latecomers \union (IF seq < Upcoming THEN {seq} ELSE {}) # {}
    BY <2>5, <2>6
  <2> QED BY <1>1, <2>1, <2>7
<1> QED BY <1>2, <1>3 DEF Buffer!Push

LEMMA ReceivePacketStep ==
  ASSUME InductiveInvariant, NEW seq \in network, ReceivePacket(seq)
  PROVE  InductiveInvariant'
<1>1. /\ UNCHANGED <<phase, step, i, sequence, jitter_depth_frames, encodeVars, playVars>>
      /\ invalid_datagrams' = invalid_datagrams /\ step = "receive"
      /\ datagrams' = datagrams + 1 /\ received' = received + 1
      /\ arrived' = arrived \union {seq}
      /\ latecomers' = latecomers \union (IF seq < Upcoming THEN {seq} ELSE {})
      /\ Buffer!Push(seq, seq) /\ Deliver(seq)
  BY DEF ReceivePacket, controlVars, encodeVars
<1>2. phase # "failed"
  BY <1>1 DEF InductiveInvariant, Control
<1>3. /\ Buffer!TypeOK'
      /\ Buffer!Held' \subseteq Buffer!Held \union {seq}
      /\ \A s \in Buffer!Held' : Buffer!Content(s)' = s
      /\ bufferStats'.late_or_collided_packets > 0 => latecomers' # {}
  BY <1>1, <1>2, PushEffect
<1>4. Upcoming' = Upcoming
  BY <1>1 DEF Upcoming
<1>5. seq \in SequenceNumbers
  BY Typed DEF PathTypes
<1>6. BufferHoldsArrivals'
  BY <1>1, <1>3 DEF InductiveInvariant, BufferHoldsArrivals
<1>7. OnlyLatecomersLinger'
  <2>1. ASSUME NEW s \in Buffer!Held', s < Upcoming PROVE s \in latecomers'
    <3>1. CASE s \in Buffer!Held
      BY <1>1, <2>1, <3>1 DEF InductiveInvariant, EverythingInItsPlace, OnlyLatecomersLinger
    <3>2. CASE s = seq
      BY <1>1, <2>1, <3>2
    <3> QED BY <1>3, <2>1, <3>1, <3>2
  <2> QED BY <1>3, <1>4, <2>1 DEF OnlyLatecomersLinger
<1>8. EveryFrameInItsPlace'
  BY <1>1, <1>4 DEF playVars, InductiveInvariant, EverythingInItsPlace, EveryFrameInItsPlace
<1>9. History' /\ RepairsAreThePreviousFrames' /\ RepairsReach'
  BY <1>1, EncodingKept DEF NextToEncode
<1>10. /\ pending' = pending /\ network' \subseteq network
       /\ {generated', dropped', sent', lost', duplicated'} \subseteq Nat
  BY <1>1, Typed DEF PathTypes, Deliver
<1>11. PathTypes'
  BY <1>10, Typed DEF PathTypes
<1>12. ReceiveTypes'
  BY <1>1, <1>5, Typed DEF ReceiveTypes
<1>13. Travelling'
  BY <1>1, <1>10 DEF InductiveInvariant, Travelling
<1>14. Control' /\ ControlTypes'
  BY <1>1, Typed DEF InductiveInvariant, Control, ControlTypes, TailStart
<1>15. TypeOK'
  BY <1>1, <1>3, <1>11, <1>12, <1>14, Typed, TypesUnchanged, TypeGroupsNext
<1> QED BY <1>6, <1>7, <1>8, <1>9, <1>13, <1>14, <1>15
        DEF InductiveInvariant, EverythingInItsPlace
-----------------------------------------------------------------------------
LEMMA Joined ==
  ASSUME NEW S, NEW s \in Seq(S), NEW t \in Seq(S)
  PROVE  s \o t \in Seq(S) /\ Len(s \o t) = Len(s) + Len(t)
  OBVIOUS

(* A missing frame is tried by at least one decoder, in-band repair first. *)
LEMMA AttemptsTyped ==
  ASSUME NEW seq \in SequenceNumbers
  PROVE  /\ Attempts(seq) \in Seq({"opus_redundant", "opus_fec", "opus_plc"})
         /\ Len(Attempts(seq)) \in Nat /\ Len(Attempts(seq)) >= 1
         /\ Carriers(seq) # {} => Attempts(seq)[1] = "opus_redundant"
<1> DEFINE S == {"opus_redundant", "opus_fec", "opus_plc"}
           a == IF Carriers(seq) # {} THEN <<"opus_redundant">> ELSE <<>>
           b == IF UseFec /\ Buffer!Holds(seq + 1) THEN <<"opus_fec">> ELSE <<>>
           c == <<"opus_plc">>
<1>1. a \in Seq(S) /\ Len(a) \in {0, 1} /\ (Carriers(seq) # {} => Len(a) = 1 /\ a[1] = "opus_redundant")
  <2>1. CASE Carriers(seq) # {}
    BY <2>1
  <2>2. CASE Carriers(seq) = {}
    BY <2>2
  <2> QED BY <2>1, <2>2
<1>2. b \in Seq(S) /\ Len(b) \in {0, 1}
  <2>1. CASE UseFec /\ Buffer!Holds(seq + 1)
    BY <2>1
  <2>2. CASE ~(UseFec /\ Buffer!Holds(seq + 1))
    BY <2>2
  <2> QED BY <2>1, <2>2
<1>3. c \in Seq(S) /\ Len(c) = 1
  OBVIOUS
<1>4. Attempts(seq) = (a \o b) \o c
  BY DEF Attempts
<1> HIDE DEF S, a, b, c
<1>5. a \o b \in Seq(S) /\ Len(a \o b) = Len(a) + Len(b)
  BY <1>1, <1>2, Joined
<1>6. (a \o b) \o c \in Seq(S) /\ Len((a \o b) \o c) = Len(a \o b) + Len(c)
  BY <1>3, <1>5, Joined
<1>7. Len(a) = 1 => ((a \o b) \o c)[1] = a[1]
  BY <1>1, <1>2, <1>3, <1>5
<1> QED BY <1>1, <1>2, <1>3, <1>4, <1>5, <1>6, <1>7 DEF S

(* What is counted for a missing frame, and what is played for it. *)
LEMMA MissingEffect ==
  ASSUME PlayTypes, NEW seq \in SequenceNumbers, PlayMissing(seq)
  PROVE  \E failures \in Nat, status \in {"opus_redundant", "opus_fec", "opus_plc"},
            audio \in {seq, Synthetic, Silence} :
            /\ output' = Append(output, Entry(status, audio))
            /\ LET failed == [stats EXCEPT !.opus_decode_errors = @ + failures]
               IN  \/ audio = Silence /\ stats' = failed /\ failures >= 1
                   \/ /\ stats' = Count(failed, status)
                      /\ audio = IF status = "opus_redundant" THEN seq ELSE Synthetic
            /\ failures = 0 /\ Carriers(seq) # {} => audio = seq
<1>1. PICK failures \in 0..Len(Attempts(seq)) :
          LET status == Attempts(seq)[failures + 1]
              failed == [stats EXCEPT !.opus_decode_errors = @ + failures]
          IN  /\ failed.opus_decode_errors <= MaxDecodeErrors
              /\ IF failures = Len(Attempts(seq))
                 THEN /\ stats' = failed
                      /\ output' = Append(output, Entry("opus_plc", Silence))
                 ELSE /\ stats' = Count(failed, status)
                      /\ output' = Append(output, Entry(status,
                                      IF status = "opus_redundant" THEN seq ELSE Synthetic))
  BY DEF PlayMissing
<1> DEFINE failed == [stats EXCEPT !.opus_decode_errors = @ + failures]
           status == Attempts(seq)[failures + 1]
           audio == IF status = "opus_redundant" THEN seq ELSE Synthetic
<1>2. failures \in Nat /\ Len(Attempts(seq)) >= 1 /\ Len(Attempts(seq)) \in Nat
  BY AttemptsTyped
<1>3. CASE failures = Len(Attempts(seq))
  <2>1. stats' = failed /\ output' = Append(output, Entry("opus_plc", Silence))
    BY <1>1, <1>3
  <2>2. failures >= 1 /\ failures # 0
    BY <1>2, <1>3
  <2> QED BY <1>2, <2>1, <2>2
<1>4. CASE failures # Len(Attempts(seq))
  <2>1. status \in {"opus_redundant", "opus_fec", "opus_plc"}
    BY <1>2, <1>4, AttemptsTyped
  <2>2. stats' = Count(failed, status) /\ output' = Append(output, Entry(status, audio))
    BY <1>1, <1>4
  <2>3. failures = 0 /\ Carriers(seq) # {} => audio = seq
    BY AttemptsTyped
  <2>4. audio \in {seq, Synthetic, Silence}
    OBVIOUS
  <2> HIDE DEF failed, status, audio
  <2>5. audio = IF status = "opus_redundant" THEN seq ELSE Synthetic
    BY DEF audio
  <2>6. stats' = Count([stats EXCEPT !.opus_decode_errors = @ + failures], status)
    BY <2>2 DEF failed
  <2> QED BY <1>2, <2>1, <2>2, <2>3, <2>4, <2>5, <2>6
<1> QED BY <1>3, <1>4
-----------------------------------------------------------------------------
(* An output that grows by one frame. *)
Statuses == {"decoded", "opus_redundant", "opus_fec", "opus_plc"}
Sounds == SequenceNumbers \union {Synthetic, Silence}
Entries == [status : Statuses, audio : Sounds]

LEMMA OutputGrows ==
  ASSUME output \in Seq(Entries), NEW status \in Statuses, NEW audio \in Sounds,
         output' = Append(output, Entry(status, audio))
  PROVE  /\ output' \in Seq(Entries) /\ Len(output') = Len(output) + 1
         /\ DOMAIN output' = 1..(Len(output) + 1)
         /\ Len(output) \in Nat /\ DOMAIN output = 1..Len(output)
         /\ \A n \in 1..Len(output) : output'[n] = output[n]
         /\ output'[Len(output) + 1].audio = audio
<1> DEFINE e == Entry(status, audio)
<1>1. e \in Entries /\ e.audio = audio
  BY DEF Entry, Entries
<1> HIDE DEF e
<1>2. output' = Append(output, e)
  BY DEF e
<1>3. /\ output' \in Seq(Entries) /\ Len(output') = Len(output) + 1
      /\ DOMAIN output' = 1..(Len(output) + 1)
      /\ Len(output) \in Nat /\ DOMAIN output = 1..Len(output)
      /\ \A n \in 1..Len(output) : output'[n] = output[n]
      /\ output'[Len(output) + 1] = e
  BY <1>1, <1>2
<1> QED BY <1>1, <1>3

(* Counting a frame keeps the counters counters. *)
Counters == [decoded : Nat, concealed : Nat, redundancy_recovered : Nat,
             fec_recovered : Nat, plc_generated : Nat, opus_decode_errors : Nat]

LEMMA CountTyped ==
  ASSUME NEW counters \in Counters, NEW status, NEW failures \in Nat
  PROVE  /\ [counters EXCEPT !.opus_decode_errors = @ + failures] \in Counters
         /\ Count(counters, status) \in Counters
<1>1. [counters EXCEPT !.opus_decode_errors = @ + failures] \in Counters
  BY DEF Counters
<1>2. ASSUME NEW a \in Nat, NEW b \in Nat
      PROVE  /\ [counters EXCEPT !.decoded = a, !.redundancy_recovered = b] \in Counters
             /\ [counters EXCEPT !.concealed = a, !.fec_recovered = b] \in Counters
             /\ [counters EXCEPT !.concealed = a, !.plc_generated = b] \in Counters
  <2>1. [counters EXCEPT !.decoded = a, !.redundancy_recovered = b] \in Counters
    BY DEF Counters
  <2>2. [counters EXCEPT !.concealed = a, !.fec_recovered = b] \in Counters
    BY DEF Counters
  <2>3. [counters EXCEPT !.concealed = a, !.plc_generated = b] \in Counters
    BY DEF Counters
  <2> QED BY <2>1, <2>2, <2>3
<1>3. /\ counters.decoded + 1 \in Nat /\ counters.redundancy_recovered + 1 \in Nat
      /\ counters.concealed + 1 \in Nat /\ counters.fec_recovered + 1 \in Nat
      /\ counters.plc_generated + 1 \in Nat
  BY DEF Counters
<1>5. Count(counters, status) \in Counters
  BY <1>2, <1>3, Zenon DEF Count
<1> QED BY <1>1, <1>5

(* play_expected_frame for the next frame of the output: it leaves the       *)
(* buffer, and what is played for it is its own audio or made up.          *)
LEMMA PlayEffect ==
  ASSUME InductiveInvariant, phase # "failed", Upcoming \in SequenceNumbers,
         PlayExpectedFrame(Upcoming)
  PROVE  /\ Buffer!TypeOK' /\ PlayTypes'
         /\ Buffer!Held' = Buffer!Held \ {Upcoming}
         /\ \A s \in Buffer!Held' : Buffer!Content(s)' = s
         /\ bufferStats'.late_or_collided_packets = bufferStats.late_or_collided_packets
         /\ Len(output') = Upcoming + 1
         /\ \A n \in DOMAIN output' : output'[n].audio \in {n - 1, Synthetic, Silence}
<1> DEFINE seq == Upcoming
<1>1. /\ Buffer!TypeOK /\ PlayTypes /\ seq \in Nat /\ seq \in SequenceNumbers
      /\ Len(output) = seq /\ \A n \in DOMAIN output : output[n].audio \in {n - 1, Synthetic, Silence}
      /\ \A s \in Buffer!Held : Buffer!Content(s) = s
  BY Typed, NumberFacts DEF InductiveInvariant, EverythingInItsPlace, EveryFrameInItsPlace, BufferHoldsArrivals
<1> HIDE DEF seq
<1>2. ASSUME NEW status \in {"decoded", "opus_redundant", "opus_fec", "opus_plc"},
             NEW audio \in {seq, Synthetic, Silence},
             output' = Append(output, Entry(status, audio)),
             stats' \in [decoded : Nat, concealed : Nat, redundancy_recovered : Nat,
                         fec_recovered : Nat, plc_generated : Nat, opus_decode_errors : Nat]
      PROVE  /\ PlayTypes' /\ Len(output') = seq + 1
             /\ \A n \in DOMAIN output' : output'[n].audio \in {n - 1, Synthetic, Silence}
  <2>1. output \in Seq(Entries) /\ audio \in Sounds /\ status \in Statuses
    BY <1>1, <1>2 DEF PlayTypes, Entries, Statuses, Sounds
  <2>2. /\ output' \in Seq(Entries) /\ Len(output') = Len(output) + 1
        /\ DOMAIN output' = 1..(Len(output) + 1) /\ DOMAIN output = 1..Len(output)
        /\ \A n \in 1..Len(output) : output'[n] = output[n]
        /\ output'[Len(output) + 1].audio = audio
    BY <1>2, <2>1, OutputGrows
  <2>3. PlayTypes'
    BY <1>2, <2>2 DEF PlayTypes, Entries, Statuses, Sounds
  <2>4. ASSUME NEW n \in DOMAIN output' PROVE output'[n].audio \in {n - 1, Synthetic, Silence}
    <3>1. CASE n = seq + 1
      BY <1>1, <1>2, <2>2, <3>1
    <3>2. CASE n # seq + 1
      <4>1. n \in 1..Len(output)
        BY <1>1, <2>2, <3>2
      <4> QED BY <1>1, <2>2, <4>1
    <3> QED BY <3>1, <3>2
  <2> QED BY <1>1, <2>2, <2>3, <2>4
<1>3. CASE PlayPrimary(seq)
  <2>1. /\ Buffer!TypeOK' /\ seq \in Buffer!Held /\ Buffer!Held' = Buffer!Held \ {seq}
        /\ \A s \in Buffer!Held \ {seq} : Buffer!Content(s)' = Buffer!Content(s)
    BY <1>1, <1>3, BufferPop DEF PlayPrimary
  <2>2. bufferStats'.late_or_collided_packets = bufferStats.late_or_collided_packets
    BY <1>1, <1>3 DEF PlayPrimary, Buffer!PopHit, Buffer!TypeOK
  <2>3. Buffer!Content(seq) = seq
    BY <1>1, <2>1
  <2>4. stats' \in [decoded : Nat, concealed : Nat, redundancy_recovered : Nat,
                    fec_recovered : Nat, plc_generated : Nat, opus_decode_errors : Nat]
    BY <1>1, <1>3 DEF PlayPrimary, PlayTypes
  <2>5. PICK audio \in {seq, Synthetic, Silence} : output' = Append(output, Entry("decoded", audio))
    BY <1>3, <2>3 DEF PlayPrimary
  <2>6. /\ PlayTypes' /\ Len(output') = seq + 1
        /\ \A n \in DOMAIN output' : output'[n].audio \in {n - 1, Synthetic, Silence}
    BY <1>2, <2>4, <2>5
  <2> QED BY <1>1, <2>1, <2>2, <2>6 DEF seq
<1>4. CASE PlayMissing(seq)
  <2>1. /\ Buffer!TypeOK' /\ Buffer!Held' = Buffer!Held
        /\ \A s \in Buffer!Held : Buffer!Content(s)' = Buffer!Content(s)
    BY <1>1, <1>4, BufferMiss DEF PlayMissing
  <2>2. seq \notin Buffer!Held
    BY <1>4 DEF PlayMissing, Buffer!PopMiss, Buffer!Held
  <2>3. bufferStats'.late_or_collided_packets = bufferStats.late_or_collided_packets
    BY <1>1, <1>4 DEF PlayMissing, Buffer!PopMiss, Buffer!TypeOK
  <2>4. PICK failures \in Nat, status \in {"opus_redundant", "opus_fec", "opus_plc"},
             audio \in {seq, Synthetic, Silence} :
            /\ output' = Append(output, Entry(status, audio))
            /\ LET failed == [stats EXCEPT !.opus_decode_errors = @ + failures]
               IN  \/ audio = Silence /\ stats' = failed /\ failures >= 1
                   \/ /\ stats' = Count(failed, status)
                      /\ audio = IF status = "opus_redundant" THEN seq ELSE Synthetic
    BY <1>1, <1>4, MissingEffect
  <2>5. stats' \in [decoded : Nat, concealed : Nat, redundancy_recovered : Nat,
                    fec_recovered : Nat, plc_generated : Nat, opus_decode_errors : Nat]
    <3>1. stats \in Counters
      BY <1>1 DEF PlayTypes, Counters
    <3>2. [stats EXCEPT !.opus_decode_errors = @ + failures] \in Counters
      BY <3>1, CountTyped
    <3>3. Count([stats EXCEPT !.opus_decode_errors = @ + failures], status) \in Counters
      BY <3>2, CountTyped
    <3>4. stats' \in Counters
      BY <2>4, <3>2, <3>3, Zenon
    <3> QED BY <3>4 DEF Counters
  <2>6. /\ PlayTypes' /\ Len(output') = seq + 1
        /\ \A n \in DOMAIN output' : output'[n].audio \in {n - 1, Synthetic, Silence}
    BY <1>2, <2>4, <2>5
  <2> QED BY <1>1, <2>1, <2>2, <2>3, <2>6 DEF seq
<1> QED BY <1>3, <1>4 DEF PlayExpectedFrame, seq

(* The parts about the buffer and the output after a frame was played. *)
LEMMA PlayedParts ==
  ASSUME InductiveInvariant, phase # "failed", Upcoming \in SequenceNumbers,
         PlayExpectedFrame(Upcoming), UNCHANGED <<arrived, latecomers>>,
         Upcoming' = Upcoming + 1, phase' = "done" => Upcoming + 1 = FrameCount
  PROVE  /\ Buffer!TypeOK' /\ PlayTypes'
         /\ EveryFrameInItsPlace' /\ OnlyLatecomersLinger' /\ BufferHoldsArrivals'
<1>1. /\ Buffer!TypeOK' /\ PlayTypes'
      /\ Buffer!Held' = Buffer!Held \ {Upcoming}
      /\ \A s \in Buffer!Held' : Buffer!Content(s)' = s
      /\ bufferStats'.late_or_collided_packets = bufferStats.late_or_collided_packets
      /\ Len(output') = Upcoming + 1
      /\ \A n \in DOMAIN output' : output'[n].audio \in {n - 1, Synthetic, Silence}
  BY PlayEffect
<1>2. EveryFrameInItsPlace'
  BY <1>1 DEF EveryFrameInItsPlace
<1>3. BufferHoldsArrivals'
  BY <1>1 DEF InductiveInvariant, BufferHoldsArrivals
<1>4. ASSUME NEW s \in Buffer!Held', s < Upcoming' PROVE s \in latecomers'
  <2>1. s \in Nat /\ Upcoming \in Nat
    BY NumberFacts, <1>1 DEF Buffer!Held
  <2>2. s \in Buffer!Held /\ s < Upcoming
    BY <1>1, <1>4, <2>1
  <2> QED BY <2>2 DEF InductiveInvariant, EverythingInItsPlace, OnlyLatecomersLinger
<1>5. OnlyLatecomersLinger'
  BY <1>1, <1>4 DEF InductiveInvariant, EverythingInItsPlace, OnlyLatecomersLinger
<1> QED BY <1>1, <1>2, <1>3, <1>5

LEMMA PlayTickStep ==
  ASSUME InductiveInvariant, PlayTick
  PROVE  InductiveInvariant'
<1>1. /\ phase = "send" /\ step = "play" /\ i' = i + 1
      /\ phase' = "send" /\ step' = "schedule"
      /\ UNCHANGED <<pathVars, sequence, encodeVars, receiveVars>>
  BY DEF PlayTick, GoTo
<1>2. UNCHANGED <<jitter_depth_frames, pending, network, arrived, latecomers>>
  BY <1>1 DEF encodeVars, pathVars, receiveVars
<1>3. /\ i < FrameCount /\ i \in Nat /\ i' \in Nat
      /\ FrameCount \in Nat /\ jitter_depth_frames \in Nat \ {0}
  BY <1>1, DepthFacts DEF InductiveInvariant, Control
<1>4. /\ Buffer!TypeOK' /\ PlayTypes'
      /\ EveryFrameInItsPlace' /\ OnlyLatecomersLinger' /\ BufferHoldsArrivals'
  <2>1. CASE i >= jitter_depth_frames
    <3>1. /\ Upcoming = i - jitter_depth_frames /\ Upcoming \in SequenceNumbers
          /\ Upcoming' = Upcoming + 1 /\ PlayExpectedFrame(Upcoming)
      BY <1>1, <1>2, <1>3, <2>1, NumberFacts DEF Upcoming, PlayTick
    <3> QED BY <1>1, <1>2, <3>1, PlayedParts
  <2>2. CASE ~(i >= jitter_depth_frames)
    <3>1. Untouched /\ UNCHANGED playVars
      BY <1>2, <2>2 DEF PlayTick, Untouched
    <3>2. Settled
      BY <1>1, <1>2, <1>3, <2>2 DEF Settled, Upcoming
    <3> QED BY <3>1, <3>2, UntouchedParts, Typed, TypesUnchanged
  <2> QED BY <2>1, <2>2
<1>5. History' /\ RepairsAreThePreviousFrames' /\ RepairsReach'
  <2>1. NextToEncode' = NextToEncode
    BY <1>1 DEF NextToEncode
  <2> QED BY <1>1, <2>1, EncodingKept
<1>6. Travelling'
  <2>1. ASSUME NEW x \in 0..i PROVE x \in 0..i' /\ x # i'
    BY <1>1, <1>3
  <2> QED BY <1>1, <1>2, <2>1 DEF InductiveInvariant, Travelling
<1>7. Control' /\ ControlTypes'
  BY <1>1, <1>3, Typed DEF Control, ControlTypes
<1>8. TypeOK'
  BY <1>1, <1>4, <1>7, Typed, TypesUnchanged, TypeGroupsNext
<1> QED BY <1>4, <1>5, <1>6, <1>7, <1>8 DEF InductiveInvariant, EverythingInItsPlace

LEMMA PlayTailStep ==
  ASSUME InductiveInvariant, PlayTail
  PROVE  InductiveInvariant'
<1>1. /\ phase = "tail" /\ step = "play" /\ PlayExpectedFrame(sequence)
      /\ sequence' = sequence + 1
      /\ UNCHANGED <<pathVars, i, encodeVars, receiveVars>>
      /\ \/ sequence + 1 < FrameCount /\ phase' = "tail" /\ step' = "release"
         \/ ~(sequence + 1 < FrameCount) /\ phase' = "done" /\ step' = "stop"
  BY DEF PlayTail, GoTo
<1>2. UNCHANGED <<jitter_depth_frames, pending, network, arrived, latecomers>>
  BY <1>1 DEF encodeVars, pathVars, receiveVars
<1>3. /\ sequence < FrameCount /\ TailStart <= sequence /\ i = FrameCount
      /\ sequence \in Nat /\ FrameCount \in Nat /\ jitter_depth_frames \in Nat
  BY <1>1, DepthFacts DEF InductiveInvariant, Control
<1>4. /\ Buffer!TypeOK' /\ PlayTypes'
      /\ EveryFrameInItsPlace' /\ OnlyLatecomersLinger' /\ BufferHoldsArrivals'
  <2>1. /\ Upcoming = sequence /\ Upcoming \in SequenceNumbers
        /\ Upcoming' = Upcoming + 1
        /\ (phase' = "done" => Upcoming + 1 = FrameCount)
    BY <1>1, <1>3, NumberFacts DEF Upcoming
  <2> QED BY <1>1, <1>2, <2>1, PlayedParts
<1>5. History' /\ RepairsAreThePreviousFrames' /\ RepairsReach'
  BY <1>1, EncodingKept
<1>6. Travelling'
  BY <1>1, <1>2 DEF InductiveInvariant, Travelling
<1>7. Control' /\ ControlTypes'
  <2>1. TailStart' = TailStart /\ TailStart \in Nat
    BY <1>2, <1>3 DEF TailStart
  <2> QED BY <1>1, <1>3, <2>1, Typed DEF Control, ControlTypes
<1>8. TypeOK'
  BY <1>1, <1>4, <1>7, Typed, TypesUnchanged, TypeGroupsNext
<1> QED BY <1>4, <1>5, <1>6, <1>7, <1>8 DEF InductiveInvariant, EverythingInItsPlace

LEMMA StutterStep ==
  ASSUME InductiveInvariant, UNCHANGED vars
  PROVE  InductiveInvariant'
<1>1. /\ UNCHANGED <<pathVars, bufferVars, controlVars, encodeVars, receiveVars, playVars>>
      /\ UNCHANGED <<phase, step, i, sequence, jitter_depth_frames, pending, network, arrived>>
      /\ Untouched
  BY DEF vars, controlVars, encodeVars, pathVars, receiveVars, Untouched
<1>2. /\ Buffer!TypeOK'
      /\ EveryFrameInItsPlace' /\ OnlyLatecomersLinger' /\ BufferHoldsArrivals'
  BY <1>1, MovesSettle, UntouchedParts
<1>3. History' /\ RepairsAreThePreviousFrames' /\ RepairsReach'
  BY <1>1, EncodingKept DEF NextToEncode
<1>4. Travelling' /\ Control'
  BY <1>1 DEF InductiveInvariant, Travelling, Control, TailStart
<1>5. TypeOK'
  BY <1>1, <1>2, Typed, TypesUnchanged, TypeGroupsNext
<1> QED BY <1>2, <1>3, <1>4, <1>5 DEF InductiveInvariant, EverythingInItsPlace

LEMMA NextInductive ==
  ASSUME InductiveInvariant, [Next]_vars
  PROVE  InductiveInvariant'
  BY ScheduleStep, PathStep, ControlStepInductive, ReceiveInvalidStep, ReceivePacketStep,
     PlayTickStep, PlayTailStep, StutterStep
  DEF Next, Program, Failure, Receive, Returned, ControlStep

LEMMA Invariance == Spec => []InductiveInvariant
<1>1. InductiveInvariant /\ [Next]_vars => InductiveInvariant'
  BY NextInductive
<1> QED BY <1>1, InitInductive, PTL DEF Spec

(* For every length of the stream, depth, capacity and redundancy: frames   *)
(* are played once, in order and never in place of another; a bundle       *)
(* repairs the frames just before its own; and only packets that came      *)
(* after their playout linger in the buffer or keep another one out.       *)
THEOREM InItsPlace == Spec => []EverythingInItsPlace
<1>1. InductiveInvariant => EverythingInItsPlace
  BY DEF InductiveInvariant
<1> QED BY <1>1, Invariance, PTL
-----------------------------------------------------------------------------
(* The packets of the summary.                                              *)

PathLedger ==
    /\ sent + duplicated = lost + Cardinality(network) + received
    /\ duplicated <= MaxDuplicates

(* Moving some members of one set to another that has none of them. *)
LEMMA JoinSize ==
  ASSUME NEW S \in SUBSET SequenceNumbers, NEW T \in SUBSET SequenceNumbers, S \cap T = {}
  PROVE  Cardinality(S \cup T) = Cardinality(S) + Cardinality(T)
<1>1. /\ IsFiniteSet(S) /\ IsFiniteSet(T)
      /\ Cardinality(S) \in Nat /\ Cardinality(T) \in Nat
  BY NumbersAreFinite
<1>2. Cardinality(S \cup T) = Cardinality(S) + Cardinality(T) - Cardinality(S \cap T)
  BY <1>1, FS_Union
<1>3. Cardinality(S \cup T) = Cardinality(S) + Cardinality(T) - 0
  BY <1>2, FS_EmptySet, Zenon
<1> QED BY <1>1, <1>3

LEMMA PathNumbers ==
  ASSUME InductiveInvariant
  PROVE  /\ sent \in Nat /\ lost \in Nat /\ duplicated \in Nat /\ received \in Nat
         /\ pending \in SUBSET SequenceNumbers /\ network \in SUBSET SequenceNumbers
         /\ IsFiniteSet(network) /\ Cardinality(network) \in Nat /\ MaxDuplicates \in Nat
  BY Typed, NumbersAreFinite, DuplicatesAssumption DEF PathTypes, ReceiveTypes

LEMMA ReleaseLedger ==
  ASSUME InductiveInvariant, PathLedger, ReleaseDuePackets \/ SendFails
  PROVE  PathLedger'
<1>1. PICK due \in SUBSET pending : Release(due)
  BY DEF ReleaseDuePackets, SendFails
<1>2. due \in SUBSET SequenceNumbers /\ network \cap due = {}
  BY PathNumbers DEF InductiveInvariant, Travelling
<1>3. /\ Cardinality(network') = Cardinality(network) + Cardinality(due)
      /\ Cardinality(due) \in Nat
  BY <1>1, <1>2, JoinSize, NumbersAreFinite, PathNumbers DEF Release
<1>4. /\ sent' = sent + Cardinality(due) /\ UNCHANGED <<lost, duplicated, received>>
  BY <1>1 DEF ReleaseDuePackets, SendFails, Release, receiveVars
<1> QED BY <1>3, <1>4, PathNumbers DEF PathLedger

LEMMA DeliverLedger ==
  ASSUME InductiveInvariant, PathLedger, NEW seq \in network, Deliver(seq),
         received' = received + 1
  PROVE  PathLedger'
<1>1. Cardinality(network \ {seq}) = Cardinality(network) - 1
  BY PathNumbers, FS_RemoveElement
<1>2. UNCHANGED <<sent, lost>>
  BY DEF Deliver
<1>3. CASE network' = network \ {seq} /\ UNCHANGED duplicated
  BY <1>1, <1>2, <1>3, PathNumbers DEF PathLedger
<1>4. CASE /\ duplicated < MaxDuplicates /\ duplicated' = duplicated + 1
           /\ UNCHANGED network
  BY <1>2, <1>4, PathNumbers DEF PathLedger
<1> QED BY <1>3, <1>4 DEF Deliver

LEMMA LoseLedger ==
  ASSUME InductiveInvariant, PathLedger, NetworkLoses
  PROVE  PathLedger'
<1>1. PICK seq \in network : Lose(seq)
  BY DEF NetworkLoses
<1>2. Cardinality(network') = Cardinality(network) - 1
  BY <1>1, PathNumbers, FS_RemoveElement DEF Lose
<1>3. lost' = lost + 1 /\ UNCHANGED <<sent, duplicated, received>>
  BY <1>1 DEF NetworkLoses, Lose, receiveVars
<1> QED BY <1>2, <1>3, PathNumbers DEF PathLedger

LEMMA NextLedger ==
  ASSUME InductiveInvariant, PathLedger, [Next]_vars
  PROVE  PathLedger'
<1>1. CASE \E seq \in network : ReceivePacket(seq)
  BY <1>1, DeliverLedger DEF ReceivePacket
<1>2. CASE SchedulePacket
  BY <1>2 DEF SchedulePacket, Schedule, receiveVars, PathLedger
<1>3. CASE ControlStep \/ PlayTick \/ PlayTail \/ ReceiveInvalid \/ UNCHANGED vars
  <2>1. UNCHANGED <<sent, lost, duplicated, network, received>>
    BY <1>3 DEF ControlStep, EncodeFails, ReceiveFails, BreakEarly, AwaitMore, DrainRound,
       Quiet, TailReceived, ReceiveDeadline, SendLoopEnds, DrainCompletes, DrainDeadline,
       StartTail, PlayTick, PlayTail, ReceiveInvalid, vars, pathVars, receiveVars
  <2> QED BY <2>1 DEF PathLedger
<1> QED BY <1>1, <1>2, <1>3, ReleaseLedger, LoseLedger
        DEF Next, Program, Failure, Receive, Returned, ControlStep

LEMMA LedgerInvariance == Spec => [](InductiveInvariant /\ PathLedger)
<1>1. Init => PathLedger
  BY FS_EmptySet, DuplicatesAssumption DEF Init, PathInit, PathLedger
<1>2. InductiveInvariant /\ PathLedger /\ [Next]_vars => PathLedger'
  BY NextLedger
<1> QED BY <1>1, <1>2, Invariance, PTL DEF Spec

(* On a network that makes no copies, as many packets received as sent means *)
(* that none is left on the way and none was lost, so that leaving a receive *)
(* loop on that condition abandons nothing.                                 *)
THEOREM EarlyExitAbandonsNothing ==
  ASSUME MaxDuplicates = 0
  PROVE  Spec => EarlyExitIsSafe
<1>1. ASSUME InductiveInvariant, PathLedger, BreakEarly \/ DrainCompletes
      PROVE  network = {} /\ lost = 0
  <2>1. received >= sent
    BY <1>1, PathNumbers DEF BreakEarly, DrainCompletes, MoreToDrain
  <2>2. Cardinality(network) = 0 /\ lost = 0
    BY <1>1, <2>1, PathNumbers DEF PathLedger
  <2> QED BY <1>1, <2>2, PathNumbers, FS_EmptySet
<1>2. InductiveInvariant /\ PathLedger =>
          [BreakEarly \/ DrainCompletes => network = {} /\ lost = 0]_vars
  BY <1>1
<1> QED BY <1>2, LedgerInvariance, PTL DEF EarlyExitIsSafe
-----------------------------------------------------------------------------
(* Real audio is used wherever it is, in streams that fit the buffer.       *)

(* In such a stream no two numbers share a slot. *)
LEMMA NeverRefused ==
  ASSUME FrameCount <= Capacity, Buffer!TypeOK, NEW seq \in SequenceNumbers,
         Buffer!Push(seq, seq)
  PROVE  Buffer!Held' = Buffer!Held \union {seq}
<1>1. CASE Buffer!Refuse(seq)
  <2>1. PICK other \in Buffer!Held : seq - other >= Capacity \/ other - seq >= Capacity
    BY <1>1, CollisionIsFar DEF Buffer!Refuse
  <2>2. other \in SequenceNumbers
    BY <2>1 DEF Buffer!Held
  <2> QED BY <2>1, <2>2, NumberFacts
<1>2. CASE Buffer!Insert(seq, seq)
  BY <1>2, BufferInsert
<1> QED BY <1>1, <1>2 DEF Buffer!Push

(* The number played by a step that plays is the length of the output. *)
LEMMA PlaySteps ==
  ASSUME InductiveInvariant, PlayTick \/ PlayTail
  PROVE  \/ UNCHANGED <<bufferVars, playVars>>
         \/ /\ phase # "failed" /\ Upcoming \in SequenceNumbers
            /\ Len(output) = Upcoming /\ PlayExpectedFrame(Upcoming)
<1>1. Len(output) = Upcoming \/ phase = "failed"
  BY DEF InductiveInvariant, EverythingInItsPlace, EveryFrameInItsPlace
<1>2. CASE PlayTick
  <2>1. /\ i < FrameCount /\ i \in Nat /\ FrameCount \in Nat
        /\ jitter_depth_frames \in Nat \ {0} /\ phase = "send"
    BY <1>2, DepthFacts DEF PlayTick, InductiveInvariant, Control
  <2>2. CASE i >= jitter_depth_frames
    BY <1>1, <1>2, <2>1, <2>2, NumberFacts DEF Upcoming, PlayTick
  <2>3. CASE ~(i >= jitter_depth_frames)
    BY <1>2, <2>3 DEF PlayTick
  <2> QED BY <2>2, <2>3
<1>3. CASE PlayTail
  <2>1. /\ phase = "tail" /\ sequence < FrameCount /\ sequence \in Nat
        /\ PlayExpectedFrame(sequence)
    BY <1>3, DepthFacts DEF PlayTail, InductiveInvariant, Control
  <2> QED BY <1>1, <2>1, NumberFacts DEF Upcoming
<1> QED BY <1>2, <1>3

LEMMA OthersPlayNothing ==
  ASSUME [Next]_vars, ~PlayTick, ~PlayTail, ~\E seq \in network : ReceivePacket(seq)
  PROVE  UNCHANGED <<bufferVars, playVars, arrived>>
  BY DEF Next, Program, Failure, Receive, SchedulePacket, ReleaseDuePackets, SendFails,
     NetworkLoses, ReceiveInvalid, EncodeFails, ReceiveFails, BreakEarly, AwaitMore,
     DrainRound, Quiet, TailReceived, ReceiveDeadline, SendLoopEnds, DrainCompletes,
     DrainDeadline, StartTail, Returned, vars, receiveVars

LEMMA NothingRefusedStep ==
  ASSUME FrameCount <= Capacity, InductiveInvariant, NothingRefused, [Next]_vars
  PROVE  NothingRefused'
<1>1. CASE UNCHANGED <<bufferVars, playVars, arrived>>
  BY <1>1, BufferUnchanged DEF NothingRefused, playVars
<1>2. ASSUME NEW seq \in network, ReceivePacket(seq) PROVE NothingRefused'
  <2>1. seq \in SequenceNumbers /\ Buffer!TypeOK
    BY Typed DEF PathTypes
  <2>2. /\ Buffer!Push(seq, seq) /\ output' = output /\ arrived' = arrived \union {seq}
    BY <1>2 DEF ReceivePacket, playVars
  <2>3. Buffer!Held' = Buffer!Held \union {seq}
    BY <2>1, <2>2, NeverRefused
  <2> QED BY <2>2, <2>3 DEF NothingRefused
<1>3. CASE PlayTick \/ PlayTail
  <2>1. arrived' = arrived /\ arrived \subseteq Nat
    BY <1>3, Typed, NumberFacts DEF PlayTick, PlayTail, receiveVars, ReceiveTypes
  <2>2. CASE UNCHANGED <<bufferVars, playVars>>
    BY <1>1, <2>1, <2>2
  <2>3. CASE /\ phase # "failed" /\ Upcoming \in SequenceNumbers
             /\ Len(output) = Upcoming /\ PlayExpectedFrame(Upcoming)
    <3>1. /\ Buffer!Held' = Buffer!Held \ {Upcoming} /\ Len(output') = Upcoming + 1
      BY <2>3, PlayEffect
    <3>2. Upcoming \in Nat
      BY <2>3, NumberFacts
    <3>3. ASSUME NEW packet \in arrived, packet >= Upcoming + 1
          PROVE  packet \in Buffer!Held \ {Upcoming}
      BY <2>1, <2>3, <3>2, <3>3 DEF NothingRefused
    <3> QED BY <2>1, <3>1, <3>3 DEF NothingRefused
  <2> QED BY <1>3, <2>2, <2>3, PlaySteps
<1> QED BY <1>1, <1>2, <1>3, OthersPlayNothing

(* A bundle that arrived and repairs the missing frame is found. *)
LEMMA RepairIsFound ==
  ASSUME FrameCount <= Capacity, InductiveInvariant, NothingRefused,
         NEW seq \in SequenceNumbers, Len(output) = seq, seq \notin Buffer!Held,
         NEW packet \in arrived, packet = seq \/ seq \in repairs[packet]
  PROVE  Carriers(seq) # {}
<1>1. /\ packet \in SequenceNumbers /\ repairs[packet] \in SUBSET SequenceNumbers
      /\ Cardinality(repairs[packet]) \in Nat
  BY Typed, NumbersAreFinite DEF ReceiveTypes, EncodeTypes
<1>2. packet # seq
  BY <1>1, NumberFacts DEF NothingRefused
<1>3. seq < packet /\ packet - seq <= Cardinality(repairs[packet])
  BY <1>1, <1>2 DEF InductiveInvariant, EverythingInItsPlace, RepairsAreThePreviousFrames
<1>4. /\ RedundancyFrames \in Nat /\ packet \in Nat /\ seq \in Nat
      /\ Cardinality(repairs[packet]) <= RedundancyFrames
  BY <1>1, NumberFacts, RedundancyAssumption DEF InductiveInvariant, RepairsReach
<1>5. packet - seq \in 1..RedundancyFrames /\ seq + (packet - seq) = packet
  BY <1>1, <1>3, <1>4
<1>6. packet \in Buffer!Held /\ Buffer!Content(packet) = packet
  BY <1>3, <1>4 DEF NothingRefused, InductiveInvariant, BufferHoldsArrivals
<1>7. Buffer!Holds(packet)
  BY <1>6 DEF Buffer!Held
<1>8. packet - seq \in Carriers(seq)
  BY <1>2, <1>5, <1>6, <1>7 DEF Carriers
<1> QED BY <1>8

(* No decoder that succeeds counts an error. *)
LEMMA CountKeepsErrors ==
  ASSUME NEW counters \in Counters, NEW status
  PROVE  Count(counters, status).opus_decode_errors = counters.opus_decode_errors
  BY DEF Counters, Count

(* What is played for a frame that is in the buffer or in a bundle there. *)
LEMMA PlaysWhatThereIs ==
  ASSUME FrameCount <= Capacity, InductiveInvariant, NothingRefused,
         NEW seq \in SequenceNumbers, Len(output) = seq, PlayExpectedFrame(seq),
         \E packet \in arrived : packet = seq \/ seq \in repairs[packet]
  PROVE  \/ output'[seq + 1].audio = seq
         \/ stats'.opus_decode_errors > stats.opus_decode_errors
<1>1. /\ output \in Seq(Entries) /\ stats \in Counters /\ PlayTypes /\ Buffer!TypeOK
      /\ seq \in Nat /\ seq \in Sounds
  BY Typed, NumberFacts DEF PlayTypes, Entries, Statuses, Sounds, Counters
<1>2. CASE PlayPrimary(seq)
  <2>1. Buffer!Content(seq) = seq
    BY <1>1, <1>2, BufferPop DEF PlayPrimary, InductiveInvariant, BufferHoldsArrivals
  <2>2. CASE output' = Append(output, Entry("decoded", Buffer!Content(seq)))
    <3>1. output' = Append(output, Entry("decoded", seq)) /\ "decoded" \in Statuses
      BY <2>1, <2>2 DEF Statuses
    <3> QED BY <1>1, <3>1, OutputGrows
  <2>3. CASE stats' = [stats EXCEPT !.opus_decode_errors = @ + 1]
    BY <1>1, <2>3 DEF Counters
  <2> QED BY <1>2, <2>2, <2>3 DEF PlayPrimary
<1>3. CASE PlayMissing(seq)
  <2>1. seq \notin Buffer!Held
    BY <1>3 DEF PlayMissing, Buffer!PopMiss, Buffer!Held
  <2>2. Carriers(seq) # {}
    BY <2>1, RepairIsFound
  <2>3. PICK failures \in Nat, status \in {"opus_redundant", "opus_fec", "opus_plc"},
             audio \in {seq, Synthetic, Silence} :
            /\ output' = Append(output, Entry(status, audio))
            /\ \/ stats' = [stats EXCEPT !.opus_decode_errors = @ + failures]
               \/ stats' = Count([stats EXCEPT !.opus_decode_errors = @ + failures], status)
            /\ failures = 0 /\ Carriers(seq) # {} => audio = seq
    BY <1>1, <1>3, MissingEffect
  <2>4. CASE failures = 0
    <3>1. output' = Append(output, Entry(status, seq)) /\ status \in Statuses
      BY <2>2, <2>3, <2>4 DEF Statuses
    <3> QED BY <1>1, <3>1, OutputGrows
  <2>5. CASE failures # 0
    <3> DEFINE failed == [stats EXCEPT !.opus_decode_errors = @ + failures]
    <3>1. failed \in Counters
      BY <1>1, CountTyped
    <3>2. failed.opus_decode_errors > stats.opus_decode_errors
      BY <1>1, <2>5 DEF Counters
    <3>3. stats' = failed \/ stats' = Count(failed, status)
      BY <2>3
    <3> HIDE DEF failed
    <3> QED BY <3>1, <3>2, <3>3, CountKeepsErrors
  <2> QED BY <2>4, <2>5
<1> QED BY <1>2, <1>3 DEF PlayExpectedFrame

(* In a stream that fits the buffer, a frame whose packet arrived, or a      *)
(* bundle with a copy of it, is played as itself unless a decode fails,      *)
(* however the packets were reordered, lost or delayed.                      *)
THEOREM RealAudioIsUsed ==
  ASSUME FrameCount <= Capacity
  PROVE  Spec => RealAudioWhenAvailable
<1> DEFINE Plays == output # output' =>
              LET seq == Len(output)
              IN  (\E packet \in arrived : packet = seq \/ seq \in repairs[packet]) =>
                     \/ output'[seq + 1].audio = seq
                     \/ stats'.opus_decode_errors > stats.opus_decode_errors
<1>1. ASSUME InductiveInvariant, NothingRefused, [Next]_vars PROVE Plays
  <2>1. CASE output' = output
    BY <2>1
  <2>2. CASE PlayTick \/ PlayTail
    <3>1. CASE UNCHANGED <<bufferVars, playVars>>
      BY <2>1, <3>1 DEF playVars
    <3>2. CASE /\ phase # "failed" /\ Upcoming \in SequenceNumbers
               /\ Len(output) = Upcoming /\ PlayExpectedFrame(Upcoming)
      BY <1>1, <3>2, PlaysWhatThereIs
    <3> QED BY <1>1, <2>2, <3>1, <3>2, PlaySteps
  <2>3. CASE \E seq \in network : ReceivePacket(seq)
    BY <2>1, <2>3 DEF ReceivePacket, playVars
  <2> QED BY <1>1, <2>1, <2>2, <2>3, OthersPlayNothing DEF playVars
<1>2. InductiveInvariant /\ NothingRefused /\ [Next]_vars => NothingRefused'
  BY NothingRefusedStep
<1>3. Init => NothingRefused
  BY DEF Init, NothingRefused
<1>4. InductiveInvariant /\ NothingRefused /\ [Next]_vars => [Plays]_vars
  BY <1>1
<1>5. Spec => [](InductiveInvariant /\ NothingRefused)
  BY <1>2, <1>3, Invariance, PTL DEF Spec
<1>6. Spec => [][Plays]_vars
  <2> HIDE DEF Plays
  <2> QED BY <1>4, <1>5, PTL DEF Spec
<1> QED BY <1>6 DEF RealAudioWhenAvailable
-----------------------------------------------------------------------------
(* The frames of the summary.                                               *)

BufferCounts == received = bufferStats.inserted + bufferStats.late_or_collided_packets

PlayCounts ==
    /\ Len(output) = stats.decoded + stats.concealed + Silent
    /\ stats.concealed = stats.fec_recovered + stats.plc_generated
    /\ bufferStats.underruns >= stats.redundancy_recovered + stats.concealed
    /\ Silent <= stats.opus_decode_errors

LEMMA SilentIsFinite ==
  ASSUME output \in Seq(Entries)
  PROVE  /\ IsFiniteSet({n \in DOMAIN output : output[n].audio = Silence})
         /\ Silent \in Nat
<1>1. IsFiniteSet(1..Len(output)) /\ DOMAIN output = 1..Len(output)
  BY FS_Interval
<1>2. {n \in DOMAIN output : output[n].audio = Silence} \subseteq 1..Len(output)
  BY <1>1
<1> QED BY <1>1, <1>2, FS_Subset, FS_CardinalityType DEF Silent

(* The silent frames of an output that grows by one. *)
LEMMA SilentGrows ==
  ASSUME output \in Seq(Entries), NEW status \in Statuses, NEW audio \in Sounds,
         output' = Append(output, Entry(status, audio))
  PROVE  Silent' = Silent + (IF audio = Silence THEN 1 ELSE 0)
<1> DEFINE A == {n \in DOMAIN output : output[n].audio = Silence}
           B == {n \in DOMAIN output' : output'[n].audio = Silence}
           m == Len(output) + 1
<1>1. /\ DOMAIN output' = 1..m /\ Len(output) \in Nat /\ DOMAIN output = 1..Len(output)
      /\ \A n \in 1..Len(output) : output'[n] = output[n]
      /\ output'[m].audio = audio
  BY OutputGrows
<1>2. B = A \cup (IF audio = Silence THEN {m} ELSE {}) /\ m \notin A
  <2>1. ASSUME NEW n PROVE n \in B <=> n \in A \cup (IF audio = Silence THEN {m} ELSE {})
    <3>1. n \in 1..m <=> n \in 1..Len(output) \/ n = m
      BY <1>1
    <3> QED BY <1>1, <3>1
  <2> QED BY <1>1, <2>1
<1>3. IsFiniteSet(A) /\ Silent = Cardinality(A) /\ Silent' = Cardinality(B) /\ Silent \in Nat
  BY SilentIsFinite DEF Silent
<1> HIDE DEF A, B, m
<1>4. CASE audio = Silence
  BY <1>2, <1>3, <1>4, FS_AddElement
<1>5. CASE audio # Silence
  <2>1. B = A
    BY <1>2, <1>5
  <2> QED BY <1>3, <1>5, <2>1
<1> QED BY <1>4, <1>5

(* What each outcome of a decoder adds to the counters. *)
LEMMA Counted ==
  ASSUME NEW counters \in Counters, NEW status
  PROVE  LET after == Count(counters, status)
         IN  /\ after.opus_decode_errors = counters.opus_decode_errors
             /\ status = "opus_redundant" =>
                   /\ after.decoded = counters.decoded + 1
                   /\ after.redundancy_recovered = counters.redundancy_recovered + 1
                   /\ after.concealed = counters.concealed
                   /\ after.fec_recovered = counters.fec_recovered
                   /\ after.plc_generated = counters.plc_generated
             /\ status # "opus_redundant" =>
                   /\ after.decoded = counters.decoded
                   /\ after.redundancy_recovered = counters.redundancy_recovered
                   /\ after.concealed = counters.concealed + 1
                   /\ after.fec_recovered + after.plc_generated =
                         counters.fec_recovered + counters.plc_generated + 1
<1>1. CASE status = "opus_redundant"
  BY <1>1 DEF Count, Counters
<1>2. CASE status # "opus_redundant" /\ status = "opus_fec"
  BY <1>2 DEF Count, Counters
<1>3. CASE status # "opus_redundant" /\ status # "opus_fec"
  BY <1>3 DEF Count, Counters
<1> QED BY <1>1, <1>2, <1>3

LEMMA OneMore ==
  ASSUME NEW a \in Nat, NEW b \in Nat, NEW c \in Nat, NEW d \in Nat, a = b + c + d
  PROVE  a + 1 = b + c + (d + 1)
  OBVIOUS

LEMMA PlayCounted ==
  ASSUME Buffer!TypeOK, PlayTypes, NEW seq \in SequenceNumbers, Buffer!Content(seq) = seq \/
         PlayMissing(seq), PlayExpectedFrame(seq), PlayCounts
  PROVE  /\ PlayCounts'
         /\ bufferStats'.inserted = bufferStats.inserted
         /\ bufferStats'.late_or_collided_packets = bufferStats.late_or_collided_packets
<1>1. /\ output \in Seq(Entries) /\ stats \in Counters
      /\ seq \in Sounds /\ Synthetic \in Sounds /\ Silence \in Sounds
      /\ seq # Silence /\ Synthetic # Silence /\ Silent \in Nat /\ Len(output) \in Nat
  <2>1. output \in Seq(Entries) /\ stats \in Counters
    BY DEF PlayTypes, Entries, Statuses, Sounds, Counters
  <2>2. seq # Silence /\ Synthetic # Silence
    BY FrameAssumption DEF SequenceNumbers
  <2> QED BY <2>1, <2>2, SilentIsFinite DEF Sounds
<1>2. bufferStats \in [inserted : Nat, popped : Nat, underruns : Nat,
                       late_or_collided_packets : Nat]
  BY DEF Buffer!TypeOK
<1>9. /\ stats.decoded \in Nat /\ stats.concealed \in Nat
      /\ stats.redundancy_recovered \in Nat /\ stats.fec_recovered \in Nat
      /\ stats.plc_generated \in Nat /\ stats.opus_decode_errors \in Nat
      /\ bufferStats.underruns \in Nat
  BY <1>1, <1>2 DEF Counters
<1>3. ASSUME NEW status \in Statuses, NEW audio \in Sounds,
             output' = Append(output, Entry(status, audio))
      PROVE  /\ Len(output') = Len(output) + 1
             /\ Silent' = Silent + (IF audio = Silence THEN 1 ELSE 0)
  BY <1>1, <1>3, OutputGrows, SilentGrows
<1>4. CASE PlayPrimary(seq) /\ ~PlayMissing(seq)
  <2>1. /\ bufferStats'.inserted = bufferStats.inserted
        /\ bufferStats'.late_or_collided_packets = bufferStats.late_or_collided_packets
        /\ bufferStats'.underruns = bufferStats.underruns
    BY <1>2, <1>4 DEF PlayPrimary, Buffer!PopHit
  <2>2. CASE /\ stats' = [stats EXCEPT !.decoded = @ + 1]
             /\ output' = Append(output, Entry("decoded", Buffer!Content(seq)))
    <3>1. Len(output') = Len(output) + 1 /\ Silent' = Silent
      <4>1. output' = Append(output, Entry("decoded", seq)) /\ "decoded" \in Statuses
        BY <1>4, <2>2 DEF Statuses
      <4> QED BY <1>1, <1>3, <4>1
    <3>2. /\ stats'.decoded = stats.decoded + 1
          /\ stats'.concealed = stats.concealed
          /\ stats'.redundancy_recovered = stats.redundancy_recovered
          /\ stats'.fec_recovered = stats.fec_recovered
          /\ stats'.plc_generated = stats.plc_generated
          /\ stats'.opus_decode_errors = stats.opus_decode_errors
      BY <1>1, <2>2 DEF Counters
    <3>4. Len(output') = stats'.decoded + stats'.concealed + Silent'
      BY <1>1, <1>9, <3>1, <3>2 DEF PlayCounts
    <3>5. stats'.concealed = stats'.fec_recovered + stats'.plc_generated
      BY <3>2 DEF PlayCounts
    <3>6. bufferStats'.underruns >= stats'.redundancy_recovered + stats'.concealed
      BY <1>9, <2>1, <3>2 DEF PlayCounts
    <3>7. Silent' <= stats'.opus_decode_errors
      BY <1>1, <1>9, <3>1, <3>2 DEF PlayCounts
    <3>3. PlayCounts'
      BY <3>4, <3>5, <3>6, <3>7 DEF PlayCounts
    <3> QED BY <2>1, <3>3
  <2>3. CASE /\ stats' = [stats EXCEPT !.opus_decode_errors = @ + 1]
             /\ output' = Append(output, Entry("decoded", Silence))
    <3>1. Len(output') = Len(output) + 1 /\ Silent' = Silent + 1
      <4>1. "decoded" \in Statuses
        BY DEF Statuses
      <4> QED BY <1>1, <1>3, <2>3, <4>1
    <3>2. /\ stats'.decoded = stats.decoded
          /\ stats'.concealed = stats.concealed
          /\ stats'.redundancy_recovered = stats.redundancy_recovered
          /\ stats'.fec_recovered = stats.fec_recovered
          /\ stats'.plc_generated = stats.plc_generated
          /\ stats'.opus_decode_errors = stats.opus_decode_errors + 1
      BY <1>1, <2>3 DEF Counters
    <3>4. Len(output') = stats'.decoded + stats'.concealed + Silent'
      <4>1. /\ stats'.decoded + stats'.concealed = stats.decoded + stats.concealed
            /\ stats'.decoded \in Nat /\ stats'.concealed \in Nat
        BY <1>9, <3>2
      <4>2. Len(output) = stats.decoded + stats.concealed + Silent
        BY DEF PlayCounts
      <4>3. Silent' \in Nat /\ Len(output') \in Nat
        BY <1>1, <3>1
      <4>7. /\ Len(output) \in Nat /\ Silent \in Nat
            /\ stats.decoded \in Nat /\ stats.concealed \in Nat
        BY <1>1, <1>9
      <4>4. Len(output) + 1 = stats.decoded + stats.concealed + (Silent + 1)
        BY <4>2, <4>7, OneMore
      <4>5. stats.decoded + stats.concealed = stats'.decoded + stats'.concealed
        BY <4>1
      <4>6. Len(output) + 1 = Len(output') /\ Silent + 1 = Silent'
        BY <3>1
      <4> QED BY <4>4, <4>5, <4>6
    <3>5. stats'.concealed = stats'.fec_recovered + stats'.plc_generated
      BY <3>2 DEF PlayCounts
    <3>6. bufferStats'.underruns >= stats'.redundancy_recovered + stats'.concealed
      BY <1>9, <2>1, <3>2 DEF PlayCounts
    <3>7. Silent' <= stats'.opus_decode_errors
      BY <1>1, <1>9, <3>1, <3>2 DEF PlayCounts
    <3>3. PlayCounts'
      BY <3>4, <3>5, <3>6, <3>7 DEF PlayCounts
    <3> QED BY <2>1, <3>3
  <2> QED BY <1>4, <2>1, <2>2, <2>3 DEF PlayPrimary
<1>5. CASE PlayMissing(seq)
  <2>1. /\ bufferStats'.inserted = bufferStats.inserted
        /\ bufferStats'.late_or_collided_packets = bufferStats.late_or_collided_packets
        /\ bufferStats'.underruns = bufferStats.underruns + 1
    BY <1>2, <1>5 DEF PlayMissing, Buffer!PopMiss
  <2>2. PICK failures \in Nat, status \in {"opus_redundant", "opus_fec", "opus_plc"},
             audio \in {seq, Synthetic, Silence} :
            /\ output' = Append(output, Entry(status, audio))
            /\ LET failed == [stats EXCEPT !.opus_decode_errors = @ + failures]
               IN  \/ audio = Silence /\ stats' = failed /\ failures >= 1
                   \/ /\ stats' = Count(failed, status)
                      /\ audio = IF status = "opus_redundant" THEN seq ELSE Synthetic
    BY <1>5, MissingEffect
  <2> DEFINE failed == [stats EXCEPT !.opus_decode_errors = @ + failures]
  <2>3. /\ Len(output') = Len(output) + 1
        /\ Silent' = Silent + (IF audio = Silence THEN 1 ELSE 0)
    <3>1. status \in Statuses /\ audio \in Sounds
      BY <1>1 DEF Statuses
    <3> QED BY <1>3, <2>2, <3>1
  <2>4. /\ failed \in Counters
        /\ failed.opus_decode_errors = stats.opus_decode_errors + failures
        /\ failed.decoded = stats.decoded /\ failed.concealed = stats.concealed
        /\ failed.redundancy_recovered = stats.redundancy_recovered
        /\ failed.fec_recovered = stats.fec_recovered
        /\ failed.plc_generated = stats.plc_generated
    BY <1>1, CountTyped DEF Counters
  <2>5. \/ audio = Silence /\ stats' = failed /\ failures >= 1
        \/ stats' = Count(failed, status) /\ audio # Silence
    BY <1>1, <2>2
  <2> HIDE DEF failed
  <2>6. CASE audio = Silence /\ stats' = failed /\ failures >= 1
    <3>1. Silent' = Silent + 1
      BY <2>3, <2>6
    <3>2. /\ stats'.decoded = stats.decoded
          /\ stats'.concealed = stats.concealed
          /\ stats'.redundancy_recovered = stats.redundancy_recovered
          /\ stats'.fec_recovered = stats.fec_recovered
          /\ stats'.plc_generated = stats.plc_generated
          /\ stats'.opus_decode_errors = stats.opus_decode_errors + failures
      BY <2>4, <2>6
    <3>4. Len(output') = stats'.decoded + stats'.concealed + Silent'
      <4>1. /\ stats'.decoded + stats'.concealed = stats.decoded + stats.concealed
            /\ stats'.decoded \in Nat /\ stats'.concealed \in Nat
        BY <1>9, <3>2
      <4>2. Len(output) = stats.decoded + stats.concealed + Silent
        BY DEF PlayCounts
      <4>3. Silent' \in Nat /\ Len(output') \in Nat
        BY <1>1, <2>3, <3>1
      <4>7. /\ Len(output) \in Nat /\ Silent \in Nat
            /\ stats.decoded \in Nat /\ stats.concealed \in Nat
        BY <1>1, <1>9
      <4>4. Len(output) + 1 = stats.decoded + stats.concealed + (Silent + 1)
        BY <4>2, <4>7, OneMore
      <4>5. stats.decoded + stats.concealed = stats'.decoded + stats'.concealed
        BY <4>1
      <4>6. Len(output) + 1 = Len(output') /\ Silent + 1 = Silent'
        BY <2>3, <3>1
      <4> QED BY <4>4, <4>5, <4>6
    <3>5. stats'.concealed = stats'.fec_recovered + stats'.plc_generated
      BY <3>2 DEF PlayCounts
    <3>6. bufferStats'.underruns >= stats'.redundancy_recovered + stats'.concealed
      BY <1>9, <2>1, <3>2 DEF PlayCounts
    <3>7. Silent' <= stats'.opus_decode_errors
      BY <1>1, <1>9, <2>3, <2>6, <3>1, <3>2 DEF PlayCounts
    <3>3. PlayCounts'
      BY <3>4, <3>5, <3>6, <3>7 DEF PlayCounts
    <3> QED BY <2>1, <3>3
  <2>7. CASE stats' = Count(failed, status) /\ audio # Silence
    <3>1. Silent' = Silent
      BY <1>1, <2>3, <2>7
    <3>2. /\ stats'.opus_decode_errors = stats.opus_decode_errors + failures
          /\ status = "opus_redundant" =>
                /\ stats'.decoded = stats.decoded + 1
                /\ stats'.redundancy_recovered = stats.redundancy_recovered + 1
                /\ stats'.concealed = stats.concealed
                /\ stats'.fec_recovered = stats.fec_recovered
                /\ stats'.plc_generated = stats.plc_generated
          /\ status # "opus_redundant" =>
                /\ stats'.decoded = stats.decoded
                /\ stats'.redundancy_recovered = stats.redundancy_recovered
                /\ stats'.concealed = stats.concealed + 1
                /\ stats'.fec_recovered + stats'.plc_generated =
                      stats.fec_recovered + stats.plc_generated + 1
      BY <2>4, <2>7, Counted
    <3>3. stats'.fec_recovered + stats'.plc_generated = stats'.concealed
      BY <1>9, <3>2 DEF PlayCounts
    <3>4. Len(output') = stats'.decoded + stats'.concealed + Silent'
      <4>1. stats'.decoded + stats'.concealed = stats.decoded + stats.concealed + 1
        BY <1>9, <3>2
      <4>2. stats'.decoded \in Nat /\ stats'.concealed \in Nat
        BY <1>9, <3>2
      <4>3. Len(output) = stats.decoded + stats.concealed + Silent
        BY DEF PlayCounts
      <4>4. Len(output) + 1 = (stats.decoded + stats.concealed + 1) + Silent
        BY <1>1, <1>9, <4>3
      <4>6. Len(output) + 1 = Len(output') /\ Silent = Silent'
        BY <2>3, <3>1
      <4> QED BY <4>1, <4>4, <4>6
    <3>5. bufferStats'.underruns >= stats'.redundancy_recovered + stats'.concealed
      <4>1. stats'.redundancy_recovered + stats'.concealed =
               stats.redundancy_recovered + stats.concealed + 1
        BY <1>9, <3>2
      <4> QED BY <1>9, <2>1, <4>1 DEF PlayCounts
    <3>6. Silent' <= stats'.opus_decode_errors
      BY <1>1, <1>9, <3>1, <3>2 DEF PlayCounts
    <3>7. PlayCounts'
      BY <3>3, <3>4, <3>5, <3>6 DEF PlayCounts
    <3> QED BY <2>1, <3>7
  <2> QED BY <2>1, <2>5, <2>6, <2>7
<1> QED BY <1>4, <1>5 DEF PlayExpectedFrame

LEMMA PlayStepCounts ==
  ASSUME InductiveInvariant, BufferCounts, PlayCounts, PlayTick \/ PlayTail
  PROVE  BufferCounts' /\ PlayCounts'
<1>1. received' = received
  BY DEF PlayTick, PlayTail, receiveVars
<1>2. CASE UNCHANGED <<bufferVars, playVars>>
  BY <1>1, <1>2 DEF BufferCounts, PlayCounts, Silent, bufferVars, playVars
<1>3. CASE /\ phase # "failed" /\ Upcoming \in SequenceNumbers
           /\ Len(output) = Upcoming /\ PlayExpectedFrame(Upcoming)
  <2>1. Buffer!Content(Upcoming) = Upcoming \/ PlayMissing(Upcoming)
    BY <1>3, BufferPop, Typed
    DEF PlayExpectedFrame, PlayPrimary, InductiveInvariant, BufferHoldsArrivals
  <2> QED BY <1>1, <1>3, <2>1, PlayCounted, Typed DEF BufferCounts
<1> QED BY <1>2, <1>3, PlaySteps

LEMMA ReceiveCounts ==
  ASSUME InductiveInvariant, BufferCounts, PlayCounts, NEW seq \in network, ReceivePacket(seq)
  PROVE  BufferCounts' /\ PlayCounts'
<1>1. /\ received' = received + 1 /\ UNCHANGED <<stats, output>>
      /\ Buffer!Refuse(seq) \/ Buffer!Insert(seq, seq)
  BY DEF ReceivePacket, playVars, Buffer!Push
<1>2. /\ bufferStats \in [inserted : Nat, popped : Nat, underruns : Nat,
                          late_or_collided_packets : Nat]
      /\ received \in Nat
  BY Typed DEF Buffer!TypeOK, ReceiveTypes
<1>3. /\ bufferStats'.underruns = bufferStats.underruns
      /\ bufferStats'.inserted + bufferStats'.late_or_collided_packets =
            bufferStats.inserted + bufferStats.late_or_collided_packets + 1
  BY <1>1, <1>2 DEF Buffer!Refuse, Buffer!Insert
<1> QED BY <1>1, <1>2, <1>3 DEF BufferCounts, PlayCounts, Silent

LEMMA OtherCounts ==
  ASSUME BufferCounts, PlayCounts, [Next]_vars,
         ~PlayTick, ~PlayTail, ~\E seq \in network : ReceivePacket(seq)
  PROVE  BufferCounts' /\ PlayCounts'
<1>1. UNCHANGED <<bufferVars, playVars, received>>
  BY DEF Next, Program, Failure, Receive, SchedulePacket, ReleaseDuePackets, SendFails,
     NetworkLoses, ReceiveInvalid, EncodeFails, ReceiveFails, BreakEarly, AwaitMore,
     DrainRound, Quiet, TailReceived, ReceiveDeadline, SendLoopEnds, DrainCompletes,
     DrainDeadline, StartTail, Returned, vars, receiveVars
<1> QED BY <1>1 DEF BufferCounts, PlayCounts, Silent, bufferVars, playVars

LEMMA InitCounts == Init => BufferCounts /\ PlayCounts
<1> SUFFICES ASSUME Init PROVE BufferCounts /\ PlayCounts
  OBVIOUS
<1>1. DOMAIN output = {} /\ Len(output) = 0
  BY DEF Init
<1>2. {n \in DOMAIN output : output[n].audio = Silence} = {}
  BY <1>1
<1>3. Silent = 0
  BY <1>2, FS_EmptySet DEF Silent
<1> QED BY <1>1, <1>3 DEF Init, Buffer!Init, BufferCounts, PlayCounts

(* The counters main prints add up at every moment, with what happened on    *)
(* the network, in the buffer and in playback, whatever is lost, copied,     *)
(* late, refused by the buffer or fails to decode.                          *)
THEOREM SummaryExact == Spec => []SummaryAddsUp
<1>1. /\ InductiveInvariant /\ BufferCounts /\ PlayCounts /\ [Next]_vars
            => BufferCounts' /\ PlayCounts'
  BY PlayStepCounts, ReceiveCounts, OtherCounts
<1>2. InductiveInvariant /\ PathLedger /\ BufferCounts /\ PlayCounts => SummaryAddsUp
  BY DEF SummaryAddsUp, CountersAddUp, InductiveInvariant, EverythingInItsPlace,
         PathLedger, BufferCounts, PlayCounts
<1> QED BY <1>1, <1>2, InitCounts, LedgerInvariance, PTL DEF Spec
-----------------------------------------------------------------------------
(* The receiver's calls are the jitter buffer's. *)
LEMMA SameUse ==
  /\ Facts!Init <=> Buffer!Init
  /\ [Facts!Next]_(Facts!vars) <=> [Buffer!Next]_(Buffer!vars)
  BY DEF Facts!Init, Buffer!Init, Facts!Slots, Buffer!Slots, Facts!Next, Buffer!Next,
         Facts!PopExpected, Buffer!PopExpected, Facts!PopHit, Buffer!PopHit,
         Facts!PopMiss, Buffer!PopMiss, Facts!Push, Buffer!Push, Facts!Refuse, Buffer!Refuse,
         Facts!Insert, Buffer!Insert, Facts!Collides, Buffer!Collides,
         Facts!Holds, Buffer!Holds, Facts!Slot, Buffer!Slot, Facts!vars, Buffer!vars

(* Each step of main is a call of the buffer or leaves it alone. *)
LEMMA StepsOfTheBuffer ==
  ASSUME InductiveInvariant, [Next]_vars
  PROVE  [Buffer!Next]_(Buffer!vars)
<1>1. ASSUME NEW seq \in network, ReceivePacket(seq) PROVE Buffer!Next
  <2>1. seq \in SequenceNumbers
    BY Typed DEF PathTypes
  <2> QED BY <1>1, <2>1 DEF ReceivePacket, Buffer!Next
<1>2. CASE UNCHANGED bufferVars
  BY <1>2 DEF bufferVars, Buffer!vars
<1>3. ASSUME NEW seq \in SequenceNumbers, PlayExpectedFrame(seq) PROVE Buffer!Next
  BY <1>3 DEF PlayExpectedFrame, PlayPrimary, PlayMissing, Buffer!Next, Buffer!PopExpected
<1>4. CASE PlayTick \/ PlayTail
  BY <1>2, <1>3, <1>4, PlaySteps
<1> QED BY <1>1, <1>2, <1>4, OthersPlayNothing

(* main uses the jitter buffer as it has to be used, with numbers of the    *)
(* stream only, latecomers included: what the buffer promises holds in the  *)
(* program, also where a latecomer keeps a slot.                           *)
THEOREM BufferAsUsed ==
  Spec => Buffer!Spec /\ Buffer!ImplementsStore /\ []Buffer!EveryFrameWasInserted
<1>1. Init => Buffer!Init
  BY DEF Init
<1>2. InductiveInvariant /\ [Next]_vars => [Buffer!Next]_(Buffer!vars)
  BY StepsOfTheBuffer
<1>3. Spec => Buffer!Spec
  BY <1>1, <1>2, Invariance, PTL DEF Spec, Buffer!Spec
<1>4. Facts!Spec <=> Buffer!Spec
  BY SameUse, PTL DEF Facts!Spec, Buffer!Spec
<1>5. Facts!ImplementsStore <=> Buffer!ImplementsStore
  <2>1. Facts!Store!Init <=> Buffer!Store!Init
    BY SameBuffer DEF Facts!Store!Init, Buffer!Store!Init
  <2>2. [Facts!Store!Next]_[seq \in Facts!Held |-> Facts!Content(seq)]
        <=> [Buffer!Store!Next]_[seq \in Buffer!Held |-> Buffer!Content(seq)]
    BY DEF Facts!Store!Next, Buffer!Store!Next, Facts!Store!Take, Buffer!Store!Take,
           Facts!Store!Put, Buffer!Store!Put, Facts!Held, Buffer!Held, Facts!Holds,
           Buffer!Holds, Facts!Content, Buffer!Content, Facts!Slot, Buffer!Slot
  <2> QED BY <2>1, <2>2, PTL
          DEF Facts!ImplementsStore, Buffer!ImplementsStore, Facts!Store!Spec, Buffer!Store!Spec
<1>6. Facts!EveryFrameWasInserted <=> Buffer!EveryFrameWasInserted
  <2>1. \A S : Facts!Cardinality(S) = Buffer!Cardinality(S)
    BY DEF Facts!Cardinality, Buffer!Cardinality
  <2> QED BY <2>1, SameBuffer DEF Facts!EveryFrameWasInserted, Buffer!EveryFrameWasInserted
<1>7. Facts!Spec => Facts!ImplementsStore
  BY NumberFacts, Facts!StoreRefinement
<1>8. Facts!Spec => []Facts!EveryFrameWasInserted
  BY NumberFacts, Facts!NoFrameFromNowhere
<1> QED BY <1>3, <1>4, <1>5, <1>6, <1>7, <1>8, PTL
=============================================================================
