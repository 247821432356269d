---------------------------- MODULE LoopbackProofs ----------------------------
(* Proofs about the loopback receiver for every stream length, jitter      *)
(* buffer capacity, playout depth and network behaviour.                   *)
EXTENDS LoopbackProperties, FiniteSetTheorems, TLAPS

Facts == INSTANCE FixedJitterBufferProofs
             WITH Sequences <- SequenceNumbers, Frames <- SequenceNumbers,
                  EmptyFrame <- NoFrame

(* The names of the jitter buffer's definitions in the two instances.      *)
(* FixedJitterBufferProofs states its lemmas about Facts, the model uses   *)
(* Buffer; they are the same formulas.                                     *)
LEMMA SameBuffer ==
  /\ Facts!TypeOK <=> Buffer!TypeOK
  /\ Facts!Held = Buffer!Held
  /\ \A seq : Facts!Content(seq) = Buffer!Content(seq)
  BY DEF Facts!TypeOK, Buffer!TypeOK, Facts!Slots, Buffer!Slots,
         Facts!Slot, Buffer!Slot, Facts!Held, Buffer!Held,
         Facts!Holds, Buffer!Holds, Facts!Content, Buffer!Content

LEMMA SameBufferNext ==
  /\ Facts!TypeOK' <=> Buffer!TypeOK'
  /\ Facts!Held' = Buffer!Held'
  /\ \A seq : Facts!Content(seq)' = Buffer!Content(seq)'
  BY DEF Facts!TypeOK, Buffer!TypeOK, Facts!Slots, Buffer!Slots,
         Facts!Slot, Buffer!Slot, Facts!Held, Buffer!Held,
         Facts!Holds, Buffer!Holds, Facts!Content, Buffer!Content

(* The assumptions of the jitter buffer hold for this use of it. *)
LEMMA BufferAssumptions ==
  Capacity \in Nat /\ Capacity >= 4 /\ SequenceNumbers \subseteq Nat
  BY RingAssumption, FrameCountAssumption DEF SequenceNumbers

LEMMA BufferInsert ==
  ASSUME Buffer!TypeOK, NEW seq \in SequenceNumbers, Buffer!Insert(seq, seq)
  PROVE  /\ Buffer!TypeOK'
         /\ Buffer!Held' = Buffer!Held \union {seq}
         /\ Buffer!Content(seq)' = seq
         /\ \A s \in Buffer!Held \ {seq} : Buffer!Content(s)' = Buffer!Content(s)
<1>1. Facts!TypeOK
  BY SameBuffer
<1>2. Facts!Insert(seq, seq)
  BY DEF Facts!Insert, Buffer!Insert, Facts!Collides, Buffer!Collides,
         Facts!Slot, Buffer!Slot
<1>3. /\ Facts!TypeOK'
      /\ Facts!Held' = Facts!Held \union {seq}
      /\ Facts!Content(seq)' = seq
      /\ \A s \in Facts!Held \ {seq} : Facts!Content(s)' = Facts!Content(s)
  BY <1>1, <1>2, BufferAssumptions, Facts!InsertEffect
<1> QED BY <1>3, SameBuffer, SameBufferNext

LEMMA BufferPop ==
  ASSUME Buffer!TypeOK, NEW seq \in SequenceNumbers, Buffer!PopHit(seq)
  PROVE  /\ Buffer!TypeOK'
         /\ seq \in Buffer!Held
         /\ Buffer!Held' = Buffer!Held \ {seq}
         /\ \A s \in Buffer!Held \ {seq} : Buffer!Content(s)' = Buffer!Content(s)
<1>1. Facts!TypeOK
  BY SameBuffer
<1>2. Facts!PopHit(seq)
  BY DEF Facts!PopHit, Buffer!PopHit, Facts!Holds, Buffer!Holds,
         Facts!Slot, Buffer!Slot
<1>3. /\ Facts!TypeOK'
      /\ seq \in Facts!Held
      /\ Facts!Held' = Facts!Held \ {seq}
      /\ \A s \in Facts!Held \ {seq} : Facts!Content(s)' = Facts!Content(s)
  BY <1>1, <1>2, BufferAssumptions, Facts!PopEffect
<1> QED BY <1>3, SameBuffer, SameBufferNext

LEMMA BufferMiss ==
  ASSUME Buffer!TypeOK, NEW seq \in SequenceNumbers, Buffer!PopMiss(seq)
  PROVE  /\ Buffer!TypeOK'
         /\ seq \notin Buffer!Held
         /\ Buffer!Held' = Buffer!Held
         /\ \A s \in Buffer!Held : Buffer!Content(s)' = Buffer!Content(s)
<1>1. Facts!TypeOK
  BY SameBuffer
<1>2. Facts!PopMiss(seq)
  BY DEF Facts!PopMiss, Buffer!PopMiss, Facts!Holds, Buffer!Holds,
         Facts!Slot, Buffer!Slot
<1>3. /\ Facts!TypeOK'
      /\ Facts!Held' = Facts!Held
      /\ \A s \in Facts!Held : Facts!Content(s)' = Facts!Content(s)
  BY <1>1, <1>2, BufferAssumptions, Facts!MissEffect
<1>4. seq \notin Buffer!Held
  BY DEF Buffer!PopMiss, Buffer!Held
<1> QED BY <1>3, <1>4, SameBuffer, SameBufferNext

LEMMA BufferUnchanged ==
  ASSUME UNCHANGED bufferVars
  PROVE  /\ Buffer!TypeOK' <=> Buffer!TypeOK
         /\ Buffer!Held' = Buffer!Held
         /\ \A s : Buffer!Content(s)' = Buffer!Content(s)
  BY DEF bufferVars, Buffer!TypeOK, Buffer!Held, Buffer!Holds,
         Buffer!Content, Buffer!Slot, Buffer!Slots

(* Frames closer together than the capacity do not collide. *)
LEMMA NoCollision ==
  ASSUME Buffer!TypeOK, NEW lo \in Nat, NEW seq \in SequenceNumbers,
         lo <= seq, seq <= lo + MaxDepth,
         \A s \in Buffer!Held : lo <= s /\ s <= lo + MaxDepth
  PROVE  ~Buffer!Collides(seq)
<1>1. SUFFICES ASSUME Buffer!Collides(seq) PROVE FALSE
  OBVIOUS
<1> DEFINE other == sequences[Buffer!Slot(seq)]
<1>2. Facts!Slot(seq) \in Facts!Slots
  BY BufferAssumptions, Facts!SlotInRange
<1>3. Buffer!Slot(seq) \in Buffer!Slots
  BY <1>2 DEF Facts!Slot, Buffer!Slot, Facts!Slots, Buffer!Slots
<1>4. /\ other \in SequenceNumbers /\ other # seq
      /\ Buffer!Slot(other) = Buffer!Slot(seq)
  BY <1>1, <1>3 DEF Buffer!TypeOK, Buffer!Collides
<1>5. other \in Buffer!Held
  BY <1>1, <1>4 DEF Buffer!Held, Buffer!Holds, Buffer!Collides
<1>6. other \in Nat /\ seq \in Nat
  BY <1>4, BufferAssumptions
<1>7. Facts!Slot(other) = Facts!Slot(seq)
  BY <1>4 DEF Facts!Slot, Buffer!Slot
<1>8. lo <= other /\ other <= lo + MaxDepth
  BY <1>5
<1> HIDE DEF other
<1>9. CASE seq < other
  BY <1>6, <1>7, <1>8, <1>9, BufferAssumptions, Facts!SlotsDistinct,
     RingAssumption, DepthAssumption
<1>10. CASE other < seq
  BY <1>6, <1>7, <1>8, <1>10, BufferAssumptions, Facts!SlotsDistinct,
     RingAssumption, DepthAssumption
<1> QED BY <1>4, <1>6, <1>9, <1>10
-----------------------------------------------------------------------------
LEMMA CountsAreNat ==
  ASSUME NEW S \in SUBSET SequenceNumbers
  PROVE  Cardinality(S) \in Nat
<1>1. IsFiniteSet(SequenceNumbers)
  BY FrameCountAssumption, FS_Interval DEF SequenceNumbers
<1> QED BY <1>1, FS_Subset, FS_CardinalityType

LEMMA InitInductive == Init => InductiveInvariant
<1> SUFFICES ASSUME Init PROVE InductiveInvariant
  OBVIOUS
<1> USE DEF Init, PathInit, Buffer!Init
<1>0. /\ 0 \in SequenceNumbers
      /\ FrameCount \in Nat
  BY FrameCountAssumption DEF SequenceNumbers
<1>1. Buffer!TypeOK
  BY DEF Buffer!TypeOK
<1>2. Buffer!Held = {}
  <2>1. ASSUME NEW seq \in SequenceNumbers PROVE ~Buffer!Holds(seq)
    <3>1. Facts!Slot(seq) \in Facts!Slots
      BY BufferAssumptions, Facts!SlotInRange
    <3> QED BY <3>1 DEF Buffer!Holds, Facts!Slot, Buffer!Slot, Facts!Slots, Buffer!Slots
  <2> QED BY <2>1 DEF Buffer!Held
<1>3. TypeOK
  BY <1>0, <1>1, DepthAssumption DEF TypeOK, Counters
<1>4. Control /\ Window
  BY <1>0, DepthAssumption DEF Control, Window
<1>5. BufferHoldsTheFuture /\ PushNeverRefused
  BY <1>2 DEF BufferHoldsTheFuture, PushNeverRefused
<1> QED BY <1>3, <1>4, <1>5 DEF InductiveInvariant

(* Steps that change neither the buffer nor playout nor what was received. *)
Untouched == UNCHANGED <<bufferVars, playVars, receiveVars>>

LEMMA UntouchedParts ==
  ASSUME InductiveInvariant, Untouched
  PROVE  /\ Buffer!TypeOK'
         /\ BufferHoldsTheFuture'
         /\ PushNeverRefused'
         /\ (Len(output) = next_play_sequence)'
<1>1. UNCHANGED <<bufferVars, bufferStats, output, ontime, next_play_sequence>>
  BY DEF Untouched, bufferVars, playVars, receiveVars
<1>2. Buffer!TypeOK' /\ PushNeverRefused' /\ (Len(output) = next_play_sequence)'
  BY <1>1, BufferUnchanged
  DEF InductiveInvariant, TypeOK, PushNeverRefused
<1>3. BufferHoldsTheFuture'
  BY <1>1, BufferUnchanged DEF InductiveInvariant, BufferHoldsTheFuture
<1> QED BY <1>2, <1>3

LEMMA PathStep ==
  ASSUME InductiveInvariant, SchedulePacket \/ ReleaseDuePackets \/ SendFails \/ NetworkLoses
  PROVE  InductiveInvariant'
<1> USE DEF InductiveInvariant
<1>1. Untouched
  BY DEF Untouched, SchedulePacket, ReleaseDuePackets, SendFails, NetworkLoses
<1>2. /\ i' = i /\ settled' = settled
      /\ next_play_sequence' = next_play_sequence /\ ontime' = ontime
  BY DEF SchedulePacket, ReleaseDuePackets, SendFails, NetworkLoses, controlVars,
         playVars, receiveVars
<1> DEFINE PathOK ==
             /\ pending' \union network' \subseteq SequenceNumbers
             /\ pending' \union network' \subseteq 0..i
             /\ {generated', dropped', sent', lost', duplicated'} \subseteq Nat
<1>3. PathOK
  <2>0. {generated, dropped, sent, lost, duplicated} \subseteq Nat
    BY DEF TypeOK, Counters
  <2>1. CASE SchedulePacket
    <3>1. i \in SequenceNumbers /\ i \in 0..i
      BY <2>1, FrameCountAssumption DEF SchedulePacket, TypeOK, SequenceNumbers
    <3>2. pending' \subseteq pending \union {i} /\ network' = network
      BY <2>1 DEF SchedulePacket, Schedule, Drop, Enqueue
    <3>3. {generated', dropped', sent', lost', duplicated'} \subseteq Nat
      BY <2>0, <2>1 DEF SchedulePacket, Schedule, Drop, Enqueue
    <3> QED BY <3>1, <3>2, <3>3 DEF TypeOK, Window
  <2>2. ASSUME NEW due \in SUBSET pending, Release(due)
        PROVE  PathOK
    <3>1. Cardinality(due) \in Nat
      BY CountsAreNat DEF TypeOK
    <3>2. {generated', dropped', sent', lost', duplicated'} \subseteq Nat
      BY <2>0, <2>2, <3>1 DEF Release
    <3> QED BY <2>2, <3>2 DEF Release, TypeOK, Window
  <2>3. CASE NetworkLoses
    BY <2>0, <2>3 DEF NetworkLoses, Lose, TypeOK, Window
  <2> QED BY <2>1, <2>2, <2>3 DEF ReleaseDuePackets, SendFails
<1>4. /\ phase' \in {"send", "tail", "final", "settle", "done", "failed"}
      /\ step' \in {"schedule", "release", "await", "drain", "play", "stop"}
      /\ Control'
  BY <1>2 DEF SchedulePacket, ReleaseDuePackets, ReleasePass, SendFails, NetworkLoses,
         controlVars, GoTo, TypeOK, Control
<1>5. TypeOK'
  BY <1>1, <1>2, <1>3, <1>4, UntouchedParts
  DEF TypeOK, Counters, Untouched, playVars, receiveVars
<1>6. Window'
  BY <1>2, <1>3 DEF Window
<1> QED BY <1>1, <1>4, <1>5, <1>6, UntouchedParts

(* Steps that only move the program counter. *)
ControlStep ==
    \/ ReceiveDeadline \/ BreakEarly \/ AwaitMore \/ DrainedForTail
    \/ DrainedFinal \/ Settle \/ ReceiveFails \/ SendLoopEnds \/ FinalDrainEnds

LEMMA ControlStepInductive ==
  ASSUME InductiveInvariant, ControlStep
  PROVE  InductiveInvariant'
<1> USE DEF InductiveInvariant, ControlStep, ReceiveDeadline, BreakEarly, AwaitMore,
            DrainedForTail, DrainedFinal, Settle, ReceiveFails, SendLoopEnds,
            FinalDrainEnds
<1>1. Untouched /\ UNCHANGED <<pathVars, i>>
  BY DEF Untouched
<1>2. /\ phase' \in {"send", "tail", "final", "settle", "done", "failed"}
      /\ step' \in {"schedule", "release", "await", "drain", "play", "stop"}
      /\ settled' \in 0..3
  BY DEF GoTo, TypeOK, Control, Draining
<1>3. next_play_sequence' = next_play_sequence
  BY DEF playVars
<1>4. Control'
  <2>1. CASE ReceiveDeadline \/ BreakEarly \/ AwaitMore
    BY <1>3, <2>1 DEF GoTo, TypeOK, Control, Draining
  <2>2. CASE DrainedForTail \/ DrainedFinal
    BY <1>3, <2>2 DEF GoTo, TypeOK, Control, Draining
  <2>5. CASE ReceiveFails
    BY <1>3, <2>5 DEF GoTo, TypeOK, Control, Draining
  <2>6. CASE FinalDrainEnds
    BY <1>3, <2>6 DEF GoTo, TypeOK, Control, Draining
  <2>3. CASE Settle
    BY <1>3, <2>3 DEF GoTo, TypeOK, Control, Draining
  <2>4. CASE SendLoopEnds
    BY <1>3, <2>4 DEF GoTo, TypeOK, Control, Draining
  <2> QED BY <2>1, <2>2, <2>3, <2>4, <2>5, <2>6
<1> HIDE DEF ControlStep, ReceiveDeadline, BreakEarly, AwaitMore,
            DrainedForTail, DrainedFinal, Settle, ReceiveFails, SendLoopEnds,
            FinalDrainEnds
<1>5. TypeOK'
  BY <1>1, <1>2, UntouchedParts
  DEF TypeOK, Counters, Untouched, playVars, receiveVars, pathVars
<1>6. Window'
  BY <1>1 DEF Window, Untouched, playVars, receiveVars, pathVars
<1> QED BY <1>1, <1>4, <1>5, <1>6, UntouchedParts

(* A datagram that is dropped: invalid or late. *)
LEMMA DiscardStep ==
  ASSUME InductiveInvariant,
         ReceiveInvalid \/ \E seq \in network : ReceiveLate(seq)
  PROVE  InductiveInvariant'
<1> USE DEF InductiveInvariant
<1>1. UNCHANGED <<bufferVars, controlVars, playVars, target_depth, received, ontime>>
  BY DEF ReceiveInvalid, ReceiveLate
<1>2. /\ pending' = pending /\ network' \subseteq network
      /\ {datagrams', invalid_datagrams', late_datagrams', generated', dropped',
          sent', lost', duplicated'} \subseteq Nat
  <2>1. {datagrams, invalid_datagrams, late_datagrams, generated, dropped,
         sent, lost, duplicated} \subseteq Nat
    BY DEF TypeOK, Counters
  <2>2. CASE ReceiveInvalid
    BY <2>1, <2>2 DEF ReceiveInvalid, pathVars
  <2>3. CASE \E seq \in network : ReceiveLate(seq)
    BY <2>1, <2>3 DEF ReceiveLate, Deliver
  <2> QED BY <2>2, <2>3
<1>3. Buffer!TypeOK' /\ BufferHoldsTheFuture' /\ PushNeverRefused'
  BY <1>1, BufferUnchanged
  DEF TypeOK, BufferHoldsTheFuture, PushNeverRefused, bufferVars, playVars
<1>4. TypeOK'
  BY <1>1, <1>2, <1>3 DEF TypeOK, Counters, controlVars, playVars
<1>5. Control' /\ Window' /\ (Len(output) = next_play_sequence)'
  BY <1>1, <1>2 DEF Control, Window, controlVars, playVars
<1> QED BY <1>3, <1>4, <1>5

(* A frame that arrives in time always finds its slot free. *)
LEMMA ReceiveInserts ==
  ASSUME InductiveInvariant, NEW seq \in network, ReceiveFrame(seq)
  PROVE  seq \in SequenceNumbers /\ Buffer!Insert(seq, seq)
<1> USE DEF InductiveInvariant
<1>1. /\ seq \in SequenceNumbers /\ seq \in Nat
      /\ next_play_sequence \in Nat /\ i \in Nat
  BY BufferAssumptions, FrameCountAssumption DEF TypeOK
<1>2. next_play_sequence <= seq /\ seq <= next_play_sequence + MaxDepth
  BY <1>1, DepthAssumption DEF ReceiveFrame, IsLate, Window
<1>3. \A s \in Buffer!Held : /\ next_play_sequence <= s
                            /\ s <= next_play_sequence + MaxDepth
  BY <1>1, DepthAssumption DEF BufferHoldsTheFuture, Window
<1>4. ~Buffer!Collides(seq)
  BY <1>1, <1>2, <1>3, NoCollision DEF TypeOK
<1> QED BY <1>1, <1>4 DEF ReceiveFrame, Buffer!Push, Buffer!Refuse

LEMMA ReceiveStep ==
  ASSUME InductiveInvariant, NEW seq \in network, ReceiveFrame(seq)
  PROVE  InductiveInvariant'
<1> USE DEF InductiveInvariant
<1>1. seq \in SequenceNumbers /\ Buffer!Insert(seq, seq)
  BY ReceiveInserts
<1>2. /\ Buffer!TypeOK'
      /\ Buffer!Held' = Buffer!Held \union {seq}
      /\ Buffer!Content(seq)' = seq
      /\ \A s \in Buffer!Held \ {seq} : Buffer!Content(s)' = Buffer!Content(s)
  BY <1>1, BufferInsert DEF TypeOK
<1>3. /\ UNCHANGED <<controlVars, playVars, invalid_datagrams, late_datagrams>>
      /\ ontime' = ontime \union {seq}
      /\ seq >= next_play_sequence
  <2>1. /\ UNCHANGED <<controlVars, playVars, invalid_datagrams, late_datagrams>>
        /\ ontime' = ontime \union {seq}
        /\ ~IsLate(seq)
    BY DEF ReceiveFrame
  <2>2. seq \in Nat /\ next_play_sequence \in Nat
    BY <1>1, BufferAssumptions, FrameCountAssumption DEF TypeOK
  <2> QED BY <2>1, <2>2 DEF IsLate
<1>4. /\ pending' = pending /\ network' \subseteq network
      /\ {datagrams', received', generated', dropped', sent', lost', duplicated'}
             \subseteq Nat
  <2>1. {datagrams, received, generated, dropped, sent, lost, duplicated} \subseteq Nat
    BY DEF TypeOK, Counters
  <2> QED BY <2>1 DEF ReceiveFrame, Deliver
<1>5. target_depth' \in MinDepth..MaxDepth
  BY DEF ReceiveFrame, ObserveInterArrival, TypeOK
<1>6. TypeOK'
  BY <1>1, <1>2, <1>3, <1>4, <1>5 DEF TypeOK, Counters, controlVars, playVars
<1>7. Control' /\ (Len(output) = next_play_sequence)'
  BY <1>3 DEF Control, controlVars, playVars
<1>8. Window'
  BY <1>3, <1>4 DEF Window, controlVars, playVars
<1>9. BufferHoldsTheFuture'
  BY <1>2, <1>3 DEF BufferHoldsTheFuture, playVars
<1>10. PushNeverRefused'
  BY <1>1 DEF PushNeverRefused, Buffer!Insert, TypeOK, Buffer!TypeOK
<1> QED BY <1>6, <1>7, <1>8, <1>9, <1>10

(* play_expected_frame: the frame is popped exactly when it arrived in     *)
(* time, and it is the frame of that number.                               *)
LEMMA PlayEffect ==
  ASSUME InductiveInvariant, PlayExpectedFrame, UNCHANGED ontime,
         next_play_sequence < FrameCount
  PROVE  /\ Buffer!TypeOK'
         /\ BufferHoldsTheFuture'
         /\ PushNeverRefused'
         /\ next_play_sequence' = next_play_sequence + 1
         /\ output' = Append(output, IF next_play_sequence \in ontime
                                     THEN next_play_sequence ELSE Concealed)
         /\ played' \in Nat /\ concealed' \in Nat
<1> USE DEF InductiveInvariant
<1>1. /\ next_play_sequence \in SequenceNumbers
      /\ SequenceNumbers \subseteq Nat
      /\ next_play_sequence' = next_play_sequence + 1
  BY FrameCountAssumption DEF TypeOK, PlayExpectedFrame, SequenceNumbers
<1>2. ontime \subseteq SequenceNumbers /\ ontime' = ontime
  BY DEF TypeOK
<1>3. {s \in ontime : s >= next_play_sequence + 1} =
         {s \in ontime : s >= next_play_sequence} \ {next_play_sequence}
  <2>1. ASSUME NEW s \in ontime
        PROVE  s >= next_play_sequence + 1 <=>
                  s >= next_play_sequence /\ s # next_play_sequence
    BY <1>1, <1>2
  <2> QED BY <2>1
<1>4. /\ Buffer!Held = {s \in ontime : s >= next_play_sequence}
      /\ \A s \in Buffer!Held : Buffer!Content(s) = s
  BY DEF BufferHoldsTheFuture
<1>5. ASSUME Buffer!Held' = Buffer!Held \ {next_play_sequence},
             \A s \in Buffer!Held \ {next_play_sequence} :
                 Buffer!Content(s)' = Buffer!Content(s)
      PROVE  BufferHoldsTheFuture'
  BY <1>1, <1>2, <1>3, <1>4, <1>5 DEF BufferHoldsTheFuture
<1>6. CASE PlayBuffered
  <2>1. /\ Buffer!TypeOK'
        /\ next_play_sequence \in Buffer!Held
        /\ Buffer!Held' = Buffer!Held \ {next_play_sequence}
        /\ \A s \in Buffer!Held \ {next_play_sequence} :
              Buffer!Content(s)' = Buffer!Content(s)
    BY <1>1, <1>6, BufferPop DEF TypeOK, PlayBuffered
  <2>2. BufferHoldsTheFuture'
    BY <2>1, <1>5
  <2>3. PushNeverRefused'
    BY <1>6 DEF PlayBuffered, Buffer!PopHit, PushNeverRefused, TypeOK, Buffer!TypeOK
  <2>4. /\ next_play_sequence \in ontime
        /\ output' = Append(output, next_play_sequence)
    BY <1>6, <2>1 DEF PlayBuffered, BufferHoldsTheFuture
  <2>5. played' \in Nat /\ concealed' \in Nat
    BY <1>6 DEF PlayBuffered, TypeOK, Counters
  <2> QED BY <1>1, <2>1, <2>2, <2>3, <2>4, <2>5
<1>7. CASE Conceal
  <2>1. /\ Buffer!TypeOK'
        /\ next_play_sequence \notin Buffer!Held
        /\ Buffer!Held' = Buffer!Held
        /\ \A s \in Buffer!Held : Buffer!Content(s)' = Buffer!Content(s)
    BY <1>1, <1>7, BufferMiss DEF TypeOK, Conceal
  <2>2. next_play_sequence \notin ontime
    BY <1>1, <2>1 DEF BufferHoldsTheFuture
  <2>3. BufferHoldsTheFuture'
    BY <1>1, <1>4, <1>5, <2>1, <2>2
  <2>4. PushNeverRefused'
    BY <1>7 DEF Conceal, Buffer!PopMiss, PushNeverRefused, TypeOK, Buffer!TypeOK
  <2>5. output' = Append(output, Concealed)
    BY <1>7 DEF Conceal
  <2>6. played' \in Nat /\ concealed' \in Nat
    BY <1>7 DEF Conceal, TypeOK, Counters
  <2> QED BY <1>1, <2>1, <2>2, <2>3, <2>4, <2>5, <2>6
<1> QED BY <1>6, <1>7 DEF PlayExpectedFrame

(* A send tick plays only frames of the stream. *)
LEMMA TickInStream ==
  ASSUME InductiveInvariant, PlayTick, PlayoutDue
  PROVE  next_play_sequence < FrameCount
  BY FrameCountAssumption, DepthAssumption
  DEF InductiveInvariant, TypeOK, Control, PlayTick, PlayoutDue

LEMMA PlayStep ==
  ASSUME InductiveInvariant, PlayTick \/ PlayTail
  PROVE  InductiveInvariant'
<1> USE DEF InductiveInvariant
<1>1. UNCHANGED <<pathVars, settled, receiveVars>>
  BY DEF PlayTick, PlayTail
<1>2. CASE PlayTick /\ ~PlayoutDue
  <2>1. Untouched /\ i' = i + 1 /\ phase' = "send" /\ step' = "schedule"
    BY <1>1, <1>2 DEF PlayTick, Untouched, GoTo
  <2>2. i' \in 0..FrameCount /\ i' <= next_play_sequence + MaxDepth
    BY <1>2, <2>1, FrameCountAssumption, DepthAssumption
    DEF PlayTick, PlayoutDue, TypeOK, Control, Window
  <2>3. TypeOK'
    BY <1>1, <2>1, <2>2, UntouchedParts
    DEF TypeOK, Counters, Untouched, playVars, receiveVars, pathVars
  <2>4. Control'
    BY <1>1, <1>2, <2>1 DEF Control, PlayTick
  <2>5. Window'
    BY <1>1, <2>1, <2>2 DEF Window, Untouched, playVars, receiveVars, pathVars, TypeOK
  <2> QED BY <2>1, <2>3, <2>4, <2>5, UntouchedParts
<1>3. CASE PlayExpectedFrame /\ next_play_sequence < FrameCount
  <2>1. UNCHANGED ontime
    BY <1>1 DEF receiveVars
  <2>2. /\ Buffer!TypeOK' /\ BufferHoldsTheFuture' /\ PushNeverRefused'
        /\ next_play_sequence' = next_play_sequence + 1
        /\ output' = Append(output, IF next_play_sequence \in ontime
                                    THEN next_play_sequence ELSE Concealed)
        /\ played' \in Nat /\ concealed' \in Nat
    BY <1>3, <2>1, PlayEffect
  <2>3. /\ output' \in Seq(SequenceNumbers \union {Concealed})
        /\ (Len(output) = next_play_sequence)'
    BY <2>2 DEF TypeOK
  <2>4. next_play_sequence' \in 0..FrameCount
    BY <1>3, <2>2, FrameCountAssumption DEF TypeOK
  <2>5. /\ i' \in i..FrameCount
        /\ i' <= next_play_sequence' + MaxDepth
    BY <2>2, FrameCountAssumption, DepthAssumption
    DEF PlayTick, PlayTail, TypeOK, Control, Window
  <2>6. /\ phase' \in {"send", "tail", "final"}
        /\ step' \in {"schedule", "release", "await"}
    BY DEF PlayTick, PlayTail, GoTo
  <2>7. TypeOK'
    BY <1>1, <2>2, <2>3, <2>4, <2>5, <2>6, FrameCountAssumption
    DEF TypeOK, Counters, receiveVars, pathVars
  <2>8. Control'
    BY <1>1, <2>2 DEF Control, PlayTick, PlayTail, GoTo
  <2>9. Window'
    BY <1>1, <2>5, FrameCountAssumption DEF Window, receiveVars, pathVars, TypeOK
  <2> QED BY <2>2, <2>3, <2>7, <2>8, <2>9
<1> QED BY <1>2, <1>3, TickInStream DEF PlayTick, PlayTail, Control
-----------------------------------------------------------------------------
(* The invariant is preserved by every step. *)
LEMMA NextInductive ==
  ASSUME InductiveInvariant, [Next]_vars
  PROVE  InductiveInvariant'
<1>1. CASE SchedulePacket \/ ReleaseDuePackets \/ SendFails \/ NetworkLoses
  BY <1>1, PathStep
<1>2. CASE ControlStep
  BY <1>2, ControlStepInductive
<1>3. CASE Receive
  BY <1>3, DiscardStep, ReceiveStep DEF Receive
<1>4. CASE PlayTick \/ PlayTail
  BY <1>4, PlayStep
<1>5. CASE UNCHANGED vars
  <2>1. Untouched /\ UNCHANGED <<pathVars, controlVars>>
    BY <1>5 DEF vars, Untouched
  <2>2. TypeOK'
    BY <2>1, UntouchedParts
    DEF InductiveInvariant, TypeOK, Counters, Untouched, playVars, receiveVars,
        pathVars, controlVars
  <2>3. Control' /\ Window'
    BY <2>1 DEF InductiveInvariant, Control, Window, Untouched, playVars,
                receiveVars, pathVars, controlVars
  <2> QED BY <2>1, <2>2, <2>3, UntouchedParts DEF InductiveInvariant
<1> QED BY <1>1, <1>2, <1>3, <1>4, <1>5
        DEF Next, Program, Failure, ControlStep, Returned

THEOREM Invariance == Spec => []InductiveInvariant
<1>1. InductiveInvariant /\ [Next]_vars => InductiveInvariant'
  BY NextInductive
<1> QED BY <1>1, InitInductive, PTL DEF Spec

(* The type invariant. *)
THEOREM TypeCorrect == Spec => []TypeOK
<1>1. InductiveInvariant => TypeOK
  BY DEF InductiveInvariant
<1> QED BY <1>1, Invariance, PTL

(* Ignoring the result of push (udp_audio_loopback.cpp:346) is justified:  *)
(* with a capacity above the maximal depth it is never refused.            *)
THEOREM NoPushRefused == Spec => []PushNeverRefused
<1>1. InductiveInvariant => PushNeverRefused
  BY DEF InductiveInvariant
<1> QED BY <1>1, Invariance, PTL

(* The jitter buffer holds exactly the on-time frames still to be played.  *)
THEOREM BufferExact == Spec => []BufferHoldsTheFuture
<1>1. InductiveInvariant => BufferHoldsTheFuture
  BY DEF InductiveInvariant
<1> QED BY <1>1, Invariance, PTL

(* The receiver plays every on-time frame in its place and conceals every  *)
(* other one: it implements the playout with an unlimited buffer.          *)
THEOREM PlayoutRefinement == Spec => ImplementsIdealPlayout
<1>1. Init => Ideal!Init
  BY DEF Init, Ideal!Init
<1>2. InductiveInvariant /\ [Next]_vars => [Ideal!Next]_<<ontime, output>>
  <2> SUFFICES ASSUME InductiveInvariant, [Next]_vars
               PROVE  [Ideal!Next]_<<ontime, output>>
    OBVIOUS
  <2>1. ASSUME NEW seq \in network, ReceiveFrame(seq)
        PROVE  Ideal!Accept(seq) /\ seq \in 0..(FrameCount - 1)
    BY <2>1, ReceiveInserts, BufferAssumptions, FrameCountAssumption
    DEF InductiveInvariant, TypeOK, ReceiveFrame, IsLate, Ideal!Accept,
        playVars, SequenceNumbers
  <2>2. ASSUME PlayExpectedFrame, UNCHANGED receiveVars,
               next_play_sequence < FrameCount
        PROVE  Ideal!Emit
    BY <2>2, PlayEffect DEF InductiveInvariant, receiveVars, Ideal!Emit
  <2>3. CASE PlayTick
    BY <2>2, <2>3, TickInStream DEF PlayTick, playVars, receiveVars, Ideal!Next
  <2>4. CASE PlayTail
    BY <2>2, <2>4 DEF PlayTail, InductiveInvariant, Control, Ideal!Next
  <2>5. CASE Receive
    BY <2>1, <2>5 DEF Receive, ReceiveInvalid, ReceiveLate, playVars, Ideal!Next
  <2>6. CASE SchedulePacket \/ ReleaseDuePackets \/ SendFails \/ NetworkLoses
    BY <2>6 DEF SchedulePacket, ReleaseDuePackets, SendFails, NetworkLoses,
                playVars, receiveVars
  <2>7. CASE ControlStep
    BY <2>7 DEF ControlStep, ReceiveDeadline, BreakEarly, AwaitMore,
       DrainedForTail, DrainedFinal, Settle, ReceiveFails, SendLoopEnds,
       FinalDrainEnds, playVars, receiveVars
  <2>8. CASE UNCHANGED vars
    BY <2>8 DEF vars, playVars, receiveVars
  <2> QED BY <2>3, <2>4, <2>5, <2>6, <2>7, <2>8
          DEF Next, Program, Failure, ControlStep, Returned
<1> QED BY <1>1, <1>2, Invariance, PTL
        DEF Spec, ImplementsIdealPlayout, Ideal!Spec
-----------------------------------------------------------------------------
(* The summary adds up and playout keeps its distance to the sender.       *)

(* A number is in one place at a time: not yet scheduled, pending, or sent. *)
Ledger ==
    /\ pending \cap network = {}
    /\ phase = "send" /\ step = "schedule" => i \notin pending \union network
    /\ PacketsAddUp

(* What was played so far are the numbers accepted and passed; after the    *)
(* tail all have been passed.                                              *)
Playback ==
    /\ FramesAddUp
    /\ played = Cardinality({seq \in ontime : seq < next_play_sequence})
    /\ phase \in {"final", "settle", "done"} => next_play_sequence = FrameCount

Lag == phase = "send" /\ next_play_sequence # 0 => i - next_play_sequence >= MinDepth

SummaryInvariant == InductiveInvariant /\ Ledger /\ Playback /\ Lag
-----------------------------------------------------------------------------
(* Facts about finite sets of sequence numbers. *)
LEMMA NumbersAreFinite ==
  ASSUME NEW S \in SUBSET SequenceNumbers
  PROVE  IsFiniteSet(S) /\ Cardinality(S) \in Nat
<1>1. IsFiniteSet(SequenceNumbers)
  BY FrameCountAssumption, FS_Interval DEF SequenceNumbers
<1> QED BY <1>1, FS_Subset, FS_CardinalityType

(* Splitting a set splits its size. *)
LEMMA SplitSize ==
  ASSUME NEW S \in SUBSET SequenceNumbers, NEW T \in SUBSET S
  PROVE  Cardinality(S \ T) = Cardinality(S) - Cardinality(T)
<1>1. /\ IsFiniteSet(S) /\ IsFiniteSet(T) /\ IsFiniteSet(S \ T)
      /\ Cardinality(S) \in Nat /\ Cardinality(T) \in Nat /\ Cardinality(S \ T) \in Nat
  BY NumbersAreFinite
<1>2. (S \ T) \cup T = S /\ (S \ T) \cap T = {}
  OBVIOUS
<1>3. Cardinality((S \ T) \cup T) =
          Cardinality(S \ T) + Cardinality(T) - Cardinality((S \ T) \cap T)
  BY <1>1, FS_Union
<1>4. Cardinality(S) = Cardinality(S \ T) + Cardinality(T) - 0
  BY <1>2, <1>3, FS_EmptySet, Zenon
<1> QED BY <1>1, <1>4

(* Joining two disjoint sets adds their sizes. *)
LEMMA JoinSize ==
  ASSUME NEW S \in SUBSET SequenceNumbers, NEW T \in SUBSET SequenceNumbers, S \cap T = {}
  PROVE  Cardinality(S \cup T) = Cardinality(S) + Cardinality(T)
<1>1. /\ IsFiniteSet(S) /\ IsFiniteSet(T)
      /\ Cardinality(S) \in Nat /\ Cardinality(T) \in Nat
  BY NumbersAreFinite
<1>2. Cardinality(S \cup T) = Cardinality(S) + Cardinality(T) - Cardinality(S \cap T)
  BY <1>1, FS_Union
<1>3. Cardinality(S \cup T) = Cardinality(S) + Cardinality(T) - 0
  BY <1>2, FS_EmptySet, Zenon
<1> QED BY <1>1, <1>3

(* The audible frames of an output that grows by one. *)
LEMMA AudibleSize ==
  ASSUME NEW s \in Seq(SequenceNumbers \union {Concealed}),
         NEW x \in SequenceNumbers \union {Concealed}
  PROVE  Cardinality({n \in DOMAIN Append(s, x) : Append(s, x)[n] # Concealed}) =
         Cardinality({n \in DOMAIN s : s[n] # Concealed}) + (IF x = Concealed THEN 0 ELSE 1)
<1> DEFINE A == {n \in DOMAIN s : s[n] # Concealed}
           B == {n \in DOMAIN Append(s, x) : Append(s, x)[n] # Concealed}
           m == Len(s) + 1
<1>1. /\ Len(s) \in Nat /\ DOMAIN s = 1..Len(s) /\ DOMAIN Append(s, x) = 1..m
      /\ \A n \in 1..Len(s) : Append(s, x)[n] = s[n]
      /\ Append(s, x)[m] = x
  OBVIOUS
<1>2. B = A \cup (IF x = Concealed THEN {} ELSE {m}) /\ m \notin A
  <2>1. ASSUME NEW n PROVE n \in B <=> n \in A \cup (IF x = Concealed THEN {} ELSE {m})
    <3>1. n \in 1..m <=> n \in 1..Len(s) \/ n = m
      BY <1>1
    <3> QED BY <1>1, <3>1
  <2> QED BY <1>1, <2>1
<1>3. IsFiniteSet(A) /\ Cardinality(A) \in Nat
  <2>1. IsFiniteSet(1..Len(s)) /\ A \in SUBSET (1..Len(s))
    BY <1>1, FS_Interval
  <2> QED BY <2>1, FS_Subset, FS_CardinalityType
<1> HIDE DEF A, B, m
<1>4. Cardinality(A \cup {m}) = Cardinality(A) + 1
  BY <1>2, <1>3, FS_AddElement
<1>5. Cardinality(B) = Cardinality(A) + (IF x = Concealed THEN 0 ELSE 1)
  <2>1. CASE x = Concealed
    <3>1. B = A
      BY <1>2, <2>1
    <3> QED BY <1>3, <2>1, <3>1
  <2>2. CASE x # Concealed
    <3>1. B = A \cup {m}
      BY <1>2, <2>2
    <3> QED BY <1>4, <2>2, <3>1
  <2> QED BY <2>1, <2>2
<1> QED BY <1>5 DEF A, B
-----------------------------------------------------------------------------
(* The packet ledger. *)

LEMMA ScheduleLedger ==
  ASSUME InductiveInvariant, Ledger, SchedulePacket
  PROVE  Ledger'
<1>1. /\ i \in SequenceNumbers /\ i \notin pending \union network
      /\ pending \in SUBSET SequenceNumbers
      /\ generated \in Nat /\ dropped \in Nat /\ sent \in Nat
  BY FrameCountAssumption
  DEF InductiveInvariant, TypeOK, Counters, SequenceNumbers, SchedulePacket, Ledger
<1>2. /\ generated' = generated + 1 /\ network' = network /\ i' = i
      /\ UNCHANGED <<sent, lost, duplicated, datagrams, invalid_datagrams,
                     late_datagrams, received>>
      /\ step' # "schedule"
  BY DEF SchedulePacket, Schedule, GoTo, receiveVars
<1>3. \/ pending' = pending /\ dropped' = dropped + 1
      \/ pending' = pending \union {i} /\ dropped' = dropped
  BY DEF SchedulePacket, Schedule, Drop, Enqueue
<1>4. pending' \cap network' = {}
  BY <1>1, <1>2, <1>3 DEF Ledger
<1>5. /\ Cardinality(pending) \in Nat
      /\ Cardinality(pending \union {i}) = Cardinality(pending) + 1
  BY <1>1, NumbersAreFinite, FS_AddElement
<1>6. PacketsAddUp'
  BY <1>1, <1>2, <1>3, <1>5 DEF Ledger, PacketsAddUp
<1> QED BY <1>2, <1>4, <1>6 DEF Ledger

LEMMA ReleaseLedger ==
  ASSUME InductiveInvariant, Ledger, ReleaseDuePackets \/ SendFails
  PROVE  Ledger'
<1>1. PICK due \in SUBSET pending : Release(due)
  BY DEF ReleaseDuePackets, SendFails
<1>2. /\ pending \in SUBSET SequenceNumbers /\ network \in SUBSET SequenceNumbers
      /\ due \in SUBSET SequenceNumbers /\ due \cap network = {}
      /\ {generated, dropped, sent, lost, duplicated, late_datagrams, received} \subseteq Nat
  BY DEF InductiveInvariant, TypeOK, Counters, Ledger
<1>3. /\ Cardinality(pending') = Cardinality(pending) - Cardinality(due)
      /\ Cardinality(network') = Cardinality(network) + Cardinality(due)
      /\ sent' = sent + Cardinality(due)
  BY <1>1, <1>2, SplitSize, JoinSize DEF Release
<1>4. /\ Cardinality(pending) \in Nat /\ Cardinality(network) \in Nat
      /\ Cardinality(due) \in Nat
  BY <1>2, NumbersAreFinite
<1>5. /\ UNCHANGED <<generated, dropped, lost, duplicated, datagrams, invalid_datagrams,
                     late_datagrams, received>>
      /\ step' # "schedule"
  BY <1>1 DEF ReleaseDuePackets, SendFails, Release, GoTo, receiveVars
<1>6. PacketsAddUp'
  BY <1>2, <1>3, <1>4, <1>5 DEF Ledger, PacketsAddUp
<1>7. pending' \cap network' = {}
  BY <1>1 DEF Release, Ledger
<1> QED BY <1>5, <1>6, <1>7 DEF Ledger

(* A datagram leaves the network, or is copied: one more is accounted for. *)
LEMMA DeliverCounts ==
  ASSUME InductiveInvariant, NEW seq \in network, Deliver(seq)
  PROVE  /\ sent' + duplicated' - Cardinality(network') =
               sent + duplicated - Cardinality(network) + 1
         /\ Cardinality(network') \in Nat /\ duplicated' \in Nat
         /\ UNCHANGED <<pending, generated, dropped, sent, lost>>
         /\ network' \subseteq network
<1>1. network \in SUBSET SequenceNumbers /\ sent \in Nat /\ duplicated \in Nat
  BY DEF InductiveInvariant, TypeOK, Counters
<1>2. IsFiniteSet(network) /\ Cardinality(network) \in Nat
  BY <1>1, NumbersAreFinite
<1>3. Cardinality(network \ {seq}) = Cardinality(network) - 1
  BY <1>2, FS_RemoveElement
<1>4. Cardinality(network \ {seq}) \in Nat
  BY <1>1, NumbersAreFinite
<1> QED BY <1>1, <1>2, <1>3, <1>4 DEF Deliver

LEMMA ReceiveLedger ==
  ASSUME InductiveInvariant, Ledger, Receive
  PROVE  Ledger'
<1>1. /\ {generated, dropped, sent, lost, duplicated, datagrams, invalid_datagrams,
          late_datagrams, received} \subseteq Nat
      /\ network \in SUBSET SequenceNumbers
  BY DEF InductiveInvariant, TypeOK, Counters
<1>2. UNCHANGED controlVars
  BY DEF Receive, ReceiveInvalid, ReceiveLate, ReceiveFrame
<1>3. CASE ReceiveInvalid
  <2>1. /\ UNCHANGED <<pathVars, late_datagrams, received>>
        /\ datagrams' = datagrams + 1 /\ invalid_datagrams' = invalid_datagrams + 1
    BY <1>3 DEF ReceiveInvalid
  <2> QED BY <1>1, <1>2, <2>1 DEF Ledger, PacketsAddUp, pathVars, controlVars
<1>4. ASSUME NEW seq \in network, ReceiveLate(seq) \/ ReceiveFrame(seq)
      PROVE  Ledger'
  <2>1. Deliver(seq)
    BY <1>4 DEF ReceiveLate, ReceiveFrame
  <2>2. /\ datagrams' = datagrams + 1 /\ invalid_datagrams' = invalid_datagrams
        /\ \/ late_datagrams' = late_datagrams + 1 /\ received' = received
           \/ received' = received + 1 /\ late_datagrams' = late_datagrams
    BY <1>4 DEF ReceiveLate, ReceiveFrame
  <2>3. Cardinality(network) \in Nat
    BY <1>1, NumbersAreFinite
  <2>4. PacketsAddUp'
    BY <1>1, <2>1, <2>2, <2>3, DeliverCounts DEF Ledger, PacketsAddUp
  <2>5. pending' = pending /\ network' \subseteq network
    BY <2>1, DeliverCounts
  <2> QED BY <1>2, <2>4, <2>5 DEF Ledger, controlVars
<1> QED BY <1>3, <1>4 DEF Receive

LEMMA LoseLedger ==
  ASSUME InductiveInvariant, Ledger, NetworkLoses
  PROVE  Ledger'
<1>1. PICK seq \in network : Lose(seq)
  BY DEF NetworkLoses
<1>2. /\ {sent, lost, duplicated, late_datagrams, received} \subseteq Nat
      /\ network \in SUBSET SequenceNumbers
  BY DEF InductiveInvariant, TypeOK, Counters
<1>3. Cardinality(network') = Cardinality(network) - 1 /\ Cardinality(network) \in Nat
  BY <1>1, <1>2, NumbersAreFinite, FS_RemoveElement DEF Lose
<1>4. /\ UNCHANGED <<controlVars, pending, generated, dropped, sent, duplicated, datagrams,
                     invalid_datagrams, late_datagrams, received>>
      /\ lost' = lost + 1 /\ network' \subseteq network
  BY <1>1 DEF NetworkLoses, Lose, receiveVars
<1>5. PacketsAddUp'
  BY <1>2, <1>3, <1>4 DEF Ledger, PacketsAddUp
<1> QED BY <1>4, <1>5 DEF Ledger, controlVars

(* Playing and moving on touch no packet; a send tick makes i a number that *)
(* was never scheduled.                                                    *)
LEMMA OtherLedger ==
  ASSUME InductiveInvariant, Ledger, ControlStep \/ PlayTick \/ PlayTail
  PROVE  Ledger'
<1>1. UNCHANGED <<pathVars, receiveVars>>
  BY DEF ControlStep, ReceiveDeadline, BreakEarly, AwaitMore, DrainedForTail, DrainedFinal,
         Settle, ReceiveFails, SendLoopEnds, FinalDrainEnds, PlayTick, PlayTail
<1>2. PacketsAddUp' /\ pending' \cap network' = {}
  BY <1>1 DEF Ledger, PacketsAddUp, pathVars, receiveVars
<1>3. phase' = "send" /\ step' = "schedule" => i' \notin pending' \union network'
  <2>1. CASE PlayTick
    <3>1. i' = i + 1 /\ i \in Nat /\ pending \union network \subseteq 0..i
      BY <2>1, FrameCountAssumption DEF PlayTick, InductiveInvariant, TypeOK, Window
    <3> QED BY <1>1, <3>1 DEF pathVars
  <2>2. CASE ControlStep \/ PlayTail
    BY <2>2 DEF ControlStep, ReceiveDeadline, BreakEarly, AwaitMore, DrainedForTail,
       DrainedFinal, Settle, ReceiveFails, SendLoopEnds, FinalDrainEnds, PlayTail, GoTo
  <2> QED BY <2>1, <2>2
<1> QED BY <1>2, <1>3 DEF Ledger
-----------------------------------------------------------------------------
(* What was played. *)

Passed == {seq \in ontime : seq < next_play_sequence}

(* A frame that arrives in time is not among those passed. *)
LEMMA ReceivePlayback ==
  ASSUME InductiveInvariant, Playback, NEW seq \in network, ReceiveFrame(seq)
  PROVE  Playback'
<1>1. /\ UNCHANGED <<controlVars, playVars>>
      /\ received' = received + 1 /\ ontime' = ontime \union {seq} /\ ~IsLate(seq)
  BY DEF ReceiveFrame
<1>2. /\ bufferStats' = [bufferStats EXCEPT !.inserted = @ + 1]
      /\ bufferStats.inserted = received
  BY ReceiveInserts DEF Buffer!Insert, Playback, FramesAddUp
<1>3. /\ bufferStats'.inserted = received' /\ bufferStats'.popped = bufferStats.popped
      /\ bufferStats'.underruns = bufferStats.underruns
  BY <1>1, <1>2 DEF InductiveInvariant, TypeOK, Buffer!TypeOK
<1>4. FramesAddUp'
  BY <1>1, <1>3 DEF Playback, FramesAddUp, playVars
<1>5. Passed' = Passed
  BY <1>1 DEF IsLate, Passed, playVars
<1> QED BY <1>1, <1>4, <1>5 DEF Playback, Passed, playVars, controlVars

(* One frame more is played or concealed, as the counters say. *)
LEMMA PlayPlayback ==
  ASSUME InductiveInvariant, Playback, PlayExpectedFrame, UNCHANGED <<ontime, received>>,
         next_play_sequence < FrameCount
  PROVE  /\ FramesAddUp'
         /\ played' = Cardinality(Passed')
         /\ next_play_sequence' = next_play_sequence + 1
<1>1. /\ next_play_sequence' = next_play_sequence + 1
      /\ output' = Append(output, IF next_play_sequence \in ontime
                                  THEN next_play_sequence ELSE Concealed)
  BY PlayEffect DEF InductiveInvariant
<1>2. /\ output \in Seq(SequenceNumbers \union {Concealed})
      /\ next_play_sequence \in SequenceNumbers /\ next_play_sequence # Concealed
      /\ ontime \in SUBSET SequenceNumbers /\ ontime \subseteq Nat
      /\ next_play_sequence \in Nat /\ played \in Nat /\ concealed \in Nat
      /\ bufferStats.inserted = received
      /\ Len(output) = next_play_sequence
  <2>1. /\ output \in Seq(SequenceNumbers \union {Concealed})
        /\ ontime \in SUBSET SequenceNumbers /\ played \in Nat /\ concealed \in Nat
        /\ next_play_sequence \in 0..FrameCount
    BY DEF InductiveInvariant, TypeOK, Counters
  <2>2. next_play_sequence \in SequenceNumbers /\ next_play_sequence \in Nat
    BY <2>1, FrameCountAssumption DEF SequenceNumbers
  <2>3. next_play_sequence # Concealed
    BY <2>2, FrameAssumption DEF SequenceNumbers
  <2>4. bufferStats.inserted = received /\ Len(output) = next_play_sequence
    BY DEF Playback, FramesAddUp
  <2> QED BY <2>1, <2>2, <2>3, <2>4, BufferAssumptions
<1>3. /\ Passed \in SUBSET SequenceNumbers
      /\ Passed' = Passed \cup ({next_play_sequence} \cap ontime)
      /\ next_play_sequence \notin Passed
  <2>1. ASSUME NEW seq \in ontime
        PROVE  seq < next_play_sequence + 1 <=>
                  seq < next_play_sequence \/ seq = next_play_sequence
    BY <1>2
  <2>2. ontime' = ontime
    OBVIOUS
  <2>3. ASSUME NEW seq
        PROVE  seq \in Passed' <=> seq \in Passed \cup ({next_play_sequence} \cap ontime)
    BY <1>1, <2>1, <2>2 DEF Passed
  <2>4. Passed' = Passed \cup ({next_play_sequence} \cap ontime)
    BY <2>3, Zenon
  <2>5. Passed \in SUBSET SequenceNumbers
    BY <1>2 DEF Passed
  <2>6. next_play_sequence \notin Passed
    BY <1>2 DEF Passed
  <2> QED BY <2>4, <2>5, <2>6
<1>4. IsFiniteSet(Passed) /\ Cardinality(Passed) = played
  BY <1>3, NumbersAreFinite DEF Playback, Passed
<1> DEFINE Audible == Cardinality({n \in DOMAIN output : output[n] # Concealed})
<1>5. Audible = played /\ concealed = Len(output) - played
      /\ bufferStats.popped = played /\ bufferStats.underruns = concealed
  BY DEF Playback, FramesAddUp
<1>6. Len(output') = Len(output) + 1
  BY <1>1, <1>2
<1>7. CASE PlayBuffered
  <2>1. next_play_sequence \in ontime /\ played' = played + 1 /\ concealed' = concealed
    BY <1>2, <1>7, BufferPop
    DEF PlayBuffered, InductiveInvariant, TypeOK, BufferHoldsTheFuture
  <2>2. /\ bufferStats'.popped = played' /\ bufferStats'.underruns = concealed'
        /\ bufferStats'.inserted = received'
    BY <1>2, <1>5, <1>7, <2>1
    DEF PlayBuffered, Buffer!PopHit, InductiveInvariant, TypeOK, Buffer!TypeOK
  <2>3. Audible' = played'
    <3>1. output' = Append(output, next_play_sequence)
      BY <1>1, <2>1
    <3> QED BY <1>2, <1>5, <2>1, <3>1, AudibleSize
  <2>4. Cardinality(Passed') = played'
    <3>1. Passed' = Passed \cup {next_play_sequence}
      BY <1>3, <2>1
    <3> QED BY <1>3, <1>4, <2>1, <3>1, FS_AddElement
  <2>5. Len(output') = next_play_sequence' /\ concealed' = Len(output') - played'
    BY <1>1, <1>2, <1>5, <1>6, <2>1
  <2> QED BY <1>1, <2>2, <2>3, <2>4, <2>5 DEF FramesAddUp
<1>8. CASE Conceal
  <2>1. next_play_sequence \notin ontime /\ played' = played /\ concealed' = concealed + 1
    BY <1>2, <1>8, BufferMiss
    DEF Conceal, InductiveInvariant, TypeOK, BufferHoldsTheFuture
  <2>2. /\ bufferStats'.popped = played' /\ bufferStats'.underruns = concealed'
        /\ bufferStats'.inserted = received'
    BY <1>2, <1>5, <1>8, <2>1
    DEF Conceal, Buffer!PopMiss, InductiveInvariant, TypeOK, Buffer!TypeOK
  <2>3. Audible' = played'
    <3>1. output' = Append(output, Concealed)
      BY <1>1, <2>1
    <3>2. Concealed \in SequenceNumbers \union {Concealed}
      OBVIOUS
    <3>3. Audible' = Audible + (IF Concealed = Concealed THEN 0 ELSE 1)
      BY <1>2, <3>1, <3>2, AudibleSize
    <3> QED BY <1>2, <1>5, <2>1, <3>3
  <2>4. Cardinality(Passed') = played'
    <3>1. Passed' = Passed
      BY <1>3, <2>1
    <3> QED BY <1>4, <2>1, <3>1
  <2>5. Len(output') = next_play_sequence' /\ concealed' = Len(output') - played'
    BY <1>1, <1>2, <1>5, <1>6, <2>1
  <2> QED BY <1>1, <2>2, <2>3, <2>4, <2>5 DEF FramesAddUp
<1> QED BY <1>1, <1>7, <1>8 DEF PlayExpectedFrame

LEMMA PlayStepPlayback ==
  ASSUME InductiveInvariant, Playback, PlayTick \/ PlayTail
  PROVE  Playback'
<1>1. UNCHANGED <<ontime, received>>
  BY DEF PlayTick, PlayTail, receiveVars
<1>2. CASE PlayTick
  <2>1. phase' = "send"
    BY <1>2 DEF PlayTick, GoTo
  <2>2. CASE PlayoutDue
    BY <1>1, <1>2, <2>1, <2>2, TickInStream, PlayPlayback DEF PlayTick, Playback, Passed
  <2>3. CASE ~PlayoutDue
    <3>1. UNCHANGED <<bufferVars, playVars>>
      BY <1>2, <2>3 DEF PlayTick
    <3> QED BY <1>1, <2>1, <3>1 DEF Playback, FramesAddUp, bufferVars, playVars
  <2> QED BY <2>2, <2>3
<1>3. CASE PlayTail
  <2>1. next_play_sequence < FrameCount /\ PlayExpectedFrame
    BY <1>3 DEF PlayTail, InductiveInvariant, Control
  <2>2. /\ FramesAddUp' /\ played' = Cardinality(Passed')
        /\ next_play_sequence' = next_play_sequence + 1
    BY <1>1, <2>1, PlayPlayback
  <2>3. phase' \in {"final", "settle", "done"} => next_play_sequence' = FrameCount
    BY <1>3, <2>1, <2>2, FrameCountAssumption DEF PlayTail, GoTo, InductiveInvariant, TypeOK
  <2> QED BY <2>2, <2>3 DEF Playback, Passed
<1> QED BY <1>2, <1>3

(* The other steps play nothing, and leave the tail for the final drain     *)
(* only when everything has been played.                                   *)
LEMMA OtherPlayback ==
  ASSUME InductiveInvariant, Playback,
         \/ SchedulePacket \/ ReleaseDuePackets \/ SendFails \/ NetworkLoses
         \/ ReceiveInvalid \/ \E seq \in network : ReceiveLate(seq)
         \/ ControlStep \/ UNCHANGED vars
  PROVE  Playback' /\ UNCHANGED next_play_sequence
<1>1. UNCHANGED <<bufferStats, playVars, received, ontime>>
  BY DEF SchedulePacket, ReleaseDuePackets, SendFails, NetworkLoses, ReceiveInvalid,
         ReceiveLate, ControlStep, ReceiveDeadline, BreakEarly, AwaitMore, DrainedForTail,
         DrainedFinal, Settle, ReceiveFails, SendLoopEnds, FinalDrainEnds, vars,
         bufferVars, receiveVars
<1>2. FramesAddUp' /\ Passed' = Passed
  BY <1>1 DEF Playback, FramesAddUp, Passed, playVars
<1>3. phase' \in {"final", "settle", "done"} => next_play_sequence' = FrameCount
  <2>1. CASE SendLoopEnds
    BY <1>1, <2>1, FrameCountAssumption
    DEF SendLoopEnds, GoTo, playVars, InductiveInvariant, TypeOK
  <2>2. CASE phase' = phase
    BY <1>1, <2>2 DEF Playback, playVars
  <2>3. CASE ControlStep /\ ~SendLoopEnds
    BY <1>1, <2>3 DEF ControlStep, ReceiveDeadline, BreakEarly, AwaitMore, DrainedForTail,
       DrainedFinal, Settle, ReceiveFails, FinalDrainEnds, GoTo, Playback, playVars
  <2> QED BY <2>1, <2>2, <2>3
          DEF SchedulePacket, ReleaseDuePackets, SendFails, NetworkLoses, ReceiveInvalid,
              ReceiveLate, vars, controlVars, GoTo
<1> QED BY <1>1, <1>2, <1>3 DEF Playback, Passed, playVars
-----------------------------------------------------------------------------
LEMMA InitSummary == Init => SummaryInvariant
<1> SUFFICES ASSUME Init PROVE SummaryInvariant
  OBVIOUS
<1>1. InductiveInvariant
  BY InitInductive
<1>2. Ledger
  BY FS_EmptySet DEF Init, PathInit, Ledger, PacketsAddUp
<1>3. Playback
  <2>1. DOMAIN output = {} /\ Passed = {}
    BY DEF Init, Passed
  <2>2. {n \in DOMAIN output : output[n] # Concealed} = {}
    BY <2>1
  <2> QED BY <2>1, <2>2, FS_EmptySet DEF Init, Buffer!Init, Playback, FramesAddUp, Passed
<1> QED BY <1>1, <1>2, <1>3 DEF SummaryInvariant, Lag, Init

(* Playout advances only when it is the target depth behind, and the sender *)
(* with it.                                                                *)
LEMMA LagKept ==
  ASSUME InductiveInvariant, Lag, Next
  PROVE  Lag'
<1>1. /\ i \in Nat /\ next_play_sequence \in Nat /\ target_depth \in MinDepth..MaxDepth
  BY FrameCountAssumption DEF InductiveInvariant, TypeOK
<1>2. CASE PlayTick
  <2>1. i' = i + 1
    BY <1>2 DEF PlayTick
  <2>2. CASE PlayoutDue
    <3>1. next_play_sequence' = next_play_sequence + 1
      BY <1>2, <2>2 DEF PlayTick, PlayExpectedFrame
    <3> QED BY <1>1, <2>1, <2>2, <3>1, DepthAssumption DEF PlayoutDue, Lag
  <2>3. CASE ~PlayoutDue
    BY <1>1, <1>2, <2>1, <2>3, DepthAssumption DEF PlayTick, playVars, Lag
  <2> QED BY <2>2, <2>3
<1>3. CASE PlayTail
  BY <1>3 DEF PlayTail, GoTo, Lag
<1>4. CASE ~PlayTick /\ ~PlayTail
  <2>1. /\ UNCHANGED <<i, next_play_sequence>>
        /\ phase' = "send" => phase = "send"
    BY <1>4 DEF Next, Program, Failure, Receive, SchedulePacket, ReleaseDuePackets,
       ReleasePass, SendFails, NetworkLoses, ReceiveInvalid, ReceiveLate, ReceiveFrame,
       ReceiveDeadline, BreakEarly, AwaitMore, DrainedForTail, DrainedFinal, Settle,
       ReceiveFails, SendLoopEnds, FinalDrainEnds, Returned, vars, controlVars, playVars,
       GoTo
  <2> QED BY <2>1 DEF Lag
<1> QED BY <1>2, <1>3, <1>4

LEMMA NextSummary ==
  ASSUME SummaryInvariant, [Next]_vars
  PROVE  SummaryInvariant'
<1> USE DEF SummaryInvariant
<1>1. InductiveInvariant'
  BY NextInductive
<1>2. Ledger'
  <2>1. CASE UNCHANGED vars
    BY <2>1 DEF vars, pathVars, controlVars, receiveVars, Ledger, PacketsAddUp
  <2> QED BY <2>1, ScheduleLedger, ReleaseLedger, ReceiveLedger, LoseLedger, OtherLedger
          DEF Next, Program, Failure, ControlStep, Returned
<1>3. Playback'
  BY ReceivePlayback, PlayStepPlayback, OtherPlayback
  DEF Next, Program, Failure, Receive, ControlStep, Returned
<1>4. Lag'
  <2>1. CASE UNCHANGED vars
    BY <2>1 DEF vars, controlVars, playVars, Lag
  <2> QED BY <2>1, LagKept
<1> QED BY <1>1, <1>2, <1>3, <1>4

LEMMA SummaryInvariance == Spec => []SummaryInvariant
<1>1. SummaryInvariant /\ [Next]_vars => SummaryInvariant'
  BY NextSummary
<1> QED BY <1>1, InitSummary, PTL DEF Spec

(* The counters that main prints add up at every moment, and when it        *)
(* returns 0 everything received has been played or was a duplicate.       *)
THEOREM SummaryExact == Spec => []SummaryAddsUp
<1>1. SummaryInvariant => SummaryAddsUp
  <2> SUFFICES ASSUME SummaryInvariant, phase = "done" PROVE DoneIsComplete
    BY DEF SummaryAddsUp, SummaryInvariant, Ledger, Playback, DoneIsComplete
  <2>1. next_play_sequence = FrameCount /\ Len(output) = FrameCount
    BY DEF SummaryInvariant, InductiveInvariant, Playback
  <2>2. \A seq \in ontime : seq < FrameCount /\ ~(seq >= FrameCount)
    BY FrameCountAssumption DEF SummaryInvariant, InductiveInvariant, TypeOK, SequenceNumbers
  <2>3. Passed = ontime /\ Buffer!Held = {}
    BY <2>1, <2>2
    DEF Passed, SummaryInvariant, InductiveInvariant, BufferHoldsTheFuture
  <2> QED BY <2>1, <2>3 DEF DoneIsComplete, SummaryInvariant, Playback, Passed
<1> QED BY <1>1, SummaryInvariance, PTL

(* Playout stays between MinDepth and MaxDepth frames behind the sender.    *)
THEOREM LagBounded == Spec => []PlayoutLag
<1>1. SummaryInvariant => PlayoutLag
  BY FrameCountAssumption, DepthAssumption
  DEF SummaryInvariant, InductiveInvariant, TypeOK, Window, Lag, PlayoutLag
<1> QED BY <1>1, SummaryInvariance, PTL

(* Without copies, leaving the receive loop early abandons no datagram: the *)
(* ledger leaves no room for one.                                          *)
THEOREM EarlyBreakAbandonsNothing == Spec => EarlyBreakIsSafe
<1>1. ASSUME SummaryInvariant, BreakEarly, duplicated = 0
      PROVE  /\ network = {} /\ lost = 0 /\ late_datagrams = 0 /\ received = sent
  <2>1. {sent, lost, late_datagrams, received} \subseteq Nat
    BY <1>1 DEF SummaryInvariant, InductiveInvariant, TypeOK, Counters
  <2>2. IsFiniteSet(network) /\ Cardinality(network) \in Nat
    BY <1>1, NumbersAreFinite DEF SummaryInvariant, InductiveInvariant, TypeOK
  <2>3. received >= sent
    BY <1>1 DEF BreakEarly
  <2>4. sent + duplicated = lost + Cardinality(network) + late_datagrams + received
    BY <1>1 DEF SummaryInvariant, Ledger, PacketsAddUp
  <2>5. Cardinality(network) = 0 /\ lost = 0 /\ late_datagrams = 0 /\ received = sent
    BY <1>1, <2>1, <2>2, <2>3, <2>4
  <2> QED BY <2>2, <2>5, FS_EmptySet
<1>2. SummaryInvariant =>
          [BreakEarly /\ duplicated = 0 =>
               /\ network = {} /\ lost = 0 /\ late_datagrams = 0
               /\ received = sent]_vars
  BY <1>1
<1> QED BY <1>2, SummaryInvariance, PTL DEF EarlyBreakIsSafe
-----------------------------------------------------------------------------
(* The receiver's calls are the jitter buffer's. *)
LEMMA SameUse ==
  /\ Facts!Init <=> Buffer!Init
  /\ [Facts!Next]_(Facts!vars) <=> [Buffer!Next]_(Buffer!vars)
  BY DEF Facts!Init, Buffer!Init, Facts!Slots, Buffer!Slots, Facts!Next, Buffer!Next,
         Facts!PopExpected, Buffer!PopExpected, Facts!PopHit, Buffer!PopHit,
         Facts!PopMiss, Buffer!PopMiss, Facts!Push, Buffer!Push, Facts!Refuse, Buffer!Refuse,
         Facts!Insert, Buffer!Insert, Facts!Collides, Buffer!Collides,
         Facts!Holds, Buffer!Holds, Facts!Slot, Buffer!Slot, Facts!vars, Buffer!vars

(* Each step of main is a call of the buffer or leaves it alone. *)
LEMMA StepsOfTheBuffer ==
  ASSUME InductiveInvariant, [Next]_vars
  PROVE  [Buffer!Next]_(Buffer!vars)
<1>1. ASSUME NEW seq \in network, ReceiveFrame(seq) PROVE Buffer!Next
  BY <1>1, ReceiveInserts DEF Buffer!Next, Buffer!Push
<1>2. CASE PlayExpectedFrame /\ next_play_sequence \in SequenceNumbers
  BY <1>2 DEF PlayExpectedFrame, PlayBuffered, Conceal, Buffer!Next, Buffer!PopExpected
<1>3. CASE UNCHANGED bufferVars
  BY <1>3 DEF bufferVars, Buffer!vars
<1>4. ASSUME next_play_sequence < FrameCount PROVE next_play_sequence \in SequenceNumbers
  BY <1>4, FrameCountAssumption DEF InductiveInvariant, TypeOK, SequenceNumbers
<1>5. CASE PlayTick
  BY <1>2, <1>3, <1>4, <1>5, TickInStream DEF PlayTick
<1>6. CASE PlayTail
  BY <1>2, <1>4, <1>6 DEF PlayTail, InductiveInvariant, Control
<1>7. CASE ControlStep \/ SchedulePacket \/ ReleaseDuePackets \/ SendFails \/ NetworkLoses
  BY <1>3, <1>7 DEF ControlStep, ReceiveDeadline, BreakEarly, AwaitMore, DrainedForTail,
                    DrainedFinal, Settle, ReceiveFails, SendLoopEnds, FinalDrainEnds,
                    SchedulePacket, ReleaseDuePackets, SendFails, NetworkLoses
<1>8. CASE Receive
  BY <1>1, <1>3, <1>8 DEF Receive, ReceiveInvalid, ReceiveLate
<1>9. CASE UNCHANGED vars
  BY <1>3, <1>9 DEF vars
<1> QED BY <1>5, <1>6, <1>7, <1>8, <1>9 DEF Next, Program, Failure, ControlStep, Returned

(* main uses the jitter buffer as it has to be used, with numbers of the    *)
(* stream only, so what the buffer promises holds in the program: it is a  *)
(* store keyed by sequence number, and makes no frame out of nothing.       *)
THEOREM BufferAsUsed ==
  Spec => Buffer!Spec /\ Buffer!ImplementsStore /\ []Buffer!EveryFrameWasInserted
<1>1. Init => Buffer!Init
  BY DEF Init
<1>2. InductiveInvariant /\ [Next]_vars => [Buffer!Next]_(Buffer!vars)
  BY StepsOfTheBuffer
<1>3. Spec => Buffer!Spec
  BY <1>1, <1>2, Invariance, PTL DEF Spec, Buffer!Spec
<1>4. Facts!Spec <=> Buffer!Spec
  BY SameUse, PTL DEF Facts!Spec, Buffer!Spec
<1>5. Facts!ImplementsStore <=> Buffer!ImplementsStore
  <2>1. Facts!Store!Init <=> Buffer!Store!Init
    BY SameBuffer DEF Facts!Store!Init, Buffer!Store!Init
  <2>2. [Facts!Store!Next]_[seq \in Facts!Held |-> Facts!Content(seq)]
        <=> [Buffer!Store!Next]_[seq \in Buffer!Held |-> Buffer!Content(seq)]
    BY DEF Facts!Store!Next, Buffer!Store!Next, Facts!Store!Take, Buffer!Store!Take,
           Facts!Store!Put, Buffer!Store!Put, Facts!Held, Buffer!Held, Facts!Holds,
           Buffer!Holds, Facts!Content, Buffer!Content, Facts!Slot, Buffer!Slot
  <2> QED BY <2>1, <2>2, PTL
          DEF Facts!ImplementsStore, Buffer!ImplementsStore, Facts!Store!Spec, Buffer!Store!Spec
<1>6. Facts!EveryFrameWasInserted <=> Buffer!EveryFrameWasInserted
  <2>1. \A S : Facts!Cardinality(S) = Buffer!Cardinality(S)
    BY DEF Facts!Cardinality, Buffer!Cardinality
  <2> QED BY <2>1, SameBuffer DEF Facts!EveryFrameWasInserted, Buffer!EveryFrameWasInserted
<1>7. Facts!Spec => Facts!ImplementsStore
  BY BufferAssumptions, Facts!StoreRefinement
<1>8. Facts!Spec => []Facts!EveryFrameWasInserted
  BY BufferAssumptions, Facts!NoFrameFromNowhere
<1> QED BY <1>3, <1>4, <1>5, <1>6, <1>7, <1>8, PTL
=============================================================================
