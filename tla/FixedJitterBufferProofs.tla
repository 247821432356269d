----------------------- MODULE FixedJitterBufferProofs -----------------------
(* Proofs about FixedJitterBuffer for every capacity, every set of         *)
(* sequence numbers and every kind of frame.                               *)
EXTENDS FixedJitterBuffer, FiniteSetTheorems, TLAPS

(* Numbers less than the size apart have different indices. *)
LEMMA ModDistinct ==
  ASSUME NEW size \in Nat, size > 0,
         NEW a \in Nat, NEW b \in Nat, a < b, b - a < size
  PROVE  a % size # b % size
<1> DEFINE qa == a \div size
           qb == b \div size
<1>1. a = size * qa + (a % size) /\ qa \in Int /\ a % size \in Int
  OBVIOUS
<1>2. b = size * qb + (b % size) /\ qb \in Int /\ b % size \in Int
  OBVIOUS
<1> HIDE DEF qa, qb
<1>3. SUFFICES ASSUME a % size = b % size PROVE FALSE
  OBVIOUS
<1>4. b - a = size * (qb - qa)
  BY <1>1, <1>2, <1>3
<1>5. CASE qb - qa <= 0
  BY <1>1, <1>2, <1>4, <1>5
<1>6. CASE qb - qa >= 1
  BY <1>1, <1>2, <1>4, <1>6
<1> QED BY <1>1, <1>2, <1>5, <1>6

(* Every sequence number has a slot. *)
LEMMA SlotInRange == ASSUME NEW seq \in Nat PROVE Slot(seq) \in Slots
  BY CapacityAssumption DEF Slot, Slots

(* Two numbers less than Capacity apart never share a slot. *)
LEMMA SlotsDistinct ==
  ASSUME NEW a \in Nat, NEW b \in Nat, a < b, b - a < Capacity
  PROVE  Slot(a) # Slot(b)
  BY ModDistinct, CapacityAssumption DEF Slot

(* What push does to an accepted frame: it is held under its number, and   *)
(* every other number holds what it held.                                  *)
LEMMA InsertEffect ==
  ASSUME TypeOK, NEW seq \in Sequences, NEW frame \in Frames,
         Insert(seq, frame)
  PROVE  /\ TypeOK'
         /\ Held' = Held \union {seq}
         /\ Content(seq)' = frame
         /\ \A s \in Held \ {seq} : Content(s)' = Content(s)
<1> USE SequencesAssumption
<1>1. Slot(seq) \in Slots
  BY SlotInRange
<1>2. TypeOK'
  <2>1. /\ frames' \in [Slots -> Frames \union {EmptyFrame}]
        /\ sequences' \in [Slots -> Sequences \union {0}]
        /\ occupied' \in [Slots -> BOOLEAN]
        /\ bufferStats' \in [inserted : Nat, popped : Nat, underruns : Nat,
                             late_or_collided_packets : Nat]
    BY <1>1 DEF Insert, TypeOK
  <2>2. ASSUME NEW slot \in Slots, occupied'[slot]
        PROVE  /\ sequences'[slot] \in Sequences
               /\ Slot(sequences'[slot]) = slot
               /\ frames'[slot] \in Frames
    <3>1. CASE slot = Slot(seq)
      BY <1>1, <3>1 DEF Insert, TypeOK
    <3>2. CASE slot # Slot(seq)
      BY <1>1, <2>2, <3>2 DEF Insert, TypeOK
    <3> QED BY <3>1, <3>2
  <2> QED BY <2>1, <2>2 DEF TypeOK, Slot
<1>3. ASSUME NEW s \in Sequences
      PROVE  Holds(s)' <=> (s = seq \/ Holds(s))
  <2>1. Slot(s) \in Slots /\ Slot(s)' = Slot(s)
    BY SlotInRange DEF Slot
  <2>2. CASE Slot(s) = Slot(seq)
    BY <1>1, <2>1, <2>2 DEF Insert, Collides, Holds, TypeOK, Slot
  <2>3. CASE Slot(s) # Slot(seq)
    BY <1>1, <2>1, <2>3 DEF Insert, Holds, TypeOK, Slot
  <2> QED BY <2>2, <2>3
<1>4. Held' = Held \union {seq}
  BY <1>3 DEF Held
<1>5. ASSUME NEW s \in Held \ {seq}
      PROVE  Content(s)' = Content(s)
  <2>1. Slot(s) \in Slots /\ Slot(s) # Slot(seq)
    BY SlotInRange DEF Insert, Collides, Held, Holds
  <2> QED BY <1>1, <2>1 DEF Insert, Content, TypeOK, Slot
<1>6. Content(seq)' = frame
  BY <1>1 DEF Insert, Content, TypeOK, Slot
<1> QED BY <1>2, <1>4, <1>5, <1>6

(* What a successful pop_expected does: it removes that number only. *)
LEMMA PopEffect ==
  ASSUME TypeOK, NEW seq \in Sequences, PopHit(seq)
  PROVE  /\ TypeOK'
         /\ seq \in Held
         /\ Held' = Held \ {seq}
         /\ \A s \in Held \ {seq} : Content(s)' = Content(s)
<1> USE SequencesAssumption
<1>1. Slot(seq) \in Slots
  BY SlotInRange
<1>2. TypeOK'
  <2>1. /\ frames' \in [Slots -> Frames \union {EmptyFrame}]
        /\ sequences' \in [Slots -> Sequences \union {0}]
        /\ occupied' \in [Slots -> BOOLEAN]
        /\ bufferStats' \in [inserted : Nat, popped : Nat, underruns : Nat,
                             late_or_collided_packets : Nat]
    BY <1>1 DEF PopHit, TypeOK
  <2>2. ASSUME NEW slot \in Slots, occupied'[slot]
        PROVE  /\ sequences'[slot] \in Sequences
               /\ Slot(sequences'[slot]) = slot
               /\ frames'[slot] \in Frames
    BY <1>1, <2>2 DEF PopHit, TypeOK
  <2> QED BY <2>1, <2>2 DEF TypeOK, Slot
<1>3. ASSUME NEW s \in Sequences
      PROVE  Holds(s)' <=> (s # seq /\ Holds(s))
  <2>1. Slot(s) \in Slots /\ Slot(s)' = Slot(s)
    BY SlotInRange DEF Slot
  <2>2. CASE Slot(s) = Slot(seq)
    BY <1>1, <2>1, <2>2 DEF PopHit, Holds, TypeOK, Slot
  <2>3. CASE Slot(s) # Slot(seq)
    BY <1>1, <2>1, <2>3 DEF PopHit, Holds, TypeOK, Slot
  <2> QED BY <2>2, <2>3
<1>4. seq \in Held /\ Held' = Held \ {seq}
  BY <1>3 DEF Held, PopHit
<1>5. \A s \in Held \ {seq} : Content(s)' = Content(s)
  BY DEF PopHit, Content, Slot
<1> QED BY <1>2, <1>4, <1>5

(* A refused push and a pop that finds nothing change no slot. *)
LEMMA MissEffect ==
  ASSUME TypeOK, NEW seq \in Sequences, Refuse(seq) \/ PopMiss(seq)
  PROVE  /\ TypeOK'
         /\ Held' = Held
         /\ \A s \in Held : Content(s)' = Content(s)
<1>1. TypeOK'
  BY DEF TypeOK, Refuse, PopMiss, Slot
<1>2. Held' = Held
  BY DEF Held, Holds, Refuse, PopMiss, Slot
<1>3. \A s \in Held : Content(s)' = Content(s)
  BY DEF Content, Refuse, PopMiss, Slot
<1> QED BY <1>1, <1>2, <1>3

(* TypeOK holds in every reachable state. *)
THEOREM TypeCorrect == Spec => []TypeOK
<1>1. Init => TypeOK
  BY DEF Init, TypeOK
<1>2. TypeOK /\ [Next]_vars => TypeOK'
  <2> SUFFICES ASSUME TypeOK, [Next]_vars PROVE TypeOK'
    OBVIOUS
  <2>1. ASSUME NEW seq \in Sequences, PopExpected(seq) PROVE TypeOK'
    BY <2>1, PopEffect, MissEffect DEF PopExpected
  <2>2. ASSUME NEW seq \in Sequences, NEW frame \in Frames, Push(seq, frame)
        PROVE  TypeOK'
    BY <2>2, InsertEffect, MissEffect DEF Push
  <2>3. CASE UNCHANGED vars
    BY <2>3 DEF vars, TypeOK, Slot
  <2> QED BY <2>1, <2>2, <2>3 DEF Next
<1> QED BY <1>1, <1>2, PTL DEF Spec

(* EveryFrameWasInserted for every capacity and every sequence of calls:    *)
(* refusals, duplicates and misses never make a frame out of nothing.      *)
THEOREM NoFrameFromNowhere == Spec => []EveryFrameWasInserted
<1> DEFINE Counted ==
             /\ IsFiniteSet(Held) /\ Cardinality(Held) \in Nat
             /\ EveryFrameWasInserted
<1>1. Init => Counted
  <2> SUFFICES ASSUME Init PROVE Counted
    OBVIOUS
  <2>1. Held = {}
    BY SlotInRange, SequencesAssumption DEF Init, Held, Holds
  <2>2. IsFiniteSet(Held) /\ Cardinality(Held) = 0
    BY <2>1, FS_EmptySet
  <2>. QED
    BY <2>2 DEF Init, EveryFrameWasInserted
<1>2. TypeOK /\ Counted /\ [Next]_vars => Counted'
  <2> SUFFICES ASSUME TypeOK, Counted, [Next]_vars PROVE Counted'
    OBVIOUS
  <2> DEFINE size == Cardinality(Held)
             after == Cardinality(Held')
  <2>1. /\ IsFiniteSet(Held) /\ size \in Nat
        /\ bufferStats \in [inserted : Nat, popped : Nat, underruns : Nat,
                            late_or_collided_packets : Nat]
        /\ bufferStats.popped + size <= bufferStats.inserted
    BY DEF TypeOK, EveryFrameWasInserted
  <2>2. ASSUME NEW seq \in Sequences, NEW frame \in Frames, Insert(seq, frame)
        PROVE  Counted'
    <3>1. Held' = Held \union {seq}
      BY <2>2, InsertEffect
    <3>2. IsFiniteSet(Held') /\ after \in Nat /\ after <= size + 1
      BY <2>1, <3>1, FS_AddElement
    <3>3. /\ bufferStats'.popped = bufferStats.popped
          /\ bufferStats'.inserted = bufferStats.inserted + 1
      BY <2>1, <2>2 DEF Insert
    <3> HIDE DEF size, after
    <3>4. bufferStats'.popped + after <= bufferStats'.inserted
      BY <2>1, <3>2, <3>3
    <3>. QED
      BY <3>2, <3>4 DEF EveryFrameWasInserted, after
  <2>3. ASSUME NEW seq \in Sequences, PopHit(seq)
        PROVE  Counted'
    <3>1. seq \in Held /\ Held' = Held \ {seq}
      BY <2>3, PopEffect
    <3>2. IsFiniteSet(Held') /\ after = size - 1 /\ after \in Nat
      BY <2>1, <3>1, FS_RemoveElement, FS_CardinalityType
    <3>3. /\ bufferStats'.popped = bufferStats.popped + 1
          /\ bufferStats'.inserted = bufferStats.inserted
      BY <2>1, <2>3 DEF PopHit
    <3> HIDE DEF size, after
    <3>4. bufferStats'.popped + after <= bufferStats'.inserted
      BY <2>1, <3>2, <3>3
    <3>. QED
      BY <3>2, <3>4 DEF EveryFrameWasInserted, after
  <2>4. ASSUME NEW seq \in Sequences, Refuse(seq) \/ PopMiss(seq)
        PROVE  Counted'
    <3>1. Held' = Held
      BY <2>4, MissEffect
    <3>2. /\ bufferStats'.popped = bufferStats.popped
          /\ bufferStats'.inserted = bufferStats.inserted
      BY <2>1, <2>4 DEF Refuse, PopMiss
    <3>. QED
      BY <2>1, <3>1, <3>2 DEF EveryFrameWasInserted
  <2>5. CASE UNCHANGED vars
    BY <2>1, <2>5 DEF vars, Held, Holds, Slot, EveryFrameWasInserted
  <2>. QED
    BY <2>2, <2>3, <2>4, <2>5 DEF Next, PopExpected, Push
<1>. QED
  BY <1>1, <1>2, TypeCorrect, PTL DEF Spec

(* The buffer implements a store keyed by sequence number. *)
THEOREM StoreRefinement == Spec => ImplementsStore
<1> DEFINE store == [seq \in Held |-> Content(seq)]
<1>1. Init => Store!Init
  <2> SUFFICES ASSUME Init PROVE Store!Init
    OBVIOUS
  <2>1. Held = {}
    BY SlotInRange, SequencesAssumption DEF Init, Held, Holds
  <2> QED BY <2>1 DEF Store!Init
<1>2. TypeOK /\ [Next]_vars => [Store!Next]_store
  <2> SUFFICES ASSUME TypeOK, [Next]_vars PROVE [Store!Next]_store
    OBVIOUS
  <2>1. ASSUME NEW seq \in Sequences, PopHit(seq) PROVE Store!Take(seq)
    BY <2>1, PopEffect DEF Store!Take
  <2>2. ASSUME NEW seq \in Sequences, NEW frame \in Frames, Insert(seq, frame)
        PROVE  Store!Put(seq, frame)
    BY <2>2, InsertEffect DEF Store!Put
  <2>3. ASSUME NEW seq \in Sequences, Refuse(seq) \/ PopMiss(seq)
        PROVE  store' = store
    BY <2>3, MissEffect
  <2>4. CASE UNCHANGED vars
    BY <2>4 DEF vars, Held, Holds, Content, Slot
  <2> QED BY <2>1, <2>2, <2>3, <2>4
          DEF Next, PopExpected, Push, Store!Next
<1> QED BY <1>1, <1>2, TypeCorrect, PTL DEF Spec, ImplementsStore, Store!Spec
=============================================================================
