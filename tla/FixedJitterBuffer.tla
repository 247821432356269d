-------------------------- MODULE FixedJitterBuffer --------------------------
(***************************************************************************)
(* jitter::FixedJitterBuffer<Frame, Capacity>: a direct-mapped table of    *)
(* Capacity slots in which sequence number s lives in slot s % Capacity.   *)
(* One thread owns it, so every method is one step.                        *)
(***************************************************************************)
EXTENDS Integers, FiniteSets

CONSTANTS Capacity,     \* template argument (64 in both applications)
          Sequences,    \* sequence numbers the callers use
          Frames,       \* frame contents
          EmptyFrame    \* the value-initialised Frame{}

ASSUME CapacityAssumption == Capacity \in Nat /\ Capacity >= 4
ASSUME SequencesAssumption == Sequences \subseteq Nat

VARIABLES frames,       \* frames_
          sequences,    \* sequences_
          occupied,     \* occupied_
          bufferStats   \* stats_, without the constant target depth

vars == <<frames, sequences, occupied, bufferStats>>

Slots == 0..(Capacity - 1)

(* Mutant of Slot: indexed like a ring that keeps one slot free. *)
SlotOfSmallerRing(seq) == seq % (Capacity - 1)

Slot(seq) == seq % Capacity

Init ==
    /\ frames = [slot \in Slots |-> EmptyFrame]
    /\ sequences = [slot \in Slots |-> 0]
    /\ occupied = [slot \in Slots |-> FALSE]
    /\ bufferStats = [inserted |-> 0, popped |-> 0, underruns |-> 0,
                      late_or_collided_packets |-> 0]

(* Mutant of Holds: the stored sequence number is not compared. *)
HoldsAnything(seq) == occupied[Slot(seq)]

(* The test shared by pop_expected and peek_expected. *)
Holds(seq) == occupied[Slot(seq)] /\ sequences[Slot(seq)] = seq

(* Mutant of Collides: push overwrites whatever is in the slot. *)
NeverCollides(seq) == FALSE

(* push finds its slot taken by another sequence number. *)
Collides(seq) == occupied[Slot(seq)] /\ sequences[Slot(seq)] # seq

Refuse(seq) ==
    /\ Collides(seq)
    /\ bufferStats' = [bufferStats EXCEPT !.late_or_collided_packets = @ + 1]
    /\ UNCHANGED <<frames, sequences, occupied>>

(* An occupied slot with the same sequence number is overwritten. *)
Insert(seq, frame) ==
    /\ ~Collides(seq)
    /\ frames' = [frames EXCEPT ![Slot(seq)] = frame]
    /\ sequences' = [sequences EXCEPT ![Slot(seq)] = seq]
    /\ occupied' = [occupied EXCEPT ![Slot(seq)] = TRUE]
    /\ bufferStats' = [bufferStats EXCEPT !.inserted = @ + 1]

Push(seq, frame) == Refuse(seq) \/ Insert(seq, frame)

(* Mutant of PopHit: the slot stays occupied. *)
PopAndKeep(seq) ==
    /\ Holds(seq)
    /\ bufferStats' = [bufferStats EXCEPT !.popped = @ + 1]
    /\ UNCHANGED <<frames, sequences, occupied>>

(* pop_expected leaves frames_ and sequences_ alone: the slot is only      *)
(* marked free.                                                            *)
PopHit(seq) ==
    /\ Holds(seq)
    /\ occupied' = [occupied EXCEPT ![Slot(seq)] = FALSE]
    /\ bufferStats' = [bufferStats EXCEPT !.popped = @ + 1]
    /\ UNCHANGED <<frames, sequences>>

PopMiss(seq) ==
    /\ ~Holds(seq)
    /\ bufferStats' = [bufferStats EXCEPT !.underruns = @ + 1]
    /\ UNCHANGED <<frames, sequences, occupied>>

PopExpected(seq) == PopHit(seq) \/ PopMiss(seq)

(* The frame pop_expected or peek_expected returns when Holds(seq). *)
Content(seq) == frames[Slot(seq)]

Next == \E seq \in Sequences :
            PopExpected(seq) \/ \E frame \in Frames : Push(seq, frame)

Spec == Init /\ [][Next]_vars
-----------------------------------------------------------------------------
(* Type invariant: every slot holds a frame and a number of its own        *)
(* residue class once it is occupied, and the counters are naturals.       *)
TypeOK ==
    /\ frames \in [Slots -> Frames \union {EmptyFrame}]
    /\ sequences \in [Slots -> Sequences \union {0}]
    /\ occupied \in [Slots -> BOOLEAN]
    /\ bufferStats \in [inserted : Nat, popped : Nat, underruns : Nat,
                        late_or_collided_packets : Nat]
    /\ \A slot \in Slots : occupied[slot] =>
          /\ sequences[slot] \in Sequences
          /\ Slot(sequences[slot]) = slot
          /\ frames[slot] \in Frames

(* The sequence numbers a pop or a peek would find. *)
Held == {seq \in Sequences : Holds(seq)}

(* A frame leaves the buffer only after it was inserted: what was popped   *)
(* and what is still held never exceeds what push accepted, whatever the   *)
(* order of pushes, overwrites, refusals and misses.                       *)
EveryFrameWasInserted ==
    bufferStats.popped + Cardinality(Held) <= bufferStats.inserted

(* The buffer is a store keyed by sequence number: sharing slots between   *)
(* numbers never drops, replaces or renames a frame push accepted.         *)
Store == INSTANCE SequenceStore WITH store <- [seq \in Held |-> Content(seq)]
ImplementsStore == Store!Spec
=============================================================================
