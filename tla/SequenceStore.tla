---------------------------- MODULE SequenceStore ----------------------------
(***************************************************************************)
(* What a jitter buffer promises its user, with no slots and no capacity:  *)
(* a store of frames keyed by sequence number.  A frame is put under its   *)
(* sequence number, a later frame with the same number replaces it, and    *)
(* only taking that number removes it.  A call that is refused, or that    *)
(* finds nothing, leaves the store as it was (a stuttering step).          *)
(***************************************************************************)
CONSTANTS Sequences,    \* sequence numbers the callers use
          Frames        \* frame contents

VARIABLE store          \* partial function from Sequences to Frames

Init == store = [seq \in {} |-> {}]

Put(seq, frame) ==
    store' = [s \in DOMAIN store \union {seq} |->
                 IF s = seq THEN frame ELSE store[s]]

Take(seq) ==
    /\ seq \in DOMAIN store
    /\ store' = [s \in DOMAIN store \ {seq} |-> store[s]]

Next == \E seq \in Sequences : Take(seq) \/ \E frame \in Frames : Put(seq, frame)

Spec == Init /\ [][Next]_store
=============================================================================
