---------------------------- MODULE IdealPlayout ----------------------------
(***************************************************************************)
(* What the receiving half of a loopback application promises: the output  *)
(* is one frame per sequence number, in order, without gaps.  Frame n is   *)
(* the frame that was sent if it was accepted before n was played, and     *)
(* concealment otherwise.  Accepting is never limited by buffer space.     *)
(***************************************************************************)
EXTENDS Integers, Sequences

CONSTANTS FrameCount,   \* frames of the stream
          Concealed     \* stands for a synthesised frame

VARIABLES accepted,     \* frames that arrived before their playout
          output        \* frames played so far; output[n + 1] is frame n

Init == accepted = {} /\ output = <<>>

Accept(seq) ==
    /\ seq >= Len(output)
    /\ accepted' = accepted \union {seq}
    /\ UNCHANGED output

Emit ==
    /\ Len(output) < FrameCount
    /\ output' = Append(output, IF Len(output) \in accepted
                                THEN Len(output) ELSE Concealed)
    /\ UNCHANGED accepted

Next == Emit \/ \E seq \in 0..(FrameCount - 1) : Accept(seq)

Spec == Init /\ [][Next]_<<accepted, output>>
=============================================================================
