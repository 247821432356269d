----------------------------- MODULE MCLoopback -----------------------------
(***************************************************************************)
(* Model-checking instance of Loopback.  Copies and foreign datagrams are  *)
(* bounded together: either may come, at any moment.                       *)
(***************************************************************************)
EXTENDS LoopbackProperties

CONSTANT MaxStray       \* bound: copies and foreign datagrams together

MCNext == Next /\ duplicated' + invalid_datagrams' <= MaxStray

(* A step the bound forbids leaves others of the same loop enabled. *)
MCSpec ==
    /\ Init /\ [][MCNext]_vars
    /\ WF_vars(Program) /\ SF_vars(ReceiveDeadline) /\ SF_vars(FinalDrainEnds)
=============================================================================
