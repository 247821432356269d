---------------------------- MODULE ImpairedPath ----------------------------
(***************************************************************************)
(* The sending half of both loopback applications (schedule_packet and     *)
(* release_due_packets) and, external to the repository, the UDP path its  *)
(* datagrams take to the receiving socket.                                 *)
(*                                                                         *)
(* A packet is its sequence number: make_packet writes it in the header    *)
(* and appends the frame of that number.  Every number is scheduled once,  *)
(* in increasing order, so a set describes the std::deque.                 *)
(*                                                                         *)
(* deliver_at and the clock are abstracted to a choice: in each release    *)
(* pass any subset of the pending packets may be due.                      *)
(***************************************************************************)
EXTENDS Integers, FiniteSets

CONSTANT MaxDuplicates  \* bound: extra copies the network delivers

ASSUME DuplicatesAssumption == MaxDuplicates \in Nat

VARIABLES pending,      \* pending_packets
          network,      \* datagrams sent and not yet received or lost
          generated, dropped, sent,     \* LoopbackStats
          lost,         \* datagrams the network discarded
          duplicated    \* extra copies the network delivered

pathVars == <<pending, network, generated, dropped, sent, lost, duplicated>>

PathInit ==
    /\ pending = {}
    /\ network = {}
    /\ generated = 0 /\ dropped = 0 /\ sent = 0
    /\ lost = 0
    /\ duplicated = 0

(* The configured loss hits the packet before it is ever queued. *)
Drop ==
    /\ dropped' = dropped + 1
    /\ UNCHANGED pending

Enqueue(seq) ==
    /\ pending' = pending \union {seq}
    /\ UNCHANGED dropped

Schedule(seq) ==
    /\ generated' = generated + 1
    /\ Drop \/ Enqueue(seq)
    /\ UNCHANGED <<network, sent, lost, duplicated>>

(* Mutant of Release: a sent packet is not erased from the deque. *)
ReleaseWithoutErase(due) ==
    /\ due \subseteq pending
    /\ network' = network \union due
    /\ sent' = sent + Cardinality(due)
    /\ UNCHANGED <<pending, generated, dropped, lost, duplicated>>

(* One whole pass over the deque: the due packets are sent and erased, the *)
(* others keep their place.                                                *)
Release(due) ==
    /\ due \subseteq pending
    /\ pending' = pending \ due
    /\ network' = network \union due
    /\ sent' = sent + Cardinality(due)
    /\ UNCHANGED <<generated, dropped, lost, duplicated>>

(* External: the datagram handed to recvfrom, of which the network may     *)
(* keep another copy in flight.  Any datagram may be the next one.         *)
Deliver(seq) ==
    /\ seq \in network
    /\ \/ network' = network \ {seq} /\ UNCHANGED duplicated
       \/ /\ duplicated < MaxDuplicates
          /\ duplicated' = duplicated + 1
          /\ UNCHANGED network
    /\ UNCHANGED <<pending, generated, dropped, sent, lost>>

(* External: UDP loses a datagram. *)
Lose(seq) ==
    /\ seq \in network
    /\ network' = network \ {seq}
    /\ lost' = lost + 1
    /\ UNCHANGED <<pending, generated, dropped, sent, duplicated>>
=============================================================================
