-------------------------- MODULE MCSpscRingBuffer --------------------------
(* A bounded number of pushes, under the fairness of the two threads. *)
EXTENDS SpscRingBuffer

CONSTANT MaxPushes      \* items the producer pushes

MCProducer ==
    \/ PushWrite \/ PushPublish
    \/ pushes < MaxPushes /\ \E seen \in producerSeen..pops : PushLoad(seen)

MCNext == MCProducer \/ Consumer

(* A call runs to its end, the consumer keeps calling pop (the device's    *)
(* callback), and a store becomes visible to the other thread in time.     *)
MCSpec ==
    /\ Init /\ [][MCNext]_vars
    /\ WF_vars(PushWrite \/ PushPublish)
    /\ WF_vars(PopCopy \/ PopPublish)
    /\ SF_vars(PopLoad(pushes))

(* Every published item is eventually taken. *)
EveryItemIsTaken == \A n \in 0..(MaxPushes - 1) : pushes > n ~> pops > n
=============================================================================
