--------------------------- MODULE SpscRingBuffer ---------------------------
(***************************************************************************)
(* concurrency::SpscRingBuffer<T, Capacity>: one producer thread calls     *)
(* push, one consumer thread calls pop, under the C++ memory model.        *)
(*                                                                         *)
(* Each index has one writer, so its modification order is the sequence of *)
(* the values it took: the k-th store (from 0, the initial value) stored   *)
(* k % Capacity.  A load by the other thread returns any store not older   *)
(* than the one it returned before (coherence), not necessarily the newest.*)
(* An acquire load that returns a release store makes everything its       *)
(* thread did before that store happen before what follows the load; two   *)
(* accesses to the same element that are not so ordered are a data race.   *)
(*                                                                         *)
(* The n-th item ever pushed (from 0) is identified with n.                *)
(***************************************************************************)
EXTENDS Integers, Sequences

CONSTANTS Capacity      \* template argument

ASSUME CapacityAssumption ==
    Capacity \in Nat /\ Capacity >= 2 /\ \E k \in 1..Capacity : Capacity = 2^k

VARIABLES
    storage,            \* storage_
    pushes,             \* stores to write_index_ so far
    pops,               \* stores to read_index_ so far
    producer,           \* position in push: idle, access, publish
    consumer,           \* position in pop: idle, access, publish
    producerSeen,       \* the store to read_index_ that push last loaded
    consumerSeen,       \* the store to write_index_ that pop last loaded
    producerSynced,     \* pops that happen before the producer's next step
    consumerSynced,     \* pushes that happen before the consumer's next step
    value               \* pop's local copy, and what it returns

producerVars == <<producer, producerSeen, producerSynced>>
consumerVars == <<consumer, consumerSeen, consumerSynced, value>>
vars == <<storage, pushes, pops, producerVars, consumerVars>>

Slots == 0..(Capacity - 1)

NoItem == -1

(* increment() masks with Capacity - 1, which for a power of two is this.  *)
Index(n) == n % Capacity

(* The memory orders of the four accesses to the other thread's index and  *)
(* to the own one that publishes.                                          *)
Relaxed == "relaxed"
PushLoadOrder == "acquire"
PushStoreOrder == "release"
PopLoadOrder == "acquire"
PopStoreOrder == "release"

Synchronizes(store, load) == store = "release" /\ load = "acquire"

Init ==
    /\ storage = [slot \in Slots |-> NoItem]
    /\ pushes = 0 /\ pops = 0
    /\ producer = "idle" /\ consumer = "idle"
    /\ producerSeen = 0 /\ consumerSeen = 0
    /\ producerSynced = 0 /\ consumerSynced = 0
    /\ value = NoItem
-----------------------------------------------------------------------------
(* push: the own index is loaded exactly, the other one possibly stale.    *)

(* Mutant of FullAt: all Capacity slots are used. *)
FullWhenIndicesMeet(seen) == pushes # seen /\ Index(pushes) = Index(seen)

FullAt(seen) == Index(pushes + 1) = Index(seen)

PushLoad(seen) ==
    /\ producer = "idle"
    /\ seen \in producerSeen..pops
    /\ producerSeen' = seen
    /\ producerSynced' = IF Synchronizes(PopStoreOrder, PushLoadOrder)
                         THEN seen ELSE producerSynced
    /\ producer' = IF FullAt(seen) THEN "idle" ELSE "access"
    /\ UNCHANGED <<storage, pushes, pops, consumerVars>>

(* Mutant of PushWrite: the index is advanced before it is used. *)
PushWriteNext ==
    /\ producer = "access"
    /\ storage' = [storage EXCEPT ![Index(pushes + 1)] = pushes]
    /\ producer' = "publish"
    /\ UNCHANGED <<pushes, pops, producerSeen, producerSynced, consumerVars>>

PushWrite ==
    /\ producer = "access"
    /\ storage' = [storage EXCEPT ![Index(pushes)] = pushes]
    /\ producer' = "publish"
    /\ UNCHANGED <<pushes, pops, producerSeen, producerSynced, consumerVars>>

PushPublish ==
    /\ producer = "publish"
    /\ pushes' = pushes + 1
    /\ producer' = "idle"
    /\ UNCHANGED <<storage, pops, producerSeen, producerSynced, consumerVars>>
-----------------------------------------------------------------------------
(* pop, the mirror image. *)

(* Mutant of EmptyAt: the last item is left inside. *)
EmptyWithOneItem(seen) == Index(pops) = Index(seen) \/ Index(pops + 1) = Index(seen)

EmptyAt(seen) == Index(pops) = Index(seen)

PopLoad(seen) ==
    /\ consumer = "idle"
    /\ seen \in consumerSeen..pushes
    /\ consumerSeen' = seen
    /\ consumerSynced' = IF Synchronizes(PushStoreOrder, PopLoadOrder)
                         THEN seen ELSE consumerSynced
    /\ consumer' = IF EmptyAt(seen) THEN "idle" ELSE "access"
    /\ UNCHANGED <<storage, pushes, pops, producerVars, value>>

PopCopy ==
    /\ consumer = "access"
    /\ value' = storage[Index(pops)]
    /\ consumer' = "publish"
    /\ UNCHANGED <<storage, pushes, pops, producerVars, consumerSeen, consumerSynced>>

PopPublish ==
    /\ consumer = "publish"
    /\ pops' = pops + 1
    /\ consumer' = "idle"
    /\ UNCHANGED <<storage, pushes, producerVars, consumerSeen, consumerSynced, value>>

Producer == PushWrite \/ PushPublish \/ \E seen \in producerSeen..pops : PushLoad(seen)
Consumer == PopCopy \/ PopPublish \/ \E seen \in consumerSeen..pushes : PopLoad(seen)

Next == Producer \/ Consumer

Spec == Init /\ [][Next]_vars
-----------------------------------------------------------------------------
(* Type invariant. *)
TypeOK ==
    /\ storage \in [Slots -> Nat \union {NoItem}]
    /\ {pushes, pops, producerSeen, consumerSeen, producerSynced, consumerSynced}
          \subseteq Nat
    /\ {producer, consumer} \subseteq {"idle", "access", "publish"}
    /\ value \in Nat \union {NoItem}

(* No data race on an element.  Before the producer writes item n, the     *)
(* consumer's copy of item n - Capacity from that element happened before; *)
(* before the consumer copies item n, the producer's write of it did.      *)
NoDataRace ==
    /\ producer = "access" => pushes < producerSynced + Capacity
    /\ consumer = "access" => pops < consumerSynced

(* Items are popped once each, in the order they were pushed, unmodified,  *)
(* and never more than Capacity - 1 are inside.  A pop takes effect when   *)
(* it copies the element, a push when it publishes it.                     *)
Taken == pops + (IF consumer = "publish" THEN 1 ELSE 0)
Fifo == INSTANCE BoundedFifo
           WITH Limit <- Capacity - 1, pushed <- pushes, last <- value,
                queue <- [k \in 1..(pushes - Taken) |-> storage[Index(Taken + k - 1)]]
ImplementsFifo == Fifo!Spec

(* What one thread believes of the other is old, never wrong: the producer *)
(* may refuse a push although there is room, the consumer may report an    *)
(* empty queue although there are items, but neither oversteps.            *)
IndicesInOrder ==
    /\ producerSeen <= pops /\ pops <= consumerSeen /\ consumerSeen <= pushes
    /\ pushes - producerSeen <= Capacity - 1

(* The strengthening that makes the above inductive: what each thread has  *)
(* seen is also what it is synchronised with, a thread past its test knows *)
(* there is room or an item, and every item inside is where its index says.*)
Contents == \A n \in Nat : pops <= n /\ n < pushes => storage[Index(n)] = n

InductiveInvariant ==
    /\ TypeOK /\ IndicesInOrder
    /\ producerSynced = producerSeen /\ consumerSynced = consumerSeen
    /\ producer # "idle" => pushes - producerSeen < Capacity - 1
    /\ producer = "publish" => storage[Index(pushes)] = pushes
    /\ consumer # "idle" => pops < consumerSeen
    /\ consumer = "publish" => value = pops
    /\ Contents
=============================================================================
