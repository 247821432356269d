------------------------- MODULE SpscRingBufferProofs -------------------------
(* Proofs about the ring buffer for every capacity and any number of calls. *)
EXTENDS SpscRingBuffer, TLAPS

(* A remainder is an index of the ring. *)
LEMMA ModRange ==
  ASSUME NEW n \in Nat, NEW size \in Nat, size > 0
  PROVE  n % size \in 0..(size - 1)
  OBVIOUS

(* Numbers less than the size apart have different indices. *)
LEMMA ModDistinct ==
  ASSUME NEW size \in Nat, size > 0,
         NEW a \in Nat, NEW b \in Nat, a < b, b - a < size
  PROVE  a % size # b % size
<1> DEFINE qa == a \div size
           qb == b \div size
<1>1. a = size * qa + (a % size) /\ qa \in Int /\ a % size \in Int
  OBVIOUS
<1>2. b = size * qb + (b % size) /\ qb \in Int /\ b % size \in Int
  OBVIOUS
<1> HIDE DEF qa, qb
<1>3. SUFFICES ASSUME a % size = b % size PROVE FALSE
  OBVIOUS
<1>4. b - a = size * (qb - qa)
  BY <1>1, <1>2, <1>3
<1>5. CASE qb - qa <= 0
  BY <1>1, <1>2, <1>4, <1>5
<1>6. CASE qb - qa >= 1
  BY <1>1, <1>2, <1>4, <1>6
<1> QED BY <1>1, <1>2, <1>5, <1>6

(* One lap later the index is the same. *)
LEMMA ModWrap ==
  ASSUME NEW size \in Nat, size > 0, NEW a \in Nat
  PROVE  (a + size) % size = a % size
<1> DEFINE b == a + size
           r == b % size
           q == b \div size
           s == a % size
           p == a \div size
<1>1. /\ b = size * q + r /\ q \in Int /\ r \in 0..(size - 1)
      /\ a = size * p + s /\ p \in Int /\ s \in 0..(size - 1)
      /\ b = a + size
  OBVIOUS
<1> HIDE DEF b, r, q, s, p
<1>2. r - s = size * (p + 1 - q) /\ r - s < size /\ s - r < size
  BY <1>1
<1>3. CASE p + 1 - q >= 1
  BY <1>1, <1>2, <1>3
<1>4. CASE p + 1 - q <= -1
  BY <1>1, <1>2, <1>4
<1>5. CASE p + 1 - q = 0
  BY <1>1, <1>2, <1>5
<1>6. r = s
  BY <1>1, <1>3, <1>4, <1>5
<1> QED BY <1>6 DEF r, s, b
-----------------------------------------------------------------------------

LEMMA SizeFact == Capacity \in Nat /\ Capacity >= 2
  BY CapacityAssumption

LEMMA IndexInRange == ASSUME NEW n \in Nat PROVE Index(n) \in Slots
  BY SizeFact, ModRange DEF Index, Slots

LEMMA IndexWraps ==
  ASSUME NEW a \in Nat PROVE Index(a + Capacity) = Index(a)
<1>1. Capacity > 0
  BY SizeFact
<1>2. (a + Capacity) % Capacity = a % Capacity
  BY <1>1, SizeFact, ModWrap
<1> QED BY <1>2 DEF Index

LEMMA IndexDistinct ==
  ASSUME NEW a \in Nat, NEW b \in Nat, a < b, b - a < Capacity
  PROVE  Index(a) # Index(b)
<1>1. Capacity > 0
  BY SizeFact
<1>2. a % Capacity # b % Capacity
  BY <1>1, SizeFact, ModDistinct
<1> QED BY <1>2 DEF Index

(* The acquire and release orders carry what was seen. *)
LEMMA Orders ==
  /\ Synchronizes(PopStoreOrder, PushLoadOrder)
  /\ Synchronizes(PushStoreOrder, PopLoadOrder)
  BY DEF Synchronizes, PopStoreOrder, PushLoadOrder, PushStoreOrder, PopLoadOrder

LEMMA InitInductive == Init => InductiveInvariant
  BY SizeFact, IndexInRange
  DEF Init, InductiveInvariant, TypeOK, IndicesInOrder, Contents, NoItem, Slots

(* A push that passes the test has room: comparing indices modulo the      *)
(* capacity is the same as comparing counts.                               *)
LEMMA NotFull ==
  ASSUME InductiveInvariant, NEW seen \in producerSeen..pops, ~FullAt(seen)
  PROVE  pushes - seen < Capacity - 1
<1> USE DEF InductiveInvariant, TypeOK, IndicesInOrder
<1>1. /\ pushes \in Nat /\ seen \in Nat
      /\ seen <= pushes /\ pushes - seen <= Capacity - 1
  BY SizeFact
<1>2. SUFFICES ASSUME pushes - seen = Capacity - 1 PROVE FALSE
  BY <1>1, SizeFact
<1>3. pushes + 1 = seen + Capacity
  BY <1>1, <1>2, SizeFact
<1>4. Index(pushes + 1) = Index(seen)
  BY <1>1, <1>3, IndexWraps
<1> QED BY <1>4 DEF FullAt

LEMMA NotEmpty ==
  ASSUME InductiveInvariant, NEW seen \in consumerSeen..pushes, ~EmptyAt(seen)
  PROVE  pops < seen
  BY SizeFact DEF InductiveInvariant, TypeOK, IndicesInOrder, EmptyAt

LEMMA NextInductive ==
  ASSUME InductiveInvariant, [Next]_vars
  PROVE  InductiveInvariant'
<1> USE SizeFact
<1> DEFINE Naturals == {pushes, pops, producerSeen, consumerSeen, producerSynced,
                        consumerSynced} \subseteq Nat
<1>1. ASSUME NEW seen \in producerSeen..pops, PushLoad(seen)
      PROVE  InductiveInvariant'
  <2>1. /\ seen \in Nat /\ producerSeen' = seen /\ producerSynced' = seen
        /\ producer' \in {"idle", "access"}
        /\ producer' # "idle" => ~FullAt(seen)
    BY <1>1, Orders DEF PushLoad, InductiveInvariant, TypeOK
  <2>2. UNCHANGED <<storage, pushes, pops, consumer, consumerSeen, consumerSynced, value>>
    BY <1>1 DEF PushLoad, consumerVars
  <2>3. TypeOK' /\ Contents'
    BY <2>1, <2>2 DEF InductiveInvariant, TypeOK, Contents, Slots, Index
  <2>4. IndicesInOrder'
    BY <1>1, <2>1, <2>2 DEF InductiveInvariant, TypeOK, IndicesInOrder
  <2>5. producer' # "idle" => pushes' - producerSeen' < Capacity - 1
    BY <2>1, <2>2, NotFull
  <2> QED BY <2>1, <2>2, <2>3, <2>4, <2>5 DEF InductiveInvariant
<1>2. CASE PushWrite
  <2>1. /\ UNCHANGED <<pushes, pops, producerSeen, producerSynced, consumer,
                       consumerSeen, consumerSynced, value>>
        /\ producer = "access" /\ producer' = "publish"
        /\ storage' = [storage EXCEPT ![Index(pushes)] = pushes]
    BY <1>2 DEF PushWrite, consumerVars
  <2>2. pushes \in Nat /\ pops \in Nat /\ Index(pushes) \in Slots
    BY IndexInRange DEF InductiveInvariant, TypeOK
  <2>3. TypeOK' /\ storage'[Index(pushes)] = pushes
    BY <2>1, <2>2 DEF InductiveInvariant, TypeOK, Slots
  <2>4. ASSUME NEW n \in Nat, pops <= n, n < pushes
        PROVE  storage'[Index(n)] = n
    <3>1. Index(n) # Index(pushes)
      BY <2>2, <2>4, IndexDistinct DEF InductiveInvariant, TypeOK, IndicesInOrder
    <3>2. Index(n) \in Slots /\ storage[Index(n)] = n
      BY <2>4, IndexInRange DEF InductiveInvariant, Contents
    <3> QED BY <2>1, <3>1, <3>2 DEF InductiveInvariant, TypeOK
  <2>5. Contents'
    BY <2>1, <2>4 DEF Contents, Index
  <2>6. IndicesInOrder'
    BY <2>1 DEF InductiveInvariant, IndicesInOrder
  <2> QED BY <2>1, <2>3, <2>5, <2>6 DEF InductiveInvariant, Index
<1>3. CASE PushPublish
  <2>1. /\ UNCHANGED <<storage, pops, producerSeen, producerSynced, consumer,
                       consumerSeen, consumerSynced, value>>
        /\ producer = "publish" /\ producer' = "idle"
        /\ pushes' = pushes + 1
    BY <1>3 DEF PushPublish, consumerVars
  <2>2. TypeOK'
    BY <2>1 DEF InductiveInvariant, TypeOK, Slots
  <2>3. IndicesInOrder'
    BY <2>1 DEF InductiveInvariant, TypeOK, IndicesInOrder
  <2>4. Contents'
    <3>1. ASSUME NEW n \in Nat, pops <= n, n < pushes + 1
          PROVE  storage[Index(n)] = n
      BY <2>1, <3>1 DEF InductiveInvariant, TypeOK, Contents
    <3> QED BY <2>1, <3>1 DEF Contents, Index
  <2> QED BY <2>1, <2>2, <2>3, <2>4 DEF InductiveInvariant
<1>4. ASSUME NEW seen \in consumerSeen..pushes, PopLoad(seen)
      PROVE  InductiveInvariant'
  <2>1. /\ seen \in Nat /\ consumerSeen' = seen /\ consumerSynced' = seen
        /\ consumer' \in {"idle", "access"}
        /\ consumer' # "idle" => ~EmptyAt(seen)
    BY <1>4, Orders DEF PopLoad, InductiveInvariant, TypeOK
  <2>2. UNCHANGED <<storage, pushes, pops, producer, producerSeen, producerSynced, value>>
    BY <1>4 DEF PopLoad, producerVars
  <2>3. TypeOK' /\ Contents'
    BY <2>1, <2>2 DEF InductiveInvariant, TypeOK, Contents, Slots, Index
  <2>4. IndicesInOrder'
    BY <1>4, <2>1, <2>2 DEF InductiveInvariant, TypeOK, IndicesInOrder
  <2>5. consumer' # "idle" => pops' < consumerSeen'
    BY <2>1, <2>2, NotEmpty
  <2> QED BY <2>1, <2>2, <2>3, <2>4, <2>5 DEF InductiveInvariant, Index
<1>5. CASE PopCopy
  <2>1. /\ UNCHANGED <<storage, pushes, pops, producer, producerSeen, producerSynced,
                       consumerSeen, consumerSynced>>
        /\ consumer = "access" /\ consumer' = "publish"
        /\ value' = storage[Index(pops)]
    BY <1>5 DEF PopCopy, producerVars
  <2>2. value' = pops
    BY <2>1 DEF InductiveInvariant, TypeOK, IndicesInOrder, Contents
  <2>3. TypeOK' /\ Contents' /\ IndicesInOrder'
    BY <2>1, <2>2
    DEF InductiveInvariant, TypeOK, Contents, IndicesInOrder, Slots, Index
  <2> QED BY <2>1, <2>2, <2>3 DEF InductiveInvariant, Index
<1>6. CASE PopPublish
  <2>1. /\ UNCHANGED <<storage, pushes, producer, producerSeen, producerSynced,
                       consumerSeen, consumerSynced, value>>
        /\ consumer = "publish" /\ consumer' = "idle"
        /\ pops' = pops + 1
    BY <1>6 DEF PopPublish, producerVars
  <2>2. TypeOK'
    BY <2>1 DEF InductiveInvariant, TypeOK, Slots
  <2>3. IndicesInOrder'
    BY <2>1 DEF InductiveInvariant, TypeOK, IndicesInOrder
  <2>4. Contents'
    BY <2>1 DEF InductiveInvariant, TypeOK, Contents, Index
  <2> QED BY <2>1, <2>2, <2>3, <2>4 DEF InductiveInvariant, Index
<1>7. CASE UNCHANGED vars
  BY <1>7 DEF vars, producerVars, consumerVars, InductiveInvariant, TypeOK,
              IndicesInOrder, Contents, Index, Slots
<1> QED BY <1>1, <1>2, <1>3, <1>4, <1>5, <1>6, <1>7 DEF Next, Producer, Consumer

(* The invariant holds in every reachable state. *)
THEOREM Invariance == Spec => []InductiveInvariant
<1>1. InductiveInvariant /\ [Next]_vars => InductiveInvariant'
  BY NextInductive
<1> QED BY <1>1, InitInductive, PTL DEF Spec

(* The type invariant. *)
THEOREM TypeCorrect == Spec => []TypeOK
<1>1. InductiveInvariant => TypeOK
  BY DEF InductiveInvariant
<1> QED BY <1>1, Invariance, PTL

(* The acquire and release orders of spsc_ring_buffer.hpp:23-40 order      *)
(* every two conflicting accesses to an element.                           *)
THEOREM RaceFreedom == Spec => []NoDataRace
<1>1. InductiveInvariant => NoDataRace
  BY SizeFact DEF InductiveInvariant, NoDataRace, TypeOK, IndicesInOrder
<1> QED BY <1>1, Invariance, PTL

(* Stale loads never let one thread overstep the other. *)
THEOREM NoOverstep == Spec => []IndicesInOrder
<1>1. InductiveInvariant => IndicesInOrder
  BY DEF InductiveInvariant
<1> QED BY <1>1, Invariance, PTL
-----------------------------------------------------------------------------
(* The items inside, oldest first, as the refinement mapping names them. *)
Inside == [k \in 1..(pushes - Taken) |-> storage[Index(Taken + k - 1)]]

(* Every element of that sequence is the item its position calls for. *)
LEMMA InsideItems ==
  InductiveInvariant =>
         /\ Taken \in Nat /\ pushes \in Nat
         /\ pops <= Taken /\ Taken <= pushes
         /\ Inside = [k \in 1..(pushes - Taken) |-> Taken + k - 1]
<1> SUFFICES ASSUME InductiveInvariant
             PROVE  /\ Taken \in Nat /\ pushes \in Nat
                    /\ pops <= Taken /\ Taken <= pushes
                    /\ Inside = [k \in 1..(pushes - Taken) |-> Taken + k - 1]
  OBVIOUS
<1>1. /\ Taken \in Nat /\ pushes \in Nat /\ pops \in Nat
      /\ pops <= Taken /\ Taken <= pushes
  BY DEF InductiveInvariant, TypeOK, IndicesInOrder, Taken
<1>2. ASSUME NEW k \in 1..(pushes - Taken)
      PROVE  storage[Index(Taken + k - 1)] = Taken + k - 1
  <2>1. Taken + k - 1 \in Nat /\ pops <= Taken + k - 1 /\ Taken + k - 1 < pushes
    BY <1>1
  <2> QED BY <2>1 DEF InductiveInvariant, Contents
<1> QED BY <1>1, <1>2 DEF Inside

LEMMA InsideItemsNext ==
  ASSUME InductiveInvariant'
  PROVE  Inside' = [k \in 1..(pushes' - Taken') |-> Taken' + k - 1]
<1>1. PICK lo \in Nat, hi \in Nat :
         lo = Taken' /\ hi = pushes' /\ pops' <= lo /\ lo <= hi /\ pops' \in Nat
  BY DEF InductiveInvariant, TypeOK, IndicesInOrder, Taken
<1>2. \A n \in Nat : lo <= n /\ n < hi => storage'[Index(n)] = n
  BY <1>1 DEF InductiveInvariant, Contents, Index
<1>3. \A k \in 1..(hi - lo) : storage'[Index(lo + k - 1)] = lo + k - 1
  BY <1>2
<1>4. Inside' = [k \in 1..(hi - lo) |-> storage'[Index(lo + k - 1)]]
  BY <1>1 DEF Inside, Index
<1> QED BY <1>1, <1>3, <1>4

(* A sequence of consecutive numbers, appended to and taken from. *)
LEMMA Consecutive ==
  ASSUME NEW lo \in Nat, NEW n \in Nat
  PROVE  LET q == [k \in 1..n |-> lo + k - 1]
         IN  /\ q \in Seq(Nat) /\ Len(q) = n
             /\ Append(q, lo + n) = [k \in 1..(n + 1) |-> lo + k - 1]
             /\ n > 0 => /\ q # <<>> /\ Head(q) = lo
                        /\ Tail(q) = [k \in 1..(n - 1) |-> lo + k]
<1> DEFINE q == [k \in 1..n |-> lo + k - 1]
<1>1. q \in Seq(Nat) /\ Len(q) = n
  OBVIOUS
<1>2. Append(q, lo + n) = [k \in 1..(n + 1) |-> lo + k - 1]
  BY <1>1
<1>3. ASSUME n > 0
      PROVE  /\ q # <<>> /\ Head(q) = lo
             /\ Tail(q) = [k \in 1..(n - 1) |-> lo + k]
  BY <1>1, <1>3
<1> QED BY <1>1, <1>2, <1>3

(* The ring buffer implements the bounded first-in first-out queue.        *)
THEOREM FifoRefinement == Spec => ImplementsFifo
<1>1. Init => Fifo!Init
  BY DEF Init, Fifo!Init, Taken, NoItem
<1>2. InductiveInvariant /\ [Next]_vars =>
         [Fifo!Push \/ Fifo!Pop]_<<pushes, Inside, value>>
  <2> SUFFICES ASSUME InductiveInvariant, [Next]_vars
               PROVE  [Fifo!Push \/ Fifo!Pop]_<<pushes, Inside, value>>
    OBVIOUS
  <2>0. InductiveInvariant'
    BY NextInductive
  <2>1. /\ Taken \in Nat /\ pushes \in Nat /\ Taken <= pushes /\ pops <= Taken
        /\ Inside = [k \in 1..(pushes - Taken) |-> Taken + k - 1]
    BY InsideItems
  <2>2. Inside' = [k \in 1..(pushes' - Taken') |-> Taken' + k - 1]
    BY <2>0, InsideItemsNext
  <2>3. CASE PushPublish
    <3>1. /\ pushes' = pushes + 1 /\ Taken' = Taken /\ value' = value
          /\ pushes - Taken < Capacity - 1
      BY <2>1, <2>3, SizeFact
      DEF PushPublish, consumerVars, Taken, InductiveInvariant, TypeOK, IndicesInOrder
    <3>2. Inside' = Append(Inside, pushes) /\ Len(Inside) = pushes - Taken
      <4>1. pushes - Taken \in Nat /\ pushes = Taken + (pushes - Taken)
        BY <2>1
      <4> QED BY <2>1, <2>2, <3>1, <4>1, Consecutive
    <3> QED BY <3>1, <3>2 DEF Fifo!Push, Inside
  <2>4. CASE PopCopy
    <3>1. /\ pushes' = pushes /\ Taken' = Taken + 1 /\ Taken = pops
          /\ pushes - Taken \in Nat /\ pushes - Taken > 0
          /\ value' = pops
      BY <2>1, <2>4, <2>0, SizeFact
      DEF PopCopy, producerVars, Taken, InductiveInvariant, TypeOK, IndicesInOrder
    <3>2. Inside # <<>> /\ Head(Inside) = pops /\ Inside' = Tail(Inside)
      <4>1. /\ Inside # <<>> /\ Head(Inside) = Taken
            /\ Tail(Inside) = [k \in 1..(pushes - Taken - 1) |-> Taken + k]
        BY <2>1, <3>1, Consecutive
      <4>2. pushes' - Taken' = pushes - Taken - 1
        BY <2>1, <3>1
      <4>3. \A k \in 1..(pushes - Taken - 1) : Taken' + k - 1 = Taken + k
        BY <2>1, <3>1
      <4>4. Inside' = [k \in 1..(pushes - Taken - 1) |-> Taken' + k - 1]
        BY <2>2, <4>2
      <4> QED BY <3>1, <4>1, <4>3, <4>4
    <3> QED BY <3>1, <3>2 DEF Fifo!Pop, Inside
  <2>5. CASE PushWrite \/ PopPublish \/ UNCHANGED vars
             \/ (\E seen \in producerSeen..pops : PushLoad(seen))
             \/ (\E seen \in consumerSeen..pushes : PopLoad(seen))
    <3>1. pushes' = pushes /\ Taken' = Taken /\ value' = value
      BY <2>5 DEF PushWrite, PopPublish, PushLoad, PopLoad, producerVars,
                  consumerVars, vars, Taken, InductiveInvariant, TypeOK
    <3> QED BY <2>1, <2>2, <3>1
  <2> QED BY <2>3, <2>4, <2>5 DEF Next, Producer, Consumer
<1> QED BY <1>1, <1>2, Invariance, PTL
        DEF Spec, ImplementsFifo, Fifo!Spec, Inside
=============================================================================
