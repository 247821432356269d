-------------------------- MODULE LibraryUnitProofs --------------------------
(* Proofs about the units of the library that keep their state to            *)
(* themselves, and about the Lab's loader and preview.                     *)
EXTENDS UdpSocket, WavWriter, AudioFileLoad, AdaptiveController,
        HoldAndDecayPlc, WireFormat, LabPlayback, WellFoundedInduction, TLAPS

-----------------------------------------------------------------------------
(* UdpSocket: ownership of descriptors, for any number of objects and       *)
(* descriptors.                                                             *)

SocketInv == SocketTypeOK /\ SingleOwner /\ NoLeak /\ NeverBlocks

LEMMA NothingWaits == 0 \in 0..MaxWaiting
  BY WaitingAssumption

LEMMA SocketInitInv == SocketInit => SocketInv
<1> SUFFICES ASSUME SocketInit PROVE SocketInv
  OBVIOUS
<1>1. waiting \in [Fds -> 0..MaxWaiting]
  BY NothingWaits DEF SocketInit
<1>2. use \in [Fds -> {"free", "socket", "foreign"}] /\ \A fd \in Fds : use[fd] # "socket"
  BY DEF SocketInit
<1>3. SocketTypeOK
  BY <1>1, <1>2 DEF SocketInit, SocketTypeOK
<1>4. SingleOwner /\ NeverBlocks
  BY DEF SocketInit, SingleOwner, NeverBlocks, Valid
<1>5. NoLeak
  BY <1>2 DEF NoLeak
<1> QED BY <1>3, <1>4, <1>5 DEF SocketInv

(* Every way an object comes by a descriptor, gives it away or closes it. *)
LEMMA SocketOpenKeeps ==
    ASSUME SocketInv, NEW object \in Objects, OpenIpv4(object) PROVE SocketInv'
<1>1. PICK fd \in Fds : Allocate(fd, TRUE) /\ fd_' = [fd_ EXCEPT ![object] = fd]
  BY DEF OpenIpv4
<1>2. fd_[object] = kInvalidSocket
  BY DEF SocketInv, SocketTypeOK, SingleOwner, Valid, OpenIpv4
<1>3. SocketTypeOK'
  <2>1. waiting' \in [Fds -> 0..MaxWaiting]
    BY <1>1, NothingWaits DEF SocketInv, SocketTypeOK, Allocate
  <2> QED BY <1>1, <2>1 DEF SocketInv, SocketTypeOK, OpenIpv4, Allocate
<1>4. \A other \in Objects : fd_[other] # fd
  BY <1>1, InvalidAssumption DEF SocketInv, SocketTypeOK, SingleOwner, Valid, Allocate
<1>5. SingleOwner'
  BY <1>1, <1>4 DEF SocketInv, SocketTypeOK, SingleOwner, Valid, OpenIpv4, Allocate
<1>6. NoLeak'
  BY <1>1, <1>2, InvalidAssumption DEF SocketInv, SocketTypeOK, NoLeak, Allocate
<1>7. NeverBlocks'
  BY <1>1, <1>4 DEF SocketInv, SocketTypeOK, NeverBlocks, Valid, Allocate
<1> QED BY <1>3, <1>5, <1>6, <1>7 DEF SocketInv

LEMMA MoveConstructKeeps ==
    ASSUME SocketInv, NEW object \in Objects, NEW other \in Objects,
           MoveConstruct(object, other)
    PROVE  SocketInv'
<1>1. object # other /\ fd_[object] = kInvalidSocket
  BY DEF SocketInv, SocketTypeOK, SingleOwner, Valid, MoveConstruct
<1>2. SocketTypeOK'
  BY DEF SocketInv, SocketTypeOK, MoveConstruct, Take, kernel
<1>3. SingleOwner'
  BY <1>1 DEF SocketInv, SocketTypeOK, SingleOwner, Valid, MoveConstruct, Take, kernel
<1>4. NoLeak'
  BY <1>1, InvalidAssumption DEF SocketInv, SocketTypeOK, NoLeak, MoveConstruct, Take, kernel
<1>5. NeverBlocks'
  BY <1>1 DEF SocketInv, SocketTypeOK, NeverBlocks, Valid, MoveConstruct, Take, kernel
<1> QED BY <1>2, <1>3, <1>4, <1>5 DEF SocketInv

(* Closing takes the descriptor from the table and from its only holder. *)
LEMMA CloseKeeps ==
    ASSUME SocketInv, NEW object \in Objects, CloseFd(object),
           fd_' = [fd_ EXCEPT ![object] = kInvalidSocket],
           alive' \in {alive, alive \ {object}}, UNCHANGED error
    PROVE  SocketInv'
<1>1. SocketTypeOK'
  BY DEF SocketInv, SocketTypeOK, CloseFd, Release, Valid, kernel
<1>2. CASE ~Valid(object)
  <2>1. fd_' = fd_ /\ UNCHANGED kernel
    BY <1>2 DEF SocketInv, SocketTypeOK, CloseFd, Valid
  <2> QED BY <2>1, <1>1, <1>2 DEF SocketInv, SingleOwner, NoLeak, NeverBlocks, Valid, kernel
<1>3. CASE Valid(object)
  <2> DEFINE fd == fd_[object]
  <2>1. fd \in Fds /\ use' = [use EXCEPT ![fd] = "free"] /\ UNCHANGED <<nonblocking, port, waiting>>
    BY <1>3 DEF SocketInv, SocketTypeOK, CloseFd, Release, Valid
  <2>2. \A other \in Objects : other # object => fd_[other] # fd
    BY <1>3 DEF SocketInv, SingleOwner, Valid
  <2>3. SingleOwner'
    BY <2>1, <2>2, InvalidAssumption DEF SocketInv, SocketTypeOK, SingleOwner, Valid
  <2>4. NoLeak'
    BY <2>1, <2>2 DEF SocketInv, SocketTypeOK, NoLeak
  <2>5. NeverBlocks'
    BY <2>1, <2>2 DEF SocketInv, SocketTypeOK, NeverBlocks, Valid
  <2> QED BY <1>1, <2>3, <2>4, <2>5 DEF SocketInv
<1> QED BY <1>2, <1>3

LEMMA MoveAssignKeeps ==
    ASSUME SocketInv, NEW object \in Objects, NEW other \in Objects, MoveAssign(object, other)
    PROVE  SocketInv'
<1>1. CASE object = other
  BY <1>1 DEF SocketInv, SocketTypeOK, SingleOwner, NoLeak, NeverBlocks, Valid, MoveAssign, kernel
<1>2. CASE object # other
  <2> DEFINE closed == [fd_ EXCEPT ![object] = kInvalidSocket]
  <2>1. CloseFd(object) /\ Take(object, other) /\ UNCHANGED <<alive, error>>
    BY <1>2 DEF MoveAssign
  <2>2. SocketTypeOK'
    BY <2>1 DEF SocketInv, SocketTypeOK, CloseFd, Release, Take, Valid, kernel
  <2>3. fd_'[object] = fd_[other] /\ fd_'[other] = kInvalidSocket
        /\ \A third \in Objects \ {object, other} : fd_'[third] = fd_[third]
    BY <1>2, <2>1 DEF SocketInv, SocketTypeOK, Take
  <2>4. \A third \in Objects : third # object /\ Valid(third)
           => use'[fd_[third]] = "socket" /\ nonblocking'[fd_[third]]
    BY <2>1 DEF SocketInv, SocketTypeOK, SingleOwner, NeverBlocks, CloseFd, Release, Valid, kernel
  <2>5. SingleOwner'
    <3>1. \A third \in Objects : Valid(third)' => third \in alive' /\ use'[fd_'[third]] = "socket"
      BY <1>2, <2>1, <2>3, <2>4 DEF SocketInv, SingleOwner, Valid, MoveAssign
    <3>2. \A third, fourth \in Objects : Valid(third)' /\ fd_'[third] = fd_'[fourth] => third = fourth
      BY <1>2, <2>3 DEF SocketInv, SingleOwner, Valid
    <3> QED BY <3>1, <3>2 DEF SingleOwner
  <2>6. NoLeak'
    <3> SUFFICES ASSUME NEW fd \in Fds, use'[fd] = "socket"
                 PROVE  \E third \in Objects : fd_'[third] = fd
      BY DEF NoLeak
    <3>1. use[fd] = "socket" /\ fd_[object] # fd
      BY <2>1, InvalidAssumption DEF SocketInv, SocketTypeOK, SingleOwner, CloseFd, Release, Valid, kernel
    <3>2. PICK holder \in Objects : fd_[holder] = fd
      BY <3>1 DEF SocketInv, NoLeak
    <3> QED BY <1>2, <2>3, <3>1, <3>2
  <2>7. NeverBlocks'
    BY <1>2, <2>3, <2>4 DEF SocketInv, NeverBlocks, Valid
  <2> QED BY <2>2, <2>5, <2>6, <2>7 DEF SocketInv
<1> QED BY <1>1, <1>2

(* Steps that neither open, move nor close leave ownership alone. *)
LEMMA OthersKeep ==
    ASSUME SocketInv, fd_' = fd_, alive \subseteq alive', SocketTypeOK',
           \A fd \in Fds : use'[fd] = "socket" <=> use[fd] = "socket",
           UNCHANGED nonblocking
    PROVE  SocketInv'
  BY DEF SocketInv, SocketTypeOK, SingleOwner, NoLeak, NeverBlocks, Valid

LEMMA SocketNextInv == SocketInv /\ [SocketNext]_socketVars => SocketInv'
<1> SUFFICES ASSUME SocketInv, [SocketNext]_socketVars PROVE SocketInv'
  OBVIOUS
<1> USE DEF SocketInv
<1>1. ASSUME NEW fd \in Fds, ForeignCall(fd) PROVE SocketInv'
  <2>1. SocketTypeOK'
    BY <1>1 DEF ForeignCall, SocketTypeOK
  <2>2. \A other \in Fds : use'[other] = "socket" <=> use[other] = "socket"
    BY <1>1 DEF ForeignCall, SocketTypeOK
  <2> QED BY <1>1, <2>1, <2>2, OthersKeep DEF ForeignCall
<1>2. ASSUME NEW object \in Objects,
             Construct(object) \/ OpenIpv4Fails(object) \/ CallFails(object)
      PROVE  SocketInv'
  <2>1. SocketTypeOK' /\ alive \subseteq alive' /\ UNCHANGED <<fd_, kernel>>
    BY <1>2 DEF SocketTypeOK, Construct, OpenIpv4Fails, CallFails, kernel
  <2> QED BY <2>1, OthersKeep DEF kernel
<1>3. ASSUME NEW object \in Objects, ReceiveFrom(object) PROVE SocketInv'
  <2>1. fd_[object] \in Fds
    BY <1>3 DEF ReceiveFrom, SocketTypeOK, Valid
  <2>2. waiting[fd_[object]] > 0 => waiting[fd_[object]] - 1 \in 0..MaxWaiting
    BY <2>1, WaitingAssumption DEF SocketTypeOK
  <2>3. waiting' \in [Fds -> 0..MaxWaiting]
    BY <1>3, <2>1, <2>2 DEF ReceiveFrom, SocketTypeOK
  <2>4. SocketTypeOK'
    BY <1>3, <2>3 DEF ReceiveFrom, SocketTypeOK
  <2> QED BY <1>3, <2>4, OthersKeep DEF ReceiveFrom
<1>4. ASSUME NEW object \in Objects, NEW number \in Ports, Bind(object, number) PROVE SocketInv'
  <2>1. SocketTypeOK'
    BY <1>4 DEF Bind, SocketTypeOK
  <2> QED BY <1>4, <2>1, OthersKeep DEF Bind
<1>5. ASSUME NEW object \in Objects, NEW number \in Ports, SendTo(object, number) PROVE SocketInv'
  <2>1. \A fd \in Fds : waiting[fd] < MaxWaiting => waiting[fd] + 1 \in 0..MaxWaiting
    BY WaitingAssumption DEF SocketTypeOK
  <2>2. waiting' \in [Fds -> 0..MaxWaiting]
    BY <1>5, <2>1 DEF SendTo, SocketTypeOK
  <2>3. SocketTypeOK'
    BY <1>5, <2>2 DEF SendTo, SocketTypeOK
  <2> QED BY <1>5, <2>3, OthersKeep DEF SendTo
<1>6. ASSUME NEW object \in Objects, Close(object) \/ Destroy(object) PROVE SocketInv'
  BY <1>6, CloseKeeps DEF Close, Destroy
<1>7. CASE UNCHANGED socketVars
  BY <1>7 DEF socketVars, kernel, SocketTypeOK, SingleOwner, NoLeak, NeverBlocks, Valid
<1> QED
  BY <1>1, <1>2, <1>3, <1>4, <1>5, <1>6, <1>7, SocketOpenKeeps, MoveConstructKeeps, MoveAssignKeeps
  DEF SocketNext

(* The types of the object table and the descriptor table. *)
THEOREM SocketTypeCorrect == SocketSpec => []SocketTypeOK
<1>1. SocketInv => SocketTypeOK
  BY DEF SocketInv
<1> QED BY SocketInitInv, SocketNextInv, <1>1, PTL DEF SocketSpec

(* However sockets are opened, moved, closed and destroyed, and whatever    *)
(* else uses descriptors, each open socket has exactly one owner, and none *)
(* that an object holds can block its caller.                              *)
THEOREM Ownership == SocketSpec => []SocketsAreOwned
<1>1. SocketInv => SocketsAreOwned
  BY DEF SocketInv, SocketsAreOwned
<1> QED BY SocketInitInv, SocketNextInv, <1>1, PTL DEF SocketSpec

(* A move never closes, unbinds or empties the socket it hands over. *)
THEOREM MovesAreSafe == SocketSpec => MoveKeepsSocket
<1> DEFINE Kept(object, other) ==
       fd_'[object] = fd_[other] /\ use'[fd_[other]] = "socket" /\ UNCHANGED <<port, waiting>>
<1>1. ASSUME SocketInv, NEW object \in Objects, NEW other \in Objects,
             MoveAssign(object, other), Valid(other)
      PROVE  Kept(object, other)
  <2>1. use[fd_[other]] = "socket"
    BY <1>1 DEF SocketInv, SingleOwner
  <2>2. CASE object = other
    BY <1>1, <2>1, <2>2 DEF MoveAssign, kernel
  <2>3. CASE object # other
    <3>1. CloseFd(object) /\ Take(object, other)
      BY <1>1, <2>3 DEF MoveAssign
    <3>2. Valid(object) => fd_[object] # fd_[other]
      BY <1>1, <2>3 DEF SocketInv, SingleOwner
    <3>3. use'[fd_[other]] = "socket" /\ UNCHANGED <<port, waiting>>
      BY <1>1, <2>1, <3>1, <3>2 DEF SocketInv, SocketTypeOK, CloseFd, Release, Valid, kernel
    <3> QED BY <1>1, <2>3, <3>1, <3>3 DEF SocketInv, SocketTypeOK, Take
  <2> QED BY <2>2, <2>3
<1>2. SocketInv => [\A object, other \in Objects :
                MoveAssign(object, other) /\ Valid(other) =>
                   /\ fd_'[object] = fd_[other]
                   /\ use'[fd_[other]] = "socket"
                   /\ UNCHANGED <<port, waiting>>]_socketVars
  BY <1>1
<1> QED BY SocketInitInv, SocketNextInv, <1>2, PTL DEF SocketSpec, MoveKeepsSocket
-----------------------------------------------------------------------------
(* WavWriter: the recorder, for every frame size, stream buffer, word size  *)
(* and number of frames, whichever calls fail.                              *)

(* While a file is open its header has length 0.  Until a call fails the    *)
(* file and the buffer hold the header and all that was counted; from then *)
(* on, and after close, nothing is buffered.                               *)
RecorderInv ==
    /\ WriterTypeOK
    /\ data_bytes_ = recorded_frames_ * kFramePayloadBytes
    /\ is_open /\ good => disk + buffered = HeaderBytes + data_bytes_
    /\ ~(is_open /\ good) => buffered = 0
    /\ ~is_open /\ good => DataOnDisk = data_bytes_
    /\ data_bytes_ - DataOnDisk \in 0..(BufferBytes + kFramePayloadBytes)
    /\ header = Header(0) \/ (~is_open /\ header = Header(DataOnDisk))
-----------------------------------------------------------------------------
LEMMA MinOfTwo ==
  ASSUME NEW a \in Int, NEW b \in Int
  PROVE  Min({a, b}) = IF a <= b THEN a ELSE b
<1> DEFINE m == IF a <= b THEN a ELSE b
<1>1. m \in {a, b} /\ \A y \in {a, b} : m <= y
  OBVIOUS
<1>2. \A x \in {a, b} : (\A y \in {a, b} : x <= y) => x = m
  OBVIOUS
<1> HIDE DEF m
<1>3. (CHOOSE x \in {a, b} : \A y \in {a, b} : x <= y) = m
  BY <1>1, <1>2
<1> QED BY <1>3 DEF m, Min

(* The clamp shortens and never lengthens. *)
LEMMA ClampFacts ==
  ASSUME NEW n \in Nat
  PROVE  /\ ClampedDataBytes(n) \in 0..n
         /\ ClampedDataBytes(n) \in 0..(Word - 1)
  BY MinOfTwo, SizesAssumption DEF ClampedDataBytes

(* What a header of length n says. *)
LEMMA HeaderFacts ==
  ASSUME NEW n \in Nat
  PROVE  /\ Header(n) \in [riff : 0..(Word - 1), data : 0..(Word - 1)]
         /\ Header(n).data = ClampedDataBytes(n)
         /\ Header(n).data \in 0..n
         /\ \/ Header(n).riff = RiffBytes + Header(n).data
            \/ Header(n).data >= Word - RiffBytes
<1> DEFINE d == ClampedDataBytes(n)
           w == Word
           size == RiffBytes + d
<1>1. d \in 0..n /\ d \in 0..(w - 1)
  BY ClampFacts
<1>2. w \in Nat \ {0} /\ RiffBytes \in Nat /\ size \in Nat
  BY <1>1, SizesAssumption
<1>3. Header(n) = [riff |-> size % w, data |-> d]
  BY DEF Header, RiffSize
<1> HIDE DEF d, w, size
<1>4. size % w \in 0..(w - 1)
  BY <1>2
<1>5. size < w => size % w = size
  BY <1>2
<1>6. ~(size < w) => d >= w - RiffBytes
  BY <1>1, <1>2 DEF size
<1> QED BY <1>1, <1>3, <1>4, <1>5, <1>6 DEF d, w, size
(* Typing, when the file and the counters are typed. *)
LEMMA RecorderTyped ==
  ASSUME is_open' \in BOOLEAN, good' \in BOOLEAN, disk' \in Nat, buffered' = 0,
         \/ header' = header /\ RecorderInv
         \/ \E n \in Nat : header' = Header(n),
         data_bytes_' \in Nat, recorded_frames_' \in Nat
  PROVE  WriterTypeOK'
<1>1. header' \in [riff : 0..(Word - 1), data : 0..(Word - 1)]
  BY HeaderFacts DEF RecorderInv, WriterTypeOK
<1>2. buffered' \in 0..BufferBytes
  BY SizesAssumption
<1> QED BY <1>1, <1>2 DEF WriterTypeOK
-----------------------------------------------------------------------------
LEMMA RecorderInit == WriterInit => RecorderInv
<1> SUFFICES ASSUME WriterInit PROVE RecorderInv
  OBVIOUS
<1>1. DataOnDisk = 0
  BY SizesAssumption DEF WriterInit, DataOnDisk
<1>2. WriterTypeOK
  <2>1. 0 \in Nat /\ 0 \in 0..BufferBytes
    BY SizesAssumption
  <2>2. Header(0) \in [riff : 0..(Word - 1), data : 0..(Word - 1)]
    BY <2>1, HeaderFacts
  <2> QED BY <2>1, <2>2 DEF WriterInit, WriterTypeOK
<1> QED BY <1>1, <1>2, SizesAssumption DEF WriterInit, RecorderInv

LEMMA OpenKeeps == ASSUME RecorderInv, Open PROVE RecorderInv'
<1>1. DataOnDisk' = 0
  BY SizesAssumption DEF Open, DataOnDisk
<1>2. WriterTypeOK'
  BY HeaderFacts, SizesAssumption DEF Open, WriterTypeOK
<1> QED BY <1>1, <1>2, SizesAssumption DEF Open, RecorderInv

LEMMA OpenFailsKeeps == ASSUME RecorderInv, OpenFails PROVE RecorderInv'
  BY DEF RecorderInv, OpenFails, WriterTypeOK, DataOnDisk, file, counters

(* One frame more is counted. *)
LEMMA CountBytes ==
  ASSUME RecorderInv, Count
  PROVE  /\ data_bytes_' = data_bytes_ + kFramePayloadBytes
         /\ data_bytes_' = recorded_frames_' * kFramePayloadBytes
         /\ data_bytes_' \in Nat /\ recorded_frames_' \in Nat
  BY SizesAssumption DEF RecorderInv, WriterTypeOK, Count

LEMMA WriteFrameKeeps == ASSUME RecorderInv, WriteFrame PROVE RecorderInv'
<1> DEFINE all == disk + buffered + kFramePayloadBytes
<1>1. PICK kept \in 0..Min({BufferBytes, all - disk}) : disk' = all - kept /\ buffered' = kept
  BY DEF WriteFrame
<1>2. disk \in Nat /\ buffered \in Nat /\ BufferBytes \in Nat /\ kFramePayloadBytes \in Nat
  BY SizesAssumption DEF RecorderInv, WriterTypeOK
<1>3. kept \in 0..BufferBytes /\ kept <= buffered + kFramePayloadBytes
  BY <1>1, <1>2, MinOfTwo
<1>4. disk' + buffered' = disk + buffered + kFramePayloadBytes /\ disk' \in Nat
  BY <1>1, <1>2, <1>3
<1>5. /\ data_bytes_' = data_bytes_ + kFramePayloadBytes
      /\ data_bytes_' = recorded_frames_' * kFramePayloadBytes
      /\ data_bytes_' \in Nat /\ recorded_frames_' \in Nat
  BY CountBytes DEF WriteFrame
<1>6. is_open' /\ good' /\ header' = Header(0) /\ is_open /\ good
  BY DEF RecorderInv, WriteFrame, output_
<1>7. disk' + buffered' = HeaderBytes + data_bytes_' /\ buffered' \in 0..BufferBytes
  BY <1>1, <1>2, <1>3, <1>4, <1>5, <1>6, SizesAssumption DEF RecorderInv, WriterTypeOK
<1>8. data_bytes_' - DataOnDisk' \in 0..(BufferBytes + kFramePayloadBytes)
  BY <1>2, <1>4, <1>5, <1>7, SizesAssumption DEF DataOnDisk
<1> QED BY <1>4, <1>5, <1>6, <1>7, <1>8, HeaderFacts DEF RecorderInv, WriterTypeOK

(* Of h + n bytes, d on the disk and b buffered, e reach the disk. *)
LEMMA Remainder ==
  ASSUME NEW d \in Nat, NEW b \in Nat, NEW e \in Nat, NEW h \in Nat, NEW n \in Nat,
         NEW limit \in Nat, d <= e, e <= d + b, b <= limit, d + b = h + n
  PROVE  n - (e - h) \in 0..limit /\ (e < h => n \in 0..limit)
  OBVIOUS

(* What is missing after one frame more that never reached the disk. *)
LEMMA Shortfall ==
  ASSUME NEW n \in Nat, NEW y \in Int, NEW limit \in Nat, NEW p \in Nat, n - y \in 0..limit
  PROVE  (n + p) - y \in 0..(limit + p)
  OBVIOUS

(* What a failure or the destructor leaves on the disk: what was there and  *)
(* a part of what was buffered.                                            *)
LEMMA BufferAbandoned ==
  ASSUME RecorderInv, disk' \in disk..(disk + buffered)
  PROVE  /\ disk' \in Nat
         /\ data_bytes_ - DataOnDisk' \in 0..(BufferBytes + kFramePayloadBytes)
         /\ is_open /\ good => data_bytes_ - DataOnDisk' \in 0..BufferBytes
         /\ ~(is_open /\ good) => disk' = disk
<1>1. /\ disk \in Nat /\ buffered \in 0..BufferBytes /\ BufferBytes \in Nat
      /\ HeaderBytes \in Nat /\ kFramePayloadBytes \in Nat /\ data_bytes_ \in Nat
      /\ disk' \in Nat /\ disk <= disk' /\ disk' <= disk + buffered
  BY SizesAssumption DEF RecorderInv, WriterTypeOK
<1>2. CASE is_open /\ good
  <2>1. disk + buffered = HeaderBytes + data_bytes_
    BY <1>2 DEF RecorderInv
  <2>2. CASE disk' < HeaderBytes
    <3>1. DataOnDisk' = 0
      BY <2>2 DEF DataOnDisk
    <3>2. data_bytes_ \in 0..BufferBytes
      BY <1>1, <2>1, <2>2, Remainder
    <3> QED BY <1>1, <1>2, <3>1, <3>2
  <2>3. CASE ~(disk' < HeaderBytes)
    <3>1. DataOnDisk' = disk' - HeaderBytes
      BY <2>3 DEF DataOnDisk
    <3>2. buffered \in Nat /\ buffered <= BufferBytes
      BY <1>1
    <3>3. data_bytes_ - (disk' - HeaderBytes) \in 0..BufferBytes
      BY <1>1, <2>1, <3>2, Remainder
    <3>4. data_bytes_ - DataOnDisk' \in 0..BufferBytes
      BY <3>1, <3>3
    <3> QED BY <1>1, <1>2, <3>4
  <2> QED BY <2>2, <2>3
<1>3. CASE ~(is_open /\ good)
  <2>1. disk' = disk
    BY <1>1, <1>3 DEF RecorderInv
  <2> QED BY <1>1, <1>3, <2>1 DEF RecorderInv, DataOnDisk
<1> QED BY <1>2, <1>3

LEMMA WriteFrameFailsKeeps == ASSUME RecorderInv, WriteFrameFails PROVE RecorderInv'
<1>1. /\ disk' \in Nat
      /\ is_open /\ good => data_bytes_ - DataOnDisk' \in 0..BufferBytes
      /\ ~(is_open /\ good) => disk' = disk
  BY BufferAbandoned DEF WriteFrameFails
<1>2. /\ data_bytes_' = data_bytes_ + kFramePayloadBytes
      /\ data_bytes_' = recorded_frames_' * kFramePayloadBytes
      /\ data_bytes_' \in Nat /\ recorded_frames_' \in Nat
  BY CountBytes DEF WriteFrameFails
<1>3. good /\ good' = FALSE /\ buffered' = 0 /\ is_open' = is_open /\ header' = header
  BY DEF WriteFrameFails
<1>4. WriterTypeOK'
  BY <1>1, <1>2, <1>3, RecorderTyped DEF RecorderInv, WriterTypeOK
<1>5. data_bytes_' - DataOnDisk' \in 0..(BufferBytes + kFramePayloadBytes)
  <2>1. data_bytes_ \in Nat /\ BufferBytes \in Nat /\ kFramePayloadBytes \in Nat
    BY SizesAssumption DEF RecorderInv, WriterTypeOK
  <2>2. CASE is_open
    <3>1. data_bytes_ - DataOnDisk' \in 0..BufferBytes
      BY <1>1, <1>3, <2>2
    <3>2. DataOnDisk' \in Int
      BY <1>1, SizesAssumption DEF DataOnDisk
    <3> QED BY <1>2, <2>1, <3>1, <3>2, Shortfall
  <2>3. CASE ~is_open
    <3>1. DataOnDisk' = data_bytes_
      BY <1>1, <1>3, <2>3 DEF RecorderInv, DataOnDisk
    <3> QED BY <1>2, <2>1, <3>1
  <2> QED BY <2>2, <2>3
<1>6. ~is_open => DataOnDisk' = DataOnDisk
  BY <1>1 DEF DataOnDisk
<1> QED BY <1>2, <1>3, <1>4, <1>5, <1>6 DEF RecorderInv

LEMMA CloseFileKeeps == ASSUME RecorderInv, CloseFile PROVE RecorderInv'
<1>1. /\ disk' = HeaderBytes + data_bytes_ /\ buffered' = 0 /\ header' = Header(data_bytes_)
      /\ ~is_open' /\ good' /\ UNCHANGED counters
  BY DEF CloseFile, RecorderInv
<1>2. DataOnDisk' = data_bytes_ /\ data_bytes_ \in Nat /\ disk' \in Nat
  BY <1>1, SizesAssumption DEF RecorderInv, WriterTypeOK, DataOnDisk
<1>3. WriterTypeOK'
  BY <1>1, <1>2, RecorderTyped DEF RecorderInv, WriterTypeOK, counters, CloseFile
<1> QED BY <1>1, <1>2, <1>3, SizesAssumption DEF RecorderInv, counters

LEMMA AbandonKeeps == ASSUME RecorderInv, CloseFails \/ DestroyWriter PROVE RecorderInv'
<1>1. /\ disk' \in disk..(disk + buffered) /\ buffered' = 0
      /\ is_open' = FALSE /\ good' = FALSE /\ UNCHANGED <<header, counters>>
  BY DEF CloseFails, DestroyWriter
<1>2. /\ disk' \in Nat
      /\ data_bytes_ - DataOnDisk' \in 0..(BufferBytes + kFramePayloadBytes)
      /\ ~(is_open /\ good) => disk' = disk
  BY <1>1, BufferAbandoned
<1>3. WriterTypeOK'
  BY <1>1, <1>2, RecorderTyped DEF RecorderInv, WriterTypeOK, counters
<1>4. header' = Header(0) \/ header' = Header(DataOnDisk')
  <2>1. CASE is_open
    BY <1>1, <2>1 DEF RecorderInv
  <2>2. CASE ~is_open
    <3>1. DataOnDisk' = DataOnDisk /\ header' = header
      BY <1>1, <1>2, <2>2 DEF DataOnDisk
    <3> QED BY <3>1, Zenon DEF RecorderInv
  <2> QED BY <2>1, <2>2
<1> QED BY <1>1, <1>2, <1>3, <1>4 DEF RecorderInv, counters

LEMMA RecorderInvariance == WriterSpec => []RecorderInv
<1>1. ASSUME RecorderInv, [WriterNext]_writerVars PROVE RecorderInv'
  <2>1. CASE UNCHANGED writerVars
    <3>1. UNCHANGED <<is_open, good, disk, buffered, header, data_bytes_, recorded_frames_>>
      BY <2>1 DEF writerVars, output_, file, counters
    <3>2. DataOnDisk' = DataOnDisk /\ WriterTypeOK'
      BY <1>1, <3>1 DEF DataOnDisk, RecorderInv, WriterTypeOK
    <3> QED BY <1>1, <3>1, <3>2 DEF RecorderInv
  <2> QED BY <1>1, <2>1, OpenKeeps, OpenFailsKeeps, WriteFrameKeeps, WriteFrameFailsKeeps,
             CloseFileKeeps, AbandonKeeps DEF WriterNext
<1> QED BY <1>1, RecorderInit, PTL DEF WriterSpec

(* Whichever call fails, the header never promises more than the file       *)
(* holds, a recording is patched to its length or left at 0, and what main *)
(* prints is at most a buffer and a frame ahead of the file.               *)
THEOREM HonestRecording == WriterSpec => []RecordingIsHonest
<1>1. RecorderInv => RecordingIsHonest
  <2> SUFFICES ASSUME RecorderInv PROVE RecordingIsHonest
    OBVIOUS
  <2>1. disk \in Nat /\ HeaderBytes \in Nat /\ DataOnDisk \in Nat
    BY SizesAssumption DEF RecorderInv, WriterTypeOK, DataOnDisk
  <2>2. PICK n \in {0, DataOnDisk} :
           header = Header(n) /\ (n = 0 \/ (~is_open /\ n = DataOnDisk))
    BY DEF RecorderInv
  <2>3. /\ n \in Nat /\ n <= DataOnDisk
        /\ header.data = ClampedDataBytes(n) /\ header.data \in 0..n
        /\ \/ header.riff = RiffBytes + header.data
           \/ header.data >= Word - RiffBytes
    BY <2>1, <2>2, HeaderFacts
  <2>4. HeaderNeverOverclaims /\ LengthsAgree
    BY <2>1, <2>3 DEF HeaderNeverOverclaims, LengthsAgree
  <2>5. PatchedOrEmpty
    BY <2>2, <2>3 DEF RecorderInv, PatchedOrEmpty
  <2>6. WriterTypeOK /\ CountersNearFile
    BY DEF RecorderInv, CountersNearFile
  <2> QED BY <2>4, <2>5, <2>6 DEF RecordingIsHonest
<1> QED BY <1>1, RecorderInvariance, PTL
-----------------------------------------------------------------------------
(* AudioFileLoad: loading a file, for every length of file and limit.       *)

(* Nothing is reported before the end; up to the probe a decoder that has   *)
(* not failed has delivered all of the file or all that is accepted.       *)
LoadInv ==
    /\ LoadTypeOK
    /\ load_phase # "done" => ~load_error /\ ~truncated
    /\ load_phase = "opening" => loaded = 0
    /\ load_phase \in {"opening", "reading"} => broken = "no"
    /\ load_phase # "done" => loaded <= file_samples
    /\ load_phase = "probing" /\ broken = "no" =>
          loaded = file_samples \/ loaded = MaxInputSamples
    /\ load_phase = "probing" => broken \in {"no", "empty"}
    /\ load_phase = "done" =>
          \/ load_error /\ loaded = 0
          \/ /\ loaded > 0 /\ loaded <= file_samples
             /\ broken # "empty" => loaded = file_samples \/ loaded = MaxInputSamples
             /\ broken = "no" => (truncated <=> file_samples > loaded)
             /\ truncated => file_samples > loaded

LEMMA ReadKeeps == ASSUME LoadInv, Read PROVE LoadInv'
<1>1. /\ file_samples \in Nat /\ loaded \in Nat /\ MaxInputSamples \in Nat
      /\ ReadBufferFrames \in Nat
      /\ load_phase = "reading" /\ broken = "no" /\ ~load_error /\ ~truncated
      /\ loaded < MaxInputSamples /\ loaded <= file_samples
  BY LimitsAssumption DEF LoadInv, LoadTypeOK, Read
<1>2. PICK frames_read \in 0..Min({FramesToRead, file_samples - loaded}), at_end \in BOOLEAN :
          /\ at_end => loaded + frames_read = file_samples
          /\ loaded' = loaded + frames_read
          /\ load_phase' = IF at_end THEN "probing" ELSE "reading"
  BY DEF Read
<1>3. FramesToRead \in Int /\ FramesToRead <= MaxInputSamples - loaded
  BY <1>1, MinOfTwo DEF FramesToRead
<1>4. /\ Min({FramesToRead, file_samples - loaded}) <= MaxInputSamples - loaded
      /\ Min({FramesToRead, file_samples - loaded}) <= file_samples - loaded
      /\ Min({FramesToRead, file_samples - loaded}) \in Int
  BY <1>1, <1>3, MinOfTwo
<1>5. loaded' \in 0..MaxInputSamples /\ loaded' <= file_samples
  BY <1>1, <1>2, <1>4
<1>6. UNCHANGED <<file_samples, load_error, truncated, broken>>
  BY DEF Read
<1> QED BY <1>1, <1>2, <1>5, <1>6 DEF LoadInv, LoadTypeOK

LEMMA LoadInvariance == LoadSpec => []LoadInv
<1>1. ASSUME LoadInit PROVE LoadInv
  <2>1. /\ load_phase = "opening" /\ loaded = 0 /\ broken = "no"
        /\ ~load_error /\ ~truncated
        /\ load_error \in BOOLEAN /\ truncated \in BOOLEAN
    BY <1>1 DEF LoadInit
  <2>2. file_samples \in Nat /\ MaxInputSamples \in Nat
    BY <1>1, LimitsAssumption DEF LoadInit
  <2> QED BY <2>1, <2>2 DEF LoadInv, LoadTypeOK
<1>2. ASSUME LoadInv, [LoadNext]_loadVars PROVE LoadInv'
  <2> USE LimitsAssumption DEF LoadInv, LoadTypeOK
  <2>1. CASE DecoderFails
    BY <1>2, <2>1 DEF DecoderFails
  <2>2. CASE DecoderOpens
    BY <1>2, <2>2 DEF DecoderOpens
  <2>3. CASE Read
    BY <1>2, <2>3, ReadKeeps
  <2>4. CASE ReadFails
    <3>1. /\ load_phase = "reading" /\ ~truncated /\ ~load_error
          /\ truncated' = truncated /\ file_samples' = file_samples
          /\ loaded <= file_samples /\ loaded \in 0..MaxInputSamples
      BY <1>2, <2>4 DEF ReadFails
    <3>2. \/ /\ broken' = "empty" /\ load_phase' = "probing"
             /\ loaded' = loaded /\ load_error' = load_error
          \/ broken' = "partial" /\ load_phase' = "done" /\ load_error' = TRUE /\ loaded' = 0
      BY <2>4 DEF ReadFails
    <3>3. load_error' \in BOOLEAN /\ truncated' \in BOOLEAN
      BY <1>2, <3>1, <3>2
    <3>4. CASE broken' = "empty"
      BY <1>2, <3>1, <3>2, <3>3, <3>4
    <3>5. CASE broken' = "partial"
      <4>1. load_error' /\ loaded' = 0 /\ load_phase' = "done"
        BY <3>2, <3>5
      <4> QED BY <1>2, <3>1, <3>3, <3>5, <4>1
    <3> QED BY <3>2, <3>4, <3>5
  <2>5. CASE LoopEnds
    BY <1>2, <2>5 DEF LoopEnds
  <2>6. CASE ProbeOneMore
    <3>1. /\ load_phase = "probing" /\ load_phase' = "done"
          /\ UNCHANGED <<file_samples, loaded>>
          /\ file_samples \in Nat /\ loaded \in 0..MaxInputSamples
          /\ loaded <= file_samples /\ broken \in {"no", "empty"}
          /\ (broken = "no" => loaded = file_samples \/ loaded = MaxInputSamples)
      BY <1>2, <2>6 DEF ProbeOneMore
    <3>2. load_error' \in BOOLEAN /\ (load_error' <=> loaded = 0)
      BY <2>6, Zenon DEF ProbeOneMore
    <3>3. CASE truncated' = Longer /\ UNCHANGED broken
      <4>1. truncated' \in BOOLEAN /\ (truncated' <=> file_samples > loaded)
        <5>1. Longer \in BOOLEAN /\ (Longer <=> file_samples > loaded)
          BY <3>1 DEF Longer
        <5> QED BY <3>3, <5>1, Zenon
      <4> QED BY <3>1, <3>2, <3>3, <4>1
    <3>4. CASE truncated' = FALSE /\ broken' = IF broken = "no" THEN "probe" ELSE broken
      <4>1. broken' \in {"probe", "empty"} /\ (broken' = "empty" <=> broken = "empty")
        BY <3>1, <3>4
      <4>2. ~truncated' /\ truncated' \in BOOLEAN
        BY <3>4
      <4>3. LoadTypeOK'
        BY <3>1, <3>2, <4>1, <4>2
      <4>4. loaded > 0 => ~load_error'
        BY <3>1, <3>2
      <4> QED BY <3>1, <3>2, <4>1, <4>2, <4>3, <4>4
    <3> QED BY <2>6, <3>3, <3>4 DEF ProbeOneMore
  <2>7. CASE UNCHANGED loadVars
    BY <1>2, <2>7 DEF loadVars
  <2> QED BY <1>2, <2>1, <2>2, <2>3, <2>4, <2>5, <2>6, <2>7 DEF LoadNext
<1> QED BY <1>1, <1>2, PTL DEF LoadSpec

(* What is loaded is the whole file or as much of it as the Lab accepts,    *)
(* announced as trimmed exactly if more was left, unless a read failed     *)
(* without returning anything, the probe included; and an error loads      *)
(* nothing.                                                                *)
THEOREM LoadsWholeOrTrimmed == LoadSpec => []WholeOrTrimmed
<1>1. LoadInv => WholeOrTrimmed
  <2> SUFFICES ASSUME LoadInv PROVE WholeOrTrimmed
    OBVIOUS
  <2>1. file_samples \in Nat /\ MaxInputSamples \in Nat /\ loaded \in 0..MaxInputSamples
    BY LimitsAssumption DEF LoadInv, LoadTypeOK
  <2>2. ASSUME loaded <= file_samples, loaded = file_samples \/ loaded = MaxInputSamples
        PROVE  loaded = Min({file_samples, MaxInputSamples})
    BY <2>1, <2>2, MinOfTwo
  <2> QED BY <2>2 DEF LoadInv, WholeOrTrimmed
<1> QED BY <1>1, LoadInvariance, PTL
-----------------------------------------------------------------------------
(* AdaptiveController: the depth is justified, for any limits and gaps.      *)

LEMMA MaxIs ==
  ASSUME NEW S \in SUBSET Int, NEW m \in S, \A y \in S : m >= y
  PROVE  Max(S) = m
<1>1. \A x \in S : (\A y \in S : x >= y) => x = m
  OBVIOUS
<1> QED BY <1>1 DEF Max

LEMMA MaxOfTwo ==
  ASSUME NEW a \in Int, NEW b \in Int
  PROVE  Max({a, b}) = IF a >= b THEN a ELSE b
<1> DEFINE m == IF a >= b THEN a ELSE b
<1>1. {a, b} \in SUBSET Int /\ m \in {a, b} /\ \A y \in {a, b} : m >= y
  OBVIOUS
<1> HIDE DEF m
<1>2. Max({a, b}) = m
  BY <1>1, MaxIs
<1> QED BY <1>2 DEF m

(* Products of naturals, for steps with more of them than one. *)
LEMMA Scaled ==
  ASSUME NEW a \in Nat, NEW b \in Nat, NEW k \in Nat, a <= b
  PROVE  a * k \in Nat /\ a * k <= b * k /\ k * a <= k * b
<1>1. b = a + (b - a) /\ b - a \in Nat
  OBVIOUS
<1>2. b * k = a * k + (b - a) * k /\ (b - a) * k \in Nat
  BY <1>1
<1> QED BY <1>2

LEMMA ScaledStrictly ==
  ASSUME NEW a \in Nat, NEW b \in Nat, NEW k \in Nat, k > 0, a * k < b * k
  PROVE  a < b
<1>1. SUFFICES ASSUME b <= a PROVE FALSE
  OBVIOUS
<1>2. b * k <= a * k
  BY <1>1, Scaled
<1> QED BY <1>2

(* Ceil is the least multiple that covers. *)
LEMMA CeilIs ==
  ASSUME NEW a \in Nat, NEW b \in Nat, b > 0
  PROVE  Ceil(a, b) \in Nat /\ a <= Ceil(a, b) * b /\ Ceil(a, b) * b < a + b
<1> DEFINE n == a + b - 1
           q == n \div b
           r == n % b
<1>1. n = b * q + r /\ q \in Nat /\ r \in 0..(b - 1) /\ n = a + b - 1 /\ Ceil(a, b) = q
  BY DEF Ceil
<1> HIDE DEF n, q, r
<1>2. q * b = a + b - 1 - r
  BY <1>1
<1> QED BY <1>1, <1>2

LEMMA CeilLeast ==
  ASSUME NEW a \in Nat, NEW b \in Nat, b > 0, NEW k \in Nat, a <= k * b
  PROVE  Ceil(a, b) <= k
<1> DEFINE c == Ceil(a, b)
<1>1. c \in Nat /\ c * b < a + b
  BY CeilIs
<1> HIDE DEF c
<1>2. SUFFICES ASSUME k + 1 <= c PROVE FALSE
  BY <1>1 DEF c
<1>3. (k + 1) * b <= c * b
  BY <1>1, <1>2, Scaled
<1>4. (k + 1) * b = k * b + b
  OBVIOUS
<1> QED BY <1>1, <1>3, <1>4

(* The deviation accounted for is less than B when there is any, as rounding *)
(* may add a frame to it.                                                    *)
Accounts(B, gap, spread, over) ==
    /\ 2 * spread <= B * over /\ gap - NominalMs <= B
    /\ spread > 0 => 2 * spread < B * over

LEMMA BudgetIs ==
  ASSUME NEW gap \in Nat, NEW spread \in Nat, NEW over \in Nat, over > 0
  PROVE  LET budget == Max({2 * spread, LateGap(gap) * over})
         IN  /\ budget \in Nat
             /\ budget = 0 <=> spread = 0 /\ gap <= NominalMs
             /\ \A B \in Nat : Accounts(B, gap, spread, over) => budget <= B * over
             /\ budget = 2 * spread \/ budget = LateGap(gap) * over
<1> DEFINE late == LateGap(gap)
           scaled == late * over
           budget == Max({2 * spread, scaled})
<1>1. NominalMs \in Nat /\ NominalMs > 0
  BY GapAssumption
<1>2. late = IF gap > NominalMs THEN gap - NominalMs ELSE 0
  BY <1>1, MaxOfTwo DEF LateGap
<1>3. late \in Nat
  BY <1>1, <1>2
<1>4. scaled \in Nat /\ (scaled = 0 <=> late = 0)
  BY <1>3
<1>5. budget = IF 2 * spread >= scaled THEN 2 * spread ELSE scaled
  BY <1>4, MaxOfTwo
<1> HIDE DEF late, budget
<1>6. ASSUME NEW B \in Nat, Accounts(B, gap, spread, over) PROVE budget <= B * over
  <2>1. late <= B
    BY <1>1, <1>2, <1>6 DEF Accounts
  <2>2. scaled <= B * over
    BY <1>3, <2>1, Scaled
  <2> QED BY <1>5, <1>6, <2>2 DEF Accounts
<1>7. budget \in Nat /\ (budget = 0 <=> spread = 0 /\ gap <= NominalMs)
  <2> HIDE DEF scaled
  <2> QED BY <1>1, <1>2, <1>4, <1>5
<1> QED BY <1>5, <1>6, <1>7 DEF budget, late

LEMMA ExtraIs ==
  ASSUME NEW gap \in Nat, NEW spread \in Nat, NEW over \in Nat, over > 0,
         NEW extra \in ExtraDepths(gap, spread, over)
  PROVE  /\ extra \in Nat
         /\ extra = 0 <=> spread = 0 /\ gap <= NominalMs
         /\ \A B \in Nat : Accounts(B, gap, spread, over) => extra <= Ceil(B, NominalMs)
<1> DEFINE budget == Max({2 * spread, LateGap(gap) * over})
           frame == NominalMs * over
           mayRoundUp == 2 * spread = budget /\ budget > 0 /\ budget % frame = 0 /\ over > 1
           q == Ceil(budget, frame)
<1>1. /\ budget \in Nat
      /\ budget = 0 <=> spread = 0 /\ gap <= NominalMs
      /\ \A B \in Nat : Accounts(B, gap, spread, over) => budget <= B * over
  BY BudgetIs
<1>2. NominalMs \in Nat /\ NominalMs > 0 /\ frame \in Nat /\ frame > 0
  BY GapAssumption
<1>3. extra = q \/ (mayRoundUp /\ extra = q + 1)
  BY DEF ExtraDepths
<1> HIDE DEF budget
<1>4. q \in Nat /\ budget <= q * frame /\ q * frame < budget + frame
  <2> HIDE DEF frame
  <2> QED BY <1>1, <1>2, CeilIs
<1>5. q = 0 <=> budget = 0
  <2> HIDE DEF q, frame
  <2>1. q = 0 => budget = 0
    BY <1>1, <1>2, <1>4
  <2>2. ASSUME budget = 0, q >= 1 PROVE FALSE
    <3>1. frame <= q * frame
      BY <1>2, <1>4, <2>2, Scaled
    <3> QED BY <1>2, <1>4, <2>2, <3>1
  <2> QED BY <1>4, <2>1, <2>2
<1>6. extra \in Nat /\ (extra = 0 <=> spread = 0 /\ gap <= NominalMs)
  <2> HIDE DEF q
  <2> QED BY <1>1, <1>3, <1>4, <1>5
<1>7. ASSUME NEW B \in Nat, Accounts(B, gap, spread, over) PROVE extra <= Ceil(B, NominalMs)
  <2> DEFINE c == Ceil(B, NominalMs)
  <2>1. c \in Nat /\ B <= c * NominalMs
    BY <1>2, CeilIs
  <2> HIDE DEF c
  <2>2. B * over <= (c * NominalMs) * over
    <3>1. c * NominalMs \in Nat
      BY <1>2, <2>1
    <3> QED BY <2>1, <3>1, Scaled
  <2>3. (c * NominalMs) * over = c * frame
    BY <1>2, <2>1
  <2>4. budget <= c * frame
    <3>1. budget <= B * over
      BY <1>1, <1>7
    <3>2. B * over \in Int /\ c * frame \in Int
      BY <1>2, <2>1
    <3> HIDE DEF frame
    <3> QED BY <1>1, <2>2, <2>3, <3>1, <3>2
  <2>5. q <= c
    <3> HIDE DEF frame
    <3> QED BY <1>1, <1>2, <2>1, <2>4, CeilLeast
  <2>6. ASSUME mayRoundUp PROVE q + 1 <= c
    <3>1. budget < c * frame
      BY <1>1, <1>2, <1>7, <2>1, <2>2, <2>3, <2>6 DEF Accounts
    <3> HIDE DEF q, frame
    <3>2. SUFFICES ASSUME q = c PROVE FALSE
      BY <1>4, <2>1, <2>5
    <3>3. budget = q * frame
      <4> DEFINE m == budget \div frame
      <4>1. budget = frame * m /\ m \in Nat
        BY <1>1, <1>2, <2>6
      <4> HIDE DEF m
      <4>2. budget <= m * frame
        BY <1>2, <4>1
      <4>3. Ceil(budget, frame) <= m
        BY <1>1, <1>2, <4>1, <4>2, CeilLeast
      <4>4. q * frame <= m * frame
        BY <1>2, <1>4, <4>1, <4>3, Scaled DEF q
      <4> QED BY <1>1, <1>2, <1>4, <4>1, <4>4
    <3> QED BY <3>1, <3>2, <3>3
  <2> QED BY <1>3, <2>5, <2>6 DEF c
<1> QED BY <1>6, <1>7

(* n frames are enough for a gap and a deviation of spread / over. *)
Needed(n, gap, spread, over) ==
    n * NominalMs >= gap - NominalMs /\ n * NominalMs * over >= 2 * spread

(* No fewer frames are enough, but for one that only rounding adds.          *)
NoneToSpare(extra, gap, spread, over) ==
    \A n \in Nat : n < extra =>
        \/ ~Needed(n, gap, spread, over)
        \/ n = extra - 1 /\ n * NominalMs * over = 2 * spread

LEMMA ExtraCovers ==
  ASSUME NEW gap \in Nat, NEW spread \in Nat, NEW over \in Nat, over > 0,
         NEW extra \in ExtraDepths(gap, spread, over)
  PROVE  Needed(extra, gap, spread, over) /\ NoneToSpare(extra, gap, spread, over)
<1> DEFINE late == LateGap(gap)
           scaled == late * over
           budget == Max({2 * spread, scaled})
           frame == NominalMs * over
           mayRoundUp == 2 * spread = budget /\ budget > 0 /\ budget % frame = 0 /\ over > 1
           q == Ceil(budget, frame)
<1>1. NominalMs \in Nat /\ NominalMs > 0 /\ frame \in Nat /\ frame > 0
  BY GapAssumption
<1>2. late = (IF gap > NominalMs THEN gap - NominalMs ELSE 0) /\ late \in Nat
  BY <1>1, MaxOfTwo DEF LateGap
<1>3. scaled \in Nat
  BY <1>2
<1>4. budget = (IF 2 * spread >= scaled THEN 2 * spread ELSE scaled)
  BY <1>3, MaxOfTwo
<1>5. extra = q \/ (mayRoundUp /\ extra = q + 1)
  BY DEF ExtraDepths
<1> HIDE DEF late, budget
<1>6. /\ budget \in Nat /\ budget >= 2 * spread /\ budget >= scaled
      /\ budget = 2 * spread \/ budget = scaled
  <2> HIDE DEF scaled
  <2> QED BY <1>3, <1>4
<1>7. q \in Nat /\ budget <= q * frame /\ q * frame < budget + frame
  <2> HIDE DEF frame
  <2> QED BY <1>1, <1>6, CeilIs
<1>8. mayRoundUp => q * frame = budget
  <2> SUFFICES ASSUME mayRoundUp PROVE q * frame = budget
    OBVIOUS
  <2> DEFINE m == budget \div frame
  <2> HIDE DEF frame
  <2>1. budget = frame * m /\ m \in Nat
    BY <1>1, <1>6
  <2> HIDE DEF m
  <2>2. budget <= m * frame
    BY <1>1, <2>1
  <2>3. q <= m
    BY <1>1, <1>6, <2>1, <2>2, CeilLeast
  <2> HIDE DEF q
  <2>4. q * frame <= m * frame
    BY <1>1, <1>7, <2>1, <2>3, Scaled
  <2> QED BY <1>1, <1>6, <1>7, <2>1, <2>4
<1> HIDE DEF q, mayRoundUp
<1>9. extra \in Nat /\ q <= extra
  BY <1>5, <1>7
<1>10. ASSUME NEW n \in Nat
       PROVE  n * NominalMs * over = n * frame /\ n * frame \in Nat /\ n * NominalMs \in Nat
  BY <1>1
<1>11. Needed(extra, gap, spread, over)
  <2>1. q * frame <= extra * frame
    <3> HIDE DEF frame
    <3> QED BY <1>1, <1>7, <1>9, Scaled
  <2>2. budget <= extra * NominalMs * over
    <3>1. extra * NominalMs * over = extra * frame /\ extra * frame \in Nat
      BY <1>9, <1>10
    <3>2. q * frame \in Nat
      BY <1>7, <1>10
    <3> HIDE DEF frame
    <3> QED BY <1>6, <1>7, <2>1, <3>1, <3>2
  <2>3. extra * NominalMs \in Nat /\ extra * NominalMs * over \in Nat
    BY <1>1, <1>9
  <2>4. extra * NominalMs * over >= 2 * spread
    <3> HIDE DEF scaled
    <3> QED BY <1>6, <2>2, <2>3
  <2>5. late <= extra * NominalMs
    <3> DEFINE most == extra * NominalMs
    <3>1. SUFFICES ASSUME most + 1 <= late PROVE FALSE
      BY <1>2, <2>3
    <3>2. most \in Nat /\ most * over >= late * over
      <4>1. budget \in Nat /\ scaled \in Nat /\ scaled <= budget
        BY <1>3, <1>6
      <4>2. budget <= most * over /\ most * over \in Nat
        BY <2>2, <2>3
      <4>3. scaled <= most * over
        <5> HIDE DEF scaled, most
        <5> QED BY <4>1, <4>2
      <4> QED BY <2>3, <4>3
    <3> HIDE DEF most
    <3>3. (most + 1) * over <= late * over
      BY <1>2, <3>1, <3>2, Scaled
    <3>4. (most + 1) * over = most * over + over
      BY <3>2
    <3>5. most * over \in Nat /\ late * over \in Nat
      BY <1>2, <3>2
    <3> QED BY <3>2, <3>3, <3>4, <3>5
  <2> QED BY <1>1, <1>2, <2>3, <2>4, <2>5 DEF Needed
<1>12. ASSUME NEW n \in Nat, n < extra
       PROVE  ~Needed(n, gap, spread, over) \/ (n = extra - 1 /\ n * NominalMs * over = 2 * spread)
  <2>1. ASSUME n * frame < budget PROVE ~Needed(n, gap, spread, over)
    <3>1. CASE budget = 2 * spread
      <4>1. n * NominalMs * over < 2 * spread
        BY <1>10, <2>1, <3>1
      <4> QED BY <1>10, <4>1 DEF Needed
    <3>2. CASE budget = scaled
      <4> DEFINE most == n * NominalMs
      <4>1. most \in Nat /\ most * over < late * over
        BY <1>10, <2>1, <3>2
      <4> HIDE DEF most
      <4>2. most < late
        BY <1>2, <4>1, ScaledStrictly
      <4>3. gap - NominalMs > most
        BY <1>1, <1>2, <4>1, <4>2
      <4> QED BY <1>1, <4>1, <4>3 DEF Needed, most
    <3> QED BY <1>6, <3>1, <3>2
  <2>2. CASE n < q
    <3>1. n + 1 <= q
      BY <1>7, <2>2
    <3>2. (n + 1) * frame <= q * frame
      <4> HIDE DEF frame
      <4> QED BY <1>1, <1>7, <3>1, Scaled
    <3>3. (n + 1) * frame = n * frame + frame
      <4> HIDE DEF frame
      <4> QED BY <1>1
    <3>4. n * frame \in Nat /\ q * frame \in Nat
      BY <1>7, <1>10
    <3>5. n * frame < budget
      <4> HIDE DEF frame
      <4> QED BY <1>1, <1>6, <1>7, <3>2, <3>3, <3>4
    <3> QED BY <2>1, <3>5
  <2>3. CASE n >= q
    <3>1. mayRoundUp /\ n = q /\ extra = q + 1
      BY <1>5, <1>7, <1>12, <2>3
    <3>2. n * frame = budget /\ budget = 2 * spread
      BY <1>8, <3>1 DEF mayRoundUp
    <3> QED BY <1>7, <1>10, <3>1, <3>2
  <2> QED BY <1>7, <2>2, <2>3
<1> QED BY <1>11, <1>12 DEF NoneToSpare

(* What EstimateInside says, and how the deviation knows unequal gaps; the   *)
(* strictness is what leaves room for a frame added in rounding.             *)
Estimates(low, high, centre, spread, over) ==
    /\ low <= high
    /\ low * over <= centre /\ centre <= high * over
    /\ spread <= (high - low) * over
    /\ spread > 0 <=> low < high
    /\ spread > 0 => spread < (high - low) * over

(* A deviation of spread / over is in proportion to how far gap stands out.   *)
Heeds(gap, centre, spread, over) == 23 * spread >= 2 * Distance(gap * over, centre)

DepthInv ==
    /\ DepthTypeOK /\ shortest \in Nat /\ longest \in Nat /\ latest \in Nat
    /\ observations = 0 =>
          deviation = 0 /\ denominator = 1 /\ target_depth_frames = MinDepth /\ deepest = MinDepth
          /\ shortest = 0 /\ longest = 0
    /\ observations > 0 => /\ Estimates(shortest, longest, mean, deviation, denominator)
                           /\ Heeds(latest, mean, deviation, denominator)
    /\ DepthCovers /\ DepthIsExplained /\ NeverBackToMinimum /\ SteadyStaysShallow

Least(a, b) == IF a <= b THEN a ELSE b
Greatest(a, b) == IF a >= b THEN a ELSE b

(* One more gap widens the range at most, and the estimates stay inside.     *)
LEMMA EstimatesFollow ==
  ASSUME NEW low \in Nat, NEW high \in Nat, NEW centre \in Nat, NEW spread \in Nat,
         NEW over \in Nat, over > 0, NEW gap \in Nat,
         Estimates(low, high, centre, spread, over)
  PROVE  Estimates(Least(low, gap), Greatest(high, gap), 23 * centre + 2 * gap * over,
                   23 * spread + 2 * Distance(gap * over, centre), 25 * over)
<1> DEFINE lo == Least(low, gap)
           hi == Greatest(high, gap)
           far == Distance(gap * over, centre)
           at == gap * over
           width == hi - lo
<1>1. /\ lo \in Nat /\ hi \in Nat /\ width \in Nat /\ at \in Nat
      /\ lo <= low /\ lo <= gap /\ high <= hi /\ gap <= hi /\ lo <= hi
      /\ high - low \in Nat /\ high - low <= width
      /\ lo < hi <=> low < high \/ gap # low
  BY DEF Estimates, Least, Greatest
<1>2. /\ lo * over \in Nat /\ lo * over <= low * over /\ lo * over <= at
      /\ high * over <= hi * over /\ at <= hi * over
      /\ (high - low) * over <= width * over
  <2> HIDE DEF lo, hi, width
  <2>1. lo * over \in Nat /\ lo * over <= low * over /\ lo * over <= gap * over
    BY <1>1, Scaled
  <2>2. high * over <= hi * over /\ gap * over <= hi * over
    BY <1>1, Scaled
  <2>3. (high - low) * over <= width * over
    BY <1>1, Scaled
  <2> QED BY <2>1, <2>2, <2>3
<1>3. /\ width * over = hi * over - lo * over
      /\ lo * (25 * over) = 25 * (lo * over) /\ hi * (25 * over) = 25 * (hi * over)
      /\ width * (25 * over) = 25 * (width * over)
      /\ 2 * gap * over = 2 * at
  <2> HIDE DEF lo, hi
  <2> QED BY <1>1
<1>4. /\ low * over <= centre /\ centre <= high * over
      /\ spread <= (high - low) * over
      /\ spread > 0 <=> low < high
      /\ spread > 0 => spread < (high - low) * over
      /\ low <= high
  BY DEF Estimates
<1>5. low * over \in Int /\ high * over \in Int /\ hi * over \in Int /\ width * over \in Int
      /\ (high - low) * over \in Int
  <2> HIDE DEF lo, hi
  <2> QED BY <1>1
<1>6. ASSUME low = high PROVE at = centre <=> gap = low
  <2>1. centre = low * over
    BY <1>4, <1>5, <1>6
  <2>2. at - centre = (gap - low) * over
    BY <2>1
  <2> QED BY <2>2
<1>7. far = IF at >= centre THEN at - centre ELSE centre - at
  BY <1>1 DEF Distance
<1> DEFINE a == lo * over
           b == hi * over
           w == width * over
           c == low * over
           d == high * over
           e == (high - low) * over
<1> HIDE DEF lo, hi, far, at, width, a, b, w, c, d, e
<1>8. far \in Nat /\ far <= w
  BY <1>1, <1>2, <1>3, <1>4, <1>5, <1>7 DEF a, b, w, c, d, e
<1>9. (23 * spread + 2 * far > 0) <=> lo < hi
  BY <1>1, <1>4, <1>6, <1>7, <1>8
<1>10. 23 * spread + 2 * far > 0 => 23 * spread + 2 * far < 25 * w
  <2>1. ASSUME lo < hi PROVE spread < w
    <3>1. w > 0
      <4>1. width > 0
        BY <1>1, <2>1 DEF width
      <4> QED BY <1>1, <4>1 DEF w
    <3> QED BY <1>2, <1>4, <1>5, <3>1 DEF w
  <2> QED BY <1>5, <1>8, <1>9, <2>1 DEF w
<1>11. 23 * spread + 2 * far <= 25 * w
  BY <1>2, <1>4, <1>5, <1>8 DEF e, w
<1>12. 25 * a <= 23 * centre + 2 * at /\ 23 * centre + 2 * at <= 25 * b
  BY <1>1, <1>2, <1>4, <1>5 DEF a, b, c, d
<1> QED BY <1>1, <1>3, <1>9, <1>10, <1>11, <1>12
         DEF Estimates, a, b, w, width, lo, hi, far, at

(* The mean goes 2/25 of the way to the gap, and the deviation grows by as    *)
(* much of its distance.                                                     *)
LEMMA HeedsFollows ==
  ASSUME NEW centre \in Nat, NEW spread \in Nat, NEW over \in Nat, NEW gap \in Nat
  PROVE  Heeds(gap, 23 * centre + 2 * gap * over,
               23 * spread + 2 * Distance(gap * over, centre), 25 * over)
<1> DEFINE at == gap * over
           far == Distance(at, centre)
<1>1. at \in Nat /\ gap * (25 * over) = 25 * at /\ 2 * gap * over = 2 * at
  OBVIOUS
<1> HIDE DEF at
<1>2. far \in Nat /\ far = IF at >= centre THEN at - centre ELSE centre - at
  BY <1>1 DEF Distance
<1>3. Distance(25 * at, 23 * centre + 2 * at) = 23 * far
  BY <1>1, <1>2 DEF Distance
<1>4. 23 * (23 * spread + 2 * far) >= 2 * (23 * far)
  <2> HIDE DEF far
  <2> QED BY <1>2
<1> QED BY <1>1, <1>3, <1>4 DEF Heeds, at

LEMMA ClampedIs ==
  ASSUME NEW depth \in Nat
  PROVE  Clamped(depth) = Least(Greatest(depth, MinDepth), MaxDepth)
<1>1. Max({depth, MinDepth}) = Greatest(depth, MinDepth) /\ Greatest(depth, MinDepth) \in Int
  BY DepthAssumption, MaxOfTwo DEF Greatest
<1> QED BY <1>1, DepthAssumption, MinOfTwo DEF Clamped, Least

(* What the gaps account for, in frames of the nominal length.               *)
Accounted(low, high) == Max({0, 2 * (high - low), high - NominalMs})

LEMMA AccountedIs ==
  ASSUME NEW low \in Nat, NEW high \in Nat, low <= high
  PROVE  /\ Accounted(low, high) \in Nat
         /\ Accounted(low, high) >= 2 * (high - low)
         /\ Accounted(low, high) >= high - NominalMs
<1> DEFINE a == 2 * (high - low)
           b == high - NominalMs
           m == IF a >= b THEN a ELSE b
<1>1. a \in Nat /\ b \in Int /\ m \in Nat /\ m >= a /\ m >= b
  BY GapAssumption
<1>2. {0, a, b} \in SUBSET Int /\ m \in {0, a, b} /\ \A y \in {0, a, b} : m >= y
  BY <1>1
<1> HIDE DEF a, b, m
<1>3. Max({0, a, b}) = m
  BY <1>2, MaxIs
<1> QED BY <1>1, <1>3 DEF Accounted, a, b

LEMMA DepthInitInv == DepthInit => DepthInv
<1> SUFFICES ASSUME DepthInit PROVE DepthInv
  OBVIOUS
<1>1. DepthTypeOK
  BY DepthAssumption, ObservationAssumption DEF DepthInit, DepthTypeOK
<1>2. DepthIsExplained
  <2> DEFINE B == Accounted(shortest, longest)
  <2>1. shortest \in Nat /\ longest \in Nat /\ shortest <= longest
    BY DEF DepthInit
  <2>2. B \in Nat
    BY <2>1, AccountedIs
  <2> HIDE DEF B
  <2>3. Ceil(B, NominalMs) \in Nat
    BY <2>2, GapAssumption, CeilIs
  <2>4. target_depth_frames <= MinDepth + Ceil(B, NominalMs)
    BY <2>3, DepthAssumption DEF DepthInit
  <2> QED BY <2>4 DEF DepthIsExplained, B, Accounted
<1> QED BY <1>1, <1>2, DepthAssumption
         DEF DepthInit, DepthInv, DepthCovers, NeverBackToMinimum, SteadyStaysShallow

LEMMA ObserveKeeps ==
  ASSUME DepthInv, NEW gap \in Gaps, ObserveInterArrival(gap)
  PROVE  DepthInv'
<1>1. gap \in Nat /\ NominalMs \in Nat /\ NominalMs > 0 /\ MaxObservations \in Nat
      /\ MinDepth \in Nat /\ MaxDepth \in Nat /\ MinDepth <= MaxDepth
  BY GapAssumption, DepthAssumption, ObservationAssumption
<1>2. /\ observations \in Nat /\ mean \in Nat /\ deviation \in Nat
      /\ denominator \in Nat /\ denominator > 0
      /\ target_depth_frames \in MinDepth..MaxDepth /\ deepest \in target_depth_frames..MaxDepth
      /\ shortest \in Nat /\ longest \in Nat
  BY <1>1 DEF DepthInv, DepthTypeOK
<1>3. /\ shortest' = IF observations = 0 THEN gap ELSE Least(shortest, gap)
      /\ longest' = Greatest(longest, gap)
  BY <1>1, <1>2, MinOfTwo, MaxOfTwo DEF ObserveInterArrival, Least, Greatest
<1>4. shortest' \in Nat /\ longest' \in Nat /\ observations' = observations + 1
  BY <1>1, <1>2, <1>3 DEF ObserveInterArrival, Least, Greatest
<1>5. /\ denominator' \in Nat /\ denominator' > 0 /\ mean' \in Nat /\ deviation' \in Nat
  <2>1. Distance(gap * denominator, mean) \in Nat
    BY <1>1, <1>2 DEF Distance
  <2>2. gap * denominator \in Nat /\ 2 * gap * denominator \in Nat
    BY <1>1, <1>2
  <2> QED BY <1>1, <1>2, <2>1, <2>2
          DEF ObserveInterArrival, SmoothedMean, SmoothedDeviation
<1>6. Estimates(shortest', longest', mean', deviation', denominator')
  <2>1. CASE observations = 0
    <3>1. /\ shortest' = gap /\ longest' = gap /\ mean' = gap /\ deviation' = 0
          /\ denominator' = 1
      BY <1>1, <1>2, <1>3, <2>1 DEF DepthInv, ObserveInterArrival, Greatest
    <3> QED BY <1>1, <3>1 DEF Estimates
  <2>2. CASE observations > 0
    <3>1. Estimates(shortest, longest, mean, deviation, denominator)
      BY <2>2 DEF DepthInv
    <3>2. /\ mean' = 23 * mean + 2 * gap * denominator
          /\ deviation' = 23 * deviation + 2 * Distance(gap * denominator, mean)
          /\ denominator' = 25 * denominator
          /\ shortest' = Least(shortest, gap)
      BY <1>2, <1>3, <2>2 DEF ObserveInterArrival, SmoothedMean, SmoothedDeviation
    <3>3. Estimates(Least(shortest, gap), Greatest(longest, gap),
                    23 * mean + 2 * gap * denominator,
                    23 * deviation + 2 * Distance(gap * denominator, mean), 25 * denominator)
      BY <1>1, <1>2, <3>1, EstimatesFollow
    <3> QED BY <1>3, <3>2, <3>3, Zenon
  <2> QED BY <1>2, <2>1, <2>2
<1>18. latest' = gap /\ Heeds(latest', mean', deviation', denominator')
  <2>1. latest' = gap
    BY DEF ObserveInterArrival
  <2>2. CASE observations = 0
    <3>1. mean' = gap /\ deviation' = 0 /\ denominator' = 1
      BY <2>2 DEF ObserveInterArrival
    <3>2. gap * 1 = gap /\ Distance(gap, gap) = 0
      BY <1>1 DEF Distance
    <3> QED BY <2>1, <3>1, <3>2 DEF Heeds
  <2>3. CASE observations > 0
    <3>1. /\ mean' = 23 * mean + 2 * gap * denominator
          /\ deviation' = 23 * deviation + 2 * Distance(gap * denominator, mean)
          /\ denominator' = 25 * denominator
      BY <1>2, <2>3 DEF ObserveInterArrival, SmoothedMean, SmoothedDeviation
    <3>2. Heeds(gap, 23 * mean + 2 * gap * denominator,
                23 * deviation + 2 * Distance(gap * denominator, mean), 25 * denominator)
      BY <1>1, <1>2, HeedsFollows
    <3> QED BY <2>1, <3>1, <3>2, Zenon
  <2> QED BY <1>2, <2>1, <2>2, <2>3
<1>7. shortest' <= longest' /\ gap <= longest' /\ shortest' <= gap
  BY <1>1, <1>2, <1>3, <1>6 DEF Estimates, Least, Greatest
<1>8. PICK extra \in ExtraDepths(gap, deviation', denominator') :
         target_depth_frames' = Clamped(MinDepth + extra)
  BY DEF ObserveInterArrival
<1>9. /\ extra \in Nat
      /\ extra = 0 <=> deviation' = 0 /\ gap <= NominalMs
      /\ \A B \in Nat : Accounts(B, gap, deviation', denominator')
                           => extra <= Ceil(B, NominalMs)
  BY <1>1, <1>5, ExtraIs
<1>10. extra = 0 <=> shortest' = longest' /\ gap <= NominalMs
  BY <1>4, <1>5, <1>6, <1>7, <1>9 DEF Estimates
<1>11. /\ target_depth_frames' \in MinDepth..MaxDepth
       /\ target_depth_frames' <= MinDepth + extra
       /\ target_depth_frames' = MinDepth <=> extra = 0 \/ MinDepth = MaxDepth
  <2>1. MinDepth + extra \in Nat
    BY <1>1, <1>9
  <2>2. target_depth_frames' = Least(Greatest(MinDepth + extra, MinDepth), MaxDepth)
    BY <1>8, <2>1, ClampedIs
  <2> QED BY <1>1, <1>9, <2>2 DEF Least, Greatest
<1>19. DepthCovers'
  <2> DEFINE frames == target_depth_frames' - MinDepth
             needed(n) == Needed(n, gap, deviation', denominator')
  <2>1. needed(extra) /\ NoneToSpare(extra, gap, deviation', denominator')
    BY <1>1, <1>5, <1>8, ExtraCovers
  <2>2. frames \in Nat /\ frames <= extra /\ (frames = extra \/ target_depth_frames' = MaxDepth)
    <3>1. MinDepth + extra \in Nat
      BY <1>1, <1>9
    <3>2. target_depth_frames' = Least(Greatest(MinDepth + extra, MinDepth), MaxDepth)
      BY <1>8, <3>1, ClampedIs
    <3> QED BY <1>1, <1>9, <3>2 DEF Least, Greatest
  <2>3. \A n \in Nat : Covers(n)' <=> needed(n)
    BY <1>18 DEF Covers, Needed
  <2> HIDE DEF frames, needed
  <2>4. needed(frames) \/ target_depth_frames' = MaxDepth
    BY <2>1, <2>2
  <2>5. ASSUME frames > 0
        PROVE  \/ ~needed(frames - 1)
               \/ (frames - 1) * NominalMs * denominator' = 2 * deviation'
    <3>1. frames - 1 \in Nat /\ frames - 1 < extra
      BY <1>9, <2>2, <2>5
    <3> QED BY <2>1, <3>1 DEF NoneToSpare, needed
  <2>6. frames > 0 => frames - 1 \in Nat
    BY <2>2
  <2> QED BY <2>2, <2>3, <2>4, <2>5, <2>6 DEF DepthCovers, frames
<1>12. deepest' = Greatest(deepest, target_depth_frames')
  BY <1>2, <1>11, MaxOfTwo DEF ObserveInterArrival, Greatest
<1>13. DepthTypeOK'
  <2>1. observations' \in 0..MaxObservations
    BY <1>1, <1>2 DEF ObserveInterArrival
  <2>2. deepest' \in target_depth_frames'..MaxDepth
    BY <1>1, <1>2, <1>11, <1>12 DEF Greatest
  <2> QED BY <1>5, <1>11, <2>1, <2>2 DEF DepthTypeOK
<1>14. longest' - shortest' \in Nat /\ gap - NominalMs \in Int
       /\ longest' - NominalMs \in Int /\ gap - NominalMs <= longest' - NominalMs
  <2> DEFINE l == longest'
             s == shortest'
  <2>1. gap \in Nat /\ l \in Nat /\ s \in Nat /\ NominalMs \in Nat /\ s <= l /\ gap <= l
    BY <1>1, <1>4, <1>7
  <2> HIDE DEF l, s
  <2>2. l - s \in Nat
    BY <2>1
  <2>3. gap - NominalMs \in Int /\ l - NominalMs \in Int
    BY <2>1
  <2>4. gap - NominalMs <= l - NominalMs
    BY <2>1
  <2> QED BY <2>2, <2>3, <2>4 DEF l, s
<1>15. DepthIsExplained'
  <2> DEFINE B == Accounted(shortest', longest')
             wide == longest' - shortest'
  <2>1. B \in Nat /\ B >= 2 * wide /\ B >= longest' - NominalMs
    BY <1>4, <1>7, AccountedIs
  <2> HIDE DEF B
  <2>2. 2 * (wide * denominator') <= B * denominator'
    <3>0. wide \in Nat
      BY <1>14
    <3>1. 2 * wide \in Nat /\ 2 * wide <= B
      <4> HIDE DEF wide
      <4> QED BY <2>1, <3>0
    <3>2. (2 * wide) * denominator' <= B * denominator'
      <4> HIDE DEF wide
      <4> QED BY <1>5, <2>1, <3>1, Scaled
    <3>3. (2 * wide) * denominator' = 2 * (wide * denominator')
      BY <1>4, <1>5
    <3> QED BY <3>2, <3>3
  <2>3. deviation' <= wide * denominator' /\ (deviation' > 0 => deviation' < wide * denominator')
    BY <1>6 DEF Estimates
  <2>4. wide * denominator' \in Int /\ B * denominator' \in Int
    BY <1>4, <1>5, <2>1
  <2>5. gap - NominalMs <= B
    <3> DEFINE late == gap - NominalMs
               most == longest' - NominalMs
    <3>3. late <= most /\ late \in Int /\ most \in Int /\ B >= most /\ B \in Nat
      BY <1>14, <2>1
    <3> HIDE DEF late, most
    <3>4. late <= B
      BY <3>3
    <3> QED BY <3>4 DEF late
  <2> HIDE DEF wide
  <2>6. Accounts(B, gap, deviation', denominator')
    BY <1>5, <2>2, <2>3, <2>4, <2>5 DEF Accounts
  <2>7. extra <= Ceil(B, NominalMs)
    BY <1>9, <2>1, <2>6
  <2>8. Ceil(B, NominalMs) \in Nat
    BY <1>1, <2>1, CeilIs
  <2>9. target_depth_frames' <= MinDepth + Ceil(B, NominalMs)
    BY <1>1, <1>9, <1>11, <2>7, <2>8
  <2> QED BY <2>9 DEF DepthIsExplained, B, Accounted
<1>16. SteadyStaysShallow'
  <2>1. deepest' = MinDepth <=> deepest = MinDepth /\ target_depth_frames' = MinDepth
    BY <1>1, <1>2, <1>11, <1>12 DEF Greatest
  <2>2. CASE observations = 0
    <3>1. deepest = MinDepth /\ shortest' = gap /\ longest' = gap
      BY <1>1, <1>2, <1>3, <2>2 DEF DepthInv, Greatest
    <3> QED BY <1>10, <1>11, <2>1, <3>1 DEF SteadyStaysShallow
  <2>3. CASE observations > 0
    <3>1. deepest = MinDepth <=> MinDepth = MaxDepth
                                 \/ (shortest = longest /\ longest <= NominalMs)
      BY <2>3 DEF DepthInv, SteadyStaysShallow
    <3>2. shortest <= longest
      BY <2>3 DEF DepthInv, Estimates
    <3>3. shortest' = longest' <=> shortest = longest /\ gap = longest
      BY <1>1, <1>2, <1>3, <2>3, <3>2 DEF Least, Greatest
    <3>4. shortest' = longest' => longest' = longest
      BY <1>1, <1>2, <1>3, <3>3 DEF Greatest
    <3> QED BY <1>1, <1>2, <1>10, <1>11, <2>1, <3>1, <3>3, <3>4 DEF SteadyStaysShallow
  <2> QED BY <1>2, <2>2, <2>3
<1>17. NeverBackToMinimum'
  <2>1. SUFFICES ASSUME deepest' > MinDepth, target_depth_frames' = MinDepth PROVE FALSE
    BY <1>1, <1>11 DEF NeverBackToMinimum
  <2>2. MinDepth # MaxDepth
    BY <1>1, <1>13, <2>1 DEF DepthTypeOK
  <2>3. shortest' = longest' /\ gap <= NominalMs
    BY <1>10, <1>11, <2>1, <2>2
  <2>4. longest' <= NominalMs
    BY <1>1, <1>4, <1>7, <2>3
  <2>5. observations' > 0 /\ MinDepth # deepest'
    BY <1>1, <1>2, <1>4, <1>13, <2>1 DEF DepthTypeOK
  <2> QED BY <1>16, <2>3, <2>4, <2>5 DEF SteadyStaysShallow
<1> QED BY <1>1, <1>2, <1>4, <1>6, <1>13, <1>15, <1>16, <1>17, <1>18, <1>19 DEF DepthInv

(* The depth is what the gaps account for, for any limits, period and gaps:  *)
(* short of its limit it covers the last gap's lateness and twice the       *)
(* deviation, with no frame to spare; the deviation is bounded by the gaps  *)
(* from both sides; it never falls back to the least depth; and steady gaps *)
(* do not raise it (observe_inter_arrival, with its factor of 0.08).         *)
THEOREM DepthJustified == DepthSpec => []DepthIsJustified
<1>1. DepthInit => DepthInv
  BY DepthInitInv
<1>2. DepthInv /\ [DepthNext]_depthVars => DepthInv'
  <2> SUFFICES ASSUME DepthInv, [DepthNext]_depthVars PROVE DepthInv'
    OBVIOUS
  <2>1. CASE DepthNext
    BY <2>1, ObserveKeeps DEF DepthNext
  <2>2. CASE UNCHANGED depthVars
    BY <2>2 DEF depthVars, DepthInv, DepthTypeOK, DepthCovers, Covers, DepthIsExplained,
                NeverBackToMinimum, SteadyStaysShallow
  <2> QED BY <2>1, <2>2
<1>3. DepthInv => DepthIsJustified
  BY DEF DepthInv, DepthIsJustified, EstimateInside, Estimates, Heeds, DepthTypeOK
<1> QED BY <1>1, <1>2, <1>3, PTL DEF DepthSpec

-----------------------------------------------------------------------------
(* HoldAndDecayPlc: what is read from the ring, and that a burst fades, for  *)
(* any size of frame.                                                        *)

(* A set of numbers has a least one: what induction over the samples of a    *)
(* frame comes down to.                                                      *)
LEMMA LeastNumber ==
  ASSUME NEW T \in SUBSET Nat, T # {}
  PROVE  \E m \in T : \A n \in T : m <= n
<1> DEFINE Below == OpToRel(<, Nat)
<1>1. IsWellFoundedOn(Below, Nat)
  BY NatLessThanWellFounded
<1>2. \A x \in Nat, y \in Nat : x < y => <<x, y>> \in Below
  BY DEF OpToRel
<1> HIDE DEF Below
<1>3. PICK m \in T : \A n \in T : ~ (<<n, m>> \in Below)
  BY <1>1, WFMin
<1>4. ASSUME NEW n \in T PROVE m <= n
  <2>1. ~ (n < m)
    BY <1>2, <1>3
  <2> QED BY <2>1
<1> QED BY <1>4

(* Slots of the ring: offset samples back from the end, and how far a slot   *)
(* lies behind the writing end.                                              *)
LEMMA SlotBack ==
  ASSUME NEW size \in Nat, size > 0, NEW n \in Nat, NEW offset \in 1..size, offset <= n
  PROVE  ((n % size) + size - offset) % size = (n - offset) % size
<1> DEFINE r == n % size
           p == n \div size
           a == r + size - offset
           b == n - offset
           s == a % size
           q == a \div size
           t == b % size
           u == b \div size
<1>1. n = size * p + r /\ p \in Int /\ r \in 0..(size - 1)
  OBVIOUS
<1>2. a \in Nat /\ b \in Nat
  BY <1>1
<1>3. a = size * q + s /\ q \in Int /\ s \in 0..(size - 1)
  <2> HIDE DEF a
  <2> QED BY <1>2
<1>4. b = size * u + t /\ u \in Int /\ t \in 0..(size - 1)
  <2> HIDE DEF b
  <2> QED BY <1>2
<1>5. a - b = size - size * p
  BY <1>1
<1> HIDE DEF r, p, a, b, s, q, t, u
<1> DEFINE k == u + 1 - p - q
<1>6. s - t = size * k
  BY <1>1, <1>2, <1>3, <1>4, <1>5
<1>7. k \in Int /\ s - t < size /\ t - s < size
  BY <1>1, <1>3, <1>4
<1> HIDE DEF k
<1>8. CASE k >= 1
  BY <1>3, <1>4, <1>6, <1>7, <1>8
<1>9. CASE k <= -1
  BY <1>3, <1>4, <1>6, <1>7, <1>9
<1>10. s = t
  BY <1>3, <1>4, <1>6, <1>7, <1>8, <1>9
<1> QED BY <1>10 DEF s, t, a, b, r

Ahead(size, n, m, d) == m = n + d \/ m + size = n + d

LEMMA SlotAhead ==
  ASSUME NEW size \in Nat, size > 0, NEW n \in Nat, NEW m \in Nat, NEW d \in 0..(size - 1),
         Ahead(size, n, m, d)
  PROVE  ((m % size) + size - (n % size)) % size = d
<1> DEFINE r == n % size
           p == n \div size
           s == m % size
           q == m \div size
           a == s + size - r
           t == a % size
           u == a \div size
<1>1. n = size * p + r /\ p \in Int /\ r \in 0..(size - 1)
  OBVIOUS
<1>2. m = size * q + s /\ q \in Int /\ s \in 0..(size - 1)
  OBVIOUS
<1>3. a \in Nat
  BY <1>1, <1>2
<1>4. a = size * u + t /\ u \in Int /\ t \in 0..(size - 1)
  <2> HIDE DEF a
  <2> QED BY <1>3
<1>5. a = s + size - r
  OBVIOUS
<1> HIDE DEF r, p, s, q, a, t, u
<1> DEFINE k == (IF m = n + d THEN p - q + 1 - u ELSE p - q - u)
<1>6. t - d = size * k
  <2>1. CASE m = n + d
    BY <1>1, <1>2, <1>4, <1>5, <2>1
  <2>2. CASE m # n + d
    <3>1. m + size = n + d
      BY <2>2 DEF Ahead
    <3> QED BY <1>1, <1>2, <1>4, <1>5, <2>2, <3>1
  <2> QED BY <2>1, <2>2
<1>7. k \in Int /\ t - d < size /\ d - t < size
  BY <1>1, <1>2, <1>4
<1> HIDE DEF k
<1>8. CASE k >= 1
  BY <1>4, <1>6, <1>7, <1>8
<1>9. CASE k <= -1
  BY <1>4, <1>6, <1>7, <1>9
<1>10. t = d
  BY <1>4, <1>6, <1>7, <1>8, <1>9
<1> QED BY <1>10 DEF t, a, r, s

LEMMA SlotAfter ==
  ASSUME NEW size \in Nat, size > 0, NEW n \in Nat, NEW m \in Nat
  PROVE  ((n % size) + m) % size = (n + m) % size
<1> DEFINE r == n % size
           p == n \div size
           a == r + m
           b == n + m
           s == a % size
           q == a \div size
           t == b % size
           u == b \div size
<1>1. n = size * p + r /\ p \in Int /\ r \in 0..(size - 1)
  OBVIOUS
<1>2. a \in Nat /\ b \in Nat
  BY <1>1
<1>3. a = size * q + s /\ q \in Int /\ s \in 0..(size - 1)
  <2> HIDE DEF a
  <2> QED BY <1>2
<1>4. b = size * u + t /\ u \in Int /\ t \in 0..(size - 1)
  <2> HIDE DEF b
  <2> QED BY <1>2
<1>5. b - a = size * p
  BY <1>1
<1> HIDE DEF r, p, a, b, s, q, t, u
<1> DEFINE k == u - p - q
<1>6. s - t = size * k
  BY <1>1, <1>2, <1>3, <1>4, <1>5
<1>7. k \in Int /\ s - t < size /\ t - s < size
  BY <1>1, <1>3, <1>4
<1> HIDE DEF k
<1>8. CASE k >= 1
  BY <1>3, <1>4, <1>6, <1>7, <1>8
<1>9. CASE k <= -1
  BY <1>3, <1>4, <1>6, <1>7, <1>9
<1>10. s = t
  BY <1>3, <1>4, <1>6, <1>7, <1>8, <1>9
<1> QED BY <1>10 DEF s, t, a, b, r

LEMMA HistoryFacts ==
  /\ FrameSamples \in Nat /\ FrameSamples > 1
  /\ HistorySamples = 4 * FrameSamples /\ HistorySamples \in Nat /\ HistorySamples > 0
  BY FrameAssumption DEF HistorySamples

(* The ring follows a signal: it holds the newest samples of it, each in the *)
(* slot of its position.                                                     *)
Follows(ring, writeIndex, size, s) ==
    /\ size = Least(Len(s), HistorySamples)
    /\ writeIndex = Len(s) % HistorySamples
    /\ \A p \in 1..Len(s) :
          p > Len(s) - HistorySamples => ring[(p - 1) % HistorySamples] = s[p]

LEMMA RecentIs ==
  ASSUME NEW X, NEW s \in Seq(X), NEW ring, NEW writeIndex, NEW size,
         Follows(ring, writeIndex, size, s), NEW offset \in 1..size
  PROVE  Recent(ring, writeIndex, size, offset) = s[Len(s) + 1 - offset]
<1> DEFINE n == Len(s)
           p == n + 1 - offset
<1>1. n \in Nat /\ size = Least(n, HistorySamples) /\ size \in Nat /\ size > 0
      /\ writeIndex = n % HistorySamples /\ offset <= n /\ offset \in 1..HistorySamples
  <2>1. n \in Nat /\ size = Least(n, HistorySamples) /\ writeIndex = n % HistorySamples
    BY DEF Follows
  <2> HIDE DEF n
  <2> QED BY <2>1, HistoryFacts DEF Least
<1> HIDE DEF n
<1>2. Min({offset, size}) = offset
  <2>1. offset \in Int /\ size \in Int /\ offset <= size
    BY <1>1
  <2> QED BY <2>1, MinOfTwo
<1>3. Index(writeIndex, offset) = (p - 1) % HistorySamples
  <2>1. ((n % HistorySamples) + HistorySamples - offset) % HistorySamples
           = (n - offset) % HistorySamples
    BY <1>1, HistoryFacts, SlotBack
  <2>2. p - 1 = n - offset
    BY <1>1
  <2> HIDE DEF p
  <2> QED BY <1>1, <2>1, <2>2 DEF Index
<1>4. p \in 1..n /\ p > n - HistorySamples
  BY <1>1, HistoryFacts
<1>5. ring[(p - 1) % HistorySamples] = s[p]
  <2> HIDE DEF p
  <2> QED BY <1>4 DEF Follows, n
<1>6. Recent(ring, writeIndex, size, offset) = ring[Index(writeIndex, offset)]
  BY <1>1, <1>2 DEF Recent
<1> QED BY <1>3, <1>5, <1>6 DEF p, n

Written(ring, writeIndex, f, n) ==
    [slot \in 0..(HistorySamples - 1) |->
        LET k == (slot + HistorySamples - writeIndex) % HistorySamples
        IN  IF k < n THEN f[k + 1] ELSE ring[slot]]

LEMMA SlotRange ==
  ASSUME NEW a \in Int
  PROVE  a % HistorySamples \in 0..(HistorySamples - 1)
  BY HistoryFacts

LEMMA AppendFollows ==
  ASSUME NEW X, NEW s \in Seq(X), NEW f \in Seq(X), Len(f) <= HistorySamples,
         NEW ring, NEW writeIndex, NEW size, Follows(ring, writeIndex, size, s)
  PROVE  Follows(Written(ring, writeIndex, f, Len(f)), (writeIndex + Len(f)) % HistorySamples,
                 Least(size + Len(f), HistorySamples), s \o f)
<1> DEFINE n == Len(s)
           m == Len(f)
           next == Written(ring, writeIndex, f, m)
           t == s \o f
<1>1. n \in Nat /\ m \in Nat /\ m <= HistorySamples /\ Len(t) = n + m
      /\ \A p \in 1..(n + m) : t[p] = IF p <= n THEN s[p] ELSE f[p - n]
  OBVIOUS
<1>2. size = Least(n, HistorySamples) /\ writeIndex = n % HistorySamples
  BY DEF Follows
<1>3. \A p \in 1..n : p > n - HistorySamples => ring[(p - 1) % HistorySamples] = s[p]
  BY DEF Follows
<1> HIDE DEF n, m, t
<1>4. Least(size + m, HistorySamples) = Least(n + m, HistorySamples)
  BY <1>1, <1>2, HistoryFacts DEF Least
<1>5. (writeIndex + m) % HistorySamples = (n + m) % HistorySamples
  BY <1>1, <1>2, HistoryFacts, SlotAfter
<1>6. ASSUME NEW p \in 1..(n + m), p > n + m - HistorySamples
      PROVE  next[(p - 1) % HistorySamples] = t[p]
  <2> DEFINE slot == (p - 1) % HistorySamples
             k == (slot + HistorySamples - writeIndex) % HistorySamples
  <2>1. p \in Nat /\ p - 1 \in Nat /\ slot \in 0..(HistorySamples - 1)
    <3>1. p \in Nat /\ p - 1 \in Nat
      BY <1>1
    <3>2. slot \in 0..(HistorySamples - 1)
      <4> DEFINE b == p - 1
      <4>1. b \in Int
        BY <3>1
      <4> HIDE DEF b
      <4>2. b % HistorySamples \in 0..(HistorySamples - 1)
        BY <4>1, SlotRange
      <4> QED BY <4>2 DEF b
    <3> QED BY <3>1, <3>2
  <2>2. next[slot] = IF k < m THEN f[k + 1] ELSE ring[slot]
    <3> HIDE DEF slot
    <3> QED BY <2>1 DEF Written
  <2>3. CASE p <= n
    <3> DEFINE d == p - 1 - n + HistorySamples
    <3>1. d \in 0..(HistorySamples - 1) /\ d >= m /\ (p - 1) + HistorySamples = n + d
      BY <1>1, <1>6, <2>1, <2>3, HistoryFacts
    <3>2. k = d
      <4> DEFINE b == p - 1
      <4>1. b \in Nat /\ Ahead(HistorySamples, n, b, d)
        BY <2>1, <3>1 DEF Ahead
      <4> HIDE DEF b, d
      <4>2. ((b % HistorySamples) + HistorySamples - (n % HistorySamples)) % HistorySamples = d
        BY <1>1, <3>1, <4>1, HistoryFacts, SlotAhead
      <4> QED BY <1>2, <4>2 DEF b
    <3>3. next[slot] = ring[slot]
      <4> HIDE DEF d, k, next, slot
      <4> QED BY <1>1, <2>2, <3>1, <3>2
    <3>4. p \in 1..n /\ p > n - HistorySamples
      BY <1>1, <1>6, <2>3, HistoryFacts
    <3>5. ring[slot] = s[p] /\ t[p] = s[p]
      BY <1>1, <1>3, <2>3, <3>4
    <3> QED BY <3>3, <3>5
  <2>4. CASE p > n
    <3> DEFINE d == p - 1 - n
    <3>1. d \in 0..(HistorySamples - 1) /\ d < m /\ p - 1 = n + d /\ d + 1 = p - n
      BY <1>1, <1>6, <2>1, <2>4, HistoryFacts
    <3>2. k = d
      <4> DEFINE b == p - 1
      <4>1. b \in Nat /\ Ahead(HistorySamples, n, b, d)
        BY <2>1, <3>1 DEF Ahead
      <4> HIDE DEF b, d
      <4>2. ((b % HistorySamples) + HistorySamples - (n % HistorySamples)) % HistorySamples = d
        BY <1>1, <3>1, <4>1, HistoryFacts, SlotAhead
      <4> QED BY <1>2, <4>2 DEF b
    <3>3. next[slot] = f[p - n]
      <4> HIDE DEF d, k, next, slot
      <4> QED BY <1>1, <2>2, <3>1, <3>2
    <3>4. t[p] = f[p - n]
      BY <1>1, <2>1, <2>4
    <3> QED BY <3>3, <3>4
  <2> QED BY <1>1, <2>1, <2>3, <2>4
<1> HIDE DEF next
<1>7. Follows(next, (n + m) % HistorySamples, Least(n + m, HistorySamples), t)
  <2>1. \A p \in 1..Len(t) : p > Len(t) - HistorySamples => next[(p - 1) % HistorySamples] = t[p]
    <3> SUFFICES ASSUME NEW p \in 1..Len(t), p > Len(t) - HistorySamples
                 PROVE  next[(p - 1) % HistorySamples] = t[p]
      OBVIOUS
    <3>0. Len(t) = n + m /\ n \in Nat /\ m \in Nat
      BY <1>1
    <3>1. p \in 1..(n + m) /\ p > n + m - HistorySamples
      BY <3>0, HistoryFacts
    <3> QED BY <1>6, <3>1
  <2> QED BY <1>1, <2>1 DEF Follows
<1> QED BY <1>4, <1>5, <1>7 DEF n, m, next, t

(* The recursion over the samples of a frame has a solution.                 *)
Before(g, k) == [j \in 1..(k - 1) |-> g[j]]
Solved(n, g, lag2) == g = [k \in 1..n |-> SynthesizedSample(k, Before(g, k), lag2)]

LEMMA SynthesizedIs ==
  ASSUME NEW lag2
  PROVE  Solved(FrameSamples, Synthesized(lag2), lag2)
<1> DEFINE T == {n \in Nat : ~ \E g : Solved(n, g, lag2)}
<1>1. T = {}
  <2> SUFFICES ASSUME T # {} PROVE FALSE
    OBVIOUS
  <2>1. PICK m \in T : \A n \in T : m <= n
    BY LeastNumber
  <2>2. m # 0
    <3>1. Solved(0, [k \in {} |-> 0], lag2)
      BY DEF Solved
    <3> QED BY <3>1
  <2>3. m - 1 \in Nat /\ m \in Nat /\ m - 1 \notin T
    BY <2>1, <2>2
  <2>4. PICK g : Solved(m - 1, g, lag2)
    BY <2>3
  <2> DEFINE h == [k \in 1..m |-> IF k < m THEN g[k]
                                  ELSE SynthesizedSample(m, Before(g, m), lag2)]
  <2>5. ASSUME NEW k \in 1..m PROVE Before(h, k) = Before(g, k)
    <3>1. \A j \in 1..(k - 1) : j \in 1..m /\ j < m
      BY <2>3
    <3>2. \A j \in 1..(k - 1) : h[j] = g[j]
      BY <3>1
    <3> HIDE DEF h
    <3> QED BY <3>2 DEF Before
  <2>6. ASSUME NEW k \in 1..m PROVE h[k] = SynthesizedSample(k, Before(h, k), lag2)
    <3>1. CASE k < m
      <4>1. k \in 1..(m - 1) /\ h[k] = g[k]
        BY <2>3, <3>1
      <4>2. g[k] = SynthesizedSample(k, Before(g, k), lag2)
        BY <2>4, <4>1 DEF Solved
      <4> HIDE DEF h
      <4> QED BY <2>5, <4>1, <4>2
    <3>2. CASE ~(k < m)
      <4>1. k = m
        BY <2>3, <3>2
      <4>2. h[k] = SynthesizedSample(m, Before(g, m), lag2)
        BY <4>1, <3>2
      <4> HIDE DEF h
      <4> QED BY <2>5, <4>1, <4>2
    <3> QED BY <3>1, <3>2
  <2>7. h = [k \in 1..m |-> h[k]]
    OBVIOUS
  <2> HIDE DEF h
  <2>8. Solved(m, h, lag2)
    BY <2>6, <2>7 DEF Solved
  <2> QED BY <2>1, <2>8
<1>2. PICK g : Solved(FrameSamples, g, lag2)
  BY <1>1, HistoryFacts
<1>3. Synthesized(lag2) = CHOOSE f : Solved(FrameSamples, f, lag2)
  BY DEF Synthesized, Solved, Before
<1> QED BY <1>2, <1>3

Part == [at : Nat, decay : Nat]

LEMMA DecayedIs ==
  ASSUME NEW sample \in SUBSET Part, NEW gain \in Nat
  PROVE  /\ \A part \in Decayed(sample, gain) :
               /\ part \in Part /\ part.decay >= gain
               /\ \E old \in sample : part.at = old.at /\ part.decay = old.decay + gain
         /\ Decayed(sample, gain) \in SUBSET Part
<1>1. ASSUME NEW part \in Decayed(sample, gain)
      PROVE  /\ part \in Part /\ part.decay >= gain
             /\ \E old \in sample : part.at = old.at /\ part.decay = old.decay + gain
  <2>1. PICK old \in sample : part = [old EXCEPT !.decay = @ + gain]
    BY DEF Decayed
  <2>2. old \in Part
    OBVIOUS
  <2>3. part = [at |-> old.at, decay |-> old.decay + gain]
        /\ old.decay \in Nat /\ old.at \in Nat
    BY <2>1, <2>2 DEF Part
  <2> QED BY <2>1, <2>3 DEF Part
<1> QED BY <1>1

(* A period lies within a frame and within the history.                      *)
LEMMA LagIs ==
  ASSUME history_size \in Nat, NEW lag2 \in Lags
  PROVE  lag2 \in 2..(2 * FrameSamples) /\ lag2 <= history_size
<1> DEFINE half == history_size \div 2
           least == FrameSamples \div PeriodDivisor
<1>1. half \in Nat /\ 2 * half <= history_size
  OBVIOUS
<1>2. least \in Int
  BY HistoryFacts, EstimateAssumption
<1> HIDE DEF half, least
<1>3. MaxPeriod = Least(FrameSamples, half)
  BY <1>1, HistoryFacts, MinOfTwo DEF MaxPeriod, Least, half
<1>4. MinPeriod = IF 1 >= least THEN 1 ELSE least
  BY <1>2, MaxOfTwo DEF MinPeriod, least
<1>5. MinPeriod \in Nat /\ MinPeriod >= 1 /\ MaxPeriod \in Nat
      /\ MaxPeriod <= FrameSamples /\ MaxPeriod <= half
  BY <1>1, <1>2, <1>3, <1>4, HistoryFacts DEF Least
<1>6. lag2 \in (2 * MinPeriod)..(2 * MaxPeriod)
  <2>1. CASE mode = "periodic_interpolated"
    BY <2>1 DEF Lags
  <2>2. CASE mode # "periodic_interpolated"
    <3>1. PICK period \in MinPeriod..MaxPeriod : lag2 = 2 * period
      BY <2>2 DEF Lags
    <3> QED BY <1>5, <3>1
  <2> QED BY <2>1, <2>2
<1> QED BY <1>1, <1>5, <1>6, HistoryFacts

(* What is read at a lag is one sample of the last frame, or two.            *)
ReadsBack(ring, writeIndex, size, s, lag2) ==
    \E a \in 1..FrameSamples, b \in 1..FrameSamples :
       /\ a <= Len(s) /\ b <= Len(s)
       /\ RecentBetween(ring, writeIndex, size, lag2)
             = s[Len(s) + 1 - a] \union s[Len(s) + 1 - b]

LEMMA BetweenIs ==
  ASSUME NEW X, NEW s \in Seq(SUBSET X), NEW ring, NEW writeIndex, NEW size,
         Follows(ring, writeIndex, size, s),
         NEW lag2, lag2 \in 2..(2 * FrameSamples), lag2 <= size
  PROVE  ReadsBack(ring, writeIndex, size, s, lag2)
<1>1. size \in Nat /\ size <= Len(s) /\ Len(s) \in Nat
  BY HistoryFacts DEF Follows, Least
<1> DEFINE newer == lag2 \div 2
           older == Min({newer + 1, size})
<1>2. lag2 \in Int /\ 2 * newer <= lag2 /\ lag2 <= 2 * newer + 1 /\ newer \in Nat
      /\ (lag2 % 2 = 0 => lag2 = 2 * newer) /\ (lag2 % 2 # 0 => lag2 = 2 * newer + 1)
  BY HistoryFacts
<1>3. Max({lag2, 2}) = lag2 /\ Min({lag2, 2 * size}) = lag2
  <2>1. Max({lag2, 2}) = lag2
    <3>1. lag2 \in Int /\ lag2 >= 2
      OBVIOUS
    <3> QED BY <3>1, MaxOfTwo
  <2>2. Min({lag2, 2 * size}) = lag2
    <3> DEFINE most == 2 * size
    <3>1. lag2 \in Int /\ most \in Int /\ lag2 <= most
      BY <1>1
    <3> HIDE DEF most
    <3>2. Min({lag2, most}) = lag2
      BY <3>1, MinOfTwo
    <3> QED BY <3>2 DEF most
  <2> QED BY <2>1, <2>2
<1>4. RecentBetween(ring, writeIndex, size, lag2)
         = IF lag2 % 2 = 0 THEN Recent(ring, writeIndex, size, newer)
           ELSE Recent(ring, writeIndex, size, newer) \union Recent(ring, writeIndex, size, older)
  BY <1>3 DEF RecentBetween
<1> HIDE DEF newer, older
<1>5. newer \in 1..size /\ newer \in 1..FrameSamples
  BY <1>1, <1>2, HistoryFacts
<1>6. Recent(ring, writeIndex, size, newer) = s[Len(s) + 1 - newer]
  BY <1>5, RecentIs
<1>7. CASE lag2 % 2 = 0
  <2>1. RecentBetween(ring, writeIndex, size, lag2)
           = s[Len(s) + 1 - newer] \union s[Len(s) + 1 - newer]
    BY <1>4, <1>6, <1>7
  <2> QED BY <1>1, <1>5, <2>1 DEF ReadsBack
<1>8. CASE lag2 % 2 # 0
  <2>1. newer + 1 \in 1..size /\ newer + 1 \in 1..FrameSamples
    BY <1>1, <1>2, <1>5, <1>8, HistoryFacts
  <2>2. older = newer + 1
    <3> DEFINE next == newer + 1
    <3>1. next \in Int /\ size \in Int /\ next <= size
      BY <1>1, <2>1
    <3> HIDE DEF next
    <3>2. Min({next, size}) = next
      BY <3>1, MinOfTwo
    <3> QED BY <3>2 DEF older, next
  <2>3. Recent(ring, writeIndex, size, older) = s[Len(s) + 1 - older]
    <3>1. older \in 1..size
      BY <2>1, <2>2
    <3> QED BY <3>1, RecentIs
  <2>4. older \in 1..FrameSamples /\ older <= Len(s)
    BY <1>1, <2>1, <2>2
  <2> QED BY <1>1, <1>4, <1>5, <1>6, <1>8, <2>3, <2>4 DEF ReadsBack
<1> QED BY <1>7, <1>8

(* The ring as the loop of synthesize_missing_frame sees it.                 *)
LEMMA RingInLoop ==
  ASSUME signal \in Seq(SUBSET Part),
         Follows(history_, history_write_index, history_size, signal),
         NEW k \in 1..FrameSamples, NEW done \in Seq(SUBSET Part), Len(done) = k - 1
  PROVE  Follows(RingWith(done, k - 1), (history_write_index + k - 1) % HistorySamples,
                 Min({history_size + k - 1, HistorySamples}), signal \o done)
<1> DEFINE m == Len(done)
<1>1. m \in Nat /\ m = k - 1 /\ m <= HistorySamples
  BY HistoryFacts
<1>2. history_size \in Nat /\ history_write_index \in Int
  <2>1. Len(signal) \in Nat /\ Len(signal) % HistorySamples \in Int
    BY HistoryFacts
  <2> QED BY <2>1, HistoryFacts DEF Follows, Least
<1> HIDE DEF m
<1>3. RingWith(done, m) = Written(history_, history_write_index, done, m)
  BY DEF RingWith, Written
<1>4. history_write_index + m = history_write_index + k - 1
      /\ history_size + m = history_size + k - 1
  BY <1>1, <1>2
<1>5. Follows(Written(history_, history_write_index, done, m),
              (history_write_index + m) % HistorySamples,
              Least(history_size + m, HistorySamples), signal \o done)
  BY <1>1, AppendFollows DEF m
<1>6. Min({history_size + m, HistorySamples}) = Least(history_size + m, HistorySamples)
  <2> DEFINE a == history_size + m
  <2>1. a \in Int
    BY <1>1, <1>2
  <2> HIDE DEF a
  <2>2. Min({a, HistorySamples}) = Least(a, HistorySamples)
    BY <2>1, HistoryFacts, MinOfTwo DEF Least
  <2> QED BY <2>2 DEF a
<1> QED BY <1>1, <1>3, <1>4, <1>5, <1>6

(* The state between two calls, as far as the ring is concerned.             *)
RingInv ==
    /\ signal \in Seq(SUBSET Part)
    /\ Follows(history_, history_write_index, history_size, signal)
    /\ concealment_gain \in Nat

(* A sample is made of the last frame of the signal and of its own frame.    *)
LEMMA SampleIs ==
  ASSUME RingInv, NEW lag2 \in Lags, NEW k \in 1..FrameSamples,
         NEW done \in Seq(SUBSET Part), Len(done) = k - 1
  PROVE  LET t == signal \o done
         IN  \E p \in 1..Len(t), q \in 1..Len(t) :
                /\ p > Len(signal) - FrameSamples /\ q > Len(signal) - FrameSamples
                /\ SynthesizedSample(k, done, lag2)
                      = Decayed(t[p] \union t[q], concealment_gain)
                           \union (IF k < Min({SmoothingSamples, FrameSamples})
                                   THEN Correction(lag2) ELSE Zero)
<1> DEFINE t == signal \o done
           ring == RingWith(done, k - 1)
           end == (history_write_index + k - 1) % HistorySamples
           size == Min({history_size + k - 1, HistorySamples})
<1>1. signal \in Seq(SUBSET Part) /\ Follows(history_, history_write_index, history_size, signal)
  BY DEF RingInv
<1>2. Follows(ring, end, size, t)
  BY <1>1, RingInLoop
<1>3. t \in Seq(SUBSET Part) /\ Len(t) = Len(signal) + k - 1 /\ Len(signal) \in Nat
  BY <1>1
<1>4. history_size \in Nat /\ history_size <= Len(signal)
  BY <1>1, <1>3, HistoryFacts DEF Follows, Least
<1>5. lag2 \in 2..(2 * FrameSamples) /\ lag2 <= history_size
  BY <1>4, LagIs
<1>6. SynthesizedSample(k, done, lag2)
         = Decayed(RecentBetween(ring, end, size, lag2), concealment_gain)
              \union (IF k < Min({SmoothingSamples, FrameSamples}) THEN Correction(lag2) ELSE Zero)
  BY DEF SynthesizedSample
<1> HIDE DEF t, ring, end, size
<1>7. lag2 <= size
  <2>1. size = Least(Len(t), HistorySamples) /\ history_size = Least(Len(signal), HistorySamples)
    BY <1>1, <1>2 DEF Follows
  <2> QED BY <1>3, <1>5, <2>1, HistoryFacts DEF Least
<1>12. ReadsBack(ring, end, size, t, lag2)
  BY <1>2, <1>3, <1>5, <1>7, BetweenIs
<1>8. PICK a \in 1..FrameSamples, b \in 1..FrameSamples :
         /\ a <= Len(t) /\ b <= Len(t)
         /\ RecentBetween(ring, end, size, lag2)
               = t[Len(t) + 1 - a] \union t[Len(t) + 1 - b]
  BY <1>12 DEF ReadsBack
<1> DEFINE p == Len(t) + 1 - a
           q == Len(t) + 1 - b
<1>9. /\ p \in 1..Len(t) /\ q \in 1..Len(t)
      /\ p > Len(signal) - FrameSamples /\ q > Len(signal) - FrameSamples
  BY <1>3, <1>8, HistoryFacts
<1> HIDE DEF p, q
<1>10. RecentBetween(ring, end, size, lag2) = t[p] \union t[q]
  BY <1>8 DEF p, q
<1>11. SynthesizedSample(k, done, lag2)
         = Decayed(t[p] \union t[q], concealment_gain)
              \union (IF k < Min({SmoothingSamples, FrameSamples}) THEN Correction(lag2) ELSE Zero)
  BY <1>6, <1>10
<1> QED BY <1>9, <1>11 DEF t

(* What the start correction adds comes from the last frame as well; only    *)
(* the last sample of the signal enters as it is.                            *)
LEMMA CorrectionIs ==
  ASSUME RingInv, NEW lag2 \in Lags
  PROVE  \/ Correction(lag2) = {}
         \/ /\ mode # "periodic_interpolated" /\ Len(signal) > 0
            /\ \E p \in 1..Len(signal) :
                  /\ p > Len(signal) - FrameSamples
                  /\ Correction(lag2)
                        = signal[Len(signal)] \union Decayed(signal[p], concealment_gain)
<1>1. SUFFICES ASSUME mode # "periodic_interpolated", history_size # 0
      PROVE  /\ Len(signal) > 0
             /\ \E p \in 1..Len(signal) :
                  /\ p > Len(signal) - FrameSamples
                  /\ Correction(lag2)
                        = signal[Len(signal)] \union Decayed(signal[p], concealment_gain)
  BY DEF Correction, Zero
<1>2. signal \in Seq(SUBSET Part) /\ Follows(history_, history_write_index, history_size, signal)
      /\ Len(signal) \in Nat
  BY DEF RingInv
<1>3. history_size \in Nat /\ history_size <= Len(signal) /\ 1 \in 1..history_size
  BY <1>1, <1>2, HistoryFacts DEF Follows, Least
<1> DEFINE offset == lag2 \div 2
           p == Len(signal) + 1 - offset
<1>4. offset \in 1..history_size /\ offset <= FrameSamples
  <2>1. lag2 \in 2..(2 * FrameSamples) /\ lag2 <= history_size
    BY <1>3, LagIs
  <2> QED BY <1>3, <2>1, HistoryFacts
<1>5. Correction(lag2) = Recent(history_, history_write_index, history_size, 1)
         \union Decayed(Recent(history_, history_write_index, history_size, offset),
                        concealment_gain)
  BY <1>1 DEF Correction
<1> HIDE DEF offset
<1>6. Recent(history_, history_write_index, history_size, 1) = signal[Len(signal) + 1 - 1]
  BY <1>2, <1>3, RecentIs
<1>7. Recent(history_, history_write_index, history_size, offset) = signal[p]
  BY <1>2, <1>4, RecentIs
<1>8. p \in 1..Len(signal) /\ p > Len(signal) - FrameSamples /\ Len(signal) + 1 - 1 = Len(signal)
  BY <1>2, <1>3, <1>4, HistoryFacts
<1> HIDE DEF p
<1>9. Correction(lag2) = signal[Len(signal)] \union Decayed(signal[p], concealment_gain)
  BY <1>5, <1>6, <1>7, <1>8
<1> QED BY <1>2, <1>3, <1>8, <1>9

(* What holds of the last frame and survives the gain holds of the frame     *)
(* made from it.                                                             *)
LEMMA SampleKeeps ==
  ASSUME RingInv, NEW lag2 \in Lags, NEW G \in SUBSET Part,
         \A part \in G : [part EXCEPT !.decay = @ + concealment_gain] \in G,
         \A p \in 1..Len(signal) : p > Len(signal) - FrameSamples => signal[p] \subseteq G,
         NEW k \in 1..FrameSamples, NEW done \in Seq(SUBSET G), Len(done) = k - 1
  PROVE  SynthesizedSample(k, done, lag2) \subseteq G
<1> DEFINE t == signal \o done
<1>1. signal \in Seq(SUBSET Part) /\ concealment_gain \in Nat /\ Len(signal) \in Nat
  BY DEF RingInv
<1>2. done \in Seq(SUBSET Part) /\ \A p \in 1..Len(done) : done[p] \subseteq G
  <2>1. Len(done) \in Nat /\ \A p \in 1..Len(done) : done[p] \in SUBSET G
    OBVIOUS
  <2>2. \A p \in 1..Len(done) : done[p] \in SUBSET Part
    BY <2>1
  <2>3. done = [p \in 1..Len(done) |-> done[p]]
    OBVIOUS
  <2>4. done \in [1..Len(done) -> SUBSET Part]
    BY <2>2, <2>3
  <2>5. done \in Seq(SUBSET Part)
    BY <2>1, <2>4
  <2> QED BY <2>1, <2>5
<1>3. ASSUME NEW p \in 1..Len(t), p > Len(signal) - FrameSamples PROVE t[p] \subseteq G
  <2>1. CASE p <= Len(signal)
    <3>1. p \in 1..Len(signal) /\ t[p] = signal[p]
      BY <1>1, <1>2, <2>1
    <3> QED BY <1>3, <3>1
  <2>2. CASE p > Len(signal)
    <3>1. p - Len(signal) \in 1..Len(done) /\ t[p] = done[p - Len(signal)]
      BY <1>1, <1>2, <2>2
    <3> QED BY <1>2, <3>1
  <2>3. p \in Int
    OBVIOUS
  <2> QED BY <1>1, <2>1, <2>2, <2>3
<1>4. ASSUME NEW sample \in SUBSET G PROVE Decayed(sample, concealment_gain) \subseteq G
  BY DEF Decayed
<1>5. PICK p \in 1..Len(t), q \in 1..Len(t) :
         /\ p > Len(signal) - FrameSamples /\ q > Len(signal) - FrameSamples
         /\ SynthesizedSample(k, done, lag2)
               = Decayed(t[p] \union t[q], concealment_gain)
                    \union (IF k < Min({SmoothingSamples, FrameSamples})
                            THEN Correction(lag2) ELSE Zero)
  BY <1>2, SampleIs
<1>6. t[p] \union t[q] \in SUBSET G
  BY <1>3, <1>5
<1>7. Correction(lag2) \subseteq G
  <2>1. CASE Correction(lag2) = {}
    BY <2>1
  <2>2. CASE Correction(lag2) # {}
    <3>1. PICK n \in 1..Len(signal) :
             /\ n > Len(signal) - FrameSamples /\ Len(signal) > 0
             /\ Correction(lag2)
                   = signal[Len(signal)] \union Decayed(signal[n], concealment_gain)
      BY <2>2, CorrectionIs
    <3>2. signal[n] \subseteq G /\ signal[Len(signal)] \subseteq G
      <4>1. Len(signal) \in 1..Len(signal) /\ Len(signal) > Len(signal) - FrameSamples
        BY <1>1, <3>1, HistoryFacts
      <4>2. signal[Len(signal)] \subseteq G
        BY <4>1
      <4>3. signal[n] \subseteq G
        BY <3>1
      <4> QED BY <4>2, <4>3
    <3>3. Decayed(signal[n], concealment_gain) \subseteq G
      BY <1>4, <3>2
    <3> QED BY <3>1, <3>2, <3>3
  <2> QED BY <2>1, <2>2
<1> QED BY <1>4, <1>5, <1>6, <1>7 DEF Zero

LEMMA FrameKeeps ==
  ASSUME RingInv, NEW lag2 \in Lags, NEW G \in SUBSET Part,
         \A part \in G : [part EXCEPT !.decay = @ + concealment_gain] \in G,
         \A p \in 1..Len(signal) : p > Len(signal) - FrameSamples => signal[p] \subseteq G
  PROVE  Synthesized(lag2) \in [1..FrameSamples -> SUBSET G]
<1> DEFINE g == Synthesized(lag2)
           T == {k \in 1..FrameSamples : ~(g[k] \subseteq G)}
<1>1. g = [k \in 1..FrameSamples |-> SynthesizedSample(k, Before(g, k), lag2)]
  BY SynthesizedIs DEF Solved
<1> HIDE DEF g
<1>2. T = {}
  <2> SUFFICES ASSUME T # {} PROVE FALSE
    OBVIOUS
  <2>1. T \in SUBSET Nat
    BY HistoryFacts
  <2>2. PICK m \in T : \A n \in T : m <= n
    BY <2>1, LeastNumber, Zenon
  <2>3. m \in 1..FrameSamples /\ m \in Nat
    BY <2>1
  <2>4. \A j \in 1..(m - 1) : g[j] \subseteq G
    <3> SUFFICES ASSUME NEW j \in 1..(m - 1), ~(g[j] \subseteq G) PROVE FALSE
      OBVIOUS
    <3>1. j \in 1..FrameSamples /\ j \in Int /\ j < m
      BY <2>3, HistoryFacts
    <3>2. m <= j
      BY <2>2, <3>1
    <3> QED BY <2>3, <3>1, <3>2
  <2>5. Before(g, m) \in Seq(SUBSET G) /\ Len(Before(g, m)) = m - 1
    <3>1. m - 1 \in Nat
      BY <2>3
    <3>2. Before(g, m) \in [1..(m - 1) -> SUBSET G]
      BY <2>4 DEF Before
    <3> QED BY <3>1, <3>2
  <2>6. SynthesizedSample(m, Before(g, m), lag2) \subseteq G
    BY <2>3, <2>5, SampleKeeps
  <2> QED BY <1>1, <2>3, <2>6
<1>3. \A k \in 1..FrameSamples : g[k] \in SUBSET G
  BY <1>2
<1> QED BY <1>1, <1>3 DEF g

(* A sample has the gain applied, the start correction aside.                *)
LEMMA SampleFades ==
  ASSUME RingInv, NEW lag2 \in Lags, NEW k \in 1..FrameSamples,
         NEW done \in Seq(SUBSET Part), Len(done) = k - 1,
         NEW part \in SynthesizedSample(k, done, lag2)
  PROVE  \/ part.decay >= concealment_gain
         \/ /\ k < FrameSamples /\ mode # "periodic_interpolated"
            /\ Len(signal) > 0 /\ part \in signal[Len(signal)]
<1> DEFINE t == signal \o done
<1>1. signal \in Seq(SUBSET Part) /\ concealment_gain \in Nat /\ t \in Seq(SUBSET Part)
      /\ Len(signal) \in Nat
  BY DEF RingInv
<1>2. PICK p \in 1..Len(t), q \in 1..Len(t) :
         /\ p > Len(signal) - FrameSamples /\ q > Len(signal) - FrameSamples
         /\ SynthesizedSample(k, done, lag2)
               = Decayed(t[p] \union t[q], concealment_gain)
                    \union (IF k < Min({SmoothingSamples, FrameSamples})
                            THEN Correction(lag2) ELSE Zero)
  BY SampleIs
<1>3. CASE part \in Decayed(t[p] \union t[q], concealment_gain)
  <2>1. t[p] \union t[q] \in SUBSET Part
    BY <1>1
  <2> QED BY <1>1, <1>3, <2>1, DecayedIs
<1>4. CASE k < Min({SmoothingSamples, FrameSamples}) /\ part \in Correction(lag2)
  <2>1. PICK n \in 1..Len(signal) :
           /\ mode # "periodic_interpolated" /\ Len(signal) > 0
           /\ Correction(lag2)
                 = signal[Len(signal)] \union Decayed(signal[n], concealment_gain)
    BY <1>4, CorrectionIs
  <2>2. signal[n] \in SUBSET Part
    BY <1>1
  <2>3. part \in signal[Len(signal)] \/ part.decay >= concealment_gain
    BY <1>1, <1>4, <2>1, <2>2, DecayedIs
  <2>4. k < FrameSamples
    <3>1. SmoothingSamples \in Int
      BY EstimateAssumption
    <3>2. Min({SmoothingSamples, FrameSamples}) = Least(SmoothingSamples, FrameSamples)
      BY <3>1, HistoryFacts, MinOfTwo DEF Least
    <3> QED BY <1>4, <3>1, <3>2, HistoryFacts DEF Least
  <2> QED BY <2>1, <2>3, <2>4
<1> QED BY <1>2, <1>3, <1>4 DEF Zero

(* After a good frame the last frame is fresh, and so is the copy of it;     *)
(* after n lost ones its last sample has lost some of its level n - 1 times. *)
FreshEnd ==
    lost = 0 /\ Len(signal) > 0 =>
        /\ \A p \in 1..Len(signal) : p > Len(signal) - FrameSamples =>
              \A part \in signal[p] : part.decay = 0 /\ part.at > Len(signal) - FrameSamples
        /\ \A k \in 1..FrameSamples : \A part \in last_good_frame[k] :
              part.decay = 0 /\ part.at > Len(signal) - FrameSamples

FadedEnd ==
    lost > 0 => Len(signal) > 0 /\ \A part \in signal[Len(signal)] : part.decay >= lost - 1

PlcTypes ==
    /\ mode \in Modes /\ lost \in Nat /\ concealment_gain = lost
    /\ RingInv
    /\ Len(signal) = 0 \/ Len(signal) >= FrameSamples
    /\ last_good_frame \in [1..FrameSamples -> SUBSET Part]
    /\ IF lost = 0 THEN out = <<>> ELSE out \in [1..FrameSamples -> SUBSET Part]

PartsHeard ==
    /\ \A p \in 1..Len(signal) : \A part \in signal[p] : part.at \in 1..Len(signal)
    /\ \A k \in 1..FrameSamples : \A part \in last_good_frame[k] : part.at \in 1..Len(signal)

PlcInv == PlcTypes /\ PartsHeard /\ FreshEnd /\ FadedEnd /\ RecoveryIsFresh /\ BurstFades

LEMMA AppendKeeps ==
  ASSUME RingInv, NEW frame \in [1..FrameSamples -> SUBSET Part],
         AppendHistory(frame, FrameSamples), concealment_gain' \in Nat
  PROVE  /\ RingInv' /\ Len(signal) \in Nat /\ Len(signal') = Len(signal) + FrameSamples
         /\ \A p \in 1..Len(signal) : signal'[p] = signal[p]
         /\ \A p \in 1..Len(signal') : p > Len(signal) =>
               p - Len(signal) \in 1..FrameSamples /\ signal'[p] = frame[p - Len(signal)]
<1>1. frame \in Seq(SUBSET Part) /\ Len(frame) = FrameSamples
  BY HistoryFacts
<1>2. signal \in Seq(SUBSET Part) /\ Follows(history_, history_write_index, history_size, signal)
      /\ Len(signal) \in Nat
  BY DEF RingInv
<1>3. signal' = signal \o frame
  BY DEF AppendHistory
<1>4. signal' \in Seq(SUBSET Part)
  BY <1>1, <1>2, <1>3
<1>5. Len(frame) <= HistorySamples
  BY <1>1, HistoryFacts
<1>6. Follows(Written(history_, history_write_index, frame, Len(frame)),
              (history_write_index + Len(frame)) % HistorySamples,
              Least(history_size + Len(frame), HistorySamples), signal \o frame)
  BY <1>1, <1>2, <1>5, AppendFollows
<1>7. history_' = Written(history_, history_write_index, frame, FrameSamples)
  BY DEF AppendHistory, Written
<1>8. history_size' = Least(history_size + FrameSamples, HistorySamples)
  <2> DEFINE a == history_size + FrameSamples
  <2>1. a \in Int
    BY <1>2, HistoryFacts DEF Follows, Least
  <2>2. history_size' = Min({a, HistorySamples})
    BY DEF AppendHistory
  <2> HIDE DEF a
  <2>3. Min({a, HistorySamples}) = Least(a, HistorySamples)
    BY <2>1, HistoryFacts, MinOfTwo DEF Least
  <2> QED BY <2>2, <2>3 DEF a
<1>9. history_write_index' = (history_write_index + FrameSamples) % HistorySamples
  BY DEF AppendHistory
<1>10. Follows(history_', history_write_index', history_size', signal')
  BY <1>1, <1>3, <1>6, <1>7, <1>8, <1>9
<1>11. RingInv'
  BY <1>4, <1>10 DEF RingInv, Follows, HistorySamples
<1>12. Len(signal') = Len(signal) + FrameSamples
  <2>1. Len(signal \o frame) = Len(signal) + Len(frame)
    BY <1>1, <1>2
  <2> QED BY <1>1, <1>3, <2>1
<1>13. \A p \in 1..Len(signal) : signal'[p] = signal[p]
  BY <1>1, <1>2, <1>3
<1>14. ASSUME NEW p \in 1..Len(signal'), p > Len(signal)
       PROVE  p - Len(signal) \in 1..FrameSamples /\ signal'[p] = frame[p - Len(signal)]
  BY <1>1, <1>2, <1>3, <1>12, <1>14, HistoryFacts
<1> QED BY <1>2, <1>11, <1>12, <1>13, <1>14

(* The frame made for a lost one.                                            *)
LEMMA ConcealedIs ==
  ASSUME PlcInv, NEW frame \in Concealed
  PROVE  /\ frame \in [1..FrameSamples -> SUBSET Part]
         /\ \A k \in 1..FrameSamples : \A part \in frame[k] :
               /\ part.at \in 1..Len(signal)
               /\ lost = 0 /\ Len(signal) > 0 =>
                     part.decay = 0 /\ part.at > Len(signal) - FrameSamples
               /\ part.decay >= lost - (IF mode = "periodic_interpolated" THEN 0 ELSE 1)
               /\ k = FrameSamples => part.decay >= lost
<1>1. /\ RingInv /\ concealment_gain = lost /\ lost \in Nat /\ signal \in Seq(SUBSET Part)
      /\ Len(signal) \in Nat /\ last_good_frame \in [1..FrameSamples -> SUBSET Part]
  BY DEF PlcInv, PlcTypes, RingInv
<1>2. CASE frame = LastGoodFaded
  <2>1. ASSUME NEW k \in 1..FrameSamples
        PROVE  frame[k] = Decayed(last_good_frame[k], lost) /\ last_good_frame[k] \in SUBSET Part
    BY <1>1, <1>2 DEF LastGoodFaded
  <2>5. ASSUME NEW k \in 1..FrameSamples
        PROVE  /\ Decayed(last_good_frame[k], lost) \in SUBSET Part
               /\ \A part \in Decayed(last_good_frame[k], lost) :
                     \E old \in last_good_frame[k] :
                        part.at = old.at /\ part.decay = old.decay + lost
    <3> DEFINE sample == last_good_frame[k]
    <3>1. sample \in SUBSET Part
      BY <2>1
    <3> HIDE DEF sample
    <3>2. /\ Decayed(sample, lost) \in SUBSET Part
          /\ \A part \in Decayed(sample, lost) :
                \E old \in sample : part.at = old.at /\ part.decay = old.decay + lost
      BY <1>1, <3>1, DecayedIs
    <3> QED BY <3>2 DEF sample
  <2>2. \A k \in 1..FrameSamples : frame[k] \in SUBSET Part
    BY <2>1, <2>5
  <2>3. frame = [k \in 1..FrameSamples |-> frame[k]]
    BY <1>2 DEF LastGoodFaded
  <2>4. ASSUME NEW k \in 1..FrameSamples, NEW part \in frame[k]
        PROVE  /\ part.at \in 1..Len(signal)
               /\ lost = 0 /\ Len(signal) > 0 =>
                     part.decay = 0 /\ part.at > Len(signal) - FrameSamples
               /\ part.decay >= lost - (IF mode = "periodic_interpolated" THEN 0 ELSE 1)
               /\ k = FrameSamples => part.decay >= lost
    <3>1. PICK old \in last_good_frame[k] : part.at = old.at /\ part.decay = old.decay + lost
      BY <2>1, <2>5
    <3>2. old \in Part /\ old.at \in 1..Len(signal)
      BY <2>1 DEF PlcInv, PartsHeard
    <3>3. old.decay \in Nat
      BY <3>2 DEF Part
    <3>4. lost = 0 /\ Len(signal) > 0 => old.decay = 0 /\ old.at > Len(signal) - FrameSamples
      BY DEF PlcInv, FreshEnd
    <3> QED BY <1>1, <3>1, <3>2, <3>3, <3>4
  <2> QED BY <2>2, <2>3, <2>4
<1>3. CASE frame # LastGoodFaded
  <2>1. PICK lag2 \in Lags : frame = Synthesized(lag2)
    BY <1>3 DEF Concealed
  <2> DEFINE Old == {part \in Part : part.at \in 1..Len(signal)}
             New == {part \in Old : part.decay = 0 /\ part.at > Len(signal) - FrameSamples}
  <2>2. frame \in [1..FrameSamples -> SUBSET Old]
    <3>1. ASSUME NEW part \in Old PROVE [part EXCEPT !.decay = @ + concealment_gain] \in Old
      BY <1>1 DEF Part
    <3>2. \A p \in 1..Len(signal) : signal[p] \subseteq Old
      <4>1. \A p \in 1..Len(signal) : signal[p] \in SUBSET Part
        BY <1>1
      <4> QED BY <4>1 DEF PlcInv, PartsHeard
    <3>3. Old \in SUBSET Part
      OBVIOUS
    <3> HIDE DEF Old
    <3> QED BY <1>1, <2>1, <3>1, <3>2, <3>3, FrameKeeps
  <2>3. ASSUME lost = 0, Len(signal) > 0 PROVE frame \in [1..FrameSamples -> SUBSET New]
    <3>1. ASSUME NEW part \in New PROVE [part EXCEPT !.decay = @ + concealment_gain] \in New
      BY <1>1, <2>3 DEF Part
    <3>2. \A p \in 1..Len(signal) : p > Len(signal) - FrameSamples => signal[p] \subseteq New
      <4>1. \A p \in 1..Len(signal) : signal[p] \in SUBSET Part
        BY <1>1
      <4> QED BY <2>3, <4>1 DEF PlcInv, PartsHeard, FreshEnd
    <3>3. New \in SUBSET Part
      OBVIOUS
    <3> HIDE DEF New, Old
    <3> QED BY <1>1, <2>1, <3>1, <3>2, <3>3, FrameKeeps
  <2>4. frame \in [1..FrameSamples -> SUBSET Part]
    <3>1. Old \in SUBSET Part
      OBVIOUS
    <3> HIDE DEF Old
    <3> QED BY <2>2, <3>1
  <2>5. ASSUME NEW k \in 1..FrameSamples, NEW part \in frame[k]
        PROVE  /\ part.decay >= lost - (IF mode = "periodic_interpolated" THEN 0 ELSE 1)
               /\ k = FrameSamples => part.decay >= lost
    <3>1. frame[k] = SynthesizedSample(k, Before(frame, k), lag2)
      <4>1. Solved(FrameSamples, frame, lag2)
        BY <2>1, SynthesizedIs
      <4> QED BY <4>1 DEF Solved
    <3>2. Before(frame, k) \in Seq(SUBSET Part) /\ Len(Before(frame, k)) = k - 1
      <4>1. k - 1 \in Nat
        BY HistoryFacts
      <4>2. \A j \in 1..(k - 1) : j \in 1..FrameSamples
        BY HistoryFacts
      <4>3. Before(frame, k) \in [1..(k - 1) -> SUBSET Part]
        BY <2>4, <4>2 DEF Before
      <4> QED BY <4>1, <4>3
    <3>3. \/ part.decay >= concealment_gain
          \/ /\ k < FrameSamples /\ mode # "periodic_interpolated"
             /\ Len(signal) > 0 /\ part \in signal[Len(signal)]
      BY <1>1, <3>1, <3>2, SampleFades
    <3>4. part \in Part
      BY <2>4
    <3>5. part.decay \in Nat
      BY <3>4 DEF Part
    <3>6. lost > 0 /\ part \in signal[Len(signal)] => part.decay >= lost - 1
      BY DEF PlcInv, FadedEnd
    <3> QED BY <1>1, <3>3, <3>5, <3>6, HistoryFacts
  <2>6. ASSUME NEW k \in 1..FrameSamples, NEW part \in frame[k]
        PROVE  /\ part.at \in 1..Len(signal)
               /\ lost = 0 /\ Len(signal) > 0 =>
                     part.decay = 0 /\ part.at > Len(signal) - FrameSamples
    <3>1. part \in Old
      <4> HIDE DEF Old
      <4> QED BY <2>2
    <3>2. lost = 0 /\ Len(signal) > 0 => part \in New
      <4> HIDE DEF New
      <4> QED BY <2>3
    <3> QED BY <3>1, <3>2
  <2> QED BY <2>4, <2>5, <2>6
<1> QED BY <1>2, <1>3

LEMMA PlcInitInv == PlcInit => PlcInv
<1> SUFFICES ASSUME PlcInit PROVE PlcInv
  OBVIOUS
<1>1. signal = <<>> /\ lost = 0 /\ out = <<>> /\ concealment_gain = 0 /\ mode \in Modes
      /\ history_size = 0 /\ history_write_index = 0
  BY DEF PlcInit
<1>2. Len(signal) = 0 /\ signal \in Seq(SUBSET Part)
  BY <1>1
<1>3. 0 % HistorySamples = 0
  BY HistoryFacts
<1>4. Follows(history_, history_write_index, history_size, signal)
  BY <1>1, <1>2, <1>3, HistoryFacts DEF Follows, Least
<1>5. RingInv
  BY <1>1, <1>2, <1>4 DEF RingInv
<1>6. last_good_frame \in [1..FrameSamples -> SUBSET Part]
      /\ \A k \in 1..FrameSamples : last_good_frame[k] = {}
  BY DEF PlcInit, Zero
<1>7. PlcTypes /\ PartsHeard /\ FreshEnd /\ FadedEnd
  BY <1>1, <1>2, <1>5, <1>6 DEF PlcTypes, PartsHeard, FreshEnd, FadedEnd
<1>8. RecoveryIsFresh /\ BurstFades
  BY <1>1 DEF RecoveryIsFresh, BurstFades, Parts
<1> QED BY <1>7, <1>8 DEF PlcInv

LEMMA AcceptKeeps ==
  ASSUME PlcInv, AcceptGoodFrame
  PROVE  PlcInv'
<1> DEFINE frame == [k \in 1..FrameSamples |-> {[at |-> Len(signal) + k, decay |-> 0]}]
<1>1. RingInv /\ Len(signal) \in Nat /\ mode \in Modes
  BY DEF PlcInv, PlcTypes, RingInv
<1>2. /\ last_good_frame' = frame /\ AppendHistory(frame, FrameSamples)
      /\ concealment_gain' = 0 /\ lost' = 0 /\ out' = <<>> /\ mode' = mode
  BY DEF AcceptGoodFrame
<1>3. /\ frame \in [1..FrameSamples -> SUBSET Part]
      /\ \A k \in 1..FrameSamples : \A part \in frame[k] : part.at = Len(signal) + k /\ part.decay = 0
  BY <1>1, HistoryFacts DEF Part
<1> HIDE DEF frame
<1>4. concealment_gain' \in Nat
  BY <1>2
<1>5. /\ RingInv' /\ Len(signal') = Len(signal) + FrameSamples
      /\ \A p \in 1..Len(signal) : signal'[p] = signal[p]
      /\ \A p \in 1..Len(signal') : p > Len(signal) =>
            p - Len(signal) \in 1..FrameSamples /\ signal'[p] = frame[p - Len(signal)]
  BY <1>1, <1>2, <1>3, <1>4, AppendKeeps
<1>6. PlcTypes'
  BY <1>1, <1>2, <1>3, <1>5, HistoryFacts DEF PlcTypes, Modes
<1>7. ASSUME NEW p \in 1..Len(signal'), p > Len(signal), NEW part \in signal'[p]
      PROVE  part.at = p /\ part.decay = 0
  <2>1. part \in frame[p - Len(signal)] /\ p - Len(signal) \in 1..FrameSamples
    BY <1>5, <1>7
  <2>2. part.at = Len(signal) + (p - Len(signal)) /\ part.decay = 0
    BY <1>3, <2>1
  <2>3. Len(signal) + (p - Len(signal)) = p
    BY <1>1
  <2> QED BY <2>2, <2>3
<1>8. \A k \in 1..FrameSamples : \A part \in last_good_frame'[k] :
         part.at = Len(signal) + k /\ part.decay = 0
  BY <1>2, <1>3
<1>9. PartsHeard'
  <2>1. ASSUME NEW p \in 1..Len(signal'), NEW part \in signal'[p]
        PROVE  part.at \in 1..Len(signal')
    <3>1. CASE p <= Len(signal)
      <4>1. p \in 1..Len(signal) /\ part \in signal[p]
        BY <1>1, <1>5, <2>1, <3>1
      <4>2. part.at \in 1..Len(signal)
        BY <4>1 DEF PlcInv, PartsHeard
      <4> QED BY <1>1, <1>5, <4>2, HistoryFacts
    <3>2. CASE p > Len(signal)
      BY <1>7, <3>2
    <3> QED BY <1>1, <3>1, <3>2
  <2>2. ASSUME NEW k \in 1..FrameSamples, NEW part \in last_good_frame'[k]
        PROVE  part.at \in 1..Len(signal')
    BY <1>1, <1>5, <1>8, HistoryFacts
  <2> QED BY <2>1, <2>2 DEF PartsHeard
<1>10. FreshEnd'
  <2>1. ASSUME NEW p \in 1..Len(signal'), p > Len(signal') - FrameSamples, NEW part \in signal'[p]
        PROVE  part.decay = 0 /\ part.at > Len(signal') - FrameSamples
    <3>1. p > Len(signal)
      BY <1>1, <1>5, <2>1, HistoryFacts
    <3> QED BY <1>7, <2>1, <3>1
  <2>2. ASSUME NEW k \in 1..FrameSamples, NEW part \in last_good_frame'[k]
        PROVE  part.decay = 0 /\ part.at > Len(signal') - FrameSamples
    <3>1. part.at = Len(signal) + k /\ part.decay = 0
      BY <1>8
    <3> QED BY <1>1, <1>5, <3>1, HistoryFacts
  <2> QED BY <2>1, <2>2 DEF FreshEnd
<1>11. FadedEnd' /\ RecoveryIsFresh' /\ BurstFades'
  BY <1>2 DEF FadedEnd, RecoveryIsFresh, BurstFades, Parts
<1> QED BY <1>6, <1>9, <1>10, <1>11 DEF PlcInv

LEMMA SynthesizeKeeps ==
  ASSUME PlcInv, SynthesizeMissingFrame
  PROVE  PlcInv'
<1> DEFINE frame == out'
<1>1. RingInv /\ Len(signal) \in Nat /\ mode \in Modes /\ lost \in Nat /\ concealment_gain = lost
      /\ last_good_frame \in [1..FrameSamples -> SUBSET Part]
  BY DEF PlcInv, PlcTypes, RingInv
<1>2. /\ frame \in Concealed /\ AppendHistory(frame, FrameSamples)
      /\ concealment_gain' = lost + 1 /\ lost' = lost + 1
      /\ mode' = mode /\ last_good_frame' = last_good_frame /\ out' = frame
  BY <1>1 DEF SynthesizeMissingFrame
<1> HIDE DEF frame
<1>3. /\ frame \in [1..FrameSamples -> SUBSET Part]
      /\ \A k \in 1..FrameSamples : \A part \in frame[k] :
            /\ part.at \in 1..Len(signal)
            /\ lost = 0 /\ Len(signal) > 0 =>
                  part.decay = 0 /\ part.at > Len(signal) - FrameSamples
            /\ part.decay >= lost - (IF mode = "periodic_interpolated" THEN 0 ELSE 1)
            /\ k = FrameSamples => part.decay >= lost
  BY <1>2, ConcealedIs
<1>4. concealment_gain' \in Nat /\ lost' \in Nat /\ lost' > 0
  BY <1>1, <1>2
<1>5. /\ RingInv' /\ Len(signal') = Len(signal) + FrameSamples
      /\ \A p \in 1..Len(signal) : signal'[p] = signal[p]
      /\ \A p \in 1..Len(signal') : p > Len(signal) =>
            p - Len(signal) \in 1..FrameSamples /\ signal'[p] = frame[p - Len(signal)]
  BY <1>1, <1>2, <1>3, <1>4, AppendKeeps
<1>6. PlcTypes'
  BY <1>1, <1>2, <1>3, <1>4, <1>5, HistoryFacts DEF PlcTypes, Modes
<1>7. PartsHeard'
  <2>1. ASSUME NEW p \in 1..Len(signal'), NEW part \in signal'[p]
        PROVE  part.at \in 1..Len(signal')
    <3>1. part.at \in 1..Len(signal)
      <4>1. CASE p <= Len(signal)
        <5>1. p \in 1..Len(signal) /\ part \in signal[p]
          BY <1>1, <1>5, <2>1, <4>1
        <5> QED BY <5>1 DEF PlcInv, PartsHeard
      <4>2. CASE p > Len(signal)
        <5>1. p - Len(signal) \in 1..FrameSamples /\ part \in frame[p - Len(signal)]
          BY <1>5, <2>1, <4>2
        <5> QED BY <1>3, <5>1
      <4> QED BY <1>1, <4>1, <4>2
    <3> QED BY <1>1, <1>5, <3>1, HistoryFacts
  <2>2. ASSUME NEW k \in 1..FrameSamples, NEW part \in last_good_frame'[k]
        PROVE  part.at \in 1..Len(signal')
    <3>1. part.at \in 1..Len(signal)
      BY <1>2, <2>2 DEF PlcInv, PartsHeard
    <3> QED BY <1>1, <1>5, <3>1, HistoryFacts
  <2> QED BY <2>1, <2>2 DEF PartsHeard
<1>8. FreshEnd'
  BY <1>1, <1>2 DEF FreshEnd
<1>9. FadedEnd'
  <2>1. Len(signal') \in 1..Len(signal') /\ Len(signal') > Len(signal)
        /\ Len(signal') - Len(signal) = FrameSamples
    BY <1>1, <1>5, HistoryFacts
  <2>2. signal'[Len(signal')] = frame[FrameSamples] /\ FrameSamples \in 1..FrameSamples
    BY <1>5, <2>1
  <2>3. \A part \in signal'[Len(signal')] : part.decay >= lost
    BY <1>3, <2>2
  <2>4. lost' - 1 = lost
    BY <1>1, <1>2
  <2> QED BY <1>1, <2>1, <2>3, <2>4 DEF FadedEnd
<1>10. ASSUME NEW part \in Parts(out')
       PROVE  \E k \in 1..FrameSamples : part \in frame[k]
  BY <1>2, <1>3, <1>10 DEF Parts
<1>11. RecoveryIsFresh'
  <2> SUFFICES ASSUME lost' = 1, Len(signal') > FrameSamples, NEW part \in Parts(out')
               PROVE  part.decay = 0 /\ part.at > Len(signal') - 2 * FrameSamples
    BY DEF RecoveryIsFresh
  <2>1. lost = 0 /\ Len(signal) > 0
    BY <1>1, <1>2, <1>5, HistoryFacts
  <2>2. part.decay = 0 /\ part.at > Len(signal) - FrameSamples
    BY <1>3, <1>10, <2>1
  <2>3. Len(signal) - FrameSamples = Len(signal') - 2 * FrameSamples
    BY <1>1, <1>5, HistoryFacts
  <2> QED BY <2>2, <2>3
<1>12. BurstFades'
  <2> DEFINE less == IF mode = "periodic_interpolated" THEN 0 ELSE 1
             lessNext == IF mode' = "periodic_interpolated" THEN 1 ELSE 2
  <2>1. lost - less = lost' - lessNext
    BY <1>1, <1>2
  <2>2. \A part \in Parts(out') : part.decay >= lost - less
    BY <1>3, <1>10
  <2> HIDE DEF less, lessNext
  <2>3. \A part \in Parts(out') : part.decay >= lost' - lessNext
    BY <2>1, <2>2
  <2> QED BY <2>3 DEF BurstFades, lessNext
<1> QED BY <1>6, <1>7, <1>8, <1>9, <1>11, <1>12 DEF PlcInv

LEMMA PlcInvSound == PlcInv => ConcealmentIsSound
<1> SUFFICES ASSUME PlcInv PROVE ConcealmentIsSound
  OBVIOUS
<1>1. /\ signal \in Seq(SUBSET Part) /\ Len(signal) \in Nat
      /\ Follows(history_, history_write_index, history_size, signal)
  BY DEF PlcInv, PlcTypes, RingInv
<1>2. history_size = Least(Len(signal), HistorySamples) /\ history_size \in 0..HistorySamples
      /\ history_write_index \in 0..(HistorySamples - 1)
  <2>1. Len(signal) % HistorySamples \in 0..(HistorySamples - 1)
    <3> DEFINE n == Len(signal)
    <3>1. n \in Int
      BY <1>1
    <3> HIDE DEF n
    <3>2. n % HistorySamples \in 0..(HistorySamples - 1)
      BY <3>1, SlotRange
    <3> QED BY <3>2 DEF n
  <2> QED BY <1>1, <2>1, HistoryFacts DEF Follows, Least
<1>3. PlcTypeOK
  <2>1. ASSUME NEW part \in UNION {signal[k] : k \in DOMAIN signal}
        PROVE  part.at \in 1..Len(signal) /\ part.decay \in Nat
    <3>1. PICK k \in 1..Len(signal) : part \in signal[k]
      BY <1>1
    <3>2. part \in Part
      BY <1>1, <3>1
    <3> QED BY <3>1, <3>2 DEF PlcInv, PartsHeard, Part
  <2> QED BY <1>2, <2>1 DEF PlcInv, PlcTypes, RingInv, PlcTypeOK
<1>4. RingHoldsRecent
  <2>1. history_size = Min({Len(signal), HistorySamples})
    <3>1. Min({Len(signal), HistorySamples}) = Least(Len(signal), HistorySamples)
      BY <1>1, HistoryFacts, MinOfTwo DEF Least
    <3> QED BY <1>2, <3>1
  <2>2. ASSUME NEW offset \in 1..history_size
        PROVE  Recent(history_, history_write_index, history_size, offset)
                  = signal[Len(signal) + 1 - offset]
    BY <1>1, RecentIs
  <2> QED BY <2>1, <2>2 DEF RingHoldsRecent
<1>5. OffsetsInside
  <2> DEFINE half == history_size \div 2
             least == FrameSamples \div PeriodDivisor
  <2>1. half \in Nat /\ least \in Int /\ history_size \in Nat
    BY <1>2, HistoryFacts, EstimateAssumption
  <2> HIDE DEF half, least
  <2>2. MaxPeriod = Least(FrameSamples, half)
    BY <2>1, HistoryFacts, MinOfTwo DEF MaxPeriod, Least, half
  <2>3. MinPeriod = IF 1 >= least THEN 1 ELSE least
    BY <2>1, MaxOfTwo DEF MinPeriod, least
  <2> DEFINE rest == history_size - MaxPeriod
  <2>4. rest \in Int /\ MaxPeriod \in Int
    BY <2>1, <2>2, HistoryFacts DEF Least
  <2>5. Window = Min({FrameSamples, rest})
    BY DEF Window
  <2> HIDE DEF rest
  <2>6. Window <= rest /\ Window \in Int
    <3>1. Min({FrameSamples, rest}) = Least(FrameSamples, rest)
      BY <2>4, HistoryFacts, MinOfTwo DEF Least
    <3> QED BY <2>4, <2>5, <3>1, HistoryFacts DEF Least
  <2>7. Window + MaxPeriod <= history_size
    BY <2>1, <2>4, <2>6 DEF rest
  <2>8. MinPeriod >= 1
    BY <2>1, <2>3
  <2> QED BY <2>7, <2>8 DEF OffsetsInside
<1> QED BY <1>3, <1>4, <1>5 DEF PlcInv, ConcealmentIsSound

(* However long the signal and whatever periods are found, what is read from *)
(* the ring is the newest samples, a concealed frame after a good one is     *)
(* made of that frame alone, and a burst of losses fades (accept_good_frame, *)
(* synthesize_missing_frame).                                                *)
THEOREM ConcealsSoundly == PlcSpec => []ConcealmentIsSound
<1>1. PlcInit => PlcInv
  BY PlcInitInv
<1>2. PlcInv /\ [PlcNext]_plcVars => PlcInv'
  <2> SUFFICES ASSUME PlcInv, [PlcNext]_plcVars PROVE PlcInv'
    OBVIOUS
  <2>1. CASE PlcNext
    BY <2>1, AcceptKeeps, SynthesizeKeeps DEF PlcNext
  <2>2. CASE UNCHANGED plcVars
    BY <2>2 DEF plcVars, PlcInv, PlcTypes, RingInv, Follows, PartsHeard, FreshEnd, FadedEnd,
                RecoveryIsFresh, BurstFades, Parts
  <2> QED BY <2>1, <2>2
<1>3. PlcInv => ConcealmentIsSound
  BY PlcInvSound
<1> QED BY <1>1, <1>2, <1>3, PTL DEF PlcSpec

-----------------------------------------------------------------------------
(* LabPlayback: the preview, for all lengths of results, tails, sizes of   *)
(* callbacks and numbers of runs and inputs.                               *)

(* The invariant that is inductive: the playback buffer fits the result, so *)
(* what is sought in one stays inside the other, and the counters fit the  *)
(* cursor, so the one underrun is the one that ended the playback.         *)
PreviewInv ==
    /\ TypeOK
    /\ BufferMatchesResult
    /\ RenderedSinceStart
    /\ UnderrunOnlyAtEnd
    /\ DialogAccounted

LEMMA PreviewInitInv == Init => PreviewInv
  <1> SUFFICES ASSUME Init PROVE PreviewInv
    OBVIOUS
  <1>1. samples.size = 0 /\ samples.run = 0 /\ cursor \in 0..samples.size
    BY DEF Init, NoSamples
  <1>2. TypeOK
    BY <1>1 DEF Init, TypeOK, NoSamples
  <1>3. BufferMatchesResult /\ RenderedSinceStart /\ UnderrunOnlyAtEnd
    BY DEF Init, BufferMatchesResult, RenderedSinceStart, UnderrunOnlyAtEnd
  <1>4. DialogAccounted
    BY DEF Init, DialogAccounted
  <1> QED BY <1>2, <1>3, <1>4 DEF PreviewInv

(* What the GUI thread does when it drops the preview. *)
LEMMA ClearKeeps ==
  ASSUME PreviewInv, RunWithSeedPolicy, UNCHANGED <<audio_ok, result>>,
         selected_path' \in BOOLEAN, message' \in BOOLEAN, dialog' \in BOOLEAN,
         file_dialog_open' \in BOOLEAN, inputs' \in Nat
  PROVE  TypeOK' /\ BufferMatchesResult' /\ RenderedSinceStart' /\ UnderrunOnlyAtEnd'
  <1>1. /\ gui' = "simulating" /\ samples' = NoSamples /\ cursor' = 0 /\ playing' = FALSE
        /\ UNCHANGED <<callback_underruns, rendered_samples, origin>>
    BY DEF RunWithSeedPolicy, ClearPlayback
  <1>2. samples' \in [run : Nat, size : Nat] /\ samples'.size = 0
    BY <1>1 DEF NoSamples
  <1>3. cursor' \in 0..samples'.size
    BY <1>1, <1>2
  <1>4. TypeOK'
    BY <1>1, <1>2, <1>3 DEF PreviewInv, TypeOK
  <1>5. BufferMatchesResult' /\ RenderedSinceStart'
    BY <1>1 DEF BufferMatchesResult, RenderedSinceStart
  <1>6. UnderrunOnlyAtEnd'
    BY <1>1, <1>2 DEF PreviewInv, UnderrunOnlyAtEnd
  <1> QED BY <1>4, <1>5, <1>6

(* Whatever leaves the playback alone, and does not begin a simulation or   *)
(* end one, leaves its invariants alone.                                   *)
LEMMA PlaybackUntouched ==
  ASSUME PreviewInv, UNCHANGED <<audio_ok, result, playback>>,
         gui' = gui \/ gui' = "closed",
         selected_path' \in BOOLEAN, message' \in BOOLEAN, dialog' \in BOOLEAN,
         file_dialog_open' \in BOOLEAN, inputs' \in Nat
  PROVE  TypeOK' /\ BufferMatchesResult' /\ RenderedSinceStart' /\ UnderrunOnlyAtEnd'
  BY DEF PreviewInv, TypeOK, BufferMatchesResult, RenderedSinceStart, UnderrunOnlyAtEnd,
         playback, MakePlaybackSamples

(* A start at a position inside the audio, in the buffer of the result. *)
LEMMA StartKeeps ==
  ASSUME PreviewInv, NEW position \in Nat, position < result.length,
         gui = "idle", samples' = MakePlaybackSamples, StartFrom(position),
         UNCHANGED <<gui, audio_ok, result, dialogVars>>, inputs' \in Nat
  PROVE  PreviewInv'
  <1>1. samples' \in [run : Nat, size : Nat] /\ position \in 0..samples'.size
    BY TailAssumption DEF PreviewInv, TypeOK, MakePlaybackSamples
  <1>2. TypeOK'
    BY <1>1 DEF PreviewInv, TypeOK, StartFrom, dialogVars
  <1>3. BufferMatchesResult' /\ RenderedSinceStart' /\ UnderrunOnlyAtEnd' /\ DialogAccounted'
    BY <1>1 DEF PreviewInv, BufferMatchesResult, RenderedSinceStart, UnderrunOnlyAtEnd,
                DialogAccounted, StartFrom, MakePlaybackSamples, dialogVars
  <1> QED BY <1>2, <1>3 DEF PreviewInv
-----------------------------------------------------------------------------
LEMMA SimulateInv == ASSUME PreviewInv, Simulate PROVE PreviewInv'
  <1>1. DialogAccounted'
    BY DEF PreviewInv, Simulate, DialogAccounted, dialogVars
  <1>2. TypeOK' /\ BufferMatchesResult' /\ RenderedSinceStart' /\ UnderrunOnlyAtEnd'
    BY ClearKeeps DEF PreviewInv, TypeOK, Simulate, Input, dialogVars
  <1> QED BY <1>1, <1>2 DEF PreviewInv

LEMMA SimulationInv == ASSUME PreviewInv, Simulation PROVE PreviewInv'
  <1>1. PICK length \in Lengths : SimulationEnds(length)
    BY DEF Simulation
  <1>2. length \in Nat
    BY LengthsAssumption
  <1>3. samples = NoSamples /\ ~playing
    BY <1>1 DEF SimulationEnds, PreviewInv, BufferMatchesResult
  <1>4. TypeOK'
    BY <1>1, <1>2 DEF SimulationEnds, PreviewInv, TypeOK, playback, dialogVars
  <1>5. BufferMatchesResult' /\ RenderedSinceStart' /\ UnderrunOnlyAtEnd' /\ DialogAccounted'
    BY <1>1, <1>3 DEF SimulationEnds, PreviewInv, BufferMatchesResult, RenderedSinceStart,
                      UnderrunOnlyAtEnd, DialogAccounted, playback, dialogVars
  <1> QED BY <1>4, <1>5 DEF PreviewInv

LEMMA LoadAudioInv == ASSUME PreviewInv, LoadAudio PROVE PreviewInv'
  <1>1. DialogAccounted'
    BY DEF PreviewInv, LoadAudio, DialogAccounted, dialogVars
  <1>2. inputs' \in Nat /\ UNCHANGED <<audio_ok, result, dialogVars>>
    BY DEF LoadAudio, Input, PreviewInv, TypeOK
  <1>3. CASE RunWithSeedPolicy
    BY <1>1, <1>2, <1>3, ClearKeeps DEF PreviewInv, TypeOK, dialogVars
  <1>4. CASE UNCHANGED <<gui, playback>>
    BY <1>1, <1>2, <1>4, PlaybackUntouched DEF PreviewInv, TypeOK, dialogVars
  <1> QED BY <1>3, <1>4 DEF LoadAudio, LoadSelectedAudioPath

(* Play Preview meets either no buffer or the one of the result. *)
LEMMA ResumeInv == ASSUME PreviewInv, ResumeOrStartPlayback PROVE PreviewInv'
  <1>1. inputs' \in Nat /\ gui = "idle" /\ result.length > 0 /\ result.length \in Nat
    BY DEF ResumeOrStartPlayback, Input, PreviewInv, TypeOK
  <1>2. UNCHANGED <<gui, audio_ok, result, dialogVars>>
    BY DEF ResumeOrStartPlayback
  <1>3. CASE samples.size = 0
    <2>1. samples' = MakePlaybackSamples /\ StartFrom(0)
      BY <1>3 DEF ResumeOrStartPlayback
    <2> QED BY <1>1, <1>2, <2>1, StartKeeps
  <1>4. CASE samples.size # 0
    <2>1. samples' = MakePlaybackSamples /\ StartFrom(Resumed)
      BY <1>1, <1>4 DEF ResumeOrStartPlayback, PreviewInv, BufferMatchesResult, NoSamples
    <2>2. Resumed \in Nat /\ Resumed < result.length
      BY <1>1 DEF Resumed, PreviewInv, TypeOK
    <2> QED BY <1>1, <1>2, <2>1, <2>2, StartKeeps
  <1> QED BY <1>3, <1>4

LEMMA StopInv == ASSUME PreviewInv, StopPlayback PROVE PreviewInv'
  <1>1. /\ playing' = FALSE /\ inputs' \in Nat
        /\ UNCHANGED <<gui, audio_ok, result, samples, cursor, callback_underruns,
                       rendered_samples, origin, dialogVars>>
    BY DEF StopPlayback, Input, PreviewInv, TypeOK
  <1>2. TypeOK'
    BY <1>1 DEF PreviewInv, TypeOK, dialogVars
  <1>3. BufferMatchesResult'
    BY <1>1 DEF PreviewInv, BufferMatchesResult, MakePlaybackSamples
  <1>4. RenderedSinceStart' /\ UnderrunOnlyAtEnd' /\ DialogAccounted'
    BY <1>1 DEF PreviewInv, RenderedSinceStart, UnderrunOnlyAtEnd, DialogAccounted, dialogVars
  <1> QED BY <1>2, <1>3, <1>4 DEF PreviewInv

(* A buffer that is kept is longer than the result by its tail, so the     *)
(* test of the lengths never rebuilds one that is there.                   *)
LEMMA SeekInv ==
  ASSUME PreviewInv, NEW position \in 0..(result.length - 1), SeekPlaybackBuffer(position)
  PROVE  PreviewInv'
  <1>1. /\ inputs' \in Nat /\ gui = "idle" /\ StartFrom(position)
        /\ position < result.length /\ UNCHANGED <<gui, audio_ok, result, dialogVars>>
    BY DEF SeekPlaybackBuffer, Input, PreviewInv, TypeOK
  <1>2. position \in Nat
    BY DEF PreviewInv, TypeOK
  <1>3. samples' = MakePlaybackSamples
    BY <1>1, TailAssumption
       DEF SeekPlaybackBuffer, PreviewInv, TypeOK, BufferMatchesResult, NoSamples, MakePlaybackSamples
  <1> QED BY <1>1, <1>2, <1>3, StartKeeps

(* The callback moves the cursor and counts by the same amount, and stops   *)
(* at the end of the buffer.                                               *)
LEMMA CallbackInv == ASSUME PreviewInv, Callback PROVE PreviewInv'
  <1>1. PICK frame_count \in CallbackSizes : PlaybackCallback(frame_count)
    BY DEF Callback
  <1>2. frame_count \in Nat \ {0}
    BY CallbackSizesAssumption
  <1>3. /\ playing /\ samples # NoSamples /\ samples = MakePlaybackSamples
        /\ gui # "simulating" /\ callback_underruns = 0
    <2>1. playing
      BY <1>1 DEF PlaybackCallback
    <2>2. samples = MakePlaybackSamples /\ gui # "simulating" /\ callback_underruns = 0
      BY <2>1 DEF PreviewInv, BufferMatchesResult, UnderrunOnlyAtEnd
    <2>3. samples.size # 0
      BY <2>2, TailAssumption DEF PreviewInv, TypeOK, MakePlaybackSamples
    <2> QED BY <2>1, <2>2, <2>3 DEF NoSamples
  <1>4. /\ cursor \in Nat /\ samples.size \in Nat /\ cursor <= samples.size
        /\ rendered_samples \in Nat /\ origin \in Nat
        /\ rendered_samples = cursor - origin
    BY <1>3 DEF PreviewInv, TypeOK, RenderedSinceStart
  <1>5. UNCHANGED <<gui, audio_ok, result, samples, origin, dialogVars, inputs>>
    BY <1>1 DEF PlaybackCallback
  <1>6. CASE frame_count > samples.size - cursor
    <2>1. PlayRest
      BY <1>1, <1>6 DEF PlaybackCallback
    <2>2. cursor' = samples.size /\ rendered_samples' = samples.size - origin
      BY <2>1, <1>4 DEF PlayRest
    <2>3. rendered_samples' \in Nat /\ callback_underruns' = 1 /\ playing' = FALSE
      BY <2>1, <1>3, <1>4 DEF PlayRest
    <2>4. cursor' \in 0..samples'.size
      BY <1>4, <1>5, <2>2
    <2>5. TypeOK'
      BY <1>5, <2>3, <2>4 DEF PreviewInv, TypeOK, dialogVars
    <2>6. BufferMatchesResult' /\ RenderedSinceStart' /\ UnderrunOnlyAtEnd' /\ DialogAccounted'
      BY <1>3, <1>5, <2>2, <2>3 DEF PreviewInv, BufferMatchesResult, RenderedSinceStart,
         UnderrunOnlyAtEnd, DialogAccounted, dialogVars, MakePlaybackSamples
    <2> QED BY <2>5, <2>6 DEF PreviewInv
  <1>7. CASE ~(frame_count > samples.size - cursor)
    <2>1. PlayWhole(frame_count)
      BY <1>1, <1>7 DEF PlaybackCallback
    <2>2. /\ cursor' = cursor + frame_count /\ cursor' \in 0..samples.size
          /\ rendered_samples' = cursor' - origin /\ rendered_samples' \in Nat
          /\ callback_underruns' = 0 /\ playing'
      BY <2>1, <1>2, <1>3, <1>4, <1>7 DEF PlayWhole
    <2>3. TypeOK'
      BY <1>5, <2>2, <2>1 DEF PreviewInv, TypeOK, dialogVars, PlayWhole
    <2>4. BufferMatchesResult' /\ RenderedSinceStart' /\ UnderrunOnlyAtEnd' /\ DialogAccounted'
      BY <1>3, <1>5, <2>2 DEF PreviewInv, BufferMatchesResult, RenderedSinceStart,
         UnderrunOnlyAtEnd, DialogAccounted, dialogVars, MakePlaybackSamples
    <2> QED BY <2>3, <2>4 DEF PreviewInv
  <1> QED BY <1>6, <1>7

LEMMA BrowseInv == ASSUME PreviewInv, Browse PROVE PreviewInv'
  <1>1. DialogAccounted'
    BY DEF Browse, PreviewInv, DialogAccounted, TypeOK
  <1>2. TypeOK' /\ BufferMatchesResult' /\ RenderedSinceStart' /\ UnderrunOnlyAtEnd'
    BY PlaybackUntouched DEF Browse, Input, PreviewInv, TypeOK
  <1> QED BY <1>1, <1>2 DEF PreviewInv

LEMMA FileDialogInv == ASSUME PreviewInv, FileDialogCallback PROVE PreviewInv'
  <1>1. DialogAccounted'
    BY DEF FileDialogCallback, PreviewInv, DialogAccounted, TypeOK
  <1>2. TypeOK' /\ BufferMatchesResult' /\ RenderedSinceStart' /\ UnderrunOnlyAtEnd'
    BY PlaybackUntouched DEF FileDialogCallback, PreviewInv, TypeOK
  <1> QED BY <1>1, <1>2 DEF PreviewInv

(* The answer is taken and the flag reset in the same step; the dialog is   *)
(* no longer on the screen when there is an answer.                        *)
LEMMA PollDialogInv == ASSUME PreviewInv, PollDialog PROVE PreviewInv'
  <1>1. DialogAccounted'
    BY DEF PollDialog, PreviewInv, DialogAccounted, TypeOK
  <1>2. /\ UNCHANGED <<audio_ok, result, dialog, inputs>>
        /\ RunWithSeedPolicy \/ UNCHANGED <<gui, playback>>
        /\ selected_path' = FALSE /\ message' = FALSE /\ file_dialog_open' = FALSE
    BY DEF PollDialog, LoadSelectedAudioPath
  <1>3. TypeOK' /\ BufferMatchesResult' /\ RenderedSinceStart' /\ UnderrunOnlyAtEnd'
    BY <1>2, ClearKeeps, PlaybackUntouched DEF PreviewInv, TypeOK
  <1> QED BY <1>1, <1>3 DEF PreviewInv

LEMMA CloseInv == ASSUME PreviewInv, CloseWindow PROVE PreviewInv'
  <1>1. DialogAccounted'
    BY DEF CloseWindow, PreviewInv, DialogAccounted, dialogVars
  <1>2. TypeOK' /\ BufferMatchesResult' /\ RenderedSinceStart' /\ UnderrunOnlyAtEnd'
    BY PlaybackUntouched DEF CloseWindow, PreviewInv, TypeOK, dialogVars
  <1> QED BY <1>1, <1>2 DEF PreviewInv

LEMMA StutterInv == ASSUME PreviewInv, UNCHANGED vars PROVE PreviewInv'
  <1>1. DialogAccounted'
    BY DEF vars, PreviewInv, DialogAccounted, dialogVars
  <1>2. TypeOK' /\ BufferMatchesResult' /\ RenderedSinceStart' /\ UnderrunOnlyAtEnd'
    BY PlaybackUntouched DEF vars, PreviewInv, TypeOK, dialogVars
  <1> QED BY <1>1, <1>2 DEF PreviewInv

LEMMA PreviewNextInv == PreviewInv /\ [Next]_vars => PreviewInv'
  <1> SUFFICES ASSUME PreviewInv, [Next]_vars PROVE PreviewInv'
    OBVIOUS
  <1>1. CASE Simulate BY <1>1, SimulateInv
  <1>2. CASE Simulation BY <1>2, SimulationInv
  <1>3. CASE LoadAudio BY <1>3, LoadAudioInv
  <1>4. CASE ResumeOrStartPlayback BY <1>4, ResumeInv
  <1>5. CASE StopPlayback BY <1>5, StopInv
  <1>6. ASSUME NEW position \in 0..(result.length - 1), SeekPlaybackBuffer(position)
        PROVE  PreviewInv'
    BY <1>6, SeekInv
  <1>7. CASE Callback BY <1>7, CallbackInv
  <1>8. CASE Browse BY <1>8, BrowseInv
  <1>9. CASE FileDialogCallback BY <1>9, FileDialogInv
  <1>10. CASE PollDialog BY <1>10, PollDialogInv
  <1>11. CASE CloseWindow BY <1>11, CloseInv
  <1>12. CASE Closed BY <1>12, StutterInv DEF Closed
  <1>13. CASE UNCHANGED vars BY <1>13, StutterInv
  <1> QED BY <1>1, <1>2, <1>3, <1>4, <1>5, <1>6, <1>7, <1>8, <1>9, <1>10, <1>11,
             <1>12, <1>13 DEF Next

(* Every reachable state satisfies the inductive invariant. *)
THEOREM PreviewInvariance == Spec => []PreviewInv
  BY PreviewInitInv, PreviewNextInv, PTL DEF Spec
-----------------------------------------------------------------------------
(* The cursor never leaves the buffer the callback reads from, no preview   *)
(* of an earlier result is kept or played, and the counters on the screen   *)
(* belong to the running playback, whose one underrun is its end.          *)
THEOREM PreviewConsistent == Spec => []PreviewFits
  <1>1. PreviewInv => PreviewFits
    BY DEF PreviewInv, PreviewFits
  <1> QED BY <1>1, PreviewInvariance, PTL

(* At most one file dialog is open, and the button works when none is. *)
THEOREM OneDialog == Spec => []DialogAccounted
  <1>1. PreviewInv => DialogAccounted
    BY DEF PreviewInv
  <1> QED BY <1>1, PreviewInvariance, PTL

(* Every start of a preview is inside its audio. *)
THEOREM AudibleStart == Spec => StartsInAudio
  <1>1. ASSUME PreviewInv, [Next]_vars, ~playing, playing'
        PROVE  cursor' < result.length
    <2>1. CASE ResumeOrStartPlayback
      <3>1. result.length > 0 /\ result.length \in Nat /\ cursor \in Nat
        BY <1>1, <2>1 DEF ResumeOrStartPlayback, PreviewInv, TypeOK
      <3>2. Resumed < result.length
        BY <3>1 DEF Resumed
      <3>3. cursor' = 0 \/ cursor' = Resumed
        BY <2>1 DEF ResumeOrStartPlayback, StartFrom
      <3> QED BY <3>1, <3>2, <3>3
    <2>2. ASSUME NEW position \in 0..(result.length - 1), SeekPlaybackBuffer(position)
          PROVE  cursor' < result.length
      BY <2>2 DEF SeekPlaybackBuffer, StartFrom
    <2>3. RunWithSeedPolicy \/ UNCHANGED playback => FALSE
      BY <1>1 DEF RunWithSeedPolicy, ClearPlayback, playback
    <2>4. CASE Simulate \/ Simulation \/ LoadAudio \/ StopPlayback
      BY <1>1, <2>4, <2>3 DEF Simulate, Simulation, SimulationEnds, LoadAudio, StopPlayback,
         LoadSelectedAudioPath
    <2>5. CASE Callback
      BY <1>1, <2>5 DEF Callback, PlaybackCallback
    <2>6. CASE Browse \/ FileDialogCallback \/ PollDialog \/ CloseWindow \/ Closed \/ UNCHANGED vars
      BY <1>1, <2>6, <2>3 DEF Browse, FileDialogCallback, PollDialog, CloseWindow, Closed, vars,
         LoadSelectedAudioPath
    <2> QED BY <1>1, <2>1, <2>2, <2>4, <2>5, <2>6 DEF Next
  <1>2. PreviewInv /\ [Next]_vars => [~playing /\ playing' => cursor' < result.length]_vars
    BY <1>1
  <1> QED BY PreviewInitInv, PreviewNextInv, <1>2, PTL DEF Spec, StartsInAudio

-----------------------------------------------------------------------------
(* WireFormat: what is sent fits, and what is accepted lies inside the       *)
(* datagram, for every width of a byte and every size of packet.            *)

LEMMA WireFacts ==
  /\ ByteBase \in Nat /\ ByteBase > 3 /\ Word16 \in Nat /\ Word16 > 0
  /\ Word32 \in Nat /\ Word32 > 0
  /\ MaxOpusPacketBytes \in Nat /\ MaxPayloadBytes \in Nat /\ MaxPayloadBytes < Word16
  /\ FramePayloadBytes \in Nat /\ FramePayloadBytes > 0
  /\ FramePayloadBytes <= MaxPayloadBytes
  /\ BundleHeaderBytes + MaxOpusPacketBytes <= MaxPayloadBytes
<1>1. ByteBase \in Nat /\ ByteBase > 3
  BY MagicAssumption DEF MaxRedundantOpusFrames
<1>2. Word16 \in Nat /\ Word16 > 0
  BY <1>1 DEF Word16
<1>3. Word32 \in Nat /\ Word32 > 0
  BY <1>2 DEF Word32
<1> QED BY <1>1, <1>2, <1>3, PacketSizesAssumption

(* A digit is a byte. *)
LEMMA DigitIsByte == ASSUME NEW n \in Nat PROVE n % ByteBase \in Bytes
  BY WireFacts DEF Bytes

LEMMA DivideNat ==
  ASSUME NEW n \in Nat, NEW d \in Nat, d > 0
  PROVE  n \div d \in Nat
  OBVIOUS

LEMMA U16Is ==
  ASSUME NEW value \in Nat
  PROVE  U16(value) \in Seq(Bytes) /\ Len(U16(value)) = 2
<1>1. value \div ByteBase \in Nat
  BY DivideNat, WireFacts
<1>2. (value \div ByteBase) % ByteBase \in Bytes /\ value % ByteBase \in Bytes
  BY <1>1, DigitIsByte
<1> QED BY <1>2 DEF U16

(* Bytes written one after the other. *)
Joined(u, s, t) ==
    /\ u \in Seq(Bytes) /\ Len(u) = Len(s) + Len(t)
    /\ \A n \in 1..Len(s) : u[n] = s[n]
    /\ \A k \in 1..Len(t) : u[Len(s) + k] = t[k]

LEMMA BytesJoined ==
  ASSUME NEW s \in Seq(Bytes), NEW t \in Seq(Bytes)
  PROVE  Joined(s \o t, s, t)
<1>1. Len(s) \in Nat /\ Len(t) \in Nat
  OBVIOUS
<1> QED BY <1>1 DEF Joined

LEMMA U32Is ==
  ASSUME NEW value \in Nat
  PROVE  U32(value) \in Seq(Bytes) /\ Len(U32(value)) = 4
<1>1. value \div Word16 \in Nat
  BY DivideNat, WireFacts
<1>2. /\ U16(value \div Word16) \in Seq(Bytes) /\ Len(U16(value \div Word16)) = 2
      /\ U16(value) \in Seq(Bytes) /\ Len(U16(value)) = 2
  BY <1>1, U16Is
<1> DEFINE high == U16(value \div Word16)
           low == U16(value)
<1>3. U32(value) = high \o low
  BY DEF U32
<1>4. high \in Seq(Bytes) /\ Len(high) = 2 /\ low \in Seq(Bytes) /\ Len(low) = 2
  BY <1>2
<1> HIDE DEF high, low
<1>5. Joined(U32(value), high, low)
  BY <1>3, <1>4, BytesJoined, Zenon
<1>6. U32(value) \in Seq(Bytes) /\ Len(U32(value)) = Len(high) + Len(low)
  BY <1>5, Zenon DEF Joined
<1> QED BY <1>4, <1>6

(* What was written as a u16 is read back. *)
LEMMA ReadsBack16 ==
  ASSUME NEW value \in Nat, value < Word16
  PROVE  U16(value)[1] * ByteBase + U16(value)[2] = value
<1> DEFINE q == value \div ByteBase
           r == value % ByteBase
<1>1. /\ value = ByteBase * q + r /\ q \in Nat /\ r \in 0..(ByteBase - 1)
      /\ U16(value) = <<q % ByteBase, r>>
  <2>1. q \in Nat
    BY DivideNat, WireFacts
  <2> QED BY <2>1, WireFacts DEF U16
<1> HIDE DEF q, r
<1>2. q < ByteBase
  <2>1. SUFFICES ASSUME q >= ByteBase PROVE FALSE
    BY <1>1, WireFacts
  <2>2. PICK d \in Nat : q = ByteBase + d
    <3>1. q - ByteBase \in Nat /\ q = ByteBase + (q - ByteBase)
      BY <1>1, <2>1, WireFacts
    <3> QED BY <3>1
  <2>3. ByteBase * q = ByteBase * ByteBase + ByteBase * d /\ ByteBase * d \in Nat
    BY <2>2, WireFacts
  <2> QED BY <1>1, <2>3, WireFacts DEF Word16
<1>3. q % ByteBase = q
  BY <1>1, <1>2, WireFacts
<1>4. q * ByteBase = ByteBase * q
  BY <1>1, WireFacts
<1> QED BY <1>1, <1>3, <1>4

(* Two bytes read as a u16, four as a u32. *)
LEMMA DigitsInRange ==
  ASSUME NEW base \in Nat, base > 0, NEW a \in 0..(base - 1), NEW bound \in Nat, bound > 0,
         NEW b \in 0..(bound - 1)
  PROVE  a * bound + b \in 0..(base * bound - 1)
<1>1. PICK d \in Nat : base = a + 1 + d
  <2>1. base - a - 1 \in Nat /\ base = a + 1 + (base - a - 1)
    OBVIOUS
  <2> QED BY <2>1
<1>2. base * bound = a * bound + bound + d * bound
  BY <1>1
<1>3. a * bound \in Nat /\ d * bound \in Nat
  BY <1>1
<1>4. PICK x \in Nat, y \in Nat : x = a * bound /\ y = d * bound
  BY <1>3
<1> QED BY <1>2, <1>4

LEMMA Read16InRange ==
  ASSUME NEW bytes \in Seq(Bytes), NEW offset \in Nat, offset + 2 <= Len(bytes)
  PROVE  ReadU16(bytes, offset) \in 0..(Word16 - 1)
<1>1. bytes[offset + 1] \in Bytes /\ bytes[offset + 2] \in Bytes
  OBVIOUS
<1>2. bytes[offset + 1] * ByteBase + bytes[offset + 2] \in 0..(ByteBase * ByteBase - 1)
  <2>1. ByteBase \in Nat /\ ByteBase > 0
    BY WireFacts
  <2>2. ASSUME NEW a \in Bytes, NEW b \in Bytes
        PROVE  a * ByteBase + b \in 0..(ByteBase * ByteBase - 1)
    BY <2>1, <2>2, DigitsInRange, Zenon DEF Bytes
  <2> QED BY <1>1, <2>2
<1> QED BY <1>2 DEF ReadU16, Word16

LEMMA Read32InRange ==
  ASSUME NEW bytes \in Seq(Bytes), NEW offset \in Nat, offset + 4 <= Len(bytes)
  PROVE  ReadU32(bytes, offset) \in 0..(Word32 - 1)
<1>1. /\ ReadU16(bytes, offset) \in 0..(Word16 - 1)
      /\ ReadU16(bytes, offset + 2) \in 0..(Word16 - 1)
  <2>1. offset + 2 \in Nat /\ offset + 2 <= Len(bytes) /\ (offset + 2) + 2 <= Len(bytes)
    OBVIOUS
  <2> QED BY <2>1, Read16InRange
<1>2. ReadU16(bytes, offset) * Word16 + ReadU16(bytes, offset + 2) \in 0..(Word16 * Word16 - 1)
  BY <1>1, DigitsInRange, WireFacts
<1> QED BY <1>2 DEF ReadU32, Word32

(* Bytes that are all there are copied as they are. *)
LEMMA CopyIs ==
  ASSUME NEW bytes \in Seq(Bytes), NEW offset \in Nat, NEW size \in Nat,
         offset + size <= Len(bytes)
  PROVE  /\ CopyBytes(bytes, offset, size) \in Seq(Bytes)
         /\ Len(CopyBytes(bytes, offset, size)) = size
         /\ Stale \notin ToSet(CopyBytes(bytes, offset, size))
<1> DEFINE copy == CopyBytes(bytes, offset, size)
<1>1. copy = [j \in 1..size |-> IF offset + j <= Len(bytes) THEN bytes[offset + j] ELSE Stale]
  BY DEF CopyBytes
<1>2. ASSUME NEW j \in 1..size PROVE copy[j] \in Bytes
  <2>1. offset + j \in 1..Len(bytes)
    OBVIOUS
  <2> QED BY <1>1, <2>1
<1> HIDE DEF copy
<1>3. copy \in [1..size -> Bytes]
  BY <1>1, <1>2
<1>4. copy \in Seq(Bytes) /\ Len(copy) = size /\ DOMAIN copy = 1..size
  BY <1>3
<1>5. Stale \notin ToSet(copy)
  BY <1>2, <1>4, MagicAssumption DEF ToSet
<1> QED BY <1>4, <1>5 DEF copy

(* What was written is read: s lies in u from the offset on.               *)
Holds(u, offset, s) ==
    /\ u \in Seq(Bytes) /\ s \in Seq(Bytes) /\ offset \in Nat
    /\ offset + Len(s) <= Len(u)
    /\ \A j \in 1..Len(s) : u[offset + j] = s[j]

LEMMA JoinedHolds ==
  ASSUME NEW s \in Seq(Bytes), NEW t \in Seq(Bytes), NEW u, Joined(u, s, t)
  PROVE  Holds(u, 0, s) /\ Holds(u, Len(s), t)
<1> DEFINE m == Len(s)
           n == Len(t)
<1>1. m \in Nat /\ n \in Nat
  OBVIOUS
<1>2. /\ u \in Seq(Bytes) /\ Len(u) = m + n
      /\ \A j \in 1..m : u[j] = s[j]
      /\ \A j \in 1..n : u[m + j] = t[j]
  BY DEF Joined
<1>3. \A j \in 1..m : u[0 + j] = s[j]
  BY <1>1, <1>2
<1>4. 0 + m <= Len(u) /\ m + n <= Len(u)
  BY <1>1, <1>2
<1> QED BY <1>1, <1>2, <1>3, <1>4 DEF Holds

(* What was written last follows what was written before.                 *)
Appended(u, s, t, m, n) ==
    /\ u \in Seq(Bytes) /\ Len(u) = m + n /\ Holds(u, 0, s) /\ Holds(u, m, t)

LEMMA BytesAppended ==
  ASSUME NEW s \in Seq(Bytes), NEW t \in Seq(Bytes), NEW m, NEW n, Len(s) = m, Len(t) = n
  PROVE  Appended(s \o t, s, t, m, n)
<1> DEFINE u == s \o t
<1>1. Joined(u, s, t)
  BY BytesJoined, Zenon
<1>2. Holds(u, 0, s) /\ Holds(u, Len(s), t)
  BY <1>1, JoinedHolds, Zenon
<1>3. u \in Seq(Bytes) /\ Len(u) = Len(s) + Len(t)
  BY <1>1, Zenon DEF Joined
<1> HIDE DEF u
<1>4. Appended(u, s, t, m, n)
  BY <1>2, <1>3, Zenon DEF Appended
<1> QED BY <1>4 DEF u

LEMMA HoldsThrough ==
  ASSUME NEW u, NEW v, NEW s, NEW a, NEW b, NEW c, Holds(u, a, v), Holds(v, b, s), c = a + b
  PROVE  Holds(u, c, s)
<1>1. /\ a \in Nat /\ b \in Nat /\ c \in Nat /\ Len(s) \in Nat /\ Len(v) \in Nat /\ Len(u) \in Nat
      /\ u \in Seq(Bytes) /\ s \in Seq(Bytes)
      /\ a + Len(v) <= Len(u) /\ b + Len(s) <= Len(v)
  BY DEF Holds
<1>2. c + Len(s) <= Len(u)
  BY <1>1
<1>3. ASSUME NEW j \in 1..Len(s) PROVE u[c + j] = s[j]
  <2>1. b + j \in 1..Len(v) /\ a + (b + j) = c + j
    BY <1>1
  <2>2. u[a + (b + j)] = v[b + j]
    BY <2>1 DEF Holds
  <2>3. v[b + j] = s[j]
    BY DEF Holds
  <2> QED BY <2>1, <2>2, <2>3
<1> QED BY <1>1, <1>2, <1>3 DEF Holds

LEMMA HoldsAfter ==
  ASSUME NEW u, NEW v, NEW s, NEW a, NEW b, Holds(u, a, v), Holds(v, b, s)
  PROVE  Holds(u, a + b, s)
<1> DEFINE c == a + b
<1>1. c = a + b
  OBVIOUS
<1> HIDE DEF c
<1>2. Holds(u, c, s)
  BY <1>1, HoldsThrough, Zenon
<1> QED BY <1>2 DEF c

LEMMA HoldsWithin ==
  ASSUME NEW u, NEW v, NEW s, NEW n \in Nat, Holds(u, 0, v), Holds(v, n, s)
  PROVE  Holds(u, n, s)
<1>1. n = 0 + n
  OBVIOUS
<1> QED BY <1>1, HoldsThrough, Zenon

LEMMA HoldsCopy ==
  ASSUME NEW u, NEW offset, NEW s, Holds(u, offset, s)
  PROVE  CopyBytes(u, offset, Len(s)) = s
<1> DEFINE copy == CopyBytes(u, offset, Len(s))
<1>1. /\ offset \in Nat /\ Len(s) \in Nat /\ Len(u) \in Nat /\ s \in Seq(Bytes)
      /\ offset + Len(s) <= Len(u)
  BY DEF Holds
<1>2. copy = [j \in 1..Len(s) |-> IF offset + j <= Len(u) THEN u[offset + j] ELSE Stale]
  BY DEF CopyBytes
<1>3. ASSUME NEW j \in 1..Len(s) PROVE copy[j] = s[j]
  <2>1. offset + j <= Len(u)
    BY <1>1
  <2>2. u[offset + j] = s[j]
    BY DEF Holds
  <2> QED BY <1>2, <2>1, <2>2
<1> DEFINE same == [j \in 1..Len(s) |-> s[j]]
<1>4. s = same
  <2> HIDE DEF Bytes
  <2> QED BY <1>1
<1>5. copy = same
  <2>1. copy = [j \in 1..Len(s) |-> copy[j]]
    BY <1>2
  <2> HIDE DEF copy
  <2> QED BY <1>3, <2>1
<1> HIDE DEF same, copy
<1>6. copy = s
  BY <1>4, <1>5
<1> QED BY <1>6 DEF copy

LEMMA HoldsRead16 ==
  ASSUME NEW u, NEW offset, NEW value \in Nat, value < Word16, Holds(u, offset, U16(value))
  PROVE  ReadU16(u, offset) = value
<1>1. Len(U16(value)) = 2
  BY U16Is
<1>2. u[offset + 1] = U16(value)[1] /\ u[offset + 2] = U16(value)[2]
  BY <1>1 DEF Holds
<1> HIDE DEF U16
<1> QED BY <1>2, ReadsBack16 DEF ReadU16

(* Quotient and remainder are the only ones.                               *)
LEMMA DivModIs ==
  ASSUME NEW d \in Nat, d > 0, NEW a \in Nat, NEW b \in 0..(d - 1), NEW n \in Nat, n = d * a + b
  PROVE  n \div d = a /\ n % d = b
<1> DEFINE q == n \div d
           r == n % d
<1>1. n = d * q + r /\ q \in Nat /\ r \in 0..(d - 1)
  BY DivideNat
<1> HIDE DEF q, r
<1>2. ~(q > a)
  <2>1. SUFFICES ASSUME q > a PROVE FALSE
    BY <1>1
  <2>2. PICK x \in Nat : q = a + 1 + x
    <3>1. q - a - 1 \in Nat /\ q = a + 1 + (q - a - 1)
      BY <1>1, <2>1
    <3> QED BY <3>1
  <2>3. d * q = d * a + d + d * x /\ d * x \in Nat /\ d * a \in Nat
    BY <2>2
  <2> QED BY <1>1, <2>3
<1>3. ~(q < a)
  <2>1. SUFFICES ASSUME q < a PROVE FALSE
    BY <1>1
  <2>2. PICK x \in Nat : a = q + 1 + x
    <3>1. a - q - 1 \in Nat /\ a = q + 1 + (a - q - 1)
      BY <1>1, <2>1
    <3> QED BY <3>1
  <2>3. d * a = d * q + d + d * x /\ d * x \in Nat /\ d * q \in Nat
    BY <1>1, <2>2
  <2> QED BY <1>1, <2>3
<1>4. q = a
  BY <1>1, <1>2, <1>3
<1>5. r = b
  <2>1. PICK e \in Nat : e = d * a
    OBVIOUS
  <2> QED BY <1>1, <1>4, <2>1
<1> QED BY <1>4, <1>5 DEF q, r

(* A u16 keeps the remainder of a number.                                  *)
LEMMA KeepsRemainder ==
  ASSUME NEW value \in Nat
  PROVE  U16(value) = U16(value % Word16)
<1> DEFINE q == value \div Word16
           r == value % Word16
           x == r \div ByteBase
           y == r % ByteBase
<1>1. value = Word16 * q + r /\ q \in Nat /\ r \in Nat
  BY DivideNat, WireFacts
<1>2. r = ByteBase * x + y /\ x \in Nat /\ y \in 0..(ByteBase - 1)
  <2> HIDE DEF r
  <2> QED BY <1>1, DivideNat, WireFacts
<1> HIDE DEF q, r, x, y
<1> DEFINE z == ByteBase * q + x
<1>3. z \in Nat
  BY <1>1, <1>2, WireFacts
<1>4. value = ByteBase * z + y
  <2>1. Word16 * q = ByteBase * (ByteBase * q)
    BY <1>1, WireFacts DEF Word16
  <2>2. PICK e \in Nat : e = ByteBase * q
    BY <1>1, WireFacts
  <2>3. ByteBase * (e + x) = ByteBase * e + ByteBase * x
    BY <1>2, <2>2, WireFacts
  <2>4. PICK f \in Nat, g \in Nat : f = ByteBase * e /\ g = ByteBase * x
    BY <1>2, <2>2, WireFacts
  <2>5. ByteBase * z = f + g /\ Word16 * q = f
    BY <2>1, <2>2, <2>3, <2>4
  <2> QED BY <1>1, <1>2, <2>4, <2>5
<1> HIDE DEF z
<1>5. value \div ByteBase = z /\ value % ByteBase = y
  BY <1>2, <1>3, <1>4, DivModIs, WireFacts
<1>6. z % ByteBase = x % ByteBase
  <2> DEFINE u == x \div ByteBase
             v == x % ByteBase
  <2>1. x = ByteBase * u + v /\ u \in Nat /\ v \in 0..(ByteBase - 1)
    BY <1>2, DivideNat, WireFacts
  <2> HIDE DEF u, v
  <2>2. z = ByteBase * (q + u) + v /\ q + u \in Nat
    <3>1. ByteBase * (q + u) = ByteBase * q + ByteBase * u
      BY <1>1, <2>1, WireFacts
    <3>2. PICK f \in Nat, g \in Nat : f = ByteBase * q /\ g = ByteBase * u
      BY <1>1, <2>1, WireFacts
    <3> QED BY <1>1, <2>1, <3>1, <3>2 DEF z
  <2>3. z % ByteBase = v
    <3> DEFINE w == q + u
    <3>1. z = ByteBase * w + v /\ w \in Nat
      BY <2>2
    <3> HIDE DEF w
    <3> QED BY <1>3, <2>1, <3>1, DivModIs, WireFacts
  <2> QED BY <2>3 DEF v
<1>7. r \div ByteBase = x /\ r % ByteBase = y
  BY DEF x, y
<1> QED BY <1>5, <1>6, <1>7 DEF U16, r

LEMMA HoldsRead32 ==
  ASSUME NEW u, NEW offset, NEW value \in Nat, value < Word32, Holds(u, offset, U32(value))
  PROVE  ReadU32(u, offset) = value
<1> DEFINE q == value \div Word16
           r == value % Word16
           high == U16(q)
           low == U16(r)
<1>1. value = Word16 * q + r /\ q \in Nat /\ r \in Nat /\ r < Word16
  BY DivideNat, WireFacts
<1>2. U32(value) = high \o low
  BY KeepsRemainder DEF U32
<1> HIDE DEF q, r
<1>3. q < Word16
  <2>1. SUFFICES ASSUME q >= Word16 PROVE FALSE
    BY <1>1, WireFacts
  <2>2. PICK d \in Nat : q = Word16 + d
    <3>1. q - Word16 \in Nat /\ q = Word16 + (q - Word16)
      BY <1>1, <2>1, WireFacts
    <3> QED BY <3>1
  <2>3. Word16 * q = Word16 * Word16 + Word16 * d /\ Word16 * d \in Nat
    BY <2>2, WireFacts
  <2> QED BY <1>1, <2>3, WireFacts DEF Word32
<1>4. /\ high \in Seq(Bytes) /\ Len(high) = 2 /\ low \in Seq(Bytes) /\ Len(low) = 2
  BY <1>1, U16Is
<1> DEFINE both == U32(value)
<1>5. Joined(both, high, low)
  <2> HIDE DEF high, low
  <2> QED BY <1>2, <1>4, BytesJoined, Zenon
<1> HIDE DEF high, low, both
<1>6. Holds(both, 0, high) /\ Holds(both, Len(high), low)
  BY <1>4, <1>5, JoinedHolds, Zenon
<1>7. offset \in Nat /\ Holds(u, offset, both)
  BY DEF Holds, both
<1>8. Holds(u, offset, high)
  <2>1. offset = offset + 0
    BY <1>7
  <2> QED BY <1>6, <1>7, <2>1, HoldsThrough, Zenon
<1>9. Holds(u, offset + 2, low)
  <2> DEFINE after == offset + 2
  <2>1. after = offset + Len(high)
    BY <1>4
  <2> HIDE DEF after
  <2>2. Holds(u, after, low)
    BY <1>6, <1>7, <2>1, HoldsThrough, Zenon
  <2> QED BY <2>2 DEF after
<1>10. ReadU16(u, offset) = q /\ ReadU16(u, offset + 2) = r
  BY <1>1, <1>3, <1>8, <1>9, HoldsRead16 DEF high, low
<1>11. q * Word16 = Word16 * q
  BY <1>1, WireFacts
<1> QED BY <1>1, <1>10, <1>11 DEF ReadU32

(* The header: 16 bytes, each field where it is read, before the payload. *)
Headed(written, sequence, timestamp, size, payload) ==
    /\ written \in Seq(Bytes) /\ Len(written) = HeaderSizeBytes + Len(payload)
    /\ Holds(written, HeaderSizeBytes, payload)
    /\ ParseHeader(written) = [magic |-> Magic, version |-> Version, sequence |-> sequence,
                               timestamp_samples |-> timestamp, payload_size |-> size]

LEMMA HeaderIs ==
  ASSUME NEW sequence \in Nat, sequence < Word32, NEW timestamp \in Nat, timestamp < Word32,
         NEW size \in Nat, size < Word16, NEW payload \in Seq(Bytes),
         NEW said, said = [sequence |-> sequence, timestamp_samples |-> timestamp,
                           payload_size |-> size]
  PROVE  Headed(SerializeHeader(said) \o payload, sequence, timestamp, size, payload)
<1> DEFINE magic == U16(Magic)
           version == <<Version, 0>>
           first == U32(sequence)
           second == U32(timestamp)
           third == U16(size)
           crc == U16(0)
           start == magic \o version
           begun == start \o first
           upTo == begun \o second
           sized == upTo \o third
           whole == sized \o crc
           sent == whole \o payload
<1>1. /\ magic \in Seq(Bytes) /\ Len(magic) = 2 /\ Magic \in Nat /\ Magic < Word16
      /\ version \in Seq(Bytes) /\ Len(version) = 2 /\ version[1] = Version
      /\ crc \in Seq(Bytes) /\ Len(crc) = 2
  <2>1. Magic \in Nat /\ Magic < Word16 /\ Version \in Bytes /\ 0 \in Bytes
    BY MagicAssumption, WireFacts DEF Bytes
  <2> QED BY <2>1, U16Is
<1>2. /\ first \in Seq(Bytes) /\ Len(first) = 4 /\ second \in Seq(Bytes) /\ Len(second) = 4
      /\ third \in Seq(Bytes) /\ Len(third) = 2
  BY U16Is, U32Is
<1>3. SerializeHeader(said) \o payload = sent
  BY DEF SerializeHeader
<1> HIDE DEF magic, version, first, second, third, crc
<1>4. /\ start \in Seq(Bytes) /\ Len(start) = 4
      /\ Holds(start, 0, magic) /\ Holds(start, 2, version)
  <2>1. Appended(start, magic, version, 2, 2)
    BY <1>1, BytesAppended, Zenon
  <2> HIDE DEF start
  <2> QED BY <2>1 DEF Appended
<1> HIDE DEF start
<1>5. /\ begun \in Seq(Bytes) /\ Len(begun) = 8
      /\ Holds(begun, 0, start) /\ Holds(begun, 4, first)
  <2>1. Appended(begun, start, first, 4, 4)
    BY <1>2, <1>4, BytesAppended, Zenon
  <2> HIDE DEF begun
  <2> QED BY <2>1 DEF Appended
<1> HIDE DEF begun
<1>6. /\ upTo \in Seq(Bytes) /\ Len(upTo) = 12
      /\ Holds(upTo, 0, begun) /\ Holds(upTo, 8, second)
  <2>1. Appended(upTo, begun, second, 8, 4)
    BY <1>2, <1>5, BytesAppended, Zenon
  <2> HIDE DEF upTo
  <2> QED BY <2>1 DEF Appended
<1> HIDE DEF upTo
<1>7. /\ sized \in Seq(Bytes) /\ Len(sized) = 14
      /\ Holds(sized, 0, upTo) /\ Holds(sized, 12, third)
  <2>1. Appended(sized, upTo, third, 12, 2)
    BY <1>2, <1>6, BytesAppended, Zenon
  <2> HIDE DEF sized
  <2> QED BY <2>1 DEF Appended
<1> HIDE DEF sized
<1>8. whole \in Seq(Bytes) /\ Len(whole) = 16 /\ Holds(whole, 0, sized)
  <2>1. Appended(whole, sized, crc, 14, 2)
    BY <1>1, <1>7, BytesAppended, Zenon
  <2> HIDE DEF whole
  <2> QED BY <2>1 DEF Appended
<1> HIDE DEF whole
<1>9. /\ sent \in Seq(Bytes) /\ Len(sent) = 16 + Len(payload)
      /\ Holds(sent, 0, whole) /\ Holds(sent, 16, payload)
  <2>1. Appended(sent, whole, payload, 16, Len(payload))
    BY <1>8, BytesAppended, Zenon
  <2> HIDE DEF sent
  <2> QED BY <2>1 DEF Appended
<1> HIDE DEF sent
<1>11. Holds(sent, 0, sized) /\ Holds(sent, 0, upTo) /\ Holds(sent, 0, begun) /\ Holds(sent, 0, start)
  BY <1>5, <1>6, <1>7, <1>8, <1>9, HoldsWithin
<1>13. /\ Holds(sent, 0, magic) /\ Holds(sent, 2, version) /\ Holds(sent, 4, first)
       /\ Holds(sent, 8, second) /\ Holds(sent, 12, third)
  BY <1>4, <1>5, <1>6, <1>7, <1>11, HoldsWithin
<1>14. sent[3] = Version
  <2>1. sent[2 + 1] = version[1]
    BY <1>1, <1>13 DEF Holds
  <2> QED BY <1>1, <2>1
<1>15. ReadU16(sent, 0) = Magic /\ ReadU16(sent, 12) = size
  BY <1>1, <1>13, HoldsRead16 DEF magic, third
<1>16. ReadU32(sent, 4) = sequence /\ ReadU32(sent, 8) = timestamp
  BY <1>13, HoldsRead32 DEF first, second
<1>17. Headed(sent, sequence, timestamp, size, payload)
  BY <1>9, <1>14, <1>15, <1>16 DEF Headed, HeaderSizeBytes, ParseHeader
<1> QED BY <1>3, <1>17, Zenon

-----------------------------------------------------------------------------
(* Packets as the two programs encode them.                                *)
Payloads == {payload \in Seq(Bytes) : Len(payload) \in 1..MaxPayloadBytes}
Packets == [sequence : 0..(Word32 - 1), timestamp_samples : 0..(Word32 - 1), payload : Payloads]

LEMMA PacketFacts ==
  ASSUME NEW packet \in Packets
  PROVE  /\ IsPacket(packet) /\ packet.payload \in Seq(Bytes)
         /\ Len(packet.payload) \in 1..MaxPayloadBytes /\ Len(packet.payload) \in Nat
         /\ Len(packet.payload) < Word16
         /\ packet.sequence \in Nat /\ packet.sequence < Word32
         /\ packet.timestamp_samples \in Nat /\ packet.timestamp_samples < Word32
<1>1. packet.payload \in Seq(Bytes) /\ Len(packet.payload) \in 1..MaxPayloadBytes
  BY DEF Packets, Payloads
<1>2. packet.sequence \in 0..(Word32 - 1) /\ packet.timestamp_samples \in 0..(Word32 - 1)
  BY DEF Packets
<1> QED BY <1>1, <1>2, WireFacts DEF IsPacket

(* No more repairs than were asked for, than were sent, and than three.    *)
LEMMA OfferedWithin ==
  ASSUME NEW packets \in Seq(Packets), requested \in Nat
  PROVE  /\ Offered(packets) \in 0..3 /\ Offered(packets) <= Len(packets)
         /\ Offered(packets) <= requested
<1> DEFINE S == {requested, Len(packets), MaxRedundantOpusFrames}
           Smallest(x) == \A y \in S : x =< y
<1>1. \E x \in S : Smallest(x)
  <2>1. CASE requested <= Len(packets) /\ requested <= 3
    BY <2>1 DEF MaxRedundantOpusFrames
  <2>2. CASE Len(packets) <= requested /\ Len(packets) <= 3
    BY <2>2 DEF MaxRedundantOpusFrames
  <2>3. CASE 3 <= requested /\ 3 <= Len(packets)
    BY <2>3 DEF MaxRedundantOpusFrames
  <2> QED BY <2>1, <2>2, <2>3
<1>2. Offered(packets) = CHOOSE x \in S : Smallest(x)
  BY DEF Offered, Min
<1>3. Offered(packets) \in S /\ Smallest(Offered(packets))
  <2> HIDE DEF S, Smallest
  <2> QED BY <1>1, <1>2
<1> QED BY <1>3 DEF MaxRedundantOpusFrames

LEMMA OfferedIs ==
  ASSUME NEW packets \in Seq(Packets), requested \in Nat
  PROVE  Offered(packets) \in 0..3 /\ Offered(packets) <= Len(packets)
BY OfferedWithin

LEMMA NewestIs ==
  ASSUME NEW packets \in Seq(Packets), NEW k \in 1..Len(packets)
  PROVE  Newest(packets, k) \in Packets
<1>1. Len(packets) + 1 - k \in 1..Len(packets)
  OBVIOUS
<1> QED BY <1>1 DEF Newest

(* The sizes of the bundle with none, one, two or three repairs.           *)
Totals(g, n, primary, packets) ==
    g = [k \in 0..n |-> IF k = 0 THEN BundleHeaderBytes + Len(primary.payload)
                        ELSE g[k - 1] + RepairDescriptorBytes + Len(Newest(packets, k).payload)]

LEMMA ProjectedIs ==
  ASSUME NEW packets \in Seq(Packets), requested \in Nat, NEW primary \in Packets
  PROVE  Totals(Projected(primary, packets), Offered(packets), primary, packets)
<1> DEFINE n == Offered(packets)
           step(k) == Len(Newest(packets, k).payload)
           b == BundleHeaderBytes + Len(primary.payload)
           g == [k \in 0..n |-> IF k = 0 THEN b
                   ELSE IF k = 1 THEN b + RepairDescriptorBytes + step(1)
                   ELSE IF k = 2 THEN b + RepairDescriptorBytes + step(1)
                                        + RepairDescriptorBytes + step(2)
                   ELSE b + RepairDescriptorBytes + step(1) + RepairDescriptorBytes + step(2)
                          + RepairDescriptorBytes + step(3)]
<1>1. n \in 0..3
  BY OfferedIs
<1>2. Totals(g, n, primary, packets)
  <2> HIDE DEF n
  <2> DEFINE s1 == step(1)
             s2 == step(2)
             s3 == step(3)
  <2>1. ASSUME NEW k \in 0..n
        PROVE  g[k] = IF k = 0 THEN b
                      ELSE g[k - 1] + RepairDescriptorBytes + step(k)
    <3>1. CASE k = 0
      BY <3>1
    <3>2. CASE k = 1
      BY <1>1, <3>2
    <3>3. CASE k = 2
      BY <1>1, <3>3
    <3>4. CASE k = 3
      BY <1>1, <3>4
    <3> QED BY <1>1, <3>1, <3>2, <3>3, <3>4
  <2>2. g = [k \in 0..n |-> g[k]]
    OBVIOUS
  <2> HIDE DEF g
  <2>3. g = [k \in 0..n |-> IF k = 0 THEN b ELSE g[k - 1] + RepairDescriptorBytes + step(k)]
    BY <2>1, <2>2
  <2> QED BY <2>3 DEF Totals
<1>3. Projected(primary, packets) = CHOOSE f : Totals(f, n, primary, packets)
  BY DEF Projected, Totals
<1> HIDE DEF g, n
<1>4. Totals(Projected(primary, packets), n, primary, packets)
  BY <1>2, <1>3
<1> QED BY <1>4 DEF n

LEMMA TotalsAre ==
  ASSUME NEW packets \in Seq(Packets), requested \in Nat, NEW primary \in Packets
  PROVE  /\ Projected(primary, packets)[0] = BundleHeaderBytes + Len(primary.payload)
         /\ \A k \in 1..Offered(packets) :
               Projected(primary, packets)[k] = Projected(primary, packets)[k - 1]
                     + RepairDescriptorBytes + Len(Newest(packets, k).payload)
<1> DEFINE n == Offered(packets)
           g == Projected(primary, packets)
<1>1. Totals(g, n, primary, packets) /\ n \in 0..3
  BY ProjectedIs, OfferedIs
<1> HIDE DEF g, n
<1>2. \A k \in 0..n : g[k] = IF k = 0 THEN BundleHeaderBytes + Len(primary.payload)
                             ELSE g[k - 1] + RepairDescriptorBytes + Len(Newest(packets, k).payload)
  BY <1>1 DEF Totals
<1>3. g[0] = BundleHeaderBytes + Len(primary.payload)
  BY <1>1, <1>2
<1>4. ASSUME NEW k \in 1..n
      PROVE  g[k] = g[k - 1] + RepairDescriptorBytes + Len(Newest(packets, k).payload)
  <2>1. k \in 0..n /\ k # 0
    BY <1>1
  <2> QED BY <1>2, <2>1
<1> QED BY <1>3, <1>4 DEF g, n

(* As many repairs as fit.                                                 *)
LEMMA RepairCountIs ==
  ASSUME NEW packets \in Seq(Packets), requested \in Nat, NEW primary \in Packets
  PROVE  /\ RepairCount(primary, packets) \in 0..Offered(packets)
         /\ \A smaller \in 1..RepairCount(primary, packets) :
               Projected(primary, packets)[smaller] <= MaxPayloadBytes
         /\ \/ RepairCount(primary, packets) = Offered(packets)
            \/ ~(Projected(primary, packets)[RepairCount(primary, packets) + 1] <= MaxPayloadBytes)
<1> DEFINE n == Offered(packets)
           g == Projected(primary, packets)
           Fit(k) == g[k] <= MaxPayloadBytes
           Chosen(k) == (\A smaller \in 1..k : Fit(smaller)) /\ (k = n \/ ~Fit(k + 1))
           count == RepairCount(primary, packets)
<1>1. n \in 0..3
  BY OfferedIs
<1>2. count = CHOOSE k \in 0..n : Chosen(k)
  BY DEF RepairCount
<1>3. \E k \in 0..n : Chosen(k)
  <2> HIDE DEF n, Fit
  <2>1. CASE n = 0 \/ ~Fit(1)
    <3>1. 0 \in 0..n /\ Chosen(0)
      BY <1>1, <2>1
    <3> QED BY <3>1
  <2>2. CASE Fit(1) /\ (n = 1 \/ (n > 1 /\ ~Fit(2)))
    <3>1. 1 \in 0..n /\ Chosen(1)
      BY <1>1, <2>2
    <3> QED BY <3>1
  <2>3. CASE Fit(1) /\ Fit(2) /\ (n = 2 \/ (n > 2 /\ ~Fit(3)))
    <3>1. 2 \in 0..n /\ Chosen(2)
      BY <1>1, <2>3
    <3> QED BY <3>1
  <2>4. CASE Fit(1) /\ Fit(2) /\ Fit(3) /\ n = 3
    <3>1. 3 \in 0..n /\ Chosen(3)
      BY <1>1, <2>4
    <3> QED BY <3>1
  <2> QED BY <1>1, <2>1, <2>2, <2>3, <2>4
<1> HIDE DEF Chosen, n, count
<1>4. count \in 0..n /\ Chosen(count)
  BY <1>2, <1>3
<1> HIDE DEF g
<1> QED BY <1>4 DEF Chosen, n, count, g

(* What serialization writes.                                              *)
ByteStrings == Seq(Bytes)

(* At most three parts written one after the other.                        *)
Cat(s, t) == s \o t
Flattened(g, s) == g = [i \in 1..Len(s) |-> IF i = 1 THEN s[i] ELSE Cat(g[i - 1], s[i])]

LEMMA FlattenIs ==
  ASSUME NEW s \in Seq(ByteStrings), Len(s) \in 0..3
  PROVE  /\ Len(s) = 0 => FlattenSeq(s) = s
         /\ Len(s) = 1 => FlattenSeq(s) = s[1]
         /\ Len(s) = 2 => FlattenSeq(s) = Cat(s[1], s[2])
         /\ Len(s) = 3 => FlattenSeq(s) = Cat(Cat(s[1], s[2]), s[3])
<1> DEFINE n == Len(s)
           two == Cat(s[1], s[2])
           three == Cat(two, s[3])
           h == [i \in 1..n |-> IF i = 1 THEN s[1] ELSE IF i = 2 THEN two ELSE three]
           f == CHOOSE g : Flattened(g, s)
<1>1. n = 0 => FlattenSeq(s) = s
  BY Zenon DEF FlattenSeq
<1>2. n # 0 => FlattenSeq(s) = f[n]
  BY Zenon DEF FlattenSeq, Flattened, Cat
<1>3. Flattened(h, s) /\ n \in 0..3
  <2>1. n \in 0..3
    OBVIOUS
  <2> HIDE DEF n
  <2>2. ASSUME NEW i \in 1..n
        PROVE  h[i] = IF i = 1 THEN s[i] ELSE Cat(h[i - 1], s[i])
    <3>1. CASE i = 1
      BY <3>1
    <3>2. CASE i = 2
      <4>1. h[1] = s[1] /\ h[2] = two
        BY <2>1, <3>2
      <4> HIDE DEF h
      <4> QED BY <3>2, <4>1
    <3>3. CASE i = 3
      <4>1. h[2] = two /\ h[3] = three
        BY <2>1, <3>3
      <4> HIDE DEF h, two
      <4> QED BY <3>3, <4>1
    <3> QED BY <2>1, <3>1, <3>2, <3>3
  <2>3. h = [i \in 1..n |-> h[i]]
    OBVIOUS
  <2> HIDE DEF h
  <2> QED BY <2>1, <2>2, <2>3 DEF Flattened, n
<1> HIDE DEF h
<1>4. Flattened(f, s)
  BY <1>3
<1> HIDE DEF f
<1>5. \A i \in 1..n : f[i] = IF i = 1 THEN s[i] ELSE Cat(f[i - 1], s[i])
  BY <1>4 DEF Flattened
<1> HIDE DEF n
<1>6. n \in 1..3 => f[1] = s[1]
  BY <1>5
<1>7. n \in 2..3 => f[2] = two
  BY <1>5, <1>6
<1>8. n = 3 => f[3] = three
  <2> HIDE DEF two
  <2> QED BY <1>5, <1>7
<1>9. /\ n = 0 => FlattenSeq(s) = s
      /\ n = 1 => FlattenSeq(s) = s[1]
      /\ n = 2 => FlattenSeq(s) = two
      /\ n = 3 => FlattenSeq(s) = three
  <2> HIDE DEF two, three
  <2> QED BY <1>1, <1>2, <1>6, <1>7, <1>8
<1> QED BY <1>9 DEF n

LEMMA CatIs ==
  ASSUME NEW s \in Seq(Bytes), NEW t \in Seq(Bytes)
  PROVE  Joined(Cat(s, t), s, t) /\ Cat(s, t) \in Seq(Bytes) /\ Len(Cat(s, t)) = Len(s) + Len(t)
<1>1. Joined(Cat(s, t), s, t)
  BY BytesJoined, Zenon DEF Cat
<1> QED BY <1>1, Zenon DEF Joined

(* The length of n parts of lengths a, b and c.                            *)
Together(length, n, a, b, c) ==
    /\ n = 0 => length = 0
    /\ n = 1 => length = a
    /\ n = 2 => length = a + b
    /\ n = 3 => length = a + b + c

LEMMA FlattenedBytes ==
  ASSUME NEW s \in Seq(ByteStrings), Len(s) \in 0..3
  PROVE  /\ FlattenSeq(s) \in Seq(Bytes)
         /\ Together(Len(FlattenSeq(s)), Len(s), Len(s[1]), Len(s[2]), Len(s[3]))
<1> DEFINE n == Len(s)
           a == Len(s[1])
           b == Len(s[2])
           c == Len(s[3])
           two == Cat(s[1], s[2])
           three == Cat(two, s[3])
           total == Len(FlattenSeq(s))
<1>1. n \in 0..3
  OBVIOUS
<1>2. \A k \in 1..n : s[k] \in Seq(Bytes)
  <2>1. \A k \in 1..n : s[k] \in ByteStrings
    OBVIOUS
  <2> QED BY <2>1 DEF ByteStrings
<1>3. CASE n = 0
  <2>1. FlattenSeq(s) = s
    BY <1>3, FlattenIs
  <2>2. s \in Seq(Bytes)
    <3>1. \A k \in 1..Len(s) : s[k] \in Bytes
      BY <1>3
    <3> QED BY <3>1
  <2>3. total = 0
    BY <1>3, <2>1
  <2>4. Together(total, n, a, b, c)
    <3> HIDE DEF total, n, a, b, c
    <3> QED BY <1>3, <2>3 DEF Together
  <2> QED BY <2>1, <2>2, <2>4
<1>4. CASE n = 1
  <2>1. FlattenSeq(s) = s[1] /\ s[1] \in Seq(Bytes)
    BY <1>2, <1>4, FlattenIs
  <2>2. total = a
    BY <2>1
  <2>3. Together(total, n, a, b, c)
    <3> HIDE DEF total, n, a, b, c
    <3> QED BY <1>4, <2>2 DEF Together
  <2> QED BY <2>1, <2>3
<1>5. CASE n \in 2..3
  <2>1. s[1] \in Seq(Bytes) /\ s[2] \in Seq(Bytes)
    <3> HIDE DEF n
    <3> QED BY <1>2, <1>5
  <2>2. two \in Seq(Bytes) /\ Len(two) = a + b
    BY <2>1, CatIs, Zenon
  <2>3. CASE n = 2
    <3>1. FlattenSeq(s) = two
      BY <2>3, FlattenIs
    <3>2. total = a + b
      BY <2>2, <3>1, Zenon
    <3>3. Together(total, n, a, b, c)
      <4> HIDE DEF total, n, a, b, c
      <4> QED BY <2>3, <3>2 DEF Together
    <3> QED BY <2>2, <3>1, <3>3, Zenon
  <2>4. CASE n = 3
    <3>1. FlattenSeq(s) = three
      BY <2>4, FlattenIs
    <3>2. s[3] \in Seq(Bytes)
      BY <1>2, <2>4
    <3>3. three \in Seq(Bytes) /\ Len(three) = Len(two) + c
      BY <2>2, <3>2, CatIs, Zenon
    <3>4. total = a + b + c
      BY <2>2, <3>1, <3>3, Zenon
    <3>5. Together(total, n, a, b, c)
      <4> HIDE DEF total, n, a, b, c
      <4> QED BY <2>4, <3>4 DEF Together
    <3> QED BY <3>1, <3>3, <3>5, Zenon
  <2> HIDE DEF n, total, a, b, c
  <2> QED BY <1>5, <2>3, <2>4
<1> HIDE DEF n, total, a, b, c
<1>6. n = 0 \/ n = 1 \/ n \in 2..3
  BY <1>1
<1> QED BY <1>3, <1>4, <1>5, <1>6, Zenon DEF n, total, a, b, c

LEMMA RepairsAre ==
  ASSUME NEW packets \in Seq(Packets), requested \in Nat, NEW primary \in Packets
  PROVE  /\ Repairs(primary, packets) \in Seq(Packets)
         /\ Len(Repairs(primary, packets)) = RepairCount(primary, packets)
         /\ Len(Repairs(primary, packets)) \in 0..3
         /\ \A k \in 1..Len(Repairs(primary, packets)) :
               Repairs(primary, packets)[k] = Newest(packets, k)
<1> DEFINE n == RepairCount(primary, packets)
           s == Repairs(primary, packets)
<1>1. n \in 0..3 /\ n <= Len(packets)
  BY OfferedIs, RepairCountIs
<1>2. s = [k \in 1..n |-> Newest(packets, k)]
  BY DEF Repairs
<1> HIDE DEF n, s
<1>3. \A k \in 1..n : Newest(packets, k) \in Packets
  BY <1>1, NewestIs
<1>4. s \in [1..n -> Packets] /\ \A k \in 1..n : s[k] = Newest(packets, k)
  BY <1>2, <1>3
<1>5. s \in Seq(Packets) /\ Len(s) = n
  <2> HIDE DEF Packets
  <2> QED BY <1>1, <1>4
<1> QED BY <1>1, <1>4, <1>5 DEF n, s

LEMMA DescriptorIs ==
  ASSUME NEW repair \in Packets
  PROVE  Descriptor(repair) \in Seq(Bytes) /\ Len(Descriptor(repair)) = RepairDescriptorBytes
<1> DEFINE a == U32(repair.sequence)
           b == U32(repair.timestamp_samples)
           c == U16(Len(repair.payload))
           ab == a \o b
           abc == ab \o c
<1>1. a \in Seq(Bytes) /\ Len(a) = 4
  BY PacketFacts, U32Is
<1>2. b \in Seq(Bytes) /\ Len(b) = 4
  BY PacketFacts, U32Is
<1>3. c \in Seq(Bytes) /\ Len(c) = 2
  BY PacketFacts, U16Is
<1>4. Descriptor(repair) = abc
  BY DEF Descriptor
<1> HIDE DEF a, b, c
<1>5. Joined(ab, a, b)
  BY <1>1, <1>2, BytesJoined, Zenon
<1>6. ab \in Seq(Bytes) /\ Len(ab) = Len(a) + Len(b)
  BY <1>5, Zenon DEF Joined
<1> HIDE DEF ab
<1>7. Joined(abc, ab, c)
  BY <1>3, <1>6, BytesJoined, Zenon
<1>8. abc \in Seq(Bytes) /\ Len(abc) = Len(ab) + Len(c)
  BY <1>7, Zenon DEF Joined
<1> HIDE DEF abc
<1> QED BY <1>1, <1>2, <1>3, <1>4, <1>6, <1>8 DEF RepairDescriptorBytes

(* A bundle is as long as was projected for the repairs in it.             *)
LEMMA DescriptorsAre ==
  ASSUME NEW repairs \in Seq(Packets), Len(repairs) \in 0..3
  PROVE  LET descriptors == FlattenSeq([k \in DOMAIN repairs |-> Descriptor(repairs[k])])
         IN  descriptors \in Seq(Bytes) /\ Len(descriptors) = RepairDescriptorBytes * Len(repairs)
<1> DEFINE n == Len(repairs)
           s == [k \in DOMAIN repairs |-> Descriptor(repairs[k])]
           a == Len(s[1])
           b == Len(s[2])
           c == Len(s[3])
           total == Len(FlattenSeq(s))
<1>1. DOMAIN repairs = 1..n /\ n \in 0..3 /\ \A k \in 1..n : repairs[k] \in Packets
  OBVIOUS
<1>2. \A k \in 1..n : Descriptor(repairs[k]) \in ByteStrings
                        /\ Len(Descriptor(repairs[k])) = RepairDescriptorBytes
  BY <1>1, DescriptorIs DEF ByteStrings
<1> HIDE DEF n
<1>3. /\ s \in [1..n -> ByteStrings]
      /\ \A k \in 1..n : Len(s[k]) = RepairDescriptorBytes
  BY <1>1, <1>2
<1> HIDE DEF s
<1>4. s \in Seq(ByteStrings) /\ Len(s) = n
  BY <1>1, <1>3
<1>5. FlattenSeq(s) \in Seq(Bytes) /\ Together(total, n, a, b, c)
  <2>1. s \in Seq(ByteStrings) /\ Len(s) \in 0..3
    BY <1>1, <1>4
  <2>2. FlattenSeq(s) \in Seq(Bytes) /\ Together(total, Len(s), a, b, c)
    BY <2>1, FlattenedBytes, Zenon
  <2> QED BY <1>4, <2>2, Zenon
<1>6. total = RepairDescriptorBytes * n
  <2>1. /\ n \in 1..3 => a = 10
        /\ n \in 2..3 => b = 10
        /\ n = 3 => c = 10
    BY <1>3 DEF RepairDescriptorBytes
  <2> HIDE DEF total, a, b, c
  <2> QED BY <1>1, <1>5, <2>1 DEF Together, RepairDescriptorBytes
<1> QED BY <1>5, <1>6 DEF n, s, total

LEMMA BlobsAre ==
  ASSUME NEW repairs \in Seq(Packets), Len(repairs) \in 0..3
  PROVE  /\ Blobs(repairs) \in Seq(Bytes)
         /\ Together(Len(Blobs(repairs)), Len(repairs), Len(repairs[1].payload),
                     Len(repairs[2].payload), Len(repairs[3].payload))
<1> DEFINE n == Len(repairs)
           s == [k \in DOMAIN repairs |-> repairs[k].payload]
           size(k) == Len(repairs[k].payload)
           a == Len(s[1])
           b == Len(s[2])
           c == Len(s[3])
           total == Len(Blobs(repairs))
<1>1. DOMAIN repairs = 1..n /\ n \in 0..3 /\ \A k \in 1..n : repairs[k] \in Packets
  OBVIOUS
<1>2. \A k \in 1..n : repairs[k].payload \in ByteStrings
  BY <1>1, PacketFacts DEF ByteStrings
<1> HIDE DEF n
<1>3. /\ s \in [1..n -> ByteStrings]
      /\ \A k \in 1..n : Len(s[k]) = size(k)
  BY <1>1, <1>2
<1>4. Blobs(repairs) = FlattenSeq(s)
  BY DEF Blobs
<1> HIDE DEF s
<1>5. s \in Seq(ByteStrings) /\ Len(s) = n
  BY <1>1, <1>3
<1>6. FlattenSeq(s) \in Seq(Bytes) /\ Together(Len(FlattenSeq(s)), n, a, b, c)
  <2>1. s \in Seq(ByteStrings) /\ Len(s) \in 0..3
    BY <1>1, <1>5
  <2>2. FlattenSeq(s) \in Seq(Bytes) /\ Together(Len(FlattenSeq(s)), Len(s), a, b, c)
    BY <2>1, FlattenedBytes, Zenon
  <2> QED BY <1>5, <2>2, Zenon
<1>7. Together(total, n, a, b, c)
  BY <1>4, <1>6, Zenon
<1>8. /\ n \in 1..3 => a = size(1)
      /\ n \in 2..3 => b = size(2)
      /\ n = 3 => c = size(3)
  <2> HIDE DEF size
  <2> QED BY <1>3
<1>9. Together(total, n, size(1), size(2), size(3))
  <2> HIDE DEF total, a, b, c, size
  <2> QED BY <1>7, <1>8 DEF Together
<1> QED BY <1>4, <1>6, <1>9, Zenon DEF n, total, size

(* The bundle, each part where it is read.                                 *)
Laid(u, primary, n, descriptors, blobs) ==
    /\ u \in Seq(Bytes) /\ Len(u) = 6 + 10 * n + Len(primary.payload) + Len(blobs)
    /\ u[1] = BundleMagic /\ u[2] = BundleVersion /\ u[3] = n
    /\ ReadU16(u, 4) = Len(primary.payload)
    /\ Holds(u, 6, descriptors) /\ Holds(u, 6 + 10 * n, primary.payload)
    /\ Holds(u, 6 + 10 * n + Len(primary.payload), blobs)

LEMMA BundleLaid ==
  ASSUME NEW primary \in Packets, NEW n \in 0..3, NEW descriptors \in Seq(Bytes),
         Len(descriptors) = 10 * n, NEW blobs \in Seq(Bytes)
  PROVE  Laid(<<BundleMagic, BundleVersion, n, 0>> \o U16(Len(primary.payload)) \o descriptors
                 \o primary.payload \o blobs, primary, n, descriptors, blobs)
<1> DEFINE m == 10 * n
           l == Len(primary.payload)
           c == Len(blobs)
           start == <<BundleMagic, BundleVersion, n, 0>>
           size == U16(l)
           head == start \o size
           described == head \o descriptors
           first == described \o primary.payload
           bundle == first \o blobs
<1>1. m \in Nat /\ c \in Nat /\ l \in Nat /\ l < Word16 /\ primary.payload \in Seq(Bytes)
  BY PacketFacts
<1>2. /\ start \in Seq(Bytes) /\ Len(start) = 4
      /\ start[1] = BundleMagic /\ start[2] = BundleVersion /\ start[3] = n
  <2>1. BundleMagic \in Bytes /\ BundleVersion \in Bytes /\ n \in Bytes /\ 0 \in Bytes
    BY MagicAssumption, WireFacts DEF Bytes
  <2> QED BY <2>1
<1>3. size \in Seq(Bytes) /\ Len(size) = 2
  BY <1>1, U16Is
<1>4. Len(descriptors) = m /\ Len(primary.payload) = l /\ Len(blobs) = c
  OBVIOUS
<1> HIDE DEF m, l, c, start, size
<1>5. /\ head \in Seq(Bytes) /\ Len(head) = 6 /\ Holds(head, 0, start) /\ Holds(head, 4, size)
  <2>1. Appended(head, start, size, 4, 2)
    BY <1>2, <1>3, BytesAppended, Zenon
  <2> HIDE DEF head
  <2> QED BY <2>1 DEF Appended
<1> HIDE DEF head
<1>6. /\ described \in Seq(Bytes) /\ Len(described) = 6 + m
      /\ Holds(described, 0, head) /\ Holds(described, 6, descriptors)
  <2>1. Appended(described, head, descriptors, 6, m)
    BY <1>4, <1>5, BytesAppended, Zenon
  <2> HIDE DEF described
  <2> QED BY <2>1 DEF Appended
<1> HIDE DEF described
<1>7. /\ first \in Seq(Bytes) /\ Len(first) = 6 + m + l
      /\ Holds(first, 0, described) /\ Holds(first, 6 + m, primary.payload)
  <2>1. Appended(first, described, primary.payload, 6 + m, l)
    BY <1>1, <1>4, <1>6, BytesAppended, Zenon
  <2> HIDE DEF first
  <2> QED BY <2>1, Zenon DEF Appended
<1> HIDE DEF first
<1>8. /\ bundle \in Seq(Bytes) /\ Len(bundle) = 6 + m + l + c
      /\ Holds(bundle, 0, first) /\ Holds(bundle, 6 + m + l, blobs)
  <2>1. Appended(bundle, first, blobs, 6 + m + l, c)
    BY <1>4, <1>7, BytesAppended, Zenon
  <2> HIDE DEF bundle
  <2> QED BY <2>1, Zenon DEF Appended
<1> HIDE DEF bundle
<1>10. Holds(bundle, 6 + m, primary.payload) /\ Holds(bundle, 0, described)
  <2>1. 6 + m \in Nat /\ 0 \in Nat
    BY <1>1
  <2> QED BY <1>7, <1>8, <2>1, HoldsWithin, Zenon
<1>11. Holds(bundle, 6, descriptors) /\ Holds(bundle, 0, head)
  BY <1>6, <1>10, HoldsWithin
<1>12. Holds(bundle, 0, start) /\ Holds(bundle, 4, size)
  BY <1>5, <1>11, HoldsWithin
<1>13. bundle[1] = BundleMagic /\ bundle[2] = BundleVersion /\ bundle[3] = n
  <2>1. \A j \in 1..4 : bundle[0 + j] = start[j]
    BY <1>2, <1>12 DEF Holds
  <2>2. bundle[1] = start[1] /\ bundle[2] = start[2] /\ bundle[3] = start[3]
    BY <2>1
  <2> QED BY <1>2, <2>2
<1>14. ReadU16(bundle, 4) = l
  BY <1>1, <1>12, HoldsRead16 DEF size
<1>15. Laid(bundle, primary, n, descriptors, blobs)
  BY <1>8, <1>10, <1>11, <1>13, <1>14, Zenon DEF Laid, m, l, c
<1> QED BY <1>15, Zenon DEF bundle, first, described, head, size, start, l

LEMMA BundleParts ==
  ASSUME NEW packets \in Seq(Packets), requested \in Nat, NEW primary \in Packets
  PROVE  LET repairs == Repairs(primary, packets)
         IN  Laid(SerializeBundle(primary, packets), primary, RepairCount(primary, packets),
                  FlattenSeq([k \in DOMAIN repairs |-> Descriptor(repairs[k])]), Blobs(repairs))
<1> DEFINE repairs == Repairs(primary, packets)
           n == Len(repairs)
           descriptors == FlattenSeq([k \in DOMAIN repairs |-> Descriptor(repairs[k])])
           blobs == Blobs(repairs)
<1>1. repairs \in Seq(Packets) /\ n \in 0..3 /\ n = RepairCount(primary, packets)
  BY RepairsAre
<1>2. descriptors \in Seq(Bytes) /\ Len(descriptors) = RepairDescriptorBytes * n
  <2> HIDE DEF repairs
  <2> QED BY <1>1, DescriptorsAre
<1>3. blobs \in Seq(Bytes)
  <2> HIDE DEF repairs
  <2> QED BY <1>1, BlobsAre
<1>4. Len(descriptors) = 10 * n
  BY <1>2 DEF RepairDescriptorBytes
<1>5. SerializeBundle(primary, packets)
         = <<BundleMagic, BundleVersion, n, 0>> \o U16(Len(primary.payload)) \o descriptors
               \o primary.payload \o blobs
  BY DEF SerializeBundle
<1> HIDE DEF n, descriptors, blobs
<1>6. Laid(SerializeBundle(primary, packets), primary, n, descriptors, blobs)
  BY <1>1, <1>2, <1>3, <1>4, <1>5, BundleLaid, Zenon
<1> QED BY <1>1, <1>6, Zenon DEF descriptors, blobs

LEMMA BundleIs ==
  ASSUME NEW packets \in Seq(Packets), requested \in Nat, NEW primary \in Packets
  PROVE  /\ SerializeBundle(primary, packets) \in Seq(Bytes)
         /\ Len(SerializeBundle(primary, packets))
               = Projected(primary, packets)[RepairCount(primary, packets)]
<1> DEFINE repairs == Repairs(primary, packets)
           n == Len(repairs)
           bundle == SerializeBundle(primary, packets)
           blobs == Blobs(repairs)
<1>1. /\ repairs \in Seq(Packets) /\ n \in 0..3 /\ n = RepairCount(primary, packets)
      /\ \A k \in 1..n : repairs[k] = Newest(packets, k)
  BY RepairsAre
<1>2. Len(primary.payload) \in Nat
  BY PacketFacts
<1>3. blobs \in Seq(Bytes)
  <2> HIDE DEF repairs
  <2> QED BY <1>1, BlobsAre
<1>4. bundle \in Seq(Bytes) /\ Len(bundle) = 6 + 10 * n + Len(primary.payload) + Len(blobs)
  <2> HIDE DEF repairs, bundle
  <2> QED BY <1>1, BundleParts, Zenon DEF Laid, bundle, blobs, repairs
<1> HIDE DEF bundle, blobs
<1> DEFINE b == Len(primary.payload)
           c == Len(blobs)
           size_(k) == Len(Newest(packets, k).payload)
           p == Projected(primary, packets)
<1>12. Len(bundle) = 6 + 10 * n + b + c /\ b \in Nat /\ c \in Nat
  BY <1>2, <1>3, <1>4
<1>13. Together(c, n, size_(1), size_(2), size_(3))
  <2> DEFINE length(k) == Len(repairs[k].payload)
  <2>1. Together(c, n, length(1), length(2), length(3))
    <3> HIDE DEF repairs
    <3>1. repairs \in Seq(Packets) /\ Len(repairs) \in 0..3
      BY <1>1
    <3> QED BY <3>1, BlobsAre, Zenon DEF blobs
  <2>2. \A k \in 1..n : length(k) = size_(k)
    BY <1>1
  <2>3. n \in 0..3
    BY <1>1
  <2> HIDE DEF n, c, length, size_
  <2>4. /\ n \in 1..3 => length(1) = size_(1)
        /\ n \in 2..3 => length(2) = size_(2)
        /\ n = 3 => length(3) = size_(3)
    BY <2>2
  <2> QED BY <2>1, <2>3, <2>4 DEF Together
<1>14. /\ p[0] = 6 + b
       /\ \A k \in 1..n : p[k] = p[k - 1] + 10 + size_(k)
  <2>1. /\ p[0] = BundleHeaderBytes + b
        /\ \A k \in 1..Offered(packets) : p[k] = p[k - 1] + RepairDescriptorBytes + size_(k)
    BY TotalsAre
  <2>2. n \in 0..Offered(packets) /\ Offered(packets) \in Nat
    BY <1>1, RepairCountIs, OfferedIs
  <2> HIDE DEF p, n, size_, b
  <2> QED BY <2>1, <2>2 DEF BundleHeaderBytes, RepairDescriptorBytes
<1>15. \A k \in 1..n : size_(k) \in Nat
  <2>1. \A k \in 1..n : repairs[k] \in Packets
    BY <1>1
  <2>2. \A k \in 1..n : Newest(packets, k) \in Packets
    <3> HIDE DEF repairs
    <3> QED BY <1>1, <2>1
  <2> HIDE DEF n
  <2> QED BY <2>2, PacketFacts
<1>16. Len(bundle) = p[n]
  <2>0. n \in 0..3
    BY <1>1
  <2> HIDE DEF n, b, c, p, size_
  <2>1. /\ n \in 1..3 => size_(1) \in Nat /\ p[1] = p[0] + 10 + size_(1)
        /\ n \in 2..3 => size_(2) \in Nat /\ p[2] = p[1] + 10 + size_(2)
        /\ n = 3 => size_(3) \in Nat /\ p[3] = p[2] + 10 + size_(3)
    BY <1>14, <1>15
  <2>2. p[0] = 6 + b
    BY <1>14
  <2>3. n \in 1..3 => p[1] = 16 + b + size_(1)
    BY <1>12, <2>1, <2>2
  <2>4. n \in 2..3 => p[2] = 26 + b + size_(1) + size_(2)
    BY <1>12, <2>1, <2>3
  <2>5. n = 3 => p[3] = 36 + b + size_(1) + size_(2) + size_(3)
    BY <1>12, <2>1, <2>4
  <2>6. CASE n = 0
    BY <1>12, <1>13, <2>2, <2>6 DEF Together
  <2>7. CASE n = 1
    BY <1>12, <1>13, <2>1, <2>3, <2>7 DEF Together
  <2>8. CASE n = 2
    BY <1>12, <1>13, <2>1, <2>4, <2>8 DEF Together
  <2>9. CASE n = 3
    <3>1. c = size_(1) + size_(2) + size_(3)
      BY <1>13, <2>9 DEF Together
    <3>2. size_(1) \in Nat /\ size_(2) \in Nat /\ size_(3) \in Nat
      BY <2>1, <2>9
    <3>3. p[3] = 36 + b + size_(1) + size_(2) + size_(3)
      BY <2>5, <2>9
    <3>4. Len(bundle) = 36 + b + c
      BY <1>12, <2>9
    <3>5. PICK x \in Nat, y \in Nat, z \in Nat : x = size_(1) /\ y = size_(2) /\ z = size_(3)
      BY <3>2
    <3>6. c = x + y + z /\ p[3] = 36 + b + x + y + z
      BY <3>1, <3>3, <3>5
    <3>7. Len(bundle) = p[3]
      BY <1>12, <3>4, <3>6
    <3> QED BY <2>9, <3>7
  <2> QED BY <2>0, <2>6, <2>7, <2>8, <2>9
<1> QED BY <1>1, <1>4, <1>16 DEF bundle

(* No bundle exceeds the largest payload.                                  *)
LEMMA BundleFits ==
  ASSUME NEW packets \in Seq(Packets), requested \in Nat, NEW primary \in Packets,
         Len(primary.payload) <= MaxOpusPacketBytes
  PROVE  Len(SerializeBundle(primary, packets)) \in 0..MaxPayloadBytes
<1> DEFINE n == RepairCount(primary, packets)
           p == Projected(primary, packets)
           bundle == SerializeBundle(primary, packets)
<1>1. /\ n \in 0..Offered(packets) /\ Offered(packets) \in 0..3
      /\ \A k \in 1..n : p[k] <= MaxPayloadBytes
  BY RepairCountIs, OfferedIs
<1>2. bundle \in Seq(Bytes) /\ Len(bundle) = p[n]
  BY BundleIs
<1>3. p[0] = BundleHeaderBytes + Len(primary.payload) /\ Len(primary.payload) \in Nat
  BY TotalsAre, PacketFacts
<1>4. p[0] <= MaxPayloadBytes
  BY <1>3, WireFacts DEF BundleHeaderBytes
<1>5. Len(bundle) \in Nat
  BY <1>2
<1> HIDE DEF n, p, bundle
<1>6. p[n] <= MaxPayloadBytes
  BY <1>1, <1>4
<1> QED BY <1>2, <1>5, <1>6, WireFacts DEF bundle

-----------------------------------------------------------------------------
(* What is accepted lies inside the datagram.                              *)
SoundPacket(packet, limit) ==
    /\ IsPacket(packet) /\ Len(packet.payload) <= limit /\ Stale \notin ToSet(packet.payload)

Sound(accepted, limit) ==
    /\ SoundPacket(accepted.primary, limit)
    /\ Len(accepted.repairs) <= MaxRedundantOpusFrames
    /\ DOMAIN accepted.repairs = 1..Len(accepted.repairs)
    /\ \A k \in DOMAIN accepted.repairs : SoundPacket(accepted.repairs[k], limit)

LEMMA CopiedPacket ==
  ASSUME NEW bytes \in Seq(Bytes), NEW offset \in Nat, NEW size \in 1..MaxPayloadBytes,
         offset + size <= Len(bytes), NEW limit \in Nat, size <= limit,
         NEW sequence \in 0..(Word32 - 1), NEW timestamp \in 0..(Word32 - 1)
  PROVE  SoundPacket([sequence |-> sequence, timestamp_samples |-> timestamp,
                      payload |-> CopyBytes(bytes, offset, size)], limit)
<1> DEFINE copy == CopyBytes(bytes, offset, size)
<1>1. size \in Nat
  OBVIOUS
<1>2. Len(copy) = size /\ Stale \notin ToSet(copy)
  BY <1>1, CopyIs
<1> HIDE DEF copy
<1>3. SoundPacket([sequence |-> sequence, timestamp_samples |-> timestamp,
                   payload |-> copy], limit)
  BY <1>2 DEF SoundPacket, IsPacket
<1> QED BY <1>3 DEF copy

LEMMA HeaderRead ==
  ASSUME NEW bytes \in Seq(Bytes), Len(bytes) >= HeaderSizeBytes
  PROVE  /\ ParseHeader(bytes).sequence \in 0..(Word32 - 1)
         /\ ParseHeader(bytes).timestamp_samples \in 0..(Word32 - 1)
         /\ ParseHeader(bytes).payload_size \in Nat
<1>1. ReadU32(bytes, 4) \in 0..(Word32 - 1)
  BY Read32InRange DEF HeaderSizeBytes
<1>2. ReadU32(bytes, 8) \in 0..(Word32 - 1)
  BY Read32InRange DEF HeaderSizeBytes
<1>3. ReadU16(bytes, 12) \in 0..(Word16 - 1)
  BY Read16InRange DEF HeaderSizeBytes
<1> QED BY <1>1, <1>2, <1>3, WireFacts DEF ParseHeader

LEMMA PcmAccepted ==
  ASSUME NEW bytes \in Seq(Bytes)
  PROVE  AcceptPcm(bytes) # Rejected => Sound(AcceptPcm(bytes), MaxPayloadBytes)
<1> DEFINE said == ParseHeader(bytes)
           copy == CopyBytes(bytes, HeaderSizeBytes, FramePayloadBytes)
           primary == [sequence |-> said.sequence,
                       timestamp_samples |-> said.timestamp_samples, payload |-> copy]
<1>1. SUFFICES ASSUME AcceptPcm(bytes) # Rejected PROVE Sound(AcceptPcm(bytes), MaxPayloadBytes)
  OBVIOUS
<1>2. /\ ~(Len(bytes) < HeaderSizeBytes) /\ ~Incomplete(bytes, FramePayloadBytes)
      /\ AcceptPcm(bytes) = [primary |-> primary, repairs |-> <<>>]
  BY <1>1, Zenon DEF AcceptPcm
<1>3. /\ Len(bytes) >= HeaderSizeBytes
      /\ HeaderSizeBytes + FramePayloadBytes <= Len(bytes)
  BY <1>2, WireFacts DEF Incomplete, HeaderSizeBytes
<1>4. said.sequence \in 0..(Word32 - 1) /\ said.timestamp_samples \in 0..(Word32 - 1)
  BY <1>3, HeaderRead
<1> HIDE DEF said
<1>5. SoundPacket(primary, MaxPayloadBytes)
  <2>1. /\ HeaderSizeBytes \in Nat /\ FramePayloadBytes \in 1..MaxPayloadBytes
        /\ MaxPayloadBytes \in Nat /\ FramePayloadBytes <= MaxPayloadBytes
    BY WireFacts DEF HeaderSizeBytes
  <2> QED BY <1>3, <1>4, <2>1, CopiedPacket, Zenon
<1> HIDE DEF primary
<1> QED BY <1>2, <1>5 DEF Sound, MaxRedundantOpusFrames

-----------------------------------------------------------------------------
(* Where the repairs of a bundle begin.                                    *)
Places(g, payload) ==
    g = [k \in 1..(payload[3] + 1) |->
            IF k = 1 THEN PrimaryAt(payload) + ReadU16(payload, 4)
            ELSE g[k - 1] + RepairSize(payload, k - 1)]

LEMMA PlacesExist ==
  ASSUME NEW payload, payload[3] \in 0..3
  PROVE  Places(RepairAt(payload), payload)
<1> DEFINE n == payload[3]
           v1 == PrimaryAt(payload) + ReadU16(payload, 4)
           r(k) == RepairSize(payload, k)
           v2 == v1 + r(1)
           v3 == v2 + r(2)
           v4 == v3 + r(3)
           g == [k \in 1..(n + 1) |-> IF k = 1 THEN v1 ELSE IF k = 2 THEN v2
                                       ELSE IF k = 3 THEN v3 ELSE v4]
<1>1. Places(g, payload)
  <2>1. n \in 0..3
    OBVIOUS
  <2> HIDE DEF n, r
  <2>2. ASSUME NEW k \in 1..(n + 1)
        PROVE  g[k] = IF k = 1 THEN v1 ELSE g[k - 1] + r(k - 1)
    <3>1. CASE k = 1
      BY <3>1
    <3>2. CASE k = 2
      <4>1. g[1] = v1 /\ g[2] = v2
        BY <2>1, <3>2
      <4> HIDE DEF g, v1
      <4> QED BY <3>2, <4>1
    <3>3. CASE k = 3
      <4>1. g[2] = v2 /\ g[3] = v3
        BY <2>1, <3>3
      <4> HIDE DEF g, v2
      <4> QED BY <3>3, <4>1
    <3>4. CASE k = 4
      <4>1. g[3] = v3 /\ g[4] = v4
        BY <2>1, <3>4
      <4> HIDE DEF g, v3
      <4> QED BY <3>4, <4>1
    <3> QED BY <2>1, <3>1, <3>2, <3>3, <3>4
  <2>3. g = [k \in 1..(n + 1) |-> g[k]]
    OBVIOUS
  <2> HIDE DEF g, v1
  <2>4. g = [k \in 1..(n + 1) |-> IF k = 1 THEN v1 ELSE g[k - 1] + r(k - 1)]
    BY <2>2, <2>3
  <2> QED BY <2>4 DEF Places, n, r, v1
<1>2. RepairAt(payload) = CHOOSE f : Places(f, payload)
  BY DEF RepairAt, Places
<1> HIDE DEF g
<1> QED BY <1>1, <1>2

LEMMA BundleAccepted ==
  ASSUME NEW payload \in Seq(Bytes), NEW said,
         said.sequence \in 0..(Word32 - 1), said.timestamp_samples \in 0..(Word32 - 1)
  PROVE  ParseBundle(payload, said) # Rejected
            => Sound(ParseBundle(payload, said), MaxOpusPacketBytes)
<1> DEFINE n == payload[3]
           size == ReadU16(payload, 4)
           at == PrimaryAt(payload)
           copied(k) == CopyBytes(payload, RepairAt(payload)[k], RepairSize(payload, k))
           primary == [sequence |-> said.sequence,
                       timestamp_samples |-> said.timestamp_samples,
                       payload |-> CopyBytes(payload, at, size)]
           repair(k) == [sequence |-> ReadU32(payload, DescriptorAt(k)),
                         timestamp_samples |-> ReadU32(payload, DescriptorAt(k) + 4),
                         payload |-> copied(k)]
           accepted == ParseBundle(payload, said)
<1> SUFFICES ASSUME accepted # Rejected PROVE Sound(accepted, MaxOpusPacketBytes)
  OBVIOUS
<1>1. /\ ~(Len(payload) < BundleHeaderBytes) /\ ~(n > MaxRedundantOpusFrames)
      /\ ~(Len(payload) < at) /\ ~Outside(payload, at, size)
      /\ \A k \in 1..n : ~Outside(payload, RepairAt(payload)[k], RepairSize(payload, k))
      /\ accepted = [primary |-> primary, repairs |-> [k \in 1..n |-> repair(k)]]
  BY Zenon DEF ParseBundle
<1>2. Len(payload) >= 6 /\ n \in 0..3
  <2>1. Len(payload) >= 6
    BY <1>1 DEF BundleHeaderBytes
  <2>2. payload[3] \in Bytes
    BY <2>1
  <2>3. n \in Nat
    BY <2>2, WireFacts DEF Bytes
  <2>4. ~(n > 3)
    BY <1>1 DEF MaxRedundantOpusFrames
  <2> HIDE DEF n
  <2> QED BY <2>1, <2>3, <2>4
<1>3. at = 6 + n * 10 /\ at \in Nat /\ at <= Len(payload)
  <2>1. at = 6 + n * 10
    BY DEF PrimaryAt, BundleHeaderBytes, RepairDescriptorBytes
  <2> HIDE DEF at, n
  <2> QED BY <1>1, <1>2, <2>1
<1>4. ASSUME NEW k \in 1..n
      PROVE  /\ DescriptorAt(k) \in Nat /\ DescriptorAt(k) + 10 <= Len(payload)
  <2>1. DescriptorAt(k) = 6 + (k - 1) * 10
    BY DEF DescriptorAt, BundleHeaderBytes, RepairDescriptorBytes
  <2> HIDE DEF n, at
  <2> QED BY <1>2, <1>3, <2>1
<1>5. \A k \in 1..n : RepairSize(payload, k) \in Nat
  <2> SUFFICES ASSUME NEW k \in 1..n PROVE RepairSize(payload, k) \in Nat
    OBVIOUS
  <2> DEFINE offset == DescriptorAt(k) + 8
  <2>1. offset \in Nat /\ offset + 2 <= Len(payload)
    BY <1>4
  <2> HIDE DEF offset
  <2>2. ReadU16(payload, offset) \in 0..(Word16 - 1)
    BY <2>1, Read16InRange
  <2> QED BY <2>2, WireFacts DEF offset, RepairSize
<1>6. size \in Nat
  <2>1. size \in 0..(Word16 - 1)
    BY <1>2, Read16InRange
  <2> QED BY <2>1, WireFacts
<1>7. \A k \in 1..n : RepairAt(payload)[k] \in Nat
  <2> DEFINE g == RepairAt(payload)
             length(k) == RepairSize(payload, k)
  <2>1. Places(g, payload)
    BY <1>2, PlacesExist
  <2> HIDE DEF g, size, at, length, n
  <2>2. \A k \in 1..(n + 1) : g[k] = IF k = 1 THEN at + size ELSE g[k - 1] + length(k - 1)
    BY <2>1 DEF Places, at, size, length, n
  <2>3. n \in 1..3 => g[1] \in Nat
    BY <1>3, <1>6, <2>2
  <2>4. n \in 2..3 => g[2] \in Nat
    <3>1. n \in 2..3 => g[2] = g[1] + length(1) /\ length(1) \in Nat
      BY <1>5, <2>2 DEF length
    <3> QED BY <2>3, <3>1
  <2>5. n = 3 => g[3] \in Nat
    <3>1. n = 3 => g[3] = g[2] + length(2) /\ length(2) \in Nat
      BY <1>5, <2>2 DEF length
    <3> QED BY <2>4, <3>1
  <2>6. \A k \in 1..n : g[k] \in Nat
    BY <1>2, <2>3, <2>4, <2>5
  <2> QED BY <2>6 DEF g
<1>8. \A offset, length : offset \in Nat /\ length \in Nat /\ ~Outside(payload, offset, length)
            => /\ length \in 1..MaxOpusPacketBytes /\ length \in 1..MaxPayloadBytes
               /\ offset + length <= Len(payload)
  BY WireFacts DEF Outside, BundleHeaderBytes
<1>9. SoundPacket(primary, MaxOpusPacketBytes)
  <2>1. /\ size \in 1..MaxOpusPacketBytes /\ size \in 1..MaxPayloadBytes
        /\ at + size <= Len(payload)
    <3> HIDE DEF size, at
    <3> QED BY <1>1, <1>3, <1>6, <1>8
  <2>2. size <= MaxOpusPacketBytes /\ MaxOpusPacketBytes \in Nat
    BY <2>1, WireFacts
  <2> HIDE DEF size, at
  <2> QED BY <1>3, <2>1, <2>2, CopiedPacket, Zenon
<1>10. \A k \in 1..n : SoundPacket(repair(k), MaxOpusPacketBytes)
  <2> SUFFICES ASSUME NEW k \in 1..n PROVE SoundPacket(repair(k), MaxOpusPacketBytes)
    OBVIOUS
  <2> DEFINE offset == RepairAt(payload)[k]
             length == RepairSize(payload, k)
             given == DescriptorAt(k)
             sequence == ReadU32(payload, given)
             timestamp == ReadU32(payload, given + 4)
  <2>1. offset \in Nat /\ length \in Nat /\ ~Outside(payload, offset, length)
    BY <1>1, <1>5, <1>7
  <2>2. given \in Nat /\ given + 10 <= Len(payload)
    BY <1>4
  <2> HIDE DEF offset, length, given
  <2>3. /\ length \in 1..MaxOpusPacketBytes /\ length \in 1..MaxPayloadBytes
        /\ offset + length <= Len(payload)
    BY <1>8, <2>1
  <2>4. sequence \in 0..(Word32 - 1) /\ timestamp \in 0..(Word32 - 1)
    <3>1. given + 4 \in Nat /\ given + 4 <= Len(payload) /\ given + 4 + 4 <= Len(payload)
      BY <2>2
    <3> QED BY <2>2, <3>1, Read32InRange
  <2>5. length <= MaxOpusPacketBytes /\ MaxOpusPacketBytes \in Nat
    BY <2>3, WireFacts
  <2> HIDE DEF sequence, timestamp
  <2>6. SoundPacket([sequence |-> sequence, timestamp_samples |-> timestamp,
                     payload |-> CopyBytes(payload, offset, length)], MaxOpusPacketBytes)
    BY <2>1, <2>3, <2>4, <2>5, CopiedPacket, Zenon
  <2> QED BY <2>6 DEF sequence, timestamp, given, offset, length
<1> HIDE DEF n, primary, repair, accepted
<1>11. /\ accepted.primary = primary /\ accepted.repairs = [k \in 1..n |-> repair(k)]
  BY <1>1
<1>12. /\ DOMAIN accepted.repairs = 1..n /\ Len(accepted.repairs) = n
       /\ \A k \in 1..n : accepted.repairs[k] = repair(k)
  BY <1>2, <1>11
<1> QED BY <1>2, <1>9, <1>10, <1>11, <1>12 DEF Sound, MaxRedundantOpusFrames, accepted

LEMMA OpusAccepted ==
  ASSUME NEW bytes \in Seq(Bytes)
  PROVE  AcceptOpus(bytes) # Rejected => Sound(AcceptOpus(bytes), MaxOpusPacketBytes)
<1> DEFINE said == ParseHeader(bytes)
           copy == CopyBytes(bytes, HeaderSizeBytes, said.payload_size)
<1> SUFFICES ASSUME AcceptOpus(bytes) # Rejected
             PROVE  Sound(AcceptOpus(bytes), MaxOpusPacketBytes)
  OBVIOUS
<1>1. /\ ~(Len(bytes) < HeaderSizeBytes) /\ ~Incomplete(bytes, said.payload_size)
      /\ AcceptOpus(bytes) = ParseBundle(copy, said)
  BY Zenon DEF AcceptOpus
<1>2. Len(bytes) >= HeaderSizeBytes
  BY <1>1 DEF HeaderSizeBytes
<1>3. /\ said.sequence \in 0..(Word32 - 1) /\ said.timestamp_samples \in 0..(Word32 - 1)
      /\ said.payload_size \in Nat
  BY <1>2, HeaderRead
<1> HIDE DEF said
<1>4. HeaderSizeBytes + said.payload_size <= Len(bytes) /\ HeaderSizeBytes \in Nat
  BY <1>1, <1>3 DEF Incomplete, HeaderSizeBytes
<1>5. copy \in Seq(Bytes)
  BY <1>3, <1>4, CopyIs, Zenon
<1> HIDE DEF copy
<1> QED BY <1>1, <1>3, <1>5, BundleAccepted, Zenon

-----------------------------------------------------------------------------
(* The packets kept are packets, and the bounds hold of what is under way  *)
(* and of what was made of the last datagram.                              *)
WireInv ==
    /\ program \in {"pcm", "opus"} /\ requested \in Requests
    /\ history \in Seq(Packets)
    /\ datagram \in Seq(Bytes) /\ delivered \in Seq(Bytes)
    /\ received # Rejected =>
          Sound(received, IF program = "opus" THEN MaxOpusPacketBytes ELSE MaxPayloadBytes)
    /\ FullButNotOverfull

LEMMA WireInitInv == WireInit => WireInv
  BY DEF WireInit, WireInv, FullButNotOverfull

(* The next packet.                                                        *)
LEMMA EncodedIs ==
  ASSUME history \in Seq(Packets), NEW size \in 1..MaxPayloadBytes
  PROVE  Encoded(size) \in Packets /\ Len(Encoded(size).payload) = size
<1> DEFINE sequence == Len(history) % Word32
           timestamp == (sequence * kFrameSamples) % Word32
           payload == [j \in 1..size |-> (sequence + j) % ByteBase]
<1>1. Encoded(size) = [sequence |-> sequence, timestamp_samples |-> timestamp, payload |-> payload]
  BY DEF Encoded
<1>2. sequence \in 0..(Word32 - 1)
  <2>1. Len(history) \in Nat
    OBVIOUS
  <2> QED BY <2>1, WireFacts
<1> HIDE DEF sequence
<1>3. timestamp \in 0..(Word32 - 1)
  <2>1. sequence * kFrameSamples \in Nat
    BY <1>2, WireFacts, StreamAssumption
  <2> QED BY <2>1, WireFacts
<1>4. payload \in Payloads /\ Len(payload) = size
  <2>1. \A j \in 1..size : (sequence + j) % ByteBase \in Bytes
    <3> SUFFICES ASSUME NEW j \in 1..size PROVE (sequence + j) % ByteBase \in Bytes
      OBVIOUS
    <3>1. sequence + j \in Nat
      BY <1>2, WireFacts
    <3> QED BY <3>1, DigitIsByte
  <2>2. payload \in [1..size -> Bytes] /\ size \in Nat
    BY <2>1
  <2> HIDE DEF payload
  <2>3. payload \in Seq(Bytes) /\ Len(payload) = size
    BY <2>2
  <2> QED BY <2>3 DEF Payloads
<1> HIDE DEF timestamp, payload
<1> QED BY <1>1, <1>2, <1>3, <1>4 DEF Packets

(* The datagram made of a packet and what is sent of it.                   *)
LEMMA MakePacketIs ==
  ASSUME NEW packet \in Packets, NEW payload \in Seq(Bytes), Len(payload) \in 0..MaxPayloadBytes
  PROVE  /\ MakePacket(packet, payload) \in Seq(Bytes)
         /\ Len(MakePacket(packet, payload)) = HeaderSizeBytes + Len(payload)
         /\ Headed(MakePacket(packet, payload), packet.sequence, packet.timestamp_samples,
                   Len(payload), payload)
         /\ ParseHeader(MakePacket(packet, payload)).payload_size = Len(payload)
<1> DEFINE size == Len(payload) % Word16
           sequence == packet.sequence
           timestamp == packet.timestamp_samples
           said == [sequence |-> sequence, timestamp_samples |-> timestamp,
                      payload_size |-> size]
<1>1. size = Len(payload) /\ size \in Nat /\ size < Word16
  BY WireFacts
<1>2. /\ sequence \in Nat /\ sequence < Word32
      /\ timestamp \in Nat /\ timestamp < Word32
  BY PacketFacts
<1>3. MakePacket(packet, payload) = SerializeHeader(said) \o payload
  BY DEF MakePacket
<1> HIDE DEF size, sequence, timestamp
<1>4. said = [sequence |-> sequence, timestamp_samples |-> timestamp, payload_size |-> size]
  OBVIOUS
<1> HIDE DEF said
<1>5. Headed(SerializeHeader(said) \o payload, sequence, timestamp, size, payload)
  BY <1>1, <1>2, <1>4, HeaderIs, Zenon
<1>6. Headed(MakePacket(packet, payload), sequence, timestamp, size, payload)
  BY <1>3, <1>5, Zenon
<1>7. /\ MakePacket(packet, payload) \in Seq(Bytes)
      /\ Len(MakePacket(packet, payload)) = HeaderSizeBytes + Len(payload)
      /\ ParseHeader(MakePacket(packet, payload)).payload_size = size
  BY <1>6 DEF Headed
<1> QED BY <1>1, <1>6, <1>7, Zenon DEF sequence, timestamp

(* Whatever arrives are bytes.                                             *)
LEMMA ArrivalsAreBytes ==
  ASSUME NEW bytes \in Seq(Bytes), NEW arrived \in Arrivals(bytes)
  PROVE  arrived \in Seq(Bytes)
<1>1. ASSUME NEW n \in 0..(Len(bytes) - 1) PROVE SubSeq(bytes, 1, n) \in Seq(Bytes)
  OBVIOUS
<1>2. ASSUME NEW k \in DOMAIN bytes, NEW b \in Bytes
      PROVE  [bytes EXCEPT ![k] = b] \in Seq(Bytes)
  <2>1. [bytes EXCEPT ![k] = b] \in [1..Len(bytes) -> Bytes] /\ Len(bytes) \in Nat
    <3> HIDE DEF Bytes
    <3> QED OBVIOUS
  <2> HIDE DEF Bytes
  <2> QED BY <2>1
<1> DEFINE shortened == {SubSeq(bytes, 1, n) : n \in 0..(Len(bytes) - 1)}
           changed == {[bytes EXCEPT ![k] = b] : k \in DOMAIN bytes, b \in Bytes}
<1>3. CASE arrived \in shortened
  <2>1. PICK n \in 0..(Len(bytes) - 1) : arrived = SubSeq(bytes, 1, n)
    BY <1>3, Zenon
  <2> QED BY <1>1, <2>1
<1>4. CASE arrived \in changed
  <2>1. PICK k \in DOMAIN bytes, b \in Bytes : arrived = [bytes EXCEPT ![k] = b]
    BY <1>4
  <2> QED BY <1>2, <2>1
<1>5. Arrivals(bytes) = {bytes} \union shortened \union changed
  BY DEF Arrivals
<1> HIDE DEF shortened, changed
<1>6. arrived = bytes \/ arrived \in shortened \/ arrived \in changed
  BY <1>5
<1> QED BY <1>3, <1>4, <1>6

(* The newest packet is the last, the others are before it.                *)
LEMMA LastAndFront ==
  ASSUME NEW packets \in Seq(Packets), NEW packet \in Packets
  PROVE  /\ Last(Append(packets, packet)) = packet
         /\ Front(Append(packets, packet)) = packets
         /\ Append(packets, packet) \in Seq(Packets)
<1> HIDE DEF Packets
<1>1. Last(Append(packets, packet)) = packet
  BY DEF Last
<1>2. Front(Append(packets, packet)) = packets
  BY DEF Front
<1> QED BY <1>1, <1>2

LEMMA WireNextInv == WireInv /\ [WireNext]_wireVars => WireInv'
<1> SUFFICES ASSUME WireInv, [WireNext]_wireVars PROVE WireInv'
  OBVIOUS
<1>1. /\ program \in {"pcm", "opus"} /\ requested \in Requests /\ requested \in Nat
      /\ history \in Seq(Packets) /\ datagram \in Seq(Bytes)
  BY StreamAssumption DEF WireInv
<1>2. CASE SendPcm
  <2> DEFINE frame == Encoded(FramePayloadBytes)
  <2>1. /\ program' = "pcm" /\ program' = program /\ requested' = requested
        /\ datagram' = MakePacket(frame, frame.payload) /\ history' = Append(history, frame)
        /\ delivered' = <<>> /\ received' = Rejected
    BY <1>2 DEF SendPcm
  <2>2. frame \in Packets /\ Len(frame.payload) = FramePayloadBytes
    <3>1. FramePayloadBytes \in 1..MaxPayloadBytes
      BY WireFacts
    <3> QED BY <1>1, <3>1, EncodedIs
  <2> HIDE DEF frame
  <2>3. history' \in Seq(Packets)
    BY <1>1, <2>1, <2>2, LastAndFront
  <2>4. /\ datagram' \in Seq(Bytes) /\ Len(datagram') = HeaderSizeBytes + FramePayloadBytes
        /\ ParseHeader(datagram').payload_size = FramePayloadBytes
    <3>1. frame.payload \in Seq(Bytes) /\ Len(frame.payload) \in 0..MaxPayloadBytes
      BY <2>2, PacketFacts, WireFacts
    <3> QED BY <2>1, <2>2, <3>1, MakePacketIs
  <2>5. FullButNotOverfull'
    <3>1. /\ Len(datagram') <= HeaderSizeBytes + MaxPayloadBytes
          /\ ParseHeader(datagram').payload_size = Len(datagram') - HeaderSizeBytes
      BY <2>4, WireFacts DEF HeaderSizeBytes
    <3>2. program' # "opus"
      BY <2>1
    <3> QED BY <3>1, <3>2, Zenon DEF FullButNotOverfull
  <2>6. delivered' \in Seq(Bytes)
    BY <2>1
  <2> QED BY <1>1, <2>1, <2>3, <2>4, <2>5, <2>6, Zenon DEF WireInv
<1>3. CASE SendOpus
  <2>1. PICK size \in 1..MaxOpusPacketBytes :
          /\ datagram' = MakePacket(Encoded(size), SerializeBundle(Encoded(size), history))
          /\ history' = Append(history, Encoded(size))
    BY <1>3, Zenon DEF SendOpus
  <2> DEFINE encoded == Encoded(size)
             bundle == SerializeBundle(encoded, history)
             n == RepairCount(encoded, history)
             p == Projected(encoded, history)
  <2>2. /\ program' = program /\ requested' = requested
        /\ delivered' = <<>> /\ received' = Rejected
    BY <1>3 DEF SendOpus
  <2>3. encoded \in Packets /\ Len(encoded.payload) = size /\ size <= MaxOpusPacketBytes
    <3>1. size \in 1..MaxPayloadBytes
      BY WireFacts DEF BundleHeaderBytes
    <3> QED BY <1>1, <3>1, WireFacts, EncodedIs
  <2>4. datagram' = MakePacket(encoded, bundle) /\ history' = Append(history, encoded)
    BY <2>1
  <2> HIDE DEF encoded
  <2>5. /\ bundle \in Seq(Bytes) /\ Len(bundle) \in 0..MaxPayloadBytes /\ Len(bundle) = p[n]
    <3>1. Len(encoded.payload) <= MaxOpusPacketBytes
      BY <2>3
    <3> QED BY <1>1, <2>3, <3>1, BundleIs, BundleFits
  <2> HIDE DEF bundle
  <2>6. /\ datagram' \in Seq(Bytes) /\ Len(datagram') = HeaderSizeBytes + Len(bundle)
        /\ ParseHeader(datagram').payload_size = Len(bundle)
    BY <2>3, <2>4, <2>5, MakePacketIs
  <2>7. /\ Last(history') = encoded /\ Front(history') = history
        /\ history' \in Seq(Packets)
    BY <1>1, <2>3, <2>4, LastAndFront
  <2>8. FullButNotOverfull'
    <3>1. /\ Len(datagram') <= HeaderSizeBytes + MaxPayloadBytes
          /\ ParseHeader(datagram').payload_size = Len(datagram') - HeaderSizeBytes
      BY <2>5, <2>6, WireFacts DEF HeaderSizeBytes
    <3>2. program = "opus"
      BY <1>3 DEF SendOpus
    <3>3. Sent'.repairs = Repairs(encoded, history)
      <4>1. Sent'.repairs = Repairs(Last(history), Front(history))'
        BY <2>2, <3>2 DEF Sent
      <4>2. Repairs(Last(history), Front(history))' = Repairs(Last(history'), Front(history'))
        BY <2>2 DEF Repairs, RepairCount, Projected, Offered
      <4> QED BY <2>7, <4>1, <4>2
    <3>4. Offered(Front(history))' = Offered(history)
      BY <2>2, <2>7 DEF Offered
    <3>5. LET k == Len(Repairs(encoded, history)) + 1
          IN  k <= Offered(history) =>
                 Len(datagram') + RepairDescriptorBytes + Len(Newest(history, k).payload)
                     > HeaderSizeBytes + MaxPayloadBytes
      <4>1. /\ n \in 0..Offered(history) /\ Offered(history) \in 0..3
            /\ n = Offered(history) \/ ~(p[n + 1] <= MaxPayloadBytes)
            /\ Len(Repairs(encoded, history)) = n
        BY <1>1, <2>3, RepairCountIs, OfferedIs, RepairsAre
      <4>2. \A k \in 1..Offered(history) :
               p[k] = p[k - 1] + RepairDescriptorBytes + Len(Newest(history, k).payload)
        BY <1>1, <2>3, TotalsAre
      <4> DEFINE m == n + 1
                 size_ == Len(Newest(history, m).payload)
      <4>3. SUFFICES ASSUME m <= Offered(history)
                     PROVE  Len(datagram') + RepairDescriptorBytes + size_
                                > HeaderSizeBytes + MaxPayloadBytes
        BY <4>1
      <4>4. m \in 1..Offered(history) /\ ~(p[m] <= MaxPayloadBytes) /\ m - 1 = n
        <5> HIDE DEF n, p
        <5> QED BY <4>1, <4>3
      <4>5. p[m] = p[m - 1] + RepairDescriptorBytes + size_
        <5> HIDE DEF m
        <5> QED BY <4>2, <4>4
      <4>6. size_ \in Nat
        <5>1. m \in 1..Len(history)
          <6>1. Offered(history) <= Len(history)
            BY <1>1, OfferedIs
          <6>2. Len(history) \in Nat
            BY <1>1
          <6> HIDE DEF m
          <6> QED BY <4>1, <4>4, <6>1, <6>2
        <5> QED BY <1>1, <5>1, NewestIs, PacketFacts
      <4> HIDE DEF size_, m, n, p
      <4>7. p[m] = Len(bundle) + 10 + size_
        BY <2>5, <4>4, <4>5 DEF RepairDescriptorBytes
      <4>8. PICK b \in Nat, x \in Nat : b = Len(bundle) /\ x = size_
        BY <2>5, <4>6
      <4>9. b + 10 + x > MaxPayloadBytes
        BY <4>4, <4>7, <4>8, WireFacts
      <4>10. Len(datagram') = 16 + b
        BY <2>6, <4>8 DEF HeaderSizeBytes
      <4> QED BY <4>8, <4>9, <4>10, WireFacts DEF RepairDescriptorBytes, HeaderSizeBytes
    <3> QED BY <2>7, <3>1, <3>3, <3>4, <3>5 DEF FullButNotOverfull, Offered
  <2>9. delivered' \in Seq(Bytes)
    BY <2>2
  <2> QED BY <1>1, <2>2, <2>6, <2>7, <2>8, <2>9, Zenon DEF WireInv
<1>4. CASE Receive
  <2>1. /\ delivered' \in Arrivals(datagram) /\ datagram' = <<>>
        /\ received' = IF program = "pcm" THEN AcceptPcm(delivered') ELSE AcceptOpus(delivered')
        /\ program' = program /\ requested' = requested /\ history' = history
    BY <1>4 DEF Receive
  <2>2. delivered' \in Seq(Bytes)
    BY <1>1, <2>1, ArrivalsAreBytes
  <2>3. received' # Rejected
          => Sound(received', IF program = "opus" THEN MaxOpusPacketBytes ELSE MaxPayloadBytes)
    <3>1. CASE program = "pcm"
      BY <2>1, <2>2, <3>1, PcmAccepted
    <3>2. CASE program = "opus"
      BY <2>1, <2>2, <3>2, OpusAccepted
    <3> QED BY <1>1, <3>1, <3>2
  <2>4. datagram' \in Seq(Bytes) /\ FullButNotOverfull'
    BY <2>1 DEF FullButNotOverfull
  <2> QED BY <1>1, <2>1, <2>2, <2>3, <2>4, Zenon DEF WireInv
<1>5. CASE UNCHANGED wireVars
  <2>1. /\ program' = program /\ requested' = requested /\ history' = history
        /\ datagram' = datagram /\ delivered' = delivered /\ received' = received
    BY <1>5 DEF wireVars
  <2>2. Sent' = Sent
    BY <2>1 DEF Sent, Repairs, RepairCount, Projected, Offered
  <2>3. FullButNotOverfull'
    BY <2>1, <2>2 DEF WireInv, FullButNotOverfull
  <2> QED BY <2>1, <2>3, Zenon DEF WireInv
<1> QED BY <1>2, <1>3, <1>4, <1>5 DEF WireNext

LEMMA WireInvariance == WireSpec => []WireInv
  BY WireInitInv, WireNextInv, PTL DEF WireSpec

(* Every datagram fits the largest payload and says its own size, no repair *)
(* that would fit is left out, and nothing that is accepted reaches behind *)
(* the datagram or is larger than the array it is copied into: for every   *)
(* packet size, redundancy and width of a byte, whatever arrives.          *)
THEOREM DatagramsFit == WireSpec => []DatagramsInBounds
<1>1. ASSUME WireInv PROVE DatagramsInBounds
  <2>1. WireTypeOK
    <3>1. \A k \in DOMAIN history : IsPacket(history[k])
      <4>1. \A k \in DOMAIN history : history[k] \in Packets
        BY <1>1 DEF WireInv
      <4> QED BY <4>1, PacketFacts
    <3>2. received # Rejected =>
             /\ IsPacket(received.primary)
             /\ Len(received.repairs) <= MaxRedundantOpusFrames
             /\ \A k \in DOMAIN received.repairs : IsPacket(received.repairs[k])
      BY <1>1, Zenon DEF WireInv, Sound, SoundPacket
    <3> QED BY <1>1, <3>1, <3>2, Zenon DEF WireInv, WireTypeOK
  <2>2. NothingBehindTheEnd
    <3> SUFFICES ASSUME received # Rejected,
                        NEW packet \in {received.primary} \union ToSet(received.repairs)
                 PROVE  /\ Stale \notin ToSet(packet.payload)
                        /\ program = "opus" => Len(packet.payload) <= MaxOpusPacketBytes
      BY DEF NothingBehindTheEnd
    <3> DEFINE limit == IF program = "opus" THEN MaxOpusPacketBytes ELSE MaxPayloadBytes
    <3>1. Sound(received, limit)
      BY <1>1 DEF WireInv
    <3>2. SoundPacket(packet, limit)
      <4> HIDE DEF limit
      <4> QED BY <3>1 DEF Sound, ToSet
    <3> QED BY <3>2 DEF SoundPacket
  <2> QED BY <1>1, <2>1, <2>2 DEF DatagramsInBounds, WireInv
<1> QED BY <1>1, WireInvariance, PTL

-----------------------------------------------------------------------------
(* The repairs of a bundle, each where it is read.                         *)
LEMMA CatAppended ==
  ASSUME NEW s \in Seq(Bytes), NEW t \in Seq(Bytes), NEW m, NEW n, Len(s) = m, Len(t) = n
  PROVE  Appended(Cat(s, t), s, t, m, n)
  BY BytesAppended, Zenon DEF Cat

(* The first, the second and the third of n parts of lengths a, b and c.   *)
InTurn(u, n, s, a, b) ==
    /\ n \in 1..3 => Holds(u, 0, s[1])
    /\ n \in 2..3 => Holds(u, a, s[2])
    /\ n = 3 => Holds(u, a + b, s[3])

LEMMA FlattenedInTurn ==
  ASSUME NEW s \in Seq(ByteStrings), Len(s) \in 0..3
  PROVE  InTurn(FlattenSeq(s), Len(s), s, Len(s[1]), Len(s[2]))
<1> DEFINE n == Len(s)
           u == FlattenSeq(s)
           a == Len(s[1])
           b == Len(s[2])
           c == Len(s[3])
           two == Cat(s[1], s[2])
           three == Cat(two, s[3])
<1>1. n \in 0..3
  OBVIOUS
<1>2. \A k \in 1..n : s[k] \in Seq(Bytes)
  <2>1. \A k \in 1..n : s[k] \in ByteStrings
    OBVIOUS
  <2> QED BY <2>1 DEF ByteStrings
<1>3. /\ n = 1 => u = s[1]
      /\ n = 2 => u = two
      /\ n = 3 => u = three
  BY FlattenIs, Zenon
<1>4. n = 1 => Holds(u, 0, s[1])
  <2>1. SUFFICES ASSUME n = 1 PROVE Holds(s[1], 0, s[1])
    BY <1>3
  <2>2. s[1] \in Seq(Bytes)
    BY <1>2, <2>1
  <2> DEFINE first == s[1]
  <2>3. \A j \in 1..Len(first) : first[0 + j] = first[j]
    OBVIOUS
  <2>4. 0 + Len(first) <= Len(first)
    BY <2>2
  <2> HIDE DEF first
  <2>5. Holds(first, 0, first)
    BY <2>2, <2>3, <2>4 DEF Holds, first
  <2> QED BY <2>5 DEF first
<1>5. n \in 2..3 => Appended(two, s[1], s[2], a, b)
  <2>1. SUFFICES ASSUME n \in 2..3 PROVE Appended(two, s[1], s[2], a, b)
    OBVIOUS
  <2>2. s[1] \in Seq(Bytes) /\ s[2] \in Seq(Bytes)
    <3> HIDE DEF n
    <3> QED BY <1>2, <2>1
  <2> QED BY <2>2, CatAppended, Zenon
<1>6. n = 3 => Appended(three, two, s[3], a + b, c)
  <2>1. SUFFICES ASSUME n = 3 PROVE Appended(three, two, s[3], a + b, c)
    OBVIOUS
  <2>2. n \in 2..3 /\ s[3] \in Seq(Bytes)
    BY <1>2, <2>1
  <2>3. two \in Seq(Bytes) /\ Len(two) = a + b
    BY <1>5, <2>2, Zenon DEF Appended
  <2> QED BY <2>2, <2>3, CatAppended, Zenon
<1> HIDE DEF n, u, two, three
<1>7. n = 2 => Holds(u, 0, s[1]) /\ Holds(u, a, s[2])
  BY <1>3, <1>5 DEF Appended
<1>8. n = 3 => Holds(u, 0, two) /\ Holds(u, a + b, s[3])
  BY <1>3, <1>6 DEF Appended
<1>9. n = 3 => Holds(two, 0, s[1]) /\ Holds(two, a, s[2])
  BY <1>5 DEF Appended
<1>10. n = 3 => Holds(u, 0, s[1]) /\ Holds(u, a, s[2])
  <2>1. SUFFICES ASSUME n = 3 PROVE Holds(u, 0, s[1]) /\ Holds(u, a, s[2])
    OBVIOUS
  <2>2. Holds(u, 0, two) /\ Holds(two, 0, s[1]) /\ Holds(two, a, s[2])
    BY <1>8, <1>9, <2>1
  <2>3. 0 \in Nat /\ a \in Nat
    BY <2>2 DEF Holds
  <2> HIDE DEF a
  <2> QED BY <2>2, <2>3, HoldsWithin, Zenon
<1>11. InTurn(u, n, s, a, b)
  <2> HIDE DEF a, b
  <2> QED BY <1>1, <1>4, <1>7, <1>8, <1>10 DEF InTurn
<1> QED BY <1>11 DEF u, n

(* A descriptor, each field where it is read.                              *)
LEMMA DescriptorHolds ==
  ASSUME NEW repair \in Packets
  PROVE  /\ Holds(Descriptor(repair), 0, U32(repair.sequence))
         /\ Holds(Descriptor(repair), 4, U32(repair.timestamp_samples))
         /\ Holds(Descriptor(repair), 8, U16(Len(repair.payload)))
<1> DEFINE a == U32(repair.sequence)
           b == U32(repair.timestamp_samples)
           c == U16(Len(repair.payload))
           ab == a \o b
           abc == ab \o c
<1>1. a \in Seq(Bytes) /\ Len(a) = 4
  BY PacketFacts, U32Is
<1>2. b \in Seq(Bytes) /\ Len(b) = 4
  BY PacketFacts, U32Is
<1>3. c \in Seq(Bytes) /\ Len(c) = 2
  BY PacketFacts, U16Is
<1>4. Descriptor(repair) = abc
  BY DEF Descriptor
<1> HIDE DEF a, b, c
<1>5. Appended(ab, a, b, 4, 4)
  BY <1>1, <1>2, BytesAppended, Zenon
<1> HIDE DEF ab
<1>6. ab \in Seq(Bytes) /\ Len(ab) = 8 /\ Holds(ab, 0, a) /\ Holds(ab, 4, b)
  BY <1>5 DEF Appended
<1>7. Appended(abc, ab, c, 8, 2)
  BY <1>3, <1>6, BytesAppended, Zenon
<1> HIDE DEF abc
<1>8. Holds(abc, 0, ab) /\ Holds(abc, 8, c)
  BY <1>7 DEF Appended
<1>9. Holds(abc, 0, a) /\ Holds(abc, 4, b)
  BY <1>6, <1>8, HoldsWithin
<1> QED BY <1>4, <1>8, <1>9, Zenon DEF a, b, c

LEMMA DescriptorsHold ==
  ASSUME NEW repairs \in Seq(Packets), Len(repairs) \in 0..3, NEW k \in 1..Len(repairs)
  PROVE  Holds(FlattenSeq([j \in DOMAIN repairs |-> Descriptor(repairs[j])]),
               (k - 1) * RepairDescriptorBytes, Descriptor(repairs[k]))
<1> DEFINE n == Len(repairs)
           s == [j \in DOMAIN repairs |-> Descriptor(repairs[j])]
           a == Len(s[1])
           b == Len(s[2])
           u == FlattenSeq(s)
<1>1. /\ DOMAIN repairs = 1..n /\ n \in 0..3 /\ k \in 1..n
      /\ \A j \in 1..n : repairs[j] \in Packets
  OBVIOUS
<1>2. \A j \in 1..n : Descriptor(repairs[j]) \in ByteStrings
                        /\ Len(Descriptor(repairs[j])) = 10
  BY <1>1, DescriptorIs DEF ByteStrings, RepairDescriptorBytes
<1> HIDE DEF n
<1>3. /\ s \in [1..n -> ByteStrings]
      /\ \A j \in 1..n : s[j] = Descriptor(repairs[j]) /\ Len(s[j]) = 10
  BY <1>1, <1>2
<1> HIDE DEF s
<1>4. s \in Seq(ByteStrings) /\ Len(s) = n
  BY <1>1, <1>3
<1>5. InTurn(u, n, s, a, b)
  <2>1. s \in Seq(ByteStrings) /\ Len(s) \in 0..3
    BY <1>1, <1>4
  <2>2. InTurn(FlattenSeq(s), Len(s), s, a, b)
    BY <2>1, FlattenedInTurn, Zenon
  <2> QED BY <1>4, <2>2, Zenon
<1> HIDE DEF u
<1>6. /\ n \in 1..3 => a = 10
      /\ n \in 2..3 => b = 10
  BY <1>3
<1> HIDE DEF a, b
<1>7. Holds(u, (k - 1) * 10, s[k])
  <2>1. CASE k = 1
    BY <1>1, <1>5, <2>1 DEF InTurn
  <2>2. CASE k = 2
    BY <1>1, <1>5, <1>6, <2>2 DEF InTurn
  <2>3. CASE k = 3
    BY <1>1, <1>5, <1>6, <2>3 DEF InTurn
  <2> QED BY <1>1, <2>1, <2>2, <2>3
<1> QED BY <1>1, <1>3, <1>7 DEF u, s, RepairDescriptorBytes

LEMMA BlobsHold ==
  ASSUME NEW repairs \in Seq(Packets), Len(repairs) \in 0..3
  PROVE  LET n == Len(repairs)
             size(k) == Len(repairs[k].payload)
         IN  /\ n \in 1..3 => Holds(Blobs(repairs), 0, repairs[1].payload)
             /\ n \in 2..3 => Holds(Blobs(repairs), size(1), repairs[2].payload)
             /\ n = 3 => Holds(Blobs(repairs), size(1) + size(2), repairs[3].payload)
<1> DEFINE n == Len(repairs)
           s == [k \in DOMAIN repairs |-> repairs[k].payload]
           size(k) == Len(repairs[k].payload)
           a == Len(s[1])
           b == Len(s[2])
           u == Blobs(repairs)
<1>1. DOMAIN repairs = 1..n /\ n \in 0..3 /\ \A k \in 1..n : repairs[k] \in Packets
  OBVIOUS
<1>2. \A k \in 1..n : repairs[k].payload \in ByteStrings
  BY <1>1, PacketFacts DEF ByteStrings
<1> HIDE DEF n
<1>3. /\ s \in [1..n -> ByteStrings]
      /\ \A k \in 1..n : s[k] = repairs[k].payload /\ Len(s[k]) = size(k)
  BY <1>1, <1>2
<1>4. u = FlattenSeq(s)
  BY DEF Blobs
<1> HIDE DEF s
<1>5. s \in Seq(ByteStrings) /\ Len(s) = n
  BY <1>1, <1>3
<1>6. InTurn(u, n, s, a, b)
  <2>1. s \in Seq(ByteStrings) /\ Len(s) \in 0..3
    BY <1>1, <1>5
  <2>2. InTurn(FlattenSeq(s), Len(s), s, a, b)
    BY <2>1, FlattenedInTurn, Zenon
  <2> QED BY <1>4, <1>5, <2>2, Zenon
<1> HIDE DEF u
<1>7. /\ n \in 1..3 => a = size(1) /\ s[1] = repairs[1].payload
      /\ n \in 2..3 => b = size(2) /\ s[2] = repairs[2].payload
      /\ n = 3 => s[3] = repairs[3].payload
  <2> HIDE DEF size
  <2> QED BY <1>3
<1>8. /\ n \in 1..3 => Holds(u, 0, repairs[1].payload)
      /\ n \in 2..3 => Holds(u, size(1), repairs[2].payload)
      /\ n = 3 => Holds(u, size(1) + size(2), repairs[3].payload)
  <2>1. n = 3 => n \in 1..3 /\ n \in 2..3
    OBVIOUS
  <2>2. n \in 2..3 => n \in 1..3
    OBVIOUS
  <2> HIDE DEF a, b, size
  <2> QED BY <1>6, <1>7, <2>1, <2>2, Zenon DEF InTurn
<1> QED BY <1>8 DEF n, u

LEMMA PacketIsRecord ==
  ASSUME NEW packet \in Packets
  PROVE  packet = [sequence |-> packet.sequence, timestamp_samples |-> packet.timestamp_samples,
                   payload |-> packet.payload]
  BY DEF Packets

(* A descriptor of the bundle is read as it was written.                   *)
LEMMA DescriptorRead ==
  ASSUME NEW u, NEW offset \in Nat, NEW repair \in Packets, Holds(u, offset, Descriptor(repair))
  PROVE  /\ ReadU32(u, offset) = repair.sequence
         /\ ReadU32(u, offset + 4) = repair.timestamp_samples
         /\ ReadU16(u, offset + 8) = Len(repair.payload)
<1> DEFINE written == Descriptor(repair)
           first == U32(repair.sequence)
           second == U32(repair.timestamp_samples)
           third == U16(Len(repair.payload))
           four == offset + 4
           eight == offset + 8
<1>1. /\ Holds(written, 0, first) /\ Holds(written, 4, second) /\ Holds(written, 8, third)
      /\ Holds(u, offset, written)
  BY DescriptorHolds
<1>2. offset + 0 = offset
  OBVIOUS
<1> HIDE DEF written, first, second, third
<1>3. Holds(u, offset, first)
  <2>1. Holds(u, offset + 0, first)
    BY <1>1, HoldsAfter, Zenon
  <2> QED BY <1>2, <2>1, Zenon
<1>4. Holds(u, four, second)
  BY <1>1, HoldsAfter, Zenon
<1>5. Holds(u, eight, third)
  BY <1>1, HoldsAfter, Zenon
<1> HIDE DEF four, eight
<1>6. /\ repair.sequence \in Nat /\ repair.sequence < Word32
      /\ repair.timestamp_samples \in Nat /\ repair.timestamp_samples < Word32
      /\ Len(repair.payload) \in Nat /\ Len(repair.payload) < Word16
  BY PacketFacts
<1>7. ReadU32(u, offset) = repair.sequence
  BY <1>3, <1>6, HoldsRead32 DEF first
<1>8. ReadU32(u, four) = repair.timestamp_samples
  BY <1>4, <1>6, HoldsRead32 DEF second
<1>9. ReadU16(u, eight) = Len(repair.payload)
  BY <1>5, <1>6, HoldsRead16 DEF third
<1> QED BY <1>7, <1>8, <1>9 DEF four, eight

LEMMA BundleReadBack ==
  ASSUME NEW packets \in Seq(Packets), requested \in Nat, NEW primary \in Packets,
         Len(primary.payload) <= MaxOpusPacketBytes,
         \A k \in 1..Len(packets) : Len(packets[k].payload) <= MaxOpusPacketBytes,
         NEW said, said.sequence = primary.sequence,
         said.timestamp_samples = primary.timestamp_samples
  PROVE  ParseBundle(SerializeBundle(primary, packets), said)
            = [primary |-> primary, repairs |-> Repairs(primary, packets)]
<1> DEFINE repairs == Repairs(primary, packets)
           n == Len(repairs)
           u == SerializeBundle(primary, packets)
           l == Len(primary.payload)
           size(k) == Len(repairs[k].payload)
           descriptors == FlattenSeq([k \in DOMAIN repairs |-> Descriptor(repairs[k])])
           blobs == Blobs(repairs)
           g == RepairAt(u)
<1>1. /\ repairs \in Seq(Packets) /\ n \in 0..3 /\ n = RepairCount(primary, packets)
      /\ \A k \in 1..n : repairs[k] = Newest(packets, k)
  BY RepairsAre
<1>2. \A k \in 1..n : repairs[k] \in Packets
  BY <1>1
<1>3. \A k \in 1..n : size(k) \in 1..MaxOpusPacketBytes
  <2> SUFFICES ASSUME NEW k \in 1..n PROVE size(k) \in 1..MaxOpusPacketBytes
    OBVIOUS
  <2>1. size(k) \in 1..MaxPayloadBytes
    <3> DEFINE packet == repairs[k]
    <3>1. packet \in Packets
      BY <1>2
    <3> HIDE DEF packet
    <3>2. Len(packet.payload) \in 1..MaxPayloadBytes
      BY <3>1, PacketFacts
    <3> QED BY <3>2 DEF packet
  <2>2. n <= Len(packets) /\ Len(packets) \in Nat
    <3>1. n \in 0..Offered(packets)
      BY <1>1, RepairCountIs
    <3>2. Offered(packets) \in 0..3 /\ Offered(packets) <= Len(packets) /\ Len(packets) \in Nat
      BY OfferedIs
    <3> HIDE DEF n
    <3> QED BY <3>1, <3>2
  <2> DEFINE i == Len(packets) + 1 - k
  <2>3. i \in 1..Len(packets) /\ repairs[k] = packets[i]
    BY <1>1, <2>2 DEF Newest
  <2>4. size(k) <= MaxOpusPacketBytes
    <3> HIDE DEF i, repairs
    <3> QED BY <2>3
  <2> HIDE DEF size
  <2> QED BY <2>1, <2>4, WireFacts
<1>4. l \in 1..MaxOpusPacketBytes /\ l \in Nat
  BY PacketFacts, WireFacts
<1>5. Laid(u, primary, n, descriptors, blobs)
  BY <1>1, BundleParts, Zenon
<1>6. \A k \in 1..n : Holds(descriptors, (k - 1) * RepairDescriptorBytes, Descriptor(repairs[k]))
  <2> HIDE DEF repairs
  <2> QED BY <1>1, DescriptorsHold
<1>7. /\ n \in 1..3 => Holds(blobs, 0, repairs[1].payload)
      /\ n \in 2..3 => Holds(blobs, size(1), repairs[2].payload)
      /\ n = 3 => Holds(blobs, size(1) + size(2), repairs[3].payload)
  <2> HIDE DEF repairs
  <2>1. repairs \in Seq(Packets) /\ Len(repairs) \in 0..3
    BY <1>1
  <2> QED BY <2>1, BlobsHold, Zenon
<1> HIDE DEF u, n, descriptors, blobs, repairs
<1>8. /\ u \in Seq(Bytes) /\ Len(u) \in Nat
      /\ u[1] = BundleMagic /\ u[2] = BundleVersion /\ u[3] = n /\ ReadU16(u, 4) = l
      /\ Holds(u, 6, descriptors) /\ Holds(u, 6 + 10 * n, primary.payload)
      /\ Holds(u, 6 + 10 * n + l, blobs)
  BY <1>5 DEF Laid
<1>9. PrimaryAt(u) = 6 + 10 * n /\ PrimaryAt(u) \in Nat
  <2>1. u[3] = n /\ n \in 0..3
    BY <1>1, <1>8
  <2>2. PrimaryAt(u) = 6 + n * 10
    BY <2>1, Zenon DEF PrimaryAt, BundleHeaderBytes, RepairDescriptorBytes
  <2> QED BY <2>1, <2>2
<1>10. /\ Holds(u, PrimaryAt(u), primary.payload) /\ PrimaryAt(u) + l <= Len(u)
       /\ CopyBytes(u, PrimaryAt(u), l) = primary.payload
  <2>1. Holds(u, PrimaryAt(u), primary.payload)
    BY <1>8, <1>9
  <2>2. PrimaryAt(u) + l <= Len(u)
    BY <2>1 DEF Holds
  <2> QED BY <2>1, <2>2, HoldsCopy
<1>11. ASSUME NEW k \in 1..n
       PROVE  /\ ReadU32(u, DescriptorAt(k)) = repairs[k].sequence
              /\ ReadU32(u, DescriptorAt(k) + 4) = repairs[k].timestamp_samples
              /\ RepairSize(u, k) = size(k)
  <2> DEFINE offset == DescriptorAt(k)
             before == (k - 1) * RepairDescriptorBytes
  <2>1. offset = 6 + before /\ offset \in Nat
    BY <1>1 DEF DescriptorAt, BundleHeaderBytes, RepairDescriptorBytes
  <2>2. Holds(descriptors, before, Descriptor(repairs[k]))
    BY <1>6
  <2> HIDE DEF offset, before
  <2>3. Holds(u, offset, Descriptor(repairs[k]))
    <3>1. Holds(u, 6, descriptors)
      BY <1>8
    <3>2. Holds(u, 6 + before, Descriptor(repairs[k]))
      BY <2>2, <3>1, HoldsAfter, Zenon
    <3> QED BY <2>1, <3>2, Zenon
  <2>4. /\ ReadU32(u, offset) = repairs[k].sequence
        /\ ReadU32(u, offset + 4) = repairs[k].timestamp_samples
        /\ ReadU16(u, offset + 8) = size(k)
    BY <1>2, <2>1, <2>3, DescriptorRead, Zenon
  <2> QED BY <2>4 DEF offset, RepairSize
<1>12. \A k \in 1..(n + 1) : g[k] = IF k = 1 THEN PrimaryAt(u) + l
                                    ELSE g[k - 1] + RepairSize(u, k - 1)
  <2>1. Places(g, u)
    <3>1. u[3] \in 0..3
      BY <1>1, <1>8
    <3> QED BY <3>1, PlacesExist
  <2> HIDE DEF g
  <2> QED BY <1>8, <2>1 DEF Places
<1> HIDE DEF g, size, l
<1>13. \A k \in 1..n : Holds(u, g[k], repairs[k].payload)
  <2> DEFINE a == size(1)
             b == size(2)
             start == 6 + 10 * n + l
  <2>1. start \in Nat /\ start = PrimaryAt(u) + l /\ Holds(u, start, blobs)
    <3>1. n \in 0..3 /\ l \in Nat /\ PrimaryAt(u) = 6 + 10 * n
      BY <1>1, <1>4, <1>9
    <3>2. Holds(u, 6 + 10 * n + l, blobs)
      BY <1>8
    <3> QED BY <3>1, <3>2
  <2>2. n \in 2..3 => a \in Nat /\ RepairSize(u, 1) = a
    BY <1>3, <1>11, WireFacts
  <2>3. n = 3 => b \in Nat /\ RepairSize(u, 2) = b
    BY <1>3, <1>11, WireFacts
  <2> HIDE DEF start, a, b
  <2>4. n \in 1..3 => g[1] = start
    BY <1>12, <2>1
  <2>5. n \in 2..3 => g[2] = start + a
    <3>1. n \in 2..3 => g[2] = g[1] + RepairSize(u, 1)
      BY <1>12
    <3> QED BY <2>2, <2>4, <3>1
  <2>6. n = 3 => g[3] = start + (a + b)
    <3>1. n = 3 => g[3] = g[2] + RepairSize(u, 2)
      BY <1>12
    <3> QED BY <2>1, <2>2, <2>3, <2>5, <3>1
  <2>7. n \in 1..3 => Holds(u, g[1], repairs[1].payload)
    <3>1. SUFFICES ASSUME n \in 1..3 PROVE Holds(u, g[1], repairs[1].payload)
      OBVIOUS
    <3>2. Holds(blobs, 0, repairs[1].payload) /\ g[1] = start /\ start + 0 = start
      BY <1>7, <2>1, <2>4, <3>1
    <3>3. Holds(u, start + 0, repairs[1].payload)
      BY <2>1, <3>2, HoldsAfter, Zenon
    <3> QED BY <3>2, <3>3, Zenon
  <2>8. n \in 2..3 => Holds(u, g[2], repairs[2].payload)
    <3>1. SUFFICES ASSUME n \in 2..3 PROVE Holds(u, g[2], repairs[2].payload)
      OBVIOUS
    <3>2. Holds(blobs, a, repairs[2].payload) /\ g[2] = start + a
      BY <1>7, <2>5, <3>1, Zenon DEF a
    <3>3. Holds(u, start + a, repairs[2].payload)
      BY <2>1, <3>2, HoldsAfter, Zenon
    <3> QED BY <3>2, <3>3, Zenon
  <2>9. n = 3 => Holds(u, g[3], repairs[3].payload)
    <3>1. SUFFICES ASSUME n = 3 PROVE Holds(u, g[3], repairs[3].payload)
      OBVIOUS
    <3>2. Holds(blobs, a + b, repairs[3].payload) /\ g[3] = start + (a + b)
      BY <1>7, <2>6, <3>1, Zenon DEF a, b
    <3>3. Holds(u, start + (a + b), repairs[3].payload)
      BY <2>1, <3>2, HoldsAfter, Zenon
    <3> QED BY <3>2, <3>3, Zenon
  <2> QED BY <1>1, <2>7, <2>8, <2>9
<1>14. \A k \in 1..n : CopyBytes(u, g[k], size(k)) = repairs[k].payload
  BY <1>13, HoldsCopy DEF size
<1>15. \A k \in 1..n : ~Outside(u, g[k], RepairSize(u, k))
  <2> SUFFICES ASSUME NEW k \in 1..n PROVE ~Outside(u, g[k], RepairSize(u, k))
    OBVIOUS
  <2>1. RepairSize(u, k) = size(k) /\ size(k) \in 1..MaxOpusPacketBytes
    BY <1>3, <1>11
  <2>2. g[k] + size(k) <= Len(u) /\ g[k] \in Nat
    BY <1>13 DEF Holds, size
  <2> QED BY <1>8, <2>1, <2>2, WireFacts DEF Outside
<1>16. ~Outside(u, PrimaryAt(u), l)
  BY <1>4, <1>8, <1>9, <1>10, WireFacts DEF Outside
<1> DEFINE read(k) == [sequence |-> ReadU32(u, DescriptorAt(k)),
                       timestamp_samples |-> ReadU32(u, DescriptorAt(k) + 4),
                       payload |-> CopyBytes(u, g[k], RepairSize(u, k))]
           first == [sequence |-> said.sequence, timestamp_samples |-> said.timestamp_samples,
                     payload |-> CopyBytes(u, PrimaryAt(u), l)]
<1>17. ParseBundle(u, said) = [primary |-> first, repairs |-> [k \in 1..n |-> read(k)]]
  <2>1. ~(Len(u) < BundleHeaderBytes) /\ ~(n > MaxRedundantOpusFrames) /\ ~(Len(u) < PrimaryAt(u))
    <3>1. n \in 0..3 /\ l \in Nat /\ PrimaryAt(u) = 6 + 10 * n
      BY <1>1, <1>4, <1>9
    <3>2. PrimaryAt(u) + l <= Len(u) /\ Len(u) \in Nat
      BY <1>8, <1>10
    <3> QED BY <3>1, <3>2 DEF BundleHeaderBytes, MaxRedundantOpusFrames
  <2> QED BY <1>8, <1>15, <1>16, <2>1, Zenon DEF ParseBundle, g
<1>18. first = primary
  BY <1>10, PacketIsRecord
<1>19. \A k \in 1..n : read(k) = repairs[k]
  <2> SUFFICES ASSUME NEW k \in 1..n PROVE read(k) = repairs[k]
    OBVIOUS
  <2>1. /\ ReadU32(u, DescriptorAt(k)) = repairs[k].sequence
        /\ ReadU32(u, DescriptorAt(k) + 4) = repairs[k].timestamp_samples
        /\ CopyBytes(u, g[k], RepairSize(u, k)) = repairs[k].payload
    BY <1>11, <1>14
  <2>2. repairs[k] \in Packets
    BY <1>2
  <2> QED BY <2>1, <2>2, PacketIsRecord
<1> HIDE DEF first, read
<1>20. [k \in 1..n |-> read(k)] = repairs
  <2>1. [k \in 1..n |-> read(k)] = [k \in 1..n |-> repairs[k]]
    BY <1>19
  <2>2. repairs = [k \in 1..n |-> repairs[k]]
    <3> HIDE DEF Packets
    <3> QED BY <1>1 DEF n
  <2> QED BY <2>1, <2>2, Zenon
<1> QED BY <1>17, <1>18, <1>20, Zenon DEF u, repairs

-----------------------------------------------------------------------------
(* A datagram is read as what was sent, and a shortened one is rejected.   *)
LEMMA HeadedRead ==
  ASSUME NEW sent, NEW sequence, NEW timestamp, NEW payload \in Seq(Bytes),
         Headed(sent, sequence, timestamp, Len(payload), payload),
         Len(payload) \in 0..MaxPayloadBytes
  PROVE  /\ ~(Len(sent) < HeaderSizeBytes) /\ IsValidHeader(ParseHeader(sent))
         /\ ~Incomplete(sent, Len(payload))
         /\ CopyBytes(sent, HeaderSizeBytes, Len(payload)) = payload
<1>1. /\ Len(sent) = HeaderSizeBytes + Len(payload)
      /\ Holds(sent, HeaderSizeBytes, payload)
      /\ ParseHeader(sent).magic = Magic /\ ParseHeader(sent).version = Version
      /\ ParseHeader(sent).payload_size = Len(payload)
  BY DEF Headed
<1>2. ~(Len(sent) < HeaderSizeBytes) /\ ~Incomplete(sent, Len(payload))
  BY <1>1 DEF HeaderSizeBytes, Incomplete
<1>3. IsValidHeader(ParseHeader(sent))
  BY <1>1 DEF IsValidHeader
<1>4. CopyBytes(sent, HeaderSizeBytes, Len(payload)) = payload
  BY <1>1, HoldsCopy, Zenon
<1> QED BY <1>2, <1>3, <1>4

LEMMA HeadedCut ==
  ASSUME NEW sent, NEW sequence, NEW timestamp, NEW payload \in Seq(Bytes),
         Headed(sent, sequence, timestamp, Len(payload), payload),
         NEW n \in 0..(Len(sent) - 1)
  PROVE  \/ Len(SubSeq(sent, 1, n)) < HeaderSizeBytes
         \/ /\ ParseHeader(SubSeq(sent, 1, n)).payload_size = Len(payload)
            /\ Incomplete(SubSeq(sent, 1, n), Len(payload))
<1> DEFINE cut == SubSeq(sent, 1, n)
<1>1. /\ sent \in Seq(Bytes) /\ Len(sent) = HeaderSizeBytes + Len(payload)
      /\ ParseHeader(sent).payload_size = Len(payload)
  BY DEF Headed
<1>2. Len(cut) = n /\ \A k \in 1..n : cut[k] = sent[k]
  <2>1. Len(sent) \in Nat /\ n \in Nat /\ n <= Len(sent)
    BY <1>1
  <2> HIDE DEF Bytes
  <2> QED BY <1>1, <2>1
<1> HIDE DEF cut
<1>3. CASE n < 16
  BY <1>2, <1>3 DEF HeaderSizeBytes, cut
<1>4. CASE ~(n < 16)
  <2>1. cut[13] = sent[13] /\ cut[14] = sent[14]
    BY <1>2, <1>4
  <2>2. ParseHeader(cut).payload_size = ParseHeader(sent).payload_size
    BY <2>1 DEF ParseHeader, ReadU16
  <2>3. Incomplete(cut, Len(payload))
    <3>1. n < HeaderSizeBytes + Len(payload)
      BY <1>1 DEF HeaderSizeBytes
    <3> QED BY <1>2, <3>1 DEF Incomplete
  <2> QED BY <1>1, <2>2, <2>3 DEF cut
<1> QED BY <1>3, <1>4

(* What the receiver of a program makes of a datagram.                     *)
Accepted(bytes) == IF program = "pcm" THEN AcceptPcm(bytes) ELSE AcceptOpus(bytes)

ReadsAs(accepted(_), bytes, sent) ==
    /\ accepted(bytes) = sent
    /\ \A n \in 0..(Len(bytes) - 1) : accepted(SubSeq(bytes, 1, n)) = Rejected

LEMMA PcmReadBack ==
  ASSUME NEW packet \in Packets, Len(packet.payload) = FramePayloadBytes
  PROVE  ReadsAs(AcceptPcm, MakePacket(packet, packet.payload),
                 [primary |-> packet, repairs |-> <<>>])
<1> DEFINE sent == MakePacket(packet, packet.payload)
           payload == packet.payload
<1>1. payload \in Seq(Bytes) /\ Len(payload) \in 0..MaxPayloadBytes
  BY PacketFacts
<1>2. Headed(sent, packet.sequence, packet.timestamp_samples, Len(payload), payload)
  BY <1>1, MakePacketIs
<1>3. ParseHeader(sent) = [magic |-> Magic, version |-> Version, sequence |-> packet.sequence,
                           timestamp_samples |-> packet.timestamp_samples,
                           payload_size |-> Len(payload)]
  BY <1>2 DEF Headed
<1>4. Len(payload) = FramePayloadBytes
  OBVIOUS
<1> HIDE DEF sent, payload
<1>5. AcceptPcm(sent) = [primary |-> packet, repairs |-> <<>>]
  <2> DEFINE said == ParseHeader(sent)
             read == [sequence |-> said.sequence,
                      timestamp_samples |-> said.timestamp_samples,
                      payload |-> CopyBytes(sent, HeaderSizeBytes, FramePayloadBytes)]
  <2>1. /\ ~(Len(sent) < HeaderSizeBytes) /\ IsValidHeader(said)
        /\ ~Incomplete(sent, FramePayloadBytes) /\ said.payload_size = FramePayloadBytes
        /\ CopyBytes(sent, HeaderSizeBytes, FramePayloadBytes) = payload
    BY <1>1, <1>2, <1>3, <1>4, HeadedRead
  <2>2. said.sequence = packet.sequence /\ said.timestamp_samples = packet.timestamp_samples
    BY <1>3
  <2> HIDE DEF said
  <2>3. read = packet
    BY <2>1, <2>2, PacketIsRecord DEF payload
  <2>4. AcceptPcm(sent) = [primary |-> read, repairs |-> <<>>]
    BY <2>1, Zenon DEF AcceptPcm, said
  <2> QED BY <2>3, <2>4, Zenon
<1>6. ASSUME NEW n \in 0..(Len(sent) - 1)
      PROVE  AcceptPcm(SubSeq(sent, 1, n)) = Rejected
  <2> DEFINE cut == SubSeq(sent, 1, n)
  <2>1. Len(cut) < HeaderSizeBytes \/ Incomplete(cut, FramePayloadBytes)
    BY <1>1, <1>2, <1>4, HeadedCut
  <2> HIDE DEF cut
  <2>2. AcceptPcm(cut) = Rejected
    BY <2>1, Zenon DEF AcceptPcm
  <2> QED BY <2>2 DEF cut
<1> QED BY <1>5, <1>6 DEF ReadsAs, sent, payload

LEMMA OpusReadBack ==
  ASSUME NEW packets \in Seq(Packets), requested \in Nat, NEW packet \in Packets,
         Len(packet.payload) <= MaxOpusPacketBytes,
         \A k \in 1..Len(packets) : Len(packets[k].payload) <= MaxOpusPacketBytes
  PROVE  ReadsAs(AcceptOpus, MakePacket(packet, SerializeBundle(packet, packets)),
                 [primary |-> packet, repairs |-> Repairs(packet, packets)])
<1> DEFINE bundle == SerializeBundle(packet, packets)
           sent == MakePacket(packet, bundle)
           whole == [primary |-> packet, repairs |-> Repairs(packet, packets)]
<1>1. bundle \in Seq(Bytes) /\ Len(bundle) \in 0..MaxPayloadBytes
  BY BundleIs, BundleFits
<1>2. \A said : said.sequence = packet.sequence
                  /\ said.timestamp_samples = packet.timestamp_samples
               => ParseBundle(bundle, said) = whole
  BY BundleReadBack
<1> HIDE DEF bundle, whole
<1>3. Headed(sent, packet.sequence, packet.timestamp_samples, Len(bundle), bundle)
  BY <1>1, MakePacketIs
<1>4. ParseHeader(sent) = [magic |-> Magic, version |-> Version, sequence |-> packet.sequence,
                           timestamp_samples |-> packet.timestamp_samples,
                           payload_size |-> Len(bundle)]
  BY <1>3 DEF Headed
<1> HIDE DEF sent
<1>5. AcceptOpus(sent) = whole
  <2> DEFINE said == ParseHeader(sent)
  <2>1. /\ ~(Len(sent) < HeaderSizeBytes) /\ IsValidHeader(said)
        /\ ~Incomplete(sent, said.payload_size)
        /\ CopyBytes(sent, HeaderSizeBytes, said.payload_size) = bundle
    BY <1>1, <1>3, <1>4, HeadedRead
  <2>2. said.sequence = packet.sequence /\ said.timestamp_samples = packet.timestamp_samples
    BY <1>4
  <2> HIDE DEF said
  <2>3. AcceptOpus(sent) = ParseBundle(bundle, said)
    BY <2>1, Zenon DEF AcceptOpus, said
  <2> QED BY <1>2, <2>2, <2>3
<1>6. ASSUME NEW n \in 0..(Len(sent) - 1)
      PROVE  AcceptOpus(SubSeq(sent, 1, n)) = Rejected
  <2> DEFINE cut == SubSeq(sent, 1, n)
  <2>1. Len(cut) < HeaderSizeBytes \/ Incomplete(cut, ParseHeader(cut).payload_size)
    BY <1>1, <1>3, HeadedCut
  <2> HIDE DEF cut
  <2>2. AcceptOpus(cut) = Rejected
    BY <2>1, Zenon DEF AcceptOpus
  <2> QED BY <2>2 DEF cut
<1> QED BY <1>5, <1>6 DEF ReadsAs, sent, bundle, whole

(* A datagram under way is one that its receiver reads as what was sent.   *)
OpusSizes == program = "opus" =>
                \A k \in 1..Len(history) : Len(history[k].payload) <= MaxOpusPacketBytes
UnderWay == datagram # <<>> => ReadsAs(Accepted, datagram, Sent)
SentInv == WireInv /\ OpusSizes /\ UnderWay

LEMMA SentNextInv == SentInv /\ [WireNext]_wireVars => SentInv'
<1> SUFFICES ASSUME SentInv, [WireNext]_wireVars PROVE SentInv'
  OBVIOUS
<1>1. /\ program \in {"pcm", "opus"} /\ requested \in Nat /\ history \in Seq(Packets)
      /\ OpusSizes /\ UnderWay
  BY StreamAssumption DEF SentInv, WireInv
<1>2. WireInv'
  BY WireNextInv DEF SentInv
<1>3. CASE SendPcm
  <2> DEFINE frame == Encoded(FramePayloadBytes)
  <2>1. /\ program = "pcm" /\ program' = "pcm"
        /\ datagram' = MakePacket(frame, frame.payload) /\ history' = Append(history, frame)
    BY <1>3 DEF SendPcm
  <2>2. frame \in Packets /\ Len(frame.payload) = FramePayloadBytes
    <3>1. FramePayloadBytes \in 1..MaxPayloadBytes
      BY WireFacts
    <3> QED BY <1>1, <3>1, EncodedIs
  <2> HIDE DEF frame
  <2>3. Sent' = [primary |-> frame, repairs |-> <<>>]
    <3>1. Last(history') = frame
      BY <1>1, <2>1, <2>2, LastAndFront
    <3> QED BY <2>1, <3>1 DEF Sent
  <2>4. ReadsAs(AcceptPcm, datagram', Sent')
    BY <2>1, <2>2, <2>3, PcmReadBack
  <2>5. UnderWay'
    BY <2>1, <2>4 DEF UnderWay, ReadsAs, Accepted
  <2>6. OpusSizes'
    BY <2>1 DEF OpusSizes
  <2> QED BY <1>2, <2>5, <2>6 DEF SentInv
<1>4. CASE SendOpus
  <2>1. PICK size \in 1..MaxOpusPacketBytes :
          /\ datagram' = MakePacket(Encoded(size), SerializeBundle(Encoded(size), history))
          /\ history' = Append(history, Encoded(size))
    BY <1>4, Zenon DEF SendOpus
  <2> DEFINE encoded == Encoded(size)
  <2>2. program = "opus" /\ program' = program /\ requested' = requested
    BY <1>4 DEF SendOpus
  <2>3. encoded \in Packets /\ Len(encoded.payload) <= MaxOpusPacketBytes
    <3>1. size \in 1..MaxPayloadBytes /\ size <= MaxOpusPacketBytes
      BY WireFacts DEF BundleHeaderBytes
    <3> QED BY <1>1, <3>1, EncodedIs
  <2>4. /\ datagram' = MakePacket(encoded, SerializeBundle(encoded, history))
        /\ history' = Append(history, encoded)
    BY <2>1
  <2> HIDE DEF encoded
  <2>5. Last(history') = encoded /\ Front(history') = history
    BY <1>1, <2>3, <2>4, LastAndFront
  <2>6. \A k \in 1..Len(history) : Len(history[k].payload) <= MaxOpusPacketBytes
    BY <1>1, <2>2 DEF OpusSizes
  <2>7. Sent' = [primary |-> encoded, repairs |-> Repairs(encoded, history)]
    <3>1. Sent' = [primary |-> Last(history'), repairs |-> Repairs(Last(history), Front(history))']
      BY <2>2 DEF Sent
    <3>2. Repairs(Last(history), Front(history))' = Repairs(Last(history'), Front(history'))
      BY <2>2 DEF Repairs, RepairCount, Projected, Offered
    <3> QED BY <2>5, <3>1, <3>2
  <2>8. ReadsAs(AcceptOpus, datagram', Sent')
    BY <1>1, <2>3, <2>4, <2>6, <2>7, OpusReadBack
  <2>9. UnderWay'
    <3>1. program' = "opus"
      BY <2>2
    <3> QED BY <2>8, <3>1 DEF UnderWay, ReadsAs, Accepted
  <2>10. OpusSizes'
    <3>1. /\ Len(history') = Len(history) + 1 /\ Len(history) \in Nat
          /\ \A k \in 1..Len(history') : \/ k \in 1..Len(history) /\ history'[k] = history[k]
                                         \/ history'[k] = encoded
      <4> HIDE DEF Packets
      <4> QED BY <1>1, <2>3, <2>4
    <3> QED BY <2>3, <2>6, <3>1 DEF OpusSizes
  <2> QED BY <1>2, <2>9, <2>10 DEF SentInv
<1>5. CASE Receive
  <2>1. datagram' = <<>> /\ program' = program /\ history' = history
    BY <1>5 DEF Receive
  <2> QED BY <1>1, <1>2, <2>1 DEF SentInv, OpusSizes, UnderWay
<1>6. CASE UNCHANGED wireVars
  <2>1. /\ program' = program /\ requested' = requested /\ history' = history
        /\ datagram' = datagram
    BY <1>6 DEF wireVars
  <2>2. Sent' = Sent
    BY <2>1 DEF Sent, Repairs, RepairCount, Projected, Offered
  <2> QED BY <1>1, <1>2, <2>1, <2>2 DEF SentInv, OpusSizes, UnderWay, ReadsAs, Accepted
<1> QED BY <1>3, <1>4, <1>5, <1>6 DEF WireNext

(* Of what may arrive, only the beginnings are shorter than the datagram.  *)
LEMMA ShorterIsCut ==
  ASSUME NEW bytes \in Seq(Bytes), NEW arrived \in Arrivals(bytes), Len(arrived) < Len(bytes)
  PROVE  \E n \in 0..(Len(bytes) - 1) : arrived = SubSeq(bytes, 1, n)
<1> DEFINE shortened == {SubSeq(bytes, 1, n) : n \in 0..(Len(bytes) - 1)}
           changed == {[bytes EXCEPT ![k] = b] : k \in DOMAIN bytes, b \in Bytes}
<1>1. Arrivals(bytes) = {bytes} \union shortened \union changed
  BY DEF Arrivals
<1>2. Len(bytes) \in Nat
  OBVIOUS
<1>3. arrived \notin changed
  <2>1. SUFFICES ASSUME arrived \in changed PROVE FALSE
    OBVIOUS
  <2>2. PICK k \in DOMAIN bytes, b \in Bytes : arrived = [bytes EXCEPT ![k] = b]
    BY <2>1
  <2>3. Len([bytes EXCEPT ![k] = b]) = Len(bytes)
    <3> HIDE DEF Bytes
    <3> QED OBVIOUS
  <2> QED BY <1>2, <2>2, <2>3
<1> HIDE DEF shortened, changed
<1>4. arrived \in shortened
  BY <1>1, <1>2, <1>3
<1> QED BY <1>4, Zenon DEF shortened

(* What arrives as it was sent is read as what was sent, the primary packet *)
(* and every repair with its own sequence number, timestamp and bytes, and *)
(* a datagram of which the end is missing is rejected: for every width of  *)
(* a byte, every size of packet and every redundancy.                      *)
THEOREM SentIsRead == WireSpec => ReadAsSent
<1>1. WireInit => SentInv
  BY WireInitInv DEF WireInit, SentInv, OpusSizes, UnderWay
<1>2. SentInv /\ [WireNext]_wireVars
         => [Receive => /\ delivered' = datagram => received' = Sent
                        /\ Len(delivered') < Len(datagram) => received' = Rejected]_wireVars
  <2> SUFFICES ASSUME SentInv, Receive
               PROVE  /\ delivered' = datagram => received' = Sent
                      /\ Len(delivered') < Len(datagram) => received' = Rejected
    OBVIOUS
  <2>1. /\ delivered' \in Arrivals(datagram) /\ received' = Accepted(delivered')
        /\ datagram # <<>>
    BY DEF Receive, Accepted
  <2>2. datagram \in Seq(Bytes) /\ ReadsAs(Accepted, datagram, Sent)
    BY <2>1 DEF SentInv, WireInv, UnderWay
  <2>3. Accepted(datagram) = Sent
    BY <2>2 DEF ReadsAs
  <2>4. Len(delivered') < Len(datagram) => received' = Rejected
    <3>1. SUFFICES ASSUME Len(delivered') < Len(datagram) PROVE received' = Rejected
      OBVIOUS
    <3>2. PICK n \in 0..(Len(datagram) - 1) : delivered' = SubSeq(datagram, 1, n)
      BY <2>1, <2>2, <3>1, ShorterIsCut
    <3>3. Accepted(SubSeq(datagram, 1, n)) = Rejected
      BY <2>2, <3>2 DEF ReadsAs
    <3> QED BY <2>1, <3>2, <3>3
  <2> QED BY <2>1, <2>3, <2>4
<1> QED BY <1>1, <1>2, SentNextInv, PTL DEF WireSpec, ReadAsSent

-----------------------------------------------------------------------------
(* What the loopbacks' models take from this one: packets are sent in turn, *)
(* and the repairs a datagram carries are the packets just before it.      *)
NumberedInTurn == \A n \in 1..Len(history) : history[n].sequence = (n - 1) % Word32

TurnInv == SentInv /\ NumberedInTurn /\ (datagram # <<>> => Len(history) > 0)

LEMMA TurnNextInv == TurnInv /\ [WireNext]_wireVars => TurnInv'
<1> SUFFICES ASSUME TurnInv, [WireNext]_wireVars PROVE TurnInv'
  OBVIOUS
<1>1. SentInv' /\ history \in Seq(Packets) /\ NumberedInTurn
  BY SentNextInv DEF TurnInv, SentInv, WireInv
<1>2. CASE SendPcm \/ SendOpus
  <2>1. PICK size : history' = Append(history, Encoded(size))
    BY <1>2 DEF SendPcm, SendOpus
  <2> DEFINE packet == Encoded(size)
  <2>2. packet.sequence = Len(history) % Word32
    BY DEF Encoded
  <2> HIDE DEF packet
  <2>3. /\ Len(history') = Len(history) + 1 /\ Len(history) \in Nat
        /\ history'[Len(history) + 1] = packet
        /\ \A n \in 1..Len(history) : history'[n] = history[n]
    <3> HIDE DEF Packets
    <3> QED BY <1>1, <2>1 DEF packet
  <2>4. ASSUME NEW n \in 1..(Len(history) + 1)
        PROVE  history'[n].sequence = (n - 1) % Word32
    <3>1. CASE n = Len(history) + 1
      <4>1. n - 1 = Len(history)
        BY <2>3, <3>1
      <4> QED BY <2>2, <2>3, <3>1, <4>1
    <3>2. CASE n # Len(history) + 1
      <4>1. n \in 1..Len(history)
        BY <2>3, <3>2
      <4> QED BY <1>1, <2>3, <4>1 DEF NumberedInTurn
    <3> QED BY <3>1, <3>2
  <2>5. NumberedInTurn' /\ Len(history') > 0
    BY <2>3, <2>4 DEF NumberedInTurn, Word32, Word16
  <2> QED BY <1>1, <2>5 DEF TurnInv
<1>3. CASE Receive \/ UNCHANGED wireVars
  <2>1. history' = history /\ (datagram' = <<>> \/ datagram' = datagram)
    BY <1>3 DEF Receive, wireVars
  <2> QED BY <1>1, <2>1 DEF TurnInv, NumberedInTurn, Word32, Word16
<1> QED BY <1>2, <1>3 DEF WireNext

(* A bundle that arrives intact holds the packet encoded last and, newest   *)
(* first, some of the packets just before it, no more than were asked for: *)
(* what OpusLoopback lets a packet carry, for every size and redundancy.   *)
PrecedingPackets ==
    [][Receive /\ program = "opus" /\ delivered' = datagram =>
         /\ received'.primary = history[Len(history)]
         /\ received'.primary.sequence = (Len(history) - 1) % Word32
         /\ Len(received'.repairs) <= requested /\ Len(received'.repairs) < Len(history)
         /\ \A k \in 1..Len(received'.repairs) :
               /\ received'.repairs[k] = history[Len(history) - k]
               /\ received'.repairs[k].sequence = (Len(history) - k - 1) % Word32]_wireVars

(* What a bundle is read as, by its place in the stream. *)
LEMMA SentIsPreceding ==
  ASSUME TurnInv, program = "opus", Len(history) > 0
  PROVE  LET last == Len(history)
         IN  /\ Sent.primary = history[last]
             /\ Sent.primary.sequence = (last - 1) % Word32
             /\ Len(Sent.repairs) <= requested /\ Len(Sent.repairs) < last
             /\ \A k \in 1..Len(Sent.repairs) :
                   /\ Sent.repairs[k] = history[last - k]
                   /\ Sent.repairs[k].sequence = (last - k - 1) % Word32
<1> DEFINE last == Len(history)
           older == Front(history)
           primary == Last(history)
           repairs == Repairs(primary, older)
<1>1. history \in Seq(Packets) /\ NumberedInTurn /\ requested \in Nat /\ last \in Nat /\ last > 0
  BY StreamAssumption DEF TurnInv, SentInv, WireInv
<1>2. Sent.primary = primary /\ Sent.repairs = repairs
  BY DEF Sent
<1>3. /\ primary = history[last] /\ primary \in Packets
      /\ older \in Seq(Packets) /\ Len(older) = last - 1
      /\ \A n \in 1..(last - 1) : older[n] = history[n]
  <2> HIDE DEF Packets
  <2>1. primary = history[last] /\ primary \in Packets
    BY <1>1 DEF Last
  <2>2. older = SubSeq(history, 1, last - 1)
    BY DEF Front
  <2>3. last = Len(history) /\ last \in Nat /\ last > 0
    BY <1>1
  <2> HIDE DEF last
  <2>4. SubSeq(history, 1, last - 1) \in Seq(Packets)
    BY <1>1, <2>3
  <2>5. Len(SubSeq(history, 1, last - 1)) = last - 1
    BY <1>1, <2>3
  <2>6. ASSUME NEW n \in 1..(last - 1) PROVE SubSeq(history, 1, last - 1)[n] = history[n]
    BY <1>1, <2>3
  <2> HIDE DEF older
  <2> QED BY <2>1, <2>2, <2>4, <2>5, <2>6
<1>4. primary.sequence = (last - 1) % Word32
  BY <1>1, <1>3 DEF NumberedInTurn
<1> HIDE DEF last, older, primary
<1>5. /\ Len(repairs) = RepairCount(primary, older) /\ Len(repairs) \in Nat
      /\ RepairCount(primary, older) \in 0..Offered(older)
      /\ Offered(older) \in 0..3 /\ Offered(older) <= Len(older)
      /\ \A k \in 1..Len(repairs) : repairs[k] = Newest(older, k)
  <2> HIDE DEF Packets
  <2>1. /\ Len(repairs) = RepairCount(primary, older) /\ Len(repairs) \in 0..3
        /\ \A k \in 1..Len(repairs) : repairs[k] = Newest(older, k)
    BY <1>1, <1>3, RepairsAre
  <2>2. RepairCount(primary, older) \in 0..Offered(older)
    BY <1>1, <1>3, RepairCountIs
  <2>3. Offered(older) \in 0..3 /\ Offered(older) <= Len(older)
    BY <1>1, <1>3, OfferedIs
  <2> QED BY <2>1, <2>2, <2>3
<1>6. Offered(older) <= requested
  BY <1>1, <1>3, OfferedWithin
<1> HIDE DEF repairs
<1>7. Len(repairs) <= requested /\ Len(repairs) < last
  BY <1>1, <1>3, <1>5, <1>6
<1>8. ASSUME NEW k \in 1..Len(repairs)
      PROVE  repairs[k] = history[last - k] /\ repairs[k].sequence = (last - k - 1) % Word32
  <2>1. last - k \in 1..(last - 1) /\ Len(older) + 1 - k = last - k
    BY <1>1, <1>3, <1>5
  <2>2. repairs[k] = older[last - k] /\ older[last - k] = history[last - k]
    BY <1>3, <1>5, <2>1 DEF Newest
  <2>3. last - k \in 1..last
    BY <1>1, <2>1
  <2> QED BY <1>1, <2>2, <2>3 DEF NumberedInTurn, last
<1> QED BY <1>2, <1>3, <1>4, <1>7, <1>8 DEF last

(* PrecedingPackets holds of every intact bundle. *)
THEOREM BundleIsTheNewest == WireSpec => PrecedingPackets
<1> DEFINE Preceding(what) ==
             /\ what.primary = history[Len(history)]
             /\ what.primary.sequence = (Len(history) - 1) % Word32
             /\ Len(what.repairs) <= requested /\ Len(what.repairs) < Len(history)
             /\ \A k \in 1..Len(what.repairs) :
                   /\ what.repairs[k] = history[Len(history) - k]
                   /\ what.repairs[k].sequence = (Len(history) - k - 1) % Word32
<1>1. WireInit => TurnInv
  BY WireInitInv DEF WireInit, SentInv, OpusSizes, UnderWay, TurnInv, NumberedInTurn
<1>2. TurnInv /\ [WireNext]_wireVars
        => [Receive /\ program = "opus" /\ delivered' = datagram => Preceding(received')]_wireVars
  <2> SUFFICES ASSUME TurnInv, Receive, program = "opus", delivered' = datagram
               PROVE  Preceding(received')
    OBVIOUS
  <2>1. received' = Accepted(datagram) /\ datagram # <<>>
    BY DEF Receive, Accepted
  <2>2. received' = Sent
    BY <2>1 DEF TurnInv, SentInv, UnderWay, ReadsAs
  <2>3. Preceding(Sent)
    BY <2>1, SentIsPreceding DEF TurnInv
  <2> HIDE DEF Preceding
  <2> QED BY <2>2, <2>3
<1>3. TurnInv /\ [WireNext]_wireVars
        => [Receive /\ program = "opus" /\ delivered' = datagram =>
             /\ received'.primary = history[Len(history)]
             /\ received'.primary.sequence = (Len(history) - 1) % Word32
             /\ Len(received'.repairs) <= requested /\ Len(received'.repairs) < Len(history)
             /\ \A k \in 1..Len(received'.repairs) :
                   /\ received'.repairs[k] = history[Len(history) - k]
                   /\ received'.repairs[k].sequence = (Len(history) - k - 1) % Word32]_wireVars
  BY <1>2
<1> QED BY <1>1, <1>3, TurnNextInv, PTL DEF WireSpec, PrecedingPackets
=============================================================================
