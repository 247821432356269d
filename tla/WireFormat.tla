------------------------------ MODULE WireFormat ------------------------------
(***************************************************************************)
(* What the two loopback programs put into a datagram and what they accept *)
(* from one: the 16-byte packet header, the samples of a PCM frame, and    *)
(* the Opus bundle of a primary packet and copies of previous ones.        *)
(*                                                                         *)
(* A byte is a number below ByteBase and every width is the code's, so     *)
(* that a u16 wraps at Word16.  What arrives may be cut or have a byte     *)
(* changed: the receiver's socket is open to every program of the host.    *)
(***************************************************************************)
EXTENDS Naturals, FiniteSets, SequencesExt

CONSTANTS ByteBase,             \* 256
          Magic, Version,       \* kMagic, kVersion
          MaxPayloadBytes,      \* kMaxPayloadBytes
          BundleMagic, BundleVersion,
          MaxOpusPacketBytes,   \* kMaxOpusPacketBytes
          kFrameSamples,         \* kFrameSamples
          FramePayloadBytes,    \* kFramePayloadBytes
          Requests,             \* values of options.redundancy_frames
          MaxPackets,            \* bound: frames sent
          Stale                 \* what lies in the buffer behind a datagram

HeaderSizeBytes == 16
BundleHeaderBytes == 6
RepairDescriptorBytes == 10
MaxRedundantOpusFrames == 3

Bytes == 0..(ByteBase - 1)
Word16 == ByteBase * ByteBase           \* what a u16 wraps at
Word32 == Word16 * Word16               \* what a u32 wraps at

ASSUME MagicAssumption ==
    /\ ByteBase \in Nat /\ ByteBase > MaxRedundantOpusFrames
    /\ {Version, BundleMagic, BundleVersion} \subseteq Bytes
    /\ Magic \in 0..(Word16 - 1) /\ Stale \notin Bytes
ASSUME PacketSizesAssumption ==
    /\ {MaxOpusPacketBytes, MaxPayloadBytes} \subseteq Nat /\ FramePayloadBytes \in Nat \ {0}
    /\ BundleHeaderBytes + MaxOpusPacketBytes <= MaxPayloadBytes
    /\ FramePayloadBytes <= MaxPayloadBytes /\ MaxPayloadBytes < Word16
ASSUME StreamAssumption ==
    kFrameSamples \in Nat /\ MaxPackets \in Nat /\ Requests \subseteq Nat

VARIABLES
    program,                \* "pcm" or "opus"
    requested,              \* options.redundancy_frames
    history,                \* packets encoded so far, oldest first
    datagram,               \* what send_to was given last, until it arrives
    delivered,              \* what receive_from gave last
    received                \* what the receiver made of it, or Rejected

wireVars == <<program, requested, history, datagram, delivered, received>>

Rejected == [rejected |-> TRUE]
-----------------------------------------------------------------------------
U16(value) == <<(value \div ByteBase) % ByteBase, value % ByteBase>>

U32(value) == U16(value \div Word16) \o U16(value)
ReadU16(bytes, offset) == bytes[offset + 1] * ByteBase + bytes[offset + 2]
ReadU32(bytes, offset) == ReadU16(bytes, offset) * Word16 + ReadU16(bytes, offset + 2)

(* flags and header_crc stay 0: no sender sets them. *)
SerializeHeader(header) ==
    U16(Magic) \o <<Version, 0>> \o U32(header.sequence) \o U32(header.timestamp_samples)
        \o U16(header.payload_size) \o U16(0)

ParseHeader(bytes) ==
    [magic |-> ReadU16(bytes, 0), version |-> bytes[3],
     sequence |-> ReadU32(bytes, 4), timestamp_samples |-> ReadU32(bytes, 8),
     payload_size |-> ReadU16(bytes, 12)]

IsValidHeader(header) ==
    /\ header.magic = Magic /\ header.version = Version
    /\ header.payload_size <= MaxPayloadBytes

(* The bytes from offset on, with what lies behind the datagram. *)
CopyBytes(bytes, offset, size) ==
    [j \in 1..size |-> IF offset + j <= Len(bytes) THEN bytes[offset + j] ELSE Stale]
-----------------------------------------------------------------------------
(* How many repairs fit.  projected[k] is the size with the k newest.      *)
Newest(packets, k) == packets[Len(packets) + 1 - k]

Offered(packets) == Min({requested, Len(packets), MaxRedundantOpusFrames})

(* Mutant of Projected: the descriptors are not counted. *)
ProjectedBare(primary, packets) ==
    LET projected[k \in 0..Offered(packets)] ==
            IF k = 0 THEN BundleHeaderBytes + Len(primary.payload)
            ELSE projected[k - 1] + Len(Newest(packets, k).payload)
    IN  projected

Projected(primary, packets) ==
    LET projected[k \in 0..Offered(packets)] ==
            IF k = 0 THEN BundleHeaderBytes + Len(primary.payload)
            ELSE projected[k - 1] + RepairDescriptorBytes + Len(Newest(packets, k).payload)
    IN  projected

RepairCount(primary, packets) ==
    LET Fits(k) == Projected(primary, packets)[k] <= MaxPayloadBytes
    IN  CHOOSE k \in 0..Offered(packets) :
           /\ \A smaller \in 1..k : Fits(smaller)
           /\ k = Offered(packets) \/ ~Fits(k + 1)

Repairs(primary, packets) ==
    [k \in 1..RepairCount(primary, packets) |-> Newest(packets, k)]

Descriptor(repair) ==
    U32(repair.sequence) \o U32(repair.timestamp_samples) \o U16(Len(repair.payload))

(* Mutant of Blobs: the repairs' payloads are written oldest first. *)
BlobsReversed(repairs) == FlattenSeq([k \in DOMAIN repairs |-> Newest(repairs, k).payload])

Blobs(repairs) == FlattenSeq([k \in DOMAIN repairs |-> repairs[k].payload])

SerializeBundle(primary, packets) ==
    LET repairs == Repairs(primary, packets)
    IN  <<BundleMagic, BundleVersion, Len(repairs), 0>> \o U16(Len(primary.payload))
            \o FlattenSeq([k \in DOMAIN repairs |-> Descriptor(repairs[k])])
            \o primary.payload \o Blobs(repairs)
-----------------------------------------------------------------------------
(* Mutant of Outside: the end of a packet is not compared with the payload's. *)
OutsideArrayOnly(payload, from, size) == size \notin 1..MaxOpusPacketBytes

(* A packet's size is not one, or its bytes are not all there. *)
Outside(payload, from, size) ==
    size \notin 1..MaxOpusPacketBytes \/ Len(payload) < from + size

(* Where the k-th descriptor is, the size it gives, and where the primary    *)
(* packet and the k-th repair begin.                                       *)
DescriptorAt(k) == BundleHeaderBytes + (k - 1) * RepairDescriptorBytes
RepairSize(payload, k) == ReadU16(payload, DescriptorAt(k) + 8)
PrimaryAt(payload) == BundleHeaderBytes + payload[3] * RepairDescriptorBytes
RepairAt(payload) ==
    LET at[k \in 1..(payload[3] + 1)] ==
            IF k = 1 THEN PrimaryAt(payload) + ReadU16(payload, 4)
            ELSE at[k - 1] + RepairSize(payload, k - 1)
    IN  at

ParseBundle(payload, header) ==
    LET primarySize == ReadU16(payload, 4)
    IN  IF \/ Len(payload) < BundleHeaderBytes
           \/ payload[1] # BundleMagic \/ payload[2] # BundleVersion
           \/ payload[3] > MaxRedundantOpusFrames
           \/ Len(payload) < PrimaryAt(payload)
           \/ Outside(payload, PrimaryAt(payload), primarySize)
           \/ \E k \in 1..payload[3] :
                 Outside(payload, RepairAt(payload)[k], RepairSize(payload, k))
        THEN Rejected
        ELSE [primary |-> [sequence |-> header.sequence,
                           timestamp_samples |-> header.timestamp_samples,
                           payload |-> CopyBytes(payload, PrimaryAt(payload), primarySize)],
              repairs |-> [k \in 1..payload[3] |->
                              [sequence |-> ReadU32(payload, DescriptorAt(k)),
                               timestamp_samples |-> ReadU32(payload, DescriptorAt(k) + 4),
                               payload |-> CopyBytes(payload, RepairAt(payload)[k],
                                                     RepairSize(payload, k))]]]
-----------------------------------------------------------------------------
(* make_packet of both programs: header and payload.                       *)
MakePacket(packet, payload) ==
    SerializeHeader([sequence |-> packet.sequence,
                     timestamp_samples |-> packet.timestamp_samples,
                     payload_size |-> Len(payload) % Word16]) \o payload

(* Mutant of Incomplete: only the header has to be there. *)
IncompleteHeader(bytes, payloadSize) == Len(bytes) < HeaderSizeBytes

Incomplete(bytes, payloadSize) == Len(bytes) < HeaderSizeBytes + payloadSize

(* drain_receiver of the PCM program, and make_buffered_frame. *)
AcceptPcm(bytes) ==
    LET header == ParseHeader(bytes)
    IN  IF \/ Len(bytes) < HeaderSizeBytes
           \/ ~IsValidHeader(header) \/ header.payload_size # FramePayloadBytes
           \/ Incomplete(bytes, FramePayloadBytes)
        THEN Rejected
        ELSE [primary |-> [sequence |-> header.sequence,
                           timestamp_samples |-> header.timestamp_samples,
                           payload |-> CopyBytes(bytes, HeaderSizeBytes, FramePayloadBytes)],
              repairs |-> <<>>]

(* drain_receiver of the Opus program, and make_buffered_packet. *)
AcceptOpus(bytes) ==
    LET header == ParseHeader(bytes)
    IN  IF \/ Len(bytes) < HeaderSizeBytes
           \/ ~IsValidHeader(header)
           \/ Incomplete(bytes, header.payload_size)
        THEN Rejected
        ELSE ParseBundle(CopyBytes(bytes, HeaderSizeBytes, header.payload_size), header)
-----------------------------------------------------------------------------
WireInit ==
    /\ program \in {"pcm", "opus"} /\ requested \in Requests
    /\ history = <<>> /\ datagram = <<>> /\ delivered = <<>> /\ received = Rejected

(* The frame with the next sequence number, which wraps as its timestamp    *)
(* does, is encoded into size bytes; the bytes themselves only have to     *)
(* differ from packet to packet.                                           *)
Encoded(size) ==
    LET sequence == Len(history) % Word32
    IN  [sequence |-> sequence, timestamp_samples |-> (sequence * kFrameSamples) % Word32,
         payload |-> [j \in 1..size |-> (sequence + j) % ByteBase]]

SendPcm ==
    /\ program = "pcm" /\ Len(history) < MaxPackets
    /\ LET frame == Encoded(FramePayloadBytes)
       IN  datagram' = MakePacket(frame, frame.payload) /\ history' = Append(history, frame)
    /\ delivered' = <<>> /\ received' = Rejected
    /\ UNCHANGED <<program, requested>>

SendOpus ==
    /\ program = "opus" /\ Len(history) < MaxPackets
    /\ \E size \in 1..MaxOpusPacketBytes :
          LET encoded == Encoded(size)
          IN  /\ datagram' = MakePacket(encoded, SerializeBundle(encoded, history))
              /\ history' = Append(history, encoded)
    /\ delivered' = <<>> /\ received' = Rejected
    /\ UNCHANGED <<program, requested>>

(* What recvfrom may give: the datagram, its first bytes, or other bytes.  *)
Arrivals(bytes) ==
    {bytes} \union {SubSeq(bytes, 1, n) : n \in 0..(Len(bytes) - 1)}
            \union {[bytes EXCEPT ![k] = b] : k \in DOMAIN bytes, b \in Bytes}

Receive ==
    /\ datagram # <<>>
    /\ delivered' \in Arrivals(datagram)
    /\ received' = IF program = "pcm" THEN AcceptPcm(delivered') ELSE AcceptOpus(delivered')
    /\ datagram' = <<>>
    /\ UNCHANGED <<program, requested, history>>

WireNext == SendPcm \/ SendOpus \/ Receive

WireSpec == WireInit /\ [][WireNext]_wireVars
-----------------------------------------------------------------------------
IsPacket(packet) ==
    /\ packet.sequence \in 0..(Word32 - 1)
    /\ packet.timestamp_samples \in 0..(Word32 - 1)
    /\ Len(packet.payload) \in 1..MaxPayloadBytes

(* Type invariant. *)
WireTypeOK ==
    /\ program \in {"pcm", "opus"} /\ requested \in Requests
    /\ \A k \in DOMAIN history : IsPacket(history[k])
    /\ datagram \in Seq(Bytes) /\ delivered \in Seq(Bytes)
    /\ received # Rejected =>
          /\ IsPacket(received.primary)
          /\ Len(received.repairs) <= MaxRedundantOpusFrames
          /\ \A k \in DOMAIN received.repairs : IsPacket(received.repairs[k])

(* What was sent last: the newest packet and the repairs after it. *)
Sent == [primary |-> Last(history),
         repairs |-> IF program = "pcm" THEN <<>>
                     ELSE Repairs(Last(history), Front(history))]

(* A datagram that arrives as it was sent is read as what was sent: the     *)
(* primary packet and its repairs, each with its own sequence, timestamp   *)
(* and bytes, newest first.  One of which the end is missing is rejected.  *)
ReadAsSent ==
    [][Receive => /\ delivered' = datagram => received' = Sent
                  /\ Len(delivered') < Len(datagram) => received' = Rejected]_wireVars

(* Whatever byte of a datagram is changed, sizes and counts included, what *)
(* is accepted holds no byte from behind the datagram, and every packet    *)
(* fits the array it is copied into.                                       *)
NothingBehindTheEnd ==
    received # Rejected =>
        \A packet \in {received.primary} \union ToSet(received.repairs) :
           /\ Stale \notin ToSet(packet.payload)
           /\ program = "opus" => Len(packet.payload) <= MaxOpusPacketBytes

(* A datagram never exceeds the header and the largest payload, so that the *)
(* receiver's buffer holds it and its length fits the header's 16 bits,    *)
(* and no repair that was asked for and would still fit is left out.       *)
FullButNotOverfull ==
    datagram # <<>> =>
        /\ Len(datagram) <= HeaderSizeBytes + MaxPayloadBytes
        /\ ParseHeader(datagram).payload_size = Len(datagram) - HeaderSizeBytes
        /\ LET k == Len(Sent.repairs) + 1
               older == Front(history)
           IN  (program = "opus" /\ k <= Min({requested, Len(older), MaxRedundantOpusFrames}))
                  => Len(datagram) + RepairDescriptorBytes + Len(Newest(older, k).payload)
                        > HeaderSizeBytes + MaxPayloadBytes

(* The bounds of both directions, over well-typed state. *)
DatagramsInBounds == WireTypeOK /\ NothingBehindTheEnd /\ FullButNotOverfull
=============================================================================
