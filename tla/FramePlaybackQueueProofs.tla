------------------------ MODULE FramePlaybackQueueProofs ------------------------
(* Proofs about the playback queue for every capacity, frame length, number *)
(* of frames and sequence of callback sizes.                               *)
EXTENDS FramePlaybackQueue, FiniteSetTheorems, TLAPS

Facts == INSTANCE SpscRingBufferProofs

(* Where both threads are: main is inside push only while it may enqueue,   *)
(* the device inside pop only when a running render needs a frame.         *)
Control ==
    /\ producer # "idle" => MayEnqueue
    /\ consumer # "idle" => NeedsFrame

(* How far into the stream of accepted frames the device is. *)
Position == pops * kFrameSamples + current_offset - kFrameSamples

(* Playback is at Position: the frame being played is the last one popped,   *)
(* and what was heard of the stream is what lies before.                    *)
PlaybackPosition ==
    /\ current_offset < kFrameSamples => current_frame = pops - 1
    /\ Audible = Position

InductiveInvariant ==
    /\ HeardAsOffered /\ StatsAddUp
    /\ queue_!InductiveInvariant
    /\ Control /\ PlaybackPosition
-----------------------------------------------------------------------------
(* A multiple leaves no remainder. *)
LEMMA ModMultiple ==
  ASSUME NEW size \in Nat, size > 0, NEW a \in Nat
  PROVE  (a * size) % size = 0
<1> DEFINE b == a * size
           r == b % size
           q == b \div size
<1>1. /\ b = size * q + r /\ q \in Int /\ r \in 0..(size - 1)
      /\ b = size * a
  OBVIOUS
<1> HIDE DEF b, r, q
<1>2. r = size * (a - q) /\ r < size /\ r >= 0
  BY <1>1
<1>3. CASE a - q >= 1
  BY <1>1, <1>2, <1>3
<1>4. CASE a - q <= -1
  BY <1>1, <1>2, <1>4
<1>5. CASE a - q = 0
  BY <1>1, <1>2, <1>5
<1>6. r = 0
  BY <1>1, <1>3, <1>4, <1>5
<1> QED BY <1>6 DEF r, b

LEMMA SizeFacts ==
  /\ Capacity \in Nat /\ Capacity >= 2 /\ kFrameSamples \in Nat /\ kFrameSamples > 0
  /\ PrerollFrames \in Nat /\ OutputFrames \in Nat /\ FadeOutFrames \in Nat /\ Total \in Nat
  BY RingAssumption, SamplesAssumption, CallsAssumption DEF Total

(* The ring buffer's own invariant is kept by the steps of its two threads. *)
LEMMA SameRing ==
  /\ Facts!InductiveInvariant <=> queue_!InductiveInvariant
  /\ Facts!InductiveInvariant' <=> queue_!InductiveInvariant'
  BY DEF Facts!InductiveInvariant, queue_!InductiveInvariant, Facts!TypeOK, queue_!TypeOK,
         Facts!IndicesInOrder, queue_!IndicesInOrder, Facts!Contents, queue_!Contents,
         Facts!Index, queue_!Index, Facts!Slots, queue_!Slots, Facts!NoItem, queue_!NoItem

LEMMA SameStep ==
  /\ Facts!Init <=> queue_!Init
  /\ [Facts!Next]_(Facts!vars) <=> [queue_!Next]_(queue_!vars)
  BY DEF Facts!Init, queue_!Init, Facts!Slots, queue_!Slots, Facts!NoItem, queue_!NoItem,
         Facts!Next, queue_!Next, Facts!Producer, queue_!Producer, Facts!Consumer,
         queue_!Consumer, Facts!PushLoad, queue_!PushLoad, Facts!PushWrite, queue_!PushWrite,
         Facts!PushPublish, queue_!PushPublish, Facts!PopLoad, queue_!PopLoad,
         Facts!PopCopy, queue_!PopCopy, Facts!PopPublish, queue_!PopPublish,
         Facts!FullAt, queue_!FullAt, Facts!EmptyAt, queue_!EmptyAt, Facts!Index, queue_!Index,
         Facts!Synchronizes, queue_!Synchronizes, Facts!PushLoadOrder, queue_!PushLoadOrder,
         Facts!PushStoreOrder, queue_!PushStoreOrder, Facts!PopLoadOrder,
         queue_!PopLoadOrder, Facts!PopStoreOrder, queue_!PopStoreOrder,
         Facts!vars, queue_!vars, Facts!producerVars, queue_!producerVars,
         Facts!consumerVars, queue_!consumerVars

LEMMA RingInit == queue_!Init => queue_!InductiveInvariant
  BY RingAssumption, SameRing, SameStep, Facts!InitInductive

LEMMA RingStep ==
  ASSUME queue_!InductiveInvariant, [queue_!Next]_(queue_!vars)
  PROVE  queue_!InductiveInvariant'
  BY RingAssumption, SameRing, SameStep, Facts!NextInductive
-----------------------------------------------------------------------------
(* How many of the first n samples of a sequence are not filled in. *)
Samples == Nat \union {Zero}
Sounding(s, n) == Cardinality({m \in 1..n : s[m] # Zero})

LEMMA AudibleIsSounding ==
  /\ \A n : AudibleAmong(n) = Sounding(heard, n)
  /\ \A n : AudibleAmong(n)' = Sounding(heard', n)
  /\ Audible = Sounding(heard, Len(heard))
  /\ Audible' = Sounding(heard', Len(heard'))
  BY DEF AudibleAmong, Audible, Sounding

LEMMA SoundingIsFinite ==
  ASSUME NEW s, NEW n \in Nat
  PROVE  /\ IsFiniteSet({m \in 1..n : s[m] # Zero})
         /\ Sounding(s, n) \in Nat
<1>1. IsFiniteSet(1..n) /\ {m \in 1..n : s[m] # Zero} \subseteq 1..n
  BY FS_Interval
<1> QED BY <1>1, FS_Subset, FS_CardinalityType DEF Sounding

(* The samples of two sequences played one after the other. *)
Joins(u, s, t) == u = s \o t

LEMMA JoinedSamples ==
  ASSUME NEW s \in Seq(Samples), NEW t \in Seq(Samples), NEW u, Joins(u, s, t)
  PROVE  /\ u \in Seq(Samples)
         /\ Len(s) \in Nat /\ Len(t) \in Nat /\ Len(u) = Len(s) + Len(t)
         /\ DOMAIN s = 1..Len(s) /\ DOMAIN u = 1..Len(u)
         /\ \A n \in 1..Len(s) : u[n] = s[n]
         /\ \A k \in 1..Len(t) : u[Len(s) + k] = t[k]
<1>1. /\ Len(s) \in Nat /\ Len(t) \in Nat /\ DOMAIN s = 1..Len(s)
      /\ u \in Seq(Samples) /\ Len(u) = Len(s) + Len(t) /\ DOMAIN u = 1..Len(u)
  BY DEF Joins
<1>2. \A n \in 1..Len(s) : u[n] = s[n]
  BY DEF Joins
<1>3. \A k \in 1..Len(t) : u[Len(s) + k] = t[k]
  BY <1>1 DEF Joins
<1> QED BY <1>1, <1>2, <1>3

LEMMA SoundingKept ==
  ASSUME NEW s \in Seq(Samples), NEW t \in Seq(Samples), NEW u, Joins(u, s, t),
         NEW n \in 0..Len(s)
  PROVE  Sounding(u, n) = Sounding(s, n)
<1>1. \A m \in 1..n : u[m] = s[m]
  BY JoinedSamples
<1>2. {m \in 1..n : u[m] # Zero} = {m \in 1..n : s[m] # Zero}
  BY <1>1
<1> QED BY <1>2, Zenon DEF Sounding

(* Silence adds nothing. *)
LEMMA SoundingSilence ==
  ASSUME NEW s \in Seq(Samples), NEW t \in Seq(Samples), NEW u, Joins(u, s, t),
         \A k \in 1..Len(t) : t[k] = Zero
  PROVE  Sounding(u, Len(u)) = Sounding(s, Len(s))
<1>1. ASSUME NEW m \in 1..Len(u) PROVE u[m] # Zero <=> m \in 1..Len(s) /\ s[m] # Zero
  <2>1. CASE m \in 1..Len(s)
    BY <2>1, JoinedSamples
  <2>2. CASE m \notin 1..Len(s)
    <3>1. m - Len(s) \in 1..Len(t) /\ Len(s) + (m - Len(s)) = m
      BY <2>2, JoinedSamples
    <3>2. u[m] = t[m - Len(s)]
      BY <3>1, JoinedSamples
    <3> QED BY <2>2, <3>1, <3>2
  <2> QED BY <2>1, <2>2
<1>2. 1..Len(s) \subseteq 1..Len(u)
  BY JoinedSamples
<1>3. {m \in 1..Len(u) : u[m] # Zero} = {m \in 1..Len(s) : s[m] # Zero}
  BY <1>1, <1>2
<1> QED BY <1>3, Zenon DEF Sounding

(* The samples of a frame add one each. *)
LEMMA SoundingSamples ==
  ASSUME NEW s \in Seq(Samples), NEW t \in Seq(Samples), NEW u, Joins(u, s, t),
         \A k \in 1..Len(t) : t[k] # Zero,
         NEW n \in 0..Len(t)
  PROVE  Sounding(u, Len(s) + n) = Sounding(s, Len(s)) + n
<1> DEFINE A == {m \in 1..Len(s) : s[m] # Zero}
           B == (Len(s) + 1)..(Len(s) + n)
           C == {m \in 1..(Len(s) + n) : u[m] # Zero}
<1>1. ASSUME NEW m \in 1..(Len(s) + n)
      PROVE  u[m] # Zero <=> m \in A \/ m \in B
  <2>1. CASE m \in 1..Len(s)
    BY <2>1, JoinedSamples
  <2>2. CASE m \notin 1..Len(s)
    <3>1. /\ m - Len(s) \in 1..Len(t) /\ Len(s) + (m - Len(s)) = m /\ m \in B
      BY <2>2, JoinedSamples
    <3>2. u[m] = t[m - Len(s)]
      BY <3>1, JoinedSamples
    <3> QED BY <3>1, <3>2
  <2> QED BY <2>1, <2>2
<1>2. A \subseteq 1..(Len(s) + n) /\ B \subseteq 1..(Len(s) + n) /\ A \cap B = {}
  BY JoinedSamples
<1>3. C = A \cup B
  BY <1>1, <1>2
<1>4. IsFiniteSet(A) /\ Cardinality(A) \in Nat /\ Cardinality(A) = Sounding(s, Len(s))
  BY SoundingIsFinite, JoinedSamples DEF Sounding
<1>5. IsFiniteSet(B) /\ Cardinality(B) = n
  <2>1. n \in Nat /\ Len(s) + 1 \in Int /\ Len(s) + n \in Int
    BY JoinedSamples
  <2>2. /\ IsFiniteSet(B)
        /\ Cardinality(B) = IF Len(s) + 1 > Len(s) + n THEN 0
                            ELSE (Len(s) + n) - (Len(s) + 1) + 1
    BY <2>1, FS_Interval
  <2>3. Len(s) \in Nat
    BY JoinedSamples
  <2> HIDE DEF B
  <2> QED BY <2>1, <2>2, <2>3
<1>6. Cardinality(C) = Sounding(u, Len(s) + n)
  BY DEF Sounding
<1> HIDE DEF A, B, C
<1>7. Cardinality(A \cup B) = Cardinality(A) + Cardinality(B) - Cardinality(A \cap B)
  BY <1>4, <1>5, FS_Union
<1>8. Cardinality(A \cup B) = Cardinality(A) + Cardinality(B) - 0
  BY <1>2, <1>7, FS_EmptySet, Zenon
<1> QED BY <1>3, <1>4, <1>5, <1>6, <1>8
LEMMA SoundingLast ==
  ASSUME NEW s \in Seq(Samples), NEW n \in 1..Len(s), s[n] # Zero
  PROVE  Sounding(s, n) = Sounding(s, n - 1) + 1
<1> DEFINE A == {m \in 1..(n - 1) : s[m] # Zero}
<1>1. n \in Nat /\ n - 1 \in Nat
  OBVIOUS
<1>2. IsFiniteSet(A) /\ Cardinality(A) = Sounding(s, n - 1) /\ Cardinality(A) \in Nat
  BY <1>1, SoundingIsFinite DEF Sounding
<1>3. {m \in 1..n : s[m] # Zero} = A \cup {n} /\ n \notin A
  BY <1>1
<1> HIDE DEF A
<1>4. Cardinality(A \cup {n}) = Cardinality(A) + 1
  BY <1>2, <1>3, FS_AddElement
<1> QED BY <1>2, <1>3, <1>4 DEF Sounding
-----------------------------------------------------------------------------
(* The parts of the invariant, by the variables that change together. *)
CallTypes ==
    /\ offered \in 0..Total /\ undecoded \in 0..MaxDecodeErrors
    /\ device \in {"off", "started", "stopped"}

RenderTypes ==
    /\ current_frame \in Nat \union {queue_!NoItem}
    /\ current_offset \in 0..kFrameSamples
    /\ remaining \in Nat /\ callbacks \in 0..MaxCallbacks
    /\ heard \in Seq(Samples)

StatsTypes ==
    playbackStats \in [preroll_frames : Nat, enqueued_output_frames : Nat,
                       fadeout_frames : Nat, dropped_output_frames : Nat,
                       rendered_device_frames : Nat, callback_underruns : Nat]

LEMMA TypeParts ==
  TypeOK <=> queue_!TypeOK /\ CallTypes /\ RenderTypes /\ StatsTypes
  BY DEF TypeOK, CallTypes, RenderTypes, StatsTypes, Samples

LEMMA TypePartsNext ==
  TypeOK' <=> queue_!TypeOK' /\ CallTypes' /\ RenderTypes' /\ StatsTypes'
  BY DEF TypeOK, CallTypes, RenderTypes, StatsTypes, Samples

LEMMA RingTypes ==
  queue_!InductiveInvariant' => queue_!TypeOK'
  BY DEF queue_!InductiveInvariant

LEMMA Typed ==
  ASSUME InductiveInvariant
  PROVE  /\ CallTypes /\ RenderTypes /\ StatsTypes
         /\ pushes \in Nat /\ pops \in Nat /\ Zero \in Samples
         /\ producer \in {"idle", "access", "publish"}
         /\ consumer \in {"idle", "access", "publish"}
<1>1. TypeOK
  BY DEF InductiveInvariant, HeardAsOffered
<1> QED BY <1>1, TypeParts DEF queue_!TypeOK, Samples

LEMMA PositionFacts ==
  ASSUME InductiveInvariant
  PROVE  /\ pops \in Nat /\ current_offset \in 0..kFrameSamples
         /\ Position \in Int /\ Audible \in Nat /\ Audible = Position
         /\ Len(heard) \in Nat /\ pops * kFrameSamples \in Nat
<1>1. heard \in Seq(Samples) /\ Len(heard) \in Nat /\ pops \in Nat
      /\ current_offset \in 0..kFrameSamples
  BY Typed DEF RenderTypes
<1>2. Audible \in Nat
  BY <1>1, AudibleIsSounding, SoundingIsFinite
<1>3. pops * kFrameSamples \in Nat
  BY <1>1, SizeFacts
<1> QED BY <1>1, <1>2, <1>3, SizeFacts DEF Position, InductiveInvariant, PlaybackPosition

LEMMA InitInductive == Init => InductiveInvariant
<1> SUFFICES ASSUME Init PROVE InductiveInvariant
  OBVIOUS
<1>1. queue_!InductiveInvariant /\ pushes = 0 /\ pops = 0
      /\ producer = "idle" /\ consumer = "idle"
  BY RingInit DEF Init, queue_!Init
<1>2. TypeOK
  BY <1>1, SizeFacts, CallbackAssumption, DecodeAssumption DEF Init, TypeOK, queue_!InductiveInvariant
<1>3. heard = <<>> /\ Len(heard) = 0 /\ DOMAIN heard = {}
  BY DEF Init
<1>4. HeardInOrder /\ SilenceBetweenFrames
  BY <1>3 DEF HeardInOrder, SilenceBetweenFrames
<1>5. StatsAddUp
  BY <1>1, <1>3 DEF Init, StatsAddUp
<1>6. Control
  BY <1>1 DEF Control
<1>7. {m \in 1..0 : heard[m] # Zero} = {}
  OBVIOUS
<1>8. Audible = 0
  BY <1>3, <1>7, FS_EmptySet DEF Audible, AudibleAmong
<1>9. PlaybackPosition
  BY <1>1, <1>8, SizeFacts DEF Init, PlaybackPosition, Position
<1> QED BY <1>1, <1>2, <1>4, <1>5, <1>6, <1>9 DEF InductiveInvariant, HeardAsOffered
-----------------------------------------------------------------------------
(* main's steps leave what is played alone. *)
LEMMA RenderKept ==
  ASSUME InductiveInvariant, UNCHANGED <<renderVars, pops>>
  PROVE  RenderTypes' /\ HeardInOrder' /\ SilenceBetweenFrames' /\ PlaybackPosition'
<1>1. UNCHANGED <<current_frame, current_offset, remaining, callbacks, heard, pops>>
  BY DEF renderVars
<1>2. RenderTypes'
  BY <1>1, Typed DEF RenderTypes, queue_!NoItem
<1>3. HeardInOrder' /\ SilenceBetweenFrames'
  BY <1>1 DEF InductiveInvariant, HeardAsOffered, HeardInOrder, SilenceBetweenFrames,
              AudibleAmong
<1>4. PlaybackPosition'
  BY <1>1 DEF InductiveInvariant, PlaybackPosition, Audible, AudibleAmong, Position
<1> QED BY <1>2, <1>3, <1>4

LEMMA EnqueueStep ==
  ASSUME InductiveInvariant,
         \/ \E seen \in producerSeen..pops : EnqueueLoad(seen)
         \/ EnqueueWrite \/ EnqueuePublish
  PROVE  InductiveInvariant'
<1>1. UNCHANGED <<renderVars, device, pops, consumer>>
  BY DEF EnqueueLoad, EnqueueWrite, EnqueuePublish, queue_!PushLoad, queue_!PushWrite,
         queue_!PushPublish, queue_!consumerVars
<1>2. queue_!InductiveInvariant'
  <2>1. queue_!Next
    BY DEF EnqueueLoad, EnqueueWrite, EnqueuePublish, queue_!Next, queue_!Producer
  <2> QED BY <2>1, RingStep DEF InductiveInvariant
<1>3. RenderTypes' /\ HeardInOrder' /\ SilenceBetweenFrames' /\ PlaybackPosition'
  BY <1>1, RenderKept
<1>4. MayEnqueue => offered + 1 \in 0..Total
  BY Typed, SizeFacts DEF MayEnqueue, CallTypes
<1>8. Offered => offered' = offered + 1 /\ undecoded' \in 0..MaxDecodeErrors
  BY Typed, DecodeAssumption DEF Offered, CallTypes
<1>5. CASE \E seen \in producerSeen..pops : EnqueueLoad(seen)
  <2>1. PICK seen : EnqueueLoad(seen)
    BY <1>5
  <2>2. MayEnqueue /\ pushes' = pushes
    BY <2>1 DEF EnqueueLoad, queue_!PushLoad
  <2>3. CASE queue_!FullAt(seen)
    <3>1. /\ producer' = "idle" /\ offered' = offered + 1
          /\ undecoded' \in 0..MaxDecodeErrors
          /\ playbackStats' = [playbackStats EXCEPT !.dropped_output_frames = @ + 1]
      BY <1>8, <2>1, <2>3 DEF EnqueueLoad, queue_!PushLoad
    <3>2. CallTypes' /\ StatsTypes' /\ Control'
      BY <1>1, <1>4, <2>2, <3>1, Typed
      DEF CallTypes, StatsTypes, Control, InductiveInvariant, NeedsFrame, renderVars
    <3>3. StatsAddUp'
      BY <1>1, <2>2, <3>1, Typed
      DEF StatsTypes, CallTypes, InductiveInvariant, StatsAddUp, renderVars
    <3> QED BY <1>2, <1>3, <3>2, <3>3, TypePartsNext, RingTypes
            DEF InductiveInvariant, HeardAsOffered
  <2>4. CASE ~queue_!FullAt(seen)
    <3>1. UNCHANGED <<offered, undecoded, playbackStats>>
      BY <2>1, <2>4 DEF EnqueueLoad, callVars
    <3>2. CallTypes' /\ StatsTypes' /\ Control'
      BY <1>1, <2>2, <3>1, Typed
      DEF CallTypes, StatsTypes, Control, InductiveInvariant, NeedsFrame, MayEnqueue,
          renderVars
    <3>3. StatsAddUp'
      BY <1>1, <2>2, <3>1 DEF InductiveInvariant, StatsAddUp, renderVars
    <3> QED BY <1>2, <1>3, <3>2, <3>3, TypePartsNext, RingTypes
            DEF InductiveInvariant, HeardAsOffered
  <2> QED BY <2>3, <2>4
<1>6. CASE EnqueueWrite
  <2>1. UNCHANGED <<offered, undecoded, playbackStats, pushes>> /\ producer = "access"
    BY <1>6 DEF EnqueueWrite, callVars, queue_!PushWrite
  <2>2. CallTypes' /\ StatsTypes' /\ Control'
    BY <1>1, <2>1, Typed
    DEF CallTypes, StatsTypes, Control, InductiveInvariant, NeedsFrame, MayEnqueue,
        renderVars
  <2>3. StatsAddUp'
    BY <1>1, <2>1 DEF InductiveInvariant, StatsAddUp, renderVars
  <2> QED BY <1>2, <1>3, <2>2, <2>3, TypePartsNext, RingTypes
          DEF InductiveInvariant, HeardAsOffered
<1>7. CASE EnqueuePublish
  <2>1. /\ offered' = offered + 1 /\ undecoded' \in 0..MaxDecodeErrors
        /\ pushes' = pushes + 1
        /\ producer = "publish" /\ producer' = "idle"
        /\ CountAccepted
    BY <1>7, <1>8 DEF EnqueuePublish, queue_!PushPublish
  <2>2. MayEnqueue
    BY <2>1 DEF InductiveInvariant, Control
  <2>3. CallTypes' /\ StatsTypes'
    BY <1>1, <1>4, <2>1, <2>2, Typed DEF CallTypes, StatsTypes, CountAccepted
  <2>4. Control'
    BY <1>1, <2>1 DEF Control, InductiveInvariant, NeedsFrame, renderVars
  <2>5. /\ playbackStats'.preroll_frames + playbackStats'.enqueued_output_frames
              + playbackStats'.fadeout_frames =
           playbackStats.preroll_frames + playbackStats.enqueued_output_frames
              + playbackStats.fadeout_frames + 1
        /\ playbackStats'.dropped_output_frames = playbackStats.dropped_output_frames
        /\ playbackStats'.rendered_device_frames = playbackStats.rendered_device_frames
    BY <2>1, Typed DEF CountAccepted, StatsTypes
  <2>6. heard' = heard /\ playbackStats.dropped_output_frames \in Nat
        /\ offered \in Nat /\ pushes \in Nat
    BY <1>1, Typed, SizeFacts DEF renderVars, StatsTypes, CallTypes
  <2>7. StatsAddUp'
    BY <2>1, <2>5, <2>6 DEF InductiveInvariant, StatsAddUp
  <2> QED BY <1>2, <1>3, <2>3, <2>4, <2>7, TypePartsNext, RingTypes
          DEF InductiveInvariant, HeardAsOffered
<1> QED BY <1>5, <1>6, <1>7

LEMMA DeviceControlStep ==
  ASSUME InductiveInvariant, StartDevice \/ StopDevice
  PROVE  InductiveInvariant'
<1>1. UNCHANGED <<ringVars, renderVars, offered, undecoded, playbackStats>>
  BY DEF StartDevice, StopDevice, callVars
<1>2. UNCHANGED <<pops, pushes, producer, consumer, heard, remaining, current_offset>>
  BY <1>1 DEF ringVars, renderVars
<1>3. queue_!InductiveInvariant'
  <2>1. UNCHANGED queue_!vars
    BY <1>1 DEF ringVars, queue_!vars, queue_!producerVars, queue_!consumerVars
  <2> QED BY <2>1, RingStep DEF InductiveInvariant
<1>4. RenderTypes' /\ HeardInOrder' /\ SilenceBetweenFrames' /\ PlaybackPosition'
  BY <1>1, <1>2, RenderKept
<1>5. producer = "idle"
  BY Typed, SizeFacts
  DEF StartDevice, StopDevice, InductiveInvariant, Control, MayEnqueue, CallTypes, Total
<1>6. CallTypes' /\ StatsTypes' /\ Control' /\ StatsAddUp'
  BY <1>1, <1>2, <1>5, Typed
  DEF StartDevice, StopDevice, CallTypes, StatsTypes, Control, NeedsFrame,
      InductiveInvariant, StatsAddUp
<1> QED BY <1>3, <1>4, <1>6, TypePartsNext, RingTypes DEF InductiveInvariant, HeardAsOffered
-----------------------------------------------------------------------------
(* The device's steps leave the calls of main alone. *)
LEMMA CallsKept ==
  ASSUME InductiveInvariant, UNCHANGED <<producer, pushes, offered, undecoded, device>>
  PROVE  CallTypes' /\ (producer' # "idle" => MayEnqueue')
  BY Typed DEF CallTypes, MayEnqueue, InductiveInvariant, Control

(* Playing nothing and going no further in the stream. *)
LEMMA HeardKept ==
  ASSUME InductiveInvariant, UNCHANGED <<heard, pops, current_frame, current_offset>>
  PROVE  HeardInOrder' /\ SilenceBetweenFrames' /\ PlaybackPosition'
  BY DEF InductiveInvariant, HeardAsOffered, HeardInOrder, SilenceBetweenFrames,
         PlaybackPosition, Audible, AudibleAmong, Position

LEMMA RenderCalledStep ==
  ASSUME InductiveInvariant, NEW sample_count \in CallbackSamples, RenderCalled(sample_count)
  PROVE  InductiveInvariant'
<1>1. /\ remaining = 0 /\ remaining' = sample_count /\ callbacks' = callbacks + 1
      /\ callbacks < MaxCallbacks
      /\ UNCHANGED <<ringVars, current_frame, current_offset, heard, offered, undecoded,
                     device, playbackStats>>
  BY DEF RenderCalled, callVars
<1>2. UNCHANGED <<pops, pushes, producer, consumer>>
  BY <1>1 DEF ringVars
<1>3. queue_!InductiveInvariant'
  <2>1. UNCHANGED queue_!vars
    BY <1>1 DEF ringVars, queue_!vars, queue_!producerVars, queue_!consumerVars
  <2> QED BY <2>1, RingStep DEF InductiveInvariant
<1>4. consumer = "idle"
  BY <1>1 DEF InductiveInvariant, Control, NeedsFrame
<1>5. CallTypes' /\ Control'
  BY <1>1, <1>2, <1>4, CallsKept DEF Control
<1>6. RenderTypes' /\ StatsTypes'
  BY <1>1, Typed, CallbackAssumption DEF RenderTypes, StatsTypes, queue_!NoItem
<1>7. HeardInOrder' /\ SilenceBetweenFrames' /\ PlaybackPosition'
  BY <1>1, <1>2, HeardKept
<1>8. StatsAddUp'
  BY <1>1, <1>2 DEF InductiveInvariant, StatsAddUp
<1> QED BY <1>3, <1>5, <1>6, <1>7, <1>8, TypePartsNext, RingTypes
        DEF InductiveInvariant, HeardAsOffered

(* An underrun fills the render with silence, at the end of a frame. *)
LEMMA UnderrunEffect ==
  ASSUME InductiveInvariant, NeedsFrame, Underrun,
         UNCHANGED <<pops, pushes, current_frame, current_offset, callbacks, offered>>
  PROVE  /\ RenderTypes' /\ StatsTypes' /\ StatsAddUp'
         /\ HeardInOrder' /\ SilenceBetweenFrames' /\ PlaybackPosition'
<1>1. PICK s, t, u :
         /\ s \in Seq(Samples) /\ t \in Seq(Samples)
         /\ s = heard /\ u = heard' /\ Joins(u, s, t) /\ Len(t) = remaining
         /\ \A k \in 1..Len(t) : t[k] = Zero
  <2> DEFINE zeros == [k \in 1..remaining |-> Zero]
  <2>1. remaining \in Nat /\ heard \in Seq(Samples) /\ Zero \in Samples
    BY Typed DEF RenderTypes
  <2>2. zeros \in Seq(Samples) /\ Len(zeros) = remaining /\ \A k \in 1..Len(zeros) : zeros[k] = Zero
    BY <2>1
  <2>3. heard' = heard \o zeros
    BY DEF Underrun
  <2> HIDE DEF zeros
  <2> QED BY <2>1, <2>2, <2>3 DEF Joins
<1>14. remaining \in Nat /\ remaining > 0
  BY Typed DEF RenderTypes, NeedsFrame
<1>2. current_offset = kFrameSamples /\ Audible = pops * kFrameSamples
  BY PositionFacts, SizeFacts DEF NeedsFrame, Position
<1>3. /\ Audible = Sounding(s, Len(s)) /\ Audible' = Sounding(u, Len(u))
      /\ \A n : AudibleAmong(n) = Sounding(s, n)
      /\ \A n : AudibleAmong(n)' = Sounding(u, n)
  BY <1>1, AudibleIsSounding
<1>4. /\ HeardInOrder <=> \A n \in DOMAIN s : s[n] # Zero => s[n] = Sounding(s, n - 1)
      /\ HeardInOrder' <=> \A n \in DOMAIN u : u[n] # Zero => u[n] = Sounding(u, n - 1)
  BY <1>1, <1>3 DEF HeardInOrder
<1>5. /\ SilenceBetweenFrames <=>
             \A n \in 1..(Len(s) - 1) :
                s[n] # Zero /\ s[n + 1] = Zero => (s[n] + 1) % kFrameSamples = 0
      /\ SilenceBetweenFrames' <=>
             \A n \in 1..(Len(u) - 1) :
                u[n] # Zero /\ u[n + 1] = Zero => (u[n] + 1) % kFrameSamples = 0
  BY <1>1 DEF SilenceBetweenFrames
<1>6. /\ remaining' = 0
      /\ playbackStats' = [playbackStats EXCEPT !.callback_underruns = @ + 1,
                                         !.rendered_device_frames = @ + remaining]
      /\ HeardInOrder /\ SilenceBetweenFrames
  BY DEF Underrun, InductiveInvariant, HeardAsOffered
<1>7. /\ u \in Seq(Samples) /\ Len(s) \in Nat /\ Len(u) = Len(s) + Len(t)
      /\ DOMAIN s = 1..Len(s) /\ DOMAIN u = 1..Len(u)
      /\ \A n \in 1..Len(s) : u[n] = s[n]
      /\ \A k \in 1..Len(t) : u[Len(s) + k] = t[k]
  BY <1>1, JoinedSamples
<1>8. ASSUME NEW n \in 1..Len(u), n \notin 1..Len(s) PROVE u[n] = Zero
  <2>1. n - Len(s) \in 1..Len(t) /\ Len(s) + (n - Len(s)) = n
    BY <1>1, <1>7, <1>8
  <2> QED BY <1>1, <1>7, <2>1
<1>9. HeardInOrder'
  <2>1. ASSUME NEW n \in 1..Len(u), u[n] # Zero PROVE u[n] = Sounding(u, n - 1)
    <3>1. n \in 1..Len(s) /\ n - 1 \in 0..Len(s)
      BY <1>7, <1>8, <2>1
    <3>2. Sounding(u, n - 1) = Sounding(s, n - 1)
      BY <1>1, <3>1, SoundingKept
    <3> QED BY <1>4, <1>6, <1>7, <2>1, <3>1, <3>2
  <2> QED BY <1>4, <1>7, <2>1
<1>10. SilenceBetweenFrames'
  <2>1. ASSUME NEW n \in 1..(Len(u) - 1), u[n] # Zero, u[n + 1] = Zero
        PROVE  (u[n] + 1) % kFrameSamples = 0
    <3>1. n \in 1..Len(s) /\ n \in 1..Len(u) /\ n \in Nat
      BY <1>1, <1>7, <1>8, <2>1
    <3>2. CASE n < Len(s)
      <4>1. n + 1 \in 1..Len(s) /\ n \in 1..(Len(s) - 1)
        BY <1>7, <3>1, <3>2
      <4> QED BY <1>5, <1>6, <1>7, <2>1, <3>1, <4>1
    <3>3. CASE n = Len(s)
      <4>1. s[n] # Zero /\ u[n] = s[n]
        BY <1>7, <2>1, <3>1
      <4>2. Sounding(s, n) = Sounding(s, n - 1) + 1
        BY <1>1, <3>1, <4>1, SoundingLast
      <4>3. s[n] = Sounding(s, n - 1)
        BY <1>4, <1>6, <1>7, <3>1, <4>1
      <4>4. u[n] + 1 = pops * kFrameSamples
        BY <1>2, <1>3, <3>3, <4>1, <4>2, <4>3
      <4>5. (pops * kFrameSamples) % kFrameSamples = 0
        BY SizeFacts, PositionFacts, ModMultiple
      <4> QED BY <4>4, <4>5
    <3>4. n < Len(s) \/ n = Len(s)
      <4>1. Len(s) \in Nat /\ n \in Nat
        BY <1>7, <3>1
      <4> QED BY <3>1, <4>1
    <3> QED BY <3>2, <3>3, <3>4
  <2> QED BY <1>5, <2>1
<1>11. PlaybackPosition'
  <2>1. Audible' = Audible
    BY <1>1, <1>3, SoundingSilence
  <2> QED BY <1>2, <2>1 DEF PlaybackPosition, Position, InductiveInvariant
<1>12. RenderTypes'
  BY <1>1, <1>6, <1>7, Typed DEF RenderTypes, queue_!NoItem
<1>13. StatsTypes' /\ StatsAddUp'
  <2>1. StatsTypes'
    <3>1. /\ playbackStats.callback_underruns + 1 \in Nat
          /\ playbackStats.rendered_device_frames + remaining \in Nat
      BY <1>14, Typed DEF StatsTypes
    <3>2. ASSUME NEW a \in Nat, NEW b \in Nat,
                 playbackStats' = [playbackStats EXCEPT !.callback_underruns = a,
                                                        !.rendered_device_frames = b]
          PROVE  StatsTypes'
      BY <3>2, Typed DEF StatsTypes
    <3> QED BY <1>6, <3>1, <3>2
  <2>2. /\ playbackStats'.rendered_device_frames =
               playbackStats.rendered_device_frames + remaining
        /\ playbackStats'.preroll_frames = playbackStats.preroll_frames
        /\ playbackStats'.enqueued_output_frames = playbackStats.enqueued_output_frames
        /\ playbackStats'.fadeout_frames = playbackStats.fadeout_frames
        /\ playbackStats'.dropped_output_frames = playbackStats.dropped_output_frames
    BY <1>6, Typed DEF StatsTypes
  <2>3. Len(heard') = Len(heard) + remaining
    BY <1>1, <1>7
  <2> QED BY <2>1, <2>2, <2>3 DEF InductiveInvariant, StatsAddUp
<1> QED BY <1>9, <1>10, <1>11, <1>12, <1>13
-----------------------------------------------------------------------------
(* render copies the next samples of the frame it is in. *)
LEMMA CopyEffect ==
  ASSUME InductiveInvariant, CopySamples
  PROVE  /\ RenderTypes' /\ StatsTypes' /\ StatsAddUp'
         /\ HeardInOrder' /\ SilenceBetweenFrames' /\ PlaybackPosition'
<1> DEFINE count == SamplesToCopy
           first == current_frame * kFrameSamples + current_offset
<1>1. /\ remaining > 0 /\ current_offset < kFrameSamples
      /\ heard' = heard \o [k \in 1..count |-> first + k - 1]
      /\ remaining' = remaining - count /\ current_offset' = current_offset + count
      /\ playbackStats' = [playbackStats EXCEPT !.rendered_device_frames = @ + count]
      /\ UNCHANGED <<ringVars, current_frame, callbacks, offered, device>>
  BY DEF CopySamples, callVars
<1>2. /\ remaining \in Nat /\ current_offset \in Nat /\ heard \in Seq(Samples)
      /\ count \in Nat /\ count > 0 /\ count <= remaining
      /\ current_offset + count <= kFrameSamples
  <2>1. /\ remaining \in Nat /\ remaining > 0
        /\ current_offset \in Nat /\ current_offset < kFrameSamples
        /\ kFrameSamples \in Nat
    BY <1>1, Typed, SizeFacts DEF RenderTypes
  <2>2. /\ count \in Nat /\ count > 0 /\ count <= remaining
        /\ current_offset + count <= kFrameSamples
    <3>1. CASE kFrameSamples - current_offset < remaining
      <4>1. count = kFrameSamples - current_offset
        BY <3>1 DEF SamplesToCopy
      <4> HIDE DEF count
      <4> QED BY <2>1, <3>1, <4>1
    <3>2. CASE ~(kFrameSamples - current_offset < remaining)
      <4>1. count = remaining
        BY <3>2 DEF SamplesToCopy
      <4> HIDE DEF count
      <4> QED BY <2>1, <3>2, <4>1
    <3> QED BY <3>1, <3>2
  <2> QED BY <2>1, <2>2, Typed DEF RenderTypes
<1>3. first = Position
  <2>1. current_frame = pops - 1 /\ pops \in Nat
    BY <1>1, Typed DEF InductiveInvariant, PlaybackPosition
  <2>2. (pops - 1) * kFrameSamples = pops * kFrameSamples - kFrameSamples
    BY <2>1, SizeFacts
  <2>3. pops * kFrameSamples \in Nat
    BY PositionFacts
  <2> QED BY <1>2, <2>1, <2>2, <2>3, SizeFacts DEF Position
<1>4. first \in Nat /\ first = Audible
  BY <1>3, PositionFacts
<1>5. UNCHANGED <<pops, pushes, offered>>
  BY <1>1 DEF ringVars
<1> HIDE DEF count, first
<1>6. PICK s, t, u :
         /\ s \in Seq(Samples) /\ t \in Seq(Samples)
         /\ s = heard /\ u = heard' /\ Joins(u, s, t) /\ Len(t) = count
         /\ \A k \in 1..Len(t) : t[k] = first + k - 1
  <2> DEFINE samples == [k \in 1..count |-> first + k - 1]
  <2>1. \A k \in 1..count : first + k - 1 \in Samples
    BY <1>2, <1>4 DEF Samples
  <2>2. /\ samples \in Seq(Samples) /\ Len(samples) = count
        /\ \A k \in 1..Len(samples) : samples[k] = first + k - 1
    BY <1>2, <2>1
  <2>3. heard' = heard \o samples
    BY <1>1
  <2> HIDE DEF samples
  <2> QED BY <1>2, <2>2, <2>3 DEF Joins
<1>7. /\ u \in Seq(Samples) /\ Len(s) \in Nat /\ Len(u) = Len(s) + Len(t)
      /\ DOMAIN s = 1..Len(s) /\ DOMAIN u = 1..Len(u)
      /\ \A n \in 1..Len(s) : u[n] = s[n]
      /\ \A k \in 1..Len(t) : u[Len(s) + k] = t[k]
  BY <1>6, JoinedSamples
<1>8. /\ Audible = Sounding(s, Len(s)) /\ Audible' = Sounding(u, Len(u))
      /\ \A n : AudibleAmong(n) = Sounding(s, n)
      /\ \A n : AudibleAmong(n)' = Sounding(u, n)
  BY <1>6, AudibleIsSounding
<1>9. \A k \in 1..Len(t) : t[k] # Zero
  BY <1>4, <1>6 DEF Zero
<1>10. ASSUME NEW n \in 0..Len(t) PROVE Sounding(u, Len(s) + n) = first + n
  <2>1. Sounding(u, Len(s) + n) = Sounding(s, Len(s)) + n
    BY <1>6, <1>9, SoundingSamples
  <2> QED BY <1>4, <1>8, <2>1
<1>11. HeardInOrder'
  <2>1. /\ \A n \in DOMAIN s : s[n] # Zero => s[n] = Sounding(s, n - 1)
        /\ HeardInOrder' <=> \A n \in DOMAIN u : u[n] # Zero => u[n] = Sounding(u, n - 1)
    BY <1>6, <1>8 DEF HeardInOrder, InductiveInvariant, HeardAsOffered
  <2>2. ASSUME NEW n \in 1..Len(u), u[n] # Zero PROVE u[n] = Sounding(u, n - 1)
    <3>1. CASE n \in 1..Len(s)
      <4>1. n - 1 \in 0..Len(s) /\ u[n] = s[n]
        BY <1>7, <3>1
      <4>2. Sounding(u, n - 1) = Sounding(s, n - 1)
        BY <1>6, <4>1, SoundingKept
      <4> QED BY <1>7, <2>1, <2>2, <3>1, <4>1, <4>2
    <3>2. CASE n \notin 1..Len(s)
      <4>1. PICK k \in 1..Len(t) : n = Len(s) + k
        <5>1. n - Len(s) \in 1..Len(t) /\ n = Len(s) + (n - Len(s))
          BY <1>2, <1>6, <1>7, <3>2
        <5> QED BY <5>1
      <4>2. u[n] = first + k - 1
        BY <1>6, <1>7, <4>1
      <4>3. k - 1 \in 0..Len(t) /\ n - 1 = Len(s) + (k - 1)
        BY <1>2, <1>6, <1>7, <4>1
      <4>4. Sounding(u, n - 1) = first + (k - 1)
        BY <1>10, <4>3
      <4>5. first \in Nat /\ k \in Nat
        BY <1>4, <4>1
      <4> QED BY <4>2, <4>4, <4>5
    <3> QED BY <3>1, <3>2
  <2> QED BY <1>7, <2>1, <2>2
<1>12. SilenceBetweenFrames'
  <2>1. /\ \A n \in 1..(Len(s) - 1) :
              s[n] # Zero /\ s[n + 1] = Zero => (s[n] + 1) % kFrameSamples = 0
        /\ SilenceBetweenFrames' <=>
             \A n \in 1..(Len(u) - 1) :
                u[n] # Zero /\ u[n + 1] = Zero => (u[n] + 1) % kFrameSamples = 0
    BY <1>6 DEF SilenceBetweenFrames, InductiveInvariant, HeardAsOffered
  <2>2. ASSUME NEW n \in 1..(Len(u) - 1), u[n] # Zero, u[n + 1] = Zero
        PROVE  (u[n] + 1) % kFrameSamples = 0
    <3>1. CASE n \in 1..(Len(s) - 1)
      <4>1. n \in 1..Len(s) /\ n + 1 \in 1..Len(s)
        BY <1>7, <3>1
      <4> QED BY <1>7, <2>1, <2>2, <3>1, <4>1
    <3>2. CASE n \notin 1..(Len(s) - 1)
      <4>1. n + 1 - Len(s) \in 1..Len(t) /\ n + 1 = Len(s) + (n + 1 - Len(s))
        BY <1>2, <1>6, <1>7, <3>2
      <4>2. u[n + 1] = t[n + 1 - Len(s)]
        BY <1>7, <4>1
      <4> QED BY <1>9, <2>2, <4>1, <4>2
    <3> QED BY <3>1, <3>2
  <2> QED BY <2>1, <2>2
<1>13. PlaybackPosition'
  <2>1. Audible' = first + count
    BY <1>2, <1>6, <1>7, <1>8, <1>10
  <2>2. Position' = Position + count
    <3>1. PICK played \in Nat : played = pops * kFrameSamples
      BY PositionFacts
    <3>2. /\ Position = played + current_offset - kFrameSamples
          /\ Position' = played + current_offset' - kFrameSamples
      BY <1>5, <3>1 DEF Position
    <3>3. current_offset' = current_offset + count
      BY <1>1
    <3>4. current_offset \in Nat /\ count \in Nat /\ kFrameSamples \in Nat
      BY <1>2, SizeFacts
    <3> QED BY <3>2, <3>3, <3>4
  <2>3. current_frame' = pops' - 1
    BY <1>1, <1>5 DEF InductiveInvariant, PlaybackPosition
  <2> QED BY <1>3, <2>1, <2>2, <2>3 DEF PlaybackPosition
<1>14. RenderTypes'
  <2>1. remaining' \in Nat /\ current_offset' \in 0..kFrameSamples
    BY <1>1, <1>2, SizeFacts
  <2> QED BY <1>1, <1>6, <1>7, <2>1, Typed DEF RenderTypes, queue_!NoItem
<1>15. StatsTypes' /\ StatsAddUp'
  <2>1. /\ playbackStats'.rendered_device_frames =
               playbackStats.rendered_device_frames + count
        /\ playbackStats'.preroll_frames = playbackStats.preroll_frames
        /\ playbackStats'.enqueued_output_frames = playbackStats.enqueued_output_frames
        /\ playbackStats'.fadeout_frames = playbackStats.fadeout_frames
        /\ playbackStats'.dropped_output_frames = playbackStats.dropped_output_frames
    BY <1>1, Typed DEF StatsTypes
  <2>2. StatsTypes'
    <3>1. playbackStats.rendered_device_frames + count \in Nat
      BY <1>2, Typed DEF StatsTypes
    <3>2. ASSUME NEW a \in Nat,
                 playbackStats' = [playbackStats EXCEPT !.rendered_device_frames = a]
          PROVE  StatsTypes'
      BY <3>2, Typed DEF StatsTypes
    <3> QED BY <1>1, <3>1, <3>2
  <2>3. Len(heard') = Len(heard) + count
    BY <1>6, <1>7
  <2> QED BY <1>5, <2>1, <2>2, <2>3 DEF InductiveInvariant, StatsAddUp
<1> QED BY <1>11, <1>12, <1>13, <1>14, <1>15

LEMMA CopySamplesStep ==
  ASSUME InductiveInvariant, CopySamples
  PROVE  InductiveInvariant'
<1>1. UNCHANGED <<ringVars, offered, undecoded, device>> /\ current_offset < kFrameSamples
  BY DEF CopySamples, callVars
<1>2. UNCHANGED <<pops, pushes, producer, consumer>>
  BY <1>1 DEF ringVars
<1>3. queue_!InductiveInvariant'
  <2>1. UNCHANGED queue_!vars
    BY <1>1 DEF ringVars, queue_!vars, queue_!producerVars, queue_!consumerVars
  <2> QED BY <2>1, RingStep DEF InductiveInvariant
<1>4. consumer = "idle"
  BY <1>1, Typed, SizeFacts DEF RenderTypes, InductiveInvariant, Control, NeedsFrame
<1>5. CallTypes' /\ Control'
  BY <1>1, <1>2, <1>4, CallsKept DEF Control
<1> QED BY <1>3, <1>5, CopyEffect, TypePartsNext, RingTypes
        DEF InductiveInvariant, HeardAsOffered

(* pop's steps: the frame popped is the one after those heard. *)
LEMMA PopStep ==
  ASSUME InductiveInvariant,
         \/ \E seen \in consumerSeen..pushes : PopFrameLoad(seen)
         \/ PopFrameCopy \/ PopFramePublish
  PROVE  InductiveInvariant'
<1>1. UNCHANGED <<pushes, producer, offered, undecoded, device, callbacks>>
  BY DEF PopFrameLoad, PopFrameCopy, PopFramePublish, callVars, queue_!PopLoad, queue_!PopCopy,
         queue_!PopPublish, queue_!producerVars, renderVars
<1>2. queue_!InductiveInvariant'
  <2>1. queue_!Next
    BY DEF PopFrameLoad, PopFrameCopy, PopFramePublish, queue_!Next, queue_!Consumer
  <2> QED BY <2>1, RingStep DEF InductiveInvariant
<1>3. CallTypes' /\ (producer' # "idle" => MayEnqueue')
  BY <1>1, CallsKept
<1>4. CASE \E seen \in consumerSeen..pushes : PopFrameLoad(seen)
  <2>1. PICK seen : PopFrameLoad(seen)
    BY <1>4
  <2>2. NeedsFrame /\ UNCHANGED <<pops, current_frame, current_offset>>
    BY <2>1 DEF PopFrameLoad, queue_!PopLoad
  <2>3. CASE queue_!EmptyAt(seen)
    <3>1. Underrun /\ consumer' = "idle"
      BY <2>1, <2>3 DEF PopFrameLoad, queue_!PopLoad
    <3>2. /\ RenderTypes' /\ StatsTypes' /\ StatsAddUp'
          /\ HeardInOrder' /\ SilenceBetweenFrames' /\ PlaybackPosition'
      BY <1>1, <2>2, <3>1, UnderrunEffect
    <3> QED BY <1>2, <1>3, <3>1, <3>2, TypePartsNext, RingTypes
            DEF InductiveInvariant, HeardAsOffered, Control
  <2>4. CASE ~queue_!EmptyAt(seen)
    <3>1. UNCHANGED <<heard, playbackStats, remaining>>
      BY <2>1, <2>4 DEF PopFrameLoad
    <3>2. HeardInOrder' /\ SilenceBetweenFrames' /\ PlaybackPosition'
      BY <2>2, <3>1, HeardKept
    <3>3. RenderTypes' /\ StatsTypes' /\ StatsAddUp' /\ Control'
      BY <1>1, <1>3, <2>2, <3>1, Typed
      DEF RenderTypes, StatsTypes, InductiveInvariant, StatsAddUp, Control, NeedsFrame,
          queue_!NoItem
    <3> QED BY <1>2, <1>3, <3>2, <3>3, TypePartsNext, RingTypes
            DEF InductiveInvariant, HeardAsOffered
  <2> QED BY <2>3, <2>4
<1>5. CASE PopFrameCopy
  <2>1. /\ UNCHANGED <<renderVars, playbackStats, pops>> /\ consumer = "access"
    BY <1>5 DEF PopFrameCopy, queue_!PopCopy
  <2>2. UNCHANGED <<current_frame, current_offset, remaining, heard>>
    BY <2>1 DEF renderVars
  <2>3. HeardInOrder' /\ SilenceBetweenFrames' /\ PlaybackPosition'
    BY <2>1, <2>2, HeardKept
  <2>4. RenderTypes' /\ StatsTypes' /\ StatsAddUp' /\ Control'
    BY <1>1, <1>3, <2>1, <2>2, Typed
    DEF RenderTypes, StatsTypes, InductiveInvariant, StatsAddUp, Control, NeedsFrame,
        queue_!NoItem
  <2> QED BY <1>2, <1>3, <2>3, <2>4, TypePartsNext, RingTypes
          DEF InductiveInvariant, HeardAsOffered
<1>6. CASE PopFramePublish
  <2>1. /\ consumer = "publish" /\ consumer' = "idle" /\ pops' = pops + 1
        /\ current_frame' = value /\ current_offset' = 0
        /\ UNCHANGED <<remaining, heard, playbackStats>>
    BY <1>6 DEF PopFramePublish, queue_!PopPublish
  <2>2. /\ value = pops /\ pops \in Nat /\ current_offset = kFrameSamples
    BY <2>1, Typed, PositionFacts, SizeFacts
    DEF InductiveInvariant, queue_!InductiveInvariant, Control, NeedsFrame
  <2>3. HeardInOrder' /\ SilenceBetweenFrames' /\ Audible' = Audible
    BY <2>1 DEF InductiveInvariant, HeardAsOffered, HeardInOrder, SilenceBetweenFrames,
                Audible, AudibleAmong
  <2>4. Position' = Position
    <3>1. (pops + 1) * kFrameSamples = pops * kFrameSamples + kFrameSamples
      BY <2>2, SizeFacts
    <3> QED BY <2>1, <2>2, <3>1, PositionFacts, SizeFacts DEF Position
  <2>5. current_frame' = pops' - 1
    BY <2>1, <2>2
  <2>6. PlaybackPosition'
    BY <2>3, <2>4, <2>5 DEF PlaybackPosition, InductiveInvariant
  <2>7. RenderTypes' /\ StatsTypes' /\ StatsAddUp' /\ Control'
    BY <1>1, <1>3, <2>1, <2>2, Typed, SizeFacts
    DEF RenderTypes, StatsTypes, InductiveInvariant, StatsAddUp, Control
  <2> QED BY <1>2, <1>3, <2>3, <2>6, <2>7, TypePartsNext, RingTypes
          DEF InductiveInvariant, HeardAsOffered
<1> QED BY <1>4, <1>5, <1>6
-----------------------------------------------------------------------------
LEMMA StutterStep ==
  ASSUME InductiveInvariant, UNCHANGED vars
  PROVE  InductiveInvariant'
<1>1. UNCHANGED <<ringVars, renderVars, offered, undecoded, device, playbackStats>>
  BY DEF vars, callVars
<1>2. UNCHANGED <<pops, pushes, producer, consumer, heard, remaining, current_offset>>
  BY <1>1 DEF ringVars, renderVars
<1>3. queue_!InductiveInvariant'
  <2>1. UNCHANGED queue_!vars
    BY <1>1 DEF ringVars, queue_!vars, queue_!producerVars, queue_!consumerVars
  <2> QED BY <2>1, RingStep DEF InductiveInvariant
<1>4. RenderTypes' /\ HeardInOrder' /\ SilenceBetweenFrames' /\ PlaybackPosition'
  BY <1>1, <1>2, RenderKept
<1>5. CallTypes' /\ StatsTypes' /\ Control' /\ StatsAddUp'
  BY <1>1, <1>2, Typed
  DEF CallTypes, StatsTypes, Control, NeedsFrame, MayEnqueue, InductiveInvariant, StatsAddUp
<1> QED BY <1>3, <1>4, <1>5, TypePartsNext, RingTypes DEF InductiveInvariant, HeardAsOffered

LEMMA Invariance == Spec => []InductiveInvariant
<1>1. InductiveInvariant /\ [Next]_vars => InductiveInvariant'
  BY EnqueueStep, DeviceControlStep, RenderCalledStep, PopStep, CopySamplesStep, StutterStep
  DEF Next, Main, Device, StopAfterAll, StopAtDeadline
<1> QED BY <1>1, InitInductive, PTL DEF Spec

(* The device hears every accepted frame whole, once and in order, with      *)
(* silence only between frames, for every queue and callback size.          *)
THEOREM HeardExactly == Spec => []HeardAsOffered
<1>1. InductiveInvariant => HeardAsOffered
  BY DEF InductiveInvariant
<1> QED BY <1>1, Invariance, PTL

(* Every frame offered is counted once, and every sample asked for.         *)
THEOREM CountsExact == Spec => []StatsAddUp
<1>1. InductiveInvariant => StatsAddUp
  BY DEF InductiveInvariant
<1> QED BY <1>1, Invariance, PTL

(* Stopping once everything expected has been rendered cuts off no more than *)
(* the silence that was filled in and the frames no decoder produced.       *)
THEOREM StopIsLateEnough == Spec => CutsAccountedFor
<1>1. ASSUME InductiveInvariant, StopAfterAll
      PROVE  pushes * kFrameSamples - Audible
                <= (Len(heard) - Audible) + undecoded * kFrameSamples
  <2> DEFINE lost == undecoded * kFrameSamples
             all == Total * kFrameSamples
             accepted == pushes * kFrameSamples
  <2>1. /\ Len(heard) >= ExpectedSamples /\ offered = Total
    BY <1>1 DEF StopAfterAll, StopDevice, InductiveInvariant, StatsAddUp
  <2>2. /\ pushes \in Nat /\ pushes <= Total /\ Total \in Nat /\ kFrameSamples \in Nat
        /\ undecoded \in Nat
    BY <1>1, <2>1, Typed, SizeFacts, DecodeAssumption
    DEF InductiveInvariant, StatsAddUp, StatsTypes, CallTypes
  <2>3. accepted \in Nat /\ all \in Nat /\ lost \in Nat /\ accepted <= all
    <3>1. PICK d \in Nat : Total = pushes + d
      BY <2>2
    <3>2. (pushes + d) * kFrameSamples = pushes * kFrameSamples + d * kFrameSamples
      BY <2>2
    <3>3. /\ d * kFrameSamples \in Nat /\ pushes * kFrameSamples \in Nat
          /\ undecoded * kFrameSamples \in Nat
      BY <2>2
    <3> QED BY <3>1, <3>2, <3>3
  <2>4. ExpectedSamples = all - lost
    <3>1. PrerollFrames + (OutputFrames - undecoded) + FadeOutFrames = Total - undecoded
      BY <2>2, SizeFacts DEF Total
    <3>2. (Total - undecoded) * kFrameSamples = Total * kFrameSamples - undecoded * kFrameSamples
      BY <2>2
    <3> QED BY <3>1, <3>2 DEF ExpectedSamples
  <2>5. Len(heard) \in Nat /\ Audible \in Nat
    BY <1>1, PositionFacts
  <2> HIDE DEF lost, all, accepted
  <2>6. accepted - Audible <= (Len(heard) - Audible) + lost
    BY <2>1, <2>3, <2>4, <2>5
  <2> QED BY <2>6 DEF accepted, lost
<1>2. InductiveInvariant =>
        [StopAfterAll => pushes * kFrameSamples - Audible
                            <= (Len(heard) - Audible) + undecoded * kFrameSamples]_vars
  BY <1>1
<1> QED BY <1>2, Invariance, PTL DEF CutsAccountedFor
-----------------------------------------------------------------------------
(* Each step of the two threads is a step of the ring or leaves it alone. *)
LEMMA StepsOfTheRing == [Next]_vars => [queue_!Next]_(queue_!vars)
<1>1. CASE UNCHANGED ringVars
  BY <1>1 DEF ringVars, queue_!vars, queue_!producerVars, queue_!consumerVars
<1>2. ASSUME NEW seen \in producerSeen..pops, EnqueueLoad(seen)
      PROVE  queue_!Next
  BY <1>2 DEF EnqueueLoad, queue_!Next, queue_!Producer
<1>3. ASSUME NEW seen \in consumerSeen..pushes, PopFrameLoad(seen)
      PROVE  queue_!Next
  BY <1>3 DEF PopFrameLoad, queue_!Next, queue_!Consumer
<1>4. CASE EnqueueWrite \/ EnqueuePublish
  BY <1>4 DEF EnqueueWrite, EnqueuePublish, queue_!Next, queue_!Producer
<1>5. CASE PopFrameCopy \/ PopFramePublish
  BY <1>5 DEF PopFrameCopy, PopFramePublish, queue_!Next, queue_!Consumer
<1>6. CASE StartDevice \/ StopAfterAll \/ StopAtDeadline
  BY <1>1, <1>6 DEF StartDevice, StopAfterAll, StopAtDeadline, StopDevice
<1>7. CASE (\E sample_count \in CallbackSamples : RenderCalled(sample_count)) \/ CopySamples
  BY <1>1, <1>7 DEF RenderCalled, CopySamples
<1>8. CASE UNCHANGED vars
  BY <1>1, <1>8 DEF vars
<1> QED BY <1>2, <1>3, <1>4, <1>5, <1>6, <1>7, <1>8 DEF Next, Main, Device

(* main and the device's callback use the ring as it has to be used: as one *)
(* producer and one consumer, each ending a push or a pop before the next. *)
(* So what the ring promises holds in the programs: no data race, and a     *)
(* bounded first-in first-out queue.                                       *)
THEOREM RingAsUsed == Spec => queue_!Spec /\ []queue_!NoDataRace /\ queue_!ImplementsFifo
<1>1. Init => queue_!Init
  BY DEF Init
<1>2. InductiveInvariant => queue_!NoDataRace
  <2> SUFFICES ASSUME InductiveInvariant PROVE queue_!NoDataRace
    OBVIOUS
  <2>1. Capacity \in Nat /\ {pushes, pops, producerSeen, consumerSeen} \subseteq Nat
    BY SizeFacts DEF InductiveInvariant, queue_!InductiveInvariant, queue_!TypeOK
  <2> QED BY <2>1 DEF InductiveInvariant, queue_!InductiveInvariant, queue_!NoDataRace
<1>3. Facts!Spec <=> queue_!Spec
  BY SameStep, PTL DEF Facts!Spec, queue_!Spec
<1>4. Facts!ImplementsFifo <=> queue_!ImplementsFifo
  <2>1. Facts!Fifo!Init <=> queue_!Fifo!Init
    BY DEF Facts!Fifo!Init, queue_!Fifo!Init, Facts!Taken, queue_!Taken, Facts!Index, queue_!Index
  <2>2. [Facts!Fifo!Push \/ Facts!Fifo!Pop]_<<pushes,
             [k \in 1..(pushes - Facts!Taken) |-> storage[Facts!Index(Facts!Taken + k - 1)]],
             value>>
        <=> [queue_!Fifo!Push \/ queue_!Fifo!Pop]_<<pushes,
             [k \in 1..(pushes - queue_!Taken) |-> storage[queue_!Index(queue_!Taken + k - 1)]],
             value>>
    BY DEF Facts!Fifo!Push, queue_!Fifo!Push, Facts!Fifo!Pop, queue_!Fifo!Pop,
           Facts!Taken, queue_!Taken, Facts!Index, queue_!Index
  <2> QED BY <2>1, <2>2, PTL
          DEF Facts!ImplementsFifo, queue_!ImplementsFifo, Facts!Fifo!Spec, queue_!Fifo!Spec
<1>5. Spec => queue_!Spec /\ []queue_!NoDataRace
  BY <1>1, <1>2, StepsOfTheRing, Invariance, PTL DEF Spec, queue_!Spec
<1> QED BY <1>3, <1>4, <1>5, Facts!FifoRefinement, RingAssumption, PTL
=============================================================================
