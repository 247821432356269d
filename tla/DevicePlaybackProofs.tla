------------------------ MODULE DevicePlaybackProofs ------------------------
(***************************************************************************)
(* Proofs about the programs that play through an audio device: the demo,  *)
(* for every size of queue, frame and callback, every preroll and every    *)
(* duration, and the life of the device, the recording and the codec in    *)
(* the loopbacks and the Lab, for every option and failing call.           *)
(***************************************************************************)
EXTENDS SinePlayback, DeviceLifecycle, FiniteSetTheorems, SequenceTheorems, TLAPS

(* The device plays, and is called, only while main has it started, and the *)
(* thread is through when main is past the join.                           *)
Phases ==
    /\ main \in {"preroll", "init", "start", "join", "stop", "uninit", "returned"}
    /\ producer \in {"none", "check", "push", "done"} /\ running \in BOOLEAN
    /\ device \in {"none", "initialized", "started", "stopping"}
    /\ main \in {"preroll", "init"} => producer = "none"
    /\ main \in {"stop", "uninit"} => producer = "done"
    /\ main = "returned" => producer \in {"none", "done"}
    /\ main \in {"preroll", "init", "returned"} => device = "none"
    /\ main \in {"start", "uninit"} => device = "initialized"
    /\ main = "join" => device \in {"initialized", "started"}
    /\ main = "stop" => device \in {"started", "stopping"}
    /\ remaining > 0 => device \in {"started", "stopping"}

(* What is queued comes after the frame that is played, in order, and every *)
(* frame made was accepted or dropped.                                     *)
QueueInOrder ==
    /\ produced_frames \in Nat /\ dropped_producer_frames \in Nat
    /\ sequence = produced_frames + dropped_producer_frames
    /\ current_frame \in Nat \union {Zero}
    /\ queue \in Seq(Nat) /\ Len(queue) <= QueueLimit
    /\ produced_frames = Len(queue) + current_frame + 1
    /\ \A n \in 1..Len(queue) : queue[n] = current_frame + n

(* How far into the accepted frames the device is. *)
Position == (current_frame + 1) * kFrameSamples + current_offset - kFrameSamples

(* What was heard is all that lies before the position, and every sample is *)
(* counted.                                                                *)
PlayedInOrder ==
    /\ current_frame \in Nat \union {Zero} /\ current_offset \in 0..kFrameSamples
    /\ remaining \in Nat /\ heard \in Seq(Nat \union {Zero}) /\ queue_underruns \in Nat
    /\ HeardInOrder
    /\ Audible = Position
    /\ rendered_device_frames = Len(heard)
    /\ rendered_device_frames + remaining <= MaxRendered
    /\ queue_underruns <= Len(heard) - Audible

SineInv == Phases /\ QueueInOrder /\ PlayedInOrder
-----------------------------------------------------------------------------
(* A multiple leaves no remainder. *)
LEMMA ModMultiple ==
  ASSUME NEW size \in Nat, size > 0, NEW a \in Nat
  PROVE  (a * size) % size = 0
<1> DEFINE b == a * size
           r == b % size
           q == b \div size
<1>1. /\ b = size * q + r /\ q \in Int /\ r \in 0..(size - 1)
      /\ b = size * a
  OBVIOUS
<1> HIDE DEF b, r, q
<1>2. r = size * (a - q) /\ r < size /\ r >= 0
  BY <1>1
<1>3. CASE a - q >= 1
  BY <1>1, <1>2, <1>3
<1>4. CASE a - q <= -1
  BY <1>1, <1>2, <1>4
<1>5. CASE a - q = 0
  BY <1>1, <1>2, <1>5
<1>6. r = 0
  BY <1>1, <1>3, <1>4, <1>5
<1> QED BY <1>6 DEF r, b

-----------------------------------------------------------------------------
(* How many of the first n samples of a sequence are not filled in. *)
Samples == Nat \union {Zero}
Sounding(s, n) == Cardinality({m \in 1..n : s[m] # Zero})

LEMMA AudibleIsSounding ==
  /\ \A n : AudibleAmong(n) = Sounding(heard, n)
  /\ \A n : AudibleAmong(n)' = Sounding(heard', n)
  /\ Audible = Sounding(heard, Len(heard))
  /\ Audible' = Sounding(heard', Len(heard'))
  BY DEF AudibleAmong, Audible, Sounding

LEMMA SoundingIsFinite ==
  ASSUME NEW s, NEW n \in Nat
  PROVE  /\ IsFiniteSet({m \in 1..n : s[m] # Zero})
         /\ Sounding(s, n) \in Nat
<1>1. IsFiniteSet(1..n) /\ {m \in 1..n : s[m] # Zero} \subseteq 1..n
  BY FS_Interval
<1> QED BY <1>1, FS_Subset, FS_CardinalityType DEF Sounding

(* The samples of two sequences played one after the other. *)
Joins(u, s, t) == u = s \o t

LEMMA JoinedSamples ==
  ASSUME NEW s \in Seq(Samples), NEW t \in Seq(Samples), NEW u, Joins(u, s, t)
  PROVE  /\ u \in Seq(Samples)
         /\ Len(s) \in Nat /\ Len(t) \in Nat /\ Len(u) = Len(s) + Len(t)
         /\ DOMAIN s = 1..Len(s) /\ DOMAIN u = 1..Len(u)
         /\ \A n \in 1..Len(s) : u[n] = s[n]
         /\ \A k \in 1..Len(t) : u[Len(s) + k] = t[k]
<1>1. /\ Len(s) \in Nat /\ Len(t) \in Nat /\ DOMAIN s = 1..Len(s)
      /\ u \in Seq(Samples) /\ Len(u) = Len(s) + Len(t) /\ DOMAIN u = 1..Len(u)
  BY DEF Joins
<1>2. \A n \in 1..Len(s) : u[n] = s[n]
  BY DEF Joins
<1>3. \A k \in 1..Len(t) : u[Len(s) + k] = t[k]
  BY <1>1 DEF Joins
<1> QED BY <1>1, <1>2, <1>3

LEMMA SoundingKept ==
  ASSUME NEW s \in Seq(Samples), NEW t \in Seq(Samples), NEW u, Joins(u, s, t),
         NEW n \in 0..Len(s)
  PROVE  Sounding(u, n) = Sounding(s, n)
<1>1. \A m \in 1..n : u[m] = s[m]
  BY JoinedSamples
<1>2. {m \in 1..n : u[m] # Zero} = {m \in 1..n : s[m] # Zero}
  BY <1>1
<1> QED BY <1>2, Zenon DEF Sounding

(* Silence adds nothing. *)
LEMMA SoundingSilence ==
  ASSUME NEW s \in Seq(Samples), NEW t \in Seq(Samples), NEW u, Joins(u, s, t),
         \A k \in 1..Len(t) : t[k] = Zero
  PROVE  Sounding(u, Len(u)) = Sounding(s, Len(s))
<1>1. ASSUME NEW m \in 1..Len(u) PROVE u[m] # Zero <=> m \in 1..Len(s) /\ s[m] # Zero
  <2>1. CASE m \in 1..Len(s)
    BY <2>1, JoinedSamples
  <2>2. CASE m \notin 1..Len(s)
    <3>1. m - Len(s) \in 1..Len(t) /\ Len(s) + (m - Len(s)) = m
      BY <2>2, JoinedSamples
    <3>2. u[m] = t[m - Len(s)]
      BY <3>1, JoinedSamples
    <3> QED BY <2>2, <3>1, <3>2
  <2> QED BY <2>1, <2>2
<1>2. 1..Len(s) \subseteq 1..Len(u)
  BY JoinedSamples
<1>3. {m \in 1..Len(u) : u[m] # Zero} = {m \in 1..Len(s) : s[m] # Zero}
  BY <1>1, <1>2
<1> QED BY <1>3, Zenon DEF Sounding

(* The samples of a frame add one each. *)
LEMMA SoundingSamples ==
  ASSUME NEW s \in Seq(Samples), NEW t \in Seq(Samples), NEW u, Joins(u, s, t),
         \A k \in 1..Len(t) : t[k] # Zero,
         NEW n \in 0..Len(t)
  PROVE  Sounding(u, Len(s) + n) = Sounding(s, Len(s)) + n
<1> DEFINE A == {m \in 1..Len(s) : s[m] # Zero}
           B == (Len(s) + 1)..(Len(s) + n)
           C == {m \in 1..(Len(s) + n) : u[m] # Zero}
<1>1. ASSUME NEW m \in 1..(Len(s) + n)
      PROVE  u[m] # Zero <=> m \in A \/ m \in B
  <2>1. CASE m \in 1..Len(s)
    BY <2>1, JoinedSamples
  <2>2. CASE m \notin 1..Len(s)
    <3>1. /\ m - Len(s) \in 1..Len(t) /\ Len(s) + (m - Len(s)) = m /\ m \in B
      BY <2>2, JoinedSamples
    <3>2. u[m] = t[m - Len(s)]
      BY <3>1, JoinedSamples
    <3> QED BY <3>1, <3>2
  <2> QED BY <2>1, <2>2
<1>2. A \subseteq 1..(Len(s) + n) /\ B \subseteq 1..(Len(s) + n) /\ A \cap B = {}
  BY JoinedSamples
<1>3. C = A \cup B
  BY <1>1, <1>2
<1>4. IsFiniteSet(A) /\ Cardinality(A) \in Nat /\ Cardinality(A) = Sounding(s, Len(s))
  BY SoundingIsFinite, JoinedSamples DEF Sounding
<1>5. IsFiniteSet(B) /\ Cardinality(B) = n
  <2>1. n \in Nat /\ Len(s) + 1 \in Int /\ Len(s) + n \in Int
    BY JoinedSamples
  <2>2. /\ IsFiniteSet(B)
        /\ Cardinality(B) = IF Len(s) + 1 > Len(s) + n THEN 0
                            ELSE (Len(s) + n) - (Len(s) + 1) + 1
    BY <2>1, FS_Interval
  <2>3. Len(s) \in Nat
    BY JoinedSamples
  <2> HIDE DEF B
  <2> QED BY <2>1, <2>2, <2>3
<1>6. Cardinality(C) = Sounding(u, Len(s) + n)
  BY DEF Sounding
<1> HIDE DEF A, B, C
<1>7. Cardinality(A \cup B) = Cardinality(A) + Cardinality(B) - Cardinality(A \cap B)
  BY <1>4, <1>5, FS_Union
<1>8. Cardinality(A \cup B) = Cardinality(A) + Cardinality(B) - 0
  BY <1>2, <1>7, FS_EmptySet, Zenon
<1> QED BY <1>3, <1>4, <1>5, <1>6, <1>8

(* A sample that sounds is one more. *)
LEMMA SoundingLast ==
  ASSUME NEW s \in Seq(Samples), NEW n \in 1..Len(s), s[n] # Zero
  PROVE  Sounding(s, n) = Sounding(s, n - 1) + 1
<1> DEFINE A == {m \in 1..(n - 1) : s[m] # Zero}
<1>1. n \in Nat /\ n - 1 \in Nat
  OBVIOUS
<1>2. IsFiniteSet(A) /\ Cardinality(A) = Sounding(s, n - 1) /\ Cardinality(A) \in Nat
  BY <1>1, SoundingIsFinite DEF Sounding
<1>3. {m \in 1..n : s[m] # Zero} = A \cup {n} /\ n \notin A
  BY <1>1
<1> HIDE DEF A
<1>4. Cardinality(A \cup {n}) = Cardinality(A) + 1
  BY <1>2, <1>3, FS_AddElement
<1> QED BY <1>2, <1>3, <1>4 DEF Sounding
-----------------------------------------------------------------------------
LEMMA SineSizes ==
  /\ QueueLimit \in Nat /\ kFrameSamples \in Nat /\ kFrameSamples > 0
  /\ PrerollFrames \in Nat /\ MaxFrames \in Nat /\ MaxRendered \in Nat
  BY QueueAssumption, FramesAssumption, CallbackAssumption

LEMMA SineInitInv == Init => SineInv
<1> SUFFICES ASSUME Init PROVE SineInv
  OBVIOUS
<1>1. /\ queue = <<>> /\ produced_frames = 0 /\ current_frame = -1 /\ sequence = 0
      /\ dropped_producer_frames = 0 /\ current_offset = kFrameSamples /\ remaining = 0
      /\ heard = <<>> /\ rendered_device_frames = 0 /\ queue_underruns = 0
      /\ main = "preroll" /\ producer = "none" /\ running = TRUE /\ device = "none"
  BY DEF Init, Fifo!Init
<1>2. Phases
  BY <1>1 DEF Phases
<1>3. QueueInOrder
  BY <1>1, SineSizes DEF QueueInOrder, Zero
<1>4. Len(heard) = 0 /\ DOMAIN heard = {} /\ heard \in Seq(Nat \union {Zero})
  BY <1>1
<1>5. Audible = 0
  <2>1. {m \in 1..0 : heard[m] # Zero} = {}
    OBVIOUS
  <2> QED BY <1>4, <2>1, FS_EmptySet DEF Audible, AudibleAmong
<1>6. HeardInOrder
  BY <1>4 DEF HeardInOrder
<1>7. Position = 0
  BY <1>1, SineSizes DEF Position
<1>8. PlayedInOrder
  BY <1>1, <1>4, <1>5, <1>6, <1>7, SineSizes DEF PlayedInOrder, Zero
<1> QED BY <1>2, <1>3, <1>8 DEF SineInv

(* What the invariant says of every state, on the reader's side. *)
LEMMA SineInvShares == SineInv => SharedInOrder
<1> SUFFICES ASSUME SineInv PROVE SharedInOrder
  OBVIOUS
<1>1. TypeOK
  <2>1. current_frame \in -1..(sequence - 1)
    BY DEF SineInv, QueueInOrder, Zero
  <2>2. queue \in Seq(0..(sequence - 1))
    <3>1. ASSUME NEW n \in 1..Len(queue) PROVE queue[n] \in 0..(sequence - 1)
      BY DEF SineInv, QueueInOrder, Zero
    <3>2. queue \in Seq(Nat)
      BY DEF SineInv, QueueInOrder
    <3> DEFINE made == 0..(sequence - 1)
    <3>3. \A n \in 1..Len(queue) : queue[n] \in made
      BY <3>1
    <3> HIDE DEF made
    <3>4. queue \in [1..Len(queue) -> made] /\ Len(queue) \in Nat
      BY <3>2, <3>3
    <3>5. queue \in Seq(made)
      BY <3>4, SeqDef
    <3> QED BY <3>5 DEF made
  <2>3. remaining \in 0..MaxRendered
    BY SineSizes DEF SineInv, PlayedInOrder
  <2> QED BY <2>1, <2>2, <2>3 DEF TypeOK, SineInv, Phases, QueueInOrder, PlayedInOrder
<1>2. StatsAddUp
  BY DEF StatsAddUp, SineInv, QueueInOrder, PlayedInOrder, Zero
<1>3. NobodyLeftBehind
  BY DEF NobodyLeftBehind, SineInv, Phases, PlayedInOrder
<1> QED BY <1>1, <1>2, <1>3 DEF SharedInOrder, SineInv, PlayedInOrder
-----------------------------------------------------------------------------
(* A step that leaves what is played alone. *)
LEMMA PlayedKept ==
  ASSUME PlayedInOrder,
         UNCHANGED <<queue_underruns, rendered_device_frames, current_frame,
                     current_offset, remaining, heard>>
  PROVE  PlayedInOrder'
  BY DEF PlayedInOrder, HeardInOrder, AudibleAmong, Audible, Position

LEMMA QueueKept ==
  ASSUME QueueInOrder, UNCHANGED <<pushVars, current_frame>>
  PROVE  QueueInOrder'
  BY DEF QueueInOrder, pushVars

(* push: the frame is the next after those queued, or it is counted as      *)
(* dropped.                                                                *)
LEMMA PushKeeps ==
  ASSUME QueueInOrder, PushSineFrame
  PROVE  QueueInOrder' /\ UNCHANGED current_frame
<1>1. sequence' = sequence + 1
  BY DEF PushSineFrame
<1>2. CASE Fifo!Push /\ UNCHANGED dropped_producer_frames
  <2>1. /\ Len(queue) < QueueLimit /\ queue' = Append(queue, produced_frames)
        /\ produced_frames' = produced_frames + 1 /\ UNCHANGED current_frame
        /\ UNCHANGED dropped_producer_frames
    BY <1>2 DEF Fifo!Push
  <2>2. /\ queue' \in Seq(Nat) /\ Len(queue') = Len(queue) + 1 /\ Len(queue) \in Nat
        /\ queue'[Len(queue) + 1] = produced_frames
        /\ \A n \in 1..Len(queue) : queue'[n] = queue[n]
    BY <2>1 DEF QueueInOrder
  <2>3. ASSUME NEW n \in 1..Len(queue') PROVE queue'[n] = current_frame + n
    <3>1. CASE n \in 1..Len(queue)
      BY <2>2, <3>1 DEF QueueInOrder
    <3>2. CASE n = Len(queue) + 1
      BY <2>2, <3>2 DEF QueueInOrder, Zero
    <3> QED BY <2>2, <3>1, <3>2
  <2> QED BY <1>1, <2>1, <2>2, <2>3, SineSizes DEF QueueInOrder, Zero
<1>3. CASE /\ dropped_producer_frames' = dropped_producer_frames + 1
           /\ UNCHANGED <<queue, produced_frames, current_frame>>
  BY <1>1, <1>3 DEF QueueInOrder, Zero
<1> QED BY <1>2, <1>3 DEF PushSineFrame

(* main's steps. *)
LEMMA MainKeeps == ASSUME SineInv, Main PROVE SineInv'
<1>1. CASE Preroll /\ sequence < PrerollFrames
  <2>1. /\ PushSineFrame
        /\ UNCHANGED <<threadVars, queue_underruns, rendered_device_frames,
                       current_offset, remaining, heard>>
    BY <1>1 DEF Preroll
  <2>2. QueueInOrder' /\ UNCHANGED current_frame
    BY <2>1, PushKeeps DEF SineInv
  <2>3. PlayedInOrder'
    BY <2>1, <2>2, PlayedKept DEF SineInv
  <2>4. Phases'
    BY <2>1 DEF SineInv, Phases, threadVars
  <2> QED BY <2>2, <2>3, <2>4 DEF SineInv
<1>2. CASE Main /\ UNCHANGED <<pushVars, renderVars>>
  <2>1. QueueInOrder' /\ PlayedInOrder' /\ remaining' = remaining /\ remaining \in Nat
    BY <1>2, QueueKept, PlayedKept DEF SineInv, renderVars, PlayedInOrder
  <2>2. CASE Preroll /\ main' = "init" /\ UNCHANGED <<producer, running, device>>
    BY <2>1, <2>2 DEF SineInv, Phases, Preroll
  <2>3. CASE InitDevice
    BY <2>1, <2>3 DEF SineInv, Phases, InitDevice
  <2>4. CASE StartDevice
    BY <2>1, <2>4 DEF SineInv, Phases, StartDevice
  <2>5. CASE JoinProducer
    BY <2>1, <2>5 DEF SineInv, Phases, JoinProducer
  <2>6. CASE StopDevice
    BY <2>1, <2>6 DEF SineInv, Phases, StopDevice
  <2>7. CASE UninitDevice
    BY <2>1, <2>7 DEF SineInv, Phases, UninitDevice
  <2>8. Preroll => PushSineFrame \/ (main' = "init" /\ UNCHANGED <<producer, running, device>>)
    BY DEF Preroll
  <2>9. PushSineFrame => sequence' # sequence
    BY DEF PushSineFrame, SineInv, QueueInOrder
  <2>10. sequence' = sequence
    BY <1>2 DEF pushVars
  <2> QED BY <1>2, <2>2, <2>3, <2>4, <2>5, <2>6, <2>7, <2>8, <2>9, <2>10 DEF Main
<1>3. Preroll /\ ~(sequence < PrerollFrames) => UNCHANGED <<pushVars, renderVars>>
  BY DEF Preroll
<1>4. Main => Preroll \/ UNCHANGED <<pushVars, renderVars>>
  BY DEF Main, InitDevice, StartDevice, JoinProducer, StopDevice, UninitDevice
<1> QED BY <1>1, <1>2, <1>3, <1>4

(* The thread's steps. *)
LEMMA ProducerKeeps == ASSUME SineInv, Producer PROVE SineInv'
<1>1. CASE CheckTime
  <2>1. UNCHANGED <<main, device, pushVars, renderVars>> /\ producer = "check"
        /\ producer' \in {"push", "done"} /\ running' \in {running, FALSE}
    BY <1>1 DEF CheckTime
  <2>2. QueueInOrder' /\ PlayedInOrder' /\ remaining' = remaining
    BY <2>1, QueueKept, PlayedKept DEF SineInv, renderVars
  <2>3. Phases'
    BY <2>1, <2>2 DEF SineInv, Phases
  <2> QED BY <2>2, <2>3 DEF SineInv
<1>2. CASE Produce
  <2>1. /\ PushSineFrame /\ producer = "push" /\ producer' = "check"
        /\ UNCHANGED <<main, running, device, queue_underruns, rendered_device_frames,
                       current_offset, remaining, heard>>
    BY <1>2 DEF Produce
  <2>2. QueueInOrder' /\ UNCHANGED current_frame
    BY <2>1, PushKeeps DEF SineInv
  <2>3. PlayedInOrder'
    BY <2>1, <2>2, PlayedKept DEF SineInv
  <2>4. Phases'
    BY <2>1 DEF SineInv, Phases
  <2> QED BY <2>2, <2>3, <2>4 DEF SineInv
<1> QED BY <1>1, <1>2 DEF Producer

LEMMA CallbackKeeps ==
  ASSUME SineInv, NEW frame_count \in CallbackSamples, CallbackBegins(frame_count)
  PROVE  SineInv'
<1>1. /\ device = "started" /\ remaining' = frame_count /\ frame_count \in Nat
      /\ rendered_device_frames + frame_count <= MaxRendered
      /\ UNCHANGED <<threadVars, pushVars, queue_underruns, rendered_device_frames,
                     current_frame, current_offset, heard>>
  BY CallbackAssumption DEF CallbackBegins
<1>2. QueueInOrder'
  BY <1>1, QueueKept DEF SineInv
<1>3. Phases'
  BY <1>1 DEF SineInv, Phases, threadVars
<1>4. PlayedInOrder'
  BY <1>1 DEF SineInv, PlayedInOrder, HeardInOrder, AudibleAmong, Audible, Position
<1> QED BY <1>2, <1>3, <1>4 DEF SineInv
-----------------------------------------------------------------------------
(* What the callback appends to what was heard, and what is said of it. *)
LEMMA NextFrameKeeps == ASSUME SineInv, NextFrame PROVE SineInv'
<1>1. /\ remaining > 0 /\ current_offset >= kFrameSamples
      /\ queue # <<>> /\ current_frame' = Head(queue) /\ queue' = Tail(queue)
      /\ UNCHANGED produced_frames /\ current_offset' = 0
      /\ UNCHANGED <<threadVars, sequence, dropped_producer_frames, queue_underruns,
                     rendered_device_frames, remaining, heard>>
  BY DEF NextFrame, NeedsFrame, Fifo!Pop
<1>2. /\ queue \in Seq(Nat) /\ Len(queue) \in Nat /\ Len(queue) > 0
      /\ queue' \in Seq(Nat) /\ Len(queue') = Len(queue) - 1
      /\ current_frame' = queue[1]
      /\ \A n \in 1..Len(queue') : queue'[n] = queue[n + 1]
  BY <1>1 DEF SineInv, QueueInOrder
<1>3. current_frame' = current_frame + 1 /\ current_frame \in Int /\ current_frame' \in Nat
  BY <1>2 DEF SineInv, QueueInOrder, Zero
<1>4. QueueInOrder'
  <2>1. ASSUME NEW n \in 1..Len(queue') PROVE queue'[n] = current_frame' + n
    <3>1. n + 1 \in 1..Len(queue) /\ queue'[n] = queue[n + 1]
      BY <1>2
    <3> QED BY <1>3, <3>1 DEF SineInv, QueueInOrder
  <2>2. /\ produced_frames' \in Nat /\ dropped_producer_frames' \in Nat
        /\ sequence' = produced_frames' + dropped_producer_frames'
    BY <1>1 DEF SineInv, QueueInOrder
  <2>3. /\ produced_frames = Len(queue) + current_frame + 1 /\ produced_frames' = produced_frames
        /\ Len(queue) <= QueueLimit
    BY <1>1 DEF SineInv, QueueInOrder
  <2>4. produced_frames' = Len(queue') + current_frame' + 1 /\ Len(queue') <= QueueLimit
    BY <1>2, <1>3, <2>3, SineSizes
  <2> QED BY <1>2, <1>3, <2>1, <2>2, <2>4 DEF QueueInOrder
<1>5. Position' = Position
  <2>1. current_offset = kFrameSamples
    BY <1>1, SineSizes DEF SineInv, PlayedInOrder
  <2>2. PICK m \in Nat : current_frame + 1 = m
    BY <1>3
  <2>3. (m + 1) * kFrameSamples = m * kFrameSamples + kFrameSamples
        /\ m * kFrameSamples \in Nat
    BY SineSizes
  <2>4. PICK before \in Nat : before = m * kFrameSamples
    BY <2>3
  <2>5. Position = before + kFrameSamples - kFrameSamples
    BY <2>1, <2>2, <2>4 DEF Position
  <2>6. current_frame' + 1 = m + 1
    BY <1>3, <2>2
  <2>7. Position' = (before + kFrameSamples) + 0 - kFrameSamples
    BY <1>1, <2>3, <2>4, <2>6 DEF Position
  <2> QED BY <2>5, <2>7, SineSizes
<1>6. PlayedInOrder'
  <2>1. Audible' = Audible /\ (HeardInOrder' <=> HeardInOrder)
    BY <1>1 DEF Audible, AudibleAmong, HeardInOrder
  <2> QED BY <1>1, <1>3, <1>5, <2>1, SineSizes DEF SineInv, PlayedInOrder
<1>7. Phases'
  BY <1>1 DEF SineInv, Phases, threadVars
<1> QED BY <1>4, <1>6, <1>7 DEF SineInv

(* What HeardInOrder says, of any sequence of samples. *)
InSequence(s) ==
    /\ \A n \in DOMAIN s : s[n] # Zero => s[n] = Sounding(s, n - 1)
    /\ \A n \in 1..(Len(s) - 1) :
          s[n] # Zero /\ s[n + 1] = Zero => (s[n] + 1) % kFrameSamples = 0

LEMMA HeardIsInSequence ==
  (HeardInOrder <=> InSequence(heard)) /\ (HeardInOrder' <=> InSequence(heard'))
  BY DEF HeardInOrder, InSequence, AudibleAmong, Sounding

(* Silence at the end of a frame breaks nothing. *)
LEMMA SilenceFollows ==
  ASSUME NEW s \in Seq(Samples), NEW t \in Seq(Samples), NEW u, Joins(u, s, t),
         \A k \in 1..Len(t) : t[k] = Zero, InSequence(s),
         NEW m \in Nat, Sounding(s, Len(s)) = m * kFrameSamples
  PROVE  InSequence(u)
<1>1. /\ u \in Seq(Samples) /\ Len(s) \in Nat /\ Len(t) \in Nat /\ Len(u) = Len(s) + Len(t)
      /\ DOMAIN s = 1..Len(s) /\ DOMAIN u = 1..Len(u)
      /\ \A n \in 1..Len(s) : u[n] = s[n]
      /\ \A k \in 1..Len(t) : u[Len(s) + k] = t[k]
  BY JoinedSamples
<1>2. ASSUME NEW n \in 1..Len(u), n \notin 1..Len(s) PROVE u[n] = Zero
  <2>1. n - Len(s) \in 1..Len(t) /\ Len(s) + (n - Len(s)) = n
    BY <1>1, <1>2
  <2> QED BY <1>1, <2>1
<1>3. ASSUME NEW n \in 1..Len(u), u[n] # Zero PROVE u[n] = Sounding(u, n - 1)
  <2>1. n \in 1..Len(s) /\ n - 1 \in 0..Len(s)
    BY <1>1, <1>2, <1>3
  <2>2. Sounding(u, n - 1) = Sounding(s, n - 1)
    BY <2>1, SoundingKept
  <2> QED BY <1>1, <1>3, <2>1, <2>2 DEF InSequence
<1>4. ASSUME NEW n \in 1..(Len(u) - 1), u[n] # Zero, u[n + 1] = Zero
      PROVE  (u[n] + 1) % kFrameSamples = 0
  <2>1. n \in 1..Len(s) /\ n \in 1..Len(u) /\ n \in Nat
    BY <1>1, <1>2, <1>4
  <2>2. CASE n < Len(s)
    <3>1. n + 1 \in 1..Len(s) /\ n \in 1..(Len(s) - 1)
      BY <1>1, <2>1, <2>2
    <3> QED BY <1>1, <1>4, <2>1, <3>1 DEF InSequence
  <2>3. CASE n = Len(s)
    <3>1. s[n] # Zero /\ u[n] = s[n]
      BY <1>1, <1>4, <2>1
    <3>2. Sounding(s, n) = Sounding(s, n - 1) + 1
      BY <2>1, <3>1, SoundingLast
    <3>3. s[n] = Sounding(s, n - 1)
      BY <1>1, <2>1, <3>1 DEF InSequence
    <3>4. u[n] + 1 = m * kFrameSamples
      BY <2>3, <3>1, <3>2, <3>3
    <3>5. (m * kFrameSamples) % kFrameSamples = 0
      BY SineSizes, ModMultiple
    <3> QED BY <3>4, <3>5
  <2>4. Len(s) \in Nat /\ n \in Nat /\ n <= Len(s)
    BY <1>1, <2>1
  <2>5. n < Len(s) \/ n = Len(s)
    BY <2>4
  <2> QED BY <2>2, <2>3, <2>5
<1> QED BY <1>1, <1>3, <1>4 DEF InSequence

(* The next samples of the tone follow those that were heard. *)
GoesOn(t, first) == \A k \in 1..Len(t) : t[k] = first + k - 1

LEMMA SamplesFollow ==
  ASSUME NEW s \in Seq(Samples), NEW t \in Seq(Samples), NEW u, Joins(u, s, t),
         InSequence(s), NEW first \in Nat, first = Sounding(s, Len(s)),
         GoesOn(t, first)
  PROVE  InSequence(u) /\ Sounding(u, Len(u)) = first + Len(t)
<1>1. /\ u \in Seq(Samples) /\ Len(s) \in Nat /\ Len(t) \in Nat /\ Len(u) = Len(s) + Len(t)
      /\ DOMAIN s = 1..Len(s) /\ DOMAIN u = 1..Len(u)
      /\ \A n \in 1..Len(s) : u[n] = s[n]
      /\ \A k \in 1..Len(t) : u[Len(s) + k] = t[k]
  BY JoinedSamples
<1>2. \A k \in 1..Len(t) : t[k] # Zero
  BY DEF Zero, GoesOn
<1>3. ASSUME NEW n \in 0..Len(t) PROVE Sounding(u, Len(s) + n) = first + n
  <2>1. Sounding(u, Len(s) + n) = Sounding(s, Len(s)) + n
    BY <1>2, SoundingSamples
  <2> QED BY <2>1
<1>4. ASSUME NEW n \in 1..Len(u), n \notin 1..Len(s)
      PROVE  \E k \in 1..Len(t) : n = Len(s) + k /\ u[n] = t[k]
  <2>1. n - Len(s) \in 1..Len(t) /\ n = Len(s) + (n - Len(s))
    BY <1>1, <1>4
  <2>2. u[Len(s) + (n - Len(s))] = t[n - Len(s)]
    BY <1>1, <2>1
  <2> QED BY <2>1, <2>2
<1>5. ASSUME NEW n \in 1..Len(u), u[n] # Zero PROVE u[n] = Sounding(u, n - 1)
  <2>1. CASE n \in 1..Len(s)
    <3>1. n - 1 \in 0..Len(s) /\ u[n] = s[n]
      BY <1>1, <2>1
    <3>2. Sounding(u, n - 1) = Sounding(s, n - 1)
      BY <3>1, SoundingKept
    <3> QED BY <1>1, <1>5, <2>1, <3>1, <3>2 DEF InSequence
  <2>2. CASE n \notin 1..Len(s)
    <3>1. PICK k \in 1..Len(t) : n = Len(s) + k /\ u[n] = t[k]
      BY <1>4, <2>2
    <3>2. k \in Nat /\ k - 1 \in 0..Len(t) /\ n - 1 = Len(s) + (k - 1)
      BY <1>1, <3>1
    <3>3. Sounding(u, n - 1) = first + (k - 1)
      BY <1>3, <3>2
    <3>4. t[k] = first + k - 1
      BY <3>1 DEF GoesOn
    <3> QED BY <3>1, <3>2, <3>3, <3>4
  <2> QED BY <2>1, <2>2
<1>6. ASSUME NEW n \in 1..(Len(u) - 1), u[n] # Zero, u[n + 1] = Zero
      PROVE  (u[n] + 1) % kFrameSamples = 0
  <2>1. n + 1 \in 1..Len(u) /\ n \in Nat
    BY <1>1, <1>6
  <2>2. n + 1 \in 1..Len(s)
    BY <1>2, <1>4, <1>6, <2>1
  <2>3. n \in 1..(Len(s) - 1) /\ n \in 1..Len(s)
    BY <1>1, <2>1, <2>2
  <2> QED BY <1>1, <1>6, <2>2, <2>3 DEF InSequence
<1>7. Sounding(u, Len(u)) = first + Len(t)
  BY <1>1, <1>3
<1> QED BY <1>1, <1>5, <1>6, <1>7 DEF InSequence

(* An underrun: the rest of the callback is silence, between two frames. *)
LEMMA UnderrunKeeps == ASSUME SineInv, Underrun PROVE SineInv'
<1>1. /\ remaining > 0 /\ current_offset >= kFrameSamples
      /\ heard' = heard \o [k \in 1..remaining |-> Zero]
      /\ queue_underruns' = queue_underruns + 1
      /\ rendered_device_frames' = rendered_device_frames + remaining
      /\ remaining' = 0
      /\ UNCHANGED <<threadVars, pushVars, current_frame, current_offset>>
  BY DEF Underrun, NeedsFrame
<1>2. PICK s, t, u :
         /\ s \in Seq(Samples) /\ t \in Seq(Samples)
         /\ s = heard /\ u = heard' /\ Joins(u, s, t) /\ Len(t) = remaining
         /\ \A k \in 1..Len(t) : t[k] = Zero
  <2> DEFINE zeros == [k \in 1..remaining |-> Zero]
  <2>1. remaining \in Nat /\ heard \in Seq(Samples) /\ Zero \in Samples
    BY DEF SineInv, PlayedInOrder, Samples
  <2>2. zeros \in Seq(Samples) /\ Len(zeros) = remaining /\ \A k \in 1..Len(zeros) : zeros[k] = Zero
    BY <2>1
  <2>3. heard' = heard \o zeros
    BY <1>1
  <2> HIDE DEF zeros
  <2> QED BY <2>1, <2>2, <2>3 DEF Joins
<1>3. u \in Seq(Samples) /\ Len(s) \in Nat /\ Len(u) = Len(s) + Len(t)
  BY <1>2, JoinedSamples
<1>4. Audible = Sounding(s, Len(s)) /\ Audible' = Sounding(u, Len(u)) /\ Audible' = Audible
  <2>1. Sounding(u, Len(u)) = Sounding(s, Len(s))
    BY <1>2, SoundingSilence
  <2> QED BY <1>2, <2>1, AudibleIsSounding
<1>5. PICK m \in Nat : m = current_frame + 1
  BY DEF SineInv, PlayedInOrder, Zero
<1>6. Audible = m * kFrameSamples /\ m * kFrameSamples \in Nat
  <2>1. current_offset = kFrameSamples
    BY <1>1, SineSizes DEF SineInv, PlayedInOrder
  <2>2. PICK before \in Nat : before = m * kFrameSamples
    BY SineSizes
  <2>3. Position = before + kFrameSamples - kFrameSamples
    BY <1>5, <2>1, <2>2 DEF Position
  <2> QED BY <2>2, <2>3, SineSizes DEF SineInv, PlayedInOrder
<1>7. HeardInOrder'
  <2>1. InSequence(s)
    BY <1>2, HeardIsInSequence DEF SineInv, PlayedInOrder
  <2>2. InSequence(u)
    BY <1>2, <1>4, <1>6, <2>1, SilenceFollows
  <2> QED BY <1>2, <2>2, HeardIsInSequence
<1>8. Position' = Position
  BY <1>1 DEF Position
<1>9. /\ rendered_device_frames' = Len(heard')
      /\ rendered_device_frames' + remaining' <= MaxRendered
      /\ queue_underruns' <= Len(heard') - Audible'
      /\ queue_underruns' \in Nat /\ remaining' \in Nat
  <2>1. /\ remaining \in Nat /\ remaining > 0 /\ queue_underruns \in Nat
        /\ rendered_device_frames = Len(s) /\ Len(s) \in Nat
        /\ rendered_device_frames + remaining <= MaxRendered
        /\ queue_underruns <= Len(s) - Audible
    BY <1>1, <1>2, <1>3 DEF SineInv, PlayedInOrder
  <2>2. Len(heard') = Len(s) + remaining
    BY <1>2, <1>3
  <2>3. Audible' = Audible /\ Audible \in Nat
    BY <1>4, <1>6
  <2> QED BY <1>1, <2>1, <2>2, <2>3, SineSizes
<1>10. heard' \in Seq(Nat \union {Zero})
  BY <1>2, <1>3 DEF Samples
<1>11. PlayedInOrder'
  <2>1. /\ current_frame' \in Nat \union {Zero} /\ current_offset' \in 0..kFrameSamples
        /\ Audible' = Position'
    BY <1>1, <1>4, <1>8 DEF SineInv, PlayedInOrder
  <2> QED BY <1>7, <1>9, <1>10, <2>1 DEF PlayedInOrder
<1>12. QueueInOrder'
  BY <1>1, QueueKept DEF SineInv
<1>13. Phases'
  BY <1>1 DEF SineInv, Phases, threadVars
<1> QED BY <1>11, <1>12, <1>13 DEF SineInv

(* What is copied are the next samples of the frame. *)
LEMMA CopyKeeps == ASSUME SineInv, CopySamples PROVE SineInv'
<1> DEFINE count == Lesser(kFrameSamples - current_offset, remaining)
           first == current_frame * kFrameSamples + current_offset
<1>1. /\ remaining > 0 /\ current_offset < kFrameSamples
      /\ heard' = heard \o [k \in 1..count |-> first + k - 1]
      /\ remaining' = remaining - count
      /\ current_offset' = current_offset + count
      /\ rendered_device_frames' = rendered_device_frames + count
      /\ UNCHANGED <<threadVars, pushVars, queue_underruns, current_frame>>
  BY DEF CopySamples
<1>2. /\ remaining \in Nat /\ current_offset \in Nat /\ heard \in Seq(Samples)
      /\ count \in Nat /\ count > 0 /\ count <= remaining
      /\ current_offset + count <= kFrameSamples
  <2>1. /\ remaining \in Nat /\ current_offset \in Nat /\ heard \in Seq(Samples)
    BY DEF SineInv, PlayedInOrder, Samples
  <2>2. PICK left \in Nat : left = kFrameSamples - current_offset /\ left > 0
    BY <1>1, <2>1, SineSizes
  <2>3. count \in {left, remaining} /\ count <= left /\ count <= remaining
    BY <2>1, <2>2 DEF Lesser
  <2> HIDE DEF count
  <2> QED BY <1>1, <2>1, <2>2, <2>3, SineSizes
<1>3. PICK m \in Nat : m = current_frame + 1
  BY DEF SineInv, PlayedInOrder, Zero
<1>4. PICK before \in Nat : before = m * kFrameSamples
  BY SineSizes
<1>5. Position = before + current_offset - kFrameSamples
  BY <1>3, <1>4 DEF Position
<1>6. Position' = before + current_offset' - kFrameSamples
  BY <1>1, <1>3, <1>4 DEF Position
<1>7. first = Position
  <2>1. current_frame = m - 1
    BY <1>3 DEF SineInv, PlayedInOrder, Zero
  <2>2. (m - 1) * kFrameSamples = m * kFrameSamples - kFrameSamples
    BY SineSizes
  <2> QED BY <1>2, <1>4, <1>5, <2>1, <2>2, SineSizes
<1>8. Audible = Position
  BY DEF SineInv, PlayedInOrder
<1> HIDE DEF count, first
<1>9. Audible = Sounding(heard, Len(heard)) /\ Audible \in Nat
  <2>1. Len(heard) \in Nat
    BY <1>2
  <2> QED BY <2>1, AudibleIsSounding, SoundingIsFinite
<1>10. PICK s, t, u :
         /\ s \in Seq(Samples) /\ t \in Seq(Samples)
         /\ s = heard /\ u = heard' /\ Joins(u, s, t) /\ Len(t) = count
         /\ \A k \in 1..Len(t) : t[k] = first + k - 1
  <2> DEFINE samples == [k \in 1..count |-> first + k - 1]
  <2>1. \A k \in 1..count : first + k - 1 \in Samples
    BY <1>2, <1>7, <1>8, <1>9 DEF Samples
  <2>2. /\ samples \in Seq(Samples) /\ Len(samples) = count
        /\ \A k \in 1..Len(samples) : samples[k] = first + k - 1
    BY <1>2, <2>1
  <2>3. heard' = heard \o samples
    BY <1>1
  <2> HIDE DEF samples
  <2> QED BY <1>2, <2>2, <2>3 DEF Joins
<1>11. u \in Seq(Samples) /\ Len(s) \in Nat /\ Len(u) = Len(s) + Len(t)
  BY <1>10, JoinedSamples
<1>12. InSequence(u) /\ Sounding(u, Len(u)) = first + Len(t)
  <2>1. InSequence(s)
    BY <1>10, HeardIsInSequence DEF SineInv, PlayedInOrder
  <2>2. first \in Nat /\ first = Sounding(s, Len(s))
    BY <1>7, <1>8, <1>9, <1>10
  <2>3. GoesOn(t, first)
    BY <1>10 DEF GoesOn
  <2>4. s \in Seq(Samples) /\ t \in Seq(Samples) /\ Joins(u, s, t)
    BY <1>10
  <2> QED BY <2>1, <2>2, <2>3, <2>4, SamplesFollow, Zenon
<1>13. HeardInOrder'
  BY <1>10, <1>12, HeardIsInSequence
<1>14. Audible' = Audible + count
  BY <1>7, <1>8, <1>10, <1>12, AudibleIsSounding
<1>15. Audible' = Position'
  BY <1>1, <1>2, <1>5, <1>6, <1>8, <1>14, SineSizes
<1>16. /\ rendered_device_frames' = Len(heard')
       /\ rendered_device_frames' + remaining' <= MaxRendered
       /\ queue_underruns' <= Len(heard') - Audible'
       /\ queue_underruns' \in Nat /\ remaining' \in Nat
  <2>1. /\ rendered_device_frames = Len(s) /\ Len(s) \in Nat /\ queue_underruns \in Nat
        /\ rendered_device_frames + remaining <= MaxRendered
        /\ queue_underruns <= Len(s) - Audible
    BY <1>10, <1>11 DEF SineInv, PlayedInOrder
  <2>2. Len(heard') = Len(s) + count
    BY <1>10, <1>11
  <2> QED BY <1>1, <1>2, <1>9, <1>14, <2>1, <2>2, SineSizes
<1>17. PlayedInOrder'
  <2>1. heard' \in Seq(Nat \union {Zero})
    BY <1>10, <1>11 DEF Samples
  <2>2. current_frame' \in Nat \union {Zero} /\ current_offset' \in 0..kFrameSamples
    <3>1. current_offset' \in 0..kFrameSamples
      BY <1>1, <1>2, SineSizes
    <3> QED BY <1>1, <3>1 DEF SineInv, PlayedInOrder
  <2> QED BY <1>13, <1>15, <1>16, <2>1, <2>2 DEF PlayedInOrder
<1>18. QueueInOrder'
  BY <1>1, QueueKept DEF SineInv
<1>19. Phases'
  <2>1. remaining' > 0 => remaining > 0
    BY <1>1, <1>2
  <2> QED BY <1>1, <2>1 DEF SineInv, Phases, threadVars
<1> QED BY <1>17, <1>18, <1>19 DEF SineInv
-----------------------------------------------------------------------------
LEMMA SineInvariance == Spec => []SineInv
<1>1. ASSUME SineInv, UNCHANGED vars PROVE SineInv'
  <2>1. UNCHANGED <<threadVars, pushVars, renderVars>>
    BY <1>1 DEF vars
  <2>2. QueueInOrder' /\ PlayedInOrder'
    BY <1>1, <2>1, QueueKept, PlayedKept DEF SineInv, renderVars
  <2>3. Phases'
    BY <1>1, <2>1 DEF SineInv, Phases, threadVars, renderVars
  <2> QED BY <2>2, <2>3 DEF SineInv
<1>2. SineInv /\ [Next]_vars => SineInv'
  BY <1>1, MainKeeps, ProducerKeeps, CallbackKeeps, NextFrameKeeps, UnderrunKeeps, CopyKeeps
  DEF Next, Render
<1> QED BY <1>2, SineInitInv, PTL DEF Spec

(* In the demo the device hears every accepted frame from its first sample  *)
(* on and in order, with silence only between frames, the summary adds up  *)
(* at every moment, and main leaves neither thread nor callback behind,    *)
(* for every interleaving of main, thread and callback.                    *)
THEOREM TonePlayedInOrder == Spec => []SharedInOrder
  BY SineInvariance, SineInvShares, PTL
-----------------------------------------------------------------------------
Calls == {"stop", "uninit", "close", "decoder", "encoder"}

Has(calls, call) == \E n \in 1..Len(calls) : calls[n] = call

(* Each call at most once, and no stop after the uninit. *)
Ordered(calls) ==
    /\ calls \in Seq(Calls) /\ Len(calls) <= 5
    /\ \A m, n \in 1..Len(calls) :
          m < n => /\ calls[m] # calls[n]
                   /\ ~(calls[m] = "uninit" /\ calls[n] = "stop")

(* How far main is in its setup tells what it holds. *)
Acquired(step) ==
    \/ program = "pcm" /\ \/ step = "receiver" /\ at > 1
                          \/ step = "sender" /\ at > 2
                          \/ step = "recorder" /\ at > 5 /\ record
    \/ program = "opus" /\ \/ step = "encoder" /\ at > 1
                           \/ step = "decoder" /\ at > 2
                           \/ step = "receiver" /\ at > 3
                           \/ step = "sender" /\ at > 4
                           \/ step = "recorder" /\ at > 5 /\ record

InitAt == IF program = "pcm" THEN 3 ELSE IF program = "opus" THEN 6 ELSE 1

DeviceInSetup ==
    IF ~play_audio \/ at <= InitAt \/ failed = "init" THEN "none"
    ELSE IF at = InitAt + 1 \/ failed = "start" THEN "initialized" ELSE "started"

SetupInv ==
    phase = "setup" =>
        /\ \A step \in Holdable : step \in held <=> Acquired(step)
        /\ playback_device = DeviceInSetup
        /\ todo = <<>> /\ ~patched
        /\ failed = "none" \/ (program = "lab" /\ failed \in {"init", "start"} /\ at = 3)

DeviceUsed == playback_device \in {"started", "stopping"}

(* What main still holds on its way out is what it will still release. *)
ReleaseInv ==
    phase # "setup" =>
        /\ DeviceUsed => Has(todo, "stop") \/ PcmStreamFailed
        /\ Has(todo, "stop") => DeviceUsed
        /\ playback_device # "none" =>
              Has(todo, "uninit") \/ PcmStreamFailed \/ (program = "lab" /\ failed = "start")
        /\ Has(todo, "uninit") => playback_device # "none" /\ ~PcmStreamFailed
        /\ \A codec \in {"encoder", "decoder"} : codec \in held <=> Has(todo, codec)

RecordingInv ==
    /\ program = "lab" => ~record
    /\ phase # "setup" /\ record /\ failed \notin Holdable
          => \/ patched \/ PcmStreamFailed \/ (program = "pcm" /\ failed \in {"init", "start"})
             \/ "recorder" \in held /\ Has(todo, "close")

CallbackInv ==
    /\ callback => DeviceUsed
    /\ playback_state <=> phase # "returned"
    /\ phase = "returned" => todo = <<>> /\ held \subseteq {"encoder", "decoder"}

LifecycleInv ==
    /\ LifecycleTypeOK /\ Ordered(todo)
    /\ SetupInv /\ ReleaseInv /\ RecordingInv /\ CallbackInv
-----------------------------------------------------------------------------
(* The rest of a sequence has what the sequence has, but for its head. *)
LEMMA RestOrdered ==
  ASSUME NEW calls, Ordered(calls), calls # <<>>
  PROVE  /\ Ordered(Tail(calls))
         /\ Head(calls) \in Calls
         /\ ~Has(Tail(calls), Head(calls))
         /\ Has(calls, Head(calls))
         /\ \A call : call # Head(calls) => (Has(Tail(calls), call) <=> Has(calls, call))
         /\ Head(calls) = "uninit" => ~Has(calls, "stop")
<1> DEFINE rest == Tail(calls)
<1>1. /\ calls \in Seq(Calls) /\ Len(calls) \in Nat \ {0}
      /\ rest \in Seq(Calls) /\ Len(rest) = Len(calls) - 1
      /\ \A n \in 1..Len(rest) : rest[n] = calls[n + 1]
      /\ Head(calls) = calls[1] /\ calls[1] \in Calls
  BY DEF Ordered, Calls
<1>2. \A m, n \in 1..Len(calls) :
         m < n => calls[m] # calls[n] /\ ~(calls[m] = "uninit" /\ calls[n] = "stop")
  BY DEF Ordered
<1> HIDE DEF rest
<1>3. Ordered(rest)
  <2> SUFFICES ASSUME NEW m \in 1..Len(rest), NEW n \in 1..Len(rest), m < n
               PROVE  rest[m] # rest[n] /\ ~(rest[m] = "uninit" /\ rest[n] = "stop")
    BY <1>1 DEF Ordered
  <2>1. m + 1 \in 1..Len(calls) /\ n + 1 \in 1..Len(calls) /\ m + 1 < n + 1
    BY <1>1
  <2>. QED
    BY <1>1, <1>2, <2>1
<1>4. ~Has(rest, calls[1])
  <2> SUFFICES ASSUME NEW n \in 1..Len(rest), rest[n] = calls[1]
               PROVE  FALSE
    BY DEF Has
  <2>1. n + 1 \in 1..Len(calls) /\ 1 \in 1..Len(calls) /\ 1 < n + 1
    BY <1>1
  <2>. QED
    BY <1>1, <1>2, <2>1
<1>5. Has(calls, calls[1])
  BY <1>1 DEF Has
<1>6. ASSUME NEW call, call # calls[1]
      PROVE  Has(rest, call) <=> Has(calls, call)
  <2>1. ASSUME NEW n \in 1..Len(rest), rest[n] = call
        PROVE  Has(calls, call)
    <3>1. n + 1 \in 1..Len(calls) /\ calls[n + 1] = call
      BY <1>1, <2>1
    <3>. QED
      BY <3>1 DEF Has
  <2>2. ASSUME NEW n \in 1..Len(calls), calls[n] = call
        PROVE  Has(rest, call)
    <3>1. n # 1
      BY <1>6, <2>2
    <3>2. n - 1 \in 1..Len(rest) /\ (n - 1) + 1 = n
      BY <1>1, <3>1
    <3>3. rest[n - 1] = call
      BY <1>1, <2>2, <3>2
    <3>. QED
      BY <3>2, <3>3 DEF Has
  <2>. QED
    BY <2>1, <2>2 DEF Has
<1>7. ASSUME calls[1] = "uninit", NEW n \in 1..Len(calls), calls[n] = "stop"
      PROVE  FALSE
  <2>1. n # 1 /\ 1 \in 1..Len(calls) /\ 1 < n
    BY <1>1, <1>7
  <2>. QED
    BY <1>2, <1>7, <2>1
<1>8. calls[1] = "uninit" => ~Has(calls, "stop")
  BY <1>7 DEF Has
<1>. QED
  BY <1>1, <1>3, <1>4, <1>5, <1>6, <1>8 DEF rest

(* What each list of calls has. *)
LEMMA NoCalls == Ordered(<<>>) /\ \A call : ~Has(<<>>, call)
  BY DEF Ordered, Has

(* A single call. *)
LEMMA OneCall ==
  ASSUME NEW a \in Calls
  PROVE  Ordered(<<a>>) /\ \A call : Has(<<a>>, call) <=> call = a
  BY DEF Ordered, Has, Calls

(* Two calls. *)
LEMMA TwoCalls ==
  ASSUME NEW a \in Calls, NEW b \in Calls, a # b, ~(a = "uninit" /\ b = "stop")
  PROVE  Ordered(<<a, b>>) /\ \A call : Has(<<a, b>>, call) <=> call \in {a, b}
<1>1. /\ <<a, b>> \in Seq(Calls) /\ Len(<<a, b>>) = 2
      /\ <<a, b>>[1] = a /\ <<a, b>>[2] = b
  OBVIOUS
<1>2. 1..2 = {1, 2}
  OBVIOUS
<1>. QED
  BY <1>1, <1>2 DEF Ordered, Has

(* Three calls: a stop is the first. *)
LEMMA ThreeCalls ==
  ASSUME NEW a \in Calls, NEW b \in Calls, NEW c \in Calls, a # b, a # c, b # c,
         "stop" \in {a, b, c} => a = "stop"
  PROVE  Ordered(<<a, b, c>>) /\ \A call : Has(<<a, b, c>>, call) <=> call \in {a, b, c}
<1>1. /\ <<a, b, c>> \in Seq(Calls) /\ Len(<<a, b, c>>) = 3
      /\ <<a, b, c>>[1] = a /\ <<a, b, c>>[2] = b /\ <<a, b, c>>[3] = c
  OBVIOUS
<1>2. 1..3 = {1, 2, 3}
  OBVIOUS
<1>. QED
  BY <1>1, <1>2 DEF Ordered, Has

(* What follows a failed start. *)
LEMMA FourCalls ==
  LET calls == <<"uninit", "close", "decoder", "encoder">>
  IN  Ordered(calls) /\ \A call : Has(calls, call) <=> call \in Calls \ {"stop"}
<1> DEFINE calls == <<"uninit", "close", "decoder", "encoder">>
<1>1. /\ calls \in Seq(Calls) /\ Len(calls) = 4
      /\ calls[1] = "uninit" /\ calls[2] = "close" /\ calls[3] = "decoder" /\ calls[4] = "encoder"
  BY DEF Calls
<1>2. 1..4 = {1, 2, 3, 4}
  OBVIOUS
<1> HIDE DEF calls
<1>3. Ordered(calls) /\ \A call : Has(calls, call) <=> call \in Calls \ {"stop"}
  BY <1>1, <1>2 DEF Ordered, Has, Calls
<1>. QED
  BY <1>3 DEF calls

(* Everything, after the stream. *)
LEMMA FiveCalls ==
  ASSUME NEW calls \in {<<"close", "stop", "uninit", "decoder", "encoder">>,
                        <<"stop", "uninit", "close", "decoder", "encoder">>}
  PROVE  Ordered(calls) /\ \A call : Has(calls, call) <=> call \in Calls
<1>1. /\ calls \in Seq(Calls) /\ Len(calls) = 5
      /\ \/ calls[1] = "close" /\ calls[2] = "stop" /\ calls[3] = "uninit"
         \/ calls[1] = "stop" /\ calls[2] = "uninit" /\ calls[3] = "close"
      /\ calls[4] = "decoder" /\ calls[5] = "encoder"
  <2>1. CASE calls = <<"close", "stop", "uninit", "decoder", "encoder">>
    BY <2>1 DEF Calls
  <2>2. CASE calls = <<"stop", "uninit", "close", "decoder", "encoder">>
    BY <2>2 DEF Calls
  <2>. QED
    BY <2>1, <2>2
<1>2. 1..5 = {1, 2, 3, 4, 5}
  OBVIOUS
<1>. QED
  BY <1>1, <1>2 DEF Ordered, Has, Calls
-----------------------------------------------------------------------------
(* What is done where. *)
StepAt(step) ==
    \/ /\ program = "pcm" /\ at \in 1..6
       /\ \/ at = 1 /\ step = "receiver"
          \/ at = 2 /\ step = "sender"
          \/ at = 3 /\ step = "init"
          \/ at = 4 /\ step = "start"
          \/ at = 5 /\ step = "recorder"
          \/ at = 6 /\ step = "stream"
    \/ /\ program = "opus" /\ at \in 1..8
       /\ \/ at = 1 /\ step = "encoder"
          \/ at = 2 /\ step = "decoder"
          \/ at = 3 /\ step = "receiver"
          \/ at = 4 /\ step = "sender"
          \/ at = 5 /\ step = "recorder"
          \/ at = 6 /\ step = "init"
          \/ at = 7 /\ step = "start"
          \/ at = 8 /\ step = "stream"
    \/ /\ program = "lab" /\ at \in 1..3
       /\ \/ at = 1 /\ step = "init"
          \/ at = 2 /\ step = "start"
          \/ at = 3 /\ step = "stream"

(* How many steps each program has. *)
LEMMA Lengths ==
  /\ Len(Order["pcm"]) = 6 /\ Len(Order["opus"]) = 8 /\ Len(Order["lab"]) = 3
  BY DEF Order

(* The same by name. *)
LEMMA LengthIs ==
  ASSUME NEW name \in Programs
  PROVE  /\ Len(Order[name]) = IF name = "pcm" THEN 6 ELSE IF name = "opus" THEN 8 ELSE 3
         /\ Len(Order[name]) \in Nat
<1>1. CASE name = "pcm"
  BY <1>1, Lengths
<1>2. CASE name = "opus"
  BY <1>2, Lengths
<1>3. CASE name = "lab"
  BY <1>3, Lengths
<1>. QED
  BY <1>1, <1>2, <1>3 DEF Programs

(* A step that is being done is the one at its place. *)
LEMMA DoingIs ==
  ASSUME LifecycleTypeOK, NEW step, Doing(step)
  PROVE  StepAt(step)
<1>1. CASE program = "pcm"
  <2>1. at \in 1..6 /\ step = Order.pcm[at]
    BY <1>1, Lengths DEF LifecycleTypeOK, Doing
  <2>2. Order.pcm = <<"receiver", "sender", "init", "start", "recorder", "stream">>
    BY DEF Order
  <2>. QED
    BY <1>1, <2>1, <2>2 DEF StepAt
<1>2. CASE program = "opus"
  <2>1. at \in 1..8 /\ step = Order.opus[at]
    BY <1>2, Lengths DEF LifecycleTypeOK, Doing
  <2>2. Order.opus = <<"encoder", "decoder", "receiver", "sender", "recorder", "init",
                       "start", "stream">>
    BY DEF Order
  <2>. QED
    BY <1>2, <2>1, <2>2 DEF StepAt
<1>3. CASE program = "lab"
  <2>1. at \in 1..3 /\ step = Order.lab[at]
    BY <1>3, Lengths DEF LifecycleTypeOK, Doing
  <2>2. Order.lab = <<"init", "start", "stream">>
    BY DEF Order
  <2>. QED
    BY <1>3, <2>1, <2>2 DEF StepAt
<1>. QED
  BY <1>1, <1>2, <1>3 DEF LifecycleTypeOK, Programs

(* The invariant holds at the beginning. *)
LEMMA LifecycleBegins ==
  ASSUME LifecycleInit
  PROVE  LifecycleInv
<1> USE DEF LifecycleInit
<1>1. LifecycleTypeOK
  <2>1. 1 \in 1..Len(Order[program])
    BY LengthIs
  <2>. QED
    BY <2>1 DEF LifecycleTypeOK, Programs
<1>2. Ordered(todo)
  BY NoCalls
<1>3. SetupInv
  BY DEF SetupInv, Acquired, Holdable, DeviceInSetup, InitAt, Programs
<1>4. ReleaseInv /\ RecordingInv /\ CallbackInv
  BY DEF ReleaseInv, RecordingInv, CallbackInv, DeviceUsed
<1>. QED
  BY <1>1, <1>2, <1>3, <1>4 DEF LifecycleInv

Steps == Holdable \union {"init", "start", "stream", "none"}

(* What main's ways out make it release. *)
PcmHas(calls, step) ==
    /\ Ordered(calls)
    /\ Has(calls, "stop") <=> step \in {"recorder", "none"} /\ Playing
    /\ Has(calls, "uninit") <=> step = "start" \/ (step \in {"recorder", "none"} /\ Playing)
    /\ Has(calls, "close") <=> step = "none"
    /\ ~Has(calls, "decoder") /\ ~Has(calls, "encoder")

OpusHas(calls, step) ==
    /\ Ordered(calls)
    /\ Has(calls, "stop") <=> step \in {"stream", "none"} /\ Playing
    /\ Has(calls, "uninit") <=> step = "start" \/ (step \in {"stream", "none"} /\ Playing)
    /\ Has(calls, "close") <=> step \in {"init", "start", "stream", "none"}
    /\ Has(calls, "decoder") <=> step \notin {"encoder", "decoder"}
    /\ Has(calls, "encoder") <=> step # "encoder"

LabHas(calls) ==
    /\ Ordered(calls)
    /\ Has(calls, "stop") <=> Playing
    /\ Has(calls, "uninit") <=> Playing
    /\ ~Has(calls, "decoder") /\ ~Has(calls, "encoder")

(* The PCM program's ways out. *)
LEMMA PcmReleasesHave ==
  ASSUME NEW step \in Steps
  PROVE  PcmHas(PcmReleases(step), step)
<1>1. CASE step = "start"
  <2>1. PcmReleases(step) = <<"uninit">>
    BY <1>1 DEF PcmReleases
  <2>2. PcmHas(<<"uninit">>, step)
    BY <1>1, OneCall DEF PcmHas, Calls
  <2>. QED
    BY <2>1, <2>2
<1>2. CASE step = "recorder" /\ Playing
  <2>1. PcmReleases(step) = <<"stop", "uninit">>
    BY <1>2 DEF PcmReleases
  <2>2. PcmHas(<<"stop", "uninit">>, step)
    BY <1>2, TwoCalls DEF PcmHas, Calls
  <2>. QED
    BY <2>1, <2>2
<1>3. CASE step = "none" /\ Playing
  <2>1. PcmReleases(step) = <<"stop", "uninit", "close">>
    BY <1>3 DEF PcmReleases
  <2>2. PcmHas(<<"stop", "uninit", "close">>, step)
    BY <1>3, ThreeCalls DEF PcmHas, Calls
  <2>. QED
    BY <2>1, <2>2
<1>4. CASE step = "none" /\ ~Playing
  <2>1. PcmReleases(step) = <<"close">>
    BY <1>4 DEF PcmReleases
  <2>2. PcmHas(<<"close">>, step)
    BY <1>4, OneCall DEF PcmHas, Calls
  <2>. QED
    BY <2>1, <2>2
<1>5. CASE step \notin {"start", "none"} /\ ~(step = "recorder" /\ Playing)
  <2>1. PcmReleases(step) = <<>>
    BY <1>5 DEF PcmReleases
  <2>2. PcmHas(<<>>, step)
    BY <1>5, NoCalls DEF PcmHas, Calls
  <2>. QED
    BY <2>1, <2>2
<1>. QED
  BY <1>1, <1>2, <1>3, <1>4, <1>5

(* The Opus program's ways out. *)
LEMMA OpusReleasesHave ==
  ASSUME NEW step \in Steps
  PROVE  OpusHas(OpusReleases(step), step)
<1>1. CASE step = "encoder"
  <2>1. OpusReleases(step) = <<>>
    BY <1>1 DEF OpusReleases
  <2>2. OpusHas(<<>>, step)
    BY <1>1, NoCalls DEF OpusHas, Calls
  <2>. QED
    BY <2>1, <2>2
<1>2. CASE step = "decoder"
  <2>1. OpusReleases(step) = <<"encoder">>
    BY <1>2 DEF OpusReleases
  <2>2. OpusHas(<<"encoder">>, step)
    BY <1>2, OneCall DEF OpusHas, Calls
  <2>. QED
    BY <2>1, <2>2
<1>3. CASE step \in {"receiver", "sender", "recorder"}
  <2>1. OpusReleases(step) = <<"decoder", "encoder">>
    BY <1>3 DEF OpusReleases
  <2>2. OpusHas(<<"decoder", "encoder">>, step)
    BY <1>3, TwoCalls DEF OpusHas, Calls
  <2>. QED
    BY <2>1, <2>2
<1>4. CASE step = "start"
  <2>1. OpusReleases(step) = <<"uninit", "close", "decoder", "encoder">>
    BY <1>4 DEF OpusReleases
  <2>2. OpusHas(<<"uninit", "close", "decoder", "encoder">>, step)
    BY <1>4, FourCalls DEF OpusHas, Calls
  <2>. QED
    BY <2>1, <2>2
<1>5. CASE step = "stream" /\ Playing
  <2>1. OpusReleases(step) = <<"close", "stop", "uninit", "decoder", "encoder">>
    BY <1>5 DEF OpusReleases
  <2>2. OpusHas(<<"close", "stop", "uninit", "decoder", "encoder">>, step)
    BY <1>5, FiveCalls DEF OpusHas, Calls
  <2>. QED
    BY <2>1, <2>2
<1>6. CASE step = "none" /\ Playing
  <2>1. OpusReleases(step) = <<"stop", "uninit", "close", "decoder", "encoder">>
    BY <1>6 DEF OpusReleases
  <2>2. OpusHas(<<"stop", "uninit", "close", "decoder", "encoder">>, step)
    BY <1>6, FiveCalls DEF OpusHas, Calls
  <2>. QED
    BY <2>1, <2>2
<1>7. CASE step = "init" \/ (step \in {"stream", "none"} /\ ~Playing)
  <2>1. OpusReleases(step) = <<"close", "decoder", "encoder">>
    BY <1>7 DEF OpusReleases
  <2>2. OpusHas(<<"close", "decoder", "encoder">>, step)
    BY <1>7, ThreeCalls DEF OpusHas, Calls
  <2>. QED
    BY <2>1, <2>2
<1>. QED
  BY <1>1, <1>2, <1>3, <1>4, <1>5, <1>6, <1>7 DEF Steps, Holdable

(* The Lab's end. *)
LEMMA LabReleasesHave == LabHas(LabReleases)
<1>1. LabHas(<<"stop", "uninit">>) \/ ~Playing
  BY TwoCalls DEF LabHas, Calls
<1>2. LabHas(<<>>) \/ Playing
  BY NoCalls DEF LabHas
<1>. QED
  BY <1>1, <1>2 DEF LabReleases
-----------------------------------------------------------------------------
(* Each step of the setup preserves the invariant: one that is passed over. *)
LEMMA SkipStepKeeps ==
  ASSUME LifecycleInv, SkipStep
  PROVE  LifecycleInv'
<1>1. PICK step \in {"init", "start", "recorder"} :
         /\ Doing(step) /\ ~Wanted(step)
         /\ at' = at + 1
         /\ UNCHANGED <<options, failed, todo, phase, held, playback_device, outcome>>
  BY DEF SkipStep
<1>2. /\ LifecycleTypeOK /\ Ordered(todo) /\ SetupInv /\ RecordingInv /\ CallbackInv
      /\ StepAt(step) /\ phase = "setup"
  BY <1>1, DoingIs DEF LifecycleInv, Doing
<1>3. /\ UNCHANGED <<program, play_audio, record, failed, todo, phase, held, playback_device,
                     callback, playback_state, patched>>
      /\ at' = at + 1 /\ step \in {"init", "start", "recorder"} /\ ~Wanted(step)
  BY <1>1 DEF options, outcome
<1>4. LifecycleTypeOK'
  <2>1. at + 1 \in 1..Len(Order[program])
    BY <1>2, <1>3, LengthIs DEF LifecycleTypeOK, StepAt
  <2>. QED
    BY <1>2, <1>3, <2>1 DEF LifecycleTypeOK
<1>5. Ordered(todo)'
  BY <1>2, <1>3
<1>6. SetupInv'
  BY <1>2, <1>3 DEF SetupInv, LifecycleTypeOK, StepAt, Wanted, Acquired, Holdable, DeviceInSetup,
                    InitAt
<1>7. ReleaseInv' /\ RecordingInv' /\ CallbackInv'
  BY <1>2, <1>3 DEF ReleaseInv, RecordingInv, CallbackInv, DeviceUsed
<1>. QED
  BY <1>4, <1>5, <1>6, <1>7 DEF LifecycleInv

(* A coder, a socket or the recording. *)
LEMMA AcquireKeeps ==
  ASSUME LifecycleInv, Acquire
  PROVE  LifecycleInv'
<1>1. PICK step \in Holdable :
         /\ Doing(step) /\ Wanted(step)
         /\ held' = held \union {step}
         /\ at' = at + 1
         /\ UNCHANGED <<options, failed, todo, phase, playback_device, outcome>>
  BY DEF Acquire
<1>2. /\ LifecycleTypeOK /\ Ordered(todo) /\ SetupInv /\ RecordingInv /\ CallbackInv
      /\ StepAt(step) /\ phase = "setup"
  BY <1>1, DoingIs DEF LifecycleInv, Doing
<1>3. /\ UNCHANGED <<program, play_audio, record, failed, todo, phase, playback_device,
                     callback, playback_state, patched>>
      /\ at' = at + 1 /\ held' = held \union {step} /\ step \in Holdable /\ Wanted(step)
  BY <1>1 DEF options, outcome
<1>4. LifecycleTypeOK'
  <2>1. at + 1 \in 1..Len(Order[program])
    BY <1>2, <1>3, LengthIs DEF LifecycleTypeOK, StepAt, Holdable
  <2>. QED
    BY <1>2, <1>3, <2>1 DEF LifecycleTypeOK, Wanted
<1>5. Ordered(todo)'
  BY <1>2, <1>3
<1>6. SetupInv'
  <2>1. \A other \in Holdable : (other \in held <=> Acquired(other))'
    BY <1>2, <1>3 DEF SetupInv, StepAt, Wanted, Acquired, Holdable
  <2>2. (playback_device = DeviceInSetup)'
    BY <1>2, <1>3 DEF SetupInv, StepAt, DeviceInSetup, InitAt, Holdable
  <2>3. failed = "none" \/ (program = "lab" /\ failed \in {"init", "start"} /\ at + 1 = 3)
    BY <1>2, <1>3 DEF SetupInv, StepAt, Holdable
  <2>. QED
    BY <1>2, <1>3, <2>1, <2>2, <2>3 DEF SetupInv
<1>7. ReleaseInv' /\ RecordingInv' /\ CallbackInv'
  BY <1>2, <1>3 DEF ReleaseInv, RecordingInv, CallbackInv, DeviceUsed
<1>. QED
  BY <1>4, <1>5, <1>6, <1>7 DEF LifecycleInv

(* The device is initialized or started. *)
LEMMA BringUpKeeps ==
  ASSUME LifecycleInv, BringUpDevice
  PROVE  LifecycleInv'
<1>1. PICK step \in {"init", "start"} :
         /\ Doing(step) /\ Wanted(step)
         /\ playback_device' = IF step = "init" THEN "initialized" ELSE "started"
         /\ at' = at + 1
         /\ UNCHANGED <<options, failed, todo, phase, held, outcome>>
  BY DEF BringUpDevice
<1>2. /\ LifecycleTypeOK /\ Ordered(todo) /\ SetupInv /\ RecordingInv /\ CallbackInv
      /\ StepAt(step) /\ phase = "setup"
  BY <1>1, DoingIs DEF LifecycleInv, Doing
<1>3. /\ UNCHANGED <<program, play_audio, record, failed, todo, phase, held, callback,
                     playback_state, patched>>
      /\ at' = at + 1 /\ step \in {"init", "start"} /\ play_audio
      /\ playback_device' = IF step = "init" THEN "initialized" ELSE "started"
  BY <1>1 DEF options, outcome, Wanted
<1>4. LifecycleTypeOK'
  <2>1. at + 1 \in 1..Len(Order[program])
    BY <1>2, <1>3, LengthIs DEF LifecycleTypeOK, StepAt
  <2>. QED
    BY <1>2, <1>3, <2>1 DEF LifecycleTypeOK
<1>5. Ordered(todo)'
  BY <1>2, <1>3
<1>6. SetupInv' /\ ~DeviceUsed
  <2>1. \A other \in Holdable : (other \in held <=> Acquired(other))'
    BY <1>2, <1>3 DEF SetupInv, StepAt, Acquired, Holdable
  <2>2. (playback_device = DeviceInSetup)' /\ ~DeviceUsed
    BY <1>2, <1>3 DEF SetupInv, StepAt, DeviceInSetup, InitAt, DeviceUsed, LifecycleTypeOK
  <2>3. failed = "none" \/ (program = "lab" /\ failed \in {"init", "start"} /\ at + 1 = 3)
    BY <1>2, <1>3 DEF SetupInv, StepAt
  <2>. QED
    BY <1>2, <1>3, <2>1, <2>2, <2>3 DEF SetupInv
<1>7. ReleaseInv' /\ RecordingInv' /\ CallbackInv'
  BY <1>2, <1>3, <1>6 DEF ReleaseInv, RecordingInv, CallbackInv
<1>. QED
  BY <1>4, <1>5, <1>6, <1>7 DEF LifecycleInv

(* On each of its ways out main makes what it still holds to be released. *)
LEMMA WayOutKeeps ==
  ASSUME LifecycleInv, NEW step, Doing(step), Wanted(step), NEW why \in {step, "none"},
         why = "none" => step = "stream", why # "none" => program # "lab",
         Return(why),
         UNCHANGED <<options, at, held, playback_device, outcome>>
  PROVE  LifecycleInv'
<1>1. /\ LifecycleTypeOK /\ SetupInv /\ RecordingInv /\ CallbackInv /\ StepAt(step)
      /\ phase = "setup" /\ Wanted(step) /\ program \in Programs
  BY DoingIs DEF LifecycleInv, Doing, LifecycleTypeOK
<1>2. /\ UNCHANGED <<program, play_audio, record, at, held, playback_device, callback,
                     playback_state, patched>>
      /\ failed' = IF why = "none" THEN failed ELSE why
      /\ phase' = "releasing"
  BY DEF options, outcome, Return
<1>3. why \in Steps
  BY <1>1 DEF StepAt, Steps, Holdable
<1>4. /\ program = "pcm" => PcmHas(todo', why)
      /\ program = "opus" => OpusHas(todo', why)
      /\ program = "lab" => LabHas(todo')
  <2>1. CASE program = "pcm"
    <3>1. todo' = PcmReleases(why)
      BY <2>1 DEF Return, Releases
    <3>. QED
      BY <1>3, <2>1, <3>1, PcmReleasesHave
  <2>2. CASE program = "opus"
    <3>1. todo' = OpusReleases(why)
      BY <2>2 DEF Return, Releases
    <3>. QED
      BY <1>3, <2>2, <3>1, OpusReleasesHave
  <2>3. CASE program = "lab"
    <3>1. todo' = LabReleases
      BY <2>3 DEF Return, Releases
    <3>. QED
      BY <2>3, <3>1, LabReleasesHave
  <2>. QED
    BY <1>1, <2>1, <2>2, <2>3 DEF Programs
<1>5. LifecycleTypeOK' /\ Ordered(todo)'
  BY <1>1, <1>2, <1>4 DEF LifecycleTypeOK, Programs, PcmHas, OpusHas, LabHas
<1>6. playback_device = DeviceInSetup /\ \A other \in Holdable : other \in held <=> Acquired(other)
  BY <1>1 DEF SetupInv
<1>7. ReleaseInv'
  <2>1. CASE program = "pcm"
    BY <1>1, <1>2, <1>4, <1>6, <2>1
       DEF ReleaseInv, DeviceUsed, PcmStreamFailed, PcmHas, StepAt, DeviceInSetup, InitAt,
           Acquired, Holdable, Playing, Wanted, SetupInv
  <2>2. CASE program = "opus"
    BY <1>1, <1>2, <1>4, <1>6, <2>2
       DEF ReleaseInv, DeviceUsed, PcmStreamFailed, OpusHas, StepAt, DeviceInSetup, InitAt,
           Acquired, Holdable, Playing, Wanted, SetupInv
  <2>3. CASE program = "lab"
    BY <1>1, <1>2, <1>4, <1>6, <2>3
       DEF ReleaseInv, DeviceUsed, PcmStreamFailed, LabHas, StepAt, DeviceInSetup, InitAt,
           Acquired, Holdable, Playing, Wanted, SetupInv
  <2>. QED
    BY <1>1, <2>1, <2>2, <2>3 DEF Programs
<1>8. RecordingInv' /\ CallbackInv'
  <2>1. CallbackInv'
    BY <1>1, <1>2 DEF CallbackInv, DeviceUsed
  <2>2. CASE program = "pcm"
    BY <1>1, <1>2, <1>4, <1>6, <2>1, <2>2
       DEF RecordingInv, PcmStreamFailed, PcmHas, StepAt, Acquired, Holdable, SetupInv
  <2>3. CASE program = "opus"
    BY <1>1, <1>2, <1>4, <1>6, <2>1, <2>3
       DEF RecordingInv, OpusHas, StepAt, Acquired, Holdable, SetupInv
  <2>4. CASE program = "lab"
    BY <1>1, <1>2, <1>4, <1>6, <2>1, <2>4 DEF RecordingInv
  <2>. QED
    BY <1>1, <2>1, <2>2, <2>3, <2>4 DEF Programs
<1>. QED
  BY <1>5, <1>7, <1>8, <1>2 DEF LifecycleInv, SetupInv

(* The stream ends. *)
LEMMA EndStreamKeeps ==
  ASSUME LifecycleInv, EndStream
  PROVE  LifecycleInv'
<1>1. /\ Doing("stream") /\ Return("none") /\ Wanted("stream")
      /\ UNCHANGED <<options, at, held, playback_device, outcome>>
  BY DEF EndStream, Wanted
<1>. QED
  BY <1>1, WayOutKeeps

(* A step fails: the Lab goes on, the others take their way out. *)
LEMMA FailKeeps ==
  ASSUME LifecycleInv, Fail
  PROVE  LifecycleInv'
<1>1. PICK step \in Holdable \union {"init", "start", "stream"} :
         /\ Doing(step) /\ Wanted(step)
         /\ IF program = "lab"
            THEN /\ step # "stream"
                 /\ at' = Len(Order[program]) /\ failed' = step /\ UNCHANGED <<phase, todo>>
            ELSE Return(step) /\ UNCHANGED at
  BY DEF Fail
<1>2. UNCHANGED <<options, held, playback_device, outcome>>
  BY DEF Fail
<1>3. CASE program # "lab"
  <2>1. /\ Doing(step) /\ Wanted(step) /\ Return(step) /\ step # "none"
        /\ UNCHANGED <<options, at, held, playback_device, outcome>>
    BY <1>1, <1>2, <1>3 DEF Holdable
  <2>. QED
    BY <1>3, <2>1, WayOutKeeps
<1>4. CASE program = "lab"
  <2>1. /\ LifecycleTypeOK /\ Ordered(todo) /\ SetupInv /\ RecordingInv /\ CallbackInv
        /\ StepAt(step) /\ phase = "setup"
    BY <1>1, DoingIs DEF LifecycleInv, Doing
  <2>2. /\ UNCHANGED <<program, play_audio, record, todo, phase, held, playback_device,
                       callback, playback_state, patched>>
        /\ at' = 3 /\ failed' = step /\ step \in {"init", "start"} /\ 3 \in 1..Len(Order[program])
        /\ play_audio
    BY <1>1, <1>2, <1>4, <2>1, Lengths DEF options, outcome, StepAt, Wanted
  <2>3. LifecycleTypeOK' /\ Ordered(todo)'
    BY <2>1, <2>2 DEF LifecycleTypeOK
  <2>4. SetupInv'
    BY <1>4, <2>1, <2>2
       DEF SetupInv, StepAt, Acquired, Holdable, DeviceInSetup, InitAt
  <2>5. ReleaseInv' /\ RecordingInv' /\ CallbackInv'
    BY <2>1, <2>2 DEF ReleaseInv, RecordingInv, CallbackInv, DeviceUsed
  <2>. QED
    BY <2>3, <2>4, <2>5 DEF LifecycleInv
<1>. QED
  BY <1>3, <1>4

(* Each release preserves the invariant. *)
LEMMA DueIs ==
  ASSUME LifecycleInv, NEW call, Due(call), todo' = Tail(todo),
         UNCHANGED <<options, at, failed, phase>>
  PROVE  /\ Ordered(todo') /\ phase = "releasing"
         /\ UNCHANGED <<program, play_audio, record, at, failed, phase>>
         /\ call \in Calls /\ Has(todo, call) /\ ~Has(todo', call)
         /\ \A other : other # call => (Has(todo', other) <=> Has(todo, other))
         /\ call = "uninit" => ~Has(todo, "stop")
         /\ LifecycleTypeOK /\ ReleaseInv /\ RecordingInv /\ CallbackInv
<1>1. Ordered(todo) /\ todo # <<>> /\ Head(todo) = call /\ phase = "releasing"
  BY DEF LifecycleInv, Due
<1>. QED
  BY <1>1, RestOrdered DEF LifecycleInv, options

(* The device is told to stop, or has stopped. *)
LEMMA DeviceStopKeeps ==
  ASSUME LifecycleInv, DeviceStop
  PROVE  LifecycleInv'
<1>1. /\ Due("stop") /\ UNCHANGED <<options, at, failed, phase>>
      /\ UNCHANGED <<held, callback, playback_state, patched>>
  BY DEF DeviceStop, outcome
<1>2. CASE playback_device = "started" /\ playback_device' = "stopping" /\ UNCHANGED todo
  BY <1>1, <1>2 DEF LifecycleInv, LifecycleTypeOK, SetupInv, ReleaseInv, RecordingInv, CallbackInv,
                    DeviceUsed, Due, options, PcmStreamFailed
<1>3. CASE /\ playback_device = "stopping" /\ ~callback
           /\ playback_device' = "initialized" /\ todo' = Tail(todo)
  <2>1. LifecycleTypeOK' /\ Ordered(todo)' /\ SetupInv'
    BY <1>1, <1>3, DueIs DEF LifecycleTypeOK, SetupInv
  <2>2. ReleaseInv' /\ RecordingInv' /\ CallbackInv'
    BY <1>1, <1>3, DueIs DEF ReleaseInv, RecordingInv, CallbackInv, DeviceUsed, PcmStreamFailed
  <2>. QED
    BY <2>1, <2>2 DEF LifecycleInv
<1>. QED
  BY <1>2, <1>3 DEF DeviceStop

(* The device is given back: nothing is playing then. *)
LEMMA DeviceUninitKeeps ==
  ASSUME LifecycleInv, DeviceUninit
  PROVE  LifecycleInv'
<1>1. /\ Due("uninit") /\ UNCHANGED <<options, at, failed, phase>> /\ todo' = Tail(todo)
      /\ UNCHANGED <<held, callback, playback_state, patched>> /\ playback_device' = "none"
  BY DEF DeviceUninit, outcome
<1>2. LifecycleTypeOK' /\ Ordered(todo)' /\ SetupInv'
  BY <1>1, DueIs DEF LifecycleTypeOK, SetupInv
<1>3. ReleaseInv' /\ RecordingInv'
  BY <1>1, DueIs DEF ReleaseInv, RecordingInv, DeviceUsed, PcmStreamFailed
<1>4. ~DeviceUsed
  BY <1>1, DueIs DEF ReleaseInv
<1>. QED
  BY <1>1, <1>2, <1>3, <1>4, DueIs DEF LifecycleInv, CallbackInv

(* The recording is closed. *)
LEMMA CloseRecorderKeeps ==
  ASSUME LifecycleInv, CloseRecorder
  PROVE  LifecycleInv'
<1>1. /\ Due("close") /\ UNCHANGED <<options, at, failed, phase>> /\ todo' = Tail(todo)
      /\ UNCHANGED <<playback_device, callback, playback_state>>
      /\ held' = held \ {"recorder"} /\ patched' = (patched \/ "recorder" \in held)
  BY DEF CloseRecorder
<1>2. LifecycleTypeOK' /\ Ordered(todo)' /\ SetupInv'
  BY <1>1, DueIs DEF LifecycleTypeOK, SetupInv
<1>3. ReleaseInv' /\ RecordingInv' /\ CallbackInv'
  BY <1>1, DueIs DEF ReleaseInv, RecordingInv, CallbackInv, DeviceUsed, PcmStreamFailed
<1>. QED
  BY <1>2, <1>3 DEF LifecycleInv

(* A coder is destroyed. *)
LEMMA DestroyCodecKeeps ==
  ASSUME LifecycleInv, DestroyCodec
  PROVE  LifecycleInv'
<1>1. PICK codec \in {"encoder", "decoder"} :
         /\ Due(codec) /\ UNCHANGED <<options, at, failed, phase>> /\ todo' = Tail(todo)
         /\ UNCHANGED <<playback_device, callback, playback_state, patched>>
         /\ held' = held \ {codec}
  BY DEF DestroyCodec, outcome
<1>2. LifecycleTypeOK' /\ Ordered(todo)' /\ SetupInv'
  BY <1>1, DueIs DEF LifecycleTypeOK, SetupInv
<1>3. ReleaseInv' /\ RecordingInv' /\ CallbackInv'
  BY <1>1, DueIs DEF ReleaseInv, RecordingInv, CallbackInv, DeviceUsed, PcmStreamFailed
<1>. QED
  BY <1>2, <1>3 DEF LifecycleInv

(* main returns. *)
LEMMA LeaveScopeKeeps ==
  ASSUME LifecycleInv, LeaveScope
  PROVE  LifecycleInv'
<1>1. /\ phase = "releasing" /\ todo = <<>> /\ phase' = "returned" /\ playback_state' = FALSE
      /\ held' = held \ {"receiver", "sender", "recorder"}
      /\ UNCHANGED <<program, play_audio, record, at, failed, todo, playback_device, callback,
                     patched>>
  BY DEF LeaveScope, options
<1>2. /\ LifecycleTypeOK /\ Ordered(todo) /\ ReleaseInv /\ RecordingInv /\ CallbackInv
      /\ \A call : ~Has(todo, call)
  BY <1>1, NoCalls DEF LifecycleInv
<1>3. LifecycleTypeOK' /\ Ordered(todo)' /\ SetupInv'
  BY <1>1, <1>2 DEF LifecycleTypeOK, SetupInv
<1>4. ReleaseInv' /\ RecordingInv' /\ CallbackInv'
  BY <1>1, <1>2
     DEF ReleaseInv, RecordingInv, CallbackInv, DeviceUsed, PcmStreamFailed, LifecycleTypeOK,
         Holdable
<1>. QED
  BY <1>3, <1>4 DEF LifecycleInv

(* So does the device's thread. *)
LEMMA PlaybackCallbackKeeps ==
  ASSUME LifecycleInv, PlaybackBegins \/ PlaybackEnds
  PROVE  LifecycleInv'
<1>1. /\ UNCHANGED <<program, play_audio, record, at, failed, todo, phase, held, playback_device,
                     playback_state, patched>>
      /\ callback' \in BOOLEAN /\ (callback' => playback_device = "started")
  BY DEF PlaybackBegins, PlaybackEnds, progress, options
<1>2. LifecycleTypeOK' /\ Ordered(todo)'
  BY <1>1 DEF LifecycleInv, LifecycleTypeOK
<1>3. SetupInv' /\ ReleaseInv'
  BY <1>1 DEF LifecycleInv, SetupInv, Acquired, DeviceInSetup, InitAt, ReleaseInv, DeviceUsed,
              PcmStreamFailed
<1>4. RecordingInv' /\ CallbackInv'
  BY <1>1 DEF LifecycleInv, RecordingInv, PcmStreamFailed, CallbackInv, DeviceUsed
<1>. QED
  BY <1>2, <1>3, <1>4 DEF LifecycleInv

(* Nothing changes. *)
LEMMA LifecycleStutters ==
  ASSUME LifecycleInv, UNCHANGED lifecycleVars
  PROVE  LifecycleInv'
<1>1. UNCHANGED <<program, play_audio, record, at, failed, todo, phase, held, playback_device,
                  callback, playback_state, patched>>
  BY DEF lifecycleVars, progress, options, outcome
<1>. QED
  BY <1>1 DEF LifecycleInv, LifecycleTypeOK, SetupInv, Acquired, DeviceInSetup, InitAt, ReleaseInv,
              DeviceUsed, PcmStreamFailed, RecordingInv, CallbackInv

(* The invariant is kept by every step of main and of the device's thread. *)
THEOREM LifecycleInvariant == LifecycleSpec => []LifecycleInv
<1>1. LifecycleInit => LifecycleInv
  BY LifecycleBegins
<1>2. LifecycleInv /\ [LifecycleNext]_lifecycleVars => LifecycleInv'
  <2> SUFFICES ASSUME LifecycleInv, [LifecycleNext]_lifecycleVars
               PROVE  LifecycleInv'
    OBVIOUS
  <2>1. CASE MainThread
    BY <2>1, SkipStepKeeps, AcquireKeeps, BringUpKeeps, EndStreamKeeps, FailKeeps,
       DeviceStopKeeps, DeviceUninitKeeps, CloseRecorderKeeps, DestroyCodecKeeps, LeaveScopeKeeps
       DEF MainThread
  <2>2. CASE PlaybackBegins \/ PlaybackEnds
    BY <2>2, PlaybackCallbackKeeps
  <2>3. CASE Returned \/ UNCHANGED lifecycleVars
    BY <2>3, LifecycleStutters DEF Returned
  <2>. QED
    BY <2>1, <2>2, <2>3 DEF LifecycleNext
<1>. QED
  BY <1>1, <1>2, PTL DEF LifecycleSpec

(* CallbackStateAlive for every program, option and failing call: no        *)
(* callback runs on a playback_state that is gone, except after a failed   *)
(* PCM stream.                                                             *)
THEOREM CallbackNeverOutlives == LifecycleSpec => []CallbackStateAlive
<1>1. LifecycleInv => CallbackStateAlive
  BY NoCalls DEF LifecycleInv, CallbackInv, ReleaseInv, CallbackStateAlive
<1>. QED
  BY <1>1, LifecycleInvariant, PTL

(* ReleasedInOrder: on every way out everything is released once and in     *)
(* order, and every recording gets its header, with the named exceptions.  *)
THEOREM EveryWayOutReleases == LifecycleSpec => []ReleasedInOrder
<1>1. LifecycleInv => ReleasedInOrder
  <2> SUFFICES ASSUME LifecycleInv
               PROVE  ReleasedInOrder
    OBVIOUS
  <2> USE DEF LifecycleInv
  <2>1. EverythingReleased
    BY NoCalls DEF EverythingReleased, CallbackInv, ReleaseInv
  <2>2. ASSUME NEW call, Due(call)
        PROVE  Has(todo, call) /\ phase = "releasing" /\ (call = "uninit" => ~Has(todo, "stop"))
    BY <2>2, RestOrdered DEF Due
  <2>3. ReleasedOnce
    BY <2>2 DEF ReleasedOnce, ReleaseInv, CallbackInv, DeviceUsed, LifecycleTypeOK
  <2>4. RecordingPatched
    BY NoCalls DEF RecordingPatched, RecordingInv, CallbackInv, Holdable
  <2>. QED
    BY <2>1, <2>3, <2>4 DEF ReleasedInOrder
<1>. QED
  BY <1>1, LifecycleInvariant, PTL

(* How much main has still to do: a bound on its steps. *)
WorkLeft ==
    IF phase = "setup" THEN 30 - at
    ELSE IF phase = "releasing" THEN 1 + 2 * Len(todo) + (IF Playing THEN 1 ELSE 0)
    ELSE 0

(* Each step of the setup takes main nearer to its return. *)
LEMMA SetupAdvances ==
  ASSUME LifecycleInv, SkipStep \/ Acquire \/ BringUpDevice \/ EndStream \/ Fail
  PROVE  WorkLeft' < WorkLeft
<1>1. phase = "setup" /\ at \in 1..8 /\ LifecycleTypeOK
  BY LengthIs DEF LifecycleInv, LifecycleTypeOK, SkipStep, Acquire, BringUpDevice, EndStream, Fail,
                  Doing
<1>2. LifecycleInv'
  BY SkipStepKeeps, AcquireKeeps, BringUpKeeps, EndStreamKeeps, FailKeeps
<1>3. CASE phase' = "setup" /\ at' \in Int /\ at' > at
  <2> DEFINE next == at'
  <2>1. WorkLeft' = 30 - next /\ WorkLeft = 30 - at
    BY <1>1, <1>3 DEF WorkLeft
  <2>2. next \in Int /\ next > at /\ at \in Int
    BY <1>1, <1>3
  <2> HIDE DEF next
  <2>. QED
    BY <2>1, <2>2
<1>4. CASE phase' = "releasing"
  <2>1. Len(todo') \in Nat /\ Len(todo') <= 5
    BY <1>2 DEF LifecycleInv, Ordered
  <2>. QED
    BY <1>1, <1>4, <2>1 DEF WorkLeft
<1>5. phase' = "releasing" \/ (phase' = "setup" /\ at' \in Int /\ at' > at)
  <2>1. CASE SkipStep \/ Acquire \/ BringUpDevice
    BY <1>1, <2>1 DEF SkipStep, Acquire, BringUpDevice
  <2>2. CASE EndStream
    BY <2>2 DEF EndStream, Return
  <2>3. CASE Fail /\ program # "lab"
    BY <2>3 DEF Fail, Return
  <2>4. CASE Fail /\ program = "lab"
    <3>1. PICK step : Doing(step) /\ step # "stream" /\ at' = Len(Order[program]) /\ phase' = phase
      BY <2>4 DEF Fail
    <3>2. StepAt(step)
      BY <1>1, <3>1, DoingIs
    <3>. QED
      BY <1>1, <2>4, <3>1, <3>2, Lengths DEF StepAt
  <2>. QED
    BY <2>1, <2>2, <2>3, <2>4
<1>. QED
  BY <1>3, <1>4, <1>5

(* So does each release. *)
LEMMA ReleaseAdvances ==
  ASSUME LifecycleInv,
         DeviceStop \/ DeviceUninit \/ CloseRecorder \/ DestroyCodec \/ LeaveScope
  PROVE  WorkLeft' < WorkLeft
<1>1. phase = "releasing" /\ todo \in Seq(Calls)
  BY DEF LifecycleInv, Ordered, DeviceStop, DeviceUninit, CloseRecorder, DestroyCodec, LeaveScope,
         Due
<1>2. CASE LeaveScope
  BY <1>1, <1>2 DEF LeaveScope, WorkLeft
<1>3. CASE phase' = phase /\ todo' = todo /\ Playing /\ ~Playing'
  BY <1>1, <1>3 DEF WorkLeft
<1>4. CASE phase' = phase /\ todo # <<>> /\ todo' = Tail(todo) /\ (Playing' => Playing)
  <2>1. Len(todo) \in Nat \ {0} /\ Len(todo') = Len(todo) - 1
    BY <1>1, <1>4
  <2>. QED
    BY <1>1, <1>4, <2>1 DEF WorkLeft
<1>5. \/ LeaveScope
      \/ phase' = phase /\ todo' = todo /\ Playing /\ ~Playing'
      \/ phase' = phase /\ todo # <<>> /\ todo' = Tail(todo) /\ (Playing' => Playing)
  BY DEF DeviceStop, DeviceUninit, CloseRecorder, DestroyCodec, Due, Playing
<1>. QED
  BY <1>2, <1>3, <1>4, <1>5

(* Main makes at most 30 steps, whatever fails and whenever callbacks run:  *)
(* each takes it nearer to its return, and no callback sets it back.       *)
MainAdvances ==
    [][\/ MainThread /\ WorkLeft' < WorkLeft
       \/ (PlaybackBegins \/ PlaybackEnds \/ Returned) /\ WorkLeft' = WorkLeft]_lifecycleVars

THEOREM MainNeverCircles == LifecycleSpec => [](WorkLeft \in 0..30) /\ MainAdvances
<1>1. LifecycleInv => WorkLeft \in 0..30
  <2> SUFFICES ASSUME LifecycleInv
               PROVE  WorkLeft \in 0..30
    OBVIOUS
  <2>1. at \in 1..8
    BY LengthIs DEF LifecycleInv, LifecycleTypeOK
  <2>2. Len(todo) \in Nat /\ Len(todo) <= 5
    BY DEF LifecycleInv, Ordered
  <2>3. CASE phase = "setup"
    BY <2>1, <2>3 DEF WorkLeft
  <2>4. CASE phase = "releasing"
    <3> DEFINE count == Len(todo)
    <3>1. WorkLeft = 1 + 2 * count + 1 \/ WorkLeft = 1 + 2 * count + 0
      BY <2>4 DEF WorkLeft
    <3> HIDE DEF count
    <3>2. count \in Nat /\ count <= 5
      BY <2>2 DEF count
    <3>. QED
      BY <3>1, <3>2
  <2>5. CASE phase \notin {"setup", "releasing"}
    BY <2>5 DEF WorkLeft
  <2>. QED
    BY <2>3, <2>4, <2>5
<1>2. LifecycleInv /\ [LifecycleNext]_lifecycleVars
        => [\/ MainThread /\ WorkLeft' < WorkLeft
            \/ (PlaybackBegins \/ PlaybackEnds \/ Returned) /\ WorkLeft' = WorkLeft]_lifecycleVars
  <2> SUFFICES ASSUME LifecycleInv, LifecycleNext
               PROVE  \/ MainThread /\ WorkLeft' < WorkLeft
                      \/ (PlaybackBegins \/ PlaybackEnds \/ Returned) /\ WorkLeft' = WorkLeft
    OBVIOUS
  <2>1. CASE MainThread
    BY <2>1, SetupAdvances, ReleaseAdvances DEF MainThread
  <2>2. CASE PlaybackBegins \/ PlaybackEnds \/ Returned
    <3>1. UNCHANGED <<at, phase, todo, playback_device>>
      BY <2>2 DEF PlaybackBegins, PlaybackEnds, Returned, lifecycleVars, progress
    <3>. QED
      BY <2>2, <3>1 DEF WorkLeft, Playing
  <2>. QED
    BY <2>1, <2>2 DEF LifecycleNext
<1>. QED
  BY <1>1, <1>2, LifecycleInvariant, PTL DEF LifecycleSpec, MainAdvances

=============================================================================
