------------------------- MODULE OpusPlayoutSimProofs -------------------------
(* Proofs about the Lab's offline simulation, for every setting: what is    *)
(* said of the losses is what was drawn, and playout uses the best copy in *)
(* time.                                                                   *)
EXTENDS OpusPlayoutSim, FiniteSetTheorems, TLAPS

Length(run) == run[2] - run[1] + 1

(* What the loops of main have done at each phase.  A failed run stops      *)
(* before the schedule or after it.                                        *)
Progress ==
    /\ phase \in {"encoding", "losing"} => statuses = <<>>
    /\ phase = "encoding" => i = 0
    /\ phase \in {"playing", "done"} => i = FrameCount
    /\ phase = "failed" => i = 0 \/ i = FrameCount

(* Only frames the schedule has passed are dropped; when the last of them   *)
(* is, it ends a run; and one of the runs is the longest.                  *)
Passed ==
    /\ dropped \subseteq 0..(i - 1)
    /\ IsFiniteSet(Runs)
    /\ i - 1 \in dropped => \E run \in Runs : run[2] = i - 1
    /\ Runs = {} \/ \E run \in Runs : \A other \in Runs : Length(other) <= Length(run)

(* The independent schedule counts the run it is in, and has counted every  *)
(* run once and the longest at its length.                                 *)
IndependentLosses ==
    settings.loss_model = "independent" =>
        /\ current_burst_length = 0 => i - 1 \notin dropped
        /\ current_burst_length > 0 => <<i - current_burst_length, i - 1>> \in Runs
        /\ loss_bursts = Cardinality(Runs)
        /\ max_loss_burst_frames = 0 \/ \E run \in Runs : Length(run) = max_loss_burst_frames
        /\ \A run \in Runs : Length(run) <= max_loss_burst_frames

(* The burst schedule has counted every run, some of them in parts; no part *)
(* is longer than a burst may be or than the longest run.                  *)
BurstLosses ==
    settings.loss_model = "burst" =>
        /\ loss_bursts >= Cardinality(Runs)
        /\ max_loss_burst_frames <= MaxBurst
        /\ max_loss_burst_frames = 0 \/ \E run \in Runs : Length(run) >= max_loss_burst_frames
        /\ \A run \in Runs : Length(run) >= MinBurst \/ run[2] = FrameCount - 1

(* Bursts of the least length have room in what was dropped, but for one    *)
(* that the end of the stream has cut.                                     *)
RoomForBursts ==
    \/ MinBurst * loss_bursts <= Cardinality(dropped)
    \/ i = FrameCount /\ MinBurst * (loss_bursts - 1) < Cardinality(dropped)

(* Every burst drawn began before i, and what the result says is said of    *)
(* them.                                                                   *)
DrawnLosses ==
    settings.loss_model = "burst" =>
        /\ IsFiniteSet(drawn) /\ loss_bursts = Cardinality(drawn)
        /\ \A burst \in drawn :
              burst[1] < i /\ Lost(burst) \in Nat /\ Lost(burst) <= max_loss_burst_frames
        /\ max_loss_burst_frames = 0
           \/ \E burst \in drawn : Lost(burst) = max_loss_burst_frames
        /\ dropped = UNION {Stretch(burst) : burst \in drawn}
        /\ RoomForBursts

InductiveInvariant ==
    /\ PlayoutIsBest /\ Progress /\ Passed
    /\ IndependentLosses /\ BurstLosses /\ DrawnLosses
-----------------------------------------------------------------------------
(* The greater and the lesser of two numbers. *)
LEMMA MaxIs ==
  ASSUME NEW S \in SUBSET Int, NEW m \in S, \A y \in S : m >= y
  PROVE  Max(S) = m
<1>1. \A x \in S : (\A y \in S : x >= y) => x = m
  OBVIOUS
<1> QED BY <1>1 DEF Max

LEMMA MaxOfTwo ==
  ASSUME NEW a \in Int, NEW b \in Int
  PROVE  Max({a, b}) = IF a >= b THEN a ELSE b
<1> DEFINE m == IF a >= b THEN a ELSE b
<1>1. {a, b} \in SUBSET Int /\ m \in {a, b} /\ \A y \in {a, b} : m >= y
  OBVIOUS
<1> HIDE DEF m
<1>2. Max({a, b}) = m
  BY <1>1, MaxIs
<1> QED BY <1>2 DEF m

LEMMA MinOfTwo ==
  ASSUME NEW a \in Int, NEW b \in Int
  PROVE  Min({a, b}) = IF a <= b THEN a ELSE b
<1> DEFINE m == IF a <= b THEN a ELSE b
<1>1. m \in {a, b} /\ \A y \in {a, b} : m <= y
  OBVIOUS
<1>2. \A x \in {a, b} : (\A y \in {a, b} : x <= y) => x = m
  OBVIOUS
<1> HIDE DEF m
<1>3. Min({a, b}) = m
  BY <1>1, <1>2 DEF Min
<1> QED BY <1>3 DEF m

LEMMA ClampInside ==
  ASSUME NEW value \in Int, NEW low \in Int, NEW high \in Int, low <= high
  PROVE  Clamp(value, low, high) \in low..high
<1>1. Min({value, high}) = IF value <= high THEN value ELSE high
  BY MinOfTwo
<1>2. Min({value, high}) \in Int /\ Min({value, high}) <= high
  BY <1>1
<1>3. Max({low, Min({value, high})}) = IF low >= Min({value, high}) THEN low
                                       ELSE Min({value, high})
  BY <1>2, MaxOfTwo
<1> QED BY <1>2, <1>3 DEF Clamp

LEMMA SettingFacts ==
  ASSUME settings \in Settings
  PROVE  /\ FrameCount \in Nat /\ FrameCount >= 1
         /\ MinBurst \in 1..FrameCount /\ MaxBurst \in MinBurst..FrameCount
         /\ EffectiveRedundancyFrames \in 0..3
         /\ settings.jitter_ms \in Nat /\ settings.jitter_depth_frames \in Nat
         /\ settings.loss_model \in {"independent", "burst"}
         /\ kFrameDurationMs \in Nat
<1>1. /\ FrameCount \in Nat /\ FrameCount >= 1
      /\ settings.burst_min_frames \in Nat /\ settings.burst_max_frames \in Nat
      /\ settings.redundancy_frames \in Nat
      /\ settings.jitter_ms \in Nat /\ settings.jitter_depth_frames \in Nat
      /\ settings.loss_model \in {"independent", "burst"}
      /\ kFrameDurationMs \in Nat
  BY SettingsAssumption DEF FrameCount
<1>2. MinBurst \in 1..FrameCount
  <2>1. settings.burst_min_frames \in Int /\ 1 \in Int /\ FrameCount \in Int /\ 1 <= FrameCount
    BY <1>1
  <2> QED BY <2>1, ClampInside, Zenon DEF MinBurst
<1>3. MaxBurst \in MinBurst..FrameCount
  <2>1. /\ settings.burst_max_frames \in Int /\ MinBurst \in Int /\ FrameCount \in Int
        /\ MinBurst <= FrameCount
    BY <1>1, <1>2
  <2> QED BY <2>1, ClampInside, Zenon DEF MaxBurst
<1>4. EffectiveRedundancyFrames \in 0..3
  <2>1. settings.redundancy_frames \in Int /\ 0 \in Int /\ 3 \in Int /\ 0 <= 3
    BY <1>1
  <2> QED BY <2>1, ClampInside, Zenon DEF EffectiveRedundancyFrames, kMaxOpusRedundancyFrames
<1> QED BY <1>1, <1>2, <1>3, <1>4
-----------------------------------------------------------------------------
(* Runs of a set of numbers, apart from the state. *)
IsRun(D, a, b) == a <= b /\ a..b \subseteq D /\ a - 1 \notin D /\ b + 1 \notin D
RunsOf(D, n) == {run \in (0..(n - 1)) \X (0..(n - 1)) : IsRun(D, run[1], run[2])}

LEMMA RunsAre == Runs = RunsOf(dropped, FrameCount)
  BY DEF Runs, RunsOf, IsRun, Frames

LEMMA RunsAreNext == Runs' = RunsOf(dropped', FrameCount')
  BY DEF Runs, RunsOf, IsRun, Frames

LEMMA RunMember ==
  ASSUME NEW n \in Nat, NEW D, NEW a, NEW b
  PROVE  <<a, b>> \in RunsOf(D, n) <=> a \in 0..(n - 1) /\ b \in 0..(n - 1) /\ IsRun(D, a, b)
  BY DEF RunsOf

LEMMA RunIsPair ==
  ASSUME NEW n \in Nat, NEW D, NEW run \in RunsOf(D, n)
  PROVE  /\ run = <<run[1], run[2]>>
         /\ run[1] \in 0..(n - 1) /\ run[2] \in 0..(n - 1)
         /\ IsRun(D, run[1], run[2])
  BY DEF RunsOf

(* A stretch from k on begins a run of its own, if k - 1 is not dropped.    *)
LEMMA RunBegins ==
  ASSUME NEW k \in Nat, NEW count \in Nat, count >= 1, NEW D \in SUBSET (0..(k - 1)),
         k - 1 \notin D, NEW a \in Nat, NEW b \in Nat
  PROVE  IsRun(D \union k..(k + count - 1), a, b) <=>
            IsRun(D, a, b) \/ (a = k /\ b = k + count - 1)
<1> DEFINE G == D \union k..(k + count - 1)
<1>1. \A x \in Int : x \in G <=> x \in D \/ (k <= x /\ x <= k + count - 1)
  OBVIOUS
<1>2. \A x \in Int : x \in D => x < k /\ x # k - 1
  OBVIOUS
<1> HIDE DEF G
<1>3. ASSUME IsRun(D, a, b) PROVE IsRun(G, a, b)
  <2>1. a <= b /\ a \in D /\ b \in D /\ a..b \subseteq D /\ a - 1 \notin D /\ b + 1 \notin D
    BY <1>3 DEF IsRun
  <2>2. a..b \subseteq G
    BY <1>1, <2>1
  <2>3. a - 1 \notin G /\ b + 1 \notin G
    BY <1>1, <1>2, <2>1
  <2> QED BY <2>1, <2>2, <2>3 DEF IsRun
<1>4. ASSUME a = k, b = k + count - 1 PROVE IsRun(G, a, b)
  <2>1. a..b \subseteq G
    BY <1>1, <1>4
  <2>2. a - 1 \notin G /\ b + 1 \notin G
    BY <1>1, <1>2, <1>4
  <2> QED BY <1>4, <2>1, <2>2 DEF IsRun
<1>5. ASSUME IsRun(G, a, b) PROVE IsRun(D, a, b) \/ (a = k /\ b = k + count - 1)
  <2>1. /\ a <= b /\ a \in G /\ b \in G /\ a - 1 \notin G /\ b + 1 \notin G
        /\ \A x \in Int : a <= x /\ x <= b => x \in G
    BY <1>5 DEF IsRun
  <2>2. CASE a >= k
    BY <1>1, <1>2, <2>1, <2>2
  <2>3. CASE a < k
    <3>1. k - 1 \notin G
      BY <1>1, <1>2
    <3>2. b < k
      BY <2>1, <2>3, <3>1
    <3>3. \A x \in Int : a <= x /\ x <= b => x \in D
      BY <1>1, <2>1, <3>2
    <3>4. a - 1 \notin D /\ b + 1 \notin D
      BY <1>1, <2>1
    <3> QED BY <2>1, <3>3, <3>4 DEF IsRun
  <2> QED BY <2>2, <2>3
<1> QED BY <1>3, <1>4, <1>5 DEF G

(* Otherwise it prolongs the run that ends at k - 1. *)
GoesOn(D, k, count, first) ==
    \A a, b \in Nat :
       IsRun(D \union k..(k + count - 1), a, b) <=>
          \/ IsRun(D, a, b) /\ ~(a = first /\ b = k - 1)
          \/ a = first /\ b = k + count - 1

LEMMA RunGoesOn ==
  ASSUME NEW k \in Nat, NEW count \in Nat, count >= 1, NEW D \in SUBSET (0..(k - 1)),
         NEW first \in Nat, IsRun(D, first, k - 1)
  PROVE  GoesOn(D, k, count, first)
<1> SUFFICES ASSUME NEW a \in Nat, NEW b \in Nat
             PROVE  IsRun(D \union k..(k + count - 1), a, b) <=>
                       \/ IsRun(D, a, b) /\ ~(a = first /\ b = k - 1)
                       \/ a = first /\ b = k + count - 1
  BY DEF GoesOn
<1> DEFINE G == D \union k..(k + count - 1)
<1>1. \A x \in Int : x \in G <=> x \in D \/ (k <= x /\ x <= k + count - 1)
  OBVIOUS
<1>2. \A x \in Int : x \in D => x < k
  OBVIOUS
<1>3. /\ first <= k - 1 /\ first - 1 \notin D
      /\ \A x \in Int : first <= x /\ x <= k - 1 => x \in D
  BY DEF IsRun
<1> HIDE DEF G
<1>4. ASSUME IsRun(D, a, b), ~(a = first /\ b = k - 1) PROVE IsRun(G, a, b)
  <2>1. /\ a <= b /\ a \in D /\ b \in D /\ a - 1 \notin D /\ b + 1 \notin D
        /\ \A x \in Int : a <= x /\ x <= b => x \in D
    BY <1>4 DEF IsRun
  <2>2. b # k - 1
    <3>1. SUFFICES ASSUME b = k - 1 PROVE FALSE
      OBVIOUS
    <3>2. a < first \/ first < a
      BY <1>4, <3>1
    <3>3. a < first => first - 1 \in D
      BY <1>3, <2>1, <3>1
    <3>4. first < a => a - 1 \in D
      BY <1>3, <2>1, <3>1
    <3> QED BY <1>3, <2>1, <3>2, <3>3, <3>4
  <2>3. a..b \subseteq G
    BY <1>1, <2>1
  <2>4. a - 1 \notin G /\ b + 1 \notin G
    BY <1>1, <1>2, <2>1, <2>2
  <2> QED BY <2>1, <2>3, <2>4 DEF IsRun
<1>5. ASSUME a = first, b = k + count - 1 PROVE IsRun(G, a, b)
  <2>1. a..b \subseteq G
    BY <1>1, <1>3, <1>5
  <2>2. a - 1 \notin G /\ b + 1 \notin G
    BY <1>1, <1>2, <1>3, <1>5
  <2> QED BY <1>3, <1>5, <2>1, <2>2 DEF IsRun
<1>6. ASSUME IsRun(G, a, b)
      PROVE  \/ IsRun(D, a, b) /\ ~(a = first /\ b = k - 1)
             \/ a = first /\ b = k + count - 1
  <2>1. /\ a <= b /\ a \in G /\ b \in G /\ a - 1 \notin G /\ b + 1 \notin G
        /\ \A x \in Int : a <= x /\ x <= b => x \in G
    BY <1>6 DEF IsRun
  <2>2. k - 1 \in G /\ k \in G
    BY <1>1, <1>3
  <2>3. CASE b >= k
    <3>1. b = k + count - 1
      BY <1>1, <1>2, <2>1, <2>3
    <3>2. a <= k - 1
      BY <1>1, <1>2, <2>1, <2>2
    <3>3. ~(a < first)
      <4>1. first - 1 \notin G
        BY <1>1, <1>3
      <4> QED BY <1>3, <2>1, <2>3, <4>1
    <3>4. ~(first < a)
      <4>1. first < a => a - 1 \in D
        BY <1>3, <3>2
      <4> QED BY <1>1, <2>1, <4>1
    <3> QED BY <3>1, <3>3, <3>4
  <2>4. CASE b < k
    <3>1. b # k - 1
      BY <2>1, <2>2
    <3>2. \A x \in Int : a <= x /\ x <= b => x \in D
      BY <1>1, <2>1, <2>4
    <3>3. a - 1 \notin D /\ b + 1 \notin D
      BY <1>1, <2>1
    <3> QED BY <2>1, <3>1, <3>2, <3>3 DEF IsRun
  <2> QED BY <2>3, <2>4
<1> QED BY <1>4, <1>5, <1>6 DEF G
-----------------------------------------------------------------------------
(* Dropping count more numbers from k on adds one run, which replaces the   *)
(* one it prolongs.                                                        *)
LEMMA RunsOfGrow ==
  ASSUME NEW n \in Nat, NEW k \in Nat, NEW count \in Nat, count >= 1, k + count <= n,
         NEW D \in SUBSET (0..(k - 1)), NEW first \in 0..k,
         (first = k /\ k - 1 \notin D) \/ <<first, k - 1>> \in RunsOf(D, n)
  PROVE  /\ RunsOf(D \union k..(k + count - 1), n) =
               (RunsOf(D, n) \ {<<first, k - 1>>}) \union {<<first, k + count - 1>>}
         /\ <<first, k + count - 1>> \notin RunsOf(D, n)
         /\ first = k => <<first, k - 1>> \notin RunsOf(D, n)
<1> DEFINE G == D \union k..(k + count - 1)
<1>1. <<first, k + count - 1>> \notin RunsOf(D, n)
  <2>1. ASSUME IsRun(D, first, k + count - 1) PROVE FALSE
    <3>1. first <= k + count - 1 /\ first..(k + count - 1) \subseteq D
      BY <2>1 DEF IsRun
    <3>2. k + count - 1 \in D
      BY <3>1
    <3> QED BY <3>2
  <2> QED BY <2>1, RunMember
<1>2. first = k => <<first, k - 1>> \notin RunsOf(D, n)
  <2>1. ASSUME first = k, IsRun(D, first, k - 1) PROVE FALSE
    BY <2>1 DEF IsRun
  <2> QED BY <2>1, RunMember
<1>3. ASSUME NEW a \in 0..(n - 1), NEW b \in 0..(n - 1)
      PROVE  IsRun(G, a, b) <=> \/ IsRun(D, a, b) /\ ~(a = first /\ b = k - 1)
                                \/ a = first /\ b = k + count - 1
  <2>1. CASE first = k /\ k - 1 \notin D
    <3>1. IsRun(G, a, b) <=> IsRun(D, a, b) \/ (a = k /\ b = k + count - 1)
      BY <2>1, RunBegins
    <3>2. IsRun(D, a, b) => ~(a = first /\ b = k - 1)
      BY <2>1 DEF IsRun
    <3> QED BY <2>1, <3>1, <3>2
  <2>2. CASE <<first, k - 1>> \in RunsOf(D, n)
    <3>1. IsRun(D, first, k - 1)
      BY <2>2, RunMember
    <3>2. first \in Nat /\ a \in Nat /\ b \in Nat
      OBVIOUS
    <3>3. GoesOn(D, k, count, first)
      BY <3>1, <3>2, RunGoesOn
    <3> QED BY <3>2, <3>3 DEF GoesOn
  <2> QED BY <2>1, <2>2
<1>4. first \in 0..(n - 1) /\ k + count - 1 \in 0..(n - 1)
  OBVIOUS
<1> HIDE DEF G
<1>5. ASSUME NEW run \in RunsOf(G, n)
      PROVE  run \in (RunsOf(D, n) \ {<<first, k - 1>>}) \union {<<first, k + count - 1>>}
  <2>1. PICK a \in 0..(n - 1), b \in 0..(n - 1) : run = <<a, b>> /\ IsRun(G, a, b)
    BY RunIsPair
  <2>2. CASE IsRun(D, a, b) /\ ~(a = first /\ b = k - 1)
    <3>1. run \in RunsOf(D, n) /\ run # <<first, k - 1>>
      BY <2>1, <2>2, RunMember
    <3> QED BY <3>1
  <2>3. CASE a = first /\ b = k + count - 1
    BY <2>1, <2>3
  <2> QED BY <1>3, <2>1, <2>2, <2>3
<1>6. ASSUME NEW run \in RunsOf(D, n), run # <<first, k - 1>> PROVE run \in RunsOf(G, n)
  <2>1. PICK a \in 0..(n - 1), b \in 0..(n - 1) : run = <<a, b>> /\ IsRun(D, a, b)
    BY RunIsPair
  <2>2. ~(a = first /\ b = k - 1)
    BY <1>6, <2>1
  <2> QED BY <1>3, <2>1, <2>2, RunMember
<1>7. <<first, k + count - 1>> \in RunsOf(G, n)
  BY <1>3, <1>4, RunMember
<1>8. RunsOf(G, n) = (RunsOf(D, n) \ {<<first, k - 1>>}) \union {<<first, k + count - 1>>}
  BY <1>5, <1>6, <1>7
<1> QED BY <1>1, <1>2, <1>8 DEF G

(* The size of a set in which one element is replaced, or added. *)
LEMMA Replaced ==
  ASSUME NEW S, IsFiniteSet(S), NEW old, NEW new, new \notin S
  PROVE  /\ IsFiniteSet((S \ {old}) \union {new})
         /\ Cardinality((S \ {old}) \union {new}) =
               IF old \in S THEN Cardinality(S) ELSE Cardinality(S) + 1
<1>1. /\ IsFiniteSet(S \ {old})
      /\ Cardinality(S \ {old}) = IF old \in S THEN Cardinality(S) - 1 ELSE Cardinality(S)
  BY FS_RemoveElement
<1>2. new \notin S \ {old}
  OBVIOUS
<1>3. /\ IsFiniteSet((S \ {old}) \union {new})
      /\ Cardinality((S \ {old}) \union {new}) = Cardinality(S \ {old}) + 1
  BY <1>1, <1>2, FS_AddElement
<1>4. Cardinality(S) \in Nat
  BY FS_CardinalityType
<1> QED BY <1>1, <1>3, <1>4

(* The same in the state: count frames from i on are dropped, after the     *)
(* others of a run that began at first, if any.                            *)
Drops(count) ==
    /\ dropped' = dropped \union i..(i + count - 1) /\ i' = i + count
    /\ UNCHANGED settings

LEMMA RunsGrow ==
  ASSUME settings \in Settings, Passed, i \in Nat,
         NEW count \in Nat, count >= 1, i + count <= FrameCount, Drops(count),
         NEW first \in 0..i,
         (first = i /\ i - 1 \notin dropped) \/ <<first, i - 1>> \in Runs
  PROVE  /\ Runs' = (Runs \ {<<first, i - 1>>}) \union {<<first, i' - 1>>}
         /\ <<first, i' - 1>> \notin Runs
         /\ IsFiniteSet(Runs')
         /\ Cardinality(Runs') = IF first = i THEN Cardinality(Runs) + 1
                                              ELSE Cardinality(Runs)
<1>1. FrameCount \in Nat /\ FrameCount' = FrameCount
  BY SettingFacts DEF Drops, FrameCount
<1>2. dropped \in SUBSET (0..(i - 1)) /\ IsFiniteSet(Runs)
  BY DEF Passed
<1>3. /\ RunsOf(dropped \union i..(i + count - 1), FrameCount) =
            (RunsOf(dropped, FrameCount) \ {<<first, i - 1>>}) \union {<<first, i + count - 1>>}
      /\ <<first, i + count - 1>> \notin RunsOf(dropped, FrameCount)
      /\ first = i => <<first, i - 1>> \notin RunsOf(dropped, FrameCount)
  BY <1>1, <1>2, RunsAre, RunsOfGrow
<1>4. /\ Runs' = (Runs \ {<<first, i - 1>>}) \union {<<first, i' - 1>>}
      /\ <<first, i' - 1>> \notin Runs
      /\ first = i <=> <<first, i - 1>> \notin Runs
  <2>1. i' - 1 = i + count - 1
    BY DEF Drops
  <2>2. first = i <=> <<first, i - 1>> \notin Runs
    BY <1>3, RunsAre
  <2> QED BY <1>1, <1>3, <2>1, <2>2, RunsAre, RunsAreNext DEF Drops
<1> QED BY <1>2, <1>4, Replaced

(* Some run is the longest. *)
LEMMA PassedGrows ==
  ASSUME settings \in Settings, Passed, i \in Nat,
         NEW count \in Nat, count >= 1, i + count <= FrameCount, Drops(count)
  PROVE  Passed'
<1>1. PICK first \in 0..i :
        (first = i /\ i - 1 \notin dropped) \/ <<first, i - 1>> \in Runs
  <2>1. CASE i - 1 \notin dropped
    BY <2>1
  <2>2. CASE i - 1 \in dropped
    <3>1. PICK run \in Runs : run[2] = i - 1
      BY <2>2 DEF Passed
    <3>2. run = <<run[1], run[2]>> /\ run[1] \in Nat /\ run[1] <= run[2]
      BY SettingFacts, RunsAre, RunIsPair DEF IsRun
    <3>3. run[1] \in 0..i /\ <<run[1], i - 1>> \in Runs
      BY <3>1, <3>2
    <3> QED BY <3>3
  <2> QED BY <2>1, <2>2
<1> DEFINE old == <<first, i - 1>>
           new == <<first, i' - 1>>
<1>2. Runs' = (Runs \ {old}) \union {new} /\ IsFiniteSet(Runs')
  BY <1>1, RunsGrow
<1>3. Length(old) = i - first /\ Length(new) = i' - first /\ Length(new) > Length(old)
  BY DEF Length, Drops
<1>4. \A run \in Runs : Length(run) \in Int
  BY SettingFacts, RunsAre, RunIsPair DEF Length
<1>5. Length(new) \in Int /\ Length(old) \in Int
  BY <1>3 DEF Drops
<1> HIDE DEF old, new
<1>6. \E run \in Runs' : \A other \in Runs' : Length(other) <= Length(run)
  <2>1. CASE \A other \in Runs : Length(other) <= Length(new)
    <3>1. new \in Runs' /\ \A other \in Runs' : Length(other) <= Length(new)
      BY <1>2, <1>5, <2>1
    <3> QED BY <3>1
  <2>2. CASE \E other \in Runs : ~(Length(other) <= Length(new))
    <3>1. PICK run \in Runs : \A other \in Runs : Length(other) <= Length(run)
      BY <2>2 DEF Passed
    <3>2. Length(run) > Length(new)
      BY <1>4, <1>5, <2>2, <3>1
    <3>3. run # old
      BY <1>3, <1>4, <1>5, <3>2
    <3>4. run \in Runs' /\ \A other \in Runs' : Length(other) <= Length(run)
      BY <1>2, <1>4, <1>5, <3>1, <3>2, <3>3
    <3> QED BY <3>4
  <2> QED BY <2>1, <2>2
<1>7. dropped' \subseteq 0..(i' - 1)
  BY DEF Passed, Drops
<1>8. \E run \in Runs' : run[2] = i' - 1
  <2>1. new \in Runs' /\ new[2] = i' - 1
    BY <1>2 DEF new
  <2> QED BY <2>1
<1> QED BY <1>2, <1>6, <1>7, <1>8 DEF Passed
-----------------------------------------------------------------------------
(* The type invariant, by what changes together. *)
ScheduleTypes ==
    /\ i \in 0..FrameCount /\ dropped \subseteq Frames
    /\ arrival \in [Frames -> Nat]
    /\ current_burst_length \in Nat /\ loss_bursts \in Nat
    /\ max_loss_burst_frames \in 0..FrameCount
    /\ drawn \subseteq Frames \X BurstLengths

StatusNames == {"decoded", "redundant", "fec_attempt", "plc"}
Counters == [decoded : Nat, redundant : Nat, fec_attempts : Nat, plc : Nat,
             late_or_missing : Nat, decode_errors : Nat]

PlayoutTypes ==
    /\ settings \in Settings
    /\ phase \in {"encoding", "losing", "playing", "done", "failed"}
    /\ carried \in [Frames -> 0..EffectiveRedundancyFrames]
    /\ statuses \in Seq(StatusNames) /\ stats \in Counters

LEMMA TypeParts == TypeOK <=> ScheduleTypes /\ PlayoutTypes
  BY DEF TypeOK, ScheduleTypes, PlayoutTypes, StatusNames, Counters

LEMMA TypePartsNext == TypeOK' <=> ScheduleTypes' /\ PlayoutTypes'
  BY DEF TypeOK, ScheduleTypes, PlayoutTypes, StatusNames, Counters

LEMMA Typed ==
  ASSUME InductiveInvariant
  PROVE  /\ ScheduleTypes /\ PlayoutTypes
         /\ FrameCount \in Nat /\ FrameCount >= 1
         /\ MinBurst \in 1..FrameCount /\ MaxBurst \in MinBurst..FrameCount
         /\ EffectiveRedundancyFrames \in 0..3
         /\ settings.jitter_ms \in Nat /\ settings.jitter_depth_frames \in Nat
         /\ settings.loss_model \in {"independent", "burst"}
         /\ kFrameDurationMs \in Nat
<1>1. ScheduleTypes /\ PlayoutTypes
  BY TypeParts DEF InductiveInvariant, PlayoutIsBest
<1> QED BY <1>1, SettingFacts DEF PlayoutTypes

(* Nothing named after the settings changes. *)
LEMMA SettingsKept ==
  ASSUME UNCHANGED settings
  PROVE  /\ UNCHANGED <<FrameCount, Frames, MinBurst, MaxBurst, EffectiveRedundancyFrames>>
         /\ UNCHANGED BurstLengths
         /\ \A burst : UNCHANGED Lost(burst) /\ UNCHANGED Stretch(burst)
  BY DEF FrameCount, Frames, MinBurst, MaxBurst, EffectiveRedundancyFrames, BurstLengths,
         Lost, Stretch

LEMMA InitInductive == Init => InductiveInvariant
<1> SUFFICES ASSUME Init PROVE InductiveInvariant
  OBVIOUS
<1>1. /\ settings \in Settings /\ phase = "encoding" /\ i = 0 /\ dropped = {}
      /\ current_burst_length = 0 /\ loss_bursts = 0 /\ max_loss_burst_frames = 0
      /\ drawn = {} /\ statuses = <<>>
      /\ stats = [decoded |-> 0, redundant |-> 0, fec_attempts |-> 0, plc |-> 0,
                  late_or_missing |-> 0, decode_errors |-> 0]
      /\ carried = [frame \in Frames |-> 0] /\ arrival = [frame \in Frames |-> 0]
  BY DEF Init
<1>2. /\ FrameCount \in Nat /\ EffectiveRedundancyFrames \in 0..3 /\ MaxBurst \in Nat
      /\ MinBurst \in Nat
  BY <1>1, SettingFacts
<1>3. ScheduleTypes
  BY <1>1, <1>2 DEF ScheduleTypes
<1>4. PlayoutTypes
  BY <1>1, <1>2 DEF PlayoutTypes, Counters
<1>5. CountersAddUp /\ BestAvailable
  BY <1>1 DEF CountersAddUp, BestAvailable
<1>6. Runs = {} /\ IsFiniteSet(Runs) /\ Cardinality(Runs) = 0 /\ Cardinality(dropped) = 0
  <2>1. ASSUME NEW run \in Runs PROVE FALSE
    <3>1. run[1] \in run[1]..run[2]
      BY <1>2 DEF Runs, Frames
    <3> QED BY <1>1, <3>1 DEF Runs
  <2> QED BY <1>1, <2>1, FS_EmptySet
<1>7. Progress /\ Passed
  BY <1>1, <1>6 DEF Progress, Passed
<1>8. IndependentLosses
  BY <1>1, <1>6 DEF IndependentLosses
<1>9. BurstLosses
  BY <1>1, <1>2, <1>6 DEF BurstLosses
<1>10. DrawnLosses
  <2>1. MinBurst * 0 <= 0 /\ IsFiniteSet(drawn) /\ Cardinality(drawn) = 0
    BY <1>1, <1>2, FS_EmptySet
  <2>2. RoomForBursts
    BY <1>1, <1>6, <2>1 DEF RoomForBursts
  <2>3. dropped = UNION {Stretch(burst) : burst \in drawn}
    BY <1>1
  <2> QED BY <1>1, <2>1, <2>2, <2>3 DEF DrawnLosses
<1> QED BY <1>3, <1>4, <1>5, <1>7, <1>8, <1>9, <1>10, TypeParts
        DEF InductiveInvariant, PlayoutIsBest
-----------------------------------------------------------------------------
(* While nothing has been played, there is nothing to say of it. *)
LEMMA NotPlayedYet ==
  ASSUME InductiveInvariant, statuses = <<>>,
         UNCHANGED <<settings, statuses, stats>>,
         ScheduleTypes', PlayoutTypes'
  PROVE  PlayoutIsBest'
<1>1. CountersAddUp'
  BY DEF InductiveInvariant, PlayoutIsBest, CountersAddUp
<1>2. BestAvailable'
  BY DEF BestAvailable
<1> QED BY <1>1, <1>2, TypePartsNext DEF PlayoutIsBest

(* What is said of the losses, while no frame is dropped. *)
LEMMA LossesKept ==
  ASSUME InductiveInvariant, UNCHANGED <<settings, dropped, lossStats>>,
         i' = i \/ (i' = i + 1 /\ i < FrameCount /\ i' - 1 \notin dropped),
         settings.loss_model = "independent" =>
            \/ i' = i /\ current_burst_length' = current_burst_length
            \/ i' = i + 1 /\ current_burst_length' = 0
  PROVE  Passed' /\ IndependentLosses' /\ BurstLosses' /\ DrawnLosses'
<1>1. /\ UNCHANGED <<loss_bursts, max_loss_burst_frames>>
      /\ UNCHANGED <<FrameCount, Frames, MinBurst, MaxBurst>>
  BY SettingsKept DEF lossStats
<1>2. UNCHANGED Runs
  BY <1>1, RunsAre, RunsAreNext
<1>3. i \in Nat
  BY Typed DEF ScheduleTypes
<1>4. Passed'
  BY <1>2, <1>3 DEF InductiveInvariant, Passed
<1>5. IndependentLosses'
  BY <1>1, <1>2, <1>3 DEF InductiveInvariant, IndependentLosses
<1>6. BurstLosses'
  BY <1>1, <1>2 DEF InductiveInvariant, BurstLosses
<1>7. DrawnLosses'
  <2>1. CASE settings.loss_model # "burst"
    BY <2>1 DEF DrawnLosses
  <2>2. CASE settings.loss_model = "burst"
    <3>1. /\ IsFiniteSet(drawn) /\ loss_bursts = Cardinality(drawn)
          /\ \A burst \in drawn :
                burst[1] < i /\ Lost(burst) \in Nat /\ Lost(burst) <= max_loss_burst_frames
          /\ max_loss_burst_frames = 0
             \/ \E burst \in drawn : Lost(burst) = max_loss_burst_frames
          /\ dropped = UNION {Stretch(burst) : burst \in drawn}
          /\ RoomForBursts
      BY <2>2 DEF InductiveInvariant, DrawnLosses
    <3>2. UNCHANGED <<drawn, dropped, settings>>
      BY DEF lossStats
    <3>3. \A burst : UNCHANGED Lost(burst) /\ UNCHANGED Stretch(burst)
      BY SettingsKept
    <3>4. RoomForBursts'
      <4>1. CASE MinBurst * loss_bursts <= Cardinality(dropped)
        BY <1>1, <3>2, <4>1 DEF RoomForBursts
      <4>2. CASE i = FrameCount /\ MinBurst * (loss_bursts - 1) < Cardinality(dropped)
        <5>1. i' = i
          BY <1>3, <4>2
        <5> QED BY <1>1, <3>2, <4>2, <5>1 DEF RoomForBursts
      <4> QED BY <3>1, <4>1, <4>2 DEF RoomForBursts
    <3>5. \A burst \in drawn : burst[1] < i'
      BY <1>3, <3>1, Typed DEF ScheduleTypes, Frames
    <3>6. UNION {Stretch(burst) : burst \in drawn}' = UNION {Stretch(burst) : burst \in drawn}
      BY <3>2, <3>3
    <3> QED BY <1>1, <3>1, <3>2, <3>3, <3>4, <3>5, <3>6 DEF DrawnLosses
  <2> QED BY <2>1, <2>2
<1> QED BY <1>4, <1>5, <1>6, <1>7

LEMMA ArrivalTyped ==
  ASSUME InductiveInvariant, i < FrameCount, NEW jitter \in Nat,
         Arrives(i, jitter), UNCHANGED settings
  PROVE  arrival' \in [Frames' -> Nat]
<1>1. i * kFrameDurationMs \in Nat
  BY Typed DEF ScheduleTypes
<1>2. i * kFrameDurationMs + jitter \in Nat
  BY <1>1
<1>3. arrival' = [arrival EXCEPT ![i] = i * kFrameDurationMs + jitter]
  BY DEF Arrives
<1> QED BY <1>2, <1>3, Typed, SettingsKept DEF ScheduleTypes

(* generate_independent_loss_schedule keeps a frame. *)
LEMMA KeepOneStep ==
  ASSUME InductiveInvariant, NEW jitter \in 0..settings.jitter_ms, KeepOne(jitter),
         UNCHANGED settings
  PROVE  InductiveInvariant'
<1>1. /\ phase = "losing" /\ i < FrameCount /\ i' = i + 1 /\ current_burst_length' = 0
      /\ Arrives(i, jitter) /\ settings.loss_model = "independent"
      /\ UNCHANGED <<phase, carried, dropped, lossStats, statuses, stats>>
  BY DEF KeepOne, Losing
<1>2. i \in Nat /\ jitter \in Nat /\ FrameCount \in Nat
  BY Typed DEF ScheduleTypes
<1>3. statuses = <<>>
  BY <1>1 DEF InductiveInvariant, Progress
<1>4. ScheduleTypes'
  BY <1>1, <1>2, Typed, ArrivalTyped, SettingsKept DEF ScheduleTypes, lossStats
<1>5. PlayoutTypes'
  BY <1>1, Typed, SettingsKept DEF PlayoutTypes
<1>6. PlayoutIsBest'
  BY <1>1, <1>3, <1>4, <1>5, NotPlayedYet
<1>7. i' - 1 \notin dropped
  BY <1>1, <1>2 DEF InductiveInvariant, Passed
<1>8. Passed' /\ IndependentLosses' /\ BurstLosses' /\ DrawnLosses'
  BY <1>1, <1>7, LossesKept
<1>9. Progress'
  BY <1>1, <1>3 DEF Progress
<1> QED BY <1>6, <1>8, <1>9 DEF InductiveInvariant

(* generate_burst_loss_schedule goes on without a burst. *)
LEMMA SkipOneStep ==
  ASSUME InductiveInvariant, SkipOne, UNCHANGED settings
  PROVE  InductiveInvariant'
<1>1. /\ phase = "losing" /\ i < FrameCount /\ i' = i + 1
      /\ settings.loss_model = "burst"
      /\ UNCHANGED <<phase, carried, dropped, arrival, current_burst_length, lossStats,
                     statuses, stats>>
  BY DEF SkipOne, Losing
<1>2. i \in Nat /\ FrameCount \in Nat
  BY Typed DEF ScheduleTypes
<1>3. statuses = <<>>
  BY <1>1 DEF InductiveInvariant, Progress
<1>4. ScheduleTypes'
  BY <1>1, <1>2, Typed, SettingsKept DEF ScheduleTypes, lossStats
<1>5. PlayoutTypes'
  BY <1>1, Typed, SettingsKept DEF PlayoutTypes
<1>6. PlayoutIsBest'
  BY <1>1, <1>3, <1>4, <1>5, NotPlayedYet
<1>7. i' - 1 \notin dropped
  BY <1>1, <1>2 DEF InductiveInvariant, Passed
<1>8. Passed' /\ IndependentLosses' /\ BurstLosses' /\ DrawnLosses'
  BY <1>1, <1>7, LossesKept
<1>9. Progress'
  BY <1>1, <1>3 DEF Progress
<1> QED BY <1>6, <1>8, <1>9 DEF InductiveInvariant

(* What comes before and after the schedule. *)
LEMMA EncodeOrDelayStep ==
  ASSUME InductiveInvariant, Encode \/ Delay, UNCHANGED settings
  PROVE  InductiveInvariant'
<1>1. /\ UNCHANGED <<i, dropped, current_burst_length, lossStats, statuses, stats>>
      /\ \/ phase = "encoding" /\ phase' = "losing"
         \/ phase = "losing" /\ i = FrameCount /\ phase' = "playing"
  BY DEF Encode, Delay, schedule
<1>2. statuses = <<>>
  BY <1>1 DEF InductiveInvariant, Progress
<1>3. arrival' \in [Frames -> Nat]
  <2>1. CASE UNCHANGED arrival
    BY <2>1, Typed DEF ScheduleTypes
  <2>2. CASE Delay /\ settings.loss_model # "independent"
    <3>1. PICK jitter \in [Frames \ dropped -> 0..settings.jitter_ms] :
             arrival' = [frame \in Frames |-> frame * kFrameDurationMs
                            + (IF frame \in dropped THEN 0 ELSE jitter[frame])]
      BY <2>2 DEF Delay
    <3>2. ASSUME NEW frame \in Frames
          PROVE  frame * kFrameDurationMs
                    + (IF frame \in dropped THEN 0 ELSE jitter[frame]) \in Nat
      <4>1. frame * kFrameDurationMs \in Nat
        BY Typed DEF Frames
      <4>2. (IF frame \in dropped THEN 0 ELSE jitter[frame]) \in Nat
        <5>1. frame \notin dropped => jitter[frame] \in 0..settings.jitter_ms
          BY <3>1
        <5> QED BY <5>1, Typed
      <4> QED BY <4>1, <4>2
    <3> QED BY <3>1, <3>2
  <2> QED BY <2>1, <2>2 DEF Encode, Delay, schedule
<1>4. carried' \in [Frames -> 0..EffectiveRedundancyFrames]
  BY Typed DEF PlayoutTypes, Encode, Delay
<1>5. ScheduleTypes'
  BY <1>1, <1>3, Typed, SettingsKept DEF ScheduleTypes, lossStats
<1>6. PlayoutTypes'
  BY <1>1, <1>4, Typed, SettingsKept DEF PlayoutTypes
<1>7. PlayoutIsBest'
  BY <1>1, <1>2, <1>5, <1>6, NotPlayedYet
<1>8. Passed' /\ IndependentLosses' /\ BurstLosses' /\ DrawnLosses'
  BY <1>1, LossesKept
<1>9. Progress'
  BY <1>1, <1>2, SettingsKept DEF Progress
<1> QED BY <1>7, <1>8, <1>9 DEF InductiveInvariant
-----------------------------------------------------------------------------
(* The greater of what was counted and the stretch that ends here. *)
LEMMA LongestCounted ==
  ASSUME InductiveInvariant, NEW count \in Nat, NEW before \in Nat, MarkDropped(count, before)
  PROVE  /\ max_loss_burst_frames' = IF max_loss_burst_frames >= before + count
                                     THEN max_loss_burst_frames ELSE before + count
         /\ current_burst_length' = before + count
         /\ dropped' = dropped \union i..(i + count - 1)
<1>1. max_loss_burst_frames \in Int /\ before + count \in Int
  BY Typed DEF ScheduleTypes
<1> QED BY <1>1, MaxOfTwo DEF MarkDropped

LEMMA DropTypes ==
  ASSUME InductiveInvariant, UNCHANGED <<settings, phase, carried, statuses, stats>>,
         phase = "losing",
         NEW count \in Nat, count >= 1, i + count <= FrameCount,
         NEW before \in Nat, before + count <= FrameCount, MarkDropped(count, before),
         i' = i + count, loss_bursts' \in Nat, arrival' \in [Frames -> Nat],
         drawn' \subseteq Frames \X BurstLengths
  PROVE  PlayoutIsBest' /\ Progress' /\ Passed'
<1>1. i \in Nat /\ FrameCount \in Nat /\ max_loss_burst_frames \in 0..FrameCount
  BY Typed DEF ScheduleTypes
<1>2. max_loss_burst_frames' \in 0..FrameCount /\ current_burst_length' \in Nat
  BY <1>1, LongestCounted
<1>3. i' \in 0..FrameCount
  BY <1>1
<1>4. dropped' \subseteq Frames
  <2>1. dropped \subseteq Frames /\ i..(i + count - 1) \subseteq Frames
    BY <1>1, Typed DEF ScheduleTypes, Frames
  <2> QED BY <2>1, LongestCounted
<1>5. ScheduleTypes'
  BY <1>2, <1>3, <1>4, SettingsKept DEF ScheduleTypes
<1>6. PlayoutTypes'
  BY Typed, SettingsKept DEF PlayoutTypes
<1>7. statuses = <<>>
  BY DEF InductiveInvariant, Progress
<1>8. PlayoutIsBest'
  BY <1>5, <1>6, <1>7, NotPlayedYet
<1>9. Progress'
  BY <1>7 DEF Progress
<1>10. Passed'
  BY <1>1, Typed, LongestCounted, PassedGrows
  DEF Drops, PlayoutTypes, InductiveInvariant
<1> QED BY <1>8, <1>9, <1>10

(* generate_independent_loss_schedule drops a frame: the run it is in is    *)
(* the one counted last, or this is a new one.                             *)
LEMMA DropOneStep ==
  ASSUME InductiveInvariant, DropOne, UNCHANGED settings
  PROVE  InductiveInvariant'
<1>1. /\ phase = "losing" /\ i < FrameCount /\ i' = i + 1
      /\ settings.loss_model = "independent"
      /\ loss_bursts' = (IF current_burst_length = 0 THEN loss_bursts + 1 ELSE loss_bursts)
      /\ MarkDropped(1, current_burst_length) /\ Arrives(i, 0)
      /\ UNCHANGED <<phase, carried, drawn, statuses, stats>>
  BY DEF DropOne, Losing
<1>2. /\ i \in Nat /\ FrameCount \in Nat /\ loss_bursts \in Nat
      /\ current_burst_length \in Nat /\ max_loss_burst_frames \in Nat
  BY Typed DEF ScheduleTypes
<1>3. /\ current_burst_length = 0 => i - 1 \notin dropped
      /\ current_burst_length > 0 => <<i - current_burst_length, i - 1>> \in Runs
      /\ loss_bursts = Cardinality(Runs)
      /\ max_loss_burst_frames = 0 \/ \E run \in Runs : Length(run) = max_loss_burst_frames
      /\ \A run \in Runs : Length(run) <= max_loss_burst_frames
  BY <1>1 DEF InductiveInvariant, IndependentLosses
<1> DEFINE first == i - current_burst_length
           new == <<first, i' - 1>>
           old == <<first, i - 1>>
<1>4. first \in 0..i /\ (first = i <=> current_burst_length = 0)
  <2>1. CASE current_burst_length = 0
    BY <1>2, <2>1
  <2>2. CASE current_burst_length > 0
    <3>1. <<i - current_burst_length, i - 1>> \in RunsOf(dropped, FrameCount)
      BY <1>3, <2>2, RunsAre
    <3>2. i - current_burst_length \in 0..(FrameCount - 1)
      BY <1>2, <3>1, RunMember
    <3> QED BY <1>2, <2>2, <3>2
  <2> QED BY <1>2, <2>1, <2>2
<1>5. current_burst_length + 1 <= FrameCount
  BY <1>1, <1>2, <1>4
<1>6. /\ max_loss_burst_frames' = IF max_loss_burst_frames >= current_burst_length + 1
                                  THEN max_loss_burst_frames ELSE current_burst_length + 1
      /\ current_burst_length' = current_burst_length + 1
      /\ dropped' = dropped \union i..(i + 1 - 1)
  BY <1>1, <1>2, LongestCounted
<1>7. arrival' \in [Frames -> Nat] /\ drawn' \subseteq Frames \X BurstLengths
  BY <1>1, ArrivalTyped, SettingsKept, Typed DEF ScheduleTypes
<1>8. PlayoutIsBest' /\ Progress' /\ Passed'
  BY <1>1, <1>2, <1>5, <1>7, DropTypes
<1>9. (first = i /\ i - 1 \notin dropped) \/ old \in Runs
  BY <1>2, <1>3, <1>4
<1>10. /\ Runs' = (Runs \ {old}) \union {new}
       /\ Cardinality(Runs') = IF first = i THEN Cardinality(Runs) + 1 ELSE Cardinality(Runs)
  <2>1. settings \in Settings /\ Passed /\ i + 1 <= FrameCount /\ Drops(1)
    BY <1>1, <1>2, <1>6, Typed DEF PlayoutTypes, InductiveInvariant, Drops
  <2>2. first \in 0..i /\ 1 \in Nat /\ 1 >= 1
    BY <1>4
  <2> HIDE DEF first
  <2> QED BY <1>2, <1>9, <2>1, <2>2, RunsGrow
<1>11. /\ Length(new) = current_burst_length + 1 /\ Length(old) = current_burst_length
       /\ new = <<i' - current_burst_length', i' - 1>>
  BY <1>1, <1>2, <1>6 DEF Length
<1>12. loss_bursts' = Cardinality(Runs')
  BY <1>1, <1>3, <1>4, <1>10
<1> HIDE DEF first, new, old
<1>13. new \in Runs'
  BY <1>10
<1>14. ASSUME NEW run \in Runs' PROVE Length(run) <= max_loss_burst_frames'
  <2>1. CASE run = new
    BY <1>2, <1>6, <1>11, <2>1
  <2>2. CASE run \in Runs
    <3>1. Length(run) <= max_loss_burst_frames
      BY <1>3, <2>2
    <3>2. Length(run) \in Int
      BY <1>2, <2>2, RunsAre, RunIsPair DEF Length
    <3> QED BY <1>2, <1>6, <3>1, <3>2
  <2> QED BY <1>10, <2>1, <2>2
<1>15. \E run \in Runs' : Length(run) = max_loss_burst_frames'
  <2>1. CASE max_loss_burst_frames >= current_burst_length + 1
    <3>1. PICK run \in Runs : Length(run) = max_loss_burst_frames
      BY <1>2, <1>3, <2>1
    <3>2. run # old
      BY <1>2, <1>11, <2>1, <3>1
    <3>3. run \in Runs' /\ Length(run) = max_loss_burst_frames'
      BY <1>6, <1>10, <2>1, <3>1, <3>2
    <3> QED BY <3>3
  <2>2. CASE ~(max_loss_burst_frames >= current_burst_length + 1)
    BY <1>6, <1>11, <1>13, <2>2
  <2> QED BY <2>1, <2>2
<1>16. IndependentLosses'
  <2>1. current_burst_length' > 0
    BY <1>2, <1>6
  <2> QED BY <1>11, <1>12, <1>13, <1>14, <1>15, <2>1 DEF IndependentLosses
<1>17. BurstLosses' /\ DrawnLosses'
  BY <1>1 DEF BurstLosses, DrawnLosses
<1> QED BY <1>8, <1>16, <1>17 DEF InductiveInvariant
-----------------------------------------------------------------------------
LEMMA Disjoint ==
  ASSUME NEW S, NEW T, IsFiniteSet(S), IsFiniteSet(T), S \cap T = {}
  PROVE  Cardinality(S \union T) = Cardinality(S) + Cardinality(T)
<1>1. Cardinality(S \union T) = Cardinality(S) + Cardinality(T) - Cardinality(S \cap T)
  BY FS_Union
<1>2. Cardinality(S \cap T) = 0
  BY FS_EmptySet
<1>3. Cardinality(S) \in Nat /\ Cardinality(T) \in Nat
  BY FS_CardinalityType
<1> QED BY <1>1, <1>2, <1>3

LEMMA BelowIsFinite ==
  ASSUME NEW k \in Nat, NEW D \in SUBSET (0..(k - 1))
  PROVE  IsFiniteSet(D) /\ Cardinality(D) \in Nat
<1>1. IsFiniteSet(0..(k - 1))
  BY FS_Interval
<1> QED BY <1>1, FS_Subset, FS_CardinalityType

(* The frames dropped are count more. *)
LEMMA DroppedCount ==
  ASSUME NEW k \in Nat, NEW count \in Nat, count >= 1, NEW D \in SUBSET (0..(k - 1))
  PROVE  /\ Cardinality(D) \in Nat
         /\ Cardinality(D \union k..(k + count - 1)) = Cardinality(D) + count
<1>1. IsFiniteSet(k..(k + count - 1)) /\ Cardinality(k..(k + count - 1)) = count
  <2>1. k \in Int /\ k + count - 1 \in Int /\ ~(k > k + count - 1)
        /\ k + count - 1 - k + 1 = count
    OBVIOUS
  <2> QED BY <2>1, FS_Interval
<1>2. IsFiniteSet(D) /\ Cardinality(D) \in Nat
  BY BelowIsFinite
<1>3. D \cap k..(k + count - 1) = {}
  OBVIOUS
<1>4. Cardinality(D \union k..(k + count - 1)) = Cardinality(D) + Cardinality(k..(k + count - 1))
  BY <1>1, <1>2, <1>3, Disjoint
<1> QED BY <1>1, <1>2, <1>4

(* generate_burst_loss_schedule: a burst begins, and loses what the stream  *)
(* has left of it.                                                         *)
BurstDrops(burst_length, count) ==
    /\ count = IF burst_length <= FrameCount - i THEN burst_length ELSE FrameCount - i
    /\ MarkDropped(count, 0) /\ i' = i + count
    /\ count >= 1 /\ i + count <= FrameCount /\ count <= MaxBurst
    /\ count >= MinBurst \/ i' = FrameCount
    /\ max_loss_burst_frames' = IF max_loss_burst_frames >= count
                                THEN max_loss_burst_frames ELSE count
    /\ dropped' = dropped \union i..(i + count - 1)
    /\ Lost(<<i, burst_length>>) = count

LEMMA DropsInBurst ==
  ASSUME InductiveInvariant, NEW burst_length \in BurstLengths, DropBurst(burst_length)
  PROVE  \E count \in Nat : BurstDrops(burst_length, count)
<1>1. /\ i \in Nat /\ FrameCount \in Nat /\ max_loss_burst_frames \in Nat
      /\ MinBurst \in Nat /\ MinBurst >= 1 /\ MaxBurst \in Nat
      /\ burst_length \in MinBurst..MaxBurst
  BY Typed DEF ScheduleTypes, BurstLengths
<1>2. i < FrameCount
  BY DEF DropBurst, Losing
<1>3. PICK count \in Nat :
         /\ count = IF burst_length <= FrameCount - i THEN burst_length ELSE FrameCount - i
         /\ MarkDropped(count, 0) /\ i' = i + count /\ Lost(<<i, burst_length>>) = count
  <2>1. Min({burst_length, FrameCount - i}) =
           IF burst_length <= FrameCount - i THEN burst_length ELSE FrameCount - i
    BY <1>1, MinOfTwo
  <2>2. Min({burst_length, FrameCount - i}) \in Nat
    BY <1>1, <1>2, <2>1
  <2>3. MarkDropped(Min({burst_length, FrameCount - i}), 0)
        /\ i' = i + Min({burst_length, FrameCount - i})
    BY DEF DropBurst
  <2>4. Lost(<<i, burst_length>>) = Min({burst_length, FrameCount - i})
    BY DEF Lost
  <2> QED BY <2>1, <2>2, <2>3, <2>4
<1>4. /\ count >= 1 /\ i + count <= FrameCount /\ count <= MaxBurst
      /\ count >= MinBurst \/ i' = FrameCount
  BY <1>1, <1>2, <1>3
<1>5. /\ max_loss_burst_frames' = IF max_loss_burst_frames >= count
                                  THEN max_loss_burst_frames ELSE count
      /\ dropped' = dropped \union i..(i + count - 1)
  BY <1>3, LongestCounted
<1> QED BY <1>3, <1>4, <1>5 DEF BurstDrops

(* One burst more has room in count frames more. *)
LEMMA RoomForOneMore ==
  ASSUME NEW m \in Nat, NEW bursts \in Nat, NEW size \in Nat, NEW count \in Nat, count >= 1,
         m * bursts <= size
  PROVE  /\ count >= m => m * (bursts + 1) <= size + count
         /\ m * (bursts + 1 - 1) < size + count
<1>1. m * (bursts + 1) = m * bursts + m /\ bursts + 1 - 1 = bursts /\ m * bursts \in Nat
  OBVIOUS
<1> QED BY <1>1

(* The burst is one of those drawn, and no other began here. *)
LEMMA DrawnGrows ==
  ASSUME InductiveInvariant, NEW burst_length \in BurstLengths, DropBurst(burst_length),
         UNCHANGED settings
  PROVE  DrawnLosses'
<1> DEFINE burst == <<i, burst_length>>
<1>1. /\ i \in Nat /\ FrameCount \in Nat /\ loss_bursts \in Nat
      /\ max_loss_burst_frames \in Nat /\ MinBurst \in Nat /\ MinBurst >= 1
  BY Typed DEF ScheduleTypes
<1>2. /\ i < FrameCount /\ settings.loss_model = "burst"
      /\ loss_bursts' = loss_bursts + 1 /\ drawn' = drawn \union {burst}
  BY DEF DropBurst, Losing
<1>3. PICK count \in Nat : BurstDrops(burst_length, count)
  BY DropsInBurst
<1>4. /\ IsFiniteSet(drawn) /\ loss_bursts = Cardinality(drawn)
      /\ \A b \in drawn : b[1] < i /\ Lost(b) \in Nat /\ Lost(b) <= max_loss_burst_frames
      /\ max_loss_burst_frames = 0 \/ \E b \in drawn : Lost(b) = max_loss_burst_frames
      /\ dropped = UNION {Stretch(b) : b \in drawn}
      /\ RoomForBursts
  BY <1>2 DEF InductiveInvariant, DrawnLosses
<1>5. /\ count >= 1 /\ i' = i + count /\ Lost(burst) = count
      /\ count >= MinBurst \/ i' = FrameCount
      /\ max_loss_burst_frames' = IF max_loss_burst_frames >= count
                                  THEN max_loss_burst_frames ELSE count
      /\ dropped' = dropped \union i..(i + count - 1)
  BY <1>3 DEF BurstDrops
<1>6. burst[1] = i /\ burst \notin drawn /\ Stretch(burst) = i..(i + count - 1)
  BY <1>1, <1>4, <1>5 DEF Stretch
<1> HIDE DEF burst
<1>7. UNCHANGED <<FrameCount, MinBurst>> /\ \A b : UNCHANGED Lost(b) /\ UNCHANGED Stretch(b)
  BY SettingsKept
<1>8. IsFiniteSet(drawn') /\ loss_bursts' = Cardinality(drawn')
  BY <1>2, <1>4, <1>6, FS_AddElement
<1>9. \A b \in drawn' : b[1] < i' /\ Lost(b) \in Nat /\ Lost(b) <= max_loss_burst_frames'
  <2>1. \A b \in drawn : b[1] \in Int
    BY Typed DEF ScheduleTypes, Frames
  <2>2. ASSUME NEW b \in drawn
        PROVE  b[1] < i' /\ Lost(b) \in Nat /\ Lost(b) <= max_loss_burst_frames'
    BY <1>1, <1>4, <1>5, <2>1
  <2>3. burst[1] < i' /\ Lost(burst) \in Nat /\ Lost(burst) <= max_loss_burst_frames'
    BY <1>1, <1>5, <1>6
  <2> QED BY <1>2, <2>2, <2>3
<1>10. \E b \in drawn' : Lost(b) = max_loss_burst_frames'
  <2>1. CASE max_loss_burst_frames >= count
    <3>1. PICK b \in drawn : Lost(b) = max_loss_burst_frames
      BY <1>1, <1>4, <1>5, <2>1
    <3> QED BY <1>2, <1>5, <2>1, <3>1
  <2>2. CASE ~(max_loss_burst_frames >= count)
    BY <1>2, <1>5, <2>2
  <2> QED BY <2>1, <2>2
<1>11. dropped' = UNION {Stretch(b) : b \in drawn'}
  BY <1>2, <1>4, <1>5, <1>6
<1>12. RoomForBursts'
  <2>1. /\ Cardinality(dropped) \in Nat
        /\ Cardinality(dropped') = Cardinality(dropped) + count
    <3>1. dropped \in SUBSET (0..(i - 1))
      BY DEF InductiveInvariant, Passed
    <3> QED BY <1>1, <1>5, <3>1, DroppedCount
  <2>2. MinBurst * loss_bursts <= Cardinality(dropped)
    BY <1>1, <1>2, <1>4 DEF RoomForBursts
  <2>3. /\ count >= MinBurst => MinBurst * (loss_bursts + 1) <= Cardinality(dropped) + count
        /\ MinBurst * (loss_bursts + 1 - 1) < Cardinality(dropped) + count
    BY <1>1, <1>5, <2>1, <2>2, RoomForOneMore
  <2>4. CASE count >= MinBurst
    <3>1. MinBurst * (loss_bursts + 1) <= Cardinality(dropped')
      BY <2>1, <2>3, <2>4
    <3>2. MinBurst' * loss_bursts' = MinBurst * (loss_bursts + 1)
      BY <1>2, <1>7, Zenon
    <3>3. MinBurst' * loss_bursts' <= Cardinality(dropped')
      BY <3>1, <3>2, Zenon
    <3> QED BY <3>3 DEF RoomForBursts
  <2>5. CASE i' = FrameCount
    <3>1. MinBurst * (loss_bursts + 1 - 1) < Cardinality(dropped')
      BY <2>1, <2>3
    <3>2. MinBurst' * (loss_bursts' - 1) = MinBurst * (loss_bursts + 1 - 1)
      <4>1. loss_bursts' - 1 = loss_bursts + 1 - 1
        BY <1>1, <1>2
      <4>2. MinBurst' = MinBurst
        BY <1>7, Zenon
      <4> QED BY <4>1, <4>2, Zenon
    <3>3. i' = FrameCount' /\ MinBurst' * (loss_bursts' - 1) < Cardinality(dropped')
      BY <1>7, <2>5, <3>1, <3>2, Zenon
    <3> QED BY <3>3 DEF RoomForBursts
  <2> QED BY <1>5, <2>4, <2>5
<1>13. UNION {Stretch(b) : b \in drawn}' = UNION {Stretch(b) : b \in drawn'}
  BY <1>7
<1> QED BY <1>7, <1>8, <1>9, <1>10, <1>11, <1>12, <1>13 DEF DrawnLosses

(* A burst begins, right after another one or not. *)
LEMMA DropBurstStep ==
  ASSUME InductiveInvariant, NEW burst_length \in BurstLengths, DropBurst(burst_length),
         UNCHANGED settings
  PROVE  InductiveInvariant'
<1>1. /\ i \in Nat /\ FrameCount \in Nat /\ loss_bursts \in Nat
      /\ max_loss_burst_frames \in Nat
      /\ MinBurst \in Nat /\ MinBurst >= 1 /\ MaxBurst \in Nat
  BY Typed DEF ScheduleTypes
<1>2. /\ phase = "losing" /\ i < FrameCount /\ settings.loss_model = "burst"
      /\ loss_bursts' = loss_bursts + 1 /\ drawn' = drawn \union {<<i, burst_length>>}
      /\ UNCHANGED <<phase, carried, arrival, statuses, stats>>
  BY DEF DropBurst, Losing
<1>3. PICK count \in Nat : BurstDrops(burst_length, count)
  BY DropsInBurst
<1>4. /\ MarkDropped(count, 0) /\ i' = i + count
      /\ count >= 1 /\ i + count <= FrameCount /\ count <= MaxBurst
      /\ count >= MinBurst \/ i' = FrameCount
  BY <1>3 DEF BurstDrops
<1>5. /\ max_loss_burst_frames' = IF max_loss_burst_frames >= count
                                  THEN max_loss_burst_frames ELSE count
      /\ dropped' = dropped \union i..(i + count - 1)
  BY <1>3 DEF BurstDrops
<1>6. PlayoutIsBest' /\ Progress' /\ Passed'
  <2>1. loss_bursts' \in Nat /\ arrival' \in [Frames -> Nat] /\ 0 + count <= FrameCount
    BY <1>1, <1>2, <1>4, Typed DEF ScheduleTypes
  <2>2. drawn' \subseteq Frames \X BurstLengths
    <3>1. i \in Frames
      BY <1>1, <1>2 DEF Frames
    <3> QED BY <1>2, <3>1, Typed DEF ScheduleTypes
  <2> QED BY <1>2, <1>4, <2>1, <2>2, DropTypes
<1>7. /\ loss_bursts >= Cardinality(Runs)
      /\ max_loss_burst_frames <= MaxBurst
      /\ max_loss_burst_frames = 0 \/ \E run \in Runs : Length(run) >= max_loss_burst_frames
      /\ \A run \in Runs : Length(run) >= MinBurst \/ run[2] = FrameCount - 1
  BY <1>2 DEF InductiveInvariant, BurstLosses
<1>8. PICK first \in 0..i : (first = i /\ i - 1 \notin dropped) \/ <<first, i - 1>> \in Runs
  <2>1. CASE i - 1 \notin dropped
    BY <1>1, <2>1
  <2>2. CASE i - 1 \in dropped
    <3>1. PICK run \in Runs : run[2] = i - 1
      BY <2>2 DEF InductiveInvariant, Passed
    <3>2. run = <<run[1], run[2]>> /\ run[1] \in Nat /\ run[1] <= run[2]
      BY <1>1, RunsAre, RunIsPair DEF IsRun
    <3>3. run[1] \in 0..i /\ <<run[1], i - 1>> \in Runs
      BY <1>1, <3>1, <3>2
    <3> QED BY <3>3
  <2> QED BY <2>1, <2>2
<1> DEFINE new == <<first, i' - 1>>
           old == <<first, i - 1>>
<1>9. /\ Runs' = (Runs \ {old}) \union {new}
      /\ Cardinality(Runs') = IF first = i THEN Cardinality(Runs) + 1 ELSE Cardinality(Runs)
  <2>1. settings \in Settings /\ Passed /\ Drops(count)
    BY <1>4, <1>5, Typed DEF PlayoutTypes, InductiveInvariant, Drops
  <2> QED BY <1>1, <1>4, <1>8, <2>1, RunsGrow
<1>10. /\ Length(new) = i' - first /\ Length(old) = i - first
       /\ Length(new) >= count /\ Length(new) > Length(old) /\ new[2] = i' - 1
       /\ Length(new) \in Int /\ Length(old) \in Int
  BY <1>1, <1>4 DEF Length
<1>11. Cardinality(Runs) \in Nat
  BY FS_CardinalityType DEF InductiveInvariant, Passed
<1>12. loss_bursts' >= Cardinality(Runs')
  BY <1>1, <1>2, <1>7, <1>9, <1>11
<1> HIDE DEF new, old
<1>13. new \in Runs'
  BY <1>9
<1>14. \E run \in Runs' : Length(run) >= max_loss_burst_frames'
  <2>1. CASE max_loss_burst_frames >= count
    <3>1. PICK run \in Runs : Length(run) >= max_loss_burst_frames
      BY <1>1, <1>4, <1>7, <2>1
    <3>2. CASE run = old
      BY <1>1, <1>5, <1>10, <1>13, <2>1, <3>1, <3>2
    <3>3. CASE run # old
      BY <1>5, <1>9, <2>1, <3>1, <3>3
    <3> QED BY <3>2, <3>3
  <2>2. CASE ~(max_loss_burst_frames >= count)
    BY <1>5, <1>10, <1>13, <2>2
  <2> QED BY <2>1, <2>2
<1>15. max_loss_burst_frames' \in Nat /\ max_loss_burst_frames' <= MaxBurst
       /\ max_loss_burst_frames <= max_loss_burst_frames' /\ count <= max_loss_burst_frames'
  BY <1>1, <1>4, <1>5, <1>7
<1>16. DrawnLosses'
  BY DrawnGrows
<1>17. ASSUME NEW run \in Runs'
       PROVE  Length(run) >= MinBurst \/ run[2] = FrameCount - 1
  <2>1. CASE run = new
    BY <1>1, <1>4, <1>10, <2>1
  <2>2. CASE run \in Runs
    BY <1>7, <2>2
  <2> QED BY <1>9, <2>1, <2>2
<1>18. BurstLosses'
  <2>1. UNCHANGED <<FrameCount, MinBurst, MaxBurst>>
    BY SettingsKept
  <2> QED BY <1>12, <1>14, <1>15, <1>17, <2>1 DEF BurstLosses
<1>19. IndependentLosses'
  BY <1>2 DEF IndependentLosses
<1> QED BY <1>6, <1>16, <1>18, <1>19 DEF InductiveInvariant
-----------------------------------------------------------------------------
(* What is chosen for the next frame is the best there is. *)
LEMMA StatusIsBest ==
  ASSUME InductiveInvariant, sequence < FrameCount
  PROVE  LET copies == {bundle \in Frames : Reaches(bundle, sequence)}
         IN  /\ Status \in StatusNames
             /\ Status = "decoded" <=> sequence \in copies
             /\ Status \in {"fec_attempt", "plc"} <=> copies = {}
             /\ settings.recovery_mode = "fec" /\ sequence + 1 \in Frames \ dropped
                /\ arrival[sequence + 1]
                      <= (sequence + settings.jitter_depth_frames) * kFrameDurationMs
                   => Status # "plc"
<1> DEFINE copies == {bundle \in Frames : Reaches(bundle, sequence)}
<1>1. /\ sequence \in Nat /\ sequence \in Frames /\ FrameCount \in Nat
      /\ EffectiveRedundancyFrames \in Nat
      /\ \A bundle \in Frames : carried[bundle] \in 0..EffectiveRedundancyFrames
  <2>1. sequence \in Nat
    BY Typed DEF PlayoutTypes, sequence
  <2> QED BY <2>1, Typed DEF PlayoutTypes, Frames
<1>2. sequence \in copies <=> InTime(sequence)
  BY <1>1 DEF Reaches, InTime
<1>3. ASSUME NEW bundle \in Frames, bundle # sequence
      PROVE  bundle \in copies <=> bundle \in Carriers
  <2>1. /\ bundle \in Nat /\ carried[bundle] \in 0..EffectiveRedundancyFrames
    BY <1>1, <1>3 DEF Frames
  <2>2. bundle \in copies <=>
           InTime(bundle) /\ bundle >= sequence /\ bundle - sequence <= carried[bundle]
    BY <1>3 DEF Reaches, InTime
  <2>3. bundle \in Carriers <=>
           /\ bundle \in (sequence + 1)..(sequence + EffectiveRedundancyFrames)
           /\ InTime(bundle) /\ bundle - sequence <= carried[bundle]
    BY DEF Carriers
  <2>4. bundle >= sequence /\ bundle - sequence <= carried[bundle]
           => bundle \in (sequence + 1)..(sequence + EffectiveRedundancyFrames)
    BY <1>1, <1>3, <2>1
  <2>5. bundle \in (sequence + 1)..(sequence + EffectiveRedundancyFrames)
           => bundle >= sequence
    BY <1>1, <2>1
  <2> QED BY <2>2, <2>3, <2>4, <2>5
<1>4. \A bundle \in Carriers : bundle \in Frames /\ bundle # sequence
  BY <1>1 DEF Carriers, InTime
<1>5. copies = {} <=> ~InTime(sequence) /\ Carriers = {}
  BY <1>1, <1>2, <1>3, <1>4
<1>6. InTime(sequence + 1) <=>
        /\ sequence + 1 \in Frames \ dropped
        /\ arrival[sequence + 1]
              <= (sequence + settings.jitter_depth_frames) * kFrameDurationMs
  BY DEF InTime
<1> HIDE DEF copies
<1>7. Status = IF InTime(sequence) THEN "decoded"
               ELSE IF Carriers # {} THEN "redundant"
               ELSE IF settings.recovery_mode = "fec" /\ InTime(sequence + 1)
                    THEN "fec_attempt" ELSE "plc"
  BY DEF Status
<1>8. /\ Status \in StatusNames
      /\ Status = "decoded" <=> sequence \in copies
      /\ Status \in {"fec_attempt", "plc"} <=> copies = {}
      /\ settings.recovery_mode = "fec" /\ InTime(sequence + 1) => Status # "plc"
  BY <1>2, <1>5, <1>7 DEF StatusNames
<1> QED BY <1>6, <1>8 DEF copies

LEMMA CountedExactly ==
  ASSUME stats \in Counters, NEW status \in StatusNames, NEW errors \in 0..1,
         Counted(status, errors)
  PROVE  /\ stats' \in Counters
         /\ stats'.decoded + stats'.fec_attempts + stats'.plc
               = stats.decoded + stats.fec_attempts + stats.plc + 1
         /\ stats.redundant + stats.fec_attempts + stats.plc = stats.late_or_missing
            => stats'.redundant + stats'.fec_attempts + stats'.plc = stats'.late_or_missing
         /\ stats'.decode_errors = stats.decode_errors + errors
<1> DEFINE d == IF status \in {"decoded", "redundant"} THEN stats.decoded + 1 ELSE stats.decoded
           r == IF status = "redundant" THEN stats.redundant + 1 ELSE stats.redundant
           f == IF status = "fec_attempt" THEN stats.fec_attempts + 1 ELSE stats.fec_attempts
           p == IF status = "plc" THEN stats.plc + 1 ELSE stats.plc
           l == IF status # "decoded" THEN stats.late_or_missing + 1
                                      ELSE stats.late_or_missing
           e == stats.decode_errors + errors
<1>1. /\ stats.decoded \in Nat /\ stats.redundant \in Nat /\ stats.fec_attempts \in Nat
      /\ stats.plc \in Nat /\ stats.late_or_missing \in Nat /\ stats.decode_errors \in Nat
  BY DEF Counters
<1>2. d \in Nat /\ r \in Nat /\ f \in Nat /\ p \in Nat /\ l \in Nat /\ e \in Nat
  BY <1>1
<1>3. /\ d + f + p = stats.decoded + stats.fec_attempts + stats.plc + 1
      /\ stats.redundant + stats.fec_attempts + stats.plc = stats.late_or_missing
            => r + f + p = l
  BY <1>1 DEF StatusNames
<1>4. stats' = [stats EXCEPT !.decoded = d, !.redundant = r, !.fec_attempts = f, !.plc = p,
                             !.late_or_missing = l, !.decode_errors = e]
  BY DEF Counted
<1> HIDE DEF d, r, f, p, l, e
<1>5. /\ stats' \in Counters
      /\ stats'.decoded = d /\ stats'.redundant = r /\ stats'.fec_attempts = f
      /\ stats'.plc = p /\ stats'.late_or_missing = l /\ stats'.decode_errors = e
  BY <1>2, <1>4 DEF Counters
<1> QED BY <1>3, <1>5 DEF e

LEMMA PlayFrameStep ==
  ASSUME InductiveInvariant, NEW errors \in 0..1, PlayFrame(errors), UNCHANGED settings
  PROVE  InductiveInvariant'
<1>1. /\ phase = "playing" /\ sequence < FrameCount
      /\ statuses' = Append(statuses, Status) /\ Counted(Status, errors)
      /\ UNCHANGED <<phase, carried, i, dropped, arrival, current_burst_length, lossStats>>
  BY DEF PlayFrame, schedule
<1>2. /\ Status \in StatusNames /\ statuses \in Seq(StatusNames) /\ stats \in Counters
  BY <1>1, StatusIsBest, Typed DEF PlayoutTypes
<1>3. /\ statuses' \in Seq(StatusNames) /\ Len(statuses') = sequence + 1
      /\ sequence \in Nat /\ DOMAIN statuses' = 1..(sequence + 1)
      /\ statuses'[sequence + 1] = Status
      /\ \A n \in 1..sequence : statuses'[n] = statuses[n] /\ n \in DOMAIN statuses
  BY <1>1, <1>2 DEF sequence
<1>4. /\ stats' \in Counters
      /\ stats'.decoded + stats'.fec_attempts + stats'.plc
            = stats.decoded + stats.fec_attempts + stats.plc + 1
      /\ stats.redundant + stats.fec_attempts + stats.plc = stats.late_or_missing
         => stats'.redundant + stats'.fec_attempts + stats'.plc = stats'.late_or_missing
      /\ stats'.decode_errors = stats.decode_errors + errors
  BY <1>1, <1>2, CountedExactly
<1>5. TypeOK'
  <2>1. ScheduleTypes'
    BY <1>1, Typed, SettingsKept DEF ScheduleTypes, lossStats
  <2>2. PlayoutTypes'
    BY <1>1, <1>3, <1>4, Typed, SettingsKept DEF PlayoutTypes
  <2> QED BY <2>1, <2>2, TypePartsNext
<1>6. CountersAddUp'
  <2>1. /\ stats.decoded + stats.fec_attempts + stats.plc = sequence
        /\ stats.redundant + stats.fec_attempts + stats.plc = stats.late_or_missing
        /\ stats.decode_errors <= sequence
    BY DEF InductiveInvariant, PlayoutIsBest, CountersAddUp, sequence
  <2>2. stats.decode_errors \in Nat
    BY <1>2 DEF Counters
  <2>3. stats'.decode_errors <= sequence + 1
    BY <1>3, <1>4, <2>1, <2>2
  <2> QED BY <1>3, <1>4, <2>1, <2>3 DEF CountersAddUp
<1>7. UNCHANGED <<Frames, settings>> /\ (\A bundle, frame : Reaches(bundle, frame)' <=>
                                                           Reaches(bundle, frame))
  BY <1>1, SettingsKept DEF Reaches
<1> DEFINE Best(status, frame) ==
             LET copies == {bundle \in Frames : Reaches(bundle, frame)}
             IN  /\ status = "decoded" <=> frame \in copies
                 /\ status \in {"fec_attempt", "plc"} <=> copies = {}
                 /\ settings.recovery_mode = "fec" /\ frame + 1 \in Frames \ dropped
                    /\ arrival[frame + 1]
                          <= (frame + settings.jitter_depth_frames) * kFrameDurationMs
                       => status # "plc"
<1>8. BestAvailable'
  <2>1. Best(Status, sequence)
    BY <1>1, StatusIsBest
  <2>2. ASSUME NEW n \in 1..sequence PROVE Best(statuses[n], n - 1)
    <3>1. n - 1 + 1 = n /\ n \in DOMAIN statuses
      BY <1>3
    <3> QED BY <3>1 DEF InductiveInvariant, PlayoutIsBest, BestAvailable
  <2>3. ASSUME NEW n \in 1..(sequence + 1) PROVE Best(statuses'[n], n - 1)
    <3>1. CASE n \in 1..sequence
      BY <1>3, <2>2, <3>1
    <3>2. CASE n = sequence + 1
      <4>1. n - 1 = sequence /\ statuses'[n] = Status
        BY <1>3, <3>2
      <4> HIDE DEF Best
      <4> QED BY <2>1, <4>1
    <3> QED BY <1>3, <3>1, <3>2
  <2>4. ASSUME NEW n \in 1..(sequence + 1) PROVE n - 1 + 1 = n
    BY <1>3
  <2> QED BY <1>1, <1>3, <1>7, <2>3, <2>4 DEF BestAvailable
<1>9. Passed' /\ IndependentLosses' /\ BurstLosses' /\ DrawnLosses'
  BY <1>1, LossesKept
<1>10. Progress'
  BY <1>1, SettingsKept DEF InductiveInvariant, Progress
<1> QED BY <1>5, <1>6, <1>8, <1>9, <1>10 DEF InductiveInvariant, PlayoutIsBest
-----------------------------------------------------------------------------
(* The end of a run of the simulation, good or bad, and after it. *)
LEMMA EndStep ==
  ASSUME InductiveInvariant, Fail \/ Finish \/ UNCHANGED vars, UNCHANGED settings
  PROVE  InductiveInvariant'
<1>1. /\ UNCHANGED <<carried, i, dropped, arrival, current_burst_length, lossStats,
                     statuses, stats>>
      /\ \/ phase = "encoding" /\ phase' = "failed"
         \/ phase = "playing" /\ phase' \in {"failed", "done"}
         \/ UNCHANGED phase
  BY DEF Fail, Finish, vars, schedule
<1>2. TypeOK'
  <2>1. ScheduleTypes'
    BY <1>1, Typed, SettingsKept DEF ScheduleTypes, lossStats
  <2>2. PlayoutTypes'
    BY <1>1, Typed, SettingsKept DEF PlayoutTypes
  <2> QED BY <2>1, <2>2, TypePartsNext
<1>3. CountersAddUp'
  BY <1>1 DEF InductiveInvariant, PlayoutIsBest, CountersAddUp
<1>4. BestAvailable'
  <2>1. UNCHANGED <<Frames, settings, dropped, arrival, carried, statuses>>
    BY <1>1, SettingsKept
  <2> QED BY <2>1 DEF InductiveInvariant, PlayoutIsBest, BestAvailable, Reaches
<1>5. Passed' /\ IndependentLosses' /\ BurstLosses' /\ DrawnLosses'
  BY <1>1, LossesKept
<1>6. Progress'
  BY <1>1, SettingsKept DEF InductiveInvariant, Progress
<1> QED BY <1>2, <1>3, <1>4, <1>5, <1>6 DEF InductiveInvariant, PlayoutIsBest

LEMMA Invariance == Spec => []InductiveInvariant
<1>1. InductiveInvariant /\ [Next]_vars => InductiveInvariant'
  <2>1. SUFFICES ASSUME InductiveInvariant, [Next]_vars PROVE InductiveInvariant'
    OBVIOUS
  <2>2. CASE UNCHANGED vars
    BY <2>1, <2>2, EndStep DEF vars
  <2>3. CASE Steps /\ UNCHANGED settings
    BY <2>1, <2>3, EncodeOrDelayStep, EndStep, DropOneStep, KeepOneStep, SkipOneStep,
       DropBurstStep, PlayFrameStep
    DEF Steps
  <2> QED BY <2>1, <2>2, <2>3 DEF Next, Returned
<1> QED BY <1>1, InitInductive, PTL DEF Spec

(* Every frame is played from the best copy that is there in time, and      *)
(* counted as what it was: run_opus_playout_simulation's loop over the     *)
(* frames.                                                                 *)
THEOREM BestCopyIsPlayed == Spec => []PlayoutIsBest
<1>1. InductiveInvariant => PlayoutIsBest
  BY DEF InductiveInvariant
<1> QED BY <1>1, Invariance, PTL

(* The longest run, as the summary names it. *)
LEMMA LongestRun ==
  ASSUME InductiveInvariant
  PROVE  LET longest == Max(Lengths \union {0})
         IN  /\ longest \in Int
             /\ longest \in Lengths \union {0}
             /\ \A run \in Runs : Length(run) <= longest
<1>1. /\ \A run \in Runs : Length(run) \in Int /\ Length(run) >= 1
  BY Typed, RunsAre, RunIsPair DEF Length, IsRun
<1>2. /\ Lengths \union {0} \in SUBSET Int
      /\ \A run \in Runs : Length(run) \in Lengths
      /\ \A n \in Lengths : \E run \in Runs : n = Length(run)
  BY <1>1 DEF Lengths, Length
<1>3. PICK m \in Lengths \union {0} : \A n \in Lengths \union {0} : m >= n
  <2>1. CASE Runs = {}
    <3>1. Lengths = {}
      BY <1>2, <2>1
    <3> QED BY <3>1
  <2>2. CASE Runs # {}
    <3>1. PICK run \in Runs : \A other \in Runs : Length(other) <= Length(run)
      BY <2>2 DEF InductiveInvariant, Passed
    <3>2. Length(run) \in Lengths \union {0}
          /\ \A n \in Lengths \union {0} : Length(run) >= n
      BY <1>1, <1>2, <3>1
    <3> QED BY <3>2
  <2> QED BY <2>1, <2>2
<1>4. Max(Lengths \union {0}) = m
  BY <1>2, <1>3, MaxIs
<1> QED BY <1>1, <1>2, <1>3, <1>4

(* What is reported of the losses is what was drawn: lost frames by         *)
(* themselves, the number and the longest of their runs; bursts, the number *)
(* of those drawn and the longest of them, each as far as the stream goes, *)
(* and no burst shorter than the least length asked for but the last.      *)
THEOREM LossesAreReported == Spec => []LossesAsReported
<1>1. ASSUME InductiveInvariant PROVE BurstsReported
  <2> DEFINE longest == Max(Lengths \union {0})
             least == Min({longest, MaxBurst})
             most == Max({Lost(burst) : burst \in drawn} \union {0})
             room == MinBurst * (loss_bursts - 1)
  <2>1. SUFFICES ASSUME i = FrameCount
        PROVE  IF settings.loss_model = "burst" THEN BurstsAsDrawn
               ELSE loss_bursts = Cardinality(Runs) /\ max_loss_burst_frames = longest
    BY DEF BurstsReported
  <2>2. /\ longest \in Int /\ longest \in Lengths \union {0}
        /\ \A run \in Runs : Length(run) <= longest
    BY <1>1, LongestRun
  <2>3. /\ max_loss_burst_frames \in Nat /\ MaxBurst \in Nat /\ loss_bursts \in Nat
        /\ MinBurst \in Nat /\ MinBurst >= 1
    BY <1>1, Typed DEF ScheduleTypes
  <2>4. \A run \in Runs : Length(run) \in Int /\ Length(run) >= 1
    BY <1>1, Typed, RunsAre, RunIsPair DEF Length, IsRun
  <2>5. longest = 0 \/ \E run \in Runs : longest = Length(run)
    BY <2>2 DEF Lengths, Length
  <2> HIDE DEF longest
  <2>6. longest >= 0
    BY <2>4, <2>5
  <2>7. CASE settings.loss_model = "independent"
    <3>1. /\ loss_bursts = Cardinality(Runs)
          /\ max_loss_burst_frames = 0
             \/ \E run \in Runs : Length(run) = max_loss_burst_frames
          /\ \A run \in Runs : Length(run) <= max_loss_burst_frames
      BY <1>1, <2>7 DEF InductiveInvariant, IndependentLosses
    <3>2. max_loss_burst_frames <= longest
      BY <2>2, <2>3, <2>6, <3>1
    <3>3. longest <= max_loss_burst_frames
      BY <2>3, <2>5, <3>1
    <3> QED BY <2>2, <2>3, <2>7, <3>1, <3>2, <3>3
  <2>8. CASE settings.loss_model = "burst"
    <3>1. /\ loss_bursts >= Cardinality(Runs)
          /\ max_loss_burst_frames <= MaxBurst
          /\ max_loss_burst_frames = 0
             \/ \E run \in Runs : Length(run) >= max_loss_burst_frames
      BY <1>1, <2>8 DEF InductiveInvariant, BurstLosses
    <3>2. /\ loss_bursts = Cardinality(drawn)
          /\ \A burst \in drawn : Lost(burst) \in Nat /\ Lost(burst) <= max_loss_burst_frames
          /\ max_loss_burst_frames = 0
             \/ \E burst \in drawn : Lost(burst) = max_loss_burst_frames
          /\ dropped = UNION {Stretch(burst) : burst \in drawn}
          /\ RoomForBursts
      BY <1>1, <2>8 DEF InductiveInvariant, DrawnLosses
    <3>3. max_loss_burst_frames <= least
      <4>1. least = IF longest <= MaxBurst THEN longest ELSE MaxBurst
        BY <2>2, <2>3, MinOfTwo
      <4>2. max_loss_burst_frames <= longest
        BY <2>2, <2>3, <2>4, <2>6, <3>1
      <4> QED BY <2>2, <2>3, <3>1, <4>1, <4>2
    <3>4. max_loss_burst_frames = most
      <4> DEFINE lost == {Lost(burst) : burst \in drawn} \union {0}
      <4>1. /\ lost \in SUBSET Int /\ max_loss_burst_frames \in lost
            /\ \A n \in lost : max_loss_burst_frames >= n
        BY <2>3, <3>2
      <4> HIDE DEF lost
      <4>2. Max(lost) = max_loss_burst_frames
        BY <4>1, MaxIs
      <4> QED BY <4>2 DEF lost
    <3>5. loss_bursts = 0 \/ room < Cardinality(dropped)
      <4>1. Cardinality(dropped) \in Nat
        <5>1. dropped \in SUBSET (0..(i - 1)) /\ i \in Nat
          BY <1>1, Typed DEF InductiveInvariant, Passed, ScheduleTypes
        <5> QED BY <5>1, BelowIsFinite
      <4>2. MinBurst * loss_bursts = room + MinBurst /\ room \in Int
        BY <2>3
      <4>3. MinBurst * loss_bursts <= Cardinality(dropped) \/ room < Cardinality(dropped)
        BY <3>2 DEF RoomForBursts
      <4> HIDE DEF room
      <4> QED BY <2>3, <4>1, <4>2, <4>3
    <3>6. BurstsAsDrawn
      BY <3>1, <3>2, <3>3, <3>4, <3>5 DEF BurstsAsDrawn, longest
    <3> QED BY <2>8, <3>6
  <2> QED BY <1>1, <2>7, <2>8, Typed
<1>2. ASSUME InductiveInvariant PROVE DropsComeInBursts
  BY <1>2 DEF InductiveInvariant, BurstLosses, DropsComeInBursts, Length
<1>3. InductiveInvariant => LossesAsReported
  BY <1>1, <1>2 DEF LossesAsReported
<1> QED BY <1>3, Invariance, PTL
=============================================================================
