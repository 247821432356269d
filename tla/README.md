# UDP Audio Pipeline in TLA+

TLA+ modules of the UDP audio pipeline in this repository, the TLC runs that
check them on small instances, and TLAPS proofs of what matters most for every
value of the constants. Source paths are relative to the repository's root.

## The system

The programs send mono float audio in 10 ms frames over UDP on the loopback
interface, through a simulated impairment, and play what comes back.

| Part | Source | State | Operations |
|---|---|---|---|
| Fixed jitter buffer | `include/udp_audio/jitter/fixed_jitter_buffer.hpp` | slots (frame, number, occupied), counters | `push`, `pop_expected`, `peek_expected` |
| Adaptive controller | `include/udp_audio/jitter/adaptive_jitter_buffer.hpp` | estimates of the inter-arrival time, target depth | `observe_inter_arrival` |
| SPSC ring buffer | `include/udp_audio/concurrency/spsc_ring_buffer.hpp` | elements, two atomic indices | `push`, `pop` |
| Frame playback queue | `include/udp_audio/audio/frame_playback_queue.hpp` | a ring, the frame being rendered, atomic counters | `enqueue_preroll/output/fadeout`, `render` |
| PCM loopback | `apps/udp_audio_loopback.cpp` | pending packets, playout position, statistics | send, tail, final drain and settling loops |
| Opus loopback | `apps/udp_audio_opus_loopback.cpp` | the same, and the redundancy history | send, drain and tail loops, recovery |
| Opus bundle codec | `src/codec/opus_packet.cpp` | none | `serialize_opus_bundle`, `parse_opus_bundle` |
| Packet header | `src/protocol/packet.cpp` | none | serialise, parse, validate |
| UDP socket | `src/transport/udp_socket.cpp` | a descriptor | open, bind, send, receive, move, close |
| WAV writer | `src/audio/wav_writer.cpp` | stream, byte and frame counters | `open`, `write_frame`, `close` |
| PLC | `include/udp_audio/dsp/plc.hpp` | history ring, last frame | `accept_good_frame`, `synthesize_*` |
| Playout simulation | `src/sim/opus_playout_sim.cpp` | one run's schedule and result | loss schedules, offline playout |
| Lossy Audio Lab | `apps/lossy_audio_lab.cpp` | result; playback state and dialog state, each under a mutex | simulate, load, start, seek, stop, callback, dialog |
| miniaudio demo | `apps/udp_audio_miniaudio_playback.cpp` | a ring and a producer thread | produce, callback |

How they interact: `main` of each loopback is one thread. It sends, receives
into the jitter buffer, and calls `play_expected_frame`, which pops the buffer
and enqueues a frame. The audio device calls `render` on a thread of its own;
the SPSC ring is the only thing between the two threads. Sender and receiver are
two sockets of the same process, with UDP between them. The miniaudio demo has
the ring between a producing thread and the device's, and `main` beside both. In
the Lab the GUI thread, the device's and the file dialog's share state under two
mutexes; the simulation runs on the GUI thread.

What is hard: the network loses, duplicates and reorders; frames arrive after
they were due; slots of the jitter buffer are shared by all numbers of a
residue class; every loop of `main` ends at a deadline or on a comparison of
counters; a send or receive error ends `main` in the middle of a step, with a
device running and a recording open; two threads share the ring without a lock;
the device's callbacks cut frames at any sample; the Lab decides in one critical
section what it uses in the next; a full disk shows long after the write that it
fails; a datagram may be cut or foreign; concealed frames feed the history they
are made from. `PROJECT.json` lists each such hazard at its line, with the
properties that would catch it.

What makes each part correct:

- jitter buffer: a store keyed by number, in spite of shared slots;
- ring buffer: no data race, first in first out, bounded, nothing stuck;
- playback queue: the device hears exactly what was accepted, in order;
- PCM loopback: what arrived in time is played in its place, the rest is
  concealed, playout keeps its distance to the sender, the summary adds up,
  `main` returns;
- Opus loopback: the same, with a frame recovered whenever a copy has arrived;
- datagrams: what was sent is read, nothing behind the end of one ever is;
- socket: one owner for each descriptor, through every move and failure;
- WAV writer: a header that never promises more than the file holds;
- PLC: only recent samples are read, and a burst of losses fades;
- controller: the depth covers how late and how uneven arrivals are, and no more;
- simulation: each frame is played from the best copy in time, and the reported
  losses are those of the schedule;
- Lab: the preview played is that of the last result;
- all programs: whatever was acquired is released once, in order, on each way out.

## The modules

`SequenceStore`, `BoundedFifo` and `IdealPlayout` are abstract specifications.
They say what a component promises and contain nothing of how.

**FixedJitterBuffer** is the class, one action per outcome of each method.
`ImplementsStore` maps it to `SequenceStore`: a partial function from numbers to
frames.

**SpscRingBuffer** splits `push` into `PushLoad`, `PushWrite`, `PushPublish` and
`pop` into `PopLoad`, `PopCopy`, `PopPublish`, at the accesses to shared memory.
Since each index has one writer, its value history is a counter modulo the
capacity, and a load returns some entry not older than the last one returned. An
acquire load of a release store makes the earlier steps of the storing thread
happen before; `producerSynced` and `consumerSynced` record how far. The memory
orders in the code are the four `...Order` definitions, so weakening one of them
makes `NoDataRace` fail. `ImplementsFifo` maps it to `BoundedFifo`; a push takes
effect when published, a pop when it has copied.

**FramePlaybackQueue** composes the ring's own steps with `render` and with what
both loopbacks' `main` does around it: preroll before the device starts, output
and fade-out while it runs, the wait for `expected_device_frames` or the
deadline, `ma_device_stop`. Sample k of the n-th accepted frame is the number
n * kFrameSamples + k. `ExpectedSamples` is what `main` waits for, whatever the queue
refused: the frames played (PCM) or decoded (Opus), and those concealed, with preroll
and fade-out. In the Opus program a frame that no decoder produces is enqueued as
silence and counted in neither (`undecoded`), so `main` may stop that much earlier:
`CutsAccountedFor` says what a stop before the deadline cuts off, and no document of
the repository promises more. The PCM program is the case `undecoded = 0`.

**ImpairedPath** is `schedule_packet` and `release_due_packets`, and, as external
behaviour, the UDP path: `Deliver` may keep a copy in flight and may deliver in
any order, `Lose` discards. Both loopbacks extend it. A packet is its number.
Due times and clocks are abstracted: in each pass any subset of the pending
packets may be due, and a loop with a deadline may end at any test of it.

**Loopback** is `main` of the PCM program after setup. `phase` names the loop
(send, tail, final, settle), `step` the position inside it. A release pass and
`play_expected_frame` with the increment that follows it are one step each, and
`drain_receiver` is one step per datagram: they run on one thread, so only the
network moves in between. `target_depth` takes any value that the clamp in
`observe_inter_arrival` allows, from the second accepted packet on; with
`MinDepth = MaxDepth` this is the fixed mode. A failed send or receive goes to
phase "failed" from every place where `main` returns 1. `LoopbackProperties`
holds the properties and the refinement of **IdealPlayout**, a receiver with no
buffer that plays what it accepted before its turn and conceals the rest.

**OpusLoopback** is `main` of the Opus program; `jitter_depth_frames` is one of
`Depths`, chosen at the start. `repairs` is what `serialize_opus_bundle` put into
each bundle: some number of the newest members of `redundancy_history`, since the
payload limit may leave no room for more. `PlayMissing` tries, in the order of
the code, a redundant copy (`find_redundant_packet`), in-band FEC and PLC; any of
them may fail to decode. The jitter buffer is `FixedJitterBuffer` in both,
instantiated with the state variables of the program.

**DeviceLifecycle** is what the two loopbacks and the Lab acquire in which order
(`Order`, walked by `SkipStep`, `Acquire`, `BringUpDevice`, `EndStream` and `Fail`),
and the calls each way out makes, as the code lists them (`PcmReleases`,
`OpusReleases`, `LabReleases`, worked off by `DeviceStop`, `DeviceUninit`,
`CloseRecorder`, `DestroyCodec`) before `LeaveScope` runs the destructors of `main`'s
locals. Meanwhile the device's thread begins and ends callbacks on the local
`playback_state`.

**SinePlayback** is the miniaudio demo: `main`, the producing thread and the
callback. Its queue is a `BoundedFifo`, which is what the ring implements, with
threads that may not yet see the other's last step. What has been heard is judged
by counting its samples that are not filled in (`AudibleAmong`).

**LabPlayback** has the GUI thread, the device's callback and the dialog's
callback as interleaved critical sections. A playback buffer is the run it was
made from and its size. **AudioFileLoad** is the loader's read loop, with a
decoder that returns any part of what was asked and fails at any read.

**OpusPlayoutSim** is the Lab's simulation: the choice of repairs, both loss
schedules, the arrival times, and the offline playout. Draws are nondeterministic.

**WireFormat** is the packet header, the PCM payload and the Opus bundle, byte by
byte, with sequence numbers and timestamps that wrap at 32 bits: a datagram is
serialised, cut or changed on the way or not, and checked as `drain_receiver` does.
That the header and the largest Opus packet fit the largest payload, and that this
one fits 16 bits, are assumptions on the constants, as the code's have it. **UdpSocket** is the class over a table of descriptors that
other code opens and closes as well. **WavWriter** is the recorder over a stream
that buffers and may fail in any call. **HoldAndDecayPlc** is the history ring; a
sample is the received samples and decays that make it up, and the estimated
period is any that the search may return, or none. **AdaptiveController** is the
estimator in exact fractions, mean and deviation over a common denominator; where
rounding would decide between two depths, both are taken.

**MCLibraryUnits** model-checks these five, the jitter buffer and the loader side
by side. They share no state, so each behaviour exercises the one that its
first state names and leaves the others alone, as `tests/test_main.cpp` runs
their tests. What connects them to the programs is the interface each program's
module assumes: any depth within the clamp, any number of repairs, a delivered
packet that is the one sent.

| Program | Model |
|---|---|
| `pending_packets` | `pending` |
| `next_play_sequence`, `i`, `sequence` | the same names |
| `jitter_buffer` | `frames`, `sequences`, `occupied`, `bufferStats` |
| `LoopbackStats` counters | variables of the same names, in Opus `stats` for playout |
| `queue_`, `current_frame_`, `current_offset_` | the ring's variables, `current_frame`, `current_offset` |
| `PlaybackState` of the Lab | `samples`, `cursor`, `playing`, `callback_underruns`, `rendered_samples` |
| `FileDialogState` | `selected_path`, `message`, and `file_dialog_open` of `main` |
| `output_` of the recorder | `is_open`, `good`, `disk`, `buffered` |
| history variables, not in the program | `ontime`, `arrived`, `latecomers`, `output`, `heard`, `lost`, `duplicated`, `origin`, `shortest`, `longest`, `broken` |

Operators whose comment begins "Mutant of" are not part of the specification.
Each is a plausible mistake in the operator that follows it, which makes the
property named in `PROJECT.json` fail.

## The runs

A property such as `SummaryAddsUp` is a conjunction of named parts, each with a
comment of its own, among them the module's type invariant.

| Run | Shows | Bounds, and why they are enough |
|---|---|---|
| `loopback` | `ImplementsIdealPlayout`; the buffer's contents (`BufferHoldsTheFuture`, `PushNeverRefused`); `SummaryAddsUp`: packets, frames and the end state; `PlayoutLag`; `EarlyBreakIsSafe`; `Terminates`; `InductiveInvariant` of the proofs | 5 frames and 4 slots, so number 4 reuses slot 0; depth 1 to 3, the most 4 slots admit; one copy or one foreign datagram |
| `opus_recovery` | `SummaryAddsUp` through decode failures; `RealAudioWhenAvailable`; `EarlyExitIsSafe`; `EveryFrameIsOutput` | 3 frames; depths 1, 2 and 4, the last longer than the stream, so that the tail plays everything; 2 repairs, so frame 0 has two carriers; FEC, one decode failure, one foreign datagram |
| `opus_wrap` | `EverythingInItsPlace`: no audio of another frame, repairs are the previous frames, only latecomers linger | 5 frames in 4 slots, so a latecomer meets its successor in the slot |
| `opus_latecomer` | a finding, below | as `opus_wrap`, without repairs |
| `spsc_ring` | `NoDataRace`, `IndicesInOrder`, `ImplementsFifo`, `EveryItemIsTaken` | 4 slots, 9 pushes: the indices wrap twice |
| `playback_queue` | `HeardAsOffered`: in order, and silence only between frames; `StatsAddUp`; `CutsAccountedFor` | 3 usable slots for 5 frames, so frames are dropped; one frame that no decoder produces; frames of 2 samples, callbacks of 1 and 3, so frames and callbacks cut each other; 5 callbacks reach the expected count |
| `sine_playback` | `SharedInOrder`: frames in order, statistics, no thread or callback left; `MainReturns` | 2 frames of preroll fill the queue, 3 more are produced, callbacks cut and span frames, 9 samples |
| `lab_playback` | `PreviewFits`: the buffer is the last result's and its counters are its own; `DialogAccounted`; `StartsInAudio`; `PreviewEnds` | 3 simulations of length 0, 1 or 3, tail 2, callbacks of 1 and 2: buffers shorter and longer than their successors; 6 inputs |
| `device_lifecycle` | `CallbackStateAlive`, `ReleasedInOrder`, `EveryWayOutReturns` | none: every program, option and failing call |
| `opus_sim` | `PlayoutIsBest`, with its counters; `LossesAsReported` | three settings: independent losses with jitter beyond the depth and repairs; bursts, adjoining and cut by the end; bursts with limits that must be clamped |
| `library_units` | `ImplementsStore` (buffer); `SocketsAreOwned`, `MoveKeepsSocket`; `RecordingIsHonest`; `DatagramsInBounds`, `ReadAsSent`; `ConcealmentIsSound`; `DepthIsJustified`; `WholeOrTrimmed` (loader) | below |
| `plc_decay` | a finding, below | the PLC of `library_units` alone |

`library_units`: the buffer has 4 slots and numbers 0, 1, 4, 5, 8, so three share
a slot, and 6 calls fill, refuse, overwrite, pop and reuse one. Three socket
objects and three descriptors admit a move between two while a third descriptor
is taken by other code. The recorder's words are 64 instead of 2^32 and its buffer
8 bytes, so the clamp, the wrap of the outer length and a write that fails after
several that did not are all reached in 14 frames. Bytes are below 8, so a u16
wraps, and the payload limit of 42 bytes fits some repairs and refuses others. The
PLC has frames of 8 samples, for periods below, at and above a frame, and 5 frames:
two bursts. Gaps are at the period and one above and below it, just late enough for
a second frame, late by several, none at all, and 125 ms apart, where the quotient of
the depth is whole. The loader's files end before, at and after the
limit and the piece. Symmetry holds for objects, descriptors and frame contents,
none of which is named by any definition.

Bounds that are not the program's: `MaxDuplicates`, `MaxInvalid`, `MaxStray`,
`MaxDecodeErrors`, `MaxCalls`, `MaxPushes`, `MaxCallbacks`, `MaxRendered`,
`MaxRuns`, `MaxInputs`, `MaxWaiting`, `MaxRecorded`, `MaxPackets`,
`MaxObservations`, and `MaxFrames` of the PLC and the demo. Foreign datagrams
change two counters and nothing else, so one of them is enough. Deadlock is
checked except in `playback_queue`, `sine_playback`, `library_units` and
`plc_decay`, whose callers stop.

A foreign datagram here is one that is too short or whose header or bundle is not
valid (`ReceiveInvalid`). Neither program checks that a well-formed packet belongs to its
stream (`apps/udp_audio_loopback.cpp:329-346`,
`apps/udp_audio_opus_loopback.cpp:410-424`): that nobody else sends such packets to the
receiver's port is an assumption on the environment.

What the runs leave to others. `PreviewEnds` is checked with finitely many inputs,
which amounts to a user who stops giving any. `MainReturns` and `SharedInOrder` say that
`main` of the demo ends with the thread joined; that it tells the thread to stop when
the device does not start saves time only, since the thread ends by the clock too, and
no property bounds times. The mutant of `EveryWayOutReturns` is a device library whose
callback may begin again while it is stopped. `OffsetsInside` follows nearly from the
clamps of window and period; what is hard about the ring is in the other parts of
`ConcealmentIsSound`.

`EarlyBreakIsSafe` and `EarlyExitIsSafe` compare `received` with `sent`. A
duplicate makes the first as large as the second while something is still under
way, so they are stated for a network without duplicates, which is what the
loopback interface provides. In the PCM program `received` does not count late
datagrams: after one late or lost datagram the break is never taken again, and
each receive loop runs until its deadline, which costs 2 ms a tick and no frame.

`CallbackStateAlive`, `EverythingReleased` and `RecordingPatched` name what the
programs leave out: when a socket call fails in the PCM program's loops, `main`
returns with its device running, its callback still using a local of `main`, and
the recording's header unpatched; a Lab device that was initialised but does not
start is not released. No document or test of the repository says otherwise, so
these are stated as exceptions and not as findings.

## Fairness

The loopbacks assume weak fairness of the program's steps, calls that fail not
among them (the thread keeps running, and no failure rescues a loop that would
not end), and strong fairness of the steps that leave a loop at its deadline:
time passes, so a loop that keeps testing its deadline finds it expired. Nothing
is assumed of the network. `MCSpscRingBuffer` assumes that a call that was begun
ends, that the device keeps calling `pop`, and, strongly fair, that a published
index becomes visible to it, as the C++ standard asks of atomic stores. In
`DeviceLifecycle` and `SinePlayback` the program's threads run and a callback that
was begun ends, which is what `ma_device_stop` waits for; whether callbacks come
is left open. In `LabPlayback` the device keeps calling back, a simulation
ends and the event loop turns; nothing is assumed of the user, so `PreviewEnds`
says that a preview ends or is stopped.

## Findings

`opus_latecomer`: the Opus program buffers packets whose playout has passed
(`apps/udp_audio_opus_loopback.cpp:424`; the PCM program discards them at
`apps/udp_audio_loopback.cpp:337`). Nothing pops them, so the slot stays
occupied and `push` refuses every later packet of the same residue class, one in
64, for the rest of the stream. Those packets arrive in time and are repaired or
concealed, while `docs/OPUS_REDUNDANCY.md:3-4` says that the primary packet is
still decoded normally. `OnlyLatecomersLinger` and `EveryFrameInItsPlace` confine
the damage: it takes a late packet, and no wrong audio is ever played. It is why
`RealAudioWhenAvailable` is checked for a stream that fits the buffer.

`plc_decay`: `kGainDecayPerLostFrame` (`include/udp_audio/dsp/plc.hpp:20`) is
applied once per estimated period and not once per lost frame. A lost frame is
read back one period ago from the history it is written to itself, so that with
a period shorter than a frame its later samples repeat, and decay again, its
earlier ones. `tests/test_plc.cpp:53` asserts one factor for the second frame
lost in a row, with frames too short for a period to be found. `BurstFades` says
what remains true: the decay is applied at least as often as the name says, the
samples at the start correction aside.

## What is proved

`tlapm` checks, without assumptions other than the named `ASSUME`s on constants:

- **FixedJitterBufferProofs**: `TypeCorrect`, and `StoreRefinement`: the buffer
  implements `SequenceStore` for every capacity of at least 4 and any set of
  numbers. `InsertEffect`, `PopEffect` and `MissEffect` say what a method does to
  the mapped store, from the type invariant alone. `NoFrameFromNowhere`: frames
  popped and frames held are together at most the pushes that were accepted.
- **LoopbackProofs**: `TypeCorrect`, `NoPushRefused`, `BufferExact` and
  `PlayoutRefinement`, from `Invariance`, for every stream length and any network;
  then `SummaryExact`, `LagBounded` and `EarlyBreakAbandonsNothing`, from the same
  invariant and three more parts; `BufferAsUsed`: every step of the program is a
  call of the jitter buffer or leaves it alone, so `Spec` implies `Buffer!Spec` and
  what was proved of the buffer by itself, `ImplementsStore` included.
- **OpusLoopbackProofs**: `InItsPlace` and `SummaryExact` for every stream, depth,
  redundancy and network; `EarlyExitAbandonsNothing` for a network that makes no
  copies (`MaxDuplicates = 0`); `RealAudioIsUsed` for a stream that fits the buffer
  (`FrameCount <= Capacity`); `BufferAsUsed` again, with latecomers pushed.
- **SpscRingBufferProofs**: `TypeCorrect`, `RaceFreedom`, `NoOverstep` and
  `FifoRefinement` from `Invariance`, for every capacity and any number of calls.
- **FramePlaybackQueueProofs**: `HeardExactly`, `CountsExact` and
  `StopIsLateEnough`, for every capacity, frame size, sequence of callback sizes and
  interleaving of the two threads; `RingAsUsed`: the two threads are the ring's
  producer and consumer, so `Spec` implies `queue_!Spec`, that there is no data race,
  and `queue_!ImplementsFifo`.
- **LibraryUnitProofs**: of the sockets `SocketTypeCorrect`, `Ownership` and
  `MovesAreSafe`, for any number of objects and descriptors; of the recorder
  `HonestRecording`, for every frame size, stream buffer and word size; of the
  loader `LoadsWholeOrTrimmed`, for every file, limit and piece; of the controller
  `DepthJustified`, for every sequence of gaps, period and pair of limits, with the
  code's smoothing factor of 0.08; of the PLC
  `ConcealsSoundly`, for every mode, frame size and sequence of losses; of the wire
  format `DatagramsFit` and `SentIsRead`, for every width of a byte, size of packet,
  redundancy and whatever arrives, and `BundleIsTheNewest`: an intact bundle is the
  packet encoded last with the packets just before it, newest first and at most as
  many as asked for, each under its own number, which is what `OpusLoopback` lets a
  bundle carry; of the Lab `PreviewConsistent`, `OneDialog` and
  `AudibleStart`, for any lengths, callbacks and number of inputs.
- **DevicePlaybackProofs**: of the demo `TonePlayedInOrder`, for every queue, frame,
  callback, preroll and duration; of the three programs with a device
  `LifecycleInvariant`, `CallbackNeverOutlives` and `EveryWayOutReleases`, for every
  program, option, failing call and moment at which a callback begins or ends, and
  `MainNeverCircles`: a bound of 30 on what `main` has still to do (`WorkLeft`), which
  each of its steps lowers and no callback raises.
- **OpusPlayoutSimProofs**: `BestCopyIsPlayed` and `LossesAreReported`, for every
  setting, encoder and draw.

The argument for the PCM loopback. That a push is never refused does not follow
from the buffer: it needs that a wanted number never lies `Capacity` or more
from another one inside. `Window` says that everything pending, in flight or
buffered is at most `i`, and that `i` is at most `MaxDepth` ahead of
`next_play_sequence`; the late test keeps older numbers out; `MaxDepth <
Capacity` does the rest. `BufferHoldsTheFuture` makes this inductive, because it
says what a pop leaves behind, and `Control` says where the counters may be at
each position of `main`. `PlayoutRefinement` then reads off that the frame popped
is the frame accepted.

The argument for its summary. A number is pending or in flight but not both, and
the number about to be scheduled is neither (`Ledger`), so every set changes its
size by what the counters say. What was played are the accepted numbers that
playout has passed (`Playback`), and after the tail all have been passed. The lag
grows or stays while the sender runs, and a frame is only played at `MinDepth` or
more (`Lag`). Leaving early without copies is safe because the ledger then leaves
nothing for the network to hold.

The argument for the ring. `IndicesInOrder` orders the four counters, what a
thread has seen is what it is synchronised with, and a thread past its test
knows that there is room or an item; `NotFull` turns the comparison of remainders
into one of counts. `Contents` places every item inside, which gives the queue
of the refinement.

The argument for the Opus program. `EverythingInItsPlace` speaks of the output,
the bundles and the buffer; to be inductive it needs to know where `main` is
(`Control`), that nothing is under way that was not scheduled (`Travelling`), that
`redundancy_history` is the run of numbers before the next one (`History`), that a
bundle reaches no further than it is allowed to (`RepairsReach`), and that every
slot holds a packet that arrived, under its own number (`BufferHoldsArrivals`).
Playout takes the audio of a frame from its own packet or from a bundle that
repairs it, and both hold the right frame, so whatever lingers in a slot can block
a packet but never stand in for one. That only latecomers linger follows because a
pop empties the slot of the number it asks for, and because two packets that meet
in a slot are `Capacity` apart, of which the sender is at most the depth ahead:
the older one was overtaken by playout.

The argument for its summary is that of the PCM program, with two differences. A
refused push is counted by the buffer, and a missing frame may try two or three
decoders, so `opus_decode_errors` only bounds the silent frames and `underruns` only
bounds the frames made up: `CountersAddUp` says `>=` and `<=` there, and the proof
shows that no combination of attempts does better. `RealAudioIsUsed` needs that no
push is ever refused, which is false in general (see Findings): with `FrameCount <=
Capacity` no two numbers share a slot and `NothingRefused` is inductive. Only a
repeated packet is refused then, and its first copy is held.

The argument for the playback queue. What has been heard of the stream is, at
every step, exactly `Position`: `kFrameSamples` for each frame popped, less what is
left of the frame in hand (`PlaybackPosition`). A copy begins at the sample number
`Position` and advances both by the same count; silence changes neither, and is
only inserted when the frame in hand is used up, that is at a multiple of
`kFrameSamples`, by `ModMultiple`. That the frame popped is the next one is the
ring's own invariant, which holds here because each step of this module is one of
the ring's or leaves it alone. The stop then follows from the counters alone: what
was rendered is at least everything offered but the frames that no decoder produced, so
what is not yet heard of the accepted frames is at most the silence and as many.

The argument for the sockets. `SocketsAreOwned` is inductive as it stands: an
object drops its descriptor in the same call that closes it or hands it over, so
the kernel cannot give it to anyone while an object still holds it.

The argument for the recorder. Until a call fails, file and buffer together hold
the header and all that was counted; after that and after `close` nothing is
buffered, and the file and its header stay as they are. The header has length 0
while the file is open, so the only other length it ever gets is the file's.

The argument for the loader. No read asks for more than is missing from the
limit, so `loaded` never passes it or the end of the file; the probe is reached only
at one of the two or after an empty failure, and what it finds is whether the file
goes on, unless the probe itself fails (`LoadInv`). `broken` remembers the first read
that failed and how, since a longer file goes unannounced only after one.

The argument for the controller. `EstimateInside` is inductive once it says a little
more (`Estimates`): while the gaps differ, the deviation is not zero and stays strictly
below their difference. Without that strictness a frame added in rounding would not
be explained by the spread, and `DepthIsExplained` would fail. A late gap is below
the longest one, so `Ceil` of either budget is at most that of the observed range
(`CeilLeast`), whatever the power of 25 in the denominator. From below, `Heeds` keeps
the deviation in proportion to the last gap's distance from the mean it has moved, and
`ExtraCovers` says of the quotient that it is enough for the last gap's lateness and
twice the deviation (`Needed`) and that one frame less would not be (`NoneToSpare`).

The argument for the PLC. The ring holds the newest samples of the signal
(`RingHoldsRecent`) with each of a frame's samples written as it is made: `RingInLoop`
says so of the ring in the middle of the frame, in terms of the signal and what is
`done` of the frame. A period is at most a frame and at most half the history, so a
sample is read from the last frame of the signal or from the samples just made, and
never past the start (`SampleIs`). What
holds of the last frame's samples and survives the gain therefore holds of every
sample made from them, the ones made earlier in the same frame included. Since the
frame is a recursive function, that step is a least-number argument over its samples
(`LeastNumber`), once for where the parts come from (`SampleKeeps`) and once for how
often they have decayed (`SampleFades`). `FreshEnd` and `FadedEnd` carry both facts
from frame to frame; the start correction adds the last sample as it is, which puts
the beginning of the next frame one decay behind.

The argument for the wire format. Every piece that is written is followed to the
offset where it is read: `Holds(u, offset, s)` says that the bytes of `u` from `offset`
on are `s`, and it composes (`HoldsAfter`) and yields what is read there (`HoldsRead16`,
`HoldsRead32`, `HoldsCopy`). No bundle has more than three repairs, so the sums over
them, `Projected` on the sending and `RepairAt` on the receiving side, are unrolled to
three, and with `RepairCount` the largest number that fits, `FullButNotOverfull`
follows (`BundleFits`). `BundleReadBack` compares the two sums entry by entry. Of what
arrives, however changed, each range that was accepted was compared with the end of
the datagram before it was copied (`BundleAccepted`). A shortened datagram keeps its
header's `payload_size` or loses the header (`HeadedCut`), and is refused either way.
`BundleIsTheNewest` adds that packets are numbered in turn (`NumberedInTurn`), so the
place of a repair in the bundle tells its number.

The argument for the demo. `main`, the producing thread and the device are in step
as `Phases` says: nothing is played before `main` has started the device, and the
thread is through when `main` is past the join. The queue holds the consecutive
numbers after the frame in hand (`QueueInOrder`), so what was heard, the samples filled
in left out, is exactly `Position`: all frames up to the one in hand, of which
`current_offset` samples (`PlayedInOrder`).

The argument for the device. `CallbackStateAlive` and `ReleasedInOrder` are not inductive: whether a callback is
still covered when `main` returns depends on the calls it has yet to make.
`LifecycleInv` says that what `main` still holds on its way out is what it will still
release, call by call, and that it will not release anything else (`ReleaseInv`,
`RecordingInv`). It starts from what the setup has acquired, which the position in it
and the failed step tell (`SetupInv`). That no call is made twice, and no stop after
an uninit, is a fact about the lists (`Ordered`) which taking the first call off keeps
(`RestOrdered`). A callback begins only on a started device, and only the end of
`ma_device_stop`, which waits for it, takes that away (`CallbackInv`).

The argument for the simulation. One more drop either extends the run of losses it
adjoins or begins a run, and leaves all others alone (`RunsGrow`). The independent
schedule therefore counts a run when its first frame is dropped, and knows its
length so far (`IndependentLosses`). Two bursts may adjoin, so the burst schedule
counts more than can be seen in what was dropped: at least as many bursts as there are
runs, the longest no longer than the longest run (`BurstLosses`). What it counts is
therefore compared with the bursts drawn, which the history `drawn` keeps
(`DrawnLosses`): every one began before `i` and so is a new one, they cover what was
dropped, and each but one cut by the end takes room for `MinBurst` frames
(`RoomForBursts`). Playout has every arrival before it,
and a bundle carries at most the frames that `find_best_recovery` looks back
for, so what it finds is the best there is (`StatusIsBest`).

The argument for the Lab. The conjunction of `PreviewFits` and `DialogAccounted`
is inductive: `clear_playback` precedes every simulation, so while one runs
there is no buffer, and a buffer that exists has been made from the present
result; it is therefore never shorter than the result, a start inside the result
is inside the buffer, and the callback's cursor and counter advance together.

Only model-checked: liveness (`Terminates`, `EveryFrameIsOutput`, `EveryItemIsTaken`,
`PreviewEnds`, `MainReturns`, `EveryWayOutReturns`), which is out of the prover's
reach: `MainNeverCircles` proves of the last one that `main` cannot go on for ever,
and leaves to TLC that it is never stuck on the way. The two findings are refutations,
which are TLC's. Every safety property of every passing run is a theorem. Two of them
have hypotheses that the network or the stream must meet, named above.

## Not modelled

- Option parsing and the Lab's sliders: each option is checked by itself, and
  whatever they yield is a constant or a choice in `Init` here.
- Wording and drawing, and the latencies and levels that are only printed.
- Sample arithmetic: gain kernels, sources, boundary smoothing, the correlation
  that estimates a period, and the SIMD variants. They have no control state;
  where their result decides something, as a period does, any result is taken.
- The variance of `AdaptiveJitterController`, from which nothing is computed, and
  `AdaptiveJitterBuffer`, which no program uses.
- The smoke test, the benchmark and the version: straight-line programs.
- What SDL does with an open file dialog after `SDL_Quit`, and the Opus coder:
  neither is in the repository.

## Plan

- A playback queue over `BoundedFifo` in place of the ring's own steps, for longer
  streams: `RingAsUsed` proves that the ring is one there.
- `AdaptiveController` and `Loopback` composed, with the gaps that the arrivals
  themselves produce.
- The wire format's packets in place of numbers in `OpusLoopback`, so that
  `RepairCount` decides how many repairs a bundle carries. `BundleIsTheNewest` is
  the half of it that `OpusLoopback` relies on.
