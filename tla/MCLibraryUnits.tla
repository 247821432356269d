---------------------------- MODULE MCLibraryUnits ----------------------------
(* The units of the library, and the Lab's file loader, model-checked side by *)
(* side as tests/test_main.cpp runs their tests: they share no state, so each *)
(* behaviour exercises the one that Init chooses and leaves the others alone. *)
EXTENDS FixedJitterBuffer, UdpSocket, WavWriter, WireFormat, HoldAndDecayPlc,
        AdaptiveController, AudioFileLoad, TLC

CONSTANTS Units,        \* the units to exercise
          MaxCalls      \* bound: push and pop_expected calls made

ASSUME UnitsAssumption ==
    Units \subseteq {"buffer", "socket", "recording", "wire", "plc", "depth", "load"}

VARIABLE unit

unitVars == <<unit, vars, socketVars, writerVars, wireVars, plcVars, depthVars, loadVars>>

(* Objects and descriptors are interchangeable, and so are frame contents. *)
Symmetry == Permutations(Objects) \union Permutations(Fds) \union Permutations(Frames)

(* Redundancies below and above what fits; gaps around the period, three      *)
(* frames late as in the unit test (42 ms), and far enough apart (125 ms)    *)
(* for the quotient to be whole.                                             *)
MCRequests == {1, 4}
MCGaps == {0, 9, 10, 11, 42, 125}

(* Of a unit that is not exercised one initial state is as good as another. *)
MCInit ==
    /\ unit \in Units
    /\ Init /\ SocketInit /\ WriterInit /\ WireInit /\ PlcInit /\ DepthInit /\ LoadInit
    /\ unit # "socket" => use = [fd \in Fds |-> "free"]
    /\ unit # "wire" => program = "pcm" /\ requested = 1
    /\ unit # "plc" => mode = "periodic"
    /\ unit # "load" => file_samples = 0

Calls == bufferStats.inserted + bufferStats.popped + bufferStats.underruns
         + bufferStats.late_or_collided_packets

Others(name) ==
    /\ unit = name /\ UNCHANGED unit
    /\ name # "buffer" => UNCHANGED vars
    /\ name # "socket" => UNCHANGED socketVars
    /\ name # "recording" => UNCHANGED writerVars
    /\ name # "wire" => UNCHANGED wireVars
    /\ name # "plc" => UNCHANGED plcVars
    /\ name # "depth" => UNCHANGED depthVars
    /\ name # "load" => UNCHANGED loadVars

MCNext ==
    \/ Others("buffer") /\ Calls < MaxCalls /\ Next
    \/ Others("socket") /\ SocketNext
    \/ Others("recording") /\ WriterNext
    \/ Others("wire") /\ WireNext
    \/ Others("plc") /\ PlcNext
    \/ Others("depth") /\ DepthNext
    \/ Others("load") /\ LoadNext

MCSpec == MCInit /\ [][MCNext]_unitVars
===============================================================================
