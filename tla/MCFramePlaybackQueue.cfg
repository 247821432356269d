\* A queue of three frames offered five; callbacks shorter and longer than a frame.
\* Deadlock is off: the device calls back at most MaxCallbacks times.
SPECIFICATION Spec
CONSTANTS
    Capacity = 4
    kFrameSamples = 2
    PrerollFrames = 1
    OutputFrames = 3
    FadeOutFrames = 1
    MaxDecodeErrors = 1
    CallbackSamples = {1, 3}
    MaxCallbacks = 5
CHECK_DEADLOCK FALSE
INVARIANT HeardAsOffered
INVARIANT StatsAddUp
PROPERTY CutsAccountedFor
