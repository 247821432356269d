\* Three frames at depths below and above the length of the stream; two repairs in a
\* bundle, so that frame 0 has two carriers; no copies; one foreign datagram.
SPECIFICATION FairSpec
CONSTANTS
    FrameCount = 3
    Capacity = 8
    Depths = {1, 2, 4}
    RedundancyFrames = 2
    UseFec = TRUE
    MaxDuplicates = 0
    MaxInvalid = 1
    MaxDecodeErrors = 1
    NoFrame = noframe
    Synthetic = synthetic
    Silence = silence
INVARIANT SummaryAddsUp
PROPERTY RealAudioWhenAvailable
PROPERTY EarlyExitIsSafe
PROPERTY EveryFrameIsOutput
