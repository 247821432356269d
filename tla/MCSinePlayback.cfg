\* Two frames of preroll, three of the thread's, calls that cut frames and span two.
SPECIFICATION FairSpec
CONSTANTS
    QueueLimit = 2
    kFrameSamples = 2
    PrerollFrames = 2
    MaxFrames = 3
    CallbackSamples <- MCCallbackSamples
    MaxRendered = 9
CHECK_DEADLOCK FALSE
INVARIANT SharedInOrder
PROPERTY MainReturns
