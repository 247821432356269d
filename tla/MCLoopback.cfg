\* Adaptive mode: five frames wrap the smallest jitter buffer.
SPECIFICATION MCSpec
CONSTANTS
    FrameCount = 5
    Capacity = 4
    MinDepth = 1
    MaxDepth = 3
    MaxDuplicates = 1
    MaxInvalid = 1
    MaxStray = 1
    NoFrame = noframe
    Concealed = concealed
INVARIANT InductiveInvariant
INVARIANT BufferHoldsTheFuture
INVARIANT PushNeverRefused
INVARIANT SummaryAddsUp
INVARIANT PlayoutLag
PROPERTY ImplementsIdealPlayout
PROPERTY EarlyBreakIsSafe
PROPERTY Terminates
