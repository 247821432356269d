\* A stream longer than the buffer: packet 4 shares a slot with packet 0.
SPECIFICATION Spec
CONSTANTS
    FrameCount = 5
    Capacity = 4
    Depths = {1}
    RedundancyFrames = 1
    UseFec = FALSE
    MaxDuplicates = 0
    MaxInvalid = 0
    MaxDecodeErrors = 0
    NoFrame = noframe
    Synthetic = synthetic
    Silence = silence
INVARIANT EverythingInItsPlace
