\* The shortest stream in which a late packet and an on-time one share a slot.
SPECIFICATION Spec
CONSTANTS
    FrameCount = 5
    Capacity = 4
    Depths = {1}
    RedundancyFrames = 0
    UseFec = FALSE
    MaxDuplicates = 0
    MaxInvalid = 0
    MaxDecodeErrors = 0
    NoFrame = noframe
    Synthetic = synthetic
    Silence = silence
PROPERTY PrimaryIsDecoded
