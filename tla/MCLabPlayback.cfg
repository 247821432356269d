\* Three runs with audio of 0, 1 or 3 samples and a tail of 2; six inputs.
SPECIFICATION FairSpec
CONSTANTS
    Lengths = {0, 1, 3}
    TailSamples = 2
    CallbackSizes = {1, 2}
    MaxRuns = 3
    MaxInputs = 6
INVARIANT PreviewFits
INVARIANT DialogAccounted
PROPERTY StartsInAudio
PROPERTY PreviewEnds
