\* Both loss models, each with settings that bring out its hard cases.
SPECIFICATION Spec
CONSTANTS
    Settings <- MCSettings
    kFrameDurationMs = 1
    MaxDecodeErrors = 1
INVARIANT PlayoutIsBest
INVARIANT LossesAsReported
