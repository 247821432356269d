\* Each unit alone, as far as its bounds go.
\* Deadlock is off: the callers stop after a bounded number of calls.
SPECIFICATION MCSpec
CONSTANTS
    Units = {"buffer", "socket", "recording", "wire", "plc", "depth", "load"}
    Capacity = 4
    Sequences = {0, 1, 4, 5, 8}
    Frames = {f1, f2}
    EmptyFrame = empty
    MaxCalls = 6
    Objects = {sender, receiver, temporary}
    Fds = {fd1, fd2, fd3}
    kInvalidSocket = none
    Ports = {port1}
    Unbound = unbound
    MaxWaiting = 1
    kFramePayloadBytes = 5
    HeaderBytes = 4
    BufferBytes = 8
    Word = 64
    ClampMargin = 4
    RiffBytes = 9
    MaxRecorded = 14
    ByteBase = 8
    Magic = 13
    Version = 1
    MaxPayloadBytes = 42
    BundleMagic = 7
    BundleVersion = 1
    MaxOpusPacketBytes = 3
    kFrameSamples = 30
    FramePayloadBytes = 4
    Requests <- MCRequests
    MaxPackets = 4
    Stale = Stale
    FrameSamples = 8
    MinHistory = 16
    MinWindow = 8
    PeriodDivisor = 20
    SmoothingSamples = 4
    MaxFrames = 5
    MinDepth = 3
    MaxDepth = 8
    NominalMs = 10
    Gaps <- MCGaps
    MaxObservations = 5
    FileLengths = {0, 1, 4, 5, 6, 7, 8}
    MaxInputSamples = 6
    ReadBufferFrames = 4
SYMMETRY Symmetry
CHECK_DEADLOCK FALSE
INVARIANT SocketsAreOwned
INVARIANT RecordingIsHonest
INVARIANT DatagramsInBounds
INVARIANT ConcealmentIsSound
INVARIANT DepthIsJustified
INVARIANT WholeOrTrimmed
PROPERTY ImplementsStore
PROPERTY MoveKeepsSocket
PROPERTY ReadAsSent
