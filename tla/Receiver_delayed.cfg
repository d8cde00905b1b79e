SPECIFICATION Spec
CONSTANTS
    CountMod = 4
    MaxUdpPayload = 2
    PayloadStride = 2
    MaxFrameSize = 4
    Byte <- MCByte
    ZeroByte <- MCZeroByte
    SentFrames <- OneFrame
    IdleTimeout = 2
    MaxLifetime = 4
    Capacity = 1
    NoPacket = NoPacket
    PollTimeout = 3
    TimerPeriod = 1
    GraceTime = 3
    Malformed = Malformed
    SocketCapacity = 1
    MaxArrivals = 1
    Prompt = FALSE
INVARIANT NothingLeftBehind
