SPECIFICATION Spec
CONSTANTS
    CountMod = 4
    MaxUdpPayload = 2
    PayloadStride = 2
    MaxFrameSize = 4
    IdleTimeout = 1
    MaxLifetime = 2
    MaxEntries = 3
    MaxDrops = 0
    Byte <- MCByte
    ZeroByte <- MCZeroByte
    SentFrames <- MCSentFrames
INVARIANT CompleteMeansNoGap
