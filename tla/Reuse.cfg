SPECIFICATION Spec
CONSTANTS
    CountMod = 4
    MaxUdpPayload = 2
    PayloadStride = 2
    MaxFrameSize = 4
    Byte <- MCByte
    ZeroByte <- MCZeroByte
    SentFrames <- MCSentFrames
    NoFrameId = 4
    FrameTimeout = 1
    NoResult = NoResult
INVARIANTS TypeOK CompleteHasEveryPacket PoppedIsSent TakenIsSent TakenOnlyOnce BothSeeTheFrame
