SPECIFICATION FairSpec
CONSTANTS
    CountMod = 4
    MaxUdpPayload = 2
    PayloadStride = 2
    MaxFrameSize = 4
    IdleTimeout = 1
    MaxLifetime = 2
    MaxEntries = 3
    MaxDrops = 1
    Byte <- MCByte
    ZeroByte <- MCZeroByte
    SentFrames <- MCSentFrames
INVARIANTS TypeOK CountMatchesBitmap CompleteFramesIntact BytesInPlace
PROPERTIES ImplementsAssembly ErasedMeansHandedOver EveryFrameLeaves
