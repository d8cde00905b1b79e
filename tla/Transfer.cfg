SPECIFICATION FairSpec
CONSTANTS
    CountMod = 4
    MaxUdpPayload = 3
    PayloadStride = 3
    MaxFrameSize = 6
    Byte <- MCByte
    ZeroByte <- MCZeroByte
    NoFile = NoFile
    Header <- MCHeader
    Raw <- MCRaw
    IdleTimeout = 0
    MaxLifetime = 0
    MaxRuns = 2
    MaxFrames = 2
    MaxFaults = 1
INVARIANTS TypeOK FilesAgree FileComesThrough CompleteMeansAllSent
PROPERTY ArrivedIsWritten
