SPECIFICATION FairSpec
CONSTANTS
    CountMod = 4
    MaxUdpPayload = 2
    Byte <- MCByte
    SentFrames <- MCSentFrames
INVARIANTS TypeOK SentInOrder SendsOnlyRxPackets WholeFrameSent
PROPERTY SendReturns
CHECK_DEADLOCK FALSE
