SPECIFICATION FairSpec
CONSTANTS
    Producers = {p1, p2}
    Consumers = {c1, c2, c3}
    Packets = {a}
    NoPacket = NoPacket
    Capacity = 2
    MaxDropped = 1
INVARIANTS TypeOK NoLostWakeup
PROPERTIES SleeperIsServed PopUntilReturns
