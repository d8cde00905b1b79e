SPECIFICATION Spec
CONSTANTS
    RingSize = 3
    Blank = Blank
    MaxPackets = 6
INVARIANTS TypeOK DumpTellsTheEnd ArrivalComesFirst
