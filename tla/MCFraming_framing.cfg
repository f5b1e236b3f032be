SPECIFICATION FairSpec
CONSTANTS
    HeadLen = 2
    BodyLens = {0, 2, 3, 4}
    MaxPacketSize = 4
    MaxPackets = 3
    MaxConnections = 2
INVARIANTS
    TypeOK
    FramesIntact
    OversizeEnds
PROPERTIES
    ArrivedIsServed
    EndIsNoticed
CHECK_DEADLOCK FALSE
