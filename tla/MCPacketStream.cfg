\* One reader: the receiver of a session, the accept thread or the client.
SPECIFICATION FairSpec
CONSTANTS
    Reader = {own}
    Header = 2
    PayloadSizes = {0, 1, 2}
    Capacity = 2
    MaxPackets = 3
INVARIANTS
    TypeOK
    WholePackets
PROPERTIES
    ImplementsPacketQueue
    ReceiveEnds
    SendEnds
CHECK_DEADLOCK FALSE
