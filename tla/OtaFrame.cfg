SPECIFICATION FairFrameSpec
CONSTANTS
    Packets <- SomePackets
    Bytes <- SomeBytes
    RxPackSize = 24
    StrayEqual = {}
    MaxBus = 2
INVARIANTS RoomLeft
PROPERTY GetsThrough
