SPECIFICATION FairSpec
CONSTANTS
    Images <- SmallImages
    Size <- SmallSizes
    Page = 3
    Packet = 2
    MaxWaiting = 1
INVARIANTS OffsetsRight WholeImage
PROPERTY UpdateEnds
CHECK_DEADLOCK FALSE
