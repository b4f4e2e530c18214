SPECIFICATION Spec
CONSTANTS
    Images <- OneImage
    Size <- OneSize
    Page = 3
    Packet = 2
    MaxWaiting = 1
INVARIANT CommittedFile
CHECK_DEADLOCK FALSE
