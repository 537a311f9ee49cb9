SPECIFICATION FairSpec
CONSTANTS
    Messages <- MCMessages
    Lengths <- MCLengths
    Sizes <- MCSizes
    MaxMessages = 2
    MaxPiece = 3
INVARIANTS
    TypeOK
    NeverBlocks
    WholeAndInOrder
PROPERTIES
    EveryMessageDelivered
CHECK_DEADLOCK FALSE
