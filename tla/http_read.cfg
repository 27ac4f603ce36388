\* A response is read once; then there is nothing more to do.
SPECIFICATION FairSpec
CONSTANTS
    HeadSize = 5
    ReadSize = 3
    BodyLimit = 6
    MinHead = 2
    HeadLens <- Heads
    Modulus = 12
    BodyLens <- Bodies
    Announced <- Lengths
INVARIANTS
    ReadInBounds
    BodyAsSent
PROPERTIES
    ReadingEnds
CHECK_DEADLOCK FALSE
