SPECIFICATION Spec
CONSTANTS
    Urls <- SomeUrls
    Word <- SomeWords
    Letter = {"2", "3", "6"}
    Hex <- TwoDigits
    Names <- SomeNames
    Values <- SomeValues
    Encodes = TRUE
    Bodies <- SomeBodies
    Size = 3
    Indices = {0}
    Digits = {0, 1, 2, 4}
    DataBytes <- AllBytes
    Transfers <- SomeTransfers
    ReadSize = 6
    BodyLimit = 16
    CR = CR  LF = LF  Garbage = Garbage
    MaxResults = 15
    Ints <- SomeInts
    Addresses = {7, 15}
    BodyLens <- OtherBodies
    AnswerLens <- AnswerSizes
    NPackets = 2
    Idents = {0, 255, 65535}
    Payloads <- SomePayloads
    MaxTasks = 2
    MaxOthers = 1
    MaxFaults = 1
INVARIANTS
    FindsPieces
    ReadsBack
    FitsItsBuffers
    ChunksAreRead
    PostsWhatWasSigned
    OnePacketCostsOneAnswer
PROPERTIES
    WaitsEnd
