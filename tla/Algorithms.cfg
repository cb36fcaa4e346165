SPECIFICATION MCSpec
CONSTANTS
    m1 = m1
    m2 = m2
    one = one
    Keys = {k1}
    Members = {m1, m2}
    Strings = {one}
    None = None
    MaxU64 = 1
    MicrosPerSecond = 1
    MicrosPerMillisecond = 1
    MinI64 <- LeastI64
    MaxI64 = 1
    MaxScore = 1
    IntegerOf <- NoInteger
    TextOf <- OneText
    Joined <- JoinedText
    OptionSets <- ConditionOptions
    InputLists <- UpToThreePairs
    ZMembers = {1, 2, 3}
    ScoreLimit = 1
    MaxIndex = 4
    PageSizes <- SomePageSizes
    Inputs <- ShortInputs
    Text <- Decimal
    Spellings <- Spelled
    MaxNumber = 20
    Texts <- SampleTexts
    Images <- SampleImages
    Noise <- Garbage
    MaxElements = 17
    Ids = {"", "a", "1"}
    Values = {0, 1, 3}
    PositionLists <- SamplePositions
    Payloads = {"", "2"}
    Records <- SampleRecords
    FrameNoise = {"", "0", "1", "2", "01", "x", "DONE", "BEGIN"}
    ProtocolVersion = 2
INVARIANTS
    ZAddIsClosedForm
    RangesAgree
    RanksAndCountsAgree
    ResultIsMeaning
    ClassesAreConsistent
    SnapshotRoundTrip
    PartialRejected
    ReadsStayInside
    FramesAreExact
PROPERTIES
    Terminates
CHECK_DEADLOCK FALSE
