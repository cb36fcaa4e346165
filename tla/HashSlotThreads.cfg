SPECIFICATION FairSpec
CONSTANTS
    k1 = k1
    k2 = k2
    m1 = m1
    m2 = m2
    neg = neg
    zero = zero
    one = one
    junk = junk
    Keys = {k1, k2}
    Members = {m1}
    Strings <- Texts
    None = None
    MaxU64 = 7
    MicrosPerSecond = 2
    MicrosPerMillisecond = 1
    MinI64 <- LeastI64
    MaxI64 = 1
    MaxScore = 1
    IntegerOf <- TextInteger
    TextOf <- IntegerText
    Joined <- JoinedText
    Clients = {c1, c2}
    Sweeper = sweeper
    NoThread = nobody
    Commands <- TwoKeyCommands
    MaxKeys = 1
    MaxTime = 3
    MaxCalls = 3
INVARIANTS
    SlotInv
    SnapshotConsistent
PROPERTIES
    OneKeyPerWrite
    SweptOnlyExpired
    ImplementsAtomicSlot
    ExpiredIsSwept
CHECK_DEADLOCK FALSE
