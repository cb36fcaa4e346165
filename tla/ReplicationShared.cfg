SPECIFICATION Spec
CONSTANTS
    r1 = r1
    r2 = r2
    a = a
    b = b
    NoReplica = NoReplica
    Replicas = {r1, r2}
    ReplicaIds = {a}
    IdOf <- SharedId
    SlotCount = 1
    MaxSeq = 2
    MaxGen = 1
    MaxSessions = 3
    MaxFaults = 1
    MaxFrames = 2
    MaxLogsPerSlot = 2
    MaxBatchBytes = 100
    BinlogBudget = 100
    RecordBytes <- UnitBytes
    SnapshotBytes <- ContentBytes
    Undecodable = {}
INVARIANTS
    BacklogRetained
CHECK_DEADLOCK FALSE
