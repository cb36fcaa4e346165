SPECIFICATION Spec
CONSTANTS
    r1 = r1
    r2 = r2
    a = a
    b = b
    NoReplica = NoReplica
    Replicas = {r1}
    ReplicaIds = {a}
    IdOf <- OneReplica
    SlotCount = 1
    MaxSeq = 3
    MaxGen = 2
    MaxSessions = 5
    MaxFaults = 2
    MaxFrames = 2
    MaxLogsPerSlot = 2
    MaxBatchBytes = 100
    BinlogBudget = 1
    RecordBytes <- UnitBytes
    SnapshotBytes <- ContentBytes
    Undecodable = {}
INVARIANTS
    TypeOK
    ReplicaIsPrefix
PROPERTIES
    OnlineIsFresh
