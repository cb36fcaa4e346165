SPECIFICATION FairSpec
CONSTANTS
    r1 = r1
    r2 = r2
    a = a
    b = b
    NoReplica = NoReplica
    Replicas = {r1}
    ReplicaIds = {a}
    IdOf <- OneReplica
    SlotCount = 2
    MaxSeq = 1
    MaxGen = 2
    MaxSessions = 4
    MaxFaults = 1
    MaxFrames = 1
    MaxLogsPerSlot = 1
    MaxBatchBytes = 100
    BinlogBudget = 0
    RecordBytes <- UnitBytes
    SnapshotBytes <- ContentBytes
    Undecodable = {}
PROPERTIES
    Converges
