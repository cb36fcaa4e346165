SPECIFICATION Spec
CONSTANTS
    r1 = r1
    r2 = r2
    a = a
    b = b
    NoReplica = NoReplica
    Replicas = {r1}
    ReplicaIds = {a}
    IdOf <- OneReplica
    SlotCount = 2
    MaxSeq = 2
    MaxGen = 1
    MaxSessions = 4
    MaxFaults = 1
    MaxFrames = 2
    MaxLogsPerSlot = 1
    MaxBatchBytes = 2
    BinlogBudget = 1
    RecordBytes <- BigFirstBytes
    SnapshotBytes <- ContentBytes
    Undecodable = {1}
INVARIANTS
    NoBudgetUnderflow
PROPERTIES
    PartialIsHidden
