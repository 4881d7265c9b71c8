CONSTANTS
    Never = Never
    NoAttrs = NoAttrs
    NoContext = NoContext
    NoCondition = NoCondition
    Schema <- DriveSchema
    Entities <- DriveEntities
    Universe <- DriveUniverse
    Batches <- DriveBatches
    Subject <- User
    Attrs = {}
    Contexts = {"day", "night"}
    Conditions = {"hours"}
    Evaluate <- DriveEvaluate
    InitialTuples <- DriveInitial
    NewStatuses = {"active", "suspended", "deleted"}
    MaxCheckDepth = 2
    MaxChanges = 2
    MaxFaults = 1
SPECIFICATION Spec
INVARIANTS
    TypeOK
    PathIsSimple
    AllowIsJustified
    DenyIsJustified
    DeletedTenantDenies
PROPERTIES
    EveryRequestAnswered
