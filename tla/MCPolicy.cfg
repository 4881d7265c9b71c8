CONSTANTS
    Never = Never
    NoAttrs = NoAttrs
    NoContext = NoContext
    NoCondition = NoCondition
    Schema <- PolicySchema
    Entities <- PolicyEntities
    Universe <- PolicyUniverse
    Batches <- PolicyBatches
    Subject <- User
    Attrs = {"low", "high"}
    Contexts = {"office"}
    Conditions = {"office", "cleared"}
    Evaluate <- PolicyEvaluate
    InitialTuples <- PolicyInitial
    NewStatuses = {"active", "suspended"}
    MaxCheckDepth = 2
    MaxChanges = 3
    MaxFaults = 0
SPECIFICATION Spec
INVARIANTS
    AllowIsJustified
    DenyIsJustified
