CONSTANTS
    Never = Never
    NoAttrs = NoAttrs
    NoContext = NoContext
    NoCondition = NoCondition
    Schema <- SharedSchema
    Entities <- GroupEntities
    Universe <- SharedUniverse
    Batches <- AskPublish
    Subject <- User
    Attrs = {}
    Contexts = {}
    Conditions = {}
    Evaluate <- NoEvaluation
    InitialTuples <- AllTuples
    NewStatuses = {}
    MaxCheckDepth = 3
    MaxChanges = 0
    MaxFaults = 0
SPECIFICATION Spec
INVARIANT AllowIsJustified
