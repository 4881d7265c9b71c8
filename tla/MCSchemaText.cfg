CONSTANTS
    TypeNames = {"user", "doc"}
    AttributeNames = {"region"}
    RelationNames = {"owner", "viewer"}
    PermissionNames = {"view", "edit"}
    TargetLists <- TheTargetLists
    None = None
    Garbled = Garbled
    MaxLines = 10
    MaxComments = 1

SPECIFICATION Spec

INVARIANTS
    DialogReadsDocument
    EvaluatorReadsDocument
    GraphReadsDocument
    ViewerLosesOnlyLast

CHECK_DEADLOCK FALSE
