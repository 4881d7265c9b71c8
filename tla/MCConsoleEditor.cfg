CONSTANTS
    Tenants <- TheTenants
    Types = {"doc"}
    Ids = {"d1", "d2"}
    Attributed <- TheAttributed
    NoEntity = NoEntity
    NoData = NoData
    Closed = Closed
    Budgets <- TheBudgets

SPECIFICATION Spec

INVARIANTS
    ForeignOnlyIfCached
    LoadedEditorIsCurrent
    ReadsItsWrites

PROPERTY
    EditorOpens

CHECK_DEADLOCK FALSE
