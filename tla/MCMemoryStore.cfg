CONSTANTS
    Never = Never
    NoTenant = NoTenant
    NilMap = NilMap
    NoAttrs = NoAttrs
    Tenants = {acme}
    Tuples <- MCTuples
    Keys <- MCKeys
    KeyOf <- MCKeyOf
    AttrKeys = {"doc:d"}
    Attrs = {attrs}
    Deadlines = {1}
    External <- MCExternal
    MaxTime = 1
    MaxBatch = 2
    MaxLog = 4
SPECIFICATION Spec
INVARIANTS
    TypeOK
    UniqueIdentity
    PagesLeaveNothingBehind
    LiveMatchesLog
    AttributeMapsReady
PROPERTIES
    ImplementsTupleStore
    LiveChangesAreLogged
    RefusalChangesNothing
