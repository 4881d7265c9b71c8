CONSTANTS
    s1 = s1  s2 = s2  t1 = t1  a = a  b = b
    Idle = Idle
    Sessions = {s1, s2}
    Tenants = {t1}
    Tuples = {a, b}
    Batches <- TheBatches
    External <- TheExternal
    NewStatuses = {"active", "suspended", "deleted"}
    MaxCalls = 3
    MaxStatus = 1
    MaxFaults = 1
    Followed = t1
    Position = "entry"
    PageSize = 1
    MaxPolls = 2

SPECIFICATION PollSpec

INVARIANTS
    PollTypeOK
    LogMatchesRows
    MissesOnlyOvertaken

PROPERTIES
    ImplementsTupleStore
    InactiveChangesOnlyIfStale
    EveryCallReturns

CHECK_DEADLOCK FALSE
