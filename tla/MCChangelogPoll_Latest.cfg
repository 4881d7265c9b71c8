CONSTANTS
    s1 = s1  s2 = s2  t1 = t1  a = a  b = b
    Idle = Idle
    Sessions = {s1, s2}
    Tenants = {t1}
    Tuples = {a, b}
    Batches <- TheBatches
    External <- TheExternal
    NewStatuses = {"active", "suspended", "deleted"}
    MaxCalls = 3
    MaxStatus = 0
    MaxFaults = 0
    Followed = t1
    Position = "latest"
    PageSize = 1
    MaxPolls = 2

SPECIFICATION PollSpec

INVARIANT
    MissesNothing

CHECK_DEADLOCK FALSE
