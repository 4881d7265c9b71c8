CONSTANTS
    NoRow = NoRow
    None = None
    NoRequest = NoRequest
    Tenants = {"super"}
    Bootstrap = "super"
    Refs = {catalog}
    Parents = {root}
    Servers = {s1, s2}
    Requests = {r1}
    MaxCrashes = 2
SPECIFICATION Spec
INVARIANTS
    ServingHasBootstrap
PROPERTIES
    EventuallyServing
