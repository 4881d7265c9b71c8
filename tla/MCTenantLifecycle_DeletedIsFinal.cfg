CONSTANTS
    NoRow = NoRow
    None = None
    NoRequest = NoRequest
    Tenants <- MCTenants
    Bootstrap = "super"
    Refs = {catalog}
    Parents = {root}
    Servers = {s1}
    Requests = {r1, r2}
    MaxCrashes = 1
SPECIFICATION Spec
PROPERTY DeletedIsFinal
