--------------------------- MODULE SchemaRegistry ---------------------------
(***************************************************************************)
(* Where a server keeps schemas: the engine's map, which checks use        *)
(* (pkg/engine/engine.go), and the registry of the management API, which   *)
(* answers reads (pkg/api/server.go).  A load writes the one and then the  *)
(* other, each under its own mutex; both live in memory only.              *)
(***************************************************************************)
CONSTANTS
    Tenants,
    Docs, Valid,    \* schema documents; the ones that compile and validate
    NoSchema,       \* no schema loaded
    SchemaMode      \* the mode a tenant was created with

ASSUME DocsAssumption == Valid \subseteq Docs /\ NoSchema \notin Docs

\* handleCreateTenant refuses any other mode, and nothing changes it.
ASSUME ModesAssumption == SchemaMode \in [Tenants -> {"own", "shared", "inherited"}]

VARIABLES
    engine,         \* the compiled schema the engine has for a tenant
    registry,       \* the source the management API returns
    loads,          \* handlers between their two writes
    overlapped      \* tenants whose last loads ran at the same time

schemas == <<engine, registry, loads, overlapped>>

\* The first write of handleLoadSchema, of a document that was accepted.
LoadSchema(load) ==
    /\ engine' = [engine EXCEPT ![load.tenant] = load.doc]
    /\ loads' = loads \cup {load}
    /\ overlapped' = IF \E other \in loads : other.tenant = load.tenant
                     THEN overlapped \cup {load.tenant}
                     ELSE overlapped \ {load.tenant}
    /\ UNCHANGED registry

\* A mutant of Register: the registry is only filled the first time.
Register_Once(load) ==
    /\ load \in loads
    /\ registry' = [registry EXCEPT ![load.tenant] = IF @ = NoSchema THEN load.doc ELSE @]
    /\ loads' = loads \ {load}
    /\ UNCHANGED <<engine, overlapped>>

\* The second write.
Register(load) ==
    /\ load \in loads
    /\ registry' = [registry EXCEPT ![load.tenant] = load.doc]
    /\ loads' = loads \ {load}
    /\ UNCHANGED <<engine, overlapped>>

handleGetSchema(t) == registry[t]

\* No caller of LoadSharedSchema exists: the map of shared schemas is empty,
\* whatever reference a tenant has.
sharedSchema == NoSchema

\* The mode decides where the engine looks; a load does not ask for it.
\* "inherited" is treated like "own".
schemaForTenant(t) == IF SchemaMode[t] = "shared" THEN sharedSchema ELSE engine[t]

\* A restart begins with empty maps.
Restart ==
    /\ engine' = [t \in Tenants |-> NoSchema]
    /\ registry' = [t \in Tenants |-> NoSchema]
    /\ loads' = {}
    /\ overlapped' = {}

\* Checks of a tenant that has its own schema, or is said to inherit one, use
\* the schema that a read returns, unless a load is between its two writes or
\* the last loads of the tenant ran at the same time: then the two maps can
\* stay different until the next load.  Tenants of mode shared are excepted:
\* a load is accepted and read back for them, and no check ever uses it.
ReadsMatchChecks ==
    \A t \in {u \in Tenants : SchemaMode[u] # "shared"} :
        t \in overlapped \/ (\E load \in loads : load.tenant = t)
            \/ handleGetSchema(t) = schemaForTenant(t)
=============================================================================
