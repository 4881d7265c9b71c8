--------------------------- MODULE TenantLifecycle ---------------------------
(***************************************************************************)
(* The tenant table and everything that writes it: the tenant manager      *)
(* (pkg/tenant/manager.go), the create handler of the management API       *)
(* (pkg/api/management.go) and the bootstrap of the super tenant when a    *)
(* server starts (cmd/server/main.go).                                     *)
(*                                                                         *)
(* The table is the tenants table of PostgreSQL and survives a crash; each *)
(* read and each write of a row is one statement.  No operation holds a    *)
(* lock from its read to its write, and a write replaces the whole row, so *)
(* the requests of all servers interleave between the two.                 *)
(***************************************************************************)
EXTENDS Integers, FiniteSets

CONSTANTS
    Tenants,        \* tenant identifiers
    Bootstrap,      \* the super tenant a server creates when it starts
    Refs,           \* shared-schema references
    Parents,        \* identifiers a create request may give as the parent
    Servers,        \* server processes on the same database
    Requests,       \* slots for requests in flight
    NoRow, NoRequest,
    None,           \* an empty parent or reference
    MaxCrashes      \* bound on the number of crashes

ASSUME LifecycleAssumption ==
    /\ Bootstrap \in Tenants
    /\ None \notin Refs \cup Parents
    /\ MaxCrashes \in Nat

Statuses == {"pending", "active", "suspended", "deleted"}
Modes    == {"own", "shared", "inherited"}
Row      == [status : Statuses, mode : Modes, parent : Parents \cup {None}, ref : Refs \cup {None}]

ASSUME RowAssumption == NoRow \notin Row

VARIABLES
    rows,       \* the tenants table
    phase,      \* where each server is in its start-up
    copy,       \* the row each starting server holds
    request,    \* the request in each slot, with the row it holds
    crashes

vars == <<rows, phase, copy, request, crashes>>

Phases  == {"get", "create", "activateGet", "activateWrite", "forceWrite",
            "serving", "down"}
Request == [op     : {"create", "activate", "suspend", "delete"},
            server : Servers,
            tenant : Tenants,
            stage  : {"start", "write"},
            read   : Row,       \* the row as the request knows it
            row    : Row]       \* the row it will write

ASSUME RequestAssumption == NoRequest \notin Request

TypeOK ==
    /\ rows \in [Tenants -> Row \cup {NoRow}]
    /\ phase \in [Servers -> Phases]
    /\ copy \in [Servers -> Row \cup {NoRow}]
    /\ request \in [Requests -> Request \cup {NoRequest}]
    /\ crashes \in 0..MaxCrashes

-----------------------------------------------------------------------------
(* The store.                                                              *)

NewRow(mode) == [status |-> "pending", mode |-> mode, parent |-> None, ref |-> None]

Known(t) == rows[t] # NoRow

\* One UPDATE statement: it replaces every column but parent_tenant_id,
\* whatever they hold.  Rows are never removed, so the row that was read is
\* still there.
UpdateTenant(t, row) ==
    rows' = [rows EXCEPT ![t] = [row EXCEPT !.parent = rows[t].parent]]

-----------------------------------------------------------------------------
(* The manager: which statuses an operation accepts, and what it writes.   *)

\* A mutant of Accepts: whatever is not deleted may be suspended.
Accepts_SuspendAny(op, status) == status # "deleted"

Accepts(op, status) ==
    CASE op = "activate" -> status # "deleted"
      [] op = "suspend"  -> status = "active"
      [] op = "delete"   -> status # "deleted"

Target(op) ==
    CASE op = "activate" -> "active"
      [] op = "suspend"  -> "suspended"
      [] op = "delete"   -> "deleted"

-----------------------------------------------------------------------------
(* Requests.  A request reaches a server that has finished its start-up.   *)

Finish(r) == request' = [request EXCEPT ![r] = NoRequest]

\* POST /api/v1/tenants: shared mode requires a reference.
StartCreate(r, s, t, mode, parent, ref) ==
    /\ request[r] = NoRequest
    /\ phase[s] = "serving"
    /\ mode = "shared" => ref # None
    /\ request' = [request EXCEPT ![r] =
          [op |-> "create", server |-> s, tenant |-> t, stage |-> "start",
           read |-> NewRow(mode),
           row |-> [NewRow(mode) EXCEPT !.parent = parent, !.ref = ref]]]
    /\ UNCHANGED <<rows, phase, copy, crashes>>

\* A mutant of CreateInsert: an upsert that does not look for the tenant.
CreateInsert_Upsert(r) ==
    /\ request[r] # NoRequest
    /\ request[r].op = "create" /\ request[r].stage = "start"
    /\ rows' = [rows EXCEPT ![request[r].tenant] = request[r].read]
    /\ IF request[r].row = request[r].read
       THEN Finish(r)
       ELSE request' = [request EXCEPT ![r].stage = "write"]
    /\ UNCHANGED <<phase, copy, crashes>>

\* Manager.Create inserts the row without the optional fields.  A tenant that
\* exists is refused; a request without optional fields is done.
CreateInsert(r) ==
    /\ request[r] # NoRequest
    /\ request[r].op = "create" /\ request[r].stage = "start"
    /\ LET t == request[r].tenant
       IN  IF Known(t)
           THEN Finish(r) /\ UNCHANGED rows
           ELSE /\ rows' = [rows EXCEPT ![t] = request[r].read]
                /\ IF request[r].row = request[r].read
                   THEN Finish(r)
                   ELSE request' = [request EXCEPT ![r].stage = "write"]
    /\ UNCHANGED <<phase, copy, crashes>>

\* POST .../activate, POST .../suspend, DELETE ...: the row is read, its
\* status is checked, and the request goes on with its copy.
StartChange(r, s, t, op) ==
    /\ request[r] = NoRequest
    /\ phase[s] = "serving"
    /\ Known(t) /\ Accepts(op, rows[t].status)
    /\ request' = [request EXCEPT ![r] =
          [op |-> op, server |-> s, tenant |-> t, stage |-> "write",
           read |-> rows[t],
           row |-> [rows[t] EXCEPT !.status = Target(op)]]]
    /\ UNCHANGED <<rows, phase, copy, crashes>>

\* The second statement of every operation: the copy replaces the row.
WriteBack(r) ==
    /\ request[r] # NoRequest
    /\ request[r].stage = "write"
    /\ UpdateTenant(request[r].tenant, request[r].row)
    /\ Finish(r)
    /\ UNCHANGED <<phase, copy, crashes>>

-----------------------------------------------------------------------------
(* ensureBootstrapTenant, one action per statement.                        *)

Goto(s, p) == phase' = [phase EXCEPT ![s] = p]

\* A mutant of BootGet: a missing tenant is left for somebody else to create.
BootGet_IgnoresMissing(s) ==
    /\ phase[s] = "get"
    /\ Goto(s, IF ~Known(Bootstrap) \/ rows[Bootstrap].status = "active"
               THEN "serving" ELSE "forceWrite")
    /\ copy' = [copy EXCEPT ![s] = rows[Bootstrap]]
    /\ UNCHANGED <<rows, request, crashes>>

BootGet(s) ==
    /\ phase[s] = "get"
    /\ Goto(s, IF ~Known(Bootstrap) THEN "create"
               ELSE IF rows[Bootstrap].status = "active" THEN "serving"
               ELSE "forceWrite")
    /\ copy' = [copy EXCEPT ![s] = rows[Bootstrap]]
    /\ UNCHANGED <<rows, request, crashes>>

\* A mutant of BootCreate: it tries again for as long as the tenant exists.
BootCreate_Retries(s) ==
    /\ phase[s] = "create"
    /\ ~Known(Bootstrap)
    /\ rows' = [rows EXCEPT ![Bootstrap] = NewRow("own")]
    /\ Goto(s, "activateGet")
    /\ UNCHANGED <<copy, request, crashes>>

\* Somebody else created the tenant in between: the process exits.
BootCreate(s) ==
    /\ phase[s] = "create"
    /\ IF Known(Bootstrap)
       THEN Goto(s, "down") /\ UNCHANGED rows
       ELSE /\ rows' = [rows EXCEPT ![Bootstrap] = NewRow("own")]
            /\ Goto(s, "activateGet")
    /\ UNCHANGED <<copy, request, crashes>>

BootActivateGet(s) ==
    /\ phase[s] = "activateGet"
    /\ Goto(s, IF Accepts("activate", rows[Bootstrap].status)
               THEN "activateWrite" ELSE "down")
    /\ copy' = [copy EXCEPT ![s] = rows[Bootstrap]]
    /\ UNCHANGED <<rows, request, crashes>>

\* Activate after a create, or the forced update from any other status.
BootWrite(s) ==
    /\ phase[s] \in {"activateWrite", "forceWrite"}
    /\ UpdateTenant(Bootstrap, [copy[s] EXCEPT !.status = "active"])
    /\ Goto(s, "serving")
    /\ UNCHANGED <<copy, request, crashes>>

\* A crash loses the requests of the server; the table stays.
Crash(s) ==
    /\ phase[s] # "down"
    /\ crashes < MaxCrashes
    /\ crashes' = crashes + 1
    /\ Goto(s, "down")
    /\ request' = [r \in Requests |->
          IF request[r] # NoRequest /\ request[r].server = s THEN NoRequest ELSE request[r]]
    /\ UNCHANGED <<rows, copy>>

\* The supervisor starts the process again.
Restart(s) ==
    /\ phase[s] = "down"
    /\ Goto(s, "get")
    /\ copy' = [copy EXCEPT ![s] = NoRow]
    /\ UNCHANGED <<rows, request, crashes>>

-----------------------------------------------------------------------------
Init ==
    /\ rows = [t \in Tenants |-> NoRow]
    /\ phase = [s \in Servers |-> "get"]
    /\ copy = [s \in Servers |-> NoRow]
    /\ request = [r \in Requests |-> NoRequest]
    /\ crashes = 0

BootStep(s) == BootGet(s) \/ BootCreate(s) \/ BootActivateGet(s) \/ BootWrite(s)

Next ==
    \/ \E r \in Requests, s \in Servers, t \in Tenants, mode \in Modes,
         parent \in Parents \cup {None}, ref \in Refs \cup {None} :
          StartCreate(r, s, t, mode, parent, ref)
    \/ \E r \in Requests : CreateInsert(r)
    \/ \E r \in Requests, s \in Servers, t \in Tenants, op \in {"activate", "suspend", "delete"} :
          StartChange(r, s, t, op)
    \/ \E r \in Requests : WriteBack(r)
    \/ \E s \in Servers : BootGet(s)
    \/ \E s \in Servers : BootCreate(s)
    \/ \E s \in Servers : BootActivateGet(s)
    \/ \E s \in Servers : BootWrite(s)
    \/ \E s \in Servers : Crash(s)
    \/ \E s \in Servers : Restart(s)

\* A running process goes on with its start-up, a supervisor restarts it
\* (docker-compose: "restart: unless-stopped"), a request that began goes on.
Fairness ==
    /\ \A s \in Servers : WF_vars(BootStep(s)) /\ WF_vars(Restart(s))
    /\ \A r \in Requests : WF_vars(CreateInsert(r)) /\ WF_vars(WriteBack(r))

Spec == Init /\ [][Next]_vars /\ Fairness

-----------------------------------------------------------------------------
(* Properties.                                                             *)

\* A server that accepts requests has a super tenant: whatever another server,
\* a crash between two statements of the bootstrap, or a request did to it.
ServingHasBootstrap ==
    \A s \in Servers :
        phase[s] \in {"activateGet", "activateWrite", "forceWrite", "serving"} => Known(Bootstrap)

\* The allowed transitions of the lifecycle.
Legal(from, to) ==
    \/ to = "active" /\ from # "deleted"
    \/ to = "suspended" /\ from = "active"
    \/ to = "deleted" /\ from # "deleted"
    \/ to = from

Writes(r) ==
    /\ request[r] # NoRequest
    /\ request[r].stage = "write"
    /\ request'[r] = NoRequest
    /\ rows' # rows

\* A request changes a status only along the lifecycle, unless the row is no
\* longer the one the request read: every illegal transition is a lost update.
IllegalOnlyIfStale ==
    [][\A r \in Requests : Writes(r) =>
          LET t == request[r].tenant
          IN  Legal(rows[t].status, rows'[t].status) \/ rows[t] # request[r].read]_vars

\* Rows are never lost and keep the schema mode they were created with: two
\* creates of one tenant never overwrite each other.
RowsKeepMode ==
    [][\A t \in Tenants : rows[t] # NoRow =>
          rows'[t] # NoRow /\ rows'[t].mode = rows[t].mode]_vars

\* Every server gets through its start-up once crashes stop, also when two
\* servers start on an empty database and one of them exits.
EventuallyServing == \A s \in Servers : []<>(phase[s] = "serving")

\* What the documentation says of Activate: it fails from deleted.  Only the
\* bootstrap of the super tenant brings a deleted tenant back.
DeletedIsFinal ==
    [][\A t \in Tenants \ {Bootstrap} :
          rows[t] # NoRow /\ rows[t].status = "deleted" => rows'[t].status = "deleted"]_vars
=============================================================================
