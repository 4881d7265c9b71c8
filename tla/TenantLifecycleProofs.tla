------------------------ MODULE TenantLifecycleProofs ------------------------
(* Theorems about the tenant table, for every set of tenants, servers and   *)
(* requests in flight and every number of crashes.                          *)
EXTENDS TenantLifecycle, TLAPS

USE LifecycleAssumption, RowAssumption, RequestAssumption

\* A request that still has to write goes on from a row that exists, in the
\* mode of that row: no other request removes a row or changes its mode.
PendingWrites ==
    \A r \in Requests : request[r] # NoRequest =>
        /\ request[r].row.mode = request[r].read.mode
        /\ request[r].stage = "write" =>
              /\ rows[request[r].tenant] # NoRow
              /\ rows[request[r].tenant].mode = request[r].row.mode

\* What a request will write follows from the row that it read.
PlannedStatus ==
    \A r \in Requests : request[r] # NoRequest =>
        IF request[r].op = "create"
        THEN request[r].row.status = request[r].read.status
        ELSE /\ request[r].row.status = Target(request[r].op)
             /\ Accepts(request[r].op, request[r].read.status)

\* A server that is about to write the super tenant holds a copy of a row
\* that exists, in the mode of that row.
BootstrapCopies ==
    \A s \in Servers : phase[s] \in {"activateWrite", "forceWrite"} =>
        copy[s] # NoRow /\ copy[s].mode = rows[Bootstrap].mode

LInv == TypeOK /\ ServingHasBootstrap /\ PendingWrites /\ PlannedStatus /\ BootstrapCopies

-----------------------------------------------------------------------------
(* The table.                                                               *)

\* What holds of the table from one state to the next.
Grows ==
    \A t \in Tenants : rows[t] # NoRow => rows'[t] # NoRow /\ rows'[t].mode = rows[t].mode

\* An UPDATE of a row that exists keeps its mode, when the copy has it, and
\* leaves every other row alone.
LEMMA UpdateKeepsMode ==
    ASSUME NEW t \in Tenants, NEW row \in Row, TypeOK, rows[t] # NoRow,
           row.mode = rows[t].mode, UpdateTenant(t, row)
    PROVE  /\ rows' \in [Tenants -> Row \cup {NoRow}]
           /\ rows'[t] # NoRow /\ rows'[t].status = row.status
           /\ Grows
<1>1. rows[t] \in Row
  BY DEF TypeOK
<1>2. [row EXCEPT !.parent = rows[t].parent] \in Row
  BY <1>1 DEF Row
<1> DEFINE new == [row EXCEPT !.parent = rows[t].parent]
<1>3. new \in Row /\ new # NoRow /\ new.mode = row.mode /\ new.status = row.status
  BY <1>2 DEF Row
<1>4. rows' = [rows EXCEPT ![t] = new]
  BY DEF UpdateTenant
<1> HIDE DEF new
<1>5. QED
  BY <1>3, <1>4 DEF TypeOK, Grows

\* An INSERT of a row that does not exist leaves the others alone.
LEMMA InsertGrows ==
    ASSUME NEW t \in Tenants, NEW row \in Row, TypeOK, rows[t] = NoRow,
           rows' = [rows EXCEPT ![t] = row]
    PROVE  /\ rows' \in [Tenants -> Row \cup {NoRow}]
           /\ rows'[t] = row /\ rows'[t] # NoRow
           /\ Grows
BY DEF TypeOK, Grows

\* A new row is a row.
LEMMA NewRowType ==
    ASSUME NEW mode \in Modes
    PROVE  /\ NewRow(mode) \in Row
           /\ NewRow(mode).mode = mode /\ NewRow(mode).status = "pending"
BY DEF NewRow, Row, Statuses

-----------------------------------------------------------------------------
(* The frames: what a table that only grows keeps true.                     *)

\* When the table grows and a step only removes requests, or changes nothing
\* of them, what was said of the requests stays true.
LEMMA RequestsKept ==
    ASSUME LInv, Grows,
           request' \in [Requests -> Request \cup {NoRequest}],
           \A r \in Requests : request'[r] # NoRequest => request'[r] = request[r]
    PROVE  PendingWrites' /\ PlannedStatus'
<1>1. PendingWrites'
  <2> SUFFICES ASSUME NEW r \in Requests, request'[r] # NoRequest
               PROVE  /\ request'[r].row.mode = request'[r].read.mode
                      /\ request'[r].stage = "write" =>
                           /\ rows'[request'[r].tenant] # NoRow
                           /\ rows'[request'[r].tenant].mode = request'[r].row.mode
    BY DEF PendingWrites
  <2>1. request'[r] = request[r] /\ request[r] # NoRequest /\ request[r].tenant \in Tenants
    BY DEF LInv, TypeOK, Request
  <2>2. QED
    BY <2>1 DEF LInv, PendingWrites, Grows
<1>2. PlannedStatus'
  <2> SUFFICES ASSUME NEW r \in Requests, request'[r] # NoRequest
               PROVE  IF request'[r].op = "create"
                      THEN request'[r].row.status = request'[r].read.status
                      ELSE /\ request'[r].row.status = Target(request'[r].op)
                           /\ Accepts(request'[r].op, request'[r].read.status)
    BY DEF PlannedStatus
  <2>1. request'[r] = request[r] /\ request[r] # NoRequest
    OBVIOUS
  <2>2. QED
    BY <2>1 DEF LInv, PlannedStatus
<1>3. QED
  BY <1>1, <1>2

\* When the table grows and no server moves, what was said of the servers
\* stays true.
LEMMA ServersKept ==
    ASSUME LInv, Grows, phase' = phase, copy' = copy
    PROVE  ServingHasBootstrap' /\ BootstrapCopies'
<1>1. ServingHasBootstrap'
  BY DEF LInv, ServingHasBootstrap, Known, Grows
<1>2. BootstrapCopies'
  <2> SUFFICES ASSUME NEW s \in Servers, phase[s] \in {"activateWrite", "forceWrite"}
               PROVE  copy[s] # NoRow /\ copy[s].mode = rows'[Bootstrap].mode
    BY DEF BootstrapCopies
  <2>1. rows[Bootstrap] # NoRow
    BY DEF LInv, ServingHasBootstrap, Known
  <2>2. QED
    BY <2>1 DEF LInv, BootstrapCopies, Grows
<1>3. QED
  BY <1>1, <1>2

\* When the table stays as it is, nothing else is needed for it to grow.
LEMMA SameTableGrows ==
    ASSUME rows' = rows
    PROVE  Grows
BY DEF Grows

-----------------------------------------------------------------------------
(* The steps.                                                               *)

\* A request that has just arrived is well typed and plans a legal change.
LEMMA ArrivalPreserves ==
    ASSUME LInv, NEW r \in Requests, NEW q \in Request,
           request' = [request EXCEPT ![r] = q],
           q.row.mode = q.read.mode,
           q.stage = "write" => rows[q.tenant] # NoRow /\ rows[q.tenant].mode = q.row.mode,
           IF q.op = "create"
           THEN q.row.status = q.read.status
           ELSE q.row.status = Target(q.op) /\ Accepts(q.op, q.read.status),
           UNCHANGED <<rows, phase, copy, crashes>>
    PROVE  LInv' /\ Grows
<1>1. Grows
  BY SameTableGrows
<1>2. TypeOK'
  BY DEF LInv, TypeOK
<1>3. ServingHasBootstrap' /\ BootstrapCopies'
  BY <1>1, ServersKept
<1>4. \A p \in Requests : request'[p] = IF p = r THEN q ELSE request[p]
  BY DEF LInv, TypeOK
<1>5. PendingWrites'
  BY <1>4 DEF LInv, PendingWrites
<1>6. PlannedStatus'
  BY <1>4 DEF LInv, PlannedStatus
<1>7. QED
  BY <1>1, <1>2, <1>3, <1>5, <1>6 DEF LInv

\* A create is received.
LEMMA StartCreatePreserves ==
    ASSUME LInv, NEW r \in Requests, NEW s \in Servers, NEW t \in Tenants, NEW mode \in Modes,
           NEW parent \in Parents \cup {None}, NEW ref \in Refs \cup {None},
           StartCreate(r, s, t, mode, parent, ref)
    PROVE  LInv' /\ Grows
<1> DEFINE full == [NewRow(mode) EXCEPT !.parent = parent, !.ref = ref]
           q == [op |-> "create", server |-> s, tenant |-> t, stage |-> "start",
                 read |-> NewRow(mode), row |-> full]
<1>1. full \in Row /\ full.mode = mode /\ full.status = "pending"
  BY DEF NewRow, Row, Statuses
<1>2. q \in Request
  BY <1>1, NewRowType DEF Request
<1>3. q.row.mode = q.read.mode /\ q.stage # "write" /\ q.op = "create"
      /\ q.row.status = q.read.status
  BY <1>1, NewRowType
<1>4. request' = [request EXCEPT ![r] = q] /\ UNCHANGED <<rows, phase, copy, crashes>>
  BY DEF StartCreate
<1> HIDE DEF q
<1>5. QED
  BY <1>2, <1>3, <1>4, ArrivalPreserves

\* A status change reads the row and checks it.
LEMMA StartChangePreserves ==
    ASSUME LInv, NEW r \in Requests, NEW s \in Servers, NEW t \in Tenants,
           NEW op \in {"activate", "suspend", "delete"}, StartChange(r, s, t, op)
    PROVE  LInv' /\ Grows
<1> DEFINE full == [rows[t] EXCEPT !.status = Target(op)]
           q == [op |-> op, server |-> s, tenant |-> t, stage |-> "write",
                 read |-> rows[t], row |-> full]
<1>1. rows[t] # NoRow /\ rows[t] \in Row /\ Accepts(op, rows[t].status)
  BY DEF StartChange, Known, LInv, TypeOK
<1>2. Target(op) \in Statuses
  BY DEF Target, Statuses
<1>3. full \in Row /\ full.mode = rows[t].mode /\ full.status = Target(op)
  BY <1>1, <1>2 DEF Row
<1>4. q \in Request
  BY <1>1, <1>3 DEF Request
<1>5. /\ q.row.mode = q.read.mode /\ q.tenant = t /\ q.op = op /\ op # "create"
      /\ q.row = full /\ q.read = rows[t]
  BY <1>3
<1>6. request' = [request EXCEPT ![r] = q] /\ UNCHANGED <<rows, phase, copy, crashes>>
  BY DEF StartChange
<1> HIDE DEF q, full
<1>7. QED
  BY <1>1, <1>3, <1>4, <1>5, <1>6, ArrivalPreserves

\* Ending a request removes it and leaves the others alone.
LEMMA FinishType ==
    ASSUME TypeOK, NEW r \in Requests, Finish(r)
    PROVE  /\ request' \in [Requests -> Request \cup {NoRequest}]
           /\ request'[r] = NoRequest
           /\ \A p \in Requests : p # r => request'[p] = request[p]
           /\ \A p \in Requests : request'[p] # NoRequest => request'[p] = request[p]
BY DEF TypeOK, Finish

\* The INSERT of a create, which fails when there is a row.
LEMMA CreateInsertPreserves ==
    ASSUME LInv, NEW r \in Requests, CreateInsert(r)
    PROVE  LInv' /\ Grows
<1> DEFINE t == request[r].tenant
<1>1. /\ request[r] \in Request /\ t \in Tenants /\ request[r].read \in Row
      /\ request[r] # NoRequest /\ request[r].op = "create" /\ TypeOK
      /\ UNCHANGED <<phase, copy, crashes>>
  BY DEF CreateInsert, LInv, TypeOK, Request
<1>2. CASE Known(t)
  <2>1. Finish(r) /\ rows' = rows
    BY <1>2 DEF CreateInsert
  <2>2. Grows
    BY <2>1, SameTableGrows
  <2>3. PendingWrites' /\ PlannedStatus' /\ ServingHasBootstrap' /\ BootstrapCopies'
    BY <1>1, <2>1, <2>2, FinishType, RequestsKept, ServersKept
  <2>4. TypeOK'
    BY <1>1, <2>1, FinishType DEF TypeOK
  <2>5. QED
    BY <2>2, <2>3, <2>4 DEF LInv
<1>3. CASE ~Known(t)
  <2>1. rows[t] = NoRow /\ rows' = [rows EXCEPT ![t] = request[r].read]
    BY <1>3 DEF CreateInsert, Known
  <2>2. /\ rows' \in [Tenants -> Row \cup {NoRow}]
        /\ rows'[t] = request[r].read /\ rows'[t] # NoRow /\ Grows
    <3> HIDE DEF t
    <3> QED BY <1>1, <2>1, InsertGrows
  <2>3. ServingHasBootstrap' /\ BootstrapCopies'
    BY <1>1, <2>2, ServersKept
  <2>4. CASE Finish(r)
    <3>1. PendingWrites' /\ PlannedStatus'
      BY <1>1, <2>2, <2>4, FinishType, RequestsKept
    <3>2. TypeOK'
      BY <1>1, <2>2, <2>4, FinishType DEF TypeOK
    <3>3. QED
      BY <2>2, <2>3, <3>1, <3>2 DEF LInv
  <2>5. CASE request' = [request EXCEPT ![r].stage = "write"]
    <3> DEFINE q == [request[r] EXCEPT !.stage = "write"]
    <3>1. /\ q \in Request /\ q.row = request[r].row /\ q.read = request[r].read
          /\ q.tenant = t /\ q.op = "create"
      BY <1>1 DEF Request
    <3>2. /\ request' \in [Requests -> Request \cup {NoRequest}]
          /\ \A p \in Requests : request'[p] = IF p = r THEN q ELSE request[p]
      BY <2>5, <1>1, <3>1 DEF TypeOK
    <3>3. TypeOK'
      BY <1>1, <2>2, <3>2 DEF TypeOK
    <3> HIDE DEF q, t
    <3>4. PendingWrites'
      <4> SUFFICES ASSUME NEW p \in Requests, request'[p] # NoRequest
                   PROVE  /\ request'[p].row.mode = request'[p].read.mode
                          /\ request'[p].stage = "write" =>
                               /\ rows'[request'[p].tenant] # NoRow
                               /\ rows'[request'[p].tenant].mode = request'[p].row.mode
        BY DEF PendingWrites
      <4>1. CASE p = r
        BY <4>1, <1>1, <2>2, <3>1, <3>2 DEF LInv, PendingWrites
      <4>2. CASE p # r
        <5>1. request'[p] = request[p] /\ request[p] # NoRequest /\ request[p].tenant \in Tenants
          BY <4>2, <3>2 DEF LInv, TypeOK, Request
        <5>2. QED
          BY <5>1, <2>2 DEF LInv, PendingWrites, Grows
      <4>3. QED BY <4>1, <4>2
    <3>5. PlannedStatus'
      BY <1>1, <3>1, <3>2 DEF LInv, PlannedStatus
    <3>6. QED
      BY <2>2, <2>3, <3>3, <3>4, <3>5 DEF LInv
  <2>6. QED
    BY <2>4, <2>5, <1>3 DEF CreateInsert
<1>4. QED BY <1>2, <1>3

\* A whole row is written from the copy that was read.
LEMMA WriteBackPreserves ==
    ASSUME LInv, NEW r \in Requests, WriteBack(r)
    PROVE  LInv' /\ Grows
<1>1. /\ request[r].tenant \in Tenants /\ request[r].row \in Row
      /\ request[r] # NoRequest /\ request[r].stage = "write" /\ TypeOK
      /\ UpdateTenant(request[r].tenant, request[r].row) /\ Finish(r)
      /\ UNCHANGED <<phase, copy, crashes>>
  BY DEF WriteBack, LInv, TypeOK, Request
<1>2. /\ rows[request[r].tenant] # NoRow
      /\ request[r].row.mode = rows[request[r].tenant].mode
  BY <1>1 DEF LInv, PendingWrites
<1>3. rows' \in [Tenants -> Row \cup {NoRow}] /\ Grows
  BY <1>1, <1>2, UpdateKeepsMode
<1>4. PendingWrites' /\ PlannedStatus' /\ ServingHasBootstrap' /\ BootstrapCopies'
  BY <1>1, <1>3, FinishType, RequestsKept, ServersKept
<1>5. TypeOK'
  BY <1>1, <1>3, FinishType DEF TypeOK
<1>6. QED
  BY <1>3, <1>4, <1>5 DEF LInv

\* A step of one server's start-up keeps the invariant, if what the server
\* now relies on is true of the new table.
LEMMA ServerStepPreserves ==
    ASSUME LInv, NEW s \in Servers, NEW p \in Phases, Goto(s, p), Grows,
           rows' \in [Tenants -> Row \cup {NoRow}],
           copy' \in [Servers -> Row \cup {NoRow}],
           \A z \in Servers : z # s => copy'[z] = copy[z],
           p \in {"activateGet", "activateWrite", "forceWrite", "serving"} =>
               rows'[Bootstrap] # NoRow,
           p \in {"activateWrite", "forceWrite"} =>
               copy'[s] # NoRow /\ copy'[s].mode = rows'[Bootstrap].mode,
           request' \in [Requests -> Request \cup {NoRequest}],
           \A r \in Requests : request'[r] # NoRequest => request'[r] = request[r],
           crashes' \in 0..MaxCrashes
    PROVE  LInv'
<1>1. PendingWrites' /\ PlannedStatus'
  BY RequestsKept
<1>2. /\ phase' \in [Servers -> Phases]
      /\ \A z \in Servers : phase'[z] = IF z = s THEN p ELSE phase[z]
  BY DEF Goto, LInv, TypeOK
<1>3. TypeOK'
  BY <1>2 DEF TypeOK
<1>4. ServingHasBootstrap'
  BY <1>2 DEF LInv, ServingHasBootstrap, Known, Grows
<1>5. BootstrapCopies'
  <2> SUFFICES ASSUME NEW z \in Servers, phase'[z] \in {"activateWrite", "forceWrite"}
               PROVE  copy'[z] # NoRow /\ copy'[z].mode = rows'[Bootstrap].mode
    BY DEF BootstrapCopies
  <2>1. CASE z = s
    BY <2>1, <1>2
  <2>2. CASE z # s
    <3>1. phase[z] \in {"activateWrite", "forceWrite"} /\ copy'[z] = copy[z]
      BY <2>2, <1>2
    <3>2. rows[Bootstrap] # NoRow /\ copy[z] # NoRow /\ copy[z].mode = rows[Bootstrap].mode
      BY <3>1 DEF LInv, ServingHasBootstrap, BootstrapCopies, Known
    <3>3. QED
      BY <3>1, <3>2 DEF Grows
  <2>3. QED BY <2>1, <2>2
<1>6. QED
  BY <1>1, <1>3, <1>4, <1>5 DEF LInv

\* Reading the row of the super tenant changes the copy of one server.
LEMMA CopyType ==
    ASSUME TypeOK, NEW s \in Servers, NEW row \in Row \cup {NoRow},
           copy' = [copy EXCEPT ![s] = row]
    PROVE  /\ copy' \in [Servers -> Row \cup {NoRow}] /\ copy'[s] = row
           /\ \A z \in Servers : z # s => copy'[z] = copy[z]
BY DEF TypeOK

\* A server that starts looks the super tenant up.
LEMMA BootGetPreserves ==
    ASSUME LInv, NEW s \in Servers, BootGet(s)
    PROVE  LInv' /\ Grows
<1> DEFINE p == IF ~Known(Bootstrap) THEN "create"
                ELSE IF rows[Bootstrap].status = "active" THEN "serving" ELSE "forceWrite"
<1>1. /\ p \in Phases /\ Goto(s, p) /\ TypeOK
      /\ p \in {"activateGet", "activateWrite", "forceWrite", "serving"} => rows[Bootstrap] # NoRow
  BY DEF BootGet, Phases, Known, LInv
<1>2. /\ rows' = rows /\ request' = request /\ crashes' = crashes
      /\ copy' = [copy EXCEPT ![s] = rows[Bootstrap]]
      /\ rows[Bootstrap] \in Row \cup {NoRow}
  BY DEF BootGet, LInv, TypeOK
<1>3. /\ copy' \in [Servers -> Row \cup {NoRow}] /\ copy'[s] = rows[Bootstrap]
      /\ \A z \in Servers : z # s => copy'[z] = copy[z]
  BY <1>1, <1>2, CopyType
<1>4. Grows
  BY <1>2, SameTableGrows
<1>5. /\ rows' \in [Tenants -> Row \cup {NoRow}]
      /\ request' \in [Requests -> Request \cup {NoRequest}]
      /\ crashes' \in 0..MaxCrashes
  BY <1>1, <1>2 DEF TypeOK
<1> HIDE DEF p
<1>6. LInv'
  BY <1>1, <1>2, <1>3, <1>4, <1>5, ServerStepPreserves
<1>7. QED
  BY <1>4, <1>6

\* It reads the row again before it activates it.
LEMMA BootActivateGetPreserves ==
    ASSUME LInv, NEW s \in Servers, BootActivateGet(s)
    PROVE  LInv' /\ Grows
<1> DEFINE p == IF Accepts("activate", rows[Bootstrap].status) THEN "activateWrite" ELSE "down"
<1>1. p \in Phases /\ Goto(s, p) /\ TypeOK /\ rows[Bootstrap] # NoRow
  BY DEF BootActivateGet, Phases, Known, LInv, ServingHasBootstrap
<1>2. /\ rows' = rows /\ request' = request /\ crashes' = crashes
      /\ copy' = [copy EXCEPT ![s] = rows[Bootstrap]]
      /\ rows[Bootstrap] \in Row \cup {NoRow}
  BY DEF BootActivateGet, LInv, TypeOK
<1>3. /\ copy' \in [Servers -> Row \cup {NoRow}] /\ copy'[s] = rows[Bootstrap]
      /\ \A z \in Servers : z # s => copy'[z] = copy[z]
  BY <1>1, <1>2, CopyType
<1>4. Grows
  BY <1>2, SameTableGrows
<1>5. /\ rows' \in [Tenants -> Row \cup {NoRow}]
      /\ request' \in [Requests -> Request \cup {NoRequest}]
      /\ crashes' \in 0..MaxCrashes
  BY <1>1, <1>2 DEF TypeOK
<1> HIDE DEF p
<1>6. LInv'
  BY <1>1, <1>2, <1>3, <1>4, <1>5, ServerStepPreserves
<1>7. QED
  BY <1>4, <1>6

\* It creates the super tenant.
LEMMA BootCreatePreserves ==
    ASSUME LInv, NEW s \in Servers, BootCreate(s)
    PROVE  LInv' /\ Grows
<1>1. /\ TypeOK /\ copy' = copy /\ request' = request /\ crashes' = crashes
      /\ copy' \in [Servers -> Row \cup {NoRow}]
      /\ request' \in [Requests -> Request \cup {NoRequest}]
      /\ crashes' \in 0..MaxCrashes
      /\ "down" \in Phases /\ "activateGet" \in Phases
  BY DEF BootCreate, LInv, TypeOK, Phases
<1>2. CASE Known(Bootstrap)
  <2>1. Goto(s, "down") /\ rows' = rows /\ rows' \in [Tenants -> Row \cup {NoRow}]
    BY <1>2 DEF BootCreate, LInv, TypeOK
  <2>2. Grows
    BY <2>1, SameTableGrows
  <2>3. LInv'
    BY <1>1, <2>1, <2>2, ServerStepPreserves
  <2>4. QED BY <2>2, <2>3
<1>3. CASE ~Known(Bootstrap)
  <2>1. /\ Goto(s, "activateGet") /\ rows' = [rows EXCEPT ![Bootstrap] = NewRow("own")]
        /\ rows[Bootstrap] = NoRow /\ NewRow("own") \in Row
    BY <1>3, NewRowType DEF BootCreate, Known, Modes
  <2>2. rows' \in [Tenants -> Row \cup {NoRow}] /\ rows'[Bootstrap] # NoRow /\ Grows
    BY <1>1, <2>1, InsertGrows
  <2>3. LInv'
    BY <1>1, <2>1, <2>2, ServerStepPreserves
  <2>4. QED BY <2>2, <2>3
<1>4. QED BY <1>2, <1>3

\* It writes the super tenant back.
LEMMA BootWritePreserves ==
    ASSUME LInv, NEW s \in Servers, BootWrite(s)
    PROVE  LInv' /\ Grows
<1> DEFINE row == [copy[s] EXCEPT !.status = "active"]
<1>1. /\ copy[s] \in Row /\ copy[s].mode = rows[Bootstrap].mode
      /\ rows[Bootstrap] # NoRow
  BY DEF BootWrite, LInv, TypeOK, BootstrapCopies, ServingHasBootstrap, Known
<1>2. row \in Row /\ row.mode = rows[Bootstrap].mode
  BY <1>1 DEF Row, Statuses
<1>3. /\ TypeOK /\ copy' = copy /\ request' = request /\ crashes' = crashes
      /\ copy' \in [Servers -> Row \cup {NoRow}]
      /\ request' \in [Requests -> Request \cup {NoRequest}]
      /\ crashes' \in 0..MaxCrashes
      /\ "serving" \in Phases /\ Goto(s, "serving") /\ UpdateTenant(Bootstrap, row)
  BY DEF BootWrite, LInv, TypeOK, Phases
<1> HIDE DEF row
<1>4. rows' \in [Tenants -> Row \cup {NoRow}] /\ rows'[Bootstrap] # NoRow /\ Grows
  BY <1>1, <1>2, <1>3, UpdateKeepsMode
<1>5. LInv'
  BY <1>3, <1>4, ServerStepPreserves
<1>6. QED BY <1>4, <1>5

\* A server crashes and loses its requests.
LEMMA CrashPreserves ==
    ASSUME LInv, NEW s \in Servers, Crash(s)
    PROVE  LInv' /\ Grows
<1>1. /\ rows' = rows /\ copy' = copy /\ Goto(s, "down") /\ "down" \in Phases
      /\ rows' \in [Tenants -> Row \cup {NoRow}]
      /\ copy' \in [Servers -> Row \cup {NoRow}]
      /\ crashes' \in 0..MaxCrashes
  BY DEF Crash, Phases, LInv, TypeOK
<1>2. /\ request' \in [Requests -> Request \cup {NoRequest}]
      /\ \A r \in Requests : request'[r] # NoRequest => request'[r] = request[r]
  BY DEF Crash, LInv, TypeOK
<1>3. Grows
  BY <1>1, SameTableGrows
<1>4. LInv'
  BY <1>1, <1>2, <1>3, ServerStepPreserves
<1>5. QED BY <1>3, <1>4

\* It starts again.
LEMMA RestartPreserves ==
    ASSUME LInv, NEW s \in Servers, Restart(s)
    PROVE  LInv' /\ Grows
<1>1. /\ TypeOK /\ rows' = rows /\ request' = request /\ Goto(s, "get") /\ "get" \in Phases
      /\ rows' \in [Tenants -> Row \cup {NoRow}]
      /\ request' \in [Requests -> Request \cup {NoRequest}]
      /\ crashes' \in 0..MaxCrashes
      /\ copy' = [copy EXCEPT ![s] = NoRow]
  BY DEF Restart, Phases, LInv, TypeOK
<1>2. /\ copy' \in [Servers -> Row \cup {NoRow}]
      /\ \A z \in Servers : z # s => copy'[z] = copy[z]
  BY <1>1, CopyType
<1>3. Grows
  BY <1>1, SameTableGrows
<1>4. LInv'
  BY <1>1, <1>2, <1>3, ServerStepPreserves
<1>5. QED BY <1>3, <1>4

-----------------------------------------------------------------------------
(* The theorems.                                                            *)

\* Initially.
LEMMA LInvInit ==
    Init => LInv
BY DEF Init, LInv, TypeOK, ServingHasBootstrap, PendingWrites, PlannedStatus, BootstrapCopies, Phases

\* Every step.
LEMMA LInvNext ==
    LInv /\ [Next]_vars => LInv' /\ Grows
<1> SUFFICES ASSUME LInv, [Next]_vars
             PROVE  LInv' /\ Grows
  OBVIOUS
<1>1. CASE UNCHANGED vars
  <2>1. TypeOK'
    BY <1>1 DEF LInv, TypeOK, vars
  <2>2. /\ Grows /\ phase' = phase /\ copy' = copy /\ request' = request
        /\ request' \in [Requests -> Request \cup {NoRequest}]
    BY <1>1, SameTableGrows DEF vars, LInv, TypeOK
  <2>3. QED
    BY <2>1, <2>2, RequestsKept, ServersKept DEF LInv
<1>2. ASSUME NEW r \in Requests, NEW s \in Servers, NEW t \in Tenants, NEW mode \in Modes,
             NEW parent \in Parents \cup {None}, NEW ref \in Refs \cup {None},
             StartCreate(r, s, t, mode, parent, ref)
      PROVE  LInv' /\ Grows
  BY <1>2, StartCreatePreserves
<1>3. ASSUME NEW r \in Requests, CreateInsert(r)
      PROVE  LInv' /\ Grows
  BY <1>3, CreateInsertPreserves
<1>4. ASSUME NEW r \in Requests, NEW s \in Servers, NEW t \in Tenants,
             NEW op \in {"activate", "suspend", "delete"}, StartChange(r, s, t, op)
      PROVE  LInv' /\ Grows
  BY <1>4, StartChangePreserves
<1>5. ASSUME NEW r \in Requests, WriteBack(r)
      PROVE  LInv' /\ Grows
  BY <1>5, WriteBackPreserves
<1>6. ASSUME NEW s \in Servers,
             \/ BootGet(s) \/ BootCreate(s) \/ BootActivateGet(s) \/ BootWrite(s)
             \/ Crash(s) \/ Restart(s)
      PROVE  LInv' /\ Grows
  BY <1>6, BootGetPreserves, BootCreatePreserves, BootActivateGetPreserves, BootWritePreserves,
     CrashPreserves, RestartPreserves
<1>7. QED
  BY <1>1, <1>2, <1>3, <1>4, <1>5, <1>6 DEF Next

\* The rows, requests and copies keep their types whatever the requests of
\* all servers, their start-ups and their crashes do to each other.
THEOREM LifecycleTypeCorrect == Spec => []TypeOK
<1>1. LInv => TypeOK
  BY DEF LInv
<1>2. QED
  BY <1>1, LInvInit, LInvNext, PTL DEF Spec

\* Every server that accepts requests has a super tenant, for every number of
\* servers that start on the same database and crash.
THEOREM SuperTenantExists == Spec => []ServingHasBootstrap
<1>1. LInv => ServingHasBootstrap
  BY DEF LInv
<1>2. QED
  BY <1>1, LInvInit, LInvNext, PTL DEF Spec

\* No interleaving of creates, status changes and start-ups loses a row or
\* changes the schema mode that it was created with.
THEOREM ModeIsKept == Spec => RowsKeepMode
<1>1. LInv /\ [Next]_vars =>
        [\A t \in Tenants : rows[t] # NoRow =>
              rows'[t] # NoRow /\ rows'[t].mode = rows[t].mode]_vars
  BY LInvNext DEF Grows
<1>2. QED
  BY <1>1, LInvInit, LInvNext, PTL DEF Spec, RowsKeepMode

\* A write of a request that read the row as it is now moves its status along
\* the lifecycle.
LEMMA WriteIsLegal ==
    ASSUME LInv, NEW r \in Requests, WriteBack(r), rows[request[r].tenant] = request[r].read
    PROVE  Legal(rows[request[r].tenant].status, rows'[request[r].tenant].status)
<1> DEFINE t == request[r].tenant
<1>1. /\ t \in Tenants /\ request[r].row \in Row /\ request[r].read \in Row
      /\ request[r] # NoRequest /\ request[r].stage = "write" /\ TypeOK
      /\ request[r].op \in {"create", "activate", "suspend", "delete"}
      /\ UpdateTenant(t, request[r].row)
  BY DEF WriteBack, LInv, TypeOK, Request
<1>2. rows[t] # NoRow /\ request[r].row.mode = rows[t].mode
  BY <1>1 DEF LInv, PendingWrites
<1> HIDE DEF t
<1>3. rows'[t].status = request[r].row.status
  BY <1>1, <1>2, UpdateKeepsMode
<1>4. IF request[r].op = "create"
      THEN request[r].row.status = request[r].read.status
      ELSE /\ request[r].row.status = Target(request[r].op)
           /\ Accepts(request[r].op, request[r].read.status)
  BY <1>1 DEF LInv, PlannedStatus
<1>5. Legal(request[r].read.status, request[r].row.status)
  BY <1>1, <1>4 DEF Legal, Target, Accepts
<1>6. QED
  BY <1>3, <1>5 DEF t

\* Only its own write ends a request in a step that changes the table.
LEMMA OnlyWriteBackWrites ==
    ASSUME LInv, [Next]_vars, NEW r \in Requests, Writes(r)
    PROVE  WriteBack(r)
<1>1. /\ request[r] # NoRequest /\ request[r].stage = "write"
      /\ request'[r] = NoRequest /\ rows' # rows /\ TypeOK
  BY DEF Writes, LInv
<1>2. ASSUME NEW p \in Requests, CreateInsert(p)
      PROVE  p = r => FALSE
  BY <1>1, <1>2 DEF CreateInsert
<1>3. ASSUME NEW p \in Requests, p # r, CreateInsert(p) \/ WriteBack(p)
      PROVE  FALSE
  <2>1. request'[r] = request[r]
    BY <1>1, <1>3 DEF CreateInsert, WriteBack, Finish, TypeOK
  <2>2. QED BY <1>1, <2>1
<1>4. ASSUME NEW s \in Servers,
             BootGet(s) \/ BootCreate(s) \/ BootActivateGet(s) \/ BootWrite(s) \/ Restart(s)
      PROVE  FALSE
  BY <1>1, <1>4 DEF BootGet, BootCreate, BootActivateGet, BootWrite, Restart
<1>5. ASSUME NEW s \in Servers, Crash(s)
      PROVE  FALSE
  BY <1>1, <1>5 DEF Crash
<1>6. ASSUME NEW p \in Requests, NEW s \in Servers, NEW t \in Tenants, NEW mode \in Modes,
             NEW parent \in Parents \cup {None}, NEW ref \in Refs \cup {None},
             StartCreate(p, s, t, mode, parent, ref)
      PROVE  FALSE
  BY <1>1, <1>6 DEF StartCreate
<1>7. ASSUME NEW p \in Requests, NEW s \in Servers, NEW t \in Tenants,
             NEW op \in {"activate", "suspend", "delete"}, StartChange(p, s, t, op)
      PROVE  FALSE
  BY <1>1, <1>7 DEF StartChange
<1>8. rows' # rows => Next
  BY DEF vars
<1>9. QED
  BY <1>1, <1>2, <1>3, <1>4, <1>5, <1>6, <1>7, <1>8 DEF Next

\* Every transition outside the lifecycle is a lost update: the request wrote
\* over a row that is no longer the one it read.
THEOREM IllegalIsLostUpdate == Spec => IllegalOnlyIfStale
<1>1. LInv /\ [Next]_vars =>
        [\A r \in Requests : Writes(r) =>
            LET t == request[r].tenant
            IN  Legal(rows[t].status, rows'[t].status) \/ rows[t] # request[r].read]_vars
  BY WriteIsLegal, OnlyWriteBackWrites
<1>2. QED
  BY <1>1, LInvInit, LInvNext, PTL DEF Spec, IllegalOnlyIfStale
=============================================================================
