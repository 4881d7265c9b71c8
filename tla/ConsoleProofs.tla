---------------------------- MODULE ConsoleProofs ----------------------------
(***************************************************************************)
(* Proofs about the console, for every set of tenants, documents, words    *)
(* and budgets.                                                            *)
(***************************************************************************)
EXTENDS Console, FiniteSetTheorems, TLAPS

-----------------------------------------------------------------------------
(* The selected tenant.                                                    *)

\* The cache has an entry for every key.
CacheShape == DOMAIN cache = Keys /\ cache = [k \in Keys |-> cache[k]]

SelectedInv == CacheShape /\ SelectedExists

\* The list of tenants is always on the screen.
LEMMA TenantsOnScreen == tenantKey \in Keys /\ tenantKey \in Current
  BY DEF Keys, Current, OnScreen

\* Initially.
LEMMA SelectedInit == Init => SelectedInv
  <1> SUFFICES ASSUME Init PROVE SelectedInv
    OBVIOUS
  <1>1. CASE InitQueries(Keys, [k \in {} |-> {}], Current)
    BY <1>1, TenantsOnScreen DEF InitQueries, SelectedInv, CacheShape, SelectedExists
  <1>2. CASE existing = Tenants /\ InitQueries(Keys, [k \in {tenantKey} |-> existing], Current)
    <2>1. tenant \in Tenants
      BY DEF Init
    <2> QED  BY <1>2, <2>1, TenantsOnScreen DEF InitQueries, SelectedInv, CacheShape, SelectedExists
  <1> QED  BY <1>1, <1>2 DEF Init

\* Steps that leave the cached data and the tenant alone.
LEMMA SelectedSame == SelectedInv /\ UNCHANGED <<cache, tenant>> => SelectedInv'
  BY DEF SelectedInv, CacheShape, SelectedExists

\* What the user does besides choosing a tenant.
LEMMA UserKeepsTenant ==
  ASSUME TuplesStep \/ LoadMore \/ ExplorerStep \/ SchemaStep \/ \E p \in Pages : Navigate(p)
  PROVE  UNCHANGED <<cache, tenant, service>>
  <1>1. ASSUME NEW p, NEW v, Show(p, tenant, v) PROVE UNCHANGED <<cache, tenant, service>>
    BY <1>1 DEF Show, Draw, Observe
  <1>2. ASSUME NEW kind, NEW arg, NEW v, Call(kind, arg, v) PROVE UNCHANGED <<cache, tenant, service>>
    BY <1>2 DEF Call, queries
  <1>3. CASE TuplesStep
    BY <1>1, <1>2, <1>3 DEF TuplesStep, updateFilter, updateField, clearFilter, AskDelete, CancelDelete,
      handleDelete, SetOpen, SelectObjectType, SelectRelation, SelectSubjectType, handleSubmit, Do
  <1>4. CASE LoadMore
    BY <1>1, <1>4 DEF LoadMore
  <1>5. CASE ExplorerStep
    BY <1>1, <1>2, <1>5 DEF ExplorerStep, updateForm, handleExpand
  <1>6. CASE SchemaStep
    BY <1>1, <1>2, <1>6 DEF SchemaStep, SelectTab, Edit, handleUpload, UploadRead, handleSave, SelectType,
      SelectAction, handleCheck, Change
  <1>7. CASE \E p \in Pages : Navigate(p)
    BY <1>1, <1>7 DEF Navigate
  <1> QED  BY <1>3, <1>4, <1>5, <1>6, <1>7

\* The list of tenants arrives.
LEMMA ReceiveTenantsSelected == SelectedInv /\ ReceiveTenants => SelectedInv'
  <1> SUFFICES ASSUME SelectedInv, ReceiveTenants PROVE SelectedInv'
    OBVIOUS
  <1> DEFINE arrived == request[tenantKey].data
             list == IF arrived = NoData THEN {} ELSE arrived
  <1>1. tenant' = Fallback(list)
    BY DEF ReceiveTenants, Draw
  <1>2. cache' = IF arrived # NoData THEN [cache EXCEPT ![tenantKey] = arrived] ELSE cache
    BY DEF ReceiveTenants, Receive
  <1>3. list # {} => tenant' \in list
    BY <1>1 DEF Fallback
  <1>4. list = {} => tenant' = tenant
    BY <1>1 DEF Fallback
  <1>5. CacheShape'
    BY <1>2 DEF SelectedInv, CacheShape
  <1>6. CASE arrived = NoData
    BY <1>2, <1>4, <1>5, <1>6 DEF SelectedInv, SelectedExists
  <1>7. CASE arrived # NoData
    <2>1. cache'[tenantKey] = arrived
      BY <1>2, <1>7, TenantsOnScreen DEF SelectedInv, CacheShape
    <2> QED  BY <2>1, <1>3, <1>5, <1>7 DEF SelectedInv, SelectedExists
  <1> QED  BY <1>6, <1>7

\* The data of another query change.
LEMMA QuerySelected == ASSUME NEW k \in Keys, SelectedInv, Query(k) PROVE SelectedInv'
  <1>1. CASE ReceiveQuery(k)
    <2>1. k # tenantKey /\ UNCHANGED tenant
      BY <1>1 DEF ReceiveQuery, Draw
    <2>2. cache' = cache \/ cache' = [cache EXCEPT ![k] = request[k].data]
      BY <1>1 DEF ReceiveQuery, Receive
    <2> QED  BY <2>1, <2>2, TenantsOnScreen DEF SelectedInv, CacheShape, SelectedExists
  <1>2. CASE EvictQuery(k)
    <2>1. k # tenantKey /\ UNCHANGED tenant
      BY <1>2, TenantsOnScreen DEF EvictQuery, screen
    <2>2. cache' = [cache EXCEPT ![k] = NoData]
      BY <1>2 DEF EvictQuery, Evict
    <2> QED  BY <2>1, <2>2, TenantsOnScreen DEF SelectedInv, CacheShape, SelectedExists
  <1>3. CASE AnswerQuery(k) \/ FailQuery(k) \/ ReconnectQuery(k)
    <2>1. UNCHANGED <<cache, tenant>>
      BY <1>3 DEF AnswerQuery, FailQuery, ReconnectQuery, Answer, Fail, Reconnect, Draw, screen
    <2> QED  BY <2>1, SelectedSame
  <1> QED  BY <1>1, <1>2, <1>3 DEF Query

\* A call is answered or ends.
LEMMA MutationKeepsTenant == ASSUME NEW m, Mutation(m) PROVE UNCHANGED <<cache, tenant>>
  <1>1. ASSUME NEW keys, NEW missed, NEW v, Settle(m, keys, missed, v) PROVE UNCHANGED <<cache, tenant>>
    BY <1>1 DEF Settle, Invalidate
  <1> QED  BY <1>1 DEF Mutation, Refuse, Perform, Lose, SettleRefused, WriteSucceeds, DeleteSucceeds,
      ExpandSucceeds, SaveSucceeds, CheckEnds, queries, screen

\* Every step.
LEMMA SelectedNext == SelectedInv /\ [Next]_vars => SelectedInv'
  <1> SUFFICES ASSUME SelectedInv, [Next]_vars PROVE SelectedInv'
    OBVIOUS
  <1>1. ASSUME NEW t \in Tenants, SelectTenant(t) PROVE SelectedInv'
    BY <1>1 DEF SelectTenant, Show, Draw, Observe, SelectedInv, CacheShape, SelectedExists
  <1>2. CASE TuplesStep \/ LoadMore \/ ExplorerStep \/ SchemaStep \/ \E p \in Pages : Navigate(p)
    BY <1>2, UserKeepsTenant, SelectedSame
  <1>3. CASE ReceiveTenants
    BY <1>3, ReceiveTenantsSelected
  <1>4. CASE \E k \in Keys : Query(k)
    BY <1>4, QuerySelected
  <1>5. CASE \E m \in mutations : Mutation(m)
    BY <1>5, MutationKeepsTenant, SelectedSame
  <1>6. CASE \E load \in loads : FinishLoad(load)
    BY <1>6, SelectedSame DEF FinishLoad, queries, screen
  <1>7. CASE \E t \in Tenants : \/ OtherWrites(t, Typed)
                                \/ \E doc \in Valid : OtherLoads(t, doc)
                                \/ OtherCreates(t)
    BY <1>7, SelectedSame DEF OtherWrites, OtherLoads, OtherCreates, Other, queries, screen
  <1>8. CASE RestartServer
    BY <1>8, SelectedSame DEF RestartServer, queries, screen
  <1>9. CASE UNCHANGED vars
    BY <1>9, SelectedSame DEF vars, queries, screen
  <1> QED  BY <1>1, <1>2, <1>3, <1>4, <1>5, <1>6, <1>7, <1>8, <1>9 DEF Next

\* SelectedExists, whatever tenants appear and disappear: the selected tenant
\* is in the list that the console knows, if that has any.
THEOREM SelectedTenantExists == Spec => []SelectedExists
  <1>1. SelectedInv => SelectedExists
    BY DEF SelectedInv
  <1> QED  BY <1>1, SelectedInit, SelectedNext, PTL DEF Spec

-----------------------------------------------------------------------------
(* The schemas of the service.                                             *)

\* The two maps, and the loads between their two writes: unless loads of a
\* tenant overlapped there is at most one, and the engine has its document.
MapsShape ==
    /\ engine \in [Tenants -> Valid \cup {NoSchema}]
    /\ registry \in [Tenants -> Valid \cup {NoSchema}]
    /\ \A load \in loads : load.tenant \in Tenants /\ load.doc \in Valid
    /\ existing \subseteq Tenants
LoadsAlone ==
    \A load \in loads : load.tenant \notin overlapped =>
        /\ engine[load.tenant] = load.doc
        /\ \A other \in loads : other.tenant = load.tenant => other = load
MapsInv == MapsShape /\ LoadsAlone /\ ReadsMatchChecks

\* Initially.
LEMMA MapsInit == Init => MapsInv
  BY ShellAssumption DEF Init, MapsInv, MapsShape, LoadsAlone, ReadsMatchChecks, handleGetSchema, schemaForTenant

\* The first write of a load.
LEMMA LoadSchemaMaps ==
  ASSUME NEW id, NEW t \in existing, NEW doc \in Valid, MapsInv,
         LoadSchema([id |-> id, tenant |-> t, doc |-> doc]), UNCHANGED existing
  PROVE  MapsInv'
  <1> DEFINE load == [id |-> id, tenant |-> t, doc |-> doc]
  <1>1. load.tenant = t /\ load.doc = doc /\ t \in Tenants
    BY DEF MapsInv, MapsShape
  <1>2. /\ engine' = [engine EXCEPT ![t] = doc]
        /\ loads' = loads \cup {load}
        /\ overlapped' = IF \E other \in loads : other.tenant = t THEN overlapped \cup {t}
                         ELSE overlapped \ {t}
        /\ registry' = registry
    BY <1>1 DEF LoadSchema
  <1> HIDE DEF load
  <1>3. MapsShape'
    BY <1>1, <1>2 DEF MapsInv, MapsShape
  <1>4. LoadsAlone'
    BY <1>1, <1>2 DEF MapsInv, MapsShape, LoadsAlone
  <1>5. ReadsMatchChecks'
    BY <1>1, <1>2 DEF MapsInv, MapsShape, ReadsMatchChecks, handleGetSchema, schemaForTenant
  <1> QED  BY <1>3, <1>4, <1>5 DEF MapsInv

\* The second write.
LEMMA RegisterMaps ==
  ASSUME NEW load, MapsInv, Register(load), UNCHANGED existing
  PROVE  MapsInv'
  <1>1. MapsShape'
    BY DEF MapsInv, MapsShape, Register
  <1>2. LoadsAlone'
    BY DEF MapsInv, MapsShape, LoadsAlone, Register
  <1>3. ReadsMatchChecks'
    BY DEF MapsInv, MapsShape, LoadsAlone, ReadsMatchChecks, handleGetSchema, schemaForTenant, Register
  <1> QED  BY <1>1, <1>2, <1>3 DEF MapsInv

\* Steps elsewhere.
LEMMA MapsSame == MapsInv /\ UNCHANGED <<schemas, existing>> => MapsInv'
  BY DEF schemas, MapsInv, MapsShape, LoadsAlone, ReadsMatchChecks, handleGetSchema, schemaForTenant

\* Every step.
LEMMA MapsNext == MapsInv /\ [Next]_vars => MapsInv'
  <1> SUFFICES ASSUME MapsInv, [Next]_vars PROVE MapsInv'
    OBVIOUS
  <1> USE DEF service
  <1>1. ASSUME NEW t \in Tenants, SelectTenant(t) PROVE MapsInv'
    BY <1>1, MapsSame DEF SelectTenant, Show
  <1>2. CASE TuplesStep \/ LoadMore \/ ExplorerStep \/ SchemaStep \/ \E p \in Pages : Navigate(p)
    BY <1>2, UserKeepsTenant, MapsSame
  <1>3. CASE ReceiveTenants
    BY <1>3, MapsSame DEF ReceiveTenants
  <1>4. CASE \E k \in Keys : Query(k)
    BY <1>4, MapsSame DEF Query, ReceiveQuery, AnswerQuery, FailQuery, ReconnectQuery, EvictQuery
  <1>5. ASSUME NEW m \in mutations, Mutation(m) PROVE MapsInv'
    <2>1. ASSUME NEW keys, NEW missed, NEW v, Settle(m, keys, missed, v) PROVE UNCHANGED service
      BY <2>1 DEF Settle
    <2>2. CASE Perform(m)
      <3>1. CASE m.kind = "save" /\ LoadSchema([id |-> m.id, tenant |-> m.tenant, doc |-> m.arg])
                   /\ UNCHANGED <<existing, stored, log>>
        <4>1. m.tenant \in existing /\ m.arg \in Valid
          BY <2>2, <3>1 DEF Perform, accepts
        <4> QED  BY <3>1, <4>1, LoadSchemaMaps
      <3>2. CASE UNCHANGED <<existing, schemas>>
        BY <3>2, MapsSame
      <3> QED  BY <2>2, <3>1, <3>2 DEF Perform, Store
    <2>3. CASE ~Perform(m)
      <3>1. UNCHANGED service
        BY <1>5, <2>1, <2>3 DEF Mutation, Refuse, Lose, SettleRefused, WriteSucceeds, DeleteSucceeds,
          ExpandSucceeds, SaveSucceeds, CheckEnds
      <3> QED  BY <3>1, MapsSame
    <2> QED  BY <2>2, <2>3
  <1>6. ASSUME NEW load \in loads, FinishLoad(load) PROVE MapsInv'
    BY <1>6, RegisterMaps DEF FinishLoad
  <1>7. ASSUME NEW t \in Tenants, OtherWrites(t, Typed) PROVE MapsInv'
    BY <1>7, MapsSame DEF OtherWrites, Store
  <1>8. ASSUME NEW t \in Tenants, NEW doc \in Valid, OtherLoads(t, doc) PROVE MapsInv'
    BY <1>8, LoadSchemaMaps DEF OtherLoads
  <1>9. ASSUME NEW t \in Tenants, OtherCreates(t) PROVE MapsInv'
    BY <1>9 DEF OtherCreates, schemas, MapsInv, MapsShape, LoadsAlone, ReadsMatchChecks, handleGetSchema,
      schemaForTenant
  <1>10. CASE RestartServer
    BY <1>10, ShellAssumption DEF RestartServer, Restart, MapsInv, MapsShape, LoadsAlone, ReadsMatchChecks,
      handleGetSchema, schemaForTenant
  <1>11. CASE UNCHANGED vars
    BY <1>11, MapsSame DEF vars
  <1> QED  BY <1>1, <1>2, <1>3, <1>4, <1>5, <1>6, <1>7, <1>8, <1>9, <1>10, <1>11 DEF Next

\* ReadsMatchChecks, for any number of clients that load schemas at the same
\* time, any restarts between and any modes of the tenants.
THEOREM ReadsAgreeWithChecks == Spec => []ReadsMatchChecks
  <1>1. MapsInv => ReadsMatchChecks
    BY DEF MapsInv
  <1> QED  BY <1>1, MapsInit, MapsNext, PTL DEF Spec

-----------------------------------------------------------------------------
(* The calls.                                                              *)

CallShape(m) ==
    m = [id |-> m.id, kind |-> m.kind, tenant |-> m.tenant, hook |-> m.hook, arg |-> m.arg,
         at |-> m.at, result |-> m.result]

Lefts == [page : Pages, steps : Nat, moves : Nat, calls : Nat, events : Nat]

\* Calls are numbered downwards, and no two have the same number.
CallsInv ==
    /\ left \in Lefts
    /\ \A m \in mutations : CallShape(m) /\ m.id \in Nat /\ m.id > left.calls
    /\ \A m, n \in mutations : m.id = n.id => m = n

\* What a step may change of a call n that was m: the hook's tenant, the
\* state and the result.
SameCall(n, m) ==
    /\ CallShape(n)
    /\ n.id = m.id /\ n.kind = m.kind /\ n.tenant = m.tenant /\ n.arg = m.arg

\* The calls after a step are calls that were there before.
CallsCarried ==
    /\ \A n \in mutations' : \E m \in mutations : SameCall(n, m)
    /\ \A m, n \in mutations' : m.id = n.id => m = n
    /\ left' \in Lefts /\ left'.calls = left.calls

\* Initially.
LEMMA CallsInit == Init => CallsInv
  BY ShellAssumption DEF Init, CallsInv, Lefts

\* A step that only carries calls on.
LEMMA CarriedCalls == CallsInv /\ CallsCarried => CallsInv'
  BY DEF CallsInv, CallsCarried, SameCall, Lefts

\* The hooks of the mounted components are given the tenant on the screen.
LEMMA HooksCarried ==
  ASSUME NEW t, NEW v, CallsInv, mutations' = Hooks(mutations, t, v),
         left' \in Lefts, left'.calls = left.calls
  PROVE  CallsCarried
  <1> DEFINE F(m) == IF m.id \in v.pending THEN [m EXCEPT !.hook = t] ELSE m
  <1>1. mutations' = {F(m) : m \in mutations}
    BY DEF Hooks
  <1>2. ASSUME NEW m \in mutations PROVE SameCall(F(m), m)
    <2>1. CallShape(m)
      BY DEF CallsInv
    <2> QED  BY <2>1 DEF SameCall, CallShape
  <1> HIDE DEF F
  <1>3. \A n \in mutations' : \E m \in mutations : n = F(m) /\ SameCall(n, m)
    BY <1>1, <1>2
  <1>4. \A m, n \in mutations' : m.id = n.id => m = n
    BY <1>3 DEF SameCall, CallsInv
  <1> QED  BY <1>3, <1>4 DEF CallsCarried

\* One call is answered.
LEMMA AnsweredCarried ==
  ASSUME NEW m \in mutations, NEW at, NEW result, CallsInv, Answered(m, at, result),
         left' \in Lefts, left'.calls = left.calls
  PROVE  CallsCarried
  <1> DEFINE a == [m EXCEPT !.at = at, !.result = result]
  <1>1. mutations' = (mutations \ {m}) \cup {a}
    BY DEF Answered
  <1>2. SameCall(a, m)
    <2> DEFINE b == [m EXCEPT !.at = at]
    <2>1. CallShape(m)
      BY DEF CallsInv
    <2>2. SameCall(b, m)
      BY <2>1 DEF SameCall, CallShape
    <2>3. a = [b EXCEPT !.result = result]
      OBVIOUS
    <2> HIDE DEF b, a
    <2>4. SameCall(a, b)
      BY <2>2, <2>3 DEF SameCall, CallShape
    <2> QED  BY <2>2, <2>4 DEF SameCall
  <1> HIDE DEF a
  <1>3. \A n \in mutations : SameCall(n, n)
    BY DEF CallsInv, SameCall
  <1>4. \A x, n \in mutations' : x.id = n.id => x = n
    BY <1>1, <1>2 DEF SameCall, CallsInv
  <1> QED  BY <1>1, <1>2, <1>3, <1>4 DEF CallsCarried

\* The states of several calls change.
LEMMA MovedCarried ==
  ASSUME NEW S, NEW at, CallsInv,
         mutations' = {IF m \in S THEN [m EXCEPT !.at = at] ELSE m : m \in mutations},
         left' \in Lefts, left'.calls = left.calls
  PROVE  CallsCarried
  <1> DEFINE F(m) == IF m \in S THEN [m EXCEPT !.at = at] ELSE m
  <1>1. mutations' = {F(m) : m \in mutations}
    OBVIOUS
  <1>2. ASSUME NEW m \in mutations PROVE SameCall(F(m), m)
    <2>1. CallShape(m)
      BY DEF CallsInv
    <2> QED  BY <2>1 DEF SameCall, CallShape
  <1> HIDE DEF F
  <1>3. \A n \in mutations' : \E m \in mutations : n = F(m) /\ SameCall(n, m)
    BY <1>1, <1>2
  <1>4. \A m, n \in mutations' : m.id = n.id => m = n
    BY <1>3 DEF SameCall, CallsInv
  <1> QED  BY <1>3, <1>4 DEF CallsCarried

\* A call ends, or nothing happens to the calls.
LEMMA FewerCarried ==
  ASSUME CallsInv, mutations' \subseteq mutations, left' \in Lefts, left'.calls = left.calls
  PROVE  CallsCarried
  BY DEF CallsInv, CallsCarried, SameCall

\* What the budget pays for besides calls.
LEMMA BudgetSteps ==
  ASSUME left \in Lefts, Step \/ Event \/ UNCHANGED left \/ \E p \in Pages : Navigate(p)
  PROVE  left' \in Lefts /\ left'.calls = left.calls
  BY DEF Lefts, Step, Event, Navigate

\* The steps of the user that make no call: the page p is shown with the
\* components v.
Shows(p, t, v) == Show(p, t, v) /\ left' \in Lefts /\ left'.calls = left.calls /\ UNCHANGED quiet

\* They carry the calls on.
LEMMA ShowsCarried == ASSUME NEW p, NEW t, NEW v, CallsInv, Shows(p, t, v) PROVE CallsCarried
  <1>1. PICK w : w = view'
    OBVIOUS
  <1>2. mutations' = Hooks(mutations, t, w)
    BY <1>1 DEF Shows, Show, Draw
  <1> QED  BY <1>2, HooksCarried DEF Shows

\* The components w have the fields of v and wait for no other calls.
Shape(v) == v = [f \in DOMAIN v |-> v[f]] /\ "pending" \in DOMAIN v
Keeps(v, w) == Shape(v) => Shape(w) /\ w.pending \subseteq v.pending

\* The calls that a page makes.
Kinds(p) ==
    CASE p = "tuples"   -> {"write", "delete"}
      [] p = "explorer" -> {"expand"}
      [] p = "schema"   -> {"save", "check"}
      [] OTHER          -> {}

\* What the user does on a page: the components change and go on waiting, or
\* a call is made.
PageStep ==
    \/ \E v : Shows(page, tenant, v) /\ Keeps(view, v)
    \/ \E kind \in Kinds(page) : \E arg, v :
          Call(kind, arg, v) /\ (Shape(view) => Shape(v) /\ v.pending = view.pending)

\* The steps of the tuples page.
LEMMA TuplesSteps == ASSUME CallsInv, TuplesStep PROVE PageStep
  <1>1. ASSUME NEW v, Do(v), Keeps(view, v) PROVE PageStep
    <2>1. Shows(page, tenant, v)
      BY <1>1, BudgetSteps DEF Do, Shows, CallsInv, Step
    <2> QED  BY <1>1, <2>1 DEF PageStep
  <1>2. CASE handleDelete \/ handleSubmit
    <2>1. PICK kind, arg : kind \in {"write", "delete"} /\ Call(kind, arg, view)
      BY <1>2 DEF handleDelete, handleSubmit
    <2>2. kind \in Kinds(page)
      BY <2>1 DEF Kinds, TuplesStep
    <2> QED  BY <2>1, <2>2 DEF PageStep
  <1>3. ASSUME NEW field, NEW word PROVE Keeps(view, [view EXCEPT !.filter[field] = word])
    BY DEF Keeps, Shape
  <1>4. ASSUME NEW x PROVE Keeps(view, [view EXCEPT !.filter = x])
    BY DEF Keeps, Shape
  <1>5. ASSUME NEW x PROVE Keeps(view, [view EXCEPT !.target = x])
    BY DEF Keeps, Shape
  <1>6. ASSUME NEW x PROVE Keeps(view, [view EXCEPT !.open = x])
    BY DEF Keeps, Shape
  <1>7. ASSUME NEW form, NEW fields PROVE Keeps(view, Fill(form, fields))
    BY DEF Keeps, Shape, Fill
  <1>8. ASSUME NEW field, NEW word, updateFilter(field, word) PROVE PageStep
    BY <1>1, <1>3, <1>8 DEF updateFilter
  <1>9. ASSUME NEW field, NEW word, updateField(field, word) PROVE PageStep
    BY <1>1, <1>7, <1>9 DEF updateField
  <1>10. CASE clearFilter
    BY <1>1, <1>4, <1>10 DEF clearFilter
  <1>11. ASSUME NEW x, AskDelete(x) PROVE PageStep
    BY <1>1, <1>5, <1>11 DEF AskDelete
  <1>12. CASE CancelDelete
    BY <1>1, <1>5, <1>12 DEF CancelDelete
  <1>13. ASSUME NEW open, SetOpen(open) PROVE PageStep
    BY <1>1, <1>6, <1>13 DEF SetOpen
  <1>14. ASSUME NEW x, SelectObjectType(x) \/ SelectRelation(x) \/ SelectSubjectType(x) PROVE PageStep
    <2>1. \E form, fields : Do(Fill(form, fields))
      BY <1>14 DEF SelectObjectType, SelectRelation, SelectSubjectType
    <2> QED  BY <2>1, <1>1, <1>7
  <1> QED  BY <1>2, <1>8, <1>9, <1>10, <1>11, <1>12, <1>13, <1>14 DEF TuplesStep

\* The steps of the changelog page.
LEMMA ChangelogSteps == ASSUME CallsInv, LoadMore PROVE PageStep
  <1>1. left' \in Lefts /\ left'.calls = left.calls
    BY BudgetSteps DEF LoadMore, CallsInv
  <1>2. ASSUME NEW x PROVE Keeps(view, [view EXCEPT !.sinceSeq = x])
    BY DEF Keeps, Shape
  <1>3. \E x : Shows(page, tenant, [view EXCEPT !.sinceSeq = x])
    BY <1>1 DEF LoadMore, Shows, Step
  <1> QED  BY <1>2, <1>3 DEF PageStep

\* The steps of the explorer.
LEMMA ExplorerSteps == ASSUME CallsInv, ExplorerStep PROVE PageStep
  <1>1. CASE handleExpand
    <2>1. "expand" \in Kinds(page)
      BY DEF Kinds, ExplorerStep
    <2> QED  BY <1>1, <2>1 DEF handleExpand, PageStep
  <1>2. ASSUME NEW field, NEW word, updateForm(field, word) PROVE PageStep
    <2>1. left' \in Lefts /\ left'.calls = left.calls
      BY <1>2, BudgetSteps DEF updateForm, CallsInv
    <2>2. Keeps(view, [view EXCEPT !.form[field] = word])
      BY DEF Keeps, Shape
    <2>3. Shows(page, tenant, [view EXCEPT !.form[field] = word])
      BY <1>2, <2>1 DEF updateForm, Shows, Step
    <2> QED  BY <2>2, <2>3 DEF PageStep
  <1> QED  BY <1>1, <1>2 DEF ExplorerStep

\* The steps of the schema page.
LEMMA SchemaSteps == ASSUME CallsInv, SchemaStep PROVE PageStep
  <1>1. ASSUME NEW v, Keeps(view, v), Change(v) \/ (Show(page, tenant, v) /\ UNCHANGED bounds)
        PROVE  PageStep
    <2>1. Shows(page, tenant, v)
      BY <1>1, BudgetSteps DEF Change, Shows, CallsInv, Step, bounds
    <2> QED  BY <1>1, <2>1 DEF PageStep
  <1>2. ASSUME NEW tab, SelectTab(tab) PROVE PageStep
    <2>1. PICK v : v = [view EXCEPT !.tab = tab, !.draft = None, !.upload = None, !.pending = @ \ Ids("save")]
      OBVIOUS
    <2>2. Keeps(view, v)
      BY <2>1 DEF Keeps, Shape
    <2> QED  BY <1>1, <1>2, <2>1, <2>2 DEF SelectTab
  <1>3. ASSUME NEW text, Edit(text) \/ handleUpload(text) PROVE PageStep
    <2>1. PICK v, w : v = [view EXCEPT !.draft = text] /\ w = [view EXCEPT !.upload = text]
      OBVIOUS
    <2>2. Keeps(view, v) /\ Keeps(view, w)
      BY <2>1 DEF Keeps, Shape
    <2> QED  BY <1>1, <1>3, <2>1, <2>2 DEF Edit, handleUpload
  <1>4. CASE UploadRead
    <2>1. PICK v : v = [view EXCEPT !.draft = view.upload, !.upload = None]
      OBVIOUS
    <2>2. Keeps(view, v)
      BY <2>1 DEF Keeps, Shape
    <2> QED  BY <1>1, <1>4, <2>1, <2>2 DEF UploadRead
  <1>5. ASSUME NEW x, SelectType(x) \/ SelectAction(x) PROVE PageStep
    <2>1. PICK v, w : v = [view EXCEPT !.type = x, !.action = NoWord] /\ w = [view EXCEPT !.action = x]
      OBVIOUS
    <2>2. Keeps(view, v) /\ Keeps(view, w)
      BY <2>1 DEF Keeps, Shape
    <2> QED  BY <1>1, <1>5, <2>1, <2>2 DEF SelectType, SelectAction
  <1>6. "save" \in Kinds(page) /\ "check" \in Kinds(page)
    BY DEF SchemaStep, Kinds
  <1>7. CASE handleSave
    BY <1>6, <1>7 DEF handleSave, PageStep
  <1>8. CASE handleCheck
    <2>1. PICK v : v = [view EXCEPT !.decision = None, !.asked = left.calls]
      OBVIOUS
    <2>2. Shape(view) => Shape(v) /\ v.pending = view.pending
      BY <2>1 DEF Shape
    <2>3. \E arg : Call("check", arg, v)
      BY <1>8, <2>1 DEF handleCheck
    <2> QED  BY <1>6, <2>2, <2>3 DEF PageStep
  <1> QED  BY <1>2, <1>3, <1>4, <1>5, <1>7, <1>8 DEF SchemaStep

\* A call is made.
LEMMA CallMade ==
  ASSUME NEW kind, NEW arg, NEW v, CallsInv, Call(kind, arg, v)
  PROVE  /\ CallsInv'
         /\ left.calls > 0 /\ left'.calls = left.calls - 1
         /\ \A n \in mutations' : n \in mutations \/ (n.id = left.calls /\ n.kind = kind)
  <1> DEFINE c == [id |-> left.calls, kind |-> kind, tenant |-> tenant, hook |-> tenant, arg |-> arg,
                   at |-> "sent", result |-> None]
  <1>1. mutations' = mutations \cup {c} /\ left.calls > 0 /\ left' = [left EXCEPT !.calls = @ - 1]
    BY DEF Call
  <1>2. CallShape(c) /\ c.id = left.calls /\ c.kind = kind
    BY DEF CallShape
  <1> HIDE DEF c
  <1>3. left' \in Lefts /\ left.calls \in Nat /\ left'.calls = left.calls - 1
    BY <1>1 DEF CallsInv, Lefts
  <1>4. CallsInv'
    BY <1>1, <1>2, <1>3 DEF CallsInv
  <1> QED  BY <1>1, <1>2, <1>3, <1>4

\* Drawing carries the calls on.
LEMMA DrawCarried ==
  ASSUME NEW p, NEW t, NEW v, CallsInv, Draw(p, t, v), left' \in Lefts, left'.calls = left.calls
  PROVE  CallsCarried
  <1>1. PICK w : w = view'
    OBVIOUS
  <1>2. mutations' = Hooks(mutations, t, w)
    BY <1>1 DEF Draw
  <1> QED  BY <1>2, HooksCarried

\* The answers of queries.
LEMMA ReceiveTenantsCarried == ASSUME CallsInv, ReceiveTenants PROVE CallsCarried
  <1>1. left' \in Lefts /\ left'.calls = left.calls
    BY DEF ReceiveTenants, bounds, CallsInv
  <1>2. PICK t, v : Draw(page, t, v)
    BY DEF ReceiveTenants
  <1> QED  BY <1>1, <1>2, DrawCarried

\* The other events of queries.
LEMMA QueryCarried == ASSUME NEW k \in Keys, CallsInv, Query(k) PROVE CallsCarried
  <1>1. left' \in Lefts /\ left'.calls = left.calls
    BY BudgetSteps DEF Query, ReceiveQuery, AnswerQuery, FailQuery, ReconnectQuery, EvictQuery, bounds, CallsInv
  <1>2. CASE AnswerQuery(k) \/ EvictQuery(k)
    <2>1. mutations' = mutations
      BY <1>2 DEF AnswerQuery, EvictQuery
    <2> QED  BY <1>1, <2>1, FewerCarried
  <1>3. CASE ReceiveQuery(k) \/ FailQuery(k) \/ ReconnectQuery(k)
    <2>1. Draw(page, tenant, view)
      BY <1>3 DEF ReceiveQuery, FailQuery, ReconnectQuery
    <2> QED  BY <1>1, <2>1, DrawCarried
  <1> QED  BY <1>2, <1>3 DEF Query

\* A call ends.
LEMMA SettleCarried ==
  ASSUME NEW m, NEW keys, NEW missed, NEW v, CallsInv, Settle(m, keys, missed, v)
  PROVE  CallsCarried
  <1>1. mutations' \subseteq mutations /\ left' = left
    BY DEF Settle, bounds
  <1> QED  BY <1>1, FewerCarried DEF CallsInv

\* The ends of calls.
Settles(m) ==
    \/ SettleRefused(m) \/ WriteSucceeds(m) \/ DeleteSucceeds(m) \/ ExpandSucceeds(m)
    \/ SaveSucceeds(m) \/ CheckEnds(m)

\* What happens to a call.
LEMMA MutationCarried == ASSUME NEW m \in mutations, CallsInv, Mutation(m) PROVE CallsCarried
  <1>1. CASE Refuse(m) \/ Perform(m) \/ Lose(m)
    <2>1. left' \in Lefts /\ left'.calls = left.calls
      BY <1>1, BudgetSteps DEF Refuse, Perform, Lose, bounds, CallsInv
    <2>2. \E at, result : Answered(m, at, result)
      BY <1>1 DEF Refuse, Perform, Lose
    <2> QED  BY <2>1, <2>2, AnsweredCarried
  <1>2. CASE Settles(m)
    <2>1. \E keys, missed, v : Settle(m, keys, missed, v)
      BY <1>2 DEF Settles, SettleRefused, WriteSucceeds, DeleteSucceeds, ExpandSucceeds, SaveSucceeds, CheckEnds
    <2> QED  BY <2>1, SettleCarried
  <1> QED  BY <1>1, <1>2 DEF Mutation, Settles

\* The second write of a load.
LEMMA FinishCarried == ASSUME NEW load, CallsInv, FinishLoad(load) PROVE CallsCarried
  <1> DEFINE S == {m \in mutations : m.id = load.id /\ m.at = "loading"}
  <1>1. mutations' = {IF m \in S THEN [m EXCEPT !.at = "ok"] ELSE m : m \in mutations}
    BY DEF FinishLoad
  <1>2. left' = left
    BY DEF FinishLoad, bounds
  <1> HIDE DEF S
  <1> QED  BY <1>1, <1>2, MovedCarried DEF CallsInv

\* Other clients, and restarts.
LEMMA OthersCarried ==
  ASSUME CallsInv,
         RestartServer \/ \E t \in Tenants : \/ OtherWrites(t, Typed)
                                             \/ \E doc \in Valid : OtherLoads(t, doc)
                                             \/ OtherCreates(t)
  PROVE  CallsCarried
  <1>1. left' \in Lefts /\ left'.calls = left.calls
    BY BudgetSteps DEF RestartServer, OtherWrites, OtherLoads, OtherCreates, Other, CallsInv
  <1>2. CASE RestartServer
    <2> DEFINE S == {m \in mutations : m.at = "loading"}
    <2>1. mutations' = {IF m \in S THEN [m EXCEPT !.at = "sent"] ELSE m : m \in mutations}
      BY <1>2 DEF RestartServer
    <2> HIDE DEF S
    <2> QED  BY <1>1, <2>1, MovedCarried
  <1>3. CASE mutations' = mutations
    BY <1>1, <1>3, FewerCarried
  <1> QED  BY <1>2, <1>3 DEF OtherWrites, OtherLoads, OtherCreates, Other

\* Every step.
LEMMA CallsNext == CallsInv /\ [Next]_vars => CallsInv'
  <1> SUFFICES ASSUME CallsInv, [Next]_vars PROVE CallsInv'
    OBVIOUS
  <1>1. ASSUME NEW t \in Tenants, SelectTenant(t) PROVE CallsInv'
    <2>1. Shows(page, t, Switch(t))
      BY <1>1, BudgetSteps DEF SelectTenant, Shows, CallsInv, Step
    <2> QED  BY <2>1, ShowsCarried, CarriedCalls
  <1>2. ASSUME NEW p \in Pages, Navigate(p) PROVE CallsInv'
    <2>1. Shows(p, tenant, Fresh(p))
      BY <1>2, BudgetSteps DEF Navigate, Shows, CallsInv
    <2> QED  BY <2>1, ShowsCarried, CarriedCalls
  <1>3. CASE TuplesStep \/ LoadMore \/ ExplorerStep \/ SchemaStep
    <2>1. ASSUME NEW v, Shows(page, tenant, v) PROVE CallsInv'
      BY <2>1, ShowsCarried, CarriedCalls
    <2>2. ASSUME NEW kind, NEW arg, NEW v, Call(kind, arg, v) PROVE CallsInv'
      BY <2>2, CallMade
    <2>3. PageStep
      BY <1>3, TuplesSteps, ChangelogSteps, ExplorerSteps, SchemaSteps
    <2> QED  BY <2>1, <2>2, <2>3 DEF PageStep
  <1>4. CASE ReceiveTenants
    BY <1>4, ReceiveTenantsCarried, CarriedCalls
  <1>5. CASE \E k \in Keys : Query(k)
    BY <1>5, QueryCarried, CarriedCalls
  <1>6. CASE \E m \in mutations : Mutation(m)
    BY <1>6, MutationCarried, CarriedCalls
  <1>7. CASE \E load \in loads : FinishLoad(load)
    BY <1>7, FinishCarried, CarriedCalls
  <1>8. CASE RestartServer \/ \E t \in Tenants : \/ OtherWrites(t, Typed)
                                                 \/ \E doc \in Valid : OtherLoads(t, doc)
                                                 \/ OtherCreates(t)
    BY <1>8, OthersCarried, CarriedCalls
  <1>9. CASE UNCHANGED vars
    BY <1>9 DEF vars, bounds, CallsInv
  <1> QED  BY <1>1, <1>2, <1>3, <1>4, <1>5, <1>6, <1>7, <1>8, <1>9 DEF Next

-----------------------------------------------------------------------------
(* The calls that the mounted page waits for.                              *)

\* The components v of page p wait for calls of the page only, when ms are
\* the calls under way and the next one has the number n.
WaitsForOwn(p, v, ms, n) ==
    /\ Shape(v)
    /\ \A i \in v.pending : i \in Nat /\ i > n
    /\ \A m \in ms : m.id \in v.pending => m.kind \in Kinds(p)

PendingInv == page \in Pages /\ WaitsForOwn(page, view, mutations, left.calls)

\* A page that was just opened.
LEMMA FreshPending == ASSUME NEW p \in Pages PROVE Shape(Fresh(p)) /\ Fresh(p).pending = {}
  BY DEF Fresh, Shape, Pages

\* Rendering makes no component wait.
LEMMA RenderKeeps ==
  ASSUME NEW p \in Pages, NEW t, NEW v, NEW w, Shape(v), w = Render(p, t, v)
  PROVE  Shape(w) /\ w.pending \subseteq v.pending
  <1>1. PICK data, loading, error, checks, deletes :
               /\ checks = Ids("check") /\ deletes = Ids("delete")
               /\ data = cache'[IF p = "tuples" THEN tupleKey(t, v.filter)
                               ELSE IF p = "schema" THEN schemaKey(t) ELSE changelogKey(t, v.sinceSeq)]
               /\ loading = isLoading(cache'[schemaKey(t)], request'[schemaKey(t)])
               /\ error = (schemaKey(t) \in failed')
    OBVIOUS
  <1>2. CASE p = "tuples"
    <2>1. w = v \/ w = [v EXCEPT !.target = None, !.pending = @ \ deletes]
      BY <1>1, <1>2 DEF Render, RenderTuples
    <2> QED  BY <2>1 DEF Shape
  <1>3. CASE p = "changelog"
    <2>1. w = v \/ w = [v EXCEPT !.seen = @ \cup data.entries]
      BY <1>1, <1>3 DEF Render, RenderChangelog
    <2> QED  BY <2>1 DEF Shape
  <1>4. CASE p = "explorer"
    BY <1>4 DEF Render
  <1>5. CASE p = "schema"
    <2>1. w = RenderSchema(v, data, loading, error)
      BY <1>1, <1>5 DEF Render
    <2>2. PICK filled : filled = IF v.tab = "editor" /\ v.draft = None
                                 THEN [v EXCEPT !.draft = IF data = NoData THEN NoSchema ELSE data] ELSE v
      OBVIOUS
    <2>3. Shape(filled) /\ filled.pending = v.pending
      BY <2>2 DEF Shape
    <2>4. PICK closed : closed = [filled EXCEPT !.type = NoWord, !.action = NoWord, !.asked = 0,
                                               !.decision = None, !.pending = @ \ checks]
      OBVIOUS
    <2>5. Shape(closed) /\ closed.pending = v.pending \ checks
      BY <2>3, <2>4 DEF Shape
    <2>6. w \in {Fresh("schema"), v, closed}
      BY <1>1, <2>1, <2>2, <2>4 DEF RenderSchema
    <2> QED  BY <2>5, <2>6, FreshPending DEF Pages
  <1> QED  BY <1>2, <1>3, <1>4, <1>5 DEF Pages

\* The page is drawn again, and no call was made.
LEMMA DrawPending ==
  ASSUME NEW p \in Pages, NEW t, NEW v, CallsCarried, Draw(p, t, v),
         WaitsForOwn(p, v, mutations, left.calls)
  PROVE  PendingInv'
  <1>1. Shape(view') /\ view'.pending \subseteq v.pending
    <2>1. PICK w : w = view'
      OBVIOUS
    <2>2. w = Render(p, t, v)
      BY <2>1 DEF Draw
    <2> QED  BY <2>1, <2>2, RenderKeeps DEF WaitsForOwn
  <1>2. page' = p /\ left'.calls = left.calls
    BY DEF Draw, CallsCarried
  <1>3. \A m \in mutations' : m.id \in view'.pending => m.kind \in Kinds(p)
    BY <1>1 DEF WaitsForOwn, CallsCarried, SameCall
  <1> QED  BY <1>1, <1>2, <1>3 DEF PendingInv, WaitsForOwn

\* The page is not drawn.
LEMMA PendingSame ==
  ASSUME PendingInv, CallsCarried, UNCHANGED <<page, view>> PROVE PendingInv'
  BY DEF PendingInv, WaitsForOwn, CallsCarried, SameCall

\* Initially.
LEMMA PendingInit == Init => PendingInv
  <1> SUFFICES ASSUME Init PROVE PendingInv
    OBVIOUS
  <1>1. page \in Pages /\ view = Fresh(page) /\ mutations = {}
    BY ShellAssumption DEF Init
  <1> QED  BY <1>1, FreshPending DEF PendingInv, WaitsForOwn

\* What the user does on a page.
LEMMA PageStepPending == ASSUME CallsInv, PendingInv, PageStep PROVE PendingInv'
  <1>1. ASSUME NEW v, Shows(page, tenant, v), Keeps(view, v) PROVE PendingInv'
    <2>1. CallsCarried
      BY <1>1, ShowsCarried
    <2>2. WaitsForOwn(page, v, mutations, left.calls)
      BY <1>1 DEF PendingInv, WaitsForOwn, Keeps
    <2>3. Draw(page, tenant, v) /\ page \in Pages
      BY <1>1 DEF Shows, Show, PendingInv
    <2> QED  BY <2>1, <2>2, <2>3, DrawPending
  <1>2. ASSUME NEW kind \in Kinds(page), NEW arg, NEW v, Call(kind, arg, v), Shape(v), v.pending = view.pending
        PROVE  PendingInv'
    <2>1. PICK n : n = left.calls
      OBVIOUS
    <2>2. /\ n \in Nat /\ n > 0 /\ left'.calls = n - 1
          /\ \A x \in mutations' : x \in mutations \/ (x.id = n /\ x.kind = kind)
      BY <1>2, <2>1, CallMade DEF CallsInv, Lefts
    <2>3. view' = [v EXCEPT !.pending = @ \cup {n}] /\ page' = page
      BY <1>2, <2>1 DEF Call
    <2>4. Shape(view') /\ view'.pending = view.pending \cup {n}
      BY <1>2, <2>3 DEF Shape
    <2>5. \A i \in view'.pending : i \in Nat /\ i > left'.calls
      BY <2>1, <2>2, <2>4 DEF PendingInv, WaitsForOwn
    <2>6. \A m \in mutations' : m.id \in view'.pending => m.kind \in Kinds(page)
      BY <1>2, <2>1, <2>2, <2>4 DEF PendingInv, WaitsForOwn, CallsInv
    <2> QED  BY <2>3, <2>4, <2>5, <2>6 DEF PendingInv, WaitsForOwn
  <1> QED  BY <1>1, <1>2 DEF PageStep, PendingInv, WaitsForOwn

\* A call ends.
LEMMA SettlePending ==
  ASSUME NEW m \in mutations, NEW keys, NEW missed, NEW v, CallsInv, PendingInv,
         Settle(m, keys, missed, v), Keeps(view, v)
  PROVE  PendingInv'
  <1>1. PICK u : u = [v EXCEPT !.pending = @ \ {m.id}]
    OBVIOUS
  <1>2. Shape(u) /\ u.pending \subseteq view.pending
    BY <1>1 DEF Keeps, Shape, PendingInv, WaitsForOwn
  <1>3. PICK w : w = view'
    OBVIOUS
  <1>4. w = Render(page, tenant, u) /\ page \in Pages
    BY <1>1, <1>3 DEF Settle, PendingInv
  <1>5. Shape(w) /\ w.pending \subseteq view.pending
    BY <1>2, <1>4, RenderKeeps
  <1>6. mutations' \subseteq mutations /\ left' = left /\ page' = page
    BY DEF Settle, bounds
  <1> QED  BY <1>3, <1>5, <1>6 DEF PendingInv, WaitsForOwn

\* The ends of calls.
LEMMA SettlesPending ==
  ASSUME NEW m \in mutations, CallsInv, PendingInv, Settles(m) PROVE PendingInv'
  <1>1. Keeps(view, view)
    BY DEF Keeps
  <1>2. CASE SettleRefused(m)
    BY <1>1, <1>2, SettlePending DEF SettleRefused
  <1>3. CASE SaveSucceeds(m)
    BY <1>1, <1>3, SettlePending DEF SaveSucceeds
  <1>4. CASE DeleteSucceeds(m)
    <2>1. PICK v : v = IF m.id \in view.pending THEN [view EXCEPT !.target = None] ELSE view
      OBVIOUS
    <2>2. Keeps(view, v)
      BY <2>1 DEF Keeps, Shape
    <2> QED  BY <1>4, <2>1, <2>2, SettlePending DEF DeleteSucceeds
  <1>5. CASE WriteSucceeds(m)
    <2>1. PICK v : v = IF m.id \in view.pending
                       THEN [view EXCEPT !.open = FALSE, !.form = Empty, !.under = [f \in Fields |-> NoSchema]]
                       ELSE view
      OBVIOUS
    <2>2. Keeps(view, v)
      BY <2>1 DEF Keeps, Shape
    <2> QED  BY <1>5, <2>1, <2>2, SettlePending DEF WriteSucceeds
  <1>6. CASE ExpandSucceeds(m)
    <2>1. PICK v, flow : /\ flow = treeToFlow(m.result)
                         /\ v = IF m.id \in view.pending
                                THEN [view EXCEPT !.tree = m.result,
                                                  !.graph = IF view.tree = None THEN flow ELSE @]
                                ELSE view
      OBVIOUS
    <2>2. Keeps(view, v)
      BY <2>1 DEF Keeps, Shape
    <2>3. Settle(m, {}, {}, v)
      BY <1>6, <2>1 DEF ExpandSucceeds, SubjectTreeView
    <2> QED  BY <2>2, <2>3, SettlePending
  <1>7. CASE CheckEnds(m)
    <2>1. PICK v, d : /\ d = [of |-> m.id, says |-> IF m.at = "ok" THEN m.result ELSE "deny"]
                      /\ v = IF m.id \in view.pending THEN [view EXCEPT !.decision = d] ELSE view
      OBVIOUS
    <2>2. Keeps(view, v)
      BY <2>1 DEF Keeps, Shape
    <2>3. Settle(m, {}, {}, v)
      BY <1>7, <2>1 DEF CheckEnds
    <2> QED  BY <2>2, <2>3, SettlePending
  <1> QED  BY <1>2, <1>3, <1>4, <1>5, <1>6, <1>7 DEF Settles

\* The page is drawn with components that wait for no more than before.
LEMMA RedrawPending ==
  ASSUME NEW t, NEW v, CallsCarried, Draw(page, t, v), PendingInv, Keeps(view, v) PROVE PendingInv'
  <1>1. WaitsForOwn(page, v, mutations, left.calls) /\ page \in Pages
    BY DEF PendingInv, WaitsForOwn, Keeps
  <1> QED  BY <1>1, DrawPending

\* The components stay when the tenant changes.
LEMMA SwitchKeeps == ASSUME NEW t PROVE Keeps(view, Switch(t))
  <1>1. PICK v : v = [view EXCEPT !.base = view.sinceSeq, !.seen = {}]
    OBVIOUS
  <1>2. Keeps(view, v) /\ Keeps(view, view)
    BY <1>1 DEF Keeps, Shape
  <1> QED  BY <1>1, <1>2 DEF Switch

\* Every step.
LEMMA PendingNext == CallsInv /\ PendingInv /\ [Next]_vars => PendingInv'
  <1> SUFFICES ASSUME CallsInv, PendingInv, [Next]_vars PROVE PendingInv'
    OBVIOUS
  <1>1. ASSUME NEW t \in Tenants, SelectTenant(t) PROVE PendingInv'
    <2>1. Shows(page, t, Switch(t))
      BY <1>1, BudgetSteps DEF SelectTenant, Shows, CallsInv, Step
    <2>2. PICK v : v = Switch(t)
      OBVIOUS
    <2>3. CallsCarried /\ Draw(page, t, v) /\ Keeps(view, v)
      BY <2>1, <2>2, ShowsCarried, SwitchKeeps DEF Shows, Show
    <2> QED  BY <2>3, RedrawPending
  <1>2. ASSUME NEW p \in Pages, Navigate(p) PROVE PendingInv'
    <2>1. Shows(p, tenant, Fresh(p))
      BY <1>2, BudgetSteps DEF Navigate, Shows, CallsInv
    <2>2. WaitsForOwn(p, Fresh(p), mutations, left.calls)
      BY FreshPending DEF WaitsForOwn
    <2>3. CallsCarried /\ Draw(p, tenant, Fresh(p))
      BY <2>1, ShowsCarried DEF Shows, Show
    <2> QED  BY <2>2, <2>3, DrawPending
  <1>3. CASE TuplesStep \/ LoadMore \/ ExplorerStep \/ SchemaStep
    BY <1>3, TuplesSteps, ChangelogSteps, ExplorerSteps, SchemaSteps, PageStepPending
  <1>4. CASE ReceiveTenants
    <2>1. PICK t : Draw(page, t, Switch(t))
      BY <1>4 DEF ReceiveTenants
    <2>2. PICK v : v = Switch(t)
      OBVIOUS
    <2>3. CallsCarried /\ Draw(page, t, v) /\ Keeps(view, v)
      BY <1>4, <2>1, <2>2, ReceiveTenantsCarried, SwitchKeeps
    <2> QED  BY <2>3, RedrawPending
  <1>5. ASSUME NEW k \in Keys, Query(k) PROVE PendingInv'
    <2>1. CallsCarried
      BY <1>5, QueryCarried
    <2>2. CASE AnswerQuery(k) \/ EvictQuery(k)
      BY <2>1, <2>2, PendingSame DEF AnswerQuery, EvictQuery, screen
    <2>3. CASE ReceiveQuery(k) \/ FailQuery(k) \/ ReconnectQuery(k)
      <3>1. Draw(page, tenant, view) /\ Keeps(view, view)
        BY <2>3 DEF ReceiveQuery, FailQuery, ReconnectQuery, Keeps
      <3> QED  BY <2>1, <3>1, RedrawPending
    <2> QED  BY <1>5, <2>2, <2>3 DEF Query
  <1>6. ASSUME NEW m \in mutations, Mutation(m) PROVE PendingInv'
    <2>1. CASE Refuse(m) \/ Perform(m) \/ Lose(m)
      <3>1. CallsCarried
        BY <1>6, MutationCarried
      <3> QED  BY <2>1, <3>1, PendingSame DEF Refuse, Perform, Lose, screen
    <2> QED  BY <1>6, <2>1, SettlesPending DEF Mutation, Settles
  <1>7. CASE \E load \in loads : FinishLoad(load)
    BY <1>7, FinishCarried, PendingSame DEF FinishLoad, screen
  <1>8. CASE RestartServer \/ \E t \in Tenants : \/ OtherWrites(t, Typed)
                                                 \/ \E doc \in Valid : OtherLoads(t, doc)
                                                 \/ OtherCreates(t)
    BY <1>8, OthersCarried, PendingSame DEF RestartServer, OtherWrites, OtherLoads, OtherCreates, Other, screen
  <1>9. CASE UNCHANGED vars
    BY <1>9 DEF vars, screen, bounds, PendingInv
  <1> QED  BY <1>1, <1>2, <1>3, <1>4, <1>5, <1>6, <1>7, <1>8, <1>9 DEF Next

-----------------------------------------------------------------------------
(* The decision on the schema page.                                        *)

SchemaShape(v) ==
    v = [tab |-> v.tab, draft |-> v.draft, upload |-> v.upload, type |-> v.type, action |-> v.action,
         asked |-> v.asked, decision |-> v.decision, pending |-> v.pending]

\* The components v of the schema page, when the numbers in checks are those
\* of checks under way and calls are numbered down from n: the only check
\* they wait for is the last one, and they wait for none while a decision is
\* shown.
Waits(v, checks, n) ==
    /\ SchemaShape(v)
    /\ \A i \in v.pending : i \in Nat /\ i > n
    /\ v.pending \cap checks \subseteq {v.asked}
    /\ v.decision # None =>
          /\ v.decision.of = v.asked /\ v.asked \notin v.pending
          /\ v.asked \in Nat /\ v.asked > n

DecisionInv == page = "schema" => Waits(view, Ids("check"), left.calls)

\* A page that was just opened.
LEMMA FreshWaits == ASSUME NEW checks, NEW n PROVE Waits(Fresh("schema"), checks, n)
  BY DEF Fresh, Waits, SchemaShape

\* Rendering keeps the evaluator, or closes it.
LEMMA RenderWaits ==
  ASSUME NEW v, NEW data, NEW loading, NEW error, NEW n, Waits(v, Ids("check"), n)
  PROVE  Waits(RenderSchema(v, data, loading, error), Ids("check"), n)
  <1>1. PICK filled : filled = IF v.tab = "editor" /\ v.draft = None
                               THEN [v EXCEPT !.draft = IF data = NoData THEN NoSchema ELSE data] ELSE v
    OBVIOUS
  <1>2. SchemaShape(filled) /\ filled.pending = v.pending
    BY <1>1 DEF Waits, SchemaShape
  <1>0. PICK checks : checks = Ids("check")
    OBVIOUS
  <1>3. PICK closed : closed = [filled EXCEPT !.type = NoWord, !.action = NoWord, !.asked = 0,
                                             !.decision = None, !.pending = @ \ checks]
    OBVIOUS
  <1>4. RenderSchema(v, data, loading, error) \in {Fresh("schema"), v, closed}
    BY <1>0, <1>1, <1>3 DEF RenderSchema
  <1>5. /\ SchemaShape(closed) /\ closed.asked = 0 /\ closed.decision = None
        /\ closed.pending = v.pending \ checks
    BY <1>2, <1>3 DEF SchemaShape
  <1>6. Waits(closed, Ids("check"), n)
    BY <1>0, <1>5 DEF Waits
  <1> QED  BY <1>4, <1>6, FreshWaits

\* The page is drawn again, and no call was made.
LEMMA DrawDecision ==
  ASSUME NEW p, NEW t, NEW v, CallsCarried, Draw(p, t, v),
         p = "schema" => Waits(v, Ids("check"), left.calls)
  PROVE  DecisionInv'
  <1> SUFFICES ASSUME p = "schema" PROVE Waits(view', Ids("check")', left'.calls)
    BY DEF DecisionInv, Draw
  <1> DEFINE k == schemaKey(t)
  <1>1. PICK data, loading, error : /\ data = cache'[k] /\ loading = isLoading(cache'[k], request'[k])
                                    /\ error = (k \in failed')
    OBVIOUS
  <1>2. view' = RenderSchema(v, data, loading, error)
    BY <1>1 DEF Draw, Render
  <1>3. PICK n, checks : n = left.calls /\ checks = Ids("check")
    OBVIOUS
  <1>4. Waits(view', checks, n)
    BY <1>2, <1>3, RenderWaits
  <1>5. Ids("check")' \subseteq checks
    BY <1>3 DEF Ids, CallsCarried, SameCall
  <1>6. left'.calls = n
    BY <1>3 DEF CallsCarried
  <1> QED  BY <1>4, <1>5, <1>6 DEF Waits

\* Initially.
LEMMA DecisionInit == Init => DecisionInv
  BY FreshWaits DEF Init, DecisionInv

\* The page is not drawn.
LEMMA DecisionSame ==
  ASSUME DecisionInv, CallsCarried, UNCHANGED <<page, view>>
  PROVE  DecisionInv'
  <1>1. Ids("check")' \subseteq Ids("check") /\ left'.calls = left.calls
    BY DEF Ids, CallsCarried, SameCall
  <1> QED  BY <1>1 DEF DecisionInv, Waits

\* The steps of the schema page.
LEMMA SchemaStepDecision == ASSUME CallsInv, DecisionInv, SchemaStep PROVE DecisionInv'
  <1>1. page = "schema" /\ Waits(view, Ids("check"), left.calls)
    BY DEF SchemaStep, DecisionInv
  <1>2. ASSUME NEW v, Change(v) \/ (Show(page, tenant, v) /\ UNCHANGED bounds),
               Waits(v, Ids("check"), left.calls)
        PROVE  DecisionInv'
    <2>1. Shows(page, tenant, v)
      BY <1>2, BudgetSteps DEF Change, Shows, CallsInv, Step, bounds
    <2>2. CallsCarried
      BY <2>1, ShowsCarried
    <2> QED  BY <1>2, <2>1, <2>2, DrawDecision DEF Shows, Show
  <1>3. ASSUME NEW tab, SelectTab(tab) PROVE DecisionInv'
    <2>1. PICK v : v = [view EXCEPT !.tab = tab, !.draft = None, !.upload = None, !.pending = @ \ Ids("save")]
      OBVIOUS
    <2>2. Waits(v, Ids("check"), left.calls)
      <3>1. SchemaShape(v) /\ v.asked = view.asked /\ v.decision = view.decision /\ v.pending \subseteq view.pending
        BY <1>1, <2>1 DEF Waits, SchemaShape
      <3> QED  BY <1>1, <3>1 DEF Waits
    <2> QED  BY <1>2, <1>3, <2>1, <2>2 DEF SelectTab
  <1>4. ASSUME NEW text, Edit(text) \/ handleUpload(text) PROVE DecisionInv'
    <2>1. PICK v, w : v = [view EXCEPT !.draft = text] /\ w = [view EXCEPT !.upload = text]
      OBVIOUS
    <2>2. Waits(v, Ids("check"), left.calls) /\ Waits(w, Ids("check"), left.calls)
      <3>1. SchemaShape(v) /\ v.asked = view.asked /\ v.decision = view.decision /\ v.pending = view.pending
        BY <1>1, <2>1 DEF Waits, SchemaShape
      <3>2. SchemaShape(w) /\ w.asked = view.asked /\ w.decision = view.decision /\ w.pending = view.pending
        BY <1>1, <2>1 DEF Waits, SchemaShape
      <3> QED  BY <1>1, <3>1, <3>2 DEF Waits
    <2> QED  BY <1>2, <1>4, <2>1, <2>2 DEF Edit, handleUpload
  <1>5. CASE UploadRead
    <2>1. PICK v : v = [view EXCEPT !.draft = view.upload, !.upload = None]
      OBVIOUS
    <2>2. Waits(v, Ids("check"), left.calls)
      <3>1. SchemaShape(v) /\ v.asked = view.asked /\ v.decision = view.decision /\ v.pending = view.pending
        BY <1>1, <2>1 DEF Waits, SchemaShape
      <3> QED  BY <1>1, <3>1 DEF Waits
    <2> QED  BY <1>2, <1>5, <2>1, <2>2 DEF UploadRead
  <1>6. ASSUME NEW type, SelectType(type) PROVE DecisionInv'
    <2>1. PICK v : v = [view EXCEPT !.type = type, !.action = NoWord]
      OBVIOUS
    <2>2. Waits(v, Ids("check"), left.calls)
      <3>1. SchemaShape(v) /\ v.asked = view.asked /\ v.decision = view.decision /\ v.pending = view.pending
        BY <1>1, <2>1 DEF Waits, SchemaShape
      <3> QED  BY <1>1, <3>1 DEF Waits
    <2> QED  BY <1>2, <1>6, <2>1, <2>2 DEF SelectType
  <1>7. ASSUME NEW action, SelectAction(action) PROVE DecisionInv'
    <2>1. PICK v : v = [view EXCEPT !.action = action]
      OBVIOUS
    <2>2. Waits(v, Ids("check"), left.calls)
      <3>1. SchemaShape(v) /\ v.asked = view.asked /\ v.decision = view.decision /\ v.pending = view.pending
        BY <1>1, <2>1 DEF Waits, SchemaShape
      <3> QED  BY <1>1, <3>1 DEF Waits
    <2> QED  BY <1>2, <1>7, <2>1, <2>2 DEF SelectAction
  <1>8. PICK n, checks : n = left.calls /\ checks = Ids("check")
    OBVIOUS
  <1>9. n \in Nat
    BY <1>8 DEF CallsInv, Lefts
  <1>10. CASE handleSave
    <2>1. Call("save", view.draft, view) /\ page' = page
      BY <1>10 DEF handleSave, Call
    <2>2. /\ left.calls > 0 /\ left'.calls = left.calls - 1
          /\ \A x \in mutations' : x \in mutations \/ (x.id = left.calls /\ x.kind = "save")
      BY <2>1, CallMade
    <2>3. Ids("check")' \subseteq checks
      BY <1>8, <2>2 DEF Ids
    <2>4. view' = [view EXCEPT !.pending = @ \cup {n}]
      BY <1>8, <2>1 DEF Call
    <2>5. SchemaShape(view') /\ view'.asked = view.asked /\ view'.decision = view.decision
            /\ view'.pending = view.pending \cup {n}
      BY <1>1, <2>4 DEF Waits, SchemaShape
    <2>6. n \notin checks
      BY <1>8 DEF Ids, CallsInv
    <2>7. Waits(view', Ids("check")', left'.calls)
      BY <1>1, <1>8, <1>9, <2>2, <2>3, <2>5, <2>6 DEF Waits
    <2> QED  BY <2>7 DEF DecisionInv
  <1>11. CASE handleCheck
    <2>1. PICK v : v = [view EXCEPT !.decision = None, !.asked = n]
      OBVIOUS
    <2>2. Call("check", <<view.type, view.action>>, v) /\ page' = page
      BY <1>8, <1>11, <2>1 DEF handleCheck, Call
    <2>3. /\ left.calls > 0 /\ left'.calls = left.calls - 1
          /\ \A x \in mutations' : x \in mutations \/ (x.id = left.calls /\ x.kind = "check")
      BY <2>2, CallMade
    <2>4. Ids("check")' \subseteq checks \cup {n}
      BY <1>8, <2>3 DEF Ids
    <2>5. SchemaShape(v) /\ v.asked = n /\ v.decision = None /\ v.pending = view.pending
      BY <1>1, <2>1 DEF Waits, SchemaShape
    <2>6. view' = [v EXCEPT !.pending = @ \cup {n}]
      BY <1>8, <2>2 DEF Call
    <2>7. SchemaShape(view') /\ view'.asked = n /\ view'.decision = None /\ view'.pending = view.pending \cup {n}
      BY <2>5, <2>6 DEF SchemaShape
    <2>8. view.pending \cap checks = {}
      BY <1>8, <1>11 DEF handleCheck, isPending
    <2>9. Waits(view', Ids("check")', left'.calls)
      BY <1>1, <1>8, <1>9, <2>3, <2>4, <2>7, <2>8 DEF Waits
    <2> QED  BY <2>9 DEF DecisionInv
  <1> QED  BY <1>3, <1>4, <1>5, <1>6, <1>7, <1>10, <1>11 DEF SchemaStep

\* A call ends: it is waited for no longer, and the decision may be shown.
LEMMA SettleDecision ==
  ASSUME NEW m \in mutations, NEW keys, NEW missed, NEW v, CallsInv, Settle(m, keys, missed, v),
         page = "schema" => Waits([v EXCEPT !.pending = @ \ {m.id}], Ids("check"), left.calls)
  PROVE  DecisionInv'
  <1> SUFFICES ASSUME page = "schema" PROVE Waits(view', Ids("check")', left'.calls)
    BY DEF DecisionInv, Settle
  <1> DEFINE k == schemaKey(tenant)
  <1>1. PICK data, loading, error : /\ data = cache'[k] /\ loading = isLoading(cache'[k], request'[k])
                                    /\ error = (k \in failed')
    OBVIOUS
  <1>2. PICK w : w = [v EXCEPT !.pending = @ \ {m.id}]
    OBVIOUS
  <1>3. view' = RenderSchema(w, data, loading, error)
    BY <1>1, <1>2 DEF Settle, Render
  <1>4. PICK n, checks : n = left.calls /\ checks = Ids("check")
    OBVIOUS
  <1>5. Waits(view', checks, n)
    BY <1>2, <1>3, <1>4, RenderWaits
  <1>6. Ids("check")' \subseteq checks
    BY <1>4 DEF Ids, Settle
  <1>7. left'.calls = n
    BY <1>4 DEF Settle, bounds
  <1> QED  BY <1>5, <1>6, <1>7 DEF Waits

\* The ends of calls.
LEMMA SettlesDecision ==
  ASSUME NEW m \in mutations, CallsInv, PendingInv, DecisionInv, Settles(m) PROVE DecisionInv'
  <1>1. ASSUME page = "schema"
        PROVE  Waits([view EXCEPT !.pending = @ \ {m.id}], Ids("check"), left.calls)
    <2>1. PICK w : w = [view EXCEPT !.pending = @ \ {m.id}]
      OBVIOUS
    <2>2. Waits(view, Ids("check"), left.calls)
      BY <1>1 DEF DecisionInv
    <2>3. SchemaShape(w) /\ w.asked = view.asked /\ w.decision = view.decision
            /\ w.pending = view.pending \ {m.id}
      BY <2>1, <2>2 DEF Waits, SchemaShape
    <2>4. Waits(w, Ids("check"), left.calls)
      BY <2>2, <2>3 DEF Waits
    <2> QED  BY <2>1, <2>4
  <1>2. CASE SettleRefused(m)
    BY <1>1, <1>2, SettleDecision DEF SettleRefused
  <1>3. CASE SaveSucceeds(m)
    BY <1>1, <1>3, SettleDecision DEF SaveSucceeds
  <1>4. ASSUME page # "schema", WriteSucceeds(m) \/ DeleteSucceeds(m) \/ ExpandSucceeds(m)
        PROVE  DecisionInv'
    BY <1>4 DEF WriteSucceeds, DeleteSucceeds, ExpandSucceeds, Settle, DecisionInv
  <1>5. CASE CheckEnds(m)
    <2>1. PICK v : v = IF m.id \in view.pending
                       THEN [view EXCEPT !.decision =
                                [of |-> m.id, says |-> IF m.at = "ok" THEN m.result ELSE "deny"]]
                       ELSE view
      OBVIOUS
    <2>2. Settle(m, {}, {}, v) /\ m.kind = "check"
      BY <1>5, <2>1 DEF CheckEnds
    <2>3. ASSUME page = "schema"
          PROVE  Waits([v EXCEPT !.pending = @ \ {m.id}], Ids("check"), left.calls)
      <3>1. CASE m.id \notin view.pending
        BY <1>1, <2>1, <2>3, <3>1
      <3>2. CASE m.id \in view.pending
        <4>1. Waits(view, Ids("check"), left.calls)
          BY <2>3 DEF DecisionInv
        <4>2. PICK d : d = [of |-> m.id, says |-> IF m.at = "ok" THEN m.result ELSE "deny"]
          OBVIOUS
        <4>3. d.of = m.id
          BY <4>2
        <4>4. v = [view EXCEPT !.decision = d]
          BY <2>1, <3>2, <4>2
        <4>5. SchemaShape(v) /\ v.asked = view.asked /\ v.decision = d /\ v.pending = view.pending
          BY <4>1, <4>4 DEF Waits, SchemaShape
        <4>6. PICK w : w = [v EXCEPT !.pending = @ \ {m.id}]
          OBVIOUS
        <4>7. SchemaShape(w) /\ w.asked = view.asked /\ w.decision = d /\ w.pending = view.pending \ {m.id}
          BY <4>5, <4>6 DEF SchemaShape
        <4>8. m.id \in Ids("check")
          BY <2>2 DEF Ids
        <4>9. m.id = view.asked /\ m.id \in Nat /\ m.id > left.calls
          BY <3>2, <4>1, <4>8 DEF Waits
        <4>10. Waits(w, Ids("check"), left.calls)
          BY <4>1, <4>3, <4>7, <4>9 DEF Waits
        <4> QED  BY <4>6, <4>10
      <3> QED  BY <3>1, <3>2
    <2> QED  BY <2>2, <2>3, SettleDecision
  <1>6. ASSUME page = "schema", WriteSucceeds(m) \/ DeleteSucceeds(m) \/ ExpandSucceeds(m)
        PROVE  DecisionInv'
    <2>1. m.kind \notin {"save", "check"}
      BY <1>6 DEF WriteSucceeds, DeleteSucceeds, ExpandSucceeds
    <2>2. m.id \notin view.pending
      BY <1>6, <2>1 DEF PendingInv, WaitsForOwn, Kinds
    <2>3. \E keys : Settle(m, keys, {}, view)
      BY <1>6, <2>2 DEF WriteSucceeds, DeleteSucceeds, ExpandSucceeds
    <2> QED  BY <1>1, <2>3, SettleDecision
  <1> QED  BY <1>2, <1>3, <1>4, <1>5, <1>6 DEF Settles

\* Every step.
LEMMA DecisionNext == CallsInv /\ PendingInv /\ DecisionInv /\ [Next]_vars => DecisionInv'
  <1> SUFFICES ASSUME CallsInv, PendingInv, DecisionInv, [Next]_vars PROVE DecisionInv'
    OBVIOUS
  <1>0. ASSUME NEW t, Draw(page, t, Switch(t)), CallsCarried PROVE DecisionInv'
    <2>1. page = "schema" => Switch(t) = view
      BY DEF Switch
    <2>2. PICK v : v = Switch(t)
      OBVIOUS
    <2>3. page = "schema" => Waits(v, Ids("check"), left.calls)
      BY <2>1, <2>2 DEF DecisionInv
    <2>4. PICK p : p = page
      OBVIOUS
    <2> QED  BY <1>0, <2>2, <2>3, <2>4, DrawDecision
  <1>1. ASSUME NEW t \in Tenants, SelectTenant(t) PROVE DecisionInv'
    <2>1. Shows(page, t, Switch(t))
      BY <1>1, BudgetSteps DEF SelectTenant, Shows, CallsInv, Step
    <2> QED  BY <1>0, <2>1, ShowsCarried DEF Shows, Show
  <1>2. ASSUME NEW p \in Pages, Navigate(p) PROVE DecisionInv'
    <2>1. Shows(p, tenant, Fresh(p))
      BY <1>2, BudgetSteps DEF Navigate, Shows, CallsInv
    <2>2. CallsCarried /\ Draw(p, tenant, Fresh(p))
      BY <2>1, ShowsCarried DEF Shows, Show
    <2> QED  BY <2>2, FreshWaits, DrawDecision
  <1>3. CASE TuplesStep \/ LoadMore \/ ExplorerStep
    <2>1. page' = page /\ page # "schema"
      <3>1. PageStep
        BY <1>3, TuplesSteps, ChangelogSteps, ExplorerSteps
      <3>2. page' = page
        BY <3>1 DEF PageStep, Shows, Show, Draw, Call
      <3> QED  BY <1>3, <3>2 DEF TuplesStep, LoadMore, ExplorerStep
    <2> QED  BY <2>1 DEF DecisionInv
  <1>4. CASE SchemaStep
    BY <1>4, SchemaStepDecision
  <1>5. CASE ReceiveTenants
    <2>1. PICK t : Draw(page, t, Switch(t))
      BY <1>5 DEF ReceiveTenants
    <2> QED  BY <1>0, <1>5, <2>1, ReceiveTenantsCarried
  <1>6. ASSUME NEW k \in Keys, Query(k) PROVE DecisionInv'
    <2>1. CallsCarried
      BY <1>6, QueryCarried
    <2>2. CASE AnswerQuery(k) \/ EvictQuery(k)
      BY <2>1, <2>2, DecisionSame DEF AnswerQuery, EvictQuery, screen
    <2>3. CASE ReceiveQuery(k) \/ FailQuery(k) \/ ReconnectQuery(k)
      <3>1. Draw(page, tenant, view)
        BY <2>3 DEF ReceiveQuery, FailQuery, ReconnectQuery
      <3> QED  BY <2>1, <3>1, DrawDecision DEF DecisionInv
    <2> QED  BY <1>6, <2>2, <2>3 DEF Query
  <1>7. ASSUME NEW m \in mutations, Mutation(m) PROVE DecisionInv'
    <2>1. CASE Refuse(m) \/ Perform(m) \/ Lose(m)
      <3>1. CallsCarried
        BY <1>7, MutationCarried
      <3> QED  BY <2>1, <3>1, DecisionSame DEF Refuse, Perform, Lose, screen
    <2> QED  BY <1>7, <2>1, SettlesDecision DEF Mutation, Settles
  <1>8. CASE \E load \in loads : FinishLoad(load)
    BY <1>8, FinishCarried, DecisionSame DEF FinishLoad, screen
  <1>9. CASE RestartServer \/ \E t \in Tenants : \/ OtherWrites(t, Typed)
                                                 \/ \E doc \in Valid : OtherLoads(t, doc)
                                                 \/ OtherCreates(t)
    BY <1>9, OthersCarried, DecisionSame DEF RestartServer, OtherWrites, OtherLoads, OtherCreates, Other, screen
  <1>10. CASE UNCHANGED vars
    BY <1>10 DEF vars, screen, bounds, DecisionInv, Ids
  <1> QED  BY <1>1, <1>2, <1>3, <1>4, <1>5, <1>6, <1>7, <1>8, <1>9, <1>10 DEF Next

\* DecisionIsOfLastCheck, for any number of checks, tabs, tenants and pages
\* in between and answers in any order.
THEOREM DecisionAnswersLastCheck == Spec => []DecisionIsOfLastCheck
  <1>1. DecisionInv => DecisionIsOfLastCheck
    BY DEF DecisionInv, Waits, DecisionIsOfLastCheck
  <1> QED  BY <1>1, CallsInit, CallsNext, PendingInit, PendingNext, DecisionInit, DecisionNext, PTL DEF Spec

-----------------------------------------------------------------------------
(* The form on the tuples page.                                            *)

TuplesShape(v) ==
    /\ v = [filter |-> v.filter, target |-> v.target, open |-> v.open, form |-> v.form,
            under |-> v.under, pending |-> v.pending]
    /\ v.form = [f \in Fields |-> v.form[f]]
    /\ v.under = [f \in Fields |-> v.under[f]]

\* Field by field, a form fits the schemas its fields were filled under: the
\* relation where the type was chosen under the same one, and the subject
\* type where both were.
TypeFits(form, under) ==
    \A doc \in Valid :
        (/\ under.object_type = doc /\ form.object_type # NoWord
         /\ DOMAIN Relations[doc] # {})
        => form.object_type \in DOMAIN Relations[doc]
RelationFits(form, under) ==
    \A doc \in Valid :
        (/\ under.object_type = doc /\ form.object_type # NoWord
         /\ under.relation = doc /\ form.relation # NoWord
         /\ DOMAIN Relations[doc] # {} /\ DOMAIN Relations[doc][form.object_type] # {})
        => form.relation \in DOMAIN Relations[doc][form.object_type]
SubjectFits(form, under) ==
    \A doc \in Valid :
        (/\ under.object_type = doc /\ form.object_type # NoWord
         /\ under.relation = doc /\ form.relation # NoWord
         /\ under.subject_type = doc /\ form.subject_type # NoWord
         /\ DOMAIN Relations[doc] # {} /\ DOMAIN Relations[doc][form.object_type] # {})
        => \/ form.subject_type \in Relations[doc][form.object_type][form.relation]
           \/ Relations[doc][form.object_type][form.relation] = {}

Fits(v) ==
    /\ TuplesShape(v)
    /\ TypeFits(v.form, v.under) /\ RelationFits(v.form, v.under) /\ SubjectFits(v.form, v.under)

FormInv == page = "tuples" => Fits(view)

\* An empty form.
LEMMA EmptyFits ==
  ASSUME NEW under
  PROVE  TypeFits(Empty, under) /\ RelationFits(Empty, under) /\ SubjectFits(Empty, under)
  BY DEF TypeFits, RelationFits, SubjectFits, Empty, Fields

\* A page that was just opened.
LEMMA FreshFits == Fits(Fresh("tuples"))
  <1>1. PICK v : v = Fresh("tuples")
    OBVIOUS
  <1>2. v = [filter |-> Empty, target |-> None, open |-> FALSE, form |-> Empty,
             under |-> [f \in Fields |-> NoSchema], pending |-> {}]
    BY <1>1 DEF Fresh
  <1>3. v.form = Empty /\ Empty = [f \in Fields |-> Empty[f]]
    BY <1>2 DEF Empty
  <1>4. TuplesShape(v)
    BY <1>2, <1>3 DEF TuplesShape
  <1> QED  BY <1>1, <1>3, <1>4, EmptyFits DEF Fits

\* The only element of a set, if it has one.
LEMMA SoleMember == ASSUME NEW set PROVE Sole(set) = NoWord \/ Sole(set) \in set
  <1>1. Cardinality({}) = 0
    BY FS_EmptySet
  <1>2. CASE Cardinality(set) = 1
    <2>1. set # {}
      BY <1>1, <1>2
    <2> QED  BY <1>2, <2>1 DEF Sole
  <1> QED  BY <1>2 DEF Sole

\* Fields that are not part of the form.
LEMMA SameFormFits ==
  ASSUME NEW v, NEW w, Fits(v), TuplesShape(w), w.form = v.form, w.under = v.under
  PROVE  Fits(w)
  BY DEF Fits

\* What the dialog offers when it knows the schema doc.
LEMMA Offered ==
  ASSUME NEW doc \in Valid, schema = doc
  PROVE  /\ typeNames = DOMAIN Relations[doc]
         /\ \A type \in typeNames : relationsOf(type) = DOMAIN Relations[doc][type]
         /\ \A type \in typeNames : \A relation \in relationsOf(type) :
               allowedTypes(type, relation) = Relations[doc][type][relation]
                 \/ Relations[doc][type][relation] = {}
  BY DocsAssumption DEF typeNames, relationsOf, allowedTypes

\* A field is filled, and its choice fits.
LEMMA FilledShape ==
  ASSUME NEW form, NEW fields, Fits(view), form = [f \in Fields |-> form[f]], NEW v, v = Fill(form, fields)
  PROVE  /\ TuplesShape(v) /\ v.form = form /\ v.filter = view.filter
         /\ \A f \in Fields : v.under[f] = IF f \in fields THEN schema ELSE view.under[f]
  <1>1. PICK u : u = [f \in Fields |-> IF f \in fields THEN schema ELSE view.under[f]]
    OBVIOUS
  <1>2. v = [view EXCEPT !.form = form, !.under = u]
    BY <1>1 DEF Fill
  <1>3. view = [filter |-> view.filter, target |-> view.target, open |-> view.open, form |-> view.form,
                under |-> view.under, pending |-> view.pending]
    BY DEF Fits, TuplesShape
  <1>4. /\ v = [filter |-> v.filter, target |-> v.target, open |-> v.open, form |-> v.form,
                under |-> v.under, pending |-> v.pending]
        /\ v.form = form /\ v.under = u /\ v.filter = view.filter
    BY <1>2, <1>3
  <1>5. u = [f \in Fields |-> u[f]]
    BY <1>1
  <1> QED  BY <1>1, <1>4, <1>5 DEF TuplesShape

\* A type is chosen.
LEMMA SelectObjectTypeFits ==
  ASSUME NEW type, Fits(view), SelectObjectType(type) PROVE \E v : Do(v) /\ Fits(v)
  <1>1. PICK relation, subject, form :
             /\ relation = Sole(relationsOf(type))
             /\ subject = IF relation = NoWord THEN NoWord ELSE Sole(allowedTypes(type, relation))
             /\ form = [object_type |-> type, relation |-> relation, subject_type |-> subject]
    OBVIOUS
  <1>2. PICK v : v = Fill(form, Fields)
    OBVIOUS
  <1>3. Do(v) /\ type \in typeNames
    BY <1>1, <1>2 DEF SelectObjectType
  <1>4. form = [f \in Fields |-> form[f]]
    BY <1>1 DEF Fields
  <1>5. /\ TuplesShape(v) /\ v.form = form
        /\ v.under.object_type = schema /\ v.under.relation = schema /\ v.under.subject_type = schema
    BY <1>2, <1>4, FilledShape DEF Fields
  <1>6. form.object_type = type /\ form.relation = relation /\ form.subject_type = subject
    BY <1>1
  <1>7. relation # NoWord => relation \in relationsOf(type)
    BY <1>1, SoleMember
  <1>8. subject # NoWord => subject \in allowedTypes(type, relation) /\ relation # NoWord
    BY <1>1, SoleMember
  <1>9. TypeFits(v.form, v.under)
    BY <1>3, <1>5, <1>6, Offered DEF TypeFits
  <1>10. RelationFits(v.form, v.under)
    BY <1>3, <1>5, <1>6, <1>7, Offered DEF RelationFits
  <1>11. SubjectFits(v.form, v.under)
    <2> SUFFICES ASSUME NEW doc \in Valid, schema = doc, relation # NoWord, subject # NoWord
                 PROVE  \/ subject \in Relations[doc][type][relation]
                        \/ Relations[doc][type][relation] = {}
      BY <1>5, <1>6 DEF SubjectFits
    <2> QED  BY <1>3, <1>7, <1>8, Offered
  <1> QED  BY <1>3, <1>5, <1>9, <1>10, <1>11 DEF Fits

\* A relation is chosen.
LEMMA SelectRelationFits ==
  ASSUME NEW relation, Fits(view), SelectRelation(relation) PROVE \E v : Do(v) /\ Fits(v)
  <1>1. PICK type, subject, form :
             /\ type = view.form.object_type
             /\ subject = Sole(allowedTypes(type, relation))
             /\ form = [view.form EXCEPT !.relation = relation, !.subject_type = subject]
    OBVIOUS
  <1>2. PICK v : v = Fill(form, {"relation", "subject_type"})
    OBVIOUS
  <1>3. Do(v) /\ relation \in relationsOf(type)
    BY <1>1, <1>2 DEF SelectRelation, relationsForType
  <1>4. view.form = [f \in Fields |-> view.form[f]]
    BY DEF Fits, TuplesShape
  <1>5. /\ form = [f \in Fields |-> form[f]]
        /\ form.object_type = type /\ form.relation = relation /\ form.subject_type = subject
    BY <1>1, <1>4 DEF Fields
  <1>6. /\ TuplesShape(v) /\ v.form = form
        /\ v.under.object_type = view.under.object_type
        /\ v.under.relation = schema /\ v.under.subject_type = schema
    BY <1>2, <1>5, FilledShape DEF Fields
  <1>7. type \in typeNames
    BY <1>3 DEF relationsOf
  <1>8. subject # NoWord => subject \in allowedTypes(type, relation)
    BY <1>1, SoleMember
  <1>9. TypeFits(v.form, v.under)
    BY <1>1, <1>5, <1>6 DEF Fits, TypeFits
  <1>10. RelationFits(v.form, v.under)
    BY <1>3, <1>5, <1>6, <1>7, Offered DEF RelationFits
  <1>11. SubjectFits(v.form, v.under)
    <2> SUFFICES ASSUME NEW doc \in Valid, schema = doc, subject # NoWord
                 PROVE  \/ subject \in Relations[doc][type][relation]
                        \/ Relations[doc][type][relation] = {}
      BY <1>5, <1>6 DEF SubjectFits
    <2> QED  BY <1>3, <1>7, <1>8, Offered
  <1> QED  BY <1>3, <1>6, <1>9, <1>10, <1>11 DEF Fits

\* A subject type is chosen.
LEMMA SelectSubjectTypeFits ==
  ASSUME NEW subject, Fits(view), SelectSubjectType(subject) PROVE \E v : Do(v) /\ Fits(v)
  <1>1. PICK type, relation, form :
             /\ type = view.form.object_type /\ relation = view.form.relation
             /\ form = [view.form EXCEPT !.subject_type = subject]
    OBVIOUS
  <1>2. PICK v : v = Fill(form, {"subject_type"})
    OBVIOUS
  <1>3. Do(v) /\ subject \in allowedTypes(type, relation)
    BY <1>1, <1>2 DEF SelectSubjectType, subjectTypesForRelation
  <1>4. view.form = [f \in Fields |-> view.form[f]]
    BY DEF Fits, TuplesShape
  <1>5. /\ form = [f \in Fields |-> form[f]]
        /\ form.object_type = type /\ form.relation = relation /\ form.subject_type = subject
    BY <1>1, <1>4 DEF Fields
  <1>6. /\ TuplesShape(v) /\ v.form = form
        /\ v.under.object_type = view.under.object_type /\ v.under.relation = view.under.relation
        /\ v.under.subject_type = schema
    BY <1>2, <1>5, FilledShape DEF Fields
  <1>7. TypeFits(v.form, v.under) /\ RelationFits(v.form, v.under)
    BY <1>1, <1>5, <1>6 DEF Fits, TypeFits, RelationFits
  <1>8. SubjectFits(v.form, v.under)
    <2> SUFFICES ASSUME NEW doc \in Valid, schema = doc,
                        v.under.object_type = doc, type # NoWord, v.under.relation = doc, relation # NoWord,
                        DOMAIN Relations[doc] # {}, DOMAIN Relations[doc][type] # {}
                 PROVE  \/ subject \in Relations[doc][type][relation]
                        \/ Relations[doc][type][relation] = {}
      BY <1>5, <1>6 DEF SubjectFits
    <2>1. type \in typeNames
      BY <1>5, <1>6, <1>7, Offered DEF TypeFits
    <2>2. relation \in relationsOf(type)
      BY <1>5, <1>6, <1>7, <2>1, Offered DEF RelationFits
    <2> QED  BY <1>3, <2>1, <2>2, Offered
  <1> QED  BY <1>3, <1>6, <1>7, <1>8 DEF Fits

\* A field is typed, because the schema offers nothing.
LEMMA updateFieldFits ==
  ASSUME NEW field \in Fields, NEW word, Fits(view), updateField(field, word) PROVE \E v : Do(v) /\ Fits(v)
  <1>1. PICK form : form = [view.form EXCEPT ![field] = word]
    OBVIOUS
  <1>2. PICK v : v = Fill(form, {field})
    OBVIOUS
  <1>3. Do(v)
    BY <1>1, <1>2 DEF updateField
  <1>4. view.form = [f \in Fields |-> view.form[f]]
    BY DEF Fits, TuplesShape
  <1>5. /\ form = [f \in Fields |-> form[f]]
        /\ \A f \in Fields : form[f] = IF f = field THEN word ELSE view.form[f]
    BY <1>1, <1>4
  <1>6. /\ TuplesShape(v) /\ v.form = form
        /\ \A f \in Fields : v.under[f] = IF f = field THEN schema ELSE view.under[f]
    BY <1>2, <1>5, FilledShape
  <1>7. CASE field = "object_type"
    <2>1. typeNames = {}
      BY <1>7 DEF updateField
    <2>2. v.under.object_type = schema
      BY <1>6, <1>7 DEF Fields
    <2>3. \A doc \in Valid : v.under.object_type = doc => DOMAIN Relations[doc] = {}
      BY <2>1, <2>2, Offered
    <2>4. TypeFits(v.form, v.under) /\ RelationFits(v.form, v.under) /\ SubjectFits(v.form, v.under)
      BY <2>3 DEF TypeFits, RelationFits, SubjectFits
    <2> QED  BY <1>3, <1>6, <2>4 DEF Fits
  <1>8. CASE field = "relation"
    <2>1. relationsOf(view.form.object_type) = {}
      BY <1>8 DEF updateField, relationsForType
    <2>2. /\ v.form.object_type = view.form.object_type
          /\ v.under.object_type = view.under.object_type /\ v.under.relation = schema
      BY <1>5, <1>6, <1>8 DEF Fields
    <2>3. TypeFits(v.form, v.under)
      BY <2>2 DEF Fits, TypeFits
    <2>4. \A doc \in Valid :
            (/\ v.under.object_type = doc /\ v.form.object_type # NoWord /\ v.under.relation = doc
             /\ DOMAIN Relations[doc] # {})
            => DOMAIN Relations[doc][v.form.object_type] = {}
      BY <2>1, <2>2, <2>3, Offered DEF TypeFits
    <2>5. RelationFits(v.form, v.under) /\ SubjectFits(v.form, v.under)
      BY <2>4 DEF RelationFits, SubjectFits
    <2> QED  BY <1>3, <1>6, <2>3, <2>5 DEF Fits
  <1>9. CASE field = "subject_type"
    <2>1. PICK type, relation : type = view.form.object_type /\ relation = view.form.relation
      OBVIOUS
    <2>2. allowedTypes(type, relation) = {}
      BY <1>9, <2>1 DEF updateField, subjectTypesForRelation
    <2>3. /\ v.form.object_type = type /\ v.form.relation = relation
          /\ v.under.object_type = view.under.object_type /\ v.under.relation = view.under.relation
          /\ v.under.subject_type = schema
      BY <1>5, <1>6, <1>9, <2>1 DEF Fields
    <2>4. TypeFits(v.form, v.under) /\ RelationFits(v.form, v.under)
      BY <2>1, <2>3 DEF Fits, TypeFits, RelationFits
    <2>5. SubjectFits(v.form, v.under)
      <3> SUFFICES ASSUME NEW doc \in Valid, schema = doc,
                          v.under.object_type = doc, type # NoWord, v.under.relation = doc, relation # NoWord,
                          DOMAIN Relations[doc] # {}, DOMAIN Relations[doc][type] # {}
                   PROVE  Relations[doc][type][relation] = {}
        BY <2>3 DEF SubjectFits
      <3>1. type \in typeNames
        BY <2>3, <2>4, Offered DEF TypeFits
      <3>2. relation \in relationsOf(type)
        BY <2>3, <2>4, <3>1, Offered DEF RelationFits
      <3> QED  BY <2>2, <3>1, <3>2, Offered
    <2> QED  BY <1>3, <1>6, <2>4, <2>5 DEF Fits
  <1> QED  BY <1>7, <1>8, <1>9 DEF Fields

\* Rendering may close the delete dialog.
LEMMA RenderFits ==
  ASSUME NEW t, NEW v, NEW w, Fits(v), w = Render("tuples", t, v) PROVE Fits(w)
  <1>1. PICK deletes : deletes = Ids("delete")
    OBVIOUS
  <1>2. w = v \/ w = [v EXCEPT !.target = None, !.pending = @ \ deletes]
    BY <1>1 DEF Render, RenderTuples
  <1>3. TuplesShape(w) /\ w.form = v.form /\ w.under = v.under
    BY <1>2 DEF Fits, TuplesShape
  <1> QED  BY <1>3, SameFormFits

\* The page is drawn.
LEMMA DrawForm ==
  ASSUME NEW p, NEW t, NEW v, Draw(p, t, v), p = "tuples" => Fits(v) PROVE FormInv'
  <1> SUFFICES ASSUME p = "tuples" PROVE Fits(view')
    BY DEF FormInv, Draw
  <1>1. PICK w : w = view'
    OBVIOUS
  <1>2. w = Render("tuples", t, v)
    BY <1>1 DEF Draw
  <1> QED  BY <1>1, <1>2, RenderFits

\* The steps of the tuples page.
LEMMA TuplesStepForm == ASSUME FormInv, TuplesStep PROVE FormInv'
  <1>1. page = "tuples" /\ Fits(view)
    BY DEF TuplesStep, FormInv
  <1>2. ASSUME NEW v, Do(v), Fits(v) PROVE FormInv'
    <2>1. Draw(page, tenant, v)
      BY <1>2 DEF Do, Show
    <2> QED  BY <1>2, <2>1, DrawForm
  <1>3. ASSUME NEW v, Do(v), TuplesShape(v), v.form = view.form, v.under = view.under PROVE FormInv'
    BY <1>1, <1>2, <1>3, SameFormFits
  <1>4. ASSUME NEW field, NEW word, updateFilter(field, word) PROVE FormInv'
    <2>1. PICK v : v = [view EXCEPT !.filter[field] = word]
      OBVIOUS
    <2>2. TuplesShape(v) /\ v.form = view.form /\ v.under = view.under
      BY <1>1, <2>1 DEF Fits, TuplesShape
    <2> QED  BY <1>3, <1>4, <2>1, <2>2 DEF updateFilter
  <1>5. CASE clearFilter
    <2>1. PICK v : v = [view EXCEPT !.filter = Empty]
      OBVIOUS
    <2>2. TuplesShape(v) /\ v.form = view.form /\ v.under = view.under
      BY <1>1, <2>1 DEF Fits, TuplesShape
    <2> QED  BY <1>3, <1>5, <2>1, <2>2 DEF clearFilter
  <1>6. ASSUME NEW x, AskDelete(x) \/ (CancelDelete /\ x = None) PROVE FormInv'
    <2>1. PICK v : v = [view EXCEPT !.target = x]
      OBVIOUS
    <2>2. TuplesShape(v) /\ v.form = view.form /\ v.under = view.under
      BY <1>1, <2>1 DEF Fits, TuplesShape
    <2> QED  BY <1>3, <1>6, <2>1, <2>2 DEF AskDelete, CancelDelete
  <1>7. ASSUME NEW open, SetOpen(open) PROVE FormInv'
    <2>1. PICK v : v = [view EXCEPT !.open = open]
      OBVIOUS
    <2>2. TuplesShape(v) /\ v.form = view.form /\ v.under = view.under
      BY <1>1, <2>1 DEF Fits, TuplesShape
    <2> QED  BY <1>3, <1>7, <2>1, <2>2 DEF SetOpen
  <1>8. ASSUME NEW x, SelectObjectType(x) \/ SelectRelation(x) \/ SelectSubjectType(x) PROVE FormInv'
    BY <1>1, <1>2, <1>8, SelectObjectTypeFits, SelectRelationFits, SelectSubjectTypeFits
  <1>9. ASSUME NEW field \in Fields, NEW word, updateField(field, word) PROVE FormInv'
    BY <1>1, <1>2, <1>9, updateFieldFits
  <1>10. CASE handleDelete \/ handleSubmit
    <2>1. PICK n : n = left.calls
      OBVIOUS
    <2>2. view' = [view EXCEPT !.pending = @ \cup {n}] /\ page' = page
      BY <1>10, <2>1 DEF handleDelete, handleSubmit, Call
    <2>3. TuplesShape(view') /\ view'.form = view.form /\ view'.under = view.under
      BY <1>1, <2>2 DEF Fits, TuplesShape
    <2>4. Fits(view')
      BY <1>1, <2>3, SameFormFits
    <2> QED  BY <2>4 DEF FormInv
  <1> QED  BY <1>4, <1>5, <1>6, <1>7, <1>8, <1>9, <1>10 DEF TuplesStep

\* A call ends.
LEMMA SettleForm ==
  ASSUME NEW m, NEW keys, NEW missed, NEW v, Settle(m, keys, missed, v), page = "tuples" => Fits(v)
  PROVE  FormInv'
  <1> SUFFICES ASSUME page = "tuples" PROVE Fits(view')
    BY DEF FormInv, Settle
  <1>1. PICK u, w : u = [v EXCEPT !.pending = @ \ {m.id}] /\ w = view'
    OBVIOUS
  <1>2. TuplesShape(u) /\ u.form = v.form /\ u.under = v.under
    BY <1>1 DEF Fits, TuplesShape
  <1>3. Fits(u)
    BY <1>2, SameFormFits
  <1>4. w = Render("tuples", tenant, u)
    BY <1>1 DEF Settle
  <1> QED  BY <1>1, <1>3, <1>4, RenderFits

\* The ends of calls.
LEMMA SettlesForm == ASSUME NEW m \in mutations, PendingInv, FormInv, Settles(m) PROVE FormInv'
  <1>1. ASSUME page # "tuples" PROVE FormInv'
    BY <1>1 DEF FormInv, Settles, SettleRefused, WriteSucceeds, DeleteSucceeds, ExpandSucceeds, SaveSucceeds,
      CheckEnds, Settle
  <1> SUFFICES ASSUME page = "tuples" PROVE FormInv'
    BY <1>1
  <1>2. Fits(view)
    BY DEF FormInv
  <1>3. CASE SettleRefused(m) \/ SaveSucceeds(m)
    BY <1>2, <1>3, SettleForm DEF SettleRefused, SaveSucceeds
  <1>4. CASE DeleteSucceeds(m)
    <2>1. PICK v : v = IF m.id \in view.pending THEN [view EXCEPT !.target = None] ELSE view
      OBVIOUS
    <2>2. TuplesShape(v) /\ v.form = view.form /\ v.under = view.under
      BY <1>2, <2>1 DEF Fits, TuplesShape
    <2>3. Fits(v)
      BY <1>2, <2>2, SameFormFits
    <2> QED  BY <1>4, <2>1, <2>3, SettleForm DEF DeleteSucceeds
  <1>5. CASE WriteSucceeds(m)
    <2>1. PICK none : none = [f \in Fields |-> NoSchema]
      OBVIOUS
    <2>2. PICK v : v = IF m.id \in view.pending
                       THEN [view EXCEPT !.open = FALSE, !.form = Empty, !.under = none]
                       ELSE view
      OBVIOUS
    <2>3. Empty = [f \in Fields |-> Empty[f]] /\ none = [f \in Fields |-> none[f]]
      BY <2>1 DEF Empty
    <2>4. CASE m.id \in view.pending
      <3>1. view = [filter |-> view.filter, target |-> view.target, open |-> view.open, form |-> view.form,
                    under |-> view.under, pending |-> view.pending]
        BY <1>2 DEF Fits, TuplesShape
      <3>2. /\ v.form = Empty /\ v.under = none
            /\ v = [filter |-> v.filter, target |-> v.target, open |-> v.open, form |-> v.form,
                    under |-> v.under, pending |-> v.pending]
        BY <2>2, <2>4, <3>1
      <3>3. Fits(v)
        BY <2>3, <3>2, EmptyFits DEF Fits, TuplesShape
      <3> QED  BY <1>5, <2>1, <2>2, <3>3, SettleForm DEF WriteSucceeds
    <2>5. CASE m.id \notin view.pending
      BY <1>2, <1>5, <2>5, SettleForm DEF WriteSucceeds
    <2> QED  BY <2>4, <2>5
  <1>6. CASE ExpandSucceeds(m) \/ CheckEnds(m)
    <2>1. m.kind \notin {"write", "delete"}
      BY <1>6 DEF ExpandSucceeds, CheckEnds
    <2>2. m.id \notin view.pending
      BY <2>1 DEF PendingInv, WaitsForOwn, Kinds
    <2>3. Settle(m, {}, {}, view)
      BY <1>6, <2>2 DEF ExpandSucceeds, CheckEnds
    <2> QED  BY <1>2, <2>3, SettleForm
  <1> QED  BY <1>3, <1>4, <1>5, <1>6 DEF Settles

\* Every step.
LEMMA FormNext == CallsInv /\ PendingInv /\ FormInv /\ [Next]_vars => FormInv'
  <1> SUFFICES ASSUME CallsInv, PendingInv, FormInv, [Next]_vars PROVE FormInv'
    OBVIOUS
  <1>0. ASSUME NEW t, Draw(page, t, Switch(t)) PROVE FormInv'
    <2>1. page = "tuples" => Switch(t) = view
      BY DEF Switch
    <2>2. PICK p, v : p = page /\ v = Switch(t)
      OBVIOUS
    <2> QED  BY <1>0, <2>1, <2>2, DrawForm DEF FormInv
  <1>1. CASE UNCHANGED <<page, view>>
    BY <1>1 DEF FormInv
  <1>2. ASSUME NEW t \in Tenants, SelectTenant(t) PROVE FormInv'
    BY <1>0, <1>2 DEF SelectTenant, Show
  <1>3. ASSUME NEW p \in Pages, Navigate(p) PROVE FormInv'
    <2>1. Draw(p, tenant, Fresh(p))
      BY <1>3 DEF Navigate, Show
    <2> QED  BY <2>1, FreshFits, DrawForm
  <1>4. CASE LoadMore \/ ExplorerStep \/ SchemaStep
    <2>1. PageStep
      BY <1>4, ChangelogSteps, ExplorerSteps, SchemaSteps
    <2>2. page' = page
      BY <2>1 DEF PageStep, Shows, Show, Draw, Call
    <2> QED  BY <1>4, <2>2 DEF LoadMore, ExplorerStep, SchemaStep, FormInv
  <1>5. CASE TuplesStep
    BY <1>5, TuplesStepForm
  <1>6. CASE ReceiveTenants
    BY <1>0, <1>6 DEF ReceiveTenants
  <1>7. ASSUME NEW k \in Keys, Query(k) PROVE FormInv'
    <2>1. CASE AnswerQuery(k) \/ EvictQuery(k)
      BY <1>1, <2>1 DEF AnswerQuery, EvictQuery, screen
    <2>2. CASE ReceiveQuery(k) \/ FailQuery(k) \/ ReconnectQuery(k)
      <3>1. Draw(page, tenant, view)
        BY <2>2 DEF ReceiveQuery, FailQuery, ReconnectQuery
      <3> QED  BY <3>1, DrawForm DEF FormInv
    <2> QED  BY <1>7, <2>1, <2>2 DEF Query
  <1>8. ASSUME NEW m \in mutations, Mutation(m) PROVE FormInv'
    <2>1. CASE Refuse(m) \/ Perform(m) \/ Lose(m)
      BY <1>1, <2>1 DEF Refuse, Perform, Lose, screen
    <2> QED  BY <1>8, <2>1, SettlesForm DEF Mutation, Settles
  <1>9. CASE \E load \in loads : FinishLoad(load)
    BY <1>1, <1>9 DEF FinishLoad, screen
  <1>10. CASE RestartServer \/ \E t \in Tenants : \/ OtherWrites(t, Typed)
                                                  \/ \E doc \in Valid : OtherLoads(t, doc)
                                                  \/ OtherCreates(t)
    BY <1>1, <1>10 DEF RestartServer, OtherWrites, OtherLoads, OtherCreates, Other, screen
  <1>11. CASE UNCHANGED vars
    BY <1>1, <1>11 DEF vars, screen
  <1> QED  BY <1>2, <1>3, <1>4, <1>5, <1>6, <1>7, <1>8, <1>9, <1>10, <1>11 DEF Next

\* FormFitsSchema, for every set of documents and whatever the order in which
\* the schema, the tenant and the fields change.
THEOREM FormsFitTheirSchema == Spec => []FormFitsSchema
  <1>1. FormInv => FormFitsSchema
    BY DEF FormInv, Fits, TypeFits, RelationFits, SubjectFits, FormFitsSchema, Fields
  <1>2. Init => FormInv
    BY FreshFits DEF Init, FormInv
  <1> QED  BY <1>1, <1>2, CallsInit, CallsNext, PendingInit, PendingNext, FormNext, PTL DEF Spec

-----------------------------------------------------------------------------
(* What is cached.                                                         *)

\* A page of a changelog with len entries, after the entry n.
LogPage(n, len) == [entries |-> {i \in 1..len : i > n /\ i <= n + PageSize}, latest |-> len]
LogPages(n) == {LogPage(n, len) : len \in 0..MaxLog}

\* Data of the kind that the queries ask for, per key.
Fitting(data) ==
    /\ data[tenantKey] = NoData \/ data[tenantKey] \subseteq Tenants
    /\ \A t \in Tenants : data[schemaKey(t)] \in Valid \cup {NoData}
    /\ \A t \in Tenants, n \in 0..MaxLog : data[changelogKey(t, n)] \in LogPages(n) \cup {NoData}

answers == [k \in Keys |-> request[k].data]

DataInv ==
    /\ CacheShape
    /\ DOMAIN request = Keys /\ request = [k \in Keys |-> request[k]]
    /\ Fitting(cache) /\ Fitting(answers)
    /\ log \in [Tenants -> 0..MaxLog]
    /\ tenant \in Tenants

\* The keys there are.
LEMMA KeysOf ==
  /\ tenantKey \in Keys
  /\ \A t \in Tenants : schemaKey(t) \in Keys
  /\ \A t \in Tenants, n \in 0..MaxLog : changelogKey(t, n) \in Keys
  BY DEF Keys

\* Data change to answers or to none.
LEMMA FittingMoves ==
  ASSUME NEW data, NEW more, NEW data2, Fitting(data), Fitting(more),
         \A k \in Keys : data2[k] \in {data[k], more[k], NoData}
  PROVE  Fitting(data2)
  BY KeysOf DEF Fitting

\* The requests change to others of the same keys, or to ones without data.
RequestsMove ==
    /\ DOMAIN request' = Keys /\ request' = [k \in Keys |-> request'[k]]
    /\ \A k \in Keys : request'[k].data \in {request[k].data, NoData}

\* The cached data change to answers, or are dropped.
CacheMoves ==
    /\ CacheShape'
    /\ \A k \in Keys : cache'[k] \in {cache[k], request[k].data, NoData}

\* Then the data fit.
LEMMA MovesFit ==
  ASSUME DataInv, RequestsMove, CacheMoves PROVE Fitting(cache)' /\ Fitting(answers)'
  <1>1. PICK c, a, c2, a2 : c = cache /\ a = answers /\ c2 = cache' /\ a2 = answers'
    OBVIOUS
  <1>2. Fitting(c) /\ Fitting(a)
    BY <1>1 DEF DataInv
  <1>3. \A k \in Keys : a[k] = request[k].data /\ a2[k] = request'[k].data
    BY <1>1 DEF answers
  <1>4. \A k \in Keys : c2[k] \in {c[k], a[k], NoData}
    BY <1>1, <1>3 DEF CacheMoves
  <1>5. \A k \in Keys : a2[k] \in {a[k], a[k], NoData}
    BY <1>3 DEF RequestsMove
  <1>6. Fitting(c2) /\ Fitting(a2)
    BY <1>2, <1>4, <1>5, FittingMoves
  <1> QED  BY <1>1, <1>6 DEF Fitting

\* New queries on the screen.
LEMMA ObserveMoves == ASSUME NEW new, DataInv, Observe(new) PROVE RequestsMove /\ CacheMoves
  <1>1. PICK fetched : request' = Ask(fetched)
    BY DEF Observe
  <1>2. cache' = cache
    BY DEF Observe
  <1>3. Sent.data = NoData
    BY DEF Sent
  <1>4. RequestsMove
    BY <1>1, <1>3 DEF Ask, RequestsMove, DataInv
  <1>5. CacheMoves
    BY <1>2 DEF CacheMoves, DataInv, CacheShape
  <1> QED  BY <1>4, <1>5

\* An answer arrives.
LEMMA ReceiveMoves ==
  ASSUME NEW k \in Keys, NEW new, DataInv, Receive(k, new) PROVE RequestsMove /\ CacheMoves
  <1>1. PICK fetched : request' = [Ask(fetched) EXCEPT ![k] = Idle]
    BY DEF Receive
  <1>2. cache' = cache \/ cache' = [cache EXCEPT ![k] = request[k].data]
    BY DEF Receive
  <1>3. Sent.data = NoData /\ Idle.data = NoData
    BY DEF Sent, Idle
  <1>4. RequestsMove
    BY <1>1, <1>3 DEF Ask, RequestsMove, DataInv
  <1>5. CacheMoves
    BY <1>2 DEF CacheMoves, DataInv, CacheShape
  <1> QED  BY <1>4, <1>5

\* A request fails or is sent again, data are dropped, a key is invalidated.
LEMMA OtherMoves ==
  ASSUME DataInv,
         \/ \E k \in Keys : Fail(k) \/ Reconnect(k) \/ Evict(k)
         \/ \E keys, missed, onScreen : Invalidate(keys, missed, onScreen)
  PROVE  RequestsMove /\ CacheMoves
  <1>1. Sent.data = NoData /\ Idle.data = NoData
    BY DEF Sent, Idle
  <1>2. ASSUME NEW k \in Keys, Fail(k) \/ Reconnect(k) \/ Evict(k) PROVE RequestsMove
    BY <1>1, <1>2 DEF Fail, Reconnect, Evict, RequestsMove, DataInv
  <1>3. ASSUME NEW keys, NEW missed, NEW onScreen, Invalidate(keys, missed, onScreen)
        PROVE  RequestsMove
    BY <1>1, <1>3 DEF Invalidate, RequestsMove, DataInv
  <1>4. CacheMoves
    BY DEF Fail, Reconnect, Evict, Invalidate, CacheMoves, DataInv, CacheShape
  <1> QED  BY <1>2, <1>3, <1>4

\* The service answers what was asked.
LEMMA ServedFits ==
  ASSUME DataInv, MapsInv
  PROVE  /\ Served(tenantKey) \subseteq Tenants
         /\ \A t \in Tenants : Served(schemaKey(t)) \in Valid \cup {NoData}
         /\ \A t \in Tenants, n \in 0..MaxLog : Served(changelogKey(t, n)) \in LogPages(n) \cup {NoData}
  <1>1. Served(tenantKey) \subseteq Tenants
    <2>1. tenantKey[1] = "tenants"
      BY DEF tenantKey
    <2>2. Served(tenantKey) = existing
      BY <2>1 DEF Served
    <2> QED  BY <2>2 DEF MapsInv, MapsShape
  <1>2. ASSUME NEW t \in Tenants PROVE Served(schemaKey(t)) \in Valid \cup {NoData}
    BY DEF Served, schemaKey, handleGetSchema, MapsInv, MapsShape
  <1>3. ASSUME NEW t \in Tenants, NEW n \in 0..MaxLog
        PROVE  Served(changelogKey(t, n)) \in LogPages(n) \cup {NoData}
    <2>1. Served(changelogKey(t, n)) \in {NoData, LogPage(n, log[t])}
      BY DEF Served, changelogKey, LogPage
    <2>2. log[t] \in 0..MaxLog
      BY DEF DataInv
    <2> QED  BY <2>1, <2>2 DEF LogPages
  <1> QED  BY <1>1, <1>2, <1>3

\* Then the answers fit.
LEMMA AnswerFits ==
  ASSUME NEW k \in Keys, DataInv, MapsInv, AnswerQuery(k)
  PROVE  /\ DOMAIN request' = Keys /\ request' = [x \in Keys |-> request'[x]]
         /\ Fitting(cache)' /\ Fitting(answers)'
  <1>1. PICK d, a, a2 : d = Served(k) /\ a = answers /\ a2 = answers'
    OBVIOUS
  <1>2. request' = [request EXCEPT ![k] = [at |-> "answered", data |-> d]] /\ cache' = cache
    BY <1>1 DEF AnswerQuery, Answer
  <1>3. DOMAIN request' = Keys /\ request' = [x \in Keys |-> request'[x]]
    BY <1>2 DEF DataInv
  <1>4. \A x \in Keys : a2[x] = IF x = k THEN d ELSE a[x]
    BY <1>1, <1>2 DEF DataInv, answers
  <1>5. Fitting(a)
    BY <1>1 DEF DataInv
  <1>6. Fitting(a2)
    <2>1. a2[tenantKey] = NoData \/ a2[tenantKey] \subseteq Tenants
      BY <1>1, <1>4, <1>5, KeysOf, ServedFits DEF Fitting
    <2>2. ASSUME NEW t \in Tenants PROVE a2[schemaKey(t)] \in Valid \cup {NoData}
      BY <1>1, <1>4, <1>5, KeysOf, ServedFits DEF Fitting
    <2>3. ASSUME NEW t \in Tenants, NEW n \in 0..MaxLog
          PROVE  a2[changelogKey(t, n)] \in LogPages(n) \cup {NoData}
      BY <1>1, <1>4, <1>5, KeysOf, ServedFits DEF Fitting
    <2> QED  BY <2>1, <2>2, <2>3 DEF Fitting
  <1>7. Fitting(cache)'
    BY <1>2 DEF DataInv, Fitting
  <1> QED  BY <1>1, <1>3, <1>6, <1>7 DEF Fitting

\* Initially.
LEMMA DataInit == Init => DataInv
  <1> SUFFICES ASSUME Init PROVE DataInv
    OBVIOUS
  <1>1. existing \subseteq Tenants /\ tenant \in Tenants
    BY ShellAssumption DEF Init
  <1>2. log \in [Tenants -> 0..MaxLog]
    <2>1. OldEntries \in 0..MaxLog
      BY ShellAssumption DEF Init
    <2>2. 0 \in 0..MaxLog
      BY ShellAssumption
    <2> QED  BY <2>1, <2>2 DEF Init
  <1>3. Sent.data = NoData /\ Idle.data = NoData
    BY DEF Sent, Idle
  <1>4. CASE InitQueries(Keys, [k \in {} |-> {}], Current)
    <2>1. \A k \in Keys : cache[k] = NoData /\ request[k].data = NoData
      BY <1>3, <1>4 DEF InitQueries
    <2>2. Fitting(cache) /\ Fitting(answers)
      BY <2>1, KeysOf DEF Fitting, answers
    <2>3. CacheShape /\ DOMAIN request = Keys /\ request = [k \in Keys |-> request[k]]
      BY <1>4 DEF InitQueries, CacheShape
    <2> QED  BY <1>1, <1>2, <2>2, <2>3 DEF DataInv
  <1>5. CASE InitQueries(Keys, [k \in {tenantKey} |-> existing], Current)
    <2>1. \A k \in Keys : /\ cache[k] = IF k = tenantKey THEN existing ELSE NoData
                          /\ request[k].data = NoData
      BY <1>3, <1>5 DEF InitQueries
    <2>2. Fitting(answers)
      BY <2>1, KeysOf DEF Fitting, answers
    <2>3. \A t \in Tenants : schemaKey(t) # tenantKey
      BY DEF schemaKey, tenantKey
    <2>4. \A t \in Tenants, n \in 0..MaxLog : changelogKey(t, n) # tenantKey
      BY DEF changelogKey, tenantKey
    <2>5. Fitting(cache)
      BY <1>1, <2>1, <2>3, <2>4, KeysOf DEF Fitting
    <2>6. CacheShape /\ DOMAIN request = Keys /\ request = [k \in Keys |-> request[k]]
      BY <1>5 DEF InitQueries, CacheShape
    <2> QED  BY <1>1, <1>2, <2>2, <2>5, <2>6 DEF DataInv
  <1> QED  BY <1>4, <1>5 DEF Init

\* The log grows within its bound.
LEMMA StoreLog ==
  ASSUME NEW t \in Tenants, NEW tuples, DataInv, Store(t, tuples) PROVE log' \in [Tenants -> 0..MaxLog]
  BY ShellAssumption DEF Store, DataInv

\* A step that only moves the data.
LEMMA MovesData ==
  ASSUME DataInv, RequestsMove, CacheMoves, UNCHANGED log, tenant' \in Tenants PROVE DataInv'
  <1>1. Fitting(cache)' /\ Fitting(answers)'
    BY MovesFit
  <1> QED  BY <1>1 DEF DataInv, RequestsMove, CacheMoves

\* A step that leaves the queries and the tenant alone.
LEMMA QueriesData ==
  ASSUME DataInv, UNCHANGED <<queries, tenant>>, log' \in [Tenants -> 0..MaxLog] PROVE DataInv'
  BY DEF DataInv, queries, CacheShape, Fitting, answers

\* Every step.
LEMMA DataNext == DataInv /\ MapsInv /\ CallsInv /\ [Next]_vars => DataInv'
  <1> SUFFICES ASSUME DataInv, MapsInv, CallsInv, [Next]_vars PROVE DataInv'
    OBVIOUS
  <1> USE DEF service
  <1>0. tenant \in Tenants
    BY DEF DataInv
  <1>1. ASSUME NEW p, NEW t \in Tenants, NEW v, Show(p, t, v) PROVE DataInv'
    <2>1. PICK new : Observe(new)
      BY <1>1 DEF Show
    <2> QED  BY <1>1, <2>1, ObserveMoves, MovesData DEF Show, Draw
  <1>2. ASSUME NEW t \in Tenants, SelectTenant(t) PROVE DataInv'
    <2>1. \E v : Show(page, t, v)
      BY <1>2 DEF SelectTenant
    <2> QED  BY <1>1, <2>1
  <1>3. ASSUME NEW p, Navigate(p) PROVE DataInv'
    <2>1. \E v : Show(p, tenant, v)
      BY <1>3 DEF Navigate
    <2> QED  BY <1>0, <1>1, <2>1
  <1>4. CASE PageStep
    <2>1. CASE \E v : Show(page, tenant, v)
      BY <1>0, <1>1, <2>1
    <2>2. CASE \E kind, arg, v : Call(kind, arg, v)
      BY <2>2, QueriesData DEF Call, DataInv
    <2> QED  BY <1>4, <2>1, <2>2 DEF PageStep, Shows
  <1>5. CASE ReceiveTenants
    <2>1. PICK list, v, new : /\ list = IF request[tenantKey].data = NoData THEN {} ELSE request[tenantKey].data
                              /\ Receive(tenantKey, new) /\ Draw(page, Fallback(list), v) /\ UNCHANGED log
      BY <1>5 DEF ReceiveTenants
    <2>2. list \subseteq Tenants
      BY <2>1, KeysOf DEF DataInv, Fitting, answers
    <2>3. Fallback(list) \in Tenants
      BY <1>0, <2>2, ShellAssumption DEF Fallback
    <2> QED  BY <2>1, <2>3, KeysOf, ReceiveMoves, MovesData DEF Draw
  <1>6. ASSUME NEW k \in Keys, Query(k) PROVE DataInv'
    <2>1. CASE AnswerQuery(k)
      BY <2>1, AnswerFits DEF AnswerQuery, Answer, screen, DataInv, CacheShape
    <2>2. CASE ReceiveQuery(k)
      BY <1>0, <2>2, ReceiveMoves, MovesData DEF ReceiveQuery, Draw
    <2>3. CASE FailQuery(k) \/ ReconnectQuery(k) \/ EvictQuery(k)
      <3>1. Fail(k) \/ Reconnect(k) \/ Evict(k)
        BY <2>3 DEF FailQuery, ReconnectQuery, EvictQuery
      <3>2. UNCHANGED <<log, tenant>>
        BY <2>3 DEF FailQuery, ReconnectQuery, EvictQuery, Draw, screen
      <3> QED  BY <1>0, <3>1, <3>2, OtherMoves, MovesData
    <2> QED  BY <1>6, <2>1, <2>2, <2>3 DEF Query
  <1>7. ASSUME NEW m \in mutations, Mutation(m) PROVE DataInv'
    <2>1. CASE Settles(m)
      <3>1. PICK keys, missed, v : Settle(m, keys, missed, v)
        BY <2>1 DEF Settles, SettleRefused, WriteSucceeds, DeleteSucceeds, ExpandSucceeds, SaveSucceeds, CheckEnds
      <3>2. Invalidate(keys, missed, Current) /\ UNCHANGED <<log, tenant>>
        BY <3>1 DEF Settle
      <3> QED  BY <1>0, <3>2, OtherMoves, MovesData
    <2>2. CASE Perform(m)
      <3>1. m.tenant \in Tenants
        BY <2>2 DEF Perform, accepts, MapsInv, MapsShape
      <3>2. UNCHANGED <<queries, tenant>>
        BY <2>2 DEF Perform, screen
      <3>3. log' = log \/ \E tuples : Store(m.tenant, tuples)
        BY <2>2 DEF Perform
      <3> QED  BY <3>1, <3>2, <3>3, StoreLog, QueriesData DEF DataInv
    <2>3. CASE Refuse(m) \/ Lose(m)
      BY <2>3, QueriesData DEF Refuse, Lose, screen, DataInv
    <2> QED  BY <1>7, <2>1, <2>2, <2>3 DEF Mutation, Settles
  <1>8. CASE \E load \in loads : FinishLoad(load)
    BY <1>8, QueriesData DEF FinishLoad, screen, DataInv
  <1>9. ASSUME NEW t \in Tenants, OtherWrites(t, Typed) PROVE DataInv'
    <2>1. \E tuples : Store(t, tuples)
      BY <1>9 DEF OtherWrites
    <2> QED  BY <1>9, <2>1, StoreLog, QueriesData DEF OtherWrites, Other, screen
  <1>10. ASSUME NEW t \in Tenants, OtherCreates(t) \/ \E doc \in Valid : OtherLoads(t, doc) PROVE DataInv'
    BY <1>10, QueriesData DEF OtherLoads, OtherCreates, Other, screen, DataInv
  <1>11. CASE RestartServer
    <2>1. log' \in [Tenants -> 0..MaxLog]
      BY <1>11, ShellAssumption DEF RestartServer
    <2> QED  BY <1>11, <2>1, QueriesData DEF RestartServer, screen
  <1>12. CASE UNCHANGED vars
    BY <1>12, QueriesData DEF vars, screen, DataInv
  <1>13. CASE TuplesStep \/ LoadMore \/ ExplorerStep \/ SchemaStep
    BY <1>4, <1>13, TuplesSteps, ChangelogSteps, ExplorerSteps, SchemaSteps
  <1> QED  BY <1>2, <1>3, <1>5, <1>6, <1>7, <1>8, <1>9, <1>10, <1>11, <1>12, <1>13 DEF Next

-----------------------------------------------------------------------------
(* The changelog page.                                                     *)

LogShape(v) ==
    v = [sinceSeq |-> v.sinceSeq, base |-> v.base, seen |-> v.seen, pending |-> v.pending]

\* Nothing between the base and the position was passed over.
Read(v) ==
    /\ LogShape(v)
    /\ v.sinceSeq \in 0..MaxLog /\ v.base \in 0..MaxLog
    /\ \A n \in (v.base + 1)..v.sinceSeq : n \in v.seen

\* And what there is of the page at the position was on the screen.
ReadInv ==
    page = "changelog" =>
        /\ Read(view)
        /\ LET data == cache[changelogKey(tenant, view.sinceSeq)]
           IN  data = NoData \/ data.entries \subseteq view.seen

\* A page that was just opened.
LEMMA FreshRead == Read(Fresh("changelog"))
  <1>1. PICK v : v = Fresh("changelog")
    OBVIOUS
  <1>2. v = [sinceSeq |-> 0, base |-> 0, seen |-> {}, pending |-> {}]
    BY <1>1 DEF Fresh
  <1>3. LogShape(v) /\ v.sinceSeq = 0 /\ v.base = 0
    BY <1>2 DEF LogShape
  <1> QED  BY <1>1, <1>3, ShellAssumption DEF Read

\* Rendering shows the entries that there are.
LEMMA RenderRead ==
  ASSUME NEW t, NEW v, NEW w, Read(v), w = Render("changelog", t, v)
  PROVE  /\ Read(w) /\ w.sinceSeq = v.sinceSeq
         /\ LET data == cache'[changelogKey(t, w.sinceSeq)]
            IN  data = NoData \/ data.entries \subseteq w.seen
  <1>1. PICK data : data = cache'[changelogKey(t, v.sinceSeq)]
    OBVIOUS
  <1>2. w = RenderChangelog(v, data)
    BY <1>1 DEF Render
  <1>3. CASE data = NoData
    BY <1>1, <1>2, <1>3 DEF RenderChangelog
  <1>4. CASE data # NoData
    <2>1. PICK e : e = data.entries
      OBVIOUS
    <2>2. w = [v EXCEPT !.seen = @ \cup e]
      BY <1>2, <1>4, <2>1 DEF RenderChangelog
    <2>3. LogShape(w) /\ w.sinceSeq = v.sinceSeq /\ w.base = v.base /\ w.seen = v.seen \cup e
      BY <2>2 DEF Read, LogShape
    <2>4. Read(w)
      BY <2>3 DEF Read
    <2> QED  BY <1>1, <2>1, <2>3, <2>4
  <1> QED  BY <1>3, <1>4

\* The page is drawn.
LEMMA DrawRead ==
  ASSUME NEW p, NEW t, NEW v, Draw(p, t, v), p = "changelog" => Read(v) PROVE ReadInv'
  <1> SUFFICES ASSUME p = "changelog"
               PROVE  /\ Read(view')
                      /\ LET data == cache'[changelogKey(t, view'.sinceSeq)]
                         IN  data = NoData \/ data.entries \subseteq view'.seen
    BY DEF ReadInv, Draw, Read, LogShape
  <1>1. PICK w : w = view'
    OBVIOUS
  <1>2. w = Render("changelog", t, v)
    BY <1>1 DEF Draw
  <1> QED  BY <1>1, <1>2, RenderRead

\* A page with an entry has a last one.
LEMMA LastOfPage ==
  ASSUME NEW n \in 0..MaxLog, NEW len \in 0..MaxLog, LogPage(n, len).entries # {}
  PROVE  LET e == LogPage(n, len).entries
         IN  Max(e) \in e /\ \A i \in e : i <= Max(e)
  <1> DEFINE e == {i \in 1..len : i > n /\ i <= n + PageSize}
             top == IF len <= n + PageSize THEN len ELSE n + PageSize
  <1>1. LogPage(n, len).entries = e
    BY DEF LogPage
  <1>2. e # {}
    BY <1>1
  <1>3. top \in e /\ \A i \in e : top >= i
    BY <1>2, ShellAssumption
  <1>4. \E x \in e : \A y \in e : x >= y
    BY <1>3
  <1> HIDE DEF e
  <1>5. Max(e) \in e /\ \A y \in e : Max(e) >= y
    BY <1>4 DEF Max
  <1>6. e \subseteq Int
    BY ShellAssumption DEF e
  <1>7. \A i \in e : i <= Max(e)
    BY <1>5, <1>6
  <1> QED  BY <1>1, <1>5, <1>7

\* The next page.
LEMMA LoadMoreRead == ASSUME DataInv, ReadInv, LoadMore PROVE ReadInv'
  <1>1. PICK n, data : n = view.sinceSeq /\ data = cache[changelogKey(tenant, view.sinceSeq)]
    OBVIOUS
  <1>2. page = "changelog" /\ Read(view) /\ data # NoData /\ data.entries \subseteq view.seen
    BY <1>1 DEF LoadMore, ReadInv
  <1>3. tenant \in Tenants /\ n \in 0..MaxLog
    BY <1>1, <1>2 DEF DataInv, Read
  <1>4. data \in LogPages(n)
    BY <1>1, <1>2, <1>3 DEF DataInv, Fitting
  <1>5. PICK len \in 0..MaxLog : data = LogPage(n, len)
    BY <1>4 DEF LogPages
  <1>6. data.entries # {}
    <2>1. Cardinality({}) = 0
      BY FS_EmptySet
    <2>2. Cardinality(data.entries) >= PageSize
      BY <1>1 DEF LoadMore
    <2>3. ASSUME data.entries = {} PROVE 0 >= PageSize
      BY <2>1, <2>2, <2>3
    <2> QED  BY <2>3, ShellAssumption
  <1>7. PICK last : last = Max(data.entries)
    OBVIOUS
  <1>8. last \in data.entries /\ \A i \in data.entries : i <= last
    BY <1>3, <1>5, <1>6, <1>7, LastOfPage
  <1>9. data.entries = {i \in 1..len : i > n /\ i <= n + PageSize}
    BY <1>5 DEF LogPage
  <1>10. last \in 0..MaxLog /\ last <= len /\ last <= n + PageSize
    BY <1>3, <1>8, <1>9, ShellAssumption
  <1>11. PICK v : v = [view EXCEPT !.sinceSeq = last]
    OBVIOUS
  <1>12. LogShape(v) /\ v.sinceSeq = last /\ v.base = view.base /\ v.seen = view.seen
    BY <1>2, <1>11 DEF Read, LogShape
  <1>13. ASSUME NEW i \in (v.base + 1)..v.sinceSeq PROVE i \in v.seen
    <2>1. CASE i <= n
      BY <1>1, <1>2, <1>12, <2>1 DEF Read
    <2>2. CASE i > n
      <3>1. i \in 1..len /\ i <= n + PageSize
        BY <1>2, <1>3, <1>10, <1>12, <2>2, ShellAssumption DEF Read
      <3> QED  BY <1>2, <1>9, <1>12, <2>2, <3>1
    <2> QED  BY <1>2, <1>3, <1>10, <1>12, <2>1, <2>2 DEF Read
  <1>14. Read(v)
    BY <1>2, <1>10, <1>12, <1>13 DEF Read
  <1>15. Draw(page, tenant, v)
    BY <1>1, <1>7, <1>11 DEF LoadMore, Show
  <1> QED  BY <1>14, <1>15, DrawRead

\* The tenant changes.
LEMMA SwitchRead == ASSUME NEW t, ReadInv, page = "changelog" PROVE Read(Switch(t))
  <1>1. Read(view)
    BY DEF ReadInv
  <1>2. PICK v : v = [view EXCEPT !.base = view.sinceSeq, !.seen = {}]
    OBVIOUS
  <1>3. LogShape(v) /\ v.sinceSeq = view.sinceSeq /\ v.base = view.sinceSeq
    BY <1>1, <1>2 DEF Read, LogShape
  <1>4. Read(v)
    BY <1>1, <1>3 DEF Read
  <1> QED  BY <1>1, <1>2, <1>4 DEF Switch

\* The page is not drawn, and its data stay or are dropped.
LEMMA ReadSame ==
  ASSUME ReadInv, DataInv, UNCHANGED screen,
         \/ UNCHANGED cache
         \/ \E k \in Keys : cache' = [cache EXCEPT ![k] = NoData]
  PROVE  ReadInv'
  <1> SUFFICES ASSUME page = "changelog" PROVE ReadInv'
    BY DEF ReadInv, screen
  <1>1. PICK k0 : k0 = changelogKey(tenant, view.sinceSeq)
    OBVIOUS
  <1>2. k0 \in Keys
    BY <1>1, KeysOf DEF ReadInv, Read, DataInv
  <1>3. cache'[k0] \in {cache[k0], NoData}
    BY <1>2 DEF DataInv, CacheShape
  <1>4. changelogKey(tenant, view.sinceSeq)' = k0
    BY <1>1 DEF screen, changelogKey
  <1> QED  BY <1>1, <1>3, <1>4 DEF ReadInv, screen, Read, LogShape

\* A call ends, of another page.
LEMMA SettlesRead == ASSUME NEW m \in mutations, PendingInv, ReadInv, Settles(m) PROVE ReadInv'
  <1>1. ASSUME page # "changelog" PROVE ReadInv'
    BY <1>1 DEF ReadInv, Settles, SettleRefused, WriteSucceeds, DeleteSucceeds, ExpandSucceeds, SaveSucceeds,
      CheckEnds, Settle
  <1> SUFFICES ASSUME page = "changelog" PROVE ReadInv'
    BY <1>1
  <1>2. m.id \notin view.pending
    BY DEF PendingInv, WaitsForOwn, Kinds
  <1>3. PICK keys, missed : Settle(m, keys, missed, view)
    BY <1>2 DEF Settles, SettleRefused, WriteSucceeds, DeleteSucceeds, ExpandSucceeds, SaveSucceeds, CheckEnds
  <1>4. PICK u, w : u = [view EXCEPT !.pending = @ \ {m.id}] /\ w = view'
    OBVIOUS
  <1>5. Read(u)
    <2>1. Read(view)
      BY DEF ReadInv
    <2>2. LogShape(u) /\ u.sinceSeq = view.sinceSeq /\ u.base = view.base /\ u.seen = view.seen
      BY <1>4, <2>1 DEF Read, LogShape
    <2> QED  BY <2>1, <2>2 DEF Read
  <1>6. w = Render("changelog", tenant, u) /\ page' = page /\ tenant' = tenant
    BY <1>3, <1>4 DEF Settle
  <1>7. /\ Read(w)
        /\ LET data == cache'[changelogKey(tenant, w.sinceSeq)]
           IN  data = NoData \/ data.entries \subseteq w.seen
    BY <1>5, <1>6, RenderRead
  <1> QED  BY <1>4, <1>6, <1>7 DEF ReadInv, Read, LogShape, changelogKey

\* Every step.
LEMMA ReadNext == CallsInv /\ PendingInv /\ DataInv /\ ReadInv /\ [Next]_vars => ReadInv'
  <1> SUFFICES ASSUME CallsInv, PendingInv, DataInv, ReadInv, [Next]_vars PROVE ReadInv'
    OBVIOUS
  <1>0. ASSUME NEW t, Draw(page, t, Switch(t)) PROVE ReadInv'
    <2>1. PICK p, v : p = page /\ v = Switch(t)
      OBVIOUS
    <2> QED  BY <1>0, <2>1, SwitchRead, DrawRead
  <1>1. CASE UNCHANGED <<queries, screen>>
    BY <1>1, ReadSame DEF queries
  <1>2. ASSUME NEW t \in Tenants, SelectTenant(t) PROVE ReadInv'
    BY <1>0, <1>2 DEF SelectTenant, Show
  <1>3. ASSUME NEW p \in Pages, Navigate(p) PROVE ReadInv'
    <2>1. Draw(p, tenant, Fresh(p))
      BY <1>3 DEF Navigate, Show
    <2> QED  BY <2>1, FreshRead, DrawRead
  <1>4. CASE TuplesStep \/ ExplorerStep \/ SchemaStep
    <2>1. PageStep
      BY <1>4, TuplesSteps, ExplorerSteps, SchemaSteps
    <2>2. page' = page
      BY <2>1 DEF PageStep, Shows, Show, Draw, Call
    <2> QED  BY <1>4, <2>2 DEF TuplesStep, ExplorerStep, SchemaStep, ReadInv
  <1>5. CASE LoadMore
    BY <1>5, LoadMoreRead
  <1>6. CASE ReceiveTenants
    BY <1>0, <1>6 DEF ReceiveTenants
  <1>7. ASSUME NEW k \in Keys, Query(k) PROVE ReadInv'
    <2>1. CASE AnswerQuery(k) \/ EvictQuery(k)
      BY <2>1, ReadSame DEF AnswerQuery, Answer, EvictQuery, Evict
    <2>2. CASE ReceiveQuery(k) \/ FailQuery(k) \/ ReconnectQuery(k)
      <3>1. Draw(page, tenant, view)
        BY <2>2 DEF ReceiveQuery, FailQuery, ReconnectQuery
      <3> QED  BY <3>1, DrawRead DEF ReadInv
    <2> QED  BY <1>7, <2>1, <2>2 DEF Query
  <1>8. ASSUME NEW m \in mutations, Mutation(m) PROVE ReadInv'
    <2>1. CASE Refuse(m) \/ Perform(m) \/ Lose(m)
      BY <1>1, <2>1 DEF Refuse, Perform, Lose
    <2> QED  BY <1>8, <2>1, SettlesRead DEF Mutation, Settles
  <1>9. CASE \E load \in loads : FinishLoad(load)
    BY <1>1, <1>9 DEF FinishLoad
  <1>10. CASE RestartServer \/ \E t \in Tenants : \/ OtherWrites(t, Typed)
                                                  \/ \E doc \in Valid : OtherLoads(t, doc)
                                                  \/ OtherCreates(t)
    BY <1>1, <1>10 DEF RestartServer, OtherWrites, OtherLoads, OtherCreates, Other
  <1>11. CASE UNCHANGED vars
    BY <1>1, <1>11 DEF vars
  <1> QED  BY <1>2, <1>3, <1>4, <1>5, <1>6, <1>7, <1>8, <1>9, <1>10, <1>11 DEF Next

\* Initially.
LEMMA ReadInit == Init => ReadInv
  <1> SUFFICES ASSUME Init, page = "changelog" PROVE ReadInv
    BY DEF ReadInv
  <1>1. view = Fresh("changelog")
    BY DEF Init
  <1>2. Read(view) /\ view.sinceSeq = 0
    BY <1>1, FreshRead DEF Fresh
  <1>3. tenant \in Tenants /\ 0 \in 0..MaxLog
    BY ShellAssumption DEF Init
  <1>4. changelogKey(tenant, 0) \in Keys /\ changelogKey(tenant, 0) # tenantKey
    BY <1>3, KeysOf DEF changelogKey, tenantKey
  <1>5. cache[changelogKey(tenant, 0)] = NoData
    BY <1>4 DEF Init, InitQueries
  <1> QED  BY <1>2, <1>5 DEF ReadInv

\* ReadsOn, for logs and pages of any length: LoadMore passes over no entry,
\* whatever is cached, fetched again, failed, or lost in a restart.
THEOREM ChangelogIsReadOn == Spec => []ReadsOn
  <1>1. ReadInv => ReadsOn
    BY DEF ReadInv, Read, ReadsOn
  <1> QED  BY <1>1, CallsInit, CallsNext, PendingInit, PendingNext, MapsInit, MapsNext, DataInit, DataNext,
              ReadInit, ReadNext, PTL DEF Spec

-----------------------------------------------------------------------------
(* The names in filters, forms and tuples.                                 *)

Named(form) == \A f \in Fields : form[f] \in Names[f] \cup {NoWord}

NamesInv ==
    /\ page = "tuples" => view.filter \in Filters /\ Named(view.form)
    /\ stored \in [Tenants -> SUBSET Tuples]
    /\ \A m \in mutations : m.kind = "write" => m.arg \in Tuples

\* Filters are functions on the fields.
LEMMA FilterMember ==
  ASSUME NEW x
  PROVE  x \in Filters <=> /\ x = [f \in Fields |-> x[f]]
                           /\ \A f \in Fields : x[f] \in Filtered[f] \cup {NoWord}
  <1> DEFINE U == (UNION {Filtered[f] : f \in Fields}) \cup {NoWord}
  <1>1. ASSUME NEW f \in Fields PROVE Filtered[f] \cup {NoWord} \subseteq U
    <2>1. Filtered[f] \subseteq UNION {Filtered[g] : g \in Fields}
      OBVIOUS
    <2> QED  BY <2>1 DEF U
  <1>2. x \in Filters <=> x \in [Fields -> U] /\ \A f \in Fields : x[f] \in Filtered[f] \cup {NoWord}
    BY DEF Filters
  <1> HIDE DEF U
  <1> QED  BY <1>1, <1>2

\* The empty form, and the form that is typed.
LEMMA EmptyNamed == Empty \in Filters /\ Named(Empty)
  <1>1. Empty = [f \in Fields |-> Empty[f]] /\ \A f \in Fields : Empty[f] = NoWord
    BY DEF Empty
  <1> QED  BY <1>1, FilterMember DEF Named

\* The tuple that is there at the beginning has names in all fields.
LEMMA TypedTuple == Typed \in Tuples
  <1>1. \A f \in Fields : Typed[f] \in Names[f]
    BY NamesAssumption DEF Typed
  <1>2. Typed = [f \in Fields |-> Typed[f]]
    BY DEF Typed
  <1> QED  BY <1>1, <1>2 DEF Tuples

\* What the dialog offers are names.
LEMMA OfferedNamed ==
  ASSUME DataInv
  PROVE  /\ \A type \in typeNames : type \in Names["object_type"] /\ type \in Names["subject_type"]
         /\ \A type : relationsOf(type) \subseteq Names["relation"]
         /\ \A type, relation : allowedTypes(type, relation) \subseteq Names["subject_type"]
  <1>1. schema \in Valid \cup {NoSchema}
    BY DEF schema, DataInv, Fitting
  <1>2. typeNames # {} => schema \in Valid
    BY <1>1 DEF typeNames
  <1>3. \A type \in typeNames : schema \in Valid /\ type \in DOMAIN Relations[schema]
    BY <1>2 DEF typeNames
  <1>4. \A type \in typeNames : type \in Names["object_type"] /\ type \in Names["subject_type"]
    BY <1>3, NamesAssumption
  <1>5. ASSUME NEW type PROVE relationsOf(type) \subseteq Names["relation"]
    BY <1>3, NamesAssumption DEF relationsOf
  <1>6. ASSUME NEW type, NEW relation PROVE allowedTypes(type, relation) \subseteq Names["subject_type"]
    <2>1. CASE relation \in relationsOf(type) /\ Relations[schema][type][relation] # {}
      <3>1. type \in typeNames /\ relation \in DOMAIN Relations[schema][type]
        BY <2>1 DEF relationsOf
      <3>2. Relations[schema][type][relation] \subseteq Names["subject_type"]
        BY <1>3, <3>1, NamesAssumption
      <3> QED  BY <2>1, <3>2 DEF allowedTypes
    <2>2. CASE ~(relation \in relationsOf(type) /\ Relations[schema][type][relation] # {})
      <3>1. allowedTypes(type, relation) = typeNames
        BY <2>2 DEF allowedTypes
      <3> QED  BY <1>4, <3>1
    <2> QED  BY <2>1, <2>2
  <1> QED  BY <1>4, <1>5, <1>6

\* The components of the tuples page after a step.
LEMMA TuplesStepNamed ==
  ASSUME DataInv, FormInv, NamesInv, TuplesStep
  PROVE  \/ \E v : Do(v) /\ v.filter \in Filters /\ Named(v.form) /\ TuplesShape(v)
         \/ handleDelete \/ handleSubmit
  <1> DEFINE Goal == \E v : Do(v) /\ v.filter \in Filters /\ Named(v.form) /\ TuplesShape(v)
  <1>1. page = "tuples" /\ Fits(view) /\ view.filter \in Filters /\ Named(view.form)
    BY DEF TuplesStep, FormInv, NamesInv
  <1>2. ASSUME NEW v, Do(v), TuplesShape(v), v.form = view.form, v.filter \in Filters PROVE Goal
    BY <1>1, <1>2
  <1>3. ASSUME NEW field \in Fields, NEW word \in Filtered[field] \cup {NoWord}, updateFilter(field, word)
        PROVE  Goal
    <2>1. PICK x : x = [view.filter EXCEPT ![field] = word]
      OBVIOUS
    <2>2. x \in Filters
      <3>1. /\ view.filter = [f \in Fields |-> view.filter[f]]
            /\ \A f \in Fields : view.filter[f] \in Filtered[f] \cup {NoWord}
        BY <1>1, FilterMember
      <3>2. /\ x = [f \in Fields |-> x[f]]
            /\ \A f \in Fields : x[f] = IF f = field THEN word ELSE view.filter[f]
        BY <2>1, <3>1
      <3>3. \A f \in Fields : x[f] \in Filtered[f] \cup {NoWord}
        BY <3>1, <3>2
      <3> QED  BY <3>2, <3>3, FilterMember
    <2>3. PICK v : v = [view EXCEPT !.filter = x]
      OBVIOUS
    <2>4. TuplesShape(v) /\ v.form = view.form /\ v.filter = x
      BY <1>1, <2>3 DEF Fits, TuplesShape
    <2>5. Do(v)
      BY <1>3, <2>1, <2>3 DEF updateFilter
    <2> QED  BY <1>2, <2>2, <2>4, <2>5
  <1>4. ASSUME clearFilter PROVE Goal
    <2>1. PICK v : v = [view EXCEPT !.filter = Empty]
      OBVIOUS
    <2>2. TuplesShape(v) /\ v.form = view.form /\ v.filter = Empty
      BY <1>1, <2>1 DEF Fits, TuplesShape
    <2> QED  BY <1>2, <1>4, <2>1, <2>2, EmptyNamed DEF clearFilter
  <1>5. ASSUME NEW x, AskDelete(x) \/ (CancelDelete /\ x = None) PROVE Goal
    <2>1. PICK v : v = [view EXCEPT !.target = x]
      OBVIOUS
    <2>2. TuplesShape(v) /\ v.form = view.form /\ v.filter = view.filter
      BY <1>1, <2>1 DEF Fits, TuplesShape
    <2> QED  BY <1>1, <1>2, <1>5, <2>1, <2>2 DEF AskDelete, CancelDelete
  <1>6. ASSUME NEW open, SetOpen(open) PROVE Goal
    <2>1. PICK v : v = [view EXCEPT !.open = open]
      OBVIOUS
    <2>2. TuplesShape(v) /\ v.form = view.form /\ v.filter = view.filter
      BY <1>1, <2>1 DEF Fits, TuplesShape
    <2> QED  BY <1>1, <1>2, <1>6, <2>1, <2>2 DEF SetOpen
  <1>7. ASSUME NEW form, NEW fields, Do(Fill(form, fields)), form = [f \in Fields |-> form[f]], Named(form)
        PROVE  Goal
    <2>1. PICK v : v = Fill(form, fields)
      OBVIOUS
    <2>2. TuplesShape(v) /\ v.form = form /\ v.filter = view.filter
      BY <1>1, <1>7, <2>1, FilledShape
    <2> QED  BY <1>1, <1>7, <2>1, <2>2
  <1>8. view.form = [f \in Fields |-> view.form[f]]
    BY <1>1 DEF Fits, TuplesShape
  <1>9. ASSUME NEW type, SelectObjectType(type) PROVE Goal
    <2>1. PICK relation, subject, form :
             /\ relation = Sole(relationsOf(type))
             /\ subject = IF relation = NoWord THEN NoWord ELSE Sole(allowedTypes(type, relation))
             /\ form = [object_type |-> type, relation |-> relation, subject_type |-> subject]
      OBVIOUS
    <2>2. type \in typeNames /\ Do(Fill(form, Fields))
      BY <1>9, <2>1 DEF SelectObjectType
    <2>3. relation \in Names["relation"] \cup {NoWord} /\ subject \in Names["subject_type"] \cup {NoWord}
      BY <2>1, SoleMember, OfferedNamed
    <2>4. type \in Names["object_type"]
      BY <2>2, OfferedNamed
    <2>5. form = [f \in Fields |-> form[f]]
      BY <2>1 DEF Fields
    <2>6. form["object_type"] = type /\ form["relation"] = relation /\ form["subject_type"] = subject
      BY <2>1
    <2>7. Named(form)
      BY <2>3, <2>4, <2>6 DEF Named, Fields
    <2> QED  BY <1>7, <2>2, <2>5, <2>7
  <1>10. ASSUME NEW relation, SelectRelation(relation) PROVE Goal
    <2>1. PICK subject, form :
             /\ subject = Sole(allowedTypes(view.form.object_type, relation))
             /\ form = [view.form EXCEPT !.relation = relation, !.subject_type = subject]
      OBVIOUS
    <2>2. relation \in relationsOf(view.form.object_type) /\ Do(Fill(form, {"relation", "subject_type"}))
      BY <1>10, <2>1 DEF SelectRelation, relationsForType
    <2>3. relation \in Names["relation"] /\ subject \in Names["subject_type"] \cup {NoWord}
      BY <2>1, <2>2, SoleMember, OfferedNamed
    <2>4. /\ form = [f \in Fields |-> form[f]]
          /\ form["object_type"] = view.form["object_type"]
          /\ form["relation"] = relation /\ form["subject_type"] = subject
      BY <1>8, <2>1 DEF Fields
    <2>5. Named(form)
      BY <1>1, <2>3, <2>4 DEF Named, Fields
    <2> QED  BY <1>7, <2>2, <2>4, <2>5
  <1>11. ASSUME NEW subject, SelectSubjectType(subject) PROVE Goal
    <2>1. PICK form : form = [view.form EXCEPT !.subject_type = subject]
      OBVIOUS
    <2>2. /\ subject \in allowedTypes(view.form.object_type, view.form.relation)
          /\ Do(Fill(form, {"subject_type"}))
      BY <1>11, <2>1 DEF SelectSubjectType, subjectTypesForRelation
    <2>3. subject \in Names["subject_type"]
      BY <2>2, OfferedNamed
    <2>4. /\ form = [f \in Fields |-> form[f]]
          /\ \A f \in Fields : form[f] = IF f = "subject_type" THEN subject ELSE view.form[f]
      BY <1>8, <2>1 DEF Fields
    <2>5. Named(form)
      BY <1>1, <2>3, <2>4 DEF Named
    <2> QED  BY <1>7, <2>2, <2>4, <2>5
  <1>12. ASSUME NEW field \in Fields, NEW word \in Words[field] \cup {NoWord}, updateField(field, word)
         PROVE  Goal
    <2>1. PICK form : form = [view.form EXCEPT ![field] = word]
      OBVIOUS
    <2>2. Do(Fill(form, {field}))
      BY <1>12, <2>1 DEF updateField
    <2>3. word \in Names[field] \cup {NoWord}
      BY NamesAssumption
    <2>4. /\ form = [f \in Fields |-> form[f]]
          /\ \A f \in Fields : form[f] = IF f = field THEN word ELSE view.form[f]
      BY <1>8, <2>1
    <2>5. Named(form)
      BY <1>1, <2>3, <2>4 DEF Named
    <2> QED  BY <1>7, <2>2, <2>4, <2>5
  <1> HIDE DEF Goal
  <1>13. Goal \/ handleDelete \/ handleSubmit
    <2>1. CASE \E x \in Rows : AskDelete(x)
      BY <1>5, <2>1
    <2>2. CASE CancelDelete
      BY <1>5, <2>2
    <2>3. CASE \E field \in Fields : \/ \E word \in Filtered[field] \cup {NoWord} : updateFilter(field, word)
                                     \/ \E word \in Words[field] \cup {NoWord} : updateField(field, word)
      BY <1>3, <1>12, <2>3
    <2>4. CASE \E open \in BOOLEAN : SetOpen(open)
      BY <1>6, <2>4
    <2>5. CASE \/ \E type \in typeNames : SelectObjectType(type)
               \/ \E relation \in relationsForType : SelectRelation(relation)
               \/ \E type \in subjectTypesForRelation : SelectSubjectType(type)
      BY <1>9, <1>10, <1>11, <2>5
    <2>6. CASE clearFilter
      BY <1>4, <2>6
    <2>7. CASE handleDelete \/ handleSubmit
      BY <2>7
    <2> QED  BY <2>1, <2>2, <2>3, <2>4, <2>5, <2>6, <2>7, Zenon DEF TuplesStep
  <1> QED  BY <1>13 DEF Goal

\* Rendering leaves the filter and the form alone.
LEMMA RenderNamed ==
  ASSUME NEW t, NEW v, NEW w, TuplesShape(v), w = Render("tuples", t, v)
  PROVE  w.filter = v.filter /\ w.form = v.form
  <1>1. PICK deletes : deletes = Ids("delete")
    OBVIOUS
  <1>2. w = v \/ w = [v EXCEPT !.target = None, !.pending = @ \ deletes]
    BY <1>1 DEF Render, RenderTuples
  <1> QED  BY <1>2 DEF TuplesShape

\* The components of the tuples page have names only.
WithNames(v) == TuplesShape(v) /\ v.filter \in Filters /\ Named(v.form)

\* The page is drawn.
LEMMA DrawNamed ==
  ASSUME NEW p, NEW t, NEW v, Draw(p, t, v), p = "tuples" => WithNames(v), page' = "tuples"
  PROVE  view'.filter \in Filters /\ Named(view'.form)
  <1>1. PICK w : w = view'
    OBVIOUS
  <1>2. w = Render("tuples", t, v) /\ WithNames(v)
    BY <1>1 DEF Draw
  <1>3. w.filter = v.filter /\ w.form = v.form
    BY <1>2, RenderNamed DEF WithNames
  <1> QED  BY <1>1, <1>2, <1>3 DEF WithNames

\* A call ends.
LEMMA SettleNamed ==
  ASSUME NEW m, NEW keys, NEW missed, NEW v, Settle(m, keys, missed, v), WithNames(v), page = "tuples"
  PROVE  view'.filter \in Filters /\ Named(view'.form)
  <1>1. PICK u, w : u = [v EXCEPT !.pending = @ \ {m.id}] /\ w = view'
    OBVIOUS
  <1>2. TuplesShape(u) /\ u.form = v.form /\ u.filter = v.filter
    BY <1>1 DEF WithNames, TuplesShape
  <1>3. w = Render("tuples", tenant, u)
    BY <1>1 DEF Settle
  <1>4. w.filter = u.filter /\ w.form = u.form
    BY <1>2, <1>3, RenderNamed
  <1> QED  BY <1>1, <1>2, <1>4 DEF WithNames

\* The components after the end of a call.
LEMMA SettlesNamed ==
  ASSUME NEW m \in mutations, PendingInv, FormInv, NamesInv, Settles(m), page = "tuples"
  PROVE  view'.filter \in Filters /\ Named(view'.form)
  <1>1. WithNames(view)
    BY DEF FormInv, Fits, NamesInv, WithNames
  <1>2. CASE SettleRefused(m) \/ SaveSucceeds(m)
    BY <1>1, <1>2, SettleNamed DEF SettleRefused, SaveSucceeds
  <1>3. CASE DeleteSucceeds(m)
    <2>1. PICK v : v = IF m.id \in view.pending THEN [view EXCEPT !.target = None] ELSE view
      OBVIOUS
    <2>2. TuplesShape(v) /\ v.form = view.form /\ v.filter = view.filter
      BY <1>1, <2>1 DEF WithNames, TuplesShape
    <2>3. WithNames(v)
      BY <1>1, <2>2 DEF WithNames
    <2> QED  BY <1>3, <2>1, <2>3, SettleNamed DEF DeleteSucceeds
  <1>4. CASE WriteSucceeds(m)
    <2>1. PICK none : none = [f \in Fields |-> NoSchema]
      OBVIOUS
    <2>2. PICK v : v = IF m.id \in view.pending
                       THEN [view EXCEPT !.open = FALSE, !.form = Empty, !.under = none]
                       ELSE view
      OBVIOUS
    <2>3. CASE m.id \in view.pending
      <3>1. view = [filter |-> view.filter, target |-> view.target, open |-> view.open, form |-> view.form,
                    under |-> view.under, pending |-> view.pending]
        BY <1>1 DEF WithNames, TuplesShape
      <3>2. /\ v.form = Empty /\ v.under = none /\ v.filter = view.filter
            /\ v = [filter |-> v.filter, target |-> v.target, open |-> v.open, form |-> v.form,
                    under |-> v.under, pending |-> v.pending]
        BY <2>2, <2>3, <3>1
      <3>3. Empty = [f \in Fields |-> Empty[f]] /\ none = [f \in Fields |-> none[f]]
        BY <2>1 DEF Empty
      <3>4. WithNames(v)
        BY <1>1, <3>2, <3>3, EmptyNamed DEF WithNames, TuplesShape
      <3> QED  BY <1>4, <2>1, <2>2, <3>4, SettleNamed DEF WriteSucceeds
    <2>4. CASE m.id \notin view.pending
      BY <1>1, <1>4, <2>4, SettleNamed DEF WriteSucceeds
    <2> QED  BY <2>3, <2>4
  <1>5. CASE ExpandSucceeds(m) \/ CheckEnds(m)
    <2>1. m.kind \notin {"write", "delete"}
      BY <1>5 DEF ExpandSucceeds, CheckEnds
    <2>2. m.id \notin view.pending
      BY <2>1 DEF PendingInv, WaitsForOwn, Kinds
    <2>3. Settle(m, {}, {}, view)
      BY <1>5, <2>2 DEF ExpandSucceeds, CheckEnds
    <2> QED  BY <1>1, <2>3, SettleNamed
  <1> QED  BY <1>2, <1>3, <1>4, <1>5 DEF Settles

\* What is sent for writing was in the form.
LEMMA SubmitNamed == ASSUME WithNames(view), isValid PROVE view.form \in Tuples
  <1>1. view.form = [f \in Fields |-> view.form[f]] /\ \A f \in Fields : view.form[f] \in Names[f]
    BY DEF WithNames, TuplesShape, Named, isValid
  <1> QED  BY <1>1 DEF Tuples

\* A step carries the calls on or makes one.
CallStep ==
    \E kind, arg, v : /\ Call(kind, arg, v) /\ kind \in Kinds(page)
                      /\ kind = "write" => arg = view.form /\ isValid

\* Every step is one or the other.
LEMMA StepCarries == CallsInv /\ [Next]_vars => CallsCarried \/ CallStep
  <1> SUFFICES ASSUME CallsInv, [Next]_vars PROVE CallsCarried \/ CallStep
    OBVIOUS
  <1>1. ASSUME NEW t \in Tenants, SelectTenant(t) PROVE CallsCarried
    <2>1. Shows(page, t, Switch(t))
      BY <1>1, BudgetSteps DEF SelectTenant, Shows, CallsInv, Step
    <2> QED  BY <2>1, ShowsCarried
  <1>2. ASSUME NEW p \in Pages, Navigate(p) PROVE CallsCarried
    <2>1. Shows(p, tenant, Fresh(p))
      BY <1>2, BudgetSteps DEF Navigate, Shows, CallsInv
    <2> QED  BY <2>1, ShowsCarried
  <1>3. CASE LoadMore \/ ExplorerStep \/ SchemaStep
    <2>1. PageStep
      BY <1>3, ChangelogSteps, ExplorerSteps, SchemaSteps
    <2>2. page \in {"changelog", "explorer", "schema"}
      BY <1>3 DEF LoadMore, ExplorerStep, SchemaStep
    <2>3. "write" \notin Kinds(page)
      BY <2>2 DEF Kinds
    <2> QED  BY <2>1, <2>3, ShowsCarried DEF PageStep, CallStep
  <1>4. CASE TuplesStep
    <2>1. CASE handleDelete \/ handleSubmit
      <3>1. {"write", "delete"} \subseteq Kinds(page)
        BY <1>4 DEF TuplesStep, Kinds
      <3> QED  BY <2>1, <3>1 DEF handleDelete, handleSubmit, CallStep
    <2>2. CASE ~(handleDelete \/ handleSubmit)
      <3>1. left'.calls = left.calls
        <4>1. Step
          BY <1>4, <2>2 DEF TuplesStep, updateFilter, updateField, clearFilter, AskDelete, CancelDelete,
            SetOpen, SelectObjectType, SelectRelation, SelectSubjectType, Do
        <4> QED  BY <4>1, BudgetSteps DEF CallsInv
      <3>2. PageStep
        BY <1>4, TuplesSteps
      <3>3. ASSUME NEW kind, NEW arg, NEW v, Call(kind, arg, v) PROVE FALSE
        BY <3>1, <3>3, CallMade DEF CallsInv, Lefts
      <3> QED  BY <3>2, <3>3, ShowsCarried DEF PageStep
    <2> QED  BY <2>1, <2>2
  <1>5. CASE ReceiveTenants
    BY <1>5, ReceiveTenantsCarried
  <1>6. CASE \E k \in Keys : Query(k)
    BY <1>6, QueryCarried
  <1>7. CASE \E m \in mutations : Mutation(m)
    BY <1>7, MutationCarried
  <1>8. CASE \E load \in loads : FinishLoad(load)
    BY <1>8, FinishCarried
  <1>9. CASE RestartServer \/ \E t \in Tenants : \/ OtherWrites(t, Typed)
                                                 \/ \E doc \in Valid : OtherLoads(t, doc)
                                                 \/ OtherCreates(t)
    BY <1>9, OthersCarried
  <1>10. CASE UNCHANGED vars
    BY <1>10, FewerCarried DEF vars, bounds, CallsInv
  <1> QED  BY <1>1, <1>2, <1>3, <1>4, <1>5, <1>6, <1>7, <1>8, <1>9, <1>10 DEF Next

\* Every step: the calls.
LEMMA WritesNamed ==
  ASSUME CallsInv, FormInv, NamesInv, PendingInv, CallsCarried \/ CallStep
  PROVE  \A n \in mutations' : n.kind = "write" => n.arg \in Tuples
  <1>1. CASE CallsCarried
    BY <1>1 DEF CallsCarried, SameCall, NamesInv
  <1>2. CASE CallStep
    <2>1. PICK kind, arg, v : /\ Call(kind, arg, v) /\ kind \in Kinds(page)
                              /\ kind = "write" => arg = view.form /\ isValid
      BY <1>2 DEF CallStep
    <2>2. kind = "write" => arg \in Tuples
      <3> SUFFICES ASSUME kind = "write" PROVE view.form \in Tuples
        BY <2>1
      <3>1. page = "tuples"
        BY <2>1 DEF Kinds
      <3>2. WithNames(view)
        BY <3>1 DEF FormInv, Fits, NamesInv, WithNames
      <3> QED  BY <2>1, <3>2, SubmitNamed
    <2>3. PICK c : c = [id |-> left.calls, kind |-> kind, tenant |-> tenant, hook |-> tenant, arg |-> arg,
                        at |-> "sent", result |-> None]
      OBVIOUS
    <2>4. mutations' = mutations \cup {c} /\ c.kind = kind /\ c.arg = arg
      BY <2>1, <2>3 DEF Call
    <2> QED  BY <2>2, <2>4 DEF NamesInv
  <1> QED  BY <1>1, <1>2

\* Every step: the components.
LEMMA PageNamed ==
  ASSUME CallsInv, PendingInv, DataInv, FormInv, NamesInv, [Next]_vars, page' = "tuples"
  PROVE  view'.filter \in Filters /\ Named(view'.form)
  <1> DEFINE Goal == view'.filter \in Filters /\ Named(view'.form)
  <1> HIDE DEF Goal
  <1> SUFFICES Goal
    BY DEF Goal
  <1>1. page = "tuples" => WithNames(view)
    BY DEF FormInv, Fits, NamesInv, WithNames
  <1>2. ASSUME NEW p, NEW t, NEW v, Draw(p, t, v), p = "tuples" => WithNames(v) PROVE Goal
    BY <1>2, DrawNamed DEF Goal
  <1>3. CASE UNCHANGED screen
    BY <1>1, <1>3 DEF screen, WithNames, Goal
  <1>4. ASSUME NEW t, Draw(page, t, Switch(t)) PROVE Goal
    <2>1. page = "tuples" => Switch(t) = view
      BY DEF Switch
    <2>2. PICK p, v : p = page /\ v = Switch(t)
      OBVIOUS
    <2> QED  BY <1>1, <1>2, <1>4, <2>1, <2>2
  <1>5. ASSUME NEW t \in Tenants, SelectTenant(t) PROVE Goal
    BY <1>4, <1>5 DEF SelectTenant, Show
  <1>6. ASSUME NEW p \in Pages, Navigate(p) PROVE Goal
    <2>1. Draw(p, tenant, Fresh(p))
      BY <1>6 DEF Navigate, Show
    <2>2. PICK v : v = Fresh(p)
      OBVIOUS
    <2>3. p = "tuples" => Fits(v) /\ v.filter = Empty /\ v.form = Empty
      BY <2>2, FreshFits DEF Fresh
    <2>4. p = "tuples" => WithNames(v)
      BY <2>3, EmptyNamed DEF WithNames, Fits
    <2> QED  BY <1>2, <2>1, <2>2, <2>4
  <1>7. CASE LoadMore \/ ExplorerStep \/ SchemaStep
    <2>1. PageStep
      BY <1>7, ChangelogSteps, ExplorerSteps, SchemaSteps
    <2>2. page' = page
      BY <2>1 DEF PageStep, Shows, Show, Draw, Call
    <2> QED  BY <1>7, <2>2 DEF LoadMore, ExplorerStep, SchemaStep
  <1>8. CASE TuplesStep
    <2>1. ASSUME NEW v, Do(v), v.filter \in Filters, Named(v.form), TuplesShape(v) PROVE Goal
      BY <1>2, <2>1 DEF Do, Show, WithNames
    <2>2. CASE handleDelete \/ handleSubmit
      <3>1. PICK n : n = left.calls
        OBVIOUS
      <3>2. view' = [view EXCEPT !.pending = @ \cup {n}] /\ page' = page
        BY <2>2, <3>1 DEF handleDelete, handleSubmit, Call
      <3>3. view'.form = view.form /\ view'.filter = view.filter
        BY <1>1, <3>2 DEF WithNames, TuplesShape
      <3> QED  BY <1>1, <3>2, <3>3 DEF WithNames, Goal
    <2> QED  BY <1>8, <2>1, <2>2, TuplesStepNamed
  <1>9. CASE ReceiveTenants
    BY <1>4, <1>9 DEF ReceiveTenants
  <1>10. ASSUME NEW k \in Keys, Query(k) PROVE Goal
    <2>1. CASE AnswerQuery(k) \/ EvictQuery(k)
      BY <1>3, <2>1 DEF AnswerQuery, EvictQuery
    <2>2. CASE ReceiveQuery(k) \/ FailQuery(k) \/ ReconnectQuery(k)
      <3>1. Draw(page, tenant, view)
        BY <2>2 DEF ReceiveQuery, FailQuery, ReconnectQuery
      <3> QED  BY <1>1, <1>2, <3>1
    <2> QED  BY <1>10, <2>1, <2>2 DEF Query
  <1>11. ASSUME NEW m \in mutations, Mutation(m) PROVE Goal
    <2>1. CASE Refuse(m) \/ Perform(m) \/ Lose(m)
      BY <1>3, <2>1 DEF Refuse, Perform, Lose
    <2>2. CASE Settles(m)
      <3>1. page' = page
        BY <2>2 DEF Settles, SettleRefused, WriteSucceeds, DeleteSucceeds, ExpandSucceeds, SaveSucceeds,
          CheckEnds, Settle
      <3> QED  BY <2>2, <3>1, SettlesNamed DEF Goal
    <2> QED  BY <1>11, <2>1, <2>2 DEF Mutation, Settles
  <1>12. CASE \E load \in loads : FinishLoad(load)
    BY <1>3, <1>12 DEF FinishLoad
  <1>13. CASE RestartServer \/ \E t \in Tenants : \/ OtherWrites(t, Typed)
                                                  \/ \E doc \in Valid : OtherLoads(t, doc)
                                                  \/ OtherCreates(t)
    BY <1>3, <1>13 DEF RestartServer, OtherWrites, OtherLoads, OtherCreates, Other
  <1>14. CASE UNCHANGED vars
    BY <1>3, <1>14 DEF vars
  <1> QED  BY <1>5, <1>6, <1>7, <1>8, <1>9, <1>10, <1>11, <1>12, <1>13, <1>14 DEF Next

\* Every step: the tuples of the service.
LEMMA StoredNamed ==
  ASSUME CallsInv, MapsInv, NamesInv, [Next]_vars
  PROVE  stored' \in [Tenants -> SUBSET Tuples]
  <1>0. stored \in [Tenants -> SUBSET Tuples]
    BY DEF NamesInv
  <1>1. CASE UNCHANGED stored
    BY <1>0, <1>1
  <1> USE DEF service
  <1>2. CASE (\E t \in Tenants : SelectTenant(t)) \/ ReceiveTenants
    BY <1>1, <1>2 DEF SelectTenant, Show, ReceiveTenants
  <1>3. CASE TuplesStep \/ LoadMore \/ ExplorerStep \/ SchemaStep \/ \E p \in Pages : Navigate(p)
    BY <1>1, <1>3, UserKeepsTenant
  <1>4. CASE \E k \in Keys : Query(k)
    BY <1>1, <1>4 DEF Query, ReceiveQuery, AnswerQuery, FailQuery, ReconnectQuery, EvictQuery
  <1>5. ASSUME NEW m \in mutations, Mutation(m) PROVE stored' \in [Tenants -> SUBSET Tuples]
    <2>1. CASE Settles(m)
      <3>1. UNCHANGED stored
        BY <2>1 DEF Settles, SettleRefused, WriteSucceeds, DeleteSucceeds, ExpandSucceeds, SaveSucceeds,
          CheckEnds, Settle
      <3> QED  BY <1>1, <3>1
    <2>2. CASE Perform(m)
      <3>1. m.tenant \in Tenants
        BY <2>2 DEF Perform, accepts, MapsInv, MapsShape
      <3>2. CASE m.kind = "write" /\ Store(m.tenant, stored[m.tenant] \cup {m.arg})
        <4>1. m.arg \in Tuples
          BY <3>2 DEF NamesInv
        <4> QED  BY <1>0, <3>1, <3>2, <4>1 DEF Store
      <3>3. CASE Store(m.tenant, stored[m.tenant] \ {m.arg})
        BY <1>0, <3>1, <3>3 DEF Store
      <3> QED  BY <1>1, <2>2, <3>2, <3>3 DEF Perform
    <2>3. CASE Refuse(m) \/ Lose(m)
      BY <1>1, <2>3 DEF Refuse, Lose
    <2> QED  BY <1>5, <2>1, <2>2, <2>3 DEF Mutation, Settles
  <1>6. CASE \E load \in loads : FinishLoad(load)
    BY <1>1, <1>6 DEF FinishLoad
  <1>7. ASSUME NEW t \in Tenants, OtherWrites(t, Typed) PROVE stored' \in [Tenants -> SUBSET Tuples]
    <2>1. PICK x : x \in Tuples /\ OtherWrites(t, x)
      BY <1>7, TypedTuple
    <2> QED  BY <1>0, <2>1 DEF OtherWrites, Store
  <1>8. ASSUME NEW t \in Tenants, OtherCreates(t) \/ \E doc \in Valid : OtherLoads(t, doc)
        PROVE  stored' \in [Tenants -> SUBSET Tuples]
    BY <1>1, <1>8 DEF OtherLoads, OtherCreates
  <1>9. CASE RestartServer
    BY <1>9 DEF RestartServer
  <1>10. CASE UNCHANGED vars
    BY <1>1, <1>10 DEF vars
  <1> QED  BY <1>2, <1>3, <1>4, <1>5, <1>6, <1>7, <1>8, <1>9, <1>10 DEF Next

\* Initially.
LEMMA NamesInit == Init => NamesInv
  <1> SUFFICES ASSUME Init PROVE NamesInv
    OBVIOUS
  <1>1. page = "tuples" => view.filter = Empty /\ view.form = Empty
    BY DEF Init, Fresh
  <1>2. stored \in [Tenants -> SUBSET Tuples]
    <2>1. PICK x : x = Typed /\ x \in Tuples
      BY TypedTuple
    <2> QED  BY <2>1 DEF Init
  <1> QED  BY <1>1, <1>2, EmptyNamed DEF Init, NamesInv

\* Every step.
LEMMA NamesNext == CallsInv /\ PendingInv /\ MapsInv /\ DataInv /\ FormInv /\ NamesInv /\ [Next]_vars => NamesInv'
  BY StepCarries, WritesNamed, PageNamed, StoredNamed DEF NamesInv, Named

-----------------------------------------------------------------------------
(* The screen and the service.                                             *)

\* The keys of tuples and schemas, which the hooks invalidate.
SchemaKeys == {schemaKey(t) : t \in Tenants}
DataKeys == TupleLists \cup SchemaKeys

\* A call changed what is behind a key, and has not ended.
Untold(k) ==
    \E m \in mutations :
        \/ k \in TupleLists /\ m.kind \in {"write", "delete"} /\ m.at = "ok"
        \/ k = schemaKey(m.tenant) /\ m.kind = "save" /\ m.at \in {"loading", "ok"}

\* While nothing is lost, what was once answered is there, and a key that
\* was invalidated is being fetched when it is on the screen.
Grounded(k) ==
    /\ cache[k] # NoData => Served(k) # NoData
    /\ request[k].at = "answered" /\ request[k].data # NoData => Served(k) # NoData
    /\ request[k].at = "answered" /\ cache[k] # NoData => request[k].data # NoData
    /\ k \in stale => cache[k] # NoData
    /\ request[k] = Idle /\ k \in stale => k \notin Current

\* An answer, and data that are not being fetched or to be fetched, are what
\* the service has.
Agrees(k) ==
    /\ request[k].at = "answered" => request[k].data = Served(k)
    /\ request[k] = Idle /\ cache[k] # NoData /\ k \notin stale => cache[k] = Served(k)
    /\ request[k] = Idle /\ cache[k] = NoData /\ k \in Current => Served(k) = NoData

Coherent(k) == k \in overtaken \/ Untold(k) \/ Agrees(k)
Sound(k) == Grounded(k) /\ Coherent(k)

\* A load that is between its two writes belongs to a call of the console.
LoadsOwned ==
    /\ \A load \in loads : \E m \in mutations :
          m.id = load.id /\ m.kind = "save" /\ m.tenant = load.tenant /\ m.at = "loading"
    /\ \A a, b \in loads : a.id = b.id => a = b

QuietInv == quiet => LoadsOwned /\ \A k \in DataKeys : Sound(k)

\* Requests that are idle, sent and answered are different.
LEMMA RequestsDiffer == Sent.at = "sent" /\ Idle.at = "idle" /\ Sent # Idle
  BY DEF Sent, Idle

\* Data keys.
LEMMA DataKeysOf ==
  ASSUME NEW k \in DataKeys
  PROVE  /\ k \in Keys /\ k # tenantKey /\ \A t, n : k # changelogKey(t, n)
         /\ k[1] \in {"tuples", "schema"}
  <1>1. ASSUME NEW t \in Tenants, NEW x \in Filters, k = tupleKey(t, x)
        PROVE  k[1] = "tuples" /\ k # tenantKey /\ \A u, n : k # changelogKey(u, n)
    BY <1>1 DEF tupleKey, tenantKey, changelogKey
  <1>2. ASSUME NEW t \in Tenants, k = schemaKey(t)
        PROVE  k[1] = "schema" /\ k # tenantKey /\ \A u, n : k # changelogKey(u, n)
    BY <1>2 DEF schemaKey, tenantKey, changelogKey
  <1>3. k \in Keys
    BY DEF DataKeys, SchemaKeys, Keys
  <1> QED  BY <1>1, <1>2, <1>3 DEF DataKeys, SchemaKeys, TupleLists

\* The lists of tuples are not schemas.
LEMMA ListsAreNoSchemas == \A t : schemaKey(t) \notin TupleLists
  BY DEF TupleLists, tupleKey, schemaKey

\* What the service answers.
LEMMA ServedTuples ==
  ASSUME NEW t, NEW x
  PROVE  /\ Served(tupleKey(t, x)) = IF t \notin existing THEN NoData ELSE {y \in stored[t] : matches(y, x)}
         /\ Served(tupleKey(t, x))' =
               IF t \notin existing' THEN NoData ELSE {y \in stored'[t] : matches(y, x)}
  <1>1. tupleKey(t, x)[1] = "tuples" /\ tupleKey(t, x)[2] = t /\ tupleKey(t, x)[3] = x
    BY DEF tupleKey
  <1>2. PICK k : k = tupleKey(t, x)
    OBVIOUS
  <1>3. k[1] = "tuples" /\ k[2] = t /\ k[3] = x
    BY <1>1, <1>2
  <1>4. Served(k) = IF t \notin existing THEN NoData ELSE {y \in stored[t] : matches(y, x)}
    BY <1>3 DEF Served
  <1>5. Served(k)' = IF t \notin existing' THEN NoData ELSE {y \in stored'[t] : matches(y, x)}
    BY <1>3 DEF Served
  <1> QED  BY <1>2, <1>4, <1>5
\* The same for a schema.
LEMMA ServedSchema ==
  ASSUME NEW t
  PROVE  /\ Served(schemaKey(t)) = IF registry[t] = NoSchema THEN NoData ELSE registry[t]
         /\ Served(schemaKey(t))' = IF registry'[t] = NoSchema THEN NoData ELSE registry'[t]
  <1>1. PICK k : k = schemaKey(t)
    OBVIOUS
  <1>2. k[1] = "schema" /\ k[2] = t
    BY <1>1 DEF schemaKey
  <1>3. Served(k) = IF registry[t] = NoSchema THEN NoData ELSE registry[t]
    BY <1>2 DEF Served, handleGetSchema
  <1>4. Served(k)' = IF registry'[t] = NoSchema THEN NoData ELSE registry'[t]
    BY <1>2 DEF Served, handleGetSchema
  <1> QED  BY <1>1, <1>3, <1>4

\* Nothing changes behind a key.
LEMMA ServedSame ==
  ASSUME NEW k \in DataKeys, UNCHANGED <<existing, stored, registry>> PROVE Served(k)' = Served(k)
  <1>1. ASSUME NEW t, NEW x, k = tupleKey(t, x) PROVE Served(k)' = Served(k)
    BY <1>1, ServedTuples
  <1>2. ASSUME NEW t, k = schemaKey(t) PROVE Served(k)' = Served(k)
    BY <1>2, ServedSchema
  <1> QED  BY <1>1, <1>2 DEF DataKeys, SchemaKeys, TupleLists

\* The data keys on the screen.
LEMMA DataOnScreen ==
  ASSUME NEW k \in DataKeys, NEW p, NEW t, NEW v
  PROVE  k \in OnScreen(p, t, v) <=>
            \/ p = "tuples" /\ k \in {tupleKey(t, v.filter), schemaKey(t)}
            \/ p = "schema" /\ k = schemaKey(t)
  <1>1. k # tenantKey /\ k # changelogKey(t, v.sinceSeq)
    BY DataKeysOf
  <1>2. CASE p = "tuples"
    BY <1>1, <1>2 DEF OnScreen
  <1>3. CASE p = "changelog"
    BY <1>1, <1>3 DEF OnScreen
  <1>4. CASE p = "schema"
    BY <1>1, <1>4 DEF OnScreen
  <1>5. CASE p \notin {"tuples", "changelog", "schema"}
    BY <1>1, <1>5 DEF OnScreen
  <1> QED  BY <1>2, <1>3, <1>4, <1>5

\* A key about which nothing changes, or that goes off the screen.
LEMMA SoundSame ==
  ASSUME NEW k, Sound(k), cache'[k] = cache[k], request'[k] = request[k], k \in stale' <=> k \in stale,
         k \in overtaken => k \in overtaken', k \in Current' => k \in Current,
         Untold(k) => Untold(k)', Served(k)' = Served(k)
  PROVE  Sound(k)'
  BY DEF Sound, Grounded, Coherent, Agrees, Idle

\* A key whose data change, by a call that has not ended.
LEMMA SoundUntold ==
  ASSUME NEW k, Sound(k), cache'[k] = cache[k], request'[k] = request[k], k \in stale' <=> k \in stale,
         k \in Current' => k \in Current, Untold(k)', Served(k) # NoData => Served(k)' # NoData
  PROVE  Sound(k)'
  BY DEF Sound, Grounded, Coherent, Idle

\* A key that may come on the screen, and be fetched then.
LEMMA SoundAsked ==
  ASSUME NEW k, NEW new, NEW fetched, Sound(k), cache'[k] = cache[k], k \in stale' <=> k \in stale,
         request'[k] = IF k \in fetched THEN Sent ELSE request[k],
         k \in overtaken' <=> k \in overtaken /\ k \notin fetched,
         k \in new /\ k \notin fetched => request[k] # Idle \/ (cache[k] # NoData /\ k \notin stale),
         k \in Current' => k \in new \/ k \in Current,
         Untold(k) => Untold(k)', Served(k)' = Served(k)
  PROVE  Sound(k)'
  <1>1. CASE k \in fetched
    <2>1. request'[k] = Sent /\ request'[k].at = "sent" /\ request'[k] # Idle
      BY <1>1, RequestsDiffer
    <2> QED  BY <2>1 DEF Sound, Grounded, Coherent, Agrees, Idle
  <1>2. CASE k \notin fetched
    BY <1>2 DEF Sound, Grounded, Coherent, Agrees, Idle
  <1> QED  BY <1>1, <1>2

\* The answer to a key arrives.
LEMMA SoundReceived ==
  ASSUME NEW k, Sound(k), request[k].at = "answered", request'[k] = Idle,
         cache'[k] = IF request[k].data # NoData THEN request[k].data ELSE cache[k],
         k \in stale' <=> k \in stale /\ request[k].data = NoData,
         k \in overtaken => k \in overtaken',
         Untold(k) => Untold(k)', Served(k)' = Served(k)
  PROVE  Sound(k)'
  <1>1. request'[k] = Idle /\ request'[k].at = "idle"
    BY RequestsDiffer
  <1>2. CASE request[k].data # NoData
    BY <1>1, <1>2 DEF Sound, Grounded, Coherent, Agrees, Idle
  <1>3. CASE request[k].data = NoData
    <2>1. cache[k] = NoData /\ k \notin stale
      BY <1>3 DEF Sound, Grounded
    <2> QED  BY <1>1, <1>3, <2>1 DEF Sound, Grounded, Coherent, Agrees, Idle
  <1> QED  BY <1>2, <1>3

\* A key is answered.
LEMMA SoundAnswered ==
  ASSUME NEW k, Sound(k), request'[k] = [at |-> "answered", data |-> Served(k)],
         cache'[k] = cache[k], k \in stale' <=> k \in stale,
         Served(k)' = Served(k)
  PROVE  Sound(k)'
  <1>1. request'[k].at = "answered" /\ request'[k].data = Served(k) /\ request'[k] # Idle
    BY DEF Idle
  <1> QED  BY <1>1 DEF Sound, Grounded, Coherent, Agrees, Idle

\* The data of a key that is not on the screen are dropped.
LEMMA SoundEvicted ==
  ASSUME NEW k, Sound(k), request[k] = Idle, request'[k] = Idle, cache'[k] = NoData, k \notin stale',
         k \notin Current', Served(k)' = Served(k)
  PROVE  Sound(k)'
  <1>1. request'[k] = Idle /\ request'[k].at = "idle"
    BY RequestsDiffer
  <1> QED  BY <1>1 DEF Sound, Grounded, Coherent, Agrees, Idle

\* A call ends, and tells the key or misses it.
LEMMA SoundTold ==
  ASSUME NEW k \in Keys, NEW keys, NEW missed, Sound(k), DataInv, Invalidate(keys, missed, Current),
         k \in keys \cup missed, k \in Current' => k \in Current, Served(k)' = Served(k)
  PROVE  Sound(k)'
  <1> DEFINE again == {x \in keys \cap Current : request[x] = Idle \/ cache[x] # NoData}
  <1>1. /\ request'[k] = IF k \in again THEN Sent ELSE request[k]
        /\ k \in overtaken' <=> /\ k \in overtaken \/ k \in missed \/ (k \in keys /\ request[k] # Idle)
                                /\ k \notin again
        /\ k \in stale' <=> k \in stale \/ (k \in keys /\ cache[k] # NoData)
        /\ cache'[k] = cache[k]
    BY DEF Invalidate, DataInv
  <1>2. CASE k \in again
    <2>1. request'[k] = Sent /\ request'[k].at = "sent" /\ request'[k] # Idle
      BY <1>1, <1>2, RequestsDiffer
    <2> HIDE DEF again
    <2> QED  BY <1>1, <2>1 DEF Sound, Grounded, Coherent, Agrees, Idle
  <1>3. CASE k \notin again
    <2>1. k \in keys => k \notin Current \/ (request[k] # Idle /\ cache[k] = NoData)
      BY <1>3
    <2> HIDE DEF again
    <2> QED  BY <1>1, <1>3, <2>1 DEF Sound, Grounded, Coherent, Agrees, Idle
  <1> QED  BY <1>2, <1>3

\* A call ends that says nothing about the key.
LEMMA SoundNotTold ==
  ASSUME NEW k \in Keys, NEW keys, NEW missed, Sound(k), DataInv, Invalidate(keys, missed, Current),
         k \notin keys \cup missed, k \in Current' => k \in Current, Served(k)' = Served(k),
         Untold(k) => Untold(k)'
  PROVE  Sound(k)'
  <1>1. /\ request'[k] = request[k] /\ cache'[k] = cache[k]
        /\ k \in overtaken' <=> k \in overtaken
        /\ k \in stale' <=> k \in stale
    BY DEF Invalidate, DataInv
  <1> QED  BY <1>1, SoundSame

\* A call goes on as it was, for another tenant's hook perhaps.
GoesOn(m) ==
    \E n \in mutations' : n.id = m.id /\ n.kind = m.kind /\ n.tenant = m.tenant /\ n.at = m.at
AllGoOn == \A m \in mutations : GoesOn(m)

\* Drawing leaves the calls as they were.
LEMMA HooksGoOn ==
  ASSUME NEW t, NEW v, CallsInv, mutations' = Hooks(mutations, t, v) PROVE AllGoOn
  <1> DEFINE F(m) == IF m.id \in v.pending THEN [m EXCEPT !.hook = t] ELSE m
  <1>1. mutations' = {F(m) : m \in mutations}
    BY DEF Hooks
  <1>2. ASSUME NEW m \in mutations
        PROVE  F(m).id = m.id /\ F(m).kind = m.kind /\ F(m).tenant = m.tenant /\ F(m).at = m.at
    <2>1. CallShape(m)
      BY DEF CallsInv
    <2> QED  BY <2>1 DEF CallShape
  <1> HIDE DEF F
  <1> QED  BY <1>1, <1>2 DEF AllGoOn, GoesOn

\* What is not told stays so.
LEMMA UntoldGoesOn == ASSUME NEW k, AllGoOn PROVE Untold(k) => Untold(k)'
  <1> SUFFICES ASSUME Untold(k) PROVE Untold(k)'
    OBVIOUS
  <1>1. PICK m \in mutations :
           \/ k \in TupleLists /\ m.kind \in {"write", "delete"} /\ m.at = "ok"
           \/ k = schemaKey(m.tenant) /\ m.kind = "save" /\ m.at \in {"loading", "ok"}
    BY DEF Untold
  <1>2. PICK n \in mutations' : n.kind = m.kind /\ n.tenant = m.tenant /\ n.at = m.at
    BY DEF AllGoOn, GoesOn
  <1> QED  BY <1>1, <1>2 DEF Untold

\* Loads stay with their calls.
LEMMA LoadsGoOn == ASSUME LoadsOwned, AllGoOn, UNCHANGED loads PROVE LoadsOwned'
  BY DEF LoadsOwned, AllGoOn, GoesOn

\* The screen after drawing.
LEMMA DrawScreen ==
  ASSUME NEW k \in DataKeys, NEW p, NEW t, NEW v, Draw(p, t, v), p = "tuples" => TuplesShape(v),
         k \in Current'
  PROVE  k \in OnScreen(p, t, v)
  <1>1. PICK w : w = view'
    OBVIOUS
  <1>2. w = Render(p, t, v) /\ page' = p /\ tenant' = t
    BY <1>1 DEF Draw
  <1>3. p = "tuples" => w.filter = v.filter
    BY <1>2, RenderNamed
  <1>4. k \in OnScreen(p, t, w)
    BY <1>1, <1>2 DEF Current, OnScreen
  <1> QED  BY <1>3, <1>4, DataOnScreen

\* The page is shown.
LEMMA ShowQuiet ==
  ASSUME NEW p, NEW t, NEW v, CallsInv, DataInv, QuietInv, Show(p, t, v), p = "tuples" => TuplesShape(v),
         UNCHANGED quiet
  PROVE  QuietInv'
  <1> SUFFICES ASSUME quiet PROVE LoadsOwned' /\ \A k \in DataKeys : Sound(k)'
    BY DEF QuietInv
  <1>1. LoadsOwned /\ \A k \in DataKeys : Sound(k)
    BY DEF QuietInv
  <1>2. AllGoOn
    <2>1. PICK w : w = view'
      OBVIOUS
    <2> QED  BY <2>1, HooksGoOn DEF Show, Draw
  <1>3. UNCHANGED <<existing, stored, registry, loads>>
    BY DEF Show, service, schemas
  <1>4. LoadsOwned'
    BY <1>1, <1>2, <1>3, LoadsGoOn
  <1>5. PICK new : new = OnScreen(p, t, v) \ Current
    OBVIOUS
  <1>6. PICK old : /\ request' = Ask(Fetched(new, old))
                   /\ overtaken' = overtaken \ Fetched(new, old)
                   /\ UNCHANGED <<cache, stale>>
    BY <1>5 DEF Show, Observe
  <1>7. PICK fetched : fetched = Fetched(new, old)
    OBVIOUS
  <1>8. ASSUME NEW k \in DataKeys PROVE Sound(k)'
    <2>1. Sound(k) /\ k \in Keys
      BY <1>1, DataKeysOf
    <2>2. request'[k] = IF k \in fetched THEN Sent ELSE request[k]
      BY <1>6, <1>7, <2>1 DEF Ask, DataInv
    <2>3. k \in overtaken' <=> k \in overtaken /\ k \notin fetched
      BY <1>6, <1>7
    <2>4. k \in new /\ k \notin fetched => request[k] # Idle \/ (cache[k] # NoData /\ k \notin stale)
      BY <1>7 DEF Fetched
    <2>5. k \in Current' => k \in new \/ k \in Current
      BY <1>5, DrawScreen DEF Show
    <2>6. (Untold(k) => Untold(k)') /\ Served(k)' = Served(k)
      BY <1>2, <1>3, UntoldGoesOn, ServedSame
    <2>7. cache'[k] = cache[k] /\ (k \in stale' <=> k \in stale)
      BY <1>6
    <2> QED  BY <2>1, <2>2, <2>3, <2>4, <2>5, <2>6, <2>7, SoundAsked
  <1> QED  BY <1>4, <1>8

\* The list of tenants arrives.
LEMMA ReceiveTenantsQuiet ==
  ASSUME CallsInv, DataInv, FormInv, QuietInv, ReceiveTenants PROVE QuietInv'
  <1> SUFFICES ASSUME quiet PROVE LoadsOwned' /\ \A k \in DataKeys : Sound(k)'
    BY DEF QuietInv, ReceiveTenants, bounds
  <1>1. LoadsOwned /\ \A k \in DataKeys : Sound(k)
    BY DEF QuietInv
  <1>2. PICK t, v, new : /\ v = Switch(t) /\ new = OnScreen(page, t, v) \ Current
                         /\ Receive(tenantKey, new) /\ Draw(page, t, v)
    BY DEF ReceiveTenants
  <1>3. AllGoOn
    <2>1. PICK w : w = view'
      OBVIOUS
    <2> QED  BY <1>2, <2>1, HooksGoOn DEF Draw
  <1>4. UNCHANGED <<existing, stored, registry, loads>>
    BY DEF ReceiveTenants, service, schemas
  <1>5. LoadsOwned'
    BY <1>1, <1>3, <1>4, LoadsGoOn
  <1>6. PICK old, fetched :
           /\ fetched = Fetched(new, old)
           /\ request' = [Ask(fetched) EXCEPT ![tenantKey] = Idle]
           /\ overtaken' = overtaken \ fetched
           /\ cache' = IF request[tenantKey].data # NoData
                       THEN [cache EXCEPT ![tenantKey] = request[tenantKey].data] ELSE cache
           /\ stale' = IF request[tenantKey].data # NoData THEN stale \ {tenantKey} ELSE stale
    BY <1>2 DEF Receive
  <1>7. page = "tuples" => TuplesShape(v)
    BY <1>2 DEF FormInv, Fits, Switch
  <1>8. ASSUME NEW k \in DataKeys PROVE Sound(k)'
    <2>1. Sound(k) /\ k \in Keys /\ k # tenantKey
      BY <1>1, DataKeysOf
    <2>2. request'[k] = IF k \in fetched THEN Sent ELSE request[k]
      BY <1>6, <2>1 DEF Ask, DataInv
    <2>3. k \in overtaken' <=> k \in overtaken /\ k \notin fetched
      BY <1>6
    <2>4. k \in new /\ k \notin fetched => request[k] # Idle \/ (cache[k] # NoData /\ k \notin stale)
      BY <1>6 DEF Fetched
    <2>5. k \in Current' => k \in new \/ k \in Current
      <3>1. PICK p : p = page
        OBVIOUS
      <3> QED  BY <1>2, <1>7, <3>1, DrawScreen
    <2>6. (Untold(k) => Untold(k)') /\ Served(k)' = Served(k)
      BY <1>3, <1>4, UntoldGoesOn, ServedSame
    <2>7. cache'[k] = cache[k] /\ (k \in stale' <=> k \in stale)
      BY <1>6, <2>1 DEF DataInv, CacheShape
    <2> QED  BY <2>1, <2>2, <2>3, <2>4, <2>5, <2>6, <2>7, SoundAsked
  <1> QED  BY <1>5, <1>8

\* An answer arrives, the service answers, data are dropped.
LEMMA QueryQuiet ==
  ASSUME NEW q \in Keys, CallsInv, DataInv, FormInv, QuietInv, Query(q) PROVE QuietInv'
  <1>0. CASE FailQuery(q) \/ ReconnectQuery(q)
    BY <1>0 DEF FailQuery, ReconnectQuery, Event, QuietInv
  <1> SUFFICES ASSUME quiet, ReceiveQuery(q) \/ AnswerQuery(q) \/ EvictQuery(q)
               PROVE  LoadsOwned' /\ \A k \in DataKeys : Sound(k)'
    BY <1>0 DEF Query, QuietInv, ReceiveQuery, AnswerQuery, EvictQuery, bounds
  <1>1. LoadsOwned /\ \A k \in DataKeys : Sound(k)
    BY DEF QuietInv
  <1>2. AllGoOn
    <2>1. PICK w : w = view'
      OBVIOUS
    <2>2. CASE ReceiveQuery(q)
      BY <2>1, <2>2, HooksGoOn DEF ReceiveQuery, Draw
    <2>3. CASE mutations' = mutations
      BY <2>3 DEF AllGoOn, GoesOn
    <2> QED  BY <2>2, <2>3 DEF AnswerQuery, EvictQuery
  <1>3. UNCHANGED <<existing, stored, registry, loads>>
    BY DEF ReceiveQuery, AnswerQuery, EvictQuery, service, schemas
  <1>4. LoadsOwned'
    BY <1>1, <1>2, <1>3, LoadsGoOn
  <1>5. ASSUME NEW k \in DataKeys PROVE Sound(k)'
    <2>1. Sound(k) /\ k \in Keys
      BY <1>1, DataKeysOf
    <2>2. (Untold(k) => Untold(k)') /\ Served(k)' = Served(k)
      BY <1>2, <1>3, UntoldGoesOn, ServedSame
    <2>3. k \in Current' => k \in Current
      <3>1. CASE ReceiveQuery(q)
        <4>1. PICK p, t, v : p = page /\ t = tenant /\ v = view
          OBVIOUS
        <4>2. Draw(p, t, v) /\ (p = "tuples" => TuplesShape(v))
          BY <3>1, <4>1 DEF ReceiveQuery, FormInv, Fits
        <4> QED  BY <4>1, <4>2, DrawScreen DEF Current
      <3>2. CASE UNCHANGED screen
        BY <3>2 DEF screen, Current, OnScreen
      <3> QED  BY <3>1, <3>2 DEF AnswerQuery, EvictQuery
    <2>4. CASE ReceiveQuery(q)
      <3>1. PICK fetched :
               /\ fetched = {}
               /\ request[q].at = "answered"
               /\ request' = [Ask(fetched) EXCEPT ![q] = Idle]
               /\ overtaken' = overtaken \ fetched
               /\ cache' = IF request[q].data # NoData THEN [cache EXCEPT ![q] = request[q].data] ELSE cache
               /\ stale' = IF request[q].data # NoData THEN stale \ {q} ELSE stale
        BY <2>4 DEF ReceiveQuery, Receive, Fetched
      <3>2. overtaken' = overtaken /\ request'[k] = IF k = q THEN Idle ELSE request[k]
        BY <2>1, <3>1 DEF Ask, DataInv
      <3>3. CASE k = q
        <4>1. cache'[k] = IF request[k].data # NoData THEN request[k].data ELSE cache[k]
          BY <2>1, <3>1, <3>3 DEF DataInv, CacheShape
        <4>2. k \in stale' <=> k \in stale /\ request[k].data = NoData
          BY <3>1, <3>3
        <4> QED  BY <2>1, <2>2, <3>1, <3>2, <3>3, <4>1, <4>2, SoundReceived
      <3>4. CASE k # q
        <4>1. cache'[k] = cache[k] /\ (k \in stale' <=> k \in stale)
          BY <2>1, <3>1, <3>4 DEF DataInv, CacheShape
        <4> QED  BY <2>1, <2>2, <2>3, <3>2, <3>4, <4>1, SoundSame
      <3> QED  BY <3>3, <3>4
    <2>5. CASE AnswerQuery(q)
      <3>1. /\ request' = [request EXCEPT ![q] = [at |-> "answered", data |-> Served(q)]]
            /\ UNCHANGED <<cache, stale, overtaken>>
        BY <2>5 DEF AnswerQuery, Answer
      <3>2. CASE k = q
        <4>1. request'[k] = [at |-> "answered", data |-> Served(k)]
          BY <2>1, <3>1, <3>2 DEF DataInv
        <4> QED  BY <2>1, <2>2, <3>1, <4>1, SoundAnswered
      <3>3. CASE k # q
        <4>1. request'[k] = request[k]
          BY <2>1, <3>1, <3>3 DEF DataInv
        <4> QED  BY <2>1, <2>2, <2>3, <3>1, <4>1, SoundSame
      <3> QED  BY <3>2, <3>3
    <2>6. CASE EvictQuery(q)
      <3>1. /\ request[q] = Idle /\ q \notin Current
            /\ cache' = [cache EXCEPT ![q] = NoData] /\ stale' = stale \ {q}
            /\ UNCHANGED <<request, overtaken>>
        BY <2>6 DEF EvictQuery, Evict
      <3>2. CASE k = q
        <4>1. cache'[k] = NoData /\ request'[k] = Idle /\ k \notin stale'
          BY <2>1, <3>1, <3>2 DEF DataInv, CacheShape
        <4> QED  BY <2>1, <2>2, <2>3, <3>1, <3>2, <4>1, SoundEvicted
      <3>3. CASE k # q
        <4>1. cache'[k] = cache[k] /\ (k \in stale' <=> k \in stale)
          BY <2>1, <3>1, <3>3 DEF DataInv, CacheShape
        <4> QED  BY <2>1, <2>2, <2>3, <3>1, <4>1, SoundSame
      <3> QED  BY <3>2, <3>3
    <2> QED  BY <2>4, <2>5, <2>6
  <1> QED  BY <1>4, <1>5

\* The queries and the screen's keys stay.
LEMMA SoundQueries ==
  ASSUME NEW k \in DataKeys, Sound(k), UNCHANGED queries, k \in Current' => k \in Current,
         \/ (Untold(k) => Untold(k)') /\ Served(k)' = Served(k)
         \/ Untold(k)' /\ (Served(k) # NoData => Served(k)' # NoData)
  PROVE  Sound(k)'
  <1>1. /\ cache'[k] = cache[k] /\ request'[k] = request[k] /\ (k \in stale' <=> k \in stale)
        /\ (k \in overtaken => k \in overtaken')
    BY DEF queries
  <1> QED  BY <1>1, SoundSame, SoundUntold

\* A call is made.
LEMMA CallQuiet ==
  ASSUME NEW kind, NEW arg, NEW v, CallsInv, FormInv, QuietInv, Call(kind, arg, v),
         page = "tuples" => v = view
  PROVE  QuietInv'
  <1> SUFFICES ASSUME quiet PROVE LoadsOwned' /\ \A k \in DataKeys : Sound(k)'
    BY DEF QuietInv, Call
  <1>1. LoadsOwned /\ \A k \in DataKeys : Sound(k)
    BY DEF QuietInv
  <1>2. AllGoOn
    BY DEF Call, AllGoOn, GoesOn
  <1>3. UNCHANGED <<queries, existing, stored, registry, loads, page, tenant>>
    BY DEF Call, service, schemas
  <1>4. LoadsOwned'
    BY <1>1, <1>2, <1>3, LoadsGoOn
  <1>5. ASSUME NEW k \in DataKeys, k \in Current' PROVE k \in Current
    <2>1. PICK w, n : w = view' /\ n = left.calls
      OBVIOUS
    <2>2. w = [v EXCEPT !.pending = @ \cup {n}]
      BY <2>1 DEF Call
    <2>3. page = "tuples" => w.filter = view.filter
      BY <2>2 DEF FormInv, Fits, TuplesShape
    <2>4. k \in OnScreen(page, tenant, w)
      BY <1>3, <1>5, <2>1 DEF Current, OnScreen
    <2> QED  BY <2>3, <2>4, DataOnScreen DEF Current
  <1>6. ASSUME NEW k \in DataKeys PROVE Sound(k)'
    BY <1>1, <1>2, <1>3, <1>5, UntoldGoesOn, ServedSame, SoundQueries
  <1> QED  BY <1>4, <1>6

\* A call that is answered.
LEMMA AnsweredCall ==
  ASSUME NEW m \in mutations, NEW at, NEW result, CallsInv, Answered(m, at, result)
  PROVE  \E a : /\ mutations' = (mutations \ {m}) \cup {a}
                /\ a.id = m.id /\ a.kind = m.kind /\ a.tenant = m.tenant /\ a.at = at
  <1>1. PICK b : b = [m EXCEPT !.at = at]
    OBVIOUS
  <1>2. PICK a : a = [b EXCEPT !.result = result]
    OBVIOUS
  <1>3. CallShape(m)
    BY DEF CallsInv
  <1>4. CallShape(b) /\ b.id = m.id /\ b.kind = m.kind /\ b.tenant = m.tenant /\ b.at = at
    BY <1>1, <1>3 DEF CallShape
  <1>5. a.id = b.id /\ a.kind = b.kind /\ a.tenant = b.tenant /\ a.at = b.at
    BY <1>2, <1>4 DEF CallShape
  <1>6. a = [m EXCEPT !.at = at, !.result = result]
    BY <1>1, <1>2
  <1>7. mutations' = (mutations \ {m}) \cup {a}
    BY <1>6 DEF Answered
  <1> QED  BY <1>4, <1>5, <1>7

\* What others call untold stays so when m is answered; and a call that was
\* only sent has told nothing and owns no load.
LEMMA AnsweredUntold ==
  ASSUME NEW k, NEW m \in mutations, NEW a, m.at = "sent", mutations' = (mutations \ {m}) \cup {a}
  PROVE  Untold(k) => Untold(k)'
  BY DEF Untold
\* The loads of the others stay owned.
LEMMA AnsweredLoads ==
  ASSUME NEW m \in mutations, NEW a, m.at = "sent", mutations' = (mutations \ {m}) \cup {a},
         LoadsOwned, UNCHANGED loads
  PROVE  LoadsOwned'
  <1>1. ASSUME NEW load \in loads'
        PROVE  \E n \in mutations' :
                  n.id = load.id /\ n.kind = "save" /\ n.tenant = load.tenant /\ n.at = "loading"
    <2>1. PICK n \in mutations : n.id = load.id /\ n.kind = "save" /\ n.tenant = load.tenant /\ n.at = "loading"
      BY DEF LoadsOwned
    <2>2. n \in mutations'
      BY <2>1
    <2> QED  BY <2>1, <2>2
  <1> QED  BY <1>1 DEF LoadsOwned

\* The screen is the same.
LEMMA SameScreen == ASSUME UNCHANGED screen PROVE Current' = Current
  BY DEF screen, Current, OnScreen

\* Writes and deletes keep lists there, and leave the schemas alone.
LEMMA StoreServed ==
  ASSUME NEW k \in DataKeys, NEW t, NEW tuples, Store(t, tuples), stored' \in [Tenants -> SUBSET Tuples]
  PROVE  /\ k \in TupleLists /\ Served(k) # NoData => Served(k)' # NoData
         /\ k \in SchemaKeys => Served(k)' = Served(k)
  <1>1. UNCHANGED <<existing, registry>>
    BY DEF Store, schemas
  <1>2. ASSUME k \in TupleLists, Served(k) # NoData PROVE Served(k)' # NoData
    <2>1. PICK u \in Tenants, x \in Filters : k = tupleKey(u, x)
      BY <1>2 DEF TupleLists
    <2>2. u \in existing
      BY <1>2, <2>1, ServedTuples
    <2>3. Served(k)' = {y \in stored'[u] : matches(y, x)}
      BY <1>1, <2>1, <2>2, ServedTuples
    <2>4. {y \in stored'[u] : matches(y, x)} \in SUBSET Tuples
      OBVIOUS
    <2> QED  BY <2>3, <2>4, AnswersAssumption
  <1>3. ASSUME k \in SchemaKeys PROVE Served(k)' = Served(k)
    <2>1. PICK u \in Tenants : k = schemaKey(u)
      BY <1>3 DEF SchemaKeys
    <2> QED  BY <1>1, <2>1, ServedSchema
  <1> QED  BY <1>2, <1>3

\* The service refuses or performs a call.
LEMMA PerformQuiet ==
  ASSUME NEW m \in mutations, CallsInv, QuietInv, Refuse(m) \/ Perform(m),
         stored' \in [Tenants -> SUBSET Tuples]
  PROVE  QuietInv'
  <1> SUFFICES ASSUME quiet PROVE LoadsOwned' /\ \A k \in DataKeys : Sound(k)'
    BY DEF QuietInv, Refuse, Perform, bounds
  <1>1. LoadsOwned /\ \A k \in DataKeys : Sound(k)
    BY DEF QuietInv
  <1>2. m.at = "sent" /\ UNCHANGED queries /\ Current' = Current
    BY SameScreen DEF Refuse, Perform
  <1>3. ASSUME NEW at, NEW result, Answered(m, at, result), UNCHANGED service
        PROVE  LoadsOwned' /\ \A k \in DataKeys : Sound(k)'
    <2>1. PICK a : mutations' = (mutations \ {m}) \cup {a}
      BY <1>3, AnsweredCall
    <2>2. UNCHANGED <<existing, stored, registry, loads>>
      BY <1>3 DEF service, schemas
    <2>3. LoadsOwned'
      BY <1>1, <1>2, <2>1, <2>2, AnsweredLoads
    <2>4. ASSUME NEW k \in DataKeys PROVE Sound(k)'
      BY <1>1, <1>2, <2>1, <2>2, AnsweredUntold, ServedSame, SoundQueries
    <2> QED  BY <2>3, <2>4
  <1>4. ASSUME NEW tuples, m.kind \in {"write", "delete"}, Store(m.tenant, tuples), Answered(m, "ok", None)
        PROVE  LoadsOwned' /\ \A k \in DataKeys : Sound(k)'
    <2>1. PICK a : /\ mutations' = (mutations \ {m}) \cup {a}
                   /\ a.kind = m.kind /\ a.at = "ok"
      BY <1>4, AnsweredCall
    <2>2. UNCHANGED loads
      BY <1>4 DEF Store, schemas
    <2>3. LoadsOwned'
      BY <1>1, <1>2, <2>1, <2>2, AnsweredLoads
    <2>4. ASSUME NEW k \in DataKeys PROVE Sound(k)'
      <3>1. CASE k \in TupleLists
        <4>1. Untold(k)'
          BY <1>4, <2>1, <3>1 DEF Untold
        <4>2. Served(k) # NoData => Served(k)' # NoData
          BY <1>4, <3>1, StoreServed
        <4> QED  BY <1>1, <1>2, <4>1, <4>2, SoundQueries
      <3>2. CASE k \in SchemaKeys
        <4>1. Served(k)' = Served(k)
          BY <1>4, <3>2, StoreServed
        <4>2. Untold(k) => Untold(k)'
          BY <1>2, <2>1, AnsweredUntold
        <4> QED  BY <1>1, <1>2, <4>1, <4>2, SoundQueries
      <3> QED  BY <3>1, <3>2 DEF DataKeys
    <2> QED  BY <2>3, <2>4
  <1>5. ASSUME m.kind = "save", LoadSchema([id |-> m.id, tenant |-> m.tenant, doc |-> m.arg]),
               Answered(m, "loading", None), UNCHANGED <<existing, stored, log>>
        PROVE  LoadsOwned' /\ \A k \in DataKeys : Sound(k)'
    <2>1. PICK a : /\ mutations' = (mutations \ {m}) \cup {a}
                   /\ a.id = m.id /\ a.kind = m.kind /\ a.tenant = m.tenant /\ a.at = "loading"
      BY <1>5, AnsweredCall
    <2>2. PICK load : load = [id |-> m.id, tenant |-> m.tenant, doc |-> m.arg]
      OBVIOUS
    <2>3. loads' = loads \cup {load} /\ UNCHANGED registry /\ load.id = m.id /\ load.tenant = m.tenant
      BY <1>5, <2>2 DEF LoadSchema
    <2>4. \A other \in loads : other.id # m.id
      <3>1. ASSUME NEW other \in loads, other.id = m.id PROVE FALSE
        <4>1. PICK n \in mutations : n.id = other.id /\ n.at = "loading"
          BY <1>1 DEF LoadsOwned
        <4>2. n = m
          BY <3>1, <4>1 DEF CallsInv
        <4> QED  BY <1>2, <4>1, <4>2
      <3> QED  BY <3>1
    <2>5. ASSUME NEW x \in loads'
          PROVE  \E n \in mutations' : n.id = x.id /\ n.kind = "save" /\ n.tenant = x.tenant /\ n.at = "loading"
      <3>1. CASE x = load
        BY <1>5, <2>1, <2>3, <3>1
      <3>2. CASE x \in loads
        <4>1. PICK n \in mutations : n.id = x.id /\ n.kind = "save" /\ n.tenant = x.tenant /\ n.at = "loading"
          BY <1>1, <3>2 DEF LoadsOwned
        <4>2. n \in mutations'
          BY <1>2, <2>1, <4>1
        <4> QED  BY <4>1, <4>2
      <3> QED  BY <2>3, <3>1, <3>2
    <2>6. \A x, y \in loads' : x.id = y.id => x = y
      BY <1>1, <2>3, <2>4 DEF LoadsOwned
    <2>7. LoadsOwned'
      BY <2>5, <2>6 DEF LoadsOwned
    <2>8. ASSUME NEW k \in DataKeys PROVE Sound(k)'
      BY <1>1, <1>2, <1>5, <2>1, <2>3, AnsweredUntold, ServedSame, SoundQueries
    <2> QED  BY <2>7, <2>8
  <1>6. CASE Refuse(m)
    BY <1>3, <1>6 DEF Refuse
  <1>7. CASE Perform(m)
    <2>1. \/ \E at, result : Answered(m, at, result) /\ UNCHANGED service
          \/ \E tuples : m.kind \in {"write", "delete"} /\ Store(m.tenant, tuples) /\ Answered(m, "ok", None)
          \/ /\ m.kind = "save" /\ LoadSchema([id |-> m.id, tenant |-> m.tenant, doc |-> m.arg])
             /\ Answered(m, "loading", None) /\ UNCHANGED <<existing, stored, log>>
      <3>1. CASE m.kind = "write" /\ Store(m.tenant, stored[m.tenant] \cup {m.arg}) /\ Answered(m, "ok", None)
        BY <3>1
      <3>2. CASE m.kind = "delete" /\ Store(m.tenant, stored[m.tenant] \ {m.arg}) /\ Answered(m, "ok", None)
        BY <3>2
      <3>3. CASE \/ Answered(m, "ok", Expand(m.tenant, m.arg)) /\ UNCHANGED service
                 \/ (\E decision \in {"allow", "deny"} : Answered(m, "ok", decision)) /\ UNCHANGED service
        BY <3>3
      <3> QED  BY <1>7, <3>1, <3>2, <3>3 DEF Perform
    <2> QED  BY <1>3, <1>4, <1>5, <2>1
  <1> QED  BY <1>6, <1>7

\* The second write of a load.
LEMMA FinishQuiet ==
  ASSUME NEW load \in loads, CallsInv, MapsInv, QuietInv, FinishLoad(load) PROVE QuietInv'
  <1> SUFFICES ASSUME quiet PROVE LoadsOwned' /\ \A k \in DataKeys : Sound(k)'
    BY DEF QuietInv, FinishLoad, bounds
  <1>1. LoadsOwned /\ \A k \in DataKeys : Sound(k)
    BY DEF QuietInv
  <1>2. UNCHANGED <<queries, existing, stored>> /\ Current' = Current
    BY SameScreen DEF FinishLoad
  <1>3. registry' = [registry EXCEPT ![load.tenant] = load.doc] /\ loads' = loads \ {load}
    BY DEF FinishLoad, Register
  <1> DEFINE F(m) == IF m.id = load.id /\ m.at = "loading" THEN [m EXCEPT !.at = "ok"] ELSE m
  <1>4. mutations' = {F(m) : m \in mutations}
    BY DEF FinishLoad
  <1>5. ASSUME NEW m \in mutations
        PROVE  /\ F(m) \in mutations'
               /\ F(m).id = m.id /\ F(m).kind = m.kind /\ F(m).tenant = m.tenant
               /\ F(m).at = IF m.id = load.id /\ m.at = "loading" THEN "ok" ELSE m.at
    <2>1. CallShape(m)
      BY DEF CallsInv
    <2>2. /\ F(m).id = m.id /\ F(m).kind = m.kind /\ F(m).tenant = m.tenant
          /\ F(m).at = IF m.id = load.id /\ m.at = "loading" THEN "ok" ELSE m.at
      BY <2>1 DEF CallShape
    <2> HIDE DEF F
    <2> QED  BY <1>4, <2>2
  <1> HIDE DEF F
  <1>6. ASSUME NEW k, Untold(k) PROVE Untold(k)'
    <2>1. PICK m \in mutations :
             \/ k \in TupleLists /\ m.kind \in {"write", "delete"} /\ m.at = "ok"
             \/ k = schemaKey(m.tenant) /\ m.kind = "save" /\ m.at \in {"loading", "ok"}
      BY <1>6 DEF Untold
    <2>2. PICK n : n = F(m)
      OBVIOUS
    <2>3. n \in mutations' /\ n.kind = m.kind /\ n.tenant = m.tenant /\ (n.at = m.at \/ n.at = "ok")
      BY <1>5, <2>2
    <2> QED  BY <2>1, <2>3 DEF Untold
  <1>7. ASSUME NEW other \in loads'
        PROVE  \E n \in mutations' :
                  n.id = other.id /\ n.kind = "save" /\ n.tenant = other.tenant /\ n.at = "loading"
    <2>1. PICK m \in mutations :
             m.id = other.id /\ m.kind = "save" /\ m.tenant = other.tenant /\ m.at = "loading"
      BY <1>1, <1>3 DEF LoadsOwned
    <2>2. m.id # load.id
      BY <1>1, <1>3, <2>1 DEF LoadsOwned
    <2>3. PICK n : n = F(m)
      OBVIOUS
    <2> QED  BY <1>5, <2>1, <2>2, <2>3
  <1>8. LoadsOwned'
    BY <1>1, <1>3, <1>7 DEF LoadsOwned
  <1>9. ASSUME NEW k \in DataKeys PROVE Sound(k)'
    <2>1. CASE k = schemaKey(load.tenant)
      <3>1. Untold(k)
        BY <1>1, <2>1 DEF LoadsOwned, Untold
      <3>2. load.tenant \in Tenants /\ load.doc \in Valid /\ DOMAIN registry = Tenants
        BY DEF MapsInv, MapsShape
      <3>3. registry'[load.tenant] = load.doc
        BY <1>3, <3>2
      <3>4. Served(k)' = load.doc
        BY <2>1, <3>2, <3>3, ServedSchema, DocsAssumption
      <3>5. Served(k)' # NoData
        BY <3>2, <3>4, DocsAssumption, AnswersAssumption
      <3> QED  BY <1>1, <1>2, <1>6, <3>1, <3>5, SoundQueries
    <2>2. CASE k # schemaKey(load.tenant)
      <3>1. ASSUME NEW t, NEW x, k = tupleKey(t, x) PROVE Served(k)' = Served(k)
        BY <1>2, <3>1, ServedTuples
      <3>2. ASSUME NEW t, k = schemaKey(t) PROVE Served(k)' = Served(k)
        <4>1. t # load.tenant
          BY <2>2, <3>2
        <4>2. registry'[t] = registry[t]
          BY <1>3, <4>1
        <4> QED  BY <3>2, <4>2, ServedSchema
      <3>3. Served(k)' = Served(k)
        BY <3>1, <3>2 DEF DataKeys, SchemaKeys, TupleLists
      <3> QED  BY <1>1, <1>2, <1>6, <3>3, SoundQueries
    <2> QED  BY <2>1, <2>2
  <1> QED  BY <1>8, <1>9

\* The end of a call tells or misses every key that the call changed, and
\* leaves the filter alone.
Tells(m, keys, missed) ==
    /\ m.at \in {"ok", "refused"}
    /\ m.at = "ok" /\ m.kind \in {"write", "delete"} => keys = TupleLists
    /\ m.at = "ok" /\ m.kind = "save" => schemaKey(m.tenant) \in keys \cup missed

\* The ends of calls do.
LEMMA SettlesTell ==
  ASSUME NEW m \in mutations, PendingInv, FormInv, Settles(m)
  PROVE  \E keys, missed, v : /\ Settle(m, keys, missed, v) /\ Tells(m, keys, missed)
                              /\ page = "tuples" => TuplesShape(v) /\ v.filter = view.filter
  <1>1. page = "tuples" => TuplesShape(view)
    BY DEF FormInv, Fits
  <1>2. CASE SettleRefused(m) \/ SaveSucceeds(m)
    <2>1. PICK keys, missed : Settle(m, keys, missed, view) /\ Tells(m, keys, missed)
      BY <1>2 DEF SettleRefused, SaveSucceeds, Tells
    <2> QED  BY <1>1, <2>1
  <1>3. CASE DeleteSucceeds(m)
    <2>1. PICK v : v = IF m.id \in view.pending THEN [view EXCEPT !.target = None] ELSE view
      OBVIOUS
    <2>2. page = "tuples" => TuplesShape(v) /\ v.filter = view.filter
      BY <1>1, <2>1 DEF TuplesShape
    <2>3. Settle(m, TupleLists, {}, v) /\ Tells(m, TupleLists, {})
      BY <1>3, <2>1 DEF DeleteSucceeds, tupleLists, Tells
    <2> QED  BY <2>2, <2>3
  <1>4. CASE WriteSucceeds(m)
    <2>1. PICK none : none = [f \in Fields |-> NoSchema]
      OBVIOUS
    <2>2. PICK v : v = IF m.id \in view.pending
                       THEN [view EXCEPT !.open = FALSE, !.form = Empty, !.under = none]
                       ELSE view
      OBVIOUS
    <2>3. ASSUME page = "tuples" PROVE TuplesShape(v) /\ v.filter = view.filter
      <3>1. CASE m.id \in view.pending
        <4>1. view = [filter |-> view.filter, target |-> view.target, open |-> view.open, form |-> view.form,
                      under |-> view.under, pending |-> view.pending]
          BY <1>1, <2>3 DEF TuplesShape
        <4>2. /\ v.form = Empty /\ v.under = none /\ v.filter = view.filter
              /\ v = [filter |-> v.filter, target |-> v.target, open |-> v.open, form |-> v.form,
                      under |-> v.under, pending |-> v.pending]
          BY <2>2, <3>1, <4>1
        <4>3. Empty = [f \in Fields |-> Empty[f]] /\ none = [f \in Fields |-> none[f]]
          BY <2>1 DEF Empty
        <4> QED  BY <4>2, <4>3 DEF TuplesShape
      <3>2. CASE m.id \notin view.pending
        BY <1>1, <2>2, <2>3, <3>2
      <3> QED  BY <3>1, <3>2
    <2>4. Settle(m, TupleLists, {}, v) /\ Tells(m, TupleLists, {})
      BY <1>4, <2>1, <2>2 DEF WriteSucceeds, tupleLists, Tells
    <2> QED  BY <2>3, <2>4
  <1>5. CASE ExpandSucceeds(m) \/ CheckEnds(m)
    <2>1. m.kind \in {"expand", "check"} /\ m.at \in {"ok", "refused"}
      BY <1>5 DEF ExpandSucceeds, CheckEnds
    <2>2. Tells(m, {}, {})
      BY <2>1 DEF Tells
    <2>3. CASE page = "tuples"
      <3>1. m.id \notin view.pending
        BY <2>1, <2>3 DEF PendingInv, WaitsForOwn, Kinds
      <3>2. Settle(m, {}, {}, view)
        BY <1>5, <3>1 DEF ExpandSucceeds, CheckEnds
      <3> QED  BY <1>1, <2>2, <3>2
    <2>4. CASE page # "tuples"
      BY <1>5, <2>2, <2>4 DEF ExpandSucceeds, CheckEnds
    <2> QED  BY <2>3, <2>4
  <1> QED  BY <1>2, <1>3, <1>4, <1>5 DEF Settles

\* A call ends.
LEMMA SettlesQuiet ==
  ASSUME NEW m \in mutations, CallsInv, PendingInv, DataInv, FormInv, QuietInv, Settles(m) PROVE QuietInv'
  <1>1. PICK keys, missed, v : /\ Settle(m, keys, missed, v) /\ Tells(m, keys, missed)
                               /\ page = "tuples" => TuplesShape(v) /\ v.filter = view.filter
    BY SettlesTell
  <1>2. /\ Invalidate(keys, missed, Current) /\ mutations' = mutations \ {m}
        /\ UNCHANGED <<existing, stored, registry, loads, page, tenant, quiet>>
    BY <1>1 DEF Settle, service, schemas, bounds
  <1> SUFFICES ASSUME quiet PROVE LoadsOwned' /\ \A k \in DataKeys : Sound(k)'
    BY <1>2 DEF QuietInv
  <1>3. LoadsOwned /\ \A k \in DataKeys : Sound(k)
    BY DEF QuietInv
  <1>4. LoadsOwned'
    <2>1. m.at # "loading"
      BY <1>1 DEF Tells
    <2> QED  BY <1>2, <1>3, <2>1 DEF LoadsOwned
  <1>5. ASSUME NEW k \in DataKeys, k \in Current' PROVE k \in Current
    <2>1. PICK u, w : u = [v EXCEPT !.pending = @ \ {m.id}] /\ w = view'
      OBVIOUS
    <2>2. w = Render(page, tenant, u)
      BY <1>1, <2>1 DEF Settle
    <2>3. page = "tuples" => TuplesShape(u) /\ u.filter = view.filter
      BY <1>1, <2>1 DEF TuplesShape
    <2>4. page = "tuples" => w.filter = view.filter
      BY <2>2, <2>3, RenderNamed
    <2>5. k \in OnScreen(page, tenant, w)
      BY <1>2, <1>5, <2>1 DEF Current, OnScreen
    <2> QED  BY <2>4, <2>5, DataOnScreen DEF Current
  <1>6. ASSUME NEW k \in DataKeys PROVE Sound(k)'
    <2>1. Sound(k) /\ k \in Keys /\ Served(k)' = Served(k)
      BY <1>2, <1>3, DataKeysOf, ServedSame
    <2>2. CASE k \in keys \cup missed
      BY <1>2, <1>5, <2>1, <2>2, SoundTold
    <2>3. CASE k \notin keys \cup missed
      <3>1. ASSUME Untold(k) PROVE Untold(k)'
        <4>1. PICK n \in mutations :
                 \/ k \in TupleLists /\ n.kind \in {"write", "delete"} /\ n.at = "ok"
                 \/ k = schemaKey(n.tenant) /\ n.kind = "save" /\ n.at \in {"loading", "ok"}
          BY <3>1 DEF Untold
        <4>2. n # m
          BY <1>1, <2>3, <4>1 DEF Tells
        <4> QED  BY <1>2, <4>1, <4>2 DEF Untold
      <3> QED  BY <1>2, <1>5, <2>1, <2>3, <3>1, SoundNotTold
    <2> QED  BY <2>2, <2>3
  <1> QED  BY <1>4, <1>6

\* Initially everything on the screen is being fetched.
LEMMA QuietInit == Init => QuietInv
  <1> SUFFICES ASSUME Init PROVE LoadsOwned /\ \A k \in DataKeys : Sound(k)
    BY DEF QuietInv
  <1>1. LoadsOwned
    BY DEF Init, LoadsOwned
  <1>2. ASSUME NEW k \in DataKeys PROVE Sound(k)
    <2>1. k \in Keys /\ k # tenantKey
      BY DataKeysOf
    <2>2. cache[k] = NoData /\ stale = {} /\ request[k] = IF k \in Current THEN Sent ELSE Idle
      BY <2>1 DEF Init, InitQueries
    <2>3. request[k].at # "answered"
      BY <2>2, RequestsDiffer
    <2> QED  BY <2>2, <2>3, RequestsDiffer DEF Sound, Grounded, Coherent, Agrees
  <1> QED  BY <1>1, <1>2

\* Every step.
LEMMA QuietNext ==
  ASSUME CallsInv, PendingInv, MapsInv, DataInv, FormInv, NamesInv, QuietInv, [Next]_vars PROVE QuietInv'
  <1>1. stored' \in [Tenants -> SUBSET Tuples]
    BY StoredNamed
  <1>2. ASSUME NEW t \in Tenants, SelectTenant(t) PROVE QuietInv'
    <2>1. PICK p, v : p = page /\ v = Switch(t)
      OBVIOUS
    <2>2. Show(p, t, v) /\ UNCHANGED quiet /\ (p = "tuples" => TuplesShape(v))
      BY <1>2, <2>1 DEF SelectTenant, Step, Switch, FormInv, Fits
    <2> QED  BY <2>2, ShowQuiet
  <1>3. ASSUME NEW p \in Pages, Navigate(p) PROVE QuietInv'
    <2>1. PICK t, v : t = tenant /\ v = Fresh(p)
      OBVIOUS
    <2>2. Show(p, t, v) /\ UNCHANGED quiet /\ (p = "tuples" => TuplesShape(v))
      BY <1>3, <2>1, FreshFits DEF Navigate, Fits
    <2> QED  BY <2>2, ShowQuiet
  <1>4. CASE LoadMore \/ ExplorerStep \/ SchemaStep
    <2>1. PageStep /\ page # "tuples"
      BY <1>4, ChangelogSteps, ExplorerSteps, SchemaSteps DEF LoadMore, ExplorerStep, SchemaStep
    <2>2. ASSUME NEW v, Shows(page, tenant, v) PROVE QuietInv'
      <3>1. PICK p, t : p = page /\ t = tenant
        OBVIOUS
      <3> QED  BY <2>1, <2>2, <3>1, ShowQuiet DEF Shows
    <2>3. ASSUME NEW kind, NEW arg, NEW v, Call(kind, arg, v) PROVE QuietInv'
      BY <2>1, <2>3, CallQuiet
    <2> QED  BY <2>1, <2>2, <2>3 DEF PageStep
  <1>5. CASE TuplesStep
    <2>1. ASSUME NEW v, Do(v), TuplesShape(v) PROVE QuietInv'
      <3>1. PICK p, t : p = page /\ t = tenant
        OBVIOUS
      <3> QED  BY <2>1, <3>1, ShowQuiet DEF Do, Step
    <2>2. ASSUME NEW kind, NEW arg, NEW v, v = view, Call(kind, arg, v) PROVE QuietInv'
      BY <2>2, CallQuiet
    <2>3. CASE handleDelete \/ handleSubmit
      BY <2>2, <2>3 DEF handleDelete, handleSubmit
    <2> QED  BY <1>5, <2>1, <2>3, TuplesStepNamed
  <1>6. CASE ReceiveTenants
    BY <1>6, ReceiveTenantsQuiet
  <1>7. CASE \E k \in Keys : Query(k)
    BY <1>7, QueryQuiet
  <1>8. ASSUME NEW m \in mutations, Mutation(m) PROVE QuietInv'
    <2>1. CASE Lose(m)
      BY <2>1 DEF Lose, Event, QuietInv
    <2> QED  BY <1>1, <1>8, <2>1, PerformQuiet, SettlesQuiet DEF Mutation, Settles
  <1>9. CASE \E load \in loads : FinishLoad(load)
    BY <1>9, FinishQuiet
  <1>10. CASE RestartServer \/ \E t \in Tenants : \/ OtherWrites(t, Typed)
                                                  \/ \E doc \in Valid : OtherLoads(t, doc)
                                                  \/ OtherCreates(t)
    BY <1>10 DEF RestartServer, OtherWrites, OtherLoads, OtherCreates, Other, Event, QuietInv
  <1>11. CASE UNCHANGED vars
    <2> SUFFICES ASSUME quiet PROVE LoadsOwned' /\ \A k \in DataKeys : Sound(k)'
      BY <1>11 DEF QuietInv, vars, bounds
    <2>1. UNCHANGED <<queries, existing, stored, registry, loads, mutations, screen>>
      BY <1>11 DEF vars, service, schemas
    <2>2. AllGoOn /\ Current' = Current
      BY <2>1, SameScreen DEF AllGoOn, GoesOn
    <2>3. LoadsOwned'
      BY <2>1, <2>2, LoadsGoOn DEF QuietInv
    <2>4. ASSUME NEW k \in DataKeys PROVE Sound(k)'
      BY <2>1, <2>2, UntoldGoesOn, ServedSame, SoundQueries DEF QuietInv
    <2> QED  BY <2>3, <2>4
  <1> QED  BY <1>2, <1>3, <1>4, <1>5, <1>6, <1>7, <1>8, <1>9, <1>10, <1>11 DEF Next

\* The keys on the screen that have tuples or a schema.
LEMMA ScreenKeys ==
  ASSUME NEW k \in Current, k[1] \in {"tuples", "schema"}, DataInv, NamesInv PROVE k \in DataKeys
  <1>1. tenant \in Tenants /\ schemaKey(tenant) \in DataKeys
    BY DEF DataInv, DataKeys, SchemaKeys
  <1>2. tenantKey[1] = "tenants" /\ \A t, n : changelogKey(t, n)[1] = "changelog"
    BY DEF tenantKey, changelogKey
  <1>3. CASE page = "tuples"
    <2>1. tupleKey(tenant, view.filter) \in DataKeys
      BY <1>1, <1>3 DEF NamesInv, DataKeys, TupleLists
    <2> QED  BY <1>1, <1>2, <1>3, <2>1 DEF Current, OnScreen
  <1>4. CASE page = "changelog"
    BY <1>2, <1>4 DEF Current, OnScreen
  <1>5. CASE page = "schema"
    BY <1>1, <1>2, <1>5 DEF Current, OnScreen
  <1>6. CASE page \notin {"tuples", "changelog", "schema"}
    BY <1>2, <1>6 DEF Current, OnScreen
  <1> QED  BY <1>3, <1>4, <1>5, <1>6

\* ScreenIsCurrent, for any number of tenants, filters, tuples, documents and
\* calls: what the hooks invalidate, what they are known to miss and what is
\* fetched when it comes on the screen cover every change.
THEOREM ScreenShowsService == Spec => []ScreenIsCurrent
  <1>1. DataInv /\ NamesInv /\ QuietInv => ScreenIsCurrent
    <2> SUFFICES ASSUME DataInv, NamesInv, QuietInv, mutations = {}, quiet,
                        NEW k \in Current, k \notin overtaken, k[1] \in {"tuples", "schema"}, request[k] = Idle
                 PROVE  cache[k] = Served(k)
      BY DEF ScreenIsCurrent
    <2>1. Sound(k)
      BY ScreenKeys DEF QuietInv
    <2>2. ~Untold(k)
      BY DEF Untold
    <2> QED  BY <2>1, <2>2 DEF Sound, Grounded, Coherent, Agrees
  <1>2. Init => FormInv
    BY FreshFits DEF Init, FormInv
  <1>3. CallsInv /\ PendingInv /\ MapsInv /\ DataInv /\ FormInv /\ NamesInv /\ QuietInv /\ [Next]_vars => QuietInv'
    BY QuietNext
  <1> QED  BY <1>1, <1>2, <1>3, CallsInit, CallsNext, PendingInit, PendingNext, MapsInit, MapsNext,
              DataInit, DataNext, FormNext, NamesInit, NamesNext, QuietInit, PTL DEF Spec
=============================================================================
