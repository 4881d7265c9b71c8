------------------------------- MODULE Console -------------------------------
(***************************************************************************)
(* The console: its pages, one of which is on the screen, and the service. *)
(***************************************************************************)
EXTENDS TuplesPage, ChangelogPage, ExplorerPage, SchemaPage

Typed == [f \in Fields |-> CHOOSE word \in Words[f] : TRUE]

\* Every tenant has one tuple and perhaps a schema.  Either the console was
\* just opened, with the tenant of an earlier session, or a page is visited
\* by someone who saw the list of tenants before.
Init ==
    /\ left \in Budgets /\ quiet = TRUE
    /\ page = left.page /\ tenant \in Tenants
    /\ view = Fresh(page)
    /\ \/ existing = {Home} /\ InitQueries(Keys, [k \in {} |-> {}], Current)
       \/ existing = Tenants /\ InitQueries(Keys, [k \in {tenantKey} |-> existing], Current)
    /\ stored = [t \in Tenants |-> IF t \in existing THEN {Typed} ELSE {}]
    /\ log = [t \in Tenants |-> IF t \in existing THEN OldEntries ELSE 0]
    /\ engine = [t \in Tenants |-> IF t \in existing THEN Loaded[t] ELSE NoSchema]
    /\ registry = engine /\ loads = {} /\ overlapped = {}
    /\ mutations = {}

Mutation(m) ==
    \/ Refuse(m) \/ Perform(m) \/ Lose(m) \/ SettleRefused(m)
    \/ WriteSucceeds(m) \/ DeleteSucceeds(m) \/ ExpandSucceeds(m)
    \/ SaveSucceeds(m) \/ CheckEnds(m)

Query(k) ==
    \/ ReceiveQuery(k) \/ AnswerQuery(k)
    \/ FailQuery(k) \/ ReconnectQuery(k) \/ EvictQuery(k)

Next ==
    \/ \E t \in Tenants : SelectTenant(t)
    \/ \E p \in Pages : Navigate(p)
    \/ TuplesStep \/ LoadMore \/ ExplorerStep \/ SchemaStep
    \/ ReceiveTenants
    \/ \E k \in Keys : Query(k)
    \/ \E m \in mutations : Mutation(m)
    \/ \E load \in loads : FinishLoad(load)
    \/ \E t \in Tenants : \/ OtherWrites(t, Typed)
                           \/ \E doc \in Valid : OtherLoads(t, doc)
                           \/ OtherCreates(t)
    \/ RestartServer

Spec == Init /\ [][Next]_vars

-----------------------------------------------------------------------------
(* Properties.                                                             *)

\* Once the tenants are known, the selected one is among them, also after
\* a restart of the service that lost it.
SelectedExists ==
    cache[tenantKey] \notin {NoData, {}} => tenant \in cache[tenantKey]

\* What is on the screen is what the service has: when nobody else writes,
\* nothing failed and nothing is under way, the rows and the schema that
\* are shown are those that are stored, whatever was fetched, cached and
\* invalidated before, for other filters, tenants and pages.  Two cases are
\* excepted: a first load that was under way when the change was told, and
\* a save that ended while another tenant was selected.
ScreenIsCurrent ==
    mutations = {} /\ quiet =>
        \A k \in Current \ overtaken :
            k[1] \in {"tuples", "schema"} /\ request[k] = Idle => cache[k] = Served(k)
=============================================================================
