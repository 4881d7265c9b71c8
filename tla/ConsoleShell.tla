---------------------------- MODULE ConsoleShell ----------------------------
(***************************************************************************)
(* The frame of the console: the selected tenant, the mounted page and its *)
(* component state, the queries on the screen, the mutations under way,    *)
(* and the service behind them (a server with its in-memory store).        *)
(*                                                                         *)
(* A tuple is its object type, relation and subject type: the identifiers  *)
(* are those of one object and one subject.                                *)
(***************************************************************************)
EXTENDS QueryCache, SchemaRegistry

CONSTANTS
    Home,               \* the super tenant
    Relations,          \* per document and type, the subject types of its relations
    Permissions,        \* per document and type, its permissions
    Names,              \* per field, the names that schemas and tuples have there
    Words,              \* per field, the words that are typed into forms
    Filtered,           \* per field, the words that are looked for
    None,               \* nothing selected, chosen or shown
    PageSize,           \* the entries of one changelog page
    OldEntries,         \* the changelog entries there are at the beginning
    Loaded,             \* per tenant, the schema at the beginning
    Budgets,            \* bounds: the page where a session begins, how many steps
                        \* the user takes, moves to other pages and calls there
                        \* are, and how many faults or writes of others
    MaxLog              \* bound: the entries of a changelog, enough for every budget

Pages == {"tuples", "changelog", "explorer", "schema"}

ASSUME ShellAssumption ==
    /\ Home \in Tenants
    /\ Loaded \in [Tenants -> Valid \cup {NoSchema}]
    /\ PageSize \in Nat \ {0} /\ OldEntries \in Nat /\ MaxLog \in Nat
    /\ Budgets \subseteq [page : Pages, steps : Nat, moves : Nat, calls : Nat, events : Nat]
    /\ \A b \in Budgets : OldEntries + b.calls + b.events <= MaxLog

\* A field that is left empty.
NoWord == ""

Fields  == {"object_type", "relation", "subject_type"}
Empty   == [f \in Fields |-> NoWord]
Filters == {x \in [Fields -> (UNION {Filtered[f] : f \in Fields}) \cup {NoWord}] :
               \A f \in Fields : x[f] \in Filtered[f] \cup {NoWord}}
Tuples  == {x \in [Fields -> UNION {Names[f] : f \in Fields}] : \A f \in Fields : x[f] \in Names[f]}

ASSUME NamesAssumption ==
    /\ \A f \in Fields : Words[f] # {} /\ Words[f] \subseteq Names[f] /\ NoWord \notin Names[f]
    /\ \A doc \in Valid : \A type \in DOMAIN Relations[doc] :
          /\ type \in Names["object_type"] \cap Names["subject_type"]
          /\ \A relation \in DOMAIN Relations[doc][type] :
                relation \in Names["relation"]
                  /\ Relations[doc][type][relation] \subseteq Names["subject_type"]

\* An answer with data is not an error.
ASSUME AnswersAssumption == NoData \notin Docs /\ \A list \in SUBSET Tuples : list # NoData

tenantKey          == <<"tenants">>
tupleKey(t, x)     == <<"tuples", t, x>>
changelogKey(t, n) == <<"changelog", t, n>>
schemaKey(t)       == <<"schema", t>>
TupleLists == {tupleKey(t, x) : t \in Tenants, x \in Filters}
Keys == {tenantKey} \cup TupleLists \cup {schemaKey(t) : t \in Tenants}
            \cup {changelogKey(t, n) : t \in Tenants, n \in 0..MaxLog}

VARIABLES
    existing, stored, log,      \* the tenants, their tuples, the length of their logs
    page, tenant, view,         \* the page, the tenant, the state of the components
    mutations,                  \* calls that were made and not answered
    left,                       \* what is left of the budget
    quiet                       \* nothing failed and nobody else wrote so far

service == <<existing, stored, log, schemas>>
screen  == <<page, tenant, view>>
bounds  == <<left, quiet>>
vars    == <<queries, service, screen, mutations, bounds>>

-----------------------------------------------------------------------------
(* The service.                                                            *)

matches(x, filter) == \A f \in Fields : filter[f] \in {NoWord, x[f]}

\* The answer to a read, or NoData for an error.
Served(k) ==
    CASE k[1] = "tenants" -> existing
      [] k[1] = "schema"  -> IF handleGetSchema(k[2]) = NoSchema THEN NoData
                             ELSE handleGetSchema(k[2])
      [] k[1] = "tuples"  -> IF k[2] \notin existing THEN NoData
                             ELSE {x \in stored[k[2]] : matches(x, k[3])}
      [] k[1] = "changelog" ->
             IF k[2] \notin existing THEN NoData
             ELSE [entries |-> {n \in 1..log[k[2]] : n > k[3] /\ n <= k[3] + PageSize},
                   latest |-> log[k[2]]]

\* The subjects of the tuples on one relation, one level deep.
Expand(t, on) ==
    [subject |-> <<on.object_type, on.relation>>,
     children |-> {[subject |-> <<x.subject_type>>, children |-> {}] :
                      x \in {y \in stored[t] : matches(y, on)}}]

-----------------------------------------------------------------------------
(* The screen.                                                             *)

Fresh(p) ==
    CASE p = "tuples"    -> [filter |-> Empty, target |-> None, open |-> FALSE,
                             form |-> Empty,
                             under |-> [f \in Fields |-> NoSchema], pending |-> {}]
      [] p = "changelog" -> [sinceSeq |-> 0, base |-> 0, seen |-> {}, pending |-> {}]
      [] p = "explorer"  -> [form |-> Empty, tree |-> None, graph |-> None, pending |-> {}]
      [] p = "schema"    -> [tab |-> "editor", draft |-> None, upload |-> None,
                             type |-> NoWord, action |-> NoWord, asked |-> 0, decision |-> None,
                             pending |-> {}]

\* The queries that the components of a page observe.
OnScreen(p, t, v) ==
    {tenantKey} \cup
    CASE p = "tuples"    -> {tupleKey(t, v.filter), schemaKey(t)}
      [] p = "changelog" -> {changelogKey(t, v.sinceSeq)}
      [] p = "schema"    -> {schemaKey(t)}
      [] OTHER           -> {}

Current == OnScreen(page, tenant, view)

Ids(kind) == {m.id : m \in {n \in mutations : n.kind = kind}}
isPending(kind) == view.pending \cap Ids(kind) # {}

\* The rows of the tuple table.
Rows == IF cache[tupleKey(tenant, view.filter)] = NoData THEN {}
        ELSE cache[tupleKey(tenant, view.filter)]

\* The table is unmounted while there is no data, and forgets its state.
RenderTuples(v, data) ==
    IF data # NoData THEN v
    ELSE [v EXCEPT !.target = None, !.pending = @ \ Ids("delete")]

\* The entries that were on the screen, for the properties.
RenderChangelog(v, data) ==
    IF data = NoData THEN v ELSE [v EXCEPT !.seen = @ \cup data.entries]

\* The whole page is unmounted while the schema loads; the editor takes the
\* schema when it is mounted; the evaluator needs a schema.
RenderSchema(v, data, loading, error) ==
    LET source == IF data = NoData THEN NoSchema ELSE data
        filled == IF v.tab = "editor" /\ v.draft = None THEN [v EXCEPT !.draft = source] ELSE v
    IN  IF loading THEN Fresh("schema")
        ELSE IF v.tab = "evaluate" /\ data # NoData /\ ~error THEN v
        ELSE [filled EXCEPT !.type = NoWord, !.action = NoWord, !.asked = 0, !.decision = None,
                            !.pending = @ \ Ids("check")]

\* What is left of the components v after a step, given the new data.
Render(p, t, v) ==
    CASE p = "tuples"    -> RenderTuples(v, cache'[tupleKey(t, v.filter)])
      [] p = "changelog" -> RenderChangelog(v, cache'[changelogKey(t, v.sinceSeq)])
      [] p = "schema"    -> LET k == schemaKey(t)
                            IN  RenderSchema(v, cache'[k], isLoading(cache'[k], request'[k]),
                                             k \in failed')
      [] OTHER           -> v

\* A hook that is still mounted has the tenant of the last rendering, also
\* for a call that was made under another one.
Hooks(ms, t, v) == {IF m.id \in v.pending THEN [m EXCEPT !.hook = t] ELSE m : m \in ms}

\* The page p of tenant t with the components v is drawn.
Draw(p, t, v) ==
    /\ page' = p /\ tenant' = t
    /\ view' = Render(p, t, v)
    /\ mutations' = Hooks(mutations, t, view')

\* The same after an event of the user; new queries are fetched.
Show(p, t, v) ==
    /\ Observe(OnScreen(p, t, v) \ Current)
    /\ Draw(p, t, v)
    /\ UNCHANGED service

-----------------------------------------------------------------------------
(* Tenants, pages and queries.                                             *)

Step == left.steps > 0 /\ left' = [left EXCEPT !.steps = @ - 1] /\ UNCHANGED quiet
Event == left.events > 0 /\ left' = [left EXCEPT !.events = @ - 1] /\ quiet' = FALSE

\* The components keep their state when the tenant changes.
Switch(t) == IF page = "changelog" /\ t # tenant
             THEN [view EXCEPT !.base = view.sinceSeq, !.seen = {}] ELSE view

\* A dialog covers the tenant selector.
Covered == page = "tuples" /\ (view.open \/ (view.target # None /\ Rows # {}))

SelectTenant(t) ==
    /\ ~Covered
    /\ cache[tenantKey] # NoData /\ t \in cache[tenantKey] \ {tenant}
    /\ Step
    /\ Show(page, t, Switch(t))

\* A link of the sidebar, or the browser's history.
Navigate(p) ==
    /\ p # page
    /\ left.moves > 0 /\ left' = [left EXCEPT !.moves = @ - 1] /\ UNCHANGED quiet
    /\ Show(p, tenant, Fresh(p))

\* A mutant of Fallback: the tenant that is selected is not looked for.
Fallback_Keeps(list) == tenant

\* A tenant that is not in the list is given up.
Fallback(list) ==
    IF list = {} \/ tenant \in list THEN tenant
    ELSE IF Home \in list THEN Home ELSE CHOOSE t \in list : TRUE

\* The list of tenants arrives, and the effect of the selector runs.
ReceiveTenants ==
    LET arrived == request[tenantKey].data
        t == Fallback(IF arrived = NoData THEN {} ELSE arrived)
    IN  /\ Receive(tenantKey, OnScreen(page, t, Switch(t)) \ Current)
        /\ Draw(page, t, Switch(t))
        /\ UNCHANGED <<service, bounds>>

ReceiveQuery(k) ==
    /\ k # tenantKey
    /\ Receive(k, {})
    /\ Draw(page, tenant, view)
    /\ UNCHANGED <<service, bounds>>

AnswerQuery(k) == Answer(k, Served(k)) /\ UNCHANGED <<service, screen, mutations, bounds>>

FailQuery(k) ==
    /\ Event
    /\ Fail(k)
    /\ Draw(page, tenant, view)
    /\ UNCHANGED service

\* The network was away for a moment.
ReconnectQuery(k) ==
    /\ Event
    /\ k \in Current
    /\ Reconnect(k)
    /\ Draw(page, tenant, view)
    /\ UNCHANGED service

EvictQuery(k) == k \notin Current /\ Evict(k) /\ UNCHANGED <<service, screen, mutations, bounds>>

-----------------------------------------------------------------------------
(* Mutations.                                                              *)

\* A hook is called: nothing is shown of it but that it is pending.
Call(kind, arg, v) ==
    /\ left.calls > 0 /\ left' = [left EXCEPT !.calls = @ - 1]
    /\ mutations' = mutations \cup
          {[id |-> left.calls, kind |-> kind, tenant |-> tenant, hook |-> tenant, arg |-> arg,
            at |-> "sent", result |-> None]}
    /\ view' = [v EXCEPT !.pending = @ \cup {left.calls}]
    /\ UNCHANGED <<queries, service, page, tenant, quiet>>

Answered(m, at, result) ==
    mutations' = (mutations \ {m}) \cup {[m EXCEPT !.at = at, !.result = result]}

\* The calls that the service carries out.
accepts(m) ==
    /\ m.tenant \in existing
    /\ m.kind = "write" => m.arg \notin stored[m.tenant]
    /\ m.kind = "delete" => m.arg \in stored[m.tenant]
    /\ m.kind = "save" => m.arg \in Valid

Refuse(m) ==
    /\ m.at = "sent" /\ ~accepts(m)
    /\ Answered(m, "refused", None)
    /\ UNCHANGED <<queries, service, screen, bounds>>

\* The service writes or deletes a tuple of tenant t, and logs it.
Store(t, tuples) ==
    /\ log[t] < MaxLog
    /\ stored' = [stored EXCEPT ![t] = tuples]
    /\ log' = [log EXCEPT ![t] = @ + 1]
    /\ UNCHANGED <<existing, schemas>>

Perform(m) ==
    /\ m.at = "sent" /\ accepts(m)
    /\ \/ /\ m.kind = "write"
          /\ Store(m.tenant, stored[m.tenant] \cup {m.arg})
          /\ Answered(m, "ok", None)
       \/ /\ m.kind = "delete"
          /\ Store(m.tenant, stored[m.tenant] \ {m.arg})
          /\ Answered(m, "ok", None)
       \/ /\ m.kind = "save"
          /\ LoadSchema([id |-> m.id, tenant |-> m.tenant, doc |-> m.arg])
          /\ Answered(m, "loading", None)
          /\ UNCHANGED <<existing, stored, log>>
       \/ /\ m.kind = "expand"
          /\ Answered(m, "ok", Expand(m.tenant, m.arg))
          /\ UNCHANGED service
       \/ /\ m.kind = "check"
          /\ \E decision \in {"allow", "deny"} :
                /\ decision = "allow" => schemaForTenant(m.tenant) # NoSchema
                /\ Answered(m, "ok", decision)
          /\ UNCHANGED service
    /\ UNCHANGED <<queries, screen, bounds>>

\* The second write of a load, of the console or of another client.
FinishLoad(load) ==
    /\ Register(load)
    /\ mutations' = {IF m.id = load.id /\ m.at = "loading" THEN [m EXCEPT !.at = "ok"]
                     ELSE m : m \in mutations}
    /\ UNCHANGED <<queries, existing, stored, log, screen, bounds>>

\* The request or its answer is lost.  The client repeats what is sent with
\* PUT and DELETE, and reports an error for the rest and when it gives up.
Lose(m) ==
    /\ m.at \in {"sent", "loading", "ok"}
    /\ Event
    /\ \/ Answered(m, "refused", None)
       \/ m.kind \in {"save", "delete"} /\ Answered(m, "sent", None)
    /\ UNCHANGED <<queries, service, screen>>

\* A call ends: its hook invalidates keys, and the component is v.  What the
\* call changed and the hook does not name is missed.
Settle(m, keys, missed, v) ==
    /\ Invalidate(keys, missed, Current)
    /\ view' = Render(page, tenant, [v EXCEPT !.pending = @ \ {m.id}])
    /\ mutations' = mutations \ {m}
    /\ UNCHANGED <<service, page, tenant, bounds>>

\* An error is only reported.
SettleRefused(m) ==
    /\ m.at = "refused" /\ m.kind # "check"
    /\ Settle(m, {}, {}, view)

-----------------------------------------------------------------------------
(* Others.                                                                 *)

Other == Event /\ UNCHANGED <<queries, screen, mutations>>

OtherWrites(t, x) ==
    /\ t \in existing
    /\ Other
    /\ Store(t, IF x \in stored[t] THEN stored[t] \ {x} ELSE stored[t] \cup {x})

OtherLoads(t, doc) ==
    /\ t \in existing
    /\ Other
    /\ LoadSchema([id |-> 0, tenant |-> t, doc |-> doc])
    /\ UNCHANGED <<existing, stored, log>>

OtherCreates(t) ==
    /\ t \notin existing
    /\ Other
    /\ existing' = existing \cup {t}
    /\ UNCHANGED <<stored, log, schemas>>

\* The server starts again: what it had in memory is gone, the super tenant
\* is created, and requests it was working on are lost.
RestartServer ==
    /\ Event
    /\ Restart
    /\ existing' = {Home}
    /\ stored' = [t \in Tenants |-> {}]
    /\ log' = [t \in Tenants |-> 0]
    /\ mutations' = {IF m.at = "loading" THEN [m EXCEPT !.at = "sent"] ELSE m : m \in mutations}
    /\ UNCHANGED <<queries, screen>>
=============================================================================
