---------------------------- MODULE ConsoleEditor ----------------------------
(***************************************************************************)
(* The attributes page of the console: in the tab of the objects or of the *)
(* subjects an entity of the selected tenant is picked from a list or      *)
(* looked up, and its attributes are edited and saved.                     *)
(*                                                                         *)
(* What the service stores for an entity is a version number; zero is      *)
(* nothing.  useState takes its initial value only when the component is   *)
(* mounted, so that an editor keeps its text whatever is selected later.   *)
(***************************************************************************)
EXTENDS QueryCache

CONSTANTS
    Tenants,        \* the tenants of the selector
    Types, Ids,     \* the types and the identifiers of entities
    Attributed,     \* the entities that have attributes at the beginning
    NoEntity,       \* nothing selected
    Closed,         \* the editor is not mounted
    Budgets         \* bounds: how many selections of the user, saves, and faults or
                    \* writes of other clients there are

Entities == Types \X Ids

ASSUME EditorAssumption ==
    /\ NoEntity \notin Entities /\ Attributed \subseteq Entities
    /\ NoData \notin Nat /\ \A list \in SUBSET Entities : list # NoData
    /\ Budgets \subseteq [steps : Nat, saves : Nat, events : Nat]

Tabs == {"objects", "subjects"}

\* The filter of the list: a type, or the empty string for all types.
AllTypes == ""
Filters  == Types \cup {AllTypes}

entityKey(b, t, e) == <<"entity", b, t, e>>
listKey(b, t, f)   == <<"list", b, t, f>>
EntityKeys == {entityKey(b, t, e) : b \in Tabs, t \in Tenants, e \in Entities}
Keys == EntityKeys \cup {listKey(b, t, f) : b \in Tabs, t \in Tenants, f \in Filters}

VARIABLES
    stored,                 \* what the service stores
    tab, tenant, selected,  \* the tab, the tenant and the entity
    showNewForm, filterType,
    editor,                 \* the mounted editor: the key and the version it was filled
                            \* from, and whether that version had just been loaded
    saves,                  \* the saves under way
    left,                   \* what is left of the budget
    quiet                   \* nothing failed and nobody else wrote so far

screen == <<tab, tenant, selected, showNewForm, filterType>>
bounds == <<left, quiet>>
vars   == <<queries, stored, screen, editor, saves, bounds>>

\* The answer to a read; nothing stored is a 404.
Served(k) ==
    IF k[1] = "list"
    THEN {e \in Entities : stored[entityKey(k[2], k[3], e)] > 0 /\ k[4] \in {AllTypes, e[1]}}
    ELSE IF stored[k] = 0 THEN NoData ELSE stored[k]

-----------------------------------------------------------------------------
(* What is on the screen.                                                  *)

\* The key of the selected entity, if there is one.
Selected == {k \in EntityKeys : k = entityKey(tab, tenant, selected)}

Current == {listKey(tab, tenant, filterType)} \cup Selected

\* The page after a step: the editor is unmounted while nothing is selected
\* or the data are loading, is filled when it is mounted, and is otherwise
\* left alone.  A failed request leaves no data, and an empty editor is
\* shown.
Render ==
    LET shown == {k \in Selected' : ~isLoading(cache'[k], request'[k])}
    IN  editor' = IF shown = {} THEN Closed
                  ELSE IF editor # Closed THEN editor
                  ELSE LET k == CHOOSE x \in shown : TRUE
                       IN  [on |-> k, base |-> IF cache'[k] = NoData THEN 0 ELSE cache'[k],
                            loaded |-> cache[k] = NoData /\ saves = {} /\ k \notin overtaken']

\* The tenant and the entity that the hook of a rendering closes over.
Hook == [tenant |-> tenant, entity |-> selected]

\* A save whose tab is still mounted has the hook of the last rendering.
Hooks == {IF m.mounted THEN [m EXCEPT !.hook = Hook'] ELSE m : m \in saves}

\* An event of the user leads to another screen.
Show(b, t, e, form, filter) ==
    /\ left.steps > 0 /\ left' = [left EXCEPT !.steps = @ - 1]
    /\ tab' = b /\ tenant' = t /\ selected' = e /\ showNewForm' = form /\ filterType' = filter
    /\ Observe(Current' \ Current)
    /\ Render
    /\ saves' = IF b = tab THEN Hooks ELSE {[m EXCEPT !.mounted = FALSE] : m \in saves}
    /\ UNCHANGED <<stored, quiet>>

-----------------------------------------------------------------------------
(* Selecting.                                                              *)

SelectTab(b) == b # tab /\ Show(b, tenant, NoEntity, FALSE, AllTypes)

\* The page keeps the entity it has selected.
SelectTenant(t) == t # tenant /\ Show(tab, t, selected, showNewForm, filterType)

setFilterType(f) == f # filterType /\ Show(tab, tenant, selected, showNewForm, f)

\* The list of the entities that have attributes.
Rows == LET list == cache[listKey(tab, tenant, filterType)]
        IN  IF list = NoData THEN {} ELSE list

handleSelect(e) == e \in Rows \ {selected} /\ Show(tab, tenant, e, FALSE, filterType)

\* The plus button shows the lookup form in place of the editor.
OpenNewForm == ~showNewForm /\ Show(tab, tenant, NoEntity, TRUE, filterType)

handleLookupNew(e) == showNewForm /\ Show(tab, tenant, e, FALSE, filterType)

CancelNewForm == showNewForm /\ Show(tab, tenant, selected, FALSE, filterType)

-----------------------------------------------------------------------------
(* Requests of the query cache; those of an entity are not retried.        *)

AnswerRead(k) == Answer(k, Served(k)) /\ UNCHANGED <<stored, screen, editor, saves, bounds>>

ReceiveRead(k) ==
    /\ UNCHANGED <<stored, screen, saves, bounds>>
    /\ Receive(k, {})
    /\ Render

Event == left.events > 0 /\ left' = [left EXCEPT !.events = @ - 1] /\ quiet' = FALSE

FailRead(k) ==
    /\ Event
    /\ UNCHANGED <<stored, screen, saves>>
    /\ Fail(k)
    /\ Render

ReconnectRead(k) ==
    /\ Event
    /\ k \in Current
    /\ UNCHANGED <<stored, screen, saves>>
    /\ Reconnect(k)
    /\ Render

EvictRead(k) == k \notin Current /\ Evict(k) /\ UNCHANGED <<stored, screen, editor, saves, bounds>>

-----------------------------------------------------------------------------
(* Saving.                                                                 *)

\* The Save button writes what the editor holds to the key selected now.
\* It is disabled while a save of this tab is pending.
handleSave ==
    /\ editor # Closed
    /\ ~\E m \in saves : m.mounted
    /\ left.saves > 0 /\ left' = [left EXCEPT !.saves = @ - 1]
    /\ \E k \in Selected :
          saves' = saves \cup {[key |-> k, from |-> editor.on, hook |-> Hook,
                                mounted |-> TRUE, version |-> 0]}
    /\ UNCHANGED <<queries, stored, screen, editor, quiet>>

\* The service stores it; the editor that it is from has what is stored.
StoreSave(m) ==
    /\ m.version = 0
    /\ stored' = [stored EXCEPT ![m.key] = @ + 1]
    /\ saves' = (saves \ {m}) \cup {[m EXCEPT !.version = stored[m.key] + 1]}
    /\ editor' = IF m.mounted /\ editor # Closed /\ m.key = m.from /\ m.from = editor.on
                 THEN [editor EXCEPT !.base = stored[m.key] + 1] ELSE editor
    /\ UNCHANGED <<queries, screen, bounds>>

\* A mutant of Told: nothing is invalidated while nothing is selected.
Told_SelectedOnly(m) ==
    IF m.hook.entity = NoEntity THEN {}
    ELSE {entityKey(m.key[2], m.hook.tenant, m.hook.entity),
          listKey(m.key[2], m.hook.tenant, AllTypes)}

\* What the hook of a save invalidates: the entity that it names, if it names
\* one, and in any case the list of its tenant that has no filter.
Told(m) ==
    {k \in EntityKeys : k = entityKey(m.key[2], m.hook.tenant, m.hook.entity)}
        \cup {listKey(m.key[2], m.hook.tenant, AllTypes)}

\* What the save changed: the entity, and the lists when it is new there.
Changed(m) ==
    {m.key} \cup IF m.version = 1
                 THEN {listKey(m.key[2], m.key[3], f) : f \in {AllTypes, m.key[4][1]}} ELSE {}

\* What a save changed and its hook is not about: lists with a filter, and
\* after another selection the tenant or the entity that were left.
Unnamed(m) ==
    {k \in Changed(m) : \/ k[3] # m.hook.tenant
                        \/ k[4] # IF k[1] = "list" THEN AllTypes ELSE m.hook.entity}

\* onSuccess runs with the hook of the last rendering.
SaveSucceeds(m) ==
    /\ m.version # 0
    /\ saves' = saves \ {m}
    /\ UNCHANGED <<stored, screen, bounds>>
    /\ Invalidate(Told(m), Unnamed(m), Current)
    /\ Render

\* The request or its answer is lost: the client repeats it, or gives up,
\* or the service refuses it.
SaveFails(m) ==
    /\ Event
    /\ \/ saves' = saves \ {m}
       \/ m.version # 0 /\ saves' = (saves \ {m}) \cup {[m EXCEPT !.version = 0]}
    /\ UNCHANGED <<queries, stored, screen, editor>>

\* Another client of the API.
OtherWrites(k) ==
    /\ Event
    /\ stored' = [stored EXCEPT ![k] = @ + 1]
    /\ UNCHANGED <<queries, screen, editor, saves>>

-----------------------------------------------------------------------------
Init ==
    /\ stored = [k \in EntityKeys |-> IF k[4] \in Attributed THEN 1 ELSE 0]
    /\ tab = "objects" /\ tenant \in Tenants /\ selected = NoEntity
    /\ showNewForm = FALSE /\ filterType = AllTypes
    /\ InitQueries(Keys, [k \in {} |-> {}], Current)
    /\ editor = Closed /\ saves = {}
    /\ left \in Budgets /\ quiet = TRUE

Next ==
    \/ \E b \in Tabs : SelectTab(b)
    \/ \E t \in Tenants : SelectTenant(t)
    \/ \E f \in Filters : setFilterType(f)
    \/ \E e \in Entities : handleSelect(e) \/ handleLookupNew(e)
    \/ OpenNewForm \/ CancelNewForm
    \/ handleSave
    \/ \E m \in saves : StoreSave(m) \/ SaveSucceeds(m) \/ SaveFails(m)
    \/ \E k \in Keys : \/ AnswerRead(k) \/ ReceiveRead(k) \/ FailRead(k)
                       \/ ReconnectRead(k) \/ EvictRead(k)
    \/ \E k \in EntityKeys : OtherWrites(k)

Spec ==
    /\ Init
    /\ [][Next]_vars
    /\ \A k \in Keys : WF_vars(AnswerRead(k)) /\ WF_vars(ReceiveRead(k))

-----------------------------------------------------------------------------
(* Properties.                                                             *)

\* The editor on the screen was filled for the key that is selected, unless
\* the data of that key were in the cache already:
\* then the editor of the key before stays, and its text can be saved to
\* the wrong entity, or to the wrong tenant.
ForeignOnlyIfCached ==
    editor # Closed => \A k \in Selected : editor.on = k \/ cache[k] # NoData

\* An editor that was filled by a load, and not from the cache, has what is
\* stored: as long as nobody else writes and nothing fails, a save from it
\* never replaces attributes that it does not show, and an empty one never
\* replaces attributes at all.
LoadedEditorIsCurrent ==
    quiet /\ editor # Closed /\ saves = {} =>
        (editor.loaded => editor.base = stored[editor.on])

\* Once the saves and the reloads that they cause are over, the page has
\* what is stored, also when a read was under way during the save, and when
\* the selection was given up before it ended.  Excepted are a first load
\* that the save overtook, and what Unnamed lists: the entity of the save when
\* another one, or none, was selected before it ended, its tenant when
\* another tenant was, and the lists with a filter.
ReadsItsWrites ==
    quiet /\ saves = {} =>
        \A k \in Current \ overtaken : request[k] = Idle => cache[k] = Served(k)

\* A selection leads to an editor: the loading state ends, also for an
\* entity that has nothing stored and after a request that failed.
EditorOpens == selected # NoEntity ~> editor # Closed \/ selected = NoEntity
=============================================================================
