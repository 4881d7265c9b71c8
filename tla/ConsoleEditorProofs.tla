------------------------- MODULE ConsoleEditorProofs -------------------------
(* Theorems about the attributes page of the console, for any number of     *)
(* tenants, entities, selections, saves and failures.                       *)
EXTENDS ConsoleEditor, TLAPS

USE EditorAssumption

-----------------------------------------------------------------------------
(* The inductive invariant.                                                 *)

Data     == Nat \cup (SUBSET Entities) \cup {NoData}
Requests == {Idle, Sent} \cup [at : {"answered"}, data : Data]
SaveHook == [tenant : Tenants, entity : Entities \cup {NoEntity}]
Save     == [key : EntityKeys, from : EntityKeys, hook : SaveHook,
             mounted : BOOLEAN, version : Nat]
Editor   == [on : EntityKeys, base : Data, loaded : BOOLEAN]

\* The types of the screen, and of the rest.
ScreenTypes ==
    /\ tab \in Tabs /\ tenant \in Tenants
    /\ selected \in Entities \cup {NoEntity} /\ filterType \in Filters

EditorTypes ==
    /\ ScreenTypes
    /\ stored \in [EntityKeys -> Nat]
    /\ cache \in [Keys -> Data] /\ request \in [Keys -> Requests]
    /\ editor = Closed \/ editor \in Editor
    /\ saves \in SUBSET Save

\* Nothing is ever deleted: what is not stored was never read.
Known ==
    \A k \in EntityKeys : stored[k] = 0 => cache[k] = NoData /\ request[k].data = NoData

\* The keys that a save changed on the service, and whose hook did not yet run.
Behind == UNION {Changed(m) : m \in {m \in saves : m.version # 0}}

\* An answer is what the service stores, and so are data that are not being
\* loaded, unless they will be loaded when they come on the screen.
Fresh(k) ==
    /\ request[k].at = "answered" => request[k].data = Served(k)
    /\ request[k] = Idle => \/ cache[k] = Served(k)
                            \/ k \notin Current /\ (cache[k] = NoData \/ k \in stale)

ReadsFresh == quiet => \A k \in Keys \ (overtaken \cup Behind) : Fresh(k)

\* An editor that was filled by a load follows what is stored: the saves under
\* way are all from it.
LoadedFollows ==
    quiet /\ editor # Closed /\ editor.loaded =>
        /\ editor.base = stored[editor.on]
        /\ \A m \in saves : m.mounted /\ m.from = editor.on

PageInv == EditorTypes /\ Known /\ ReadsFresh /\ LoadedFollows /\ ForeignOnlyIfCached

-----------------------------------------------------------------------------
(* Keys, and what the service answers.                                      *)

\* Keys of entities and keys of lists.
LEMMA KeysProperties ==
    /\ EntityKeys \subseteq Keys
    /\ \A k \in EntityKeys : k[1] = "entity"
    /\ \A k \in Keys : k \notin EntityKeys => k[1] = "list"
    /\ \A b \in Tabs, t \in Tenants, f \in Filters : listKey(b, t, f) \in Keys
    /\ \A b \in Tabs, t \in Tenants, e \in Entities : entityKey(b, t, e) \in EntityKeys
<1>1. EntityKeys \subseteq Keys
  BY DEF Keys
<1>2. \A k \in EntityKeys : k[1] = "entity"
  BY DEF EntityKeys, entityKey
<1>3. \A k \in Keys : k \notin EntityKeys => k[1] = "list"
  BY DEF Keys, listKey
<1>4. \A b \in Tabs, t \in Tenants, f \in Filters : listKey(b, t, f) \in Keys
  BY DEF Keys
<1>5. \A b \in Tabs, t \in Tenants, e \in Entities : entityKey(b, t, e) \in EntityKeys
  BY DEF EntityKeys
<1>6. QED BY <1>1, <1>2, <1>3, <1>4, <1>5

\* What is on the screen are keys, and at most one is of an entity.
LEMMA CurrentProperties ==
    ASSUME ScreenTypes
    PROVE  /\ Current \subseteq Keys /\ Selected \subseteq EntityKeys /\ Selected \subseteq Current
           /\ \A k, l \in Selected : k = l
BY KeysProperties DEF ScreenTypes, Current, Selected

\* The same of the next state.
LEMMA NextCurrentProperties ==
    ASSUME ScreenTypes'
    PROVE  /\ Current' \subseteq Keys /\ Selected' \subseteq EntityKeys /\ Selected' \subseteq Current'
           /\ \A k, l \in Selected' : k = l
BY KeysProperties DEF ScreenTypes, Current, Selected

\* The answers of the service.
LEMMA ServedProperties ==
    ASSUME stored \in [EntityKeys -> Nat], NEW k \in Keys
    PROVE  /\ Served(k) \in Data
           /\ k \in EntityKeys => /\ stored[k] = 0 => Served(k) = NoData
                                  /\ stored[k] # 0 => Served(k) = stored[k] /\ Served(k) # NoData
           /\ k \notin EntityKeys => Served(k) # NoData
<1>1. CASE k \in EntityKeys
  <2>1. k[1] # "list"
    BY <1>1, KeysProperties
  <2>2. stored[k] \in Nat /\ stored[k] # NoData
    BY <1>1
  <2>3. Served(k) = IF stored[k] = 0 THEN NoData ELSE stored[k]
    BY <2>1 DEF Served
  <2>4. Served(k) \in Data
    BY <2>2, <2>3 DEF Data
  <2>5. QED BY <1>1, <2>2, <2>3, <2>4
<1>2. CASE k \notin EntityKeys
  <2>1. k[1] = "list"
    BY <1>2, KeysProperties
  <2>2. Served(k) \in SUBSET Entities
    BY <2>1 DEF Served
  <2>3. QED BY <1>2, <2>2 DEF Data
<1>3. QED BY <1>1, <1>2

\* The states of a request.
LEMMA RequestProperties ==
    /\ Idle.at = "idle" /\ Sent.at = "sent" /\ Idle.data = NoData /\ Sent.data = NoData
    /\ Idle # Sent /\ Idle \in Requests /\ Sent \in Requests
    /\ \A r \in Requests : r.at = "answered" => r.data \in Data
    /\ \A r \in Requests : r.at \in {"idle", "sent", "answered"}
    /\ \A d \in Data : [at |-> "answered", data |-> d] \in Requests
BY DEF Idle, Sent, Requests

-----------------------------------------------------------------------------
(* Rendering.                                                               *)

\* After a step the editor is closed, or as it was, or newly filled.
LEMMA RenderCases ==
    ASSUME Render, ScreenTypes'
    PROVE  \/ editor' = Closed
           \/ /\ editor # Closed /\ editor' = editor
              /\ \E k \in Selected' : ~isLoading(cache'[k], request'[k])
           \/ /\ editor = Closed
              /\ \E k \in Selected' :
                    /\ ~isLoading(cache'[k], request'[k])
                    /\ editor' = [on |-> k, base |-> IF cache'[k] = NoData THEN 0 ELSE cache'[k],
                                  loaded |-> cache[k] = NoData /\ saves = {} /\ k \notin overtaken']
<1> DEFINE shown == {k \in Selected' : ~isLoading(cache'[k], request'[k])}
           filled(k) == [on |-> k, base |-> IF cache'[k] = NoData THEN 0 ELSE cache'[k],
                         loaded |-> cache[k] = NoData /\ saves = {} /\ k \notin overtaken']
<1>1. editor' = IF shown = {} THEN Closed
                ELSE IF editor # Closed THEN editor ELSE filled(CHOOSE x \in shown : TRUE)
  BY DEF Render
<1>2. shown # {} => (CHOOSE x \in shown : TRUE) \in shown
  OBVIOUS
<1>3. PICK c : c = CHOOSE x \in shown : TRUE
  OBVIOUS
<1>4. CASE shown = {}
  BY <1>1, <1>4
<1>5. CASE shown # {} /\ editor # Closed
  BY <1>1, <1>5
<1>6. CASE shown # {} /\ editor = Closed
  <2>1. editor' = filled(c) /\ c \in shown
    BY <1>1, <1>2, <1>3, <1>6
  <2>2. c \in Selected' /\ ~isLoading(cache'[c], request'[c])
    BY <2>1
  <2>3. QED BY <1>6, <2>1, <2>2
<1>7. QED BY <1>4, <1>5, <1>6

\* The editor stays an editor.
LEMMA RenderTypes ==
    ASSUME Render, ScreenTypes', editor = Closed \/ editor \in Editor, cache' \in [Keys -> Data]
    PROVE  editor' = Closed \/ editor' \in Editor
<1>1. ASSUME NEW k \in Selected',
             editor' = [on |-> k, base |-> IF cache'[k] = NoData THEN 0 ELSE cache'[k],
                        loaded |-> cache[k] = NoData /\ saves = {} /\ k \notin overtaken']
      PROVE  editor' \in Editor
  <2>1. k \in EntityKeys /\ cache'[k] \in Data /\ 0 \in Data
    BY NextCurrentProperties, KeysProperties DEF Data
  <2>2. QED BY <1>1, <2>1 DEF Editor
<1>2. QED BY <1>1, RenderCases

\* An editor that stays open shows its own key or data that were in the cache.
LEMMA RenderForeign ==
    ASSUME Render, ScreenTypes',
           editor # Closed => \A k \in Selected' :
              ~isLoading(cache'[k], request'[k]) => editor.on = k \/ cache'[k] # NoData
    PROVE  ForeignOnlyIfCached'
<1>1. \A k, l \in Selected' : k = l
  BY NextCurrentProperties
<1>2. CASE editor' = Closed
  BY <1>2 DEF ForeignOnlyIfCached
<1>3. CASE /\ editor # Closed /\ editor' = editor
           /\ \E k \in Selected' : ~isLoading(cache'[k], request'[k])
  <2>1. PICK k \in Selected' : ~isLoading(cache'[k], request'[k])
    BY <1>3
  <2>2. editor'.on = k \/ cache'[k] # NoData
    BY <1>3, <2>1
  <2>3. QED BY <1>1, <2>2 DEF ForeignOnlyIfCached
<1>4. ASSUME NEW k \in Selected',
             editor' = [on |-> k, base |-> IF cache'[k] = NoData THEN 0 ELSE cache'[k],
                        loaded |-> cache[k] = NoData /\ saves = {} /\ k \notin overtaken']
      PROVE  ForeignOnlyIfCached'
  <2>1. editor'.on = k
    BY <1>4
  <2>2. QED BY <1>1, <2>1 DEF ForeignOnlyIfCached
<1>5. QED BY <1>2, <1>3, <1>4, RenderCases

\* An editor that is filled by a load has what is stored.
LEMMA RenderLoaded ==
    ASSUME Render, ScreenTypes', LoadedFollows, ReadsFresh', stored \in [EntityKeys -> Nat],
           UNCHANGED stored, quiet' => quiet,
           saves = {} => saves' = {},
           editor # Closed /\ editor' = editor =>
              \A m \in saves' : \E n \in saves : n.from = m.from /\ n.mounted = m.mounted,
           \A k \in Selected' : cache[k] = NoData /\ cache'[k] # NoData => request'[k] = Idle
    PROVE  LoadedFollows'
<1>1. CASE editor' = Closed
  BY <1>1 DEF LoadedFollows
<1>2. CASE editor # Closed /\ editor' = editor
  <2>1. SUFFICES ASSUME quiet', editor'.loaded
                 PROVE  /\ editor'.base = stored'[editor'.on]
                        /\ \A m \in saves' : m.mounted /\ m.from = editor'.on
    BY DEF LoadedFollows
  <2>2. editor.base = stored[editor.on] /\ \A m \in saves : m.mounted /\ m.from = editor.on
    BY <1>2, <2>1 DEF LoadedFollows
  <2>3. QED BY <1>2, <2>2
<1>3. ASSUME NEW k \in Selected', ~isLoading(cache'[k], request'[k]),
             editor' = [on |-> k, base |-> IF cache'[k] = NoData THEN 0 ELSE cache'[k],
                        loaded |-> cache[k] = NoData /\ saves = {} /\ k \notin overtaken']
      PROVE  LoadedFollows'
  <2>1. SUFFICES ASSUME quiet', editor'.loaded
                 PROVE  /\ editor'.base = stored'[editor'.on]
                        /\ \A m \in saves' : m.mounted /\ m.from = editor'.on
    BY DEF LoadedFollows
  <2>2. cache[k] = NoData /\ saves = {} /\ k \notin overtaken' /\ editor'.on = k
    BY <1>3, <2>1
  <2>3. k \in EntityKeys /\ k \in Keys /\ k \in Current'
    BY NextCurrentProperties, KeysProperties
  <2>4. k \notin Behind' /\ saves' = {}
    BY <2>2 DEF Behind
  <2>5. request'[k] = Idle
    BY <1>3, <2>2 DEF isLoading
  <2>6. Fresh(k)'
    BY <2>1, <2>2, <2>3, <2>4 DEF ReadsFresh
  <2>7. cache'[k] = Served(k)'
    BY <2>3, <2>5, <2>6 DEF Fresh
  <2>8. Served(k)' = Served(k)
    BY DEF Served
  <2>9. cache'[k] = Served(k) /\ (stored[k] = 0 => Served(k) = NoData)
        /\ (stored[k] # 0 => Served(k) = stored[k] /\ Served(k) # NoData)
    BY <2>3, <2>7, <2>8, ServedProperties
  <2>10. editor'.base = stored[k]
    BY <1>3, <2>9
  <2>11. QED BY <2>2, <2>4, <2>10
<1>4. QED BY <1>1, <1>2, <1>3, RenderCases

-----------------------------------------------------------------------------
(* Another screen.                                                          *)

\* What a save changed stays behind while the save is under way.
LEMMA BehindKept ==
    ASSUME \A m \in saves : \E n \in saves' : n.key = m.key /\ n.version = m.version
    PROVE  Behind \subseteq Behind'
<1>1. SUFFICES ASSUME NEW m \in saves, m.version # 0, NEW k \in Changed(m)
               PROVE  k \in Behind'
  BY DEF Behind
<1>2. PICK n \in saves' : n.key = m.key /\ n.version = m.version
  OBVIOUS
<1>3. Changed(n) = Changed(m)
  BY <1>2 DEF Changed
<1>4. n \in {x \in saves' : x.version # 0} /\ k \in Changed(n)
  BY <1>1, <1>2, <1>3
<1>5. QED BY <1>4 DEF Behind

\* A step that only changes which hook the saves have.
LEMMA HooksProperties ==
    ASSUME saves \in SUBSET Save, ScreenTypes',
           saves' = Hooks \/ saves' = {[m EXCEPT !.mounted = FALSE] : m \in saves}
    PROVE  /\ saves' \in SUBSET Save
           /\ \A m \in saves : \E n \in saves' : n.key = m.key /\ n.version = m.version
           /\ saves = {} => saves' = {}
           /\ saves' = Hooks =>
                 \A m \in saves' : \E n \in saves : n.from = m.from /\ n.mounted = m.mounted
<1>1. CASE saves' = Hooks
  <2> DEFINE h == Hook'
             f(m) == IF m.mounted THEN [m EXCEPT !.hook = h] ELSE m
  <2>1. saves' = {f(m) : m \in saves}
    BY <1>1 DEF Hooks
  <2>2. h \in SaveHook
    BY DEF Hook, SaveHook, ScreenTypes
  <2> HIDE DEF h
  <2>3. \A m \in Save : /\ f(m) \in Save /\ f(m).key = m.key /\ f(m).version = m.version
                        /\ f(m).from = m.from /\ f(m).mounted = m.mounted
    BY <2>2 DEF Save
  <2> HIDE DEF f
  <2>4. QED BY <2>1, <2>3
<1>2. CASE saves' = {[m EXCEPT !.mounted = FALSE] : m \in saves} /\ saves' # Hooks
  <2> DEFINE f(m) == [m EXCEPT !.mounted = FALSE]
  <2>1. \A m \in Save : f(m) \in Save /\ f(m).key = m.key /\ f(m).version = m.version
    BY DEF Save
  <2>2. saves' = {f(m) : m \in saves}
    BY <1>2
  <2> HIDE DEF f
  <2>3. QED BY <1>2, <2>1, <2>2
<1>3. QED BY <1>1, <1>2

\* An event of the user keeps the invariant.
LEMMA ShowPreserves ==
    ASSUME PageInv, NEW b \in Tabs, NEW t \in Tenants, NEW e \in Entities \cup {NoEntity},
           NEW form, NEW filter \in Filters, Show(b, t, e, form, filter),
           b # tab => e = NoEntity
    PROVE  PageInv'
<1>1. /\ ScreenTypes' /\ UNCHANGED <<stored, quiet>> /\ Render
      /\ saves' = IF b = tab THEN Hooks ELSE {[m EXCEPT !.mounted = FALSE] : m \in saves}
      /\ tab' = b /\ tenant' = t /\ selected' = e
  BY DEF Show, ScreenTypes
<1>2. PICK fetched :
        /\ \A k \in fetched : k \in DOMAIN request => request[k] = Idle
        /\ \A k \in Current' \ Current :
              request[k] = Idle /\ (cache[k] = NoData \/ k \in stale) => k \in fetched
        /\ request' = [k \in DOMAIN request |-> IF k \in fetched THEN Sent ELSE request[k]]
        /\ overtaken' = overtaken \ fetched /\ UNCHANGED <<cache, stale>>
  BY DEF Show, Observe, Fetched, Ask
<1>3. /\ EditorTypes /\ Known /\ ReadsFresh /\ LoadedFollows /\ ForeignOnlyIfCached
      /\ ScreenTypes /\ stored \in [EntityKeys -> Nat]
      /\ cache \in [Keys -> Data] /\ request \in [Keys -> Requests]
      /\ editor = Closed \/ editor \in Editor
      /\ saves \in SUBSET Save
  BY DEF PageInv, EditorTypes
<1>4. /\ saves' \in SUBSET Save
      /\ \A m \in saves : \E n \in saves' : n.key = m.key /\ n.version = m.version
      /\ saves = {} => saves' = {}
      /\ saves' = Hooks => \A m \in saves' : \E n \in saves : n.from = m.from /\ n.mounted = m.mounted
  BY <1>1, <1>3, HooksProperties
<1>5. request' \in [Keys -> Requests] /\ \A k \in Keys : request'[k] = IF k \in fetched THEN Sent ELSE request[k]
  BY <1>2, <1>3, RequestProperties
<1>6. EditorTypes'
  <2>1. cache' \in [Keys -> Data]
    BY <1>2, <1>3
  <2>2. editor' = Closed \/ editor' \in Editor
    BY <1>1, <1>3, <2>1, RenderTypes
  <2>3. QED BY <1>1, <1>3, <1>4, <1>5, <2>1, <2>2 DEF EditorTypes
<1>7. Known'
  BY <1>1, <1>2, <1>3, <1>5, RequestProperties, KeysProperties DEF Known
<1>8. ReadsFresh'
  <2>1. SUFFICES ASSUME quiet', NEW k \in Keys, k \notin overtaken', k \notin Behind'
                 PROVE  Fresh(k)'
    BY DEF ReadsFresh
  <2>2. Served(k)' = Served(k)
    BY <1>1 DEF Served
  <2>3. CASE k \in fetched
    BY <1>5, <2>3, RequestProperties DEF Fresh
  <2>4. CASE k \notin fetched
    <3>1. request'[k] = request[k] /\ cache'[k] = cache[k] /\ k \notin overtaken
      BY <1>2, <1>5, <2>1, <2>4
    <3>2. k \notin Behind
      BY <1>4, <2>1, BehindKept
    <3>3. Fresh(k)
      BY <1>1, <1>3, <2>1, <3>1, <3>2 DEF ReadsFresh
    <3>4. request[k] = Idle /\ (cache[k] = NoData \/ k \in stale) /\ k \notin Current => k \notin Current'
      BY <1>2, <2>4
    <3>5. QED BY <1>2, <2>2, <3>1, <3>3, <3>4 DEF Fresh
  <2>5. QED BY <2>3, <2>4
<1>9. ForeignOnlyIfCached'
  <2>1. ASSUME editor # Closed, NEW k \in Selected', ~isLoading(cache'[k], request'[k]), cache'[k] = NoData
        PROVE  editor.on = k
    <3>1. k \in Keys /\ k \in EntityKeys /\ k \in Current'
      BY <1>1, NextCurrentProperties, KeysProperties
    <3>2. request'[k] = Idle /\ k \notin fetched /\ request[k] = Idle /\ cache[k] = NoData
      BY <1>2, <1>5, <2>1, <3>1, RequestProperties DEF isLoading
    <3>3. k \in Current
      BY <1>2, <3>1, <3>2
    <3>4. k[1] = "entity" /\ listKey(tab, tenant, filterType)[1] = "list"
      BY <3>1, KeysProperties DEF listKey
    <3>5. k \in Selected
      BY <3>3, <3>4 DEF Current
    <3>6. QED BY <1>3, <2>1, <3>2, <3>5 DEF ForeignOnlyIfCached
  <2>2. QED BY <1>1, <2>1, RenderForeign
<1>10. LoadedFollows'
  <2>1. ASSUME editor # Closed, editor' = editor
        PROVE  \A m \in saves' : \E n \in saves : n.from = m.from /\ n.mounted = m.mounted
    <3>1. CASE b = tab
      BY <1>1, <1>4, <3>1
    <3>2. CASE b # tab
      <4>1. entityKey(tab, tenant, selected)' = <<"entity", b, t, NoEntity>>
        BY <1>1, <3>2 DEF entityKey
      <4>2. Selected' = {}
        BY <1>1, <4>1 DEF Selected, EntityKeys, entityKey
      <4>3. editor' = Closed
        BY <1>1, <4>2, RenderCases
      <4>4. QED BY <2>1, <4>3
    <3>3. QED BY <3>1, <3>2
  <2>2. QED BY <1>1, <1>2, <1>3, <1>4, <1>8, <2>1, RenderLoaded
<1>11. QED BY <1>6, <1>7, <1>8, <1>9, <1>10 DEF PageInv

-----------------------------------------------------------------------------
(* Requests.                                                                *)

\* The parts of the invariant, by name.
LEMMA PageParts ==
    ASSUME PageInv
    PROVE  /\ EditorTypes /\ Known /\ ReadsFresh /\ LoadedFollows /\ ForeignOnlyIfCached
           /\ ScreenTypes /\ stored \in [EntityKeys -> Nat]
           /\ cache \in [Keys -> Data] /\ request \in [Keys -> Requests]
           /\ editor = Closed \/ editor \in Editor
           /\ saves \in SUBSET Save
BY DEF PageInv, EditorTypes

\* The screen stays.
LEMMA SameScreen ==
    ASSUME ScreenTypes, UNCHANGED screen
    PROVE  ScreenTypes' /\ Current' = Current /\ Selected' = Selected
BY DEF screen, ScreenTypes, Current, Selected

\* The service answers a read.
LEMMA AnswerReadPreserves ==
    ASSUME PageInv, NEW k \in Keys, AnswerRead(k)
    PROVE  PageInv'
<1>1. /\ request[k].at = "sent"
      /\ request' = [request EXCEPT ![k] = [at |-> "answered", data |-> Served(k)]]
      /\ UNCHANGED <<cache, stale, overtaken, stored, editor, saves, quiet>> /\ UNCHANGED screen
  BY DEF AnswerRead, Answer, bounds
<1>2. /\ EditorTypes /\ Known /\ ReadsFresh /\ LoadedFollows /\ ForeignOnlyIfCached
      /\ ScreenTypes /\ stored \in [EntityKeys -> Nat]
      /\ cache \in [Keys -> Data] /\ request \in [Keys -> Requests]
      /\ editor = Closed \/ editor \in Editor
      /\ saves \in SUBSET Save
  BY PageParts
<1>3. ScreenTypes' /\ Current' = Current /\ Selected' = Selected
  BY <1>1, <1>2, SameScreen
<1>4. /\ Served(k) \in Data
      /\ k \in EntityKeys /\ stored[k] = 0 => Served(k) = NoData
  BY <1>2, ServedProperties
<1> DEFINE r == [at |-> "answered", data |-> Served(k)]
<1>5. r \in Requests /\ r.at = "answered" /\ r.data = Served(k) /\ r # Idle
  BY <1>4, RequestProperties
<1> HIDE DEF r
<1>6. request' \in [Keys -> Requests] /\ \A x \in Keys : request'[x] = IF x = k THEN r ELSE request[x]
  BY <1>1, <1>2, <1>5 DEF r
<1>7. EditorTypes'
  BY <1>1, <1>2, <1>3, <1>6 DEF EditorTypes
<1>8. Known'
  BY <1>1, <1>2, <1>4, <1>5, <1>6, KeysProperties DEF Known
<1>9. ReadsFresh'
  <2>1. SUFFICES ASSUME quiet', NEW x \in Keys, x \notin overtaken', x \notin Behind'
                 PROVE  Fresh(x)'
    BY DEF ReadsFresh
  <2>2. Served(x)' = Served(x) /\ x \notin Behind
    BY <1>1, <2>1 DEF Served, Behind
  <2>3. Fresh(x)
    BY <1>1, <1>2, <2>1, <2>2 DEF ReadsFresh
  <2>4. CASE x = k
    BY <1>5, <1>6, <2>2, <2>4 DEF Fresh
  <2>5. CASE x # k
    <3>1. request'[x] = request[x] /\ cache'[x] = cache[x]
      BY <1>1, <1>6, <2>5
    <3>2. QED BY <1>1, <1>3, <2>2, <2>3, <3>1 DEF Fresh
  <2>6. QED BY <2>4, <2>5
<1>10. LoadedFollows'
  BY <1>1, <1>2 DEF LoadedFollows
<1>11. ForeignOnlyIfCached'
  BY <1>1, <1>2, <1>3 DEF ForeignOnlyIfCached
<1>12. QED BY <1>7, <1>8, <1>9, <1>10, <1>11 DEF PageInv

\* An answer is taken in.
LEMMA ReceiveReadPreserves ==
    ASSUME PageInv, NEW k \in Keys, ReceiveRead(k)
    PROVE  PageInv'
<1>1. /\ request[k].at = "answered" /\ Render /\ UNCHANGED screen
      /\ request' = [[x \in DOMAIN request |-> request[x]] EXCEPT ![k] = Idle]
      /\ cache' = IF request[k].data # NoData THEN [cache EXCEPT ![k] = request[k].data] ELSE cache
      /\ stale' = IF request[k].data # NoData THEN stale \ {k} ELSE stale
      /\ UNCHANGED <<overtaken, stored, saves, quiet>>
  BY DEF ReceiveRead, Receive, Fetched, Ask, bounds
<1>2. /\ EditorTypes /\ Known /\ ReadsFresh /\ LoadedFollows /\ ForeignOnlyIfCached
      /\ ScreenTypes /\ stored \in [EntityKeys -> Nat]
      /\ cache \in [Keys -> Data] /\ request \in [Keys -> Requests]
      /\ editor = Closed \/ editor \in Editor
      /\ saves \in SUBSET Save
  BY PageParts
<1>3. ScreenTypes' /\ Current' = Current /\ Selected' = Selected
  BY <1>1, <1>2, SameScreen
<1>4. request' \in [Keys -> Requests] /\ \A x \in Keys : request'[x] = IF x = k THEN Idle ELSE request[x]
  BY <1>1, <1>2, RequestProperties
<1>5. /\ cache' \in [Keys -> Data]
      /\ \A x \in Keys : cache'[x] = IF x = k /\ request[k].data # NoData THEN request[k].data ELSE cache[x]
  <2>1. request[k].data \in Data
    BY <1>1, <1>2, RequestProperties
  <2>2. QED BY <1>1, <1>2, <2>1
<1>6. EditorTypes'
  <2>1. editor' = Closed \/ editor' \in Editor
    BY <1>1, <1>2, <1>3, <1>5, RenderTypes
  <2>2. QED BY <1>1, <1>2, <1>3, <1>4, <1>5, <2>1 DEF EditorTypes
<1>7. Known'
  BY <1>1, <1>2, <1>4, <1>5, RequestProperties, KeysProperties DEF Known
<1>8. ReadsFresh'
  <2>1. SUFFICES ASSUME quiet', NEW x \in Keys, x \notin overtaken', x \notin Behind'
                 PROVE  Fresh(x)'
    BY DEF ReadsFresh
  <2>2. Served(x)' = Served(x) /\ x \notin Behind
    BY <1>1, <2>1 DEF Served, Behind
  <2>3. Fresh(x)
    BY <1>1, <1>2, <2>1, <2>2 DEF ReadsFresh
  <2>4. CASE x = k
    <3>1. request[k].data = Served(k)
      BY <1>1, <2>3, <2>4 DEF Fresh
    <3>2. cache'[k] = Served(k)
      <4>1. CASE request[k].data # NoData
        BY <1>5, <3>1, <4>1
      <4>2. CASE request[k].data = NoData
        <5>1. k \in EntityKeys /\ stored[k] = 0
          BY <1>2, <3>1, <4>2, ServedProperties
        <5>2. cache[k] = NoData
          BY <1>2, <5>1 DEF Known
        <5>3. QED BY <1>5, <3>1, <4>2, <5>2
      <4>3. QED BY <4>1, <4>2
    <3>3. request'[k].at # "answered"
      BY <1>4, RequestProperties
    <3>4. QED BY <2>2, <2>4, <3>2, <3>3 DEF Fresh
  <2>5. CASE x # k
    <3>1. request'[x] = request[x] /\ cache'[x] = cache[x] /\ (x \in stale => x \in stale')
      BY <1>1, <1>4, <1>5, <2>5
    <3>2. QED BY <1>3, <2>2, <2>3, <3>1 DEF Fresh
  <2>6. QED BY <2>4, <2>5
<1>9. ForeignOnlyIfCached'
  <2>1. ASSUME editor # Closed, NEW x \in Selected', ~isLoading(cache'[x], request'[x])
        PROVE  editor.on = x \/ cache'[x] # NoData
    <3>1. x \in Keys /\ x \in Selected
      BY <1>3, NextCurrentProperties, KeysProperties
    <3>2. editor.on = x \/ cache[x] # NoData
      BY <1>2, <2>1, <3>1 DEF ForeignOnlyIfCached
    <3>3. QED BY <1>5, <3>1, <3>2
  <2>2. QED BY <1>1, <1>3, <2>1, RenderForeign
<1>10. LoadedFollows'
  <2>1. \A x \in Selected' : cache[x] = NoData /\ cache'[x] # NoData => request'[x] = Idle
    BY <1>3, <1>4, <1>5, NextCurrentProperties, KeysProperties
  <2>2. QED BY <1>1, <1>2, <1>3, <1>8, <2>1, RenderLoaded
<1>11. QED BY <1>6, <1>7, <1>8, <1>9, <1>10 DEF PageInv

\* A request fails, or the browser asks again after it was offline: nothing is
\* claimed of what the page then has, but the editor is still of its own key.
LEMMA FaultPreserves ==
    ASSUME PageInv, NEW k \in Keys, FailRead(k) \/ ReconnectRead(k)
    PROVE  PageInv'
<1>1. /\ Render /\ UNCHANGED screen /\ UNCHANGED <<cache, stored, saves>> /\ ~quiet'
      /\ request[k] = Idle => request' = [request EXCEPT ![k] = Sent]
      /\ request[k] # Idle => request' = [request EXCEPT ![k] = Idle]
  BY DEF FailRead, Fail, ReconnectRead, Reconnect, Event
<1>2. /\ EditorTypes /\ Known /\ ReadsFresh /\ LoadedFollows /\ ForeignOnlyIfCached
      /\ ScreenTypes /\ stored \in [EntityKeys -> Nat]
      /\ cache \in [Keys -> Data] /\ request \in [Keys -> Requests]
      /\ editor = Closed \/ editor \in Editor
      /\ saves \in SUBSET Save
  BY PageParts
<1>3. ScreenTypes' /\ Current' = Current /\ Selected' = Selected
  BY <1>1, <1>2, SameScreen
<1>4. request' \in [Keys -> Requests] /\ \A x \in Keys : request'[x] \in {Idle, Sent, request[x]}
  BY <1>1, <1>2, RequestProperties
<1>5. EditorTypes'
  <2>1. editor' = Closed \/ editor' \in Editor
    BY <1>1, <1>2, <1>3, RenderTypes
  <2>2. QED BY <1>1, <1>2, <1>3, <1>4, <2>1 DEF EditorTypes
<1>6. Known'
  BY <1>1, <1>2, <1>4, RequestProperties, KeysProperties DEF Known
<1>7. ReadsFresh' /\ LoadedFollows'
  BY <1>1 DEF ReadsFresh, LoadedFollows
<1>8. ForeignOnlyIfCached'
  <2>1. ASSUME editor # Closed, NEW x \in Selected', ~isLoading(cache'[x], request'[x])
        PROVE  editor.on = x \/ cache'[x] # NoData
    BY <1>1, <1>2, <1>3, <2>1 DEF ForeignOnlyIfCached
  <2>2. QED BY <1>1, <1>3, <2>1, RenderForeign
<1>9. QED BY <1>5, <1>6, <1>7, <1>8 DEF PageInv

\* Data that are not on the screen are dropped.
LEMMA EvictReadPreserves ==
    ASSUME PageInv, NEW k \in Keys, EvictRead(k)
    PROVE  PageInv'
<1>1. /\ k \notin Current /\ request[k] = Idle /\ cache' = [cache EXCEPT ![k] = NoData]
      /\ stale' = stale \ {k}
      /\ UNCHANGED <<request, overtaken, stored, editor, saves, quiet>> /\ UNCHANGED screen
  BY DEF EvictRead, Evict, bounds
<1>2. /\ EditorTypes /\ Known /\ ReadsFresh /\ LoadedFollows /\ ForeignOnlyIfCached
      /\ ScreenTypes /\ stored \in [EntityKeys -> Nat]
      /\ cache \in [Keys -> Data] /\ request \in [Keys -> Requests]
      /\ editor = Closed \/ editor \in Editor
      /\ saves \in SUBSET Save
  BY PageParts
<1>3. ScreenTypes' /\ Current' = Current /\ Selected' = Selected
  BY <1>1, <1>2, SameScreen
<1>4. /\ cache' \in [Keys -> Data]
      /\ \A x \in Keys : cache'[x] = IF x = k THEN NoData ELSE cache[x]
  <2>1. NoData \in Data
    BY DEF Data
  <2>2. QED BY <1>1, <1>2, <2>1
<1>5. EditorTypes'
  BY <1>1, <1>2, <1>3, <1>4 DEF EditorTypes
<1>6. Known'
  BY <1>1, <1>2, <1>4, KeysProperties DEF Known
<1>7. ReadsFresh'
  <2>1. SUFFICES ASSUME quiet', NEW x \in Keys, x \notin overtaken', x \notin Behind'
                 PROVE  Fresh(x)'
    BY DEF ReadsFresh
  <2>2. Served(x)' = Served(x) /\ x \notin Behind
    BY <1>1, <2>1 DEF Served, Behind
  <2>3. Fresh(x)
    BY <1>1, <1>2, <2>1, <2>2 DEF ReadsFresh
  <2>4. CASE x = k
    BY <1>1, <1>3, <1>4, <2>4, RequestProperties DEF Fresh
  <2>5. CASE x # k
    BY <1>1, <1>3, <1>4, <2>2, <2>3, <2>5 DEF Fresh
  <2>6. QED BY <2>4, <2>5
<1>8. LoadedFollows'
  BY <1>1, <1>2 DEF LoadedFollows
<1>9. ForeignOnlyIfCached'
  <2>1. \A x \in Selected' : cache'[x] = cache[x] /\ x \in Selected
    BY <1>1, <1>2, <1>3, <1>4, CurrentProperties, KeysProperties
  <2>2. QED BY <1>1, <1>2, <2>1 DEF ForeignOnlyIfCached
<1>10. QED BY <1>5, <1>6, <1>7, <1>8, <1>9 DEF PageInv

-----------------------------------------------------------------------------
(* Saves.                                                                   *)

\* The Save button.
LEMMA HandleSavePreserves ==
    ASSUME PageInv, handleSave
    PROVE  PageInv'
<1>1. PICK k \in Selected :
        saves' = saves \cup {[key |-> k, from |-> editor.on, hook |-> Hook, mounted |-> TRUE, version |-> 0]}
  BY DEF handleSave
<1>2. /\ editor # Closed /\ UNCHANGED <<cache, request, stale, overtaken, stored, editor, quiet>>
      /\ UNCHANGED screen
  BY DEF handleSave, queries
<1>3. /\ EditorTypes /\ Known /\ ReadsFresh /\ LoadedFollows /\ ForeignOnlyIfCached
      /\ ScreenTypes /\ stored \in [EntityKeys -> Nat]
      /\ cache \in [Keys -> Data] /\ request \in [Keys -> Requests]
      /\ editor = Closed \/ editor \in Editor
      /\ saves \in SUBSET Save
  BY PageParts
<1>4. ScreenTypes' /\ Current' = Current /\ Selected' = Selected
  BY <1>2, <1>3, SameScreen
<1> DEFINE m == [key |-> k, from |-> editor.on, hook |-> Hook, mounted |-> TRUE, version |-> 0]
<1>5. m \in Save /\ m.version = 0 /\ m.mounted /\ m.from = editor.on
  <2>1. k \in EntityKeys /\ editor.on \in EntityKeys
    BY <1>2, <1>3, CurrentProperties DEF Editor
  <2>2. Hook \in SaveHook
    BY <1>3 DEF Hook, SaveHook, ScreenTypes
  <2>3. QED BY <2>1, <2>2 DEF Save
<1>6. saves' = saves \cup {m}
  BY <1>1
<1> HIDE DEF m
<1>7. EditorTypes'
  BY <1>2, <1>3, <1>4, <1>5, <1>6 DEF EditorTypes
<1>8. Known' /\ ForeignOnlyIfCached'
  BY <1>2, <1>3, <1>4 DEF Known, ForeignOnlyIfCached
<1>9. LoadedFollows'
  BY <1>2, <1>3, <1>5, <1>6 DEF LoadedFollows
<1>10. ReadsFresh'
  <2>1. Behind \subseteq Behind'
    BY <1>6, BehindKept
  <2>2. \A x \in Keys : Fresh(x) => Fresh(x)'
    BY <1>2, <1>4 DEF Fresh, Served
  <2>3. QED BY <1>2, <1>3, <2>1, <2>2 DEF ReadsFresh
<1>11. QED BY <1>7, <1>8, <1>9, <1>10 DEF PageInv

\* A save changes the answers of the keys in Changed, and no other.
LEMMA ChangedServed ==
    ASSUME stored \in [EntityKeys -> Nat], NEW m \in Save, NEW n, n.key = m.key,
           n.version = stored[m.key] + 1, stored' = [stored EXCEPT ![m.key] = @ + 1],
           NEW x \in Keys, x \notin Changed(n)
    PROVE  Served(x)' = Served(x)
<1>1. m.key \in EntityKeys /\ stored[m.key] \in Nat /\ x # m.key
  BY DEF Save, Changed
<1>2. PICK b0 \in Tabs, t0 \in Tenants, e0 \in Entities : m.key = entityKey(b0, t0, e0)
  BY <1>1 DEF EntityKeys
<1>3. \A k \in EntityKeys : k # m.key => stored'[k] = stored[k]
  BY <1>1
<1>4. CASE x \in EntityKeys
  <2>1. x[1] # "list"
    BY <1>4, KeysProperties
  <2>2. QED BY <1>1, <1>3, <1>4, <2>1 DEF Served
<1>5. CASE x \notin EntityKeys
  <2>1. PICK b \in Tabs, t \in Tenants, f \in Filters : x = listKey(b, t, f)
    BY <1>5 DEF Keys
  <2>2. x[1] = "list" /\ x[2] = b /\ x[3] = t /\ x[4] = f
    BY <2>1 DEF listKey
  <2>3. ASSUME NEW e \in Entities
        PROVE  stored'[entityKey(b, t, e)] > 0 /\ f \in {AllTypes, e[1]}
                  <=> stored[entityKey(b, t, e)] > 0 /\ f \in {AllTypes, e[1]}
    <3>1. entityKey(b, t, e) \in EntityKeys
      BY KeysProperties
    <3>2. CASE entityKey(b, t, e) # m.key
      BY <1>3, <3>1, <3>2
    <3>3. CASE entityKey(b, t, e) = m.key
      <4>1. b = b0 /\ t = t0 /\ e = e0 /\ m.key[2] = b /\ m.key[3] = t /\ m.key[4] = e
        BY <1>2, <3>3 DEF entityKey
      <4>2. stored'[m.key] = stored[m.key] + 1
        BY <1>1
      <4>3. CASE stored[m.key] = 0
        <5>1. n.version = 1
          BY <4>3
        <5>2. \A g \in {AllTypes, e[1]} : listKey(b, t, g) \in Changed(n)
          BY <4>1, <5>1 DEF Changed
        <5>3. f \notin {AllTypes, e[1]}
          BY <2>1, <5>2
        <5>4. QED BY <5>3
      <4>4. CASE stored[m.key] # 0
        <5>1. stored[m.key] > 0 /\ stored'[m.key] > 0
          BY <1>1, <4>2, <4>4
        <5>2. QED BY <3>3, <5>1
      <4>5. QED BY <4>3, <4>4
    <3>4. QED BY <3>2, <3>3
  <2>4. Served(x) = {e \in Entities : stored[entityKey(b, t, e)] > 0 /\ f \in {AllTypes, e[1]}}
    BY <2>2 DEF Served
  <2>5. Served(x)' = {e \in Entities : stored'[entityKey(b, t, e)] > 0 /\ f \in {AllTypes, e[1]}}
    BY <2>2 DEF Served
  <2>6. QED BY <2>3, <2>4, <2>5
<1>6. QED BY <1>4, <1>5

\* The service stores a save.
LEMMA StoreSavePreserves ==
    ASSUME PageInv, NEW m \in saves, StoreSave(m)
    PROVE  PageInv'
<1> DEFINE n == [m EXCEPT !.version = stored[m.key] + 1]
<1>1. /\ m.version = 0 /\ stored' = [stored EXCEPT ![m.key] = @ + 1]
      /\ saves' = (saves \ {m}) \cup {n}
      /\ editor' = IF m.mounted /\ editor # Closed /\ m.key = m.from /\ m.from = editor.on
                   THEN [editor EXCEPT !.base = stored[m.key] + 1] ELSE editor
      /\ UNCHANGED <<cache, request, stale, overtaken, quiet>> /\ UNCHANGED screen
  BY DEF StoreSave, queries, bounds
<1>2. /\ EditorTypes /\ Known /\ ReadsFresh /\ LoadedFollows /\ ForeignOnlyIfCached
      /\ ScreenTypes /\ stored \in [EntityKeys -> Nat]
      /\ cache \in [Keys -> Data] /\ request \in [Keys -> Requests]
      /\ editor = Closed \/ editor \in Editor
      /\ saves \in SUBSET Save
  BY PageParts
<1>3. ScreenTypes' /\ Current' = Current /\ Selected' = Selected
  BY <1>1, <1>2, SameScreen
<1>4. m \in Save /\ m.key \in EntityKeys /\ stored[m.key] \in Nat
  BY <1>2 DEF Save
<1>5. /\ n \in Save /\ n.key = m.key /\ n.version = stored[m.key] + 1 /\ n.version # 0
      /\ n.from = m.from /\ n.mounted = m.mounted
  BY <1>4 DEF Save
<1> HIDE DEF n
<1>6. /\ stored' \in [EntityKeys -> Nat]
      /\ \A k \in EntityKeys : stored'[k] = IF k = m.key THEN stored[k] + 1 ELSE stored[k]
  BY <1>1, <1>2, <1>4
<1>7. /\ editor = Closed => editor' = Closed
      /\ editor # Closed => /\ editor' \in Editor /\ editor'.on = editor.on
                            /\ editor'.loaded = editor.loaded
                            /\ editor'.base = IF m.mounted /\ m.key = m.from /\ m.from = editor.on
                                              THEN stored[m.key] + 1 ELSE editor.base
  <2>1. stored[m.key] + 1 \in Data
    BY <1>4 DEF Data
  <2>2. QED BY <1>1, <1>2, <2>1 DEF Editor
<1>8. EditorTypes'
  BY <1>1, <1>2, <1>3, <1>5, <1>6, <1>7 DEF EditorTypes
<1>9. Known'
  BY <1>1, <1>2, <1>6 DEF Known
<1>10. ForeignOnlyIfCached'
  BY <1>1, <1>2, <1>3, <1>7 DEF ForeignOnlyIfCached
<1>11. LoadedFollows'
  <2>1. SUFFICES ASSUME quiet', editor' # Closed, editor'.loaded
                 PROVE  /\ editor'.base = stored'[editor'.on]
                        /\ \A x \in saves' : x.mounted /\ x.from = editor'.on
    BY DEF LoadedFollows
  <2>2. /\ editor # Closed /\ editor.base = stored[editor.on] /\ editor \in Editor
        /\ \A x \in saves : x.mounted /\ x.from = editor.on
    BY <1>1, <1>2, <1>7, <2>1 DEF LoadedFollows
  <2>3. editor.on \in EntityKeys
    BY <2>2 DEF Editor
  <2>4. editor'.base = stored'[editor'.on]
    BY <1>6, <1>7, <2>2, <2>3
  <2>5. QED BY <1>1, <1>5, <1>7, <2>2, <2>4
<1>12. ReadsFresh'
  <2>1. SUFFICES ASSUME quiet', NEW x \in Keys, x \notin overtaken', x \notin Behind'
                 PROVE  Fresh(x)'
    BY DEF ReadsFresh
  <2>2. n \in {y \in saves' : y.version # 0}
    BY <1>1, <1>5
  <2>3. x \notin Changed(n)
    BY <2>1, <2>2 DEF Behind
  <2>4. Served(x)' = Served(x)
    BY <1>1, <1>2, <1>4, <1>5, <2>3, ChangedServed
  <2>5. {y \in saves : y.version # 0} \subseteq {y \in saves' : y.version # 0}
    BY <1>1
  <2>6. x \notin Behind
    BY <2>1, <2>5 DEF Behind
  <2>7. Fresh(x)
    BY <1>1, <1>2, <2>1, <2>6 DEF ReadsFresh
  <2>8. QED BY <1>1, <1>3, <2>4, <2>7 DEF Fresh
<1>13. QED BY <1>8, <1>9, <1>10, <1>11, <1>12 DEF PageInv

\* What a save changed is told, unless its hook is not about it.
LEMMA ChangedIsTold ==
    ASSUME NEW m \in Save
    PROVE  Changed(m) \subseteq Told(m) \cup Unnamed(m)
<1>1. SUFFICES ASSUME NEW k \in Changed(m), k[3] = m.hook.tenant,
                      k[4] = IF k[1] = "list" THEN AllTypes ELSE m.hook.entity
               PROVE  k \in Told(m)
  BY DEF Unnamed
<1>2. PICK b \in Tabs, t \in Tenants, e \in Entities : m.key = entityKey(b, t, e)
  BY DEF Save, EntityKeys
<1>3. m.key[2] = b /\ m.key[3] = t
  BY <1>2 DEF entityKey
<1>4. CASE k = m.key
  <2>1. k[1] = "entity" /\ k[3] = t /\ k[4] = e
    BY <1>2, <1>4 DEF entityKey
  <2>2. k = entityKey(m.key[2], m.hook.tenant, m.hook.entity) /\ k \in EntityKeys
    BY <1>1, <1>2, <1>3, <1>4, <2>1 DEF Save
  <2>3. QED BY <2>2 DEF Told
<1>5. ASSUME NEW f, k = listKey(m.key[2], m.key[3], f)
      PROVE  k \in Told(m)
  <2>1. k[1] = "list" /\ k[3] = t /\ k[4] = f
    BY <1>3, <1>5 DEF listKey
  <2>2. k = listKey(m.key[2], m.hook.tenant, AllTypes)
    BY <1>1, <1>3, <1>5, <2>1
  <2>3. QED BY <2>2 DEF Told
<1>6. QED BY <1>1, <1>4, <1>5 DEF Changed

\* The hook of a save loads again what it names.
LEMMA SaveSucceedsPreserves ==
    ASSUME PageInv, NEW m \in saves, SaveSucceeds(m)
    PROVE  PageInv'
<1> DEFINE told == Told(m)
<1>1. PICK again :
        /\ again = {k \in told \cap Current : request[k] = Idle \/ cache[k] # NoData}
        /\ request' = [k \in DOMAIN request |-> IF k \in again THEN Sent ELSE request[k]]
        /\ overtaken' = (overtaken \cup Unnamed(m) \cup {k \in told : request[k] # Idle}) \ again
        /\ stale' = stale \cup {k \in told : cache[k] # NoData}
        /\ UNCHANGED <<cache, stored, quiet>> /\ UNCHANGED screen
        /\ saves' = saves \ {m} /\ m.version # 0 /\ Render
  BY DEF SaveSucceeds, Invalidate, bounds
<1> HIDE DEF told
<1>2. /\ EditorTypes /\ Known /\ ReadsFresh /\ LoadedFollows /\ ForeignOnlyIfCached
      /\ ScreenTypes /\ stored \in [EntityKeys -> Nat]
      /\ cache \in [Keys -> Data] /\ request \in [Keys -> Requests]
      /\ editor = Closed \/ editor \in Editor
      /\ saves \in SUBSET Save
  BY PageParts
<1>3. ScreenTypes' /\ Current' = Current /\ Selected' = Selected
  BY <1>1, <1>2, SameScreen
<1>4. request' \in [Keys -> Requests] /\ \A k \in Keys : request'[k] = IF k \in again THEN Sent ELSE request[k]
  BY <1>1, <1>2, RequestProperties
<1>5. EditorTypes'
  <2>1. editor' = Closed \/ editor' \in Editor
    BY <1>1, <1>2, <1>3, RenderTypes
  <2>2. QED BY <1>1, <1>2, <1>3, <1>4, <2>1 DEF EditorTypes
<1>6. Known'
  BY <1>1, <1>2, <1>4, RequestProperties, KeysProperties DEF Known
<1>7. ReadsFresh'
  <2>1. SUFFICES ASSUME quiet', NEW x \in Keys, x \notin overtaken', x \notin Behind'
                 PROVE  Fresh(x)'
    BY DEF ReadsFresh
  <2>2. Served(x)' = Served(x)
    BY <1>1 DEF Served
  <2>3. CASE x \in again
    BY <1>4, <2>3, RequestProperties DEF Fresh
  <2>4. CASE x \notin again
    <3>1. /\ request'[x] = request[x] /\ cache'[x] = cache[x] /\ x \notin overtaken
          /\ x \in Changed(m) => x \in told
          /\ x \in told => request[x] = Idle /\ x \notin Current /\ (cache[x] = NoData \/ x \in stale')
      BY <1>1, <1>2, <1>4, <2>1, <2>4, ChangedIsTold DEF told
    <3>2. CASE x \in Changed(m)
      <4>1. request'[x].at # "answered"
        BY <3>1, <3>2, RequestProperties
      <4>2. QED BY <1>3, <3>1, <3>2, <4>1 DEF Fresh
    <3>3. CASE x \notin Changed(m)
      <4>1. \A y \in saves : y.version # 0 /\ y # m => y \in {z \in saves' : z.version # 0}
        BY <1>1
      <4>2. x \notin Behind
        BY <2>1, <3>3, <4>1 DEF Behind
      <4>3. Fresh(x)
        BY <1>1, <1>2, <2>1, <3>1, <4>2 DEF ReadsFresh
      <4>4. x \in stale => x \in stale'
        BY <1>1
      <4>5. QED BY <1>3, <2>2, <3>1, <4>3, <4>4 DEF Fresh
    <3>4. QED BY <3>2, <3>3
  <2>5. QED BY <2>3, <2>4
<1>8. ForeignOnlyIfCached'
  <2>1. ASSUME editor # Closed, NEW x \in Selected', ~isLoading(cache'[x], request'[x])
        PROVE  editor.on = x \/ cache'[x] # NoData
    BY <1>1, <1>2, <1>3, <2>1 DEF ForeignOnlyIfCached
  <2>2. QED BY <1>1, <1>3, <2>1, RenderForeign
<1>9. LoadedFollows'
  <2>1. \A x \in saves' : \E y \in saves : y.from = x.from /\ y.mounted = x.mounted
    BY <1>1
  <2>2. \A x \in Selected' : ~(cache[x] = NoData /\ cache'[x] # NoData)
    BY <1>1
  <2>3. saves # {}
    OBVIOUS
  <2>4. QED BY <1>1, <1>2, <1>3, <1>7, <2>1, <2>2, <2>3, RenderLoaded
<1>10. QED BY <1>5, <1>6, <1>7, <1>8, <1>9 DEF PageInv

\* A save that fails, and another client that writes.
LEMMA EventPreserves ==
    ASSUME PageInv, (\E m \in saves : SaveFails(m)) \/ \E k \in EntityKeys : OtherWrites(k)
    PROVE  PageInv'
<1>1. /\ EditorTypes /\ Known /\ ReadsFresh /\ LoadedFollows /\ ForeignOnlyIfCached
      /\ ScreenTypes /\ stored \in [EntityKeys -> Nat]
      /\ cache \in [Keys -> Data] /\ request \in [Keys -> Requests]
      /\ editor = Closed \/ editor \in Editor
      /\ saves \in SUBSET Save
  BY PageParts
<1>2. ~quiet' /\ UNCHANGED <<cache, request, editor>> /\ UNCHANGED screen
  BY DEF SaveFails, OtherWrites, Event, queries
<1>3. ScreenTypes' /\ Current' = Current /\ Selected' = Selected
  BY <1>1, <1>2, SameScreen
<1>4. saves' \in SUBSET Save /\ stored' \in [EntityKeys -> Nat] /\ \A k \in EntityKeys : stored'[k] = 0 => stored[k] = 0
  <2>1. ASSUME NEW m \in saves, SaveFails(m)
        PROVE  saves' \in SUBSET Save /\ stored' = stored
    <3>1. [m EXCEPT !.version = 0] \in Save
      BY <1>1 DEF Save
    <3>2. QED BY <1>1, <2>1, <3>1 DEF SaveFails
  <2>2. ASSUME NEW k \in EntityKeys, OtherWrites(k)
        PROVE  /\ saves' = saves /\ stored' \in [EntityKeys -> Nat]
               /\ \A x \in EntityKeys : stored'[x] = 0 => stored[x] = 0
    BY <1>1, <2>2 DEF OtherWrites
  <2>3. QED BY <1>1, <2>1, <2>2
<1>5. EditorTypes'
  BY <1>1, <1>2, <1>3, <1>4 DEF EditorTypes
<1>6. Known' /\ ReadsFresh' /\ LoadedFollows'
  BY <1>1, <1>2, <1>4 DEF Known, ReadsFresh, LoadedFollows
<1>7. ForeignOnlyIfCached'
  BY <1>1, <1>2, <1>3 DEF ForeignOnlyIfCached
<1>8. QED BY <1>5, <1>6, <1>7 DEF PageInv

-----------------------------------------------------------------------------
(* The invariant holds, and what it implies.                                *)

\* Initially nothing is selected and the list is being loaded.
LEMMA PageInvInit ==
    ASSUME Init
    PROVE  PageInv
<1>1. /\ stored = [k \in EntityKeys |-> IF k[4] \in Attributed THEN 1 ELSE 0]
      /\ ScreenTypes /\ selected = NoEntity /\ editor = Closed /\ saves = {}
  BY DEF Init, ScreenTypes, Tabs, Filters
<1>2. /\ cache = [k \in Keys |-> NoData]
      /\ request = [k \in Keys |-> IF k \in Current THEN Sent ELSE Idle]
  BY DEF Init, InitQueries
<1>3. NoData \in Data
  BY DEF Data
<1>4. EditorTypes
  <2>1. stored \in [EntityKeys -> Nat] /\ cache \in [Keys -> Data] /\ request \in [Keys -> Requests]
    BY <1>1, <1>2, <1>3, RequestProperties
  <2>2. QED BY <1>1, <2>1 DEF EditorTypes
<1>5. Known
  BY <1>2, KeysProperties, RequestProperties DEF Known
<1>6. ReadsFresh
  BY <1>2, RequestProperties DEF ReadsFresh, Fresh
<1>7. LoadedFollows /\ ForeignOnlyIfCached
  BY <1>1 DEF LoadedFollows, ForeignOnlyIfCached
<1>8. QED BY <1>4, <1>5, <1>6, <1>7 DEF PageInv

\* What the user does.
LEMMA UserPreserves ==
    ASSUME PageInv,
           \/ \E b \in Tabs : SelectTab(b)
           \/ \E t \in Tenants : SelectTenant(t)
           \/ \E f \in Filters : setFilterType(f)
           \/ \E e \in Entities : handleSelect(e) \/ handleLookupNew(e)
           \/ OpenNewForm \/ CancelNewForm
    PROVE  PageInv'
<1>1. PICK b0, t0, e0, n0, f0 :
        b0 = tab /\ t0 = tenant /\ e0 = selected /\ n0 = showNewForm /\ f0 = filterType
  OBVIOUS
<1>2. b0 \in Tabs /\ t0 \in Tenants /\ e0 \in Entities \cup {NoEntity} /\ f0 \in Filters
  BY <1>1, PageParts DEF ScreenTypes
<1>3. AllTypes \in Filters
  BY DEF Filters
<1>4. ASSUME NEW b \in Tabs, NEW t \in Tenants, NEW e \in Entities \cup {NoEntity}, NEW form,
             NEW filter \in Filters, Show(b, t, e, form, filter), b # b0 => e = NoEntity
      PROVE  PageInv'
  BY <1>1, <1>4, ShowPreserves
<1>5. ASSUME NEW b \in Tabs, SelectTab(b)
      PROVE  PageInv'
  <2>1. Show(b, t0, NoEntity, FALSE, AllTypes)
    BY <1>1, <1>5 DEF SelectTab, Show
  <2>2. QED BY <1>2, <1>3, <1>4, <2>1
<1>6. ASSUME NEW t \in Tenants, SelectTenant(t)
      PROVE  PageInv'
  <2>1. Show(b0, t, e0, n0, f0)
    BY <1>1, <1>6 DEF SelectTenant, Show
  <2>2. QED BY <1>2, <1>4, <2>1
<1>7. ASSUME NEW f \in Filters, setFilterType(f)
      PROVE  PageInv'
  <2>1. Show(b0, t0, e0, n0, f)
    BY <1>1, <1>7 DEF setFilterType, Show
  <2>2. QED BY <1>2, <1>4, <2>1
<1>8. ASSUME NEW e \in Entities, handleSelect(e) \/ handleLookupNew(e)
      PROVE  PageInv'
  <2>1. Show(b0, t0, e, FALSE, f0)
    BY <1>1, <1>8 DEF handleSelect, handleLookupNew, Show
  <2>2. QED BY <1>2, <1>4, <2>1
<1>9. ASSUME OpenNewForm
      PROVE  PageInv'
  <2>1. Show(b0, t0, NoEntity, TRUE, f0)
    BY <1>1, <1>9 DEF OpenNewForm, Show
  <2>2. QED BY <1>2, <1>4, <2>1
<1>10. ASSUME CancelNewForm
       PROVE  PageInv'
  <2>1. Show(b0, t0, e0, FALSE, f0)
    BY <1>1, <1>10 DEF CancelNewForm, Show
  <2>2. QED BY <1>2, <1>4, <2>1
<1>11. QED BY <1>5, <1>6, <1>7, <1>8, <1>9, <1>10

\* Every step keeps the invariant.
LEMMA PageInvNext ==
    ASSUME PageInv, [Next]_vars
    PROVE  PageInv'
<1>1. CASE UNCHANGED vars
  <2>1. /\ UNCHANGED <<cache, request, stale, overtaken, stored, editor, saves, quiet>>
        /\ UNCHANGED screen
    BY <1>1 DEF vars, queries, bounds
  <2>2. ScreenTypes' /\ Current' = Current /\ Selected' = Selected
    BY <2>1, PageParts, SameScreen
  <2>3. EditorTypes' /\ Known' /\ LoadedFollows' /\ ForeignOnlyIfCached'
    BY <2>1, <2>2, PageParts DEF EditorTypes, Known, LoadedFollows, ForeignOnlyIfCached
  <2>4. ReadsFresh'
    BY <2>1, <2>2, PageParts DEF ReadsFresh, Fresh, Served, Behind
  <2>5. QED BY <2>3, <2>4 DEF PageInv
<1>2. CASE \/ \E b \in Tabs : SelectTab(b)
           \/ \E t \in Tenants : SelectTenant(t)
           \/ \E f \in Filters : setFilterType(f)
           \/ \E e \in Entities : handleSelect(e) \/ handleLookupNew(e)
           \/ OpenNewForm \/ CancelNewForm
  BY <1>2, UserPreserves
<1>3. CASE handleSave
  BY <1>3, HandleSavePreserves
<1>4. CASE \E m \in saves : StoreSave(m) \/ SaveSucceeds(m)
  BY <1>4, StoreSavePreserves, SaveSucceedsPreserves
<1>5. CASE (\E m \in saves : SaveFails(m)) \/ \E k \in EntityKeys : OtherWrites(k)
  BY <1>5, EventPreserves
<1>6. CASE \E k \in Keys : AnswerRead(k) \/ ReceiveRead(k) \/ EvictRead(k)
  BY <1>6, AnswerReadPreserves, ReceiveReadPreserves, EvictReadPreserves
<1>7. CASE \E k \in Keys : FailRead(k) \/ ReconnectRead(k)
  BY <1>7, FaultPreserves
<1>8. QED BY <1>1, <1>2, <1>3, <1>4, <1>5, <1>6, <1>7 DEF Next

\* The invariant of the attributes page.
LEMMA PageInvariant == Spec => []PageInv
<1>1. Init => PageInv
  BY PageInvInit
<1>2. PageInv /\ [Next]_vars => PageInv'
  BY PageInvNext
<1>3. QED BY <1>1, <1>2, PTL DEF Spec

\* An editor that does not belong to the selected entity is only on the screen
\* when the data of that entity were in the cache: useState kept the text
\* because nothing unmounted the editor.
THEOREM ForeignEditorIsCached == Spec => []ForeignOnlyIfCached
<1>1. PageInv => ForeignOnlyIfCached
  BY DEF PageInv
<1>2. QED BY <1>1, PageInvariant, PTL

\* As long as nothing fails and nobody else writes, an editor that a load
\* filled has what is stored, through all saves, selections and reloads.
THEOREM LoadedEditorsAreCurrent == Spec => []LoadedEditorIsCurrent
<1>1. PageInv => LoadedEditorIsCurrent
  BY DEF PageInv, LoadedFollows, LoadedEditorIsCurrent
<1>2. QED BY <1>1, PageInvariant, PTL

\* When the saves are over, what is on the screen and not being loaded is what
\* is stored, unless a save overtook its first load or its hook is not about
\* it: the invalidation of the hook reaches every read that was under way, and
\* the list also when nothing is selected any more.
THEOREM PageReadsItsWrites == Spec => []ReadsItsWrites
<1>1. ASSUME PageInv
      PROVE  ReadsItsWrites
  <2>1. SUFFICES ASSUME quiet, saves = {}, NEW k \in Current \ overtaken, request[k] = Idle
                 PROVE  cache[k] = Served(k)
    BY DEF ReadsItsWrites
  <2>2. k \in Keys /\ k \notin Behind
    BY <1>1, <2>1, PageParts, CurrentProperties DEF Behind
  <2>3. Fresh(k)
    BY <1>1, <2>1, <2>2 DEF PageInv, ReadsFresh
  <2>4. QED BY <2>1, <2>3 DEF Fresh
<1>2. QED BY <1>1, PageInvariant, PTL
=============================================================================
