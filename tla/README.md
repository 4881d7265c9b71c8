# A TLA+ model of ZanGuard

ZanGuard is a multi-tenant authorization service: a Go server that stores
relation tuples and attributes per tenant and answers "may this subject do this
to this object" by walking a permission graph, and an admin console (Next.js, React,
TanStack Query) in front of it.  This directory models the parts
of it whose correctness depends on order, interleaving, failure or boundaries,
checks them with TLC on small instances, and proves with TLAPS what matters most
for all instances.

## 1. Inventory

| Component | State | Operations | What is hard | What makes it correct |
|---|---|---|---|---|
| In-memory store (`pkg/storage/memory`) | tenants, and per tenant tuples, two attribute maps, changelog, sequence counter; one mutex | tenant create/update, tuple write (batch), delete, reads, attribute set/get, changelog append/read, purge, export | tuples that expire in place and are granted again; batches with duplicates; identity keys that collide; nil maps; purge before create | one stored tuple per key; the changelog replays to the tuples in force; a refused call changes nothing; a reader of pages misses nothing |
| Tenant manager (`pkg/tenant`), create handler (`pkg/api/management.go`) | the tenants table | create, activate, suspend, delete | read, check, write back without a lock; create is two statements; crash in between | status moves only along the lifecycle; rows are never overwritten by a create |
| Server bootstrap (`cmd/server/main.go`) | how far the start-up is | get, create, activate or force the super tenant | two servers on one empty database, crash and restart | a server that serves has a super tenant; every server gets there |
| Check engine (`pkg/engine`) | recursion, visited set, depth; schemas per tenant | `Check`, `walk*`, conditions, `LoadSchema` | no snapshot, cycles, shared visited set, depth limit, swallowed errors | allows only what was granted, denies only what was not, ends |
| AuthZen API (`pkg/api/authzen.go`) | the tenant in the request's context | evaluation, evaluations | one context for many checks; errors become false | a deleted tenant is denied; every item is answered |
| PostgreSQL store (`pkg/storage/postgres`) | tables; a database-wide changelog sequence | the same interface, in transactions | writability is checked outside the transaction; numbers become visible in commit order; multi-statement purge | as the in-memory store, per transaction |
| Schema loading and registry (`pkg/api/management.go`, `pkg/engine`) | compiled schemas in the engine, hashes in the server | load, get | two maps written one after the other, both lost on restart | both show the same schema |
| Schema compiler, validator (`pkg/schema`) | none | parse, compile, validate | what the validator accepts and the engine does not understand | a valid schema is walked as written |
| Management API (tuples, attributes, changelog) | none | JSON handlers | the changelog response is two reads; expiry arithmetic | a poller misses nothing |
| Resolver, tenant configuration, cross-tenant rules | none | lookups | nothing | - |
| Console: pages (`console/src/app`, `components`, `lib`) | the chosen tenant (kept in local storage), the mounted page and its component state, the query cache, calls under way | filter, create and delete tuples; page through the changelog; expand; edit, upload and save a schema; ask for a decision; change tenant or page | answers that arrive late or never, repeated requests, hooks that outlive a selection, caches that nobody invalidates, another client, a server that lost everything | what is shown is what is stored; a form fits the schema it was filled from; a decision belongs to the last question; no changelog entry is skipped |
| Console: attributes page | tab, entity, filter, lookup form, editor, saves | select, look up, edit, save | an editor takes its data once, when it is mounted | an editor belongs to what is selected; a save is shown and loses nothing |
| Console: readers of the schema text | none | four line scanners, a graph | indentation, sections in any order, two list styles, comments | they read what the document declares |

Components talk by calls: the handlers build a tenant context (one read of the
tenants table), call the manager or the engine, and these call the store.  The
only shared mutable state is the store and the engine's schema maps; each HTTP
request is a goroutine, and several servers may share one database.  The console
talks to the server over HTTP only; within it, all pages share the query cache and
the selected tenant.

## 2. Modules

| Module | Models | Extends |
|---|---|---|
| `TupleQueries` | the reads of a tuple store as operators on the tuples in force | - |
| `MemoryStore` | the in-memory store, one action per method | `TupleQueries` |
| `MemoryStoreProofs` | its inductive invariant and theorems; it implements `TupleStore` | `MemoryStore` |
| `TenantLifecycle` | tenants table, manager, create handler, bootstrap | - |
| `TenantLifecycleProofs` | its inductive invariant and theorems | `TenantLifecycle` |
| `CheckEngine` | the engine and the AuthZen handlers over a changing store | `TupleQueries` |
| `Recursion` | induction over numbers, iteration, and closed sets of monotone maps: lemmas | - |
| `CheckEngineProofs` | the path of a walk, what an allow and a deny mean, checks on a deleted tenant: theorems | `CheckEngine`, `Recursion` |
| `PostgresStore` | the writes of the PostgreSQL store, statement by statement | - |
| `ChangelogPoll` | a reader that follows its changelog through the API | `PostgresStore` |
| `PostgresStoreProofs` | theorems about the store, which implements `TupleStore`, and about what the reader misses | `ChangelogPoll` |
| `TupleStore` | what a tuple store promises; implemented by `MemoryStore` and `PostgresStore` | - |
| `QueryCache` | the query cache of the console, as its hooks use it | - |
| `ConsoleEditor` | the attributes page | `QueryCache` |
| `ConsoleEditorProofs` | its inductive invariant and theorems | `ConsoleEditor` |
| `SchemaRegistry` | the two schema maps of a server | - |
| `ConsoleShell` | tenant selector, navigation, queries, calls, and the server behind them | `QueryCache`, `SchemaRegistry` |
| `TuplesPage`, `ChangelogPage`, `ExplorerPage`, `SchemaPage` | the four other pages | `ConsoleShell` |
| `Console` | their composition | the four pages |
| `ConsoleProofs` | theorems about the composition | `Console` |
| `SchemaText` | the four readers of a schema document | - |
| `SchemaTextProofs` | what they read in documents of any length: theorems | `SchemaText`, `Recursion` |
| `MC...` | the instances for TLC | |

### MemoryStore

Each exported method holds the mutex from beginning to end, so it is one action;
`reply` is what it returned.  A stored tuple is its identity (six fields) and its
deadline; attributes of tuples, timestamps and source systems are left out.  The
identity *key* (`tupleIdentityKey`) is a constant map from identities to keys
that need not be injective, because an identifier may contain the separators:
`writeTuplesLocked` compares keys and `DeleteTuple` compares fields, and the model
keeps that difference.  `existingKeys`, `expiredIndexes`, the staged batch, the
replaced slots and the appended tuples are operators named as in the code.
`tupleMaps` is the domain of the Go map `tuples`, which is all that `initTenant`
looks at.  Callers give any status to create and update: the store checks none.
`ReadChangelog` is the set of positions that a page holds.

### TenantLifecycle

Every read and every write of a row is one statement of PostgreSQL, so an
operation of the manager is two actions: `StartChange` reads and checks,
`WriteBack` writes the whole row (all columns but `parent_tenant_id`, which the
UPDATE does not name).  A create is `StartCreate`, `CreateInsert` and, when there
are optional fields, `WriteBack`.  `BootGet`, `BootCreate`, `BootActivateGet` and
`BootWrite` are the statements of `ensureBootstrapTenant`; an error exits the
process (`down`).  A crash loses the requests of a server and keeps the table.

### CheckEngine

The recursion of `walkPermission`, `walkRelation` and `walkArrow` is a stack of
frames, each call of the store is an action, and tuples, attributes and the
tenant change between them (`MaxChanges`).  The loops take the tuples in any
order, because PostgreSQL returns them in any order.  A read fails when the
tenant is deleted and may fail at any time (`MaxFaults`).  Where the code skips a
failing read (`CheckUserset`, the two attribute reads) the model does.  The manager
reads the tenant, checks it and writes it back without a lock (manager.go:68-105,
modelled in `TenantLifecycle`), so what a status change was checked against is any status
the tenant has had (`had`, `MayBecome`): a tenant that is deleted during a check, or
before it, can be active again before its end.  A request carries a context, which inline
conditions may look at.
`Evaluate` stands for expr-lang.  `seen` records what the store held since the
current check began; it exists for the properties only.

`Meaning` is the reference: what the documentation says a permission means,
computed level by level, in two readings.  "may" takes the tuples that were in
force at some moment of the check, "must" those in force all the time, and an
exclusion reads what it subtracts the other way round.  A walk without a snapshot
cannot promise the answer of one moment; it can promise to lie between the two.

### PostgresStore and ChangelogPoll

A session is a call on a connection of the pool.  `Begin` is the statement that
looks the tenant up, outside the transaction; `InsertRow`, `SoftDeleteRow`,
`appendChangelogTx`, `Commit`, `UpsertAttributes` and the `Purge...` actions are
the other statements.  Uncommitted work is in the session (`added`, `removed`,
`entries`), committed work in the tables.  `Blockers` is what a statement waits
for: the unique index makes an insert wait for an uncommitted insert or soft
delete of the same row; a soft delete waits for another one but does not see a
row that is not committed.  A statement that waits is modelled as happening when
the wait is over; in PostgreSQL it would see the state of its beginning, which is
the same as an order of the statements that the model has too.  `BreakDeadlock` is
PostgreSQL's deadlock detector, `Fail` a lost connection.  A commit whose answer
is lost has the effect of a commit, so it needs no action.  `stale`, `purged` and
`overtaken` are bookkeeping for the properties.

Deadlines are not in this model because they do not influence a write:
`refreshExpiredTupleTx` is reached only after the insert violated the index, and
PostgreSQL ignores all further statements of that transaction (25P02).

`ChangelogPoll` adds a reader of one tenant: `ReadPage` and `Respond` are the two
reads of `handleReadChangelog`, and `Position` says where the reader goes on.

### TupleStore

The abstract store has, per tenant, the grants in force (tuple and deadline) and the
tenants whose grants callers may write and delete.  `PurgeIsAdmitted` says whether a
purge asks for that too: it does in the PostgreSQL store, as lifecycle.md:55 says, and
does not in the in-memory store, where `PurgeTenantData` looks at no status.  A batch is
stored as a whole and only next to grants with other identity keys, a delete takes one
grant, a purge all, and time takes what has expired; nothing else changes a grant.
`MemoryStore` maps `inForce` to its stored tuples that have not expired; `PostgresStore`
maps it to the rows of the table, and a call that found its tenant writable counts as
admitted until its commit (`ensureTenantWritable` runs before the transaction).

### QueryCache

A key has data or none, and at most one request, which is sent, answered and then
taken in: between the two last steps the answer can become old.  `Observe` is a query
that comes on screen (fetched when it has no data, was invalidated, or is older than
`staleTime`; the age is left open), `Invalidate` is `invalidateQueries`, with the
detail of TanStack Query that decides several cases: a request under way is
abandoned only when the key has data, so a first load goes on and its answer counts as
fresh.  `overtaken` marks the keys where that, or a hook that names the wrong key, can
leave old data; it exists for the properties.  TanStack Query, React and ky are
external and modelled from how the console uses them.

### ConsoleShell and the pages

`view` is the state of the mounted page's components, a record that `Fresh` gives and
that navigation replaces.  A step of the user ends with `Show`: new queries are
fetched, then `Render` says which components lose their state because they are
unmounted (the tuple table without data, the schema page while it loads, the
evaluator without a schema).  A call (`Call`) is an element of `mutations`; the server
carries it out (`Perform`) or refuses it, the answer may be lost, in which case ky
repeats PUT and DELETE and reports everything else as failed (`Lose`), and `Settle` runs
the hook's `onSuccess` with the tenant of the *last rendering* (`Hooks`), as
`useMutation` does.  A load of a schema is two steps of the server (`SchemaRegistry`).
Other clients write tuples, load schemas and create tenants; a restart of the server
with its in-memory store leaves the super tenant only.

A tuple is its object type, relation and subject type; identifiers are those of one
object and one subject, because no handler treats them differently from the other
fields.  `Names` are the names that a field of a stored tuple may have: what schemas
declare and what is typed (`Words`), and never the empty string, which the form and the
service refuse.  The decision of a check is left open (CheckEngine models it).  In
`CreateTupleDialog`, `under` records per field the schema a choice was made from.
`treeToFlow` goes through a tree level by level instead of by recursion; the trees of
the service have a root and one level of children (`TreeDepth`), because `Expand`
expands one relation.  A changelog page holds the numbers of its entries; `MaxLog`
bounds them, and every budget stays below it.

### ConsoleEditor

What is stored for an entity is a version number; the text of an edit is left out.
Every action that can change the screen ends with `Render`, because React renders after
every change of state, and the editor is filled only when it is mounted.  The hook of a
save (`Hook`) closes over the tenant and the entity of the last rendering as long as its tab is
mounted.  `Told` is what it invalidates: always the list of that tenant without a filter,
also when no entity is selected any more, and the entity if one is.  `Unnamed` is what the
save changed and the hook is not about; it goes to `overtaken`.

### SchemaRegistry

The engine's map and the registry of the server, the two writes of a load, and the mode of a
tenant, which decides where `schemaForTenant` looks: `own` and `inherited` in the
engine's map, `shared` in a second map that no caller fills (`sharedSchema`).  A load and a
read do not ask for the mode.

### SchemaText

A document grows line by line: version, types, sections in any order, relations with
inline lists or items, permissions, a comment.  `meaning` has the types with members
that were declared, `empty` the names of those with the body `{}`, and after every line
the four scanners read the document from the beginning.  A line is its indentation, the
word before the colon, what follows the colon, the entries of a list, and whether a comment
follows on the same line (`note`).  Any line can have such a comment, as in
group-membership.md:44 and schema/overview.md:25-32; `MaxComments` bounds their number.
A line that has one does not end with a colon or a bracket.  So an opening line is none
any more (`Opens`), a list is read as one text (`ListText`, the last branch of
`parseInlineList`), an item or the last entry of the visual view runs into the comment
(`Noted`), and `types:` with a comment has the comment as its only target (`CommentText`,
whose part before the first `#` is empty, so that the graph skips it).  `Garbled` stands for a name
that runs into something else.  `Scan` is what
the scanners of the graph, the dialog and the evaluator have in common.  Their variables
`inTypesSection`, `currentType`, `currentSection`, `currentRelation` and
`collectingTypesList` are each set only below the ones before and reset with them, so the
model has one number, `depth`, for how many of them are set.  `parseYamlSimple`, of the
visual view, is its own.  Scanners and graph builder are recursive functions of the
number of lines, types, relations or targets read so far.

## 3. Runs

| Run | Bounds | Shows |
|---|---|---|
| `memory_store` | 1 tenant, 3 tuples (2 with one key), 1 deadline, batches of 2, 4 log entries | `UniqueIdentity`, `PagesLeaveNothingBehind`, `LiveMatchesLog`, `AttributeMapsReady`, `LiveChangesAreLogged`, `RefusalChangesNothing`, `ImplementsTupleStore` |
| `tenant_lifecycle` | 2 tenants, 2 requests, 1 server, 1 crash | `IllegalOnlyIfStale`, `RowsKeepMode` |
| `bootstrap` | 2 servers, the super tenant, 1 request, 2 crashes | `ServingHasBootstrap`, `EventuallyServing` |
| `check_walk` | 5 entities, 6 tuples with a cycle, a condition on the request with 2 contexts, depth limit 2, 2 changes, 1 failing read, batches of 2 | `PathIsSimple`, `AllowIsJustified`, `DenyIsJustified`, `DeletedTenantDenies`, `EveryRequestAnswered` |
| `check_policy` | 4 entities, 5 tuples, 2 attribute values, 3 changes, no failing read, no deletion | `AllowIsJustified`, `DenyIsJustified` |
| `changelog_poll` | 2 sessions, 3 calls, 2 tuples, batches in both orders, 1 status change, 1 failing statement, 2 pages of 1 entry | `LogMatchesRows`, `MissesOnlyOvertaken`, `InactiveChangesOnlyIfStale`, `EveryCallReturns`, `ImplementsTupleStore` |
| `console_editor` | 2 tenants, 2 tabs, 2 entities of a type; 3 selections and a save, or 2 and two saves, or 2, a save and a fault or foreign write | `ForeignOnlyIfCached`, `LoadedEditorIsCurrent`, `ReadsItsWrites`, `EditorOpens` |
| `console_pages` | 2 tenants, one of mode shared, 2 schemas and an invalid text, pages of 1 entry; ten budgets of steps, moves, calls and events (`TheBudgets`) | `SelectedExists`, `FormFitsSchema`, `ScreenIsCurrent`, `ReadsOn`, `ReadsMatchChecks`, `DecisionIsOfLastCheck` |
| `schema_views` | 2 types, 2 relations, 2 permissions, 1 attribute, documents of 10 lines with 1 comment | `DialogReadsDocument`, `EvaluatorReadsDocument`, `GraphReadsDocument`, `ViewerLosesOnlyLast` |

The bounds are the smallest that let every case happen.  In `memory_store` four
log entries are a grant, its expiry, the grant again and its revocation; tenants
share no state, so one is enough.  In `check_walk` the longest path is one hop
longer than the limit, so both sides of the limit are walked; two changes are a deletion
and a return of the tenant.  In `changelog_poll`
three calls are a grant, its withdrawal and a second grant of which any two
overlap; two batches in opposite orders are a deadlock; two pages of one entry are
the smallest reader that can be overtaken and come back.  In `console_editor` three
selections are an entity, another one and the first again.  `console_pages` begins on
each page with the budgets its hazards need: four choices fill the form of the
dialog and change it; two calls of the schema page are a save and another, or two
checks; a move leaves a page with a call under way; an event is a lost answer, a
reconnect, another client or a restart.  All four together on one page are out of
TLC's reach.  Ten lines of `schema_views` hold two types with sections, a list below
`types:`, or two permissions and a comment; one comment is enough for every line to be
the one that has it.  Calls are bounded, so
`EveryCallReturns` excludes deadlock and lost wake-ups, not starvation by an
endless stream of other calls.  Deadlock checking is off where the bounds let the
model come to an end.

Runs that are expected to fail, each against a sentence of the documentation:

| Run | The sentence | What the code does |
|---|---|---|
| `lifecycle_deleted_final` | Activate "fails from `deleted`" (lifecycle.md) | an Activate that read the row before the Delete writes `active` over it |
| `poll_from_latest` | "Use `latest_sequence` ... as the `since_seq` value in the next poll" (management.md) | `latest_sequence` is read after the page and is not cut by its limit: entries are skipped |
| `check_shared_node` | exclusion: "none of the exclusions allow" (permissions.md) | the base already visited the node, so the exclusion is taken as denied and the check allows |

`check_policy` therefore has no failing reads, no deletion and no two branches
that share a node: these are the limits within which the answer of an exclusion
or an intersection can be relied on.

Further disagreements that reading the code for the model showed, for which no run is
kept.  Engine: a failing lookup inside an exclusion is skipped and the check allows
(authzen.md: engine errors are a "safe-deny"); an arrow does not evaluate the condition
of the permission it leads to (check.md: it "runs a recursive `Check`");
`LoadSharedSchema` is never called, so a tenant with a shared schema is always denied,
also when a PUT gave it a schema, which a GET then returns (schema-modes.md:37
says that the PUT loads another map than a check looks in, and the API accepts it); a userset of a
relation is looked up one level deep (group-membership.md: groups are expanded
recursively); in the PostgreSQL store a duplicate is answered with PostgreSQL's error
25P02 and never with `ErrDuplicateTuple` (management.md: 409), and a tuple whose
deadline passed cannot be granted again before it is deleted; its changelog numbers are
shared by all tenants and have gaps (changelog.md: independent per tenant, from 1), and
a reader that goes on from its last entry can miss one that commits late (`overtaken` is
not empty in `changelog_poll`); `PurgeTenantData` of the in-memory store works in every
status (lifecycle.md: requires `active`) and drops the changelog and its numbers
(changelog.md: entries are never deleted, numbers never repeat); `UpdateTenant` of the
PostgreSQL store does not write the parent that the create handler hands to it; a crash
between the two statements of a create leaves a shared tenant without its reference; a
permission named in a union of its own type is walked as a relation (README.md:
"sub-permissions"); an item of a batch that conditions on the request alone decide is
allowed although the tenant was deleted after the request began (lifecycle.md:26:
denied; `DeletedTenantDenies` says that nothing else is).

Console, each a case that an invariant above excepts by name or that `ExplorerPage`
models without a property:

* an editor keeps the text of the entity or tenant before it when the next one is
  cached, and Save writes it there; one that is filled from the cache while a reload is
  under way can replace what is newer; a failed read of attributes shows an empty
  editor whose Save replaces what is stored;
* a save of attributes leaves lists with a type filter as they are
  (`objectList(tenantId)` is a key that ends in the empty filter), and a save that ends
  after another entity or tenant was selected reloads that one instead of its own;
* a value of an attribute that reads as JSON changes its type when it is saved
  (attribute-editor.tsx:57);
* a first load that is under way when a tuple is written keeps its older answer;
  changelog pages are not invalidated by tuple writes;
* the changelog position survives a change of tenant, so the first entries of the
  new one are not shown; a last page that is exactly full offers one more, which is
  empty;
* a tuple dialog that was closed and opened again is emptied by the late success of
  the first submit; a delete dialog stays open, with its tuple, when the tenant under it
  is given up;
* a decision of the evaluator stays on the screen when a tenant is selected whose schema
  is cached; the explorer keeps the tree of the tenant before;
* the explorer draws the first tree it was given and no later one
  (subject-tree.tsx:87; explorer/page.tsx:109 promises to "visualize the subject
  tree");
* the visual view loses the last permission of a section when another section follows, of
  the same type or a later one; when only types without sections follow, it is shown on
  the card of the last of them (schema-viewer.tsx:43-47, 101-107); the view shows a comment that ends
  with a colon as a type or member, and the items of a list below `types:` not at all;
* a comment behind a line, which YAML and the documentation allow, is read as part of it.
  `types: [user, group#member]   # ...` (group-membership.md:44, permissions.md:120) is a
  single text for the tuple dialog, which offers `[user, group` as a subject type, and for the
  graph, which has an external node of that name and no edge to `user` or `group`.  An opening
  line with a comment, such as `permissions:   # optional` (schema/overview.md:25-32), is no
  opening line for any of the four readers, and what it opens is missing or counted to
  what was open before;
* the graph marks a type with the body `{}` as external, and no reader understands another
  indentation than two spaces, which the service accepts.

### Fairness

`TenantLifecycle`: weak fairness of the start-up of a running process, of a
restart (docker-compose: `restart: unless-stopped`) and of requests that began;
none for new requests and none for crashes, which are bounded.  `CheckEngine`:
weak fairness of the request's goroutine, whose store calls return; none for
writers or for new requests.  `PostgresStore`: weak fairness of a call that has
begun, PostgreSQL's deadlock detector included (it always runs); none for new
calls, status changes, failures or the reader.  `ConsoleEditor`: weak fairness of
requests that were sent (the client gives up after 30 s at the latest); none for the
user, for saves or for faults.  `Console` and `SchemaText` state safety only.

## 4. Proofs

### Stores and tenants

`MemoryStoreProofs` proves, for every value of the constants (any number of
tenants, tuples and instants, any map of tuples to keys, batches of any length up
to `MaxBatch`), that `IInv` is an inductive invariant of `MemoryStore`, and from it
`TypeCorrect`, `IdentityIsUnique`, `ReadersMissNoEntry` (`PagesLeaveNothingBehind`),
`LogReplaysToStore` and `AttributeWritesNeverPanic`.

Assumptions, all named in the module that declares the constants and evaluated by
TLC in `memory_store`: `KeyOf` maps tuples to keys (it need not be injective),
deadlines are natural numbers, entries that importers append are not marked `api`,
the bounds are natural numbers, and the sentinels are none of the values they stand
in for.

`IInv` is the conjunction of

* `TypeOK`;
* `MapsInitialised`: a tenant with a row is in `tupleMaps`, and a tenant in
  `tupleMaps` has both attribute maps.  `AttributeMapsReady` alone is not inductive:
  `initTenant` looks at `tuples` only, so the proof needs to know that whoever wrote
  that map wrote the other two as well;
* `UniqueIdentity`: needed by a re-grant, which replaces the one slot of its key, and
  by a delete, which removes the first match and must leave no second one;
* `SequenceContiguous`: between two purges the log is numbered 1, 2, 3, ... and the counter is
  its length.  It makes a new entry the last one of the log, so that appending decides
  what the log says about a tuple, and the order of a page that of the numbers, from which
  `PagesLeaveNothingBehind` follows for every position and limit;
* `LiveMatchesLog` itself.

Each action has a lemma that it preserves `IInv`; `NextIInv` collects them.  Most
actions touch one conjunct.  The two that carry the argument are `DeleteTupleIInv`
(removing the only position of a tuple and logging it) and `WriteTuplesIInv`, which
rests on lemmas about its parts: replaced slots keep their keys
(`ReplacedProperties`), new tuples have keys that are neither stored nor repeated in
the batch (`NewPositionsProperties`, `AppendedType`), and a log extended by entries
speaks of a tuple exactly as its last entry does (`LoggedAfter`, `AppendEffect`).
TLC was used to find `IInv` on the instance of `memory_store` before it was proved.

`TenantLifecycleProofs` proves, for any number of tenants, servers, requests in
flight and crashes, that `LInv` is an inductive invariant of `TenantLifecycle`, and
from it `SuperTenantExists` (`ServingHasBootstrap`), `ModeIsKept` (`RowsKeepMode`),
`IllegalIsLostUpdate` (`IllegalOnlyIfStale`) and `LifecycleTypeCorrect` (`TypeOK`,
which no run checks).  The assumptions are the three of the module: the super tenant
is a tenant, the crash bound is a natural number, and the sentinels are neither rows
nor requests nor references.  `LInv` adds three facts to `TypeOK` and
`ServingHasBootstrap`:

* `PendingWrites`: a request that has yet to write holds a row of a tenant that
  exists, in that row's mode.  A write replaces the whole row from an old copy, so
  without it a write-back could bring a row of another mode, or a row of nothing;
* `BootstrapCopies`: the same for a server about to write the super tenant;
* `PlannedStatus`: the status that a request will write is the target of its
  operation, which accepted the status it read.

The steps share one fact, `Grows` (no row disappears or changes its mode), which is
both the content of `RowsKeepMode` and what keeps `PendingWrites` and
`BootstrapCopies` of everybody else true.  `IllegalOnlyIfStale` then needs that only
its own write ends a request in a step that changes the table
(`OnlyWriteBackWrites`).

`MemoryStoreProofs` goes on from `IInv`.  `GrantsStep` says, action by action, what
a step does to the grants in force: nothing, a whole batch stored and logged, one grant
removed and logged, a tenant emptied with its log, or time passed.  From these five
cases follow `MemoryImplementsTupleStore` (`ImplementsTupleStore`: initial states map to
initial states, every step to a step of `TupleStore` or to none),
`GrantsChangeWithEntries` (`LiveChangesAreLogged`) and `RefusalsChangeNothing`
(`RefusalChangesNothing`).  The case that needs the invariant is a re-grant: the slot it
reuses must hold an expired tuple, or a grant would vanish without an entry.

`PostgresStoreProofs` proves, for any number of sessions, tenants, tuples, calls, batches,
failures and deadlocks, `LogReplaysToRows` (`LogMatchesRows`), `LateWritesAreStale`
(`InactiveChangesOnlyIfStale`), `PostgresImplementsTupleStore` (`ImplementsTupleStore`) and
`PostgresTypeCorrect` (`TypeOK`, which no run checks by itself).  The inductive invariant
`PInv` is `TypeOK`, `LogMatchesRows` and

* `Shapes`: what a call has added, removed and logged so far follows from its operation
  and its next statement; a commit publishes rows and entries that belong together;
* `RowsHeld` and `RowsExclusive`, what the unique index and the row locks give: a row
  that is being inserted is not stored, one that is being removed is, and two open
  transactions hold different rows;
* `NumbersGiven` and `OpenEntriesLast`: an open entry has a number above the committed
  ones on its tuple.  Numbers are taken before the commit, so the log is not in commit
  order; per tuple it is, because the row is held from before the number is taken to the
  commit.  This is why replaying by number is right although the log as a whole is not
  ordered;
* `PurgesKnown` and `OpenOrStale` for the exceptions that the properties name.

The same module adds the reader of `ChangelogPoll`: `ReaderBehind` (it is never ahead of the numbers
given out, so a number taken later is still before it) and, for a reader that goes on
from its last entry, `PassedAccounted` and `PageAccounted`: every number in use that it
passed, or passes with the page in its hands, was delivered or was open at the time.
`EntryReaderMissesOnlyOvertaken` (`MissesOnlyOvertaken`) has the hypothesis
`Position = "entry"`; for the other value the run `poll_from_latest` shows that it fails.

### Check engine

`CheckEngineProofs` proves for every schema, every graph of tuples that changes during
the walk, every operator `Evaluate` and every depth limit:

* `EngineTypeCorrect` (`TypeOK`) and `PathsAreSimple` (`PathIsSimple`).  `EInv` adds to
  them that the walk is on permissions and children that the schema has, that a check in
  progress answers the first item, and `PathOK`: every permission on the stack is in the
  visited set, no two are the same, and a frame of depth d stands on permissions of
  every depth below.  Bounding the depth of the top does not bound the path unless depths
  below it have no gaps, which is why the last part is there;
* `DeletedTenantNeverAllows` (`DeletedTenantDenies`), for every schema: a check during all of
  which the tenant is deleted allows only what the conditions of the permission grant
  without attributes (`ConditionsGrant`).  `DInv` says that such a check is `Silent`: it has
  passed nothing but conditions, which have decided as `ConditionsGrant` asks, or it has ended
  without an allow.  A child that asks for tuples fails, and every operator passes
  the error on;
* `AllowsAreJustified` (`AllowIsJustified`), under `Reliable`, and `DeniesAreJustified`
  (`DenyIsJustified`), under `Searchable`; the argument and the hypotheses are below.

The assumptions of `CheckEngine` say what the compiler (`pkg/schema`) and the types of the
engine guarantee: permissions are `PermissionDef`s with at least one child, a condition
evaluates to allow, deny or an error, the subjects of tuples are entities, and there are
finitely many entities and names (a store holds finitely many tuples).

*What an allow and a deny mean.*  `Meaning` is the last of a series of levels.
`Recursion` provides what is needed to reason about it: `SetInduction` gets induction over the numbers from a smallest
counterexample (the library's induction theorems take an operator as a parameter and
cannot be used), `Iteration` shows that functions defined by recursion up to a bound exist,
and `ClosedSet` that iterating a monotone map on the subsets of a finite set ends, within as
many steps as there are elements, in a set that the map does not leave.  So the last level of
"may" is such a closed set and has what all closed sets have.  For "must" induction over
the levels is enough.

The invariant `JInv` says what the frames on the stack stand for, in three parts.

* *Linked frames* (`Linked`, `On`, `Called`): a frame was called by the one below it, for
  the child it is at, and what a loop has pending was in the store at some moment of the
  check.
* *Allows* (`Allows`, `Progress`): when the innermost call has allowed, the child that it
  was called for is `Granted`: every closed set of the "may" rules has it.  Children that
  an intersection has passed are `Granted`, subtracted ones were `Spared`.  `Granted` only
  grows while the store changes (`GrantedMonotone`).
* *Denies* (`Left`, `Denies`, `Searched`): what a loop no longer has pending was missed, and
  as long as nothing has decided the check every visited node is on the stack or
  `Denied`: each way to be granted that was there all along leads to another visited node.
  At the end the visited nodes are thus a set that "must" cannot enter.  This is the
  reason why skipping a visited node loses nothing, and it needs all of them at once: the
  node that was skipped may still be walked further down the stack when it is skipped.

The engine does not keep to the documented meaning for every schema, so the theorems have
hypotheses about schema, tuples and conditions, each of them named, and each excluding a
case where the code does something else (section 3 lists the documentation's words):

| Hypothesis | What the code does without it |
|---|---|
| `InnerUngated` (`Reliable`) | the condition of a permission is evaluated by `Check` only, so a userset or arrow that leads to a permission with a condition ignores it |
| `ExclusionsArePlain` (`Reliable`) | a subtracted branch that fails, that meets a node its base has visited, or that goes through groups of groups counts as denied, and the check allows; where there is an exclusion, reads must not fail and the subtracted branches are relations of subjects or of groups of subjects |
| `AbsenceNeverHelps` (`Reliable`) | attributes that cannot be read are evaluated as an empty map, and permissions reached through usersets get no request context |
| `FirstGrantDecides` (`Searchable`) | a node that was visited, and granted, in one branch is skipped as denied in the next, which matters to an intersection |
| `NoSubPermissions` (`Searchable`) | a permission named among the children of another one is looked up as a relation |
| `GroupsAreFlat` (`Searchable`) | a group in a group is not expanded when it is a relation |
| `ContextNeverHelps` (`Searchable`) | permissions reached through usersets get no request context |

The instance of `check_walk` satisfies both `Reliable` and `Searchable`, that of
`check_policy` (with an exclusion, an intersection and conditions) satisfies `Reliable` only, so
that its denies are justified is model-checked and not proved; that of
`check_shared_node`, where TLC finds an allow that is not justified, satisfies
neither.

### Console

`ConsoleEditorProofs` proves `ForeignEditorIsCached` (`ForeignOnlyIfCached`),
`LoadedEditorsAreCurrent` (`LoadedEditorIsCurrent`) and `PageReadsItsWrites`
(`ReadsItsWrites`) for any number of tenants, entities, selections, saves and failures.
`PageInv` has the types; `Known`: what is not stored was never read; `ReadsFresh`: an
answer, and data that are neither being loaded nor to be loaded, are what is stored, but
for the keys that a save changed and has yet to tell (`Behind`) and those it misses
(`overtaken`: the first loads under way and `Unnamed`; `Told` has the rest of what it
changed); `LoadedFollows`: all saves under way are from the editor on the screen, as
long as that was filled by a load.  The properties speak of states without saves and are
not inductive: what they say must be known while saves are under way.

`ConsoleProofs` proves the six invariants of `console_pages` for every set of tenants,
documents, words and filters, every page size and every budget, so also for the
combinations of calls, moves and events that are out of TLC's reach:

* `SelectedTenantExists` (`SelectedExists`): the selection changes with the list that is
  taken in, and otherwise only to a member of it;
* `ReadsAgreeWithChecks` (`ReadsMatchChecks`), for every assignment of modes to tenants, from
  `MapsInv`: unless loads of a tenant overlapped there is at most one, and the engine has
  its document, whatever the mode.  A check looks there unless the mode is shared, which
  is the case that the property excepts;
* `DecisionAnswersLastCheck` (`DecisionIsOfLastCheck`), from `CallsInv` (calls have
  different numbers), `PendingInv` (a page waits for its own calls only) and
  `DecisionInv` (the only check it waits for is the last, and none while a decision is
  shown).  Late answers to a page that was left, and to an evaluator that was emptied,
  are the cases it takes care of;
* `FormsFitTheirSchema` (`FormFitsSchema`), from `FormInv`: the fit is kept field by
  field, each under the schema it was chosen from;
* `ChangelogIsReadOn` (`ReadsOn`), from `DataInv` (cached data and answers are pages of a
  log) and `ReadInv` (the page at the position was on the screen, so the step to its
  last entry passes nothing over);
* `ScreenShowsService` (`ScreenIsCurrent`), from `NamesInv` and `QuietInv`.  `QuietInv`
  says of every list of tuples and every schema, on the screen or not, that it is
  `Sound`.  `Coherent`: the key is `overtaken`, or a call changed it and has yet to tell
  (`Untold`), or every answer on its way and all data that will not be fetched again
  agree with the service (`Agrees`).  `Grounded`: what was answered once stays there, and
  an invalidated key on the screen is being fetched.  The argument: a fault or another
  client ends `quiet`; a key that comes on the screen is fetched when it is absent or
  invalidated; a call makes the keys it changes `Untold`, and when it settles it
  invalidates each of them or marks it `overtaken`; an answer is read from the service
  as it is.  A hook that invalidates less (the list on the screen only) breaks the
  step where a call settles, as it should.

The assumptions of `ConsoleShell` and `ConsoleEditor`: the selected tenant at the start and
the initial schemas exist, a page holds at least one entry, the sentinels are no data, a
name is not empty (form and service refuse empty fields) and what a document declares are
names, and `MaxLog` is large enough for every budget, so that it bounds no behaviour.

### Readers of the schema text

`SchemaTextProofs` proves the four invariants of `schema_views` for documents of any
length and any sets of names and lists, under `TextAssumption`: names are neither comments
nor the sentinels, and the lists of a relation are sequences of targets with a type.  All
four are about documents where no opening line has a comment behind it (`OpeningsAreBare`);
what such a comment does to a scanner is in section 3.  Comments behind other lines are
covered: `FoundTargets` and `Shown` say what a relation's list becomes.

* `DialogReads` (`DialogReadsDocument`) and `EvaluatorReads` (`EvaluatorReadsDocument`),
  from `TextInv`.  The properties are about what a scanner has found and are not inductive:
  the next line is read by a scanner that is somewhere.  `ScanInv` says where, for both
  sections a scanner may look for: what it has found is what was declared, and its `depth`
  is the one that belongs to `place`, the section the author is in.  Reading a document
  and some more lines is reading the lines from the state after the document
  (by `BoundedInduction`), so one step of the author is a few steps of the scanner; for a
  list below `types:` it is as many as the list is long, which is an induction too.
* `GraphReads` (`GraphReadsDocument`), from `TextInv` and `OnceInv` (`TextOnce`: a name is
  declared once, so the map in `parseTypes` replaces nothing).  `IsGraph(g, types, N, E)`
  says that g has one node for each name in N and one edge for each pair in E, with its
  relations; adding a node or an edge adds to N or E (`NodeAdded`, `EdgeAdded`), and three
  nested inductions go over targets, relations and types.
* `ViewerLoses` (`ViewerLosesOnlyLast`), from `ViewInv`: every card, finished or being read,
  has the relations of its type and exactly its permissions but the last (`AllButLast`),
  and the permission that is being collected is the last one of the last section that was
  written (`Collected`, `PendingOf`), also when types without sections follow it.  That is
  what makes the statement exact: at the end the view puts the collected permission on
  the last card, whichever type it is of.  It holds as long as no comment ends with a colon,
  which the view takes for a type or a member.

### What the proofs changed, and what is not proved

Stating the proofs changed the model in five places.  `Served` had a CASE whose guards
overlapped, so that the value of a key was not determined for all constants; the guards
are disjoint now.  `FormFitsSchema` asked for the relation of a type to exist also where
the type declares none and the dialog lets the user type one; it says now what the dialog
offers.  The recursion of `treeToFlow` became a function of levels, `Meaning` the last of a
series of levels, and the readers of `SchemaText` recursive functions instead of folds.

Every invariant and every action property that a passing run checks is thus stated by a
theorem (the two of the check engine under the hypotheses above).  Only model-checked is
liveness (`EventuallyServing`, `EveryRequestAnswered`,
`EveryCallReturns`, `EditorOpens`), which is out of the prover's reach together with
`ENABLED`.

## 5. Not modelled

* Schema parser, compiler and validator: stateless functions.  `CheckEngine` takes
  compiled schemas as constants and `Console` the set of accepted documents, so a run
  says nothing about a schema that the compiler would change or refuse.
* expr-lang, which evaluates conditions, is the constant operator `Evaluate`.
* JSON, HTTP routing, authentication headers, logging and timestamps.
* `CheckDirectCrossTenant` and the cross-tenant resolver: the engine never calls
  them, and the resolver refuses everything.
* In the console: the component library (`components/ui`, wrappers of Radix), styles,
  the layout of the graphs (dagre), `SchemaMeta` and `TupleDisplay`, which format what
  they are given; hooks that no page uses (`useTenant`, `useWriteTuplesBatch`); a state
  without a selected tenant, which the store's default value and the selector exclude.
* The documentation site and the build configuration.

## 6. Plan

1. `SchemaCompile`: compiler and validator as operators on small schemas, checked
   against "a schema that is accepted is walked without a schema error"; composed
   with `CheckEngine` by generating its `Schema` constant.
2. `TupleExpiry`: the conversion of `ttl_seconds` and `expires_at` of a tuple request
   with the width of a Go duration.
3. Theorems: weaker hypotheses than `Searchable`, in particular intersections whose
   branches share no node, and `ExclusionsArePlain` with subtracted permissions that do
   not share a node with their base.
