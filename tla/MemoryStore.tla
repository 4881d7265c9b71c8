----------------------------- MODULE MemoryStore -----------------------------
(***************************************************************************)
(* The in-memory tuple store (pkg/storage/memory/store.go).  One           *)
(* read-write mutex guards all maps, so every method is one atomic step;   *)
(* callers interleave between methods.  Per tenant the store keeps the     *)
(* tuples, two attribute maps, a changelog and the counter its sequence    *)
(* numbers come from.                                                      *)
(*                                                                         *)
(* reply is what the last mutating call returned to its caller.            *)
(***************************************************************************)
EXTENDS TupleQueries

CONSTANTS
    Tenants,        \* tenant identifiers
    Tuples,         \* tuple identities: the six fields, as records
    Keys, KeyOf,    \* the strings of tupleIdentityKey and the map to them
    AttrKeys,       \* the "type:id" strings of the attribute maps
    Attrs,          \* attribute maps a caller may store
    Deadlines,      \* the ExpiresAt instants callers ask for
    External,       \* what importers pass to AppendChangelog
    NoTenant,       \* no row in the tenants map
    NilMap,         \* a nil Go map: reading it is fine, writing it panics
    NoAttrs,        \* no entry in an attribute map
    MaxTime,        \* bound on the clock
    MaxBatch,       \* bound on the tuples of one WriteTuples call
    MaxLog          \* bound on a tenant's sequence counter

Statuses  == {"pending", "active", "suspended", "deleted"}
Stored    == [tuple : Tuples, expires : Deadlines \cup {Never}]
AttrMap   == [AttrKeys -> Attrs \cup {NoAttrs}]
EmptyAttrs == [k \in AttrKeys |-> NoAttrs]
Ops       == {"INSERT", "DELETE", "UPDATE"}
Sources   == {"api", "import", "sync"}
Entry     == [seq : Nat, op : Ops, stored : Stored, source : Sources]

\* An importer never claims to be the API: the comment on the field Source
\* of a ChangelogEntry keeps "api" for the store's own entries.
ASSUME ConstantsAssumption ==
    /\ KeyOf \in [Tuples -> Keys]
    /\ Deadlines \subseteq Nat
    /\ External \subseteq [op : Ops, stored : Stored, source : Sources \ {"api"}]
    /\ MaxTime \in Nat /\ MaxBatch \in Nat /\ MaxLog \in Nat

ASSUME SentinelAssumption ==
    /\ NoTenant \notin Statuses
    /\ NoAttrs \notin Attrs
    /\ NilMap \notin [AttrKeys -> Attrs \cup {NoAttrs}]

VARIABLES tenants, tuples, tupleMaps, objAttrs, subAttrs, changelog,
          seqCounter, now, reply

data == <<tuples, tupleMaps, objAttrs, subAttrs, changelog, seqCounter>>
vars == <<tenants, data, now, reply>>

-----------------------------------------------------------------------------
(* The shape of the state.                                                 *)

Replies   == {"ok", "ErrTenantExists", "ErrTenantNotFound", "ErrTenantDeleted",
              "ErrTenantSuspended", "ErrDuplicateTuple", "ErrNotFound", "panic"}
Batches   == UNION {[1..n -> Stored] : n \in 0..MaxBatch}

\* tupleMaps is the set of tenants that have a key in the tuples map, even
\* one whose slice is nil: initTenant looks at exactly that.
TypeOK ==
    /\ tenants \in [Tenants -> Statuses \cup {NoTenant}]
    /\ tuples \in [Tenants -> Seq(Stored)]
    /\ tupleMaps \in SUBSET Tenants
    /\ objAttrs \in [Tenants -> AttrMap \cup {NilMap}]
    /\ subAttrs \in [Tenants -> AttrMap \cup {NilMap}]
    /\ changelog \in [Tenants -> Seq(Entry)]
    /\ seqCounter \in [Tenants -> Nat]
    /\ now \in Nat
    /\ reply \in Replies

-----------------------------------------------------------------------------
(* Helpers.                                                                *)

tupleIdentityKey(x) == KeyOf[x]

\* A mutant of checkTenantWritable: an error the API does not know.
checkTenantWritable_NewError(t) ==
    CASE tenants[t] = NoTenant  -> "ErrTenantNotFound"
      [] tenants[t] = "deleted" -> "ErrTenantDeleted"
      [] tenants[t] = "suspended" -> "ErrTenantSuspended"
      [] tenants[t] = "pending" -> "ErrTenantPending"
      [] tenants[t] = "active"  -> "ok"

\* "ok" when the tenant accepts writes, else the error of the call.
checkTenantWritable(t) ==
    CASE tenants[t] = NoTenant  -> "ErrTenantNotFound"
      [] tenants[t] = "deleted" -> "ErrTenantDeleted"
      [] tenants[t] \in {"suspended", "pending"} -> "ErrTenantSuspended"
      [] tenants[t] = "active"  -> "ok"

checkTenantReadable(t) ==
    CASE tenants[t] = NoTenant  -> "ErrTenantNotFound"
      [] tenants[t] = "deleted" -> "ErrTenantDeleted"
      [] OTHER -> "ok"

\* The identity keys of the tuples that are still in force.
existingKeys(t) ==
    {tupleIdentityKey(s.tuple) : s \in Live(tuples[t], now)}

\* The position a new tuple takes over: the first expired tuple with its key.
expiredIndexes(t, x) ==
    {i \in DOMAIN tuples[t] :
        /\ tupleIsExpiredAt(tuples[t][i], now)
        /\ tupleIdentityKey(tuples[t][i].tuple) = tupleIdentityKey(x)
        /\ \A j \in 1..(i - 1) :
              ~ /\ tupleIsExpiredAt(tuples[t][j], now)
                /\ tupleIdentityKey(tuples[t][j].tuple) = tupleIdentityKey(x)}

\* A mutant of HasDuplicate: the keys of the batch itself are not collected.
HasDuplicate_StoredOnly(t, batch) ==
    \E i \in DOMAIN batch : tupleIdentityKey(batch[i].tuple) \in existingKeys(t)

\* Some tuple of the batch has the key of a live tuple or of an earlier
\* tuple of the same batch.
HasDuplicate(t, batch) ==
    \/ \E i \in DOMAIN batch : tupleIdentityKey(batch[i].tuple) \in existingKeys(t)
    \/ \E i, j \in DOMAIN batch :
          /\ i # j
          /\ tupleIdentityKey(batch[i].tuple) = tupleIdentityKey(batch[j].tuple)

\* The staged tuples take the place of the expired tuples with their keys...
Replaced(t, batch) ==
    [i \in DOMAIN tuples[t] |->
        IF \E b \in DOMAIN batch : i \in expiredIndexes(t, batch[b].tuple)
        THEN batch[CHOOSE b \in DOMAIN batch :
                      i \in expiredIndexes(t, batch[b].tuple)]
        ELSE tuples[t][i]]

\* ...and the others are appended in the order of the batch: an ordering
\* lists their positions in the batch from the first to the last.
NewPositions(t, batch) ==
    {b \in DOMAIN batch : expiredIndexes(t, batch[b].tuple) = {}}

Orderings(positions) ==
    {f \in [1..Cardinality(positions) -> positions] :
        /\ \A m, n \in DOMAIN f : m < n => f[m] < f[n]
        /\ \A b \in positions : \E n \in DOMAIN f : f[n] = b}

Appended(batch, f) == [n \in DOMAIN f |-> batch[f[n]]]

\* A mutant of Entries: the counter moves on once for the whole batch.
Entries_OneNumber(t, op, source, batch) ==
    [i \in DOMAIN batch |-> [seq |-> seqCounter[t] + Len(batch), op |-> op,
                             stored |-> batch[i], source |-> source]]

\* One changelog entry per tuple, numbered on from the tenant's counter.
Entries(t, op, source, batch) ==
    [i \in DOMAIN batch |-> [seq |-> seqCounter[t] + i, op |-> op,
                             stored |-> batch[i], source |-> source]]

appendTupleChangelog(t, op, source, batch) ==
    /\ seqCounter[t] + Len(batch) <= MaxLog
    /\ seqCounter' = [seqCounter EXCEPT ![t] = @ + Len(batch)]
    /\ changelog' = [changelog EXCEPT ![t] = @ \o Entries(t, op, source, batch)]

Without(s, i) == SubSeq(s, 1, i - 1) \o SubSeq(s, i + 1, Len(s))

\* A call that returns early with an error.
Refuse(err) ==
    /\ reply' = err
    /\ UNCHANGED <<tenants, data, now>>

-----------------------------------------------------------------------------
(* The tenant table.                                                       *)

initTenant(t) ==
    IF t \in tupleMaps
    THEN UNCHANGED data
    ELSE /\ tupleMaps' = tupleMaps \cup {t}
         /\ tuples' = [tuples EXCEPT ![t] = <<>>]
         /\ objAttrs' = [objAttrs EXCEPT ![t] = EmptyAttrs]
         /\ subAttrs' = [subAttrs EXCEPT ![t] = EmptyAttrs]
         /\ changelog' = [changelog EXCEPT ![t] = <<>>]
         /\ seqCounter' = [seqCounter EXCEPT ![t] = 0]

CreateTenant(t, status) ==
    IF tenants[t] # NoTenant
    THEN Refuse("ErrTenantExists")
    ELSE /\ tenants' = [tenants EXCEPT ![t] = status]
         /\ initTenant(t)
         /\ reply' = "ok"
         /\ UNCHANGED now

\* The row is overwritten whatever it holds: the store checks no transition.
UpdateTenant(t, status) ==
    IF tenants[t] = NoTenant
    THEN Refuse("ErrTenantNotFound")
    ELSE /\ tenants' = [tenants EXCEPT ![t] = status]
         /\ reply' = "ok"
         /\ UNCHANGED <<data, now>>

-----------------------------------------------------------------------------
(* Tuples.                                                                 *)

\* A mutant of CommitBatch: only the appended tuples are logged, not the ones
\* that take the place of an expired tuple.
CommitBatch_LogsAppendedOnly(t, batch) ==
    /\ \E f \in Orderings(NewPositions(t, batch)) :
          /\ tuples' = [tuples EXCEPT ![t] = Replaced(t, batch) \o Appended(batch, f)]
          /\ appendTupleChangelog(t, "INSERT", "api", Appended(batch, f))
    /\ UNCHANGED <<tupleMaps, objAttrs, subAttrs>>

\* The effect of a batch that has no duplicate.
CommitBatch(t, batch) ==
    /\ \E f \in Orderings(NewPositions(t, batch)) :
          tuples' = [tuples EXCEPT ![t] = Replaced(t, batch) \o Appended(batch, f)]
    /\ appendTupleChangelog(t, "INSERT", "api", batch)
    /\ UNCHANGED <<tupleMaps, objAttrs, subAttrs>>

\* A mutant of WriteTuples: the tuples before the duplicate stay stored.
WriteTuples_OneByOne(t, batch) ==
    LET err == checkTenantWritable(t)
    IN  IF err # "ok" THEN Refuse(err)
        ELSE IF HasDuplicate(t, batch)
        THEN /\ Len(batch) > 1 /\ ~HasDuplicate(t, <<batch[1]>>)
             /\ CommitBatch(t, <<batch[1]>>)
             /\ reply' = "ErrDuplicateTuple"
             /\ UNCHANGED <<tenants, now>>
        ELSE /\ CommitBatch(t, batch)
             /\ reply' = "ok"
             /\ UNCHANGED <<tenants, now>>

\* WriteTuple is WriteTuples with a batch of one.
WriteTuples(t, batch) ==
    LET err == checkTenantWritable(t)
    IN  IF err # "ok" THEN Refuse(err)
        ELSE IF HasDuplicate(t, batch) THEN Refuse("ErrDuplicateTuple")
        ELSE /\ CommitBatch(t, batch)
             /\ reply' = "ok"
             /\ UNCHANGED <<tenants, now>>

\* The first tuple with these six fields, expired or not, is removed.
Position(t, x) ==
    CHOOSE i \in DOMAIN tuples[t] :
        /\ tuples[t][i].tuple = x
        /\ \A j \in 1..(i - 1) : tuples[t][j].tuple # x

\* A mutant of RemoveTuple: the removal is not logged.
RemoveTuple_Unlogged(t, x) ==
    /\ tuples' = [tuples EXCEPT ![t] = Without(@, Position(t, x))]
    /\ UNCHANGED <<tupleMaps, objAttrs, subAttrs, changelog, seqCounter>>

RemoveTuple(t, x) ==
    LET i == Position(t, x)
    IN  /\ tuples' = [tuples EXCEPT ![t] = Without(@, i)]
        /\ appendTupleChangelog(t, "DELETE", "api", <<tuples[t][i]>>)
        /\ UNCHANGED <<tupleMaps, objAttrs, subAttrs>>

DeleteTuple(t, x) ==
    LET err == checkTenantWritable(t)
    IN  IF err # "ok" THEN Refuse(err)
        ELSE IF ~\E i \in DOMAIN tuples[t] : tuples[t][i].tuple = x
        THEN Refuse("ErrNotFound")
        ELSE /\ RemoveTuple(t, x)
             /\ reply' = "ok"
             /\ UNCHANGED <<tenants, now>>

-----------------------------------------------------------------------------
(* Attributes.  A write to a nil map panics; the deferred unlock releases  *)
(* the mutex and the state stays as it was.                                *)

SetObjectAttributes(t, k, a) ==
    LET err == checkTenantWritable(t)
    IN  IF err # "ok" THEN Refuse(err)
        ELSE IF objAttrs[t] = NilMap THEN Refuse("panic")
        ELSE /\ objAttrs' = [objAttrs EXCEPT ![t][k] = a]
             /\ reply' = "ok"
             /\ UNCHANGED <<tenants, tuples, tupleMaps, subAttrs, changelog, seqCounter, now>>

SetSubjectAttributes(t, k, a) ==
    LET err == checkTenantWritable(t)
    IN  IF err # "ok" THEN Refuse(err)
        ELSE IF subAttrs[t] = NilMap THEN Refuse("panic")
        ELSE /\ subAttrs' = [subAttrs EXCEPT ![t][k] = a]
             /\ reply' = "ok"
             /\ UNCHANGED <<tenants, tuples, tupleMaps, objAttrs, changelog, seqCounter, now>>

-----------------------------------------------------------------------------
(* Changelog and tenant data.                                              *)

\* An importer or a synchroniser records a change it made elsewhere.  The
\* store keeps the entry and gives it the next number.
AppendChangelog(t, e) ==
    LET err == checkTenantWritable(t)
    IN  IF err # "ok" THEN Refuse(err)
        ELSE /\ appendTupleChangelog(t, e.op, e.source, <<e.stored>>)
             /\ reply' = "ok"
             /\ UNCHANGED <<tenants, tuples, tupleMaps, objAttrs, subAttrs, now>>

\* A mutant of PurgeTenantData: the attribute maps are removed, not emptied.
PurgeTenantData_NilMaps(t) ==
    /\ tupleMaps' = tupleMaps \cup {t}
    /\ tuples' = [tuples EXCEPT ![t] = <<>>]
    /\ objAttrs' = [objAttrs EXCEPT ![t] = NilMap]
    /\ subAttrs' = [subAttrs EXCEPT ![t] = NilMap]
    /\ changelog' = [changelog EXCEPT ![t] = <<>>]
    /\ seqCounter' = [seqCounter EXCEPT ![t] = 0]
    /\ reply' = "ok"
    /\ UNCHANGED <<tenants, now>>

\* Looks at no status, and not even at whether the tenant exists.
PurgeTenantData(t) ==
    /\ tupleMaps' = tupleMaps \cup {t}
    /\ tuples' = [tuples EXCEPT ![t] = <<>>]
    /\ objAttrs' = [objAttrs EXCEPT ![t] = EmptyAttrs]
    /\ subAttrs' = [subAttrs EXCEPT ![t] = EmptyAttrs]
    /\ changelog' = [changelog EXCEPT ![t] = <<>>]
    /\ seqCounter' = [seqCounter EXCEPT ![t] = 0]
    /\ reply' = "ok"
    /\ UNCHANGED <<tenants, now>>

\* The positions of the entries a page holds: in the order of the log, the
\* entries after a number, the first limit of them when there is a limit.
ReadChangelog(t, since, limit) ==
    {i \in DOMAIN changelog[t] :
        /\ changelog[t][i].seq > since
        /\ limit > 0 =>
              Cardinality({j \in 1..i : changelog[t][j].seq > since}) <= limit}

LatestSequence(t) == seqCounter[t]

\* Wall-clock time passes.
Tick ==
    /\ now < MaxTime
    /\ now' = now + 1
    /\ UNCHANGED <<tenants, data, reply>>

-----------------------------------------------------------------------------
Init ==
    /\ tenants = [t \in Tenants |-> NoTenant]
    /\ tuples = [t \in Tenants |-> <<>>]
    /\ tupleMaps = {}
    /\ objAttrs = [t \in Tenants |-> NilMap]
    /\ subAttrs = [t \in Tenants |-> NilMap]
    /\ changelog = [t \in Tenants |-> <<>>]
    /\ seqCounter = [t \in Tenants |-> 0]
    /\ now = 0
    /\ reply = "ok"

Next ==
    \/ \E t \in Tenants, status \in Statuses : CreateTenant(t, status)
    \/ \E t \in Tenants, status \in Statuses : UpdateTenant(t, status)
    \/ \E t \in Tenants, batch \in Batches : WriteTuples(t, batch)
    \/ \E t \in Tenants, x \in Tuples : DeleteTuple(t, x)
    \/ \E t \in Tenants, k \in AttrKeys, a \in Attrs : SetObjectAttributes(t, k, a)
    \/ \E t \in Tenants, k \in AttrKeys, a \in Attrs : SetSubjectAttributes(t, k, a)
    \/ \E t \in Tenants, e \in External : AppendChangelog(t, e)
    \/ \E t \in Tenants : PurgeTenantData(t)
    \/ Tick

Spec == Init /\ [][Next]_vars

-----------------------------------------------------------------------------
(* Properties.                                                             *)

\* No two tuples a tenant holds, expired ones included, share an identity
\* key.  writeTuplesLocked reuses the slot of an expired tuple, DeleteTuple
\* stops at the first match: both rely on it.
UniqueIdentity ==
    \A t \in Tenants : \A i, j \in DOMAIN tuples[t] :
        tupleIdentityKey(tuples[t][i].tuple) = tupleIdentityKey(tuples[t][j].tuple)
            => i = j

\* A reader that asks for the entries after a number it knows, with any
\* limit, can read on from what it gets: what a page leaves out is numbered
\* after everything on the page, a page is empty only when nothing is newer,
\* and no entry is numbered beyond what LatestSequence returns.  Entries of
\* one batch share one lock and one call, and must not share a number.
PagesLeaveNothingBehind ==
    \A t \in Tenants, since \in 0..MaxLog, limit \in 0..MaxLog :
        LET log   == changelog[t]
            page  == ReadChangelog(t, since, limit)
            newer == {i \in DOMAIN log : log[i].seq > since}
        IN  /\ \A i \in page, j \in newer \ page : log[i].seq < log[j].seq
            /\ newer # {} => page # {}
            /\ \A i \in newer : log[i].seq <= LatestSequence(t)

\* What the store's own entries of the changelog say is in force: the last
\* entry about the tuple is an INSERT whose deadline has not passed.
About(t, i, x) ==
    changelog[t][i].source = "api" /\ changelog[t][i].stored.tuple = x

LastWord(t, i) ==
    /\ changelog[t][i].source = "api"
    /\ \A j \in (i + 1)..Len(changelog[t]) :
          ~About(t, j, changelog[t][i].stored.tuple)

LoggedLive(t) ==
    {changelog[t][i].stored : i \in
        {k \in DOMAIN changelog[t] :
            /\ LastWord(t, k)
            /\ changelog[t][k].op = "INSERT"
            /\ ~tupleIsExpiredAt(changelog[t][k].stored, now)}}

\* Replaying the changelog gives exactly the tuples in force, deadlines
\* included, whatever batches, re-grants of expired keys, deletes of expired
\* tuples, identity-key collisions and purges came before.
LiveMatchesLog ==
    \A t \in Tenants : Live(tuples[t], now) = LoggedLive(t)

\* A tenant with a row never has a nil attribute map, so that setting an
\* attribute never panics: also when the tenant was purged before it was
\* created, which makes initTenant skip its initialisation.
AttributeMapsReady ==
    \A t \in Tenants : tenants[t] # NoTenant =>
        objAttrs[t] # NilMap /\ subAttrs[t] # NilMap

\* A grant appears only with an INSERT entry written in the same step; it
\* goes away only with a DELETE entry, with its deadline, or with the whole
\* changelog in a purge.
NewEntry(t, op, s) ==
    \E i \in (Len(changelog[t]) + 1)..Len(changelog'[t]) :
        /\ changelog'[t][i].op = op
        /\ changelog'[t][i].stored = s

LiveChangesAreLogged ==
    [][\A t \in Tenants :
          /\ \A s \in Live(tuples'[t], now') \ Live(tuples[t], now) : NewEntry(t, "INSERT", s)
          /\ \A s \in Live(tuples[t], now) \ Live(tuples'[t], now') :
                \/ NewEntry(t, "DELETE", s)
                \/ now' # now /\ tupleIsExpiredAt(s, now')
                \/ changelog'[t] = <<>>]_vars

\* A call that reports an error left all data of all tenants as it was: no
\* part of a refused batch is stored or logged.
RefusalChangesNothing ==
    [][reply' # "ok" => UNCHANGED <<tenants, data>>]_vars

\* The store implements the abstract one: whatever slots are reused, the
\* grants in force change as a whole batch, one at a time, with a purge or
\* with time, and callers write and delete them only while the tenant is
\* active.  PurgeTenantData looks at no status, so that a purge is admitted
\* for every tenant.
Abstract == INSTANCE TupleStore
    WITH Grants  <- Stored,
         PurgeIsAdmitted <- FALSE,
         inForce <- [t \in Tenants |-> Live(tuples[t], now)],
         admits  <- {t \in Tenants : tenants[t] = "active"}

ImplementsTupleStore == Abstract!Spec
=============================================================================
