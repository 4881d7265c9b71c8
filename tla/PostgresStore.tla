---------------------------- MODULE PostgresStore ----------------------------
(***************************************************************************)
(* The writes of the PostgreSQL tuple store (pkg/storage/postgres).  A     *)
(* call looks up the status of its tenant, opens a transaction and sends   *)
(* its statements one by one; every statement is an action and the calls   *)
(* of different sessions interleave between statements, under READ         *)
(* COMMITTED.  The changelog numbers come from one BIGSERIAL column: a     *)
(* number is taken when the entry is inserted and becomes visible when the *)
(* transaction commits.                                                    *)
(*                                                                         *)
(* Deadlines are left out.  The unique index covers expired rows too, and  *)
(* PostgreSQL ignores every statement that follows an error in a           *)
(* transaction, so refreshExpiredTupleTx always fails: inserting a row     *)
(* that is there ends the call with an error, expired or not.  What a call *)
(* returns is left out as well; every error rolls its transaction back.    *)
(***************************************************************************)
EXTENDS Integers, Sequences, FiniteSets

CONSTANTS
    Sessions,       \* concurrent calls, each on a connection of the pool
    Tenants,        \* tenant identifiers
    Tuples,         \* tuple identities
    Batches,        \* what callers pass to WriteTuple and WriteTuples
    External,       \* what importers pass to AppendChangelog
    NewStatuses,    \* the statuses a tenant may change to
    Idle,           \* no call on this session
    MaxCalls,       \* bound on the calls begun
    MaxStatus,      \* bound on the status changes
    MaxFaults       \* bound on the statements that fail

Statuses == {"pending", "active", "suspended", "deleted"}
Ops      == {"INSERT", "DELETE", "UPDATE"}
Sources  == {"api", "import", "sync"}
Entry    == [seq : Nat, op : Ops, tuple : Tuples, source : Sources]
Tables   == {"object", "subject"}

ASSUME ConstantsAssumption ==
    /\ Batches \subseteq Seq(Tuples) \ {<<>>}
    /\ External \subseteq [op : Ops, tuple : Tuples, source : Sources \ {"api"}]
    /\ NewStatuses \subseteq Statuses
    /\ MaxCalls \in Nat /\ MaxStatus \in Nat /\ MaxFaults \in Nat

\* A call: its transaction is what it added, removed and logged so far.
Call == [op : {"write", "delete", "append", "set", "purge"},
         tenant : Tenants,
         pc : {"row", "log", "commit", "object", "subject", "changelog"},
         rest : Seq(Tuples),            \* tuples the loop has yet to handle
         entry : External \cup {Idle},  \* the argument of AppendChangelog
         added : SUBSET Tuples, removed : SUBSET Tuples,
         entries : SUBSET Entry]

ASSUME IdleAssumption == Idle \notin Call /\ Idle \notin External

VARIABLES
    tenants,        \* status of each tenant
    rows,           \* committed relation_tuples with deleted_at IS NULL
    attributes,     \* the attribute tables a tenant has rows in
    changelog,      \* committed changelog entries
    lastSeq,        \* last number the BIGSERIAL column gave out
    call,           \* the call each session is in
    purged,         \* tenants a purge was begun for
    stale,          \* sessions whose tenant changed after they looked it up
    calls, changes, faults      \* counters for the bounds

data     == <<rows, attributes, changelog>>
counters == <<calls, changes, faults>>
vars     == <<tenants, data, lastSeq, call, purged, stale, counters>>

\* The shape of the state.
TypeOK ==
    /\ tenants \in [Tenants -> Statuses]
    /\ rows \in [Tenants -> SUBSET Tuples]
    /\ attributes \in [Tenants -> SUBSET Tables]
    /\ changelog \in [Tenants -> SUBSET Entry]
    /\ lastSeq \in Nat
    /\ call \in [Sessions -> Call \cup {Idle}]
    /\ purged \in SUBSET Tenants
    /\ stale \in SUBSET Sessions
    /\ calls \in 0..MaxCalls /\ changes \in 0..MaxStatus /\ faults \in 0..MaxFaults

-----------------------------------------------------------------------------
(* Helpers.                                                                *)

\* A mutant of ensureTenantWritable: ensureTenantReadable in its place.
ensureTenantWritable_Readable(t) == tenants[t] # "deleted"

ensureTenantReadable(t) == tenants[t] # "deleted"
ensureTenantWritable(t) == tenants[t] = "active"

Busy(s) == call[s] # Idle

At(s, op, pc) == Busy(s) /\ call[s].op = op /\ call[s].pc = pc

\* Other sessions with an uncommitted insert or soft delete of a row.
Inserting(s, t, x) ==
    {r \in Sessions \ {s} : Busy(r) /\ call[r].tenant = t /\ x \in call[r].added}
Removing(s, t, x) ==
    {r \in Sessions \ {s} : Busy(r) /\ call[r].tenant = t /\ x \in call[r].removed}

\* Whom the next statement of a session has to wait for.  The unique index
\* makes an insert wait for both.  A soft delete waits for the lock of the
\* row it found and does not see rows that are not committed.
Blockers(s) ==
    LET c == call[s] IN
    IF ~Busy(s) \/ c.pc # "row" THEN {}
    ELSE CASE c.op = "write"  -> Inserting(s, c.tenant, Head(c.rest))
                                    \cup Removing(s, c.tenant, Head(c.rest))
           [] c.op = "delete" -> Removing(s, c.tenant, Head(c.rest))
           [] c.op = "purge"  -> UNION {Removing(s, c.tenant, x) : x \in Tuples}
           [] OTHER           -> {}

\* The index refuses a row that is there, be it one of this transaction.
\* The refresh that follows runs in an aborted transaction and fails.
UniqueViolation(c, x) == x \in rows[c.tenant] \cup c.added

\* The deferred Rollback, or the return of a call outside a transaction.
Return(s) ==
    /\ call' = [call EXCEPT ![s] = Idle]
    /\ stale' = stale \ {s}

-----------------------------------------------------------------------------
(* The beginning of a call: the tenant is looked up in a statement of its  *)
(* own.  A call that finds it not writable returns and leaves no trace.    *)

Begin(s, t, op, pc, batch, entry) ==
    /\ ~Busy(s)
    /\ calls < MaxCalls
    /\ ensureTenantWritable(t)
    /\ call' = [call EXCEPT ![s] =
            [op |-> op, tenant |-> t, pc |-> pc, rest |-> batch, entry |-> entry,
             added |-> {}, removed |-> {}, entries |-> {}]]
    /\ calls' = calls + 1
    /\ UNCHANGED <<tenants, data, lastSeq, stale, changes, faults>>

WriteTuples(s, t) ==
    /\ \E b \in Batches : Begin(s, t, "write", "row", b, Idle)
    /\ UNCHANGED purged

DeleteTuple(s, t) ==
    /\ \E x \in Tuples : Begin(s, t, "delete", "row", <<x>>, Idle)
    /\ UNCHANGED purged

AppendChangelog(s, t) ==
    /\ \E e \in External : Begin(s, t, "append", "log", <<e.tuple>>, e)
    /\ UNCHANGED purged

SetAttributes(s, t) ==
    /\ \E table \in Tables : Begin(s, t, "set", table, <<>>, Idle)
    /\ UNCHANGED purged

PurgeTenantData(s, t) ==
    /\ Begin(s, t, "purge", "row", <<>>, Idle)
    /\ purged' = purged \cup {t}

-----------------------------------------------------------------------------
(* The statements.                                                         *)

\* A mutant of InsertRow: a duplicate is tried again and again.
InsertRow_Retries(s) ==
    LET c == call[s]
        x == Head(c.rest)
    IN  /\ At(s, "write", "row")
        /\ Blockers(s) = {}
        /\ ~UniqueViolation(c, x)
        /\ call' = [call EXCEPT ![s].added = @ \cup {x}, ![s].pc = "log"]
        /\ UNCHANGED <<tenants, data, lastSeq, purged, stale, counters>>

\* INSERT INTO relation_tuples, or the end of the call.
InsertRow(s) ==
    LET c == call[s]
        x == Head(c.rest)
    IN  /\ At(s, "write", "row")
        /\ Blockers(s) = {}
        /\ \/ /\ UniqueViolation(c, x)
              /\ Return(s)
           \/ /\ ~UniqueViolation(c, x)
              /\ call' = [call EXCEPT ![s].added = @ \cup {x}, ![s].pc = "log"]
              /\ UNCHANGED stale
        /\ UNCHANGED <<tenants, data, lastSeq, purged, counters>>

\* A mutant of SoftDeleteRow: the number of affected rows is not looked at.
SoftDeleteRow_IgnoresCount(s) ==
    LET c == call[s]
        x == Head(c.rest)
    IN  /\ At(s, "delete", "row")
        /\ Blockers(s) = {}
        /\ call' = [call EXCEPT ![s].removed = {x} \cap rows[c.tenant],
                                ![s].pc = "log"]
        /\ UNCHANGED <<tenants, data, lastSeq, purged, stale, counters>>

\* UPDATE relation_tuples SET deleted_at.  No row: ErrNotFound.
SoftDeleteRow(s) ==
    LET c == call[s]
        x == Head(c.rest)
    IN  /\ At(s, "delete", "row")
        /\ Blockers(s) = {}
        /\ \/ /\ x \notin rows[c.tenant]
              /\ Return(s)
           \/ /\ x \in rows[c.tenant]
              /\ call' = [call EXCEPT ![s].removed = {x}, ![s].pc = "log"]
              /\ UNCHANGED stale
        /\ UNCHANGED <<tenants, data, lastSeq, purged, counters>>

\* A mutant of NewEntry: a write is logged under a name of its own.
NewEntry_Upsert(c, seq) ==
    IF c.op = "append"
    THEN [seq |-> seq, op |-> c.entry.op, tuple |-> c.entry.tuple, source |-> c.entry.source]
    ELSE [seq |-> seq, op |-> "UPSERT", tuple |-> Head(c.rest), source |-> "api"]

\* The entry of the statement before: the API's own, or the importer's.
NewEntry(c, seq) ==
    CASE c.op = "write"  -> [seq |-> seq, op |-> "INSERT", tuple |-> Head(c.rest),
                             source |-> "api"]
      [] c.op = "delete" -> [seq |-> seq, op |-> "DELETE", tuple |-> Head(c.rest),
                             source |-> "api"]
      [] c.op = "append" -> [seq |-> seq, op |-> c.entry.op, tuple |-> c.entry.tuple,
                             source |-> c.entry.source]

\* INSERT INTO changelog; then the loop of WriteTuples goes on.
appendChangelogTx(s) ==
    LET c == call[s] IN
    /\ Busy(s) /\ c.pc = "log"
    /\ lastSeq' = lastSeq + 1
    /\ call' = [call EXCEPT
            ![s].entries = @ \cup {NewEntry(c, lastSeq + 1)},
            ![s].rest = Tail(@),
            ![s].pc = IF Len(c.rest) > 1 THEN "row" ELSE "commit"]
    /\ UNCHANGED <<tenants, data, purged, stale, counters>>

\* Rows and entries become visible together.
Commit(s) ==
    LET c == call[s]
        t == c.tenant
    IN  /\ Busy(s) /\ c.pc = "commit"
        /\ rows' = [rows EXCEPT ![t] = (@ \cup c.added) \ c.removed]
        /\ changelog' = [changelog EXCEPT ![t] = @ \cup c.entries]
        /\ Return(s)
        /\ UNCHANGED <<tenants, attributes, lastSeq, purged, counters>>

\* SetObjectAttributes and SetSubjectAttributes: one upsert.
UpsertAttributes(s) ==
    LET c == call[s] IN
    /\ Busy(s) /\ c.op = "set"
    /\ attributes' = [attributes EXCEPT ![c.tenant] = @ \cup {c.pc}]
    /\ Return(s)
    /\ UNCHANGED <<tenants, rows, changelog, lastSeq, purged, counters>>

\* The four statements of PurgeTenantData, each committed by itself.
PurgeTuples(s) ==
    /\ At(s, "purge", "row")
    /\ Blockers(s) = {}
    /\ rows' = [rows EXCEPT ![call[s].tenant] = {}]
    /\ call' = [call EXCEPT ![s].pc = "object"]
    /\ UNCHANGED <<tenants, attributes, changelog, lastSeq, purged, stale, counters>>

PurgeAttributes(s) ==
    \E table \in Tables :
        /\ At(s, "purge", table)
        /\ attributes' = [attributes EXCEPT ![call[s].tenant] = @ \ {table}]
        /\ call' = [call EXCEPT ![s].pc =
                        IF table = "object" THEN "subject" ELSE "changelog"]
        /\ UNCHANGED <<tenants, rows, changelog, lastSeq, purged, stale, counters>>

PurgeChangelog(s) ==
    /\ At(s, "purge", "changelog")
    /\ changelog' = [changelog EXCEPT ![call[s].tenant] = {}]
    /\ Return(s)
    /\ UNCHANGED <<tenants, rows, attributes, lastSeq, purged, counters>>

-----------------------------------------------------------------------------
(* What PostgreSQL and the network do to a call.                           *)

\* Batches that name the same rows in opposite orders may wait for each
\* other; the deadlock detector makes one statement of them fail.
Deadlocked(s) ==
    \E D \in SUBSET Sessions :
        s \in D /\ \A p \in D : Blockers(p) \cap D # {}

BreakDeadlock(s) ==
    /\ Deadlocked(s)
    /\ Return(s)
    /\ UNCHANGED <<tenants, data, lastSeq, purged, counters>>

\* A lost connection or a cancelled request: the transaction is rolled back,
\* a purge stops where it is, and numbers that were taken are not given back.
Fail(s) ==
    /\ Busy(s)
    /\ faults < MaxFaults
    /\ faults' = faults + 1
    /\ Return(s)
    /\ UNCHANGED <<tenants, data, lastSeq, purged, calls, changes>>

\* The tenant manager writes a status; it takes no notice of open calls.
UpdateTenant(t) ==
    /\ changes < MaxStatus
    /\ \E st \in NewStatuses \ {tenants[t]} : tenants' = [tenants EXCEPT ![t] = st]
    /\ stale' = stale \cup {s \in Sessions : Busy(s) /\ call[s].tenant = t}
    /\ changes' = changes + 1
    /\ UNCHANGED <<data, lastSeq, call, purged, calls, faults>>

-----------------------------------------------------------------------------
Init ==
    /\ tenants = [t \in Tenants |-> "active"]
    /\ rows = [t \in Tenants |-> {}]
    /\ attributes = [t \in Tenants |-> {}]
    /\ changelog = [t \in Tenants |-> {}]
    /\ lastSeq = 0
    /\ call = [s \in Sessions |-> Idle]
    /\ purged = {} /\ stale = {}
    /\ calls = 0 /\ changes = 0 /\ faults = 0

BeginCall(s) ==
    \E t \in Tenants :
        \/ WriteTuples(s, t)
        \/ DeleteTuple(s, t)
        \/ AppendChangelog(s, t)
        \/ SetAttributes(s, t)
        \/ PurgeTenantData(s, t)

\* What goes on by itself once a call has begun.
Proceed(s) ==
    \/ InsertRow(s)
    \/ SoftDeleteRow(s)
    \/ appendChangelogTx(s)
    \/ Commit(s)
    \/ UpsertAttributes(s)
    \/ PurgeTuples(s)
    \/ PurgeAttributes(s)
    \/ PurgeChangelog(s)
    \/ BreakDeadlock(s)

Next ==
    \/ \E s \in Sessions : BeginCall(s) \/ Proceed(s) \/ Fail(s)
    \/ \E t \in Tenants : UpdateTenant(t)

Fairness == \A s \in Sessions : WF_vars(Proceed(s))

Spec == Init /\ [][Next]_vars /\ Fairness

-----------------------------------------------------------------------------
(* Properties.                                                             *)

ApiEntries(t, x) == {e \in changelog[t] : e.source = "api" /\ e.tuple = x}

\* The changelog, read in the order of its numbers, says of every tuple
\* whether it is stored: the API's last entry on it is an INSERT exactly
\* when its row is there.  Entries are numbered before they commit, so this
\* rests on the row lock being taken before the number.
LogMatchesRows ==
    \A t \in Tenants \ purged, x \in Tuples :
        x \in rows[t] <=> \E e \in ApiEntries(t, x) :
                             /\ e.op = "INSERT"
                             /\ \A f \in ApiEntries(t, x) : f.seq <= e.seq

\* Data of a tenant that is not active changes only through calls that
\* looked the tenant up before its status changed: the status is read
\* outside the transaction.
InactiveChangesOnlyIfStale ==
    [][\A t \in Tenants :
            <<rows'[t], attributes'[t], changelog'[t]>>
                # <<rows[t], attributes[t], changelog[t]>>
            => tenants[t] = "active" \/ \E s \in stale : call[s].tenant = t]_vars

\* Every call returns: no call waits for ever for the lock of another one,
\* also when batches lock the same rows in opposite orders.
EveryCallReturns == \A s \in Sessions : Busy(s) ~> ~Busy(s)

\* The committed rows implement the abstract store although a call is many
\* statements: two calls never commit the same row, a purge empties the
\* tenant at once, and callers write, delete and purge grants only of a
\* tenant that is active, or was when they looked it up.
Abstract == INSTANCE TupleStore
    WITH Grants  <- [tuple : Tuples, expires : {Idle}],
         KeyOf   <- [x \in Tuples |-> x],
         PurgeIsAdmitted <- TRUE,
         Never   <- Idle,
         inForce <- [t \in Tenants |-> {[tuple |-> x, expires |-> Idle] : x \in rows[t]}],
         admits  <- {t \in Tenants : tenants[t] = "active" \/ \E s \in stale : call[s].tenant = t},
         now     <- 0

ImplementsTupleStore == Abstract!Spec
=============================================================================
