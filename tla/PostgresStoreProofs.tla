------------------------ MODULE PostgresStoreProofs -------------------------
(* Theorems about the PostgreSQL store, for every set of sessions, tenants  *)
(* and tuples, every batch and every number of calls and faults, and about  *)
(* a reader that follows its changelog, for every limit of a page.          *)
EXTENDS ChangelogPoll, SequenceTheorems, WellFoundedInduction, TLAPS

-----------------------------------------------------------------------------
(* The inductive invariant.                                                 *)

\* What a call has done so far, by its operation and its next statement.
\* Every row a write added is logged, but for the one whose entry comes next;
\* a delete holds its row before it takes a number.
WriteShape(c) ==
    /\ c.removed = {}
    /\ c.pc \in {"row", "log", "commit"}
    /\ c.pc # "commit" => c.rest # <<>>
    /\ c.pc = "log" => Head(c.rest) \in c.added
    /\ \A e \in c.entries :
          /\ e.op = "INSERT" /\ e.source = "api" /\ e.tuple \in c.added
          /\ c.pc = "log" => e.tuple # Head(c.rest)
    /\ \A x \in c.added : \/ \E e \in c.entries : e.tuple = x
                          \/ c.pc = "log" /\ x = Head(c.rest)
    /\ \A e, f \in c.entries : e.tuple = f.tuple => e = f

DeleteShape(c) ==
    /\ c.added = {}
    /\ \/ c.pc = "row" /\ Len(c.rest) = 1 /\ c.removed = {} /\ c.entries = {}
       \/ c.pc = "log" /\ Len(c.rest) = 1 /\ c.removed = {Head(c.rest)} /\ c.entries = {}
       \/ /\ c.pc = "commit"
          /\ \E e \in Entry : /\ e.op = "DELETE" /\ e.source = "api"
                              /\ c.entries = {e} /\ c.removed = {e.tuple}

AppendShape(c) ==
    /\ c.added = {} /\ c.removed = {}
    /\ c.entry \in External
    /\ c.pc \in {"log", "commit"}
    /\ c.pc = "log" => Len(c.rest) = 1
    /\ \A e \in c.entries : e.source # "api"

PurgeShape(c) ==
    /\ c.added = {} /\ c.removed = {} /\ c.entries = {}
    /\ c.pc \in {"row", "object", "subject", "changelog"}

SetShape(c) ==
    /\ c.added = {} /\ c.removed = {} /\ c.entries = {}
    /\ c.pc \in Tables

CallShape(c) ==
    \/ c.op = "write" /\ WriteShape(c)
    \/ c.op = "delete" /\ DeleteShape(c)
    \/ c.op = "append" /\ AppendShape(c)
    \/ c.op = "set" /\ SetShape(c)
    \/ c.op = "purge" /\ PurgeShape(c)

Shapes == \A s \in Sessions : Busy(s) => CallShape(call[s])

\* The tenant of a purge counts as purged from its first statement on.
PurgesKnown ==
    \A s \in Sessions : Busy(s) /\ call[s].op = "purge" => call[s].tenant \in purged

\* Numbers in use were given out.
NumbersGiven ==
    /\ \A t \in Tenants : \A e \in changelog[t] : e.seq <= lastSeq
    /\ \A s \in Sessions : Busy(s) => \A e \in call[s].entries : e.seq <= lastSeq

\* What the row locks and the unique index give: a row that is being
\* inserted is not stored, one that is being removed is, and two open
\* transactions never hold the same row.
RowsHeld ==
    \A s \in Sessions : Busy(s) =>
        /\ call[s].added \cap rows[call[s].tenant] = {}
        /\ call[s].removed \subseteq rows[call[s].tenant]

RowsExclusive ==
    \A r, s \in Sessions :
        r # s /\ Busy(r) /\ Busy(s) /\ call[r].tenant = call[s].tenant =>
            /\ call[r].added \cap call[s].added = {}
            /\ call[r].removed \cap call[s].removed = {}

\* The number of an open entry is above those committed on its tuple.
OpenEntriesLast ==
    \A s \in Sessions : Busy(s) =>
        \A e \in call[s].entries, f \in changelog[call[s].tenant] :
            e.source = "api" /\ f.source = "api" /\ e.tuple = f.tuple => f.seq < e.seq

\* A call is open on a tenant that is active, or was when it was looked up.
OpenOrStale ==
    \A s \in Sessions : Busy(s) => tenants[call[s].tenant] = "active" \/ s \in stale

PInv ==
    /\ TypeOK /\ Shapes /\ PurgesKnown /\ NumbersGiven /\ RowsHeld /\ RowsExclusive
    /\ OpenEntriesLast /\ OpenOrStale /\ LogMatchesRows

USE ConstantsAssumption, IdleAssumption

-----------------------------------------------------------------------------
(* One session moves.                                                       *)

\* The fields of a call.
LEMMA CallFields ==
    ASSUME TypeOK, NEW s \in Sessions, Busy(s)
    PROVE  /\ call[s] \in Call /\ call[s].tenant \in Tenants
           /\ call[s].added \in SUBSET Tuples /\ call[s].removed \in SUBSET Tuples
           /\ call[s].entries \in SUBSET Entry /\ call[s].rest \in Seq(Tuples)
BY DEF TypeOK, Busy, Call

\* A session goes on to the call d and the committed data stay as they are:
\* the invariant holds again, if it holds of d next to all other calls.
LEMMA CallStep ==
    ASSUME PInv, NEW s \in Sessions, NEW d \in Call, call' = [call EXCEPT ![s] = d],
           CallShape(d),
           lastSeq' \in Nat, lastSeq <= lastSeq', \A e \in d.entries : e.seq <= lastSeq',
           d.added \cap rows[d.tenant] = {}, d.removed \subseteq rows[d.tenant],
           \A r \in Sessions : r # s /\ Busy(r) /\ call[r].tenant = d.tenant =>
               call[r].added \cap d.added = {} /\ call[r].removed \cap d.removed = {},
           \A e \in d.entries, f \in changelog[d.tenant] :
               e.source = "api" /\ f.source = "api" /\ e.tuple = f.tuple => f.seq < e.seq,
           tenants[d.tenant] = "active" \/ s \in stale,
           d.op = "purge" => d.tenant \in purged',
           purged \subseteq purged', purged' \in SUBSET Tenants,
           attributes' \in [Tenants -> SUBSET Tables],
           calls' \in 0..MaxCalls, changes' \in 0..MaxStatus, faults' \in 0..MaxFaults,
           UNCHANGED <<tenants, rows, changelog, stale>>
    PROVE  PInv'
<1>1. /\ call' \in [Sessions -> Call \cup {Idle}]
      /\ \A r \in Sessions : call'[r] = IF r = s THEN d ELSE call[r]
      /\ d # Idle
  BY DEF PInv, TypeOK
<1>2. TypeOK'
  BY <1>1 DEF PInv, TypeOK
<1>3. Shapes' /\ PurgesKnown'
  BY <1>1 DEF PInv, Shapes, PurgesKnown, Busy
<1>4. NumbersGiven'
  <2>1. \A t \in Tenants : \A e \in changelog'[t] : e.seq <= lastSeq'
    <3> SUFFICES ASSUME NEW t \in Tenants, NEW e \in changelog[t]
                 PROVE  e.seq <= lastSeq'
      OBVIOUS
    <3>1. e.seq \in Nat /\ lastSeq \in Nat /\ e.seq <= lastSeq
      BY DEF PInv, TypeOK, Entry, NumbersGiven
    <3>2. QED BY <3>1
  <2>2. \A r \in Sessions : call'[r] # Idle => \A e \in call'[r].entries : e.seq <= lastSeq'
    <3> SUFFICES ASSUME NEW r \in Sessions, call'[r] # Idle, NEW e \in call'[r].entries
                 PROVE  e.seq <= lastSeq'
      OBVIOUS
    <3>1. CASE r = s
      BY <3>1, <1>1
    <3>2. CASE r # s
      <4>1. Busy(r) /\ e \in call[r].entries
        BY <3>2, <1>1 DEF Busy
      <4>2. e \in Entry /\ e.seq <= lastSeq /\ lastSeq \in Nat
        BY <4>1, CallFields DEF PInv, NumbersGiven, TypeOK
      <4>3. QED BY <4>2 DEF Entry
    <3>3. QED BY <3>1, <3>2
  <2>3. QED BY <2>1, <2>2 DEF NumbersGiven, Busy
<1>5. RowsHeld'
  BY <1>1 DEF PInv, RowsHeld, Busy
<1>6. RowsExclusive'
  BY <1>1 DEF PInv, RowsExclusive, Busy
<1>7. OpenEntriesLast'
  BY <1>1 DEF PInv, OpenEntriesLast, Busy
<1>8. OpenOrStale'
  BY <1>1 DEF PInv, OpenOrStale, Busy
<1>9. LogMatchesRows'
  BY DEF PInv, LogMatchesRows, ApiEntries
<1>10. QED
  BY <1>2, <1>3, <1>4, <1>5, <1>6, <1>7, <1>8, <1>9 DEF PInv

\* A session returns: what is said of the other calls, without the data,
\* stays true.
LEMMA ReturnFrame ==
    ASSUME PInv, NEW s \in Sessions, Return(s), UNCHANGED <<tenants, lastSeq, purged>>
    PROVE  /\ call' \in [Sessions -> Call \cup {Idle}] /\ stale' \in SUBSET Sessions
           /\ \A r \in Sessions : call'[r] = IF r = s THEN Idle ELSE call[r]
           /\ Shapes' /\ PurgesKnown' /\ RowsExclusive' /\ OpenOrStale'
           /\ \A r \in Sessions : Busy(r)' => \A e \in call'[r].entries : e.seq <= lastSeq'
<1>1. /\ call' \in [Sessions -> Call \cup {Idle}] /\ stale' \in SUBSET Sessions
      /\ \A r \in Sessions : call'[r] = IF r = s THEN Idle ELSE call[r]
      /\ stale' = stale \ {s}
  BY DEF PInv, TypeOK, Return
<1>2. Shapes' /\ PurgesKnown'
  BY <1>1 DEF PInv, Shapes, PurgesKnown, Busy
<1>3. RowsExclusive'
  BY <1>1 DEF PInv, RowsExclusive, Busy
<1>4. OpenOrStale'
  BY <1>1 DEF PInv, OpenOrStale, Busy
<1>5. \A r \in Sessions : Busy(r)' => \A e \in call'[r].entries : e.seq <= lastSeq'
  BY <1>1 DEF PInv, NumbersGiven, Busy
<1>6. QED
  BY <1>1, <1>2, <1>3, <1>4, <1>5

\* A session returns and leaves rows and changelog as they are.
LEMMA ReturnStep ==
    ASSUME PInv, NEW s \in Sessions, Return(s),
           attributes' \in [Tenants -> SUBSET Tables],
           calls' \in 0..MaxCalls, changes' \in 0..MaxStatus, faults' \in 0..MaxFaults,
           UNCHANGED <<tenants, rows, changelog, lastSeq, purged>>
    PROVE  PInv'
<1>1. /\ call' \in [Sessions -> Call \cup {Idle}] /\ stale' \in SUBSET Sessions
      /\ \A r \in Sessions : call'[r] = IF r = s THEN Idle ELSE call[r]
      /\ Shapes' /\ PurgesKnown' /\ RowsExclusive' /\ OpenOrStale'
      /\ \A r \in Sessions : Busy(r)' => \A e \in call'[r].entries : e.seq <= lastSeq'
  BY ReturnFrame
<1>2. TypeOK'
  BY <1>1 DEF PInv, TypeOK
<1>3. NumbersGiven'
  BY <1>1 DEF PInv, NumbersGiven
<1>4. RowsHeld' /\ OpenEntriesLast'
  BY <1>1 DEF PInv, RowsHeld, OpenEntriesLast, Busy
<1>5. LogMatchesRows'
  BY DEF PInv, LogMatchesRows, ApiEntries
<1>6. QED
  BY <1>1, <1>2, <1>3, <1>4, <1>5 DEF PInv

-----------------------------------------------------------------------------
(* The beginning of a call.                                                 *)

\* A call begins on a session.
LEMMA BeginPreserves ==
    ASSUME PInv, NEW s \in Sessions, NEW t \in Tenants,
           NEW op \in {"write", "delete", "append", "set", "purge"},
           NEW pc \in {"row", "log", "commit", "object", "subject", "changelog"},
           NEW batch \in Seq(Tuples), NEW entry \in External \cup {Idle},
           Begin(s, t, op, pc, batch, entry),
           op = "write" => pc = "row" /\ batch # <<>>,
           op = "delete" => pc = "row" /\ Len(batch) = 1,
           op = "append" => pc = "log" /\ Len(batch) = 1 /\ entry \in External,
           op = "set" => pc \in Tables,
           op = "purge" => pc = "row" /\ t \in purged',
           purged \subseteq purged', purged' \in SUBSET Tenants
    PROVE  PInv'
<1> DEFINE d == [op |-> op, tenant |-> t, pc |-> pc, rest |-> batch, entry |-> entry,
                 added |-> {}, removed |-> {}, entries |-> {}]
<1>1. d \in Call
  BY DEF Call
<1>2. /\ d.tenant = t /\ d.op = op /\ d.added = {} /\ d.removed = {} /\ d.entries = {}
      /\ d.pc = pc /\ d.rest = batch /\ d.entry = entry
  OBVIOUS
<1> HIDE DEF d
<1>3. CallShape(d)
  BY <1>2 DEF CallShape, WriteShape, DeleteShape, AppendShape, SetShape, PurgeShape
<1>4. /\ call' = [call EXCEPT ![s] = d] /\ tenants[d.tenant] = "active"
      /\ lastSeq' = lastSeq /\ lastSeq' \in Nat
      /\ attributes' \in [Tenants -> SUBSET Tables]
      /\ calls' \in 0..MaxCalls /\ changes' \in 0..MaxStatus /\ faults' \in 0..MaxFaults
      /\ UNCHANGED <<tenants, rows, changelog, stale>>
  BY <1>2 DEF Begin, ensureTenantWritable, PInv, TypeOK, data, d
<1>5. lastSeq <= lastSeq'
  BY <1>4
<1>6. QED
  BY <1>1, <1>2, <1>3, <1>4, <1>5, CallStep

\* The calls that may begin, and their lookup of the tenant.
LEMMA BeginCallPreserves ==
    ASSUME PInv, NEW s \in Sessions, BeginCall(s)
    PROVE  PInv'
<1>0. purged \in SUBSET Tenants
  BY DEF PInv, TypeOK
<1>1. PICK t \in Tenants : \/ WriteTuples(s, t) \/ DeleteTuple(s, t) \/ AppendChangelog(s, t)
                           \/ SetAttributes(s, t) \/ PurgeTenantData(s, t)
  BY DEF BeginCall
<1>2. CASE WriteTuples(s, t)
  <2>1. PICK b \in Batches : Begin(s, t, "write", "row", b, Idle) /\ purged' = purged
    BY <1>2 DEF WriteTuples
  <2>2. b \in Seq(Tuples) /\ b # <<>>
    OBVIOUS
  <2>3. QED BY <2>1, <2>2, <1>0, BeginPreserves
<1>3. CASE DeleteTuple(s, t)
  <2>1. PICK x \in Tuples : Begin(s, t, "delete", "row", <<x>>, Idle) /\ purged' = purged
    BY <1>3 DEF DeleteTuple
  <2>2. <<x>> \in Seq(Tuples) /\ Len(<<x>>) = 1
    OBVIOUS
  <2>3. QED BY <2>1, <2>2, <1>0, BeginPreserves
<1>4. CASE AppendChangelog(s, t)
  <2>1. PICK e \in External : Begin(s, t, "append", "log", <<e.tuple>>, e) /\ purged' = purged
    BY <1>4 DEF AppendChangelog
  <2>2. <<e.tuple>> \in Seq(Tuples) /\ Len(<<e.tuple>>) = 1
    OBVIOUS
  <2>3. QED BY <2>1, <2>2, <1>0, BeginPreserves
<1>5. CASE SetAttributes(s, t)
  <2>1. PICK table \in Tables : Begin(s, t, "set", table, <<>>, Idle) /\ purged' = purged
    BY <1>5 DEF SetAttributes
  <2>2. /\ <<>> \in Seq(Tuples)
        /\ table \in {"row", "log", "commit", "object", "subject", "changelog"}
    BY DEF Tables
  <2>3. QED BY <2>1, <2>2, <1>0, BeginPreserves
<1>6. CASE PurgeTenantData(s, t)
  <2>1. Begin(s, t, "purge", "row", <<>>, Idle) /\ purged' = purged \cup {t}
    BY <1>6 DEF PurgeTenantData
  <2>2. /\ <<>> \in Seq(Tuples)
        /\ t \in purged' /\ purged \subseteq purged' /\ purged' \in SUBSET Tenants
    BY <1>0, <2>1
  <2>3. QED BY <2>1, <2>2, <1>0, BeginPreserves
<1>7. QED
  BY <1>1, <1>2, <1>3, <1>4, <1>5, <1>6

-----------------------------------------------------------------------------
(* The statements of a transaction.                                         *)

\* The statements leave the tables and counters well typed.
LEMMA TypesKept ==
    ASSUME TypeOK, UNCHANGED <<attributes, counters>>
    PROVE  /\ attributes' \in [Tenants -> SUBSET Tables]
           /\ calls' \in 0..MaxCalls /\ changes' \in 0..MaxStatus /\ faults' \in 0..MaxFaults
BY DEF TypeOK, counters

\* A row is inserted, uncommitted: nobody else holds it.
LEMMA InsertRowPreserves ==
    ASSUME PInv, NEW s \in Sessions, InsertRow(s)
    PROVE  PInv'
<1> DEFINE c == call[s]
           x == Head(c.rest)
           d == [c EXCEPT !.added = @ \cup {x}, !.pc = "log"]
<1>1. /\ TypeOK /\ Busy(s) /\ c.op = "write" /\ c.pc = "row" /\ Blockers(s) = {}
      /\ UNCHANGED <<tenants, rows, attributes, changelog, lastSeq, purged, counters>>
  BY DEF InsertRow, At, PInv, data
<1>2. /\ c \in Call /\ c.tenant \in Tenants /\ c.added \in SUBSET Tuples
      /\ c.entries \in SUBSET Entry /\ c.rest \in Seq(Tuples) /\ WriteShape(c)
  BY <1>1, CallFields DEF PInv, Shapes, CallShape
<1>3. x \in Tuples
  BY <1>1, <1>2 DEF WriteShape
<1>4. CASE Return(s)
  BY <1>1, <1>4, TypesKept, ReturnStep
<1>5. CASE ~UniqueViolation(c, x) /\ UNCHANGED stale
           /\ call' = [call EXCEPT ![s].added = @ \cup {x}, ![s].pc = "log"]
  <2>1. d \in Call /\ d.added = c.added \cup {x} /\ d.pc = "log" /\ d.op = c.op
        /\ d.tenant = c.tenant /\ d.rest = c.rest /\ d.removed = c.removed
        /\ d.entries = c.entries
    BY <1>2, <1>3 DEF Call
  <2>2. call' = [call EXCEPT ![s] = d]
    BY <1>5, <1>1 DEF TypeOK
  <2>3. x \notin rows[c.tenant] /\ x \notin c.added
    BY <1>5 DEF UniqueViolation
  <2>4. \A r \in Sessions : r # s /\ Busy(r) /\ call[r].tenant = c.tenant =>
            x \notin call[r].added
    BY <1>1 DEF Blockers, Inserting
  <2> HIDE DEF d, x, c
  <2>5. CallShape(d)
    <3>1. WriteShape(d)
      BY <1>1, <1>2, <2>1, <2>3 DEF WriteShape, x
    <3>2. QED BY <3>1, <2>1, <1>1 DEF CallShape
  <2>6. d.added \cap rows[d.tenant] = {} /\ d.removed \subseteq rows[d.tenant]
    BY <1>1, <2>1, <2>3 DEF PInv, RowsHeld, c
  <2>7. \A r \in Sessions : r # s /\ Busy(r) /\ call[r].tenant = d.tenant =>
            call[r].added \cap d.added = {} /\ call[r].removed \cap d.removed = {}
    BY <1>1, <2>1, <2>4 DEF PInv, RowsExclusive, c
  <2>8. /\ \A e \in d.entries, f \in changelog[d.tenant] :
             e.source = "api" /\ f.source = "api" /\ e.tuple = f.tuple => f.seq < e.seq
        /\ \A e \in d.entries : e.seq <= lastSeq'
        /\ tenants[d.tenant] = "active" \/ s \in stale
    BY <1>1, <2>1 DEF PInv, OpenEntriesLast, NumbersGiven, OpenOrStale, c
  <2>9. lastSeq' \in Nat /\ lastSeq <= lastSeq' /\ d.op # "purge"
        /\ purged \subseteq purged' /\ purged' \in SUBSET Tenants
        /\ UNCHANGED <<tenants, rows, changelog, stale>>
    BY <1>1, <1>5, <2>1 DEF TypeOK
  <2>10. /\ attributes' \in [Tenants -> SUBSET Tables]
         /\ calls' \in 0..MaxCalls /\ changes' \in 0..MaxStatus /\ faults' \in 0..MaxFaults
    BY <1>1, TypesKept
  <2>11. d \in Call
    BY <2>1
  <2>12. QED
    BY <2>2, <2>5, <2>6, <2>7, <2>8, <2>9, <2>10, <2>11, CallStep
<1>6. QED
  BY <1>4, <1>5 DEF InsertRow

\* A committed row is marked deleted, uncommitted.
LEMMA SoftDeleteRowPreserves ==
    ASSUME PInv, NEW s \in Sessions, SoftDeleteRow(s)
    PROVE  PInv'
<1> DEFINE c == call[s]
           x == Head(c.rest)
           d == [c EXCEPT !.removed = {x}, !.pc = "log"]
<1>1. /\ TypeOK /\ Busy(s) /\ c.op = "delete" /\ c.pc = "row" /\ Blockers(s) = {}
      /\ UNCHANGED <<tenants, rows, attributes, changelog, lastSeq, purged, counters>>
  BY DEF SoftDeleteRow, At, PInv, data
<1>2. /\ c \in Call /\ c.tenant \in Tenants /\ c.added \in SUBSET Tuples
      /\ c.entries \in SUBSET Entry /\ c.rest \in Seq(Tuples) /\ DeleteShape(c)
  BY <1>1, CallFields DEF PInv, Shapes, CallShape
<1>3. x \in Tuples /\ c.entries = {} /\ c.added = {} /\ Len(c.rest) = 1
  BY <1>1, <1>2 DEF DeleteShape
<1>4. CASE Return(s)
  BY <1>1, <1>4, TypesKept, ReturnStep
<1>5. CASE x \in rows[c.tenant] /\ UNCHANGED stale
           /\ call' = [call EXCEPT ![s].removed = {x}, ![s].pc = "log"]
  <2>1. d \in Call /\ d.added = {} /\ d.pc = "log" /\ d.op = c.op
        /\ d.tenant = c.tenant /\ d.rest = c.rest /\ d.removed = {x} /\ d.entries = {}
    BY <1>2, <1>3 DEF Call
  <2>2. call' = [call EXCEPT ![s] = d]
    BY <1>5, <1>1 DEF TypeOK
  <2>3. \A r \in Sessions : r # s /\ Busy(r) /\ call[r].tenant = c.tenant =>
            x \notin call[r].removed
    BY <1>1 DEF Blockers, Removing
  <2> HIDE DEF d, x, c
  <2>4. CallShape(d)
    BY <1>1, <1>3, <2>1 DEF CallShape, DeleteShape, x
  <2>5. lastSeq' \in Nat /\ lastSeq' = lastSeq /\ lastSeq <= lastSeq' /\ d.op # "purge"
        /\ purged' \in SUBSET Tenants
    BY <1>1, <2>1 DEF TypeOK
  <2>6. tenants[d.tenant] = "active" \/ s \in stale
    BY <1>1, <2>1 DEF PInv, OpenOrStale, c
  <2>7. d.removed \subseteq rows[d.tenant] /\ d.added \cap rows[d.tenant] = {}
    BY <1>5, <2>1
  <2>8. \A r \in Sessions : r # s /\ Busy(r) /\ call[r].tenant = d.tenant =>
            call[r].added \cap d.added = {} /\ call[r].removed \cap d.removed = {}
    BY <2>1, <2>3
  <2>9. QED
    BY <1>1, <1>5, <2>1, <2>2, <2>4, <2>5, <2>6, <2>7, <2>8, TypesKept, CallStep
<1>6. QED
  BY <1>4, <1>5 DEF SoftDeleteRow

\* The rest of the loop.
LEMMA TailProperties ==
    ASSUME NEW S, NEW q \in Seq(S), q # <<>>
    PROVE  /\ Len(q) \in Nat /\ Tail(q) \in Seq(S)
           /\ Len(q) > 1 => Tail(q) # <<>>
<1> DEFINE u == Tail(q)
<1>1. Len(q) \in Nat /\ u \in Seq(S) /\ Len(u) = Len(q) - 1
  BY HeadTailProperties
<1> HIDE DEF u
<1>2. Len(q) > 1 => Len(u) # 0
  BY <1>1, SMTT(60)
<1>3. u = <<>> => Len(u) = 0
  BY EmptySeq, Zenon
<1>4. QED
  BY <1>1, <1>2, <1>3, Zenon DEF u

\* The new entry is about the row that the call holds, or it is an importer's.
LEMMA NewEntryProperties ==
    ASSUME TypeOK, NEW c \in Call, CallShape(c), c.pc = "log"
    PROVE  /\ NewEntry(c, lastSeq + 1) \in Entry
           /\ NewEntry(c, lastSeq + 1).seq = lastSeq + 1
           /\ c.op = "write" => /\ NewEntry(c, lastSeq + 1).op = "INSERT"
                                /\ NewEntry(c, lastSeq + 1).source = "api"
                                /\ NewEntry(c, lastSeq + 1).tuple = Head(c.rest)
           /\ c.op = "delete" => /\ NewEntry(c, lastSeq + 1).op = "DELETE"
                                 /\ NewEntry(c, lastSeq + 1).source = "api"
                                 /\ NewEntry(c, lastSeq + 1).tuple = Head(c.rest)
           /\ c.op = "append" => NewEntry(c, lastSeq + 1).source # "api"
<1>1. lastSeq + 1 \in Nat
  BY DEF TypeOK
<1>2. CASE c.op = "write"
  <2>1. WriteShape(c) /\ c.rest \in Seq(Tuples)
    BY <1>2 DEF CallShape, Call
  <2>2. Head(c.rest) \in Tuples
    BY <2>1 DEF WriteShape
  <2>3. QED BY <1>1, <1>2, <2>2 DEF NewEntry, Entry, Ops, Sources
<1>3. CASE c.op = "delete"
  <2>1. DeleteShape(c) /\ c.rest \in Seq(Tuples)
    BY <1>3 DEF CallShape, Call
  <2>2. Head(c.rest) \in Tuples
    BY <2>1 DEF DeleteShape
  <2>3. QED BY <1>1, <1>3, <2>2 DEF NewEntry, Entry, Ops, Sources
<1>4. CASE c.op = "append"
  <2>1. c.entry \in [op : Ops, tuple : Tuples, source : Sources \ {"api"}]
    BY <1>4 DEF CallShape, AppendShape
  <2>2. c.entry.op \in Ops /\ c.entry.tuple \in Tuples /\ c.entry.source \in Sources \ {"api"}
    BY <2>1
  <2>3. QED BY <1>1, <1>4, <2>2 DEF NewEntry, Entry
<1>5. QED
  BY <1>2, <1>3, <1>4 DEF CallShape, SetShape, PurgeShape, Tables

\* An entry is numbered: it is greater than every entry there is.
LEMMA appendChangelogTxPreserves ==
    ASSUME PInv, NEW s \in Sessions, appendChangelogTx(s)
    PROVE  PInv'
<1> DEFINE c == call[s]
           n == NewEntry(c, lastSeq + 1)
           next == IF Len(c.rest) > 1 THEN "row" ELSE "commit"
           d == [c EXCEPT !.entries = @ \cup {n}, !.rest = Tail(@), !.pc = next]
<1>1. /\ TypeOK /\ Busy(s) /\ c.pc = "log" /\ lastSeq' = lastSeq + 1
      /\ call' = [call EXCEPT ![s].entries = @ \cup {n}, ![s].rest = Tail(@), ![s].pc = next]
      /\ UNCHANGED <<tenants, rows, attributes, changelog, purged, stale, counters>>
  BY DEF appendChangelogTx, PInv, data
<1>2. /\ c \in Call /\ c.tenant \in Tenants /\ c.entries \in SUBSET Entry
      /\ c.rest \in Seq(Tuples) /\ CallShape(c)
  BY <1>1, CallFields DEF PInv, Shapes
<1>3. /\ n \in Entry /\ n.seq = lastSeq + 1
      /\ c.op = "write" => n.op = "INSERT" /\ n.source = "api" /\ n.tuple = Head(c.rest)
      /\ c.op = "delete" => n.op = "DELETE" /\ n.source = "api" /\ n.tuple = Head(c.rest)
      /\ c.op = "append" => n.source # "api"
  <2> HIDE DEF c
  <2> QED BY <1>1, <1>2, NewEntryProperties
<1> HIDE DEF n
<1>4. c.rest # <<>> /\ c.op \in {"write", "delete", "append"}
  BY <1>1, <1>2 DEF CallShape, WriteShape, DeleteShape, AppendShape, SetShape, PurgeShape, Tables
<1>5. /\ Len(c.rest) \in Nat /\ Tail(c.rest) \in Seq(Tuples)
      /\ Len(c.rest) > 1 => Tail(c.rest) # <<>>
  BY <1>2, <1>4, TailProperties
<1>6. /\ d \in Call /\ d.op = c.op /\ d.tenant = c.tenant /\ d.entries = c.entries \cup {n}
      /\ d.rest = Tail(c.rest) /\ d.pc = next /\ d.added = c.added /\ d.removed = c.removed
      /\ d.entry = c.entry
  BY <1>2, <1>3, <1>5 DEF Call
<1>7. call' = [call EXCEPT ![s] = d]
  BY <1>1 DEF TypeOK
<1>8. next \in {"row", "commit"} /\ (next = "row" => Tail(c.rest) # <<>>)
      /\ (Len(c.rest) = 1 => next = "commit")
  <2>1. Len(c.rest) = 1 => ~(Len(c.rest) > 1)
    BY <1>5
  <2>2. QED BY <2>1, <1>5, Zenon
<1> HIDE DEF d, next
<1>9. CallShape(d)
  <2> HIDE DEF c
  <2>1. CASE c.op = "write"
    <3>1. WriteShape(c)
      BY <1>2, <2>1 DEF CallShape
    <3>2. d.removed = {} /\ d.pc \in {"row", "log", "commit"} /\ d.pc # "log"
          /\ (d.pc # "commit" => d.rest # <<>>)
      BY <3>1, <1>6, <1>8 DEF WriteShape
    <3>3. n.op = "INSERT" /\ n.source = "api" /\ n.tuple \in c.added
      BY <1>1, <1>3, <2>1, <3>1 DEF WriteShape
    <3>4. \A e \in d.entries : e.op = "INSERT" /\ e.source = "api" /\ e.tuple \in d.added
      BY <3>1, <3>3, <1>6 DEF WriteShape
    <3>5. \A x \in d.added : \E e \in d.entries : e.tuple = x
      BY <3>1, <1>1, <1>3, <1>6, <2>1 DEF WriteShape
    <3>6. \A e, f \in d.entries : e.tuple = f.tuple => e = f
      BY <3>1, <1>1, <1>3, <1>6, <2>1 DEF WriteShape
    <3>7. WriteShape(d)
      BY <3>2, <3>4, <3>5, <3>6 DEF WriteShape
    <3>8. QED BY <3>7, <1>6, <2>1 DEF CallShape
  <2>2. CASE c.op = "delete"
    <3>1. c.added = {} /\ Len(c.rest) = 1 /\ c.removed = {Head(c.rest)} /\ c.entries = {}
      BY <1>1, <1>2, <2>2 DEF CallShape, DeleteShape
    <3>2. d.entries = {n} /\ d.removed = {n.tuple} /\ d.pc = "commit" /\ d.added = {}
      BY <3>1, <1>3, <1>6, <1>8, <2>2
    <3>3. DeleteShape(d)
      BY <3>2, <1>3, <2>2 DEF DeleteShape
    <3>4. QED BY <3>3, <1>6, <2>2 DEF CallShape
  <2>3. CASE c.op = "append"
    <3>1. AppendShape(c)
      BY <1>2, <2>3 DEF CallShape
    <3>2. AppendShape(d)
      BY <3>1, <1>1, <1>3, <1>6, <1>8, <2>3 DEF AppendShape
    <3>3. QED BY <3>2, <1>6, <2>3 DEF CallShape
  <2>4. QED BY <1>4, <2>1, <2>2, <2>3
<1>10. /\ lastSeq' \in Nat /\ lastSeq <= lastSeq' /\ \A e \in d.entries : e.seq <= lastSeq'
  <2>1. \A e \in c.entries : e.seq \in Nat /\ e.seq <= lastSeq
    BY <1>1, <1>2 DEF PInv, NumbersGiven, Entry
  <2>2. lastSeq \in Nat
    BY <1>1 DEF TypeOK
  <2>3. QED BY <2>1, <2>2, <1>1, <1>3, <1>6
<1>11. \A e \in d.entries, f \in changelog[d.tenant] :
          e.source = "api" /\ f.source = "api" /\ e.tuple = f.tuple => f.seq < e.seq
  <2> SUFFICES ASSUME NEW e \in d.entries, NEW f \in changelog[c.tenant],
                      e.source = "api", f.source = "api", e.tuple = f.tuple
               PROVE  f.seq < e.seq
    BY <1>6
  <2>1. CASE e \in c.entries
    BY <1>1, <2>1 DEF PInv, OpenEntriesLast
  <2>2. CASE e = n
    <3>1. f.seq \in Nat /\ f.seq <= lastSeq /\ lastSeq \in Nat
      BY <1>1, <1>2 DEF PInv, NumbersGiven, TypeOK, Entry
    <3>2. QED BY <3>1, <2>2, <1>3
  <2>3. QED BY <1>6, <2>1, <2>2
<1>12. /\ d.added \cap rows[d.tenant] = {} /\ d.removed \subseteq rows[d.tenant]
       /\ tenants[d.tenant] = "active" \/ s \in stale
  BY <1>1, <1>6 DEF PInv, RowsHeld, OpenOrStale
<1>13. \A r \in Sessions : r # s /\ Busy(r) /\ call[r].tenant = d.tenant =>
          call[r].added \cap d.added = {} /\ call[r].removed \cap d.removed = {}
  BY <1>1, <1>6 DEF PInv, RowsExclusive
<1>14. /\ d \in Call /\ d.op # "purge"
       /\ purged \subseteq purged' /\ purged' \in SUBSET Tenants
       /\ UNCHANGED <<tenants, rows, changelog, stale>>
  BY <1>1, <1>4, <1>6 DEF TypeOK
<1>15. /\ attributes' \in [Tenants -> SUBSET Tables]
       /\ calls' \in 0..MaxCalls /\ changes' \in 0..MaxStatus /\ faults' \in 0..MaxFaults
  BY <1>1, TypesKept
<1>16. QED
  BY <1>7, <1>9, <1>10, <1>11, <1>12, <1>13, <1>14, <1>15, CallStep

\* The API's entries of a transaction are about rows that it holds.
LEMMA EntriesOnHeldRows ==
    ASSUME NEW c \in Call, CallShape(c), NEW e \in c.entries, e.source = "api"
    PROVE  e.tuple \in c.added \cup c.removed
BY DEF CallShape, WriteShape, DeleteShape, AppendShape, SetShape, PurgeShape

\* No two open transactions have entries on the same tuple.
LEMMA HeldOnce ==
    ASSUME PInv, NEW r \in Sessions, NEW s \in Sessions, r # s, Busy(r), Busy(s),
           call[r].tenant = call[s].tenant,
           NEW x \in call[r].added \cup call[r].removed
    PROVE  x \notin call[s].added \cup call[s].removed
BY DEF PInv, RowsExclusive, RowsHeld

\* What a commit does to what the log says of one tuple.
LEMMA CommitMatches ==
    ASSUME PInv, NEW s \in Sessions, Busy(s), call[s].pc = "commit",
           call[s].tenant \notin purged, NEW x \in Tuples,
           rows'[call[s].tenant] =
               (rows[call[s].tenant] \cup call[s].added) \ call[s].removed,
           changelog'[call[s].tenant] = changelog[call[s].tenant] \cup call[s].entries
    PROVE  x \in rows'[call[s].tenant] <=>
               \E e \in {e \in changelog'[call[s].tenant] : e.source = "api" /\ e.tuple = x} :
                  /\ e.op = "INSERT"
                  /\ \A f \in {f \in changelog'[call[s].tenant] :
                                  f.source = "api" /\ f.tuple = x} : f.seq <= e.seq
<1> DEFINE c == call[s]
           t == c.tenant
           old == {e \in changelog[t] : e.source = "api" /\ e.tuple = x}
           new == {e \in changelog'[t] : e.source = "api" /\ e.tuple = x}
<1>1. /\ c \in Call /\ t \in Tenants /\ c.added \in SUBSET Tuples /\ c.removed \in SUBSET Tuples
      /\ c.entries \in SUBSET Entry /\ CallShape(c)
  BY CallFields DEF PInv, Shapes
<1>2. x \in rows[t] <=> \E e \in old : e.op = "INSERT" /\ \A f \in old : f.seq <= e.seq
  BY <1>1 DEF PInv, LogMatchesRows, ApiEntries
<1>3. \A e \in c.entries, f \in old : e.source = "api" /\ e.tuple = x => f.seq < e.seq
  BY DEF PInv, OpenEntriesLast
<1>4. old \in SUBSET Entry /\ \A e \in old \cup c.entries : e.seq \in Nat
  BY <1>1 DEF PInv, TypeOK, Entry
<1>5. new = old \cup {e \in c.entries : e.source = "api" /\ e.tuple = x}
  OBVIOUS
<1>6. rows'[t] = (rows[t] \cup c.added) \ c.removed
  OBVIOUS
<1> SUFFICES x \in rows'[t] <=>
        \E e \in new : e.op = "INSERT" /\ \A f \in new : f.seq <= e.seq
  OBVIOUS
<1> HIDE DEF old, new, t
<1>7. CASE x \in c.added
  <2>1. c.op = "write" /\ WriteShape(c)
    BY <1>1, <1>7 DEF CallShape, DeleteShape, AppendShape, SetShape, PurgeShape
  <2>2. PICK e \in c.entries : e.tuple = x
    BY <1>7, <2>1 DEF WriteShape
  <2>3. e.op = "INSERT" /\ e.source = "api"
        /\ \A f \in c.entries : f.tuple = x => f = e
    BY <2>1, <2>2 DEF WriteShape
  <2>4. e \in new /\ \A f \in new : f.seq <= e.seq
    BY <1>3, <1>4, <1>5, <2>2, <2>3
  <2>5. x \in rows'[t]
    BY <1>6, <1>7, <2>1 DEF WriteShape
  <2>6. QED BY <2>3, <2>4, <2>5
<1>8. CASE x \in c.removed
  <2>1. c.op = "delete" /\ DeleteShape(c)
    BY <1>1, <1>8 DEF CallShape, WriteShape, AppendShape, SetShape, PurgeShape
  <2>2. PICK e \in Entry : /\ e.op = "DELETE" /\ e.source = "api"
                           /\ c.entries = {e} /\ c.removed = {e.tuple}
    BY <1>8, <2>1 DEF DeleteShape
  <2>3. e \in new /\ \A f \in new : f # e => f \in old /\ f.seq < e.seq
    BY <1>3, <1>5, <1>8, <2>2
  <2>4. \A f \in new : f.op = "INSERT" => f.seq < e.seq /\ f.seq \in Nat /\ e.seq \in Nat
    BY <1>4, <2>2, <2>3
  <2>5. ~\E f \in new : f.op = "INSERT" /\ \A g \in new : g.seq <= f.seq
    BY <2>3, <2>4
  <2>6. QED BY <1>6, <1>8, <2>5
<1>9. CASE x \notin c.added /\ x \notin c.removed
  <2>1. new = old
    BY <1>1, <1>5, <1>9, EntriesOnHeldRows
  <2>2. QED BY <1>2, <1>6, <1>9, <2>1
<1>10. QED BY <1>7, <1>8, <1>9

\* The work of a session becomes visible, rows and entries at once.
LEMMA CommitPreserves ==
    ASSUME PInv, NEW s \in Sessions, Commit(s)
    PROVE  PInv'
<1> DEFINE c == call[s]
           t == c.tenant
<1>1. /\ TypeOK /\ Busy(s) /\ c.pc = "commit" /\ Return(s)
      /\ rows' = [rows EXCEPT ![t] = (@ \cup c.added) \ c.removed]
      /\ changelog' = [changelog EXCEPT ![t] = @ \cup c.entries]
      /\ UNCHANGED <<tenants, attributes, lastSeq, purged, counters>>
  BY DEF Commit, PInv
<1>2. /\ c \in Call /\ t \in Tenants /\ c.added \in SUBSET Tuples
      /\ c.entries \in SUBSET Entry /\ CallShape(c)
  BY <1>1, CallFields DEF PInv, Shapes
<1>3. /\ call' \in [Sessions -> Call \cup {Idle}] /\ stale' \in SUBSET Sessions
      /\ \A r \in Sessions : call'[r] = IF r = s THEN Idle ELSE call[r]
      /\ Shapes' /\ PurgesKnown' /\ RowsExclusive' /\ OpenOrStale'
      /\ \A r \in Sessions : Busy(r)' => \A e \in call'[r].entries : e.seq <= lastSeq'
  BY <1>1, ReturnFrame
<1>4. \A r \in Sessions : Busy(r)' => r # s /\ Busy(r) /\ call'[r] = call[r]
  BY <1>3 DEF Busy
<1>5. /\ rows' \in [Tenants -> SUBSET Tuples] /\ changelog' \in [Tenants -> SUBSET Entry]
      /\ rows'[t] = (rows[t] \cup c.added) \ c.removed
      /\ changelog'[t] = changelog[t] \cup c.entries
      /\ \A u \in Tenants : u # t => rows'[u] = rows[u] /\ changelog'[u] = changelog[u]
  BY <1>1, <1>2 DEF TypeOK
<1>6. TypeOK'
  BY <1>1, <1>3, <1>5, TypesKept DEF TypeOK
<1> HIDE DEF t
<1>7. NumbersGiven'
  BY <1>1, <1>3, <1>5 DEF PInv, NumbersGiven
<1>8. RowsHeld'
  <2> SUFFICES ASSUME NEW r \in Sessions, Busy(r)'
               PROVE  /\ call[r].added \cap rows'[call[r].tenant] = {}
                      /\ call[r].removed \subseteq rows'[call[r].tenant]
    BY <1>4 DEF RowsHeld
  <2>1. r # s /\ Busy(r) /\ call[r].tenant \in Tenants
    BY <1>1, <1>4, CallFields
  <2>2. CASE call[r].tenant = t
    BY <2>1, <2>2, <1>1, <1>5, HeldOnce DEF PInv, RowsHeld, t
  <2>3. CASE call[r].tenant # t
    BY <2>1, <2>3, <1>5 DEF PInv, RowsHeld
  <2>4. QED BY <2>2, <2>3
<1>9. OpenEntriesLast'
  <2> SUFFICES ASSUME NEW r \in Sessions, Busy(r)', NEW e \in call[r].entries,
                      NEW f \in changelog'[call[r].tenant],
                      e.source = "api", f.source = "api", e.tuple = f.tuple
               PROVE  f.seq < e.seq
    BY <1>4 DEF OpenEntriesLast
  <2>1. r # s /\ Busy(r) /\ call[r].tenant \in Tenants /\ call[r] \in Call /\ CallShape(call[r])
    BY <1>1, <1>4, CallFields DEF PInv, Shapes
  <2>2. CASE f \in changelog[call[r].tenant]
    BY <2>1, <2>2 DEF PInv, OpenEntriesLast
  <2>3. CASE f \notin changelog[call[r].tenant]
    <3>1. call[r].tenant = t /\ f \in c.entries
      BY <2>1, <2>3, <1>5
    <3>2. e.tuple \in call[r].added \cup call[r].removed
      BY <2>1, EntriesOnHeldRows
    <3>3. f.tuple \in c.added \cup c.removed
      BY <1>2, <3>1, EntriesOnHeldRows
    <3>4. QED BY <3>1, <3>2, <3>3, <2>1, <1>1, HeldOnce DEF t
  <2>4. QED BY <2>2, <2>3
<1>10. LogMatchesRows'
  <2> SUFFICES ASSUME NEW u \in Tenants, u \notin purged, NEW x \in Tuples
               PROVE  x \in rows'[u] <=>
                        \E e \in {e \in changelog'[u] : e.source = "api" /\ e.tuple = x} :
                           /\ e.op = "INSERT"
                           /\ \A f \in {f \in changelog'[u] : f.source = "api" /\ f.tuple = x} :
                                 f.seq <= e.seq
    BY <1>1 DEF LogMatchesRows, ApiEntries
  <2>1. CASE u = t
    BY <2>1, <1>1, <1>5, CommitMatches DEF t
  <2>2. CASE u # t
    BY <2>2, <1>5 DEF PInv, LogMatchesRows, ApiEntries
  <2>3. QED BY <2>1, <2>2
<1>11. QED
  BY <1>3, <1>6, <1>7, <1>8, <1>9, <1>10 DEF PInv

-----------------------------------------------------------------------------
(* The other statements.                                                    *)

\* Attributes are written; no row changes.
LEMMA UpsertAttributesPreserves ==
    ASSUME PInv, NEW s \in Sessions, UpsertAttributes(s)
    PROVE  PInv'
<1>1. /\ TypeOK /\ Busy(s) /\ Return(s)
      /\ UNCHANGED <<tenants, rows, changelog, lastSeq, purged, counters>>
      /\ attributes' = [attributes EXCEPT ![call[s].tenant] = @ \cup {call[s].pc}]
  BY DEF UpsertAttributes, PInv
<1>2. call[s].pc \in Tables /\ call[s].tenant \in Tenants
  BY <1>1, CallFields DEF UpsertAttributes, PInv, Shapes, CallShape, SetShape
<1>3. attributes' \in [Tenants -> SUBSET Tables]
  BY <1>1, <1>2 DEF TypeOK
<1>4. calls' \in 0..MaxCalls /\ changes' \in 0..MaxStatus /\ faults' \in 0..MaxFaults
  BY <1>1 DEF TypeOK, counters
<1>5. QED
  BY <1>1, <1>3, <1>4, ReturnStep

\* A purge goes on to its next statement.
LEMMA PurgeStep ==
    ASSUME PInv, NEW s \in Sessions, Busy(s), call[s].op = "purge",
           NEW p \in {"row", "object", "subject", "changelog"}
    PROVE  LET d == [call[s] EXCEPT !.pc = p]
           IN  /\ d \in Call /\ CallShape(d) /\ d.op = "purge"
               /\ d.tenant = call[s].tenant /\ d.tenant \in purged
               /\ d.added = {} /\ d.removed = {} /\ d.entries = {}
               /\ [call EXCEPT ![s].pc = p] = [call EXCEPT ![s] = d]
<1> DEFINE c == call[s]
           d == [c EXCEPT !.pc = p]
<1>1. c \in Call /\ CallShape(c) /\ c.tenant \in purged
  BY CallFields DEF PInv, Shapes, PurgesKnown
<1>2. c.added = {} /\ c.removed = {} /\ c.entries = {}
  BY <1>1 DEF CallShape, PurgeShape
<1>3. /\ d \in Call /\ d.op = "purge" /\ d.tenant = c.tenant /\ d.pc = p
      /\ d.added = {} /\ d.removed = {} /\ d.entries = {}
  BY <1>1, <1>2 DEF Call
<1>4. [call EXCEPT ![s].pc = p] = [call EXCEPT ![s] = d]
  BY DEF PInv, TypeOK
<1> HIDE DEF d
<1>5. CallShape(d)
  BY <1>3 DEF CallShape, PurgeShape
<1>6. QED
  BY <1>1, <1>3, <1>4, <1>5 DEF d

\* The first statement of a purge: the rows of the tenant.
LEMMA PurgeTuplesPreserves ==
    ASSUME PInv, NEW s \in Sessions, PurgeTuples(s)
    PROVE  PInv'
<1> DEFINE t == call[s].tenant
           d == [call[s] EXCEPT !.pc = "object"]
<1>1. /\ TypeOK /\ Busy(s) /\ call[s].op = "purge" /\ call[s].pc = "row" /\ Blockers(s) = {}
      /\ rows' = [rows EXCEPT ![t] = {}]
      /\ call' = [call EXCEPT ![s].pc = "object"]
      /\ UNCHANGED <<tenants, attributes, changelog, lastSeq, purged, stale, counters>>
  BY DEF PurgeTuples, At, PInv
<1>2. /\ d \in Call /\ CallShape(d) /\ d.op = "purge" /\ d.tenant = t /\ t \in purged
      /\ d.added = {} /\ d.removed = {} /\ d.entries = {}
      /\ call' = [call EXCEPT ![s] = d]
  BY <1>1, PurgeStep
<1>3. t \in Tenants
  BY <1>1, CallFields
<1>4. \A r \in Sessions : r # s /\ Busy(r) /\ call[r].tenant = t => call[r].removed = {}
  <2> SUFFICES ASSUME NEW r \in Sessions, r # s, Busy(r), call[r].tenant = t,
                      NEW x \in call[r].removed
               PROVE  FALSE
    OBVIOUS
  <2>1. x \in Tuples /\ r \in Removing(s, t, x)
    BY <1>1, CallFields DEF Removing
  <2>2. Blockers(s) = UNION {Removing(s, t, y) : y \in Tuples}
    BY <1>1 DEF Blockers
  <2>3. r \in UNION {Removing(s, t, y) : y \in Tuples}
    BY <2>1, Zenon
  <2>4. QED BY <1>1, <2>2, <2>3, Zenon
<1> HIDE DEF d
<1>5. /\ call' \in [Sessions -> Call \cup {Idle}] /\ d # Idle
      /\ \A r \in Sessions : call'[r] = IF r = s THEN d ELSE call[r]
  BY <1>1, <1>2 DEF TypeOK
<1>6. /\ rows' \in [Tenants -> SUBSET Tuples] /\ rows'[t] = {}
      /\ \A u \in Tenants : u # t => rows'[u] = rows[u]
  BY <1>1, <1>3 DEF TypeOK
<1>7. TypeOK'
  BY <1>1, <1>5, <1>6, TypesKept DEF TypeOK
<1> HIDE DEF t
<1>8. Shapes' /\ PurgesKnown'
  BY <1>1, <1>2, <1>5 DEF PInv, Shapes, PurgesKnown, Busy
<1>9. NumbersGiven'
  BY <1>1, <1>2, <1>5 DEF PInv, NumbersGiven, Busy
<1>10. RowsHeld'
  <2> SUFFICES ASSUME NEW r \in Sessions, call'[r] # Idle
               PROVE  /\ call'[r].added \cap rows'[call'[r].tenant] = {}
                      /\ call'[r].removed \subseteq rows'[call'[r].tenant]
    BY DEF RowsHeld, Busy
  <2>1. CASE r = s
    BY <2>1, <1>2, <1>5, <1>6
  <2>2. CASE r # s
    <3>1. call'[r] = call[r] /\ Busy(r) /\ call[r].tenant \in Tenants
      BY <2>2, <1>1, <1>5, CallFields DEF Busy
    <3>2. QED
      BY <2>2, <3>1, <1>4, <1>6 DEF PInv, RowsHeld
  <2>3. QED BY <2>1, <2>2
<1>11. RowsExclusive' /\ OpenEntriesLast'
  BY <1>1, <1>2, <1>5 DEF PInv, RowsExclusive, OpenEntriesLast, Busy
<1>12. OpenOrStale'
  BY <1>1, <1>2, <1>5 DEF PInv, OpenOrStale, Busy, t
<1>13. LogMatchesRows'
  BY <1>1, <1>2, <1>6 DEF PInv, LogMatchesRows, ApiEntries
<1>14. QED
  BY <1>7, <1>8, <1>9, <1>10, <1>11, <1>12, <1>13 DEF PInv

\* The statements on attributes.
LEMMA PurgeAttributesPreserves ==
    ASSUME PInv, NEW s \in Sessions, PurgeAttributes(s)
    PROVE  PInv'
<1>1. PICK table \in Tables :
        /\ At(s, "purge", table)
        /\ attributes' = [attributes EXCEPT ![call[s].tenant] = @ \ {table}]
        /\ call' = [call EXCEPT ![s].pc = IF table = "object" THEN "subject" ELSE "changelog"]
        /\ UNCHANGED <<tenants, rows, changelog, lastSeq, purged, stale, counters>>
  BY DEF PurgeAttributes
<1> DEFINE p == IF table = "object" THEN "subject" ELSE "changelog"
           d == [call[s] EXCEPT !.pc = p]
<1>2. TypeOK /\ Busy(s) /\ call[s].op = "purge" /\ p \in {"row", "object", "subject", "changelog"}
  BY <1>1 DEF At, PInv
<1>3. call' = [call EXCEPT ![s].pc = p]
  BY <1>1
<1> HIDE DEF p
<1>4. /\ d \in Call /\ CallShape(d) /\ d.op = "purge" /\ d.tenant = call[s].tenant
      /\ d.tenant \in purged /\ d.added = {} /\ d.removed = {} /\ d.entries = {}
      /\ call' = [call EXCEPT ![s] = d]
  BY <1>2, <1>3, PurgeStep
<1> HIDE DEF d
<1>5. attributes' \in [Tenants -> SUBSET Tables]
  BY <1>1, <1>2, CallFields DEF TypeOK
<1>6. /\ calls' \in 0..MaxCalls /\ changes' \in 0..MaxStatus /\ faults' \in 0..MaxFaults
      /\ lastSeq' \in Nat /\ lastSeq <= lastSeq'
      /\ purged \subseteq purged' /\ purged' \in SUBSET Tenants
      /\ UNCHANGED <<tenants, rows, changelog, stale>>
  BY <1>1, <1>2 DEF TypeOK, counters
<1>7. (tenants[d.tenant] = "active" \/ s \in stale) /\ d.tenant \in purged'
  BY <1>1, <1>2, <1>4 DEF PInv, OpenOrStale
<1>8. QED
  BY <1>4, <1>5, <1>6, <1>7, CallStep, ZenonT(60)

\* The last statement: the entries of the tenant.
LEMMA PurgeChangelogPreserves ==
    ASSUME PInv, NEW s \in Sessions, PurgeChangelog(s)
    PROVE  PInv'
<1> DEFINE t == call[s].tenant
<1>1. /\ TypeOK /\ Busy(s) /\ call[s].op = "purge" /\ Return(s)
      /\ changelog' = [changelog EXCEPT ![t] = {}]
      /\ UNCHANGED <<tenants, rows, attributes, lastSeq, purged, counters>>
  BY DEF PurgeChangelog, At, PInv
<1>2. t \in Tenants /\ t \in purged
  BY <1>1, CallFields DEF PInv, PurgesKnown
<1>3. /\ call' \in [Sessions -> Call \cup {Idle}] /\ stale' \in SUBSET Sessions
      /\ \A r \in Sessions : call'[r] = IF r = s THEN Idle ELSE call[r]
      /\ Shapes' /\ PurgesKnown' /\ RowsExclusive' /\ OpenOrStale'
      /\ \A r \in Sessions : Busy(r)' => \A e \in call'[r].entries : e.seq <= lastSeq'
  BY <1>1, ReturnFrame
<1>4. /\ changelog' \in [Tenants -> SUBSET Entry] /\ changelog'[t] = {}
      /\ \A u \in Tenants : u # t => changelog'[u] = changelog[u]
  BY <1>1, <1>2 DEF TypeOK
<1>5. TypeOK'
  BY <1>1, <1>3, <1>4, TypesKept DEF TypeOK
<1> HIDE DEF t
<1>6. \A u \in Tenants : changelog'[u] \subseteq changelog[u]
  BY <1>4
<1>7. \A r \in Sessions : Busy(r)' => Busy(r) /\ call'[r] = call[r] /\ call[r].tenant \in Tenants
  BY <1>1, <1>3, CallFields DEF Busy
<1>8. NumbersGiven'
  BY <1>1, <1>3, <1>6 DEF PInv, NumbersGiven
<1>9. RowsHeld'
  BY <1>1, <1>7 DEF PInv, RowsHeld
<1>10. OpenEntriesLast'
  <2> SUFFICES ASSUME NEW r \in Sessions, Busy(r)', NEW e \in call[r].entries,
                      NEW f \in changelog'[call[r].tenant],
                      e.source = "api", f.source = "api", e.tuple = f.tuple
               PROVE  f.seq < e.seq
    BY <1>7 DEF OpenEntriesLast
  <2>1. Busy(r) /\ f \in changelog[call[r].tenant]
    BY <1>6, <1>7
  <2>2. QED BY <2>1 DEF PInv, OpenEntriesLast
<1>11. LogMatchesRows'
  BY <1>1, <1>2, <1>4 DEF PInv, LogMatchesRows, ApiEntries
<1>12. QED
  BY <1>3, <1>5, <1>8, <1>9, <1>10, <1>11 DEF PInv

\* A call ends without effect.
LEMMA EndedPreserves ==
    ASSUME PInv, NEW s \in Sessions, BreakDeadlock(s) \/ Fail(s)
    PROVE  PInv'
<1>1. /\ Return(s) /\ UNCHANGED <<tenants, rows, attributes, changelog, lastSeq, purged>>
      /\ calls' = calls /\ changes' = changes
      /\ faults' = faults \/ (faults < MaxFaults /\ faults' = faults + 1)
  BY DEF BreakDeadlock, Fail, data, counters
<1>2. /\ attributes' \in [Tenants -> SUBSET Tables]
      /\ calls' \in 0..MaxCalls /\ changes' \in 0..MaxStatus /\ faults' \in 0..MaxFaults
  BY <1>1 DEF PInv, TypeOK
<1>3. QED
  BY <1>1, <1>2, ReturnStep

\* The status of a tenant changes.
LEMMA UpdateTenantPreserves ==
    ASSUME PInv, NEW t \in Tenants, UpdateTenant(t)
    PROVE  PInv'
<1>1. /\ TypeOK /\ changes' \in 0..MaxStatus
      /\ stale' = stale \cup {s \in Sessions : Busy(s) /\ call[s].tenant = t}
      /\ UNCHANGED <<rows, attributes, changelog, lastSeq, call, purged, calls, faults>>
  BY DEF UpdateTenant, PInv, TypeOK, data
<1>2. PICK st \in NewStatuses : tenants' = [tenants EXCEPT ![t] = st]
  BY DEF UpdateTenant
<1>3. /\ tenants' \in [Tenants -> Statuses]
      /\ \A u \in Tenants : u # t => tenants'[u] = tenants[u]
  BY <1>1, <1>2 DEF TypeOK
<1>4. TypeOK'
  BY <1>1, <1>3 DEF TypeOK
<1>5. OpenOrStale'
  BY <1>1, <1>3, CallFields DEF PInv, OpenOrStale, Busy
<1>6. Shapes' /\ PurgesKnown' /\ NumbersGiven'
  BY <1>1 DEF PInv, Shapes, PurgesKnown, NumbersGiven, Busy
<1>7. RowsHeld' /\ RowsExclusive' /\ OpenEntriesLast'
  BY <1>1 DEF PInv, RowsHeld, RowsExclusive, OpenEntriesLast, Busy
<1>8. LogMatchesRows'
  BY <1>1 DEF PInv, LogMatchesRows, ApiEntries
<1>9. QED
  BY <1>4, <1>5, <1>6, <1>7, <1>8 DEF PInv

\* Nothing happens to the store.
LEMMA PInvStutters ==
    ASSUME PInv, UNCHANGED vars
    PROVE  PInv'
<1>1. UNCHANGED <<tenants, rows, attributes, changelog, lastSeq, call, purged, stale, counters>>
  BY DEF vars, data
<1>2. TypeOK' /\ OpenOrStale'
  BY <1>1, TypesKept DEF PInv, TypeOK, OpenOrStale, Busy
<1>3. Shapes' /\ PurgesKnown' /\ NumbersGiven'
  BY <1>1 DEF PInv, Shapes, PurgesKnown, NumbersGiven, Busy
<1>4. RowsHeld' /\ RowsExclusive' /\ OpenEntriesLast'
  BY <1>1 DEF PInv, RowsHeld, RowsExclusive, OpenEntriesLast, Busy
<1>5. LogMatchesRows'
  BY <1>1 DEF PInv, LogMatchesRows, ApiEntries
<1>6. QED
  BY <1>2, <1>3, <1>4, <1>5 DEF PInv

-----------------------------------------------------------------------------
(* The theorems.                                                            *)

\* Initially.
LEMMA PInvInit ==
    Init => PInv
<1> SUFFICES ASSUME Init
             PROVE  PInv
  OBVIOUS
<1>1. TypeOK
  BY DEF Init, TypeOK, Statuses
<1>2. \A s \in Sessions : ~Busy(s)
  BY DEF Init, Busy
<1>3. NumbersGiven /\ LogMatchesRows
  BY <1>2 DEF Init, NumbersGiven, LogMatchesRows, ApiEntries
<1>4. QED
  BY <1>1, <1>2, <1>3 DEF PInv, Shapes, PurgesKnown, RowsHeld, RowsExclusive,
     OpenEntriesLast, OpenOrStale

\* Every step.
LEMMA PInvNext ==
    PInv /\ [Next]_vars => PInv'
<1> SUFFICES ASSUME PInv, [Next]_vars
             PROVE  PInv'
  OBVIOUS
<1>1. CASE UNCHANGED vars
  BY <1>1, PInvStutters
<1>2. ASSUME NEW s \in Sessions, BeginCall(s) \/ Fail(s)
      PROVE  PInv'
  BY <1>2, BeginCallPreserves, EndedPreserves
<1>3. ASSUME NEW s \in Sessions, Proceed(s)
      PROVE  PInv'
  BY <1>3, InsertRowPreserves, SoftDeleteRowPreserves, appendChangelogTxPreserves,
     CommitPreserves, UpsertAttributesPreserves, PurgeTuplesPreserves,
     PurgeAttributesPreserves, PurgeChangelogPreserves, EndedPreserves DEF Proceed
<1>4. ASSUME NEW t \in Tenants, UpdateTenant(t)
      PROVE  PInv'
  BY <1>4, UpdateTenantPreserves
<1>5. QED
  BY <1>1, <1>2, <1>3, <1>4 DEF Next

\* Transactions, tables and counters keep their types.
THEOREM PostgresTypeCorrect == Spec => []TypeOK
<1>1. PInv => TypeOK
  BY DEF PInv
<1>2. QED
  BY <1>1, PInvInit, PInvNext, PTL DEF Spec

\* The changelog of a tenant that was never purged replays to its rows,
\* although numbers are taken in one order and committed in another, for every
\* number of sessions and batches of every length.
THEOREM LogReplaysToRows == Spec => []LogMatchesRows
<1>1. PInv => LogMatchesRows
  BY DEF PInv
<1>2. QED
  BY <1>1, PInvInit, PInvNext, PTL DEF Spec

-----------------------------------------------------------------------------
(* Who changes the data of a tenant.                                        *)

\* Data of a tenant change in a step of a call on that tenant.
LEMMA ChangedByItsCalls ==
    ASSUME PInv, [Next]_vars, NEW t \in Tenants,
           <<rows'[t], attributes'[t], changelog'[t]>>
               # <<rows[t], attributes[t], changelog[t]>>
    PROVE  \E s \in Sessions : Busy(s) /\ call[s].tenant = t
<1> SUFFICES ASSUME \A s \in Sessions : Busy(s) => call[s].tenant # t
             PROVE  /\ rows'[t] = rows[t] /\ attributes'[t] = attributes[t]
                    /\ changelog'[t] = changelog[t]
  OBVIOUS
<1>1. /\ rows \in [Tenants -> SUBSET Tuples] /\ attributes \in [Tenants -> SUBSET Tables]
      /\ changelog \in [Tenants -> SUBSET Entry]
  BY DEF PInv, TypeOK
<1>2. CASE UNCHANGED data
  BY <1>2 DEF data
<1>3. ASSUME NEW s \in Sessions,
             Commit(s) \/ UpsertAttributes(s) \/ PurgeTuples(s) \/ PurgeAttributes(s)
             \/ PurgeChangelog(s)
      PROVE  /\ rows'[t] = rows[t] /\ attributes'[t] = attributes[t]
             /\ changelog'[t] = changelog[t]
  <2>1. Busy(s)
    BY <1>3 DEF Commit, UpsertAttributes, PurgeTuples, PurgeAttributes, PurgeChangelog, At
  <2>2. call[s].tenant # t
    BY <2>1
  <2>3. QED
    BY <1>1, <1>3, <2>2 DEF Commit, UpsertAttributes, PurgeTuples, PurgeAttributes, PurgeChangelog
<1>4. ASSUME NEW s \in Sessions, BeginCall(s)
      PROVE  UNCHANGED data
  BY <1>4 DEF BeginCall, WriteTuples, DeleteTuple, AppendChangelog, SetAttributes,
     PurgeTenantData, Begin
<1>5. ASSUME NEW s \in Sessions,
             InsertRow(s) \/ SoftDeleteRow(s) \/ appendChangelogTx(s) \/ BreakDeadlock(s)
             \/ Fail(s)
      PROVE  UNCHANGED data
  BY <1>5 DEF InsertRow, SoftDeleteRow, appendChangelogTx, BreakDeadlock, Fail
<1>6. ASSUME NEW u \in Tenants, UpdateTenant(u)
      PROVE  UNCHANGED data
  BY <1>6 DEF UpdateTenant
<1>7. UNCHANGED vars => UNCHANGED data
  BY DEF vars
<1>8. QED
  BY <1>2, <1>3, <1>4, <1>5, <1>6, <1>7 DEF Next, Proceed

\* Data of a tenant that is not active change only through calls that looked
\* it up before its status changed.
THEOREM LateWritesAreStale == Spec => InactiveChangesOnlyIfStale
<1>1. PInv /\ [Next]_vars =>
        [\A t \in Tenants :
            <<rows'[t], attributes'[t], changelog'[t]>>
                # <<rows[t], attributes[t], changelog[t]>>
            => tenants[t] = "active" \/ \E s \in stale : call[s].tenant = t]_vars
  <2> SUFFICES ASSUME PInv, [Next]_vars, NEW t \in Tenants,
                      <<rows'[t], attributes'[t], changelog'[t]>>
                          # <<rows[t], attributes[t], changelog[t]>>
               PROVE  tenants[t] = "active" \/ \E s \in stale : call[s].tenant = t
    OBVIOUS
  <2>1. PICK s \in Sessions : Busy(s) /\ call[s].tenant = t
    BY ChangedByItsCalls
  <2>2. QED
    BY <2>1 DEF PInv, OpenOrStale
<1>2. QED
  BY <1>1, PInvInit, PInvNext, PTL DEF Spec, InactiveChangesOnlyIfStale

-----------------------------------------------------------------------------
(* The refinement of the abstract store.                                    *)

\* The grants that rows stand for, and what the refinement mapping makes of
\* the tables.
GrantsOf(S) == {[tuple |-> x, expires |-> Idle] : x \in S}
InForceRows == [t \in Tenants |-> GrantsOf(rows[t])]
Admitted    == {t \in Tenants : tenants[t] = "active" \/ \E s \in stale : call[s].tenant = t}

\* The grants of rows that are added.
LEMMA GrantsOfUnion ==
    ASSUME NEW S, NEW T
    PROVE  GrantsOf(S \cup T) = GrantsOf(S) \cup GrantsOf(T)
BY DEF GrantsOf

\* A change of the rows of one tenant.
LEMMA InForceExcept ==
    ASSUME TypeOK, NEW t \in Tenants, NEW S \in SUBSET Tuples, rows' = [rows EXCEPT ![t] = S]
    PROVE  InForceRows' = [InForceRows EXCEPT ![t] = GrantsOf(S)]
BY DEF TypeOK, InForceRows, GrantsOf

\* A commit is a batch, a delete or nothing in the abstract store.
LEMMA CommitRefines ==
    ASSUME PInv, NEW s \in Sessions, NEW t \in Tenants, call[s].tenant = t, Commit(s)
    PROVE  \/ \E batch \in SUBSET [tuple : Tuples, expires : {Idle}] : Abstract!Write(t, batch)
           \/ \E g \in [tuple : Tuples, expires : {Idle}] : Abstract!Delete(t, g)
           \/ UNCHANGED InForceRows
<1> DEFINE c == call[s]
<1>1. /\ TypeOK /\ Busy(s) /\ c.pc = "commit"
      /\ rows' = [rows EXCEPT ![t] = (@ \cup c.added) \ c.removed]
  BY DEF Commit, PInv
<1>2. /\ c \in Call /\ t \in Tenants /\ c.added \in SUBSET Tuples /\ c.removed \in SUBSET Tuples
      /\ CallShape(c)
  BY <1>1, CallFields DEF PInv, Shapes
<1>3. /\ t \in Admitted /\ c.added \cap rows[t] = {} /\ rows[t] \in SUBSET Tuples
      /\ InForceRows[t] = GrantsOf(rows[t])
  BY <1>1, <1>2 DEF PInv, OpenOrStale, RowsHeld, Admitted, TypeOK, InForceRows
<1> DEFINE S == (rows[t] \cup c.added) \ c.removed
<1>4. InForceRows' = [InForceRows EXCEPT ![t] = GrantsOf(S)]
  <2>1. rows' = [rows EXCEPT ![t] = S] /\ S \in SUBSET Tuples
    BY <1>1, <1>2, <1>3
  <2> HIDE DEF S
  <2>2. QED BY <1>1, <1>2, <2>1, InForceExcept
<1>5. CASE c.op = "write"
  <2>0. PICK batch : batch = GrantsOf(c.added)
    OBVIOUS
  <2>1. c.removed = {}
    BY <1>2, <1>5 DEF CallShape, WriteShape
  <2>2. batch \in SUBSET [tuple : Tuples, expires : {Idle}]
    BY <1>2, <2>0 DEF GrantsOf
  <2>3. GrantsOf(S) = InForceRows[t] \cup batch
    BY <1>3, <2>0, <2>1, GrantsOfUnion
  <2>4. \A g \in batch : g.tuple \in c.added /\ g.tuple \in Tuples /\ g.expires = Idle
    BY <1>2, <2>0 DEF GrantsOf
  <2>5. \A g \in InForceRows[t] : g.tuple \in rows[t] /\ g.tuple \in Tuples
    BY <1>3 DEF GrantsOf
  <2>6. \A g, h \in batch : g.tuple = h.tuple => g = h
    BY <2>0 DEF GrantsOf
  <2>7. Abstract!KeysOf(batch) \cap Abstract!KeysOf(InForceRows[t]) = {}
    <3> HIDE DEF c
    <3> QED BY <1>3, <2>4, <2>5 DEF Abstract!KeysOf
  <2>8. {g \in batch : ~Abstract!Expired(g, 0)} = batch
    BY <2>4 DEF Abstract!Expired
  <2>9. Abstract!Write(t, batch)
    <3> HIDE DEF c, S
    <3> QED BY <1>2, <1>3, <1>4, <2>3, <2>4, <2>6, <2>7, <2>8
            DEF Abstract!Write, InForceRows, GrantsOf, Admitted
  <2>10. QED BY <2>2, <2>9
<1>6. CASE c.op = "delete"
  <2>1. PICK e \in Entry : c.removed = {e.tuple} /\ c.added = {}
    BY <1>1, <1>2, <1>6 DEF CallShape, DeleteShape
  <2> DEFINE g == [tuple |-> e.tuple, expires |-> Idle]
  <2>2. g \in [tuple : Tuples, expires : {Idle}]
    BY DEF Entry
  <2>3. GrantsOf(S) = InForceRows[t] \ {g}
    BY <1>3, <2>1 DEF GrantsOf
  <2>4. Abstract!Delete(t, g)
    <3> HIDE DEF c, S, g
    <3> QED BY <1>2, <1>3, <1>4, <2>3 DEF Abstract!Delete, InForceRows, GrantsOf, Admitted
  <2>5. QED BY <2>2, <2>4
<1>7. CASE c.op \notin {"write", "delete"}
  <2>1. S = rows[t]
    BY <1>1, <1>2, <1>7 DEF CallShape, AppendShape, SetShape, PurgeShape
  <2>2. rows' = rows
    BY <1>1, <1>2, <2>1 DEF TypeOK
  <2>3. QED BY <2>2 DEF InForceRows
<1>8. QED BY <1>5, <1>6, <1>7

\* The purge of the rows is one statement and empties the tenant at once.
LEMMA PurgeRefines ==
    ASSUME PInv, NEW s \in Sessions, NEW t \in Tenants, call[s].tenant = t, PurgeTuples(s)
    PROVE  Abstract!Purge(t)
<1>1. TypeOK /\ rows' = [rows EXCEPT ![t] = {}]
  BY DEF PurgeTuples, PInv
<1>2. GrantsOf({}) = {}
  BY DEF GrantsOf
<1>3. InForceRows' = [InForceRows EXCEPT ![t] = {}]
  BY <1>1, <1>2, InForceExcept
<1>4. t \in {u \in Tenants : tenants[u] = "active" \/ \E r \in stale : call[r].tenant = u}
  BY DEF PInv, OpenOrStale, PurgeTuples, At
<1>5. QED BY <1>3, <1>4 DEF Abstract!Purge, InForceRows, GrantsOf

\* Every step of the store is a step of the abstract one, or leaves its grants.
LEMMA StepRefines ==
    ASSUME PInv, [Next]_vars
    PROVE  Abstract!Next
<1>1. CASE UNCHANGED rows
  <2>1. UNCHANGED InForceRows
    BY <1>1 DEF InForceRows
  <2>2. QED BY <2>1 DEF Abstract!Next, InForceRows, GrantsOf
<1>2. ASSUME NEW s \in Sessions, Commit(s)
      PROVE  Abstract!Next
  <2>1. PICK t \in Tenants : call[s].tenant = t
    BY <1>2, CallFields DEF PInv, Commit
  <2>2. CASE UNCHANGED InForceRows
    BY <2>2 DEF Abstract!Next, InForceRows, GrantsOf
  <2>3. CASE \/ \E batch \in SUBSET [tuple : Tuples, expires : {Idle}] : Abstract!Write(t, batch)
             \/ \E g \in [tuple : Tuples, expires : {Idle}] : Abstract!Delete(t, g)
    BY <2>3 DEF Abstract!Next
  <2>4. QED BY <1>2, <2>1, <2>2, <2>3, CommitRefines
<1>3. ASSUME NEW s \in Sessions, PurgeTuples(s)
      PROVE  Abstract!Next
  <2>1. PICK t \in Tenants : call[s].tenant = t
    BY <1>3, CallFields DEF PInv, PurgeTuples, At
  <2>2. Abstract!Purge(t)
    BY <1>3, <2>1, PurgeRefines
  <2>3. QED BY <2>2 DEF Abstract!Next
<1>4. ASSUME NEW s \in Sessions, BeginCall(s)
      PROVE  UNCHANGED rows
  BY <1>4 DEF BeginCall, WriteTuples, DeleteTuple, AppendChangelog, SetAttributes,
     PurgeTenantData, Begin, data
<1>5. ASSUME NEW s \in Sessions,
             InsertRow(s) \/ SoftDeleteRow(s) \/ appendChangelogTx(s) \/ UpsertAttributes(s)
             \/ PurgeAttributes(s) \/ PurgeChangelog(s) \/ BreakDeadlock(s) \/ Fail(s)
      PROVE  UNCHANGED rows
  BY <1>5 DEF InsertRow, SoftDeleteRow, appendChangelogTx, UpsertAttributes, PurgeAttributes,
     PurgeChangelog, BreakDeadlock, Fail, data
<1>6. ASSUME NEW u \in Tenants, UpdateTenant(u)
      PROVE  UNCHANGED rows
  BY <1>6 DEF UpdateTenant, data
<1>7. UNCHANGED vars => UNCHANGED rows
  BY DEF vars, data
<1>8. QED
  BY <1>1, <1>2, <1>3, <1>4, <1>5, <1>6, <1>7 DEF Next, Proceed

\* The PostgreSQL store implements the store its callers rely on: although a
\* call is many statements and calls interleave, its writes, deletes and purges
\* take effect in single steps, never store a key twice and change only a
\* tenant that is, or was when the call looked it up, active.
THEOREM PostgresImplementsTupleStore == Spec => ImplementsTupleStore
<1>1. Init => Abstract!Init
  BY DEF Init, Abstract!Init
<1>2. PInv /\ [Next]_vars => [Abstract!Next]_(Abstract!vars)
  BY StepRefines
<1>3. QED
  BY <1>1, <1>2, PInvInit, PInvNext, PTL DEF Spec, ImplementsTupleStore, Abstract!Spec

-----------------------------------------------------------------------------
(* The reader of the changelog.                                             *)

(* The inductive invariant.                                                 *)

\* Numbers of entries that are committed, or will be if their transaction is.
Taken == Numbers \cup OpenNumbers

\* The reader is never ahead of the numbers given out, so that a number taken
\* later is one it has yet to come to.
ReaderBehind ==
    /\ cursor <= lastSeq
    /\ \A m \in page : m <= lastSeq

\* A number taken that the reader went past, or goes past with the page it
\* holds, is one it got or one that was open at that time.
PassedAccounted == \A n \in Taken : n <= cursor => n \in delivered \cup overtaken
PageAccounted   ==
    \A n \in Taken, m \in page : cursor < n /\ n <= m => n \in page \cup overtaken

PollInv ==
    /\ PInv /\ PollTypeOK /\ ReaderBehind
    /\ Position = "entry" => PassedAccounted /\ PageAccounted

-----------------------------------------------------------------------------
(* Lemmas.                                                                  *)

\* A set of numbers with a bound has a greatest one.
LEMMA MaxProperties ==
    ASSUME NEW S \in SUBSET Nat, S # {}, NEW b \in Nat, \A x \in S : x <= b
    PROVE  Max(S) \in S /\ \A x \in S : x <= Max(S)
<1> DEFINE T == {b - x : x \in S}
<1>1. T \subseteq Nat /\ T # {}
  <2>1. \A x \in S : b - x \in Nat /\ b - x \in T
    OBVIOUS
  <2>2. QED BY <2>1
<1> DEFINE less == OpToRel(<, Nat)
<1>2. IsWellFoundedOn(less, Nat)
  BY NatLessThanWellFounded
<1>3. \A i, j \in Nat : i < j => <<i, j>> \in less
  BY DEF OpToRel
<1> HIDE DEF less
<1>4. PICK d \in T : \A y \in T : <<y, d>> \notin less
  <2> HIDE DEF T
  <2> QED BY <1>1, <1>2, WFMin
<1>5. PICK x \in S : d = b - x
  BY <1>4
<1>6. \A y \in S : x >= y
  <2> SUFFICES ASSUME NEW y \in S, ~(x >= y)
               PROVE  FALSE
    OBVIOUS
  <2>1. b - y \in T /\ b - y \in Nat /\ d \in Nat /\ b - y < d
    BY <1>5
  <2>2. QED BY <1>3, <1>4, <2>1
<1>7. Max(S) \in S /\ \A y \in S : Max(S) >= y
  BY <1>6 DEF Max
<1>8. QED BY <1>7

\* What it is to be a number taken.
LEMMA TakenMeans ==
    ASSUME NEW n
    PROVE  n \in Taken <=>
             \/ \E e \in changelog[Followed] : e.seq = n
             \/ \E s \in Sessions : /\ Busy(s) /\ call[s].tenant = Followed
                                    /\ \E e \in call[s].entries : e.seq = n
<1>1. n \in Numbers <=> \E e \in changelog[Followed] : e.seq = n
  BY DEF Numbers
<1>2. n \in OpenNumbers <=>
        \E s \in Sessions : /\ Busy(s) /\ call[s].tenant = Followed
                            /\ \E e \in call[s].entries : e.seq = n
  BY DEF OpenNumbers
<1>3. QED BY <1>1, <1>2, Zenon DEF Taken

\* Numbers taken were given out.
LEMMA TakenBounded ==
    ASSUME PInv, NEW n \in Taken
    PROVE  n \in Nat /\ n <= lastSeq
<1>1. \/ \E e \in changelog[Followed] : e.seq = n
      \/ \E s \in Sessions : /\ Busy(s) /\ call[s].tenant = Followed
                             /\ \E e \in call[s].entries : e.seq = n
  BY TakenMeans
<1>2. TypeOK /\ Followed \in Tenants
  BY PollAssumption DEF PInv
<1>3. CASE \E e \in changelog[Followed] : e.seq = n
  BY <1>2, <1>3 DEF PInv, NumbersGiven, TypeOK, Entry
<1>4. CASE \E s \in Sessions : /\ Busy(s) /\ call[s].tenant = Followed
                               /\ \E e \in call[s].entries : e.seq = n
  <2>1. PICK s \in Sessions : Busy(s) /\ \E e \in call[s].entries : e.seq = n
    BY <1>4
  <2>2. call[s].entries \in SUBSET Entry
    BY <1>2, <2>1, CallFields
  <2>3. QED BY <2>1, <2>2 DEF PInv, NumbersGiven, Entry
<1>5. QED BY <1>1, <1>3, <1>4

\* A step of the store takes no number but the next one, and leaves a number
\* with its tenant.
LEMMA EntriesStep ==
    ASSUME PInv, [Next]_vars
    PROVE  /\ lastSeq' \in Nat /\ lastSeq <= lastSeq'
           /\ \A t \in Tenants : \A e \in changelog'[t] :
                 \/ e \in changelog[t]
                 \/ \E s \in Sessions : /\ Busy(s) /\ call[s].tenant = t
                                        /\ e \in call[s].entries
           /\ \A s \in Sessions : Busy(s)' => \A e \in call'[s].entries :
                 \/ /\ Busy(s) /\ call'[s].tenant = call[s].tenant
                    /\ e \in call[s].entries
                 \/ e.seq = lastSeq + 1
<1> DEFINE Given == lastSeq' \in Nat /\ lastSeq <= lastSeq'
           Logged == \A t \in Tenants : \A e \in changelog'[t] :
                        \/ e \in changelog[t]
                        \/ \E s \in Sessions : /\ Busy(s) /\ call[s].tenant = t
                                               /\ e \in call[s].entries
           Open == \A s \in Sessions : Busy(s)' => \A e \in call'[s].entries :
                        \/ /\ Busy(s) /\ call'[s].tenant = call[s].tenant
                           /\ e \in call[s].entries
                        \/ e.seq = lastSeq + 1
<1>1. /\ lastSeq \in Nat /\ changelog \in [Tenants -> SUBSET Entry]
      /\ call \in [Sessions -> Call \cup {Idle}]
  BY DEF PInv, TypeOK
<1>2. lastSeq' = lastSeq => Given
  BY <1>1
<1>3. changelog' = changelog => Logged
  BY <1>1
<1>4. call' = call => Open
  BY DEF Busy
<1>5. ASSUME NEW s \in Sessions, Return(s)
      PROVE  Open
  BY <1>1, <1>5 DEF Return, Busy
<1>6. ASSUME NEW s \in Sessions, BeginCall(s)
      PROVE  Given /\ Logged /\ Open
  <2>1. ASSUME NEW t \in Tenants, NEW op, NEW pc, NEW batch, NEW entry,
               Begin(s, t, op, pc, batch, entry)
        PROVE  Given /\ Logged /\ Open
    <3>1. UNCHANGED <<changelog, lastSeq>>
      BY <2>1 DEF Begin, data
    <3>2. Open
      BY <1>1, <2>1 DEF Begin, Busy
    <3>3. QED BY <1>2, <1>3, <3>1, <3>2
  <2>2. QED
    BY <1>6, <2>1 DEF BeginCall, WriteTuples, DeleteTuple, AppendChangelog, SetAttributes,
       PurgeTenantData
<1>7. ASSUME NEW s \in Sessions, InsertRow(s) \/ SoftDeleteRow(s)
      PROVE  Given /\ Logged /\ Open
  <2>1. UNCHANGED <<changelog, lastSeq>> /\ Busy(s)
    BY <1>7 DEF InsertRow, SoftDeleteRow, data, At
  <2>2. call[s] \in Call
    BY <2>1, CallFields DEF PInv
  <2>3. \A r \in Sessions : Busy(r)' =>
          Busy(r) /\ call'[r].tenant = call[r].tenant /\ call'[r].entries = call[r].entries
    <3>1. CASE call' = [call EXCEPT ![s] = Idle]
      BY <1>1, <3>1 DEF Busy
    <3>2. ASSUME NEW A, call' = [call EXCEPT ![s].added = A, ![s].pc = "log"]
          PROVE  \A r \in Sessions : call'[r].tenant = call[r].tenant
                    /\ call'[r].entries = call[r].entries /\ (r # s => call'[r] = call[r])
      BY <1>1, <2>2, <3>2 DEF Call
    <3>3. ASSUME NEW A, call' = [call EXCEPT ![s].removed = A, ![s].pc = "log"]
          PROVE  \A r \in Sessions : call'[r].tenant = call[r].tenant
                    /\ call'[r].entries = call[r].entries /\ (r # s => call'[r] = call[r])
      BY <1>1, <2>2, <3>3 DEF Call
    <3>4. \/ call' = [call EXCEPT ![s] = Idle]
          \/ \E A : call' = [call EXCEPT ![s].added = A, ![s].pc = "log"]
          \/ \E A : call' = [call EXCEPT ![s].removed = A, ![s].pc = "log"]
      <4>1. CASE InsertRow(s)
        BY <4>1 DEF InsertRow, Return
      <4>2. CASE SoftDeleteRow(s)
        BY <4>2 DEF SoftDeleteRow, Return
      <4> QED BY <1>7, <4>1, <4>2
    <3> QED BY <2>1, <3>1, <3>2, <3>3, <3>4 DEF Busy
  <2>4. QED BY <1>2, <1>3, <2>1, <2>3
<1>8. ASSUME NEW s \in Sessions, appendChangelogTx(s)
      PROVE  Given /\ Logged /\ Open
  <2> DEFINE n == NewEntry(call[s], lastSeq + 1)
  <2>1. /\ changelog' = changelog /\ lastSeq' = lastSeq + 1 /\ Busy(s) /\ call[s].pc = "log"
    BY <1>8 DEF appendChangelogTx, data
  <2>2. call[s] \in Call /\ CallShape(call[s])
    BY <2>1, CallFields DEF PInv, Shapes
  <2>3. n.seq = lastSeq + 1
    BY <2>1, <2>2, NewEntryProperties DEF PInv
  <2> HIDE DEF n
  <2>4. \A r \in Sessions : Busy(r)' =>
          /\ Busy(r) /\ call'[r].tenant = call[r].tenant
          /\ call'[r].entries = IF r = s THEN call[r].entries \cup {n} ELSE call[r].entries
    BY <1>1, <1>8, <2>1, <2>2 DEF appendChangelogTx, Busy, Call, n
  <2>5. Given
    BY <1>1, <2>1
  <2>6. Open
    BY <2>3, <2>4
  <2> HIDE DEF Given, Logged, Open
  <2>7. QED BY <1>3, <2>1, <2>5, <2>6
<1>9. ASSUME NEW s \in Sessions, Commit(s)
      PROVE  Given /\ Logged /\ Open
  <2>1. lastSeq' = lastSeq /\ Busy(s) /\ Return(s)
    BY <1>9 DEF Commit
  <2>2. Logged
    BY <1>1, <1>9, <2>1 DEF Commit
  <2>3. QED BY <1>2, <1>5, <2>1, <2>2
<1>10. ASSUME NEW s \in Sessions, UpsertAttributes(s) \/ BreakDeadlock(s) \/ Fail(s)
       PROVE  Given /\ Logged /\ Open
  BY <1>2, <1>3, <1>5, <1>10 DEF UpsertAttributes, BreakDeadlock, Fail, data
<1>11. ASSUME NEW s \in Sessions, PurgeTuples(s) \/ PurgeAttributes(s)
       PROVE  Given /\ Logged /\ Open
  <2>1. UNCHANGED <<changelog, lastSeq>> /\ Busy(s)
    BY <1>11 DEF PurgeTuples, PurgeAttributes, At
  <2>2. call[s] \in Call
    BY <2>1, CallFields DEF PInv
  <2>3. \A r \in Sessions : Busy(r)' =>
          Busy(r) /\ call'[r].tenant = call[r].tenant /\ call'[r].entries = call[r].entries
    BY <1>1, <1>11, <2>1, <2>2 DEF PurgeTuples, PurgeAttributes, Busy, Call
  <2>4. QED BY <1>2, <1>3, <2>1, <2>3
<1>12. ASSUME NEW s \in Sessions, PurgeChangelog(s)
       PROVE  Given /\ Logged /\ Open
  <2>1. Logged
    BY <1>1, <1>12 DEF PurgeChangelog
  <2>2. QED BY <1>2, <1>5, <1>12, <2>1 DEF PurgeChangelog
<1>13. ASSUME NEW t \in Tenants, UpdateTenant(t)
       PROVE  Given /\ Logged /\ Open
  BY <1>2, <1>3, <1>4, <1>13 DEF UpdateTenant, data
<1>14. UNCHANGED vars => Given /\ Logged /\ Open
  BY <1>2, <1>3, <1>4 DEF vars, data
<1> HIDE DEF Given, Logged, Open
<1>15. Given /\ Logged /\ Open
  BY <1>6, <1>7, <1>8, <1>9, <1>10, <1>11, <1>12, <1>13, <1>14 DEF Next, Proceed
<1>16. QED BY <1>15 DEF Given, Logged, Open

\* So every number taken after a step was taken before it, or is the next
\* one, above all numbers the reader can have seen.
LEMMA TakenStep ==
    ASSUME PInv, [Next]_vars, NEW n \in Taken'
    PROVE  n \in Taken \/ n = lastSeq + 1
<1>1. Followed \in Tenants /\ lastSeq \in Nat
  BY PollAssumption DEF PInv, TypeOK
<1>2. \/ \E e \in changelog'[Followed] : e.seq = n
      \/ \E s \in Sessions : /\ Busy(s)' /\ call'[s].tenant = Followed
                             /\ \E e \in call'[s].entries : e.seq = n
  <2>1. (n \in Numbers)' <=> \E e \in changelog'[Followed] : e.seq = n
    BY DEF Numbers
  <2>2. (n \in OpenNumbers)' <=>
          \E s \in Sessions : /\ Busy(s)' /\ call'[s].tenant = Followed
                              /\ \E e \in call'[s].entries : e.seq = n
    BY DEF OpenNumbers
  <2>3. QED BY <2>1, <2>2 DEF Taken
<1>3. CASE \E e \in changelog'[Followed] : e.seq = n
  <2>1. PICK e \in changelog'[Followed] : e.seq = n
    BY <1>3
  <2>2. \/ e \in changelog[Followed]
        \/ \E s \in Sessions : /\ Busy(s) /\ call[s].tenant = Followed
                               /\ e \in call[s].entries
    BY <1>1, EntriesStep
  <2>3. QED BY <2>1, <2>2, TakenMeans
<1>4. CASE \E s \in Sessions : /\ Busy(s)' /\ call'[s].tenant = Followed
                               /\ \E e \in call'[s].entries : e.seq = n
  <2>1. PICK s \in Sessions : /\ Busy(s)' /\ call'[s].tenant = Followed
                              /\ \E e \in call'[s].entries : e.seq = n
    BY <1>4
  <2>2. PICK e \in call'[s].entries : e.seq = n
    BY <2>1
  <2>3. \/ /\ Busy(s) /\ call'[s].tenant = call[s].tenant
           /\ e \in call[s].entries
        \/ e.seq = lastSeq + 1
    BY <2>1, EntriesStep
  <2>4. CASE e.seq = lastSeq + 1
    BY <2>2, <2>4
  <2>5. CASE Busy(s) /\ call'[s].tenant = call[s].tenant /\ e \in call[s].entries
    BY <2>1, <2>2, <2>5, TakenMeans
  <2>6. QED BY <2>3, <2>4, <2>5
<1>5. QED BY <1>2, <1>3, <1>4

-----------------------------------------------------------------------------
(* The reader.                                                              *)

\* Writers do not disturb what the reader has.
LEMMA StorePreserves ==
    ASSUME PollInv, [Next]_vars, UNCHANGED pollVars
    PROVE  PollInv'
<1>1. /\ PInv /\ PInv' /\ cursor \in Nat /\ page \in SUBSET Nat /\ lastSeq \in Nat
  BY PInvNext DEF PollInv, PollTypeOK, PInv, TypeOK
<1>2. /\ UNCHANGED <<cursor, polling, page, delivered, overtaken, polls>>
      /\ lastSeq' \in Nat /\ lastSeq <= lastSeq'
  BY <1>1, EntriesStep DEF pollVars
<1>3. PollTypeOK'
  BY <1>1, <1>2 DEF PollInv, PollTypeOK, PInv
<1>4. ReaderBehind'
  BY <1>1, <1>2 DEF PollInv, ReaderBehind
<1>5. ASSUME Position = "entry"
      PROVE  PassedAccounted' /\ PageAccounted'
  <2>1. ASSUME NEW n \in Taken'
        PROVE  /\ n <= cursor => n \in delivered \cup overtaken
               /\ \A m \in page : cursor < n /\ n <= m => n \in page \cup overtaken
    <3>1. CASE n \in Taken
      BY <1>5, <3>1 DEF PollInv, PassedAccounted, PageAccounted
    <3>2. CASE n = lastSeq + 1
      BY <1>1, <3>2 DEF PollInv, ReaderBehind
    <3>3. QED BY <1>1, <2>1, <3>1, <3>2, TakenStep
  <2>2. QED BY <1>2, <2>1 DEF PassedAccounted, PageAccounted
<1>6. QED BY <1>1, <1>3, <1>4, <1>5 DEF PollInv

\* A page holds the first numbers after the position: a number it leaves out
\* below one of its own is not committed yet.
LEMMA ReadPagePreserves ==
    ASSUME PollInv, ReadPage, UNCHANGED vars
    PROVE  PollInv'
<1>1. /\ PInv /\ PollTypeOK /\ PInv' /\ polls < MaxPolls
      /\ UNCHANGED <<tenants, rows, attributes, changelog, lastSeq, call, purged, stale, counters>>
      /\ polling' = TRUE /\ polls' = polls + 1 /\ UNCHANGED <<cursor, delivered>>
  BY PInvNext DEF PollInv, ReadPage, vars, data
<1>2. PICK p \in ReadChangelog(cursor) :
         page' = p /\ overtaken' = overtaken \cup {n \in OpenNumbers : \E m \in p : n < m}
  BY DEF ReadPage
<1>3. /\ \A n \in p : n \in Numbers /\ n > cursor
      /\ \A n \in Numbers, m \in p : n > cursor /\ n \notin p => m < n
  BY <1>2 DEF ReadChangelog
<1>4. \A n \in Taken : n \in Nat /\ n <= lastSeq
  BY <1>1, TakenBounded
<1>5. Numbers \subseteq Taken /\ OpenNumbers \subseteq Taken /\ cursor \in Nat /\ lastSeq \in Nat
  BY <1>1 DEF Taken, PollTypeOK, TypeOK
<1>6. Taken' = Taken
  BY <1>1 DEF Taken, Numbers, OpenNumbers, Busy
<1>7. PollTypeOK'
  <2>1. page' \in SUBSET Nat /\ overtaken' \in SUBSET Nat
    BY <1>1, <1>2, <1>3, <1>4, <1>5 DEF PollTypeOK
  <2>2. polls' \in 0..MaxPolls
    BY <1>1, PollAssumption DEF PollTypeOK
  <2>3. QED BY <1>1, <2>1, <2>2 DEF PollTypeOK, PInv
<1>8. ReaderBehind'
  BY <1>1, <1>2, <1>3, <1>4, <1>5 DEF PollInv, ReaderBehind
<1>9. ASSUME Position = "entry"
      PROVE  PassedAccounted' /\ PageAccounted'
  <2>1. PassedAccounted'
    BY <1>1, <1>2, <1>6, <1>9 DEF PollInv, PassedAccounted
  <2>2. PageAccounted'
    <3> SUFFICES ASSUME NEW n \in Taken, NEW m \in p, cursor < n, n <= m
                 PROVE  n \in p \cup overtaken'
      BY <1>1, <1>2, <1>6 DEF PageAccounted
    <3>1. m \in Nat /\ n \in Nat
      BY <1>3, <1>4, <1>5
    <3>2. CASE n \in Numbers
      BY <1>3, <1>5, <3>1, <3>2
    <3>3. CASE n \in OpenNumbers
      BY <1>2, <3>1, <3>3
    <3>4. QED BY <3>2, <3>3 DEF Taken
  <2>3. QED BY <2>1, <2>2
<1>10. QED BY <1>1, <1>7, <1>8, <1>9 DEF PollInv

\* The highest number of the tenant is one that was given out.
LEMMA LatestBounded ==
    ASSUME PInv
    PROVE  LatestSequence \in Nat /\ LatestSequence <= lastSeq
<1>1. \A n \in Numbers : n \in Nat /\ n <= lastSeq
  BY TakenBounded DEF Taken
<1>2. lastSeq \in Nat
  BY DEF PInv, TypeOK
<1>3. CASE Numbers = {}
  BY <1>2, <1>3 DEF LatestSequence
<1>4. CASE Numbers # {}
  <2>1. Max(Numbers) \in Numbers
    <3>1. Numbers \in SUBSET Nat
      BY <1>1
    <3>2. QED BY <1>1, <1>2, <1>4, <3>1, MaxProperties
  <2>2. QED BY <1>1, <1>4, <2>1 DEF LatestSequence
<1>5. QED BY <1>3, <1>4

\* A reader that goes on from the last entry of a page goes past the numbers
\* that the page accounts for, and no others.
LEMMA RespondPreserves ==
    ASSUME PollInv, Respond, UNCHANGED vars
    PROVE  PollInv'
<1>1. /\ PInv /\ PollTypeOK /\ PInv' /\ ReaderBehind
      /\ UNCHANGED <<tenants, rows, attributes, changelog, lastSeq, call, purged, stale, counters>>
      /\ polling' = FALSE /\ page' = {} /\ delivered' = delivered \cup page
      /\ UNCHANGED <<overtaken, polls>>
  BY PInvNext DEF PollInv, Respond, vars, data
<1>2. /\ cursor \in Nat /\ lastSeq \in Nat /\ page \in SUBSET Nat
      /\ cursor <= lastSeq /\ \A m \in page : m <= lastSeq
  BY <1>1 DEF PollTypeOK, TypeOK, ReaderBehind
<1>3. page # {} => Max(page) \in page /\ \A m \in page : m <= Max(page)
  BY <1>2, MaxProperties
<1>4. /\ Position = "latest" => cursor' = LatestSequence \/ cursor' = 0
      /\ Position = "entry" => cursor' = IF page = {} THEN cursor ELSE Max(page)
  BY DEF Respond
<1>5. cursor' \in Nat /\ cursor' <= lastSeq
  <2>1. CASE Position = "latest"
    BY <1>1, <1>2, <1>4, <2>1, LatestBounded
  <2>2. CASE Position = "entry"
    BY <1>2, <1>3, <1>4, <2>2
  <2>3. QED BY <2>1, <2>2, PollAssumption
<1>6. PollTypeOK'
  BY <1>1, <1>5 DEF PollTypeOK, PInv
<1>7. ReaderBehind'
  BY <1>1, <1>5 DEF ReaderBehind
<1>8. ASSUME Position = "entry"
      PROVE  PassedAccounted' /\ PageAccounted'
  <2>1. Taken' = Taken
    BY <1>1 DEF Taken, Numbers, OpenNumbers, Busy
  <2>2. PageAccounted'
    BY <1>1 DEF PageAccounted
  <2>3. PassedAccounted'
    <3> SUFFICES ASSUME NEW n \in Taken, n <= cursor'
                 PROVE  n \in delivered \cup page \cup overtaken
      BY <1>1, <2>1 DEF PassedAccounted
    <3>1. n \in Nat
      BY <1>1, TakenBounded
    <3>2. CASE n <= cursor
      BY <1>8, <3>2 DEF PollInv, PassedAccounted
    <3>3. CASE cursor < n
      <4>1. page # {} /\ n <= Max(page)
        BY <1>2, <1>4, <1>8, <3>1, <3>3
      <4>2. QED BY <1>3, <1>8, <3>3, <4>1 DEF PollInv, PageAccounted
    <3>4. QED BY <1>2, <3>1, <3>2, <3>3
  <2>4. QED BY <2>2, <2>3
<1>9. QED BY <1>1, <1>6, <1>7, <1>8 DEF PollInv

-----------------------------------------------------------------------------
(* The theorems.                                                            *)

\* The invariant holds at the start.
LEMMA PollInvInit ==
    PollInit => PollInv
<1> SUFFICES ASSUME PollInit
             PROVE  PollInv
  OBVIOUS
<1>1. PInv /\ lastSeq = 0
  BY PInvInit DEF PollInit, Init
<1>2. Taken = {}
  <2>1. changelog[Followed] = {} /\ \A s \in Sessions : ~Busy(s)
    BY PollAssumption DEF PollInit, Init, Busy
  <2>2. \A n : n \notin Taken
    BY <2>1, TakenMeans
  <2>3. QED BY <2>2
<1>3. PollTypeOK
  <2>1. TypeOK
    BY <1>1 DEF PInv
  <2>2. polls \in 0..MaxPolls
    BY PollAssumption DEF PollInit
  <2>3. QED BY <2>1, <2>2 DEF PollInit, PollTypeOK
<1>4. QED
  BY <1>1, <1>2, <1>3 DEF PollInit, PollInv, ReaderBehind, PassedAccounted, PageAccounted

\* Every step of a writer and of the reader keeps it.
LEMMA PollInvNext ==
    PollInv /\ [PollNext]_allVars => PollInv'
<1> SUFFICES ASSUME PollInv, [PollNext]_allVars
             PROVE  PollInv'
  OBVIOUS
<1>1. CASE [Next]_vars /\ UNCHANGED pollVars
  BY <1>1, StorePreserves
<1>2. CASE (ReadPage \/ Respond) /\ UNCHANGED vars
  BY <1>2, ReadPagePreserves, RespondPreserves
<1>3. QED
  BY <1>1, <1>2 DEF PollNext, allVars

\* The reader's position, its pages and the store keep their types, whichever
\* position the reader goes on from.
THEOREM PollTypeCorrect == PollSpec => []PollTypeOK
<1>1. PollInv => PollTypeOK
  BY DEF PollInv
<1>2. QED
  BY <1>1, PollInvInit, PollInvNext, PTL DEF PollSpec

\* A reader that goes on from its last entry misses only entries whose
\* transactions were open, with their numbers taken, when a page went past
\* them.
THEOREM EntryReaderMissesOnlyOvertaken ==
    ASSUME Position = "entry"
    PROVE  PollSpec => []MissesOnlyOvertaken
<1>1. PollInv => MissesOnlyOvertaken
  BY DEF PollInv, PassedAccounted, MissesOnlyOvertaken, Passed, Taken
<1>2. QED
  BY <1>1, PollInvInit, PollInvNext, PTL DEF PollSpec
=============================================================================
