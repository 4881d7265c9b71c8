------------------------- MODULE MemoryStoreProofs --------------------------
(* Theorems about the in-memory store, for every set of tenants and tuples, *)
(* every map from tuples to identity keys and every bound: its invariants,  *)
(* and that it implements the abstract store step by step.                  *)
EXTENDS MemoryStore, FiniteSetTheorems, TLAPS

-----------------------------------------------------------------------------
(* Facts about the sequences the operations build.                          *)

\* Removing position i keeps the elements before it and moves the others
\* one place down.
LEMMA WithoutProperties ==
    ASSUME NEW S, NEW s \in Seq(S), NEW i \in DOMAIN s
    PROVE  /\ Without(s, i) \in Seq(S)
           /\ Len(Without(s, i)) = Len(s) - 1
           /\ \A j \in 1..(Len(s) - 1) :
                 Without(s, i)[j] = IF j < i THEN s[j] ELSE s[j + 1]
<1>1. i \in 1..Len(s) /\ Len(s) \in Nat
  OBVIOUS
<1>2. /\ SubSeq(s, 1, i - 1) \in Seq(S)
      /\ Len(SubSeq(s, 1, i - 1)) = i - 1
      /\ \A j \in 1..(i - 1) : SubSeq(s, 1, i - 1)[j] = s[j]
  BY <1>1
<1>3. /\ SubSeq(s, i + 1, Len(s)) \in Seq(S)
      /\ Len(SubSeq(s, i + 1, Len(s))) = Len(s) - i
      /\ \A j \in 1..(Len(s) - i) : SubSeq(s, i + 1, Len(s))[j] = s[i + j]
  BY <1>1
<1> DEFINE a == SubSeq(s, 1, i - 1)
           b == SubSeq(s, i + 1, Len(s))
<1>4. Without(s, i) = a \o b
  BY DEF Without
<1>5. a \in Seq(S) /\ b \in Seq(S) /\ Len(a) = i - 1 /\ Len(b) = Len(s) - i
  BY <1>2, <1>3
<1>6. a \o b \in Seq(S) /\ Len(a \o b) = Len(s) - 1
  <2> HIDE DEF a, b
  <2> QED BY <1>1, <1>5
<1>7. \A j \in 1..(Len(s) - 1) : (a \o b)[j] = IF j < i THEN s[j] ELSE s[j + 1]
  <2> SUFFICES ASSUME NEW j \in 1..(Len(s) - 1)
               PROVE  (a \o b)[j] = IF j < i THEN s[j] ELSE s[j + 1]
    OBVIOUS
  <2>1. CASE j < i
    <3>1. a[j] = s[j] /\ j \in 1..Len(a)
      BY <1>1, <1>2, <2>1
    <3> HIDE DEF a, b
    <3> QED BY <3>1, <1>1, <1>5, <2>1
  <2>2. CASE ~(j < i)
    <3>1. b[j - (i - 1)] = s[j + 1] /\ j - (i - 1) \in 1..Len(b) /\ j \in (i..(Len(s) - 1))
      BY <1>1, <1>3, <2>2
    <3> HIDE DEF a, b
    <3> QED BY <3>1, <1>1, <1>5, <2>2, SMTT(60)
  <2>3. QED BY <2>1, <2>2
<1>8. QED
  BY <1>4, <1>6, <1>7

\* Where the elements of a concatenation come from.
LEMMA ConcatElements ==
    ASSUME NEW S, NEW a \in Seq(S), NEW b \in Seq(S)
    PROVE  /\ a \o b \in Seq(S)
           /\ Len(a \o b) = Len(a) + Len(b)
           /\ DOMAIN (a \o b) = 1..(Len(a) + Len(b))
           /\ \A i \in 1..Len(a) : (a \o b)[i] = a[i]
           /\ \A k \in 1..Len(b) : (a \o b)[Len(a) + k] = b[k]
  OBVIOUS

\* A batch is a sequence.
LEMMA BatchIsSeq ==
    ASSUME NEW batch \in Batches
    PROVE  batch \in Seq(Stored) /\ DOMAIN batch = 1..Len(batch) /\ Len(batch) \in Nat
  BY DEF Batches

\* Replaced keeps the length and the types of the stored slice.
LEMMA ReplacedType ==
    ASSUME TypeOK, NEW t \in Tenants, NEW batch \in Batches
    PROVE  /\ Replaced(t, batch) \in Seq(Stored)
           /\ Len(Replaced(t, batch)) = Len(tuples[t])
<1>1. tuples[t] \in Seq(Stored) /\ DOMAIN tuples[t] = 1..Len(tuples[t]) /\ Len(tuples[t]) \in Nat
  BY DEF TypeOK
<1> DEFINE R(i, b) == i \in expiredIndexes(t, batch[b].tuple)
<1>2. \A i \in DOMAIN tuples[t] : Replaced(t, batch)[i] \in Stored
  <2> SUFFICES ASSUME NEW i \in DOMAIN tuples[t] PROVE Replaced(t, batch)[i] \in Stored
    OBVIOUS
  <2>1. CASE \E b \in DOMAIN batch : R(i, b)
    <3>1. PICK b \in DOMAIN batch : /\ b = CHOOSE c \in DOMAIN batch : R(i, c)
                                    /\ R(i, b)
      BY <2>1
    <3>2. Replaced(t, batch)[i] = batch[b]
      BY <2>1, <3>1 DEF Replaced
    <3>3. QED
      BY <3>2, BatchIsSeq
  <2>2. CASE ~\E b \in DOMAIN batch : R(i, b)
    BY <2>2, <1>1 DEF Replaced
  <2>3. QED
    BY <2>1, <2>2
<1>3. Replaced(t, batch) = [i \in 1..Len(tuples[t]) |-> Replaced(t, batch)[i]]
  BY <1>1 DEF Replaced
<1>4. QED
  BY <1>1, <1>2, <1>3

-----------------------------------------------------------------------------
(* The inductive invariant.  MapsInitialised is what makes                  *)
(* AttributeMapsReady inductive: a row implies a key in the tuples map,     *)
(* and a key in the tuples map implies both attribute maps.                 *)

MapsInitialised ==
    \A t \in Tenants :
        /\ tenants[t] # NoTenant => t \in tupleMaps
        /\ t \in tupleMaps => objAttrs[t] # NilMap /\ subAttrs[t] # NilMap

\* The counter is the number of the last entry, and the entries are numbered
\* by their positions.
SequenceContiguous ==
    \A t \in Tenants :
        /\ seqCounter[t] = Len(changelog[t])
        /\ \A i \in DOMAIN changelog[t] : changelog[t][i].seq = i

IInv ==
    /\ TypeOK
    /\ MapsInitialised
    /\ UniqueIdentity
    /\ SequenceContiguous
    /\ LiveMatchesLog

\* The empty store satisfies the invariant.
LEMMA InitIInv == Init => IInv
<1> SUFFICES ASSUME Init PROVE IInv
  OBVIOUS
<1>1. TypeOK
  BY DEF Init, TypeOK, Replies
<1>2. MapsInitialised
  BY DEF Init, MapsInitialised
<1>3. UniqueIdentity
  BY DEF Init, UniqueIdentity
<1>4. SequenceContiguous
  BY DEF Init, SequenceContiguous
<1>5. LiveMatchesLog
  BY DEF Init, LiveMatchesLog, Live, LoggedLive
<1>6. QED
  BY <1>1, <1>2, <1>3, <1>4, <1>5 DEF IInv

-----------------------------------------------------------------------------
(* Steps that leave a tenant's tuples and changelog alone.                  *)

\* A step that changes neither the tuples nor the changelog of a tenant, nor
\* the time, keeps what the properties say of the tenant.
LEMMA Untouched ==
    ASSUME NEW t \in Tenants, tuples'[t] = tuples[t], changelog'[t] = changelog[t], now' = now
    PROVE  /\ Live(tuples[t], now)' = Live(tuples[t], now)
           /\ LoggedLive(t)' = LoggedLive(t)
  BY DEF Live, LoggedLive, LastWord, About, tupleIsExpiredAt

\* A call that returns an error keeps the invariant.
LEMMA RefuseIInv ==
    ASSUME IInv, NEW err \in Replies, Refuse(err)
    PROVE  IInv'
<1>1. TypeOK'
  BY DEF IInv, TypeOK, Refuse, data
<1>2. MapsInitialised'
  BY DEF IInv, MapsInitialised, Refuse, data
<1>3. UniqueIdentity'
  BY DEF IInv, UniqueIdentity, Refuse, data
<1>4. SequenceContiguous'
  BY DEF IInv, SequenceContiguous, Refuse, data
<1>5. LiveMatchesLog'
  BY Untouched DEF IInv, LiveMatchesLog, Refuse, data
<1>6. QED
  BY <1>1, <1>2, <1>3, <1>4, <1>5 DEF IInv

-----------------------------------------------------------------------------
(* The tenant table.                                                        *)

\* A tenant whose tuples and changelog are both empty satisfies them all.
LEMMA EmptyTenant ==
    ASSUME NEW t \in Tenants, tuples'[t] = <<>>, changelog'[t] = <<>>
    PROVE  LoggedLive(t)' = {} /\ Live(tuples[t], now)' = {}
  BY DEF Live, LoggedLive

\* Emptying the maps of one tenant, as initTenant and PurgeTenantData do,
\* keeps the invariant.
LEMMA EmptiedIInv ==
    ASSUME IInv, NEW t \in Tenants,
           tupleMaps' = tupleMaps \cup {t},
           tuples' = [tuples EXCEPT ![t] = <<>>],
           objAttrs' = [objAttrs EXCEPT ![t] = EmptyAttrs],
           subAttrs' = [subAttrs EXCEPT ![t] = EmptyAttrs],
           changelog' = [changelog EXCEPT ![t] = <<>>],
           seqCounter' = [seqCounter EXCEPT ![t] = 0],
           tenants' \in [Tenants -> Statuses \cup {NoTenant}],
           \A u \in Tenants \ {t} : tenants'[u] = tenants[u],
           now' = now, reply' = "ok"
    PROVE  IInv'
<1>1. TypeOK'
  <2>1. EmptyAttrs \in AttrMap
    BY DEF EmptyAttrs, AttrMap
  <2>2. /\ tuples' \in [Tenants -> Seq(Stored)]
        /\ changelog' \in [Tenants -> Seq(Entry)]
        /\ seqCounter' \in [Tenants -> Nat]
    BY DEF IInv, TypeOK
  <2>3. /\ objAttrs' \in [Tenants -> AttrMap \cup {NilMap}]
        /\ subAttrs' \in [Tenants -> AttrMap \cup {NilMap}]
    BY <2>1 DEF IInv, TypeOK
  <2>4. tupleMaps' \in SUBSET Tenants
    BY DEF IInv, TypeOK
  <2>5. QED
    BY <2>2, <2>3, <2>4 DEF IInv, TypeOK, Replies
<1>2. MapsInitialised'
  <2>1. EmptyAttrs # NilMap
    BY SentinelAssumption DEF EmptyAttrs
  <2>2. QED
    BY <2>1 DEF IInv, TypeOK, MapsInitialised
<1>3. UniqueIdentity'
  BY DEF IInv, TypeOK, UniqueIdentity
<1>4. SequenceContiguous'
  BY DEF IInv, TypeOK, SequenceContiguous
<1>5. LiveMatchesLog'
  <2> SUFFICES ASSUME NEW u \in Tenants PROVE Live(tuples[u], now)' = LoggedLive(u)'
    BY DEF LiveMatchesLog
  <2>1. CASE u = t
    BY <2>1, EmptyTenant DEF IInv, TypeOK
  <2>2. CASE u # t
    BY <2>2, Untouched DEF IInv, TypeOK, LiveMatchesLog
  <2>3. QED
    BY <2>1, <2>2
<1>6. QED
  BY <1>1, <1>2, <1>3, <1>4, <1>5 DEF IInv

\* CreateTenant: a new row meets empty data, or data that a purge made ready.
LEMMA CreateTenantIInv ==
    ASSUME IInv, NEW t \in Tenants, NEW status \in Statuses, CreateTenant(t, status)
    PROVE  IInv'
<1>1. CASE tenants[t] # NoTenant
  BY <1>1, RefuseIInv DEF CreateTenant, Replies
<1>2. CASE tenants[t] = NoTenant
  <2>1. /\ tenants' = [tenants EXCEPT ![t] = status]
        /\ initTenant(t)
        /\ reply' = "ok"
        /\ now' = now
    BY <1>2 DEF CreateTenant
  <2>2. /\ tenants' \in [Tenants -> Statuses \cup {NoTenant}]
        /\ \A u \in Tenants \ {t} : tenants'[u] = tenants[u]
    BY <2>1 DEF IInv, TypeOK
  <2>3. CASE t \in tupleMaps
    <3>1. UNCHANGED data
      BY <2>1, <2>3 DEF initTenant
    <3>2. TypeOK'
      BY <2>1, <2>2, <3>1 DEF IInv, TypeOK, Replies, data
    <3>3. MapsInitialised'
      BY <2>1, <2>2, <2>3, <3>1 DEF IInv, MapsInitialised, data
    <3>4. UniqueIdentity' /\ SequenceContiguous'
      BY <3>1 DEF IInv, UniqueIdentity, SequenceContiguous, data
    <3>5. LiveMatchesLog'
      BY <2>1, <3>1, Untouched DEF IInv, LiveMatchesLog, data
    <3>6. QED
      BY <3>2, <3>3, <3>4, <3>5 DEF IInv
  <2>4. CASE t \notin tupleMaps
    BY <2>1, <2>2, <2>4, EmptiedIInv DEF initTenant
  <2>5. QED
    BY <2>3, <2>4
<1>3. QED
  BY <1>1, <1>2

\* UpdateTenant touches the row only.
LEMMA UpdateTenantIInv ==
    ASSUME IInv, NEW t \in Tenants, NEW status \in Statuses, UpdateTenant(t, status)
    PROVE  IInv'
<1>1. CASE tenants[t] = NoTenant
  BY <1>1, RefuseIInv DEF UpdateTenant, Replies
<1>2. CASE tenants[t] # NoTenant
  <2>1. /\ tenants' = [tenants EXCEPT ![t] = status]
        /\ reply' = "ok"
        /\ UNCHANGED data
        /\ now' = now
    BY <1>2 DEF UpdateTenant
  <2>2. TypeOK'
    BY <2>1 DEF IInv, TypeOK, Replies, data
  <2>3. MapsInitialised'
    BY <1>2, <2>1 DEF IInv, TypeOK, MapsInitialised, data
  <2>4. UniqueIdentity' /\ SequenceContiguous'
    BY <2>1 DEF IInv, UniqueIdentity, SequenceContiguous, data
  <2>5. LiveMatchesLog'
    BY <2>1, Untouched DEF IInv, LiveMatchesLog, data
  <2>6. QED
    BY <2>2, <2>3, <2>4, <2>5 DEF IInv
<1>3. QED
  BY <1>1, <1>2

\* PurgeTenantData empties tuples, changelog and counter together.
LEMMA PurgeTenantDataIInv ==
    ASSUME IInv, NEW t \in Tenants, PurgeTenantData(t)
    PROVE  IInv'
  BY EmptiedIInv DEF PurgeTenantData, IInv, TypeOK

\* Time only takes tuples out of force, the same ones on both sides.
LEMMA TickIInv ==
    ASSUME IInv, Tick
    PROVE  IInv'
<1>1. TypeOK'
  BY DEF IInv, TypeOK, Tick, data
<1>2. MapsInitialised' /\ UniqueIdentity' /\ SequenceContiguous'
  BY DEF IInv, MapsInitialised, UniqueIdentity, SequenceContiguous, Tick, data
<1>3. LiveMatchesLog'
  <2> SUFFICES ASSUME NEW t \in Tenants PROVE Live(tuples[t], now)' = LoggedLive(t)'
    BY DEF LiveMatchesLog
  <2>1. now \in Nat /\ now' = now + 1 /\ tuples' = tuples /\ changelog' = changelog
    BY DEF IInv, TypeOK, Tick, data
  <2>2. \A s \in Stored : ~tupleIsExpiredAt(s, now + 1) => ~tupleIsExpiredAt(s, now)
    <3> SUFFICES ASSUME NEW s \in Stored, s.expires # Never, s.expires <= now
                 PROVE  s.expires <= now + 1
      BY DEF tupleIsExpiredAt
    <3>1. s.expires \in Nat
      BY ConstantsAssumption DEF Stored
    <3>2. QED
      BY <2>1, <3>1
  <2>3. \A i \in DOMAIN tuples[t] : tuples[t][i] \in Stored
    BY DEF IInv, TypeOK
  <2>4. \A i \in DOMAIN changelog[t] : changelog[t][i].stored \in Stored
    <3>1. changelog[t] \in Seq(Entry)
      BY DEF IInv, TypeOK
    <3>2. \A i \in DOMAIN changelog[t] : changelog[t][i] \in Entry
      BY <3>1
    <3>3. QED
      BY <3>2 DEF Entry
  <2>5. Live(tuples[t], now)' = {s \in Live(tuples[t], now) : ~tupleIsExpiredAt(s, now + 1)}
    BY <2>1, <2>2, <2>3 DEF Live
  <2>6. LoggedLive(t)' = {s \in LoggedLive(t) : ~tupleIsExpiredAt(s, now + 1)}
    BY <2>1, <2>2, <2>4 DEF LoggedLive, LastWord, About
  <2>7. QED
    BY <2>5, <2>6 DEF IInv, LiveMatchesLog
<1>4. QED
  BY <1>1, <1>2, <1>3 DEF IInv

\* SetObjectAttributes replaces one entry of a map that is not nil.
LEMMA SetObjectAttributesIInv ==
    ASSUME IInv, NEW t \in Tenants, NEW k \in AttrKeys, NEW a \in Attrs,
           SetObjectAttributes(t, k, a)
    PROVE  IInv'
<1>1. checkTenantWritable(t) \in Replies
  BY DEF IInv, TypeOK, checkTenantWritable, Replies, Statuses
<1>2. CASE checkTenantWritable(t) # "ok" \/ objAttrs[t] = NilMap
  BY <1>1, <1>2, RefuseIInv DEF SetObjectAttributes, Replies
<1>3. CASE checkTenantWritable(t) = "ok" /\ objAttrs[t] # NilMap
  <2>1. /\ objAttrs' = [objAttrs EXCEPT ![t][k] = a]
        /\ reply' = "ok"
        /\ UNCHANGED <<tenants, tuples, tupleMaps, subAttrs, changelog, seqCounter, now>>
    BY <1>3 DEF SetObjectAttributes
  <2>2. objAttrs'[t] \in AttrMap /\ \A u \in Tenants \ {t} : objAttrs'[u] = objAttrs[u]
    BY <1>3, <2>1 DEF IInv, TypeOK, AttrMap
  <2>3. objAttrs' \in [Tenants -> AttrMap \cup {NilMap}]
    BY <1>3, <2>1, <2>2 DEF IInv, TypeOK
  <2>4. TypeOK'
    BY <2>1, <2>3 DEF IInv, TypeOK, Replies
  <2>5. MapsInitialised'
    <3>1. objAttrs'[t] # NilMap
      BY <2>2, SentinelAssumption DEF AttrMap
    <3>2. QED
      BY <2>1, <2>2, <3>1 DEF IInv, MapsInitialised
  <2>6. UniqueIdentity' /\ SequenceContiguous'
    BY <2>1 DEF IInv, UniqueIdentity, SequenceContiguous
  <2>7. LiveMatchesLog'
    BY <2>1, Untouched DEF IInv, LiveMatchesLog
  <2>8. QED
    BY <2>4, <2>5, <2>6, <2>7 DEF IInv
<1>4. QED
  BY <1>2, <1>3

\* SetSubjectAttributes replaces one entry of a map that is not nil.
LEMMA SetSubjectAttributesIInv ==
    ASSUME IInv, NEW t \in Tenants, NEW k \in AttrKeys, NEW a \in Attrs,
           SetSubjectAttributes(t, k, a)
    PROVE  IInv'
<1>1. checkTenantWritable(t) \in Replies
  BY DEF IInv, TypeOK, checkTenantWritable, Replies, Statuses
<1>2. CASE checkTenantWritable(t) # "ok" \/ subAttrs[t] = NilMap
  BY <1>1, <1>2, RefuseIInv DEF SetSubjectAttributes, Replies
<1>3. CASE checkTenantWritable(t) = "ok" /\ subAttrs[t] # NilMap
  <2>1. /\ subAttrs' = [subAttrs EXCEPT ![t][k] = a]
        /\ reply' = "ok"
        /\ UNCHANGED <<tenants, tuples, tupleMaps, objAttrs, changelog, seqCounter, now>>
    BY <1>3 DEF SetSubjectAttributes
  <2>2. subAttrs'[t] \in AttrMap /\ \A u \in Tenants \ {t} : subAttrs'[u] = subAttrs[u]
    BY <1>3, <2>1 DEF IInv, TypeOK, AttrMap
  <2>3. subAttrs' \in [Tenants -> AttrMap \cup {NilMap}]
    BY <1>3, <2>1, <2>2 DEF IInv, TypeOK
  <2>4. TypeOK'
    BY <2>1, <2>3 DEF IInv, TypeOK, Replies
  <2>5. MapsInitialised'
    <3>1. subAttrs'[t] # NilMap
      BY <2>2, SentinelAssumption DEF AttrMap
    <3>2. QED
      BY <2>1, <2>2, <3>1 DEF IInv, MapsInitialised
  <2>6. UniqueIdentity' /\ SequenceContiguous'
    BY <2>1 DEF IInv, UniqueIdentity, SequenceContiguous
  <2>7. LiveMatchesLog'
    BY <2>1, Untouched DEF IInv, LiveMatchesLog
  <2>8. QED
    BY <2>4, <2>5, <2>6, <2>7 DEF IInv
<1>4. QED
  BY <1>2, <1>3

-----------------------------------------------------------------------------
(* The changelog.                                                           *)

\* The entries of a batch follow the old ones; the old ones keep their place.
LEMMA AppendEffect ==
    ASSUME IInv, NEW t \in Tenants, NEW op \in Ops, NEW source \in Sources,
           NEW batch \in Seq(Stored), appendTupleChangelog(t, op, source, batch)
    PROVE  /\ changelog' \in [Tenants -> Seq(Entry)]
           /\ seqCounter' \in [Tenants -> Nat]
           /\ SequenceContiguous'
           /\ \A u \in Tenants \ {t} : changelog'[u] = changelog[u]
           /\ Len(changelog'[t]) = Len(changelog[t]) + Len(batch)
           /\ \A i \in 1..Len(changelog[t]) : changelog'[t][i] = changelog[t][i]
           /\ \A i \in 1..Len(batch) :
                 /\ changelog'[t][Len(changelog[t]) + i].op = op
                 /\ changelog'[t][Len(changelog[t]) + i].source = source
                 /\ changelog'[t][Len(changelog[t]) + i].stored = batch[i]
<1> DEFINE old == changelog[t]
           new == Entries(t, op, source, batch)
<1>1. old \in Seq(Entry) /\ Len(old) \in Nat /\ seqCounter[t] = Len(old)
  BY DEF IInv, TypeOK, SequenceContiguous
<1>2. Len(batch) \in Nat /\ DOMAIN batch = 1..Len(batch)
  OBVIOUS
<1>3. /\ new = [i \in 1..Len(batch) |-> new[i]]
      /\ \A i \in 1..Len(batch) :
            /\ new[i] \in Entry
            /\ new[i].seq = Len(old) + i
            /\ new[i].op = op /\ new[i].source = source /\ new[i].stored = batch[i]
  <2>1. \A i \in 1..Len(batch) :
          new[i] = [seq |-> Len(old) + i, op |-> op, stored |-> batch[i], source |-> source]
    BY <1>1, <1>2 DEF Entries
  <2>2. \A i \in 1..Len(batch) : Len(old) + i \in Nat /\ batch[i] \in Stored
    BY <1>1, <1>2
  <2>3. new = [i \in 1..Len(batch) |-> new[i]]
    BY <1>2 DEF Entries
  <2> HIDE DEF new, old
  <2>4. ASSUME NEW i \in 1..Len(batch) PROVE new[i] \in Entry
    <3>1. [seq |-> Len(old) + i, op |-> op, stored |-> batch[i], source |-> source] \in Entry
      BY <2>2 DEF Entry
    <3>2. QED
      BY <2>1, <3>1
  <2>5. QED
    BY <2>1, <2>3, <2>4
<1>4. new \in Seq(Entry) /\ Len(new) = Len(batch)
  <2> HIDE DEF new
  <2> QED BY <1>2, <1>3
<1>5. /\ changelog' = [changelog EXCEPT ![t] = old \o new]
      /\ seqCounter' = [seqCounter EXCEPT ![t] = Len(old) + Len(batch)]
  BY <1>1 DEF appendTupleChangelog
<1>6. /\ changelog'[t] = old \o new
      /\ \A u \in Tenants \ {t} : changelog'[u] = changelog[u]
      /\ seqCounter'[t] = Len(old) + Len(batch)
      /\ \A u \in Tenants \ {t} : seqCounter'[u] = seqCounter[u]
  BY <1>5 DEF IInv, TypeOK
<1> HIDE DEF new
<1>7. /\ old \o new \in Seq(Entry)
      /\ Len(old \o new) = Len(old) + Len(batch)
      /\ \A i \in 1..Len(old) : (old \o new)[i] = old[i]
      /\ \A i \in 1..Len(batch) : (old \o new)[Len(old) + i] = new[i]
  <2> HIDE DEF old
  <2> QED BY <1>1, <1>2, <1>4
<1>8. changelog' \in [Tenants -> Seq(Entry)]
  BY <1>5, <1>7 DEF IInv, TypeOK
<1>9. seqCounter' \in [Tenants -> Nat]
  BY <1>1, <1>2, <1>5 DEF IInv, TypeOK
<1>10. SequenceContiguous'
  <2> SUFFICES ASSUME NEW u \in Tenants
               PROVE  /\ seqCounter'[u] = Len(changelog'[u])
                      /\ \A i \in DOMAIN changelog'[u] : changelog'[u][i].seq = i
    BY DEF SequenceContiguous
  <2>1. CASE u # t
    BY <1>6, <2>1 DEF IInv, SequenceContiguous
  <2>2. CASE u = t
    <3>1. \A i \in 1..Len(old) : old[i].seq = i
      BY DEF IInv, TypeOK, SequenceContiguous
    <3>2. DOMAIN changelog'[t] = 1..(Len(old) + Len(batch))
      BY <1>6, <1>7
    <3>3. ASSUME NEW i \in 1..(Len(old) + Len(batch)) PROVE changelog'[t][i].seq = i
      <4>1. CASE i <= Len(old)
        BY <1>1, <1>6, <1>7, <3>1, <4>1
      <4>2. CASE i > Len(old)
        <5> DEFINE j == i - Len(old)
        <5>1. j \in 1..Len(batch) /\ i = Len(old) + j
          BY <1>1, <1>2, <4>2
        <5> HIDE DEF j
        <5>2. QED
          BY <1>3, <1>6, <1>7, <5>1
      <4>3. QED
        BY <1>1, <4>1, <4>2
    <3>4. QED
      BY <1>6, <1>7, <2>2, <3>2, <3>3
  <2>3. QED
    BY <2>1, <2>2
<1>11. /\ Len(changelog'[t]) = Len(changelog[t]) + Len(batch)
       /\ \A i \in 1..Len(changelog[t]) : changelog'[t][i] = changelog[t][i]
  BY <1>6, <1>7
<1>12. \A i \in 1..Len(batch) :
          /\ changelog'[t][Len(changelog[t]) + i].op = op
          /\ changelog'[t][Len(changelog[t]) + i].source = source
          /\ changelog'[t][Len(changelog[t]) + i].stored = batch[i]
  <2> SUFFICES ASSUME NEW i \in 1..Len(batch)
               PROVE  changelog'[t][Len(changelog[t]) + i] = new[i]
    BY <1>3
  <2> QED BY <1>6, <1>7
<1>13. QED
  BY <1>6, <1>8, <1>9, <1>10, <1>11, <1>12

\* An entry of another source changes nothing of what the log says is live.
LEMMA AppendChangelogIInv ==
    ASSUME IInv, NEW t \in Tenants, NEW e \in External, AppendChangelog(t, e)
    PROVE  IInv'
<1>1. checkTenantWritable(t) \in Replies
  BY DEF IInv, TypeOK, checkTenantWritable, Replies, Statuses
<1>2. CASE checkTenantWritable(t) # "ok"
  BY <1>1, <1>2, RefuseIInv DEF AppendChangelog
<1>3. CASE checkTenantWritable(t) = "ok"
  <2>1. /\ appendTupleChangelog(t, e.op, e.source, <<e.stored>>)
        /\ reply' = "ok"
        /\ UNCHANGED <<tenants, tuples, tupleMaps, objAttrs, subAttrs, now>>
    BY <1>3 DEF AppendChangelog
  <2>2. e.op \in Ops /\ e.source \in Sources /\ e.source # "api" /\ e.stored \in Stored
    BY ConstantsAssumption
  <2>3. <<e.stored>> \in Seq(Stored) /\ Len(<<e.stored>>) = 1
    BY <2>2
  <2>4. /\ changelog' \in [Tenants -> Seq(Entry)]
        /\ seqCounter' \in [Tenants -> Nat]
        /\ SequenceContiguous'
        /\ \A u \in Tenants \ {t} : changelog'[u] = changelog[u]
        /\ Len(changelog'[t]) = Len(changelog[t]) + 1
        /\ \A i \in 1..Len(changelog[t]) : changelog'[t][i] = changelog[t][i]
        /\ changelog'[t][Len(changelog[t]) + 1].source # "api"
    <3>1. PICK op \in Ops, source \in Sources, batch \in Seq(Stored) :
            op = e.op /\ source = e.source /\ batch = <<e.stored>>
      BY <2>2, <2>3
    <3>2. appendTupleChangelog(t, op, source, batch)
      BY <2>1, <3>1
    <3>3. /\ changelog' \in [Tenants -> Seq(Entry)]
          /\ seqCounter' \in [Tenants -> Nat]
          /\ SequenceContiguous'
          /\ \A u \in Tenants \ {t} : changelog'[u] = changelog[u]
          /\ Len(changelog'[t]) = Len(changelog[t]) + Len(batch)
          /\ \A i \in 1..Len(changelog[t]) : changelog'[t][i] = changelog[t][i]
          /\ \A i \in 1..Len(batch) : changelog'[t][Len(changelog[t]) + i].source = source
      BY <3>2, AppendEffect
    <3>4. Len(batch) = 1
      BY <3>1, <2>3
    <3>5. QED
      BY <2>2, <3>1, <3>3, <3>4
  <2>5. TypeOK'
    BY <2>1, <2>4 DEF IInv, TypeOK, Replies
  <2>6. MapsInitialised' /\ UniqueIdentity'
    BY <2>1 DEF IInv, MapsInitialised, UniqueIdentity
  <2>7. LoggedLive(t)' = LoggedLive(t)
    <3> PICK n \in Nat : n = Len(changelog[t])
      BY DEF IInv, TypeOK
    <3>1. DOMAIN changelog[t] = 1..n /\ DOMAIN changelog'[t] = 1..(n + 1)
      BY <2>4 DEF IInv, TypeOK
    <3>2. \A i \in 1..n : LastWord(t, i)' <=> LastWord(t, i)
      <4> SUFFICES ASSUME NEW i \in 1..n PROVE LastWord(t, i)' <=> LastWord(t, i)
        OBVIOUS
      <4>1. changelog'[t][i] = changelog[t][i]
        BY <2>4
      <4>2. \A j \in (i + 1)..n : changelog'[t][j] = changelog[t][j]
        BY <2>4
      <4>3. (i + 1)..(n + 1) = ((i + 1)..n) \cup {n + 1}
        OBVIOUS
      <4>4. Len(changelog'[t]) = n + 1 /\ changelog'[t][n + 1].source # "api"
        BY <2>4
      <4>5. QED
        BY <4>1, <4>2, <4>3, <4>4 DEF LastWord, About
    <3>3. ~LastWord(t, n + 1)'
      BY <2>4 DEF LastWord
    <3>4. 1..(n + 1) = (1..n) \cup {n + 1}
      OBVIOUS
    <3>5. \A i \in 1..n : changelog'[t][i] = changelog[t][i]
      BY <2>4
    <3>6. QED
      BY <2>1, <3>1, <3>2, <3>3, <3>4, <3>5 DEF LoggedLive, tupleIsExpiredAt
  <2>8. LiveMatchesLog'
    <3> SUFFICES ASSUME NEW u \in Tenants PROVE Live(tuples[u], now)' = LoggedLive(u)'
      BY DEF LiveMatchesLog
    <3>1. CASE u = t
      BY <2>1, <2>7, <3>1 DEF IInv, LiveMatchesLog, Live, tupleIsExpiredAt
    <3>2. CASE u # t
      BY <2>1, <2>4, <3>2, Untouched DEF IInv, LiveMatchesLog
    <3>3. QED
      BY <3>1, <3>2
  <2>9. QED
    BY <2>4, <2>5, <2>6, <2>8 DEF IInv
<1>4. QED
  BY <1>2, <1>3

\* Entries of the store itself about pairwise different tuples have the last
\* word on these tuples and change nothing of the others.
LEMMA LoggedAfter ==
    ASSUME IInv, NEW t \in Tenants, NEW op \in Ops, NEW batch \in Seq(Stored),
           \A j, k \in 1..Len(batch) : batch[j].tuple = batch[k].tuple => j = k,
           appendTupleChangelog(t, op, "api", batch), now' = now
    PROVE  \A s : s \in LoggedLive(t)' <=>
              \/ /\ s \in LoggedLive(t)
                 /\ \A k \in 1..Len(batch) : batch[k].tuple # s.tuple
              \/ /\ op = "INSERT"
                 /\ ~tupleIsExpiredAt(s, now)
                 /\ \E k \in 1..Len(batch) : s = batch[k]
<1>1. /\ changelog' \in [Tenants -> Seq(Entry)]
      /\ Len(changelog'[t]) = Len(changelog[t]) + Len(batch)
      /\ \A i \in 1..Len(changelog[t]) : changelog'[t][i] = changelog[t][i]
      /\ \A i \in 1..Len(batch) :
            /\ changelog'[t][Len(changelog[t]) + i].op = op
            /\ changelog'[t][Len(changelog[t]) + i].source = "api"
            /\ changelog'[t][Len(changelog[t]) + i].stored = batch[i]
  <2>1. "api" \in Sources
    BY DEF Sources
  <2>2. QED
    BY <2>1, AppendEffect
<1>2. PICK n \in Nat, m \in Nat : n = Len(changelog[t]) /\ m = Len(batch)
  BY DEF IInv, TypeOK
<1>3. PICK old \in Seq(Entry), new \in Seq(Entry) : old = changelog[t] /\ new = changelog'[t]
  BY <1>1 DEF IInv, TypeOK
<1>4. /\ DOMAIN old = 1..n /\ DOMAIN new = 1..(n + m)
      /\ \A i \in 1..n : new[i] = old[i]
      /\ \A k \in 1..m : new[n + k].op = op /\ new[n + k].source = "api" /\ new[n + k].stored = batch[k]
  <2>1. Len(old) = n /\ Len(new) = n + m
    BY <1>1, <1>2, <1>3
  <2>2. DOMAIN old = 1..n /\ DOMAIN new = 1..(n + m)
    BY <2>1
  <2>3. \A i \in 1..n : new[i] = old[i]
    BY <1>1, <1>2, <1>3
  <2>4. ASSUME NEW k \in 1..m
        PROVE  new[n + k].op = op /\ new[n + k].source = "api" /\ new[n + k].stored = batch[k]
    BY <1>1, <1>2, <1>3
  <2>5. QED
    BY <2>2, <2>3, <2>4
<1>5. \A i \in 1..n : \A j \in (i + 1)..(n + m) :
         \/ j \in (i + 1)..n
         \/ \E k \in 1..m : j = n + k
  <2> TAKE i \in 1..n
  <2> TAKE j \in (i + 1)..(n + m)
  <2>1. CASE j <= n
    BY <2>1
  <2>2. CASE j > n
    <3>1. j - n \in 1..m /\ j = n + (j - n)
      BY <2>2
    <3>2. QED
      BY <3>1
  <2>3. QED
    BY <2>1, <2>2
<1>6. ASSUME NEW i \in 1..n
      PROVE  LastWord(t, i)' <=> /\ LastWord(t, i)
                                 /\ \A k \in 1..m : batch[k].tuple # old[i].stored.tuple
  <2>1. LastWord(t, i)' <=> /\ old[i].source = "api"
                            /\ \A j \in (i + 1)..(n + m) :
                                  ~(new[j].source = "api" /\ new[j].stored.tuple = old[i].stored.tuple)
    BY <1>1, <1>2, <1>3, <1>4 DEF LastWord, About
  <2>2. LastWord(t, i) <=> /\ old[i].source = "api"
                           /\ \A j \in (i + 1)..n :
                                 ~(new[j].source = "api" /\ new[j].stored.tuple = old[i].stored.tuple)
    <3>1. \A j \in (i + 1)..n : new[j] = old[j]
      BY <1>4
    <3>2. Len(changelog[t]) = n
      BY <1>2
    <3>3. QED
      BY <1>3, <3>1, <3>2 DEF LastWord, About
  <2>3. \A k \in 1..m : n + k \in (i + 1)..(n + m)
    OBVIOUS
  <2>4. (i + 1)..n \subseteq (i + 1)..(n + m)
    OBVIOUS
  <2>5. ASSUME LastWord(t, i)'
        PROVE  LastWord(t, i) /\ \A k \in 1..m : batch[k].tuple # old[i].stored.tuple
    <3>1. LastWord(t, i)
      BY <2>1, <2>2, <2>4, <2>5
    <3>2. ASSUME NEW k \in 1..m PROVE batch[k].tuple # old[i].stored.tuple
      BY <1>4, <2>1, <2>3, <2>5, SMTT(60)
    <3>3. QED
      BY <3>1, <3>2
  <2>6. ASSUME LastWord(t, i), \A k \in 1..m : batch[k].tuple # old[i].stored.tuple
        PROVE  LastWord(t, i)'
    <3>1. ASSUME NEW j \in (i + 1)..(n + m)
          PROVE  ~(new[j].source = "api" /\ new[j].stored.tuple = old[i].stored.tuple)
      <4>1. CASE j \in (i + 1)..n
        BY <2>2, <2>6, <4>1
      <4>2. CASE \E k \in 1..m : j = n + k
        <5>1. PICK k \in 1..m : j = n + k
          BY <4>2
        <5>2. new[j].stored = batch[k]
          BY <1>4, <5>1
        <5>3. QED
          BY <2>6, <5>2
      <4>3. QED
        BY <1>5, <4>1, <4>2
    <3>2. QED
      BY <2>1, <2>2, <2>6, <3>1
  <2>7. QED
    BY <2>5, <2>6
<1>7. ASSUME NEW k \in 1..m, NEW i \in Nat, i = n + k
      PROVE  LastWord(t, i)'
  <2>1. new[i].source = "api" /\ new[i].stored = batch[k]
    BY <1>4, <1>7
  <2>2. ASSUME NEW j \in (i + 1)..(n + m)
        PROVE  new[j].stored.tuple # new[i].stored.tuple
    <3>1. PICK l \in 1..m : l # k /\ j = n + l
      <4>1. j - n \in 1..m /\ j - n # k /\ j = n + (j - n)
        BY <1>7
      <4>2. QED
        BY <4>1
    <3>2. new[j].stored = batch[l]
      BY <1>4, <3>1
    <3>3. batch[l].tuple # batch[k].tuple
      BY <1>2, <3>1
    <3>4. QED
      BY <2>1, <3>2, <3>3
  <2>3. Len(changelog'[t]) = n + m
    BY <1>1, <1>2
  <2>4. QED
    BY <1>3, <2>1, <2>2, <2>3 DEF LastWord, About
<1>8. \A i \in 1..(n + m) : i \in 1..n \/ \E k \in 1..m : i = n + k
  <2> TAKE i \in 1..(n + m)
  <2>1. CASE i <= n
    BY <2>1
  <2>2. CASE i > n
    <3>1. i - n \in 1..m /\ i = n + (i - n)
      BY <2>2
    <3>2. QED
      BY <3>1
  <2>3. QED
    BY <2>1, <2>2
<1>9. \A s : s \in LoggedLive(t) <=>
         \E i \in 1..n : /\ LastWord(t, i) /\ old[i].op = "INSERT"
                         /\ ~tupleIsExpiredAt(old[i].stored, now) /\ s = old[i].stored
  BY <1>3, <1>4 DEF LoggedLive
<1>10. \A s : s \in LoggedLive(t)' <=>
         \E i \in 1..(n + m) : /\ LastWord(t, i)' /\ new[i].op = "INSERT"
                               /\ ~tupleIsExpiredAt(new[i].stored, now) /\ s = new[i].stored
  BY <1>3, <1>4 DEF LoggedLive, tupleIsExpiredAt
<1>11. TAKE s
<1>12. ASSUME s \in LoggedLive(t)'
       PROVE  \/ /\ s \in LoggedLive(t)
                 /\ \A k \in 1..Len(batch) : batch[k].tuple # s.tuple
              \/ /\ op = "INSERT"
                 /\ ~tupleIsExpiredAt(s, now)
                 /\ \E k \in 1..Len(batch) : s = batch[k]
  <2>1. PICK i \in 1..(n + m) : /\ LastWord(t, i)' /\ new[i].op = "INSERT"
                                /\ ~tupleIsExpiredAt(new[i].stored, now) /\ s = new[i].stored
    BY <1>10, <1>12
  <2>2. CASE i \in 1..n
    BY <1>2, <1>4, <1>6, <1>9, <2>1, <2>2
  <2>3. CASE \E k \in 1..m : i = n + k
    BY <1>2, <1>4, <2>1, <2>3
  <2>4. QED
    BY <1>8, <2>2, <2>3
<1>13. ASSUME s \in LoggedLive(t), \A k \in 1..Len(batch) : batch[k].tuple # s.tuple
       PROVE  s \in LoggedLive(t)'
  <2>1. PICK i \in 1..n : /\ LastWord(t, i) /\ old[i].op = "INSERT"
                          /\ ~tupleIsExpiredAt(old[i].stored, now) /\ s = old[i].stored
    BY <1>9, <1>13
  <2>2. LastWord(t, i)' /\ i \in 1..(n + m) /\ new[i] = old[i]
    BY <1>2, <1>4, <1>6, <1>13, <2>1
  <2>3. QED
    BY <1>10, <2>1, <2>2
<1>14. ASSUME op = "INSERT", ~tupleIsExpiredAt(s, now), NEW k \in 1..Len(batch), s = batch[k]
       PROVE  s \in LoggedLive(t)'
  <2>1. PICK i \in Nat : i = n + k /\ i \in 1..(n + m)
    BY <1>2
  <2>2. LastWord(t, i)'
    BY <1>2, <1>7, <2>1
  <2>3. new[i].op = "INSERT" /\ new[i].stored = s
    BY <1>2, <1>4, <1>14, <2>1
  <2>4. QED
    BY <1>10, <1>14, <2>1, <2>2, <2>3
<1>15. QED
  BY <1>12, <1>13, <1>14

-----------------------------------------------------------------------------
(* DeleteTuple.                                                             *)

\* The tuple found is the only one with these fields.
LEMMA PositionUnique ==
    ASSUME IInv, NEW t \in Tenants, NEW x \in Tuples,
           \E i \in DOMAIN tuples[t] : tuples[t][i].tuple = x
    PROVE  /\ Position(t, x) \in DOMAIN tuples[t]
           /\ tuples[t][Position(t, x)].tuple = x
           /\ \A j \in DOMAIN tuples[t] \ {Position(t, x)} : tuples[t][j].tuple # x
<1>1. PICK i \in DOMAIN tuples[t] : tuples[t][i].tuple = x
  OBVIOUS
<1>2. DOMAIN tuples[t] = 1..Len(tuples[t]) /\ Len(tuples[t]) \in Nat
  BY DEF IInv, TypeOK
<1>3. \A j \in DOMAIN tuples[t] \ {i} : tuples[t][j].tuple # x
  BY <1>1 DEF IInv, UniqueIdentity
<1>4. \A j \in 1..(i - 1) : j \in DOMAIN tuples[t] \ {i}
  BY <1>2
<1>5. Position(t, x) = i
  BY <1>1, <1>2, <1>3, <1>4 DEF Position
<1>6. QED
  BY <1>1, <1>3, <1>5

\* DeleteTuple removes one tuple and logs exactly that one.
LEMMA DeleteTupleIInv ==
    ASSUME IInv, NEW t \in Tenants, NEW x \in Tuples, DeleteTuple(t, x)
    PROVE  IInv'
<1>1. checkTenantWritable(t) \in Replies
  BY DEF IInv, TypeOK, checkTenantWritable, Replies, Statuses
<1>2. CASE checkTenantWritable(t) # "ok" \/ ~\E i \in DOMAIN tuples[t] : tuples[t][i].tuple = x
  BY <1>1, <1>2, RefuseIInv DEF DeleteTuple, Replies
<1>3. CASE checkTenantWritable(t) = "ok" /\ \E i \in DOMAIN tuples[t] : tuples[t][i].tuple = x
  <2>1. PICK i \in DOMAIN tuples[t] :
          /\ i = Position(t, x)
          /\ tuples[t][i].tuple = x
          /\ \A j \in DOMAIN tuples[t] \ {i} : tuples[t][j].tuple # x
    BY <1>3, PositionUnique
  <2>2. PICK old \in Seq(Stored) : old = tuples[t]
    BY DEF IInv, TypeOK
  <2>3. DOMAIN old = 1..Len(old) /\ Len(old) \in Nat /\ i \in 1..Len(old) /\ old[i] \in Stored
    BY <2>1, <2>2
  <2>4. PICK batch \in Seq(Stored) : batch = <<old[i]>>
    <3>1. <<old[i]>> \in Seq(Stored)
      BY <2>3
    <3>2. QED
      BY <3>1
  <2>5. /\ tuples' = [tuples EXCEPT ![t] = Without(old, i)]
        /\ appendTupleChangelog(t, "DELETE", "api", batch)
        /\ reply' = "ok"
        /\ UNCHANGED <<tenants, tupleMaps, objAttrs, subAttrs, now>>
    BY <1>3, <2>1, <2>2, <2>4 DEF DeleteTuple, RemoveTuple
  <2>6. /\ Without(old, i) \in Seq(Stored)
        /\ Len(Without(old, i)) = Len(old) - 1
        /\ \A j \in 1..(Len(old) - 1) :
              Without(old, i)[j] = IF j < i THEN old[j] ELSE old[j + 1]
    BY <2>1, <2>2, WithoutProperties
  <2>7. PICK new \in Seq(Stored) : new = Without(old, i)
    BY <2>6
  <2>8. /\ tuples' \in [Tenants -> Seq(Stored)]
        /\ tuples'[t] = new
        /\ \A u \in Tenants \ {t} : tuples'[u] = tuples[u]
    BY <2>5, <2>7 DEF IInv, TypeOK
  <2>9. /\ DOMAIN new = 1..(Len(old) - 1)
        /\ \A j \in 1..(Len(old) - 1) : new[j] = IF j < i THEN old[j] ELSE old[j + 1]
    BY <2>6, <2>7
  <2>10. /\ changelog' \in [Tenants -> Seq(Entry)]
         /\ seqCounter' \in [Tenants -> Nat]
         /\ SequenceContiguous'
         /\ \A u \in Tenants \ {t} : changelog'[u] = changelog[u]
         /\ Len(changelog'[t]) = Len(changelog[t]) + Len(batch)
         /\ \A k \in 1..Len(changelog[t]) : changelog'[t][k] = changelog[t][k]
         /\ \A k \in 1..Len(batch) :
               /\ changelog'[t][Len(changelog[t]) + k].op = "DELETE"
               /\ changelog'[t][Len(changelog[t]) + k].source = "api"
               /\ changelog'[t][Len(changelog[t]) + k].stored = batch[k]
    BY <2>5, AppendEffect DEF Ops, Sources
  <2>11. TypeOK'
    BY <2>5, <2>8, <2>10 DEF IInv, TypeOK, Replies
  <2>12. MapsInitialised'
    BY <2>5 DEF IInv, MapsInitialised
  <2>13. UniqueIdentity'
    <3> SUFFICES ASSUME NEW u \in Tenants, NEW j \in DOMAIN tuples'[u], NEW k \in DOMAIN tuples'[u],
                        tupleIdentityKey(tuples'[u][j].tuple) = tupleIdentityKey(tuples'[u][k].tuple)
                 PROVE  j = k
      BY DEF UniqueIdentity, tupleIdentityKey
    <3>1. CASE u # t
      BY <2>8, <3>1 DEF IInv, UniqueIdentity
    <3>2. CASE u = t
      <4>1. \A m, n \in 1..Len(old) :
              tupleIdentityKey(old[m].tuple) = tupleIdentityKey(old[n].tuple) => m = n
        BY <2>2, <2>3 DEF IInv, UniqueIdentity
      <4>2. j \in 1..(Len(old) - 1) /\ k \in 1..(Len(old) - 1)
        BY <2>8, <2>9, <3>2
      <4>3. tupleIdentityKey(new[j].tuple) = tupleIdentityKey(new[k].tuple)
        BY <2>8, <3>2
      <4>4. QED
        BY <2>3, <2>9, <4>1, <4>2, <4>3, SMTT(60)
    <3>3. QED
      BY <3>1, <3>2
  <2>14. LiveMatchesLog'
    <3> SUFFICES ASSUME NEW u \in Tenants PROVE Live(tuples[u], now)' = LoggedLive(u)'
      BY DEF LiveMatchesLog
    <3>1. CASE u # t
      BY <2>5, <2>8, <2>10, <3>1, Untouched DEF IInv, LiveMatchesLog
    <3>2. CASE u = t
      <4>1. Live(tuples[t], now)' = {s \in Live(tuples[t], now) : s.tuple # x}
        <5>1. \A j \in 1..(Len(old) - 1) : \E k \in 1..Len(old) : k # i /\ new[j] = old[k]
          <6> TAKE j \in 1..(Len(old) - 1)
          <6>1. CASE j < i
            <7> WITNESS j \in 1..Len(old)
            <7> QED BY <2>3, <2>9, <6>1
          <6>2. CASE ~(j < i)
            <7> WITNESS j + 1 \in 1..Len(old)
            <7> QED BY <2>3, <2>9, <6>2
          <6>3. QED
            BY <6>1, <6>2
        <5>2. \A k \in 1..Len(old) : k # i => \E j \in 1..(Len(old) - 1) : new[j] = old[k]
          <6> SUFFICES ASSUME NEW k \in 1..Len(old), k # i
                       PROVE  \E j \in 1..(Len(old) - 1) : new[j] = old[k]
            OBVIOUS
          <6>1. CASE k < i
            <7>1. k \in 1..(Len(old) - 1) /\ new[k] = old[k]
              BY <2>3, <2>9, <6>1
            <7>2. QED
              BY <7>1
          <6>2. CASE k > i
            <7>1. k - 1 \in 1..(Len(old) - 1) /\ new[k - 1] = old[k]
              BY <2>3, <2>9, <6>2
            <7>2. QED
              BY <7>1
          <6>3. QED
            BY <2>3, <6>1, <6>2
        <5>3. \A k \in 1..Len(old) : old[k].tuple # x <=> k # i
          BY <2>1, <2>2, <2>3
        <5>4. \A s : s \in Live(tuples[t], now)' <=>
                 \E j \in 1..(Len(old) - 1) : s = new[j] /\ ~tupleIsExpiredAt(s, now)
          BY <2>5, <2>8, <2>9 DEF Live, tupleIsExpiredAt
        <5>5. \A s : s \in Live(tuples[t], now) <=>
                 \E k \in 1..Len(old) : s = old[k] /\ ~tupleIsExpiredAt(s, now)
          BY <2>2, <2>3 DEF Live
        <5>6. ASSUME NEW s, s \in Live(tuples[t], now)'
              PROVE  s \in Live(tuples[t], now) /\ s.tuple # x
          BY <5>1, <5>3, <5>4, <5>5, <5>6
        <5>7. ASSUME NEW s, s \in Live(tuples[t], now), s.tuple # x
              PROVE  s \in Live(tuples[t], now)'
          BY <5>2, <5>3, <5>4, <5>5, <5>7
        <5>8. QED
          BY <5>6, <5>7
      <4>2. LoggedLive(t)' = {s \in LoggedLive(t) : s.tuple # x}
        <5>1. Len(batch) = 1 /\ batch[1].tuple = x
          BY <2>1, <2>2, <2>4
        <5>2. "DELETE" \in Ops /\ now' = now
          BY <2>5 DEF Ops
        <5>3. \A j, k \in 1..Len(batch) : batch[j].tuple = batch[k].tuple => j = k
          BY <5>1
        <5>4. \A s : s \in LoggedLive(t)' <=>
                 /\ s \in LoggedLive(t)
                 /\ \A k \in 1..Len(batch) : batch[k].tuple # s.tuple
          BY <2>5, <5>2, <5>3, LoggedAfter
        <5>5. QED
          BY <5>1, <5>4
      <4>3. QED
        BY <3>2, <4>1, <4>2 DEF IInv, LiveMatchesLog
    <3>3. QED
      BY <3>1, <3>2
  <2>15. QED
    BY <2>10, <2>11, <2>12, <2>13, <2>14 DEF IInv
<1>4. QED
  BY <1>2, <1>3

-----------------------------------------------------------------------------
(* WriteTuples.                                                             *)

\* What a batch without duplicates does to the slice: every position keeps
\* its identity key, only expired tuples are replaced, every tuple of the
\* batch ends up stored, and an appended tuple has a key no position has.
LEMMA ReplacedProperties ==
    ASSUME IInv, NEW t \in Tenants, NEW batch \in Batches, ~HasDuplicate(t, batch),
           NEW i \in DOMAIN tuples[t]
    PROVE  /\ tupleIdentityKey(Replaced(t, batch)[i].tuple) = tupleIdentityKey(tuples[t][i].tuple)
           /\ \/ Replaced(t, batch)[i] = tuples[t][i]
              \/ /\ tupleIsExpiredAt(tuples[t][i], now)
                 /\ \E b \in DOMAIN batch : Replaced(t, batch)[i] = batch[b]
           /\ \A b \in DOMAIN batch : i \in expiredIndexes(t, batch[b].tuple)
                 => Replaced(t, batch)[i] = batch[b]
<1> DEFINE R(b) == i \in expiredIndexes(t, batch[b].tuple)
<1>1. CASE ~\E b \in DOMAIN batch : R(b)
  <2>1. Replaced(t, batch)[i] = tuples[t][i]
    BY <1>1 DEF Replaced
  <2>2. QED
    BY <1>1, <2>1
<1>2. CASE \E b \in DOMAIN batch : R(b)
  <2>1. PICK b \in DOMAIN batch : b = (CHOOSE c \in DOMAIN batch : R(c)) /\ R(b)
    BY <1>2
  <2>2. Replaced(t, batch)[i] = batch[b]
    BY <1>2, <2>1 DEF Replaced
  <2>3. \A c \in DOMAIN batch : R(c) => /\ tupleIsExpiredAt(tuples[t][i], now)
                                        /\ tupleIdentityKey(tuples[t][i].tuple) = tupleIdentityKey(batch[c].tuple)
    BY DEF expiredIndexes
  <2>4. \A c \in DOMAIN batch : R(c) => c = b
    BY <2>1, <2>3 DEF HasDuplicate
  <2>5. tupleIdentityKey(Replaced(t, batch)[i].tuple) = tupleIdentityKey(tuples[t][i].tuple)
    BY <2>1, <2>2, <2>3
  <2>6. /\ tupleIsExpiredAt(tuples[t][i], now)
        /\ \E c \in DOMAIN batch : Replaced(t, batch)[i] = batch[c]
    BY <2>1, <2>2, <2>3
  <2>7. \A c \in DOMAIN batch : R(c) => Replaced(t, batch)[i] = batch[c]
    BY <2>2, <2>4
  <2>8. QED
    BY <2>5, <2>6, <2>7
<1>3. QED
  BY <1>1, <1>2

\* A tuple that takes over no expired tuple has a key that no stored tuple has.
LEMMA NewPositionsProperties ==
    ASSUME IInv, NEW t \in Tenants, NEW batch \in Batches, ~HasDuplicate(t, batch),
           NEW b \in NewPositions(t, batch), NEW i \in DOMAIN tuples[t]
    PROVE  tupleIdentityKey(tuples[t][i].tuple) # tupleIdentityKey(batch[b].tuple)
<1> SUFFICES ASSUME tupleIdentityKey(tuples[t][i].tuple) = tupleIdentityKey(batch[b].tuple)
             PROVE  FALSE
  OBVIOUS
<1>1. b \in DOMAIN batch /\ expiredIndexes(t, batch[b].tuple) = {}
  BY DEF NewPositions
<1>2. DOMAIN tuples[t] = 1..Len(tuples[t]) /\ Len(tuples[t]) \in Nat
  BY DEF IInv, TypeOK
<1>3. CASE tupleIsExpiredAt(tuples[t][i], now)
  <2>1. \A j \in 1..(i - 1) : j \in DOMAIN tuples[t] /\ j # i
    BY <1>2
  <2>2. \A j \in 1..(i - 1) : tupleIdentityKey(tuples[t][j].tuple) # tupleIdentityKey(batch[b].tuple)
    BY <2>1 DEF IInv, UniqueIdentity
  <2>3. i \in expiredIndexes(t, batch[b].tuple)
    BY <1>3, <2>2 DEF expiredIndexes
  <2>4. QED
    BY <1>1, <2>3
<1>4. CASE ~tupleIsExpiredAt(tuples[t][i], now)
  <2>1. tuples[t][i] \in Live(tuples[t], now)
    BY <1>4 DEF Live
  <2>2. tupleIdentityKey(batch[b].tuple) \in existingKeys(t)
    BY <2>1 DEF existingKeys
  <2>3. QED
    BY <1>1, <2>2 DEF HasDuplicate
<1>5. QED
  BY <1>3, <1>4

\* What a batch appends is a sequence of its own tuples, each position once.
LEMMA AppendedType ==
    ASSUME NEW t \in Tenants, NEW batch \in Batches,
           NEW f \in Orderings(NewPositions(t, batch))
    PROVE  /\ Appended(batch, f) \in Seq(Stored)
           /\ DOMAIN f = 1..Len(Appended(batch, f))
           /\ \A k \in DOMAIN f : /\ f[k] \in NewPositions(t, batch)
                                  /\ Appended(batch, f)[k] = batch[f[k]]
           /\ \A b \in NewPositions(t, batch) : \E k \in DOMAIN f : Appended(batch, f)[k] = batch[b]
           /\ \A j, k \in DOMAIN f : f[j] = f[k] => j = k
<1> DEFINE P == NewPositions(t, batch)
<1>1. batch \in Seq(Stored) /\ DOMAIN batch = 1..Len(batch) /\ Len(batch) \in Nat
  BY BatchIsSeq
<1>2. P \subseteq 1..Len(batch)
  BY <1>1 DEF NewPositions
<1>3. Cardinality(P) \in Nat
  <2>1. IsFiniteSet(1..Len(batch))
    BY <1>1, FS_Interval
  <2>2. IsFiniteSet(P)
    BY <1>2, <2>1, FS_Subset
  <2>3. QED
    BY <2>2, FS_CardinalityType
<1>4. PICK c \in Nat : c = Cardinality(P)
  BY <1>3
<1>5. /\ f \in [1..c -> P]
      /\ \A m, n \in 1..c : m < n => f[m] < f[n]
      /\ \A b \in P : \E n \in 1..c : f[n] = b
  BY <1>4 DEF Orderings
<1> HIDE DEF P
<1>6. Appended(batch, f) = [n \in 1..c |-> batch[f[n]]]
  BY <1>5 DEF Appended
<1>7. \A n \in 1..c : batch[f[n]] \in Stored /\ f[n] \in Nat
  <2> SUFFICES ASSUME NEW n \in 1..c PROVE batch[f[n]] \in Stored /\ f[n] \in Nat
    OBVIOUS
  <2>1. f[n] \in 1..Len(batch)
    BY <1>2, <1>5
  <2>2. QED
    BY <1>1, <2>1
<1>8. Appended(batch, f) \in Seq(Stored) /\ Len(Appended(batch, f)) = c
  BY <1>6, <1>7
<1>9. \A j, k \in 1..c : f[j] = f[k] => j = k
  <2> SUFFICES ASSUME NEW j \in 1..c, NEW k \in 1..c, f[j] = f[k] PROVE j = k
    OBVIOUS
  <2>1. ~(j < k) /\ ~(k < j)
    BY <1>5, <1>7
  <2>2. QED
    BY <2>1
<1>10. QED
  BY <1>5, <1>6, <1>8, <1>9 DEF P

\* WriteTuples: the whole batch is stored and logged, or nothing is.
LEMMA WriteTuplesIInv ==
    ASSUME IInv, NEW t \in Tenants, NEW batch \in Batches, WriteTuples(t, batch)
    PROVE  IInv'
<1>1. checkTenantWritable(t) \in Replies
  BY DEF IInv, TypeOK, checkTenantWritable, Replies, Statuses
<1>2. CASE checkTenantWritable(t) # "ok" \/ HasDuplicate(t, batch)
  BY <1>1, <1>2, RefuseIInv DEF WriteTuples, Replies
<1>3. CASE checkTenantWritable(t) = "ok" /\ ~HasDuplicate(t, batch)
  <2>1. /\ CommitBatch(t, batch)
        /\ reply' = "ok"
        /\ UNCHANGED <<tenants, now>>
    BY <1>3 DEF WriteTuples
  <2>2. PICK f \in Orderings(NewPositions(t, batch)) :
          tuples' = [tuples EXCEPT ![t] = Replaced(t, batch) \o Appended(batch, f)]
    BY <2>1 DEF CommitBatch
  <2>3. /\ appendTupleChangelog(t, "INSERT", "api", batch)
        /\ UNCHANGED <<tupleMaps, objAttrs, subAttrs>>
    BY <2>1 DEF CommitBatch
  <2>4. PICK old \in Seq(Stored), rep \in Seq(Stored), app \in Seq(Stored) :
          old = tuples[t] /\ rep = Replaced(t, batch) /\ app = Appended(batch, f)
    BY ReplacedType, AppendedType DEF IInv, TypeOK
  <2>5. PICK n \in Nat, c \in Nat : n = Len(old) /\ c = Len(app)
    OBVIOUS
  <2>6. PICK new \in Seq(Stored) : new = rep \o app
    <3>1. rep \o app \in Seq(Stored)
      OBVIOUS
    <3>2. QED
      BY <3>1
  <2>7. batch \in Seq(Stored) /\ DOMAIN batch = 1..Len(batch) /\ Len(batch) \in Nat
    BY BatchIsSeq
  <2>8. /\ DOMAIN old = 1..n /\ DOMAIN new = 1..(n + c) /\ DOMAIN f = 1..c
        /\ \A i \in 1..n : new[i] = rep[i]
        /\ \A k \in 1..c : new[n + k] = app[k]
    <3>1. Len(rep) = n
      BY <2>4, <2>5, ReplacedType DEF IInv
    <3>2. DOMAIN f = 1..c
      BY <2>4, <2>5, AppendedType
    <3>3. DOMAIN old = 1..n
      BY <2>5
    <3>4. /\ DOMAIN (rep \o app) = 1..(Len(rep) + Len(app))
          /\ \A i \in 1..Len(rep) : (rep \o app)[i] = rep[i]
          /\ \A k \in 1..Len(app) : (rep \o app)[Len(rep) + k] = app[k]
      BY ConcatElements
    <3>5. /\ DOMAIN new = 1..(n + c)
          /\ \A i \in 1..n : new[i] = rep[i]
          /\ \A k \in 1..c : new[n + k] = app[k]
      BY <2>5, <2>6, <3>1, <3>4, Zenon
    <3>6. QED
      BY <3>2, <3>3, <3>4, <3>5
  <2>9. ASSUME NEW i \in 1..n
        PROVE  /\ tupleIdentityKey(rep[i].tuple) = tupleIdentityKey(old[i].tuple)
               /\ \/ rep[i] = old[i]
                  \/ /\ tupleIsExpiredAt(old[i], now)
                     /\ \E b \in DOMAIN batch : rep[i] = batch[b]
               /\ \A b \in DOMAIN batch : i \in expiredIndexes(t, batch[b].tuple) => rep[i] = batch[b]
    BY <1>3, <2>4, <2>8, ReplacedProperties
  <2>10. ASSUME NEW k \in 1..c
         PROVE  f[k] \in NewPositions(t, batch) /\ app[k] = batch[f[k]]
    BY <2>4, <2>8, AppendedType
  <2>11. \A b \in NewPositions(t, batch) : \E k \in 1..c : app[k] = batch[b]
    BY <2>4, <2>8, AppendedType
  <2>12. \A j, k \in 1..c : f[j] = f[k] => j = k
    BY <2>8, AppendedType
  <2>13. ASSUME NEW k \in 1..c, NEW i \in 1..n
         PROVE  tupleIdentityKey(app[k].tuple) # tupleIdentityKey(old[i].tuple)
    BY <1>3, <2>4, <2>8, <2>10, NewPositionsProperties
  <2>14. \A a, b \in DOMAIN batch :
            tupleIdentityKey(batch[a].tuple) = tupleIdentityKey(batch[b].tuple) => a = b
    BY <1>3 DEF HasDuplicate
  <2>15. \A i \in 1..(n + c) : i \in 1..n \/ \E k \in 1..c : i = n + k
    <3> TAKE i \in 1..(n + c)
    <3>1. CASE i <= n
      BY <3>1
    <3>2. CASE i > n
      <4>1. i - n \in 1..c /\ i = n + (i - n)
        BY <3>2
      <4>2. QED
        BY <4>1
    <3>3. QED
      BY <3>1, <3>2
  <2>16. /\ tuples' \in [Tenants -> Seq(Stored)]
         /\ tuples'[t] = new
         /\ \A u \in Tenants \ {t} : tuples'[u] = tuples[u]
    BY <2>2, <2>4, <2>6 DEF IInv, TypeOK
  <2>17. /\ changelog' \in [Tenants -> Seq(Entry)]
         /\ seqCounter' \in [Tenants -> Nat]
         /\ SequenceContiguous'
         /\ \A u \in Tenants \ {t} : changelog'[u] = changelog[u]
    <3>1. "INSERT" \in Ops /\ "api" \in Sources
      BY DEF Ops, Sources
    <3>2. QED
      BY <2>3, <2>7, <3>1, AppendEffect
  <2>18. TypeOK'
    BY <2>1, <2>3, <2>16, <2>17 DEF IInv, TypeOK, Replies
  <2>19. MapsInitialised'
    BY <2>1, <2>3 DEF IInv, MapsInitialised
  <2>20. UniqueIdentity'
    <3> SUFFICES ASSUME NEW u \in Tenants, NEW i \in DOMAIN tuples'[u], NEW j \in DOMAIN tuples'[u],
                        tupleIdentityKey(tuples'[u][i].tuple) = tupleIdentityKey(tuples'[u][j].tuple)
                 PROVE  i = j
      BY DEF UniqueIdentity, tupleIdentityKey
    <3>1. CASE u # t
      BY <2>16, <3>1 DEF IInv, UniqueIdentity
    <3>2. CASE u = t
      <4>1. i \in 1..(n + c) /\ j \in 1..(n + c)
        BY <2>8, <2>16, <3>2
      <4>2. tupleIdentityKey(new[i].tuple) = tupleIdentityKey(new[j].tuple)
        BY <2>16, <3>2
      <4>3. \A m \in 1..n : tupleIdentityKey(new[m].tuple) = tupleIdentityKey(old[m].tuple)
        BY <2>8, <2>9
      <4>4. \A m \in 1..n, k \in 1..c :
               tupleIdentityKey(new[m].tuple) # tupleIdentityKey(new[n + k].tuple)
        BY <2>8, <2>13, <4>3
      <4>5. \A k, l \in 1..c :
               tupleIdentityKey(new[n + k].tuple) = tupleIdentityKey(new[n + l].tuple) => k = l
        <5> SUFFICES ASSUME NEW k \in 1..c, NEW l \in 1..c,
                            tupleIdentityKey(new[n + k].tuple) = tupleIdentityKey(new[n + l].tuple)
                     PROVE  k = l
          OBVIOUS
        <5>1. f[k] \in DOMAIN batch /\ f[l] \in DOMAIN batch
          BY <2>10 DEF NewPositions
        <5>2. new[n + k] = batch[f[k]] /\ new[n + l] = batch[f[l]]
          BY <2>8, <2>10
        <5>3. f[k] = f[l]
          BY <2>14, <5>1, <5>2
        <5>4. QED
          BY <2>12, <5>3
      <4>6. \A m, l \in 1..n :
               tupleIdentityKey(new[m].tuple) = tupleIdentityKey(new[l].tuple) => m = l
        <5>1. \A m, l \in DOMAIN tuples[t] :
                 tupleIdentityKey(tuples[t][m].tuple) = tupleIdentityKey(tuples[t][l].tuple)
                    => m = l
          BY DEF IInv, UniqueIdentity
        <5>2. \A m, l \in 1..n :
                 tupleIdentityKey(old[m].tuple) = tupleIdentityKey(old[l].tuple) => m = l
          BY <2>4, <2>8, <5>1, Zenon
        <5>3. QED
          BY <4>3, <5>2, Zenon
      <4>7. CASE i \in 1..n
        BY <2>15, <4>1, <4>2, <4>4, <4>6, <4>7
      <4>8. CASE \E k \in 1..c : i = n + k
        BY <2>15, <4>1, <4>2, <4>4, <4>5, <4>8
      <4>9. QED
        BY <2>15, <4>1, <4>7, <4>8
    <3>3. QED
      BY <3>1, <3>2
  <2>21. LiveMatchesLog'
    <3> SUFFICES ASSUME NEW u \in Tenants PROVE Live(tuples[u], now)' = LoggedLive(u)'
      BY DEF LiveMatchesLog
    <3>1. CASE u # t
      BY <2>1, <2>16, <2>17, <3>1, Untouched DEF IInv, LiveMatchesLog
    <3>2. CASE u = t
      <4>1. \A s : s \in Live(tuples[t], now)' <=>
               \E i \in 1..(n + c) : s = new[i] /\ ~tupleIsExpiredAt(s, now)
        BY <2>1, <2>8, <2>16 DEF Live, tupleIsExpiredAt
      <4>2. \A s : s \in Live(tuples[t], now) <=>
               \E i \in 1..n : s = old[i] /\ ~tupleIsExpiredAt(s, now)
        BY <2>4, <2>8 DEF Live
      <4>3. ASSUME NEW b \in DOMAIN batch PROVE \E i \in 1..(n + c) : new[i] = batch[b]
        <5>1. CASE b \in NewPositions(t, batch)
          <6>1. PICK k \in 1..c : app[k] = batch[b]
            BY <2>11, <5>1
          <6>2. n + k \in 1..(n + c) /\ new[n + k] = batch[b]
            BY <2>8, <6>1
          <6>3. QED
            BY <6>2
        <5>2. CASE b \notin NewPositions(t, batch)
          <6>1. PICK i \in DOMAIN tuples[t] : i \in expiredIndexes(t, batch[b].tuple)
            BY <5>2 DEF NewPositions, expiredIndexes
          <6>2. i \in 1..n /\ i \in 1..(n + c)
            BY <2>4, <2>8, <6>1
          <6>3. new[i] = batch[b]
            BY <2>8, <2>9, <6>1, <6>2
          <6>4. QED
            BY <6>2, <6>3
        <5>3. QED
          BY <5>1, <5>2
      <4>4. \A i \in 1..(n + c) :
               \/ i \in 1..n /\ new[i] = old[i]
               \/ \E b \in DOMAIN batch : new[i] = batch[b]
        <5> TAKE i \in 1..(n + c)
        <5>1. CASE i \in 1..n
          BY <2>8, <2>9, <5>1
        <5>2. CASE \E k \in 1..c : i = n + k
          <6>1. PICK k \in 1..c : i = n + k
            BY <5>2
          <6>2. f[k] \in DOMAIN batch /\ new[i] = batch[f[k]]
            BY <2>8, <2>10, <6>1 DEF NewPositions
          <6>3. QED
            BY <6>2
        <5>3. QED
          BY <2>15, <5>1, <5>2
      <4>5. \A i \in 1..n : ~tupleIsExpiredAt(old[i], now) => i \in 1..(n + c) /\ new[i] = old[i]
        BY <2>8, <2>9
      <4>6. \A s : s \in Live(tuples[t], now)' <=>
               \/ s \in Live(tuples[t], now)
               \/ ~tupleIsExpiredAt(s, now) /\ \E b \in DOMAIN batch : s = batch[b]
        <5> TAKE s
        <5>1. ASSUME s \in Live(tuples[t], now)'
              PROVE  \/ s \in Live(tuples[t], now)
                     \/ ~tupleIsExpiredAt(s, now) /\ \E b \in DOMAIN batch : s = batch[b]
          BY <4>1, <4>2, <4>4, <5>1
        <5>2. ASSUME s \in Live(tuples[t], now) PROVE s \in Live(tuples[t], now)'
          BY <4>1, <4>2, <4>5, <5>2
        <5>3. ASSUME ~tupleIsExpiredAt(s, now), NEW b \in DOMAIN batch, s = batch[b]
              PROVE  s \in Live(tuples[t], now)'
          BY <4>1, <4>3, <5>3
        <5>4. QED
          BY <5>1, <5>2, <5>3
      <4>7. \A j, k \in 1..Len(batch) : batch[j].tuple = batch[k].tuple => j = k
        BY <2>7, <2>14
      <4>8. \A s : s \in LoggedLive(t)' <=>
               \/ /\ s \in LoggedLive(t)
                  /\ \A k \in 1..Len(batch) : batch[k].tuple # s.tuple
               \/ /\ ~tupleIsExpiredAt(s, now)
                  /\ \E k \in 1..Len(batch) : s = batch[k]
        <5>1. PICK op \in Ops : op = "INSERT"
          BY DEF Ops
        <5>2. appendTupleChangelog(t, op, "api", batch) /\ now' = now
          BY <2>1, <2>3, <5>1
        <5>3. \A s : s \in LoggedLive(t)' <=>
                 \/ /\ s \in LoggedLive(t)
                    /\ \A k \in 1..Len(batch) : batch[k].tuple # s.tuple
                 \/ /\ op = "INSERT"
                    /\ ~tupleIsExpiredAt(s, now)
                    /\ \E k \in 1..Len(batch) : s = batch[k]
          BY <2>7, <4>7, <5>2, LoggedAfter
        <5>4. QED
          BY <5>1, <5>3
      <4>9. \A s \in LoggedLive(t) : \A k \in 1..Len(batch) : batch[k].tuple # s.tuple
        <5>1. LoggedLive(t) = Live(tuples[t], now)
          BY DEF IInv, LiveMatchesLog
        <5>2. \A s \in Live(tuples[t], now) : tupleIdentityKey(s.tuple) \in existingKeys(t)
          BY DEF existingKeys
        <5>3. \A k \in 1..Len(batch) : tupleIdentityKey(batch[k].tuple) \notin existingKeys(t)
          BY <1>3, <2>7 DEF HasDuplicate
        <5>4. QED
          BY <5>1, <5>2, <5>3
      <4>10. LoggedLive(t) = Live(tuples[t], now)
        BY DEF IInv, LiveMatchesLog
      <4>11. \A s : s \in LoggedLive(t)' <=> s \in Live(tuples[t], now)'
        BY <2>7, <4>6, <4>8, <4>9, <4>10
      <4>12. LoggedLive(t)' = Live(tuples[t], now)'
        BY <4>11, Zenon
      <4>13. QED
        BY <3>2, <4>12
    <3>3. QED
      BY <3>1, <3>2
  <2>22. QED
    BY <2>17, <2>18, <2>19, <2>20, <2>21 DEF IInv
<1>4. QED
  BY <1>2, <1>3

-----------------------------------------------------------------------------
(* The theorems.                                                            *)

\* Every step of the store keeps the invariant.
LEMMA NextIInv == IInv /\ [Next]_vars => IInv'
<1> SUFFICES ASSUME IInv, [Next]_vars PROVE IInv'
  OBVIOUS
<1>1. CASE \E t \in Tenants, status \in Statuses : CreateTenant(t, status)
  BY <1>1, CreateTenantIInv
<1>2. CASE \E t \in Tenants, status \in Statuses : UpdateTenant(t, status)
  BY <1>2, UpdateTenantIInv
<1>3. CASE \E t \in Tenants, batch \in Batches : WriteTuples(t, batch)
  BY <1>3, WriteTuplesIInv
<1>4. CASE \E t \in Tenants, x \in Tuples : DeleteTuple(t, x)
  BY <1>4, DeleteTupleIInv
<1>5. CASE \E t \in Tenants, k \in AttrKeys, a \in Attrs : SetObjectAttributes(t, k, a)
  BY <1>5, SetObjectAttributesIInv
<1>6. CASE \E t \in Tenants, k \in AttrKeys, a \in Attrs : SetSubjectAttributes(t, k, a)
  BY <1>6, SetSubjectAttributesIInv
<1>7. CASE \E t \in Tenants, e \in External : AppendChangelog(t, e)
  BY <1>7, AppendChangelogIInv
<1>8. CASE \E t \in Tenants : PurgeTenantData(t)
  BY <1>8, PurgeTenantDataIInv
<1>9. CASE Tick
  BY <1>9, TickIInv
<1>10. CASE UNCHANGED vars
  <2>1. TypeOK' /\ MapsInitialised' /\ UniqueIdentity' /\ SequenceContiguous'
    BY <1>10 DEF IInv, TypeOK, MapsInitialised, UniqueIdentity, SequenceContiguous, vars, data
  <2>2. LiveMatchesLog'
    BY <1>10, Untouched DEF IInv, LiveMatchesLog, vars, data
  <2>3. QED
    BY <2>1, <2>2 DEF IInv
<1>11. QED
  BY <1>1, <1>2, <1>3, <1>4, <1>5, <1>6, <1>7, <1>8, <1>9, <1>10 DEF Next

\* The strengthened invariant holds in every state the store can reach.
THEOREM InductiveInvariant == Spec => []IInv
<1>1. Init => IInv
  BY InitIInv
<1>2. IInv /\ [Next]_vars => IInv'
  BY NextIInv
<1>3. QED
  BY <1>1, <1>2, PTL DEF Spec

\* Type correctness of the in-memory store.
THEOREM TypeCorrect == Spec => []TypeOK
<1>1. IInv => TypeOK
  BY DEF IInv
<1>2. QED
  BY <1>1, InductiveInvariant, PTL

\* No two tuples of a tenant share an identity key, whatever the map from
\* tuples to keys: writeTuplesLocked checks and replaces by key.
THEOREM IdentityIsUnique == Spec => []UniqueIdentity
<1>1. IInv => UniqueIdentity
  BY DEF IInv
<1>2. QED
  BY <1>1, InductiveInvariant, PTL

\* Numbers that follow the positions of the log make every page a stretch of
\* the log that begins with the first newer entry.
LEMMA PagesAreStretches ==
    ASSUME TypeOK, SequenceContiguous, NEW t \in Tenants, NEW since \in Nat, NEW limit \in Nat,
           NEW j \in DOMAIN changelog[t], changelog[t][j].seq > since
    PROVE  /\ \A i \in ReadChangelog(t, since, limit) :
                 j \notin ReadChangelog(t, since, limit)
                     => changelog[t][i].seq < changelog[t][j].seq
           /\ ReadChangelog(t, since, limit) # {}
<1> DEFINE Newer(i) == {k \in 1..i : changelog[t][k].seq > since}
<1>1. /\ DOMAIN changelog[t] = 1..Len(changelog[t]) /\ Len(changelog[t]) \in Nat
      /\ \A i \in DOMAIN changelog[t] : changelog[t][i].seq = i
  BY DEF TypeOK, SequenceContiguous
<1>2. \A i \in DOMAIN changelog[t] : IsFiniteSet(Newer(i)) /\ Cardinality(Newer(i)) \in Nat
  <2> SUFFICES ASSUME NEW i \in DOMAIN changelog[t]
               PROVE  IsFiniteSet(Newer(i)) /\ Cardinality(Newer(i)) \in Nat
    OBVIOUS
  <2>1. IsFiniteSet(1..i) /\ Newer(i) \subseteq 1..i
    BY <1>1, FS_Interval
  <2>2. QED BY <2>1, FS_Subset, FS_CardinalityType
<1>3. ASSUME NEW i \in ReadChangelog(t, since, limit), j \notin ReadChangelog(t, since, limit)
      PROVE  changelog[t][i].seq < changelog[t][j].seq
  <2>1. i \in DOMAIN changelog[t] /\ (limit > 0 => Cardinality(Newer(i)) <= limit)
    BY <1>3 DEF ReadChangelog
  <2>2. limit > 0 /\ ~(Cardinality(Newer(j)) <= limit)
    BY <1>3 DEF ReadChangelog
  <2>3. ASSUME j <= i PROVE FALSE
    <3>1. Newer(j) \subseteq Newer(i)
      BY <1>1, <2>1, <2>3
    <3>2. Cardinality(Newer(j)) <= Cardinality(Newer(i))
      BY <1>2, <2>1, <3>1, FS_Subset
    <3> HIDE DEF Newer
    <3>3. QED BY <1>2, <2>1, <2>2, <3>2
  <2>4. QED BY <1>1, <2>1, <2>3
<1>4. ReadChangelog(t, since, limit) # {}
  <2> DEFINE k == since + 1
  <2>1. k \in DOMAIN changelog[t] /\ changelog[t][k].seq > since
    BY <1>1
  <2>2. Newer(k) = {k}
    BY <1>1, <2>1
  <2>3. Cardinality(Newer(k)) = 1
    BY <2>2, FS_Singleton
  <2>4. k \in ReadChangelog(t, since, limit)
    BY <2>1, <2>3 DEF ReadChangelog
  <2>5. QED BY <2>4
<1>5. QED BY <1>3, <1>4

\* A reader of the changelog can read on from any page, whatever its limit:
\* appendTupleChangelogUnsafe numbers the entries in the order in which
\* ReadChangelog returns them, and the counter is never behind the log.
THEOREM ReadersMissNoEntry == Spec => []PagesLeaveNothingBehind
<1>1. IInv => PagesLeaveNothingBehind
  <2> SUFFICES ASSUME IInv, NEW t \in Tenants, NEW since \in 0..MaxLog, NEW limit \in 0..MaxLog,
                      NEW j \in DOMAIN changelog[t], changelog[t][j].seq > since
               PROVE  /\ \A i \in ReadChangelog(t, since, limit) :
                            j \notin ReadChangelog(t, since, limit)
                                => changelog[t][i].seq < changelog[t][j].seq
                      /\ ReadChangelog(t, since, limit) # {}
                      /\ changelog[t][j].seq <= LatestSequence(t)
    BY DEF PagesLeaveNothingBehind
  <2>1. since \in Nat /\ limit \in Nat
    BY ConstantsAssumption
  <2>2. changelog[t][j].seq <= LatestSequence(t)
    BY DEF IInv, TypeOK, SequenceContiguous, LatestSequence
  <2>3. QED BY <2>1, <2>2, PagesAreStretches DEF IInv
<1>2. QED
  BY <1>1, InductiveInvariant, PTL

\* The changelog replays to the tuples in force.
THEOREM LogReplaysToStore == Spec => []LiveMatchesLog
<1>1. IInv => LiveMatchesLog
  BY DEF IInv
<1>2. QED
  BY <1>1, InductiveInvariant, PTL

\* No attribute write of a known tenant meets a nil map.
THEOREM AttributeWritesNeverPanic == Spec => []AttributeMapsReady
<1>1. IInv => AttributeMapsReady
  BY DEF IInv, MapsInitialised, AttributeMapsReady
<1>2. QED
  BY <1>1, InductiveInvariant, PTL

-----------------------------------------------------------------------------
(* Refinement: the in-memory store implements the abstract one.             *)

(* What a step does to the grants in force.                                 *)

Grants(t) == Live(tuples[t], now)

\* Nothing happens to the grants of the tenants in T.
Kept(T) == now' = now /\ \A u \in T : Grants(u)' = Grants(u)

\* A batch without a duplicate is stored and logged as a whole...
BatchStored(t, batch) ==
    /\ tenants[t] = "active"
    /\ Kept(Tenants \ {t})
    /\ \A g \in Grants(t), k \in DOMAIN batch : KeyOf[g.tuple] # KeyOf[batch[k].tuple]
    /\ \A j, k \in DOMAIN batch : KeyOf[batch[j].tuple] = KeyOf[batch[k].tuple] => j = k
    /\ \A s : s \in Grants(t)' <=>
          \/ s \in Grants(t)
          \/ ~tupleIsExpiredAt(s, now) /\ \E k \in DOMAIN batch : s = batch[k]
    /\ \A k \in DOMAIN batch : NewEntry(t, "INSERT", batch[k])

\* ...one grant goes, in force or not, and its removal is logged...
GrantRemoved(t, g) ==
    /\ tenants[t] = "active"
    /\ Kept(Tenants \ {t})
    /\ Grants(t)' = Grants(t) \ {g}
    /\ NewEntry(t, "DELETE", g)

\* ...a tenant loses its grants with its changelog...
TenantEmptied(t) ==
    /\ Kept(Tenants \ {t})
    /\ Grants(t)' = {} /\ changelog'[t] = <<>>

\* ...or time passes.
TimePassed ==
    /\ now' > now
    /\ \A t \in Tenants : Grants(t)' = {g \in Grants(t) : ~tupleIsExpiredAt(g, now')}

\* A step that leaves the tuples of some tenants and the time leaves their
\* grants.
LEMMA SameTuples ==
    ASSUME NEW T, now' = now, \A u \in T : tuples'[u] = tuples[u]
    PROVE  Kept(T)
BY DEF Kept, Grants

\* What checkTenantWritable lets through.
LEMMA WritableIsActive ==
    ASSUME TypeOK, NEW t \in Tenants, checkTenantWritable(t) = "ok"
    PROVE  tenants[t] = "active"
BY DEF TypeOK, checkTenantWritable, Statuses

\* The changelog and the grants in force agree, so that the entries of a
\* batch say what becomes of the grants.
LEMMA WriteStep ==
    ASSUME IInv, IInv', NEW t \in Tenants, NEW batch \in Batches, WriteTuples(t, batch)
    PROVE  Kept(Tenants) \/ BatchStored(t, batch)
<1>1. CASE checkTenantWritable(t) # "ok" \/ HasDuplicate(t, batch)
  <2>1. UNCHANGED <<tuples, now>>
    BY <1>1 DEF WriteTuples, Refuse, data
  <2>2. QED BY <2>1, SameTuples
<1>2. CASE checkTenantWritable(t) = "ok" /\ ~HasDuplicate(t, batch)
  <2>1. /\ appendTupleChangelog(t, "INSERT", "api", batch) /\ now' = now
        /\ tenants[t] = "active" /\ TypeOK
    BY <1>2, WritableIsActive DEF WriteTuples, CommitBatch, IInv
  <2>2. batch \in Seq(Stored) /\ DOMAIN batch = 1..Len(batch) /\ Len(batch) \in Nat
    BY BatchIsSeq
  <2>3. Kept(Tenants \ {t})
    <3>1. \A u \in Tenants \ {t} : tuples'[u] = tuples[u]
      BY <1>2, <2>1 DEF WriteTuples, CommitBatch, TypeOK
    <3>2. QED BY <2>1, <3>1, SameTuples
  <2>4. \A g \in Grants(t), k \in DOMAIN batch : KeyOf[g.tuple] # KeyOf[batch[k].tuple]
    BY <1>2 DEF HasDuplicate, existingKeys, tupleIdentityKey, Grants
  <2>5. \A j, k \in DOMAIN batch : KeyOf[batch[j].tuple] = KeyOf[batch[k].tuple] => j = k
    BY <1>2 DEF HasDuplicate, tupleIdentityKey
  <2>6. "INSERT" \in Ops /\ "api" \in Sources
    BY DEF Ops, Sources
  <2>7. \A s : s \in LoggedLive(t)' <=>
           \/ /\ s \in LoggedLive(t)
              /\ \A k \in 1..Len(batch) : batch[k].tuple # s.tuple
           \/ ~tupleIsExpiredAt(s, now) /\ \E k \in 1..Len(batch) : s = batch[k]
    <3>1. \A j, k \in 1..Len(batch) : batch[j].tuple = batch[k].tuple => j = k
      BY <2>2, <2>5
    <3>2. PICK op \in Ops : op = "INSERT"
      BY <2>6
    <3>3. appendTupleChangelog(t, op, "api", batch)
      BY <2>1, <3>2
    <3>4. \A s : s \in LoggedLive(t)' <=>
             \/ /\ s \in LoggedLive(t)
                /\ \A k \in 1..Len(batch) : batch[k].tuple # s.tuple
             \/ /\ op = "INSERT"
                /\ ~tupleIsExpiredAt(s, now)
                /\ \E k \in 1..Len(batch) : s = batch[k]
      BY <2>1, <2>2, <3>1, <3>3, LoggedAfter
    <3>5. QED BY <3>2, <3>4
  <2>8. LoggedLive(t) = Grants(t) /\ LoggedLive(t)' = Grants(t)'
    BY DEF IInv, LiveMatchesLog, Grants
  <2>9. \A s : s \in Grants(t)' <=>
           \/ s \in Grants(t)
           \/ ~tupleIsExpiredAt(s, now) /\ \E k \in DOMAIN batch : s = batch[k]
    <3>1. \A s \in Grants(t) : \A k \in 1..Len(batch) : batch[k].tuple # s.tuple
      BY <2>2, <2>4
    <3>2. QED BY <2>2, <2>7, <2>8, <3>1
  <2>10. ASSUME NEW k \in DOMAIN batch
         PROVE  NewEntry(t, "INSERT", batch[k])
    <3>1. /\ Len(changelog'[t]) = Len(changelog[t]) + Len(batch)
          /\ changelog'[t][Len(changelog[t]) + k].op = "INSERT"
          /\ changelog'[t][Len(changelog[t]) + k].stored = batch[k]
      BY <2>1, <2>2, <2>6, AppendEffect
    <3>2. Len(changelog[t]) \in Nat
      BY <2>1 DEF TypeOK
    <3>3. Len(changelog[t]) + k \in (Len(changelog[t]) + 1)..Len(changelog'[t])
      BY <2>2, <3>1, <3>2
    <3>4. QED BY <3>1, <3>3 DEF NewEntry
  <2>11. QED BY <2>1, <2>3, <2>4, <2>5, <2>9, <2>10 DEF BatchStored
<1>3. QED BY <1>1, <1>2

\* A delete removes the one grant with its tuple.
LEMMA DeleteStep ==
    ASSUME IInv, IInv', NEW t \in Tenants, NEW x \in Tuples, DeleteTuple(t, x)
    PROVE  Kept(Tenants) \/ \E g \in Stored : GrantRemoved(t, g)
<1>1. CASE checkTenantWritable(t) # "ok" \/ ~\E i \in DOMAIN tuples[t] : tuples[t][i].tuple = x
  <2>1. UNCHANGED <<tuples, now>>
    BY <1>1 DEF DeleteTuple, Refuse, data
  <2>2. QED BY <2>1, SameTuples
<1>2. CASE checkTenantWritable(t) = "ok" /\ \E i \in DOMAIN tuples[t] : tuples[t][i].tuple = x
  <2>1. PICK i \in DOMAIN tuples[t] :
          /\ i = Position(t, x)
          /\ tuples[t][i].tuple = x
          /\ \A j \in DOMAIN tuples[t] \ {i} : tuples[t][j].tuple # x
    BY <1>2, PositionUnique
  <2>2. PICK g \in Stored : g = tuples[t][i]
    BY <2>1 DEF IInv, TypeOK
  <2>3. PICK batch \in Seq(Stored) : batch = <<g>>
    <3>1. <<g>> \in Seq(Stored)
      OBVIOUS
    <3>2. QED BY <3>1
  <2>4. Len(batch) = 1 /\ batch[1] = g
    BY <2>3
  <2>5. /\ appendTupleChangelog(t, "DELETE", "api", batch) /\ now' = now
        /\ tenants[t] = "active" /\ TypeOK
        /\ tuples' = [tuples EXCEPT ![t] = Without(@, i)]
    BY <1>2, <2>1, <2>2, <2>3, WritableIsActive DEF DeleteTuple, RemoveTuple, IInv
  <2>6. Kept(Tenants \ {t})
    <3>1. \A u \in Tenants \ {t} : tuples'[u] = tuples[u]
      BY <2>5 DEF TypeOK
    <3>2. QED BY <2>5, <3>1, SameTuples
  <2>7. PICK op \in Ops : op = "DELETE"
    BY DEF Ops
  <2>8. \A s : s \in LoggedLive(t)' <=> s \in LoggedLive(t) /\ s.tuple # g.tuple
    <3>1. appendTupleChangelog(t, op, "api", batch)
      BY <2>5, <2>7
    <3>2. \A j, k \in 1..Len(batch) : batch[j].tuple = batch[k].tuple => j = k
      BY <2>4
    <3>3. \A s : s \in LoggedLive(t)' <=>
             \/ /\ s \in LoggedLive(t)
                /\ \A k \in 1..Len(batch) : batch[k].tuple # s.tuple
             \/ /\ op = "INSERT"
                /\ ~tupleIsExpiredAt(s, now)
                /\ \E k \in 1..Len(batch) : s = batch[k]
      BY <2>5, <3>1, <3>2, LoggedAfter
    <3>4. \A s : (\A k \in 1..Len(batch) : batch[k].tuple # s.tuple) <=> s.tuple # g.tuple
      BY <2>4
    <3>5. QED BY <2>7, <3>3, <3>4
  <2>9. \A s \in Grants(t) : s.tuple = g.tuple => s = g
    BY <2>1, <2>2 DEF Grants, Live
  <2>10. Grants(t)' = Grants(t) \ {g}
    <3>1. LoggedLive(t) = Grants(t) /\ LoggedLive(t)' = Grants(t)'
      BY DEF IInv, LiveMatchesLog, Grants
    <3>2. QED BY <2>8, <2>9, <3>1
  <2>11. NewEntry(t, "DELETE", g)
    <3>1. /\ Len(changelog'[t]) = Len(changelog[t]) + Len(batch)
          /\ changelog'[t][Len(changelog[t]) + 1].op = op
          /\ changelog'[t][Len(changelog[t]) + 1].stored = batch[1]
      <4>1. "api" \in Sources /\ 1 \in 1..Len(batch) /\ appendTupleChangelog(t, op, "api", batch)
        BY <2>4, <2>5, <2>7 DEF Sources
      <4>2. QED BY <4>1, AppendEffect
    <3>2. Len(changelog[t]) \in Nat
      BY <2>5 DEF TypeOK
    <3>3. Len(changelog[t]) + 1 \in (Len(changelog[t]) + 1)..Len(changelog'[t])
      BY <2>4, <3>1, <3>2
    <3>4. QED BY <2>4, <2>7, <3>1, <3>3 DEF NewEntry
  <2>12. GrantRemoved(t, g)
    BY <2>5, <2>6, <2>10, <2>11 DEF GrantRemoved
  <2>13. QED BY <2>12
<1>3. QED BY <1>1, <1>2

\* A new tenant starts without grants; one that was purged before it was
\* created has none already.
LEMMA CreateStep ==
    ASSUME IInv, NEW t \in Tenants, NEW status \in Statuses, CreateTenant(t, status)
    PROVE  Kept(Tenants) \/ TenantEmptied(t)
<1>1. CASE UNCHANGED <<tuples, now>>
  BY <1>1, SameTuples
<1>2. CASE /\ tuples' = [tuples EXCEPT ![t] = <<>>] /\ changelog' = [changelog EXCEPT ![t] = <<>>]
           /\ now' = now
  <2>1. /\ tuples'[t] = <<>> /\ changelog'[t] = <<>>
        /\ \A u \in Tenants \ {t} : tuples'[u] = tuples[u]
    BY <1>2 DEF IInv, TypeOK
  <2>2. Kept(Tenants \ {t})
    BY <1>2, <2>1, SameTuples
  <2>3. Grants(t)' = {}
    BY <2>1 DEF Grants, Live
  <2>4. QED BY <2>1, <2>2, <2>3 DEF TenantEmptied
<1>3. QED BY <1>1, <1>2 DEF CreateTenant, Refuse, initTenant, data

\* A purge empties the tenant at once, whatever its status.
LEMMA PurgeStep ==
    ASSUME IInv, NEW t \in Tenants, PurgeTenantData(t)
    PROVE  TenantEmptied(t)
<1>1. /\ tuples'[t] = <<>> /\ changelog'[t] = <<>> /\ now' = now
      /\ \A u \in Tenants \ {t} : tuples'[u] = tuples[u]
  BY DEF PurgeTenantData, IInv, TypeOK
<1>2. Kept(Tenants \ {t})
  BY <1>1, SameTuples
<1>3. Grants(t)' = {}
  BY <1>1 DEF Grants, Live
<1>4. QED BY <1>1, <1>2, <1>3 DEF TenantEmptied

\* Time only takes grants, those whose deadlines it reaches.
LEMMA TickStep ==
    ASSUME IInv, Tick
    PROVE  TimePassed
<1>1. now \in Nat /\ now' = now + 1 /\ tuples' = tuples
  BY DEF IInv, TypeOK, Tick, data
<1>2. \A s \in Stored : ~tupleIsExpiredAt(s, now + 1) => ~tupleIsExpiredAt(s, now)
  <2> SUFFICES ASSUME NEW s \in Stored, s.expires # Never, s.expires <= now
               PROVE  s.expires <= now + 1
    BY DEF tupleIsExpiredAt
  <2>1. s.expires \in Nat
    BY ConstantsAssumption DEF Stored
  <2>2. QED BY <1>1, <2>1
<1>3. ASSUME NEW t \in Tenants
      PROVE  Grants(t)' = {g \in Grants(t) : ~tupleIsExpiredAt(g, now')}
  <2>1. \A i \in DOMAIN tuples[t] : tuples[t][i] \in Stored
    BY DEF IInv, TypeOK
  <2>2. QED BY <1>1, <1>2, <2>1 DEF Grants, Live
<1>4. now' > now
  BY <1>1
<1>5. QED BY <1>3, <1>4 DEF TimePassed

\* Every step does one of these to the grants.
LEMMA GrantsStep ==
    ASSUME IInv, [Next]_vars
    PROVE  \/ Kept(Tenants)
           \/ \E t \in Tenants, batch \in Batches : BatchStored(t, batch)
           \/ \E t \in Tenants, g \in Stored : GrantRemoved(t, g)
           \/ \E t \in Tenants : TenantEmptied(t)
           \/ TimePassed
<1>0. IInv'
  BY NextIInv
<1>1. CASE \E t \in Tenants, status \in Statuses : CreateTenant(t, status)
  BY <1>1, CreateStep
<1>2. CASE \E t \in Tenants, batch \in Batches : WriteTuples(t, batch)
  BY <1>0, <1>2, WriteStep
<1>3. CASE \E t \in Tenants, x \in Tuples : DeleteTuple(t, x)
  BY <1>0, <1>3, DeleteStep
<1>4. CASE \E t \in Tenants : PurgeTenantData(t)
  BY <1>4, PurgeStep
<1>5. CASE Tick
  BY <1>5, TickStep
<1>6. CASE \/ \E t \in Tenants, status \in Statuses : UpdateTenant(t, status)
           \/ \E t \in Tenants, k \in AttrKeys, a \in Attrs : SetObjectAttributes(t, k, a)
           \/ \E t \in Tenants, k \in AttrKeys, a \in Attrs : SetSubjectAttributes(t, k, a)
           \/ \E t \in Tenants, e \in External : AppendChangelog(t, e)
           \/ UNCHANGED vars
  <2>1. UNCHANGED <<tuples, now>>
    BY <1>6 DEF UpdateTenant, SetObjectAttributes, SetSubjectAttributes, AppendChangelog,
       Refuse, vars, data
  <2>2. QED BY <2>1, SameTuples
<1>7. QED BY <1>1, <1>2, <1>3, <1>4, <1>5, <1>6 DEF Next

-----------------------------------------------------------------------------
(* The refinement.                                                          *)

\* What the refinement mapping makes of the tuples, and its steps.
InForceGrants == [t \in Tenants |-> Grants(t)]
Admitted      == {t \in Tenants : tenants[t] = "active"}

\* The grants of one tenant change.
LEMMA InForceExcept ==
    ASSUME NEW t \in Tenants, NEW S, Kept(Tenants \ {t}), Grants(t)' = S
    PROVE  InForceGrants' = [InForceGrants EXCEPT ![t] = S] /\ now' = now
BY DEF InForceGrants, Kept

\* A batch that is stored is a batch of the abstract store.
LEMMA WriteRefines ==
    ASSUME NEW t \in Tenants, NEW batch \in Batches, BatchStored(t, batch)
    PROVE  \E b \in SUBSET Stored : Abstract!Write(t, b)
<1> DEFINE b == {batch[k] : k \in DOMAIN batch}
<1>1. b \in SUBSET Stored
  BY BatchIsSeq
<1>2. t \in Admitted /\ Kept(Tenants \ {t})
  BY DEF BatchStored, Admitted
<1>3. \A g \in b, h \in Grants(t) : KeyOf[g.tuple] # KeyOf[h.tuple]
  BY DEF BatchStored
<1>4. \A g, h \in b : KeyOf[g.tuple] = KeyOf[h.tuple] => g = h
  BY DEF BatchStored
<1>5. Grants(t)' = Grants(t) \cup {g \in b : ~tupleIsExpiredAt(g, now)}
  BY DEF BatchStored
<1> HIDE DEF b
<1>6. /\ InForceGrants' = [InForceGrants EXCEPT ![t] =
                             InForceGrants[t] \cup {g \in b : ~tupleIsExpiredAt(g, now)}]
      /\ now' = now /\ InForceGrants[t] = Grants(t)
  BY <1>2, <1>5, InForceExcept DEF InForceGrants
<1>7. Abstract!KeysOf(b) \cap Abstract!KeysOf(InForceGrants[t]) = {}
  BY <1>3, <1>6 DEF Abstract!KeysOf
<1>8. {g \in b : ~tupleIsExpiredAt(g, now)} = {g \in b : ~Abstract!Expired(g, now)}
  BY DEF Abstract!Expired, tupleIsExpiredAt
<1>9. Abstract!Write(t, b)
  BY <1>2, <1>4, <1>6, <1>7, <1>8 DEF Abstract!Write, InForceGrants, Grants, Admitted
<1>10. QED BY <1>1, <1>9

\* Every step is a step of the abstract store, or leaves its grants.
LEMMA StepRefines ==
    ASSUME IInv, [Next]_vars
    PROVE  Abstract!Next
<1>0. Admitted' \in SUBSET Tenants
  BY DEF Admitted
<1>1. CASE Kept(Tenants)
  <2>1. UNCHANGED <<InForceGrants, now>>
    BY <1>1 DEF Kept, InForceGrants
  <2>2. QED BY <1>0, <2>1 DEF Abstract!Next, InForceGrants, Grants, Admitted
<1>2. ASSUME NEW t \in Tenants, NEW batch \in Batches, BatchStored(t, batch)
      PROVE  Abstract!Next
  <2>1. \E b \in SUBSET Stored : Abstract!Write(t, b)
    BY <1>2, WriteRefines
  <2>2. QED BY <1>0, <2>1 DEF Abstract!Next, Admitted
<1>3. ASSUME NEW t \in Tenants, NEW g \in Stored, GrantRemoved(t, g)
      PROVE  Abstract!Next
  <2>1. /\ InForceGrants' = [InForceGrants EXCEPT ![t] = InForceGrants[t] \ {g}]
        /\ now' = now /\ t \in Admitted
    BY <1>3, InForceExcept DEF GrantRemoved, InForceGrants, Admitted
  <2>2. Abstract!Delete(t, g)
    BY <2>1 DEF Abstract!Delete, InForceGrants, Grants, Admitted
  <2>3. QED BY <1>0, <2>2 DEF Abstract!Next, Admitted
<1>4. ASSUME NEW t \in Tenants, TenantEmptied(t)
      PROVE  Abstract!Next
  <2>1. InForceGrants' = [InForceGrants EXCEPT ![t] = {}] /\ now' = now
    BY <1>4, InForceExcept DEF TenantEmptied
  <2>2. Abstract!Purge(t)
    BY <2>1 DEF Abstract!Purge, InForceGrants, Grants
  <2>3. QED BY <1>0, <2>2 DEF Abstract!Next, Admitted
<1>5. CASE TimePassed
  <2>1. /\ now' > now
        /\ InForceGrants' =
              [t \in Tenants |-> {g \in InForceGrants[t] : ~tupleIsExpiredAt(g, now')}]
    BY <1>5 DEF TimePassed, InForceGrants
  <2>2. Abstract!Pass
    BY <2>1 DEF Abstract!Pass, Abstract!Expired, tupleIsExpiredAt, InForceGrants, Grants
  <2>3. QED BY <1>0, <2>2 DEF Abstract!Next, Admitted
<1>6. QED BY <1>1, <1>2, <1>3, <1>4, <1>5, GrantsStep

\* The in-memory store implements the store its callers rely on: whatever
\* slots of expired tuples it reuses, grants change as a whole batch, one at a
\* time, with a purge or with time, and callers write and delete them only
\* while the tenant is active.
THEOREM MemoryImplementsTupleStore == Spec => ImplementsTupleStore
<1>1. Init => Abstract!Init
  BY DEF Init, Abstract!Init, Live
<1>2. IInv /\ [Next]_vars => [Abstract!Next]_(Abstract!vars)
  BY StepRefines
<1>3. QED
  BY <1>1, <1>2, InitIInv, NextIInv, PTL DEF Spec, ImplementsTupleStore, Abstract!Spec

-----------------------------------------------------------------------------
(* Steps.                                                                   *)

\* No grant appears without an INSERT entry of the same step, and none goes
\* without a DELETE entry but with its deadline or the whole changelog.
THEOREM GrantsChangeWithEntries == Spec => LiveChangesAreLogged
<1> DEFINE Logged(t) ==
      /\ \A s \in Live(tuples'[t], now') \ Live(tuples[t], now) : NewEntry(t, "INSERT", s)
      /\ \A s \in Live(tuples[t], now) \ Live(tuples'[t], now') :
            \/ NewEntry(t, "DELETE", s)
            \/ now' # now /\ tupleIsExpiredAt(s, now')
            \/ changelog'[t] = <<>>
<1>1. ASSUME IInv, [Next]_vars, NEW t \in Tenants
      PROVE  Logged(t)
  <2>1. Live(tuples[t], now) = Grants(t) /\ Live(tuples'[t], now') = Grants(t)'
    BY DEF Grants
  <2>2. Grants(t)' = Grants(t) => Logged(t)
    BY <2>1
  <2>3. ASSUME NEW u \in Tenants, u # t, Kept(Tenants \ {u})
        PROVE  Logged(t)
    BY <2>2, <2>3 DEF Kept
  <2>4. ASSUME NEW batch \in Batches, BatchStored(t, batch)
        PROVE  Logged(t)
    BY <2>1, <2>4 DEF BatchStored
  <2>5. ASSUME NEW g \in Stored, GrantRemoved(t, g)
        PROVE  Logged(t)
    BY <2>1, <2>5 DEF GrantRemoved
  <2>6. ASSUME TenantEmptied(t)
        PROVE  Logged(t)
    BY <2>1, <2>6 DEF TenantEmptied
  <2>7. ASSUME TimePassed
        PROVE  Logged(t)
    <3>1. now' # now
      BY <2>7, NextIInv, <1>1 DEF TimePassed, IInv, TypeOK
    <3>2. Grants(t)' = {g \in Grants(t) : ~tupleIsExpiredAt(g, now')}
      BY <2>7 DEF TimePassed
    <3>3. QED BY <2>1, <3>1, <3>2
  <2> HIDE DEF Logged
  <2>8. Kept(Tenants) => Logged(t)
    BY <2>2 DEF Kept
  <2>9. ASSUME NEW u \in Tenants, NEW batch \in Batches, BatchStored(u, batch)
        PROVE  Logged(t)
    <3>1. u # t => Kept(Tenants \ {u})
      BY <2>9 DEF BatchStored
    <3>2. QED BY <2>3, <2>4, <2>9, <3>1
  <2>10. ASSUME NEW u \in Tenants, NEW g \in Stored, GrantRemoved(u, g)
         PROVE  Logged(t)
    <3>1. u # t => Kept(Tenants \ {u})
      BY <2>10 DEF GrantRemoved
    <3>2. QED BY <2>3, <2>5, <2>10, <3>1
  <2>11. ASSUME NEW u \in Tenants, TenantEmptied(u)
         PROVE  Logged(t)
    <3>1. u # t => Kept(Tenants \ {u})
      BY <2>11 DEF TenantEmptied
    <3>2. QED BY <2>3, <2>6, <2>11, <3>1
  <2>12. QED
    BY <1>1, <2>7, <2>8, <2>9, <2>10, <2>11, GrantsStep
<1>2. IInv /\ [Next]_vars => [\A t \in Tenants : Logged(t)]_vars
  BY <1>1
<1>3. QED
  BY <1>2, InitIInv, NextIInv, PTL DEF Spec, LiveChangesAreLogged

\* A call that reports an error left the data of all tenants as they were.
THEOREM RefusalsChangeNothing == Spec => RefusalChangesNothing
<1>1. [Next]_vars => [reply' # "ok" => UNCHANGED <<tenants, data>>]_vars
  <2> SUFFICES ASSUME Next, reply' # "ok"
               PROVE  UNCHANGED <<tenants, data>>
    OBVIOUS
  <2>1. \A err : Refuse(err) => UNCHANGED <<tenants, data>>
    BY DEF Refuse
  <2>2. QED
    BY <2>1 DEF Next, CreateTenant, UpdateTenant, WriteTuples, DeleteTuple, SetObjectAttributes,
       SetSubjectAttributes, AppendChangelog, PurgeTenantData, Tick
<1>2. QED
  BY <1>1, PTL DEF Spec, RefusalChangesNothing
=============================================================================
