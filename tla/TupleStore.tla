----------------------------- MODULE TupleStore -----------------------------
(***************************************************************************)
(* What a tuple store promises its callers (pkg/storage, TupleStore): per  *)
(* tenant a set of grants in force, at most one per identity key, that     *)
(* changes in atomic steps.  Callers write and delete grants only of a     *)
(* tenant that admits them; whether a purge asks for that too is where the *)
(* two stores differ, and a parameter.  The in-memory and the PostgreSQL   *)
(* store are shown to implement it.                                        *)
(***************************************************************************)
EXTENDS Integers

CONSTANTS
    Tenants,
    Grants,         \* records [tuple, expires]
    KeyOf,          \* the identity key of a tuple
    Never,          \* the deadline of a grant that has none
    PurgeIsAdmitted \* whether a purge, too, needs a tenant that admits it

VARIABLES
    inForce,        \* the grants of every tenant
    admits,         \* tenants whose grants callers may write and delete
    now

vars == <<inForce, admits, now>>

Expired(g, time) == g.expires # Never /\ g.expires <= time
KeysOf(grants)   == {KeyOf[g.tuple] : g \in grants}

\* A batch is stored as a whole, and only next to grants with other keys.
\* Grants whose deadline is over are accepted and give nothing.
Write(t, batch) ==
    /\ t \in admits
    /\ KeysOf(batch) \cap KeysOf(inForce[t]) = {}
    /\ \A g, h \in batch : KeyOf[g.tuple] = KeyOf[h.tuple] => g = h
    /\ inForce' = [inForce EXCEPT ![t] = @ \cup {g \in batch : ~Expired(g, now)}]
    /\ UNCHANGED now

Delete(t, g) ==
    /\ t \in admits
    /\ inForce' = [inForce EXCEPT ![t] = @ \ {g}]
    /\ UNCHANGED now

Purge(t) ==
    /\ PurgeIsAdmitted => t \in admits
    /\ inForce' = [inForce EXCEPT ![t] = {}]
    /\ UNCHANGED now

\* Time passes, and takes the grants whose deadlines it reaches.
Pass ==
    /\ now' > now
    /\ inForce' = [t \in Tenants |-> {g \in inForce[t] : ~Expired(g, now')}]

Init ==
    /\ inForce = [t \in Tenants |-> {}]
    /\ admits \in SUBSET Tenants
    /\ now \in Nat

\* Tenants change their status at any time.
Next ==
    /\ \/ \E t \in Tenants : \/ \E batch \in SUBSET Grants : Write(t, batch)
                             \/ \E g \in Grants : Delete(t, g)
                             \/ Purge(t)
       \/ Pass
       \/ UNCHANGED <<inForce, now>>
    /\ admits' \in SUBSET Tenants

Spec == Init /\ [][Next]_vars
=============================================================================
