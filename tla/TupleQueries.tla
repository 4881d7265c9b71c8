---------------------------- MODULE TupleQueries ----------------------------
(***************************************************************************)
(* The read side of a tuple store.  A stored tuple is a record             *)
(*   [tuple |-> <identity>, expires |-> <deadline>]                        *)
(* whose identity has the six fields that make a tuple unique.  What the   *)
(* engine asks is asked of the set of identities in force: the memory      *)
(* store answers in the order of its slice and PostgreSQL in any order, so *)
(* the lists are sets that the engine goes through in any order.           *)
(***************************************************************************)
EXTENDS Integers, Sequences, FiniteSets

CONSTANT Never          \* a nil ExpiresAt

ASSUME NeverAssumption == Never \notin Nat

\* The empty SubjectRelation of a tuple whose subject is a single subject.
Direct == ""

\* A tuple is expired from the instant of its deadline on.
tupleIsExpiredAt(s, now) == s.expires # Never /\ s.expires <= now

\* The stored tuples that grant something at time now.
Live(stored, now) ==
    {s \in {stored[i] : i \in DOMAIN stored} : ~tupleIsExpiredAt(s, now)}

InForce(stored, now) == {s.tuple : s \in Live(stored, now)}

\* A filter is a record with the fields the request fills in: an empty
\* field of the code's TupleFilter is a field that is not in the domain.
matchesTupleFilter(x, filter) == \A f \in DOMAIN filter : x[f] = filter[f]

ReadTuples(stored, now, filter, includeExpired) ==
    SelectSeq(stored, LAMBDA s : /\ includeExpired \/ ~tupleIsExpiredAt(s, now)
                                 /\ matchesTupleFilter(s.tuple, filter))

\* The tuples of the set tuples that are on one relation of one object.
OnRelation(tuples, object, relation) ==
    {x \in tuples : matchesTupleFilter(x, [objectType |-> object.type,
                                           objectID |-> object.id,
                                           relation |-> relation])}

SubjectOf(x) == [type |-> x.subjectType, id |-> x.subjectID]

CheckDirect(tuples, object, relation, subject) ==
    \E x \in OnRelation(tuples, object, relation) :
        SubjectOf(x) = subject /\ x.subjectRelation = Direct

\* A userset subject counts as its object: the subject relation is ignored.
ListRelatedObjects(tuples, object, relation) ==
    {SubjectOf(x) : x \in OnRelation(tuples, object, relation)}

ListSubjects(tuples, object, relation) ==
    {[ref |-> SubjectOf(x), relation |-> x.subjectRelation] :
        x \in OnRelation(tuples, object, relation)}
=============================================================================
