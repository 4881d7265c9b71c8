----------------------------- MODULE TuplesPage -----------------------------
(***************************************************************************)
(* The tuples page: the filters, the table with its delete dialog, and the *)
(* dialog that creates a tuple with the help of the tenant's schema.       *)
(***************************************************************************)
EXTENDS ConsoleShell, FiniteSets

\* An event changes the components to v.
Do(v) == Step /\ Show(page, tenant, v)

-----------------------------------------------------------------------------
(* Filters.                                                                *)

updateFilter(field, word) ==
    /\ ~Covered
    /\ word # view.filter[field]
    /\ Do([view EXCEPT !.filter[field] = word])

hasFilters == view.filter # Empty

clearFilter ==
    /\ ~Covered
    /\ hasFilters
    /\ Do([view EXCEPT !.filter = Empty])

-----------------------------------------------------------------------------
(* Deleting.                                                               *)

AskDelete(x) == ~Covered /\ x \in Rows /\ Do([view EXCEPT !.target = x])

CancelDelete == view.target # None /\ Rows # {} /\ Do([view EXCEPT !.target = None])

\* The tuple of the dialog is deleted in the tenant that is selected.
handleDelete ==
    /\ view.target # None /\ Rows # {}
    /\ ~isPending("delete")
    /\ Call("delete", view.target, view)

\* A mutant of tupleLists: only the list on the screen is told.
tupleLists_Shown == TupleLists \cap Current

\* What the hooks invalidate: the lists of all tenants and filters.
tupleLists == TupleLists

DeleteSucceeds(m) ==
    /\ m.kind = "delete" /\ m.at = "ok"
    /\ Settle(m, tupleLists, {},
              IF m.id \in view.pending THEN [view EXCEPT !.target = None] ELSE view)

-----------------------------------------------------------------------------
(* Creating.                                                               *)

\* The schema that the dialog knows, and what it declares.
schema == IF cache[schemaKey(tenant)] = NoData THEN NoSchema ELSE cache[schemaKey(tenant)]
typeNames == IF schema = NoSchema THEN {} ELSE DOMAIN Relations[schema]
relationsOf(type) ==
    IF type \in typeNames THEN DOMAIN Relations[schema][type] ELSE {}
relationsForType == relationsOf(view.form.object_type)

\* The subject types of a relation; all types when it names none, or is not
\* a relation of the type.
allowedTypes(type, relation) ==
    IF relation \in relationsOf(type) /\ Relations[schema][type][relation] # {}
    THEN Relations[schema][type][relation]
    ELSE typeNames
subjectTypesForRelation == allowedTypes(view.form.object_type, view.form.relation)

Sole(set) == IF Cardinality(set) = 1 THEN CHOOSE x \in set : TRUE ELSE NoWord

\* The fields of the form that a choice fills, and the schema it was made
\* under.
Fill(form, fields) ==
    [view EXCEPT !.form = form,
                 !.under = [f \in Fields |-> IF f \in fields THEN schema ELSE view.under[f]]]

SetOpen(open) == view.open # open /\ (open => ~Covered) /\ Do([view EXCEPT !.open = open])

\* A mutant of SelectObjectType: a relation that was chosen before stays.
SelectObjectType_Keeps(type) ==
    LET relation == IF view.form.relation # NoWord THEN view.form.relation ELSE Sole(relationsOf(type))
        subject  == IF relation = NoWord THEN NoWord ELSE Sole(allowedTypes(type, relation))
    IN  /\ view.open /\ type \in typeNames \ {view.form.object_type}
        /\ Do(Fill([object_type |-> type, relation |-> relation, subject_type |-> subject],
                   Fields))

\* A type is chosen; a relation and a subject type are, if there is one only.
SelectObjectType(type) ==
    LET relation == Sole(relationsOf(type))
        subject  == IF relation = NoWord THEN NoWord ELSE Sole(allowedTypes(type, relation))
    IN  /\ view.open /\ type \in typeNames \ {view.form.object_type}
        /\ Do(Fill([object_type |-> type, relation |-> relation, subject_type |-> subject],
                   Fields))

SelectRelation(relation) ==
    /\ view.open /\ relation \in relationsForType \ {view.form.relation}
    /\ Do(Fill([view.form EXCEPT !.relation = relation,
                                 !.subject_type = Sole(allowedTypes(view.form.object_type, relation))],
               {"relation", "subject_type"}))

SelectSubjectType(type) ==
    /\ view.open /\ type \in subjectTypesForRelation \ {view.form.subject_type}
    /\ Do(Fill([view.form EXCEPT !.subject_type = type], {"subject_type"}))

\* Without choices a field is typed.
updateField(field, word) ==
    /\ view.open /\ word # view.form[field]
    /\ CASE field = "object_type"  -> typeNames = {}
         [] field = "relation"     -> relationsForType = {} /\
                                      (typeNames = {} \/ view.form.object_type # NoWord)
         [] field = "subject_type" -> subjectTypesForRelation = {}
    /\ Do(Fill([view.form EXCEPT ![field] = word], {field}))

isValid == \A f \in Fields : view.form[f] # NoWord

handleSubmit ==
    /\ view.open /\ isValid /\ ~isPending("write")
    /\ Call("write", view.form, view)

WriteSucceeds(m) ==
    /\ m.kind = "write" /\ m.at = "ok"
    /\ Settle(m, tupleLists, {},
              IF m.id \in view.pending
              THEN [view EXCEPT !.open = FALSE, !.form = Empty,
                                !.under = [f \in Fields |-> NoSchema]]
              ELSE view)

TuplesStep ==
    /\ page = "tuples"
    /\ \/ \E field \in Fields : \/ \E word \in Filtered[field] \cup {NoWord} : updateFilter(field, word)
                               \/ \E word \in Words[field] \cup {NoWord} : updateField(field, word)
       \/ clearFilter
       \/ \E x \in Rows : AskDelete(x)
       \/ CancelDelete \/ handleDelete
       \/ \E open \in BOOLEAN : SetOpen(open)
       \/ \E type \in typeNames : SelectObjectType(type)
       \/ \E relation \in relationsForType : SelectRelation(relation)
       \/ \E type \in subjectTypesForRelation : SelectSubjectType(type)
       \/ handleSubmit

-----------------------------------------------------------------------------
(* Properties.                                                             *)

\* A form whose choices were all made under one schema is a tuple that this
\* schema allows, whatever was chosen first and chosen again: the object type
\* is declared, the relation is one of the object type, and the subject type
\* one of the relation.  What the schema does not offer is typed: the type
\* when it declares none, the relation of a type without relations.
FormFitsSchema ==
    page = "tuples" => \A doc \in Valid :
        LET form == view.form
            declared == Relations[doc][form.object_type]
        IN  (DOMAIN Relations[doc] # {} /\ \A f \in Fields : view.under[f] = doc /\ form[f] # NoWord) =>
                /\ form.object_type \in DOMAIN Relations[doc]
                /\ DOMAIN declared # {} =>
                    /\ form.relation \in DOMAIN declared
                    /\ form.subject_type \in declared[form.relation] \/ declared[form.relation] = {}
=============================================================================
