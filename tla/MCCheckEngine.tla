--------------------------- MODULE MCCheckEngine ---------------------------
(* Instances of CheckEngine: schemas as in the documentation, cut down to   *)
(* the types, relations and permissions that one run is about.              *)
EXTENDS CheckEngine

Entity(type, id) == [type |-> type, id |-> id]

Tuple(object, relation, subject, subjectRelation) ==
    [objectType |-> object.type, objectID |-> object.id, relation |-> relation,
     subjectType |-> subject.type, subjectID |-> subject.id,
     subjectRelation |-> subjectRelation]

Relation(r)     == [kind |-> "relation", relation |-> r]
Arrow(r, p)     == [kind |-> "arrow", relation |-> r, permission |-> p]
Condition(c)    == [kind |-> "condition", condition |-> c]
Perm(op, refs)  == [op |-> op, children |-> refs, condition |-> NoCondition]
Gated(op, refs, c) == [op |-> op, children |-> refs, condition |-> c]

Ask(object, p)  == <<[object |-> object, permission |-> p, context |-> NoContext]>>
AskFrom(object, p, context) == <<[object |-> object, permission |-> p, context |-> context]>>

User  == Entity("user", "u")
DocA  == Entity("doc", "a")
DirA  == Entity("dir", "a")
DirB  == Entity("dir", "b")
Group == Entity("group", "g")
Sub   == Entity("group", "h")

\* No run but the ones on conditions has any.
NoEvaluation(c, a, b, context) == "error"

-----------------------------------------------------------------------------
(* Folders that may form a cycle, and groups as usersets: of a permission   *)
(* (has_member) and of a plain relation (member).  A document may also be   *)
(* opened by everybody during the day: "hours" looks at the request alone,  *)
(* and fails without a context.                                             *)

DriveEvaluate(c, a, b, context) ==
    IF context = NoContext THEN "error" ELSE IF context = "day" THEN "allow" ELSE "deny"

DriveSchema ==
    [doc   |-> [view |-> Perm("union", <<Relation("viewer"), Arrow("parent", "view")>>),
                open |-> Perm("union", <<Condition("hours"), Relation("viewer")>>)],
     dir   |-> [view |-> Perm("union", <<Relation("viewer"), Arrow("parent", "view")>>)],
     group |-> [has_member |-> Perm("direct", <<Relation("member")>>)]]

DriveEntities == {User, DocA, DirA, DirB, Group}

DriveUniverse ==
    {Tuple(DocA, "parent", DirA, Direct), Tuple(DirA, "parent", DirB, Direct),
     Tuple(DirB, "parent", DirA, Direct), Tuple(DirB, "viewer", Group, "has_member"),
     Tuple(DirA, "viewer", Group, "member"), Tuple(Group, "member", User, Direct)}

DriveInitial == {DriveUniverse, DriveUniverse \ {Tuple(Group, "member", User, Direct)}}
DriveBatches == {Ask(DocA, "view") \o Ask(DirB, "view"), Ask(DirA, "edit"),
                 AskFrom(DocA, "open", "night") \o AskFrom(DocA, "open", "day")}

-----------------------------------------------------------------------------
(* Exclusion, intersection, inline conditions and a condition that gates a  *)
(* permission.  "cleared" compares an attribute of the subject with one of  *)
(* the object, and fails when one is missing; "office" looks at the request. *)

PolicyEvaluate(c, a, b, context) ==
    CASE c = "office"  -> IF context = "office" THEN "allow" ELSE "deny"
      [] c = "cleared" -> IF a = NoAttrs \/ b = NoAttrs THEN "error"
                          ELSE IF a = "low" \/ b = "high" THEN "allow" ELSE "deny"

PolicySchema ==
    [doc |-> [edit   |-> Gated("exclusion", <<Relation("editor"), Relation("banned")>>, "cleared"),
              read   |-> Perm("intersect", <<Relation("editor"), Arrow("parent", "enter")>>)],
     dir |-> [enter  |-> Perm("union", <<Relation("viewer"), Condition("office")>>)]]

PolicyEntities == {User, DocA, DirA, Group}

PolicyUniverse ==
    {Tuple(DocA, "editor", User, Direct), Tuple(DocA, "editor", Group, "member"),
     Tuple(DocA, "banned", Group, "member"), Tuple(Group, "member", User, Direct),
     Tuple(DocA, "parent", DirA, Direct)}

PolicyInitial == {PolicyUniverse, PolicyUniverse \ {Tuple(DocA, "banned", Group, "member")}}

PolicyBatches == {Ask(DocA, "edit"), Ask(DocA, "read") \o AskFrom(DocA, "read", "office")}

-----------------------------------------------------------------------------
(* Schemas on which the engine and the documentation part.                  *)

\* An exclusion whose base and exclusion lead to the same node.
SharedSchema ==
    [doc   |-> [publish |-> Perm("exclusion", <<Arrow("team", "has_member"),
                                                Arrow("suspended", "has_member")>>)],
     group |-> [has_member |-> Perm("direct", <<Relation("member")>>)]]
SharedUniverse ==
    {Tuple(DocA, "team", Group, Direct), Tuple(DocA, "suspended", Group, Direct),
     Tuple(Group, "member", User, Direct)}
AskPublish == {Ask(DocA, "publish")}
GroupEntities == {User, DocA, Group, Sub}

AskView == {Ask(DocA, "view")}

\* An arrow to a permission that has a condition.
GateSchema ==
    [doc |-> [view |-> Perm("union", <<Arrow("parent", "view")>>)],
     dir |-> [view |-> Gated("direct", <<Relation("viewer")>>, "office")]]
GateUniverse == {Tuple(DocA, "parent", DirA, Direct), Tuple(DirA, "viewer", User, Direct)}

\* An exclusion of the members of a group.
BannedSchema == [doc |-> [edit |-> Perm("exclusion", <<Relation("editor"), Relation("banned")>>)]]
BannedUniverse ==
    {Tuple(DocA, "editor", User, Direct), Tuple(DocA, "banned", Group, "member"),
     Tuple(Group, "member", User, Direct)}
AskEdit == {Ask(DocA, "edit")}

\* The runs that change nothing start with all tuples.
AllTuples == {Universe}
=============================================================================
