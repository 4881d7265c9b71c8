---------------------------- MODULE MCSchemaText ----------------------------
(* Documents with two types, two relations and two permissions; the targets *)
(* are a type and, in quotes, the relation of a type.                       *)
EXTENDS SchemaText

Target(type, relation, quoted) == [type |-> type, relation |-> relation, quoted |-> quoted]

TheTargetLists == {<<Target("user", None, FALSE)>>,
                   <<Target("user", None, FALSE), Target("doc", "viewer", TRUE)>>}
=============================================================================
