--------------------------- MODULE MCMemoryStore ---------------------------
(* A small instance of MemoryStore: one tenant, three tuples, two of which *)
(* have the same identity key although their fields differ (an identifier  *)
(* may contain the separators tupleIdentityKey joins the fields with).     *)
EXTENDS MemoryStore

MCTuple(type, id) ==
    [objectType |-> type, objectID |-> id, relation |-> "viewer",
     subjectType |-> "user", subjectID |-> "u", subjectRelation |-> Direct]

PlainTuple  == MCTuple("doc", "d")
LeftTuple   == MCTuple("a:b", "c")
RightTuple  == MCTuple("a", "b:c")

MCTuples == {PlainTuple, LeftTuple, RightTuple}
MCKeys   == {"doc:d", "a:b:c"}
MCKeyOf  == [x \in MCTuples |-> IF x = PlainTuple THEN "doc:d" ELSE "a:b:c"]

\* An importer reports the revocation of a tuple the store may well hold.
MCExternal == {[op     |-> "DELETE", source |-> "import",
                stored |-> [tuple |-> PlainTuple, expires |-> Never]]}
=============================================================================
