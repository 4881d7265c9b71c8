------------------------------ MODULE MCConsole ------------------------------
(* The console for TLC: two tenants, one of which has the mode shared, two  *)
(* schemas and a text that is none.                                         *)
EXTENDS Console

TheTenants   == {"acme", "super"}
TheRelations == [d1 |-> [doc |-> [viewer |-> {"user", "doc"}], user |-> [friend |-> {"user"}]],
                 d2 |-> [doc |-> [owner |-> {"user"}, viewer |-> {"user"}]]]
ThePermissions == [d1 |-> [doc |-> {"view"}, user |-> {}], d2 |-> [doc |-> {"view"}]]
TheNames     == [object_type |-> {"doc", "user"}, relation |-> {"viewer", "owner", "friend"},
                 subject_type |-> {"doc", "user"}]
TheWords     == [object_type |-> {"doc"}, relation |-> {"viewer"}, subject_type |-> {"user"}]
TheFiltered  == [object_type |-> {"doc"}, relation |-> {}, subject_type |-> {}]
TheModes     == [super |-> "own", acme |-> "shared"]
TheLoaded    == [super |-> "d1", acme |-> "d2"]
Budget(start, steps, moves, calls, events) ==
    [page |-> start, steps |-> steps, moves |-> moves, calls |-> calls, events |-> events]
TheBudgets ==
    {Budget("tuples", 4, 0, 0, 0), Budget("tuples", 3, 0, 1, 0), Budget("tuples", 1, 0, 1, 1),
     Budget("tuples", 1, 1, 1, 0),
     Budget("schema", 3, 0, 2, 0), Budget("schema", 2, 0, 1, 1), Budget("schema", 2, 1, 1, 0),
     Budget("changelog", 3, 0, 0, 1), Budget("explorer", 4, 0, 2, 1),
     Budget("explorer", 1, 1, 0, 1)}
=============================================================================
