--------------------------- MODULE MCConsoleEditor ---------------------------
(* An instance of ConsoleEditor for TLC: two tenants that each have a       *)
(* document with attributes, d1, and one without, d2.                       *)
EXTENDS ConsoleEditor

TheTenants    == {"acme", "super"}
TheAttributed == {<<"doc", "d1">>}
TheBudgets    == {[steps |-> 3, saves |-> 1, events |-> 0], [steps |-> 2, saves |-> 2, events |-> 0],
                  [steps |-> 2, saves |-> 1, events |-> 1]}
=============================================================================
