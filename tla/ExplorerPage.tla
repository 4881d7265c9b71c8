---------------------------- MODULE ExplorerPage ----------------------------
(***************************************************************************)
(* The explorer: a relation of an object is expanded, and the tree of its  *)
(* subjects is drawn as a graph.                                           *)
(***************************************************************************)
EXTENDS ConsoleShell

\* How deep the trees of the service are: it expands one relation.
TreeDepth == 1

\* The nodes and edges of a tree, one level after the other.  A node is named
\* by its subject and depth.
treeToFlow(tree) ==
    LET level[d \in 0..TreeDepth] ==
            IF d = 0 THEN {[tree |-> tree, parent |-> {}]}
            ELSE UNION {{[tree |-> child, parent |-> {<<x.tree.subject, d - 1>>}] :
                            child \in x.tree.children} : x \in level[d - 1]}
        edgesTo(x, d) == {<<p, <<x.tree.subject, d>>>> : p \in x.parent}
    IN  [nodes |-> UNION {{<<x.tree.subject, d>> : x \in level[d]} : d \in 0..TreeDepth},
         edges |-> UNION {UNION {edgesTo(x, d) : x \in level[d]} : d \in 0..TreeDepth}]

updateForm(field, word) ==
    /\ view.form[field] # word
    /\ Step
    /\ Show(page, tenant, [view EXCEPT !.form[field] = word])

isExpandable == view.form.object_type # NoWord /\ view.form.relation # NoWord

handleExpand ==
    /\ isExpandable /\ ~isPending("expand")
    /\ Call("expand", view.form, view)

\* The view of the tree computes nodes and edges of every tree, but its
\* state takes them only when it is mounted, with the first tree.
SubjectTreeView(v, tree) ==
    [v EXCEPT !.tree = tree,
              !.graph = IF v.tree = None THEN treeToFlow(tree) ELSE @]

ExpandSucceeds(m) ==
    /\ m.kind = "expand" /\ m.at = "ok"
    /\ Settle(m, {}, {}, IF m.id \in view.pending THEN SubjectTreeView(view, m.result) ELSE view)

ExplorerStep ==
    /\ page = "explorer"
    /\ \/ \E field \in {"object_type", "relation"} : \E word \in Words[field] \cup {NoWord} :
             updateForm(field, word)
       \/ handleExpand
=============================================================================
