----------------------------- MODULE SchemaPage -----------------------------
(***************************************************************************)
(* The schema page: the editor that saves a schema, the views of it, and   *)
(* the evaluator that asks the service for a decision.                     *)
(***************************************************************************)
EXTENDS ConsoleShell

Tabs == {"editor", "visual", "graph", "evaluate"}

Change(v) == Step /\ Show(page, tenant, v)

loaded    == cache[schemaKey(tenant)] # NoData
hasSchema == loaded /\ schemaKey(tenant) \notin failed
shown     == ~isLoading(cache[schemaKey(tenant)], request[schemaKey(tenant)])

\* A tab is chosen; the component of the tab before is unmounted.
SelectTab(tab) ==
    /\ shown /\ tab # view.tab
    /\ tab = "editor" \/ hasSchema
    /\ Change([view EXCEPT !.tab = tab, !.draft = None, !.upload = None,
                           !.pending = @ \ Ids("save")])

-----------------------------------------------------------------------------
(* The editor.                                                             *)

Edit(text) == view.draft \notin {None, text} /\ Change([view EXCEPT !.draft = text])

\* A file is chosen and read; its text replaces what the editor has then.
handleUpload(text) ==
    view.draft # None /\ view.upload = None /\ Change([view EXCEPT !.upload = text])
UploadRead ==
    /\ view.upload # None
    /\ Show(page, tenant, [view EXCEPT !.draft = view.upload, !.upload = None])
    /\ UNCHANGED bounds

\* The text goes to the tenant that is selected.
handleSave ==
    /\ view.draft # None /\ ~isPending("save")
    /\ Call("save", view.draft, view)

\* The hook invalidates the schema of its tenant, which is not that of the
\* call when another one was selected meanwhile.
SaveSucceeds(m) ==
    /\ m.kind = "save" /\ m.at = "ok"
    /\ Settle(m, {schemaKey(m.hook)}, {schemaKey(m.tenant)} \ {schemaKey(m.hook)}, view)

-----------------------------------------------------------------------------
(* The evaluator.                                                          *)

evaluating == view.tab = "evaluate" /\ hasSchema
schemaTypes == Permissions[cache[schemaKey(tenant)]]
actionsForType == IF view.type \in DOMAIN schemaTypes THEN schemaTypes[view.type] ELSE {}

SelectType(type) ==
    evaluating /\ type # view.type /\ Change([view EXCEPT !.type = type, !.action = NoWord])

\* Chosen, or typed when the type has no permissions.
SelectAction(action) ==
    /\ evaluating /\ action # view.action
    /\ action \in actionsForType \/ (actionsForType = {} /\ view.type # NoWord)
    /\ Change([view EXCEPT !.action = action])

\* A mutant of handleCheck: a check can be asked for while one is pending.
handleCheck_Again ==
    /\ evaluating /\ view.type # NoWord /\ view.action # NoWord
    /\ Call("check", <<view.type, view.action>>,
            [view EXCEPT !.decision = None, !.asked = left.calls])

handleCheck ==
    /\ evaluating /\ view.type # NoWord /\ view.action # NoWord /\ ~isPending("check")
    /\ Call("check", <<view.type, view.action>>,
            [view EXCEPT !.decision = None, !.asked = left.calls])

\* An error is shown as a deny.
CheckEnds(m) ==
    /\ m.kind = "check" /\ m.at \in {"ok", "refused"}
    /\ Settle(m, {}, {},
              IF m.id \in view.pending
              THEN [view EXCEPT !.decision =
                       [of |-> m.id, says |-> IF m.at = "ok" THEN m.result ELSE "deny"]]
              ELSE view)

SchemaStep ==
    /\ page = "schema"
    /\ \/ \E tab \in Tabs : SelectTab(tab)
       \/ \E text \in Docs : Edit(text) \/ handleUpload(text)
       \/ UploadRead \/ handleSave
       \/ evaluating /\ \E type \in DOMAIN schemaTypes : SelectType(type)
       \/ evaluating /\ \E action \in UNION {schemaTypes[t] : t \in DOMAIN schemaTypes} :
             SelectAction(action)
       \/ handleCheck

-----------------------------------------------------------------------------
(* Properties.                                                             *)

\* A decision that is shown is the answer to the check that was asked for
\* last, and none is shown while that one is under way.
DecisionIsOfLastCheck ==
    page = "schema" /\ view.decision # None =>
        view.decision.of = view.asked /\ view.asked \notin view.pending
=============================================================================
