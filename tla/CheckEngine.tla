----------------------------- MODULE CheckEngine -----------------------------
(***************************************************************************)
(* The permission check (pkg/engine) behind the AuthZen handlers           *)
(* (pkg/api/authzen.go).  A request loads the tenant once and then checks  *)
(* its items one after the other; each check walks the permission graph    *)
(* depth first.  The recursion of the code is the variable stack, and      *)
(* every call of the store is an action of its own: the walk takes no      *)
(* snapshot, so tuples, attributes and the tenant change under it.         *)
(*                                                                         *)
(* The walks of different requests share nothing but the store, which a    *)
(* check never writes: one request against a changing store is enough.     *)
(***************************************************************************)
EXTENDS TupleQueries

CONSTANTS
    Schema,         \* type -> permission -> PermissionDef
    Entities,       \* the objects and subjects, as [type, id] records
    Universe,       \* the tuples that writers may store
    Batches,        \* the sequences of items a request may ask for
    Subject,        \* the subject of the request
    Attrs,          \* attribute maps
    NoAttrs,        \* no attributes stored: the condition sees an empty map
    Contexts,       \* request contexts
    NoContext,      \* a nil request context
    Conditions,     \* condition expressions
    NoCondition,    \* a permission without a condition
    Evaluate(_, _, _, _),   \* expr.Run: condition, object and subject
                            \* attributes, context -> allow, deny or error
    InitialTuples,  \* the tuple sets a behaviour may start with
    NewStatuses,    \* the statuses operators may give the tenant
    MaxCheckDepth,
    MaxChanges,     \* bound on the changes of the store
    MaxFaults       \* bound on the reads that fail for no reason of the model

Outcomes == {"allow", "deny", "error"}
Statuses == {"pending", "active", "suspended", "deleted"}

\* A compiled permission.  The compiler refuses one without children.
PermissionRef ==
    [kind : {"relation"}, relation : STRING]
    \cup [kind : {"arrow"}, relation : STRING, permission : STRING]
    \cup [kind : {"condition"}, condition : Conditions]

PermissionDef == [op : {"direct", "union", "intersect", "exclusion"},
                  children : Seq(PermissionRef) \ {<<>>},
                  condition : Conditions \cup {NoCondition}]

\* One item of a request.
Item == [object : Entities, permission : STRING, context : Contexts \cup {NoContext}]

ASSUME EngineAssumption ==
    /\ MaxCheckDepth \in Nat /\ MaxChanges \in Nat /\ MaxFaults \in Nat
    /\ Subject \in Entities
    /\ NewStatuses \subseteq Statuses
    /\ Batches \subseteq Seq(Item)
    /\ InitialTuples \subseteq SUBSET Universe

ASSUME SchemaAssumption ==
    \A type \in DOMAIN Schema : \A p \in DOMAIN Schema[type] :
        p \in STRING /\ Schema[type][p] \in PermissionDef

ASSUME TuplesAssumption ==
    \A x \in Universe : SubjectOf(x) \in Entities /\ x.subjectRelation \in STRING

ASSUME EvaluateAssumption ==
    \A c \in Conditions, a, b \in Attrs \cup {NoAttrs}, context \in Contexts \cup {NoContext} :
        Evaluate(c, a, b, context) \in Outcomes

VARIABLES
    tuples, objAttrs, subAttrs, status,     \* the store
    had,        \* the statuses the tenant has had so far
    changes, faults,                        \* how often it changed and failed
    tc,         \* the tenant status in the request's context, or "none"
    items,      \* the items not yet answered; the first is being checked
    answers,    \* the outcomes so far
    stack,      \* the calls in progress, innermost first
    visited,    \* the visitedSet of the current check
    ret,        \* what the innermost call has just returned, or "none"
    seen        \* history: what the store held since the current check began

storeVars == <<tuples, objAttrs, subAttrs, status, had, changes>>
walkVars  == <<stack, visited, ret>>
vars      == <<storeVars, faults, tc, items, answers, walkVars, seen>>

-----------------------------------------------------------------------------
(* The schema.  A child of a permission is a relation, an arrow or an      *)
(* inline condition.                                                       *)

HasPermission(type, p) == type \in DOMAIN Schema /\ p \in DOMAIN Schema[type]

GetPermission(type, p) == Schema[type][p]

\* visitKey: the subject is the same in all keys of one check.
Node(object, p) == [object |-> object, permission |-> p]

\* A mutant of newVisitedSet: one set for all items of a request.
newVisitedSet_Shared == visited

newVisitedSet == {}

Nodes == UNION {[object : {e}, permission : DOMAIN Schema[e.type]] :
                   e \in {e \in Entities : e.type \in DOMAIN Schema}}

-----------------------------------------------------------------------------
(* The calls.  Push and Return are the call and the return of a function.  *)

Top == Head(stack)

Running(kind) == stack # <<>> /\ Top.kind = kind /\ ret = "none"

Push(frame) == stack' = <<frame>> \o stack /\ ret' = "none"

Return(outcome) == stack' = Tail(stack) /\ ret' = outcome

\* A mutant of Read: the store does not look at the tenant.
Read_AnyTenant(ok) ==
    /\ ok \/ faults < MaxFaults
    /\ faults' = IF ok THEN faults ELSE faults + 1
    /\ UNCHANGED <<storeVars, tc, items, answers, seen>>

\* A read of the store: it fails when the tenant is deleted, and it may fail
\* because the database does.
Read(ok) ==
    /\ IF ok THEN status # "deleted" ELSE status = "deleted" \/ faults < MaxFaults
    /\ faults' = IF ok \/ status = "deleted" THEN faults ELSE faults + 1
    /\ UNCHANGED <<storeVars, tc, items, answers, seen>>

\* A step of the walk that reads nothing.
Local == UNCHANGED <<storeVars, faults, tc, items, answers, seen>>

-----------------------------------------------------------------------------
(* Permissions.                                                            *)

\* Two mutants of walkPermission: the limit is off by one, and the node is not
\* added to the visited set.
walkPermission_Deeper(object, p, context, depth, callers) ==
    IF depth > MaxCheckDepth + 1
    THEN stack' = callers /\ ret' = "error" /\ UNCHANGED visited
    ELSE /\ visited' = visited \cup {Node(object, p)}
         /\ stack' = <<[kind |-> "permission", object |-> object, permission |-> p,
                        context |-> context, depth |-> depth, child |-> 1]>> \o callers
         /\ ret' = "none"

walkPermission_Forgets(object, p, context, depth, callers) ==
    IF depth > MaxCheckDepth
    THEN stack' = callers /\ ret' = "error" /\ UNCHANGED visited
    ELSE /\ stack' = <<[kind |-> "permission", object |-> object, permission |-> p,
                        context |-> context, depth |-> depth, child |-> 1]>> \o callers
         /\ ret' = "none" /\ UNCHANGED visited

\* The call of walkPermission by a caller that leaves the stack callers.
walkPermission(object, p, context, depth, callers) ==
    IF depth > MaxCheckDepth
    THEN stack' = callers /\ ret' = "error" /\ UNCHANGED visited
    ELSE IF Node(object, p) \in visited
    THEN stack' = callers /\ ret' = "deny" /\ UNCHANGED visited
    ELSE /\ visited' = visited \cup {Node(object, p)}
         /\ stack' = <<[kind |-> "permission", object |-> object, permission |-> p,
                        context |-> context, depth |-> depth, child |-> 1]>> \o callers
         /\ ret' = "none"

Def == GetPermission(Top.object.type, Top.permission)

Child == Def.children[Top.child]

\* A mutant of Combine: an exclusion is combined like an intersection.
Combine_ExclusionAsIntersect(op, n, last, r) ==
    CASE r = "error" -> "error"
      [] r # "error" /\ op \in {"union", "direct"} ->
            IF r = "allow" THEN "allow" ELSE IF last THEN "deny" ELSE "none"
      [] r # "error" /\ op \in {"intersect", "exclusion"} ->
            IF r = "deny" THEN "deny" ELSE IF last THEN "allow" ELSE "none"

\* walkUnion, walkIntersect and walkExclusion: what the n-th of the children
\* decides when it returns r, or "none" when the next child is to be asked.
Combine(op, n, last, r) ==
    CASE r = "error" -> "error"
      [] r # "error" /\ op \in {"union", "direct"} ->
            IF r = "allow" THEN "allow" ELSE IF last THEN "deny" ELSE "none"
      [] r # "error" /\ op = "intersect" ->
            IF r = "deny" THEN "deny" ELSE IF last THEN "allow" ELSE "none"
      [] r # "error" /\ op = "exclusion" ->
            IF (n = 1) = (r = "deny") THEN "deny" ELSE IF last THEN "allow" ELSE "none"

ChildReturns ==
    /\ stack # <<>> /\ Top.kind = "permission" /\ ret # "none"
    /\ LET o == Combine(Def.op, Top.child, Top.child = Len(Def.children), ret)
       IN  IF o # "none" THEN Return(o)
           ELSE /\ stack' = <<[Top EXCEPT !.child = @ + 1]>> \o Tail(stack)
                /\ ret' = "none"
    /\ UNCHANGED visited /\ Local

-----------------------------------------------------------------------------
(* walkRelation: a direct tuple, then the usersets in any order.           *)

WalkDirect(ok) ==
    /\ Running("permission") /\ Child.kind = "relation"
    /\ Read(ok)
    /\ IF ~ok THEN ret' = "error" /\ UNCHANGED stack
       ELSE IF CheckDirect(tuples, Top.object, Child.relation, Subject)
       THEN ret' = "allow" /\ UNCHANGED stack
       ELSE Push([kind |-> "relation", object |-> Top.object,
                  relation |-> Child.relation, depth |-> Top.depth])
    /\ UNCHANGED visited

\* The frame of walkRelation becomes the loop over the usersets it found.
ListUsersets(ok) ==
    /\ Running("relation")
    /\ Read(ok)
    /\ IF ~ok THEN Return("error")
       ELSE /\ stack' = <<[kind |-> "usersets", depth |-> Top.depth,
                           pending |-> {u \in ListSubjects(tuples, Top.object, Top.relation) :
                                           u.relation # Direct}]>> \o Tail(stack)
            /\ ret' = "none"
    /\ UNCHANGED visited

\* The usersets of the loop whose turn can still come: a visited node is
\* skipped, and it stays visited.
OpenUsersets == {u \in Top.pending : Node(u.ref, u.relation) \notin visited}

LoopWithout(x) == <<[Top EXCEPT !.pending = @ \ {x}]>> \o Tail(stack)

\* A userset that is a permission is walked, without the request context.
WalkUserset(u) ==
    /\ Running("usersets") /\ u \in OpenUsersets
    /\ HasPermission(u.ref.type, u.relation)
    /\ walkPermission(u.ref, u.relation, NoContext, Top.depth + 1, LoopWithout(u))
    /\ Local

\* Two mutants of CheckUserset: a failing lookup allows, and it is tried again.
CheckUserset_FailsOpen(u, ok) ==
    /\ Running("usersets") /\ u \in OpenUsersets
    /\ ~HasPermission(u.ref.type, u.relation)
    /\ Read(ok)
    /\ IF ok => CheckDirect(tuples, u.ref, u.relation, Subject)
       THEN Return("allow")
       ELSE stack' = LoopWithout(u) /\ ret' = "none"
    /\ UNCHANGED visited

CheckUserset_Retries(u, ok) ==
    /\ Running("usersets") /\ u \in OpenUsersets
    /\ ~HasPermission(u.ref.type, u.relation)
    /\ Read(ok)
    /\ IF ok /\ CheckDirect(tuples, u.ref, u.relation, Subject)
       THEN Return("allow")
       ELSE stack' = (IF ok THEN LoopWithout(u) ELSE stack) /\ ret' = "none"
    /\ UNCHANGED visited

\* Any other userset is looked up directly; a failing lookup is skipped.
CheckUserset(u, ok) ==
    /\ Running("usersets") /\ u \in OpenUsersets
    /\ ~HasPermission(u.ref.type, u.relation)
    /\ Read(ok)
    /\ IF ok /\ CheckDirect(tuples, u.ref, u.relation, Subject)
       THEN Return("allow")
       ELSE stack' = LoopWithout(u) /\ ret' = "none"
    /\ UNCHANGED visited

-----------------------------------------------------------------------------
(* walkArrow: the permission on the related objects, in any order.         *)

\* A mutant of WalkArrow: the request context is not handed on.
WalkArrow_DropsContext(ok) ==
    /\ Running("permission") /\ Child.kind = "arrow"
    /\ Read(ok)
    /\ IF ~ok THEN ret' = "error" /\ UNCHANGED stack
       ELSE Push([kind |-> "targets", permission |-> Child.permission,
                  context |-> NoContext, depth |-> Top.depth,
                  pending |-> ListRelatedObjects(tuples, Top.object, Child.relation)])
    /\ UNCHANGED visited

WalkArrow(ok) ==
    /\ Running("permission") /\ Child.kind = "arrow"
    /\ Read(ok)
    /\ IF ~ok THEN ret' = "error" /\ UNCHANGED stack
       ELSE Push([kind |-> "targets", permission |-> Child.permission,
                  context |-> Top.context, depth |-> Top.depth,
                  pending |-> ListRelatedObjects(tuples, Top.object, Child.relation)])
    /\ UNCHANGED visited

OpenTargets ==
    {o \in Top.pending : /\ Node(o, Top.permission) \notin visited
                         /\ HasPermission(o.type, Top.permission)}

WalkTarget(o) ==
    /\ Running("targets") /\ o \in OpenTargets
    /\ walkPermission(o, Top.permission, Top.context, Top.depth + 1, LoopWithout(o))
    /\ Local

\* What the body of either loop does with the result of walkPermission.
LoopReturns ==
    /\ stack # <<>> /\ Top.kind \in {"usersets", "targets"} /\ ret # "none"
    /\ IF ret = "deny" THEN ret' = "none" /\ UNCHANGED stack ELSE Return(ret)
    /\ UNCHANGED visited /\ Local

LoopEnds ==
    /\ \/ Running("usersets") /\ OpenUsersets = {}
       \/ Running("targets") /\ OpenTargets = {}
    /\ Return("deny")
    /\ UNCHANGED visited /\ Local

-----------------------------------------------------------------------------
(* evaluateCondition, inline or at the end of a check.  Attributes that    *)
(* cannot be read count as absent.                                         *)

ConditionFrame(condition, object, context) ==
    [kind |-> "condition", condition |-> condition, object |-> object,
     context |-> context, read |-> FALSE, attrs |-> NoAttrs]

WalkCondition ==
    /\ Running("permission") /\ Child.kind = "condition"
    /\ Push(ConditionFrame(Child.condition, Top.object, Top.context))
    /\ UNCHANGED visited /\ Local

GetObjectAttributes(ok) ==
    /\ Running("condition") /\ ~Top.read
    /\ Read(ok)
    /\ stack' = <<[Top EXCEPT !.read = TRUE,
                              !.attrs = IF ok THEN objAttrs[Top.object] ELSE NoAttrs]>>
                \o Tail(stack)
    /\ UNCHANGED <<visited, ret>>

GetSubjectAttributes(ok) ==
    /\ Running("condition") /\ Top.read
    /\ Read(ok)
    /\ Return(Evaluate(Top.condition, Top.attrs,
                       IF ok THEN subAttrs[Subject] ELSE NoAttrs, Top.context))
    /\ UNCHANGED visited

-----------------------------------------------------------------------------
(* Check and the handlers.                                                 *)

Answer(outcome) ==
    /\ answers' = Append(answers, outcome)
    /\ items' = Tail(items)
    /\ stack' = <<>> /\ ret' = "none"

\* BuildContext: the tenant is read once for all items.  A read that fails
\* ends the request (400) before anything is checked.
StartRequest(batch) ==
    /\ tc = "none" /\ batch # <<>>
    /\ tc' = status
    /\ items' = batch
    /\ UNCHANGED <<storeVars, faults, answers, walkVars, seen>>

\* The guards of Check use the status in the context, not the stored one.
BeginCheck ==
    /\ items # <<>> /\ stack = <<>>
    /\ seen' = [ever |-> tuples, always |-> tuples,
                obj |-> [e \in Entities |-> {objAttrs[e]}],
                sub |-> [e \in Entities |-> {subAttrs[e]}],
                statuses |-> {status}, item |-> Head(items)]
    /\ LET i == Head(items)
       IN  IF tc \in {"deleted", "pending"} \/ ~HasPermission(i.object.type, i.permission)
           THEN Answer("error") /\ visited' = newVisitedSet
           ELSE /\ visited' = newVisitedSet \cup {Node(i.object, i.permission)}
                /\ stack' = <<[kind |-> "permission", object |-> i.object,
                               permission |-> i.permission, context |-> i.context,
                               depth |-> 0, child |-> 1],
                              [kind |-> "check", gated |-> FALSE]>>
                /\ ret' = "none"
                /\ UNCHANGED <<items, answers>>
    /\ UNCHANGED <<storeVars, faults, tc>>

\* An allowed walk still has to pass the condition of the permission.
EndCheck ==
    /\ stack # <<>> /\ Top.kind = "check" /\ ret # "none"
    /\ LET i == Head(items)
           gate == GetPermission(i.object.type, i.permission).condition
       IN  IF ret = "allow" /\ gate # NoCondition /\ ~Top.gated
           THEN /\ stack' = <<ConditionFrame(gate, i.object, i.context),
                              [kind |-> "check", gated |-> TRUE]>>
                /\ ret' = "none"
                /\ UNCHANGED <<items, answers>>
           ELSE Answer(ret)
    /\ UNCHANGED <<storeVars, faults, tc, visited, seen>>

\* The handler answers with one decision per item: an error is a false.
Decision(outcome) == outcome = "allow"

Respond ==
    /\ tc # "none" /\ items = <<>>
    /\ tc' = "none" /\ answers' = <<>>
    /\ UNCHANGED <<storeVars, faults, items, walkVars, seen>>

-----------------------------------------------------------------------------
(* Everybody else: writers, the clock that expires tuples, operators.      *)

Change ==
    /\ changes < MaxChanges
    /\ changes' = changes + 1
    /\ UNCHANGED <<faults, tc, items, answers, walkVars>>

WriteTuple(x) ==
    /\ Change /\ status = "active" /\ x \notin tuples
    /\ tuples' = tuples \cup {x}
    /\ seen' = [seen EXCEPT !.ever = @ \cup {x}]
    /\ UNCHANGED <<objAttrs, subAttrs, status, had>>

\* DeleteTuple, while the tenant is active, or the tuple's deadline.
WithdrawTuple(x) ==
    /\ Change /\ x \in tuples
    /\ tuples' = tuples \ {x}
    /\ seen' = [seen EXCEPT !.always = @ \ {x}]
    /\ UNCHANGED <<objAttrs, subAttrs, status, had>>

SetObjectAttributes(e, a) ==
    /\ Change /\ status = "active" /\ a # objAttrs[e]
    /\ objAttrs' = [objAttrs EXCEPT ![e] = a]
    /\ seen' = [seen EXCEPT !.obj[e] = @ \cup {a}]
    /\ UNCHANGED <<tuples, subAttrs, status, had>>

SetSubjectAttributes(e, a) ==
    /\ Change /\ status = "active" /\ a # subAttrs[e]
    /\ subAttrs' = [subAttrs EXCEPT ![e] = a]
    /\ seen' = [seen EXCEPT !.sub[e] = @ \cup {a}]
    /\ UNCHANGED <<tuples, objAttrs, status, had>>

\* The checks of Activate, Suspend and Delete on the status r they have read.
MayBecome(r, s) ==
    \/ s \in {"active", "deleted"} /\ r # "deleted"
    \/ s = "suspended" /\ r = "active"

\* A lifecycle call reads the tenant, checks it and writes it back without a
\* lock, so what it checked is any status the tenant has had: a deleted tenant
\* can become active again.  The server that starts and activates the super
\* tenant adds nothing: every tenant has been pending or active.
SetStatus(s) ==
    /\ Change /\ s # status
    /\ \E r \in had : MayBecome(r, s)
    /\ status' = s
    /\ had' = had \cup {s}
    /\ seen' = [seen EXCEPT !.statuses = @ \cup {s}]
    /\ UNCHANGED <<tuples, objAttrs, subAttrs>>

-----------------------------------------------------------------------------
Init ==
    /\ tuples \in InitialTuples
    /\ objAttrs = [e \in Entities |-> NoAttrs]
    /\ subAttrs = [e \in Entities |-> NoAttrs]
    /\ status \in {"pending", "active"} /\ had = {status}
    /\ changes = 0 /\ faults = 0
    /\ tc = "none" /\ items = <<>> /\ answers = <<>>
    /\ stack = <<>> /\ visited = {} /\ ret = "none"
    /\ seen = [ever |-> {}, always |-> {}, obj |-> [e \in Entities |-> {}],
               sub |-> [e \in Entities |-> {}], statuses |-> {status}, item |-> NoContext]

Loop ==
    \/ \E u \in IF Running("usersets") THEN OpenUsersets ELSE {} :
          WalkUserset(u) \/ \E ok \in BOOLEAN : CheckUserset(u, ok)
    \/ \E o \in IF Running("targets") THEN OpenTargets ELSE {} : WalkTarget(o)
    \/ LoopReturns
    \/ LoopEnds

\* What the goroutine of the request does.
Handler ==
    \/ BeginCheck
    \/ EndCheck
    \/ ChildReturns
    \/ \E ok \in BOOLEAN : WalkDirect(ok)
    \/ \E ok \in BOOLEAN : ListUsersets(ok)
    \/ \E ok \in BOOLEAN : WalkArrow(ok)
    \/ WalkCondition
    \/ \E ok \in BOOLEAN : GetObjectAttributes(ok)
    \/ \E ok \in BOOLEAN : GetSubjectAttributes(ok)
    \/ Loop
    \/ Respond

Environment ==
    \/ \E x \in Universe : WriteTuple(x)
    \/ \E x \in Universe : WithdrawTuple(x)
    \/ \E e \in Entities, a \in Attrs : SetObjectAttributes(e, a)
    \/ \E e \in Entities, a \in Attrs : SetSubjectAttributes(e, a)
    \/ \E s \in NewStatuses : SetStatus(s)

Next == (\E batch \in Batches : StartRequest(batch)) \/ Handler \/ Environment

\* A goroutine that has work is scheduled, and every store call returns.
Spec == Init /\ [][Next]_vars /\ WF_vars(Handler)

-----------------------------------------------------------------------------
(* What the documentation says a permission means: the least set of nodes  *)
(* closed under the schema's rules.  A walk that takes no snapshot is held *)
(* to two readings of it.  "may" is the most generous one, with the tuples *)
(* and attributes that were there at some moment of the check, "must" the  *)
(* strictest, with those that were there all along; what an exclusion      *)
(* subtracts is read the other way.  The levels below compute it by        *)
(* iteration; exclusions must not lie on a cycle of the schema.            *)

Opposite(p) == IF p = "may" THEN "must" ELSE "may"

Held(p) == IF p = "may" THEN seen.ever ELSE seen.always

Satisfied(p, condition, object) ==
    LET holds(a, b) == Evaluate(condition, a, b, seen.item.context) = "allow"
    IN  IF p = "may"
        THEN \E a \in seen.obj[object], b \in seen.sub[Subject] : holds(a, b)
        ELSE \A a \in seen.obj[object], b \in seen.sub[Subject] : holds(a, b)

\* A userset stands for everybody who has its relation or permission.
RelationMeans(m, p, object, relation) ==
    \/ CheckDirect(Held(p), object, relation, Subject)
    \/ \E u \in ListSubjects(Held(p), object, relation) :
          u.relation # Direct /\ m[<<p, u.ref, u.relation>>]

\* A name in a list is a relation or another permission of the type.
ChildMeans(m, p, object, child) ==
    CASE child.kind = "relation" ->
            \/ RelationMeans(m, p, object, child.relation)
            \/ HasPermission(object.type, child.relation) /\ m[<<p, object, child.relation>>]
      [] child.kind = "arrow" ->
            \E o \in ListRelatedObjects(Held(p), object, child.relation) :
               HasPermission(o.type, child.permission) /\ m[<<p, o, child.permission>>]
      [] child.kind = "condition" -> Satisfied(p, child.condition, object)

PermissionMeans(m, p, object, def) ==
    LET means(q, k) == ChildMeans(m, q, object, def.children[k])
        K == DOMAIN def.children
    IN  /\ CASE def.op \in {"union", "direct"} -> \E k \in K : means(p, k)
             [] def.op = "intersect" -> \A k \in K : means(p, k)
             [] def.op = "exclusion" ->
                   means(p, 1) /\ \A k \in K \ {1} : ~means(Opposite(p), k)
        /\ def.condition = NoCondition \/ Satisfied(p, def.condition, object)

Names == {x.relation : x \in Universe} \cup {x.subjectRelation : x \in Universe}
         \cup {n.permission : n \in Nodes}

ASSUME FiniteAssumption == IsFiniteSet(Entities) /\ IsFiniteSet(Names)

Points == {"may", "must"} \X Entities \X Names

Levels == Cardinality(Entities \X Names)

NextLevel(m) ==
    [x \in Points |->
        IF HasPermission(x[2].type, x[3])
        THEN PermissionMeans(m, x[1], x[2], GetPermission(x[2].type, x[3]))
        ELSE RelationMeans(m, x[1], x[2], x[3])]

level[n \in 0..Levels] ==
    IF n = 0 THEN [x \in Points |-> FALSE] ELSE NextLevel(level[n - 1])

Meaning == level[Levels]

-----------------------------------------------------------------------------
(* Properties.                                                             *)

Depths == 0..MaxCheckDepth

CheckFrame      == [kind : {"check"}, gated : BOOLEAN]
PermissionFrame == [kind : {"permission"}, object : Entities, permission : STRING,
                    context : Contexts \cup {NoContext}, depth : Depths, child : Nat \ {0}]
RelationFrame   == [kind : {"relation"}, object : Entities, relation : STRING, depth : Depths]
UsersetsFrame   == [kind : {"usersets"}, depth : Depths,
                    pending : SUBSET [ref : Entities, relation : STRING]]
TargetsFrame    == [kind : {"targets"}, permission : STRING, context : Contexts \cup {NoContext},
                    depth : Depths, pending : SUBSET Entities]
EvaluationFrame == [kind : {"condition"}, condition : Conditions, object : Entities,
                    context : Contexts \cup {NoContext}, read : BOOLEAN,
                    attrs : Attrs \cup {NoAttrs}]

Frame == CheckFrame \cup PermissionFrame \cup RelationFrame \cup UsersetsFrame
         \cup TargetsFrame \cup EvaluationFrame

TypeOK ==
    /\ tuples \subseteq Universe
    /\ objAttrs \in [Entities -> Attrs \cup {NoAttrs}]
    /\ subAttrs \in [Entities -> Attrs \cup {NoAttrs}]
    /\ status \in Statuses /\ had \subseteq Statuses
    /\ changes \in 0..MaxChanges /\ faults \in 0..MaxFaults
    /\ tc \in Statuses \cup {"none"}
    /\ items \in Seq(Item) /\ answers \in Seq(Outcomes)
    /\ stack \in Seq(Frame) /\ visited \subseteq Nodes
    /\ ret \in Outcomes \cup {"none"}

Walking == {i \in DOMAIN stack : stack[i].kind = "permission"}

\* The permissions being walked are a simple path: no node is on the stack
\* twice, every node on it is in the visited set, and a frame of depth d
\* stands on frames of all smaller depths.  So a cycle of tuples, also one
\* written during the walk, cannot make the engine go round, and the depth
\* limit is met only by more than MaxCheckDepth different nodes.
PathIsSimple ==
    /\ \A i, j \in Walking :
          Node(stack[i].object, stack[i].permission) = Node(stack[j].object, stack[j].permission)
             => i = j
    /\ \A i \in Walking :
          /\ Node(stack[i].object, stack[i].permission) \in visited
          /\ \A d \in 0..stack[i].depth : \E j \in Walking : j >= i /\ stack[j].depth = d

\* The outcome of the check that ended last, with what was seen during it.
Ended(outcome) ==
    stack = <<>> /\ answers # <<>> /\ answers[Len(answers)] = outcome

\* A check allows only what the tuples and attributes of its duration grant:
\* no interleaving of writes, no failing read, no deletion of the tenant and
\* no skipped node makes it allow anything else.
AllowIsJustified ==
    Ended("allow") => Meaning[<<"may", seen.item.object, seen.item.permission>>]

\* A check that denies, without an error and without a failing read, missed
\* nothing that was granted all along: skipping visited nodes loses no path.
\* The reads of a tenant that was deleted for a while may have failed.
DenyIsJustified ==
    Ended("deny") /\ faults = 0 /\ "deleted" \notin seen.statuses
        => ~Meaning[<<"must", seen.item.object, seen.item.permission>>]

\* What the conditions of a permission decide with no attribute to be read: a
\* child that asks for tuples fails, and the ones after it are not asked.
ConditionsGrant(i) ==
    LET def     == GetPermission(i.object.type, i.permission)
        K       == DOMAIN def.children
        says(c) == Evaluate(c, NoAttrs, NoAttrs, i.context)
        is(k, r) == def.children[k].kind = "condition" /\ says(def.children[k].condition) = r
    IN  /\ CASE def.op \in {"union", "direct"} ->
                   \E k \in K : is(k, "allow") /\ \A j \in 1..(k - 1) : is(j, "deny")
             [] def.op = "intersect" -> \A k \in K : is(k, "allow")
             [] def.op = "exclusion" ->
                   is(1, "allow") /\ \A k \in K \ {1} : is(k, "deny")
        /\ def.condition = NoCondition \/ says(def.condition) = "allow"

\* A check of a tenant that is deleted all through it, in a request whose
\* context was built before the deletion, allows nothing that needs a tuple
\* or an attribute.  What conditions on the request alone grant it still
\* allows: the walk reaches them before any read of tuples, and attributes
\* that cannot be read count as absent.
DeletedTenantDenies ==
    Ended("allow") /\ seen.statuses = {"deleted"} => ConditionsGrant(seen.item)

\* Every request is answered: the walk ends whatever cycles the tuples form
\* and whatever is written meanwhile.
EveryRequestAnswered == (tc # "none") ~> (tc = "none")
=============================================================================
