------------------------- MODULE CheckEngineProofs --------------------------
(* Theorems about the permission check, for every schema, every set of      *)
(* tuples, conditions and attributes and every depth limit: what a check   *)
(* may read and how it ends, and what an allowed and a denied check mean.   *)
EXTENDS CheckEngine, SequenceTheorems, Recursion

USE EngineAssumption, SchemaAssumption

-----------------------------------------------------------------------------
(* The inductive invariant.                                                 *)

\* What the history variable holds.
Seen == [ever : SUBSET Universe, always : SUBSET Universe,
         obj : [Entities -> SUBSET (Attrs \cup {NoAttrs})],
         sub : [Entities -> SUBSET (Attrs \cup {NoAttrs})],
         statuses : SUBSET Statuses, item : Item \cup {NoContext}]

\* The walk is on permissions that the schema has, and at children they have.
OnSchema(f) ==
    f.kind = "permission" =>
        /\ HasPermission(f.object.type, f.permission)
        /\ f.child <= Len(GetPermission(f.object.type, f.permission).children)

\* Items wait only for a request with a context, and a check in progress
\* answers the first of them, whose permission exists.
Asked ==
    /\ tc = "none" => items = <<>>
    /\ stack # <<>> => /\ items # <<>>
                       /\ HasPermission(Head(items).object.type, Head(items).permission)

\* The path, of a stack s and a visited set v.  A frame stands on permission
\* frames of all depths below its own; the loops and the relation that a
\* permission frame calls stand on its own depth too.
Walks(f)  == f.kind = "permission"
NodeOf(f) == Node(f.object, f.permission)

Stands(f, d) ==
    CASE Walks(f) -> d < f.depth
      [] f.kind \in {"relation", "usersets", "targets"} -> d <= f.depth
      [] OTHER -> FALSE

PathOK(s, v) ==
    /\ \A i \in DOMAIN s : Walks(s[i]) => NodeOf(s[i]) \in v
    /\ \A i, j \in DOMAIN s : i < j /\ Walks(s[i]) /\ Walks(s[j]) => NodeOf(s[i]) # NodeOf(s[j])
    /\ \A i \in DOMAIN s, d \in Nat :
          Stands(s[i], d) => \E j \in DOMAIN s : i < j /\ Walks(s[j]) /\ s[j].depth = d

EInv ==
    /\ TypeOK
    /\ seen \in Seen /\ status \in seen.statuses
    /\ \A i \in DOMAIN stack : OnSchema(stack[i])
    /\ Asked
    /\ PathOK(stack, visited)

-----------------------------------------------------------------------------
(* Stacks.                                                                  *)

\* A frame on top of a single other one.
LEMMA PairProperties ==
    ASSUME NEW S, NEW f \in S, NEW g \in S
    PROVE  <<f>> \o <<g>> = <<f, g>>
<1>1. <<f>> \o <<g>> \in Seq(S) /\ <<f, g>> \in Seq(S)
  OBVIOUS
<1>2. Len(<<f>> \o <<g>>) = 2 /\ Len(<<f, g>>) = 2
  OBVIOUS
<1>3. (<<f>> \o <<g>>)[1] = f /\ (<<f>> \o <<g>>)[2] = g
  OBVIOUS
<1>4. \A i \in 1..2 : (<<f>> \o <<g>>)[i] = (<<f, g>>)[i]
  BY <1>3
<1>5. QED BY <1>1, <1>2, <1>4, SeqEqual

\* A frame on top of a stack.
LEMMA ConsProperties ==
    ASSUME NEW S, NEW f \in S, NEW b \in Seq(S)
    PROVE  /\ <<f>> \o b \in Seq(S) /\ <<f>> \o b # <<>>
           /\ DOMAIN (<<f>> \o b) = 1..(Len(b) + 1) /\ DOMAIN b = 1..Len(b) /\ Len(b) \in Nat
           /\ (<<f>> \o b)[1] = f
           /\ \A i \in 1..Len(b) : (<<f>> \o b)[i + 1] = b[i]
OBVIOUS

\* The stack without its top.
LEMMA TailProperties ==
    ASSUME NEW S, NEW s \in Seq(S), s # <<>>
    PROVE  /\ Tail(s) \in Seq(S) /\ Head(s) \in S /\ Head(s) = s[1]
           /\ DOMAIN s = 1..Len(s) /\ Len(s) \in Nat /\ Len(s) >= 1
           /\ DOMAIN Tail(s) = 1..(Len(s) - 1)
           /\ \A i \in 1..(Len(s) - 1) : Tail(s)[i] = s[i + 1]
OBVIOUS

\* A property of all frames, of the top and of the rest.
LEMMA PathTail ==
    ASSUME NEW s \in Seq(Frame), s # <<>>, NEW v, PathOK(s, v)
    PROVE  PathOK(Tail(s), v)
<1> DEFINE b == Tail(s)
<1>1. /\ DOMAIN s = 1..Len(s) /\ Len(s) \in Nat /\ Len(s) >= 1 /\ DOMAIN b = 1..(Len(s) - 1)
      /\ \A i \in 1..(Len(s) - 1) : b[i] = s[i + 1]
  BY TailProperties
<1> HIDE DEF b
<1>2. \A i \in DOMAIN b : i + 1 \in DOMAIN s /\ b[i] = s[i + 1] /\ i \in Nat
  BY <1>1
<1>3. \A i \in DOMAIN b : Walks(b[i]) => NodeOf(b[i]) \in v
  BY <1>2 DEF PathOK
<1>4. \A i, j \in DOMAIN b : i < j /\ Walks(b[i]) /\ Walks(b[j]) => NodeOf(b[i]) # NodeOf(b[j])
  <2> SUFFICES ASSUME NEW i \in DOMAIN b, NEW j \in DOMAIN b, i < j, Walks(b[i]), Walks(b[j])
               PROVE  NodeOf(b[i]) # NodeOf(b[j])
    OBVIOUS
  <2>1. i + 1 < j + 1
    BY <1>2
  <2>2. QED BY <1>2, <2>1 DEF PathOK
<1>5. ASSUME NEW i \in DOMAIN b, NEW d \in Nat, Stands(b[i], d)
      PROVE  \E j \in DOMAIN b : i < j /\ Walks(b[j]) /\ b[j].depth = d
  <2>1. PICK k \in DOMAIN s : i + 1 < k /\ Walks(s[k]) /\ s[k].depth = d
    BY <1>2, <1>5 DEF PathOK
  <2>2. k - 1 \in DOMAIN b /\ i < k - 1 /\ (k - 1) + 1 = k
    BY <1>1, <1>2, <2>1
  <2>3. b[k - 1] = s[k]
    BY <1>2, <2>2
  <2>4. QED BY <2>1, <2>2, <2>3
<1>6. QED BY <1>3, <1>4, <1>5 DEF PathOK, b

\* What the top of a path says of the rest.
LEMMA PathHead ==
    ASSUME NEW s \in Seq(Frame), s # <<>>, NEW v, PathOK(s, v)
    PROVE  /\ Walks(Head(s)) => NodeOf(Head(s)) \in v
           /\ \A j \in DOMAIN Tail(s) :
                 Walks(Head(s)) /\ Walks(Tail(s)[j]) => NodeOf(Tail(s)[j]) # NodeOf(Head(s))
           /\ \A d \in Nat : Stands(Head(s), d) =>
                 \E j \in DOMAIN Tail(s) : Walks(Tail(s)[j]) /\ Tail(s)[j].depth = d
<1> DEFINE b == Tail(s)
           f == Head(s)
<1>1. /\ DOMAIN s = 1..Len(s) /\ Len(s) \in Nat /\ Len(s) >= 1 /\ DOMAIN b = 1..(Len(s) - 1)
      /\ f = s[1] /\ \A i \in 1..(Len(s) - 1) : b[i] = s[i + 1]
  BY TailProperties
<1> HIDE DEF b, f
<1>2. 1 \in DOMAIN s /\ \A i \in DOMAIN b : i + 1 \in DOMAIN s /\ 1 < i + 1 /\ b[i] = s[i + 1]
  BY <1>1
<1>3. Walks(f) => NodeOf(f) \in v
  BY <1>1, <1>2 DEF PathOK
<1>4. \A j \in DOMAIN b : Walks(f) /\ Walks(b[j]) => NodeOf(b[j]) # NodeOf(f)
  BY <1>1, <1>2 DEF PathOK
<1>5. ASSUME NEW d \in Nat, Stands(f, d)
      PROVE  \E j \in DOMAIN b : Walks(b[j]) /\ b[j].depth = d
  <2>1. PICK k \in DOMAIN s : 1 < k /\ Walks(s[k]) /\ s[k].depth = d
    BY <1>1, <1>2, <1>5 DEF PathOK
  <2>2. k - 1 \in DOMAIN b /\ (k - 1) + 1 = k
    BY <1>1, <2>1
  <2>3. b[k - 1] = s[k]
    BY <1>2, <2>2
  <2>4. QED BY <2>1, <2>2, <2>3
<1>6. QED BY <1>3, <1>4, <1>5 DEF b, f

\* A frame may be put on a path if its node is new to it and the depths it
\* stands on are there.
LEMMA PathCons ==
    ASSUME NEW b \in Seq(Frame), NEW f \in Frame, NEW v, NEW w, PathOK(b, v), v \subseteq w,
           Walks(f) => NodeOf(f) \in w,
           \A j \in DOMAIN b : Walks(f) /\ Walks(b[j]) => NodeOf(b[j]) # NodeOf(f),
           \A d \in Nat : Stands(f, d) => \E j \in DOMAIN b : Walks(b[j]) /\ b[j].depth = d
    PROVE  PathOK(<<f>> \o b, w)
<1> DEFINE s == <<f>> \o b
<1>1. /\ DOMAIN s = 1..(Len(b) + 1) /\ DOMAIN b = 1..Len(b) /\ Len(b) \in Nat
      /\ s[1] = f /\ \A i \in 1..Len(b) : s[i + 1] = b[i]
  BY ConsProperties
<1> HIDE DEF s
<1>2. ASSUME NEW i \in DOMAIN s
      PROVE  i = 1 \/ \E k \in DOMAIN b : i = k + 1
  <2>1. i # 1 => i - 1 \in DOMAIN b /\ i = (i - 1) + 1
    BY <1>1
  <2>2. QED BY <2>1
<1>3. \A k \in DOMAIN b : k + 1 \in DOMAIN s /\ 1 < k + 1 /\ s[k + 1] = b[k] /\ k \in Nat
  BY <1>1
<1>4. \A i \in DOMAIN s : Walks(s[i]) => NodeOf(s[i]) \in w
  BY <1>1, <1>2, <1>3 DEF PathOK
<1>5. ASSUME NEW i \in DOMAIN s, NEW j \in DOMAIN s, i < j, Walks(s[i]), Walks(s[j])
      PROVE  NodeOf(s[i]) # NodeOf(s[j])
  <2>1. PICK m \in DOMAIN b : j = m + 1
    BY <1>1, <1>2, <1>5
  <2>2. CASE i = 1
    BY <1>1, <1>3, <1>5, <2>1, <2>2
  <2>3. CASE \E k \in DOMAIN b : i = k + 1
    <3>1. PICK k \in DOMAIN b : i = k + 1
      BY <2>3
    <3>2. k < m
      BY <1>3, <1>5, <2>1, <3>1
    <3>3. QED BY <1>3, <1>5, <2>1, <3>1, <3>2 DEF PathOK
  <2>4. QED BY <1>2, <2>2, <2>3
<1>6. ASSUME NEW i \in DOMAIN s, NEW d \in Nat, Stands(s[i], d)
      PROVE  \E j \in DOMAIN s : i < j /\ Walks(s[j]) /\ s[j].depth = d
  <2>1. CASE i = 1
    BY <1>1, <1>3, <1>6, <2>1
  <2>2. CASE \E k \in DOMAIN b : i = k + 1
    <3>1. PICK k \in DOMAIN b : i = k + 1
      BY <2>2
    <3>2. PICK m \in DOMAIN b : k < m /\ Walks(b[m]) /\ b[m].depth = d
      BY <1>3, <1>6, <3>1 DEF PathOK
    <3>3. k + 1 < m + 1
      BY <1>3, <3>2
    <3>4. QED BY <1>3, <3>1, <3>2, <3>3
  <2>3. QED BY <1>2, <2>1, <2>2
<1>7. QED BY <1>4, <1>5, <1>6 DEF PathOK, s

-----------------------------------------------------------------------------
(* Stacks of frames that fit the schema and form a path.                    *)

Good(s, v) ==
    /\ s \in Seq(Frame)
    /\ \A i \in DOMAIN s : OnSchema(s[i])
    /\ PathOK(s, v)

\* The kind of a frame says which fields it has.
LEMMA FrameKinds ==
    ASSUME NEW f \in Frame
    PROVE  /\ f.kind = "check" => f \in CheckFrame
           /\ f.kind = "permission" => f \in PermissionFrame
           /\ f.kind = "relation" => f \in RelationFrame
           /\ f.kind = "usersets" => f \in UsersetsFrame
           /\ f.kind = "targets" => f \in TargetsFrame
           /\ f.kind = "condition" => f \in EvaluationFrame
<1>1. CASE f \in CheckFrame
  BY <1>1 DEF CheckFrame
<1>2. CASE f \in PermissionFrame
  BY <1>2 DEF PermissionFrame
<1>3. CASE f \in RelationFrame
  BY <1>3 DEF RelationFrame
<1>4. CASE f \in UsersetsFrame
  BY <1>4 DEF UsersetsFrame
<1>5. CASE f \in TargetsFrame
  BY <1>5 DEF TargetsFrame
<1>6. CASE f \in EvaluationFrame
  BY <1>6 DEF EvaluationFrame
<1>7. QED BY <1>1, <1>2, <1>3, <1>4, <1>5, <1>6 DEF Frame

\* The call at the top returns.
LEMMA GoodTail ==
    ASSUME NEW s, NEW v, Good(s, v), s # <<>>
    PROVE  Good(Tail(s), v) /\ Head(s) \in Frame /\ OnSchema(Head(s))
<1>1. s \in Seq(Frame) /\ PathOK(s, v)
  BY DEF Good
<1>2. /\ Tail(s) \in Seq(Frame) /\ Head(s) \in Frame /\ Head(s) = s[1]
      /\ DOMAIN s = 1..Len(s) /\ Len(s) \in Nat /\ Len(s) >= 1
      /\ DOMAIN Tail(s) = 1..(Len(s) - 1)
      /\ \A i \in 1..(Len(s) - 1) : Tail(s)[i] = s[i + 1]
  BY <1>1, TailProperties
<1>3. \A i \in 1..(Len(s) - 1) : i + 1 \in DOMAIN s
  BY <1>2
<1>4. OnSchema(Head(s)) /\ \A i \in DOMAIN Tail(s) : OnSchema(Tail(s)[i])
  BY <1>2, <1>3 DEF Good
<1>5. PathOK(Tail(s), v)
  BY <1>1, PathTail
<1>6. QED BY <1>2, <1>4, <1>5 DEF Good

\* A frame is put on a stack.
LEMMA GoodCons ==
    ASSUME NEW b, NEW f \in Frame, NEW v, NEW w, Good(b, v), v \subseteq w, OnSchema(f),
           Walks(f) => NodeOf(f) \in w,
           \A j \in DOMAIN b : Walks(f) /\ Walks(b[j]) => NodeOf(b[j]) # NodeOf(f),
           \A d \in Nat : Stands(f, d) => \E j \in DOMAIN b : Walks(b[j]) /\ b[j].depth = d
    PROVE  Good(<<f>> \o b, w)
<1>1. b \in Seq(Frame) /\ PathOK(b, v) /\ \A i \in DOMAIN b : OnSchema(b[i])
  BY DEF Good
<1>2. PathOK(<<f>> \o b, w)
  BY <1>1, PathCons
<1>3. /\ <<f>> \o b \in Seq(Frame)
      /\ DOMAIN (<<f>> \o b) = 1..(Len(b) + 1) /\ DOMAIN b = 1..Len(b) /\ Len(b) \in Nat
      /\ (<<f>> \o b)[1] = f
      /\ \A i \in 1..Len(b) : (<<f>> \o b)[i + 1] = b[i]
  BY <1>1, ConsProperties
<1>4. ASSUME NEW i \in DOMAIN (<<f>> \o b)
      PROVE  OnSchema((<<f>> \o b)[i])
  <2> DEFINE s == <<f>> \o b
  <2> HIDE DEF s
  <2>1. CASE i = 1
    BY <1>3, <2>1 DEF s
  <2>2. CASE i # 1
    <3>1. i - 1 \in 1..Len(b) /\ (i - 1) + 1 = i
      BY <1>3, <1>4, <2>2 DEF s
    <3>2. s[i] = b[i - 1]
      BY <1>3, <3>1 DEF s
    <3>3. QED BY <1>1, <1>3, <3>1, <3>2 DEF s
  <2>3. QED BY <2>1, <2>2
<1>5. QED BY <1>2, <1>3, <1>4 DEF Good

\* The call at the top goes on, with the same node if it has one.
LEMMA GoodReplace ==
    ASSUME NEW s, NEW v, Good(s, v), s # <<>>, NEW f \in Frame, OnSchema(f),
           Walks(f) => Walks(Head(s)) /\ NodeOf(f) = NodeOf(Head(s)),
           \A d \in Nat : Stands(f, d) => Stands(Head(s), d)
    PROVE  Good(<<f>> \o Tail(s), v)
<1>1. s \in Seq(Frame) /\ PathOK(s, v)
  BY DEF Good
<1>2. Good(Tail(s), v)
  BY GoodTail
<1>3. /\ Walks(Head(s)) => NodeOf(Head(s)) \in v
      /\ \A j \in DOMAIN Tail(s) :
            Walks(Head(s)) /\ Walks(Tail(s)[j]) => NodeOf(Tail(s)[j]) # NodeOf(Head(s))
      /\ \A d \in Nat : Stands(Head(s), d) =>
            \E j \in DOMAIN Tail(s) : Walks(Tail(s)[j]) /\ Tail(s)[j].depth = d
  BY <1>1, PathHead
<1> DEFINE b == Tail(s)
           h == Head(s)
<1> HIDE DEF b, h
<1>4. /\ Walks(f) => NodeOf(f) \in v
      /\ \A j \in DOMAIN b : Walks(f) /\ Walks(b[j]) => NodeOf(b[j]) # NodeOf(f)
      /\ \A d \in Nat : Stands(f, d) => \E j \in DOMAIN b : Walks(b[j]) /\ b[j].depth = d
  BY <1>3 DEF b, h
<1>5. Good(b, v)
  BY <1>2 DEF b
<1>6. Good(<<f>> \o b, v)
  BY <1>4, <1>5, GoodCons
<1>7. QED BY <1>6 DEF b

\* A permission calls a relation, a loop or a condition.
LEMMA GoodPush ==
    ASSUME NEW s, NEW v, Good(s, v), s # <<>>, NEW f \in Frame, ~Walks(f), Walks(Head(s)),
           \A d \in Nat : Stands(f, d) => d <= Head(s).depth
    PROVE  Good(<<f>> \o s, v)
<1>1. s \in Seq(Frame) /\ PathOK(s, v)
  BY DEF Good
<1>2. /\ Tail(s) \in Seq(Frame) /\ Head(s) \in Frame /\ Head(s) = s[1]
      /\ DOMAIN s = 1..Len(s) /\ Len(s) \in Nat /\ Len(s) >= 1
      /\ DOMAIN Tail(s) = 1..(Len(s) - 1)
      /\ \A i \in 1..(Len(s) - 1) : Tail(s)[i] = s[i + 1]
  BY <1>1, TailProperties
<1>3. 1 \in DOMAIN s /\ \A i \in DOMAIN Tail(s) : i + 1 \in DOMAIN s /\ s[i + 1] = Tail(s)[i]
  BY <1>2
<1>4. Head(s).depth \in Nat
  BY <1>2, FrameKinds DEF Walks, PermissionFrame, Depths
<1>5. ASSUME NEW d \in Nat, Stands(f, d)
      PROVE  \E j \in DOMAIN s : Walks(s[j]) /\ s[j].depth = d
  <2>1. CASE d = Head(s).depth
    <3>1. 1 \in DOMAIN s /\ Walks(s[1]) /\ s[1].depth = d
      BY <1>2, <1>3, <2>1
    <3>2. QED BY <3>1
  <2>2. CASE d # Head(s).depth
    <3>1. Stands(Head(s), d)
      BY <1>4, <1>5, <2>2 DEF Stands
    <3>2. PICK j \in DOMAIN Tail(s) : Walks(Tail(s)[j]) /\ Tail(s)[j].depth = d
      BY <1>1, <3>1, PathHead
    <3>3. QED BY <1>3, <3>2
  <2>3. QED BY <2>1, <2>2
<1>6. OnSchema(f)
  BY DEF OnSchema, Walks
<1>7. QED BY <1>5, <1>6, GoodCons

\* A loop calls walkPermission on a node that was not visited.
LEMMA GoodCall ==
    ASSUME NEW s, NEW v, Good(s, v), s # <<>>, Head(s).kind \in {"usersets", "targets"},
           NEW f \in Frame, Walks(f), OnSchema(f), NodeOf(f) \notin v,
           f.depth = Head(s).depth + 1
    PROVE  Good(<<f>> \o s, v \cup {NodeOf(f)})
<1>1. s \in Seq(Frame) /\ PathOK(s, v)
  BY DEF Good
<1>2. /\ Tail(s) \in Seq(Frame) /\ Head(s) \in Frame /\ Head(s) = s[1]
      /\ DOMAIN s = 1..Len(s) /\ Len(s) \in Nat /\ Len(s) >= 1
      /\ DOMAIN Tail(s) = 1..(Len(s) - 1)
      /\ \A i \in 1..(Len(s) - 1) : Tail(s)[i] = s[i + 1]
  BY <1>1, TailProperties
<1>3. \A i \in DOMAIN Tail(s) : i + 1 \in DOMAIN s /\ s[i + 1] = Tail(s)[i]
  BY <1>2
<1>4. Head(s).depth \in Nat
  BY <1>2, FrameKinds DEF UsersetsFrame, TargetsFrame, Depths
<1>5. ASSUME NEW d \in Nat, Stands(f, d)
      PROVE  \E j \in DOMAIN s : Walks(s[j]) /\ s[j].depth = d
  <2>1. d < f.depth
    BY <1>5 DEF Stands, Walks
  <2>2. d <= Head(s).depth
    BY <1>4, <2>1
  <2>3. Stands(Head(s), d)
    BY <2>2 DEF Stands, Walks
  <2>4. PICK j \in DOMAIN Tail(s) : Walks(Tail(s)[j]) /\ Tail(s)[j].depth = d
    BY <1>1, <2>3, PathHead
  <2>5. QED BY <1>3, <2>4
<1>6. \A j \in DOMAIN s : Walks(s[j]) => NodeOf(s[j]) # NodeOf(f)
  BY <1>1 DEF PathOK
<1>7. QED BY <1>5, <1>6, GoodCons

-----------------------------------------------------------------------------
(* Steps of the walk.                                                       *)

\* What the invariant says of the top of the stack.
LEMMA TopProperties ==
    ASSUME EInv, stack # <<>>
    PROVE  /\ Good(stack, visited) /\ Good(Tail(stack), visited)
           /\ Top \in Frame /\ OnSchema(Top)
<1>1. Good(stack, visited)
  BY DEF EInv, TypeOK, Good
<1>2. QED BY <1>1, GoodTail DEF Top

\* A step of the walk keeps the invariant if it leaves a good stack.
LEMMA WalkStep ==
    ASSUME EInv, stack # <<>>, Good(stack', visited'), visited' \subseteq Nodes,
           ret' \in Outcomes \cup {"none"}, faults' \in 0..MaxFaults,
           UNCHANGED <<storeVars, tc, items, answers, seen>>
    PROVE  EInv'
<1>1. UNCHANGED <<tuples, objAttrs, subAttrs, status, had, changes>>
  BY DEF storeVars
<1>2. TypeOK'
  BY <1>1 DEF EInv, TypeOK, Good
<1>3. Asked'
  BY DEF EInv, Asked
<1>4. /\ PathOK(stack', visited') /\ \A i \in DOMAIN stack' : OnSchema(stack'[i])
  BY DEF Good
<1>5. seen' \in Seen /\ status' \in seen'.statuses
  BY <1>1 DEF EInv
<1>6. QED BY <1>2, <1>3, <1>4, <1>5 DEF EInv

\* What a read and a step without one leave alone.
LEMMA ReadFrame ==
    ASSUME EInv, NEW ok \in BOOLEAN, Read(ok)
    PROVE  /\ faults' \in 0..MaxFaults
           /\ UNCHANGED <<storeVars, tc, items, answers, seen>>
<1>1. faults \in 0..MaxFaults
  BY DEF EInv, TypeOK
<1>2. CASE faults' = faults
  BY <1>1, <1>2 DEF Read
<1>3. CASE faults' # faults
  BY <1>1, <1>3 DEF Read
<1>4. QED BY <1>2, <1>3

\* What the steps of a walk leave alone.
LEMMA LocalFrame ==
    ASSUME EInv, Local
    PROVE  /\ faults' \in 0..MaxFaults
           /\ UNCHANGED <<storeVars, tc, items, answers, seen>>
BY DEF EInv, TypeOK, Local

\* A call returns to its caller.
LEMMA ReturnStep ==
    ASSUME EInv, stack # <<>>, NEW o \in Outcomes, Return(o), visited' = visited,
           faults' \in 0..MaxFaults, UNCHANGED <<storeVars, tc, items, answers, seen>>
    PROVE  EInv'
<1>1. Good(Tail(stack), visited)
  BY TopProperties
<1>2. stack' = Tail(stack) /\ ret' = o
  BY DEF Return
<1>3. Good(stack', visited')
  BY <1>1, <1>2
<1>4. visited' \subseteq Nodes
  BY DEF EInv, TypeOK
<1>5. QED BY <1>2, <1>3, <1>4, WalkStep

\* The stack stays as it is.
LEMMA ResultStep ==
    ASSUME EInv, stack # <<>>, stack' = stack, visited' = visited, ret' \in Outcomes \cup {"none"},
           faults' \in 0..MaxFaults, UNCHANGED <<storeVars, tc, items, answers, seen>>
    PROVE  EInv'
<1>1. Good(stack', visited')
  BY TopProperties
<1>2. visited' \subseteq Nodes
  BY DEF EInv, TypeOK
<1>3. QED BY <1>1, <1>2, WalkStep

\* The call at the top goes on as f.
LEMMA GoOnStep ==
    ASSUME EInv, stack # <<>>, NEW f \in Frame, OnSchema(f),
           stack' = <<f>> \o Tail(stack), visited' = visited, ret' \in Outcomes \cup {"none"},
           Walks(f) => Walks(Top) /\ NodeOf(f) = NodeOf(Top),
           \A d \in Nat : Stands(f, d) => Stands(Top, d),
           faults' \in 0..MaxFaults, UNCHANGED <<storeVars, tc, items, answers, seen>>
    PROVE  EInv'
<1>1. Good(stack, visited)
  BY TopProperties
<1>2. Good(<<f>> \o Tail(stack), visited)
  BY <1>1, GoodReplace DEF Top
<1>3. Good(stack', visited') /\ visited' \subseteq Nodes
  BY <1>2 DEF EInv, TypeOK
<1>4. QED BY <1>3, WalkStep

\* A permission calls f.
LEMMA CallStep ==
    ASSUME EInv, stack # <<>>, NEW f \in Frame, ~Walks(f), Walks(Top), Push(f), visited' = visited,
           \A d \in Nat : Stands(f, d) => d <= Top.depth,
           faults' \in 0..MaxFaults, UNCHANGED <<storeVars, tc, items, answers, seen>>
    PROVE  EInv'
<1>1. Good(stack, visited)
  BY TopProperties
<1>2. Good(<<f>> \o stack, visited)
  BY <1>1, GoodPush DEF Top
<1>3. Good(stack', visited') /\ visited' \subseteq Nodes /\ ret' = "none"
  BY <1>2 DEF EInv, TypeOK, Push
<1>4. QED BY <1>3, WalkStep

\* The permission being walked is compiled, and has the child it is at.
LEMMA ChildKnown ==
    ASSUME EInv, stack # <<>>, Top.kind = "permission"
    PROVE  /\ Top \in PermissionFrame /\ Top.depth \in Depths
           /\ Def \in PermissionDef /\ Child \in PermissionRef
           /\ Top.child \in 1..Len(Def.children) /\ Len(Def.children) \in Nat
<1>1. Top \in PermissionFrame /\ OnSchema(Top)
  BY TopProperties, FrameKinds
<1>2. Top.depth \in Depths /\ Top.child \in Nat \ {0}
  BY <1>1 DEF PermissionFrame
<1>3. HasPermission(Top.object.type, Top.permission) /\ Top.child <= Len(Def.children)
  BY <1>1 DEF OnSchema, Def
<1>4. Def \in PermissionDef
  BY <1>3 DEF HasPermission, GetPermission, Def
<1>5. Def.children \in Seq(PermissionRef)
  BY <1>4 DEF PermissionDef
<1>6. Len(Def.children) \in Nat /\ Top.child \in 1..Len(Def.children)
  BY <1>2, <1>3, <1>5
<1>7. Child \in PermissionRef
  BY <1>5, <1>6 DEF Child
<1>8. QED BY <1>1, <1>2, <1>4, <1>6, <1>7

\* The subjects and objects that tuples name.
LEMMA Listed ==
    ASSUME EInv, NEW object, NEW relation
    PROVE  /\ ListSubjects(tuples, object, relation) \subseteq [ref : Entities, relation : STRING]
           /\ ListRelatedObjects(tuples, object, relation) \subseteq Entities
<1>1. \A x \in OnRelation(tuples, object, relation) : SubjectOf(x) \in Entities /\ x.subjectRelation \in STRING
  BY TuplesAssumption DEF EInv, TypeOK, OnRelation
<1>2. QED BY <1>1 DEF ListSubjects, ListRelatedObjects

\* A permission of an entity is a node.
LEMMA NodeKnown ==
    ASSUME NEW e \in Entities, NEW p, HasPermission(e.type, p)
    PROVE  Node(e, p) \in Nodes /\ p \in STRING
BY DEF HasPermission, Node, Nodes

-----------------------------------------------------------------------------
(* The actions.                                                             *)

\* What the children of a permission decide is an outcome, or there is a next
\* child to ask.
LEMMA CombineProperties ==
    ASSUME NEW op \in {"direct", "union", "intersect", "exclusion"}, NEW n \in Nat,
           NEW last \in BOOLEAN, NEW r \in Outcomes
    PROVE  /\ Combine(op, n, last, r) \in Outcomes \cup {"none"}
           /\ Combine(op, n, last, r) = "none" => ~last
<1>1. CASE r = "error"
  BY <1>1 DEF Combine, Outcomes
<1>2. CASE r # "error" /\ op \in {"direct", "union"}
  BY <1>2 DEF Combine, Outcomes
<1>3. CASE r # "error" /\ op = "intersect"
  BY <1>3 DEF Combine, Outcomes
<1>4. CASE r # "error" /\ op = "exclusion"
  BY <1>4 DEF Combine, Outcomes
<1>5. QED BY <1>1, <1>2, <1>3, <1>4

\* A branch of a permission returned.
LEMMA ChildReturnsPreserves ==
    ASSUME EInv, ChildReturns
    PROVE  EInv'
<1> DEFINE o == Combine(Def.op, Top.child, Top.child = Len(Def.children), ret)
           f == [Top EXCEPT !.child = @ + 1]
<1>1. /\ stack # <<>> /\ Top.kind = "permission" /\ ret \in Outcomes /\ Local /\ visited' = visited
      /\ IF o # "none" THEN Return(o)
         ELSE stack' = <<f>> \o Tail(stack) /\ ret' = "none"
  BY DEF ChildReturns, EInv, TypeOK
<1>2. /\ Top \in PermissionFrame /\ Top.depth \in Depths /\ Def \in PermissionDef
      /\ Top.child \in 1..Len(Def.children) /\ Len(Def.children) \in Nat
  BY <1>1, ChildKnown
<1>3. o \in Outcomes \cup {"none"} /\ (o = "none" => Top.child # Len(Def.children))
  <2>1. Def.op \in {"direct", "union", "intersect", "exclusion"}
    BY <1>2 DEF PermissionDef
  <2>2. PICK n \in Nat : n = Top.child
    BY <1>2
  <2>3. PICK last \in BOOLEAN : last = (Top.child = Len(Def.children))
    OBVIOUS
  <2>4. /\ Combine(Def.op, n, last, ret) \in Outcomes \cup {"none"}
        /\ Combine(Def.op, n, last, ret) = "none" => ~last
    BY <1>1, <2>1, CombineProperties
  <2>5. QED BY <2>2, <2>3, <2>4
<1>4. /\ faults' \in 0..MaxFaults /\ UNCHANGED <<storeVars, tc, items, answers, seen>>
  BY <1>1, LocalFrame
<1> HIDE DEF o
<1>5. CASE o # "none"
  <2>1. o \in Outcomes /\ Return(o)
    BY <1>1, <1>3, <1>5
  <2>2. QED BY <1>1, <1>4, <2>1, ReturnStep
<1>6. CASE o = "none"
  <2>1. /\ f \in PermissionFrame /\ f.kind = "permission" /\ f.object = Top.object
        /\ f.permission = Top.permission /\ f.depth = Top.depth /\ f.child = Top.child + 1
    BY <1>2 DEF PermissionFrame
  <2>2. f.child <= Len(Def.children)
    BY <1>2, <1>3, <1>6, <2>1
  <2>3. HasPermission(Top.object.type, Top.permission)
    BY <1>1, TopProperties DEF OnSchema
  <2> HIDE DEF f
  <2>4. f \in Frame /\ OnSchema(f)
    BY <2>1, <2>2, <2>3 DEF Frame, OnSchema, Def
  <2>5. Walks(f) /\ Walks(Top) /\ NodeOf(f) = NodeOf(Top)
    BY <1>1, <2>1 DEF Walks, NodeOf
  <2>6. \A d \in Nat : Stands(f, d) => Stands(Top, d)
    BY <1>1, <2>1 DEF Stands, Walks
  <2>7. stack' = <<f>> \o Tail(stack) /\ ret' = "none"
    BY <1>1, <1>6 DEF f
  <2>8. QED BY <1>1, <1>4, <2>4, <2>5, <2>6, <2>7, GoOnStep
<1>7. QED BY <1>5, <1>6

\* A relation: the direct tuple is looked up.
LEMMA WalkDirectPreserves ==
    ASSUME EInv, NEW ok \in BOOLEAN, WalkDirect(ok)
    PROVE  EInv'
<1> DEFINE f == [kind |-> "relation", object |-> Top.object,
                 relation |-> Child.relation, depth |-> Top.depth]
<1>1. /\ stack # <<>> /\ Top.kind = "permission" /\ Child.kind = "relation"
      /\ Read(ok) /\ visited' = visited
      /\ \/ stack' = stack /\ ret' \in {"error", "allow"}
         \/ Push(f)
  BY DEF WalkDirect, Running
<1>2. faults' \in 0..MaxFaults /\ UNCHANGED <<storeVars, tc, items, answers, seen>>
  BY <1>1, ReadFrame
<1>3. CASE stack' = stack /\ ret' \in {"error", "allow"}
  <2>1. ret' \in Outcomes \cup {"none"}
    BY <1>3 DEF Outcomes
  <2>2. QED BY <1>1, <1>2, <1>3, <2>1, ResultStep
<1>4. CASE Push(f)
  <2>1. Top \in PermissionFrame /\ Top.depth \in Depths /\ Child \in PermissionRef
    BY <1>1, ChildKnown
  <2>2. Child.relation \in STRING
    BY <1>1, <2>1 DEF PermissionRef
  <2>3. f \in RelationFrame /\ f.kind = "relation" /\ f.depth = Top.depth
    BY <2>1, <2>2 DEF RelationFrame, PermissionFrame
  <2> HIDE DEF f
  <2>4. f \in Frame /\ ~Walks(f) /\ Walks(Top) /\ \A d \in Nat : Stands(f, d) => d <= Top.depth
    BY <1>1, <2>3 DEF Frame, Walks, Stands
  <2>5. QED BY <1>1, <1>2, <1>4, <2>4, CallStep
<1>5. QED BY <1>1, <1>3, <1>4

\* A relation: its usersets are listed.
LEMMA ListUsersetsPreserves ==
    ASSUME EInv, NEW ok \in BOOLEAN, ListUsersets(ok)
    PROVE  EInv'
<1> DEFINE f == [kind |-> "usersets", depth |-> Top.depth,
                 pending |-> {u \in ListSubjects(tuples, Top.object, Top.relation) :
                                 u.relation # Direct}]
<1>1. /\ stack # <<>> /\ Top.kind = "relation" /\ Read(ok) /\ visited' = visited
      /\ \/ Return("error")
         \/ stack' = <<f>> \o Tail(stack) /\ ret' = "none"
  BY DEF ListUsersets, Running
<1>2. faults' \in 0..MaxFaults /\ UNCHANGED <<storeVars, tc, items, answers, seen>>
  BY <1>1, ReadFrame
<1>3. CASE Return("error")
  <2>1. "error" \in Outcomes
    BY DEF Outcomes
  <2>2. QED BY <1>1, <1>2, <1>3, <2>1, ReturnStep
<1>4. CASE stack' = <<f>> \o Tail(stack) /\ ret' = "none"
  <2>1. Top \in RelationFrame
    BY <1>1, TopProperties, FrameKinds
  <2>2. f \in UsersetsFrame /\ f.kind = "usersets" /\ f.depth = Top.depth
    BY <2>1, Listed DEF UsersetsFrame, RelationFrame
  <2> HIDE DEF f
  <2>3. f \in Frame /\ OnSchema(f) /\ ~Walks(f)
    BY <2>2 DEF Frame, OnSchema, Walks
  <2>4. \A d \in Nat : Stands(f, d) => Stands(Top, d)
    BY <1>1, <2>2 DEF Stands, Walks
  <2>5. QED BY <1>1, <1>2, <1>4, <2>3, <2>4, GoOnStep
<1>5. QED BY <1>1, <1>3, <1>4

\* An arrow: its targets are listed.
LEMMA WalkArrowPreserves ==
    ASSUME EInv, NEW ok \in BOOLEAN, WalkArrow(ok)
    PROVE  EInv'
<1> DEFINE f == [kind |-> "targets", permission |-> Child.permission,
                 context |-> Top.context, depth |-> Top.depth,
                 pending |-> ListRelatedObjects(tuples, Top.object, Child.relation)]
<1>1. /\ stack # <<>> /\ Top.kind = "permission" /\ Child.kind = "arrow"
      /\ Read(ok) /\ visited' = visited
      /\ \/ stack' = stack /\ ret' = "error"
         \/ Push(f)
  BY DEF WalkArrow, Running
<1>2. faults' \in 0..MaxFaults /\ UNCHANGED <<storeVars, tc, items, answers, seen>>
  BY <1>1, ReadFrame
<1>3. CASE stack' = stack /\ ret' = "error"
  <2>1. ret' \in Outcomes \cup {"none"}
    BY <1>3 DEF Outcomes
  <2>2. QED BY <1>1, <1>2, <1>3, <2>1, ResultStep
<1>4. CASE Push(f)
  <2>1. Top \in PermissionFrame /\ Top.depth \in Depths /\ Child \in PermissionRef
    BY <1>1, ChildKnown
  <2>2. Child.permission \in STRING
    BY <1>1, <2>1 DEF PermissionRef
  <2>3. f \in TargetsFrame /\ f.kind = "targets" /\ f.depth = Top.depth
    BY <2>1, <2>2, Listed DEF TargetsFrame, PermissionFrame
  <2> HIDE DEF f
  <2>4. f \in Frame /\ ~Walks(f) /\ Walks(Top) /\ \A d \in Nat : Stands(f, d) => d <= Top.depth
    BY <1>1, <2>3 DEF Frame, Walks, Stands
  <2>5. QED BY <1>1, <1>2, <1>4, <2>4, CallStep
<1>5. QED BY <1>1, <1>3, <1>4

\* A condition is reached.
LEMMA WalkConditionPreserves ==
    ASSUME EInv, WalkCondition
    PROVE  EInv'
<1> DEFINE f == ConditionFrame(Child.condition, Top.object, Top.context)
<1>1. /\ stack # <<>> /\ Top.kind = "permission" /\ Child.kind = "condition"
      /\ Push(f) /\ visited' = visited /\ Local
  BY DEF WalkCondition, Running
<1>2. faults' \in 0..MaxFaults /\ UNCHANGED <<storeVars, tc, items, answers, seen>>
  BY <1>1, LocalFrame
<1>3. Top \in PermissionFrame /\ Child \in PermissionRef
  BY <1>1, ChildKnown
<1>4. Child.condition \in Conditions
  BY <1>1, <1>3 DEF PermissionRef
<1>5. f \in EvaluationFrame /\ f.kind = "condition"
  BY <1>3, <1>4 DEF EvaluationFrame, PermissionFrame, ConditionFrame
<1> HIDE DEF f
<1>6. f \in Frame /\ ~Walks(f) /\ Walks(Top) /\ \A d \in Nat : Stands(f, d) => d <= Top.depth
  BY <1>1, <1>5 DEF Frame, Walks, Stands
<1>7. QED BY <1>1, <1>2, <1>6, CallStep

\* The object's attributes are read.
LEMMA GetObjectAttributesPreserves ==
    ASSUME EInv, NEW ok \in BOOLEAN, GetObjectAttributes(ok)
    PROVE  EInv'
<1> DEFINE a == IF ok THEN objAttrs[Top.object] ELSE NoAttrs
           f == [Top EXCEPT !.read = TRUE, !.attrs = a]
<1>1. /\ stack # <<>> /\ Top.kind = "condition" /\ Read(ok) /\ visited' = visited /\ ret' = ret
      /\ stack' = <<f>> \o Tail(stack)
  BY DEF GetObjectAttributes, Running
<1>2. faults' \in 0..MaxFaults /\ UNCHANGED <<storeVars, tc, items, answers, seen>>
  BY <1>1, ReadFrame
<1>3. Top \in EvaluationFrame
  BY <1>1, TopProperties, FrameKinds
<1>4. a \in Attrs \cup {NoAttrs}
  BY <1>3 DEF EvaluationFrame, EInv, TypeOK
<1> HIDE DEF a
<1>5. f \in EvaluationFrame /\ f.kind = "condition"
  BY <1>3, <1>4 DEF EvaluationFrame
<1> HIDE DEF f
<1>6. f \in Frame /\ OnSchema(f) /\ ~Walks(f) /\ \A d \in Nat : Stands(f, d) => Stands(Top, d)
  BY <1>5 DEF Frame, OnSchema, Walks, Stands
<1>7. ret' \in Outcomes \cup {"none"}
  BY <1>1 DEF EInv, TypeOK
<1>8. QED BY <1>1, <1>2, <1>6, <1>7, GoOnStep

\* The subject's attributes are read.
LEMMA GetSubjectAttributesPreserves ==
    ASSUME EInv, NEW ok \in BOOLEAN, GetSubjectAttributes(ok)
    PROVE  EInv'
<1> DEFINE a == IF ok THEN subAttrs[Subject] ELSE NoAttrs
           o == Evaluate(Top.condition, Top.attrs, a, Top.context)
<1>1. /\ stack # <<>> /\ Top.kind = "condition" /\ Read(ok) /\ visited' = visited /\ Return(o)
  BY DEF GetSubjectAttributes, Running
<1>2. faults' \in 0..MaxFaults /\ UNCHANGED <<storeVars, tc, items, answers, seen>>
  BY <1>1, ReadFrame
<1>3. Top \in EvaluationFrame
  BY <1>1, TopProperties, FrameKinds
<1>4. a \in Attrs \cup {NoAttrs}
  BY DEF EInv, TypeOK
<1> HIDE DEF a
<1>5. o \in Outcomes
  BY <1>3, <1>4, EvaluateAssumption DEF EvaluationFrame
<1> HIDE DEF o
<1>6. QED BY <1>1, <1>2, <1>5, ReturnStep

\* A loop goes on with one thing less to do.
LEMMA LoopFrame ==
    ASSUME EInv, stack # <<>>, Top.kind \in {"usersets", "targets"}, NEW x
    PROVE  LET f == [Top EXCEPT !.pending = @ \ {x}]
           IN  /\ f \in Frame /\ OnSchema(f) /\ ~Walks(f)
               /\ f.kind = Top.kind /\ f.depth = Top.depth /\ f.depth \in Depths
               /\ \A d \in Nat : Stands(f, d) => Stands(Top, d)
               /\ LoopWithout(x) = <<f>> \o Tail(stack)
<1> DEFINE f == [Top EXCEPT !.pending = @ \ {x}]
<1>1. Top \in UsersetsFrame \/ Top \in TargetsFrame
  BY TopProperties, FrameKinds
<1>2. /\ f \in UsersetsFrame \/ f \in TargetsFrame
      /\ f.kind = Top.kind /\ f.depth = Top.depth /\ f.depth \in Depths
  <2>1. CASE Top \in UsersetsFrame
    BY <2>1 DEF UsersetsFrame
  <2>2. CASE Top \in TargetsFrame
    BY <2>2 DEF TargetsFrame
  <2>3. QED BY <1>1, <2>1, <2>2
<1>3. LoopWithout(x) = <<f>> \o Tail(stack)
  BY DEF LoopWithout
<1> HIDE DEF f
<1>4. f \in Frame /\ OnSchema(f) /\ ~Walks(f)
  BY <1>2 DEF Frame, OnSchema, Walks
<1>5. \A d \in Nat : Stands(f, d) => Stands(Top, d)
  BY <1>2 DEF Stands, Walks
<1>6. QED BY <1>2, <1>3, <1>4, <1>5 DEF f

\* walkPermission, called by a loop: beyond the limit and on a visited node it
\* returns at once, else it walks a node that is new to the path.
LEMMA WalkPermissionPreserves ==
    ASSUME EInv, stack # <<>>, Top.kind \in {"usersets", "targets"}, NEW x,
           NEW object \in Entities, NEW p, HasPermission(object.type, p),
           NEW context \in Contexts \cup {NoContext}, NEW depth, depth = Top.depth + 1,
           walkPermission(object, p, context, depth, LoopWithout(x)), Local
    PROVE  EInv'
<1> DEFINE f == [Top EXCEPT !.pending = @ \ {x}]
           g == [kind |-> "permission", object |-> object, permission |-> p,
                 context |-> context, depth |-> depth, child |-> 1]
           s == <<f>> \o Tail(stack)
<1>1. /\ f \in Frame /\ OnSchema(f) /\ ~Walks(f)
      /\ f.kind = Top.kind /\ f.depth = Top.depth /\ f.depth \in Depths
      /\ \A d \in Nat : Stands(f, d) => Stands(Top, d)
      /\ LoopWithout(x) = s
  BY LoopFrame
<1>2. \/ stack' = s /\ ret' \in {"error", "deny"} /\ visited' = visited
      \/ /\ ~(depth > MaxCheckDepth) /\ Node(object, p) \notin visited
         /\ visited' = visited \cup {Node(object, p)} /\ stack' = <<g>> \o s /\ ret' = "none"
  BY <1>1 DEF walkPermission
<1>3. faults' \in 0..MaxFaults /\ UNCHANGED <<storeVars, tc, items, answers, seen>>
  BY LocalFrame
<1> HIDE DEF f
<1>4. CASE stack' = s /\ ret' \in {"error", "deny"} /\ visited' = visited
  <2>1. ret' \in Outcomes \cup {"none"}
    BY <1>4 DEF Outcomes
  <2>2. QED BY <1>1, <1>3, <1>4, <2>1, GoOnStep
<1>5. CASE /\ ~(depth > MaxCheckDepth) /\ Node(object, p) \notin visited
           /\ visited' = visited \cup {Node(object, p)} /\ stack' = <<g>> \o s /\ ret' = "none"
  <2>1. Node(object, p) \in Nodes /\ p \in STRING
    BY NodeKnown
  <2>2. depth \in Depths
    BY <1>1, <1>5 DEF Depths
  <2>3. /\ g \in PermissionFrame /\ g.kind = "permission" /\ g.object = object /\ g.permission = p
        /\ g.depth = f.depth + 1 /\ g.child = 1
    BY <1>1, <2>1, <2>2 DEF PermissionFrame
  <2> HIDE DEF g
  <2>4. Walks(g) /\ NodeOf(g) = Node(object, p)
    BY <2>3 DEF Walks, NodeOf
  <2>5. OnSchema(g)
    <3>1. GetPermission(object.type, p) \in PermissionDef
      BY DEF HasPermission, GetPermission
    <3>2. GetPermission(object.type, p).children \in Seq(PermissionRef) \ {<<>>}
      BY <3>1 DEF PermissionDef
    <3>3. 1 <= Len(GetPermission(object.type, p).children)
      BY <3>2
    <3>4. QED BY <2>3, <3>3 DEF OnSchema
  <2>6. Good(stack, visited)
    BY TopProperties
  <2>7. Good(s, visited)
    BY <1>1, <2>6, GoodReplace DEF Top
  <2>8. s # <<>> /\ Head(s) = f
    <3>1. Tail(stack) \in Seq(Frame)
      BY <2>6, TailProperties DEF Good
    <3>2. QED BY <1>1, <3>1
  <2> HIDE DEF s
  <2>9. g \in Frame
    BY <2>3 DEF Frame
  <2>10. Good(<<g>> \o s, visited \cup {NodeOf(g)})
    BY <1>1, <1>5, <2>3, <2>4, <2>5, <2>7, <2>8, <2>9, GoodCall
  <2>11. Good(stack', visited')
    BY <1>5, <2>4, <2>10
  <2>12. visited' \subseteq Nodes
    BY <1>5, <2>1 DEF EInv, TypeOK
  <2>13. QED BY <1>3, <1>5, <2>11, <2>12, WalkStep
<1>6. QED BY <1>2, <1>4, <1>5

\* A userset that is a permission.
LEMMA WalkUsersetPreserves ==
    ASSUME EInv, NEW u, WalkUserset(u)
    PROVE  EInv'
<1>1. /\ stack # <<>> /\ Top.kind = "usersets" /\ u \in Top.pending /\ Local
      /\ HasPermission(u.ref.type, u.relation)
      /\ walkPermission(u.ref, u.relation, NoContext, Top.depth + 1, LoopWithout(u))
  BY DEF WalkUserset, Running, OpenUsersets
<1>2. Top \in UsersetsFrame
  BY <1>1, TopProperties, FrameKinds
<1>3. u.ref \in Entities
  BY <1>1, <1>2 DEF UsersetsFrame
<1>4. PICK depth : depth = Top.depth + 1
  OBVIOUS
<1>5. walkPermission(u.ref, u.relation, NoContext, depth, LoopWithout(u))
  BY <1>1, <1>4 DEF walkPermission
<1>6. QED BY <1>1, <1>3, <1>4, <1>5, WalkPermissionPreserves

\* A related object that has the permission.
LEMMA WalkTargetPreserves ==
    ASSUME EInv, NEW o, WalkTarget(o)
    PROVE  EInv'
<1>1. /\ stack # <<>> /\ Top.kind = "targets" /\ o \in Top.pending /\ Local
      /\ HasPermission(o.type, Top.permission)
      /\ walkPermission(o, Top.permission, Top.context, Top.depth + 1, LoopWithout(o))
  BY DEF WalkTarget, Running, OpenTargets
<1>2. Top \in TargetsFrame
  BY <1>1, TopProperties, FrameKinds
<1>3. o \in Entities /\ Top.context \in Contexts \cup {NoContext}
  BY <1>1, <1>2 DEF TargetsFrame
<1>4. PICK depth, p, context : depth = Top.depth + 1 /\ p = Top.permission /\ context = Top.context
  OBVIOUS
<1>5. walkPermission(o, p, context, depth, LoopWithout(o)) /\ HasPermission(o.type, p)
  BY <1>1, <1>4 DEF walkPermission
<1>6. QED BY <1>1, <1>3, <1>4, <1>5, WalkPermissionPreserves

\* A userset that is looked up.
LEMMA CheckUsersetPreserves ==
    ASSUME EInv, NEW u, NEW ok \in BOOLEAN, CheckUserset(u, ok)
    PROVE  EInv'
<1> DEFINE f == [Top EXCEPT !.pending = @ \ {u}]
<1>1. /\ stack # <<>> /\ Top.kind = "usersets" /\ Read(ok) /\ visited' = visited
      /\ \/ Return("allow")
         \/ stack' = LoopWithout(u) /\ ret' = "none"
  BY DEF CheckUserset, Running
<1>2. faults' \in 0..MaxFaults /\ UNCHANGED <<storeVars, tc, items, answers, seen>>
  BY <1>1, ReadFrame
<1>3. CASE Return("allow")
  <2>1. "allow" \in Outcomes
    BY DEF Outcomes
  <2>2. QED BY <1>1, <1>2, <1>3, <2>1, ReturnStep
<1>4. CASE stack' = LoopWithout(u) /\ ret' = "none"
  <2>1. /\ f \in Frame /\ OnSchema(f) /\ ~Walks(f) /\ LoopWithout(u) = <<f>> \o Tail(stack)
        /\ \A d \in Nat : Stands(f, d) => Stands(Top, d)
    BY <1>1, LoopFrame
  <2> HIDE DEF f
  <2>2. QED BY <1>1, <1>2, <1>4, <2>1, GoOnStep
<1>5. QED BY <1>1, <1>3, <1>4

\* What a loop does with a result.
LEMMA LoopReturnsPreserves ==
    ASSUME EInv, LoopReturns
    PROVE  EInv'
<1>1. /\ stack # <<>> /\ visited' = visited /\ Local /\ ret \in Outcomes
      /\ \/ stack' = stack /\ ret' = "none"
         \/ Return(ret)
  BY DEF LoopReturns, EInv, TypeOK
<1>2. faults' \in 0..MaxFaults /\ UNCHANGED <<storeVars, tc, items, answers, seen>>
  BY <1>1, LocalFrame
<1>3. CASE stack' = stack /\ ret' = "none"
  BY <1>1, <1>2, <1>3, ResultStep
<1>4. CASE Return(ret)
  <2>1. PICK o \in Outcomes : o = ret
    BY <1>1
  <2>2. Return(o)
    BY <1>4, <2>1 DEF Return
  <2>3. QED BY <1>1, <1>2, <2>2, ReturnStep
<1>5. QED BY <1>1, <1>3, <1>4

\* A loop with nothing left denies.
LEMMA LoopEndsPreserves ==
    ASSUME EInv, LoopEnds
    PROVE  EInv'
<1>1. stack # <<>> /\ visited' = visited /\ Local /\ Return("deny") /\ "deny" \in Outcomes
  BY DEF LoopEnds, Running, Outcomes
<1>2. faults' \in 0..MaxFaults /\ UNCHANGED <<storeVars, tc, items, answers, seen>>
  BY <1>1, LocalFrame
<1>3. QED BY <1>1, <1>2, ReturnStep

-----------------------------------------------------------------------------
(* The request, and everybody else.                                         *)

\* The empty stack.
LEMMA GoodEmpty ==
    ASSUME NEW v
    PROVE  Good(<<>>, v)
BY DEF Good, PathOK

\* A request begins: nothing is being checked.
LEMMA StartRequestPreserves ==
    ASSUME EInv, NEW batch \in Batches, StartRequest(batch)
    PROVE  EInv'
<1>0. tc = "none" /\ stack = <<>> /\ status # "none"
  BY DEF StartRequest, EInv, Asked, TypeOK, Statuses
<1>1. /\ UNCHANGED <<tuples, objAttrs, subAttrs, status, had, changes, faults, answers>>
      /\ UNCHANGED <<stack, visited, ret, seen>> /\ tc' = status /\ items' = batch
  BY DEF StartRequest, storeVars, walkVars
<1>2. batch \in Seq(Item)
  OBVIOUS
<1>3. TypeOK'
  BY <1>1, <1>2 DEF EInv, TypeOK
<1>4. Asked'
  BY <1>0, <1>1 DEF Asked
<1>5. QED BY <1>1, <1>3, <1>4 DEF EInv

\* The bottom of a walk: the permission asked for, on the call of Check.
LEMMA GoodStart ==
    ASSUME NEW f \in PermissionFrame, OnSchema(f), f.depth = 0, NEW g \in CheckFrame
    PROVE  Good(<<f, g>>, {NodeOf(f)})
<1>1. f.kind = "permission" /\ g.kind = "check" /\ f \in Frame /\ g \in Frame
  BY DEF PermissionFrame, CheckFrame, Frame
<1>2. Walks(f) /\ ~Walks(g) /\ \A d \in Nat : ~Stands(f, d) /\ ~Stands(g, d)
  BY <1>1 DEF Walks, Stands
<1>3. OnSchema(g)
  BY <1>1 DEF OnSchema
<1>4. Good(<<>>, {})
  BY GoodEmpty
<1>5. Good(<<g>> \o <<>>, {})
  BY <1>1, <1>2, <1>3, <1>4, GoodCons
<1>6. <<g>> \o <<>> = <<g>>
  BY <1>1
<1>7. Good(<<g>>, {}) /\ \A j \in DOMAIN <<g>> : <<g>>[j] = g
  BY <1>5, <1>6
<1>8. Good(<<f>> \o <<g>>, {NodeOf(f)})
  BY <1>1, <1>2, <1>7, GoodCons
<1>9. <<f>> \o <<g>> = <<f, g>>
  BY <1>1, PairProperties
<1>10. QED BY <1>8, <1>9

\* The condition of the permission asked for, on the call of Check.
LEMMA GoodGate ==
    ASSUME NEW f \in EvaluationFrame, NEW g \in CheckFrame, NEW v
    PROVE  Good(<<f, g>>, v)
<1>1. f.kind = "condition" /\ g.kind = "check" /\ f \in Frame /\ g \in Frame
  BY DEF EvaluationFrame, CheckFrame, Frame
<1>2. ~Walks(f) /\ ~Walks(g) /\ \A d \in Nat : ~Stands(f, d) /\ ~Stands(g, d)
  BY <1>1 DEF Walks, Stands
<1>3. OnSchema(f) /\ OnSchema(g)
  BY <1>1 DEF OnSchema
<1>4. Good(<<>>, v)
  BY GoodEmpty
<1>5. Good(<<g>> \o <<>>, v)
  BY <1>1, <1>2, <1>3, <1>4, GoodCons
<1>6. <<g>> \o <<>> = <<g>>
  BY <1>1
<1>7. Good(<<f>> \o <<g>>, v)
  BY <1>1, <1>2, <1>3, <1>5, <1>6, GoodCons
<1>8. <<f>> \o <<g>> = <<f, g>>
  BY <1>1, PairProperties
<1>9. QED BY <1>7, <1>8

\* A check is answered.
LEMMA AnswerStep ==
    ASSUME EInv, items # <<>>, NEW o \in Outcomes, Answer(o), visited' \subseteq Nodes,
           seen' \in Seen, status \in seen'.statuses,
           UNCHANGED <<storeVars, faults, tc>>
    PROVE  EInv'
<1>1. /\ answers' = Append(answers, o) /\ items' = Tail(items) /\ stack' = <<>> /\ ret' = "none"
      /\ UNCHANGED <<tuples, objAttrs, subAttrs, status, had, changes>>
  BY DEF Answer, storeVars
<1>2. items' \in Seq(Item) /\ answers' \in Seq(Outcomes)
  BY <1>1 DEF EInv, TypeOK
<1>3. Good(stack', visited')
  BY <1>1, GoodEmpty
<1>4. TypeOK'
  BY <1>1, <1>2, <1>3 DEF EInv, TypeOK, Good
<1>5. Asked'
  BY <1>1 DEF EInv, Asked
<1>6. QED BY <1>1, <1>3, <1>4, <1>5 DEF EInv, Good

\* Check begins: the guards on the tenant in the context and on the schema.
LEMMA BeginCheckPreserves ==
    ASSUME EInv, BeginCheck
    PROVE  EInv'
<1> DEFINE i == Head(items)
           f == [kind |-> "permission", object |-> i.object, permission |-> i.permission,
                 context |-> i.context, depth |-> 0, child |-> 1]
           g == [kind |-> "check", gated |-> FALSE]
<1>1. items # <<>> /\ items \in Seq(Item) /\ UNCHANGED <<storeVars, faults, tc>>
  BY DEF BeginCheck, EInv, TypeOK
<1>2. i \in Item
  BY <1>1
<1>3. seen' \in Seen /\ status \in seen'.statuses
  <2>1. seen' = [ever |-> tuples, always |-> tuples,
                 obj |-> [e \in Entities |-> {objAttrs[e]}],
                 sub |-> [e \in Entities |-> {subAttrs[e]}],
                 statuses |-> {status}, item |-> i]
    BY DEF BeginCheck
  <2>2. /\ [e \in Entities |-> {objAttrs[e]}] \in [Entities -> SUBSET (Attrs \cup {NoAttrs})]
        /\ [e \in Entities |-> {subAttrs[e]}] \in [Entities -> SUBSET (Attrs \cup {NoAttrs})]
    BY DEF EInv, TypeOK
  <2>3. tuples \in SUBSET Universe /\ {status} \in SUBSET Statuses
    BY DEF EInv, TypeOK
  <2> HIDE DEF i
  <2>4. QED BY <1>2, <2>1, <2>2, <2>3 DEF Seen
<1>4. \/ Answer("error") /\ visited' = {}
      \/ /\ HasPermission(i.object.type, i.permission)
         /\ visited' = {Node(i.object, i.permission)}
         /\ stack' = <<f, g>> /\ ret' = "none" /\ UNCHANGED <<items, answers>>
  BY DEF BeginCheck, newVisitedSet
<1>5. CASE Answer("error") /\ visited' = {}
  <2>1. "error" \in Outcomes /\ visited' \subseteq Nodes
    BY <1>5 DEF Outcomes
  <2>2. QED BY <1>1, <1>3, <1>5, <2>1, AnswerStep
<1>6. CASE /\ HasPermission(i.object.type, i.permission)
           /\ visited' = {Node(i.object, i.permission)}
           /\ stack' = <<f, g>> /\ ret' = "none" /\ UNCHANGED <<items, answers>>
  <2>1. /\ i.object \in Entities /\ i.permission \in STRING /\ i.context \in Contexts \cup {NoContext}
    BY <1>2 DEF Item
  <2>2. GetPermission(i.object.type, i.permission).children \in Seq(PermissionRef) \ {<<>>}
    BY <1>6 DEF HasPermission, GetPermission, PermissionDef
  <2>3. 1 <= Len(GetPermission(i.object.type, i.permission).children)
    BY <2>2
  <2>4. Node(i.object, i.permission) \in Nodes
    BY <1>6, <2>1, NodeKnown
  <2>5. Asked'
    BY <1>1, <1>6 DEF EInv, Asked
  <2> HIDE DEF i
  <2>6. /\ f \in PermissionFrame /\ f.kind = "permission" /\ f.object = i.object
        /\ f.permission = i.permission /\ f.depth = 0 /\ f.child = 1 /\ g \in CheckFrame
    BY <2>1 DEF PermissionFrame, CheckFrame, Depths
  <2> HIDE DEF f, g
  <2>7. OnSchema(f) /\ NodeOf(f) = Node(i.object, i.permission)
    BY <1>6, <2>3, <2>6 DEF OnSchema, NodeOf
  <2>8. Good(<<f, g>>, {NodeOf(f)})
    BY <2>6, <2>7, GoodStart
  <2>9. Good(stack', visited')
    BY <1>6, <2>7, <2>8
  <2>10. UNCHANGED <<tuples, objAttrs, subAttrs, status, had, changes, faults, tc, items, answers>>
    BY <1>1, <1>6 DEF storeVars
  <2>11. visited' \subseteq Nodes
    BY <1>6, <2>4
  <2>12. TypeOK'
    BY <1>6, <2>9, <2>10, <2>11 DEF EInv, TypeOK, Good
  <2>13. QED BY <1>3, <2>5, <2>9, <2>10, <2>12 DEF EInv, Good
<1>7. QED BY <1>4, <1>5, <1>6

\* The walk has returned to Check: the condition of the permission, or the end.
LEMMA EndCheckPreserves ==
    ASSUME EInv, EndCheck
    PROVE  EInv'
<1> DEFINE i == Head(items)
           gate == GetPermission(i.object.type, i.permission).condition
           f == ConditionFrame(gate, i.object, i.context)
           g == [kind |-> "check", gated |-> TRUE]
<1>1. /\ stack # <<>> /\ ret \in Outcomes /\ UNCHANGED <<storeVars, faults, tc>>
      /\ visited' = visited /\ seen' = seen
  BY DEF EndCheck, EInv, TypeOK
<1>2. \/ Answer(ret)
      \/ /\ gate # NoCondition /\ stack' = <<f, g>> /\ ret' = "none"
         /\ UNCHANGED <<items, answers>>
  BY DEF EndCheck
<1>3. items # <<>> /\ items \in Seq(Item) /\ HasPermission(i.object.type, i.permission)
  BY <1>1 DEF EInv, TypeOK, Asked
<1>4. visited' \subseteq Nodes /\ seen' \in Seen /\ status \in seen'.statuses
  BY <1>1 DEF EInv, TypeOK
<1>5. CASE Answer(ret)
  <2>1. PICK o \in Outcomes : o = ret
    BY <1>1
  <2>2. Answer(o)
    BY <1>5, <2>1 DEF Answer
  <2>3. QED BY <1>1, <1>3, <1>4, <2>2, AnswerStep
<1>6. CASE /\ gate # NoCondition /\ stack' = <<f, g>> /\ ret' = "none"
           /\ UNCHANGED <<items, answers>>
  <2>1. i \in Item
    BY <1>3
  <2>2. gate \in Conditions
    BY <1>3, <1>6 DEF HasPermission, GetPermission, PermissionDef
  <2> HIDE DEF i, gate
  <2>3. f \in EvaluationFrame /\ g \in CheckFrame
    BY <2>1, <2>2 DEF ConditionFrame, EvaluationFrame, CheckFrame, Item
  <2> HIDE DEF f, g
  <2>4. Good(<<f, g>>, visited)
    BY <2>3, GoodGate
  <2>5. Good(stack', visited')
    BY <1>1, <1>6, <2>4
  <2>6. UNCHANGED <<storeVars, tc, items, answers, seen>> /\ faults' \in 0..MaxFaults
    BY <1>1, <1>6 DEF EInv, TypeOK
  <2>7. QED BY <1>1, <1>4, <1>6, <2>5, <2>6, WalkStep
<1>7. QED BY <1>2, <1>5, <1>6

\* The handler responds.
LEMMA RespondPreserves ==
    ASSUME EInv, Respond
    PROVE  EInv'
<1>1. /\ UNCHANGED <<tuples, objAttrs, subAttrs, status, had, changes, faults, items>>
      /\ UNCHANGED <<stack, visited, ret, seen>> /\ tc' = "none" /\ answers' = <<>>
  BY DEF Respond, storeVars, walkVars
<1>2. answers' \in Seq(Outcomes)
  BY <1>1
<1>3. TypeOK'
  BY <1>1, <1>2 DEF EInv, TypeOK
<1>4. Asked'
  BY <1>1 DEF EInv, Asked, Respond
<1>5. QED BY <1>1, <1>3, <1>4 DEF EInv

\* A step that only changes the store and the history.
LEMMA StoreStep ==
    ASSUME EInv, seen' \in Seen, status' \in seen'.statuses, had' \subseteq Statuses,
           tuples' \subseteq Universe, status' \in Statuses, changes' \in 0..MaxChanges,
           objAttrs' \in [Entities -> Attrs \cup {NoAttrs}],
           subAttrs' \in [Entities -> Attrs \cup {NoAttrs}],
           UNCHANGED <<faults, tc, items, answers, walkVars>>
    PROVE  EInv'
<1>1. UNCHANGED <<faults, tc, items, answers, stack, visited, ret>>
  BY DEF walkVars
<1>2. TypeOK'
  BY <1>1 DEF EInv, TypeOK
<1>3. Asked'
  BY <1>1 DEF EInv, Asked
<1>4. QED BY <1>1, <1>2, <1>3 DEF EInv

\* Writers, deadlines and operators.
LEMMA EnvironmentPreserves ==
    ASSUME EInv, Environment
    PROVE  EInv'
<1>1. /\ changes' \in 0..MaxChanges /\ UNCHANGED <<faults, tc, items, answers, walkVars>>
  BY DEF Environment, WriteTuple, WithdrawTuple, SetObjectAttributes, SetSubjectAttributes,
         SetStatus, Change, EInv, TypeOK
<1>2. /\ tuples \subseteq Universe /\ status \in Statuses /\ had \subseteq Statuses
      /\ seen \in Seen /\ status \in seen.statuses
      /\ objAttrs \in [Entities -> Attrs \cup {NoAttrs}]
      /\ subAttrs \in [Entities -> Attrs \cup {NoAttrs}]
  BY DEF EInv, TypeOK
<1>3. ASSUME NEW x \in Universe, WriteTuple(x)
      PROVE  EInv'
  <2>1. /\ tuples' = tuples \cup {x} /\ seen' = [seen EXCEPT !.ever = @ \cup {x}]
        /\ UNCHANGED <<objAttrs, subAttrs, status, had>>
    BY <1>3 DEF WriteTuple
  <2>2. seen' \in Seen /\ seen'.statuses = seen.statuses
    BY <1>2, <2>1 DEF Seen
  <2>3. QED BY <1>1, <1>2, <2>1, <2>2, StoreStep
<1>4. ASSUME NEW x \in Universe, WithdrawTuple(x)
      PROVE  EInv'
  <2>1. /\ tuples' = tuples \ {x} /\ seen' = [seen EXCEPT !.always = @ \ {x}]
        /\ UNCHANGED <<objAttrs, subAttrs, status, had>>
    BY <1>4 DEF WithdrawTuple
  <2>2. seen' \in Seen /\ seen'.statuses = seen.statuses
    BY <1>2, <2>1 DEF Seen
  <2>3. QED BY <1>1, <1>2, <2>1, <2>2, StoreStep
<1>5. ASSUME NEW e \in Entities, NEW a \in Attrs, SetObjectAttributes(e, a)
      PROVE  EInv'
  <2>1. /\ objAttrs' = [objAttrs EXCEPT ![e] = a] /\ seen' = [seen EXCEPT !.obj[e] = @ \cup {a}]
        /\ UNCHANGED <<tuples, subAttrs, status, had>>
    BY <1>5 DEF SetObjectAttributes
  <2>2. seen' \in Seen /\ seen'.statuses = seen.statuses
    BY <1>2, <2>1 DEF Seen
  <2>3. objAttrs' \in [Entities -> Attrs \cup {NoAttrs}]
    BY <1>2, <2>1
  <2>4. QED BY <1>1, <1>2, <2>1, <2>2, <2>3, StoreStep
<1>6. ASSUME NEW e \in Entities, NEW a \in Attrs, SetSubjectAttributes(e, a)
      PROVE  EInv'
  <2>1. /\ subAttrs' = [subAttrs EXCEPT ![e] = a] /\ seen' = [seen EXCEPT !.sub[e] = @ \cup {a}]
        /\ UNCHANGED <<tuples, objAttrs, status, had>>
    BY <1>6 DEF SetSubjectAttributes
  <2>2. seen' \in Seen /\ seen'.statuses = seen.statuses
    BY <1>2, <2>1 DEF Seen
  <2>3. subAttrs' \in [Entities -> Attrs \cup {NoAttrs}]
    BY <1>2, <2>1
  <2>4. QED BY <1>1, <1>2, <2>1, <2>2, <2>3, StoreStep
<1>7. ASSUME NEW s \in NewStatuses, SetStatus(s)
      PROVE  EInv'
  <2>1. /\ status' = s /\ had' = had \cup {s} /\ UNCHANGED <<tuples, objAttrs, subAttrs>>
        /\ seen' = [seen EXCEPT !.statuses = @ \cup {s}]
    BY <1>7 DEF SetStatus
  <2>2. status' \in Statuses /\ had' \subseteq Statuses
    BY <1>2, <2>1
  <2>3. seen' \in Seen /\ status' \in seen'.statuses
    BY <1>2, <2>1, <2>2 DEF Seen
  <2>4. QED BY <1>1, <1>2, <2>1, <2>2, <2>3, StoreStep
<1>8. QED BY <1>3, <1>4, <1>5, <1>6, <1>7 DEF Environment

-----------------------------------------------------------------------------
(* The invariant holds, and what it implies.                                *)

\* Initially nothing is asked.
LEMMA EInvInit ==
    ASSUME Init
    PROVE  EInv
<1>1. TypeOK
  BY DEF Init, TypeOK, Statuses
<1>2. seen \in Seen /\ status \in seen.statuses
  BY DEF Init, Seen, Statuses
<1>3. Good(stack, visited)
  BY GoodEmpty DEF Init
<1>4. Asked
  BY DEF Init, Asked
<1>5. QED BY <1>1, <1>2, <1>3, <1>4 DEF EInv, Good

\* Every step keeps the invariant.
LEMMA EInvNext ==
    ASSUME EInv, [Next]_vars
    PROVE  EInv'
<1>1. CASE UNCHANGED vars
  <2>1. UNCHANGED <<storeVars, faults, tc, items, answers, walkVars, seen>>
    BY <1>1 DEF vars
  <2>2. UNCHANGED <<tuples, objAttrs, subAttrs, status, had, changes, faults, tc, items, answers,
                    walkVars, seen>>
    BY <2>1 DEF storeVars
  <2>3. QED BY <2>2, StoreStep DEF EInv, TypeOK
<1>2. CASE \E batch \in Batches : StartRequest(batch)
  BY <1>2, StartRequestPreserves
<1>3. CASE Environment
  BY <1>3, EnvironmentPreserves
<1>4. CASE Loop
  <2>1. CASE \E u : WalkUserset(u)
    BY <2>1, WalkUsersetPreserves
  <2>2. CASE \E u : \E ok \in BOOLEAN : CheckUserset(u, ok)
    BY <2>2, CheckUsersetPreserves
  <2>3. CASE \E o : WalkTarget(o)
    BY <2>3, WalkTargetPreserves
  <2>4. CASE LoopReturns \/ LoopEnds
    BY <2>4, LoopReturnsPreserves, LoopEndsPreserves
  <2>5. QED BY <1>4, <2>1, <2>2, <2>3, <2>4 DEF Loop
<1>5. CASE Handler
  <2>1. CASE BeginCheck \/ EndCheck \/ Respond
    BY <2>1, BeginCheckPreserves, EndCheckPreserves, RespondPreserves
  <2>2. CASE ChildReturns \/ WalkCondition
    BY <2>2, ChildReturnsPreserves, WalkConditionPreserves
  <2>3. CASE \E ok \in BOOLEAN : WalkDirect(ok) \/ ListUsersets(ok) \/ WalkArrow(ok)
    BY <2>3, WalkDirectPreserves, ListUsersetsPreserves, WalkArrowPreserves
  <2>4. CASE \E ok \in BOOLEAN : GetObjectAttributes(ok) \/ GetSubjectAttributes(ok)
    BY <2>4, GetObjectAttributesPreserves, GetSubjectAttributesPreserves
  <2>5. QED BY <1>4, <1>5, <2>1, <2>2, <2>3, <2>4 DEF Handler
<1>6. QED BY <1>1, <1>2, <1>3, <1>5 DEF Next

\* The invariant of the check engine.
LEMMA EngineInvariant == Spec => []EInv
<1>1. Init => EInv
  BY EInvInit
<1>2. EInv /\ [Next]_vars => EInv'
  BY EInvNext
<1>3. QED BY <1>1, <1>2, PTL DEF Spec

\* Every frame on the stack has the fields its call uses and a depth within
\* the limit, only permissions of the schema are visited, and every result is
\* an outcome, whatever the schema, the tuples and the changes under the walk.
THEOREM EngineTypeCorrect == Spec => []TypeOK
<1>1. EInv => TypeOK
  BY DEF EInv
<1>2. QED BY <1>1, EngineInvariant, PTL

\* The permissions being walked are a simple path, and a call of
\* walkPermission at depth d stands on calls at all smaller depths: no cycle
\* of usersets and arrows makes the walk go round, and it meets the limit only
\* on more than MaxCheckDepth different nodes, for every schema and store.
THEOREM PathsAreSimple == Spec => []PathIsSimple
<1>1. ASSUME EInv
      PROVE  PathIsSimple
  <2>1. DOMAIN stack = 1..Len(stack) /\ Len(stack) \in Nat
    BY <1>1 DEF EInv, TypeOK
  <2>2. \A i \in Walking : i \in DOMAIN stack /\ i \in Nat /\ Walks(stack[i])
    BY <2>1 DEF Walking, Walks
  <2>3. ASSUME NEW i \in Walking, NEW j \in Walking, i # j
        PROVE  Node(stack[i].object, stack[i].permission)
                  # Node(stack[j].object, stack[j].permission)
    <3>1. i < j \/ j < i
      BY <2>2, <2>3
    <3>2. NodeOf(stack[i]) # NodeOf(stack[j])
      BY <1>1, <2>2, <3>1 DEF EInv, PathOK
    <3>3. QED BY <3>2 DEF NodeOf
  <2>4. ASSUME NEW i \in Walking
        PROVE  Node(stack[i].object, stack[i].permission) \in visited
    BY <1>1, <2>2 DEF EInv, PathOK, NodeOf
  <2>5. ASSUME NEW i \in Walking, NEW d \in 0..stack[i].depth
        PROVE  \E j \in Walking : j >= i /\ stack[j].depth = d
    <3>1. stack[i] \in PermissionFrame
      <4>1. stack[i] \in Frame
        BY <1>1, <2>2 DEF EInv, TypeOK
      <4>2. QED BY <2>2, <4>1, FrameKinds DEF Walks
    <3>2. stack[i].depth \in Nat /\ d \in Nat
      BY <3>1 DEF PermissionFrame, Depths
    <3>3. CASE d = stack[i].depth
      BY <2>2, <3>3
    <3>4. CASE d # stack[i].depth
      <4>1. Stands(stack[i], d)
        BY <2>2, <2>5, <3>2, <3>4 DEF Stands
      <4>2. PICK j \in DOMAIN stack : i < j /\ Walks(stack[j]) /\ stack[j].depth = d
        BY <1>1, <2>2, <3>2, <4>1 DEF EInv, PathOK
      <4>3. j \in Walking /\ j >= i
        BY <2>1, <2>2, <4>2 DEF Walking, Walks
      <4>4. QED BY <4>2, <4>3
    <3>5. QED BY <3>3, <3>4
  <2>6. QED BY <2>3, <2>4, <2>5 DEF PathIsSimple
<1>2. QED BY <1>1, EngineInvariant, PTL

-----------------------------------------------------------------------------
(* Checks of a tenant that is deleted all through them.  No read succeeds,  *)
(* so the walk never leaves the permission asked for: it is at one of its   *)
(* children, all those before are conditions that did not decide, or in the *)
(* condition of such a child, or in the one that gates the permission.      *)

\* The check frame, the permission of the item i at its k-th child, and a
\* condition of the item.
Base(g)       == [kind |-> "check", gated |-> g]
At(i, k)      == [kind |-> "permission", object |-> i.object, permission |-> i.permission,
                  context |-> i.context, depth |-> 0, child |-> k]
Asks(i, c, r) == [kind |-> "condition", condition |-> c, object |-> i.object,
                  context |-> i.context, read |-> r, attrs |-> NoAttrs]

\* The permission asked for, and what its conditions say without attributes.
AskedDef(i)   == GetPermission(i.object.type, i.permission)
Says(i, c)    == Evaluate(c, NoAttrs, NoAttrs, i.context)
Is(i, k, r)   == /\ AskedDef(i).children[k].kind = "condition"
                 /\ Says(i, AskedDef(i).children[k].condition) = r
GoesOn(op, j) == IF op \in {"union", "direct"} \/ (op = "exclusion" /\ j # 1) THEN "deny" ELSE "allow"
Before(i, k)  == \A j \in 1..(k - 1) : Is(i, j, GoesOn(AskedDef(i).op, j))

ChildrenGrant(i) ==
    IF AskedDef(i).op \in {"union", "direct"}
    THEN \E k \in DOMAIN AskedDef(i).children : Is(i, k, "allow") /\ Before(i, k)
    ELSE \A k \in DOMAIN AskedDef(i).children : Is(i, k, GoesOn(AskedDef(i).op, k))

\* The stack s and the result r of such a check of the item i.
AtEnd(i, s, r) ==
    \E g \in BOOLEAN :
       /\ s = <<Base(g)>> /\ r \in Outcomes
       /\ r = "allow" => ChildrenGrant(i) /\ (g => Says(i, AskedDef(i).condition) = "allow")

AtChild(i, s, r) ==
    \E k \in DOMAIN AskedDef(i).children :
       /\ s = <<At(i, k), Base(FALSE)>> /\ Before(i, k)
       /\ r \in {"none", "error"} \/ (r \in Outcomes /\ Is(i, k, r))

InCondition(i, s, r) ==
    \E k \in DOMAIN AskedDef(i).children, read \in BOOLEAN :
       /\ s = <<Asks(i, AskedDef(i).children[k].condition, read), At(i, k), Base(FALSE)>>
       /\ Before(i, k) /\ AskedDef(i).children[k].kind = "condition" /\ r = "none"

InGate(i, s, r) ==
    \E read \in BOOLEAN :
       /\ s = <<Asks(i, AskedDef(i).condition, read), Base(TRUE)>>
       /\ ChildrenGrant(i) /\ AskedDef(i).condition # NoCondition /\ r = "none"

Silent(i, s, r) == AtEnd(i, s, r) \/ AtChild(i, s, r) \/ InCondition(i, s, r) \/ InGate(i, s, r)

DInv ==
    seen.statuses = {"deleted"} =>
        /\ stack # <<>> => Silent(seen.item, stack, ret) /\ seen.item = Head(items)
        /\ Ended("allow") => ConditionsGrant(seen.item)

\* Stacks of one, two and three frames.
LEMMA NotEmpty ==
    ASSUME NEW f, NEW g, NEW h
    PROVE  <<f>> # <<>> /\ <<f, g>> # <<>> /\ <<f, g, h>> # <<>>
OBVIOUS

\* The top of such a stack, and the rest.
LEMMA TopOfOne ==
    ASSUME NEW f
    PROVE  Head(<<f>>) = f
OBVIOUS

\* Of two frames.
LEMMA TopOfTwo ==
    ASSUME NEW f, NEW g
    PROVE  Head(<<f, g>>) = f /\ Tail(<<f, g>>) = <<g>>
OBVIOUS

\* Of three frames.
LEMMA TopOfThree ==
    ASSUME NEW f, NEW g, NEW h
    PROVE  Head(<<f, g, h>>) = f /\ Tail(<<f, g, h>>) = <<g, h>>
OBVIOUS

\* A frame put on another one.
LEMMA OnOne ==
    ASSUME NEW f, NEW g
    PROVE  <<f>> \o <<g>> = <<f, g>>
<1>1. f \in {f, g} /\ g \in {f, g}
  OBVIOUS
<1> QED BY <1>1, PairProperties

\* A frame put on two others.
LEMMA OnTwo ==
    ASSUME NEW f, NEW g, NEW h
    PROVE  <<f>> \o <<g, h>> = <<f, g, h>>
<1> DEFINE S == {f, g, h}
           s == <<f>> \o <<g, h>>
           t == <<f, g, h>>
<1>1. s \in Seq(S) /\ t \in Seq(S)
  OBVIOUS
<1>2. Len(s) = 3 /\ Len(t) = 3
  OBVIOUS
<1>3. s[1] = f /\ s[2] = g /\ s[3] = h /\ t[1] = f /\ t[2] = g /\ t[3] = h
  OBVIOUS
<1> HIDE DEF s, t
<1>4. \A i \in 1..3 : s[i] = t[i]
  BY <1>3
<1>5. s = t
  BY <1>1, <1>2, <1>4, SeqEqual
<1> QED BY <1>5 DEF s, t

\* The outcome that is answered last is the outcome of the check.
LEMMA AnswerEnds ==
    ASSUME answers \in Seq(Outcomes), NEW o \in Outcomes, Answer(o)
    PROVE  stack' = <<>> /\ \A r : Ended(r)' => r = o
<1>1. answers' = Append(answers, o) /\ stack' = <<>>
  BY DEF Answer
<1>2. answers'[Len(answers')] = o
  BY <1>1
<1> QED BY <1>1, <1>2 DEF Ended

\* What the permission asked for is.
LEMMA AskedType ==
    ASSUME NEW i \in Item, HasPermission(i.object.type, i.permission)
    PROVE  /\ AskedDef(i).children \in Seq(PermissionRef) /\ 1 \in DOMAIN AskedDef(i).children
           /\ DOMAIN AskedDef(i).children = 1..Len(AskedDef(i).children)
           /\ Len(AskedDef(i).children) \in Nat
           /\ AskedDef(i).op \in {"direct", "union", "intersect", "exclusion"}
           /\ AskedDef(i).condition \in Conditions \cup {NoCondition}
           /\ \A c \in Conditions : Says(i, c) \in Outcomes
           /\ \A k \in DOMAIN AskedDef(i).children :
                 AskedDef(i).children[k].kind = "condition"
                    => AskedDef(i).children[k].condition \in Conditions
<1> DEFINE d == AskedDef(i)
<1>2. d \in PermissionDef
  BY DEF AskedDef, HasPermission, GetPermission
<1>3. i.context \in Contexts \cup {NoContext}
  BY DEF Item
<1>4. \A c \in Conditions : Says(i, c) \in Outcomes
  BY <1>3, EvaluateAssumption DEF Says
<1> HIDE DEF d
<1>5. d.children \in Seq(PermissionRef) \ {<<>>}
  BY <1>2 DEF PermissionDef
<1>6. \A f \in PermissionRef : f.kind = "condition" => f.condition \in Conditions
  BY DEF PermissionRef
<1>7. /\ d.children \in Seq(PermissionRef) /\ DOMAIN d.children = 1..Len(d.children)
      /\ Len(d.children) \in Nat /\ 1 \in DOMAIN d.children
      /\ \A k \in DOMAIN d.children : d.children[k] \in PermissionRef
  BY <1>5
<1>8. /\ d.op \in {"direct", "union", "intersect", "exclusion"}
      /\ d.condition \in Conditions \cup {NoCondition}
  BY <1>2 DEF PermissionDef
<1> QED BY <1>4, <1>6, <1>7, <1>8 DEF d

\* The children that have been asked, and what the last of them decides.
LEMMA NextChild ==
    ASSUME NEW i \in Item, HasPermission(i.object.type, i.permission),
           NEW k \in DOMAIN AskedDef(i).children, Before(i, k), NEW r \in {"allow", "deny"}, Is(i, k, r),
           NEW o, o = Combine(AskedDef(i).op, k, k = Len(AskedDef(i).children), r)
    PROVE  /\ o \in {"none", "allow", "deny"}
           /\ o = "none" => k + 1 \in DOMAIN AskedDef(i).children /\ Before(i, k + 1)
           /\ o = "allow" => ChildrenGrant(i)
<1> DEFINE op == AskedDef(i).op
           n == Len(AskedDef(i).children)
<1>1. /\ op \in {"direct", "union", "intersect", "exclusion"} /\ n \in Nat
      /\ DOMAIN AskedDef(i).children = 1..n /\ k \in 1..n
  BY AskedType
<1>2. ASSUME r = GoesOn(op, k)
      PROVE  Before(i, k + 1)
  <2>1. \A j \in 1..((k + 1) - 1) : j = k \/ j \in 1..(k - 1)
    BY <1>1
  <2> QED BY <1>2, <2>1 DEF Before
<1>3. CASE op \in {"union", "direct"}
  <2>1. o = (IF r = "allow" THEN "allow" ELSE IF k = n THEN "deny" ELSE "none")
    BY <1>3 DEF Combine
  <2>2. GoesOn(op, k) = "deny"
    BY <1>3 DEF GoesOn
  <2>3. r = "allow" => ChildrenGrant(i)
    BY <1>3 DEF ChildrenGrant
  <2> QED BY <1>1, <1>2, <2>1, <2>2, <2>3
<1>4. CASE op \in {"intersect", "exclusion"}
  <2>1. o = (IF r # GoesOn(op, k) THEN "deny" ELSE IF k = n THEN "allow" ELSE "none")
    <3>1. CASE op = "intersect"
      BY <3>1 DEF Combine, GoesOn
    <3>2. CASE op = "exclusion"
      BY <3>2 DEF Combine, GoesOn
    <3> QED BY <1>4, <3>1, <3>2
  <2>2. ASSUME r = GoesOn(op, k), k = n
        PROVE  ChildrenGrant(i)
    <3>1. \A j \in 1..n : j = k \/ j \in 1..(k - 1)
      BY <1>1, <2>2
    <3>2. \A j \in 1..n : Is(i, j, GoesOn(op, j))
      BY <2>2, <3>1 DEF Before
    <3> QED BY <1>1, <1>4, <3>2 DEF ChildrenGrant
  <2> QED BY <1>1, <1>2, <2>1, <2>2
<1> QED BY <1>1, <1>3, <1>4

\* The conditions of the children and the one that gates them grant.
LEMMA GrantedByConditions ==
    ASSUME NEW i \in Item, HasPermission(i.object.type, i.permission), ChildrenGrant(i),
           AskedDef(i).condition = NoCondition \/ Says(i, AskedDef(i).condition) = "allow"
    PROVE  ConditionsGrant(i)
<1> DEFINE op == AskedDef(i).op
           K == DOMAIN AskedDef(i).children
<1>1. op \in {"direct", "union", "intersect", "exclusion"} /\ 1 \in K
  BY AskedType
<1>2. ASSUME op \in {"union", "direct"}
      PROVE  \E k \in K : Is(i, k, "allow") /\ \A j \in 1..(k - 1) : Is(i, j, "deny")
  <2>1. \A j : GoesOn(op, j) = "deny"
    BY <1>2 DEF GoesOn
  <2> QED BY <1>2, <2>1 DEF ChildrenGrant, Before
<1>3. ASSUME op = "intersect"
      PROVE  \A k \in K : Is(i, k, "allow")
  BY <1>3 DEF ChildrenGrant, GoesOn
<1>4. ASSUME op = "exclusion"
      PROVE  Is(i, 1, "allow") /\ \A k \in K \ {1} : Is(i, k, "deny")
  BY <1>1, <1>4 DEF ChildrenGrant, GoesOn
<1>5. CASE op \in {"union", "direct"}
  BY <1>2, <1>5 DEF ConditionsGrant, Is, Says, AskedDef
<1>6. CASE op = "intersect"
  BY <1>3, <1>6 DEF ConditionsGrant, Is, Says, AskedDef
<1>7. CASE op = "exclusion"
  BY <1>4, <1>7 DEF ConditionsGrant, Is, Says, AskedDef
<1> QED BY <1>1, <1>5, <1>6, <1>7

\* A step of a check on a deleted tenant.
LEMMA SilentStep ==
    ASSUME EInv, status = "deleted", stack # <<>>, Silent(seen.item, stack, ret),
           seen.item = Head(items), Handler
    PROVE  /\ stack' # <<>> => Silent(seen.item, stack', ret') /\ items' = items
           /\ Ended("allow")' => ConditionsGrant(seen.item)
<1> DEFINE i == seen.item
           d == AskedDef(i)
           Goal == /\ stack' # <<>> => Silent(i, stack', ret') /\ items' = items
                   /\ Ended("allow")' => ConditionsGrant(i)
<1>0. /\ items # <<>> /\ answers \in Seq(Outcomes) /\ ret \in Outcomes \cup {"none"}
      /\ ~BeginCheck /\ ~Respond
  BY DEF EInv, TypeOK, Asked, BeginCheck, Respond
<1>1. i \in Item /\ HasPermission(i.object.type, i.permission) /\ i = Head(items)
  BY DEF EInv, TypeOK, Asked
<1>2. \A ok \in BOOLEAN : Read(ok) => ~ok /\ UNCHANGED <<items, answers>>
  BY DEF Read
<1>3. ASSUME stack' # <<>>, Silent(i, stack', ret'), items' = items
      PROVE  Goal
  BY <1>3 DEF Ended
<1>4. d = GetPermission(Head(items).object.type, Head(items).permission)
  BY <1>1 DEF AskedDef
<1>5. /\ \A c \in Conditions : Says(i, c) \in Outcomes
      /\ \A k \in DOMAIN d.children : d.children[k].kind = "condition" => d.children[k].condition \in Conditions
      /\ d.condition \in Conditions \cup {NoCondition}
  BY <1>1, AskedType
<1> HIDE DEF i, d, Goal
<1>6. ASSUME NEW g \in BOOLEAN, stack = <<Base(g)>>, ret \in Outcomes,
             ret = "allow" => ChildrenGrant(i) /\ (g => Says(i, d.condition) = "allow")
      PROVE  Goal
  <2>1. Top.kind = "check" /\ Top.gated = g
    <3>1. Top = Base(g)
      BY <1>6, TopOfOne DEF Top
    <3> QED BY <3>1 DEF Base
  <2>2. EndCheck
    BY <1>0, <2>1 DEF Handler, Loop, WalkUserset, CheckUserset, WalkTarget, LoopReturns, LoopEnds,
       ChildReturns, WalkDirect, ListUsersets, WalkArrow, WalkCondition, GetObjectAttributes,
       GetSubjectAttributes, Running
  <2>3. \/ /\ ret = "allow" /\ d.condition # NoCondition
           /\ stack' = <<ConditionFrame(d.condition, Head(items).object, Head(items).context),
                         [kind |-> "check", gated |-> TRUE]>>
           /\ ret' = "none" /\ items' = items
        \/ ~(ret = "allow" /\ d.condition # NoCondition /\ ~g) /\ Answer(ret)
    BY <1>4, <2>1, <2>2 DEF EndCheck
  <2>4. CASE /\ ret = "allow" /\ d.condition # NoCondition
             /\ stack' = <<ConditionFrame(d.condition, Head(items).object, Head(items).context),
                           [kind |-> "check", gated |-> TRUE]>>
             /\ ret' = "none" /\ items' = items
    <3>1. stack' = <<Asks(i, d.condition, FALSE), Base(TRUE)>>
      BY <1>1, <2>4 DEF ConditionFrame, Asks, Base
    <3>2. stack' # <<>>
      BY <3>1, NotEmpty
    <3>3. InGate(i, stack', ret')
      BY <1>6, <2>4, <3>1 DEF InGate, d
    <3> QED BY <1>3, <2>4, <3>2, <3>3 DEF Silent
  <2>5. CASE ~(ret = "allow" /\ d.condition # NoCondition /\ ~g) /\ Answer(ret)
    <3>1. stack' = <<>> /\ (Ended("allow")' => ret = "allow")
      <4>1. PICK o \in Outcomes : o = ret
        BY <1>6
      <4>2. Answer(o)
        BY <2>5, <4>1 DEF Answer
      <4> QED BY <1>0, <4>1, <4>2, AnswerEnds
    <3>2. ret = "allow" => ConditionsGrant(i)
      BY <1>1, <1>6, <2>5, GrantedByConditions DEF d
    <3> QED BY <3>1, <3>2 DEF Goal
  <2> QED BY <2>3, <2>4, <2>5
<1>7. ASSUME NEW k \in DOMAIN d.children, stack = <<At(i, k), Base(FALSE)>>, Before(i, k),
             ret \in {"none", "error"} \/ (ret \in Outcomes /\ Is(i, k, ret))
      PROVE  Goal
  <2>1. Top = At(i, k) /\ Tail(stack) = <<Base(FALSE)>>
    BY <1>7, TopOfTwo DEF Top
  <2>2. /\ Top.kind = "permission" /\ Top.child = k /\ Top.object = i.object
        /\ Top.permission = i.permission /\ Top.context = i.context
    BY <2>1 DEF At
  <2>3. Def = d /\ Child = d.children[k]
    BY <2>2 DEF Def, Child, AskedDef, d
  <2>4. \/ ChildReturns \/ WalkCondition
        \/ \E ok \in BOOLEAN : WalkDirect(ok) \/ WalkArrow(ok)
    BY <1>0, <2>2 DEF Handler, Loop, WalkUserset, CheckUserset, WalkTarget, LoopReturns, LoopEnds,
       EndCheck, ListUsersets, GetObjectAttributes, GetSubjectAttributes, Running
  <2>5. ASSUME NEW ok \in BOOLEAN, WalkDirect(ok) \/ WalkArrow(ok)
        PROVE  Goal
    <3>1. Read(ok)
      BY <2>5 DEF WalkDirect, WalkArrow
    <3>2. ~ok /\ items' = items
      BY <1>2, <3>1
    <3>3. ret' = "error" /\ stack' = stack
      BY <2>5, <3>2 DEF WalkDirect, WalkArrow
    <3>4. AtChild(i, stack', ret')
      BY <1>7, <3>3 DEF AtChild, d
    <3> QED BY <1>3, <3>2, <3>3, <3>4 DEF Silent
  <2>6. CASE WalkCondition
    <3>1. /\ d.children[k].kind = "condition" /\ ret' = "none" /\ items' = items
          /\ stack' = <<ConditionFrame(d.children[k].condition, i.object, i.context)>> \o stack
      BY <2>2, <2>3, <2>6 DEF WalkCondition, Push, Local
    <3>2. ConditionFrame(d.children[k].condition, i.object, i.context)
             = Asks(i, d.children[k].condition, FALSE)
      BY DEF ConditionFrame, Asks
    <3>0. <<Asks(i, d.children[k].condition, FALSE)>> \o <<At(i, k), Base(FALSE)>>
             = <<Asks(i, d.children[k].condition, FALSE), At(i, k), Base(FALSE)>>
      BY OnTwo
    <3>3. stack' = <<Asks(i, d.children[k].condition, FALSE), At(i, k), Base(FALSE)>> /\ stack' # <<>>
      BY <1>7, <3>0, <3>1, <3>2, NotEmpty
    <3>4. InCondition(i, stack', ret')
      BY <1>7, <3>1, <3>3 DEF InCondition, d
    <3> QED BY <1>3, <3>1, <3>3, <3>4 DEF Silent
  <2>7. CASE ChildReturns
    <3> DEFINE o == Combine(d.op, k, k = Len(d.children), ret)
    <3>1. /\ ret # "none" /\ items' = items
          /\ o # "none" => stack' = Tail(stack) /\ ret' = o
          /\ o = "none" => stack' = <<[Top EXCEPT !.child = @ + 1]>> \o Tail(stack) /\ ret' = "none"
      BY <2>2, <2>3, <2>7 DEF ChildReturns, Return, Local
    <3>2. CASE ret = "error"
      <4>1. o = "error"
        BY <3>2 DEF Combine
      <4> HIDE DEF o
      <4>2. stack' = <<Base(FALSE)>> /\ ret' = "error" /\ stack' # <<>>
        BY <2>1, <3>1, <4>1, NotEmpty
      <4>3. AtEnd(i, stack', ret')
        BY <4>2 DEF AtEnd, Outcomes
      <4> QED BY <1>3, <3>1, <4>2, <4>3 DEF Silent
    <3>3. CASE ret # "error"
      <4>1. ret \in {"allow", "deny"} /\ Is(i, k, ret)
        BY <1>7, <3>1, <3>3 DEF Outcomes
      <4>2. /\ o \in {"none", "allow", "deny"}
            /\ o = "none" => k + 1 \in DOMAIN d.children /\ Before(i, k + 1)
            /\ o = "allow" => ChildrenGrant(i)
        <5>1. PICK r \in {"allow", "deny"} : r = ret
          BY <4>1
        <5> QED BY <1>1, <1>7, <4>1, <5>1, NextChild DEF d
      <4> HIDE DEF o
      <4>3. CASE o # "none"
        <5>1. stack' = <<Base(FALSE)>> /\ ret' = o /\ stack' # <<>>
          BY <2>1, <3>1, <4>3, NotEmpty
        <5>2. AtEnd(i, stack', ret')
          BY <4>2, <4>3, <5>1 DEF AtEnd, Outcomes
        <5> QED BY <1>3, <3>1, <5>1, <5>2 DEF Silent
      <4>4. CASE o = "none"
        <5>1. [Top EXCEPT !.child = @ + 1] = At(i, k + 1)
          BY <2>1 DEF At
        <5>0. <<At(i, k + 1)>> \o <<Base(FALSE)>> = <<At(i, k + 1), Base(FALSE)>>
          BY OnOne
        <5>2. stack' = <<At(i, k + 1), Base(FALSE)>> /\ ret' = "none" /\ stack' # <<>>
          BY <2>1, <3>1, <4>4, <5>0, <5>1, NotEmpty
        <5>3. AtChild(i, stack', ret')
          BY <4>2, <4>4, <5>2 DEF AtChild, d
        <5> QED BY <1>3, <3>1, <5>2, <5>3 DEF Silent
      <4> QED BY <4>3, <4>4
    <3> QED BY <3>2, <3>3
  <2> QED BY <2>4, <2>5, <2>6, <2>7
<1>8. ASSUME NEW c \in Conditions, NEW r \in BOOLEAN, NEW b, stack = <<Asks(i, c, r)>> \o b,
             Tail(stack) = b, Top = Asks(i, c, r), ret = "none"
      PROVE  \/ stack' = <<Asks(i, c, TRUE)>> \o b /\ ret' = "none" /\ items' = items
             \/ stack' = b /\ ret' = Says(i, c) /\ items' = items
  <2>1. /\ Top.kind = "condition" /\ Top.condition = c /\ Top.context = i.context
        /\ Top.attrs = NoAttrs /\ Top.read = r
    BY <1>8 DEF Asks
  <2>2. PICK ok \in BOOLEAN : GetObjectAttributes(ok) \/ GetSubjectAttributes(ok)
    BY <1>0, <2>1 DEF Handler, Loop, WalkUserset, CheckUserset, WalkTarget, LoopReturns, LoopEnds,
       EndCheck, ChildReturns, WalkDirect, ListUsersets, WalkArrow, WalkCondition, Running
  <2>3. Read(ok)
    BY <2>2 DEF GetObjectAttributes, GetSubjectAttributes
  <2>4. ~ok /\ items' = items
    BY <1>2, <2>3
  <2>5. CASE GetObjectAttributes(ok)
    <3>1. stack' = <<[Top EXCEPT !.read = TRUE, !.attrs = NoAttrs]>> \o b /\ ret' = "none"
      BY <1>8, <2>4, <2>5 DEF GetObjectAttributes
    <3>2. [Top EXCEPT !.read = TRUE, !.attrs = NoAttrs] = Asks(i, c, TRUE)
      <4>1. PICK q : q = TRUE
        OBVIOUS
      <4>2. [Asks(i, c, r) EXCEPT !.read = q] = Asks(i, c, q)
        BY DEF Asks
      <4>3. [Asks(i, c, q) EXCEPT !.attrs = NoAttrs] = Asks(i, c, q)
        BY DEF Asks
      <4>4. [Asks(i, c, r) EXCEPT !.read = q, !.attrs = NoAttrs]
               = [[Asks(i, c, r) EXCEPT !.read = q] EXCEPT !.attrs = NoAttrs]
        OBVIOUS
      <4>5. [Asks(i, c, r) EXCEPT !.read = q, !.attrs = NoAttrs] = Asks(i, c, q)
        BY <4>2, <4>3, <4>4
      <4> QED BY <1>8, <4>1, <4>5, Zenon
    <3> QED BY <2>4, <3>1, <3>2
  <2>6. CASE GetSubjectAttributes(ok)
    BY <1>8, <2>1, <2>4, <2>6 DEF GetSubjectAttributes, Return, Says
  <2> QED BY <2>2, <2>5, <2>6
<1>9. ASSUME NEW k \in DOMAIN d.children, NEW r \in BOOLEAN,
             stack = <<Asks(i, d.children[k].condition, r), At(i, k), Base(FALSE)>>,
             Before(i, k), d.children[k].kind = "condition", ret = "none"
      PROVE  Goal
  <2> DEFINE c == d.children[k].condition
             b == <<At(i, k), Base(FALSE)>>
  <2>1. c \in Conditions /\ Says(i, c) \in Outcomes
    BY <1>5, <1>9
  <2>2. stack = <<Asks(i, c, r)>> \o b /\ Tail(stack) = b /\ Top = Asks(i, c, r)
    <3>1. <<Asks(i, c, r)>> \o b = <<Asks(i, c, r), At(i, k), Base(FALSE)>>
      BY OnTwo
    <3>2. /\ Tail(<<Asks(i, c, r), At(i, k), Base(FALSE)>>) = b
          /\ Head(<<Asks(i, c, r), At(i, k), Base(FALSE)>>) = Asks(i, c, r)
      <4> HIDE DEF c
      <4> QED BY TopOfThree, Zenon
    <3> QED BY <1>9, <3>1, <3>2 DEF Top
  <2>3. \/ stack' = <<Asks(i, c, TRUE)>> \o b /\ ret' = "none" /\ items' = items
        \/ stack' = b /\ ret' = Says(i, c) /\ items' = items
    BY <1>8, <1>9, <2>1, <2>2
  <2>4. CASE stack' = <<Asks(i, c, TRUE)>> \o b /\ ret' = "none" /\ items' = items
    <3>0. <<Asks(i, c, TRUE)>> \o b = <<Asks(i, c, TRUE), At(i, k), Base(FALSE)>>
      BY OnTwo
    <3>1. stack' = <<Asks(i, c, TRUE), At(i, k), Base(FALSE)>> /\ stack' # <<>>
      BY <2>4, <3>0, NotEmpty
    <3>2. InCondition(i, stack', ret')
      BY <1>9, <2>4, <3>1 DEF InCondition, d
    <3> QED BY <1>3, <2>4, <3>1, <3>2 DEF Silent
  <2>5. CASE stack' = b /\ ret' = Says(i, c) /\ items' = items
    <3>1. stack' # <<>> /\ ret' \in Outcomes
      BY <2>1, <2>5, NotEmpty
    <3>2. Is(i, k, ret')
      BY <1>9, <2>5 DEF Is, d
    <3>3. AtChild(i, stack', ret')
      BY <1>9, <2>5, <3>1, <3>2 DEF AtChild, d
    <3> QED BY <1>3, <2>5, <3>1, <3>3 DEF Silent
  <2> QED BY <2>3, <2>4, <2>5
<1>10. ASSUME NEW r \in BOOLEAN, stack = <<Asks(i, d.condition, r), Base(TRUE)>>,
             ChildrenGrant(i), d.condition # NoCondition, ret = "none"
      PROVE  Goal
  <2> DEFINE c == d.condition
             b == <<Base(TRUE)>>
  <2>1. c \in Conditions /\ Says(i, c) \in Outcomes
    BY <1>5, <1>10
  <2>2. stack = <<Asks(i, c, r)>> \o b /\ Tail(stack) = b /\ Top = Asks(i, c, r)
    BY <1>10, OnOne, TopOfTwo DEF Top
  <2>3. \/ stack' = <<Asks(i, c, TRUE)>> \o b /\ ret' = "none" /\ items' = items
        \/ stack' = b /\ ret' = Says(i, c) /\ items' = items
    BY <1>8, <1>10, <2>1, <2>2
  <2>4. CASE stack' = <<Asks(i, c, TRUE)>> \o b /\ ret' = "none" /\ items' = items
    <3>0. <<Asks(i, c, TRUE)>> \o b = <<Asks(i, c, TRUE), Base(TRUE)>>
      BY OnOne
    <3>1. stack' = <<Asks(i, c, TRUE), Base(TRUE)>> /\ stack' # <<>>
      BY <2>4, <3>0, NotEmpty
    <3>2. InGate(i, stack', ret')
      BY <1>10, <2>4, <3>1 DEF InGate, d
    <3> QED BY <1>3, <2>4, <3>1, <3>2 DEF Silent
  <2>5. CASE stack' = b /\ ret' = Says(i, c) /\ items' = items
    <3>1. stack' # <<>> /\ ret' \in Outcomes
      BY <2>1, <2>5, NotEmpty
    <3>2. AtEnd(i, stack', ret')
      BY <1>10, <2>5, <3>1 DEF AtEnd, d
    <3> QED BY <1>3, <2>5, <3>1, <3>2 DEF Silent
  <2> QED BY <2>3, <2>4, <2>5
<1>11. Silent(i, stack, ret)
  BY DEF i
<1>12. ASSUME AtEnd(i, stack, ret) PROVE Goal
  BY <1>6, <1>12 DEF AtEnd, d
<1>13. ASSUME AtChild(i, stack, ret) PROVE Goal
  BY <1>7, <1>13 DEF AtChild, d
<1>14. ASSUME InCondition(i, stack, ret) PROVE Goal
  BY <1>9, <1>14 DEF InCondition, d
<1>15. ASSUME InGate(i, stack, ret) PROVE Goal
  BY <1>10, <1>15 DEF InGate, d
<1>16. Goal
  BY <1>11, <1>12, <1>13, <1>14, <1>15 DEF Silent
<1> QED BY <1>16 DEF Goal, i

\* Every step keeps the invariant of deleted tenants.
LEMMA DInvNext ==
    ASSUME EInv, DInv, [Next]_vars
    PROVE  DInv'
<1>0. seen.statuses = {"deleted"} => status = "deleted"
  BY DEF EInv
<1>1. ASSUME UNCHANGED <<stack, ret, seen>>, items' = items \/ stack = <<>>,
             answers' \in {answers, <<>>}
      PROVE  DInv'
  BY <1>1 DEF DInv, Ended
<1>2. CASE UNCHANGED vars
  BY <1>1, <1>2 DEF vars, walkVars
<1>3. CASE Respond \/ \E batch \in Batches : StartRequest(batch)
  <2>1. stack = <<>>
    BY <1>3 DEF Respond, StartRequest, EInv, Asked
  <2> QED BY <1>1, <1>3, <2>1 DEF StartRequest, Respond, walkVars
<1>4. CASE BeginCheck
  <2> DEFINE i == Head(items)
             f == [kind |-> "permission", object |-> i.object, permission |-> i.permission,
                   context |-> i.context, depth |-> 0, child |-> 1]
             g == [kind |-> "check", gated |-> FALSE]
  <2>1. seen'.item = i /\ i \in Item
    BY <1>4 DEF BeginCheck, EInv, TypeOK
  <2>2. \/ Answer("error")
        \/ /\ HasPermission(i.object.type, i.permission)
           /\ stack' = <<f, g>> /\ ret' = "none" /\ items' = items
    BY <1>4 DEF BeginCheck
  <2>3. CASE Answer("error")
    <3>1. stack' = <<>> /\ ~Ended("allow")'
      BY <2>3, AnswerEnds DEF EInv, TypeOK, Outcomes
    <3> QED BY <3>1 DEF DInv
  <2>4. CASE /\ HasPermission(i.object.type, i.permission)
             /\ stack' = <<f, g>> /\ ret' = "none" /\ items' = items
    <3>1. stack' # <<>>
      BY <2>4, NotEmpty
    <3>2. 1 \in DOMAIN AskedDef(i).children
      BY <2>1, <2>4, AskedType
    <3>3. Before(i, 1)
      BY DEF Before
    <3>4. stack' = <<At(i, 1), Base(FALSE)>>
      BY <2>4 DEF At, Base
    <3>5. Silent(seen'.item, stack', ret')
      BY <2>1, <2>4, <3>2, <3>3, <3>4 DEF Silent, AtChild
    <3>6. ~Ended("allow")'
      BY <3>1 DEF Ended
    <3> QED BY <2>1, <2>4, <3>5, <3>6 DEF DInv
  <2> QED BY <2>2, <2>3, <2>4
<1>5. CASE Handler /\ ~BeginCheck /\ ~Respond
  <2>1. stack # <<>> /\ seen' = seen
    BY <1>5 DEF Handler, Loop, EndCheck, ChildReturns, WalkDirect, ListUsersets, WalkArrow,
       WalkCondition, GetObjectAttributes, GetSubjectAttributes, WalkUserset, CheckUserset,
       WalkTarget, LoopReturns, LoopEnds, Running, Read, Local
  <2> SUFFICES ASSUME seen.statuses = {"deleted"}
               PROVE  DInv'
    BY <2>1 DEF DInv
  <2>2. status = "deleted" /\ Silent(seen.item, stack, ret) /\ seen.item = Head(items)
    BY <1>0, <2>1 DEF DInv
  <2>3. /\ stack' # <<>> => Silent(seen.item, stack', ret') /\ items' = items
        /\ Ended("allow")' => ConditionsGrant(seen.item)
    BY <1>5, <2>1, <2>2, SilentStep
  <2> QED BY <2>1, <2>2, <2>3 DEF DInv
<1>6. CASE Environment
  <2>1. UNCHANGED <<stack, ret, answers, items>>
    BY <1>6 DEF Environment, WriteTuple, WithdrawTuple, SetObjectAttributes,
       SetSubjectAttributes, SetStatus, Change, walkVars
  <2>2. /\ seen'.item = seen.item
        /\ seen'.statuses = {"deleted"} => seen.statuses = {"deleted"}
    <3>1. seen \in Seen /\ status \in seen.statuses
      BY DEF EInv
    <3>2. CASE \E s \in NewStatuses : SetStatus(s)
      <4>1. PICK s \in NewStatuses : seen' = [seen EXCEPT !.statuses = @ \cup {s}]
        BY <3>2 DEF SetStatus
      <4> QED BY <3>1, <4>1 DEF Seen
    <3>3. CASE ~\E s \in NewStatuses : SetStatus(s)
      BY <1>6, <3>1, <3>3 DEF Environment, WriteTuple, WithdrawTuple, SetObjectAttributes,
         SetSubjectAttributes, Seen
    <3> QED BY <3>2, <3>3
  <2>3. Ended("allow")' = Ended("allow")
    BY <2>1 DEF Ended
  <2> QED BY <2>1, <2>2, <2>3 DEF DInv
<1> QED BY <1>2, <1>3, <1>4, <1>5, <1>6 DEF Next

\* A check of a tenant that is deleted all through it, in a request whose
\* context was built before, allows nothing that needs a tuple or an
\* attribute: it allows only where inline conditions and the gate, evaluated
\* without attributes, decide before any child that reads tuples.  This holds
\* although the tenant may become active again afterwards, and for every
\* schema, set of tuples and operator.
THEOREM DeletedTenantNeverAllows == Spec => []DeletedTenantDenies
<1>1. Init => DInv
  BY DEF Init, DInv
<1>2. EInv /\ DInv /\ [Next]_vars => DInv'
  BY DInvNext
<1>3. DInv => DeletedTenantDenies
  BY DEF DInv, DeletedTenantDenies
<1>4. QED BY <1>1, <1>2, <1>3, EngineInvariant, PTL DEF Spec

-----------------------------------------------------------------------------
(* What an allowed and a denied check mean.                                 *)

\* There are finitely many levels.
LEMMA LevelsFinite == IsFiniteSet(Entities \X Names) /\ Levels \in Nat
<1>1. IsFiniteSet(Entities \X Names)
  BY FiniteAssumption, FS_Product
<1> QED BY <1>1, FS_CardinalityType DEF Levels

\* One level is made of the one below.
LEMMA NextLevelType ==
    ASSUME NEW m
    PROVE  NextLevel(m) \in [Points -> BOOLEAN]
<1> DEFINE v(x) == IF HasPermission(x[2].type, x[3])
                   THEN PermissionMeans(m, x[1], x[2], GetPermission(x[2].type, x[3]))
                   ELSE RelationMeans(m, x[1], x[2], x[3])
<1>1. \A x \in Points : v(x) \in BOOLEAN
  BY DEF PermissionMeans, RelationMeans
<1>2. NextLevel(m) = [x \in Points |-> v(x)]
  BY DEF NextLevel
<1> HIDE DEF v
<1> QED BY <1>1, <1>2

\* As many levels as one likes exist.
LEMMA LevelsExist ==
    ASSUME NEW N \in Nat
    PROVE  \E f : f = [n \in 0..N |-> IF n = 0 THEN [x \in Points |-> FALSE] ELSE NextLevel(f[n - 1])]
<1> DEFINE body(g, n) == IF n = 0 THEN [x \in Points |-> FALSE] ELSE NextLevel(g[n - 1])
           V == [Points -> BOOLEAN]
           base == [x \in Points |-> FALSE]
           step == [y \in V \X (1..N) |-> NextLevel(y[1])]
<1>2. base \in V
  OBVIOUS
<1>3. step \in [V \X (1..N) -> V]
  <2>1. \A y \in V \X (1..N) : NextLevel(y[1]) \in V
    BY NextLevelType
  <2> HIDE DEF V
  <2> QED BY <2>1
<1>4. PICK f \in [0..N -> V] : f[0] = base /\ \A n \in 1..N : f[n] = step[<<f[n - 1], n>>]
  <2> HIDE DEF base, step, V
  <2>1. PICK f : Iterates(N, V, base, step, f)
    BY <1>2, <1>3, Iteration
  <2> QED BY <2>1 DEF Iterates
<1>5. \A n \in 0..N : f[n] = body(f, n)
  <2> SUFFICES ASSUME NEW n \in 0..N PROVE f[n] = body(f, n)
    OBVIOUS
  <2>1. CASE n = 0
    BY <1>4, <2>1
  <2>2. CASE n # 0
    <3>1. n \in 1..N /\ n - 1 \in 0..N
      BY <2>2
    <3>2. <<f[n - 1], n>> \in V \X (1..N)
      BY <3>1
    <3>3. step[<<f[n - 1], n>>] = NextLevel(f[n - 1])
      BY <3>2
    <3> QED BY <1>4, <2>2, <3>1, <3>3
  <2> QED BY <2>1, <2>2
<1>6. f = [n \in 0..N |-> body(f, n)]
  <2> HIDE DEF body
  <2> QED BY <1>5
<1> QED BY <1>6

\* The levels are what their definition says.
LEMMA LevelUnfolds ==
    level = [n \in 0..Levels |->
                IF n = 0 THEN [x \in Points |-> FALSE] ELSE NextLevel(level[n - 1])]
<1> DEFINE body(g, n) == IF n = 0 THEN [x \in Points |-> FALSE] ELSE NextLevel(g[n - 1])
<1>1. \A N \in Nat : \E g : g = [n \in 0..N |-> body(g, n)]
  BY LevelsExist
<1>2. \E g : g = [n \in 0..Levels |-> body(g, n)]
  <2> HIDE DEF body
  <2> QED BY <1>1, LevelsFinite
<1>3. level = CHOOSE g : g = [n \in 0..Levels |-> body(g, n)]
  BY DEF level
<1>4. level = [n \in 0..Levels |-> body(level, n)]
  <2> HIDE DEF body
  <2> QED BY <1>2, <1>3
<1> QED BY <1>4

-----------------------------------------------------------------------------
(* The generous reading, of what was seen (sn) and of the nodes S that are  *)
(* granted something: pairs of an entity and a relation or permission.      *)

Usersets(T, e, r) == {u \in ListSubjects(T, e, r) : u.relation # Direct}

\* The condition holds, or fails, for attributes that were there.
Meets(sn, c, e) ==
    \E a \in sn.obj[e], b \in sn.sub[Subject] : Evaluate(c, a, b, sn.item.context) = "allow"

MayRelation(sn, S, e, r) ==
    \/ CheckDirect(sn.ever, e, r, Subject)
    \/ \E u \in Usersets(sn.ever, e, r) : <<u.ref, u.relation>> \in S

MayArrow(sn, S, e, r, p) ==
    \E o \in ListRelatedObjects(sn.ever, e, r) : HasPermission(o.type, p) /\ <<o, p>> \in S

MayChild(sn, S, e, c) ==
    /\ c.kind = "relation" => MayRelation(sn, S, e, c.relation)
    /\ c.kind = "arrow" => MayArrow(sn, S, e, c.relation, c.permission)
    /\ c.kind = "condition" => Meets(sn, c.condition, e)

\* No tuple that was there all along puts the subject in the relation, or in
\* a group that is in it.
Spared(sn, e, r) ==
    /\ ~CheckDirect(sn.always, e, r, Subject)
    /\ \A u \in Usersets(sn.always, e, r) : ~CheckDirect(sn.always, u.ref, u.relation, Subject)

MayWalk(sn, S, e, d) ==
    /\ d.op \in {"union", "direct"} => \E k \in DOMAIN d.children : MayChild(sn, S, e, d.children[k])
    /\ d.op = "intersect" => \A k \in DOMAIN d.children : MayChild(sn, S, e, d.children[k])
    /\ d.op = "exclusion" => /\ MayChild(sn, S, e, d.children[1])
                             /\ \A k \in DOMAIN d.children \ {1} : Spared(sn, e, d.children[k].relation)

MayGate(sn, e, d) == d.condition = NoCondition \/ Meets(sn, d.condition, e)

MayNode(sn, S, e, n) ==
    IF HasPermission(e.type, n)
    THEN MayWalk(sn, S, e, GetPermission(e.type, n)) /\ MayGate(sn, e, GetPermission(e.type, n))
    ELSE MayRelation(sn, S, e, n)

Pairs == Entities \X Names

\* The sets that have everything the rules give.
ClosedSets(sn) == {S \in SUBSET Pairs : \A x \in Pairs : MayNode(sn, S, x[1], x[2]) => x \in S}

\* What every one of them grants.
Granted(sn, e, c)     == \A S \in ClosedSets(sn) : MayChild(sn, S, e, c)
GrantedWalk(sn, e, d) == \A S \in ClosedSets(sn) : MayWalk(sn, S, e, d)

\* More was seen.
Grows(sn, st) ==
    /\ sn.ever \subseteq st.ever /\ st.always \subseteq sn.always
    /\ \A e \in Entities : sn.obj[e] \subseteq st.obj[e] /\ sn.sub[e] \subseteq st.sub[e]
    /\ sn.item = st.item

\* More tuples grant more.
LEMMA QueriesMonotone ==
    ASSUME NEW T, NEW U, T \subseteq U, NEW e, NEW r
    PROVE  /\ CheckDirect(T, e, r, Subject) => CheckDirect(U, e, r, Subject)
           /\ ListSubjects(T, e, r) \subseteq ListSubjects(U, e, r)
           /\ Usersets(T, e, r) \subseteq Usersets(U, e, r)
           /\ ListRelatedObjects(T, e, r) \subseteq ListRelatedObjects(U, e, r)
<1>1. OnRelation(T, e, r) \subseteq OnRelation(U, e, r)
  BY DEF OnRelation
<1>2. ListSubjects(T, e, r) \subseteq ListSubjects(U, e, r)
  BY <1>1 DEF ListSubjects
<1>3. Usersets(T, e, r) \subseteq Usersets(U, e, r)
  BY <1>2 DEF Usersets
<1>4. CheckDirect(T, e, r, Subject) => CheckDirect(U, e, r, Subject)
  BY <1>1 DEF CheckDirect
<1>5. ListRelatedObjects(T, e, r) \subseteq ListRelatedObjects(U, e, r)
  BY <1>1 DEF ListRelatedObjects
<1> QED BY <1>2, <1>3, <1>4, <1>5

\* Conditions, with more attributes to choose from.
LEMMA MeetsMonotone ==
    ASSUME NEW sn, NEW st, Grows(sn, st), NEW c, NEW e \in Entities, Meets(sn, c, e)
    PROVE  Meets(st, c, e)
<1>1. PICK a \in sn.obj[e], b \in sn.sub[Subject] : Evaluate(c, a, b, sn.item.context) = "allow"
  BY DEF Meets
<1>2. a \in st.obj[e] /\ b \in st.sub[Subject] /\ st.item = sn.item
  BY EngineAssumption DEF Grows
<1> QED BY <1>1, <1>2 DEF Meets

\* The rules for children, with more tuples and more nodes.
LEMMA MayChildMonotone ==
    ASSUME NEW sn, NEW st, Grows(sn, st), NEW S, NEW T, S \subseteq T, NEW e \in Entities
    PROVE  /\ \A r : MayRelation(sn, S, e, r) => MayRelation(st, T, e, r)
           /\ \A r, p : MayArrow(sn, S, e, r, p) => MayArrow(st, T, e, r, p)
           /\ \A c : MayChild(sn, S, e, c) => MayChild(st, T, e, c)
<1>0. sn.ever \subseteq st.ever
  BY DEF Grows
<1>1. \A r : MayRelation(sn, S, e, r) => MayRelation(st, T, e, r)
  BY <1>0, QueriesMonotone DEF MayRelation
<1>2. \A r, p : MayArrow(sn, S, e, r, p) => MayArrow(st, T, e, r, p)
  BY <1>0, QueriesMonotone DEF MayArrow
<1>3. \A c : Meets(sn, c, e) => Meets(st, c, e)
  BY MeetsMonotone
<1> QED BY <1>1, <1>2, <1>3 DEF MayChild

\* The rules for what is subtracted, with fewer tuples.
LEMMA SparedMonotone ==
    ASSUME NEW sn, NEW st, Grows(sn, st), NEW e, NEW r, Spared(sn, e, r)
    PROVE  Spared(st, e, r)
<1>1. st.always \subseteq sn.always
  BY DEF Grows
<1> QED BY <1>1, QueriesMonotone DEF Spared

\* The rules for permissions and relations.
LEMMA MayNodeMonotone ==
    ASSUME NEW sn, NEW st, Grows(sn, st), NEW S, NEW T, S \subseteq T, NEW e \in Entities
    PROVE  /\ \A d : MayWalk(sn, S, e, d) => MayWalk(st, T, e, d)
           /\ \A n : MayNode(sn, S, e, n) => MayNode(st, T, e, n)
<1>1. \A c : MayChild(sn, S, e, c) => MayChild(st, T, e, c)
  BY MayChildMonotone
<1>2. \A r : Spared(sn, e, r) => Spared(st, e, r)
  BY SparedMonotone
<1>3. \A d : MayWalk(sn, S, e, d) => MayWalk(st, T, e, d)
  BY <1>1, <1>2 DEF MayWalk
<1>4. \A d : MayGate(sn, e, d) => MayGate(st, e, d)
  BY MeetsMonotone DEF MayGate
<1>5. \A r : MayRelation(sn, S, e, r) => MayRelation(st, T, e, r)
  BY MayChildMonotone
<1> QED BY <1>3, <1>4, <1>5 DEF MayNode

\* What was granted stays granted.
LEMMA GrantedMonotone ==
    ASSUME NEW sn, NEW st, Grows(sn, st), NEW e \in Entities
    PROVE  /\ \A c : Granted(sn, e, c) => Granted(st, e, c)
           /\ \A d : GrantedWalk(sn, e, d) => GrantedWalk(st, e, d)
<1>1. ASSUME NEW S \in ClosedSets(st)
      PROVE  S \in ClosedSets(sn)
  <2>1. ASSUME NEW x \in Pairs, MayNode(sn, S, x[1], x[2])
        PROVE  x \in S
    <3>1. x[1] \in Entities /\ S \subseteq S
      BY DEF Pairs
    <3>2. \A n : MayNode(sn, S, x[1], n) => MayNode(st, S, x[1], n)
      BY <3>1, MayNodeMonotone
    <3>3. MayNode(st, S, x[1], x[2])
      BY <2>1, <3>2
    <3> QED BY <1>1, <3>3 DEF ClosedSets
  <2> QED BY <1>1, <2>1 DEF ClosedSets
<1>2. \A S : \A c : MayChild(sn, S, e, c) => MayChild(st, S, e, c)
  BY MayChildMonotone
<1>3. \A S : \A d : MayWalk(sn, S, e, d) => MayWalk(st, S, e, d)
  BY MayNodeMonotone
<1> QED BY <1>1, <1>2, <1>3 DEF Granted, GrantedWalk

-----------------------------------------------------------------------------
(* What the schema, the tuples and the conditions have to be like for the   *)
(* engine to keep to the documented meaning.                                *)

DefAt(n) == GetPermission(n.object.type, n.permission)

\* No condition gates the permission: the engine evaluates the condition of
\* the permission that was asked for and of no other.
Ungated(e, p) == HasPermission(e.type, p) => GetPermission(e.type, p).condition = NoCondition

InnerUngated ==
    /\ \A x \in Universe : Ungated(SubjectOf(x), x.subjectRelation)
    /\ \A n \in Nodes : \A k \in DOMAIN DefAt(n).children :
          LET c == DefAt(n).children[k]
          IN  c.kind = "arrow" =>
                 \A o \in ListRelatedObjects(Universe, n.object, c.relation) : Ungated(o, c.permission)

\* The subjects of the relation are subjects and groups of them.
Plain(e, r) ==
    /\ ~HasPermission(e.type, r)
    /\ \A u \in Usersets(Universe, e, r) :
          ~HasPermission(u.ref.type, u.relation) /\ Usersets(Universe, u.ref, u.relation) = {}

\* Only plain relations are subtracted, and only where no read fails.
ExclusionsArePlain ==
    \A n \in Nodes : DefAt(n).op = "exclusion" =>
        /\ MaxFaults = 0 /\ "deleted" \notin NewStatuses
        /\ \A k \in DOMAIN DefAt(n).children \ {1} :
              LET c == DefAt(n).children[k] IN c.kind = "relation" /\ Plain(n.object, c.relation)

\* A condition that allows without some attributes or without the request
\* context allows with them too.
AbsenceNeverHelps ==
    \A c \in Conditions, a, b \in Attrs \cup {NoAttrs}, x \in Contexts \cup {NoContext} :
        /\ Evaluate(c, NoAttrs, b, x) = "allow" => Evaluate(c, a, b, x) = "allow"
        /\ Evaluate(c, a, NoAttrs, x) = "allow" => Evaluate(c, a, b, x) = "allow"
        /\ Evaluate(c, a, b, NoContext) = "allow" => Evaluate(c, a, b, x) = "allow"

Reliable == InnerUngated /\ ExclusionsArePlain /\ AbsenceNeverHelps

\* The walk of the child meets no other permission.
Leaf(e, c) ==
    \/ c.kind = "condition"
    \/ /\ c.kind = "relation"
       /\ \A u \in Usersets(Universe, e, c.relation) : ~HasPermission(u.ref.type, u.relation)

\* The first permission that grants something decides the check: what is
\* still to be asked after a grant, in an intersection, is asked of leaves
\* before it.
FirstGrantDecides ==
    \A n \in Nodes :
        /\ DefAt(n).op # "exclusion"
        /\ DefAt(n).op = "intersect" =>
              \A k \in 1..(Len(DefAt(n).children) - 1) : Leaf(n.object, DefAt(n).children[k])

\* The names in a permission are relations: the engine does not look for
\* another permission of the type.
NoSubPermissions ==
    \A n \in Nodes : \A k \in DOMAIN DefAt(n).children :
        LET c == DefAt(n).children[k]
        IN  c.kind = "relation" => ~HasPermission(n.object.type, c.relation)

\* The members of a group are subjects: the engine does not look for groups
\* in it, unless it is a permission.
GroupsAreFlat ==
    \A x \in Universe :
        x.subjectRelation # Direct /\ ~HasPermission(SubjectOf(x).type, x.subjectRelation)
            => Usersets(Universe, SubjectOf(x), x.subjectRelation) = {}

\* A condition that denies without a request context does not need one.
ContextNeverHelps ==
    \A c \in Conditions, a, b \in Attrs \cup {NoAttrs}, x \in Contexts \cup {NoContext} :
        Evaluate(c, a, b, NoContext) = "deny" => Evaluate(c, a, b, x) # "allow"

Searchable == FirstGrantDecides /\ NoSubPermissions /\ GroupsAreFlat /\ ContextNeverHelps

-----------------------------------------------------------------------------
(* The documented meaning includes what every closed set grants.            *)

\* The levels, one by one.
LEMMA LevelValue ==
    /\ level[0] = [x \in Points |-> FALSE]
    /\ \A n \in 1..Levels : level[n] = NextLevel(level[n - 1])
<1>1. Levels \in Nat
  BY LevelsFinite
<1>2. 0 \in 0..Levels /\ \A n \in 1..Levels : n \in 0..Levels /\ n # 0
  BY <1>1
<1> DEFINE body(n) == IF n = 0 THEN [x \in Points |-> FALSE] ELSE NextLevel(level[n - 1])
<1>3. level = [n \in 0..Levels |-> body(n)]
  BY LevelUnfolds
<1>4. \A n \in 0..Levels : level[n] = body(n)
  <2> HIDE DEF body
  <2> QED BY <1>3
<1> QED BY <1>2, <1>4

\* The subjects of tuples are entities, and their relations have names.
LEMMA UsersetKnown ==
    ASSUME NEW T, T \subseteq Universe, NEW e, NEW r, NEW u \in ListSubjects(T, e, r)
    PROVE  u.ref \in Entities /\ u.relation \in Names
<1>1. PICK x \in T : u = [ref |-> SubjectOf(x), relation |-> x.subjectRelation]
  BY DEF ListSubjects, OnRelation
<1> QED BY <1>1, TuplesAssumption DEF Names

\* A permission of an entity has a name.
LEMMA PermissionNamed ==
    ASSUME NEW e \in Entities, NEW p, HasPermission(e.type, p)
    PROVE  p \in Names /\ <<e, p>> \in Pairs /\ GetPermission(e.type, p) \in PermissionDef
<1>1. Node(e, p) \in Nodes
  BY NodeKnown
<1>2. p \in Names
  BY <1>1 DEF Names, Node
<1> QED BY <1>2, SchemaAssumption DEF Pairs, HasPermission, GetPermission

\* What the rules for relations give is meant, if the nodes are.
LEMMA RelationMeant ==
    ASSUME NEW m, NEW S \in SUBSET Pairs, \A x \in S : m[<<"may", x[1], x[2]>>],
           NEW e, NEW r, MayRelation(seen, S, e, r)
    PROVE  RelationMeans(m, "may", e, r)
<1>1. Held("may") = seen.ever
  BY DEF Held
<1>2. CASE CheckDirect(seen.ever, e, r, Subject)
  BY <1>1, <1>2 DEF RelationMeans
<1>3. CASE \E u \in Usersets(seen.ever, e, r) : <<u.ref, u.relation>> \in S
  <2>1. PICK u \in Usersets(seen.ever, e, r) : <<u.ref, u.relation>> \in S
    BY <1>3
  <2>2. m[<<"may", u.ref, u.relation>>]
    BY <2>1
  <2>3. u \in ListSubjects(Held("may"), e, r) /\ u.relation # Direct
    BY <1>1, <2>1 DEF Usersets
  <2> QED BY <2>2, <2>3 DEF RelationMeans
<1> QED BY <1>2, <1>3 DEF MayRelation

\* The same for children.
LEMMA ChildMeant ==
    ASSUME NEW m, NEW S \in SUBSET Pairs, \A x \in S : m[<<"may", x[1], x[2]>>],
           NEW e, NEW c \in PermissionRef, MayChild(seen, S, e, c)
    PROVE  ChildMeans(m, "may", e, c)
<1>1. CASE c.kind = "relation"
  <2>1. RelationMeans(m, "may", e, c.relation)
    BY <1>1, RelationMeant DEF MayChild
  <2> QED BY <1>1, <2>1 DEF ChildMeans
<1>2. CASE c.kind = "arrow"
  <2>1. PICK o \in ListRelatedObjects(seen.ever, e, c.relation) :
           HasPermission(o.type, c.permission) /\ <<o, c.permission>> \in S
    BY <1>2 DEF MayChild, MayArrow
  <2>2. m[<<"may", o, c.permission>>]
    BY <2>1
  <2> QED BY <1>2, <2>1, <2>2 DEF ChildMeans, Held
<1>3. CASE c.kind = "condition"
  BY <1>3 DEF MayChild, ChildMeans, Meets, Satisfied
<1> QED BY <1>1, <1>2, <1>3 DEF PermissionRef

\* The same for permissions, if what is spared is not meant to be subtracted.
LEMMA PermissionMeant ==
    ASSUME NEW m, NEW S \in SUBSET Pairs, \A x \in S : m[<<"may", x[1], x[2]>>],
           NEW e, NEW d \in PermissionDef, MayWalk(seen, S, e, d), MayGate(seen, e, d),
           d.op = "exclusion" =>
               \A k \in DOMAIN d.children \ {1} :
                  Spared(seen, e, d.children[k].relation) => ~ChildMeans(m, "must", e, d.children[k])
    PROVE  PermissionMeans(m, "may", e, d)
<1>1. /\ d.op \in {"direct", "union", "intersect", "exclusion"}
      /\ d.children \in Seq(PermissionRef) /\ d.children # <<>>
  BY DEF PermissionDef
<1>2. 1 \in DOMAIN d.children /\ \A k \in DOMAIN d.children : d.children[k] \in PermissionRef
  BY <1>1
<1>3. \A k \in DOMAIN d.children :
         MayChild(seen, S, e, d.children[k]) => ChildMeans(m, "may", e, d.children[k])
  BY <1>2, ChildMeant
<1>4. d.condition = NoCondition \/ Satisfied("may", d.condition, e)
  BY DEF MayGate, Meets, Satisfied
<1>5. Opposite("may") = "must"
  BY DEF Opposite
<1>6. CASE d.op \in {"union", "direct"}
  BY <1>3, <1>4, <1>6 DEF PermissionMeans, MayWalk
<1>7. CASE d.op = "intersect"
  BY <1>3, <1>4, <1>7 DEF PermissionMeans, MayWalk
<1>8. CASE d.op = "exclusion"
  BY <1>2, <1>3, <1>4, <1>5, <1>8 DEF PermissionMeans, MayWalk
<1> QED BY <1>1, <1>6, <1>7, <1>8

\* Who has a relation without groups all along is in it directly.
LEMMA FlatMeant ==
    ASSUME seen \in Seen, NEW n \in 0..Levels, NEW e \in Entities, NEW r \in Names,
           ~HasPermission(e.type, r), Usersets(Universe, e, r) = {},
           level[n][<<"must", e, r>>]
    PROVE  CheckDirect(seen.always, e, r, Subject)
<1>1. Held("must") = seen.always /\ seen.always \subseteq Universe
  BY DEF Held, Seen
<1>2. <<"must", e, r>> \in Points
  BY DEF Points
<1>3. n # 0
  BY <1>2, LevelValue
<1>4. n \in 1..Levels
  BY <1>3, LevelsFinite
<1>5. level[n][<<"must", e, r>>] = RelationMeans(level[n - 1], "must", e, r)
  <2>1. level[n] = NextLevel(level[n - 1])
    BY <1>4, LevelValue
  <2> QED BY <1>2, <2>1 DEF NextLevel
<1>6. Usersets(seen.always, e, r) = {}
  BY <1>1, QueriesMonotone
<1> QED BY <1>1, <1>5, <1>6 DEF RelationMeans, Usersets

\* What is subtracted by a plain relation, at any level, is not spared.
LEMMA SubtractedMeant ==
    ASSUME seen \in Seen, NEW n \in 0..Levels, NEW e \in Entities, NEW c, c.kind = "relation",
           Plain(e, c.relation), ChildMeans(level[n], "must", e, c)
    PROVE  ~Spared(seen, e, c.relation)
<1>1. Held("must") = seen.always /\ seen.always \subseteq Universe
  BY DEF Held, Seen
<1>2. RelationMeans(level[n], "must", e, c.relation)
  BY DEF ChildMeans, Plain
<1>3. CASE CheckDirect(seen.always, e, c.relation, Subject)
  BY <1>3 DEF Spared
<1>4. CASE \E u \in ListSubjects(seen.always, e, c.relation) :
              u.relation # Direct /\ level[n][<<"must", u.ref, u.relation>>]
  <2>1. PICK u \in ListSubjects(seen.always, e, c.relation) :
              u.relation # Direct /\ level[n][<<"must", u.ref, u.relation>>]
    BY <1>4
  <2>2. u \in Usersets(seen.always, e, c.relation) /\ u \in Usersets(Universe, e, c.relation)
    BY <1>1, <2>1, QueriesMonotone DEF Usersets
  <2>3. ~HasPermission(u.ref.type, u.relation) /\ Usersets(Universe, u.ref, u.relation) = {}
    BY <2>2 DEF Plain
  <2>4. CheckDirect(seen.always, u.ref, u.relation, Subject)
    BY <1>1, <2>1, <2>3, UsersetKnown, FlatMeant
  <2> QED BY <2>2, <2>4 DEF Spared
<1> QED BY <1>1, <1>2, <1>3, <1>4 DEF RelationMeans

\* A permission that is gated by nothing but what was met, and whose walk every
\* closed set grants, is meant to be granted.
LEMMA GrantedIsMeant ==
    ASSUME ExclusionsArePlain, seen \in Seen, NEW e \in Entities, NEW p, HasPermission(e.type, p),
           GrantedWalk(seen, e, GetPermission(e.type, p)), MayGate(seen, e, GetPermission(e.type, p))
    PROVE  Meaning[<<"may", e, p>>]
<1> DEFINE V == SUBSET Pairs
           phi == [S \in SUBSET Pairs |-> {x \in Pairs : MayNode(seen, S, x[1], x[2])}]
           step == [y \in V \X (1..Levels) |-> phi[y[1]]]
<1>1. Levels \in Nat /\ IsFiniteSet(Pairs) /\ Levels = Cardinality(Pairs)
  BY LevelsFinite DEF Pairs, Levels
<1>2. phi \in [SUBSET Pairs -> SUBSET Pairs]
  OBVIOUS
<1>3. step \in [V \X (1..Levels) -> V]
  <2> HIDE DEF phi
  <2> QED BY <1>2
<1>4. PICK A : Iterates(Levels, V, {}, step, A)
  <2>1. {} \in V
    OBVIOUS
  <2> HIDE DEF V, step
  <2> QED BY <1>1, <1>3, <2>1, Iteration
<1>5. /\ A \in [0..Levels -> SUBSET Pairs] /\ A[0] = {}
      /\ \A n \in 1..Levels : A[n] = phi[A[n - 1]]
  <2>1. ASSUME NEW n \in 1..Levels
        PROVE  A[n] = phi[A[n - 1]]
    <3>1. n - 1 \in 0..Levels
      BY <1>1
    <3>2. <<A[n - 1], n>> \in V \X (1..Levels)
      BY <1>4, <3>1 DEF Iterates
    <3> HIDE DEF phi
    <3> QED BY <1>4, <3>2 DEF Iterates
  <2> HIDE DEF phi, step
  <2> QED BY <1>4, <2>1 DEF Iterates
<1>6. \A S, T \in SUBSET Pairs : S \subseteq T => phi[S] \subseteq phi[T]
  <2> SUFFICES ASSUME NEW S \in SUBSET Pairs, NEW T \in SUBSET Pairs, S \subseteq T,
                      NEW x \in Pairs, MayNode(seen, S, x[1], x[2])
               PROVE  MayNode(seen, T, x[1], x[2])
    OBVIOUS
  <2>1. Grows(seen, seen) /\ x[1] \in Entities
    BY DEF Grows, Pairs
  <2> QED BY <2>1, MayNodeMonotone, ZenonT(60)
<1>7. phi[A[Levels]] \subseteq A[Levels]
  <2> HIDE DEF phi
  <2> QED BY <1>1, <1>2, <1>5, <1>6, ClosedSet
<1>8. A[Levels] \in ClosedSets(seen)
  <2>1. A[Levels] \in SUBSET Pairs
    BY <1>1, <1>5
  <2> QED BY <1>7, <2>1 DEF ClosedSets
<1> DEFINE Meant == {n \in 0..Levels : \A x \in A[n] : level[n][<<"may", x[1], x[2]>>]}
<1>9. \A n \in 0..Levels : n \in Meant
  <2>1. 0 \in Meant
    BY <1>1, <1>5
  <2>2. ASSUME NEW n \in 0..(Levels - 1), n \in Meant
        PROVE  n + 1 \in Meant
    <3>1. n \in 0..Levels /\ n + 1 \in 1..Levels /\ n + 1 \in 0..Levels /\ (n + 1) - 1 = n
      BY <1>1
    <3>2. level[n + 1] = NextLevel(level[n]) /\ A[n + 1] = phi[A[n]] /\ A[n] \in SUBSET Pairs
      BY <1>5, <3>1, LevelValue
    <3>3. ASSUME NEW x \in A[n + 1]
          PROVE  level[n + 1][<<"may", x[1], x[2]>>]
      <4>1. x \in Pairs /\ MayNode(seen, A[n], x[1], x[2])
        BY <3>2
      <4>2. <<"may", x[1], x[2]>> \in Points /\ x[1] \in Entities
        BY <4>1 DEF Points, Pairs
      <4>3. \A y \in A[n] : level[n][<<"may", y[1], y[2]>>]
        BY <2>2
      <4>4. CASE HasPermission(x[1].type, x[2])
        <5> DEFINE d == GetPermission(x[1].type, x[2])
        <5>1. d \in PermissionDef
          BY <4>2, <4>4, PermissionNamed
        <5>2. MayWalk(seen, A[n], x[1], d) /\ MayGate(seen, x[1], d)
          BY <4>1, <4>4 DEF MayNode
        <5>3. ASSUME d.op = "exclusion", NEW k \in DOMAIN d.children \ {1},
                     Spared(seen, x[1], d.children[k].relation)
              PROVE  ~ChildMeans(level[n], "must", x[1], d.children[k])
          <6>1. Node(x[1], x[2]) \in Nodes
            BY <4>2, <4>4, NodeKnown
          <6>2. DefAt(Node(x[1], x[2])) = d /\ Node(x[1], x[2]).object = x[1]
            BY DEF DefAt, Node
          <6> HIDE DEF d
          <6>3. d.children[k].kind = "relation" /\ Plain(x[1], d.children[k].relation)
            BY <5>3, <6>1, <6>2 DEF ExclusionsArePlain
          <6> QED BY <3>1, <4>2, <5>3, <6>3, SubtractedMeant
        <5> HIDE DEF d
        <5>4. PermissionMeans(level[n], "may", x[1], d)
          BY <3>2, <4>3, <5>1, <5>2, <5>3, PermissionMeant
        <5>5. level[n + 1][<<"may", x[1], x[2]>>] = PermissionMeans(level[n], "may", x[1], d)
          BY <3>2, <4>2, <4>4 DEF NextLevel, d
        <5> QED BY <5>4, <5>5
      <4>5. CASE ~HasPermission(x[1].type, x[2])
        <5>1. RelationMeans(level[n], "may", x[1], x[2])
          BY <3>2, <4>1, <4>3, <4>5, RelationMeant DEF MayNode
        <5>2. level[n + 1][<<"may", x[1], x[2]>>] = RelationMeans(level[n], "may", x[1], x[2])
          BY <3>2, <4>2, <4>5 DEF NextLevel
        <5> QED BY <5>1, <5>2
      <4> QED BY <4>4, <4>5
    <3> QED BY <3>1, <3>3
  <2> HIDE DEF Meant
  <2> QED BY <1>1, <2>1, <2>2, BoundedInduction
<1>10. <<e, p>> \in A[Levels]
  <2>1. <<e, p>> \in Pairs
    BY PermissionNamed
  <2>2. MayNode(seen, A[Levels], e, p)
    BY <1>8 DEF MayNode, GrantedWalk
  <2> QED BY <1>8, <2>1, <2>2 DEF ClosedSets
<1>11. Levels \in Meant
  BY <1>1, <1>9
<1> QED BY <1>10, <1>11 DEF Meaning

-----------------------------------------------------------------------------
(* The strict reading: what a walk that found nothing went through, of what *)
(* was seen (sn) and of the visited nodes v.                                *)

\* The userset was walked, or the subject is not in it all along.
Skipped(sn, v, u) ==
    IF HasPermission(u.ref.type, u.relation) THEN Node(u.ref, u.relation) \in v
    ELSE ~CheckDirect(sn.always, u.ref, u.relation, Subject)

\* The related object has no such permission, or it was walked.
Passed(v, o, p) == HasPermission(o.type, p) => Node(o, p) \in v

Fails(sn, c, e) ==
    \E a \in sn.obj[e], b \in sn.sub[Subject], x \in {sn.item.context, NoContext} :
        Evaluate(c, a, b, x) = "deny"

MissedChild(sn, v, e, c) ==
    /\ c.kind = "relation" =>
          /\ ~CheckDirect(sn.always, e, c.relation, Subject)
          /\ \A u \in Usersets(sn.always, e, c.relation) : Skipped(sn, v, u)
    /\ c.kind = "arrow" =>
          \A o \in ListRelatedObjects(sn.always, e, c.relation) : Passed(v, o, c.permission)
    /\ c.kind = "condition" => Fails(sn, c.condition, e)

Denied(sn, v, n) ==
    IF DefAt(n).op = "intersect"
    THEN \E k \in DOMAIN DefAt(n).children : MissedChild(sn, v, n.object, DefAt(n).children[k])
    ELSE \A k \in DOMAIN DefAt(n).children : MissedChild(sn, v, n.object, DefAt(n).children[k])

\* What was missed stays missed.
LEMMA MissedMonotone ==
    ASSUME NEW sn, NEW st, Grows(sn, st), NEW v, NEW w, v \subseteq w, NEW e \in Entities
    PROVE  /\ \A u : Skipped(sn, v, u) => Skipped(st, w, u)
           /\ \A o, p : Passed(v, o, p) => Passed(w, o, p)
           /\ \A c : Fails(sn, c, e) => Fails(st, c, e)
           /\ \A c : MissedChild(sn, v, e, c) => MissedChild(st, w, e, c)
<1>1. st.always \subseteq sn.always
  BY DEF Grows
<1>2. \A u : Skipped(sn, v, u) => Skipped(st, w, u)
  BY <1>1, QueriesMonotone DEF Skipped
<1>3. \A o, p : Passed(v, o, p) => Passed(w, o, p)
  BY DEF Passed
<1>4. ASSUME NEW c, Fails(sn, c, e)
      PROVE  Fails(st, c, e)
  <2>1. PICK a \in sn.obj[e], b \in sn.sub[Subject], x \in {sn.item.context, NoContext} :
           Evaluate(c, a, b, x) = "deny"
    BY <1>4 DEF Fails
  <2>2. a \in st.obj[e] /\ b \in st.sub[Subject] /\ x \in {st.item.context, NoContext}
    BY EngineAssumption DEF Grows
  <2> QED BY <2>1, <2>2 DEF Fails
<1>5. ASSUME NEW c, MissedChild(sn, v, e, c)
      PROVE  MissedChild(st, w, e, c)
  <2>1. CASE c.kind = "relation"
    BY <1>1, <1>2, <1>5, <2>1, QueriesMonotone DEF MissedChild
  <2>2. CASE c.kind = "arrow"
    BY <1>1, <1>3, <1>5, <2>2, QueriesMonotone DEF MissedChild
  <2>3. CASE c.kind = "condition"
    BY <1>4, <1>5, <2>3 DEF MissedChild
  <2> QED BY <2>1, <2>2, <2>3 DEF MissedChild
<1> QED BY <1>2, <1>3, <1>4, <1>5

\* The same for nodes.
LEMMA DeniedMonotone ==
    ASSUME NEW sn, NEW st, Grows(sn, st), NEW v, NEW w, v \subseteq w, NEW n, n.object \in Entities,
           Denied(sn, v, n)
    PROVE  Denied(st, w, n)
<1>1. \A c : MissedChild(sn, v, n.object, c) => MissedChild(st, w, n.object, c)
  BY MissedMonotone
<1> QED BY <1>1 DEF Denied

\* A child that was missed is not meant to be granted all along, if the nodes
\* that were visited are not.
LEMMA MissedIsMeant ==
    ASSUME seen \in Seen, seen.item \in Item, GroupsAreFlat, ContextNeverHelps, NEW i \in 0..Levels,
           NEW v, \A n \in v : ~level[i][<<"must", n.object, n.permission>>],
           NEW e \in Entities, NEW c \in PermissionRef, MissedChild(seen, v, e, c),
           c.kind = "relation" => ~HasPermission(e.type, c.relation)
    PROVE  ~ChildMeans(level[i], "must", e, c)
<1>1. Held("must") = seen.always /\ seen.always \subseteq Universe
  BY DEF Held, Seen
<1>2. CASE c.kind = "relation"
  <2>1. ASSUME NEW u \in ListSubjects(seen.always, e, c.relation), u.relation # Direct
        PROVE  ~level[i][<<"must", u.ref, u.relation>>]
    <3>1. u \in Usersets(seen.always, e, c.relation) /\ u.ref \in Entities /\ u.relation \in Names
      BY <1>1, <2>1, UsersetKnown DEF Usersets
    <3>2. Skipped(seen, v, u)
      BY <1>2, <3>1 DEF MissedChild
    <3>3. CASE HasPermission(u.ref.type, u.relation)
      <4>1. Node(u.ref, u.relation) \in v
        BY <3>2, <3>3 DEF Skipped
      <4> QED BY <4>1 DEF Node
    <3>4. CASE ~HasPermission(u.ref.type, u.relation)
      <4>1. ~CheckDirect(seen.always, u.ref, u.relation, Subject)
        BY <3>2, <3>4 DEF Skipped
      <4>2. PICK x \in Universe : u = [ref |-> SubjectOf(x), relation |-> x.subjectRelation]
        BY <1>1 DEF ListSubjects, OnRelation
      <4>3. Usersets(Universe, u.ref, u.relation) = {}
        <5>1. u.ref = SubjectOf(x) /\ u.relation = x.subjectRelation
          BY <4>2
        <5> QED BY <2>1, <3>4, <5>1 DEF GroupsAreFlat
      <4> QED BY <3>1, <3>4, <4>1, <4>3, FlatMeant
    <3> QED BY <3>3, <3>4
  <2>2. ~RelationMeans(level[i], "must", e, c.relation)
    BY <1>1, <1>2, <2>1 DEF RelationMeans, MissedChild
  <2> QED BY <1>2, <2>2 DEF ChildMeans
<1>3. CASE c.kind = "arrow"
  <2>1. ASSUME NEW o \in ListRelatedObjects(seen.always, e, c.relation),
               HasPermission(o.type, c.permission)
        PROVE  ~level[i][<<"must", o, c.permission>>]
    <3>1. Node(o, c.permission) \in v
      BY <1>3, <2>1 DEF MissedChild, Passed
    <3> QED BY <3>1 DEF Node
  <2> QED BY <1>1, <1>3, <2>1 DEF ChildMeans
<1>4. CASE c.kind = "condition"
  <2>1. PICK a \in seen.obj[e], b \in seen.sub[Subject], x \in {seen.item.context, NoContext} :
           Evaluate(c.condition, a, b, x) = "deny"
    BY <1>4 DEF MissedChild, Fails
  <2>2. /\ a \in Attrs \cup {NoAttrs} /\ b \in Attrs \cup {NoAttrs} /\ c.condition \in Conditions
        /\ seen.item.context \in Contexts \cup {NoContext}
    BY <1>4, EngineAssumption DEF Seen, Item, PermissionRef
  <2>3. Evaluate(c.condition, a, b, seen.item.context) # "allow"
    BY <2>1, <2>2 DEF ContextNeverHelps
  <2>4. ~Satisfied("must", c.condition, e)
    BY <2>1, <2>3 DEF Satisfied
  <2> QED BY <1>4, <2>4 DEF ChildMeans
<1> QED BY <1>2, <1>3, <1>4 DEF PermissionRef

\* Nodes that are all denied are not meant to be granted all along.
LEMMA DeniedIsMeant ==
    ASSUME Searchable, seen \in Seen, seen.item \in Item, NEW v \in SUBSET Nodes,
           \A n \in v : Denied(seen, v, n)
    PROVE  \A n \in v : ~Meaning[<<"must", n.object, n.permission>>]
<1>0. Levels \in Nat
  BY LevelsFinite
<1>1. ASSUME NEW n \in v
      PROVE  /\ n \in Nodes /\ n.object \in Entities /\ HasPermission(n.object.type, n.permission)
             /\ <<"must", n.object, n.permission>> \in Points
             /\ GetPermission(n.object.type, n.permission) \in PermissionDef
             /\ DefAt(n) = GetPermission(n.object.type, n.permission)
  <2>1. n.object \in Entities /\ HasPermission(n.object.type, n.permission)
    BY DEF Nodes, HasPermission
  <2> QED BY <2>1, PermissionNamed DEF Points, DefAt
<1> DEFINE Meant == {i \in 0..Levels : \A n \in v : ~level[i][<<"must", n.object, n.permission>>]}
<1>2. 0 \in Meant
  <2>1. \A n \in v : ~level[0][<<"must", n.object, n.permission>>]
    BY <1>1, LevelValue
  <2> QED BY <1>0, <2>1
<1>3. ASSUME NEW i \in 0..(Levels - 1), i \in Meant
      PROVE  i + 1 \in Meant
  <2>1. i \in 0..Levels /\ i + 1 \in 1..Levels /\ i + 1 \in 0..Levels /\ (i + 1) - 1 = i
    BY <1>0
  <2>2. level[i + 1] = NextLevel(level[i])
    BY <2>1, LevelValue
  <2>3. \A n \in v : ~level[i][<<"must", n.object, n.permission>>]
    BY <1>3
  <2>4. ASSUME NEW n \in v
        PROVE  ~level[i + 1][<<"must", n.object, n.permission>>]
    <3> DEFINE d == GetPermission(n.object.type, n.permission)
    <3>1. level[i + 1][<<"must", n.object, n.permission>>] = PermissionMeans(level[i], "must", n.object, d)
      BY <1>1, <2>2 DEF NextLevel
    <3>2. d \in PermissionDef /\ d.op \in {"direct", "union", "intersect"} /\ DefAt(n) = d
      BY <1>1 DEF PermissionDef, Searchable, FirstGrantDecides
    <3> HIDE DEF d
    <3>3. d.children \in Seq(PermissionRef)
      BY <3>2 DEF PermissionDef
    <3>4. ASSUME NEW k \in DOMAIN d.children, MissedChild(seen, v, n.object, d.children[k])
          PROVE  ~ChildMeans(level[i], "must", n.object, d.children[k])
      <4>1. d.children[k] \in PermissionRef
        BY <3>3
      <4>2. d.children[k].kind = "relation" => ~HasPermission(n.object.type, d.children[k].relation)
        BY <1>1, <3>2 DEF Searchable, NoSubPermissions
      <4> QED BY <1>1, <2>1, <2>3, <3>4, <4>1, <4>2, MissedIsMeant DEF Searchable
    <3>5. Denied(seen, v, n)
      OBVIOUS
    <3>6. CASE d.op = "intersect"
      BY <3>1, <3>2, <3>4, <3>5, <3>6 DEF Denied, PermissionMeans
    <3>7. CASE d.op # "intersect"
      BY <3>1, <3>2, <3>4, <3>5, <3>7 DEF Denied, PermissionMeans
    <3> QED BY <3>6, <3>7
  <2> QED BY <2>1, <2>4
<1>4. \A i \in 0..Levels : i \in Meant
  <2> HIDE DEF Meant
  <2> QED BY <1>0, <1>2, <1>3, BoundedInduction
<1>5. Levels \in Meant
  BY <1>0, <1>4
<1> QED BY <1>5 DEF Meaning

\* The condition of the permission asked for fails.
GateFails(sn) ==
    LET gate == DefAt(sn.item).condition
    IN  /\ gate # NoCondition
        /\ \E a \in sn.obj[sn.item.object], b \in sn.sub[Subject] :
              Evaluate(gate, a, b, sn.item.context) = "deny"

\* A permission whose condition fails is not meant to be granted all along.
LEMMA GateIsMeant ==
    ASSUME seen.item.object \in Entities,
           HasPermission(seen.item.object.type, seen.item.permission), GateFails(seen)
    PROVE  ~Meaning[<<"must", seen.item.object, seen.item.permission>>]
<1> DEFINE e == seen.item.object
           p == seen.item.permission
           d == GetPermission(e.type, p)
<1>1. <<"must", e, p>> \in Points /\ Levels \in Nat
  BY PermissionNamed, LevelsFinite DEF Points
<1>2. CASE Levels = 0
  BY <1>1, <1>2, LevelValue DEF Meaning
<1>3. CASE Levels # 0
  <2>1. Levels \in 1..Levels
    BY <1>1, <1>3
  <2>2. level[Levels] = NextLevel(level[Levels - 1])
    BY <2>1, LevelValue
  <2>3. Meaning[<<"must", e, p>>] = PermissionMeans(level[Levels - 1], "must", e, d)
    BY <1>1, <2>2 DEF NextLevel, Meaning
  <2>4. d.condition # NoCondition /\ ~Satisfied("must", d.condition, e)
    BY DEF GateFails, Satisfied, DefAt
  <2> HIDE DEF d
  <2> QED BY <2>3, <2>4 DEF PermissionMeans
<1> QED BY <1>2, <1>3

-----------------------------------------------------------------------------
(* The invariant of a walk: what the frames on the stack stand for.         *)

ChildOf(f) == DefAt(f).children[f.child]

\* What the children before the current one have shown.
Progress(sn, f) ==
    Reliable =>
        /\ DefAt(f).op = "intersect" =>
              \A k \in 1..(f.child - 1) : Granted(sn, f.object, DefAt(f).children[k])
        /\ DefAt(f).op = "exclusion" /\ f.child > 1 =>
              /\ Granted(sn, f.object, DefAt(f).children[1])
              /\ \A k \in 2..(f.child - 1) : Spared(sn, f.object, DefAt(f).children[k].relation)

\* The frame f is called by the frame g.
OnPermission(sn, f, g) ==
    /\ f.context \in {sn.item.context, NoContext}
    /\ g.kind \in {"check", "usersets", "targets"}
    /\ g.kind = "check" =>
          ~g.gated /\ f.object = sn.item.object /\ f.permission = sn.item.permission
    /\ Progress(sn, f)

OnLookup(sn, f, g) ==
    /\ g.kind = "permission" /\ ChildOf(g).kind = "relation"
    /\ f.object = g.object /\ f.relation = ChildOf(g).relation

OnUsersets(sn, f, g) ==
    /\ g.kind = "permission" /\ ChildOf(g).kind = "relation"
    /\ f.pending \subseteq Usersets(sn.ever, g.object, ChildOf(g).relation)

OnTargets(sn, f, g) ==
    /\ g.kind = "permission" /\ ChildOf(g).kind = "arrow"
    /\ f.permission = ChildOf(g).permission /\ f.context \in {sn.item.context, NoContext}
    /\ f.pending \subseteq ListRelatedObjects(sn.ever, g.object, ChildOf(g).relation)

OnCondition(sn, f, g) ==
    /\ f.context \in {sn.item.context, NoContext}
    /\ f.read => f.attrs \in sn.obj[f.object] \cup {NoAttrs}
    /\ \/ /\ g.kind = "permission" /\ ChildOf(g).kind = "condition"
          /\ f.object = g.object /\ f.condition = ChildOf(g).condition
       \/ /\ g.kind = "check" /\ g.gated /\ DefAt(sn.item).condition # NoCondition
          /\ f.object = sn.item.object /\ f.condition = DefAt(sn.item).condition
          /\ f.context = sn.item.context

On(sn, f, g) ==
    /\ f.kind # "check"
    /\ f.kind = "permission" => OnPermission(sn, f, g)
    /\ f.kind = "relation" => OnLookup(sn, f, g)
    /\ f.kind = "usersets" => OnUsersets(sn, f, g)
    /\ f.kind = "targets" => OnTargets(sn, f, g)
    /\ f.kind = "condition" => OnCondition(sn, f, g)

\* A permission f that a loop g walks for the permission h.
Called(sn, f, g, h) ==
    f.kind = "permission" =>
        /\ g.kind = "usersets" =>
              [ref |-> f.object, relation |-> f.permission]
                  \in Usersets(sn.ever, h.object, ChildOf(h).relation)
        /\ g.kind = "targets" =>
              /\ f.permission = ChildOf(h).permission
              /\ f.object \in ListRelatedObjects(sn.ever, h.object, ChildOf(h).relation)

Bottom(s) == s[Len(s)]

\* The last frame is the check itself; its condition is evaluated when the
\* walk has allowed.
Linked(sn, s) ==
    /\ s # <<>> /\ Bottom(s).kind = "check"
    /\ Bottom(s).gated => DefAt(sn.item).condition # NoCondition
    /\ Bottom(s).gated /\ Reliable => GrantedWalk(sn, sn.item.object, DefAt(sn.item))
    /\ \A i \in 1..(Len(s) - 1) : On(sn, s[i], s[i + 1])
    /\ \A i \in 1..(Len(s) - 2) : Called(sn, s[i], s[i + 1], s[i + 2])

\* What is left to do, and that the rest was missed.
Left(sn, v, f, g) ==
    /\ f.kind = "permission" =>
          (DefAt(f).op \in {"union", "direct"} =>
              \A k \in 1..(f.child - 1) : MissedChild(sn, v, f.object, DefAt(f).children[k]))
    /\ f.kind \in {"relation", "usersets"} =>
          ~CheckDirect(sn.always, g.object, ChildOf(g).relation, Subject)
    /\ f.kind = "usersets" =>
          \A u \in Usersets(sn.always, g.object, ChildOf(g).relation) :
              u \in f.pending \/ Skipped(sn, v, u)
    /\ f.kind = "targets" =>
          \A o \in ListRelatedObjects(sn.always, g.object, ChildOf(g).relation) :
              o \in f.pending \/ Passed(v, o, f.permission)
    /\ f.kind = "condition" /\ f.read => f.attrs \in sn.obj[f.object]

AllLeft(sn, v, s) == \A i \in 1..(Len(s) - 1) : Left(sn, v, s[i], s[i + 1])

\* What a result of the innermost call means.
Allows(sn, s, r) ==
    /\ r # "none" => s[1].kind \notin {"relation", "condition"}
    /\ Reliable /\ r = "allow" =>
          /\ s[1].kind = "permission" => Granted(sn, s[1].object, ChildOf(s[1]))
          /\ s[1].kind \in {"usersets", "targets"} => Granted(sn, s[2].object, ChildOf(s[2]))
          /\ s[1].kind = "check" =>
                /\ GrantedWalk(sn, sn.item.object, DefAt(sn.item))
                /\ s[1].gated => Meets(sn, DefAt(sn.item).condition, sn.item.object)

Denies(sn, v, s, r) ==
    r = "deny" =>
        /\ s[1].kind = "permission" => MissedChild(sn, v, s[1].object, ChildOf(s[1]))
        /\ s[1].kind = "check" /\ s[1].gated => GateFails(sn)

\* The grant of a child that an intersection asks before others.
Inner(f) == DefAt(f).op = "intersect" /\ f.child < Len(DefAt(f).children)

\* Nothing has decided the check yet.
Undecided(s, r) ==
    /\ ~Bottom(s).gated
    /\ \/ r \in {"none", "deny"}
       \/ /\ r = "allow"
          /\ \/ s[1].kind = "permission" /\ Inner(s[1])
             \/ s[1].kind \in {"usersets", "targets"} /\ Inner(s[2])

\* Then every visited node is being walked or denied.
Walked(s) == {n \in Nodes : \E i \in DOMAIN s : Walks(s[i]) /\ NodeOf(s[i]) = n}

Searched(sn, v, s, r) ==
    Undecided(s, r) =>
        /\ Node(sn.item.object, sn.item.permission) \in v
        /\ \A n \in v : Denied(sn, v, n) \/ n \in Walked(s)

\* No read of the check has failed.
Untouched == faults = 0 /\ "deleted" \notin seen.statuses

\* The history of the check is one of the store.
Witnessed ==
    /\ seen.always \subseteq tuples /\ tuples \subseteq seen.ever
    /\ \A e \in Entities : objAttrs[e] \in seen.obj[e] /\ subAttrs[e] \in seen.sub[e]
    /\ seen.item = Head(items)

\* What the outcome of a check means.
ItemKnown(sn) ==
    sn.item \in Item /\ HasPermission(sn.item.object.type, sn.item.permission)

AllowedFor(sn) ==
    ItemKnown(sn) /\ (Reliable => /\ GrantedWalk(sn, sn.item.object, DefAt(sn.item))
                                  /\ MayGate(sn, sn.item.object, DefAt(sn.item)))

DeniedFor(sn, v) ==
    /\ ItemKnown(sn)
    /\ Searchable =>
          \/ GateFails(sn)
          \/ /\ Node(sn.item.object, sn.item.permission) \in v
             /\ \A n \in v : Denied(sn, v, n)

JInv ==
    /\ stack # <<>> =>
          /\ Witnessed /\ Linked(seen, stack) /\ Allows(seen, stack, ret)
          /\ Untouched /\ ret # "error" =>
                /\ AllLeft(seen, visited, stack) /\ Denies(seen, visited, stack, ret)
                /\ Searchable => Searched(seen, visited, stack, ret)
    /\ Ended("allow") => AllowedFor(seen)
    /\ Ended("deny") /\ Untouched => DeniedFor(seen, visited)
    /\ Reliable /\ (\E n \in Nodes : DefAt(n).op = "exclusion") => Untouched

-----------------------------------------------------------------------------
(* Stacks.                                                                  *)

\* Positions of a frame put on a stack.
LEMMA ConsPositions ==
    ASSUME NEW b \in Seq(Frame), b # <<>>, NEW f \in Frame
    PROVE  /\ <<f>> \o b \in Seq(Frame) /\ <<f>> \o b # <<>>
           /\ Head(<<f>> \o b) = f /\ Tail(<<f>> \o b) = b
           /\ Len(b) \in Nat /\ Len(b) >= 1 /\ Len(<<f>> \o b) = Len(b) + 1
           /\ DOMAIN (<<f>> \o b) = 1..(Len(b) + 1) /\ DOMAIN b = 1..Len(b)
           /\ (<<f>> \o b)[1] = f /\ (<<f>> \o b)[2] = b[1]
           /\ Len(b) >= 2 => (<<f>> \o b)[3] = b[2]
           /\ \A i \in 1..Len(b) : (<<f>> \o b)[i + 1] = b[i]
           /\ Bottom(<<f>> \o b) = Bottom(b)
<1> DEFINE s == <<f>> \o b
<1>1. /\ s \in Seq(Frame) /\ s # <<>> /\ Len(b) \in Nat /\ Len(b) >= 1 /\ Len(s) = Len(b) + 1
      /\ DOMAIN s = 1..(Len(b) + 1) /\ DOMAIN b = 1..Len(b) /\ s[1] = f
      /\ \A i \in 1..Len(b) : s[i + 1] = b[i]
  OBVIOUS
<1>2. Head(s) = f /\ Tail(s) = b
  OBVIOUS
<1> HIDE DEF s
<1>3. s[2] = b[1]
  <2>1. 1 \in 1..Len(b) /\ 1 + 1 = 2
    BY <1>1
  <2> QED BY <1>1, <2>1
<1>4. Len(b) >= 2 => s[3] = b[2]
  <2>1. Len(b) >= 2 => 2 \in 1..Len(b) /\ 2 + 1 = 3
    BY <1>1
  <2> QED BY <1>1, <2>1
<1>5. Bottom(s) = Bottom(b)
  <2>1. Len(b) \in 1..Len(b)
    BY <1>1
  <2> QED BY <1>1, <2>1 DEF Bottom
<1> QED BY <1>1, <1>2, <1>3, <1>4, <1>5 DEF s

\* The links of a stack are those of its top and those of the rest.
LEMMA LinkedCons ==
    ASSUME NEW b \in Seq(Frame), b # <<>>, NEW f \in Frame, NEW sn
    PROVE  /\ Linked(sn, <<f>> \o b) <=>
                 Linked(sn, b) /\ On(sn, f, b[1]) /\ Called(sn, f, b[1], b[2])
           /\ \A v : AllLeft(sn, v, <<f>> \o b) <=> AllLeft(sn, v, b) /\ Left(sn, v, f, b[1])
<1> DEFINE s == <<f>> \o b
<1>1. /\ s # <<>> /\ Len(b) \in Nat /\ Len(b) >= 1 /\ Len(s) = Len(b) + 1
      /\ s[1] = f /\ s[2] = b[1] /\ (Len(b) >= 2 => s[3] = b[2])
      /\ \A i \in 1..Len(b) : s[i + 1] = b[i]
      /\ Bottom(s) = Bottom(b)
  BY ConsPositions
<1> HIDE DEF s
<1>2. \A i \in 1..(Len(s) - 1) : i = 1 \/ (i - 1 \in 1..(Len(b) - 1) /\ (i - 1) + 1 = i)
  BY <1>1
<1>3. \A i \in 1..(Len(b) - 1) : /\ i + 1 \in 1..(Len(s) - 1) /\ i \in 1..Len(b) /\ i + 1 \in 1..Len(b)
                                 /\ (i + 1) + 1 = i + 2
  BY <1>1
<1>4. \A i \in 1..(Len(b) - 1) : s[i + 1] = b[i] /\ s[i + 2] = b[i + 1]
  <2> SUFFICES ASSUME NEW i \in 1..(Len(b) - 1) PROVE s[i + 1] = b[i] /\ s[i + 2] = b[i + 1]
    OBVIOUS
  <2>1. s[i + 1] = b[i] /\ s[(i + 1) + 1] = b[i + 1]
    BY <1>1, <1>3
  <2> QED BY <1>3, <2>1
<1>5. 1 \in 1..(Len(s) - 1) /\ 1 + 1 = 2
  BY <1>1
<1>6. (\A i \in 1..(Len(s) - 1) : On(sn, s[i], s[i + 1])) <=>
         On(sn, f, b[1]) /\ \A i \in 1..(Len(b) - 1) : On(sn, b[i], b[i + 1])
  <2>1. ASSUME \A i \in 1..(Len(s) - 1) : On(sn, s[i], s[i + 1])
        PROVE  On(sn, f, b[1]) /\ \A i \in 1..(Len(b) - 1) : On(sn, b[i], b[i + 1])
    <3>1. On(sn, s[1], s[2])
      BY <1>5, <2>1
    <3>2. ASSUME NEW i \in 1..(Len(b) - 1) PROVE On(sn, b[i], b[i + 1])
      <4>1. On(sn, s[i + 1], s[(i + 1) + 1])
        BY <1>3, <2>1
      <4> QED BY <1>3, <1>4, <4>1
    <3> QED BY <1>1, <3>1, <3>2
  <2>2. ASSUME On(sn, f, b[1]), \A i \in 1..(Len(b) - 1) : On(sn, b[i], b[i + 1]),
               NEW i \in 1..(Len(s) - 1)
        PROVE  On(sn, s[i], s[i + 1])
    <3>1. CASE i = 1
      BY <1>1, <1>5, <2>2, <3>1
    <3>2. CASE i - 1 \in 1..(Len(b) - 1) /\ (i - 1) + 1 = i
      <4>1. PICK j \in 1..(Len(b) - 1) : j + 1 = i
        BY <3>2
      <4>2. s[i] = b[j] /\ s[i + 1] = b[j + 1]
        BY <1>3, <1>4, <4>1
      <4> QED BY <2>2, <4>2
    <3> QED BY <1>2, <3>1, <3>2
  <2> QED BY <2>1, <2>2
<1>7. ASSUME NEW v
      PROVE  AllLeft(sn, v, s) <=> AllLeft(sn, v, b) /\ Left(sn, v, f, b[1])
  <2>1. ASSUME AllLeft(sn, v, s)
        PROVE  Left(sn, v, f, b[1]) /\ AllLeft(sn, v, b)
    <3>1. Left(sn, v, s[1], s[2])
      BY <1>5, <2>1 DEF AllLeft
    <3>2. ASSUME NEW i \in 1..(Len(b) - 1) PROVE Left(sn, v, b[i], b[i + 1])
      <4>1. Left(sn, v, s[i + 1], s[(i + 1) + 1])
        BY <1>3, <2>1 DEF AllLeft
      <4> QED BY <1>3, <1>4, <4>1
    <3> QED BY <1>1, <3>1, <3>2 DEF AllLeft
  <2>2. ASSUME Left(sn, v, f, b[1]), AllLeft(sn, v, b), NEW i \in 1..(Len(s) - 1)
        PROVE  Left(sn, v, s[i], s[i + 1])
    <3>1. CASE i = 1
      BY <1>1, <1>5, <2>2, <3>1
    <3>2. CASE i - 1 \in 1..(Len(b) - 1) /\ (i - 1) + 1 = i
      <4>1. PICK j \in 1..(Len(b) - 1) : j + 1 = i
        BY <3>2
      <4>2. s[i] = b[j] /\ s[i + 1] = b[j + 1]
        BY <1>3, <1>4, <4>1
      <4> QED BY <2>2, <4>2 DEF AllLeft
    <3> QED BY <1>2, <3>1, <3>2
  <2> QED BY <2>1, <2>2 DEF AllLeft
<1>8. ASSUME Bottom(b).kind = "check"
      PROVE  (\A i \in 1..(Len(s) - 2) : Called(sn, s[i], s[i + 1], s[i + 2])) <=>
                /\ Called(sn, f, b[1], b[2])
                /\ \A i \in 1..(Len(b) - 2) : Called(sn, b[i], b[i + 1], b[i + 2])
  <2>0. \A i \in 1..(Len(b) - 2) : /\ i \in 1..(Len(b) - 1) /\ i + 1 \in 1..(Len(b) - 1)
                                   /\ i + 1 \in 1..(Len(s) - 2)
                                   /\ (i + 1) + 1 = i + 2 /\ (i + 1) + 2 = i + 3
    BY <1>1
  <2>1. \A i \in 1..(Len(b) - 2) : s[i + 1] = b[i] /\ s[i + 2] = b[i + 1] /\ s[i + 3] = b[i + 2]
    <3> SUFFICES ASSUME NEW i \in 1..(Len(b) - 2)
                 PROVE s[i + 1] = b[i] /\ s[i + 2] = b[i + 1] /\ s[i + 3] = b[i + 2]
      OBVIOUS
    <3>1. s[i + 1] = b[i] /\ s[i + 2] = b[i + 1] /\ s[(i + 1) + 2] = b[(i + 1) + 1]
      BY <1>4, <2>0
    <3> QED BY <2>0, <3>1
  <2>2. Len(b) = 1 => Called(sn, f, b[1], b[2])
    BY <1>8 DEF Called, Bottom
  <2>3. Len(b) >= 2 => 1 \in 1..(Len(s) - 2) /\ 1 + 1 = 2 /\ 1 + 2 = 3
    BY <1>1
  <2>4. ASSUME \A i \in 1..(Len(s) - 2) : Called(sn, s[i], s[i + 1], s[i + 2])
        PROVE  /\ Called(sn, f, b[1], b[2])
               /\ \A i \in 1..(Len(b) - 2) : Called(sn, b[i], b[i + 1], b[i + 2])
    <3>1. CASE Len(b) >= 2
      <4>1. Called(sn, s[1], s[2], s[3])
        BY <2>3, <2>4, <3>1
      <4>2. ASSUME NEW i \in 1..(Len(b) - 2) PROVE Called(sn, b[i], b[i + 1], b[i + 2])
        <5>1. Called(sn, s[i + 1], s[(i + 1) + 1], s[(i + 1) + 2])
          BY <2>0, <2>4
        <5> QED BY <2>0, <2>1, <5>1
      <4> QED BY <1>1, <3>1, <4>1, <4>2
    <3>2. CASE Len(b) = 1
      <4>1. \A i \in 1..(Len(b) - 2) : FALSE
        BY <3>2
      <4> QED BY <2>2, <3>2, <4>1
    <3>3. Len(b) = 1 \/ Len(b) >= 2
      <4>1. \A n \in Nat : n >= 1 => n = 1 \/ n >= 2
        OBVIOUS
      <4> QED BY <1>1, <4>1
    <3> QED BY <3>1, <3>2, <3>3
  <2>5. ASSUME Called(sn, f, b[1], b[2]),
               \A i \in 1..(Len(b) - 2) : Called(sn, b[i], b[i + 1], b[i + 2]),
               NEW i \in 1..(Len(s) - 2)
        PROVE  Called(sn, s[i], s[i + 1], s[i + 2])
    <3>0. Len(b) >= 2
      BY <1>1
    <3>1. CASE i = 1
      BY <1>1, <2>3, <2>5, <3>0, <3>1
    <3>2. CASE i # 1
      <4>1. PICK j \in 1..(Len(b) - 2) : j + 1 = i
        <5>1. i - 1 \in 1..(Len(b) - 2) /\ (i - 1) + 1 = i
          BY <1>1, <3>2
        <5> QED BY <5>1
      <4>2. s[i] = b[j] /\ s[i + 1] = b[j + 1] /\ s[i + 2] = b[j + 2]
        BY <2>0, <2>1, <4>1
      <4> QED BY <2>5, <4>2
    <3> QED BY <3>1, <3>2
  <2> QED BY <2>4, <2>5
<1>9. Linked(sn, s) <=> Linked(sn, b) /\ On(sn, f, b[1]) /\ Called(sn, f, b[1], b[2])
  BY <1>1, <1>6, <1>8 DEF Linked
<1> QED BY <1>7, <1>9 DEF s

\* So are the nodes being walked.
LEMMA WalkedCons ==
    ASSUME NEW b \in Seq(Frame), b # <<>>, NEW f \in Frame
    PROVE  /\ ~Walks(f) => Walked(<<f>> \o b) = Walked(b)
           /\ Walked(b) \subseteq Walked(<<f>> \o b)
           /\ Walks(f) => /\ Walked(<<f>> \o b) \subseteq Walked(b) \cup {NodeOf(f)}
                          /\ NodeOf(f) \in Nodes => NodeOf(f) \in Walked(<<f>> \o b)
<1> DEFINE s == <<f>> \o b
<1>1. /\ Len(b) \in Nat /\ DOMAIN s = 1..(Len(b) + 1) /\ DOMAIN b = 1..Len(b) /\ s[1] = f
      /\ \A i \in 1..Len(b) : s[i + 1] = b[i]
  BY ConsPositions
<1> HIDE DEF s
<1>2. \A i \in DOMAIN s : i = 1 \/ \E j \in DOMAIN b : i = j + 1
  <2> SUFFICES ASSUME NEW i \in DOMAIN s, i # 1 PROVE \E j \in DOMAIN b : i = j + 1
    OBVIOUS
  <2>1. i - 1 \in DOMAIN b /\ i = (i - 1) + 1
    BY <1>1
  <2> QED BY <2>1
<1>3. 1 \in DOMAIN s /\ \A j \in DOMAIN b : j + 1 \in DOMAIN s /\ s[j + 1] = b[j]
  BY <1>1
<1>4. Walked(b) \subseteq Walked(s)
  BY <1>3 DEF Walked
<1>5. \A n \in Walked(s) : n \in Walked(b) \/ (Walks(f) /\ n = NodeOf(f))
  BY <1>1, <1>2, <1>3 DEF Walked
<1>6. Walks(f) /\ NodeOf(f) \in Nodes => NodeOf(f) \in Walked(s)
  BY <1>1, <1>3 DEF Walked
<1> QED BY <1>4, <1>5, <1>6 DEF s

\* A call other than the check itself has a caller.
LEMMA TopLinked ==
    ASSUME NEW s, NEW v, Good(s, v), NEW sn, Linked(sn, s), s[1].kind # "check"
    PROVE  /\ s = <<s[1]>> \o Tail(s) /\ s[1] \in Frame /\ OnSchema(s[1])
           /\ Good(Tail(s), v) /\ Tail(s) \in Seq(Frame) /\ Tail(s) # <<>>
           /\ Tail(s)[1] = s[2] /\ s[2] \in Frame /\ OnSchema(s[2])
           /\ Bottom(s) = Bottom(Tail(s)) /\ Linked(sn, Tail(s))
           /\ On(sn, s[1], s[2]) /\ Called(sn, s[1], s[2], Tail(s)[2])
           /\ \A w : AllLeft(sn, w, s) => AllLeft(sn, w, Tail(s)) /\ Left(sn, w, s[1], s[2])
<1>1. s \in Seq(Frame) /\ s # <<>> /\ \A i \in DOMAIN s : OnSchema(s[i])
  BY DEF Good, Linked
<1> DEFINE b == Tail(s)
<1>2. /\ b \in Seq(Frame) /\ DOMAIN s = 1..Len(s) /\ Len(s) \in Nat /\ Len(s) >= 1
      /\ DOMAIN b = 1..(Len(s) - 1) /\ \A i \in 1..(Len(s) - 1) : b[i] = s[i + 1]
  BY <1>1, TailProperties
<1>3. Len(s) # 1
  BY DEF Linked, Bottom
<1>4. 1 \in DOMAIN s /\ 2 \in DOMAIN s /\ 1 \in 1..(Len(s) - 1) /\ 1 + 1 = 2
  BY <1>2, <1>3
<1>5. b # <<>> /\ b[1] = s[2]
  <2> HIDE DEF b
  <2>1. b[1] = s[1 + 1] /\ 1 \in DOMAIN b
    BY <1>2, <1>4
  <2>2. b # <<>>
    BY <2>1
  <2> QED BY <1>4, <2>1, <2>2
<1>6. s[1] \in Frame /\ s[2] \in Frame /\ OnSchema(s[1]) /\ OnSchema(s[2])
  BY <1>1, <1>4
<1>7. s = <<s[1]>> \o b
  BY <1>1
<1>8. Good(b, v)
  BY <1>1, GoodTail
<1> HIDE DEF b
<1>9. /\ Linked(sn, <<s[1]>> \o b) <=> Linked(sn, b) /\ On(sn, s[1], b[1]) /\ Called(sn, s[1], b[1], b[2])
      /\ \A w : AllLeft(sn, w, <<s[1]>> \o b) <=> AllLeft(sn, w, b) /\ Left(sn, w, s[1], b[1])
  BY <1>2, <1>5, <1>6, LinkedCons
<1>10. Bottom(<<s[1]>> \o b) = Bottom(b)
  BY <1>2, <1>5, <1>6, ConsPositions
<1> QED BY <1>2, <1>5, <1>6, <1>7, <1>8, <1>9, <1>10 DEF b

\* The check itself is the last frame.
LEMMA CheckLinked ==
    ASSUME NEW s, NEW v, Good(s, v), NEW sn, Linked(sn, s), s[1].kind = "check"
    PROVE  Bottom(s) = s[1] /\ Walked(s) = {} /\ s[1] \in CheckFrame
<1>1. s \in Seq(Frame) /\ s # <<>>
  BY DEF Good, Linked
<1>2. DOMAIN s = 1..Len(s) /\ Len(s) \in Nat /\ Len(s) >= 1
  BY <1>1, TailProperties
<1>3. Len(s) = 1
  <2>1. Len(s) # 1 => 1 \in 1..(Len(s) - 1)
    BY <1>2
  <2> QED BY <2>1 DEF Linked, On
<1>4. DOMAIN s = {1} /\ s[1] \in Frame
  BY <1>1, <1>2, <1>3
<1> QED BY <1>3, <1>4, FrameKinds DEF Bottom, Walked, Walks

\* A stack of the check alone.
LEMMA BareLinked ==
    ASSUME NEW g \in CheckFrame, NEW sn, NEW v,
           g.gated => DefAt(sn.item).condition # NoCondition,
           g.gated /\ Reliable => GrantedWalk(sn, sn.item.object, DefAt(sn.item))
    PROVE  /\ Linked(sn, <<g>>) /\ AllLeft(sn, v, <<g>>) /\ Bottom(<<g>>) = g
           /\ <<g>> \in Seq(Frame) /\ <<g>> # <<>> /\ <<g>>[1] = g
<1>1. g \in Frame /\ g.kind = "check"
  BY DEF Frame, CheckFrame
<1>2. <<g>> \in Seq(Frame) /\ <<g>> # <<>> /\ <<g>>[1] = g /\ Len(<<g>>) = 1
  BY <1>1
<1>3. Bottom(<<g>>) = g
  BY <1>2 DEF Bottom
<1>4. 1..(1 - 1) = {} /\ 1..(1 - 2) = {}
  OBVIOUS
<1>5. AllLeft(sn, v, <<g>>)
  BY <1>2, <1>4 DEF AllLeft
<1>6. Linked(sn, <<g>>)
  BY <1>1, <1>2, <1>3, <1>4 DEF Linked
<1> QED BY <1>2, <1>3, <1>5, <1>6

-----------------------------------------------------------------------------
(* When more was seen, or more visited, what a stack stands for remains.    *)

\* The objects of frames are entities.
LEMMA FrameObjects ==
    ASSUME NEW f \in Frame
    PROVE  /\ f.kind = "permission" => f.object \in Entities
           /\ f.kind = "condition" => f.object \in Entities
BY FrameKinds DEF PermissionFrame, EvaluationFrame

\* Calls.
LEMMA OnGrows ==
    ASSUME NEW sn, NEW st, Grows(sn, st), NEW f \in Frame, NEW g, On(sn, f, g)
    PROVE  On(st, f, g)
<1>1. sn.item = st.item /\ sn.ever \subseteq st.ever
  BY DEF Grows
<1>2. CASE f.kind = "permission"
  <2>1. f.object \in Entities
    BY <1>2, FrameObjects
  <2>2. OnPermission(sn, f, g)
    BY <1>2 DEF On
  <2>3. Progress(st, f)
    BY <2>1, <2>2, GrantedMonotone, SparedMonotone DEF OnPermission, Progress
  <2> QED BY <1>1, <1>2, <2>2, <2>3 DEF On, OnPermission
<1>3. CASE f.kind = "relation"
  BY <1>3 DEF On, OnLookup
<1>4. CASE f.kind = "usersets"
  BY <1>1, <1>4, QueriesMonotone, ZenonT(60) DEF On, OnUsersets
<1>5. CASE f.kind = "targets"
  BY <1>1, <1>5, QueriesMonotone DEF On, OnTargets
<1>6. CASE f.kind = "condition"
  <2>1. f.object \in Entities
    BY <1>6, FrameObjects
  <2>2. sn.obj[f.object] \subseteq st.obj[f.object]
    BY <2>1 DEF Grows
  <2> QED BY <1>1, <1>6, <2>2 DEF On, OnCondition
<1> QED BY <1>2, <1>3, <1>4, <1>5, <1>6 DEF On

\* Calls of a permission by a loop.
LEMMA CalledGrows ==
    ASSUME NEW sn, NEW st, Grows(sn, st), NEW f, NEW g, NEW h, Called(sn, f, g, h)
    PROVE  Called(st, f, g, h)
<1>1. sn.ever \subseteq st.ever
  BY DEF Grows
<1>2. Usersets(sn.ever, h.object, ChildOf(h).relation)
        \subseteq Usersets(st.ever, h.object, ChildOf(h).relation)
  BY ONLY <1>1, QueriesMonotone
<1>3. ListRelatedObjects(sn.ever, h.object, ChildOf(h).relation)
        \subseteq ListRelatedObjects(st.ever, h.object, ChildOf(h).relation)
  BY ONLY <1>1, QueriesMonotone
<1> QED BY <1>2, <1>3 DEF Called

\* What is left.
LEMMA LeftGrows ==
    ASSUME NEW sn, NEW st, Grows(sn, st), NEW v, NEW w, v \subseteq w, NEW f \in Frame, NEW g,
           Left(sn, v, f, g)
    PROVE  Left(st, w, f, g)
<1>1. st.always \subseteq sn.always
  BY DEF Grows
<1>2. CASE f.kind = "permission"
  <2>1. f.object \in Entities
    BY <1>2, FrameObjects
  <2>2. \A c : MissedChild(sn, v, f.object, c) => MissedChild(st, w, f.object, c)
    BY <2>1, MissedMonotone
  <2> QED BY <1>2, <2>2 DEF Left
<1>3. CASE f.kind \in {"relation", "usersets"}
  <2>1. \A u : Skipped(sn, v, u) => Skipped(st, w, u)
    BY <1>1, QueriesMonotone DEF Skipped
  <2>2. /\ CheckDirect(st.always, g.object, ChildOf(g).relation, Subject)
               => CheckDirect(sn.always, g.object, ChildOf(g).relation, Subject)
        /\ Usersets(st.always, g.object, ChildOf(g).relation)
               \subseteq Usersets(sn.always, g.object, ChildOf(g).relation)
    BY <1>1, QueriesMonotone
  <2> QED BY <1>3, <2>1, <2>2 DEF Left
<1>4. CASE f.kind = "targets"
  <2>1. \A o, p : Passed(v, o, p) => Passed(w, o, p)
    BY DEF Passed
  <2> QED BY <1>1, <1>4, <2>1, QueriesMonotone DEF Left
<1>5. CASE f.kind = "condition"
  <2>1. f.object \in Entities
    BY <1>5, FrameObjects
  <2> QED BY <1>5, <2>1 DEF Left, Grows
<1>6. f.kind \in {"check", "permission", "relation", "usersets", "targets", "condition"}
  BY DEF Frame, CheckFrame, PermissionFrame, RelationFrame, UsersetsFrame, TargetsFrame, EvaluationFrame
<1>7. CASE f.kind = "check"
  BY <1>7 DEF Left
<1> QED BY <1>2, <1>3, <1>4, <1>5, <1>6, <1>7

\* The whole stack.
LEMMA StackGrows ==
    ASSUME NEW sn, NEW st, Grows(sn, st), NEW v, NEW w, v \subseteq w, NEW s \in Seq(Frame)
    PROVE  /\ Linked(sn, s) /\ sn.item.object \in Entities => Linked(st, s)
           /\ AllLeft(sn, v, s) => AllLeft(st, w, s)
<1>1. \A i \in 1..Len(s) : s[i] \in Frame
  OBVIOUS
<1>2. Len(s) \in Nat
  OBVIOUS
<1>3. \A i \in 1..(Len(s) - 1) : s[i] \in Frame
  BY <1>1, <1>2
<1>4. ASSUME Linked(sn, s), sn.item.object \in Entities
      PROVE  Linked(st, s)
  <2>1. sn.item = st.item
    BY DEF Grows
  <2>2. \A d : GrantedWalk(sn, sn.item.object, d) => GrantedWalk(st, st.item.object, d)
    BY <1>4, <2>1, GrantedMonotone
  <2>3. \A i \in 1..(Len(s) - 1) : On(st, s[i], s[i + 1])
    BY <1>3, <1>4, OnGrows DEF Linked
  <2>4. \A i \in 1..(Len(s) - 2) : Called(st, s[i], s[i + 1], s[i + 2])
    BY <1>4, CalledGrows DEF Linked
  <2> QED BY <1>4, <2>1, <2>2, <2>3, <2>4 DEF Linked
<1>5. ASSUME AllLeft(sn, v, s)
      PROVE  AllLeft(st, w, s)
  BY <1>3, <1>5, LeftGrows DEF AllLeft
<1> QED BY <1>4, <1>5

\* What a result means.
LEMMA ResultGrows ==
    ASSUME NEW sn, NEW st, Grows(sn, st), NEW v \in SUBSET Nodes, NEW s, Good(s, v), Linked(sn, s),
           sn.item.object \in Entities, NEW r
    PROVE  /\ Allows(sn, s, r) => Allows(st, s, r)
           /\ Denies(sn, v, s, r) => Denies(st, v, s, r)
           /\ Searched(sn, v, s, r) => Searched(st, v, s, r)
<1>1. sn.item = st.item
  BY DEF Grows
<1>2. s[1] \in Frame
  <2>1. s \in Seq(Frame) /\ s # <<>>
    BY DEF Good, Linked
  <2> QED BY <2>1
<1>3. s[1].kind \in {"usersets", "targets"} => s[2].object \in Entities
  <2> SUFFICES ASSUME s[1].kind \in {"usersets", "targets"} PROVE s[2].object \in Entities
    OBVIOUS
  <2>1. s[2] \in Frame /\ On(sn, s[1], s[2])
    BY TopLinked
  <2>2. s[2].kind = "permission"
    BY <2>1 DEF On, OnUsersets, OnTargets
  <2> QED BY <2>1, <2>2, FrameObjects
<1>4. ASSUME Allows(sn, s, r)
      PROVE  Allows(st, s, r)
  <2>1. s[1].kind = "permission" => s[1].object \in Entities
    BY <1>2, FrameObjects
  <2>2. \A e \in Entities : \A c : Granted(sn, e, c) => Granted(st, e, c)
    BY GrantedMonotone
  <2>3. \A d : GrantedWalk(sn, sn.item.object, d) => GrantedWalk(st, st.item.object, d)
    BY <1>1, GrantedMonotone
  <2>4. \A c : Meets(sn, c, sn.item.object) => Meets(st, c, st.item.object)
    BY <1>1, MeetsMonotone
  <2> QED BY <1>1, <1>3, <1>4, <2>1, <2>2, <2>3, <2>4 DEF Allows
<1>5. ASSUME Denies(sn, v, s, r)
      PROVE  Denies(st, v, s, r)
  <2>1. s[1].kind = "permission" => s[1].object \in Entities
    BY <1>2, FrameObjects
  <2>2. \A e \in Entities : \A c : MissedChild(sn, v, e, c) => MissedChild(st, v, e, c)
    BY MissedMonotone
  <2>3. GateFails(sn) => GateFails(st)
    <3>1. sn.obj[sn.item.object] \subseteq st.obj[st.item.object] /\ sn.sub[Subject] \subseteq st.sub[Subject]
      BY <1>1, EngineAssumption DEF Grows
    <3> QED BY <1>1, <3>1 DEF GateFails
  <2> QED BY <1>5, <2>1, <2>2, <2>3 DEF Denies
<1>6. ASSUME Searched(sn, v, s, r)
      PROVE  Searched(st, v, s, r)
  <2>1. \A n \in v : n.object \in Entities
    BY DEF Nodes
  <2>2. \A n \in v : Denied(sn, v, n) => Denied(st, v, n)
    BY <2>1, DeniedMonotone
  <2> QED BY <1>1, <1>6, <2>2 DEF Searched
<1> QED BY <1>4, <1>5, <1>6

\* What an outcome means.
LEMMA OutcomeGrows ==
    ASSUME NEW sn, NEW st, Grows(sn, st), NEW v \in SUBSET Nodes
    PROVE  /\ AllowedFor(sn) => AllowedFor(st)
           /\ DeniedFor(sn, v) => DeniedFor(st, v)
<1>1. sn.item = st.item /\ (ItemKnown(sn) <=> ItemKnown(st))
  BY DEF Grows, ItemKnown
<1>2. ItemKnown(sn) => sn.item.object \in Entities
  BY DEF ItemKnown, Item
<1>3. ASSUME AllowedFor(sn)
      PROVE  AllowedFor(st)
  <2>1. sn.item.object \in Entities
    BY <1>2, <1>3 DEF AllowedFor
  <2>2. \A d : GrantedWalk(sn, sn.item.object, d) => GrantedWalk(st, st.item.object, d)
    BY <1>1, <2>1, GrantedMonotone
  <2>3. \A d : MayGate(sn, sn.item.object, d) => MayGate(st, st.item.object, d)
    BY <1>1, <2>1, MeetsMonotone DEF MayGate
  <2> QED BY <1>1, <1>3, <2>2, <2>3 DEF AllowedFor
<1>4. ASSUME DeniedFor(sn, v)
      PROVE  DeniedFor(st, v)
  <2>1. sn.item.object \in Entities
    BY <1>2, <1>4 DEF DeniedFor
  <2>2. GateFails(sn) => GateFails(st)
    <3>1. sn.obj[sn.item.object] \subseteq st.obj[st.item.object] /\ sn.sub[Subject] \subseteq st.sub[Subject]
      BY <1>1, <2>1, EngineAssumption DEF Grows
    <3> QED BY <1>1, <3>1 DEF GateFails
  <2>3. \A n \in v : n.object \in Entities
    BY DEF Nodes
  <2>4. \A n \in v : Denied(sn, v, n) => Denied(st, v, n)
    BY <2>3, DeniedMonotone
  <2> QED BY <1>1, <1>4, <2>2, <2>4 DEF DeniedFor
<1> QED BY <1>3, <1>4

-----------------------------------------------------------------------------
(* Steps of the walk.                                                       *)

\* What the invariants say of the top of the stack and of its caller.
LEMMA TopOfWalk ==
    ASSUME EInv, JInv, stack # <<>>, Top.kind # "check"
    PROVE  /\ Tail(stack) \in Seq(Frame) /\ Tail(stack) # <<>> /\ Good(Tail(stack), visited)
           /\ stack = <<Top>> \o Tail(stack) /\ Top = stack[1] /\ Tail(stack)[1] = stack[2]
           /\ stack \in Seq(Frame) /\ Top \in Frame /\ OnSchema(Top)
           /\ stack[2] \in Frame /\ OnSchema(stack[2])
           /\ Bottom(stack) = Bottom(Tail(stack)) /\ Linked(seen, Tail(stack))
           /\ On(seen, Top, stack[2]) /\ Called(seen, Top, stack[2], Tail(stack)[2])
           /\ Untouched /\ ret # "error" => /\ AllLeft(seen, visited, Tail(stack))
                                            /\ Left(seen, visited, Top, stack[2])
           /\ ~Walks(Top) => Walked(stack) = Walked(Tail(stack))
           /\ Walks(Top) => Walked(stack) \subseteq Walked(Tail(stack)) \cup {NodeOf(Top)}
<1>1. Good(stack, visited) /\ Linked(seen, stack) /\ stack \in Seq(Frame)
  BY TopProperties DEF JInv, Good
<1>2. Top = stack[1]
  BY <1>1 DEF Top
<1>3. stack[1].kind # "check"
  BY <1>2
<1>4. Untouched /\ ret # "error" => AllLeft(seen, visited, stack)
  BY DEF JInv
<1> DEFINE b == Tail(stack)
<1>5. /\ stack = <<stack[1]>> \o b /\ stack[1] \in Frame /\ OnSchema(stack[1])
      /\ Good(b, visited) /\ b \in Seq(Frame) /\ b # <<>>
      /\ b[1] = stack[2] /\ stack[2] \in Frame /\ OnSchema(stack[2])
      /\ Bottom(stack) = Bottom(b) /\ Linked(seen, b)
      /\ On(seen, stack[1], stack[2]) /\ Called(seen, stack[1], stack[2], b[2])
      /\ AllLeft(seen, visited, stack) => AllLeft(seen, visited, b) /\ Left(seen, visited, stack[1], stack[2])
  BY <1>1, <1>3, TopLinked
<1> HIDE DEF b
<1>6. stack = <<Top>> \o b /\ Top \in Frame
  BY <1>2, <1>5
<1>7. /\ ~Walks(Top) => Walked(<<Top>> \o b) = Walked(b)
      /\ Walks(Top) => Walked(<<Top>> \o b) \subseteq Walked(b) \cup {NodeOf(Top)}
  BY <1>5, <1>6, WalkedCons
<1>8. /\ ~Walks(Top) => Walked(stack) = Walked(b)
      /\ Walks(Top) => Walked(stack) \subseteq Walked(b) \cup {NodeOf(Top)}
  BY <1>6, <1>7
<1> QED BY <1>1, <1>2, <1>4, <1>5, <1>6, <1>8 DEF b

\* What the store holds was seen.
LEMMA StoreSeen ==
    ASSUME EInv, JInv, stack # <<>>
    PROVE  /\ seen.always \subseteq tuples /\ tuples \subseteq seen.ever /\ seen.ever \subseteq Universe
           /\ \A e \in Entities : objAttrs[e] \in seen.obj[e] /\ subAttrs[e] \in seen.sub[e]
           /\ seen.item = Head(items) /\ seen.item \in Item
           /\ HasPermission(seen.item.object.type, seen.item.permission)
           /\ ItemKnown(seen)
<1>1. Witnessed
  BY DEF JInv
<1>2. items # <<>> /\ items \in Seq(Item) /\ HasPermission(Head(items).object.type, Head(items).permission)
  BY DEF EInv, TypeOK, Asked
<1>3. Head(items) \in Item
  BY <1>2
<1>4. seen.ever \subseteq Universe
  BY DEF EInv, Seen
<1> QED BY <1>1, <1>2, <1>3, <1>4 DEF Witnessed, ItemKnown

\* A read that failed leaves a trace.
LEMMA ReadUntouched ==
    ASSUME EInv, NEW ok \in BOOLEAN, Read(ok)
    PROVE  Untouched' => Untouched /\ ok
<1>1. faults \in Nat /\ status' = status /\ seen' = seen /\ status \in seen.statuses
  BY DEF EInv, TypeOK, Read, storeVars
<1>2. CASE ok
  BY <1>1, <1>2 DEF Untouched, Read
<1>3. CASE ~ok /\ status = "deleted"
  BY <1>1, <1>3 DEF Untouched
<1>4. CASE ~ok /\ status # "deleted"
  BY <1>1, <1>4 DEF Untouched, Read
<1> QED BY <1>2, <1>3, <1>4

\* A step of the walk keeps the invariant if the new stack stands for what it
\* should.
LEMMA WalkJ ==
    ASSUME EInv, JInv, stack # <<>>, stack' # <<>>, EInv',
           UNCHANGED <<storeVars, tc, items, answers, seen>>,
           Linked(seen, stack'), Allows(seen, stack', ret'),
           Untouched' /\ ret' # "error" =>
               /\ Untouched
               /\ AllLeft(seen, visited', stack') /\ Denies(seen, visited', stack', ret')
               /\ Searchable => Searched(seen, visited', stack', ret')
    PROVE  JInv'
<1>1. UNCHANGED <<tuples, objAttrs, subAttrs, status, items, answers, seen>>
  BY DEF storeVars
<1>2. Witnessed'
  BY <1>1 DEF JInv, Witnessed
<1>3. ~Ended("allow")' /\ ~Ended("deny")'
  BY DEF Ended
<1>4. ASSUME Reliable, NEW n \in Nodes, DefAt(n).op = "exclusion"
      PROVE  Untouched'
  <2>1. MaxFaults = 0 /\ Untouched
    BY <1>4 DEF Reliable, ExclusionsArePlain, JInv
  <2>2. faults' \in 0..MaxFaults
    BY DEF EInv, TypeOK
  <2>3. faults' = 0
    BY <2>1, <2>2
  <2> QED BY <1>1, <2>1, <2>3 DEF Untouched
<1>5. Linked(seen, stack)' /\ Allows(seen, stack, ret)'
  BY <1>1
<1>6. Untouched' /\ ret' # "error" =>
         /\ AllLeft(seen, visited, stack)' /\ Denies(seen, visited, stack, ret)'
         /\ Searchable => Searched(seen, visited, stack, ret)'
  BY <1>1
<1> QED BY <1>2, <1>3, <1>4, <1>5, <1>6 DEF JInv

\* The call at the top goes on as f.
LEMMA GoOnJ ==
    ASSUME EInv, JInv, stack # <<>>, Top.kind # "check", EInv', visited' = visited,
           UNCHANGED <<storeVars, tc, items, answers, seen>>,
           NEW f \in Frame, stack' = <<f>> \o Tail(stack), ret' \in {"none", "error"},
           ret' = "error" => f.kind \notin {"relation", "condition"},
           On(seen, f, stack[2]), Called(seen, f, stack[2], Tail(stack)[2]),
           Walks(Top) => Walks(f) /\ NodeOf(f) = NodeOf(Top),
           Untouched' /\ ret' # "error" =>
               /\ Untouched /\ ret # "error" /\ Left(seen, visited, f, stack[2])
               /\ Searchable /\ ~Bottom(stack).gated => Undecided(stack, ret)
    PROVE  JInv'
<1> DEFINE b == Tail(stack)
<1>1. /\ b \in Seq(Frame) /\ b # <<>> /\ b[1] = stack[2] /\ Bottom(stack) = Bottom(b)
      /\ Linked(seen, b) /\ Top \in Frame
      /\ Untouched /\ ret # "error" => AllLeft(seen, visited, b)
      /\ ~Walks(Top) => Walked(stack) = Walked(b)
      /\ Walks(Top) => Walked(stack) \subseteq Walked(b) \cup {NodeOf(Top)}
  BY TopOfWalk
<1> HIDE DEF b
<1>2. On(seen, f, b[1]) /\ Called(seen, f, b[1], b[2]) /\ stack' = <<f>> \o b
  BY <1>1 DEF b
<1>3. /\ Linked(seen, <<f>> \o b)
      /\ AllLeft(seen, visited, <<f>> \o b) <=> AllLeft(seen, visited, b) /\ Left(seen, visited, f, b[1])
  BY <1>1, <1>2, LinkedCons
<1>4. /\ <<f>> \o b # <<>> /\ (<<f>> \o b)[1] = f /\ Bottom(<<f>> \o b) = Bottom(b)
  BY <1>1, ConsPositions
<1>5. Linked(seen, stack') /\ stack' # <<>> /\ stack'[1] = f /\ Bottom(stack') = Bottom(stack)
  BY <1>1, <1>2, <1>3, <1>4
<1>6. Allows(seen, stack', ret')
  BY <1>5 DEF Allows
<1>7. ASSUME Untouched', ret' # "error"
      PROVE  /\ Untouched
             /\ AllLeft(seen, visited', stack') /\ Denies(seen, visited', stack', ret')
             /\ Searchable => Searched(seen, visited', stack', ret')
  <2>1. AllLeft(seen, visited', stack')
    BY <1>1, <1>2, <1>3, <1>7
  <2>2. Denies(seen, visited', stack', ret')
    BY <1>7 DEF Denies
  <2>3. ASSUME Searchable, Undecided(stack', ret')
        PROVE  /\ Node(seen.item.object, seen.item.permission) \in visited'
               /\ \A n \in visited' : Denied(seen, visited', n) \/ n \in Walked(stack')
    <3>1. Undecided(stack, ret)
      BY <1>5, <1>7, <2>3 DEF Undecided
    <3>2. Searched(seen, visited, stack, ret)
      BY <1>7, <2>3 DEF JInv
    <3>3. /\ Walked(b) \subseteq Walked(<<f>> \o b)
          /\ Walks(f) /\ NodeOf(f) \in Nodes => NodeOf(f) \in Walked(<<f>> \o b)
      BY <1>1, WalkedCons
    <3>4. visited \subseteq Nodes
      BY DEF EInv, TypeOK
    <3>5. \A n \in visited : n \in Walked(stack) => n \in Walked(stack')
      BY <1>1, <1>2, <3>3, <3>4
    <3> QED BY <3>1, <3>2, <3>5 DEF Searched
  <2> QED BY <1>7, <2>1, <2>2, <2>3 DEF Searched
<1> QED BY <1>5, <1>6, <1>7, WalkJ

\* A permission calls f.
LEMMA PushJ ==
    ASSUME EInv, JInv, stack # <<>>, ret = "none", EInv', visited' = visited,
           UNCHANGED <<storeVars, tc, items, answers, seen>>,
           NEW f \in Frame, Push(f), ~Walks(f), On(seen, f, Top),
           Untouched' => Untouched /\ Left(seen, visited, f, Top)
    PROVE  JInv'
<1>1. /\ stack \in Seq(Frame) /\ Linked(seen, stack) /\ Top = stack[1]
      /\ stack' = <<f>> \o stack /\ ret' = "none"
  BY DEF EInv, TypeOK, JInv, Top, Push
<1>2. Called(seen, f, stack[1], stack[2])
  BY DEF Called, Walks
<1>3. /\ Linked(seen, <<f>> \o stack)
      /\ AllLeft(seen, visited, <<f>> \o stack)
            <=> AllLeft(seen, visited, stack) /\ Left(seen, visited, f, stack[1])
  BY <1>1, <1>2, LinkedCons
<1>4. <<f>> \o stack # <<>> /\ Bottom(<<f>> \o stack) = Bottom(stack)
  BY <1>1, ConsPositions
<1>5. Walked(<<f>> \o stack) = Walked(stack)
  BY <1>1, WalkedCons
<1>6. Linked(seen, stack') /\ stack' # <<>> /\ Bottom(stack') = Bottom(stack) /\ Walked(stack') = Walked(stack)
  BY <1>1, <1>3, <1>4, <1>5
<1>7. Allows(seen, stack', ret')
  BY <1>1 DEF Allows
<1>8. ASSUME Untouched'
      PROVE  /\ Untouched
             /\ AllLeft(seen, visited', stack') /\ Denies(seen, visited', stack', ret')
             /\ Searchable => Searched(seen, visited', stack', ret')
  <2>1. AllLeft(seen, visited', stack')
    BY <1>1, <1>3, <1>8 DEF JInv
  <2>2. Denies(seen, visited', stack', ret')
    BY <1>1 DEF Denies
  <2>3. Undecided(stack', ret') => Undecided(stack, ret)
    BY <1>1, <1>6 DEF Undecided
  <2>4. Searchable => Searched(seen, visited, stack, ret)
    BY <1>8 DEF JInv
  <2>5. Searchable => Searched(seen, visited', stack', ret')
    BY <1>6, <2>3, <2>4 DEF Searched
  <2> QED BY <1>8, <2>1, <2>2, <2>5
<1> QED BY <1>6, <1>7, <1>8, WalkJ

\* A call returns.
LEMMA ReturnJ ==
    ASSUME EInv, JInv, stack # <<>>, Top.kind # "check", EInv', visited' = visited,
           UNCHANGED <<storeVars, tc, items, answers, seen>>,
           NEW o, Return(o), Allows(seen, Tail(stack), o),
           Untouched' /\ o # "error" =>
               /\ Untouched /\ ret # "error" /\ Denies(seen, visited, Tail(stack), o)
               /\ Searchable => Searched(seen, visited, Tail(stack), o)
    PROVE  JInv'
<1>1. stack' = Tail(stack) /\ ret' = o
  BY DEF Return
<1>2. /\ Linked(seen, stack') /\ stack' # <<>>
      /\ Untouched /\ ret # "error" => AllLeft(seen, visited, stack')
  BY <1>1, TopOfWalk
<1>3. Allows(seen, stack', ret')
  BY <1>1
<1>4. ASSUME Untouched', ret' # "error"
      PROVE  /\ Untouched
             /\ AllLeft(seen, visited', stack') /\ Denies(seen, visited', stack', ret')
             /\ Searchable => Searched(seen, visited', stack', ret')
  BY <1>1, <1>2, <1>4
<1> QED BY <1>2, <1>3, <1>4, WalkJ

\* The walk goes on where it is.
LEMMA StayJ ==
    ASSUME EInv, JInv, stack # <<>>, EInv', visited' = visited, stack' = stack,
           UNCHANGED <<storeVars, tc, items, answers, seen>>, Allows(seen, stack, ret'),
           Untouched' /\ ret' # "error" =>
               /\ Untouched /\ ret # "error" /\ ret' # "deny"
               /\ Searchable /\ Undecided(stack, ret') => Undecided(stack, ret)
    PROVE  JInv'
<1>1. Linked(seen, stack') /\ stack' # <<>> /\ Allows(seen, stack', ret')
  BY DEF JInv
<1>2. ASSUME Untouched', ret' # "error"
      PROVE  /\ Untouched
             /\ AllLeft(seen, visited', stack') /\ Denies(seen, visited', stack', ret')
             /\ Searchable => Searched(seen, visited', stack', ret')
  <2>1. AllLeft(seen, visited', stack') /\ Denies(seen, visited', stack', ret')
    BY <1>2 DEF JInv, Denies
  <2>2. Searchable => Searched(seen, visited', stack', ret')
    BY <1>2 DEF JInv, Searched
  <2> QED BY <1>2, <2>1, <2>2
<1> QED BY <1>1, <1>2, WalkJ

-----------------------------------------------------------------------------
(* The actions of the walk.                                                 *)

\* The child that the top of the stack is at.
LEMMA ChildHere == ChildOf(Top) = Child /\ DefAt(Top) = Def
BY DEF ChildOf, DefAt, Child, Def

\* A direct tuple.
LEMMA WalkDirectJ ==
    ASSUME EInv, JInv, EInv', NEW ok \in BOOLEAN, WalkDirect(ok)
    PROVE  JInv'
<1> DEFINE f == [kind |-> "relation", object |-> Top.object,
                 relation |-> Child.relation, depth |-> Top.depth]
<1>1. /\ stack # <<>> /\ Top.kind = "permission" /\ ret = "none" /\ Child.kind = "relation"
      /\ Read(ok) /\ visited' = visited
      /\ \/ ~ok /\ stack' = stack /\ ret' = "error"
         \/ /\ CheckDirect(tuples, Top.object, Child.relation, Subject)
            /\ stack' = stack /\ ret' = "allow"
         \/ ~CheckDirect(tuples, Top.object, Child.relation, Subject) /\ Push(f)
  BY DEF WalkDirect, Running
<1>2. UNCHANGED <<storeVars, tc, items, answers, seen>> /\ (Untouched' => Untouched)
  BY <1>1, ReadFrame, ReadUntouched
<1>3. /\ Top \in PermissionFrame /\ Top.depth \in Depths /\ Child \in PermissionRef
      /\ Top = stack[1] /\ ChildOf(Top) = Child
  BY <1>1, ChildKnown, TopOfWalk, ChildHere
<1>4. seen.always \subseteq tuples /\ tuples \subseteq seen.ever
  BY <1>1, StoreSeen
<1>5. CASE ~ok /\ stack' = stack /\ ret' = "error"
  <2>1. Allows(seen, stack, ret')
    BY <1>1, <1>3, <1>5 DEF Allows
  <2> QED BY <1>1, <1>2, <1>5, <2>1, StayJ
<1>6. CASE /\ CheckDirect(tuples, Top.object, Child.relation, Subject)
           /\ stack' = stack /\ ret' = "allow"
  <2>1. CheckDirect(seen.ever, Top.object, Child.relation, Subject)
    BY <1>4, <1>6, QueriesMonotone
  <2>2. Granted(seen, Top.object, Child)
    BY <1>1, <2>1 DEF Granted, MayChild, MayRelation
  <2>3. Allows(seen, stack, ret')
    BY <1>1, <1>3, <1>6, <2>2 DEF Allows
  <2>4. Undecided(stack, ret') => Undecided(stack, ret)
    BY <1>1 DEF Undecided
  <2> QED BY <1>1, <1>2, <1>6, <2>3, <2>4, StayJ
<1>7. CASE ~CheckDirect(tuples, Top.object, Child.relation, Subject) /\ Push(f)
  <2>1. Child.relation \in STRING
    BY <1>1, <1>3 DEF PermissionRef
  <2>2. /\ f \in RelationFrame /\ f.kind = "relation" /\ f.object = Top.object
        /\ f.relation = Child.relation
    BY <1>3, <2>1 DEF RelationFrame, PermissionFrame
  <2>3. Push(f) /\ ~CheckDirect(seen.always, Top.object, Child.relation, Subject)
    BY <1>4, <1>7, QueriesMonotone
  <2> HIDE DEF f
  <2>4. f \in Frame /\ ~Walks(f)
    BY <2>2 DEF Frame, Walks
  <2>5. On(seen, f, Top)
    BY <1>1, <1>3, <2>2 DEF On, OnLookup
  <2>6. Left(seen, visited, f, Top)
    BY <1>3, <2>2, <2>3 DEF Left
  <2> QED BY <1>1, <1>2, <2>3, <2>4, <2>5, <2>6, PushJ
<1> QED BY <1>1, <1>5, <1>6, <1>7

\* The usersets of a relation.
LEMMA ListUsersetsJ ==
    ASSUME EInv, JInv, EInv', NEW ok \in BOOLEAN, ListUsersets(ok)
    PROVE  JInv'
<1> DEFINE f == [kind |-> "usersets", depth |-> Top.depth,
                 pending |-> {u \in ListSubjects(tuples, Top.object, Top.relation) :
                                 u.relation # Direct}]
           g == stack[2]
<1>1. /\ stack # <<>> /\ Top.kind = "relation" /\ ret = "none" /\ Read(ok) /\ visited' = visited
      /\ \/ Return("error")
         \/ stack' = <<f>> \o Tail(stack) /\ ret' = "none"
  BY DEF ListUsersets, Running
<1>2. UNCHANGED <<storeVars, tc, items, answers, seen>> /\ (Untouched' => Untouched)
  BY <1>1, ReadFrame, ReadUntouched
<1>3. /\ On(seen, Top, g) /\ Tail(stack)[1] = g /\ Top \in Frame
      /\ Untouched => Left(seen, visited, Top, g)
  BY <1>1, TopOfWalk
<1>4. /\ g.kind = "permission" /\ ChildOf(g).kind = "relation"
      /\ Top.object = g.object /\ Top.relation = ChildOf(g).relation
  BY <1>1, <1>3 DEF On, OnLookup
<1>5. seen.always \subseteq tuples /\ tuples \subseteq seen.ever
  BY <1>1, StoreSeen
<1>6. CASE Return("error")
  <2>1. Allows(seen, Tail(stack), "error")
    BY <1>3, <1>4 DEF Allows
  <2> QED BY <1>1, <1>2, <1>6, <2>1, ReturnJ
<1>7. CASE stack' = <<f>> \o Tail(stack) /\ ret' = "none"
  <2>1. Top \in RelationFrame
    BY <1>1, <1>3, FrameKinds
  <2>2. /\ f \in UsersetsFrame /\ f.kind = "usersets"
        /\ f.pending = Usersets(tuples, g.object, ChildOf(g).relation)
    BY <1>4, <2>1, Listed DEF UsersetsFrame, RelationFrame, Usersets
  <2>3. stack' = <<f>> \o Tail(stack)
    BY <1>7
  <2>0. \A e, r : /\ Usersets(seen.always, e, r) \subseteq Usersets(tuples, e, r)
                  /\ Usersets(tuples, e, r) \subseteq Usersets(seen.ever, e, r)
    BY <1>5, QueriesMonotone
  <2> HIDE DEF f, g
  <2>4. f \in Frame
    BY <2>2 DEF Frame
  <2>5. On(seen, f, g)
    BY <1>4, <2>0, <2>2 DEF On, OnUsersets
  <2>6. Called(seen, f, g, Tail(stack)[2])
    BY <2>2 DEF Called
  <2>7. Untouched => Left(seen, visited, f, g)
    <3>1. Usersets(seen.always, g.object, ChildOf(g).relation) \subseteq f.pending
      BY <2>0, <2>2
    <3>2. Untouched => ~CheckDirect(seen.always, g.object, ChildOf(g).relation, Subject)
      BY <1>1, <1>3 DEF Left
    <3> QED BY <2>2, <3>1, <3>2 DEF Left
  <2>8. ~Walks(Top)
    BY <1>1 DEF Walks
  <2>9. ~Bottom(stack).gated => Undecided(stack, ret)
    BY <1>1 DEF Undecided
  <2> QED BY <1>1, <1>2, <1>7, <2>3, <2>4, <2>5, <2>6, <2>7, <2>8, <2>9, GoOnJ DEF g
<1> QED BY <1>1, <1>6, <1>7

\* The targets of an arrow.
LEMMA WalkArrowJ ==
    ASSUME EInv, JInv, EInv', NEW ok \in BOOLEAN, WalkArrow(ok)
    PROVE  JInv'
<1> DEFINE f == [kind |-> "targets", permission |-> Child.permission,
                 context |-> Top.context, depth |-> Top.depth,
                 pending |-> ListRelatedObjects(tuples, Top.object, Child.relation)]
<1>1. /\ stack # <<>> /\ Top.kind = "permission" /\ ret = "none" /\ Child.kind = "arrow"
      /\ Read(ok) /\ visited' = visited
      /\ \/ ~ok /\ stack' = stack /\ ret' = "error"
         \/ Push(f)
  BY DEF WalkArrow, Running
<1>2. UNCHANGED <<storeVars, tc, items, answers, seen>> /\ (Untouched' => Untouched)
  BY <1>1, ReadFrame, ReadUntouched
<1>3. /\ Top \in PermissionFrame /\ Top.depth \in Depths /\ Child \in PermissionRef
      /\ Top = stack[1] /\ ChildOf(Top) = Child /\ On(seen, Top, stack[2])
  BY <1>1, ChildKnown, TopOfWalk, ChildHere
<1>4. seen.always \subseteq tuples /\ tuples \subseteq seen.ever
  BY <1>1, StoreSeen
<1>5. CASE ~ok /\ stack' = stack /\ ret' = "error"
  <2>1. Allows(seen, stack, ret')
    BY <1>1, <1>3, <1>5 DEF Allows
  <2> QED BY <1>1, <1>2, <1>5, <2>1, StayJ
<1>6. CASE Push(f)
  <2>1. Child.permission \in STRING
    BY <1>1, <1>3 DEF PermissionRef
  <2>2. /\ f \in TargetsFrame /\ f.kind = "targets" /\ f.permission = Child.permission
        /\ f.context = Top.context
        /\ f.pending = ListRelatedObjects(tuples, Top.object, Child.relation)
    BY <1>3, <2>1, Listed DEF TargetsFrame, PermissionFrame
  <2>3. Push(f)
    BY <1>6
  <2> HIDE DEF f
  <2>4. f \in Frame /\ ~Walks(f)
    BY <2>2 DEF Frame, Walks
  <2>5. On(seen, f, Top)
    <3>1. Top.context \in {seen.item.context, NoContext}
      BY <1>1, <1>3 DEF On, OnPermission
    <3>2. f.pending \subseteq ListRelatedObjects(seen.ever, Top.object, Child.relation)
      BY <1>4, <2>2, QueriesMonotone
    <3> QED BY <1>1, <1>3, <2>2, <3>1, <3>2 DEF On, OnTargets
  <2>6. Left(seen, visited, f, Top)
    <3>1. ListRelatedObjects(seen.always, Top.object, Child.relation)
            \subseteq ListRelatedObjects(tuples, Top.object, Child.relation)
      BY <1>4, QueriesMonotone
    <3>2. ListRelatedObjects(seen.always, Top.object, Child.relation) \subseteq f.pending
      BY <2>2, <3>1
    <3> QED BY <1>3, <2>2, <3>2 DEF Left
  <2> QED BY <1>1, <1>2, <2>3, <2>4, <2>5, <2>6, PushJ
<1> QED BY <1>1, <1>5, <1>6

\* An inline condition.
LEMMA WalkConditionJ ==
    ASSUME EInv, JInv, EInv', WalkCondition
    PROVE  JInv'
<1> DEFINE f == ConditionFrame(Child.condition, Top.object, Top.context)
<1>1. /\ stack # <<>> /\ Top.kind = "permission" /\ ret = "none" /\ Child.kind = "condition"
      /\ Push(f) /\ visited' = visited /\ Local
  BY DEF WalkCondition, Running
<1>2. UNCHANGED <<storeVars, tc, items, answers, seen>> /\ (Untouched' => Untouched)
  BY <1>1 DEF Local, Untouched
<1>3. /\ Top \in PermissionFrame /\ Child \in PermissionRef
      /\ ChildOf(Top) = Child /\ On(seen, Top, stack[2])
  BY <1>1, ChildKnown, TopOfWalk, ChildHere
<1>4. Child.condition \in Conditions
  BY <1>1, <1>3 DEF PermissionRef
<1>5. /\ f \in EvaluationFrame /\ f.kind = "condition" /\ f.object = Top.object
      /\ f.context = Top.context /\ f.condition = Child.condition /\ ~f.read
  BY <1>3, <1>4 DEF EvaluationFrame, PermissionFrame, ConditionFrame
<1>6. Push(f)
  BY <1>1
<1> HIDE DEF f
<1>7. f \in Frame /\ ~Walks(f)
  BY <1>5 DEF Frame, Walks
<1>8. On(seen, f, Top)
  <2>1. Top.context \in {seen.item.context, NoContext}
    BY <1>1, <1>3 DEF On, OnPermission
  <2> QED BY <1>1, <1>3, <1>5, <2>1 DEF On, OnCondition
<1>9. Left(seen, visited, f, Top)
  BY <1>5 DEF Left
<1> QED BY <1>1, <1>2, <1>6, <1>7, <1>8, <1>9, PushJ

\* A condition that allows, with what could be read, is met.
LEMMA AllowMeets ==
    ASSUME AbsenceNeverHelps, NEW sn \in Seen, sn.item \in Item,
           NEW c \in Conditions, NEW e \in Entities,
           NEW a \in sn.obj[e] \cup {NoAttrs}, NEW a0 \in sn.obj[e],
           NEW b \in sn.sub[Subject] \cup {NoAttrs}, NEW b0 \in sn.sub[Subject],
           NEW x \in {sn.item.context, NoContext}, Evaluate(c, a, b, x) = "allow"
    PROVE  Meets(sn, c, e)
<1>1. /\ sn.obj[e] \subseteq Attrs \cup {NoAttrs} /\ sn.sub[Subject] \subseteq Attrs \cup {NoAttrs}
      /\ sn.item.context \in Contexts \cup {NoContext}
  BY EngineAssumption DEF Seen, Item
<1>2. PICK a1 \in sn.obj[e] : Evaluate(c, a1, b, x) = "allow"
  BY <1>1 DEF AbsenceNeverHelps
<1>3. PICK b1 \in sn.sub[Subject] : Evaluate(c, a1, b1, x) = "allow"
  BY <1>1, <1>2 DEF AbsenceNeverHelps
<1>4. Evaluate(c, a1, b1, sn.item.context) = "allow"
  BY <1>1, <1>3 DEF AbsenceNeverHelps
<1> QED BY <1>4 DEF Meets

\* The object's attributes.
LEMMA GetObjectAttributesJ ==
    ASSUME EInv, JInv, EInv', NEW ok \in BOOLEAN, GetObjectAttributes(ok)
    PROVE  JInv'
<1> DEFINE a == IF ok THEN objAttrs[Top.object] ELSE NoAttrs
           f == [Top EXCEPT !.read = TRUE, !.attrs = a]
           g == stack[2]
<1>1. /\ stack # <<>> /\ Top.kind = "condition" /\ ret = "none" /\ Read(ok) /\ visited' = visited
      /\ ret' = ret /\ stack' = <<f>> \o Tail(stack)
  BY DEF GetObjectAttributes, Running
<1>2. UNCHANGED <<storeVars, tc, items, answers, seen>> /\ (Untouched' => Untouched /\ ok)
  BY <1>1, ReadFrame, ReadUntouched
<1>3. On(seen, Top, g) /\ Top \in EvaluationFrame
  BY <1>1, TopOfWalk, FrameKinds
<1>4. a \in Attrs \cup {NoAttrs} /\ Top.object \in Entities
  BY <1>3 DEF EvaluationFrame, EInv, TypeOK
<1>5. a \in seen.obj[Top.object] \cup {NoAttrs} /\ (ok => a \in seen.obj[Top.object])
  BY <1>1, <1>4, StoreSeen
<1> HIDE DEF a
<1>6. /\ f \in EvaluationFrame /\ f.kind = "condition" /\ f.object = Top.object /\ f.attrs = a
      /\ f.context = Top.context /\ f.condition = Top.condition
  BY <1>3, <1>4 DEF EvaluationFrame
<1>7. stack' = <<f>> \o Tail(stack)
  BY <1>1
<1> HIDE DEF f, g
<1>8. f \in Frame /\ ~Walks(Top)
  BY <1>1, <1>6 DEF Frame, Walks
<1>9. On(seen, f, g)
  BY <1>1, <1>3, <1>5, <1>6 DEF On, OnCondition
<1>10. Called(seen, f, g, Tail(stack)[2]) /\ (ok => Left(seen, visited, f, g))
  BY <1>5, <1>6 DEF Called, Left
<1>11. ~Bottom(stack).gated => Undecided(stack, ret)
  BY <1>1 DEF Undecided
<1>12. ret' \in {"none", "error"} /\ ret' # "error" /\ ret # "error" /\ Top.kind # "check"
  BY <1>1
<1> QED BY <1>1, <1>2, <1>7, <1>8, <1>9, <1>10, <1>11, <1>12, GoOnJ DEF g

\* The subject's attributes, and the evaluation.
LEMMA GetSubjectAttributesJ ==
    ASSUME EInv, JInv, EInv', NEW ok \in BOOLEAN, GetSubjectAttributes(ok)
    PROVE  JInv'
<1> DEFINE a == IF ok THEN subAttrs[Subject] ELSE NoAttrs
           o == Evaluate(Top.condition, Top.attrs, a, Top.context)
           g == stack[2]
           b == Tail(stack)
<1>1. /\ stack # <<>> /\ Top.kind = "condition" /\ ret = "none" /\ Read(ok) /\ visited' = visited
      /\ Return(o) /\ Top.read
  BY DEF GetSubjectAttributes, Running
<1>2. UNCHANGED <<storeVars, tc, items, answers, seen>> /\ (Untouched' => Untouched /\ ok)
  BY <1>1, ReadFrame, ReadUntouched
<1>3. /\ On(seen, Top, g) /\ Top \in EvaluationFrame /\ g = b[1] /\ Linked(seen, b)
      /\ Good(b, visited) /\ Bottom(stack) = Bottom(b)
      /\ Untouched => Left(seen, visited, Top, g)
  BY <1>1, TopOfWalk, FrameKinds
<1>4. Top.object \in Entities /\ Top.condition \in Conditions /\ seen \in Seen
  BY <1>3 DEF EvaluationFrame, EInv
<1>5. /\ objAttrs[Top.object] \in seen.obj[Top.object] /\ subAttrs[Subject] \in seen.sub[Subject]
      /\ seen.item \in Item
  BY <1>1, <1>4, StoreSeen, EngineAssumption
<1>6. /\ Top.context \in {seen.item.context, NoContext}
      /\ Top.attrs \in seen.obj[Top.object] \cup {NoAttrs}
      /\ a \in seen.sub[Subject] \cup {NoAttrs} /\ (ok => a \in seen.sub[Subject])
  BY <1>1, <1>3, <1>5 DEF On, OnCondition
<1>7. Return(o)
  BY <1>1
<1>8. o = Evaluate(Top.condition, Top.attrs, a, Top.context)
  OBVIOUS
<1> HIDE DEF a, o, g, b
<1>9. Reliable /\ o = "allow" => Meets(seen, Top.condition, Top.object)
  BY <1>4, <1>5, <1>6, <1>8, AllowMeets DEF Reliable
<1>10. Untouched => Top.attrs \in seen.obj[Top.object]
  BY <1>1, <1>3 DEF Left
<1>11. g.kind \in {"permission", "check"}
  BY <1>1, <1>3 DEF On, OnCondition
<1>12. CASE g.kind = "permission"
  <2>1. ChildOf(g).kind = "condition" /\ Top.object = g.object /\ Top.condition = ChildOf(g).condition
    BY <1>1, <1>3, <1>12 DEF On, OnCondition
  <2>2. Reliable /\ o = "allow" => Granted(seen, g.object, ChildOf(g))
    BY <1>9, <2>1 DEF Granted, MayChild
  <2>3. Allows(seen, b, o)
    BY <1>3, <1>12, <2>2 DEF Allows
  <2>4. ASSUME Untouched, ok
        PROVE  /\ Denies(seen, visited, b, o)
               /\ Searchable => Searched(seen, visited, b, o)
    <3>1. o = "deny" => Fails(seen, Top.condition, Top.object)
      BY <1>6, <1>8, <1>10, <2>4 DEF Fails
    <3>2. o = "deny" => MissedChild(seen, visited, g.object, ChildOf(g))
      BY <2>1, <3>1 DEF MissedChild
    <3>3. Denies(seen, visited, b, o)
      BY <1>3, <1>12, <3>2 DEF Denies
    <3>4. Undecided(b, o) => Undecided(stack, ret)
      BY <1>1, <1>3 DEF Undecided
    <3>5. Walked(stack) = Walked(b)
      BY <1>1, TopOfWalk DEF Walks, b
    <3>6. Searchable => Searched(seen, visited, stack, ret)
      BY <1>1, <2>4 DEF JInv
    <3> QED BY <3>3, <3>4, <3>5, <3>6 DEF Searched
  <2> QED BY <1>1, <1>2, <1>7, <2>3, <2>4, ReturnJ DEF b
<1>13. CASE g.kind = "check"
  <2>1. /\ g.gated /\ DefAt(seen.item).condition # NoCondition
        /\ Top.object = seen.item.object /\ Top.condition = DefAt(seen.item).condition
        /\ Top.context = seen.item.context
    BY <1>1, <1>3, <1>13 DEF On, OnCondition
  <2>2. Bottom(b) = g
    BY <1>3, <1>13, CheckLinked
  <2>3. Reliable => GrantedWalk(seen, seen.item.object, DefAt(seen.item))
    BY <1>3, <2>1, <2>2 DEF Linked
  <2>4. Allows(seen, b, o)
    BY <1>3, <1>9, <1>13, <2>1, <2>3 DEF Allows
  <2>5. Untouched /\ ok => Denies(seen, visited, b, o)
    <3>1. Untouched /\ ok /\ o = "deny" => GateFails(seen)
      BY <1>6, <1>8, <1>10, <2>1 DEF GateFails
    <3> QED BY <1>3, <1>13, <3>1 DEF Denies
  <2>6. Searched(seen, visited, b, o)
    BY <2>1, <2>2 DEF Searched, Undecided
  <2> QED BY <1>1, <1>2, <1>7, <2>4, <2>5, <2>6, ReturnJ DEF b
<1> QED BY <1>11, <1>12, <1>13

\* A closed set has what the rules give.
LEMMA ClosedHas ==
    ASSUME NEW sn, NEW S \in ClosedSets(sn), NEW e \in Entities, NEW n \in Names, MayNode(sn, S, e, n)
    PROVE  <<e, n>> \in S
<1>1. <<e, n>> \in Pairs
  BY DEF Pairs
<1>2. MayNode(sn, S, <<e, n>>[1], <<e, n>>[2])
  OBVIOUS
<1> QED BY <1>1, <1>2 DEF ClosedSets

\* A loop goes on with one thing less to do.
LEMMA LoopOn ==
    ASSUME EInv, JInv, stack # <<>>, Top.kind \in {"usersets", "targets"}, NEW x
    PROVE  LET f == [Top EXCEPT !.pending = @ \ {x}]
               g == stack[2]
           IN  /\ f \in Frame /\ LoopWithout(x) = <<f>> \o Tail(stack) /\ f.kind = Top.kind
               /\ On(seen, f, g) /\ Called(seen, f, g, Tail(stack)[2])
               /\ \A w : /\ visited \subseteq w
                         /\ Untouched /\ ret # "error"
                         /\ Top.kind = "usersets" => Skipped(seen, w, x)
                         /\ Top.kind = "targets" => Passed(w, x, Top.permission)
                         => Left(seen, w, f, g)
<1> DEFINE f == [Top EXCEPT !.pending = @ \ {x}]
           g == stack[2]
<1>1. /\ On(seen, Top, g) /\ (Untouched /\ ret # "error" => Left(seen, visited, Top, g))
      /\ Top \in Frame
  BY TopOfWalk
<1>2. Top \in UsersetsFrame \/ Top \in TargetsFrame
  BY <1>1, FrameKinds
<1>3. /\ f \in Frame /\ LoopWithout(x) = <<f>> \o Tail(stack)
  BY LoopFrame
<1>4. /\ f.kind = Top.kind /\ f.pending = Top.pending \ {x}
      /\ Top.kind = "targets" => f.permission = Top.permission /\ f.context = Top.context
  <2>1. CASE Top \in UsersetsFrame
    BY <2>1 DEF UsersetsFrame
  <2>2. CASE Top \in TargetsFrame
    BY <2>2 DEF TargetsFrame
  <2> QED BY <1>2, <2>1, <2>2
<1> HIDE DEF f, g
<1>5. CASE Top.kind = "usersets"
  <2>1. On(seen, f, g) /\ Called(seen, f, g, Tail(stack)[2])
    BY <1>1, <1>4, <1>5 DEF On, OnUsersets, Called
  <2>2. ASSUME NEW w, visited \subseteq w, Untouched, ret # "error", Skipped(seen, w, x)
        PROVE  Left(seen, w, f, g)
    <3>1. Left(seen, visited, Top, g)
      BY <1>1, <2>2
    <3>2. \A u : Skipped(seen, visited, u) => Skipped(seen, w, u)
      BY <2>2 DEF Skipped
    <3> QED BY <1>4, <1>5, <2>2, <3>1, <3>2 DEF Left
  <2> QED BY <1>3, <1>4, <1>5, <2>1, <2>2 DEF f, g
<1>6. CASE Top.kind = "targets"
  <2>1. On(seen, f, g) /\ Called(seen, f, g, Tail(stack)[2])
    BY <1>1, <1>4, <1>6 DEF On, OnTargets, Called
  <2>2. ASSUME NEW w, visited \subseteq w, Untouched, ret # "error", Passed(w, x, Top.permission)
        PROVE  Left(seen, w, f, g)
    <3>1. Left(seen, visited, Top, g)
      BY <1>1, <2>2
    <3>2. \A u : Passed(visited, u, Top.permission) => Passed(w, u, Top.permission)
      BY <2>2 DEF Passed
    <3> QED BY <1>4, <1>6, <2>2, <3>1, <3>2 DEF Left
  <2> QED BY <1>3, <1>4, <1>6, <2>1, <2>2 DEF f, g
<1> QED BY <1>5, <1>6

\* A userset that is looked up.
LEMMA CheckUsersetJ ==
    ASSUME EInv, JInv, EInv', NEW u, NEW ok \in BOOLEAN, CheckUserset(u, ok)
    PROVE  JInv'
<1> DEFINE f == [Top EXCEPT !.pending = @ \ {u}]
           g == stack[2]
           b == Tail(stack)
<1>1. /\ stack # <<>> /\ Top.kind = "usersets" /\ ret = "none" /\ Read(ok) /\ visited' = visited
      /\ u \in Top.pending /\ ~HasPermission(u.ref.type, u.relation)
      /\ \/ CheckDirect(tuples, u.ref, u.relation, Subject) /\ Return("allow")
         \/ /\ ok => ~CheckDirect(tuples, u.ref, u.relation, Subject)
            /\ stack' = LoopWithout(u) /\ ret' = "none"
  BY DEF CheckUserset, Running, OpenUsersets
<1>2. UNCHANGED <<storeVars, tc, items, answers, seen>> /\ (Untouched' => Untouched /\ ok)
  BY <1>1, ReadFrame, ReadUntouched
<1>3. seen.always \subseteq tuples /\ tuples \subseteq seen.ever /\ seen.ever \subseteq Universe
  BY <1>1, StoreSeen
<1>4. On(seen, Top, g) /\ g = b[1] /\ Bottom(stack) = Bottom(b) /\ ~Walks(Top) /\ Walked(stack) = Walked(b)
  BY <1>1, TopOfWalk DEF Walks
<1>5. CASE CheckDirect(tuples, u.ref, u.relation, Subject) /\ Return("allow")
  <2>1. /\ g.kind = "permission" /\ ChildOf(g).kind = "relation"
        /\ u \in Usersets(seen.ever, g.object, ChildOf(g).relation)
    BY <1>1, <1>4 DEF On, OnUsersets
  <2>2. u.ref \in Entities /\ u.relation \in Names
    BY <1>3, <2>1, UsersetKnown DEF Usersets
  <2>3. CheckDirect(seen.ever, u.ref, u.relation, Subject)
    BY <1>3, <1>5, QueriesMonotone
  <2>4. ASSUME NEW S \in ClosedSets(seen)
        PROVE  MayChild(seen, S, g.object, ChildOf(g))
    <3>1. MayNode(seen, S, u.ref, u.relation)
      BY <1>1, <2>3 DEF MayNode, MayRelation
    <3>2. <<u.ref, u.relation>> \in S
      BY <2>2, <3>1, ClosedHas
    <3> QED BY <2>1, <3>2 DEF MayChild, MayRelation
  <2>5. Return("allow")
    BY <1>5
  <2> HIDE DEF b, g
  <2>6. Allows(seen, b, "allow")
    BY <1>4, <2>1, <2>4 DEF Allows, Granted
  <2>7. Denies(seen, visited, b, "allow")
    BY DEF Denies
  <2>8. Undecided(b, "allow") => Undecided(stack, ret)
    BY <1>1, <1>4 DEF Undecided
  <2>9. Untouched /\ Searchable => Searched(seen, visited, b, "allow")
    BY <1>1, <1>4, <2>8 DEF JInv, Searched
  <2> QED BY <1>1, <1>2, <2>5, <2>6, <2>7, <2>9, ReturnJ DEF b
<1>6. CASE /\ ok => ~CheckDirect(tuples, u.ref, u.relation, Subject)
           /\ stack' = LoopWithout(u) /\ ret' = "none"
  <2>1. /\ f \in Frame /\ LoopWithout(u) = <<f>> \o Tail(stack) /\ f.kind = Top.kind
        /\ On(seen, f, g) /\ Called(seen, f, g, Tail(stack)[2])
        /\ Untouched /\ Skipped(seen, visited, u) => Left(seen, visited, f, g)
    BY <1>1, LoopOn
  <2> HIDE DEF f, g
  <2>2. ok => ~CheckDirect(seen.always, u.ref, u.relation, Subject)
    BY <1>3, <1>6, QueriesMonotone
  <2>3. ok => Skipped(seen, visited, u)
    BY <1>1, <2>2 DEF Skipped
  <2>4. ~Bottom(stack).gated => Undecided(stack, ret)
    BY <1>1 DEF Undecided
  <2>5. stack' = <<f>> \o Tail(stack) /\ ret' \in {"none", "error"} /\ ret' # "error" /\ ret # "error"
    BY <1>1, <1>6, <2>1
  <2> QED BY <1>1, <1>2, <1>4, <2>1, <2>3, <2>4, <2>5, GoOnJ DEF g
<1> QED BY <1>1, <1>5, <1>6

\* What a loop does with a result.
LEMMA LoopReturnsJ ==
    ASSUME EInv, JInv, EInv', LoopReturns
    PROVE  JInv'
<1> DEFINE g == stack[2]
           b == Tail(stack)
<1>1. /\ stack # <<>> /\ Top.kind \in {"usersets", "targets"} /\ ret # "none"
      /\ visited' = visited /\ Local
      /\ \/ ret = "deny" /\ stack' = stack /\ ret' = "none"
         \/ ret # "deny" /\ Return(ret)
  BY DEF LoopReturns
<1>2. UNCHANGED <<storeVars, tc, items, answers, seen>> /\ (Untouched' => Untouched)
  BY <1>1 DEF Local, Untouched
<1>3. /\ On(seen, Top, g) /\ g = b[1] /\ Top = stack[1] /\ Bottom(stack) = Bottom(b)
      /\ ~Walks(Top) /\ Walked(stack) = Walked(b)
  BY <1>1, TopOfWalk DEF Walks
<1>4. CASE ret = "deny" /\ stack' = stack /\ ret' = "none"
  <2>1. Allows(seen, stack, ret')
    BY <1>4 DEF Allows
  <2>2. Undecided(stack, ret') => Undecided(stack, ret)
    BY <1>4 DEF Undecided
  <2> QED BY <1>1, <1>2, <1>4, <2>1, <2>2, StayJ
<1>5. CASE ret # "deny" /\ Return(ret)
  <2>1. g.kind = "permission"
    BY <1>1, <1>3 DEF On, OnUsersets, OnTargets
  <2>2. ret \in {"allow", "error"}
    BY <1>1, <1>5 DEF EInv, TypeOK, Outcomes
  <2>3. PICK o : o = ret /\ Return(o)
    BY <1>5 DEF Return
  <2> HIDE DEF b, g
  <2>4. Allows(seen, b, o)
    BY <1>1, <1>3, <2>1, <2>3 DEF JInv, Allows, g
  <2>5. Denies(seen, visited, b, o)
    BY <2>2, <2>3 DEF Denies
  <2>6. ret # "error" /\ Undecided(b, o) => Undecided(stack, ret)
    BY <1>1, <1>3, <2>1, <2>2, <2>3 DEF Undecided, g
  <2>7. Untouched /\ o # "error" /\ Searchable => Searched(seen, visited, b, o)
    BY <1>1, <1>3, <2>3, <2>6 DEF JInv, Searched
  <2> QED BY <1>1, <1>2, <2>3, <2>4, <2>5, <2>7, ReturnJ DEF b
<1> QED BY <1>1, <1>4, <1>5

\* A loop with nothing left.
LEMMA LoopEndsJ ==
    ASSUME EInv, JInv, EInv', LoopEnds
    PROVE  JInv'
<1> DEFINE g == stack[2]
           b == Tail(stack)
<1>1. /\ stack # <<>> /\ ret = "none" /\ visited' = visited /\ Local /\ Return("deny")
      /\ \/ Top.kind = "usersets" /\ OpenUsersets = {}
         \/ Top.kind = "targets" /\ OpenTargets = {}
  BY DEF LoopEnds, Running
<1>2. UNCHANGED <<storeVars, tc, items, answers, seen>> /\ (Untouched' => Untouched)
  BY <1>1 DEF Local, Untouched
<1>3. /\ On(seen, Top, g) /\ g = b[1] /\ Bottom(stack) = Bottom(b)
      /\ ~Walks(Top) /\ Walked(stack) = Walked(b)
      /\ Untouched => Left(seen, visited, Top, g)
  BY <1>1, TopOfWalk DEF Walks
<1>4. g.kind = "permission"
  BY <1>1, <1>3 DEF On, OnUsersets, OnTargets
<1>5. ASSUME Untouched
      PROVE  MissedChild(seen, visited, g.object, ChildOf(g))
  <2>1. CASE Top.kind = "usersets" /\ OpenUsersets = {}
    <3>1. \A u \in Top.pending : Skipped(seen, visited, u)
      <4>1. \A u \in Top.pending : Node(u.ref, u.relation) \in visited
        BY <2>1 DEF OpenUsersets
      <4>2. \A e, p : Node(e, p) \in visited => HasPermission(e.type, p)
        BY DEF EInv, TypeOK, Nodes, Node, HasPermission
      <4> QED BY <4>1, <4>2 DEF Skipped
    <3>2. Left(seen, visited, Top, g) /\ ChildOf(g).kind = "relation"
      BY <1>3, <1>5, <2>1 DEF On, OnUsersets
    <3> HIDE DEF g
    <3> QED BY <2>1, <3>1, <3>2 DEF Left, MissedChild
  <2>2. CASE Top.kind = "targets" /\ OpenTargets = {}
    <3>1. \A o \in Top.pending : Passed(visited, o, Top.permission)
      BY <2>2 DEF OpenTargets, Passed
    <3>2. /\ Left(seen, visited, Top, g) /\ ChildOf(g).kind = "arrow"
          /\ Top.permission = ChildOf(g).permission
      BY <1>3, <1>5, <2>2 DEF On, OnTargets
    <3> HIDE DEF g
    <3> QED BY <2>2, <3>1, <3>2 DEF Left, MissedChild
  <2> QED BY <1>1, <2>1, <2>2
<1> HIDE DEF b, g
<1>6. Allows(seen, b, "deny")
  BY <1>3, <1>4 DEF Allows
<1>7. Untouched => Denies(seen, visited, b, "deny")
  BY <1>3, <1>4, <1>5 DEF Denies
<1>8. Undecided(b, "deny") => Undecided(stack, ret)
  BY <1>1, <1>3 DEF Undecided
<1>9. Untouched /\ Searchable => Searched(seen, visited, b, "deny")
  BY <1>1, <1>3, <1>8 DEF JInv, Searched
<1>10. Top.kind # "check"
  BY <1>1
<1> QED BY <1>1, <1>2, <1>6, <1>7, <1>9, <1>10, ReturnJ DEF b

\* walkPermission, called by a loop.
LEMMA WalkPermissionJ ==
    ASSUME EInv, JInv, EInv', stack # <<>>, Top.kind \in {"usersets", "targets"}, ret = "none",
           NEW x, NEW object \in Entities, NEW p, HasPermission(object.type, p),
           Node(object, p) \notin visited,
           NEW context \in {seen.item.context, NoContext}, NEW depth,
           Top.kind = "usersets" => x = [ref |-> object, relation |-> p] /\ x \in Top.pending,
           Top.kind = "targets" => x = object /\ p = Top.permission /\ x \in Top.pending,
           walkPermission(object, p, context, depth, LoopWithout(x)), Local
    PROVE  JInv'
<1> DEFINE f == [Top EXCEPT !.pending = @ \ {x}]
           g == stack[2]
           b == Tail(stack)
           c == [kind |-> "permission", object |-> object, permission |-> p,
                 context |-> context, depth |-> depth, child |-> 1]
           s == <<f>> \o b
<1>1. UNCHANGED <<storeVars, tc, items, answers, seen>> /\ (Untouched' => Untouched)
  BY DEF Local, Untouched
<1>2. /\ f \in Frame /\ LoopWithout(x) = s /\ f.kind = Top.kind
      /\ On(seen, f, g) /\ Called(seen, f, g, b[2])
      /\ \A w : /\ visited \subseteq w /\ Untouched
                /\ Top.kind = "usersets" => Skipped(seen, w, x)
                /\ Top.kind = "targets" => Passed(w, x, Top.permission)
                => Left(seen, w, f, g)
  BY LoopOn
<1>3. /\ b \in Seq(Frame) /\ b # <<>> /\ b[1] = g /\ Bottom(stack) = Bottom(b)
      /\ Linked(seen, b) /\ On(seen, Top, g)
      /\ Untouched => AllLeft(seen, visited, b)
      /\ ~Walks(Top) /\ Walked(stack) = Walked(b)
  BY TopOfWalk DEF Walks
<1>4. \/ stack' = s /\ ret' = "error" /\ visited' = visited
      \/ visited' = visited \cup {Node(object, p)} /\ stack' = <<c>> \o s /\ ret' = "none"
  BY <1>2 DEF walkPermission
<1>5. /\ c.kind = "permission" /\ c.object = object /\ c.permission = p /\ c.context = context
      /\ c.child = 1
  OBVIOUS
<1> HIDE DEF f, g, c
<1>6. CASE stack' = s /\ ret' = "error" /\ visited' = visited
  <2>1. stack' = <<f>> \o Tail(stack) /\ f.kind \notin {"relation", "condition"} /\ Top.kind # "check"
    BY <1>2, <1>6
  <2>2. ret' \in {"none", "error"}
    BY <1>6
  <2>3. On(seen, f, stack[2]) /\ Called(seen, f, stack[2], Tail(stack)[2])
    BY <1>2 DEF g
  <2> QED BY <1>1, <1>2, <1>3, <1>6, <2>1, <2>2, <2>3, GoOnJ
<1>7. CASE visited' = visited \cup {Node(object, p)} /\ stack' = <<c>> \o s /\ ret' = "none"
  <2> HIDE DEF b
  <2>1. /\ s \in Seq(Frame) /\ s # <<>> /\ s[1] = f /\ s[2] = b[1] /\ Bottom(s) = Bottom(b)
    BY <1>2, <1>3, ConsPositions
  <2>2. /\ Linked(seen, s)
        /\ \A w : AllLeft(seen, w, s) <=> AllLeft(seen, w, b) /\ Left(seen, w, f, b[1])
    BY <1>2, <1>3, LinkedCons
  <2>3. Walked(b) \subseteq Walked(s)
    BY <1>2, <1>3, WalkedCons
  <2> HIDE DEF s
  <2>4. c \in Frame
    <3>1. stack' \in Seq(Frame) /\ stack' = <<c>> \o s
      BY <1>7 DEF EInv, TypeOK
    <3>2. stack'[1] = c /\ 1 \in DOMAIN stack'
      BY <2>1, <3>1
    <3> QED BY <3>1, <3>2
  <2>5. On(seen, c, f)
    <3>1. Progress(seen, c)
      BY <1>5 DEF Progress
    <3> QED BY <1>2, <1>5, <3>1 DEF On, OnPermission
  <2>6. Called(seen, c, f, g)
    <3>1. CASE Top.kind = "usersets"
      <4>1. [ref |-> object, relation |-> p] \in Usersets(seen.ever, g.object, ChildOf(g).relation)
        BY <1>3, <3>1 DEF On, OnUsersets
      <4> QED BY <1>2, <1>5, <3>1, <4>1 DEF Called
    <3>2. CASE Top.kind = "targets"
      <4>1. /\ p = ChildOf(g).permission
            /\ object \in ListRelatedObjects(seen.ever, g.object, ChildOf(g).relation)
        BY <1>3, <3>2 DEF On, OnTargets
      <4> QED BY <1>2, <1>5, <3>2, <4>1 DEF Called
    <3> QED BY <3>1, <3>2
  <2>7. /\ Linked(seen, <<c>> \o s)
        /\ \A w : AllLeft(seen, w, <<c>> \o s) <=> AllLeft(seen, w, s) /\ Left(seen, w, c, s[1])
    BY <1>3, <2>1, <2>2, <2>4, <2>5, <2>6, LinkedCons
  <2>8. <<c>> \o s # <<>> /\ Bottom(<<c>> \o s) = Bottom(s)
    BY <2>1, <2>4, ConsPositions
  <2>9. stack' # <<>> /\ Linked(seen, stack') /\ Bottom(stack') = Bottom(stack) /\ Allows(seen, stack', ret')
    BY <1>3, <1>7, <2>1, <2>7, <2>8 DEF Allows
  <2>10. ASSUME Untouched'
         PROVE  /\ Untouched
                /\ AllLeft(seen, visited', stack') /\ Denies(seen, visited', stack', ret')
                /\ Searchable => Searched(seen, visited', stack', ret')
    <3>0. Untouched /\ visited \subseteq visited' /\ Node(object, p) \in visited'
      BY <1>1, <1>7, <2>10
    <3>1. Left(seen, visited', c, f)
      BY <1>5 DEF Left
    <3>2. Left(seen, visited', f, b[1])
      <4>1. Top.kind = "usersets" => Skipped(seen, visited', x)
        BY <3>0 DEF Skipped
      <4>2. Top.kind = "targets" => Passed(visited', x, Top.permission)
        BY <3>0 DEF Passed
      <4> QED BY <1>2, <1>3, <3>0, <4>1, <4>2
    <3>3. Grows(seen, seen)
      BY DEF Grows
    <3>4. AllLeft(seen, visited', b)
      BY <1>3, <3>0, <3>3, StackGrows
    <3>5. AllLeft(seen, visited', stack')
      BY <1>7, <2>1, <2>2, <2>7, <3>1, <3>2, <3>4
    <3>6. Denies(seen, visited', stack', ret')
      BY <1>7 DEF Denies
    <3>7. ASSUME Searchable, Undecided(stack', ret')
          PROVE  /\ Node(seen.item.object, seen.item.permission) \in visited'
                 /\ \A n \in visited' : Denied(seen, visited', n) \/ n \in Walked(stack')
      <4>1. Undecided(stack, ret)
        BY <2>9, <3>7 DEF Undecided
      <4>2. /\ Node(seen.item.object, seen.item.permission) \in visited
            /\ \A n \in visited : Denied(seen, visited, n) \/ n \in Walked(stack)
        BY <3>0, <3>7, <4>1 DEF JInv, Searched
      <4>3. \A n \in visited : n.object \in Entities
        BY DEF EInv, TypeOK, Nodes
      <4>4. \A n \in visited : Denied(seen, visited, n) => Denied(seen, visited', n)
        BY <3>0, <3>3, <4>3, DeniedMonotone
      <4>5. /\ Walked(s) \subseteq Walked(<<c>> \o s)
            /\ Walks(c) /\ NodeOf(c) \in Nodes => NodeOf(c) \in Walked(<<c>> \o s)
        BY <2>1, <2>4, WalkedCons
      <4>6. Walks(c) /\ NodeOf(c) = Node(object, p) /\ Node(object, p) \in Nodes
        BY <1>5, NodeKnown DEF Walks, NodeOf
      <4>7. Node(object, p) \in Walked(stack')
        BY <1>7, <4>5, <4>6
      <4>8. \A n \in visited : n \in Walked(stack) => n \in Walked(stack')
        BY <1>3, <1>7, <2>3, <4>5
      <4> QED BY <1>7, <3>0, <4>2, <4>4, <4>7, <4>8
    <3> QED BY <3>0, <3>5, <3>6, <3>7 DEF Searched
  <2> QED BY <1>1, <2>9, <2>10, WalkJ
<1> QED BY <1>4, <1>6, <1>7

\* A userset that is a permission.
LEMMA WalkUsersetJ ==
    ASSUME EInv, JInv, EInv', NEW u, WalkUserset(u)
    PROVE  JInv'
<1>1. /\ stack # <<>> /\ Top.kind = "usersets" /\ ret = "none" /\ u \in Top.pending /\ Local
      /\ Node(u.ref, u.relation) \notin visited /\ HasPermission(u.ref.type, u.relation)
      /\ walkPermission(u.ref, u.relation, NoContext, Top.depth + 1, LoopWithout(u))
  BY DEF WalkUserset, Running, OpenUsersets
<1>2. Top \in UsersetsFrame
  BY <1>1, TopProperties, FrameKinds
<1>3. u.ref \in Entities /\ u = [ref |-> u.ref, relation |-> u.relation]
  BY <1>1, <1>2 DEF UsersetsFrame
<1>4. PICK depth, object, p, context :
         depth = Top.depth + 1 /\ object = u.ref /\ p = u.relation /\ context = NoContext
  OBVIOUS
<1>5. /\ walkPermission(object, p, context, depth, LoopWithout(u)) /\ HasPermission(object.type, p)
      /\ Node(object, p) \notin visited /\ u = [ref |-> object, relation |-> p] /\ object \in Entities
      /\ context \in {seen.item.context, NoContext}
  BY <1>1, <1>3, <1>4 DEF walkPermission
<1> QED BY <1>1, <1>5, WalkPermissionJ

\* A related object.
LEMMA WalkTargetJ ==
    ASSUME EInv, JInv, EInv', NEW o, WalkTarget(o)
    PROVE  JInv'
<1>1. /\ stack # <<>> /\ Top.kind = "targets" /\ ret = "none" /\ o \in Top.pending /\ Local
      /\ Node(o, Top.permission) \notin visited /\ HasPermission(o.type, Top.permission)
      /\ walkPermission(o, Top.permission, Top.context, Top.depth + 1, LoopWithout(o))
  BY DEF WalkTarget, Running, OpenTargets
<1>2. Top \in TargetsFrame /\ On(seen, Top, stack[2])
  BY <1>1, TopOfWalk, FrameKinds
<1>3. o \in Entities /\ Top.context \in {seen.item.context, NoContext}
  BY <1>1, <1>2 DEF TargetsFrame, On, OnTargets
<1>4. PICK depth, p, context : depth = Top.depth + 1 /\ p = Top.permission /\ context = Top.context
  OBVIOUS
<1>5. /\ walkPermission(o, p, context, depth, LoopWithout(o)) /\ HasPermission(o.type, p)
      /\ Node(o, p) \notin visited /\ context \in {seen.item.context, NoContext}
  BY <1>1, <1>3, <1>4 DEF walkPermission
<1> QED BY <1>1, <1>3, <1>4, <1>5, WalkPermissionJ

\* The top of the stack is a node of the schema.
LEMMA TopNode ==
    ASSUME EInv, NEW f \in Frame, f.kind = "permission", OnSchema(f)
    PROVE  /\ f.object \in Entities /\ HasPermission(f.object.type, f.permission)
           /\ NodeOf(f) \in Nodes /\ DefAt(NodeOf(f)) = DefAt(f) /\ NodeOf(f).object = f.object
           /\ DefAt(f) \in PermissionDef /\ f.child \in DOMAIN DefAt(f).children
           /\ f.child \in 1..Len(DefAt(f).children) /\ Len(DefAt(f).children) \in Nat
           /\ DOMAIN DefAt(f).children = 1..Len(DefAt(f).children)
           /\ DefAt(f).op \in {"direct", "union", "intersect", "exclusion"}
           /\ f.permission \in Names
<1>1. f \in PermissionFrame
  BY FrameKinds
<1>2. f.object \in Entities /\ f.child \in Nat \ {0}
  BY <1>1 DEF PermissionFrame
<1>3. HasPermission(f.object.type, f.permission) /\ f.child <= Len(DefAt(f).children)
  BY DEF OnSchema, DefAt
<1>4. DefAt(f) \in PermissionDef /\ f.permission \in Names
  BY <1>2, <1>3, PermissionNamed DEF DefAt
<1>5. DefAt(f).children \in Seq(PermissionRef) /\ DefAt(f).op \in {"direct", "union", "intersect", "exclusion"}
  BY <1>4 DEF PermissionDef
<1>6. NodeOf(f) \in Nodes /\ NodeOf(f).object = f.object /\ DefAt(NodeOf(f)) = DefAt(f)
  BY <1>2, <1>3, NodeKnown DEF NodeOf, Node, DefAt
<1>7. /\ DOMAIN DefAt(f).children = 1..Len(DefAt(f).children) /\ Len(DefAt(f).children) \in Nat
      /\ f.child \in 1..Len(DefAt(f).children)
  BY <1>2, <1>3, <1>5
<1> QED BY <1>2, <1>3, <1>4, <1>5, <1>6, <1>7

\* What an exclusion goes on after is spared.
LEMMA ChildSpared ==
    ASSUME EInv, JInv, stack # <<>>, Top.kind = "permission", ret = "deny",
           Reliable, Def.op = "exclusion", Top.child # 1
    PROVE  Spared(seen, Top.object, Child.relation)
<1>1. Top \in Frame /\ OnSchema(Top) /\ Top = stack[1] /\ ChildOf(Top) = Child /\ DefAt(Top) = Def
  BY TopOfWalk, ChildHere
<1>2. /\ NodeOf(Top) \in Nodes /\ DefAt(NodeOf(Top)) = Def /\ NodeOf(Top).object = Top.object
      /\ Top.child \in DOMAIN Def.children
  BY <1>1, TopNode
<1>3. Untouched
  BY <1>2 DEF JInv
<1>4. Child.kind = "relation" /\ Plain(Top.object, Child.relation)
  BY <1>2 DEF Reliable, ExclusionsArePlain, Child
<1>5. MissedChild(seen, visited, Top.object, Child)
  BY <1>1, <1>3 DEF JInv, Denies
<1>6. seen.always \subseteq Universe
  BY DEF EInv, Seen
<1>7. \A u \in Usersets(seen.always, Top.object, Child.relation) : ~HasPermission(u.ref.type, u.relation)
  BY <1>4, <1>6, QueriesMonotone DEF Plain
<1> QED BY <1>4, <1>5, <1>7 DEF MissedChild, Skipped, Spared

\* A permission whose children decided for it is granted its walk.
LEMMA WalkGranted ==
    ASSUME EInv, JInv, stack # <<>>, Top.kind = "permission", ret \in Outcomes, Reliable,
           Combine(Def.op, Top.child, Top.child = Len(Def.children), ret) = "allow"
    PROVE  GrantedWalk(seen, Top.object, Def)
<1>1. /\ Top \in Frame /\ OnSchema(Top) /\ Top = stack[1] /\ ChildOf(Top) = Child /\ DefAt(Top) = Def
      /\ On(seen, Top, stack[2])
  BY TopOfWalk, ChildHere
<1>2. /\ Top.child \in 1..Len(Def.children) /\ Len(Def.children) \in Nat
      /\ DOMAIN Def.children = 1..Len(Def.children)
      /\ Def.op \in {"direct", "union", "intersect", "exclusion"}
      /\ Top.child \in DOMAIN Def.children
  BY <1>1, TopNode
<1>3. ret = "allow" => Granted(seen, Top.object, Def.children[Top.child])
  BY <1>1 DEF JInv, Allows, Child
<1>4. Progress(seen, Top)
  BY <1>1 DEF On, OnPermission
<1>5. CASE Def.op \in {"union", "direct"}
  <2>1. ret = "allow"
    BY <1>5 DEF Combine, Outcomes
  <2> QED BY <1>2, <1>3, <1>5, <2>1 DEF Granted, GrantedWalk, MayWalk
<1>6. CASE Def.op = "intersect"
  <2>1. ret = "allow" /\ Top.child = Len(Def.children)
    BY <1>6 DEF Combine, Outcomes
  <2>2. \A k \in 1..(Top.child - 1) : Granted(seen, Top.object, Def.children[k])
    BY <1>1, <1>4, <1>6 DEF Progress
  <2>3. ASSUME NEW k \in DOMAIN Def.children
        PROVE  Granted(seen, Top.object, Def.children[k])
    <3>1. k = Top.child \/ k \in 1..(Top.child - 1)
      BY <1>2, <2>1
    <3> QED BY <1>3, <2>1, <2>2, <3>1
  <2> QED BY <1>6, <2>3 DEF Granted, GrantedWalk, MayWalk
<1>7. CASE Def.op = "exclusion"
  <2>1. Top.child = Len(Def.children) /\ (Top.child = 1 => ret = "allow") /\ (Top.child # 1 => ret = "deny")
    BY <1>7 DEF Combine, Outcomes
  <2>2. Granted(seen, Top.object, Def.children[1])
    <3>1. CASE Top.child = 1
      BY <1>3, <2>1, <3>1
    <3>2. CASE Top.child # 1
      <4>1. Top.child > 1
        BY <1>2, <3>2
      <4> QED BY <1>1, <1>4, <1>7, <4>1 DEF Progress
    <3> QED BY <3>1, <3>2
  <2>3. ASSUME NEW k \in DOMAIN Def.children \ {1}
        PROVE  Spared(seen, Top.object, Def.children[k].relation)
    <3>1. k = Top.child \/ k \in 2..(Top.child - 1)
      BY <1>2, <2>1
    <3>2. Top.child # 1 /\ Top.child > 1
      <4>1. Top.child \in Nat /\ k \in 1..Top.child /\ k # 1
        BY <1>2, <2>1
      <4>2. \A n \in Nat : k \in 1..n /\ k # 1 => n # 1 /\ n > 1
        OBVIOUS
      <4> QED BY <4>1, <4>2
    <3>3. CASE k = Top.child
      BY <1>7, <2>1, <3>2, <3>3, ChildSpared DEF Child
    <3>4. CASE k \in 2..(Top.child - 1)
      BY <1>1, <1>4, <1>7, <3>2, <3>4 DEF Progress
    <3> QED BY <3>1, <3>3, <3>4
  <2> QED BY <1>7, <2>2, <2>3 DEF Granted, GrantedWalk, MayWalk
<1> QED BY <1>2, <1>5, <1>6, <1>7

\* A loop whose permission is granted its walk grants the child it is at.
LEMMA LoopGranted ==
    ASSUME EInv, JInv, Reliable, NEW f \in Frame, NEW g, NEW h \in Frame,
           f.kind = "permission", OnSchema(f), OnSchema(h),
           g.kind \in {"usersets", "targets"}, On(seen, g, h), Called(seen, f, g, h),
           GrantedWalk(seen, f.object, DefAt(f))
    PROVE  Granted(seen, h.object, ChildOf(h))
<1>1. /\ f.object \in Entities /\ HasPermission(f.object.type, f.permission) /\ f.permission \in Names
      /\ DefAt(f) = GetPermission(f.object.type, f.permission)
  BY TopNode DEF DefAt
<1>2. h.kind = "permission"
  BY DEF On, OnUsersets, OnTargets
<1>3. seen.ever \subseteq Universe
  BY DEF EInv, Seen
<1>4. Ungated(f.object, f.permission)
  <2>1. CASE g.kind = "usersets"
    <3>1. [ref |-> f.object, relation |-> f.permission] \in ListSubjects(seen.ever, h.object, ChildOf(h).relation)
      BY <2>1 DEF Called, Usersets
    <3>2. PICK x \in seen.ever : [ref |-> f.object, relation |-> f.permission]
                                    = [ref |-> SubjectOf(x), relation |-> x.subjectRelation]
      BY <3>1 DEF ListSubjects, OnRelation
    <3>3. f.object = SubjectOf(x) /\ f.permission = x.subjectRelation /\ x \in Universe
      BY <1>3, <3>2
    <3> QED BY <3>3 DEF Reliable, InnerUngated
  <2>2. CASE g.kind = "targets"
    <3>1. /\ NodeOf(h) \in Nodes /\ DefAt(NodeOf(h)) = DefAt(h) /\ NodeOf(h).object = h.object
          /\ h.child \in DOMAIN DefAt(h).children
      BY <1>2, TopNode
    <3>2. /\ f.permission = ChildOf(h).permission /\ ChildOf(h).kind = "arrow"
          /\ f.object \in ListRelatedObjects(Universe, h.object, ChildOf(h).relation)
      BY <1>3, <2>2, QueriesMonotone DEF Called, On, OnTargets
    <3>3. \A o \in ListRelatedObjects(Universe, h.object, ChildOf(h).relation) :
             Ungated(o, ChildOf(h).permission)
      BY <3>1, <3>2 DEF Reliable, InnerUngated, ChildOf
    <3> QED BY <3>2, <3>3
  <2> QED BY <2>1, <2>2
<1>5. ASSUME NEW S \in ClosedSets(seen)
      PROVE  <<f.object, f.permission>> \in S
  <2>1. MayNode(seen, S, f.object, f.permission)
    BY <1>1, <1>4 DEF MayNode, GrantedWalk, MayGate, Ungated
  <2> QED BY <1>1, <2>1, ClosedHas
<1>6. CASE g.kind = "usersets"
  <2>1. /\ ChildOf(h).kind = "relation"
        /\ [ref |-> f.object, relation |-> f.permission] \in Usersets(seen.ever, h.object, ChildOf(h).relation)
    BY <1>6 DEF Called, On, OnUsersets
  <2>2. \A S \in ClosedSets(seen) : MayRelation(seen, S, h.object, ChildOf(h).relation)
    <3>1. PICK u : u = [ref |-> f.object, relation |-> f.permission]
      OBVIOUS
    <3>2. u \in Usersets(seen.ever, h.object, ChildOf(h).relation) /\ u.ref = f.object /\ u.relation = f.permission
      BY <2>1, <3>1
    <3> QED BY <1>5, <3>2 DEF MayRelation
  <2> QED BY <2>1, <2>2 DEF Granted, MayChild
<1>7. CASE g.kind = "targets"
  <2>1. /\ ChildOf(h).kind = "arrow" /\ f.permission = ChildOf(h).permission
        /\ f.object \in ListRelatedObjects(seen.ever, h.object, ChildOf(h).relation)
    BY <1>7 DEF Called, On, OnTargets
  <2>2. \A S \in ClosedSets(seen) : MayArrow(seen, S, h.object, ChildOf(h).relation, ChildOf(h).permission)
    BY <1>1, <1>5, <2>1 DEF MayArrow
  <2> QED BY <2>1, <2>2 DEF Granted, MayChild
<1> QED BY <1>6, <1>7

\* A permission that was denied by its children is denied.
LEMMA WalkDenied ==
    ASSUME EInv, JInv, stack # <<>>, Top.kind = "permission", Untouched, Searchable, ret = "deny",
           Combine(Def.op, Top.child, Top.child = Len(Def.children), ret) = "deny"
    PROVE  Denied(seen, visited, NodeOf(Top))
<1>1. /\ Top \in Frame /\ OnSchema(Top) /\ Top = stack[1] /\ ChildOf(Top) = Child /\ DefAt(Top) = Def
      /\ Left(seen, visited, Top, stack[2])
  BY TopOfWalk, ChildHere
<1>2. /\ NodeOf(Top) \in Nodes /\ DefAt(NodeOf(Top)) = Def /\ NodeOf(Top).object = Top.object
      /\ Top.child \in 1..Len(Def.children) /\ Len(Def.children) \in Nat
      /\ DOMAIN Def.children = 1..Len(Def.children)
      /\ Def.op \in {"direct", "union", "intersect", "exclusion"}
      /\ Top.child \in DOMAIN Def.children
  BY <1>1, TopNode
<1>3. MissedChild(seen, visited, Top.object, Def.children[Top.child])
  BY <1>1 DEF JInv, Denies, Child
<1>4. Def.op # "exclusion"
  BY <1>2 DEF Searchable, FirstGrantDecides
<1>5. CASE Def.op = "intersect"
  BY <1>2, <1>3, <1>5 DEF Denied
<1>6. CASE Def.op \in {"union", "direct"}
  <2>1. Top.child = Len(Def.children)
    BY <1>6 DEF Combine
  <2>2. \A k \in 1..(Top.child - 1) : MissedChild(seen, visited, Top.object, Def.children[k])
    BY <1>1, <1>6 DEF Left
  <2>3. \A k \in DOMAIN Def.children : k = Top.child \/ k \in 1..(Top.child - 1)
    BY <1>2, <2>1
  <2>4. \A k \in DOMAIN Def.children : MissedChild(seen, visited, Top.object, Def.children[k])
    BY <1>3, <2>2, <2>3
  <2>5. Def.op # "intersect"
    BY <1>6
  <2> QED BY <1>2, <2>4, <2>5 DEF Denied
<1> QED BY <1>2, <1>4, <1>5, <1>6

\* The next child is asked.
LEMMA NextChildJ ==
    ASSUME EInv, JInv, EInv', stack # <<>>, Top.kind = "permission", ret \in Outcomes,
           Combine(Def.op, Top.child, Top.child = Len(Def.children), ret) = "none",
           stack' = <<[Top EXCEPT !.child = @ + 1]>> \o Tail(stack), ret' = "none",
           visited' = visited, Local
    PROVE  JInv'
<1> DEFINE f == [Top EXCEPT !.child = @ + 1]
           g == stack[2]
<1>1. /\ Top \in Frame /\ OnSchema(Top) /\ Top = stack[1] /\ ChildOf(Top) = Child /\ DefAt(Top) = Def
      /\ On(seen, Top, g) /\ Called(seen, Top, g, Tail(stack)[2])
      /\ Untouched /\ ret # "error" => Left(seen, visited, Top, g)
  BY TopOfWalk, ChildHere
<1>2. /\ NodeOf(Top) \in Nodes /\ DefAt(NodeOf(Top)) = Def
      /\ Top.child \in 1..Len(Def.children) /\ Len(Def.children) \in Nat
      /\ DOMAIN Def.children = 1..Len(Def.children)
      /\ Def.op \in {"direct", "union", "intersect", "exclusion"}
  BY <1>1, TopNode
<1>3. UNCHANGED <<storeVars, tc, items, answers, seen>> /\ (Untouched' => Untouched)
  BY DEF Local, Untouched
<1>4. Top \in PermissionFrame
  BY <1>1, FrameKinds
<1>5. /\ f \in PermissionFrame /\ f.kind = "permission" /\ f.object = Top.object
      /\ f.permission = Top.permission /\ f.context = Top.context /\ f.child = Top.child + 1
  BY <1>4, SMTT(60) DEF PermissionFrame
<1>6. stack' = <<f>> \o Tail(stack)
  OBVIOUS
<1>7. /\ Top.child # Len(Def.children) /\ ret # "error"
      /\ Def.op \in {"union", "direct"} => ret = "deny"
      /\ Def.op = "intersect" => ret = "allow"
      /\ Def.op = "exclusion" => (Top.child = 1 => ret = "allow") /\ (Top.child # 1 => ret = "deny")
  <2>0. PICK last, n : last \in BOOLEAN /\ last = (Top.child = Len(Def.children)) /\ n = Top.child
    OBVIOUS
  <2>1. Combine(Def.op, n, last, ret) = "none"
    BY <2>0
  <2>2. ret # "error"
    BY <2>1 DEF Combine
  <2>3. CASE Def.op \in {"union", "direct"}
    BY <2>0, <2>1, <2>2, <2>3 DEF Combine, Outcomes
  <2>4. CASE Def.op = "intersect"
    BY <2>0, <2>1, <2>2, <2>4 DEF Combine, Outcomes
  <2>5. CASE Def.op = "exclusion"
    BY <2>0, <2>1, <2>2, <2>5 DEF Combine, Outcomes
  <2> QED BY <1>2, <2>2, <2>3, <2>4, <2>5
<1> HIDE DEF f, g
<1>8. f \in Frame /\ Walks(f) /\ NodeOf(f) = NodeOf(Top) /\ DefAt(f) = Def
  BY <1>1, <1>5 DEF Frame, Walks, NodeOf, DefAt
<1>9. \A k \in 1..(f.child - 1) : k = Top.child \/ k \in 1..(Top.child - 1)
  BY <1>2, <1>5
<1>10. Progress(seen, f)
  <2> SUFFICES ASSUME Reliable
               PROVE  /\ Def.op = "intersect" =>
                            \A k \in 1..(f.child - 1) : Granted(seen, f.object, Def.children[k])
                      /\ Def.op = "exclusion" /\ f.child > 1 =>
                            /\ Granted(seen, f.object, Def.children[1])
                            /\ \A k \in 2..(f.child - 1) : Spared(seen, f.object, Def.children[k].relation)
    BY <1>8 DEF Progress
  <2>1. Progress(seen, Top)
    BY <1>1 DEF On, OnPermission
  <2>2. ret = "allow" => Granted(seen, Top.object, Def.children[Top.child])
    BY <1>1 DEF JInv, Allows, Child
  <2>3. ASSUME Def.op = "intersect", NEW k \in 1..(f.child - 1)
        PROVE  Granted(seen, f.object, Def.children[k])
    BY <1>1, <1>5, <1>7, <1>9, <2>1, <2>2, <2>3 DEF Progress
  <2>4. ASSUME Def.op = "exclusion"
        PROVE  Granted(seen, f.object, Def.children[1])
    <3>1. CASE Top.child = 1
      BY <1>5, <1>7, <2>2, <2>4, <3>1
    <3>2. CASE Top.child # 1
      <4>1. Top.child > 1
        BY <1>2, <3>2
      <4> QED BY <1>1, <1>5, <2>1, <2>4, <4>1 DEF Progress
    <3> QED BY <3>1, <3>2
  <2>5. ASSUME Def.op = "exclusion", NEW k \in 2..(f.child - 1)
        PROVE  Spared(seen, f.object, Def.children[k].relation)
    <3>1. k = Top.child \/ k \in 2..(Top.child - 1)
      BY <1>2, <1>5
    <3>2. Top.child # 1 /\ Top.child > 1
      <4>1. Top.child \in Nat /\ k \in 2..Top.child
        BY <1>2, <1>5
      <4>2. \A n \in Nat : k \in 2..n => n # 1 /\ n > 1
        OBVIOUS
      <4> QED BY <4>1, <4>2
    <3>3. CASE k = Top.child
      BY <1>5, <1>7, <2>5, <3>2, <3>3, ChildSpared DEF Child
    <3>4. CASE k \in 2..(Top.child - 1)
      BY <1>1, <1>5, <2>1, <2>5, <3>2, <3>4 DEF Progress
    <3> QED BY <3>1, <3>3, <3>4
  <2> QED BY <2>3, <2>4, <2>5
<1>11. On(seen, f, g)
  BY <1>1, <1>5, <1>10 DEF On, OnPermission
<1>12. Called(seen, f, g, Tail(stack)[2])
  BY <1>1, <1>5 DEF Called
<1>13. ASSUME Untouched
       PROVE  /\ Left(seen, visited, f, g)
              /\ Searchable /\ ~Bottom(stack).gated => Undecided(stack, ret)
  <2>1. ASSUME Def.op \in {"union", "direct"}, NEW k \in 1..(f.child - 1)
        PROVE  MissedChild(seen, visited, f.object, Def.children[k])
    <3>1. MissedChild(seen, visited, Top.object, Def.children[Top.child])
      BY <1>1, <1>7, <1>13, <2>1 DEF JInv, Denies, Child
    <3>2. Left(seen, visited, Top, g)
      BY <1>1, <1>7, <1>13
    <3>3. CASE k \in 1..(Top.child - 1)
      BY <1>1, <1>5, <2>1, <3>2, <3>3 DEF Left
    <3> QED BY <1>5, <1>9, <3>1, <3>3
  <2>2. Left(seen, visited, f, g)
    BY <1>5, <1>8, <2>1 DEF Left
  <2>3. ASSUME Searchable, ~Bottom(stack).gated
        PROVE  Undecided(stack, ret)
    <3>1. Def.op # "exclusion"
      BY <1>2, <2>3 DEF Searchable, FirstGrantDecides
    <3>2. CASE Def.op \in {"union", "direct"}
      BY <1>7, <2>3, <3>2 DEF Undecided
    <3>3. CASE Def.op = "intersect"
      <4>1. Top.child < Len(Def.children)
        BY <1>2, <1>7
      <4> QED BY <1>1, <1>7, <2>3, <3>3, <4>1 DEF Undecided, Inner
    <3> QED BY <1>2, <3>1, <3>2, <3>3
  <2> QED BY <2>2, <2>3
<1>14. ret' \in {"none", "error"} /\ ret' # "error" /\ Top.kind # "check" /\ Walks(Top)
  BY DEF Walks
<1> QED BY <1>3, <1>6, <1>7, <1>8, <1>11, <1>12, <1>13, <1>14, GoOnJ DEF g

\* A permission is decided.
LEMMA DecidedJ ==
    ASSUME EInv, JInv, EInv', stack # <<>>, Top.kind = "permission", ret \in Outcomes,
           NEW o \in Outcomes, o = Combine(Def.op, Top.child, Top.child = Len(Def.children), ret),
           Return(o), visited' = visited, Local
    PROVE  JInv'
<1> DEFINE g == stack[2]
           b == Tail(stack)
           h == Tail(stack)[2]
<1>1. /\ Top \in Frame /\ OnSchema(Top) /\ Top = stack[1] /\ ChildOf(Top) = Child /\ DefAt(Top) = Def
      /\ On(seen, Top, g) /\ Called(seen, Top, g, h) /\ b[1] = g
      /\ Good(b, visited) /\ Linked(seen, b) /\ Bottom(stack) = Bottom(b)
  BY TopOfWalk, ChildHere
<1>2. /\ NodeOf(Top) \in Nodes /\ DefAt(NodeOf(Top)) = Def
      /\ Def.op \in {"direct", "union", "intersect", "exclusion"}
      /\ HasPermission(Top.object.type, Top.permission)
  BY <1>1, TopNode
<1>3. UNCHANGED <<storeVars, tc, items, answers, seen>> /\ (Untouched' => Untouched)
  BY DEF Local, Untouched
<1>4. OnPermission(seen, Top, g)
  BY <1>1 DEF On
<1>5. g.kind \in {"check", "usersets", "targets"}
  BY <1>4 DEF OnPermission
<1>6. g.kind # "check" => h \in Frame /\ OnSchema(h) /\ On(seen, g, h)
  BY <1>1, TopLinked
<1>7. o # "error" => ret # "error"
  BY DEF Combine
<1> HIDE DEF b, g, h
<1>8. Allows(seen, b, o)
  <2> SUFFICES ASSUME Reliable, o = "allow"
               PROVE  /\ g.kind \in {"usersets", "targets"} => Granted(seen, b[2].object, ChildOf(b[2]))
                      /\ g.kind = "check" =>
                            /\ GrantedWalk(seen, seen.item.object, DefAt(seen.item))
                            /\ g.gated => Meets(seen, DefAt(seen.item).condition, seen.item.object)
    BY <1>1, <1>5 DEF Allows
  <2>1. GrantedWalk(seen, Top.object, Def)
    BY WalkGranted
  <2>2. ASSUME g.kind \in {"usersets", "targets"}
        PROVE  Granted(seen, h.object, ChildOf(h))
    <3>1. h \in Frame /\ OnSchema(h) /\ On(seen, g, h)
      BY <1>6, <2>2
    <3>2. GrantedWalk(seen, Top.object, DefAt(Top))
      BY <1>1, <2>1
    <3> QED BY <1>1, <2>2, <3>1, <3>2, LoopGranted
  <2>3. ASSUME g.kind = "check"
        PROVE  ~g.gated /\ GrantedWalk(seen, seen.item.object, DefAt(seen.item))
    <3>1. ~g.gated /\ Top.object = seen.item.object /\ Top.permission = seen.item.permission
      BY <1>4, <2>3 DEF OnPermission
    <3>2. DefAt(seen.item) = Def
      BY <3>1 DEF DefAt, Def
    <3> QED BY <2>1, <3>1, <3>2
  <2> QED BY <2>2, <2>3 DEF b, h
<1>9. ASSUME Untouched, o # "error"
      PROVE  Denies(seen, visited, b, o)
  <2>1. g.kind = "check" => ~g.gated
    BY <1>4 DEF OnPermission
  <2> QED BY <1>1, <1>5, <2>1 DEF Denies
<1>10. ASSUME Untouched, o # "error", Searchable, Undecided(b, o)
       PROVE  /\ Node(seen.item.object, seen.item.permission) \in visited
              /\ \A n \in visited : Denied(seen, visited, n) \/ n \in Walked(b)
  <2>0. Def.op # "exclusion"
    BY <1>2, <1>10 DEF Searchable, FirstGrantDecides
  <2>1. CASE o = "deny"
    <3>1. ret = "deny"
      BY <1>2, <2>0, <2>1 DEF Combine, Outcomes
    <3>2. Undecided(stack, ret)
      BY <1>1, <1>10, <3>1 DEF Undecided
    <3>3. /\ Node(seen.item.object, seen.item.permission) \in visited
          /\ \A n \in visited : Denied(seen, visited, n) \/ n \in Walked(stack)
      BY <1>7, <1>10, <3>2 DEF JInv, Searched
    <3>4. Walked(stack) \subseteq Walked(b) \cup {NodeOf(Top)}
      BY TopOfWalk DEF b, Walks
    <3>5. Denied(seen, visited, NodeOf(Top))
      BY <1>10, <2>1, <3>1, WalkDenied
    <3> QED BY <3>3, <3>4, <3>5
  <2>2. CASE o = "allow"
    <3>1. g.kind \in {"usersets", "targets"} /\ Inner(h)
      BY <1>1, <1>5, <1>10, <2>2 DEF Undecided, b, h
    <3>2. h \in Frame /\ OnSchema(h) /\ On(seen, g, h)
      BY <1>6, <3>1
    <3>3. h.kind = "permission"
      BY <3>1, <3>2 DEF On, OnUsersets, OnTargets
    <3>4. /\ NodeOf(h) \in Nodes /\ DefAt(NodeOf(h)) = DefAt(h) /\ NodeOf(h).object = h.object
          /\ h.child \in 1..Len(DefAt(h).children) /\ Len(DefAt(h).children) \in Nat
      BY <3>2, <3>3, TopNode
    <3>5. DefAt(h).op = "intersect" /\ h.child \in 1..(Len(DefAt(h).children) - 1)
      BY <3>1, <3>4 DEF Inner
    <3>6. Leaf(h.object, ChildOf(h))
      BY <1>10, <3>4, <3>5 DEF Searchable, FirstGrantDecides, ChildOf
    <3>7. CASE g.kind = "usersets"
      <4>1. /\ ChildOf(h).kind = "relation"
            /\ [ref |-> Top.object, relation |-> Top.permission]
                  \in Usersets(seen.ever, h.object, ChildOf(h).relation)
        BY <1>1, <3>2, <3>7 DEF On, OnUsersets, Called
      <4>2. PICK u : u = [ref |-> Top.object, relation |-> Top.permission]
        OBVIOUS
      <4>3. u.ref = Top.object /\ u.relation = Top.permission
        BY <4>2
      <4>4. seen.ever \subseteq Universe
        BY DEF EInv, Seen
      <4>5. u \in Usersets(Universe, h.object, ChildOf(h).relation)
        <5>1. \A e, r : Usersets(seen.ever, e, r) \subseteq Usersets(Universe, e, r)
          BY <4>4, QueriesMonotone
        <5> QED BY <4>1, <4>2, <5>1
      <4> QED BY <1>2, <3>6, <4>1, <4>3, <4>5 DEF Leaf
    <3>8. CASE g.kind = "targets"
      BY <3>2, <3>6, <3>8 DEF On, OnTargets, Leaf
    <3> QED BY <3>1, <3>7, <3>8
  <2> QED BY <1>10, <2>1, <2>2 DEF Outcomes
<1>11. Untouched' /\ o # "error" =>
          /\ Untouched /\ ret # "error" /\ Denies(seen, visited, b, o)
          /\ Searchable => Searched(seen, visited, b, o)
  BY <1>3, <1>7, <1>9, <1>10 DEF Searched
<1> QED BY <1>3, <1>8, <1>11, ReturnJ DEF b

\* A branch of a permission returned.
LEMMA ChildReturnsJ ==
    ASSUME EInv, JInv, EInv', ChildReturns
    PROVE  JInv'
<1> DEFINE o == Combine(Def.op, Top.child, Top.child = Len(Def.children), ret)
           f == [Top EXCEPT !.child = @ + 1]
<1>1. /\ stack # <<>> /\ Top.kind = "permission" /\ ret \in Outcomes /\ Local /\ visited' = visited
      /\ IF o # "none" THEN Return(o)
         ELSE stack' = <<f>> \o Tail(stack) /\ ret' = "none"
  BY DEF ChildReturns, EInv, TypeOK
<1>2. CASE o = "none"
  BY <1>1, <1>2, NextChildJ
<1>3. CASE o # "none"
  <2>1. o \in Outcomes
    <3>1. ret' \in Outcomes \cup {"none"} /\ ret' = o
      BY <1>1, <1>3 DEF EInv, TypeOK, Return
    <3> HIDE DEF o
    <3> QED BY <1>3, <3>1
  <2>2. PICK r \in Outcomes : r = o
    BY <2>1
  <2>3. Return(r)
    BY <1>1, <1>3, <2>2 DEF Return
  <2> QED BY <1>1, <2>2, <2>3, DecidedJ
<1> QED BY <1>2, <1>3

-----------------------------------------------------------------------------
(* The request, and everybody else.                                         *)

\* Check begins.
LEMMA BeginCheckJ ==
    ASSUME EInv, JInv, EInv', BeginCheck
    PROVE  JInv'
<1> DEFINE i == Head(items)
           f == [kind |-> "permission", object |-> i.object, permission |-> i.permission,
                 context |-> i.context, depth |-> 0, child |-> 1]
           g == [kind |-> "check", gated |-> FALSE]
<1>1. /\ UNCHANGED <<tuples, objAttrs, subAttrs, status, faults>> /\ stack = <<>>
      /\ answers \in Seq(Outcomes)
  BY DEF BeginCheck, storeVars, EInv, TypeOK
<1>2. Untouched => Untouched'
  <2>1. seen'.statuses = {status} /\ status \in seen.statuses
    BY DEF BeginCheck, EInv
  <2> QED BY <1>1, <2>1 DEF Untouched
<1>3. \/ Answer("error")
      \/ /\ visited' = {Node(i.object, i.permission)}
         /\ stack' = <<f, g>> /\ ret' = "none" /\ UNCHANGED <<items, answers>>
  BY DEF BeginCheck, newVisitedSet
<1>4. CASE Answer("error")
  <2>1. "error" \in Outcomes
    BY DEF Outcomes
  <2>2. stack' = <<>> /\ ~Ended("allow")' /\ ~Ended("deny")'
    BY <1>1, <1>4, <2>1, AnswerEnds
  <2> QED BY <1>2, <2>2 DEF JInv
<1>5. CASE /\ visited' = {Node(i.object, i.permission)}
           /\ stack' = <<f, g>> /\ ret' = "none" /\ UNCHANGED <<items, answers>>
  <2>1. /\ seen'.ever = tuples /\ seen'.always = tuples /\ seen'.item = i
        /\ seen'.obj = [e \in Entities |-> {objAttrs[e]}]
        /\ seen'.sub = [e \in Entities |-> {subAttrs[e]}]
    BY DEF BeginCheck
  <2>2. Witnessed'
    BY <1>1, <1>5, <2>1 DEF Witnessed
  <2>3. visited' \subseteq Nodes /\ stack' \in Seq(Frame)
    BY DEF EInv, TypeOK
  <2> HIDE DEF i
  <2>4. /\ f.kind = "permission" /\ f.object = i.object /\ f.permission = i.permission
        /\ f.context = i.context /\ f.child = 1
    OBVIOUS
  <2>5. g \in CheckFrame /\ g.kind = "check" /\ ~g.gated
    BY DEF CheckFrame
  <2>6. stack' = <<f, g>>
    BY <1>5
  <2> HIDE DEF f, g
  <2>7. f \in Frame /\ g \in Frame
    <3>1. 1 \in DOMAIN stack' /\ 2 \in DOMAIN stack' /\ stack'[1] = f /\ stack'[2] = g
      BY <2>6
    <3> QED BY <2>3, <3>1
  <2>8. <<f>> \o <<g>> = <<f, g>>
    BY <2>7, PairProperties
  <2>9. /\ Linked(seen', <<g>>) /\ AllLeft(seen', visited', <<g>>) /\ Bottom(<<g>>) = g
        /\ <<g>> \in Seq(Frame) /\ <<g>> # <<>> /\ <<g>>[1] = g
    BY <2>5, BareLinked
  <2>10. On(seen', f, g) /\ Called(seen', f, g, <<g>>[2])
    <3>1. Progress(seen', f)
      BY <2>4 DEF Progress
    <3> QED BY <2>1, <2>4, <2>5, <3>1 DEF On, OnPermission, Called
  <2>11. Left(seen', visited', f, g)
    BY <2>4 DEF Left
  <2>12. Linked(seen', <<f>> \o <<g>>) /\ AllLeft(seen', visited', <<f>> \o <<g>>)
    BY <2>7, <2>9, <2>10, <2>11, LinkedCons
  <2>13. /\ Walks(f) /\ NodeOf(f) \in Nodes /\ visited' = {NodeOf(f)}
         /\ visited' = {Node(seen'.item.object, seen'.item.permission)}
    BY <1>5, <2>1, <2>3, <2>4 DEF Walks, NodeOf
  <2>14. NodeOf(f) \in Walked(<<f>> \o <<g>>)
    BY <2>7, <2>9, <2>13, WalkedCons
  <2>15. Linked(seen, stack)' /\ AllLeft(seen, visited, stack)' /\ NodeOf(f) \in Walked(stack')
    BY <2>6, <2>8, <2>12, <2>14
  <2>16. Allows(seen, stack, ret)' /\ Denies(seen, visited, stack, ret)'
    BY <1>5 DEF Allows, Denies
  <2>17. Searched(seen, visited, stack, ret)'
    BY <2>13, <2>15 DEF Searched
  <2>18. stack' # <<>>
    BY <2>6
  <2>19. ~Ended("allow")' /\ ~Ended("deny")'
    BY <2>18 DEF Ended
  <2> QED BY <1>2, <2>2, <2>15, <2>16, <2>17, <2>19 DEF JInv
<1> QED BY <1>3, <1>4, <1>5

\* The walk has returned to Check.
LEMMA EndCheckJ ==
    ASSUME EInv, JInv, EInv', EndCheck
    PROVE  JInv'
<1> DEFINE i == Head(items)
           gate == GetPermission(i.object.type, i.permission).condition
           f == ConditionFrame(gate, i.object, i.context)
           g == [kind |-> "check", gated |-> TRUE]
<1>1. /\ stack # <<>> /\ Top.kind = "check" /\ ret \in Outcomes
      /\ UNCHANGED <<tuples, objAttrs, subAttrs, status, faults>>
      /\ visited' = visited /\ seen' = seen /\ answers \in Seq(Outcomes)
  BY DEF EndCheck, EInv, TypeOK, storeVars
<1>2. Untouched' = Untouched
  BY <1>1 DEF Untouched
<1>3. \/ ~(ret = "allow" /\ gate # NoCondition /\ ~Top.gated) /\ Answer(ret)
      \/ /\ ret = "allow" /\ gate # NoCondition
         /\ stack' = <<f, g>> /\ ret' = "none" /\ UNCHANGED <<items, answers>>
  BY DEF EndCheck
<1>4. seen.item = i /\ ItemKnown(seen)
  BY <1>1, StoreSeen
<1>5. gate = DefAt(seen.item).condition
  BY <1>4 DEF DefAt
<1>6. Good(stack, visited) /\ stack \in Seq(Frame) /\ Linked(seen, stack) /\ Top = stack[1]
  BY <1>1, TopProperties DEF JInv, Good, Top
<1>7. Bottom(stack) = Top /\ Walked(stack) = {} /\ Top \in CheckFrame
  BY <1>1, <1>6, CheckLinked
<1>8. Reliable /\ ret = "allow" =>
         /\ GrantedWalk(seen, seen.item.object, DefAt(seen.item))
         /\ Top.gated => Meets(seen, DefAt(seen.item).condition, seen.item.object)
  BY <1>1, <1>6 DEF JInv, Allows
<1>9. CASE ~(ret = "allow" /\ gate # NoCondition /\ ~Top.gated) /\ Answer(ret)
  <2>1. PICK o \in Outcomes : o = ret
    BY <1>1
  <2>2. Answer(o)
    BY <1>9, <2>1 DEF Answer
  <2>3. stack' = <<>> /\ \A r : Ended(r)' => r = ret
    BY <1>1, <2>1, <2>2, AnswerEnds
  <2>4. ASSUME ret = "allow"
        PROVE  AllowedFor(seen)
    <3>1. gate = NoCondition \/ Top.gated
      BY <1>9, <2>4
    <3> QED BY <1>4, <1>5, <1>8, <2>4, <3>1 DEF AllowedFor, MayGate
  <2>5. ASSUME ret = "deny", Untouched
        PROVE  DeniedFor(seen, visited)
    <3>1. CASE Top.gated
      <4>1. GateFails(seen)
        BY <1>1, <1>6, <2>5, <3>1 DEF JInv, Denies
      <4> QED BY <1>4, <4>1 DEF DeniedFor
    <3>2. CASE ~Top.gated
      <4>1. Undecided(stack, ret)
        BY <1>7, <2>5, <3>2 DEF Undecided
      <4>2. Searchable => /\ Node(seen.item.object, seen.item.permission) \in visited
                          /\ \A n \in visited : Denied(seen, visited, n)
        BY <1>1, <1>7, <2>5, <4>1 DEF JInv, Searched
      <4> QED BY <1>4, <4>2 DEF DeniedFor
    <3> QED BY <3>1, <3>2
  <2>6. (Ended("allow")' => AllowedFor(seen)') /\ (Ended("deny")' /\ Untouched' => DeniedFor(seen, visited)')
    BY <1>1, <1>2, <2>3, <2>4, <2>5
  <2> QED BY <1>2, <2>3, <2>6 DEF JInv
<1>10. CASE /\ ret = "allow" /\ gate # NoCondition
            /\ stack' = <<f, g>> /\ ret' = "none" /\ UNCHANGED <<items, answers>>
  <2>1. Witnessed'
    BY <1>1, <1>10 DEF JInv, Witnessed
  <2> HIDE DEF i, gate
  <2>2. /\ f.kind = "condition" /\ f.object = i.object /\ f.condition = gate
        /\ f.context = i.context /\ ~f.read
    BY DEF ConditionFrame
  <2>3. g \in CheckFrame /\ g.kind = "check" /\ g.gated
    BY DEF CheckFrame
  <2>4. stack' = <<f, g>> /\ stack' \in Seq(Frame)
    BY <1>10 DEF EInv, TypeOK
  <2> HIDE DEF f, g
  <2>5. f \in Frame /\ g \in Frame
    <3>1. 1 \in DOMAIN stack' /\ 2 \in DOMAIN stack' /\ stack'[1] = f /\ stack'[2] = g
      BY <2>4
    <3> QED BY <2>4, <3>1
  <2>6. <<f>> \o <<g>> = <<f, g>>
    BY <2>5, PairProperties
  <2>7. /\ Linked(seen, <<g>>) /\ AllLeft(seen, visited, <<g>>) /\ Bottom(<<g>>) = g
        /\ <<g>> \in Seq(Frame) /\ <<g>> # <<>> /\ <<g>>[1] = g
    BY <1>5, <1>8, <1>10, <2>3, BareLinked
  <2>8. On(seen, f, g) /\ Called(seen, f, g, <<g>>[2]) /\ Left(seen, visited, f, g)
    BY <1>4, <1>5, <1>10, <2>2, <2>3 DEF On, OnCondition, Called, Left
  <2>9. Linked(seen, <<f>> \o <<g>>) /\ AllLeft(seen, visited, <<f>> \o <<g>>)
    BY <2>5, <2>7, <2>8, LinkedCons
  <2>10. Bottom(<<f>> \o <<g>>) = g
    BY <2>5, <2>7, ConsPositions
  <2>11. Linked(seen, stack)' /\ AllLeft(seen, visited, stack)' /\ Bottom(stack').gated
    BY <1>1, <2>3, <2>4, <2>6, <2>9, <2>10
  <2>12. Allows(seen, stack, ret)' /\ Denies(seen, visited, stack, ret)'
    BY <1>10 DEF Allows, Denies
  <2>13. Searched(seen, visited, stack, ret)'
    BY <2>11 DEF Searched, Undecided
  <2>14. stack' # <<>>
    BY <2>4
  <2>15. ~Ended("allow")' /\ ~Ended("deny")'
    BY <2>14 DEF Ended
  <2> QED BY <1>2, <2>1, <2>11, <2>12, <2>13, <2>15 DEF JInv
<1> QED BY <1>3, <1>9, <1>10

\* The handler responds, or a request begins.
LEMMA RequestJ ==
    ASSUME EInv, JInv, EInv', Respond \/ (\E batch \in Batches : StartRequest(batch))
    PROVE  JInv'
<1>1. UNCHANGED <<status, faults, stack, visited, ret, seen>> /\ (answers' = answers \/ answers' = <<>>)
  BY DEF Respond, StartRequest, storeVars, walkVars
<1>2. stack = <<>>
  BY DEF EInv, Asked, Respond, StartRequest
<1>3. Untouched' = Untouched /\ \A r : Ended(r)' => Ended(r)
  BY <1>1 DEF Untouched, Ended
<1> QED BY <1>1, <1>2, <1>3 DEF JInv

\* A change of the store that the history takes note of.
LEMMA ChangeJ ==
    ASSUME EInv, JInv, UNCHANGED <<faults, tc, items, answers, walkVars>>, Grows(seen, seen'),
           seen'.statuses \subseteq seen.statuses \cup NewStatuses, Untouched' => Untouched,
           Witnessed => Witnessed'
    PROVE  JInv'
<1>1. UNCHANGED <<faults, items, answers, stack, visited, ret>> /\ visited \in SUBSET Nodes
  BY DEF walkVars, EInv, TypeOK
<1>2. \A r : Ended(r)' = Ended(r)
  BY <1>1 DEF Ended
<1>3. ASSUME stack # <<>>
      PROVE  /\ Witnessed' /\ Linked(seen', stack) /\ Allows(seen', stack, ret)
             /\ Untouched /\ ret # "error" =>
                   /\ AllLeft(seen', visited, stack) /\ Denies(seen', visited, stack, ret)
                   /\ Searchable => Searched(seen', visited, stack, ret)
  <2>1. Good(stack, visited) /\ stack \in Seq(Frame) /\ Linked(seen, stack)
    BY <1>3, TopProperties DEF JInv, Good
  <2>2. seen.item.object \in Entities
    BY <1>3, StoreSeen DEF Item
  <2>3. Linked(seen', stack) /\ (AllLeft(seen, visited, stack) => AllLeft(seen', visited, stack))
    BY <2>1, <2>2, StackGrows
  <2>4. /\ Allows(seen, stack, ret) => Allows(seen', stack, ret)
        /\ Denies(seen, visited, stack, ret) => Denies(seen', visited, stack, ret)
        /\ Searched(seen, visited, stack, ret) => Searched(seen', visited, stack, ret)
    BY <1>1, <2>1, <2>2, ResultGrows
  <2> QED BY <1>3, <2>3, <2>4 DEF JInv
<1>4. (Ended("allow") => AllowedFor(seen')) /\ (Ended("deny") /\ Untouched => DeniedFor(seen', visited))
  BY <1>1, OutcomeGrows DEF JInv
<1>5. ASSUME Reliable, NEW n \in Nodes, DefAt(n).op = "exclusion"
      PROVE  Untouched'
  <2>1. Untouched /\ "deleted" \notin NewStatuses
    BY <1>5 DEF JInv, Reliable, ExclusionsArePlain
  <2> QED BY <1>1, <2>1 DEF Untouched
<1>6. stack' # <<>> =>
         /\ Witnessed' /\ Linked(seen, stack)' /\ Allows(seen, stack, ret)'
         /\ Untouched' /\ ret' # "error" =>
               /\ AllLeft(seen, visited, stack)' /\ Denies(seen, visited, stack, ret)'
               /\ Searchable => Searched(seen, visited, stack, ret)'
  BY <1>1, <1>3
<1>7. (Ended("allow")' => AllowedFor(seen)') /\ (Ended("deny")' /\ Untouched' => DeniedFor(seen, visited)')
  BY <1>1, <1>2, <1>4
<1> QED BY <1>5, <1>6, <1>7 DEF JInv

\* Writers, deadlines and operators.
LEMMA EnvironmentJ ==
    ASSUME EInv, JInv, EInv', Environment
    PROVE  JInv'
<1>1. UNCHANGED <<faults, tc, items, answers, walkVars>>
  BY DEF Environment, WriteTuple, WithdrawTuple, SetObjectAttributes, SetSubjectAttributes,
         SetStatus, Change
<1>2. /\ seen \in Seen /\ seen.obj \in [Entities -> SUBSET (Attrs \cup {NoAttrs})]
      /\ seen.sub \in [Entities -> SUBSET (Attrs \cup {NoAttrs})]
      /\ objAttrs \in [Entities -> Attrs \cup {NoAttrs}]
      /\ subAttrs \in [Entities -> Attrs \cup {NoAttrs}]
  BY DEF EInv, TypeOK, Seen
<1>3. ASSUME NEW x \in Universe, WriteTuple(x)
      PROVE  JInv'
  <2>1. /\ tuples' = tuples \cup {x} /\ seen' = [seen EXCEPT !.ever = @ \cup {x}]
        /\ UNCHANGED <<objAttrs, subAttrs, status, had>>
    BY <1>3 DEF WriteTuple
  <2>2. /\ seen'.ever = seen.ever \cup {x} /\ seen'.always = seen.always /\ seen'.obj = seen.obj
        /\ seen'.sub = seen.sub /\ seen'.item = seen.item /\ seen'.statuses = seen.statuses
    BY <1>2, <2>1 DEF Seen
  <2>3. Grows(seen, seen')
    BY <2>2 DEF Grows
  <2>4. Witnessed => Witnessed'
    BY <1>1, <2>1, <2>2 DEF Witnessed
  <2>5. Untouched' => Untouched
    BY <1>1, <2>2 DEF Untouched
  <2> QED BY <1>1, <2>2, <2>3, <2>4, <2>5, ChangeJ
<1>4. ASSUME NEW x \in Universe, WithdrawTuple(x)
      PROVE  JInv'
  <2>1. /\ tuples' = tuples \ {x} /\ seen' = [seen EXCEPT !.always = @ \ {x}]
        /\ UNCHANGED <<objAttrs, subAttrs, status, had>>
    BY <1>4 DEF WithdrawTuple
  <2>2. /\ seen'.ever = seen.ever /\ seen'.always = seen.always \ {x} /\ seen'.obj = seen.obj
        /\ seen'.sub = seen.sub /\ seen'.item = seen.item /\ seen'.statuses = seen.statuses
    BY <1>2, <2>1 DEF Seen
  <2>3. Grows(seen, seen')
    BY <2>2 DEF Grows
  <2>4. Witnessed => Witnessed'
    BY <1>1, <2>1, <2>2 DEF Witnessed
  <2>5. Untouched' => Untouched
    BY <1>1, <2>2 DEF Untouched
  <2> QED BY <1>1, <2>2, <2>3, <2>4, <2>5, ChangeJ
<1>5. ASSUME NEW e \in Entities, NEW a \in Attrs, SetObjectAttributes(e, a)
      PROVE  JInv'
  <2>1. /\ objAttrs' = [objAttrs EXCEPT ![e] = a] /\ seen' = [seen EXCEPT !.obj[e] = @ \cup {a}]
        /\ UNCHANGED <<tuples, subAttrs, status, had>>
    BY <1>5 DEF SetObjectAttributes
  <2>2. /\ seen'.ever = seen.ever /\ seen'.always = seen.always
        /\ seen'.obj = [seen.obj EXCEPT ![e] = @ \cup {a}]
        /\ seen'.sub = seen.sub /\ seen'.item = seen.item /\ seen'.statuses = seen.statuses
    BY <1>2, <2>1 DEF Seen
  <2>3. \A d \in Entities : /\ seen.obj[d] \subseteq seen'.obj[d]
                            /\ objAttrs[d] \in seen.obj[d] => objAttrs'[d] \in seen'.obj[d]
    BY <1>2, <2>1, <2>2
  <2>4. Grows(seen, seen')
    BY <2>2, <2>3 DEF Grows
  <2>5. Witnessed => Witnessed'
    BY <1>1, <2>1, <2>2, <2>3 DEF Witnessed
  <2>6. Untouched' => Untouched
    BY <1>1, <2>2 DEF Untouched
  <2> QED BY <1>1, <2>2, <2>4, <2>5, <2>6, ChangeJ
<1>6. ASSUME NEW e \in Entities, NEW a \in Attrs, SetSubjectAttributes(e, a)
      PROVE  JInv'
  <2>1. /\ subAttrs' = [subAttrs EXCEPT ![e] = a] /\ seen' = [seen EXCEPT !.sub[e] = @ \cup {a}]
        /\ UNCHANGED <<tuples, objAttrs, status, had>>
    BY <1>6 DEF SetSubjectAttributes
  <2>2. /\ seen'.ever = seen.ever /\ seen'.always = seen.always
        /\ seen'.sub = [seen.sub EXCEPT ![e] = @ \cup {a}]
        /\ seen'.obj = seen.obj /\ seen'.item = seen.item /\ seen'.statuses = seen.statuses
    BY <1>2, <2>1 DEF Seen
  <2>3. \A d \in Entities : /\ seen.sub[d] \subseteq seen'.sub[d]
                            /\ subAttrs[d] \in seen.sub[d] => subAttrs'[d] \in seen'.sub[d]
    BY <1>2, <2>1, <2>2
  <2>4. Grows(seen, seen')
    BY <2>2, <2>3 DEF Grows
  <2>5. Witnessed => Witnessed'
    BY <1>1, <2>1, <2>2, <2>3 DEF Witnessed
  <2>6. Untouched' => Untouched
    BY <1>1, <2>2 DEF Untouched
  <2> QED BY <1>1, <2>2, <2>4, <2>5, <2>6, ChangeJ
<1>7. ASSUME NEW s \in NewStatuses, SetStatus(s)
      PROVE  JInv'
  <2>1. /\ seen' = [seen EXCEPT !.statuses = @ \cup {s}]
        /\ UNCHANGED <<tuples, objAttrs, subAttrs>>
    BY <1>7 DEF SetStatus
  <2>2. /\ seen'.ever = seen.ever /\ seen'.always = seen.always /\ seen'.obj = seen.obj
        /\ seen'.sub = seen.sub /\ seen'.item = seen.item
        /\ seen'.statuses = seen.statuses \cup {s}
    BY <1>2, <2>1 DEF Seen
  <2>3. Grows(seen, seen')
    BY <2>2 DEF Grows
  <2>4. Witnessed => Witnessed'
    BY <1>1, <2>1, <2>2 DEF Witnessed
  <2>5. Untouched' => Untouched
    BY <1>1, <2>2 DEF Untouched
  <2> QED BY <1>1, <2>2, <2>3, <2>4, <2>5, ChangeJ
<1> QED BY <1>3, <1>4, <1>5, <1>6, <1>7 DEF Environment

-----------------------------------------------------------------------------
(* The invariant holds, and what it implies.                                *)

\* Initially nothing is checked.
LEMMA JInvInit ==
    ASSUME Init
    PROVE  JInv
<1>1. stack = <<>> /\ answers = <<>> /\ faults = 0 /\ "deleted" \notin seen.statuses
  BY DEF Init
<1> QED BY <1>1 DEF JInv, Ended, Untouched

\* Every step keeps the invariant.
LEMMA JInvNext ==
    ASSUME EInv, JInv, [Next]_vars
    PROVE  JInv'
<1>0. EInv'
  BY EInvNext
<1>1. CASE UNCHANGED vars
  <2>1. UNCHANGED <<storeVars, faults, tc, items, answers, walkVars, seen>>
    BY <1>1 DEF vars
  <2>2. UNCHANGED <<tuples, objAttrs, subAttrs, status, faults, items>>
    BY <2>1 DEF storeVars
  <2>3. Grows(seen, seen') /\ (Witnessed => Witnessed') /\ (Untouched' => Untouched)
    BY <2>1, <2>2 DEF Grows, Witnessed, Untouched
  <2> QED BY <2>1, <2>2, <2>3, ChangeJ
<1>2. CASE \E batch \in Batches : StartRequest(batch)
  BY <1>0, <1>2, RequestJ
<1>3. CASE Environment
  BY <1>0, <1>3, EnvironmentJ
<1>4. CASE Loop
  <2>1. CASE \E u : WalkUserset(u)
    BY <1>0, <2>1, WalkUsersetJ
  <2>2. CASE \E u : \E ok \in BOOLEAN : CheckUserset(u, ok)
    BY <1>0, <2>2, CheckUsersetJ
  <2>3. CASE \E o : WalkTarget(o)
    BY <1>0, <2>3, WalkTargetJ
  <2>4. CASE LoopReturns \/ LoopEnds
    BY <1>0, <2>4, LoopReturnsJ, LoopEndsJ
  <2> QED BY <1>4, <2>1, <2>2, <2>3, <2>4 DEF Loop
<1>5. CASE Handler
  <2>1. CASE BeginCheck \/ EndCheck \/ Respond
    BY <1>0, <2>1, BeginCheckJ, EndCheckJ, RequestJ
  <2>2. CASE ChildReturns \/ WalkCondition
    BY <1>0, <2>2, ChildReturnsJ, WalkConditionJ
  <2>3. CASE \E ok \in BOOLEAN : WalkDirect(ok) \/ ListUsersets(ok) \/ WalkArrow(ok)
    BY <1>0, <2>3, WalkDirectJ, ListUsersetsJ, WalkArrowJ
  <2>4. CASE \E ok \in BOOLEAN : GetObjectAttributes(ok) \/ GetSubjectAttributes(ok)
    BY <1>0, <2>4, GetObjectAttributesJ, GetSubjectAttributesJ
  <2> QED BY <1>4, <1>5, <2>1, <2>2, <2>3, <2>4 DEF Handler
<1> QED BY <1>1, <1>2, <1>3, <1>5 DEF Next

\* The invariant of the walks.
LEMMA WalkInvariant == Spec => []JInv
<1>1. Init => JInv
  BY JInvInit
<1>2. EInv /\ JInv /\ [Next]_vars => JInv'
  BY JInvNext
<1> QED BY <1>1, <1>2, EngineInvariant, PTL DEF Spec

\* A check allows only what the documented meaning grants with the tuples and
\* attributes of its duration, for every schema, every set of tuples, all
\* interleavings of writes and all failing reads, if no condition gates an
\* inner permission, only plain relations are subtracted (and no read fails
\* where one is), and no condition is helped by what is absent.
THEOREM AllowsAreJustified ==
    ASSUME Reliable
    PROVE  Spec => []AllowIsJustified
<1>1. ASSUME EInv, JInv
      PROVE  AllowIsJustified
  <2> SUFFICES ASSUME Ended("allow")
               PROVE  Meaning[<<"may", seen.item.object, seen.item.permission>>]
    BY DEF AllowIsJustified
  <2>1. AllowedFor(seen) /\ seen \in Seen
    BY <1>1 DEF JInv, EInv
  <2>2. /\ seen.item.object \in Entities
        /\ HasPermission(seen.item.object.type, seen.item.permission)
        /\ DefAt(seen.item) = GetPermission(seen.item.object.type, seen.item.permission)
    BY <2>1 DEF AllowedFor, ItemKnown, Item, DefAt
  <2>3. /\ GrantedWalk(seen, seen.item.object, DefAt(seen.item))
        /\ MayGate(seen, seen.item.object, DefAt(seen.item))
    BY <2>1 DEF AllowedFor
  <2>4. ExclusionsArePlain
    BY DEF Reliable
  <2> QED BY <2>1, <2>2, <2>3, <2>4, GrantedIsMeant
<1> QED BY <1>1, EngineInvariant, WalkInvariant, PTL

\* A check that denies, with no read that failed, missed nothing that the
\* documented meaning grants with the tuples and attributes that were there
\* all along: whatever is written meanwhile, skipping visited nodes loses no
\* path, if the first grant decides the check, no permission is named in
\* another of its type, groups are flat and no condition is helped by the
\* request context alone.
THEOREM DeniesAreJustified ==
    ASSUME Searchable
    PROVE  Spec => []DenyIsJustified
<1>1. ASSUME EInv, JInv
      PROVE  DenyIsJustified
  <2> SUFFICES ASSUME Ended("deny"), Untouched
               PROVE  ~Meaning[<<"must", seen.item.object, seen.item.permission>>]
    BY DEF DenyIsJustified, Untouched
  <2>1. DeniedFor(seen, visited) /\ seen \in Seen /\ visited \in SUBSET Nodes
    BY <1>1 DEF JInv, EInv, TypeOK
  <2>2. /\ seen.item \in Item /\ seen.item.object \in Entities
        /\ HasPermission(seen.item.object.type, seen.item.permission)
    BY <2>1 DEF DeniedFor, ItemKnown, Item
  <2>3. CASE GateFails(seen)
    BY <2>2, <2>3, GateIsMeant
  <2>4. CASE /\ Node(seen.item.object, seen.item.permission) \in visited
             /\ \A n \in visited : Denied(seen, visited, n)
    <3>1. \A n \in visited : ~Meaning[<<"must", n.object, n.permission>>]
      BY <2>1, <2>2, <2>4, DeniedIsMeant
    <3>2. /\ Node(seen.item.object, seen.item.permission).object = seen.item.object
          /\ Node(seen.item.object, seen.item.permission).permission = seen.item.permission
      BY DEF Node
    <3> QED BY <2>4, <3>1, <3>2
  <2> QED BY <2>1, <2>3, <2>4 DEF DeniedFor
<1> QED BY <1>1, EngineInvariant, WalkInvariant, PTL
=============================================================================
