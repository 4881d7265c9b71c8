----------------------------- MODULE SchemaText -----------------------------
(***************************************************************************)
(* How the console reads a schema.  The service parses YAML; the console   *)
(* has four line scanners of its own, for the evaluator, the graph, the    *)
(* tuple dialog and the visual view.  Here a document is written line by   *)
(* line in the layout of the documentation, meaning is what it declares,   *)
(* and the scanners are compared with it after every line.                 *)
(*                                                                         *)
(* A line is its indentation, the text before the colon, what follows it   *)
(* (tail), the entries of an inline list or of a list item, and whether a  *)
(* comment follows on the same line (note).  Such a comment has no comma,  *)
(* bracket or quote and does not end with a colon.                         *)
(***************************************************************************)
EXTENDS Integers, SequencesExt

CONSTANTS
    TypeNames, AttributeNames, RelationNames, PermissionNames,
    TargetLists,    \* the lists a relation may have as its types
    None,           \* no section, relation, permission or type
    Garbled,        \* a name that runs into something else
    MaxLines,       \* bound on the length of a document
    MaxComments     \* bound on the comments in it

ASSUME TextAssumption ==
    /\ "#" \notin TypeNames \cup RelationNames \cup PermissionNames \cup {None}
    /\ None \notin TypeNames \cup RelationNames \cup PermissionNames
    /\ None \notin {"attributes", "relations", "permissions"}
    /\ \A targets \in TargetLists :
          /\ targets \in Seq(Range(targets))
          /\ \A i \in DOMAIN targets : "type" \in DOMAIN targets[i] /\ targets[i].type # None
    /\ Garbled \notin TypeNames \cup {None}
    /\ MaxLines \in Nat /\ MaxComments \in Nat

Sections == {"attributes", "relations", "permissions"}

\* A comment has the key "#"; it can end with a colon as well.
Line(indent, key, tail, items, note) ==
    [indent |-> indent, key |-> key, tail |-> tail, items |-> items, note |-> note]

\* Ends with a colon.
Opens(l) == l.tail = "open" /\ ~l.note

IsComment(l) == l.key = "#"

\* A target is a type or type#relation, perhaps in quotes.
stripQuotes(target) == [target EXCEPT !.quoted = FALSE]

\* A target with a comment behind it: the part before the first # is its
\* type, and only that of a target without a relation has changed.
Noted(target) ==
    IF target.relation = None THEN [target EXCEPT !.type = Garbled]
    ELSE [target EXCEPT !.relation = Garbled]

\* A comment, and an inline list with a comment behind it, read as a target.
CommentText == [type |-> None, relation |-> Garbled, quoted |-> FALSE]
ListText    == [type |-> Garbled, relation |-> Garbled, quoted |-> FALSE]

\* What follows "types:", as a list: text that does not end with a bracket
\* is a single value.
parseInlineList(l) ==
    IF l.note THEN <<IF l.tail = "open" THEN CommentText ELSE ListText>>
    ELSE [i \in DOMAIN l.items |-> stripQuotes(l.items[i])]

\* A list item: the text behind the dash.
parseItem(l) ==
    [i \in DOMAIN l.items |-> stripQuotes(IF l.note THEN Noted(l.items[i]) ELSE l.items[i])]

-----------------------------------------------------------------------------
(* The scanners of the graph, the dialog and the evaluator.  types has the *)
(* types found so far.  depth is how many of inTypesSection, currentType,  *)
(* currentSection, currentRelation and collectingTypesList are set: each   *)
(* of them is only set below the ones before it and reset with them.       *)

InTypes   == 1
InType    == 2
InSection == 3
InMember  == 4
InList    == 5

Start == [types |-> <<>>, depth |-> 0]

At(st, depth) == [st EXCEPT !.depth = depth]

\* The last type, or its last member, is the one that is being read.
SetLast(s, x) == [s EXCEPT ![Len(s)] = x]
AddMember(types, m) == SetLast(types, [Last(types) EXCEPT !.members = Append(@, m)])
AddTo(members, targets) ==
    SetLast(members, [Last(members) EXCEPT !.targets = @ \o targets])
AddTargetsTo(types, targets) ==
    SetLast(types, [Last(types) EXCEPT !.members = AddTo(@, targets)])

PushType(st, name) ==
    [types |-> Append(st.types, [name |-> name, members |-> <<>>]), depth |-> InType]

PushMember(st, name) ==
    [types |-> AddMember(st.types, [name |-> name, targets |-> <<>>]), depth |-> InMember]

PushTargets(st, targets) == [st EXCEPT !.types = AddTargetsTo(@, targets)]

\* A mutant of RelationLine: list items have to be indented further.
RelationLine_DeeperItems(st, l) ==
    CASE l.indent = 6 /\ Opens(l) -> PushMember(st, l.key)
      [] l.indent = 8 /\ st.depth >= InMember /\ l.key = "types" ->
            IF Opens(l) THEN At(st, InList)
            ELSE PushTargets(At(st, InMember), parseInlineList(l))
      [] l.indent > 10 /\ st.depth = InList /\ l.tail = "item" ->
            PushTargets(st, parseItem(l))
      [] OTHER -> IF st.depth >= InMember /\ l.indent <= 8 THEN At(st, InMember) ELSE st

\* A line of a relations section: a relation, its inline list of types, or
\* an item of the list below "types:".
RelationLine(st, l) ==
    CASE l.indent = 6 /\ Opens(l) -> PushMember(st, l.key)
      [] l.indent = 8 /\ st.depth >= InMember /\ l.key = "types" ->
            IF Opens(l) THEN At(st, InList)
            ELSE PushTargets(At(st, InMember), parseInlineList(l))
      [] l.indent >= 10 /\ st.depth = InList /\ l.tail = "item" ->
            PushTargets(st, parseItem(l))
      [] OTHER -> IF st.depth >= InMember /\ l.indent <= 8 THEN At(st, InMember) ELSE st

\* A line of a permissions section.
PermissionLine(st, l) ==
    IF l.indent = 6 /\ Opens(l) THEN PushMember(st, l.key) ELSE st

\* The evaluator reads permissions, the others relations.
SectionLine(st, l, section) ==
    IF section = "relations" THEN RelationLine(st, l) ELSE PermissionLine(st, l)

\* A mutant of Scan: the section goes on when the next type begins.
Scan_KeepsSection(st, l, section) ==
    CASE l.indent = 0 -> At(st, IF l.key = "types" /\ Opens(l) THEN InTypes ELSE 0)
      [] l.indent = 2 /\ st.depth >= InTypes /\ Opens(l) ->
            At(PushType(st, l.key), IF st.depth >= InSection THEN InSection ELSE InType)
      [] l.indent = 4 /\ st.depth >= InType /\ Opens(l) ->
            At(st, IF l.key = section \/ st.depth >= InSection THEN InSection ELSE InType)
      [] OTHER -> IF st.depth >= InSection THEN SectionLine(st, l, section) ELSE st

\* What the scanners have in common: the top level, types and sections.
Scan(st, l, section) ==
    CASE l.indent = 0 -> At(st, IF l.key = "types" /\ Opens(l) THEN InTypes ELSE 0)
      [] l.indent = 2 /\ st.depth >= InTypes /\ Opens(l) -> PushType(st, l.key)
      [] l.indent = 4 /\ st.depth >= InType /\ Opens(l) ->
            At(st, IF l.key = section THEN InSection ELSE InType)
      [] OTHER -> IF st.depth >= InSection THEN SectionLine(st, l, section) ELSE st

\* Comments are skipped.
ScanLine(st, l, section) == IF IsComment(l) THEN st ELSE Scan(st, l, section)

ScanState(text, section) ==
    LET st[n \in 0..Len(text)] ==
            IF n = 0 THEN Start ELSE ScanLine(st[n - 1], text[n], section)
    IN  st[Len(text)]

Scanned(text, section) == ScanState(text, section).types

\* The evaluator: types and their permissions.
parseSchemaTypeInfos(text) == Scanned(text, "permissions")

\* The tuple dialog: types and their relations.
parseSchemaTypes(text) == Scanned(text, "relations")

\* The graph: the same in a map, where a later type replaces an earlier one
\* of its name.
SetType(found, t) ==
    IF \E i \in DOMAIN found : found[i].name = t.name
    THEN [i \in DOMAIN found |-> IF found[i].name = t.name THEN t ELSE found[i]]
    ELSE Append(found, t)

ByName(types) ==
    LET found[n \in 0..Len(types)] == IF n = 0 THEN <<>> ELSE SetType(found[n - 1], types[n])
    IN  found[Len(types)]

parseTypes(text) == ByName(Scanned(text, "relations"))

-----------------------------------------------------------------------------
(* The graph: a node for every type and every target, one edge per pair of *)
(* types, labelled with the relations.                                     *)

Named(types, name) == {i \in DOMAIN types : types[i].name = name}

\* A mutant of AddNode: a target is a node of its own.
AddNode_Again(g, types, name) ==
    LET i == Named(types, name)
    IN  [g EXCEPT !.nodes = Append(@,
            [name |-> name, isExternal |-> i = {},
             relCount |-> IF i = {} THEN 0 ELSE Len(types[CHOOSE k \in i : TRUE].members)])]

AddNode(g, types, name) ==
    LET i == Named(types, name)
    IN  IF Named(g.nodes, name) # {} THEN g
        ELSE [g EXCEPT !.nodes = Append(@,
                [name |-> name, isExternal |-> i = {},
                 relCount |-> IF i = {} THEN 0 ELSE Len(types[CHOOSE k \in i : TRUE].members)])]

AddEdge(g, source, target, relation) ==
    LET i == {e \in DOMAIN g.edges : g.edges[e].source = source /\ g.edges[e].target = target}
    IN  IF i = {}
        THEN [g EXCEPT !.edges = Append(@, [source |-> source, target |-> target,
                                            relations |-> <<relation>>])]
        ELSE [g EXCEPT !.edges[CHOOSE e \in i : TRUE].relations = Append(@, relation)]

\* The edge of one target, if it has a type.
AddTarget(g, types, t, r, target) ==
    IF target.type = None THEN g
    ELSE AddEdge(AddNode(g, types, target.type), t.name, target.type, r.name)

\* The edges of a relation r of type t, and of all relations of t.
AddTargets(g, types, t, r) ==
    LET h[n \in 0..Len(r.targets)] ==
            IF n = 0 THEN g ELSE AddTarget(h[n - 1], types, t, r, r.targets[n])
    IN  h[Len(r.targets)]

AddType(g, types, t) ==
    LET h[n \in 0..Len(t.members)] ==
            IF n = 0 THEN AddNode(g, types, t.name)
            ELSE AddTargets(h[n - 1], types, t, t.members[n])
    IN  h[Len(t.members)]

EmptyGraph == [nodes |-> <<>>, edges |-> <<>>]

GraphOf(types) ==
    LET h[n \in 0..Len(types)] ==
            IF n = 0 THEN EmptyGraph ELSE AddType(h[n - 1], types, types[n])
    IN  h[Len(types)]

buildGraph(text) == GraphOf(parseTypes(text))

-----------------------------------------------------------------------------
(* The visual view scans the lines in its own way: any line with the       *)
(* indentation of a type is one, comments included, and a permission is    *)
(* shown when the next one of the same section begins.                     *)

NoMap == [x \in {} |-> {}]
Put(map, key, value) == [x \in DOMAIN map \cup {key} |-> IF x = key THEN value ELSE map[x]]

NewCard(name) == [name |-> name, attributes |-> {}, relations |-> NoMap, permissions |-> NoMap]

\* A mutant of Flush: a permission of one line is not kept.
Flush_LongBodies(st) ==
    IF st.permission = None \/ Len(st.body) < 2 THEN st
    ELSE [st EXCEPT !.card.permissions = Put(@, st.permission, st.body)]

\* The permission that was collected becomes part of the current card.
Flush(st) ==
    IF st.permission = None \/ st.body = <<>> THEN st
    ELSE [st EXCEPT !.card.permissions = Put(@, st.permission, st.body)]

\* A line of a section: an attribute, a relation or a permission.
MemberLine(st, l) ==
    CASE st.section = "attributes" /\ l.tail \in {"open", "value"} ->
            [st EXCEPT !.card.attributes = @ \cup {l.key}]
      [] st.section = "relations" /\ Opens(l) ->
            [st EXCEPT !.relation = l.key, !.card.relations = Put(@, l.key, <<>>)]
      [] st.section = "permissions" /\ Opens(l) ->
            [Flush(st) EXCEPT !.permission = l.key, !.body = <<>>]
      [] OTHER -> st

\* The text behind "types:" without brackets, cut at the commas.
Entries(l) ==
    IF ~l.note THEN l.items
    ELSE IF l.items = <<>> THEN <<CommentText>>
    ELSE SetLast(l.items, Noted(Last(l.items)))

\* A line below a member.
BodyLine(st, l) ==
    CASE st.section = "relations" /\ st.relation # None /\ l.key = "types" ->
            [st EXCEPT !.card.relations = Put(@, st.relation, Entries(l))]
      [] st.section = "permissions" /\ st.permission # None ->
            [st EXCEPT !.body = Append(@, l)]
      [] OTHER -> st

Cards(st) == IF st.card.name = None THEN st.types ELSE Append(st.types, st.card)

View(st, l) ==
    CASE l.indent = 2 /\ Opens(l) ->
            [st EXCEPT !.types = Cards(st), !.card = NewCard(l.key), !.section = None]
      [] l.indent = 4 /\ Opens(l) ->
            IF l.key \in Sections
            THEN [st EXCEPT !.section = l.key, !.relation = None, !.permission = None]
            ELSE st
      [] l.indent = 6 /\ st.card.name # None /\ st.section # None -> MemberLine(st, l)
      [] l.indent = 8 /\ st.card.name # None -> BodyLine(st, l)
      [] l.indent = 10 /\ st.section = "permissions" -> [st EXCEPT !.body = Append(@, l)]
      [] OTHER -> st

ViewStart == [types |-> <<>>, card |-> NewCard(None), section |-> None, relation |-> None,
              permission |-> None, body |-> <<>>]

ViewState(text) ==
    LET st[n \in 0..Len(text)] == IF n = 0 THEN ViewStart ELSE View(st[n - 1], text[n])
    IN  st[Len(text)]

parseYamlSimple(text) ==
    LET end == ViewState(text) IN IF end.card.name = None THEN end.types ELSE Cards(Flush(end))

-----------------------------------------------------------------------------
(* Documents.                                                              *)

VARIABLES
    doc,        \* the lines
    meaning,    \* the types with members that they declare
    empty,      \* the types without
    place       \* the section of the document the last line is in

vars == <<doc, meaning, empty, place>>

Commented(lines) == {i \in DOMAIN lines : IsComment(lines[i]) \/ lines[i].note}

Write(lines) ==
    /\ Len(doc) + Len(lines) <= MaxLines
    /\ Cardinality(Commented(doc)) + Cardinality(Commented(lines)) <= MaxComments
    /\ doc' = doc \o lines

Here == Len(meaning)        \* the type that is being written

\* note, or notes, says which of the lines have a comment behind them.
WriteVersion(note) ==
    /\ ~\E i \in DOMAIN doc : doc[i].key = "version"
    /\ Write(<<Line(0, "version", "value", <<>>, note)>>)
    /\ place' = "top"
    /\ UNCHANGED <<meaning, empty>>

StartTypes(note) ==
    /\ ~\E i \in DOMAIN doc : doc[i].key = "types" /\ doc[i].indent = 0
    /\ Write(<<Line(0, "types", "open", <<>>, note)>>)
    /\ place' = "types"
    /\ UNCHANGED <<meaning, empty>>

\* A type without members has an empty body {}.
WriteType(name, bare, note) ==
    /\ place # "top"
    /\ Named(meaning, name) = {} /\ name \notin empty
    /\ Write(<<Line(2, name, IF bare THEN "empty" ELSE "open", <<>>, note)>>)
    /\ IF bare
       THEN empty' = empty \cup {name} /\ place' = "types" /\ UNCHANGED meaning
       ELSE /\ meaning' = Append(meaning, [name |-> name, sections |-> {}, latest |-> None,
                                           relations |-> <<>>, permissions |-> <<>>])
            /\ place' = "type"
            /\ UNCHANGED empty

WriteSection(section, note) ==
    /\ place \in {"type"} \cup Sections
    /\ section \notin meaning[Here].sections
    /\ Write(<<Line(4, section, "open", <<>>, note)>>)
    /\ meaning' = [meaning EXCEPT ![Here].sections = @ \cup {section}, ![Here].latest = section]
    /\ place' = section
    /\ UNCHANGED empty

WriteAttribute(name, note) ==
    /\ place = "attributes"
    /\ Write(<<Line(6, name, "value", <<>>, note)>>)
    /\ UNCHANGED <<meaning, empty, place>>

\* The types of a relation, as an inline list or one below the other.
WriteRelation(name, targets, inline, notes) ==
    /\ place = "relations"
    /\ Named(meaning[Here].relations, name) = {}
    /\ Write(<<Line(6, name, "open", <<>>, 1 \in notes)>> \o
             IF inline THEN <<Line(8, "types", "list", targets, 2 \in notes)>>
             ELSE <<Line(8, "types", "open", <<>>, 2 \in notes)>> \o
                  [i \in DOMAIN targets |-> Line(10, None, "item", <<targets[i]>>, i + 2 \in notes)])
    /\ meaning' = [meaning EXCEPT ![Here].relations =
                      Append(@, [name |-> name, targets |-> targets, inline |-> inline, notes |-> notes])]
    /\ UNCHANGED <<empty, place>>

WritePermission(name, union, notes) ==
    /\ place = "permissions"
    /\ ~\E i \in DOMAIN meaning[Here].permissions : meaning[Here].permissions[i] = name
    /\ Write(<<Line(6, name, "open", <<>>, 1 \in notes)>> \o
             IF union THEN <<Line(8, "union", "open", <<>>, 2 \in notes),
                             Line(10, None, "item", <<>>, 3 \in notes)>>
             ELSE <<Line(8, "resolve", "value", <<>>, 2 \in notes)>>)
    /\ meaning' = [meaning EXCEPT ![Here].permissions = Append(@, name)]
    /\ UNCHANGED <<empty, place>>

\* A comment between two lines, in the indentation of a type or a member.
WriteComment(indent, tail) ==
    /\ Write(<<Line(indent, "#", tail, <<>>, FALSE)>>)
    /\ UNCHANGED <<meaning, empty, place>>

Init == doc = <<>> /\ meaning = <<>> /\ empty = {} /\ place = "top"

Next ==
    \/ \E note \in BOOLEAN : WriteVersion(note) \/ StartTypes(note)
    \/ \E name \in TypeNames, bare, note \in BOOLEAN : WriteType(name, bare, note)
    \/ \E section \in Sections, note \in BOOLEAN : WriteSection(section, note)
    \/ \E name \in AttributeNames, note \in BOOLEAN : WriteAttribute(name, note)
    \/ \E name \in RelationNames, targets \in TargetLists, inline \in BOOLEAN :
          \E notes \in SUBSET (1..(IF inline THEN 2 ELSE 2 + Len(targets))) :
              WriteRelation(name, targets, inline, notes)
    \/ \E name \in PermissionNames, union \in BOOLEAN :
          \E notes \in SUBSET (1..(IF union THEN 3 ELSE 2)) : WritePermission(name, union, notes)
    \/ \E indent \in {2, 6}, tail \in {"open", "comment"} : WriteComment(indent, tail)

Spec == Init /\ [][Next]_vars

-----------------------------------------------------------------------------
(* Properties.  They are about the types with members: a type with the     *)
(* empty body {} is not seen by any scanner.  And they are about documents *)
(* without a comment behind a line that ends with a colon otherwise, such  *)
(* as "permissions:   # optional": all four miss a type, section, relation *)
(* or permission that begins on such a line.                               *)

OpeningsAreBare == \A i \in DOMAIN doc : doc[i].tail = "open" => ~doc[i].note

\* The subject types of a relation as the dialog and the graph find them: the
\* ones that it declares, but for those with a comment behind them.  A comment
\* behind an inline list makes one text out of all of them.
FoundTargets(r) ==
    IF r.inline /\ 2 \in r.notes THEN <<ListText>>
    ELSE [i \in DOMAIN r.targets |->
             stripQuotes(IF ~r.inline /\ i + 2 \in r.notes THEN Noted(r.targets[i]) ELSE r.targets[i])]

\* The inline list of a relation as the view shows it: a list below "types:"
\* is not shown, and a comment runs into the last entry.
Shown(r) ==
    IF ~r.inline THEN <<>>
    ELSE IF 2 \in r.notes /\ r.targets = <<>> THEN <<CommentText>>
    ELSE [i \in DOMAIN r.targets |->
             IF 2 \in r.notes /\ i = Len(r.targets) THEN Noted(r.targets[i]) ELSE r.targets[i]]

Relations(t) ==
    [i \in DOMAIN t.relations |-> [name |-> t.relations[i].name, targets |-> FoundTargets(t.relations[i])]]

\* The tuple dialog offers the types and relations that the document declares
\* and their subject types as far as they can be found, in their order,
\* whatever the order of the sections, the style of the lists and the comments.
DialogReadsDocument ==
    OpeningsAreBare =>
        parseSchemaTypes(doc) =
            [i \in DOMAIN meaning |-> [name |-> meaning[i].name, members |-> Relations(meaning[i])]]

\* The evaluator offers the permissions that the document declares.
EvaluatorReadsDocument ==
    LET found == parseSchemaTypeInfos(doc)
    IN  OpeningsAreBare =>
        /\ Len(found) = Len(meaning)
        /\ \A i \in DOMAIN found :
              /\ found[i].name = meaning[i].name
              /\ [k \in DOMAIN found[i].members |-> found[i].members[k].name] = meaning[i].permissions

\* The document has a relation r of type s with target type t that is found.
Declares(s, r, t) ==
    \E i \in Named(meaning, s) : \E k \in Named(meaning[i].relations, r) :
        \E n \in DOMAIN FoundTargets(meaning[i].relations[k]) : FoundTargets(meaning[i].relations[k])[n].type = t

\* A graph has an edge from s to t with the relation r.
Shows(g, s, r, t) ==
    \E i \in DOMAIN g.edges :
        g.edges[i].source = s /\ g.edges[i].target = t /\ Contains(g.edges[i].relations, r)

\* The graph has one node per type that has a body or is found as a target,
\* marked external exactly when it has no body, and between two types one
\* edge with the relations that lead from the one to the other.  A list or a
\* target that runs into a comment is a type of its own.
GraphReadsDocument ==
    LET g == buildGraph(doc)
    IN  OpeningsAreBare =>
        /\ \A i, j \in DOMAIN g.nodes : g.nodes[i].name = g.nodes[j].name => i = j
        /\ \A i, j \in DOMAIN g.edges :
              g.edges[i].source = g.edges[j].source /\ g.edges[i].target = g.edges[j].target => i = j
        /\ \A i \in DOMAIN g.nodes :
              g.nodes[i].isExternal <=> Named(meaning, g.nodes[i].name) = {}
        /\ \A t \in TypeNames \cup {Garbled} : Named(g.nodes, t) # {} <=>
              Named(meaning, t) # {} \/ \E s \in TypeNames, r \in RelationNames : Declares(s, r, t)
        /\ \A s \in TypeNames, t \in TypeNames \cup {Garbled}, r \in RelationNames :
              Shows(g, s, r, t) <=> Declares(s, r, t)

\* The permission that is still collected at the end: the last one of the
\* last section, if that is a permissions section.
Pending ==
    {p \in PermissionNames : \E i \in DOMAIN meaning :
        /\ meaning[i].latest = "permissions" /\ meaning[i].permissions # <<>>
        /\ p = Last(meaning[i].permissions)
        /\ \A j \in DOMAIN meaning : j > i => meaning[j].latest = None}

\* Without comments that end with a colon, the visual view has a card for
\* every type with a body and its relations with their inline lists.  A card
\* shows exactly the permissions of its type but the last, and the last card
\* also the one still collected.  So the last permission of a section is shown
\* when no other section follows it; when a type without sections does, it is
\* on the card of that type.
ViewerLosesOnlyLast ==
    LET cards == parseYamlSimple(doc)
    IN  OpeningsAreBare /\ (~\E i \in DOMAIN doc : IsComment(doc[i]) /\ Opens(doc[i])) =>
        /\ [i \in DOMAIN cards |-> cards[i].name] = [i \in DOMAIN meaning |-> meaning[i].name]
        /\ \A i \in DOMAIN cards :
              /\ \A k \in DOMAIN meaning[i].relations :
                    cards[i].relations[meaning[i].relations[k].name] = Shown(meaning[i].relations[k])
              /\ DOMAIN cards[i].permissions =
                    {meaning[i].permissions[k] : k \in 1..(Len(meaning[i].permissions) - 1)}
                        \cup IF i = Len(cards) THEN Pending ELSE {}
=============================================================================
