-------------------------- MODULE SchemaTextProofs --------------------------
(* What the console's readers make of a schema document: the dialog, the    *)
(* evaluator, the graph and the visual view, for documents of any length,   *)
(* with any names, lists of targets and comments, as long as no line that   *)
(* ends with a colon has a comment behind it.  A reader is a recursive      *)
(* function over the lines; the proofs take it apart into the states after  *)
(* each line.                                                               *)
EXTENDS SchemaText, Recursion

-----------------------------------------------------------------------------
(* Sequences of anything.                                                   *)

IsSeq(s) == \E S : s \in Seq(S)

\* The positions of a sequence.
LEMMA SeqFacts ==
    ASSUME NEW s, IsSeq(s)
    PROVE  Len(s) \in Nat /\ DOMAIN s = 1..Len(s)
<1>1. PICK S : s \in Seq(S)
  BY DEF IsSeq
<1> QED BY <1>1

\* A sequence with one more element.
LEMMA AppendFacts ==
    ASSUME NEW s, NEW e, IsSeq(s)
    PROVE  /\ IsSeq(Append(s, e)) /\ Len(Append(s, e)) = Len(s) + 1
           /\ Append(s, e)[Len(s) + 1] = e
           /\ \A i \in 1..Len(s) : Append(s, e)[i] = s[i]
<1>1. PICK S : s \in Seq(S)
  BY DEF IsSeq
<1> DEFINE T == S \cup {e}
<1>2. s \in Seq(T) /\ e \in T
  BY <1>1
<1> HIDE DEF T
<1>3. Append(s, e) \in Seq(T)
  BY <1>2
<1> QED BY <1>2, <1>3 DEF IsSeq

\* Two sequences, one after the other.
LEMMA ConcatFacts ==
    ASSUME NEW s, NEW t, IsSeq(s), IsSeq(t)
    PROVE  /\ IsSeq(s \o t) /\ Len(s \o t) = Len(s) + Len(t)
           /\ \A i \in 1..Len(s) : (s \o t)[i] = s[i]
           /\ \A i \in 1..Len(t) : (s \o t)[Len(s) + i] = t[i]
<1>1. PICK S, T : s \in Seq(S) /\ t \in Seq(T)
  BY DEF IsSeq
<1> DEFINE U == S \cup T
<1>2. s \in Seq(U) /\ t \in Seq(U)
  BY <1>1
<1> HIDE DEF U
<1>3. s \o t \in Seq(U)
  BY <1>2
<1> QED BY <1>2, <1>3 DEF IsSeq

\* Two sequences with the same elements are the same.
LEMMA SameElements ==
    ASSUME NEW s, NEW r, IsSeq(s), IsSeq(r), Len(s) = Len(r), \A i \in 1..Len(s) : s[i] = r[i]
    PROVE  s = r
<1>1. PICK S, R : s \in Seq(S) /\ r \in Seq(R)
  BY DEF IsSeq
<1>2. s \in [1..Len(s) -> S] /\ r \in [1..Len(s) -> R]
  BY <1>1
<1>3. s = [i \in 1..Len(s) |-> s[i]] /\ r = [i \in 1..Len(s) |-> r[i]]
  BY <1>2
<1>4. [i \in 1..Len(s) |-> s[i]] = [i \in 1..Len(s) |-> r[i]]
  OBVIOUS
<1>5. s = r
  BY <1>3, <1>4
<1> QED BY <1>5

\* A function on 1..n is a sequence.
LEMMA FunctionIsSeq ==
    ASSUME NEW s, NEW n \in Nat, s = [i \in 1..n |-> s[i]]
    PROVE  IsSeq(s) /\ Len(s) = n
<1> DEFINE S == {s[i] : i \in 1..n}
<1>1. \A i \in 1..n : s[i] \in S
  OBVIOUS
<1> HIDE DEF S
<1>2. s \in [1..n -> S]
  BY <1>1
<1>3. s \in Seq(S) /\ Len(s) = n
  BY <1>2
<1> QED BY <1>3 DEF IsSeq

-----------------------------------------------------------------------------
(* The scanners.                                                            *)

ScanRun(text, section, N, f) ==
    f = [n \in 0..N |-> IF n = 0 THEN Start ELSE ScanLine(f[n - 1], text[n], section)]

\* The lines can be read one after the other.
LEMMA ScanExists ==
    ASSUME NEW text, NEW section, NEW N \in Nat
    PROVE  \E f : ScanRun(text, section, N, f)
<1> DEFINE S == {n \in Nat : \E f : ScanRun(text, section, n, f)}
<1>1. 0 \in S
  <2> DEFINE f == [n \in 0..0 |-> Start]
  <2>1. ScanRun(text, section, 0, f)
    BY DEF ScanRun
  <2> HIDE DEF f
  <2> QED BY <2>1
<1>2. ASSUME NEW n \in Nat, n \in S
      PROVE  n + 1 \in S
  <2>1. PICK f : ScanRun(text, section, n, f)
    BY <1>2
  <2> DEFINE body(h, k) == IF k = 0 THEN Start ELSE ScanLine(h[k - 1], text[k], section)
             g == [k \in 0..(n + 1) |-> IF k = n + 1 THEN ScanLine(f[n], text[n + 1], section) ELSE f[k]]
  <2>2. \A k \in 0..n : f[k] = body(f, k)
    BY <2>1 DEF ScanRun
  <2>3. \A k \in 0..(n + 1) : g[k] = body(g, k)
    <3> SUFFICES ASSUME NEW k \in 0..(n + 1) PROVE g[k] = body(g, k)
      OBVIOUS
    <3>1. \A i \in 0..n : g[i] = f[i]
      OBVIOUS
    <3>2. g[n + 1] = ScanLine(f[n], text[n + 1], section)
      OBVIOUS
    <3> HIDE DEF g
    <3>3. CASE k = 0
      BY <2>2, <3>1, <3>3
    <3>4. CASE k = n + 1
      BY <3>1, <3>2, <3>4
    <3>5. CASE k # 0 /\ k # n + 1
      <4>1. k \in 0..n /\ k - 1 \in 0..n
        BY <3>5
      <4> QED BY <2>2, <3>1, <3>5, <4>1
    <3> QED BY <3>3, <3>4, <3>5
  <2>4. g = [k \in 0..(n + 1) |-> body(g, k)]
    <3>1. DOMAIN g = 0..(n + 1) /\ g = [k \in 0..(n + 1) |-> g[k]]
      OBVIOUS
    <3> HIDE DEF g, body
    <3> QED BY <2>3, <3>1
  <2>5. ScanRun(text, section, n + 1, g)
    BY <2>4 DEF ScanRun
  <2> HIDE DEF g
  <2> QED BY <2>5
<1> HIDE DEF S
<1>3. \A n \in Nat : n \in S
  BY <1>1, <1>2, SetInduction
<1> QED BY <1>3 DEF S

\* What a scanner has read is the end of such a run.
LEMMA ScanStateIsRun ==
    ASSUME NEW text, NEW section, Len(text) \in Nat
    PROVE  \E f : ScanRun(text, section, Len(text), f) /\ ScanState(text, section) = f[Len(text)]
<1> DEFINE body(h, k) == IF k = 0 THEN Start ELSE ScanLine(h[k - 1], text[k], section)
           st == CHOOSE f : f = [n \in 0..Len(text) |-> body(f, n)]
<1>1. \E f : f = [n \in 0..Len(text) |-> body(f, n)]
  <2>1. PICK f : ScanRun(text, section, Len(text), f)
    BY ScanExists
  <2>2. f = [n \in 0..Len(text) |-> body(f, n)]
    BY <2>1 DEF ScanRun
  <2> HIDE DEF body
  <2> QED BY <2>2
<1>2. st = [n \in 0..Len(text) |-> body(st, n)]
  <2> HIDE DEF body
  <2> QED BY <1>1
<1>3. ScanState(text, section) = st[Len(text)]
  BY DEF ScanState
<1>4. ScanRun(text, section, Len(text), st)
  <2> HIDE DEF st
  <2> QED BY <1>2 DEF ScanRun
<1> HIDE DEF st
<1> QED BY <1>3, <1>4

ScanMore(text, more, section, f) ==
    /\ f[0] = ScanState(text, section)
    /\ \A k \in 1..Len(more) : f[k] = ScanLine(f[k - 1], more[k], section)
    /\ ScanState(text \o more, section) = f[Len(more)]

\* The run over a longer text goes on where the run over its beginning ends.
LEMMA ScanExtends ==
    ASSUME NEW text, NEW more, NEW section, IsSeq(text), IsSeq(more)
    PROVE  \E f : ScanMore(text, more, section, f)
<1> DEFINE N == Len(text)
           M == Len(more)
           all == text \o more
<1>1. /\ N \in Nat /\ M \in Nat /\ IsSeq(all) /\ Len(all) = N + M
      /\ \A i \in 1..N : all[i] = text[i]
      /\ \A i \in 1..M : all[N + i] = more[i]
  BY SeqFacts, ConcatFacts
<1>2. PICK g : ScanRun(text, section, N, g) /\ ScanState(text, section) = g[N]
  BY <1>1, ScanStateIsRun
<1>3. PICK h : ScanRun(all, section, N + M, h) /\ ScanState(all, section) = h[N + M]
  <2>1. Len(all) \in Nat
    BY <1>1
  <2> HIDE DEF all
  <2> QED BY <1>1, <2>1, ScanStateIsRun
<1> HIDE DEF N, M, all
<1>4. \A k \in 1..N : g[k] = ScanLine(g[k - 1], text[k], section)
  BY <1>1, <1>2 DEF ScanRun
<1>5. \A k \in 1..(N + M) : h[k] = ScanLine(h[k - 1], all[k], section)
  BY <1>1, <1>3 DEF ScanRun
<1>6. g[0] = Start /\ h[0] = Start
  BY <1>1, <1>2, <1>3 DEF ScanRun
<1> DEFINE S == {k \in 0..N : g[k] = h[k]}
<1>7. \A k \in 0..N : k \in S
  <2>1. 0 \in S
    BY <1>1, <1>6
  <2>2. ASSUME NEW k \in 0..(N - 1), k \in S PROVE k + 1 \in S
    <3>1. k + 1 \in 1..N /\ k + 1 \in 1..(N + M) /\ (k + 1) - 1 = k /\ g[k] = h[k] /\ k + 1 \in 0..N
      BY <1>1, <2>2
    <3>2. all[k + 1] = text[k + 1]
      BY <1>1, <3>1
    <3>3. g[k + 1] = h[k + 1]
      BY <1>4, <1>5, <3>1, <3>2
    <3> QED BY <3>1, <3>3
  <2> HIDE DEF S
  <2> QED BY <1>1, <2>1, <2>2, BoundedInduction
<1> DEFINE f == [k \in 0..M |-> h[N + k]]
<1>8. f[0] = g[N]
  BY <1>1, <1>7
<1>9. ASSUME NEW k \in 1..M PROVE f[k] = ScanLine(f[k - 1], more[k], section)
  <2>1. /\ k \in 0..M /\ k - 1 \in 0..M /\ N + k \in 1..(N + M) /\ (N + k) - 1 = N + (k - 1)
        /\ all[N + k] = more[k]
    BY <1>1
  <2>2. f[k] = h[N + k] /\ f[k - 1] = h[N + (k - 1)]
    BY <2>1
  <2> HIDE DEF f
  <2> QED BY <1>5, <2>1, <2>2
<1>10. f[M] = h[N + M]
  BY <1>1
<1> HIDE DEF f
<1>11. /\ f[0] = ScanState(text, section)
       /\ \A k \in 1..M : f[k] = ScanLine(f[k - 1], more[k], section)
       /\ ScanState(all, section) = f[M]
  BY <1>2, <1>3, <1>8, <1>9, <1>10
<1>12. ScanMore(text, more, section, f)
  BY <1>11 DEF N, M, all, ScanMore
<1> QED BY <1>12

\* One line more.
LEMMA ScanOne ==
    ASSUME NEW text, NEW l, NEW section, IsSeq(text)
    PROVE  ScanState(text \o <<l>>, section) = ScanLine(ScanState(text, section), l, section)
<1>1. IsSeq(<<l>>) /\ Len(<<l>>) = 1 /\ <<l>>[1] = l
  <2>1. <<l>> \in Seq({l})
    OBVIOUS
  <2> QED BY <2>1 DEF IsSeq
<1>2. PICK f : ScanMore(text, <<l>>, section, f)
  BY <1>1, ScanExtends
<1>3. /\ f[0] = ScanState(text, section) /\ ScanState(text \o <<l>>, section) = f[1]
      /\ f[1] = ScanLine(f[1 - 1], <<l>>[1], section) /\ 1 - 1 = 0
  BY <1>1, <1>2 DEF ScanMore
<1> QED BY <1>1, <1>3

\* A scanner has these fields.
IsState(st) ==
    st = [types |-> st.types, depth |-> st.depth] /\ st.depth \in 0..InList

-----------------------------------------------------------------------------
(* The inductive invariant: what the dialog and the evaluator have read so  *)
(* far is what the document declares, and they know where they are.         *)

RelationMeaning == [name : RelationNames, targets : TargetLists, inline : BOOLEAN, notes : SUBSET Nat]
TypeMeaning == [name : TypeNames, sections : SUBSET Sections, latest : Sections \cup {None},
                relations : Seq(RelationMeaning), permissions : Seq(PermissionNames)]

TextType ==
    /\ IsSeq(doc)
    /\ meaning \in Seq(TypeMeaning)
    /\ place \in {"top", "types", "type"} \cup Sections
    /\ place \in {"type"} \cup Sections => meaning # <<>>

\* A section is written once.
SectionsOnce ==
    /\ place \in Sections => place \in meaning[Here].sections
    /\ \A i \in DOMAIN meaning :
          "permissions" \notin meaning[i].sections => meaning[i].permissions = <<>>

Members(t, section) ==
    IF section = "relations" THEN Relations(t)
    ELSE [i \in DOMAIN t.permissions |-> [name |-> t.permissions[i], targets |-> <<>>]]

DeclaredType(t, section) == [name |-> t.name, members |-> Members(t, section)]
Declared(types, section) == [i \in DOMAIN types |-> DeclaredType(types[i], section)]

Follows(section, st) ==
    /\ IsState(st)
    /\ st.types = Declared(meaning, section)
    /\ place # "top" => st.depth >= InTypes
    /\ place \in {"type"} \cup Sections =>
          st.depth >= InType /\ (st.depth >= InSection <=> place = section)

ScanInv ==
    OpeningsAreBare => \A section \in {"relations", "permissions"} : Follows(section, ScanState(doc, section))

TextInv == TextType /\ SectionsOnce /\ ScanInv

-----------------------------------------------------------------------------
(* Lines.                                                                   *)

\* Lines below a section that the scanner does not look for change nothing.
LEMMA QuietLine ==
    ASSUME NEW st, NEW l, NEW section, ~(st.depth >= InSection), l.indent \in Nat, l.indent >= 6
    PROVE  ScanLine(st, l, section) = st
<1>1. l.indent # 0 /\ l.indent # 2 /\ l.indent # 4
  OBVIOUS
<1> QED BY <1>1 DEF ScanLine, Scan

\* Nor do several of them.
LEMMA QuietLines ==
    ASSUME NEW text, NEW more, NEW section, IsSeq(text), IsSeq(more),
           ~(ScanState(text, section).depth >= InSection),
           \A k \in 1..Len(more) : more[k].indent \in Nat /\ more[k].indent >= 6
    PROVE  ScanState(text \o more, section) = ScanState(text, section)
<1> DEFINE st == ScanState(text, section)
           N == Len(more)
<1>1. N \in Nat
  BY SeqFacts
<1>0. PICK f : ScanMore(text, more, section, f)
  BY ScanExtends
<1>2. /\ f[0] = st
      /\ \A k \in 1..N : f[k] = ScanLine(f[k - 1], more[k], section)
      /\ ScanState(text \o more, section) = f[N]
  BY <1>0 DEF ScanMore
<1> DEFINE S == {k \in 0..N : f[k] = st}
<1> HIDE DEF st, N
<1>3. \A k \in 0..N : k \in S
  <2>1. 0 \in S
    BY <1>1, <1>2
  <2>2. ASSUME NEW k \in 0..(N - 1), k \in S PROVE k + 1 \in S
    <3>1. k + 1 \in 1..N /\ k + 1 \in 0..N /\ (k + 1) - 1 = k /\ f[k] = st
      BY <1>1, <2>2
    <3>2. ScanLine(st, more[k + 1], section) = st
      BY <3>1, QuietLine DEF st, N
    <3> QED BY <1>2, <3>1, <3>2
  <2> HIDE DEF S
  <2> QED BY <1>1, <2>1, <2>2, BoundedInduction
<1>4. f[N] = st
  BY <1>1, <1>3
<1> QED BY <1>2, <1>4 DEF st


-----------------------------------------------------------------------------
(* The last type and its last member.                                       *)

\* The last element of a sequence is replaced.
LEMMA SetLastFacts ==
    ASSUME NEW s, NEW x, IsSeq(s), Len(s) > 0
    PROVE  /\ IsSeq(SetLast(s, x)) /\ Len(SetLast(s, x)) = Len(s)
           /\ Last(SetLast(s, x)) = x /\ SetLast(s, x)[Len(s)] = x
           /\ \A i \in 1..(Len(s) - 1) : SetLast(s, x)[i] = s[i]
<1> DEFINE n == Len(s)
           r == SetLast(s, x)
<1>1. n \in Nat /\ n > 0 /\ DOMAIN s = 1..n
  BY SeqFacts
<1>2. r = [i \in 1..n |-> IF i = n THEN x ELSE s[i]]
  BY <1>1 DEF SetLast
<1>3. r = [i \in 1..n |-> r[i]] /\ r[n] = x /\ \A i \in 1..(n - 1) : r[i] = s[i]
  BY <1>1, <1>2
<1> HIDE DEF n, r
<1>4. IsSeq(r) /\ Len(r) = n
  BY <1>1, <1>3, FunctionIsSeq
<1> QED BY <1>3, <1>4 DEF n, r, Last

\* Replacing the last element twice is replacing it once.
LEMMA SetLastTwice ==
    ASSUME NEW s, NEW x, NEW y, IsSeq(s), Len(s) > 0
    PROVE  SetLast(SetLast(s, x), y) = SetLast(s, y)
<1> DEFINE n == Len(s)
           a == SetLast(s, x)
           b == SetLast(a, y)
           c == SetLast(s, y)
<1>1. n \in Nat /\ n > 0
  BY SeqFacts
<1>2. IsSeq(a) /\ Len(a) = n /\ \A i \in 1..(n - 1) : a[i] = s[i]
  BY SetLastFacts
<1>3. IsSeq(c) /\ Len(c) = n /\ c[n] = y /\ \A i \in 1..(n - 1) : c[i] = s[i]
  BY SetLastFacts
<1>4. IsSeq(b) /\ Len(b) = n /\ b[n] = y /\ \A i \in 1..(n - 1) : b[i] = a[i]
  <2> HIDE DEF a
  <2> QED BY <1>1, <1>2, SetLastFacts
<1> HIDE DEF n, a, b, c
<1>5. \A i \in 1..n : i = n \/ i \in 1..(n - 1)
  BY <1>1
<1>6. \A i \in 1..n : b[i] = c[i]
  BY <1>2, <1>3, <1>4, <1>5
<1>7. b = c
  BY <1>3, <1>4, <1>6, SameElements
<1> QED BY <1>7 DEF a, b, c

\* The last element of a sequence that was appended to.
LEMMA SetLastAppend ==
    ASSUME NEW s, NEW e, NEW x, IsSeq(s)
    PROVE  Last(Append(s, e)) = e /\ SetLast(Append(s, e), x) = Append(s, x)
<1> DEFINE n == Len(s)
           a == Append(s, e)
           b == SetLast(a, x)
           c == Append(s, x)
<1>1. n \in Nat
  BY SeqFacts
<1>2. IsSeq(a) /\ Len(a) = n + 1 /\ a[n + 1] = e /\ \A i \in 1..n : a[i] = s[i]
  BY AppendFacts
<1>3. IsSeq(c) /\ Len(c) = n + 1 /\ c[n + 1] = x /\ \A i \in 1..n : c[i] = s[i]
  BY AppendFacts
<1> HIDE DEF a, c, n
<1>4. Len(a) > 0 /\ Len(a) - 1 = n
  BY <1>1, <1>2
<1>5. IsSeq(b) /\ Len(b) = n + 1 /\ b[n + 1] = x /\ \A i \in 1..n : b[i] = a[i]
  BY <1>2, <1>4, SetLastFacts
<1> HIDE DEF b
<1>6. \A i \in 1..(n + 1) : i = n + 1 \/ i \in 1..n
  BY <1>1
<1>7. \A i \in 1..(n + 1) : b[i] = c[i]
  BY <1>2, <1>3, <1>5, <1>6
<1>8. b = c
  BY <1>3, <1>5, <1>7, SameElements
<1> QED BY <1>2, <1>8 DEF a, b, c, Last

NewMember(name, targets) == [name |-> name, targets |-> targets]

\* The last of the types has another member.
WithMember(T, nm, mem, name, targets) ==
    SetLast(T, [name |-> nm, members |-> Append(mem, NewMember(name, targets))])

\* A member is added to the last type.
LEMMA MemberAdded ==
    ASSUME NEW T, NEW nm, NEW mem, NEW m, Last(T) = [name |-> nm, members |-> mem]
    PROVE  AddMember(T, m) = SetLast(T, [name |-> nm, members |-> Append(mem, m)])
<1> DEFINE ty(x) == [name |-> nm, members |-> x]
<1>1. \A x, y : [ty(x) EXCEPT !.members = y] = ty(y)
  OBVIOUS
<1>2. ty(mem).members = mem
  OBVIOUS
<1>3. Last(T) = ty(mem)
  OBVIOUS
<1> HIDE DEF ty
<1>4. [Last(T) EXCEPT !.members = Append(@, m)] = ty(Append(mem, m))
  BY <1>1, <1>2, <1>3
<1>5. AddMember(T, m) = SetLast(T, ty(Append(mem, m)))
  BY <1>4 DEF AddMember
<1> QED BY <1>5 DEF ty

\* Targets are added to those of the last member of the last type.
LEMMA TargetsAdded ==
    ASSUME NEW T, IsSeq(T), Len(T) > 0, NEW nm, NEW mem, IsSeq(mem), NEW a, NEW ts, NEW more
    PROVE  AddTargetsTo(WithMember(T, nm, mem, a, ts), more) = WithMember(T, nm, mem, a, ts \o more)
<1> DEFINE ty(x) == [name |-> nm, members |-> Append(mem, NewMember(a, x))]
           W(x) == SetLast(T, ty(x))
<1>1. AddTo(Append(mem, NewMember(a, ts)), more) = Append(mem, NewMember(a, ts \o more))
  <2>1. Last(Append(mem, NewMember(a, ts))) = NewMember(a, ts)
    BY SetLastAppend
  <2>2. [NewMember(a, ts) EXCEPT !.targets = @ \o more] = NewMember(a, ts \o more)
    <3>1. \A u : [NewMember(a, ts) EXCEPT !.targets = u] = NewMember(a, u)
      BY DEF NewMember
    <3>2. NewMember(a, ts).targets = ts
      BY DEF NewMember
    <3> QED BY <3>1, <3>2
  <2>3. AddTo(Append(mem, NewMember(a, ts)), more) =
           SetLast(Append(mem, NewMember(a, ts)), NewMember(a, ts \o more))
    BY <2>1, <2>2 DEF AddTo
  <2> QED BY <2>3, SetLastAppend
<1>2. Last(W(ts)) = ty(ts)
  <2> HIDE DEF ty
  <2> QED BY SetLastFacts
<1>3. [ty(ts) EXCEPT !.members = AddTo(@, more)] = ty(ts \o more)
  <2> DEFINE rec(y) == [name |-> nm, members |-> y]
             A(x) == Append(mem, NewMember(a, x))
  <2>1. \A x, y : [rec(x) EXCEPT !.members = y] = rec(y)
    OBVIOUS
  <2>2. \A x : rec(x).members = x
    OBVIOUS
  <2>3. \A x : ty(x) = rec(A(x))
    OBVIOUS
  <2>4. AddTo(A(ts), more) = A(ts \o more)
    BY <1>1
  <2> HIDE DEF rec, A, ty
  <2>5. [rec(A(ts)) EXCEPT !.members = AddTo(@, more)] = rec(A(ts \o more))
    BY <2>1, <2>2, <2>4
  <2> QED BY <2>3, <2>5
<1>4. SetLast(W(ts), ty(ts \o more)) = W(ts \o more)
  <2> HIDE DEF ty
  <2> QED BY SetLastTwice
<1> HIDE DEF ty, W
<1>5. AddTargetsTo(W(ts), more) = W(ts \o more)
  BY <1>2, <1>3, <1>4 DEF AddTargetsTo
<1> QED BY <1>5 DEF W, ty, WithMember

-----------------------------------------------------------------------------
(* What the document declares.                                              *)

\* The types are a sequence, and so are the relations and permissions of each.
LEMMA MeaningFacts ==
    ASSUME NEW types \in Seq(TypeMeaning)
    PROVE  /\ IsSeq(types) /\ Len(types) \in Nat /\ DOMAIN types = 1..Len(types)
           /\ \A i \in 1..Len(types) :
                 /\ types[i] \in TypeMeaning
                 /\ IsSeq(types[i].relations) /\ IsSeq(types[i].permissions)
           /\ types # <<>> => Len(types) \in 1..Len(types) /\ Len(types) > 0
<1>1. IsSeq(types)
  BY DEF IsSeq
<1>2. ASSUME NEW i \in 1..Len(types)
      PROVE  /\ types[i] \in TypeMeaning
             /\ IsSeq(types[i].relations) /\ IsSeq(types[i].permissions)
  <2>1. types[i] \in TypeMeaning
    OBVIOUS
  <2>2. types[i].relations \in Seq(RelationMeaning) /\ types[i].permissions \in Seq(PermissionNames)
    BY <2>1 DEF TypeMeaning
  <2> QED BY <2>1, <2>2 DEF IsSeq
<1>3. types # <<>> => Len(types) > 0
  OBVIOUS
<1> QED BY <1>1, <1>2, <1>3, SeqFacts

\* The members of a type are a sequence.
LEMMA MembersFacts ==
    ASSUME NEW t \in TypeMeaning, NEW section
    PROVE  /\ IsSeq(Members(t, section))
           /\ section = "relations" =>
                /\ Len(Members(t, section)) = Len(t.relations)
                /\ \A i \in 1..Len(t.relations) :
                      Members(t, section)[i] =
                          NewMember(t.relations[i].name, FoundTargets(t.relations[i]))
           /\ section = "permissions" =>
                /\ Len(Members(t, section)) = Len(t.permissions)
                /\ \A i \in 1..Len(t.permissions) :
                      Members(t, section)[i] = NewMember(t.permissions[i], <<>>)
<1>1. t.relations \in Seq(RelationMeaning) /\ t.permissions \in Seq(PermissionNames)
  BY DEF TypeMeaning
<1>2. /\ Len(t.relations) \in Nat /\ DOMAIN t.relations = 1..Len(t.relations)
      /\ Len(t.permissions) \in Nat /\ DOMAIN t.permissions = 1..Len(t.permissions)
  BY <1>1
<1> DEFINE m == Members(t, section)
<1>3. CASE section = "relations"
  <2>1. m = [i \in 1..Len(t.relations) |->
                NewMember(t.relations[i].name, FoundTargets(t.relations[i]))]
    BY <1>2, <1>3 DEF Members, Relations, NewMember
  <2>2. m = [i \in 1..Len(t.relations) |-> m[i]]
    BY <2>1
  <2>3. IsSeq(m) /\ Len(m) = Len(t.relations)
    <3> HIDE DEF m
    <3> QED BY <1>2, <2>2, FunctionIsSeq
  <2> HIDE DEF m
  <2>4. \A i \in 1..Len(t.relations) :
            m[i] = NewMember(t.relations[i].name, FoundTargets(t.relations[i]))
    BY <2>1
  <2> QED BY <1>3, <2>3, <2>4 DEF m
<1>4. CASE section # "relations"
  <2>1. m = [i \in 1..Len(t.permissions) |-> NewMember(t.permissions[i], <<>>)]
    BY <1>2, <1>4 DEF Members, NewMember
  <2>2. m = [i \in 1..Len(t.permissions) |-> m[i]]
    BY <2>1
  <2>3. IsSeq(m) /\ Len(m) = Len(t.permissions)
    <3> HIDE DEF m
    <3> QED BY <1>2, <2>2, FunctionIsSeq
  <2> HIDE DEF m
  <2>4. \A i \in 1..Len(t.permissions) : m[i] = NewMember(t.permissions[i], <<>>)
    BY <2>1
  <2> QED BY <1>4, <2>3, <2>4 DEF m
<1> QED BY <1>3, <1>4

\* So are the types as a scanner is to find them.
LEMMA DeclaredFacts ==
    ASSUME NEW types \in Seq(TypeMeaning), NEW section
    PROVE  /\ IsSeq(Declared(types, section)) /\ Len(Declared(types, section)) = Len(types)
           /\ \A i \in 1..Len(types) : Declared(types, section)[i] = DeclaredType(types[i], section)
<1> DEFINE d == Declared(types, section)
<1>1. d = [i \in 1..Len(types) |-> DeclaredType(types[i], section)] /\ Len(types) \in Nat
  BY MeaningFacts DEF Declared
<1>2. d = [i \in 1..Len(types) |-> d[i]]
  BY <1>1
<1>3. \A i \in 1..Len(types) : d[i] = DeclaredType(types[i], section)
  BY <1>1
<1> HIDE DEF d
<1>4. IsSeq(d) /\ Len(d) = Len(types)
  BY <1>1, <1>2, FunctionIsSeq
<1> QED BY <1>3, <1>4 DEF d

\* A type is added.
LEMMA TypeDeclared ==
    ASSUME NEW types \in Seq(TypeMeaning), NEW t \in TypeMeaning, NEW section
    PROVE  Declared(Append(types, t), section) = Append(Declared(types, section), DeclaredType(t, section))
<1> DEFINE n == Len(types)
           more == Append(types, t)
           d == Declared(types, section)
           e == Declared(more, section)
           a == Append(d, DeclaredType(t, section))
<1>1. n \in Nat /\ IsSeq(types) /\ more \in Seq(TypeMeaning)
  BY MeaningFacts
<1>2. Len(more) = n + 1 /\ more[n + 1] = t /\ \A i \in 1..n : more[i] = types[i]
  BY <1>1, AppendFacts
<1>3. IsSeq(d) /\ Len(d) = n /\ \A i \in 1..n : d[i] = DeclaredType(types[i], section)
  BY DeclaredFacts
<1>4. IsSeq(e) /\ Len(e) = n + 1 /\ \A i \in 1..(n + 1) : e[i] = DeclaredType(more[i], section)
  <2> HIDE DEF more
  <2>1. /\ IsSeq(e) /\ Len(e) = Len(more)
        /\ \A i \in 1..Len(more) : e[i] = DeclaredType(more[i], section)
    BY <1>1, DeclaredFacts
  <2> QED BY <1>2, <2>1
<1>5. /\ IsSeq(a) /\ Len(a) = n + 1 /\ a[n + 1] = DeclaredType(t, section)
      /\ \A i \in 1..n : a[i] = d[i]
  <2> HIDE DEF d
  <2> QED BY <1>3, AppendFacts
<1> HIDE DEF n, d, e, a, more
<1>6. \A i \in 1..(n + 1) : i = n + 1 \/ i \in 1..n
  BY <1>1
<1>7. \A i \in 1..(n + 1) : e[i] = a[i]
  BY <1>2, <1>3, <1>4, <1>5, <1>6
<1>8. e = a
  BY <1>4, <1>5, <1>7, SameElements
<1> QED BY <1>8 DEF d, e, a, more

\* The last type changes.
LEMMA LastDeclared ==
    ASSUME NEW types \in Seq(TypeMeaning), types # <<>>, NEW t \in TypeMeaning, NEW section
    PROVE  /\ SetLast(types, t) \in Seq(TypeMeaning)
           /\ Declared(SetLast(types, t), section) =
                  SetLast(Declared(types, section), DeclaredType(t, section))
<1> DEFINE n == Len(types)
           new == SetLast(types, t)
           d == Declared(types, section)
           e == Declared(new, section)
           a == SetLast(d, DeclaredType(t, section))
<1>1. n \in Nat /\ IsSeq(types) /\ n > 0
  BY MeaningFacts
<1>2. new \in Seq(TypeMeaning)
  BY <1>1 DEF SetLast
<1>3. Len(new) = n /\ new[n] = t /\ \A i \in 1..(n - 1) : new[i] = types[i]
  BY <1>1, SetLastFacts
<1>4. IsSeq(d) /\ Len(d) = n /\ \A i \in 1..n : d[i] = DeclaredType(types[i], section)
  BY DeclaredFacts
<1>5. IsSeq(e) /\ Len(e) = n /\ \A i \in 1..n : e[i] = DeclaredType(new[i], section)
  <2> HIDE DEF new
  <2> QED BY <1>2, <1>3, DeclaredFacts
<1>6. /\ IsSeq(a) /\ Len(a) = n /\ a[n] = DeclaredType(t, section)
      /\ \A i \in 1..(n - 1) : a[i] = d[i]
  <2> HIDE DEF d
  <2> QED BY <1>1, <1>4, SetLastFacts
<1> HIDE DEF n, d, e, a, new
<1>7. \A i \in 1..n : i = n \/ (i \in 1..(n - 1) /\ i \in 1..n)
  BY <1>1
<1>8. \A i \in 1..n : e[i] = a[i]
  BY <1>3, <1>4, <1>5, <1>6, <1>7
<1>9. e = a
  BY <1>5, <1>6, <1>8, SameElements
<1> QED BY <1>2, <1>9 DEF d, e, a, new

\* A relation or a permission is added to the last type.
LEMMA RelationDeclared ==
    ASSUME NEW t \in TypeMeaning, NEW r \in RelationMeaning
    PROVE  LET u == [t EXCEPT !.relations = Append(@, r)]
           IN  /\ u \in TypeMeaning /\ u.name = t.name /\ u.sections = t.sections /\ u.latest = t.latest
               /\ u.permissions = t.permissions /\ u.relations = Append(t.relations, r)
               /\ Members(u, "permissions") = Members(t, "permissions")
               /\ Members(u, "relations") =
                     Append(Members(t, "relations"), NewMember(r.name, FoundTargets(r)))
<1> DEFINE u == [t EXCEPT !.relations = Append(@, r)]
           n == Len(t.relations)
           m == Members(t, "relations")
           e == Members(u, "relations")
           a == Append(m, NewMember(r.name, FoundTargets(r)))
<1>1. t.relations \in Seq(RelationMeaning) /\ n \in Nat /\ IsSeq(t.relations)
  BY DEF TypeMeaning, IsSeq
<1>2. /\ u \in TypeMeaning /\ u.name = t.name /\ u.sections = t.sections /\ u.latest = t.latest
      /\ u.permissions = t.permissions /\ u.relations = Append(t.relations, r)
  <2> DEFINE s == Append(t.relations, r)
  <2>1. s \in Seq(RelationMeaning)
    BY <1>1
  <2>2. u = [t EXCEPT !.relations = s]
    OBVIOUS
  <2> HIDE DEF s
  <2> HIDE DEF u
  <2>3. /\ u \in TypeMeaning /\ u.name = t.name /\ u.sections = t.sections /\ u.latest = t.latest
        /\ u.permissions = t.permissions /\ u.relations = s
    BY <2>1, <2>2 DEF TypeMeaning
  <2> QED BY <2>3 DEF s
<1> HIDE DEF u
<1>3. Members(u, "permissions") = Members(t, "permissions")
  BY <1>2 DEF Members
<1>4. /\ Len(u.relations) = n + 1 /\ u.relations[n + 1] = r
      /\ \A i \in 1..n : u.relations[i] = t.relations[i]
  BY <1>1, <1>2, AppendFacts
<1>5. /\ IsSeq(m) /\ Len(m) = n
      /\ \A i \in 1..n : m[i] = NewMember(t.relations[i].name, FoundTargets(t.relations[i]))
  BY MembersFacts
<1>6. /\ IsSeq(e) /\ Len(e) = n + 1
      /\ \A i \in 1..(n + 1) :
            e[i] = NewMember(u.relations[i].name, FoundTargets(u.relations[i]))
  BY <1>2, <1>4, MembersFacts
<1>7. /\ IsSeq(a) /\ Len(a) = n + 1 /\ a[n + 1] = NewMember(r.name, FoundTargets(r))
      /\ \A i \in 1..n : a[i] = m[i]
  <2> HIDE DEF m
  <2> QED BY <1>5, AppendFacts
<1> HIDE DEF n, m, e, a
<1>8. \A i \in 1..(n + 1) : i = n + 1 \/ i \in 1..n
  BY <1>1
<1>9. \A i \in 1..(n + 1) : e[i] = a[i]
  <2> SUFFICES ASSUME NEW i \in 1..(n + 1) PROVE e[i] = a[i]
    OBVIOUS
  <2>1. CASE i = n + 1
    BY <1>4, <1>6, <1>7, <2>1
  <2>2. CASE i \in 1..n
    BY <1>4, <1>5, <1>6, <1>7, <2>2, ZenonT(60)
  <2> QED BY <1>8, <2>1, <2>2
<1>10. e = a
  BY <1>6, <1>7, <1>9, SameElements
<1> QED BY <1>2, <1>3, <1>10 DEF e, a, m, u

\* The same for a permission.
LEMMA PermissionDeclared ==
    ASSUME NEW t \in TypeMeaning, NEW p \in PermissionNames
    PROVE  LET u == [t EXCEPT !.permissions = Append(@, p)]
           IN  /\ u \in TypeMeaning /\ u.name = t.name /\ u.sections = t.sections /\ u.latest = t.latest
               /\ u.relations = t.relations /\ u.permissions = Append(t.permissions, p)
               /\ Members(u, "relations") = Members(t, "relations")
               /\ Members(u, "permissions") = Append(Members(t, "permissions"), NewMember(p, <<>>))
<1> DEFINE u == [t EXCEPT !.permissions = Append(@, p)]
           n == Len(t.permissions)
           m == Members(t, "permissions")
           e == Members(u, "permissions")
           a == Append(m, NewMember(p, <<>>))
<1>1. t.permissions \in Seq(PermissionNames) /\ n \in Nat /\ IsSeq(t.permissions)
  BY DEF TypeMeaning, IsSeq
<1>2. /\ u \in TypeMeaning /\ u.name = t.name /\ u.sections = t.sections /\ u.latest = t.latest
      /\ u.relations = t.relations /\ u.permissions = Append(t.permissions, p)
  <2> DEFINE s == Append(t.permissions, p)
  <2>1. s \in Seq(PermissionNames)
    BY <1>1
  <2>2. u = [t EXCEPT !.permissions = s]
    OBVIOUS
  <2> HIDE DEF s
  <2> HIDE DEF u
  <2>3. /\ u \in TypeMeaning /\ u.name = t.name /\ u.sections = t.sections /\ u.latest = t.latest
        /\ u.relations = t.relations /\ u.permissions = s
    BY <2>1, <2>2 DEF TypeMeaning
  <2> QED BY <2>3 DEF s
<1> HIDE DEF u
<1>3. Members(u, "relations") = Members(t, "relations")
  BY <1>2 DEF Members, Relations
<1>4. /\ Len(u.permissions) = n + 1 /\ u.permissions[n + 1] = p
      /\ \A i \in 1..n : u.permissions[i] = t.permissions[i]
  BY <1>1, <1>2, AppendFacts
<1>5. IsSeq(m) /\ Len(m) = n /\ \A i \in 1..n : m[i] = NewMember(t.permissions[i], <<>>)
  BY MembersFacts
<1>6. IsSeq(e) /\ Len(e) = n + 1 /\ \A i \in 1..(n + 1) : e[i] = NewMember(u.permissions[i], <<>>)
  BY <1>2, <1>4, MembersFacts, SMTT(60)
<1>7. IsSeq(a) /\ Len(a) = n + 1 /\ a[n + 1] = NewMember(p, <<>>) /\ \A i \in 1..n : a[i] = m[i]
  <2> HIDE DEF m
  <2> QED BY <1>5, AppendFacts
<1> HIDE DEF n, m, e, a
<1>8. \A i \in 1..(n + 1) : i = n + 1 \/ i \in 1..n
  BY <1>1
<1>9. \A i \in 1..(n + 1) : e[i] = a[i]
  BY <1>4, <1>5, <1>6, <1>7, <1>8
<1>10. e = a
  BY <1>6, <1>7, <1>9, SameElements
<1> QED BY <1>2, <1>3, <1>10 DEF e, a, m, u

-----------------------------------------------------------------------------
(* The lines of a relation and of a permission.                             *)

\* The fields of a line.
LEMMA LineFields ==
    ASSUME NEW indent, NEW key, NEW tail, NEW items, NEW note
    PROVE  LET l == Line(indent, key, tail, items, note)
           IN  l.indent = indent /\ l.key = key /\ l.tail = tail /\ l.items = items /\ l.note = note
  BY DEF Line

\* The first line of a member.
LEMMA FirstLine ==
    ASSUME NEW st, NEW name, NEW section, st.depth >= InSection, name # "#", NEW note, ~note
    PROVE  ScanLine(st, Line(6, name, "open", <<>>, note), section) = PushMember(st, name)
<1> DEFINE l == Line(6, name, "open", <<>>, note)
<1>1. l.indent = 6 /\ l.key = name /\ l.tail = "open" /\ ~l.note
  BY LineFields
<1> HIDE DEF l
<1>2. ScanLine(st, l, section) = SectionLine(st, l, section)
  BY <1>1 DEF ScanLine, IsComment, Scan
<1>3. RelationLine(st, l) = PushMember(st, name) /\ PermissionLine(st, l) = PushMember(st, name)
  BY <1>1 DEF RelationLine, PermissionLine, Opens
<1> QED BY <1>2, <1>3 DEF SectionLine, l

\* The lines below "types:".
LEMMA TypesLine ==
    ASSUME NEW st, NEW tail, NEW items, st.depth = InMember, NEW note, tail = "open" => ~note
    PROVE  ScanLine(st, Line(8, "types", tail, items, note), "relations") =
               IF tail = "open" THEN At(st, InList)
               ELSE PushTargets(At(st, InMember), parseInlineList(Line(8, "types", tail, items, note)))
<1> DEFINE l == Line(8, "types", tail, items, note)
<1>1. l.indent = 8 /\ l.key = "types" /\ l.tail = tail /\ l.items = items /\ l.note = note
  BY LineFields
<1> HIDE DEF l
<1>2. st.depth >= InSection /\ st.depth >= InMember
  BY DEF InSection, InMember
<1>3. ScanLine(st, l, "relations") = RelationLine(st, l)
  BY <1>1, <1>2 DEF ScanLine, IsComment, Scan, SectionLine
<1> QED BY <1>1, <1>2, <1>3 DEF RelationLine, Opens, l

\* An item of the list below "types:" adds its target to the relation.
LEMMA ItemLine ==
    ASSUME NEW st, NEW items, st.depth = InList, NEW note
    PROVE  ScanLine(st, Line(10, None, "item", items, note), "relations") =
               PushTargets(st, parseItem(Line(10, None, "item", items, note)))
<1> DEFINE l == Line(10, None, "item", items, note)
<1>1. l.indent = 10 /\ l.key = None /\ l.tail = "item" /\ l.items = items
  BY LineFields
<1>2. None # "#" /\ st.depth >= InSection
  BY TextAssumption DEF InSection, InList
<1> HIDE DEF l
<1>3. ScanLine(st, l, "relations") = RelationLine(st, l)
  BY <1>1, <1>2 DEF ScanLine, IsComment, Scan, SectionLine
<1> QED BY <1>1, <1>3 DEF RelationLine, Opens, l

\* The lines below a permission.
LEMMA RuleLine ==
    ASSUME NEW st, NEW l, st.depth >= InSection, l.indent \in {8, 10}
    PROVE  ScanLine(st, l, "permissions") = st
  BY DEF ScanLine, Scan, SectionLine, PermissionLine

\* The first k elements of a list that is read item by item.
Prefix(v, k) == [i \in 1..k |-> v[i]]

\* The elements that were read so far, one more, and all of them.
LEMMA PrefixFacts ==
    ASSUME NEW v, IsSeq(v)
    PROVE  /\ Prefix(v, 0) = <<>>
           /\ \A k \in 0..(Len(v) - 1) : Prefix(v, k) \o <<v[k + 1]>> = Prefix(v, k + 1)
           /\ Prefix(v, Len(v)) = v
           /\ <<>> \o v = v
<1> DEFINE n == Len(v)
<1>1. n \in Nat /\ DOMAIN v = 1..n
  BY SeqFacts
<1>2. \A k \in 0..n : /\ IsSeq(Prefix(v, k)) /\ Len(Prefix(v, k)) = k
                      /\ \A i \in 1..k : Prefix(v, k)[i] = v[i]
  <2> TAKE k \in 0..n
  <2>1. Prefix(v, k) = [i \in 1..k |-> Prefix(v, k)[i]] /\ k \in Nat
    BY <1>1 DEF Prefix
  <2>2. \A i \in 1..k : Prefix(v, k)[i] = v[i]
    BY DEF Prefix
  <2> QED BY <2>1, <2>2, FunctionIsSeq
<1>3. Prefix(v, n) = v
  <2>1. n \in 0..n
    BY <1>1
  <2> QED BY <1>2, <2>1, SameElements
<1>4. Prefix(v, 0) = <<>>
  <2>1. IsSeq(<<>>) /\ Len(<<>>) = 0
    <3>1. <<>> \in Seq({})
      OBVIOUS
    <3> QED BY <3>1 DEF IsSeq
  <2>2. IsSeq(Prefix(v, 0)) /\ Len(Prefix(v, 0)) = 0
    BY <1>1, <1>2
  <2> QED BY <2>1, <2>2, SameElements
<1>5. <<>> \o v = v
  <2>1. PICK S : v \in Seq(S)
    BY DEF IsSeq
  <2> QED BY <2>1
<1>6. ASSUME NEW k \in 0..(n - 1)
      PROVE  Prefix(v, k) \o <<v[k + 1]>> = Prefix(v, k + 1)
  <2> DEFINE a == Prefix(v, k)
             b == <<v[k + 1]>>
             c == Prefix(v, k + 1)
             d == a \o b
  <2>1. k \in 0..n /\ k + 1 \in 0..n /\ k \in Nat
    BY <1>1
  <2>2. b[1] = v[k + 1] /\ Len(b) = 1 /\ IsSeq(b)
    <3>1. <<v[k + 1]>> \in Seq({v[k + 1]})
      OBVIOUS
    <3> QED BY <3>1 DEF IsSeq
  <2>3. /\ IsSeq(a) /\ Len(a) = k /\ IsSeq(c) /\ Len(c) = k + 1
        /\ \A i \in 1..k : a[i] = v[i]
        /\ \A i \in 1..(k + 1) : c[i] = v[i]
    BY <1>2, <2>1
  <2> HIDE DEF a, b, c
  <2>4. IsSeq(d) /\ Len(d) = k + 1 /\ d[k + 1] = b[1] /\ \A i \in 1..k : d[i] = a[i]
    <3>0. IsSeq(a) /\ IsSeq(b)
      BY <2>2, <2>3 DEF b
    <3>1. /\ IsSeq(d) /\ Len(d) = Len(a) + Len(b) /\ \A i \in 1..Len(a) : d[i] = a[i]
          /\ \A i \in 1..Len(b) : d[Len(a) + i] = b[i]
      BY <3>0, ConcatFacts
    <3>2. 1 \in 1..Len(b) /\ Len(a) = k /\ Len(b) = 1
      BY <2>2, <2>3
    <3> HIDE DEF d
    <3> QED BY <3>1, <3>2
  <2> HIDE DEF d
  <2>5. ASSUME NEW i \in 1..(k + 1) PROVE d[i] = c[i]
    <3>1. CASE i = k + 1
      BY <2>2, <2>3, <2>4, <3>1
    <3>2. CASE i \in 1..k
      BY <2>3, <2>4, <3>2
    <3>3. i = k + 1 \/ i \in 1..k
      BY <2>1
    <3> QED BY <3>1, <3>2, <3>3
  <2>6. d = c
    BY <2>3, <2>4, <2>5, SameElements
  <2> QED BY <2>6 DEF a, b, c, d
<1> QED BY <1>3, <1>4, <1>5, <1>6

\* What is found of a relation: of an inline list what the line gives, of a
\* list below what each item gives.
LEMMA FoundFacts ==
    ASSUME NEW r, IsSeq(r.targets), r.inline \in BOOLEAN
    PROVE  /\ IsSeq(FoundTargets(r))
           /\ r.inline =>
                 parseInlineList(Line(8, "types", "list", r.targets, 2 \in r.notes)) = FoundTargets(r)
           /\ ~r.inline =>
                 /\ Len(FoundTargets(r)) = Len(r.targets)
                 /\ \A i \in 1..Len(r.targets) :
                       parseItem(Line(10, None, "item", <<r.targets[i]>>, i + 2 \in r.notes)) = <<FoundTargets(r)[i]>>
<1> DEFINE n == Len(r.targets)
           v == [i \in 1..n |-> stripQuotes(IF ~r.inline /\ i + 2 \in r.notes THEN Noted(r.targets[i])
                                            ELSE r.targets[i])]
<1>1. n \in Nat /\ DOMAIN r.targets = 1..n
  BY SeqFacts
<1>2. FoundTargets(r) = IF r.inline /\ 2 \in r.notes THEN <<ListText>> ELSE v
  BY <1>1 DEF FoundTargets
<1>3. v = [i \in 1..n |-> v[i]]
  OBVIOUS
<1>4. IsSeq(v) /\ Len(v) = n
  <2> HIDE DEF v
  <2> QED BY <1>1, <1>3, FunctionIsSeq
<1>5. IsSeq(<<ListText>>)
  <2>1. <<ListText>> \in Seq({ListText})
    OBVIOUS
  <2> QED BY <2>1 DEF IsSeq
<1>6. IsSeq(FoundTargets(r))
  <2> HIDE DEF v
  <2> QED BY <1>2, <1>4, <1>5
<1>7. ASSUME r.inline
      PROVE  parseInlineList(Line(8, "types", "list", r.targets, 2 \in r.notes)) = FoundTargets(r)
  <2> DEFINE l == Line(8, "types", "list", r.targets, 2 \in r.notes)
  <2>1. l.tail = "list" /\ l.items = r.targets /\ l.note = (2 \in r.notes)
    BY LineFields
  <2> HIDE DEF l
  <2>2. parseInlineList(l) = IF 2 \in r.notes THEN <<ListText>>
                             ELSE [i \in 1..n |-> stripQuotes(r.targets[i])]
    BY <1>1, <2>1 DEF parseInlineList
  <2>3. v = [i \in 1..n |-> stripQuotes(r.targets[i])]
    BY <1>7
  <2> HIDE DEF v
  <2> QED BY <1>2, <1>7, <2>2, <2>3 DEF l
<1>8. ASSUME ~r.inline, NEW i \in 1..n
      PROVE  parseItem(Line(10, None, "item", <<r.targets[i]>>, i + 2 \in r.notes)) = <<FoundTargets(r)[i]>>
  <2> DEFINE l == Line(10, None, "item", <<r.targets[i]>>, i + 2 \in r.notes)
             x == stripQuotes(IF i + 2 \in r.notes THEN Noted(r.targets[i]) ELSE r.targets[i])
  <2>1. l.items = <<r.targets[i]>> /\ l.note = (i + 2 \in r.notes)
    BY LineFields
  <2> HIDE DEF l
  <2>2. parseItem(l) = [k \in 1..1 |-> x]
    <3>1. DOMAIN l.items = 1..1 /\ l.items[1] = r.targets[i]
      BY <2>1
    <3>2. \A k \in 1..1 : k = 1
      OBVIOUS
    <3> QED BY <2>1, <3>1, <3>2 DEF parseItem
  <2>3. v[i] = x
    BY <1>8
  <2> HIDE DEF v, x
  <2>4. FoundTargets(r)[i] = x
    BY <1>2, <1>8, <2>3
  <2>5. [k \in 1..1 |-> x] = <<x>>
    OBVIOUS
  <2> QED BY <2>2, <2>4, <2>5 DEF l
<1>9. ~r.inline => Len(FoundTargets(r)) = n
  <2> HIDE DEF v
  <2> QED BY <1>2, <1>4
<1> QED BY <1>6, <1>7, <1>8, <1>9

Relation(name, targets, inline, notes) ==
    [name |-> name, targets |-> targets, inline |-> inline, notes |-> notes]

RelationLines(name, targets, inline, notes) ==
    <<Line(6, name, "open", <<>>, 1 \in notes)>> \o
        IF inline THEN <<Line(8, "types", "list", targets, 2 \in notes)>>
        ELSE <<Line(8, "types", "open", <<>>, 2 \in notes)>> \o
             [i \in DOMAIN targets |-> Line(10, None, "item", <<targets[i]>>, i + 2 \in notes)]

\* The lines of a relation.
LEMMA RelationLinesFacts ==
    ASSUME NEW name, NEW targets, NEW inline \in BOOLEAN, NEW notes, IsSeq(targets)
    PROVE  LET more == RelationLines(name, targets, inline, notes)
           IN  /\ IsSeq(more)
               /\ more[1] = Line(6, name, "open", <<>>, 1 \in notes)
               /\ inline => Len(more) = 2 /\ more[2] = Line(8, "types", "list", targets, 2 \in notes)
               /\ ~inline => /\ Len(more) = Len(targets) + 2
                             /\ more[2] = Line(8, "types", "open", <<>>, 2 \in notes)
                             /\ \A i \in 1..Len(targets) :
                                   more[2 + i] = Line(10, None, "item", <<targets[i]>>, i + 2 \in notes)
<1> DEFINE more == RelationLines(name, targets, inline, notes)
           first == Line(6, name, "open", <<>>, 1 \in notes)
           list == Line(8, "types", "list", targets, 2 \in notes)
           open == Line(8, "types", "open", <<>>, 2 \in notes)
           items == [i \in DOMAIN targets |-> Line(10, None, "item", <<targets[i]>>, i + 2 \in notes)]
           n == Len(targets)
<1>1. n \in Nat /\ DOMAIN targets = 1..n
  BY SeqFacts
<1>2. \A x : IsSeq(<<x>>) /\ Len(<<x>>) = 1 /\ <<x>>[1] = x
  <2> TAKE x
  <2>1. <<x>> \in Seq({x})
    OBVIOUS
  <2> QED BY <2>1 DEF IsSeq
<1>3. IsSeq(items) /\ Len(items) = n /\ \A i \in 1..n : items[i] = Line(10, None, "item", <<targets[i]>>, i + 2 \in notes)
  <2>1. items = [i \in 1..n |-> items[i]] /\ \A i \in 1..n : items[i] = Line(10, None, "item", <<targets[i]>>, i + 2 \in notes)
    BY <1>1
  <2> HIDE DEF items
  <2> QED BY <1>1, <2>1, FunctionIsSeq
<1> HIDE DEF first, list, open, items
<1>4. CASE inline
  <2>1. more = <<first>> \o <<list>>
    BY <1>4 DEF RelationLines, first, list
  <2>2. /\ IsSeq(more) /\ Len(more) = 2 /\ \A i \in 1..1 : more[i] = <<first>>[i]
        /\ \A i \in 1..1 : more[1 + i] = <<list>>[i]
    <3> HIDE DEF more
    <3> QED BY <1>2, <2>1, ConcatFacts
  <2> HIDE DEF more
  <2>3. more[1] = first /\ more[1 + 1] = list
    BY <1>2, <2>2
  <2>4. 1 + 1 = 2
    OBVIOUS
  <2>5. more[2] = list
    BY <2>3, <2>4
  <2> QED BY <1>4, <2>2, <2>3, <2>5 DEF more, first, list
<1>5. CASE ~inline
  <2> DEFINE rest == <<open>> \o items
  <2>1. more = <<first>> \o rest
    BY <1>5 DEF RelationLines, first, open, items
  <2>2. /\ IsSeq(rest) /\ Len(rest) = 1 + n /\ \A i \in 1..1 : rest[i] = <<open>>[i]
        /\ \A i \in 1..n : rest[1 + i] = items[i]
    BY <1>2, <1>3, ConcatFacts
  <2> HIDE DEF rest, more
  <2>3. /\ IsSeq(more) /\ Len(more) = 1 + (1 + n) /\ \A i \in 1..1 : more[i] = <<first>>[i]
        /\ \A i \in 1..(1 + n) : more[1 + i] = rest[i]
    BY <1>2, <2>1, <2>2, ConcatFacts
  <2>4. more[1] = first /\ more[1 + 1] = open /\ rest[1] = open
    <3>1. 1 \in 1..(1 + n) /\ 1 \in 1..1
      BY <1>1
    <3> QED BY <1>2, <2>2, <2>3, <3>1
  <2>5. ASSUME NEW i \in 1..n PROVE more[2 + i] = items[i]
    <3>1. 1 + i \in 1..(1 + n) /\ 1 + (1 + i) = 2 + i
      BY <1>1
    <3> QED BY <2>2, <2>3, <3>1
  <2>6. 1 + 1 = 2 /\ 1 + (1 + n) = n + 2
    BY <1>1
  <2>7. more[2] = open /\ Len(more) = n + 2
    BY <2>3, <2>4, <2>6
  <2> QED BY <1>3, <1>5, <2>3, <2>4, <2>5, <2>7 DEF more, first, open
<1> QED BY <1>4, <1>5

\* A scanner that has read the first lines of a member of the type st ends with.
Reading(st, nm, mem, name, targets, depth) ==
    [types |-> WithMember(st.types, nm, mem, name, targets), depth |-> depth]

\* The first line of a relation begins it, without targets.
LEMMA ReadingStarts ==
    ASSUME NEW st, NEW nm, NEW mem, NEW name, Last(st.types) = [name |-> nm, members |-> mem]
    PROVE  PushMember(st, name) = Reading(st, nm, mem, name, <<>>, InMember)
<1>1. NewMember(name, <<>>) = [name |-> name, targets |-> <<>>]
  BY DEF NewMember
<1> QED BY <1>1, MemberAdded DEF PushMember, Reading, WithMember

\* Further targets are added to it.
LEMMA ReadingGoesOn ==
    ASSUME NEW st, NEW nm, NEW mem, NEW name, IsSeq(st.types), Len(st.types) > 0, IsSeq(mem),
           NEW x, NEW y, NEW a
    PROVE  PushTargets(Reading(st, nm, mem, name, x, a), y) = Reading(st, nm, mem, name, x \o y, a)
<1> DEFINE T(z) == WithMember(st.types, nm, mem, name, z)
           F(v) == [types |-> v, depth |-> a]
           u == x \o y
<1>1. \A z : Reading(st, nm, mem, name, z, a) = F(T(z))
  BY DEF Reading
<1>2. AddTargetsTo(T(x), y) = T(x \o y)
  BY TargetsAdded
<1>3. \A v, w : F(v).types = v /\ [F(v) EXCEPT !.types = w] = F(w)
  OBVIOUS
<1> HIDE DEF T, u, F
<1>4. \A v : PushTargets(F(v), y) = F(AddTargetsTo(v, y))
  BY <1>3 DEF PushTargets
<1>5. PushTargets(F(T(x)), y) = F(T(u))
  BY <1>2, <1>4 DEF u
<1>6. Reading(st, nm, mem, name, x, a) = F(T(x)) /\ Reading(st, nm, mem, name, u, a) = F(T(u))
  BY <1>1
<1> QED BY <1>5, <1>6 DEF u

\* The dialog reads a relation with all its targets, from an inline list or
\* from a list below.
LEMMA RelationRead ==
    ASSUME NEW text, IsSeq(text), NEW name, name # "#", NEW targets, IsSeq(targets),
           NEW inline \in BOOLEAN, NEW notes, ~(1 \in notes), inline \/ ~(2 \in notes),
           NEW st, st = ScanState(text, "relations"), st.depth >= InSection,
           NEW nm, NEW mem, IsSeq(st.types), Len(st.types) > 0,
           Last(st.types) = [name |-> nm, members |-> mem], IsSeq(mem)
    PROVE  \E b \in InMember..InList :
              ScanState(text \o RelationLines(name, targets, inline, notes), "relations") =
                  Reading(st, nm, mem, name, FoundTargets(Relation(name, targets, inline, notes)), b)
<1> DEFINE more == RelationLines(name, targets, inline, notes)
           R(x, b) == Reading(st, nm, mem, name, x, b)
           n == Len(targets)
           r == Relation(name, targets, inline, notes)
           v == FoundTargets(r)
<1>1. /\ IsSeq(more)
      /\ more[1] = Line(6, name, "open", <<>>, 1 \in notes)
      /\ inline => Len(more) = 2 /\ more[2] = Line(8, "types", "list", targets, 2 \in notes)
      /\ ~inline => /\ Len(more) = n + 2
                    /\ more[2] = Line(8, "types", "open", <<>>, 2 \in notes)
                    /\ \A i \in 1..n : more[2 + i] = Line(10, None, "item", <<targets[i]>>, i + 2 \in notes)
  BY RelationLinesFacts
<1>13. /\ IsSeq(v)
       /\ inline => parseInlineList(Line(8, "types", "list", targets, 2 \in notes)) = v
       /\ ~inline =>
             /\ Len(v) = n
             /\ \A i \in 1..n :
                   parseItem(Line(10, None, "item", <<targets[i]>>, i + 2 \in notes)) = <<v[i]>>
  <2>1. r.targets = targets /\ r.inline = inline /\ r.notes = notes
    BY DEF Relation
  <2> HIDE DEF r
  <2> QED BY <2>1, FoundFacts
<1> HIDE DEF v, r
<1>2. PushMember(st, name) = R(<<>>, InMember)
  BY ReadingStarts
<1>3. \A x, a, b : R(x, a).depth = a /\ At(R(x, a), b) = R(x, b)
  <2>1. \A w, a, b : /\ [types |-> w, depth |-> a].depth = a
                     /\ At([types |-> w, depth |-> a], b) = [types |-> w, depth |-> b]
    BY DEF At
  <2> QED BY <2>1 DEF Reading
<1>4. \A x, y, a : PushTargets(R(x, a), y) = R(x \o y, a)
  BY ReadingGoesOn
<1> HIDE DEF more, R
<1>0. PICK f : ScanMore(text, more, "relations", f)
  BY <1>1, ScanExtends
<1>5. /\ f[0] = st
      /\ \A k \in 1..Len(more) : f[k] = ScanLine(f[k - 1], more[k], "relations")
      /\ ScanState(text \o more, "relations") = f[Len(more)]
  BY <1>0 DEF ScanMore
<1>6. n \in Nat
  BY SeqFacts
<1>7. 1 \in 1..Len(more) /\ 2 \in 1..Len(more) /\ 1 - 1 = 0 /\ 2 - 1 = 1
  BY <1>1, <1>6
<1>8. f[1] = R(<<>>, InMember)
  <2>1. f[1] = ScanLine(st, Line(6, name, "open", <<>>, 1 \in notes), "relations")
    BY <1>1, <1>5, <1>7
  <2> QED BY <1>2, <2>1, FirstLine
<1>9. f[2] = ScanLine(R(<<>>, InMember), more[2], "relations")
  BY <1>5, <1>7, <1>8
<1>10. InMember \in InMember..InList /\ InList \in InMember..InList
  BY DEF InMember, InList
<1>11. CASE inline
  <2>1. f[2] = ScanLine(R(<<>>, InMember), Line(8, "types", "list", targets, 2 \in notes), "relations")
    BY <1>1, <1>9, <1>11
  <2>2. f[2] = PushTargets(At(R(<<>>, InMember), InMember), v)
    <3>1. "list" # "open" /\ R(<<>>, InMember).depth = InMember
      BY <1>3
    <3> QED BY <1>11, <1>13, <2>1, <3>1, TypesLine
  <2>3. f[2] = R(<<>> \o v, InMember)
    <3>1. At(R(<<>>, InMember), InMember) = R(<<>>, InMember)
      BY <1>3
    <3> QED BY <1>4, <2>2, <3>1, ZenonT(60)
  <2>4. f[2] = R(v, InMember)
    BY <1>13, <2>3, PrefixFacts
  <2>5. ScanState(text \o more, "relations") = R(v, InMember)
    BY <1>1, <1>5, <1>11, <2>4
  <2> QED BY <1>10, <2>5 DEF more, R, v, r
<1>12. CASE ~inline
  <2>1. f[2] = R(Prefix(v, 0), InList)
    <3>1. f[2] = ScanLine(R(<<>>, InMember), Line(8, "types", "open", <<>>, 2 \in notes), "relations")
      BY <1>1, <1>9, <1>12
    <3>2. f[2] = At(R(<<>>, InMember), InList)
      BY <1>3, <1>12, <3>1, TypesLine
    <3>3. Prefix(v, 0) = <<>>
      BY <1>13, PrefixFacts
    <3> QED BY <1>3, <3>2, <3>3
  <2> DEFINE S == {k \in 0..n : f[2 + k] = R(Prefix(v, k), InList)}
  <2>2. 0 \in S
    <3>1. 2 + 0 = 2 /\ 0 \in 0..n
      BY <1>6
    <3> QED BY <2>1, <3>1
  <2>3. ASSUME NEW k \in 0..(n - 1), k \in S PROVE k + 1 \in S
    <3>1. /\ 2 + (k + 1) \in 1..Len(more) /\ (2 + (k + 1)) - 1 = 2 + k /\ k + 1 \in 1..n
          /\ k + 1 \in 0..n
      BY <1>1, <1>6, <1>12
    <3>2. f[2 + k] = R(Prefix(v, k), InList)
      BY <2>3
    <3>3. more[2 + (k + 1)] = Line(10, None, "item", <<targets[k + 1]>>, (k + 1) + 2 \in notes)
      BY <1>1, <1>12, <3>1
    <3>4. f[2 + (k + 1)] =
             ScanLine(R(Prefix(v, k), InList), Line(10, None, "item", <<targets[k + 1]>>, (k + 1) + 2 \in notes), "relations")
      BY <1>5, <3>1, <3>2, <3>3
    <3>5. f[2 + (k + 1)] = PushTargets(R(Prefix(v, k), InList), <<v[k + 1]>>)
      <4>1. R(Prefix(v, k), InList).depth = InList
        BY <1>3
      <4>2. parseItem(Line(10, None, "item", <<targets[k + 1]>>, (k + 1) + 2 \in notes)) = <<v[k + 1]>>
        BY <1>12, <1>13, <3>1
      <4> QED BY <3>4, <4>1, <4>2, ItemLine
    <3>6. f[2 + (k + 1)] = R(Prefix(v, k) \o <<v[k + 1]>>, InList)
      BY <1>4, <3>5
    <3>7. Prefix(v, k) \o <<v[k + 1]>> = Prefix(v, k + 1)
      BY <1>12, <1>13, PrefixFacts
    <3>8. f[2 + (k + 1)] = R(Prefix(v, k + 1), InList)
      BY <3>6, <3>7
    <3> QED BY <3>1, <3>8
  <2>4. n \in S
    <3>1. \A k \in 0..n : k \in S
      <4> HIDE DEF S
      <4> QED BY <1>6, <2>2, <2>3, BoundedInduction
    <3>2. n \in 0..n
      BY <1>6
    <3> HIDE DEF S, n
    <3> QED BY <3>1, <3>2
  <2>5. f[2 + n] = R(v, InList)
    BY <1>12, <1>13, <2>4, PrefixFacts
  <2>6. 2 + n = Len(more)
    BY <1>1, <1>6, <1>12
  <2>7. ScanState(text \o more, "relations") = R(v, InList)
    BY <1>5, <2>5, <2>6
  <2> QED BY <1>10, <2>7 DEF more, R, v, r
<1> QED BY <1>11, <1>12

PermissionLines(name, union, notes) ==
    <<Line(6, name, "open", <<>>, 1 \in notes)>> \o
        IF union THEN <<Line(8, "union", "open", <<>>, 2 \in notes), Line(10, None, "item", <<>>, 3 \in notes)>>
        ELSE <<Line(8, "resolve", "value", <<>>, 2 \in notes)>>

\* The lines of a permission.
LEMMA PermissionLinesFacts ==
    ASSUME NEW name, NEW union \in BOOLEAN, NEW notes
    PROVE  LET more == PermissionLines(name, union, notes)
           IN  /\ IsSeq(more) /\ Len(more) = IF union THEN 3 ELSE 2
               /\ more[1] = Line(6, name, "open", <<>>, 1 \in notes)
               /\ union => /\ more[2] = Line(8, "union", "open", <<>>, 2 \in notes)
                           /\ more[3] = Line(10, None, "item", <<>>, 3 \in notes)
               /\ ~union => more[2] = Line(8, "resolve", "value", <<>>, 2 \in notes)
<1> DEFINE more == PermissionLines(name, union, notes)
           a == Line(6, name, "open", <<>>, 1 \in notes)
           b == Line(8, "union", "open", <<>>, 2 \in notes)
           c == Line(10, None, "item", <<>>, 3 \in notes)
           d == Line(8, "resolve", "value", <<>>, 2 \in notes)
           rest == IF union THEN <<b, c>> ELSE <<d>>
<1>1. more = <<a>> \o rest
  BY DEF PermissionLines
<1> HIDE DEF a, b, c, d, more
<1>2. /\ IsSeq(<<a>>) /\ Len(<<a>>) = 1 /\ <<a>>[1] = a
      /\ IsSeq(rest) /\ Len(rest) = IF union THEN 2 ELSE 1
      /\ (union => rest[1] = b /\ rest[2] = c) /\ (~union => rest[1] = d)
  <2>1. <<a>> \in Seq({a}) /\ <<b, c>> \in Seq({b, c}) /\ <<d>> \in Seq({d})
    OBVIOUS
  <2> QED BY <2>1 DEF IsSeq
<1> HIDE DEF rest
<1>3. /\ IsSeq(more) /\ Len(more) = Len(<<a>>) + Len(rest)
      /\ \A i \in 1..Len(<<a>>) : more[i] = <<a>>[i]
      /\ \A i \in 1..Len(rest) : more[Len(<<a>>) + i] = rest[i]
  BY <1>1, <1>2, ConcatFacts
<1>4. more[1] = a
  <2>1. 1 \in 1..Len(<<a>>)
    BY <1>2
  <2> QED BY <1>2, <1>3, <2>1
<1>5. CASE union
  <2>1. 1 \in 1..Len(rest) /\ 2 \in 1..Len(rest) /\ Len(<<a>>) + 1 = 2 /\ Len(<<a>>) + 2 = 3
    BY <1>2, <1>5
  <2>2. more[2] = b /\ more[3] = c
    BY <1>2, <1>3, <1>5, <2>1
  <2>3. Len(more) = 3
    BY <1>2, <1>3, <1>5
  <2> QED BY <1>3, <1>4, <1>5, <2>2, <2>3 DEF more, a, b, c
<1>6. CASE ~union
  <2>1. 1 \in 1..Len(rest) /\ Len(<<a>>) + 1 = 2
    BY <1>2, <1>6
  <2>2. more[2] = d
    BY <1>2, <1>3, <1>6, <2>1
  <2>3. Len(more) = 2
    BY <1>2, <1>3, <1>6
  <2> QED BY <1>3, <1>4, <1>6, <2>2, <2>3 DEF more, a, d
<1> QED BY <1>5, <1>6

\* The evaluator reads its name.
LEMMA PermissionRead ==
    ASSUME NEW text, IsSeq(text), NEW name, name # "#", NEW union \in BOOLEAN,
           NEW notes, ~(1 \in notes),
           NEW st, st = ScanState(text, "permissions"), st.depth >= InSection
    PROVE  ScanState(text \o PermissionLines(name, union, notes), "permissions") = PushMember(st, name)
<1> DEFINE more == PermissionLines(name, union, notes)
           w == PushMember(st, name)
<1>1. /\ IsSeq(more) /\ Len(more) = IF union THEN 3 ELSE 2
      /\ more[1] = Line(6, name, "open", <<>>, 1 \in notes)
      /\ more[2].indent = 8 /\ (union => more[3].indent = 10)
  <2>1. /\ IsSeq(more) /\ Len(more) = IF union THEN 3 ELSE 2
        /\ more[1] = Line(6, name, "open", <<>>, 1 \in notes)
        /\ union => /\ more[2] = Line(8, "union", "open", <<>>, 2 \in notes)
                    /\ more[3] = Line(10, None, "item", <<>>, 3 \in notes)
        /\ ~union => more[2] = Line(8, "resolve", "value", <<>>, 2 \in notes)
    BY PermissionLinesFacts
  <2> HIDE DEF more
  <2> QED BY <2>1, LineFields
<1> HIDE DEF more
<1>2. PICK f : ScanMore(text, more, "permissions", f)
  BY <1>1, ScanExtends
<1>3. /\ f[0] = st
      /\ \A k \in 1..Len(more) : f[k] = ScanLine(f[k - 1], more[k], "permissions")
      /\ ScanState(text \o more, "permissions") = f[Len(more)]
  BY <1>2 DEF ScanMore
<1>4. f[1] = ScanLine(f[0], more[1], "permissions") /\ f[2] = ScanLine(f[1], more[2], "permissions")
  <2>1. 1 \in 1..Len(more) /\ 2 \in 1..Len(more) /\ 1 - 1 = 0 /\ 2 - 1 = 1
    BY <1>1
  <2> QED BY <1>3, <2>1
<1>5. f[1] = w
  <2>1. f[1] = ScanLine(st, Line(6, name, "open", <<>>, 1 \in notes), "permissions")
    BY <1>1, <1>3, <1>4
  <2> QED BY <2>1, FirstLine
<1>6. w.depth >= InSection
  BY DEF PushMember, InSection, InMember
<1> HIDE DEF w
<1>7. f[2] = w
  BY <1>1, <1>4, <1>5, <1>6, RuleLine
<1>8. CASE union
  <2>1. f[3] = ScanLine(f[2], more[3], "permissions")
    <3>1. 3 \in 1..Len(more) /\ 3 - 1 = 2
      BY <1>1, <1>8
    <3> QED BY <1>3, <3>1
  <2>2. f[3] = w
    BY <1>1, <1>6, <1>7, <1>8, <2>1, RuleLine
  <2> QED BY <1>1, <1>3, <1>8, <2>2 DEF more, w
<1>9. CASE ~union
  BY <1>1, <1>3, <1>7, <1>9 DEF more, w
<1> QED BY <1>8, <1>9

-----------------------------------------------------------------------------
(* The steps of the author.                                                 *)

\* An empty document has been read.
LEMMA TextInit ==
    ASSUME Init
    PROVE  TextInv
<1>1. IsSeq(doc) /\ meaning \in Seq(TypeMeaning) /\ DOMAIN meaning = {} /\ meaning = <<>>
  <2>1. doc \in Seq({}) /\ meaning \in Seq(TypeMeaning) /\ DOMAIN meaning = {} /\ meaning = <<>>
    BY DEF Init
  <2> QED BY <2>1 DEF IsSeq
<1>2. TextType /\ SectionsOnce
  BY <1>1 DEF Init, TextType, SectionsOnce, Sections
<1>3. ASSUME NEW section \in {"relations", "permissions"}
      PROVE  Follows(section, ScanState(doc, section))
  <2>1. Len(doc) = 0
    BY DEF Init
  <2>2. PICK f : ScanRun(doc, section, 0, f) /\ ScanState(doc, section) = f[0]
    BY <2>1, ScanStateIsRun
  <2>3. ScanState(doc, section) = Start
    BY <2>2 DEF ScanRun
  <2>4. Declared(meaning, section) = <<>>
    <3>1. IsSeq(Declared(meaning, section)) /\ Len(Declared(meaning, section)) = Len(meaning)
      BY <1>1, DeclaredFacts
    <3>2. Len(meaning) = 0 /\ IsSeq(<<>>) /\ Len(<<>>) = 0
      BY <1>1 DEF IsSeq
    <3> QED BY <3>1, <3>2, SameElements
  <2>5. Start = [types |-> Start.types, depth |-> Start.depth] /\ Start.types = <<>> /\ Start.depth = 0
    BY DEF Start
  <2>6. IsState(Start)
    BY <2>5 DEF IsState, InList
  <2> QED BY <2>3, <2>4, <2>5, <2>6 DEF Follows, Init, Sections
<1> QED BY <1>2, <1>3 DEF TextInv, ScanInv

\* The text grows.
LEMMA Written ==
    ASSUME TextType, NEW lines, IsSeq(lines), Write(lines)
    PROVE  doc' = doc \o lines /\ IsSeq(doc') /\ IsSeq(doc)
  BY ConcatFacts DEF TextType, Write

\* The text has no comment behind a colon when the longer text has none.
LEMMA BareBefore ==
    ASSUME TextType, NEW lines, IsSeq(lines), Write(lines), OpeningsAreBare'
    PROVE  OpeningsAreBare /\ \A i \in 1..Len(lines) : lines[i].tail = "open" => ~lines[i].note
<1>1. doc' = doc \o lines /\ IsSeq(doc') /\ IsSeq(doc)
  BY Written
<1>2. /\ Len(doc') = Len(doc) + Len(lines) /\ Len(doc) \in Nat /\ Len(lines) \in Nat
      /\ DOMAIN doc = 1..Len(doc) /\ DOMAIN doc' = 1..Len(doc')
      /\ \A i \in 1..Len(doc) : doc'[i] = doc[i]
      /\ \A i \in 1..Len(lines) : doc'[Len(doc) + i] = lines[i]
  BY <1>1, SeqFacts, ConcatFacts
<1>3. \A i \in DOMAIN doc' : doc'[i].tail = "open" => ~doc'[i].note
  BY DEF OpeningsAreBare
<1>4. ASSUME NEW i \in 1..Len(doc), doc[i].tail = "open" PROVE ~doc[i].note
  <2>1. i \in DOMAIN doc' /\ doc'[i] = doc[i]
    BY <1>2
  <2> QED BY <1>3, <1>4, <2>1
<1>5. ASSUME NEW i \in 1..Len(lines), lines[i].tail = "open" PROVE ~lines[i].note
  <2>1. Len(doc) + i \in DOMAIN doc' /\ doc'[Len(doc) + i] = lines[i]
    BY <1>2
  <2> QED BY <1>3, <1>5, <2>1
<1>6. OpeningsAreBare
  BY <1>2, <1>4 DEF OpeningsAreBare
<1> QED BY <1>5, <1>6

\* A line, and lines one after the other, that the invariant carries over.
LEMMA SingleLine ==
    ASSUME TextType, NEW l, Write(<<l>>)
    PROVE  /\ IsSeq(doc')
           /\ \A section : ScanState(doc', section) = ScanLine(ScanState(doc, section), l, section)
           /\ OpeningsAreBare' => OpeningsAreBare /\ (l.tail = "open" => ~l.note)
<1>1. IsSeq(<<l>>) /\ Len(<<l>>) = 1 /\ <<l>>[1] = l
  <2>1. <<l>> \in Seq({l})
    OBVIOUS
  <2> QED BY <2>1 DEF IsSeq
<1>2. ASSUME OpeningsAreBare' PROVE OpeningsAreBare /\ (l.tail = "open" => ~l.note)
  <2>1. OpeningsAreBare /\ \A i \in 1..1 : <<l>>[i].tail = "open" => ~<<l>>[i].note
    BY <1>1, <1>2, BareBefore
  <2>2. 1 \in 1..1
    OBVIOUS
  <2> QED BY <1>1, <2>1, <2>2
<1> QED BY <1>1, <1>2, Written, ScanOne

\* What the invariant says of one scanner.
LEMMA FieldsOfFollows ==
    ASSUME TextInv, OpeningsAreBare, NEW section \in {"relations", "permissions"}
    PROVE  LET st == ScanState(doc, section)
           IN  /\ st = [types |-> st.types, depth |-> st.depth] /\ st.depth \in 0..5
               /\ st.types = Declared(meaning, section)
               /\ place # "top" => st.depth >= 1
               /\ place \in {"type"} \cup Sections => st.depth >= 2 /\ (st.depth >= 3 <=> place = section)
<1> DEFINE st == ScanState(doc, section)
<1>1. Follows(section, st)
  BY DEF TextInv, ScanInv
<1> HIDE DEF st
<1>2. /\ st = [types |-> st.types, depth |-> st.depth] /\ st.depth \in 0..5
      /\ st.types = Declared(meaning, section)
      /\ place # "top" => st.depth >= 1
      /\ place \in {"type"} \cup Sections => st.depth >= 2 /\ (st.depth >= 3 <=> place = section)
  BY <1>1 DEF Follows, IsState, InTypes, InType, InSection, InList
<1> QED BY <1>2 DEF st

\* A scanner that is where it should be after a step.
LEMMA FollowsAfter ==
    ASSUME NEW section, NEW types, NEW depth \in 0..5,
           ScanState(doc, section)' = [types |-> types, depth |-> depth],
           types = Declared(meaning', section),
           place' # "top" => depth >= 1,
           place' \in {"type"} \cup Sections => depth >= 2 /\ (depth >= 3 <=> place' = section)
    PROVE  Follows(section, ScanState(doc, section))'
<1> DEFINE st == ScanState(doc, section)'
<1>1. st.types = types /\ st.depth = depth /\ st = [types |-> st.types, depth |-> st.depth]
  OBVIOUS
<1> HIDE DEF st
<1>2. IsState(st)
  BY <1>1 DEF IsState, InList
<1>3. /\ st.types = Declared(meaning', section)
      /\ place' # "top" => st.depth >= InTypes
      /\ place' \in {"type"} \cup Sections => st.depth >= InType /\ (st.depth >= InSection <=> place' = section)
  BY <1>1 DEF InTypes, InType, InSection
<1> QED BY <1>2, <1>3 DEF Follows, st

\* A line at the left margin: the version, or the start of the types.
LEMMA TopLine ==
    ASSUME TextInv, NEW key, key # "#", NEW tail, NEW note, Write(<<Line(0, key, tail, <<>>, note)>>),
           meaning' = meaning,
           key = "types" /\ tail = "open" => place' \in {"top", "types"},
           ~(key = "types" /\ tail = "open") => place' = "top"
    PROVE  TextInv'
<1> DEFINE l == Line(0, key, tail, <<>>, note)
<1>1. l.indent = 0 /\ l.key = key /\ l.tail = tail
  BY LineFields
<1> HIDE DEF l
<1>2. /\ IsSeq(doc') /\ \A section : ScanState(doc', section) = ScanLine(ScanState(doc, section), l, section)
      /\ OpeningsAreBare' => OpeningsAreBare /\ (l.tail = "open" => ~l.note)
  BY SingleLine DEF l, TextInv
<1>3. place' \in {"top", "types"}
  OBVIOUS
<1>4. TextType'
  BY <1>2, <1>3 DEF TextInv, TextType, Sections
<1>5. SectionsOnce'
  BY <1>3 DEF TextInv, SectionsOnce, Sections
<1>6. ASSUME OpeningsAreBare', NEW section \in {"relations", "permissions"}
      PROVE  Follows(section, ScanState(doc, section))'
  <2> DEFINE st == ScanState(doc, section)
             d == IF key = "types" /\ tail = "open" THEN 1 ELSE 0
  <2>1. st = [types |-> st.types, depth |-> st.depth] /\ st.types = Declared(meaning, section)
    BY <1>2, <1>6, FieldsOfFollows
  <2>2. ScanState(doc', section) = At(st, d)
    <3>1. ScanLine(st, l, section) = At(st, d)
      BY <1>1, <1>2, <1>6 DEF ScanLine, IsComment, Scan, Opens, InTypes
    <3> QED BY <1>2, <3>1
  <2> HIDE DEF d
  <2>3. At(st, d) = [types |-> st.types, depth |-> d]
    BY <2>1 DEF At
  <2>4. d \in 0..5 /\ (place' # "top" => d >= 1) /\ ~(place' \in {"type"} \cup Sections)
    BY <1>3 DEF d, Sections
  <2> QED BY <2>1, <2>2, <2>3, <2>4, FollowsAfter
<1> QED BY <1>4, <1>5, <1>6 DEF TextInv, ScanInv

\* A type is written, with a body or without.
LEMMA TypeWritten ==
    ASSUME TextInv, NEW name \in TypeNames, NEW bare \in BOOLEAN, NEW note, WriteType(name, bare, note)
    PROVE  TextInv'
<1> DEFINE l == Line(2, name, IF bare THEN "empty" ELSE "open", <<>>, note)
           t == [name |-> name, sections |-> {}, latest |-> None, relations |-> <<>>, permissions |-> <<>>]
<1>1. l.indent = 2 /\ l.key = name /\ l.tail = IF bare THEN "empty" ELSE "open"
  BY LineFields
<1> HIDE DEF l
<1>2. /\ IsSeq(doc') /\ \A section : ScanState(doc', section) = ScanLine(ScanState(doc, section), l, section)
      /\ OpeningsAreBare' => OpeningsAreBare /\ (l.tail = "open" => ~l.note)
  BY SingleLine DEF l, TextInv, WriteType
<1>3. name # "#" /\ place # "top"
  BY TextAssumption DEF WriteType
<1>4. meaning \in Seq(TypeMeaning) /\ IsSeq(meaning)
  BY DEF TextInv, TextType, IsSeq
<1>5. t \in TypeMeaning
  BY DEF TypeMeaning, Sections
<1>6. CASE bare
  <2>1. meaning' = meaning /\ place' = "types"
    BY <1>6 DEF WriteType
  <2>2. TextType' /\ SectionsOnce'
    BY <1>2, <2>1 DEF TextInv, TextType, SectionsOnce, Sections
  <2>3. ASSUME OpeningsAreBare', NEW section \in {"relations", "permissions"}
        PROVE  Follows(section, ScanState(doc, section))'
    <3> DEFINE st == ScanState(doc, section)
    <3>1. /\ st = [types |-> st.types, depth |-> st.depth] /\ st.depth \in 0..5
          /\ st.types = Declared(meaning, section) /\ st.depth >= 1
      BY <1>2, <1>3, <2>3, FieldsOfFollows
    <3> HIDE DEF st
    <3>2. ScanLine(st, l, section) = st \/ (st.depth >= 4 /\ ScanLine(st, l, section) = At(st, 4))
      <4>1. ScanLine(st, l, section) = IF st.depth >= 3 THEN SectionLine(st, l, section) ELSE st
        BY <1>1, <1>3, <1>6 DEF ScanLine, IsComment, Scan, Opens, InSection
      <4>2. PermissionLine(st, l) = st
        BY <1>1 DEF PermissionLine
      <4>3. RelationLine(st, l) = IF st.depth >= 4 THEN At(st, 4) ELSE st
        BY <1>1 DEF RelationLine, InMember
      <4> QED BY <4>1, <4>2, <4>3 DEF SectionLine
    <3>3. At(st, 4) = [types |-> st.types, depth |-> 4]
      BY <3>1 DEF At
    <3>4. PICK d \in 0..5 : d >= 1 /\ ScanLine(st, l, section) = [types |-> st.types, depth |-> d]
      <4>1. CASE ScanLine(st, l, section) = st
        BY <3>1, <4>1
      <4>2. CASE st.depth >= 4 /\ ScanLine(st, l, section) = At(st, 4)
        BY <3>3, <4>2
      <4> QED BY <3>2, <4>1, <4>2
    <3>5. ScanState(doc', section) = [types |-> st.types, depth |-> d]
      BY <1>2, <3>4 DEF st
    <3>6. ~(place' \in {"type"} \cup Sections)
      BY <2>1 DEF Sections
    <3> QED BY <2>1, <3>1, <3>4, <3>5, <3>6, FollowsAfter
  <2> QED BY <2>2, <2>3 DEF TextInv, ScanInv
<1>7. CASE ~bare
  <2>1. meaning' = Append(meaning, t) /\ place' = "type"
    BY <1>7 DEF WriteType
  <2> HIDE DEF t
  <2>2. TextType'
    BY <1>2, <1>4, <1>5, <2>1 DEF TextType, Sections
  <2>3. SectionsOnce'
    <3>1. t.permissions = <<>>
      BY DEF t
    <3>2. /\ Len(meaning') = Len(meaning) + 1 /\ meaning'[Len(meaning) + 1] = t
          /\ \A i \in 1..Len(meaning) : meaning'[i] = meaning[i]
      BY <1>4, <2>1, AppendFacts
    <3>3. ASSUME NEW i \in DOMAIN meaning', "permissions" \notin meaning'[i].sections
          PROVE  meaning'[i].permissions = <<>>
      <4>1. Len(meaning) \in Nat /\ DOMAIN meaning = 1..Len(meaning) /\ DOMAIN meaning' = 1..(Len(meaning) + 1)
        BY <1>4, <1>5, <2>1
      <4>2. CASE i = Len(meaning) + 1
        BY <3>1, <3>2, <4>2
      <4>3. CASE i \in 1..Len(meaning)
        <5>1. "permissions" \notin meaning[i].sections
          BY <3>2, <3>3, <4>3
        <5> QED BY <3>2, <4>1, <4>3, <5>1 DEF TextInv, SectionsOnce
      <4> QED BY <4>1, <4>2, <4>3
    <3> QED BY <2>1, <3>3 DEF SectionsOnce, Sections
  <2>4. ASSUME OpeningsAreBare', NEW section \in {"relations", "permissions"}
        PROVE  Follows(section, ScanState(doc, section))'
    <3> DEFINE st == ScanState(doc, section)
    <3>1. st.types = Declared(meaning, section) /\ st.depth >= 1
      BY <1>2, <1>3, <2>4, FieldsOfFollows
    <3> HIDE DEF st
    <3>2. ScanLine(st, l, section) = PushType(st, name)
      BY <1>1, <1>2, <1>3, <1>7, <2>4, <3>1 DEF ScanLine, IsComment, Scan, Opens, InTypes
    <3>3. DeclaredType(t, section) = [name |-> name, members |-> <<>>]
      <4>1. t.name = name /\ t.relations = <<>> /\ t.permissions = <<>>
        BY DEF t
      <4>2. IsSeq(Members(t, section)) /\ Len(Members(t, section)) = 0
        <5>1. section = "relations" => Len(Members(t, section)) = Len(t.relations)
          BY <1>5, MembersFacts
        <5>2. section = "permissions" => Len(Members(t, section)) = Len(t.permissions)
          BY <1>5, MembersFacts
        <5>3. IsSeq(Members(t, section))
          BY <1>5, MembersFacts
        <5> QED BY <4>1, <5>1, <5>2, <5>3
      <4>3. IsSeq(<<>>) /\ Len(<<>>) = 0
        BY DEF IsSeq
      <4>4. Members(t, section) = <<>>
        BY <4>2, <4>3, SameElements
      <4> QED BY <4>1, <4>4 DEF DeclaredType
    <3>4. Declared(meaning', section) = Append(st.types, [name |-> name, members |-> <<>>])
      BY <1>4, <1>5, <2>1, <3>1, <3>3, TypeDeclared
    <3>5. ScanState(doc', section) = [types |-> Declared(meaning', section), depth |-> 2]
      BY <1>2, <3>2, <3>4 DEF st, PushType, InType
    <3>6. place' # section /\ 2 \in 0..5 /\ 2 >= 1 /\ 2 >= 2 /\ ~(2 >= 3)
      BY <2>1
    <3> QED BY <3>5, <3>6, FollowsAfter
  <2> QED BY <2>2, <2>3, <2>4 DEF TextInv, ScanInv
<1> QED BY <1>6, <1>7

\* The type that is being written changes.
LEMMA LastTypeWritten ==
    ASSUME TextInv, meaning # <<>>, NEW u \in TypeMeaning, meaning' = SetLast(meaning, u),
           IsSeq(doc'), place' \in Sections, place' \in u.sections,
           "permissions" \notin u.sections => u.permissions = <<>>
    PROVE  TextType' /\ SectionsOnce'
<1>1. meaning \in Seq(TypeMeaning) /\ IsSeq(meaning) /\ Len(meaning) > 0 /\ Len(meaning) \in Nat
  BY MeaningFacts DEF TextInv, TextType
<1>2. meaning' \in Seq(TypeMeaning)
  BY <1>1, LastDeclared
<1>3. /\ Len(meaning') = Len(meaning) /\ meaning'[Len(meaning)] = u
      /\ \A i \in 1..(Len(meaning) - 1) : meaning'[i] = meaning[i]
  BY <1>1, SetLastFacts
<1>4. TextType'
  <2>1. meaning' # <<>>
    BY <1>1, <1>2, <1>3
  <2> QED BY <1>2, <2>1 DEF TextType
<1>5. ASSUME NEW i \in DOMAIN meaning', "permissions" \notin meaning'[i].sections
      PROVE  meaning'[i].permissions = <<>>
  <2>1. DOMAIN meaning = 1..Len(meaning) /\ DOMAIN meaning' = 1..Len(meaning)
    BY <1>1, <1>2, <1>3
  <2>2. CASE i = Len(meaning)
    BY <1>3, <1>5, <2>2
  <2>3. CASE i \in 1..(Len(meaning) - 1)
    <3>1. "permissions" \notin meaning[i].sections /\ i \in DOMAIN meaning
      BY <1>3, <1>5, <2>1, <2>3
    <3> QED BY <1>3, <2>3, <3>1 DEF TextInv, SectionsOnce
  <2> QED BY <1>1, <2>1, <2>2, <2>3
<1>6. place' \in meaning'[Len(meaning')].sections
  BY <1>3
<1>7. SectionsOnce'
  BY <1>5, <1>6 DEF SectionsOnce, Here
<1> QED BY <1>4, <1>7

\* What a scanner is to find of it stays the same if its members do.
LEMMA MembersKept ==
    ASSUME NEW types \in Seq(TypeMeaning), types # <<>>, NEW u \in TypeMeaning, NEW section,
           u.name = types[Len(types)].name,
           Members(u, section) = Members(types[Len(types)], section)
    PROVE  Declared(SetLast(types, u), section) = Declared(types, section)
<1> DEFINE d == Declared(types, section)
           n == Len(types)
<1>1. n \in Nat /\ n > 0 /\ n \in 1..n
  BY MeaningFacts
<1>2. IsSeq(d) /\ Len(d) = n /\ d[n] = DeclaredType(types[n], section)
  BY <1>1, DeclaredFacts
<1>3. DeclaredType(u, section) = d[n]
  BY <1>2 DEF DeclaredType
<1>4. Declared(SetLast(types, u), section) = SetLast(d, d[n])
  BY <1>3, LastDeclared
<1> HIDE DEF d, n
<1>5. SetLast(d, d[n]) = d
  <2> DEFINE e == SetLast(d, d[n])
  <2>1. IsSeq(e) /\ Len(e) = n /\ e[n] = d[n] /\ \A i \in 1..(n - 1) : e[i] = d[i]
    BY <1>1, <1>2, SetLastFacts
  <2> HIDE DEF e
  <2>2. \A i \in 1..n : i = n \/ i \in 1..(n - 1)
    BY <1>1
  <2>3. \A i \in 1..n : e[i] = d[i]
    BY <2>1, <2>2
  <2>4. e = d
    BY <1>2, <2>1, <2>3, SameElements
  <2> QED BY <2>4 DEF e
<1> QED BY <1>4, <1>5 DEF d

\* The types d of a scanner, the last one with these members, and e with m
\* after them.
Grows(d, e, name, members, m) ==
    /\ e = AddMember(d, m)
    /\ e = SetLast(d, [name |-> name, members |-> Append(members, m)])
    /\ IsSeq(d) /\ Len(d) > 0
    /\ Last(d) = [name |-> name, members |-> members] /\ IsSeq(members)

\* It has one more if the type has.
LEMMA MembersGrow ==
    ASSUME NEW types \in Seq(TypeMeaning), types # <<>>, NEW u \in TypeMeaning, NEW section, NEW m,
           u.name = types[Len(types)].name,
           Members(u, section) = Append(Members(types[Len(types)], section), m)
    PROVE  Grows(Declared(types, section), Declared(SetLast(types, u), section),
                 u.name, Members(types[Len(types)], section), m)
<1> DEFINE d == Declared(types, section)
           n == Len(types)
<1>1. n \in Nat /\ n > 0 /\ n \in 1..n /\ types[n] \in TypeMeaning
  BY MeaningFacts
<1>2. IsSeq(d) /\ Len(d) = n /\ d[n] = DeclaredType(types[n], section)
  BY <1>1, DeclaredFacts
<1>3. DeclaredType(u, section) = [name |-> u.name, members |-> Append(Members(types[n], section), m)]
  BY DEF DeclaredType
<1>4. Last(d) = [name |-> u.name, members |-> Members(types[n], section)]
  BY <1>2 DEF Last, DeclaredType
<1>5. Declared(SetLast(types, u), section) =
         SetLast(d, [name |-> u.name, members |-> Append(Members(types[n], section), m)])
  BY <1>3, LastDeclared
<1>6. IsSeq(Members(types[n], section))
  BY <1>1, MembersFacts
<1>7. AddMember(d, m) = SetLast(d, [name |-> u.name, members |-> Append(Members(types[n], section), m)])
  BY <1>4, MemberAdded
<1>8. Len(d) > 0
  BY <1>1, <1>2
<1> QED BY <1>2, <1>4, <1>5, <1>6, <1>7, <1>8 DEF d, n, Grows

\* A section is opened.
LEMMA SectionWritten ==
    ASSUME TextInv, NEW s \in Sections, NEW note, WriteSection(s, note)
    PROVE  TextInv'
<1> DEFINE l == Line(4, s, "open", <<>>, note)
           t == meaning[Len(meaning)]
           u == [t EXCEPT !.sections = @ \cup {s}, !.latest = s]
<1>1. l.indent = 4 /\ l.key = s /\ l.tail = "open"
  BY LineFields
<1> HIDE DEF l
<1>2. /\ IsSeq(doc') /\ \A section : ScanState(doc', section) = ScanLine(ScanState(doc, section), l, section)
      /\ OpeningsAreBare' => OpeningsAreBare /\ (l.tail = "open" => ~l.note)
  BY SingleLine DEF l, TextInv, WriteSection
<1>3. place \in {"type"} \cup Sections /\ place' = s /\ meaning # <<>> /\ s # "#"
  BY DEF WriteSection, TextInv, TextType, Sections
<1>4. meaning \in Seq(TypeMeaning) /\ t \in TypeMeaning
  BY <1>3, MeaningFacts DEF TextInv, TextType
<1>5. meaning' = SetLast(meaning, u)
  BY DEF WriteSection, SetLast, Here
<1> HIDE DEF t
<1>6. /\ u \in TypeMeaning /\ u.name = t.name /\ u.sections = t.sections \cup {s}
      /\ u.relations = t.relations /\ u.permissions = t.permissions
  BY <1>4 DEF TypeMeaning, Sections
<1> HIDE DEF u
<1>7. "permissions" \notin u.sections => u.permissions = <<>>
  <2>1. Len(meaning) \in DOMAIN meaning
    BY <1>3, <1>4, MeaningFacts
  <2>2. "permissions" \notin t.sections => t.permissions = <<>>
    BY <2>1 DEF TextInv, SectionsOnce, t
  <2> QED BY <1>6, <2>2
<1>8. TextType' /\ SectionsOnce'
  BY <1>2, <1>3, <1>5, <1>6, <1>7, LastTypeWritten
<1>9. ASSUME OpeningsAreBare', NEW section \in {"relations", "permissions"}
      PROVE  Follows(section, ScanState(doc, section))'
  <2> DEFINE st == ScanState(doc, section)
             d == IF s = section THEN 3 ELSE 2
  <2>1. /\ st = [types |-> st.types, depth |-> st.depth] /\ st.depth \in 0..5
        /\ st.types = Declared(meaning, section) /\ st.depth >= 2
    BY <1>2, <1>3, <1>9, FieldsOfFollows
  <2> HIDE DEF st
  <2>2. ScanLine(st, l, section) = At(st, d)
    BY <1>1, <1>2, <1>3, <1>9, <2>1 DEF ScanLine, IsComment, Scan, Opens, InType, InSection
  <2>3. d \in 0..5 /\ d >= 1 /\ d >= 2 /\ (d >= 3 <=> s = section)
    OBVIOUS
  <2> HIDE DEF d
  <2>4. At(st, d) = [types |-> st.types, depth |-> d]
    BY <2>1 DEF At
  <2>5. Members(u, section) = Members(t, section)
    BY <1>6 DEF Members, Relations
  <2>6. Declared(meaning', section) = st.types
    BY <1>3, <1>4, <1>5, <1>6, <2>1, <2>5, MembersKept DEF t
  <2>7. ScanState(doc', section) = [types |-> st.types, depth |-> d]
    BY <1>2, <2>2, <2>4 DEF st
  <2> QED BY <1>3, <2>3, <2>6, <2>7, FollowsAfter
<1> QED BY <1>8, <1>9 DEF TextInv, ScanInv

\* Lines that are nothing to a scanner.
LEMMA NothingRead ==
    ASSUME TextInv, IsSeq(doc'), meaning' = meaning, place' = place,
           OpeningsAreBare' => OpeningsAreBare,
           OpeningsAreBare' => \A section \in {"relations", "permissions"} :
              ScanState(doc', section) = ScanState(doc, section)
    PROVE  TextInv'
<1>1. TextType' /\ SectionsOnce'
  BY DEF TextInv, TextType, SectionsOnce, Here
<1>2. ASSUME OpeningsAreBare', NEW section \in {"relations", "permissions"}
      PROVE  Follows(section, ScanState(doc, section))'
  <2>1. Follows(section, ScanState(doc, section)) /\ ScanState(doc', section) = ScanState(doc, section)
    BY <1>2 DEF TextInv, ScanInv
  <2> QED BY <2>1 DEF Follows
<1> QED BY <1>1, <1>2 DEF TextInv, ScanInv

\* An attribute is written: neither scanner looks at it.
LEMMA AttributeWritten ==
    ASSUME TextInv, NEW name \in AttributeNames, NEW note, WriteAttribute(name, note)
    PROVE  TextInv'
<1> DEFINE l == Line(6, name, "value", <<>>, note)
<1>1. l.indent = 6 /\ l.key = name /\ l.tail = "value"
  BY LineFields
<1> HIDE DEF l
<1>2. /\ IsSeq(doc') /\ \A section : ScanState(doc', section) = ScanLine(ScanState(doc, section), l, section)
      /\ OpeningsAreBare' => OpeningsAreBare
  BY SingleLine DEF l, TextInv, WriteAttribute
<1>3. place = "attributes" /\ place \in Sections /\ meaning' = meaning /\ place' = place
  BY DEF WriteAttribute, Sections
<1>4. ASSUME OpeningsAreBare', NEW section \in {"relations", "permissions"}
      PROVE  ScanState(doc', section) = ScanState(doc, section)
  <2> DEFINE st == ScanState(doc, section)
  <2>1. ~(st.depth >= 3)
    BY <1>2, <1>3, <1>4, FieldsOfFollows
  <2> HIDE DEF st
  <2>2. ScanLine(st, l, section) = st
    BY <1>1, <2>1, QuietLine DEF InSection
  <2> QED BY <1>2, <2>2 DEF st
<1> QED BY <1>2, <1>3, <1>4, NothingRead

\* A comment is written: the scanners skip it.
LEMMA CommentWritten ==
    ASSUME TextInv, NEW indent, NEW tail, WriteComment(indent, tail)
    PROVE  TextInv'
<1> DEFINE l == Line(indent, "#", tail, <<>>, FALSE)
<1>1. l.key = "#"
  BY DEF Line
<1> HIDE DEF l
<1>2. /\ IsSeq(doc') /\ \A section : ScanState(doc', section) = ScanLine(ScanState(doc, section), l, section)
      /\ OpeningsAreBare' => OpeningsAreBare
  BY SingleLine DEF l, TextInv, WriteComment
<1>3. \A st, section : ScanLine(st, l, section) = st
  BY <1>1 DEF ScanLine, IsComment
<1>4. meaning' = meaning /\ place' = place
  BY DEF WriteComment
<1>5. \A section \in {"relations", "permissions"} : ScanState(doc', section) = ScanState(doc, section)
  BY <1>2, <1>3
<1> QED BY <1>2, <1>4, <1>5, NothingRead

\* A position after the second one.
LEMMA AfterSecond ==
    ASSUME NEW n \in Nat, NEW k \in 1..n, k # 1, k # 2
    PROVE  n # 2 /\ k - 2 \in 1..(n - 2) /\ 2 + (k - 2) = k
OBVIOUS

\* A relation is written.
LEMMA RelationWritten ==
    ASSUME TextInv, NEW name \in RelationNames, NEW targets \in TargetLists, NEW inline \in BOOLEAN,
           NEW notes \in SUBSET Nat, WriteRelation(name, targets, inline, notes)
    PROVE  TextInv'
<1> DEFINE more == RelationLines(name, targets, inline, notes)
           t == meaning[Len(meaning)]
           r == Relation(name, targets, inline, notes)
           u == [t EXCEPT !.relations = Append(@, r)]
<1>1. IsSeq(targets) /\ name # "#"
  BY TextAssumption DEF IsSeq
<1>2. /\ IsSeq(more) /\ Len(more) \in Nat
      /\ \A k \in 1..Len(more) : more[k].indent \in Nat /\ more[k].indent >= 6
      /\ 1 \in 1..Len(more) /\ more[1].tail = "open" /\ more[1].note = (1 \in notes)
      /\ 2 \in 1..Len(more) /\ (~inline => more[2].tail = "open") /\ more[2].note = (2 \in notes)
  <2>1. /\ IsSeq(more)
        /\ more[1] = Line(6, name, "open", <<>>, 1 \in notes)
        /\ inline => Len(more) = 2 /\ more[2] = Line(8, "types", "list", targets, 2 \in notes)
        /\ ~inline => /\ Len(more) = Len(targets) + 2
                      /\ more[2] = Line(8, "types", "open", <<>>, 2 \in notes)
                      /\ \A i \in 1..Len(targets) : more[2 + i] = Line(10, None, "item", <<targets[i]>>, i + 2 \in notes)
    BY <1>1, RelationLinesFacts
  <2> HIDE DEF more
  <2>2. Len(targets) \in Nat /\ Len(more) \in Nat
    BY <1>1, <2>1, SeqFacts
  <2>3. more[1].indent = 6 /\ more[2].indent = 8
    BY <2>1, LineFields
  <2>4. ASSUME NEW k \in 1..Len(more), k # 1, k # 2
        PROVE  more[k].indent = 10
    <3>a. Len(more) # 2 /\ k - 2 \in 1..(Len(more) - 2) /\ 2 + (k - 2) = k
      BY <2>2, <2>4, AfterSecond
    <3>b. ~inline /\ Len(more) = Len(targets) + 2
      BY <2>1, <3>a
    <3>c. (Len(targets) + 2) - 2 = Len(targets)
      BY <2>2
    <3>1. ~inline /\ k - 2 \in 1..Len(targets) /\ 2 + (k - 2) = k
      BY <3>a, <3>b, <3>c
    <3>2. more[k] = Line(10, None, "item", <<targets[k - 2]>>, (k - 2) + 2 \in notes)
      BY <2>1, <3>1
    <3> QED BY <3>2, LineFields
  <2>6. /\ 1 \in 1..Len(more) /\ more[1].tail = "open" /\ more[1].note = (1 \in notes)
        /\ 2 \in 1..Len(more) /\ (~inline => more[2].tail = "open") /\ more[2].note = (2 \in notes)
    <3>1. 1 \in 1..Len(more) /\ 2 \in 1..Len(more)
      BY <2>1, <2>2
    <3> QED BY <2>1, <3>1, LineFields
  <2>5. ASSUME NEW k \in 1..Len(more) PROVE more[k].indent \in Nat /\ more[k].indent >= 6
    <3>1. CASE k = 1
      BY <2>3, <3>1
    <3>2. CASE k = 2
      BY <2>3, <3>2
    <3>3. CASE k # 1 /\ k # 2
      BY <2>4, <3>3
    <3> QED BY <3>1, <3>2, <3>3
  <2> QED BY <2>1, <2>2, <2>5, <2>6
<1>3. Write(more)
  BY DEF WriteRelation, RelationLines
<1> HIDE DEF more
<1>4. doc' = doc \o more /\ IsSeq(doc') /\ IsSeq(doc)
  BY <1>2, <1>3, Written DEF TextInv
<1>14. OpeningsAreBare' => OpeningsAreBare /\ ~(1 \in notes) /\ (inline \/ ~(2 \in notes))
  <2> SUFFICES ASSUME OpeningsAreBare'
               PROVE  OpeningsAreBare /\ ~(1 \in notes) /\ (inline \/ ~(2 \in notes))
    OBVIOUS
  <2>1. OpeningsAreBare /\ \A i \in 1..Len(more) : more[i].tail = "open" => ~more[i].note
    BY <1>2, <1>3, BareBefore DEF TextInv
  <2> QED BY <1>2, <2>1
<1>5. place = "relations" /\ place \in Sections /\ place' = place /\ meaning # <<>>
  BY DEF WriteRelation, TextInv, TextType, Sections
<1>6. meaning \in Seq(TypeMeaning) /\ t \in TypeMeaning
  BY <1>5, MeaningFacts DEF TextInv, TextType
<1>7. meaning' = SetLast(meaning, u)
  BY DEF WriteRelation, SetLast, Here, Relation
<1>8. r \in RelationMeaning
  BY DEF RelationMeaning, Relation
<1>9. r.name = name /\ r.targets = targets
  BY DEF Relation
<1> HIDE DEF t, r
<1>10. /\ u \in TypeMeaning /\ u.name = t.name /\ u.sections = t.sections
       /\ u.permissions = t.permissions /\ u.relations = Append(t.relations, r)
       /\ Members(u, "permissions") = Members(t, "permissions")
       /\ Members(u, "relations") =
             Append(Members(t, "relations"), NewMember(r.name, FoundTargets(r)))
  BY <1>6, <1>8, RelationDeclared
<1> HIDE DEF u
<1>11. TextType' /\ SectionsOnce'
  <2>1. Len(meaning) \in DOMAIN meaning
    BY <1>5, <1>6, MeaningFacts
  <2>2. "permissions" \notin t.sections => t.permissions = <<>>
    BY <2>1 DEF TextInv, SectionsOnce, t
  <2>3. place \in t.sections
    BY <1>5 DEF TextInv, SectionsOnce, t, Here
  <2> QED BY <1>4, <1>5, <1>7, <1>10, <2>2, <2>3, LastTypeWritten
<1>12. ASSUME OpeningsAreBare' PROVE Follows("permissions", ScanState(doc, "permissions"))'
  <2> DEFINE st == ScanState(doc, "permissions")
  <2>1. /\ st = [types |-> st.types, depth |-> st.depth] /\ st.depth \in 0..5
        /\ st.types = Declared(meaning, "permissions") /\ st.depth >= 2 /\ ~(st.depth >= 3)
    BY <1>5, <1>12, <1>14, FieldsOfFollows
  <2>2. ScanState(doc', "permissions") = st
    BY <1>2, <1>4, <2>1, QuietLines DEF InSection
  <2> HIDE DEF st
  <2>3. Declared(meaning', "permissions") = st.types
    BY <1>5, <1>6, <1>7, <1>10, <2>1, MembersKept DEF t
  <2>4. st.depth >= 1
    BY <2>1
  <2>5. ScanState(doc, "permissions")' = [types |-> st.types, depth |-> st.depth]
    BY <2>1, <2>2
  <2> QED BY <1>5, <2>1, <2>3, <2>4, <2>5, FollowsAfter
<1>13. ASSUME OpeningsAreBare' PROVE Follows("relations", ScanState(doc, "relations"))'
  <2> DEFINE st == ScanState(doc, "relations")
             mem == Members(t, "relations")
             m == NewMember(name, FoundTargets(r))
  <2>1. /\ st.types = Declared(meaning, "relations") /\ st.depth \in 0..5 /\ st.depth >= 3
    BY <1>5, <1>13, <1>14, FieldsOfFollows
  <2>2. Members(u, "relations") = Append(mem, m)
    BY <1>9, <1>10
  <2> HIDE DEF st, m
  <2>3. /\ Declared(meaning', "relations") = SetLast(st.types, [name |-> u.name, members |-> Append(mem, m)])
        /\ IsSeq(st.types) /\ Len(st.types) > 0
        /\ Last(st.types) = [name |-> u.name, members |-> mem] /\ IsSeq(mem)
    <3>1. t = meaning[Len(meaning)] /\ u.name = t.name /\ u \in TypeMeaning /\ mem = Members(t, "relations")
      BY <1>10 DEF t
    <3> HIDE DEF mem
    <3>2. meaning \in Seq(TypeMeaning) /\ meaning # <<>>
      BY <1>5, <1>6
    <3>3. st.types = Declared(meaning, "relations")
      BY <2>1
    <3>4. Grows(Declared(meaning, "relations"), Declared(SetLast(meaning, u), "relations"),
                u.name, Members(meaning[Len(meaning)], "relations"), m)
      BY <2>2, <3>1, <3>2, MembersGrow
    <3>5. Grows(st.types, Declared(meaning', "relations"), u.name, mem, m)
      BY <1>7, <3>1, <3>3, <3>4
    <3> QED BY <3>5 DEF Grows
  <2>4. PICK b \in InMember..InList :
           ScanState(doc \o more, "relations") =
               Reading(st, u.name, mem, name, FoundTargets(r), b)
    <3> HIDE DEF mem
    <3>1. st.depth >= InSection /\ st = ScanState(doc, "relations")
      BY <2>1 DEF InSection, st
    <3> QED BY <1>1, <1>4, <1>13, <1>14, <2>3, <3>1, RelationRead DEF more, r
  <2>5. b \in 0..5 /\ b >= 1 /\ b >= 2 /\ b >= 3
    BY DEF InMember, InList
  <2>6. ScanState(doc, "relations")' = [types |-> Declared(meaning', "relations"), depth |-> b]
    BY <1>4, <2>3, <2>4 DEF Reading, WithMember, m
  <2> QED BY <1>5, <2>5, <2>6, FollowsAfter
<1> QED BY <1>11, <1>12, <1>13 DEF TextInv, ScanInv


\* A permission is written.
LEMMA PermissionWritten ==
    ASSUME TextInv, NEW name \in PermissionNames, NEW union \in BOOLEAN, NEW notes,
           WritePermission(name, union, notes)
    PROVE  TextInv'
<1> DEFINE more == PermissionLines(name, union, notes)
           t == meaning[Len(meaning)]
           u == [t EXCEPT !.permissions = Append(@, name)]
<1>1. name # "#"
  BY TextAssumption
<1>2. /\ IsSeq(more) /\ Len(more) \in Nat
      /\ \A k \in 1..Len(more) : more[k].indent \in Nat /\ more[k].indent >= 6
      /\ 1 \in 1..Len(more) /\ more[1].tail = "open" /\ more[1].note = (1 \in notes)
  <2>1. /\ IsSeq(more) /\ Len(more) = IF union THEN 3 ELSE 2
        /\ more[1] = Line(6, name, "open", <<>>, 1 \in notes)
        /\ union => /\ more[2] = Line(8, "union", "open", <<>>, 2 \in notes)
                    /\ more[3] = Line(10, None, "item", <<>>, 3 \in notes)
        /\ ~union => more[2] = Line(8, "resolve", "value", <<>>, 2 \in notes)
    BY PermissionLinesFacts
  <2> HIDE DEF more
  <2>2. more[1].indent = 6 /\ more[1].tail = "open" /\ more[1].note = (1 \in notes)
    BY <2>1, LineFields
  <2>3. CASE union
    <3>1. more[2].indent = 8 /\ more[3].indent = 10 /\ Len(more) = 3
      BY <2>1, <2>3, LineFields
    <3>2. \A k \in 1..3 : k = 1 \/ k = 2 \/ k = 3
      OBVIOUS
    <3>3. \A k \in 1..3 : more[k].indent \in Nat /\ more[k].indent >= 6
      BY <2>2, <3>1, <3>2
    <3> QED BY <2>1, <2>2, <3>1, <3>3
  <2>4. CASE ~union
    <3>1. more[2].indent = 8 /\ Len(more) = 2
      BY <2>1, <2>4, LineFields
    <3>2. \A k \in 1..2 : k = 1 \/ k = 2
      OBVIOUS
    <3>3. \A k \in 1..2 : more[k].indent \in Nat /\ more[k].indent >= 6
      BY <2>2, <3>1, <3>2
    <3>4. 1 \in 1..Len(more) /\ Len(more) \in Nat
      BY <3>1
    <3> QED BY <2>1, <2>2, <3>1, <3>3, <3>4
  <2> QED BY <2>3, <2>4
<1>3. Write(more)
  BY DEF WritePermission, PermissionLines
<1> HIDE DEF more
<1>4. doc' = doc \o more /\ IsSeq(doc') /\ IsSeq(doc)
  BY <1>2, <1>3, Written DEF TextInv
<1>12. OpeningsAreBare' => OpeningsAreBare /\ ~(1 \in notes)
  BY <1>2, <1>3, BareBefore DEF TextInv
<1>5. place = "permissions" /\ place \in Sections /\ place' = place /\ meaning # <<>>
  BY DEF WritePermission, TextInv, TextType, Sections
<1>6. meaning \in Seq(TypeMeaning) /\ t \in TypeMeaning
  BY <1>5, MeaningFacts DEF TextInv, TextType
<1>7. meaning' = SetLast(meaning, u)
  BY DEF WritePermission, SetLast, Here
<1> HIDE DEF t
<1>8. /\ u \in TypeMeaning /\ u.name = t.name /\ u.sections = t.sections
      /\ u.relations = t.relations /\ u.permissions = Append(t.permissions, name)
      /\ Members(u, "relations") = Members(t, "relations")
      /\ Members(u, "permissions") = Append(Members(t, "permissions"), NewMember(name, <<>>))
  BY <1>6, PermissionDeclared
<1> HIDE DEF u
<1>9. TextType' /\ SectionsOnce'
  <2>1. place \in t.sections
    BY <1>5 DEF TextInv, SectionsOnce, t, Here
  <2>2. "permissions" \notin u.sections => u.permissions = <<>>
    BY <1>5, <1>8, <2>1
  <2> QED BY <1>4, <1>5, <1>7, <1>8, <2>1, <2>2, LastTypeWritten
<1>10. ASSUME OpeningsAreBare' PROVE Follows("relations", ScanState(doc, "relations"))'
  <2> DEFINE st == ScanState(doc, "relations")
  <2>1. /\ st = [types |-> st.types, depth |-> st.depth] /\ st.depth \in 0..5
        /\ st.types = Declared(meaning, "relations") /\ st.depth >= 2 /\ ~(st.depth >= 3)
    BY <1>5, <1>10, <1>12, FieldsOfFollows
  <2>2. ScanState(doc', "relations") = st
    BY <1>2, <1>4, <2>1, QuietLines DEF InSection
  <2> HIDE DEF st
  <2>3. Declared(meaning', "relations") = st.types
    BY <1>5, <1>6, <1>7, <1>8, <2>1, MembersKept DEF t
  <2>4. st.depth >= 1
    BY <2>1
  <2>5. ScanState(doc, "relations")' = [types |-> st.types, depth |-> st.depth]
    BY <2>1, <2>2
  <2> QED BY <1>5, <2>1, <2>3, <2>4, <2>5, FollowsAfter
<1>11. ASSUME OpeningsAreBare' PROVE Follows("permissions", ScanState(doc, "permissions"))'
  <2> DEFINE st == ScanState(doc, "permissions")
             mem == Members(t, "permissions")
             m == NewMember(name, <<>>)
  <2>1. /\ st.types = Declared(meaning, "permissions") /\ st.depth \in 0..5 /\ st.depth >= 3
    BY <1>5, <1>11, <1>12, FieldsOfFollows
  <2>2. Members(u, "permissions") = Append(mem, m)
    BY <1>8
  <2> HIDE DEF st, m
  <2>3. Declared(meaning', "permissions") = AddMember(st.types, m)
    <3>1. t = meaning[Len(meaning)] /\ u.name = t.name /\ u \in TypeMeaning
      BY <1>8 DEF t
    <3>2. meaning \in Seq(TypeMeaning) /\ meaning # <<>>
      BY <1>5, <1>6
    <3>3. Grows(Declared(meaning, "permissions"), Declared(SetLast(meaning, u), "permissions"),
                u.name, Members(meaning[Len(meaning)], "permissions"), m)
      BY <2>2, <3>1, <3>2, MembersGrow
    <3> QED BY <1>7, <2>1, <3>3 DEF Grows
  <2>4. ScanState(doc \o more, "permissions") = PushMember(st, name)
    BY <1>1, <1>4, <1>11, <1>12, <2>1, PermissionRead DEF InSection, st, more
  <2>5. ScanState(doc, "permissions")' = [types |-> Declared(meaning', "permissions"), depth |-> 4]
    BY <1>4, <2>3, <2>4 DEF PushMember, NewMember, m, InMember
  <2> QED BY <1>5, <2>5, FollowsAfter
<1> QED BY <1>9, <1>10, <1>11 DEF TextInv, ScanInv

\* Line numbers are natural numbers.
LEMMA NaturalNotes ==
    ASSUME NEW inline \in BOOLEAN, NEW targets \in TargetLists,
           NEW notes \in SUBSET (1..(IF inline THEN 2 ELSE 2 + Len(targets)))
    PROVE  notes \in SUBSET Nat
<1> DEFINE n == IF inline THEN 2 ELSE 2 + Len(targets)
<1>1. Len(targets) \in Nat
  BY TextAssumption
<1>2. n \in Nat
  BY <1>1
<1>3. notes \in SUBSET (1..n)
  OBVIOUS
<1> HIDE DEF n
<1>4. \A k \in 1..n : k \in Nat
  BY <1>2
<1> QED BY <1>3, <1>4

\* Every line that is written keeps the scanners in step with the meaning.
LEMMA TextNext ==
    TextInv /\ [Next]_vars => TextInv'
<1> SUFFICES ASSUME TextInv, [Next]_vars PROVE TextInv'
  OBVIOUS
<1>1. ASSUME NEW note \in BOOLEAN, WriteVersion(note) PROVE TextInv'
  <2>1. /\ Write(<<Line(0, "version", "value", <<>>, note)>>) /\ meaning' = meaning /\ place' = "top"
    BY <1>1 DEF WriteVersion
  <2> QED BY <2>1, TopLine
<1>2. ASSUME NEW note \in BOOLEAN, StartTypes(note) PROVE TextInv'
  <2>1. /\ Write(<<Line(0, "types", "open", <<>>, note)>>) /\ meaning' = meaning /\ place' = "types"
    BY <1>2 DEF StartTypes
  <2> QED BY <2>1, TopLine
<1>3. CASE \E name \in TypeNames, bare, note \in BOOLEAN : WriteType(name, bare, note)
  BY <1>3, TypeWritten
<1>4. CASE \E section \in Sections, note \in BOOLEAN : WriteSection(section, note)
  BY <1>4, SectionWritten
<1>5. CASE \E name \in AttributeNames, note \in BOOLEAN : WriteAttribute(name, note)
  BY <1>5, AttributeWritten
<1>6. ASSUME NEW name \in RelationNames, NEW targets \in TargetLists, NEW inline \in BOOLEAN,
             NEW notes \in SUBSET (1..(IF inline THEN 2 ELSE 2 + Len(targets))),
             WriteRelation(name, targets, inline, notes)
      PROVE  TextInv'
  <2>1. notes \in SUBSET Nat
    BY NaturalNotes, TextAssumption
  <2> QED BY <1>6, <2>1, RelationWritten
<1>7. ASSUME NEW name \in PermissionNames, NEW union \in BOOLEAN,
             NEW notes \in SUBSET (1..(IF union THEN 3 ELSE 2)), WritePermission(name, union, notes)
      PROVE  TextInv'
  BY <1>7, PermissionWritten
<1>8. CASE \E indent \in {2, 6}, tail \in {"open", "comment"} : WriteComment(indent, tail)
  BY <1>8, CommentWritten
<1>9. CASE UNCHANGED vars
  <2>1. doc' = doc /\ meaning' = meaning /\ place' = place
    BY <1>9 DEF vars
  <2>2. IsSeq(doc') /\ (OpeningsAreBare' => OpeningsAreBare)
    BY <2>1 DEF TextInv, TextType, OpeningsAreBare
  <2> QED BY <2>1, <2>2, NothingRead
<1> QED BY <1>1, <1>2, <1>3, <1>4, <1>5, <1>6, <1>7, <1>8, <1>9 DEF Next

-----------------------------------------------------------------------------
(* Results.                                                                *)

\* After every line the scanners' state is what the document declares.
THEOREM TextInvariant == Spec => []TextInv
<1>1. Init => TextInv
  BY TextInit
<1>2. TextInv /\ [Next]_vars => TextInv'
  BY TextNext
<1> QED BY <1>1, <1>2, PTL DEF Spec

\* The tuple dialog offers the types and relations that the document declares,
\* and of their subject types all but the lists and items that a comment
\* behind them turns into another text: for documents of any length, with any
\* names and target lists, without a comment behind an opening line.
THEOREM DialogReads == Spec => []DialogReadsDocument
<1>1. TextInv => DialogReadsDocument
  <2> SUFFICES ASSUME TextInv, OpeningsAreBare PROVE DialogReadsDocument
    BY DEF DialogReadsDocument
  <2>1. ScanState(doc, "relations").types = Declared(meaning, "relations")
    BY FieldsOfFollows
  <2>2. \A t : Members(t, "relations") = Relations(t)
    BY DEF Members
  <2> QED BY <2>1, <2>2 DEF DialogReadsDocument, parseSchemaTypes, Scanned, Declared, DeclaredType
<1> QED BY <1>1, TextInvariant, PTL

\* The evaluator offers the permissions that the document declares, as long as
\* no opening line has a comment behind it.
THEOREM EvaluatorReads == Spec => []EvaluatorReadsDocument
<1>1. TextInv => EvaluatorReadsDocument
  <2> SUFFICES ASSUME TextInv, OpeningsAreBare PROVE EvaluatorReadsDocument
    BY DEF EvaluatorReadsDocument
  <2> DEFINE found == Declared(meaning, "permissions")
  <2>1. parseSchemaTypeInfos(doc) = found
    BY FieldsOfFollows DEF parseSchemaTypeInfos, Scanned
  <2>2. meaning \in Seq(TypeMeaning)
    BY DEF TextInv, TextType
  <2>3. Len(found) = Len(meaning) /\ DOMAIN found = DOMAIN meaning
    BY <2>2, DeclaredFacts, MeaningFacts, SeqFacts
  <2>4. ASSUME NEW i \in DOMAIN meaning
        PROVE  /\ found[i].name = meaning[i].name
               /\ [k \in DOMAIN found[i].members |-> found[i].members[k].name] = meaning[i].permissions
    <3> DEFINE t == meaning[i]
               mem == [k \in DOMAIN t.permissions |-> [name |-> t.permissions[k], targets |-> <<>>]]
    <3>1. t \in TypeMeaning
      BY <2>2
    <3>2. found[i] = [name |-> t.name, members |-> mem]
      BY DEF Declared, DeclaredType, Members
    <3>3. t.permissions = [k \in DOMAIN t.permissions |-> t.permissions[k]]
      BY <3>1 DEF TypeMeaning
    <3> HIDE DEF t
    <3>4. [k \in DOMAIN mem |-> mem[k].name] = [k \in DOMAIN t.permissions |-> t.permissions[k]]
      OBVIOUS
    <3> QED BY <3>2, <3>3, <3>4 DEF t
  <2> HIDE DEF found
  <2> QED BY <2>1, <2>3, <2>4 DEF EvaluatorReadsDocument
<1> QED BY <1>1, TextInvariant, PTL


-----------------------------------------------------------------------------
(* The graph.                                                              *)

\* The types are put into the map one after the other.
FoundRun(types, N, f) ==
    f = [n \in 0..N |-> IF n = 0 THEN <<>> ELSE SetType(f[n - 1], types[n])]

\* Such a run exists.
LEMMA FoundRunExists ==
    ASSUME NEW types, NEW N \in Nat
    PROVE  \E f : FoundRun(types, N, f)
<1> DEFINE S == {n \in Nat : \E f : FoundRun(types, n, f)}
<1>1. 0 \in S
  <2> DEFINE f == [n \in 0..0 |-> <<>>]
  <2>1. FoundRun(types, 0, f)
    BY DEF FoundRun
  <2> HIDE DEF f
  <2> QED BY <2>1
<1>2. ASSUME NEW n \in Nat, n \in S
      PROVE  n + 1 \in S
  <2>1. PICK f : FoundRun(types, n, f)
    BY <1>2
  <2> DEFINE body(h, k) == IF k = 0 THEN <<>> ELSE SetType(h[k - 1], types[k])
             ext == [k \in 0..(n + 1) |-> IF k = n + 1 THEN SetType(f[n], types[n + 1]) ELSE f[k]]
  <2>2. \A k \in 0..n : f[k] = body(f, k)
    BY <2>1 DEF FoundRun
  <2>3. \A k \in 0..(n + 1) : ext[k] = body(ext, k)
    <3> SUFFICES ASSUME NEW k \in 0..(n + 1) PROVE ext[k] = body(ext, k)
      OBVIOUS
    <3>1. \A i \in 0..n : ext[i] = f[i]
      OBVIOUS
    <3>2. ext[n + 1] = SetType(f[n], types[n + 1])
      OBVIOUS
    <3> HIDE DEF ext
    <3>3. CASE k = 0
      BY <2>2, <3>1, <3>3
    <3>4. CASE k = n + 1
      BY <3>1, <3>2, <3>4
    <3>5. CASE k # 0 /\ k # n + 1
      <4>1. k \in 0..n /\ k - 1 \in 0..n
        BY <3>5
      <4> QED BY <2>2, <3>1, <3>5, <4>1
    <3> QED BY <3>3, <3>4, <3>5
  <2>4. ext = [k \in 0..(n + 1) |-> body(ext, k)]
    <3>1. DOMAIN ext = 0..(n + 1) /\ ext = [k \in 0..(n + 1) |-> ext[k]]
      OBVIOUS
    <3> HIDE DEF ext, body
    <3> QED BY <2>3, <3>1
  <2>5. FoundRun(types, n + 1, ext)
    BY <2>4 DEF FoundRun
  <2> HIDE DEF ext
  <2> QED BY <2>5
<1> HIDE DEF S
<1>3. \A n \in Nat : n \in S
  BY <1>1, <1>2, SetInduction
<1> QED BY <1>3 DEF S

Found(types, f) ==
    /\ f[0] = <<>>
    /\ \A k \in 1..Len(types) : f[k] = SetType(f[k - 1], types[k])
    /\ ByName(types) = f[Len(types)]

\* The map has what the run ends with.
LEMMA FoundIsRun ==
    ASSUME NEW types, Len(types) \in Nat
    PROVE  \E f : Found(types, f)
<1> DEFINE body(h, k) == IF k = 0 THEN <<>> ELSE SetType(h[k - 1], types[k])
           st == CHOOSE f : f = [n \in 0..Len(types) |-> body(f, n)]
<1>1. \E f : f = [n \in 0..Len(types) |-> body(f, n)]
  <2>1. PICK f : FoundRun(types, Len(types), f)
    BY FoundRunExists
  <2>2. f = [n \in 0..Len(types) |-> body(f, n)]
    BY <2>1 DEF FoundRun
  <2> HIDE DEF body
  <2> QED BY <2>2
<1>2. st = [n \in 0..Len(types) |-> body(st, n)]
  <2> HIDE DEF body
  <2> QED BY <1>1
<1>3. ByName(types) = st[Len(types)]
  BY DEF ByName
<1> HIDE DEF st
<1>4. st[0] = <<>> /\ \A k \in 1..Len(types) : st[k] = SetType(st[k - 1], types[k])
  BY <1>2
<1>5. Found(types, st)
  BY <1>3, <1>4 DEF Found
<1> QED BY <1>5

\* The targets of a relation are added to the graph one after the other.
TargetsRun(g, types, t, r, N, f) ==
    f = [n \in 0..N |-> IF n = 0 THEN g ELSE AddTarget(f[n - 1], types, t, r, r.targets[n])]

\* Such a run exists.
LEMMA TargetsRunExists ==
    ASSUME NEW g, NEW types, NEW t, NEW r, NEW N \in Nat
    PROVE  \E f : TargetsRun(g, types, t, r, N, f)
<1> DEFINE S == {n \in Nat : \E f : TargetsRun(g, types, t, r, n, f)}
<1>1. 0 \in S
  <2> DEFINE f == [n \in 0..0 |-> g]
  <2>1. TargetsRun(g, types, t, r, 0, f)
    BY DEF TargetsRun
  <2> HIDE DEF f
  <2> QED BY <2>1
<1>2. ASSUME NEW n \in Nat, n \in S
      PROVE  n + 1 \in S
  <2>1. PICK f : TargetsRun(g, types, t, r, n, f)
    BY <1>2
  <2> DEFINE body(h, k) == IF k = 0 THEN g ELSE AddTarget(h[k - 1], types, t, r, r.targets[k])
             ext == [k \in 0..(n + 1) |-> IF k = n + 1 THEN AddTarget(f[n], types, t, r, r.targets[n + 1]) ELSE f[k]]
  <2>2. \A k \in 0..n : f[k] = body(f, k)
    BY <2>1 DEF TargetsRun
  <2>3. \A k \in 0..(n + 1) : ext[k] = body(ext, k)
    <3> SUFFICES ASSUME NEW k \in 0..(n + 1) PROVE ext[k] = body(ext, k)
      OBVIOUS
    <3>1. \A i \in 0..n : ext[i] = f[i]
      OBVIOUS
    <3>2. ext[n + 1] = AddTarget(f[n], types, t, r, r.targets[n + 1])
      OBVIOUS
    <3> HIDE DEF ext
    <3>3. CASE k = 0
      BY <2>2, <3>1, <3>3
    <3>4. CASE k = n + 1
      BY <3>1, <3>2, <3>4
    <3>5. CASE k # 0 /\ k # n + 1
      <4>1. k \in 0..n /\ k - 1 \in 0..n
        BY <3>5
      <4> QED BY <2>2, <3>1, <3>5, <4>1
    <3> QED BY <3>3, <3>4, <3>5
  <2>4. ext = [k \in 0..(n + 1) |-> body(ext, k)]
    <3>1. DOMAIN ext = 0..(n + 1) /\ ext = [k \in 0..(n + 1) |-> ext[k]]
      OBVIOUS
    <3> HIDE DEF ext, body
    <3> QED BY <2>3, <3>1
  <2>5. TargetsRun(g, types, t, r, n + 1, ext)
    BY <2>4 DEF TargetsRun
  <2> HIDE DEF ext
  <2> QED BY <2>5
<1> HIDE DEF S
<1>3. \A n \in Nat : n \in S
  BY <1>1, <1>2, SetInduction
<1> QED BY <1>3 DEF S

Targets(g, types, t, r, f) ==
    /\ f[0] = g
    /\ \A k \in 1..Len(r.targets) : f[k] = AddTarget(f[k - 1], types, t, r, r.targets[k])
    /\ AddTargets(g, types, t, r) = f[Len(r.targets)]

\* AddTargets is what the run ends with.
LEMMA TargetsIsRun ==
    ASSUME NEW g, NEW types, NEW t, NEW r, Len(r.targets) \in Nat
    PROVE  \E f : Targets(g, types, t, r, f)
<1> DEFINE body(h, k) == IF k = 0 THEN g ELSE AddTarget(h[k - 1], types, t, r, r.targets[k])
           st == CHOOSE f : f = [n \in 0..Len(r.targets) |-> body(f, n)]
<1>1. \E f : f = [n \in 0..Len(r.targets) |-> body(f, n)]
  <2>1. PICK f : TargetsRun(g, types, t, r, Len(r.targets), f)
    BY TargetsRunExists
  <2>2. f = [n \in 0..Len(r.targets) |-> body(f, n)]
    BY <2>1 DEF TargetsRun
  <2> HIDE DEF body
  <2> QED BY <2>2
<1>2. st = [n \in 0..Len(r.targets) |-> body(st, n)]
  <2> HIDE DEF body
  <2> QED BY <1>1
<1>3. AddTargets(g, types, t, r) = st[Len(r.targets)]
  BY DEF AddTargets
<1> HIDE DEF st
<1>4. st[0] = g /\ \A k \in 1..Len(r.targets) : st[k] = AddTarget(st[k - 1], types, t, r, r.targets[k])
  BY <1>2
<1>5. Targets(g, types, t, r, st)
  BY <1>3, <1>4 DEF Targets
<1> QED BY <1>5

\* The relations of a type are added one after the other.
TypeRun(g, types, t, N, f) ==
    f = [n \in 0..N |-> IF n = 0 THEN AddNode(g, types, t.name) ELSE AddTargets(f[n - 1], types, t, t.members[n])]

\* Such a run exists.
LEMMA TypeRunExists ==
    ASSUME NEW g, NEW types, NEW t, NEW N \in Nat
    PROVE  \E f : TypeRun(g, types, t, N, f)
<1> DEFINE S == {n \in Nat : \E f : TypeRun(g, types, t, n, f)}
<1>1. 0 \in S
  <2> DEFINE f == [n \in 0..0 |-> AddNode(g, types, t.name)]
  <2>1. TypeRun(g, types, t, 0, f)
    BY DEF TypeRun
  <2> HIDE DEF f
  <2> QED BY <2>1
<1>2. ASSUME NEW n \in Nat, n \in S
      PROVE  n + 1 \in S
  <2>1. PICK f : TypeRun(g, types, t, n, f)
    BY <1>2
  <2> DEFINE body(h, k) == IF k = 0 THEN AddNode(g, types, t.name) ELSE AddTargets(h[k - 1], types, t, t.members[k])
             ext == [k \in 0..(n + 1) |-> IF k = n + 1 THEN AddTargets(f[n], types, t, t.members[n + 1]) ELSE f[k]]
  <2>2. \A k \in 0..n : f[k] = body(f, k)
    BY <2>1 DEF TypeRun
  <2>3. \A k \in 0..(n + 1) : ext[k] = body(ext, k)
    <3> SUFFICES ASSUME NEW k \in 0..(n + 1) PROVE ext[k] = body(ext, k)
      OBVIOUS
    <3>1. \A i \in 0..n : ext[i] = f[i]
      OBVIOUS
    <3>2. ext[n + 1] = AddTargets(f[n], types, t, t.members[n + 1])
      OBVIOUS
    <3> HIDE DEF ext
    <3>3. CASE k = 0
      BY <2>2, <3>1, <3>3
    <3>4. CASE k = n + 1
      BY <3>1, <3>2, <3>4
    <3>5. CASE k # 0 /\ k # n + 1
      <4>1. k \in 0..n /\ k - 1 \in 0..n
        BY <3>5
      <4> QED BY <2>2, <3>1, <3>5, <4>1
    <3> QED BY <3>3, <3>4, <3>5
  <2>4. ext = [k \in 0..(n + 1) |-> body(ext, k)]
    <3>1. DOMAIN ext = 0..(n + 1) /\ ext = [k \in 0..(n + 1) |-> ext[k]]
      OBVIOUS
    <3> HIDE DEF ext, body
    <3> QED BY <2>3, <3>1
  <2>5. TypeRun(g, types, t, n + 1, ext)
    BY <2>4 DEF TypeRun
  <2> HIDE DEF ext
  <2> QED BY <2>5
<1> HIDE DEF S
<1>3. \A n \in Nat : n \in S
  BY <1>1, <1>2, SetInduction
<1> QED BY <1>3 DEF S

TypeAdded(g, types, t, f) ==
    /\ f[0] = AddNode(g, types, t.name)
    /\ \A k \in 1..Len(t.members) : f[k] = AddTargets(f[k - 1], types, t, t.members[k])
    /\ AddType(g, types, t) = f[Len(t.members)]

\* AddType is what the run ends with.
LEMMA TypeAddedIsRun ==
    ASSUME NEW g, NEW types, NEW t, Len(t.members) \in Nat
    PROVE  \E f : TypeAdded(g, types, t, f)
<1> DEFINE body(h, k) == IF k = 0 THEN AddNode(g, types, t.name) ELSE AddTargets(h[k - 1], types, t, t.members[k])
           st == CHOOSE f : f = [n \in 0..Len(t.members) |-> body(f, n)]
<1>1. \E f : f = [n \in 0..Len(t.members) |-> body(f, n)]
  <2>1. PICK f : TypeRun(g, types, t, Len(t.members), f)
    BY TypeRunExists
  <2>2. f = [n \in 0..Len(t.members) |-> body(f, n)]
    BY <2>1 DEF TypeRun
  <2> HIDE DEF body
  <2> QED BY <2>2
<1>2. st = [n \in 0..Len(t.members) |-> body(st, n)]
  <2> HIDE DEF body
  <2> QED BY <1>1
<1>3. AddType(g, types, t) = st[Len(t.members)]
  BY DEF AddType
<1> HIDE DEF st
<1>4. st[0] = AddNode(g, types, t.name) /\ \A k \in 1..Len(t.members) : st[k] = AddTargets(st[k - 1], types, t, t.members[k])
  BY <1>2
<1>5. TypeAdded(g, types, t, st)
  BY <1>3, <1>4 DEF TypeAdded
<1> QED BY <1>5

\* The types are added one after the other.
GraphRun(types, N, f) ==
    f = [n \in 0..N |-> IF n = 0 THEN EmptyGraph ELSE AddType(f[n - 1], types, types[n])]

\* Such a run exists.
LEMMA GraphRunExists ==
    ASSUME NEW types, NEW N \in Nat
    PROVE  \E f : GraphRun(types, N, f)
<1> DEFINE S == {n \in Nat : \E f : GraphRun(types, n, f)}
<1>1. 0 \in S
  <2> DEFINE f == [n \in 0..0 |-> EmptyGraph]
  <2>1. GraphRun(types, 0, f)
    BY DEF GraphRun
  <2> HIDE DEF f
  <2> QED BY <2>1
<1>2. ASSUME NEW n \in Nat, n \in S
      PROVE  n + 1 \in S
  <2>1. PICK f : GraphRun(types, n, f)
    BY <1>2
  <2> DEFINE body(h, k) == IF k = 0 THEN EmptyGraph ELSE AddType(h[k - 1], types, types[k])
             ext == [k \in 0..(n + 1) |-> IF k = n + 1 THEN AddType(f[n], types, types[n + 1]) ELSE f[k]]
  <2>2. \A k \in 0..n : f[k] = body(f, k)
    BY <2>1 DEF GraphRun
  <2>3. \A k \in 0..(n + 1) : ext[k] = body(ext, k)
    <3> SUFFICES ASSUME NEW k \in 0..(n + 1) PROVE ext[k] = body(ext, k)
      OBVIOUS
    <3>1. \A i \in 0..n : ext[i] = f[i]
      OBVIOUS
    <3>2. ext[n + 1] = AddType(f[n], types, types[n + 1])
      OBVIOUS
    <3> HIDE DEF ext
    <3>3. CASE k = 0
      BY <2>2, <3>1, <3>3
    <3>4. CASE k = n + 1
      BY <3>1, <3>2, <3>4
    <3>5. CASE k # 0 /\ k # n + 1
      <4>1. k \in 0..n /\ k - 1 \in 0..n
        BY <3>5
      <4> QED BY <2>2, <3>1, <3>5, <4>1
    <3> QED BY <3>3, <3>4, <3>5
  <2>4. ext = [k \in 0..(n + 1) |-> body(ext, k)]
    <3>1. DOMAIN ext = 0..(n + 1) /\ ext = [k \in 0..(n + 1) |-> ext[k]]
      OBVIOUS
    <3> HIDE DEF ext, body
    <3> QED BY <2>3, <3>1
  <2>5. GraphRun(types, n + 1, ext)
    BY <2>4 DEF GraphRun
  <2> HIDE DEF ext
  <2> QED BY <2>5
<1> HIDE DEF S
<1>3. \A n \in Nat : n \in S
  BY <1>1, <1>2, SetInduction
<1> QED BY <1>3 DEF S

GraphBuilt(types, f) ==
    /\ f[0] = EmptyGraph
    /\ \A k \in 1..Len(types) : f[k] = AddType(f[k - 1], types, types[k])
    /\ GraphOf(types) = f[Len(types)]

\* The graph is what the run ends with.
LEMMA GraphBuiltIsRun ==
    ASSUME NEW types, Len(types) \in Nat
    PROVE  \E f : GraphBuilt(types, f)
<1> DEFINE body(h, k) == IF k = 0 THEN EmptyGraph ELSE AddType(h[k - 1], types, types[k])
           st == CHOOSE f : f = [n \in 0..Len(types) |-> body(f, n)]
<1>1. \E f : f = [n \in 0..Len(types) |-> body(f, n)]
  <2>1. PICK f : GraphRun(types, Len(types), f)
    BY GraphRunExists
  <2>2. f = [n \in 0..Len(types) |-> body(f, n)]
    BY <2>1 DEF GraphRun
  <2> HIDE DEF body
  <2> QED BY <2>2
<1>2. st = [n \in 0..Len(types) |-> body(st, n)]
  <2> HIDE DEF body
  <2> QED BY <1>1
<1>3. GraphOf(types) = st[Len(types)]
  BY DEF GraphOf
<1> HIDE DEF st
<1>4. st[0] = EmptyGraph /\ \A k \in 1..Len(types) : st[k] = AddType(st[k - 1], types, types[k])
  BY <1>2
<1>5. GraphBuilt(types, st)
  BY <1>3, <1>4 DEF GraphBuilt
<1> QED BY <1>5



\* No two of the types or nodes have the same name.
NamesOnce(types) ==
    \A i, j \in DOMAIN types : types[i].name = types[j].name => i = j

\* The map has the types as they were found when their names are different.
LEMMA ByNameKeeps ==
    ASSUME NEW types, IsSeq(types), NamesOnce(types)
    PROVE  ByName(types) = types
<1> DEFINE N == Len(types)
           Pre(k) == [i \in 1..k |-> types[i]]
<1>1. N \in Nat /\ DOMAIN types = 1..N
  BY SeqFacts
<1>2. PICK f : Found(types, f)
  BY <1>1, FoundIsRun
<1>3. f[0] = <<>> /\ (\A k \in 1..N : f[k] = SetType(f[k - 1], types[k])) /\ ByName(types) = f[N]
  BY <1>2 DEF Found
<1>4. ASSUME NEW k \in Nat PROVE IsSeq(Pre(k)) /\ Len(Pre(k)) = k
  <2>1. Pre(k) = [i \in 1..k |-> Pre(k)[i]]
    OBVIOUS
  <2> HIDE DEF Pre
  <2> QED BY <2>1, FunctionIsSeq
<1>5. ASSUME NEW k \in Nat, NEW i \in 1..k PROVE Pre(k)[i] = types[i]
  OBVIOUS
<1> HIDE DEF N, Pre
<1> DEFINE S == {k \in 0..N : f[k] = Pre(k)}
<1>6. 0 \in S
  <2>1. IsSeq(<<>>) /\ Len(<<>>) = 0
    <3>1. <<>> \in Seq({})
      OBVIOUS
    <3> QED BY <3>1 DEF IsSeq
  <2>2. IsSeq(Pre(0)) /\ Len(Pre(0)) = 0
    BY <1>4
  <2>3. Pre(0) = <<>>
    BY <2>1, <2>2, SameElements
  <2> QED BY <1>1, <1>3, <2>3
<1>7. ASSUME NEW k \in 0..(N - 1), k \in S PROVE k + 1 \in S
  <2>1. k \in Nat /\ k + 1 \in Nat /\ k + 1 \in 1..N /\ (k + 1) - 1 = k /\ k + 1 \in 0..N
    BY <1>1
  <2>2. f[k + 1] = SetType(Pre(k), types[k + 1])
    BY <1>3, <1>7, <2>1
  <2>3. DOMAIN Pre(k) = 1..k /\ IsSeq(Pre(k)) /\ Len(Pre(k)) = k
    BY <1>4, <2>1, SeqFacts
  <2>4. ASSUME NEW i \in 1..k PROVE Pre(k)[i].name # types[k + 1].name
    <3>1. i \in 1..N /\ i # k + 1
      BY <1>1
    <3>2. types[i].name # types[k + 1].name
      BY <1>1, <2>1, <3>1 DEF NamesOnce
    <3> QED BY <1>5, <2>1, <3>2
  <2>5. f[k + 1] = Append(Pre(k), types[k + 1])
    BY <2>2, <2>3, <2>4 DEF SetType
  <2>6. /\ IsSeq(f[k + 1]) /\ Len(f[k + 1]) = k + 1 /\ f[k + 1][k + 1] = types[k + 1]
        /\ \A i \in 1..k : f[k + 1][i] = Pre(k)[i]
    BY <2>3, <2>5, AppendFacts
  <2>7. IsSeq(Pre(k + 1)) /\ Len(Pre(k + 1)) = k + 1 /\ \A i \in 1..(k + 1) : Pre(k + 1)[i] = types[i]
    BY <1>4, <1>5, <2>1
  <2>8. \A i \in 1..k : Pre(k)[i] = types[i]
    BY <1>5, <2>1
  <2>9. \A i \in 1..(k + 1) : i = k + 1 \/ i \in 1..k
    BY <2>1
  <2>10. \A i \in 1..(k + 1) : f[k + 1][i] = Pre(k + 1)[i]
    BY <2>6, <2>7, <2>8, <2>9
  <2>11. f[k + 1] = Pre(k + 1)
    BY <2>6, <2>7, <2>10, SameElements
  <2> QED BY <2>1, <2>11
<1> HIDE DEF S
<1>8. \A k \in 0..N : k \in S
  BY <1>1, <1>6, <1>7, BoundedInduction
<1>9. N \in 0..N /\ N \in Nat
  BY <1>1
<1>10. f[N] = Pre(N)
  BY <1>8, <1>9 DEF S
<1>11. IsSeq(Pre(N)) /\ Len(Pre(N)) = N /\ \A i \in 1..N : Pre(N)[i] = types[i]
  BY <1>4, <1>5, <1>9
<1>12. Pre(N) = types
  <2>1. Len(types) = N
    BY DEF N
  <2> QED BY <1>11, <2>1, SameElements
<1> QED BY <1>3, <1>10, <1>12

\* One more is in a sequence.
LEMMA ContainsAppend ==
    ASSUME NEW s, IsSeq(s), NEW e, NEW x
    PROVE  Contains(Append(s, e), x) <=> Contains(s, x) \/ x = e
<1>1. Len(s) \in Nat
  BY SeqFacts
<1>2. /\ Len(Append(s, e)) = Len(s) + 1 /\ Append(s, e)[Len(s) + 1] = e
      /\ \A i \in 1..Len(s) : Append(s, e)[i] = s[i]
  BY AppendFacts
<1> DEFINE a == Append(s, e)
<1> HIDE DEF a
<1>3. Len(a) = Len(s) + 1 /\ a[Len(s) + 1] = e /\ \A i \in 1..Len(s) : a[i] = s[i]
  BY <1>2 DEF a
<1>4. \A i \in 1..(Len(s) + 1) : i = Len(s) + 1 \/ i \in 1..Len(s)
  BY <1>1
<1>5. Len(s) + 1 \in 1..(Len(s) + 1) /\ \A i \in 1..Len(s) : i \in 1..(Len(s) + 1)
  BY <1>1
<1>6. Contains(a, x) => Contains(s, x) \/ x = e
  BY <1>3, <1>4 DEF Contains
<1>7. Contains(s, x) \/ x = e => Contains(a, x)
  BY <1>3, <1>5 DEF Contains
<1> QED BY <1>6, <1>7 DEF a

\* A graph of these types with the nodes N and the edges E, each of them a
\* source, a relation and a target.
IsEdge(e) ==
    e = [source |-> e.source, target |-> e.target, relations |-> e.relations] /\ IsSeq(e.relations)

EdgesOnce(edges) ==
    \A i, j \in DOMAIN edges :
        edges[i].source = edges[j].source /\ edges[i].target = edges[j].target => i = j

HasNodes(nodes, types, N) ==
    /\ IsSeq(nodes)
    /\ NamesOnce(nodes)
    /\ \A i \in DOMAIN nodes : nodes[i].isExternal <=> Named(types, nodes[i].name) = {}
    /\ \A x : Named(nodes, x) # {} <=> x \in N

HasEdges(edges, E) ==
    /\ IsSeq(edges)
    /\ EdgesOnce(edges)
    /\ \A i \in DOMAIN edges : IsEdge(edges[i])
    /\ \A i \in DOMAIN edges : \A r :
          Contains(edges[i].relations, r) => <<edges[i].source, r, edges[i].target>> \in E
    /\ \A s, r, t : <<s, r, t>> \in E =>
          \E i \in DOMAIN edges : edges[i].source = s /\ edges[i].target = t /\ Contains(edges[i].relations, r)

IsGraph(g, types, N, E) ==
    g = [nodes |-> g.nodes, edges |-> g.edges] /\ HasNodes(g.nodes, types, N) /\ HasEdges(g.edges, E)

\* A type becomes a node once.
LEMMA NodeAdded ==
    ASSUME NEW g, NEW types, NEW N, NEW E, NEW name, IsGraph(g, types, N, E)
    PROVE  IsGraph(AddNode(g, types, name), types, N \cup {name}, E)
<1> DEFINE i0 == Named(types, name)
           node == [name |-> name, isExternal |-> i0 = {},
                    relCount |-> IF i0 = {} THEN 0 ELSE Len(types[CHOOSE k \in i0 : TRUE].members)]
           old == g.nodes
           new == Append(old, node)
<1>1. g = [nodes |-> old, edges |-> g.edges] /\ HasNodes(old, types, N) /\ HasEdges(g.edges, E)
  BY DEF IsGraph
<1>2. node.name = name /\ (node.isExternal <=> i0 = {})
  OBVIOUS
<1>3. CASE Named(old, name) # {}
  <2>1. AddNode(g, types, name) = g
    BY <1>3 DEF AddNode
  <2>2. N \cup {name} = N
    BY <1>1, <1>3 DEF HasNodes
  <2> QED BY <2>1, <2>2
<1>4. CASE Named(old, name) = {}
  <2>1. AddNode(g, types, name) = [nodes |-> new, edges |-> g.edges]
    <3>1. AddNode(g, types, name) = [g EXCEPT !.nodes = Append(@, node)]
      BY <1>4 DEF AddNode
    <3> HIDE DEF node
    <3> QED BY <1>1, <3>1
  <2> HIDE DEF node, i0
  <2>2. Len(old) \in Nat /\ DOMAIN old = 1..Len(old) /\ IsSeq(old)
    BY <1>1, SeqFacts DEF HasNodes
  <2> HIDE DEF old
  <2>3. /\ IsSeq(new) /\ DOMAIN new = 1..(Len(old) + 1) /\ new[Len(old) + 1] = node
        /\ \A i \in 1..Len(old) : new[i] = old[i]
    BY <2>2, AppendFacts, SeqFacts
  <2> HIDE DEF new
  <2>4. \A i \in 1..(Len(old) + 1) : i = Len(old) + 1 \/ i \in 1..Len(old)
    BY <2>2
  <2>5. Len(old) + 1 \in 1..(Len(old) + 1) /\ \A i \in 1..Len(old) : i \in 1..(Len(old) + 1)
    BY <2>2
  <2>6. \A i \in 1..Len(old) : old[i].name # name
    BY <1>4, <2>2 DEF Named
  <2>7. NamesOnce(new)
    <3> SUFFICES ASSUME NEW i \in 1..(Len(old) + 1), NEW j \in 1..(Len(old) + 1), new[i].name = new[j].name
                 PROVE  i = j
      BY <2>3 DEF NamesOnce
    <3>1. CASE i \in 1..Len(old) /\ j \in 1..Len(old)
      BY <1>1, <2>2, <2>3, <3>1 DEF HasNodes, NamesOnce
    <3>2. CASE i = Len(old) + 1 /\ j \in 1..Len(old)
      BY <1>2, <2>3, <2>6, <3>2
    <3>3. CASE j = Len(old) + 1 /\ i \in 1..Len(old)
      BY <1>2, <2>3, <2>6, <3>3
    <3> QED BY <2>4, <3>1, <3>2, <3>3
  <2>8. ASSUME NEW i \in 1..(Len(old) + 1)
        PROVE  new[i].isExternal <=> Named(types, new[i].name) = {}
    <3>1. CASE i \in 1..Len(old)
      BY <1>1, <2>2, <2>3, <3>1 DEF HasNodes
    <3>2. CASE i = Len(old) + 1
      BY <1>2, <2>3, <3>2 DEF i0
    <3> QED BY <2>4, <3>1, <3>2
  <2>9. ASSUME NEW x PROVE Named(new, x) # {} <=> x \in N \cup {name}
    <3>1. Named(new, x) # {} <=> \E i \in 1..(Len(old) + 1) : new[i].name = x
      BY <2>3 DEF Named
    <3>2. Named(old, x) # {} <=> \E i \in 1..Len(old) : old[i].name = x
      BY <2>2 DEF Named
    <3>3. (\E i \in 1..(Len(old) + 1) : new[i].name = x) <=> (\E i \in 1..Len(old) : old[i].name = x) \/ x = name
      BY <1>2, <2>3, <2>4, <2>5
    <3>4. Named(old, x) # {} <=> x \in N
      BY <1>1 DEF HasNodes
    <3> QED BY <3>1, <3>2, <3>3, <3>4
  <2>10. HasNodes(new, types, N \cup {name})
    BY <2>3, <2>7, <2>8, <2>9 DEF HasNodes
  <2> QED BY <1>1, <2>1, <2>10 DEF IsGraph
<1> QED BY <1>3, <1>4


\* A relation is added to the edge from one type to the other, which is new
\* with its first relation.
LEMMA EdgeAdded ==
    ASSUME NEW g, NEW types, NEW N, NEW E, NEW s0, NEW t0, NEW r0, IsGraph(g, types, N, E)
    PROVE  IsGraph(AddEdge(g, s0, t0, r0), types, N, E \cup {<<s0, r0, t0>>})
<1> DEFINE old == g.edges
           i0 == {e \in DOMAIN old : old[e].source = s0 /\ old[e].target = t0}
           F == E \cup {<<s0, r0, t0>>}
<1>1. g = [nodes |-> g.nodes, edges |-> old] /\ HasNodes(g.nodes, types, N) /\ HasEdges(old, E)
  BY DEF IsGraph
<1>2. Len(old) \in Nat /\ DOMAIN old = 1..Len(old) /\ IsSeq(old)
  BY <1>1, SeqFacts DEF HasEdges
<1>a. \A s, r, t : <<s, r, t>> \in F <=> <<s, r, t>> \in E \/ (s = s0 /\ r = r0 /\ t = t0)
  OBVIOUS
<1>3. CASE i0 = {}
  <2> DEFINE edge == [source |-> s0, target |-> t0, relations |-> <<r0>>]
             new == Append(old, edge)
  <2>1. AddEdge(g, s0, t0, r0) = [nodes |-> g.nodes, edges |-> new]
    <3>1. AddEdge(g, s0, t0, r0) = [g EXCEPT !.edges = Append(@, edge)]
      BY <1>3 DEF AddEdge
    <3> HIDE DEF edge
    <3> QED BY <1>1, <3>1
  <2>2. /\ edge.source = s0 /\ edge.target = t0 /\ IsEdge(edge)
        /\ \A r : Contains(edge.relations, r) <=> r = r0
    <3>1. <<r0>> \in Seq({r0})
      OBVIOUS
    <3>2. IsSeq(<<r0>>)
      BY <3>1 DEF IsSeq
    <3>3. \A r : Contains(<<r0>>, r) <=> r = r0
      BY DEF Contains
    <3> QED BY <3>2, <3>3 DEF IsEdge
  <2> HIDE DEF edge, F
  <2>3. \A i \in 1..Len(old) : ~(old[i].source = s0 /\ old[i].target = t0)
    BY <1>2, <1>3
  <2> HIDE DEF old
  <2>4. /\ IsSeq(new) /\ DOMAIN new = 1..(Len(old) + 1) /\ new[Len(old) + 1] = edge
        /\ \A i \in 1..Len(old) : new[i] = old[i]
    BY <1>2, AppendFacts, SeqFacts
  <2> HIDE DEF new
  <2>5. \A i \in 1..(Len(old) + 1) : i = Len(old) + 1 \/ i \in 1..Len(old)
    BY <1>2
  <2>6. Len(old) + 1 \in 1..(Len(old) + 1) /\ \A i \in 1..Len(old) : i \in 1..(Len(old) + 1)
    BY <1>2
  <2>7. EdgesOnce(new)
    <3> SUFFICES ASSUME NEW i \in 1..(Len(old) + 1), NEW j \in 1..(Len(old) + 1),
                        new[i].source = new[j].source, new[i].target = new[j].target
                 PROVE  i = j
      BY <2>4 DEF EdgesOnce
    <3>1. CASE i \in 1..Len(old) /\ j \in 1..Len(old)
      BY <1>1, <1>2, <2>4, <3>1 DEF HasEdges, EdgesOnce
    <3>2. CASE i = Len(old) + 1 /\ j \in 1..Len(old)
      BY <2>2, <2>3, <2>4, <3>2
    <3>3. CASE j = Len(old) + 1 /\ i \in 1..Len(old)
      BY <2>2, <2>3, <2>4, <3>3
    <3> QED BY <2>5, <3>1, <3>2, <3>3
  <2>8. ASSUME NEW i \in 1..(Len(old) + 1)
        PROVE  /\ IsEdge(new[i])
               /\ \A r : Contains(new[i].relations, r) => <<new[i].source, r, new[i].target>> \in F
    <3>1. CASE i \in 1..Len(old)
      BY <1>1, <1>2, <1>a, <2>4, <3>1 DEF HasEdges
    <3>2. CASE i = Len(old) + 1
      BY <1>a, <2>2, <2>4, <3>2
    <3> QED BY <2>5, <3>1, <3>2
  <2>9. ASSUME NEW s, NEW r, NEW t, <<s, r, t>> \in F
        PROVE  \E i \in 1..(Len(old) + 1) :
                  new[i].source = s /\ new[i].target = t /\ Contains(new[i].relations, r)
    <3>1. CASE <<s, r, t>> \in E
      <4>1. PICK i \in 1..Len(old) : old[i].source = s /\ old[i].target = t /\ Contains(old[i].relations, r)
        BY <1>1, <1>2, <3>1 DEF HasEdges
      <4> QED BY <2>4, <2>6, <4>1
    <3>2. CASE s = s0 /\ r = r0 /\ t = t0
      <4>1. /\ new[Len(old) + 1].source = s /\ new[Len(old) + 1].target = t
            /\ Contains(new[Len(old) + 1].relations, r)
        BY <2>2, <2>4, <3>2
      <4> QED BY <2>6, <4>1
    <3> QED BY <1>a, <2>9, <3>1, <3>2
  <2>10. HasEdges(new, F)
    BY <2>4, <2>7, <2>8, <2>9 DEF HasEdges
  <2> QED BY <1>1, <2>1, <2>10 DEF IsGraph, F
<1>4. CASE i0 # {}
  <2> DEFINE k == CHOOSE e \in i0 : TRUE
             edge == [source |-> s0, target |-> t0, relations |-> Append(old[k].relations, r0)]
             new == [i \in 1..Len(old) |-> IF i = k THEN edge ELSE old[i]]
  <2>1. k \in 1..Len(old) /\ old[k].source = s0 /\ old[k].target = t0
    BY <1>2, <1>4
  <2>2. IsEdge(old[k])
    BY <1>1, <1>2, <2>1 DEF HasEdges
  <2>3. AddEdge(g, s0, t0, r0) = [nodes |-> g.nodes, edges |-> new]
    <3>1. AddEdge(g, s0, t0, r0) = [g EXCEPT !.edges[k].relations = Append(@, r0)]
      BY <1>4 DEF AddEdge
    <3> HIDE DEF k
    <3>2. [old[k] EXCEPT !.relations = Append(@, r0)] = edge
      <4>1. old[k] = [source |-> s0, target |-> t0, relations |-> old[k].relations]
        BY <2>1, <2>2 DEF IsEdge
      <4>2. \A x : [[source |-> s0, target |-> t0, relations |-> old[k].relations] EXCEPT !.relations = x]
                      = [source |-> s0, target |-> t0, relations |-> x]
        OBVIOUS
      <4> QED BY <4>1, <4>2
    <3>3. [old EXCEPT ![k] = edge] = new
      <4> HIDE DEF edge
      <4>1. old = [i \in 1..Len(old) |-> old[i]]
        <5>1. PICK S : old \in Seq(S)
          BY <1>2 DEF IsSeq
        <5> QED BY <5>1
      <4> HIDE DEF old
      <4> QED BY <1>2, <2>1, <4>1
    <3>4. [old EXCEPT ![k].relations = Append(@, r0)] = [old EXCEPT ![k] = edge]
      BY <3>2
    <3> HIDE DEF new, edge
    <3>5. AddEdge(g, s0, t0, r0) = [g EXCEPT !.edges = new]
      BY <3>1, <3>3, <3>4
    <3> QED BY <1>1, <3>5
  <2>4. /\ edge.source = s0 /\ edge.target = t0 /\ IsEdge(edge)
        /\ \A r : Contains(edge.relations, r) <=> Contains(old[k].relations, r) \/ r = r0
    <3>1. IsSeq(old[k].relations)
      BY <2>2 DEF IsEdge
    <3>2. /\ IsSeq(Append(old[k].relations, r0))
          /\ \A r : Contains(Append(old[k].relations, r0), r) <=> Contains(old[k].relations, r) \/ r = r0
      BY <3>1, AppendFacts, ContainsAppend
    <3>3. \A q : /\ [source |-> s0, target |-> t0, relations |-> q].source = s0
                 /\ [source |-> s0, target |-> t0, relations |-> q].target = t0
                 /\ [source |-> s0, target |-> t0, relations |-> q].relations = q
      OBVIOUS
    <3>4. edge.source = s0 /\ edge.target = t0 /\ edge.relations = Append(old[k].relations, r0)
      BY <3>3
    <3>5. edge = [source |-> edge.source, target |-> edge.target, relations |-> edge.relations]
      BY <3>4
    <3> HIDE DEF edge, k
    <3> QED BY <3>2, <3>4, <3>5 DEF IsEdge
  <2> HIDE DEF k, edge, F
  <2>5. /\ IsSeq(new) /\ DOMAIN new = 1..Len(old) /\ new[k] = edge
        /\ \A i \in 1..Len(old) : i # k => new[i] = old[i]
    <3>1. new = [i \in 1..Len(old) |-> new[i]]
      OBVIOUS
    <3>2. DOMAIN new = 1..Len(old) /\ new[k] = edge /\ \A i \in 1..Len(old) : i # k => new[i] = old[i]
      BY <2>1
    <3> HIDE DEF new, old
    <3>3. IsSeq(new)
      BY <1>2, <3>1, FunctionIsSeq
    <3> QED BY <3>2, <3>3
  <2> HIDE DEF new, old
  <2>6. \A i \in 1..Len(old) : new[i].source = old[i].source /\ new[i].target = old[i].target
    BY <2>1, <2>4, <2>5
  <2>7. EdgesOnce(new)
    BY <1>1, <1>2, <2>5, <2>6 DEF HasEdges, EdgesOnce
  <2>8. ASSUME NEW i \in 1..Len(old)
        PROVE  /\ IsEdge(new[i])
               /\ \A r : Contains(new[i].relations, r) => <<new[i].source, r, new[i].target>> \in F
    <3>1. /\ IsEdge(old[i])
          /\ \A r : Contains(old[i].relations, r) => <<old[i].source, r, old[i].target>> \in E
      BY <1>1, <1>2 DEF HasEdges
    <3>2. CASE i # k
      BY <1>a, <2>5, <3>1, <3>2
    <3>3. CASE i = k
      BY <1>a, <2>1, <2>4, <2>5, <3>1, <3>3
    <3> QED BY <3>2, <3>3
  <2>9. ASSUME NEW s, NEW r, NEW t, <<s, r, t>> \in F
        PROVE  \E i \in 1..Len(old) :
                  new[i].source = s /\ new[i].target = t /\ Contains(new[i].relations, r)
    <3>1. CASE <<s, r, t>> \in E
      <4>1. PICK i \in 1..Len(old) : old[i].source = s /\ old[i].target = t /\ Contains(old[i].relations, r)
        BY <1>1, <1>2, <3>1 DEF HasEdges
      <4>2. Contains(new[i].relations, r)
        BY <2>4, <2>5, <4>1
      <4> QED BY <2>6, <4>1, <4>2
    <3>2. CASE s = s0 /\ r = r0 /\ t = t0
      BY <2>1, <2>4, <2>5, <3>2
    <3> QED BY <1>a, <2>9, <3>1, <3>2
  <2>10. HasEdges(new, F)
    BY <2>5, <2>7, <2>8, <2>9 DEF HasEdges
  <2> QED BY <1>1, <2>3, <2>10 DEF IsGraph, F
<1> QED BY <1>3, <1>4


\* The nodes and edges of a relation, of the first n relations of a type, and
\* of the first n types.
TargetTypes(r, n) == {r.targets[k].type : k \in 1..n}
RelationEdges(s, r, n) == {<<s, r.name, r.targets[k].type>> : k \in 1..n}
TypeNodes(t, n) == {t.name} \cup UNION {TargetTypes(t.members[k], Len(t.members[k].targets)) : k \in 1..n}
TypeEdges(t, n) == UNION {RelationEdges(t.name, t.members[k], Len(t.members[k].targets)) : k \in 1..n}
AllNodes(types, n) == UNION {TypeNodes(types[k], Len(types[k].members)) : k \in 1..n}
AllEdges(types, n) == UNION {TypeEdges(types[k], Len(types[k].members)) : k \in 1..n}

\* The targets of a relation are a list, and each has a type.
HasTypes(r) == Len(r.targets) \in Nat /\ \A k \in 1..Len(r.targets) : r.targets[k].type # None

\* The targets of a relation are added.
LEMMA TargetsInGraph ==
    ASSUME NEW g, NEW types, NEW N, NEW E, NEW t, NEW r, IsGraph(g, types, N, E), HasTypes(r)
    PROVE  IsGraph(AddTargets(g, types, t, r), types, N \cup TargetTypes(r, Len(r.targets)),
                   E \cup RelationEdges(t.name, r, Len(r.targets)))
<1> DEFINE M == Len(r.targets)
           NN(k) == N \cup TargetTypes(r, k)
           EE(k) == E \cup RelationEdges(t.name, r, k)
<1>0. M \in Nat /\ \A k \in 1..M : r.targets[k].type # None
  BY DEF HasTypes
<1>1. PICK f : Targets(g, types, t, r, f)
  BY <1>0, TargetsIsRun
<1>2. /\ f[0] = g /\ AddTargets(g, types, t, r) = f[M]
      /\ \A k \in 1..M : f[k] = AddEdge(AddNode(f[k - 1], types, r.targets[k].type),
                                        t.name, r.targets[k].type, r.name)
  BY <1>0, <1>1 DEF Targets, AddTarget
<1> DEFINE S == {k \in 0..M : IsGraph(f[k], types, NN(k), EE(k))}
<1>3. 0 \in S
  <2>1. NN(0) = N /\ EE(0) = E
    BY DEF TargetTypes, RelationEdges
  <2>2. 0 \in 0..M
    BY <1>0
  <2> HIDE DEF NN, EE
  <2> QED BY <1>2, <2>1, <2>2
<1>4. ASSUME NEW k \in 0..(M - 1), k \in S PROVE k + 1 \in S
  <2> DEFINE x == r.targets[k + 1].type
  <2>1. k + 1 \in 1..M /\ (k + 1) - 1 = k /\ k + 1 \in 0..M /\ IsGraph(f[k], types, NN(k), EE(k))
    BY <1>0, <1>4
  <2>2. f[k + 1] = AddEdge(AddNode(f[k], types, x), t.name, x, r.name)
    BY <1>2, <2>1
  <2>3. \A i \in 1..(k + 1) : i = k + 1 \/ i \in 1..k
    OBVIOUS
  <2>4. k + 1 \in 1..(k + 1) /\ \A i \in 1..k : i \in 1..(k + 1)
    OBVIOUS
  <2>5. NN(k + 1) = NN(k) \cup {x}
    BY <2>3, <2>4 DEF TargetTypes
  <2>6. EE(k + 1) = EE(k) \cup {<<t.name, r.name, x>>}
    BY <2>3, <2>4 DEF RelationEdges
  <2> HIDE DEF x, NN, EE
  <2>7. IsGraph(AddNode(f[k], types, x), types, NN(k + 1), EE(k))
    BY <2>1, <2>5, NodeAdded
  <2>8. IsGraph(f[k + 1], types, NN(k + 1), EE(k + 1))
    BY <2>2, <2>6, <2>7, EdgeAdded
  <2> QED BY <2>1, <2>8
<1> HIDE DEF S
<1>5. \A k \in 0..M : k \in S
  BY <1>0, <1>3, <1>4, BoundedInduction
<1>6. M \in S
  BY <1>0, <1>5
<1> QED BY <1>2, <1>6 DEF S

\* A type and its relations are added.
LEMMA TypeInGraph ==
    ASSUME NEW g, NEW types, NEW N, NEW E, NEW t, IsGraph(g, types, N, E), Len(t.members) \in Nat,
           \A k \in 1..Len(t.members) : HasTypes(t.members[k])
    PROVE  IsGraph(AddType(g, types, t), types, N \cup TypeNodes(t, Len(t.members)),
                   E \cup TypeEdges(t, Len(t.members)))
<1> DEFINE M == Len(t.members)
           NN(k) == N \cup TypeNodes(t, k)
           EE(k) == E \cup TypeEdges(t, k)
<1>1. PICK f : TypeAdded(g, types, t, f)
  BY TypeAddedIsRun
<1>2. /\ f[0] = AddNode(g, types, t.name) /\ AddType(g, types, t) = f[M]
      /\ \A k \in 1..M : f[k] = AddTargets(f[k - 1], types, t, t.members[k])
  BY <1>1 DEF TypeAdded
<1> DEFINE S == {k \in 0..M : IsGraph(f[k], types, NN(k), EE(k))}
<1>3. 0 \in S
  <2>1. NN(0) = N \cup {t.name} /\ EE(0) = E
    BY DEF TypeNodes, TypeEdges
  <2>2. IsGraph(f[0], types, N \cup {t.name}, E)
    BY <1>2, NodeAdded
  <2>3. 0 \in 0..M
    OBVIOUS
  <2> HIDE DEF NN, EE
  <2> QED BY <2>1, <2>2, <2>3
<1>4. ASSUME NEW k \in 0..(M - 1), k \in S PROVE k + 1 \in S
  <2> DEFINE r == t.members[k + 1]
             X == TargetTypes(r, Len(r.targets))
             Y == RelationEdges(t.name, r, Len(r.targets))
  <2>1. k + 1 \in 1..M /\ (k + 1) - 1 = k /\ k + 1 \in 0..M /\ IsGraph(f[k], types, NN(k), EE(k))
    BY <1>4
  <2>2. f[k + 1] = AddTargets(f[k], types, t, r) /\ HasTypes(r)
    BY <1>2, <2>1
  <2>3. \A i \in 1..(k + 1) : i = k + 1 \/ i \in 1..k
    OBVIOUS
  <2>4. k + 1 \in 1..(k + 1) /\ \A i \in 1..k : i \in 1..(k + 1)
    OBVIOUS
  <2>5. NN(k + 1) = NN(k) \cup X
    BY <2>3, <2>4 DEF TypeNodes
  <2>6. EE(k + 1) = EE(k) \cup Y
    BY <2>3, <2>4 DEF TypeEdges
  <2> HIDE DEF r, NN, EE
  <2>7. IsGraph(f[k + 1], types, NN(k + 1), EE(k + 1))
    BY <2>1, <2>2, <2>5, <2>6, TargetsInGraph
  <2> QED BY <2>1, <2>7
<1> HIDE DEF S
<1>5. \A k \in 0..M : k \in S
  BY <1>3, <1>4, BoundedInduction
<1>6. M \in S
  BY <1>5
<1> QED BY <1>2, <1>6 DEF S

\* The whole graph.
LEMMA GraphHasAll ==
    ASSUME NEW types, Len(types) \in Nat,
           \A i \in 1..Len(types) :
              /\ Len(types[i].members) \in Nat
              /\ \A k \in 1..Len(types[i].members) : HasTypes(types[i].members[k])
    PROVE  IsGraph(GraphOf(types), types, AllNodes(types, Len(types)), AllEdges(types, Len(types)))
<1> DEFINE M == Len(types)
           NN(k) == AllNodes(types, k)
           EE(k) == AllEdges(types, k)
<1>1. PICK f : GraphBuilt(types, f)
  BY GraphBuiltIsRun
<1>2. /\ f[0] = EmptyGraph /\ GraphOf(types) = f[M]
      /\ \A k \in 1..M : f[k] = AddType(f[k - 1], types, types[k])
  BY <1>1 DEF GraphBuilt
<1> DEFINE S == {k \in 0..M : IsGraph(f[k], types, NN(k), EE(k))}
<1>3. 0 \in S
  <2>1. NN(0) = {} /\ EE(0) = {}
    BY DEF AllNodes, AllEdges
  <2>2. <<>> \in Seq({}) /\ DOMAIN <<>> = {}
    OBVIOUS
  <2>3. IsSeq(<<>>)
    BY <2>2 DEF IsSeq
  <2>4. HasNodes(<<>>, types, {}) /\ HasEdges(<<>>, {})
    BY <2>2, <2>3 DEF HasNodes, HasEdges, NamesOnce, EdgesOnce, Named
  <2>5. IsGraph(EmptyGraph, types, {}, {})
    BY <2>4 DEF IsGraph, EmptyGraph
  <2>6. IsGraph(f[0], types, NN(0), EE(0))
    BY <1>2, <2>1, <2>5
  <2>7. 0 \in 0..M
    OBVIOUS
  <2> QED BY <2>6, <2>7
<1>4. ASSUME NEW k \in 0..(M - 1), k \in S PROVE k + 1 \in S
  <2> DEFINE t == types[k + 1]
             X == TypeNodes(t, Len(t.members))
             Y == TypeEdges(t, Len(t.members))
  <2>1. k + 1 \in 1..M /\ (k + 1) - 1 = k /\ k + 1 \in 0..M /\ IsGraph(f[k], types, NN(k), EE(k))
    BY <1>4
  <2>2. /\ f[k + 1] = AddType(f[k], types, t) /\ Len(t.members) \in Nat
        /\ \A i \in 1..Len(t.members) : HasTypes(t.members[i])
    BY <1>2, <2>1
  <2>3. \A i \in 1..(k + 1) : i = k + 1 \/ i \in 1..k
    OBVIOUS
  <2>4. k + 1 \in 1..(k + 1) /\ \A i \in 1..k : i \in 1..(k + 1)
    OBVIOUS
  <2>5. NN(k + 1) = NN(k) \cup X
    BY <2>3, <2>4 DEF AllNodes
  <2>6. EE(k + 1) = EE(k) \cup Y
    BY <2>3, <2>4 DEF AllEdges
  <2> HIDE DEF t, NN, EE
  <2>7. IsGraph(f[k + 1], types, NN(k + 1), EE(k + 1))
    BY <2>1, <2>2, <2>5, <2>6, TypeInGraph
  <2> QED BY <2>1, <2>7
<1> HIDE DEF S
<1>5. \A k \in 0..M : k \in S
  BY <1>3, <1>4, BoundedInduction
<1>6. M \in S
  BY <1>5
<1> QED BY <1>2, <1>6 DEF S

-----------------------------------------------------------------------------
(* The graph of a document.                                                *)

\* A type is written once.
OnceInv == NamesOnce(meaning)

\* There is no type at first.
LEMMA OnceInit == Init => OnceInv
  BY DEF Init, OnceInv, NamesOnce

\* A name is only written when it is not there.
LEMMA OnceNext == TextInv /\ OnceInv /\ [Next]_vars => OnceInv'
<1> SUFFICES ASSUME TextInv, OnceInv, [Next]_vars PROVE OnceInv'
  OBVIOUS
<1> DEFINE n == Len(meaning)
<1>0. meaning \in Seq(TypeMeaning) /\ n \in Nat /\ DOMAIN meaning = 1..n
  BY DEF TextInv, TextType
<1>1. ASSUME meaning' = meaning PROVE OnceInv'
  BY <1>1, SMTT(60) DEF OnceInv
<1>2. ASSUME NEW u, meaning # <<>>, u.name = meaning[n].name, meaning' = SetLast(meaning, u)
      PROVE  OnceInv'
  <2>1. n \in 1..n
    BY <1>0, <1>2
  <2>2. meaning' = [meaning EXCEPT ![n] = u]
    BY <1>2, SMTT(60) DEF SetLast
  <2>3. DOMAIN meaning' = 1..n /\ meaning'[n] = u /\ \A i \in 1..n : i # n => meaning'[i] = meaning[i]
    BY <1>0, <2>1, <2>2
  <2>4. \A i \in 1..n : meaning'[i].name = meaning[i].name
    BY <1>2, <2>3
  <2> QED BY <1>0, <2>3, <2>4 DEF OnceInv, NamesOnce
<1>3. ASSUME NEW name, NEW u, u.name = name, Named(meaning, name) = {}, meaning' = Append(meaning, u)
      PROVE  OnceInv'
  <2>1. IsSeq(meaning)
    BY <1>0 DEF IsSeq
  <2>2. /\ DOMAIN meaning' = 1..(n + 1) /\ meaning'[n + 1] = u
        /\ \A i \in 1..n : meaning'[i] = meaning[i]
    BY <1>3, <2>1, AppendFacts, SeqFacts
  <2>3. \A i \in 1..n : meaning[i].name # name
    BY <1>0, <1>3 DEF Named
  <2> SUFFICES ASSUME NEW i \in 1..(n + 1), NEW j \in 1..(n + 1), meaning'[i].name = meaning'[j].name
               PROVE  i = j
    BY <2>2 DEF OnceInv, NamesOnce
  <2>4. (i = n + 1 \/ i \in 1..n) /\ (j = n + 1 \/ j \in 1..n)
    BY <1>0
  <2>5. CASE i \in 1..n /\ j \in 1..n
    BY <1>0, <2>2, <2>5 DEF OnceInv, NamesOnce
  <2>6. CASE i = n + 1 /\ j \in 1..n
    BY <1>3, <2>2, <2>3, <2>6
  <2>7. CASE j = n + 1 /\ i \in 1..n
    BY <1>3, <2>2, <2>3, <2>7
  <2> QED BY <2>4, <2>5, <2>6, <2>7
<1>4. ASSUME NEW note \in BOOLEAN, WriteVersion(note) PROVE OnceInv'
  BY <1>1, <1>4 DEF WriteVersion
<1>5. ASSUME NEW note \in BOOLEAN, StartTypes(note) PROVE OnceInv'
  BY <1>1, <1>5 DEF StartTypes
<1>6. ASSUME NEW name \in TypeNames, NEW bare \in BOOLEAN, NEW note \in BOOLEAN, WriteType(name, bare, note)
      PROVE  OnceInv'
  <2> DEFINE u == [name |-> name, sections |-> {}, latest |-> None, relations |-> <<>>, permissions |-> <<>>]
  <2>1. Named(meaning, name) = {} /\ (meaning' = meaning \/ meaning' = Append(meaning, u))
    BY <1>6 DEF WriteType
  <2>2. u.name = name
    OBVIOUS
  <2> HIDE DEF u
  <2> QED BY <1>1, <1>3, <2>1, <2>2
<1>7. ASSUME NEW section \in Sections, NEW note \in BOOLEAN, WriteSection(section, note) PROVE OnceInv'
  <2> DEFINE t == meaning[n]
             u == [t EXCEPT !.sections = @ \cup {section}, !.latest = section]
  <2>1. meaning' = SetLast(meaning, u)
    BY <1>7 DEF WriteSection, SetLast, Here
  <2>2. meaning # <<>>
    BY <1>7 DEF WriteSection, TextInv, TextType
  <2>3. t \in TypeMeaning
    BY <1>0, <2>2
  <2> HIDE DEF t
  <2>4. u.name = t.name
    BY <2>3 DEF TypeMeaning
  <2> HIDE DEF u
  <2> QED BY <1>2, <2>1, <2>2, <2>4 DEF t
<1>8. ASSUME NEW name \in AttributeNames, NEW note \in BOOLEAN, WriteAttribute(name, note) PROVE OnceInv'
  BY <1>1, <1>8 DEF WriteAttribute
<1>9. ASSUME NEW name \in RelationNames, NEW targets \in TargetLists, NEW inline \in BOOLEAN,
             NEW notes \in SUBSET (1..(IF inline THEN 2 ELSE 2 + Len(targets))),
             WriteRelation(name, targets, inline, notes)
      PROVE  OnceInv'
  <2> DEFINE t == meaning[n]
             u == [t EXCEPT !.relations = Append(@, Relation(name, targets, inline, notes))]
  <2>1. meaning' = SetLast(meaning, u)
    BY <1>9 DEF WriteRelation, SetLast, Here, Relation
  <2>2. meaning # <<>>
    BY <1>9 DEF WriteRelation, TextInv, TextType, Sections
  <2>3. t \in TypeMeaning
    BY <1>0, <2>2
  <2> HIDE DEF t
  <2>4. u.name = t.name
    BY <2>3 DEF TypeMeaning
  <2> HIDE DEF u
  <2> QED BY <1>2, <2>1, <2>2, <2>4 DEF t
<1>10. ASSUME NEW name \in PermissionNames, NEW union \in BOOLEAN,
              NEW notes \in SUBSET (1..(IF union THEN 3 ELSE 2)), WritePermission(name, union, notes)
       PROVE  OnceInv'
  <2> DEFINE t == meaning[n]
             u == [t EXCEPT !.permissions = Append(@, name)]
  <2>1. meaning' = SetLast(meaning, u)
    BY <1>10 DEF WritePermission, SetLast, Here
  <2>2. meaning # <<>>
    BY <1>10 DEF WritePermission, TextInv, TextType, Sections
  <2>3. t \in TypeMeaning
    BY <1>0, <2>2
  <2> HIDE DEF t
  <2>4. u.name = t.name
    BY <2>3 DEF TypeMeaning
  <2> HIDE DEF u
  <2> QED BY <1>2, <2>1, <2>2, <2>4 DEF t
<1>11. CASE \E indent \in {2, 6}, tail \in {"open", "comment"} : WriteComment(indent, tail)
  BY <1>1, <1>11 DEF WriteComment
<1>12. CASE UNCHANGED vars
  BY <1>1, <1>12 DEF vars
<1> QED BY <1>4, <1>5, <1>6, <1>7, <1>8, <1>9, <1>10, <1>11, <1>12 DEF Next


\* After every line the scanners are in step and no type was written twice.
THEOREM TextOnce == Spec => [](TextInv /\ OnceInv)
<1>1. Init => TextInv /\ OnceInv
  BY TextInit, OnceInit
<1>2. TextInv /\ OnceInv /\ [Next]_vars => (TextInv /\ OnceInv)'
  BY TextNext, OnceNext
<1> QED BY <1>1, <1>2, PTL DEF Spec

\* What is found has a type, if only a garbled one.
LEMMA FoundHaveTypes ==
    ASSUME NEW r \in RelationMeaning
    PROVE  IsSeq(FoundTargets(r)) /\ \A n \in 1..Len(FoundTargets(r)) : FoundTargets(r)[n].type # None
<1>1. /\ IsSeq(r.targets) /\ r.inline \in BOOLEAN
      /\ \A i \in DOMAIN r.targets : "type" \in DOMAIN r.targets[i] /\ r.targets[i].type # None
  <2>1. r.targets \in TargetLists /\ r.inline \in BOOLEAN
    BY DEF RelationMeaning
  <2> QED BY <2>1, TextAssumption DEF IsSeq
<1>2. IsSeq(FoundTargets(r))
  BY <1>1, FoundFacts
<1>3. DOMAIN r.targets = 1..Len(r.targets) /\ Len(r.targets) \in Nat
  BY <1>1, SeqFacts
<1>4. CASE r.inline /\ 2 \in r.notes
  <2>1. FoundTargets(r) = <<ListText>>
    BY <1>4 DEF FoundTargets
  <2>2. Len(<<ListText>>) = 1 /\ <<ListText>>[1] = ListText /\ \A n \in 1..1 : n = 1
    OBVIOUS
  <2>3. ListText.type # None
    BY TextAssumption DEF ListText
  <2> QED BY <1>2, <2>1, <2>2, <2>3
<1>5. CASE ~(r.inline /\ 2 \in r.notes)
  <2> DEFINE x(i) == IF ~r.inline /\ i + 2 \in r.notes THEN Noted(r.targets[i]) ELSE r.targets[i]
             v == [i \in 1..Len(r.targets) |-> stripQuotes(x(i))]
  <2>1. FoundTargets(r) = v
    BY <1>3, <1>5 DEF FoundTargets
  <2>2. v = [i \in 1..Len(r.targets) |-> v[i]] /\ \A i \in 1..Len(r.targets) : v[i] = stripQuotes(x(i))
    OBVIOUS
  <2> HIDE DEF v
  <2>3. Len(v) = Len(r.targets)
    BY <1>3, <2>2, FunctionIsSeq
  <2>4. ASSUME NEW i \in 1..Len(r.targets) PROVE v[i].type # None
    <3> DEFINE y == r.targets[i]
    <3>1. "type" \in DOMAIN y /\ y.type # None
      BY <1>1, <1>3
    <3> HIDE DEF y
    <3>2. "type" \in DOMAIN Noted(y) /\ Noted(y).type # None
      BY <3>1, TextAssumption DEF Noted
    <3>3. "type" \in DOMAIN x(i) /\ x(i).type # None
      BY <3>1, <3>2 DEF y
    <3> HIDE DEF x
    <3>4. stripQuotes(x(i)).type = x(i).type
      BY <3>3 DEF stripQuotes
    <3> QED BY <2>2, <3>3, <3>4
  <2> QED BY <1>2, <2>1, <2>3, <2>4
<1> QED BY <1>2, <1>4, <1>5

\* The types of the dialog, field by field.
LEMMA DeclaredFields ==
    ASSUME NEW types \in Seq(TypeMeaning)
    PROVE  LET d == Declared(types, "relations")
           IN  /\ IsSeq(d) /\ Len(d) = Len(types) /\ Len(d) \in Nat /\ DOMAIN d = 1..Len(types)
               /\ DOMAIN types = 1..Len(types)
               /\ \A i \in 1..Len(types) :
                     /\ d[i].name = types[i].name
                     /\ types[i].name \in TypeNames
                     /\ Len(d[i].members) = Len(types[i].relations)
                     /\ Len(types[i].relations) \in Nat
                     /\ DOMAIN types[i].relations = 1..Len(types[i].relations)
                     /\ \A k \in 1..Len(types[i].relations) :
                           /\ d[i].members[k].name = types[i].relations[k].name
                           /\ types[i].relations[k].name \in RelationNames
                           /\ d[i].members[k].targets = FoundTargets(types[i].relations[k])
                           /\ IsSeq(d[i].members[k].targets) /\ HasTypes(d[i].members[k])
<1> DEFINE d == Declared(types, "relations")
<1>1. /\ IsSeq(d) /\ Len(d) = Len(types) /\ Len(types) \in Nat /\ DOMAIN d = 1..Len(types)
      /\ DOMAIN types = 1..Len(types)
      /\ \A i \in 1..Len(types) : d[i] = DeclaredType(types[i], "relations")
  BY DeclaredFacts, MeaningFacts, SeqFacts
<1> HIDE DEF d
<1>2. ASSUME NEW i \in 1..Len(types)
      PROVE  /\ d[i].name = types[i].name
             /\ types[i].name \in TypeNames
             /\ Len(d[i].members) = Len(types[i].relations)
             /\ Len(types[i].relations) \in Nat
             /\ DOMAIN types[i].relations = 1..Len(types[i].relations)
  <2>1. types[i] \in TypeMeaning /\ IsSeq(types[i].relations)
    BY MeaningFacts
  <2>2. d[i].name = types[i].name /\ d[i].members = Members(types[i], "relations")
    BY <1>1 DEF DeclaredType
  <2>3. types[i].name \in TypeNames
    BY <2>1 DEF TypeMeaning
  <2>4. Len(Members(types[i], "relations")) = Len(types[i].relations)
    BY <2>1, MembersFacts
  <2> QED BY <2>1, <2>2, <2>3, <2>4, SeqFacts
<1>3. ASSUME NEW i \in 1..Len(types), NEW k \in 1..Len(types[i].relations)
      PROVE  /\ d[i].members[k].name = types[i].relations[k].name
             /\ types[i].relations[k].name \in RelationNames
             /\ d[i].members[k].targets = FoundTargets(types[i].relations[k])
             /\ IsSeq(d[i].members[k].targets) /\ HasTypes(d[i].members[k])
  <2> DEFINE r == types[i].relations[k]
  <2>1. types[i] \in TypeMeaning
    BY MeaningFacts
  <2>2. types[i].relations \in Seq(RelationMeaning)
    BY <2>1 DEF TypeMeaning
  <2>3. r \in RelationMeaning
    BY <2>2
  <2>4. d[i].members = Members(types[i], "relations")
    BY <1>1 DEF DeclaredType
  <2>5. Members(types[i], "relations")[k] = NewMember(r.name, FoundTargets(r))
    BY <2>1, MembersFacts
  <2>6. d[i].members[k].name = r.name /\ d[i].members[k].targets = FoundTargets(r)
    BY <2>4, <2>5 DEF NewMember
  <2> HIDE DEF r
  <2>7. r.name \in RelationNames /\ r.targets \in TargetLists
    BY <2>3 DEF RelationMeaning
  <2>8. IsSeq(FoundTargets(r)) /\ \A n \in 1..Len(FoundTargets(r)) : FoundTargets(r)[n].type # None
    BY <2>3, FoundHaveTypes
  <2>9. IsSeq(d[i].members[k].targets) /\ HasTypes(d[i].members[k])
    BY <2>6, <2>8, SeqFacts DEF HasTypes
  <2> QED BY <2>6, <2>7, <2>9 DEF r
<1> QED BY <1>1, <1>2, <1>3 DEF d

\* A graph has the edge from s to t with r from relation k of type i.
EdgeOf(types, i, k, s, r, t) ==
    /\ s = types[i].name /\ r = types[i].members[k].name
    /\ t \in TargetTypes(types[i].members[k], Len(types[i].members[k].targets))

\* The edges of all types, one by one.
LEMMA EdgesOneByOne ==
    ASSUME NEW types, NEW m, NEW s, NEW r, NEW t
    PROVE  <<s, r, t>> \in AllEdges(types, m) <=>
              \E i \in 1..m : \E k \in 1..Len(types[i].members) : EdgeOf(types, i, k, s, r, t)
<1> DEFINE x == <<s, r, t>>
<1>1. ASSUME NEW a, NEW q, NEW n
      PROVE  x \in RelationEdges(a, q, n) <=> s = a /\ r = q.name /\ t \in TargetTypes(q, n)
  <2>1. x \in RelationEdges(a, q, n) <=> \E k \in 1..n : x = <<a, q.name, q.targets[k].type>>
    BY DEF RelationEdges
  <2>2. \A y : x = <<a, q.name, y>> <=> s = a /\ r = q.name /\ t = y
    OBVIOUS
  <2>3. t \in TargetTypes(q, n) <=> \E k \in 1..n : t = q.targets[k].type
    BY DEF TargetTypes
  <2> HIDE DEF x
  <2> QED BY <2>1, <2>2, <2>3
<1> HIDE DEF x
<1>2. ASSUME NEW ty, NEW n
      PROVE  x \in TypeEdges(ty, n) <=>
                \E k \in 1..n : x \in RelationEdges(ty.name, ty.members[k], Len(ty.members[k].targets))
  BY DEF TypeEdges
<1>3. x \in AllEdges(types, m) <=> \E i \in 1..m : x \in TypeEdges(types[i], Len(types[i].members))
  BY DEF AllEdges
<1>4. ASSUME NEW i, NEW k
      PROVE  x \in RelationEdges(types[i].name, types[i].members[k], Len(types[i].members[k].targets))
                <=> EdgeOf(types, i, k, s, r, t)
  BY <1>1 DEF EdgeOf
<1>5. ASSUME NEW i
      PROVE  x \in TypeEdges(types[i], Len(types[i].members)) <=>
                \E k \in 1..Len(types[i].members) : EdgeOf(types, i, k, s, r, t)
  BY <1>2, <1>4
<1>6. x \in AllEdges(types, m) <=>
         \E i \in 1..m : \E k \in 1..Len(types[i].members) : EdgeOf(types, i, k, s, r, t)
  BY <1>3, <1>5
<1> QED BY <1>6 DEF x

\* The nodes: the types and the targets of their relations.
LEMMA NodesOneByOne ==
    ASSUME NEW types, NEW m, NEW x
    PROVE  x \in AllNodes(types, m) <=>
              \E i \in 1..m : \/ x = types[i].name
                             \/ \E k \in 1..Len(types[i].members) :
                                   x \in TargetTypes(types[i].members[k], Len(types[i].members[k].targets))
<1>1. ASSUME NEW ty, NEW n
      PROVE  x \in TypeNodes(ty, n) <=>
                \/ x = ty.name
                \/ \E k \in 1..n : x \in TargetTypes(ty.members[k], Len(ty.members[k].targets))
  BY DEF TypeNodes
<1>2. x \in AllNodes(types, m) <=> \E i \in 1..m : x \in TypeNodes(types[i], Len(types[i].members))
  BY DEF AllNodes
<1> QED BY <1>1, <1>2

\* The graph has one node per type that has a body or is found as a target,
\* and between two types one edge with the relations between them, where a
\* list or item that runs into a comment is a type of its own: for documents
\* of any length, with any names and target lists, without a comment behind
\* an opening line.
THEOREM GraphReads == Spec => []GraphReadsDocument
<1>1. TextInv /\ OnceInv => GraphReadsDocument
  <2> SUFFICES ASSUME TextInv, OnceInv, OpeningsAreBare PROVE GraphReadsDocument
    BY DEF GraphReadsDocument
  <2> DEFINE d == Declared(meaning, "relations")
             g == GraphOf(d)
             N == AllNodes(d, Len(d))
             E == AllEdges(d, Len(d))
  <2>1. meaning \in Seq(TypeMeaning)
    BY DEF TextInv, TextType
  <2>2. /\ IsSeq(d) /\ Len(d) = Len(meaning) /\ Len(d) \in Nat /\ DOMAIN d = 1..Len(meaning)
        /\ DOMAIN meaning = 1..Len(meaning)
        /\ \A i \in 1..Len(meaning) :
              /\ d[i].name = meaning[i].name
              /\ meaning[i].name \in TypeNames
              /\ Len(d[i].members) = Len(meaning[i].relations)
              /\ Len(meaning[i].relations) \in Nat
              /\ DOMAIN meaning[i].relations = 1..Len(meaning[i].relations)
              /\ \A k \in 1..Len(meaning[i].relations) :
                    /\ d[i].members[k].name = meaning[i].relations[k].name
                    /\ meaning[i].relations[k].name \in RelationNames
                    /\ d[i].members[k].targets = FoundTargets(meaning[i].relations[k])
                    /\ IsSeq(d[i].members[k].targets) /\ HasTypes(d[i].members[k])
    BY <2>1, DeclaredFields
  <2>3. Scanned(doc, "relations") = d
    BY FieldsOfFollows DEF Scanned
  <2> HIDE DEF d
  <2>4. NamesOnce(d)
    BY <2>2 DEF OnceInv, NamesOnce
  <2>5. buildGraph(doc) = g
    BY <2>2, <2>3, <2>4, ByNameKeeps DEF buildGraph, parseTypes
  <2>6. IsGraph(g, d, N, E)
    BY <2>2, GraphHasAll
  <2>7. ASSUME NEW x PROVE Named(d, x) = Named(meaning, x)
    BY <2>2 DEF Named
  <2>8. ASSUME NEW s, NEW r, NEW t PROVE <<s, r, t>> \in E <=> Declares(s, r, t)
    <3>1. <<s, r, t>> \in E <=>
             \E i \in 1..Len(d) : \E k \in 1..Len(d[i].members) : EdgeOf(d, i, k, s, r, t)
      BY EdgesOneByOne
    <3> HIDE DEF E
    <3>2. ASSUME NEW i \in 1..Len(meaning), NEW k \in 1..Len(meaning[i].relations)
          PROVE  EdgeOf(d, i, k, s, r, t) <=>
                    /\ meaning[i].name = s /\ meaning[i].relations[k].name = r
                    /\ \E n \in DOMAIN FoundTargets(meaning[i].relations[k]) :
                          FoundTargets(meaning[i].relations[k])[n].type = t
      <4>1. t \in TargetTypes(d[i].members[k], Len(d[i].members[k].targets)) <=>
               \E n \in 1..Len(d[i].members[k].targets) : t = d[i].members[k].targets[n].type
        BY DEF TargetTypes
      <4>2. /\ d[i].name = meaning[i].name /\ d[i].members[k].name = meaning[i].relations[k].name
            /\ d[i].members[k].targets = FoundTargets(meaning[i].relations[k])
            /\ DOMAIN d[i].members[k].targets = 1..Len(d[i].members[k].targets)
        BY <2>2, SeqFacts
      <4> QED BY <4>1, <4>2 DEF EdgeOf
    <3>3. ASSUME <<s, r, t>> \in E PROVE Declares(s, r, t)
      <4>1. PICK i \in 1..Len(d) : \E k \in 1..Len(d[i].members) : EdgeOf(d, i, k, s, r, t)
        BY <3>1, <3>3
      <4>2. PICK k \in 1..Len(d[i].members) : EdgeOf(d, i, k, s, r, t)
        BY <4>1
      <4>3. i \in DOMAIN meaning /\ k \in DOMAIN meaning[i].relations
        BY <2>2
      <4>4. i \in 1..Len(meaning) /\ k \in 1..Len(meaning[i].relations)
        BY <2>2
      <4>5. /\ meaning[i].name = s /\ meaning[i].relations[k].name = r
            /\ \E n \in DOMAIN FoundTargets(meaning[i].relations[k]) :
                  FoundTargets(meaning[i].relations[k])[n].type = t
        BY <3>2, <4>2, <4>4
      <4> QED BY <4>3, <4>5 DEF Declares, Named
    <3>4. ASSUME Declares(s, r, t) PROVE <<s, r, t>> \in E
      <4>1. PICK i \in Named(meaning, s) : \E k \in Named(meaning[i].relations, r) :
               \E n \in DOMAIN FoundTargets(meaning[i].relations[k]) :
                  FoundTargets(meaning[i].relations[k])[n].type = t
        BY <3>4 DEF Declares
      <4>2. PICK k \in Named(meaning[i].relations, r) :
               \E n \in DOMAIN FoundTargets(meaning[i].relations[k]) :
                  FoundTargets(meaning[i].relations[k])[n].type = t
        BY <4>1
      <4>3. i \in 1..Len(meaning) /\ meaning[i].name = s
        BY <2>2 DEF Named
      <4>4. k \in 1..Len(meaning[i].relations) /\ meaning[i].relations[k].name = r
        BY <2>2, <4>3 DEF Named
      <4>5. EdgeOf(d, i, k, s, r, t)
        BY <3>2, <4>2, <4>3, <4>4
      <4>6. i \in 1..Len(d) /\ k \in 1..Len(d[i].members)
        BY <2>2, <4>3, <4>4
      <4> QED BY <3>1, <4>5, <4>6
    <3> QED BY <3>3, <3>4
  <2>9. ASSUME NEW x PROVE x \in N <=> Named(meaning, x) # {} \/ \E s, r : <<s, r, x>> \in E
    <3>1. x \in N <=>
             \E i \in 1..Len(d) : \/ x = d[i].name
                                  \/ \E k \in 1..Len(d[i].members) :
                                        x \in TargetTypes(d[i].members[k], Len(d[i].members[k].targets))
      BY NodesOneByOne
    <3>2. \A s, r : <<s, r, x>> \in E <=>
             \E i \in 1..Len(d) : \E k \in 1..Len(d[i].members) : EdgeOf(d, i, k, s, r, x)
      BY EdgesOneByOne
    <3>3. Named(meaning, x) # {} <=> \E i \in 1..Len(d) : x = d[i].name
      <4>1. /\ DOMAIN meaning = 1..Len(d)
            /\ \A i \in 1..Len(d) : d[i].name = meaning[i].name
        BY <2>2
      <4>2. Named(meaning, x) = {i \in 1..Len(d) : d[i].name = x}
        BY ONLY <4>1 DEF Named
      <4> QED BY ONLY <4>2
    <3> HIDE DEF N, E
    <3>4. ASSUME NEW i \in 1..Len(d), NEW k \in 1..Len(d[i].members)
          PROVE  x \in TargetTypes(d[i].members[k], Len(d[i].members[k].targets)) <=>
                    \E s, r : EdgeOf(d, i, k, s, r, x)
      BY DEF EdgeOf
    <3> QED BY <3>1, <3>2, <3>3, <3>4
  <2>10. ASSUME NEW s, NEW r, NEW t, Declares(s, r, t)
         PROVE  s \in TypeNames /\ r \in RelationNames
    <3>1. PICK i \in Named(meaning, s) : \E k \in Named(meaning[i].relations, r) : TRUE
      BY <2>10 DEF Declares
    <3>2. PICK k \in Named(meaning[i].relations, r) : TRUE
      BY <3>1
    <3>3. i \in 1..Len(meaning) /\ meaning[i].name = s
      BY <2>2 DEF Named
    <3>4. k \in 1..Len(meaning[i].relations) /\ meaning[i].relations[k].name = r
      BY <2>2, <3>3 DEF Named
    <3> QED BY <2>2, <3>3, <3>4
  <2> HIDE DEF g, N, E
  <2>11. \A i, j \in DOMAIN g.nodes : g.nodes[i].name = g.nodes[j].name => i = j
    BY <2>6 DEF IsGraph, HasNodes, NamesOnce
  <2>12. \A i, j \in DOMAIN g.edges :
              g.edges[i].source = g.edges[j].source /\ g.edges[i].target = g.edges[j].target => i = j
    BY <2>6 DEF IsGraph, HasEdges, EdgesOnce
  <2>13. \A i \in DOMAIN g.nodes : g.nodes[i].isExternal <=> Named(meaning, g.nodes[i].name) = {}
    BY <2>6, <2>7 DEF IsGraph, HasNodes
  <2>14. \A t \in TypeNames \cup {Garbled} : Named(g.nodes, t) # {} <=>
              Named(meaning, t) # {} \/ \E s \in TypeNames, r \in RelationNames : Declares(s, r, t)
    <3>1. \A t : Named(g.nodes, t) # {} <=> t \in N
      BY <2>6 DEF IsGraph, HasNodes
    <3> QED BY <2>8, <2>9, <2>10, <3>1
  <2>15. \A s \in TypeNames, t \in TypeNames \cup {Garbled}, r \in RelationNames :
            Shows(g, s, r, t) <=> Declares(s, r, t)
    <3> SUFFICES ASSUME NEW s, NEW t, NEW r PROVE Shows(g, s, r, t) <=> <<s, r, t>> \in E
      BY <2>8
    <3> QED BY <2>6 DEF Shows, IsGraph, HasEdges
  <2> QED BY <2>5, <2>11, <2>12, <2>13, <2>14, <2>15 DEF GraphReadsDocument
<1> QED BY <1>1, TextOnce, PTL


-----------------------------------------------------------------------------
(* The visual view.                                                        *)

\* The visual view reads the lines one after the other.
ViewRun(text, N, f) ==
    f = [n \in 0..N |-> IF n = 0 THEN ViewStart ELSE View(f[n - 1], text[n])]

\* Such a run exists.
LEMMA ViewRunExists ==
    ASSUME NEW text, NEW N \in Nat
    PROVE  \E f : ViewRun(text, N, f)
<1> DEFINE S == {n \in Nat : \E f : ViewRun(text, n, f)}
<1>1. 0 \in S
  <2> DEFINE f == [n \in 0..0 |-> ViewStart]
  <2>1. ViewRun(text, 0, f)
    BY DEF ViewRun
  <2> HIDE DEF f
  <2> QED BY <2>1
<1>2. ASSUME NEW n \in Nat, n \in S
      PROVE  n + 1 \in S
  <2>1. PICK f : ViewRun(text, n, f)
    BY <1>2
  <2> DEFINE body(h, k) == IF k = 0 THEN ViewStart ELSE View(h[k - 1], text[k])
             ext == [k \in 0..(n + 1) |-> IF k = n + 1 THEN View(f[n], text[n + 1]) ELSE f[k]]
  <2>2. \A k \in 0..n : f[k] = body(f, k)
    BY <2>1 DEF ViewRun
  <2>3. \A k \in 0..(n + 1) : ext[k] = body(ext, k)
    <3> SUFFICES ASSUME NEW k \in 0..(n + 1) PROVE ext[k] = body(ext, k)
      OBVIOUS
    <3>1. \A i \in 0..n : ext[i] = f[i]
      OBVIOUS
    <3>2. ext[n + 1] = View(f[n], text[n + 1])
      OBVIOUS
    <3> HIDE DEF ext
    <3>3. CASE k = 0
      BY <2>2, <3>1, <3>3
    <3>4. CASE k = n + 1
      BY <3>1, <3>2, <3>4
    <3>5. CASE k # 0 /\ k # n + 1
      <4>1. k \in 0..n /\ k - 1 \in 0..n
        BY <3>5
      <4> QED BY <2>2, <3>1, <3>5, <4>1
    <3> QED BY <3>3, <3>4, <3>5
  <2>4. ext = [k \in 0..(n + 1) |-> body(ext, k)]
    <3>1. DOMAIN ext = 0..(n + 1) /\ ext = [k \in 0..(n + 1) |-> ext[k]]
      OBVIOUS
    <3> HIDE DEF ext, body
    <3> QED BY <2>3, <3>1
  <2>5. ViewRun(text, n + 1, ext)
    BY <2>4 DEF ViewRun
  <2> HIDE DEF ext
  <2> QED BY <2>5
<1> HIDE DEF S
<1>3. \A n \in Nat : n \in S
  BY <1>1, <1>2, SetInduction
<1> QED BY <1>3 DEF S

Viewed(text, f) ==
    /\ f[0] = ViewStart
    /\ \A k \in 1..Len(text) : f[k] = View(f[k - 1], text[k])
    /\ ViewState(text) = f[Len(text)]

\* What it has read is what the run ends with.
LEMMA ViewedIsRun ==
    ASSUME NEW text, Len(text) \in Nat
    PROVE  \E f : Viewed(text, f)
<1> DEFINE body(h, k) == IF k = 0 THEN ViewStart ELSE View(h[k - 1], text[k])
           st == CHOOSE f : f = [n \in 0..Len(text) |-> body(f, n)]
<1>1. \E f : f = [n \in 0..Len(text) |-> body(f, n)]
  <2>1. PICK f : ViewRun(text, Len(text), f)
    BY ViewRunExists
  <2>2. f = [n \in 0..Len(text) |-> body(f, n)]
    BY <2>1 DEF ViewRun
  <2> HIDE DEF body
  <2> QED BY <2>2
<1>2. st = [n \in 0..Len(text) |-> body(st, n)]
  <2> HIDE DEF body
  <2> QED BY <1>1
<1>3. ViewState(text) = st[Len(text)]
  BY DEF ViewState
<1> HIDE DEF st
<1>4. st[0] = ViewStart /\ \A k \in 1..Len(text) : st[k] = View(st[k - 1], text[k])
  BY <1>2
<1>5. Viewed(text, st)
  BY <1>3, <1>4 DEF Viewed
<1> QED BY <1>5

ViewMore(text, more, f) ==
    /\ f[0] = ViewState(text)
    /\ \A k \in 1..Len(more) : f[k] = View(f[k - 1], more[k])
    /\ ViewState(text \o more) = f[Len(more)]

\* The run over a longer text goes on where the run over its beginning ends.
LEMMA ViewExtends ==
    ASSUME NEW text, NEW more, IsSeq(text), IsSeq(more)
    PROVE  \E f : ViewMore(text, more, f)
<1> DEFINE N == Len(text)
           M == Len(more)
           all == text \o more
<1>1. /\ N \in Nat /\ M \in Nat /\ IsSeq(all) /\ Len(all) = N + M
      /\ \A i \in 1..N : all[i] = text[i]
      /\ \A i \in 1..M : all[N + i] = more[i]
  BY SeqFacts, ConcatFacts
<1>2. PICK g : Viewed(text, g)
  BY <1>1, ViewedIsRun
<1>3. PICK h : Viewed(all, h)
  <2>1. Len(all) \in Nat
    BY <1>1
  <2> HIDE DEF all
  <2> QED BY <2>1, ViewedIsRun
<1>4. /\ g[0] = ViewStart /\ ViewState(text) = g[N]
      /\ \A k \in 1..N : g[k] = View(g[k - 1], text[k])
  BY <1>2 DEF Viewed
<1>5. /\ h[0] = ViewStart /\ ViewState(all) = h[N + M]
      /\ \A k \in 1..(N + M) : h[k] = View(h[k - 1], all[k])
  <2> HIDE DEF all
  <2> QED BY <1>1, <1>3 DEF Viewed
<1> HIDE DEF N, M, all
<1> DEFINE S == {k \in 0..N : g[k] = h[k]}
<1>7. \A k \in 0..N : k \in S
  <2>1. 0 \in S
    BY <1>1, <1>4, <1>5
  <2>2. ASSUME NEW k \in 0..(N - 1), k \in S PROVE k + 1 \in S
    <3>1. k + 1 \in 1..N /\ k + 1 \in 1..(N + M) /\ (k + 1) - 1 = k /\ g[k] = h[k] /\ k + 1 \in 0..N
      BY <1>1, <2>2
    <3>2. all[k + 1] = text[k + 1]
      BY <1>1, <3>1
    <3>3. g[k + 1] = h[k + 1]
      BY <1>4, <1>5, <3>1, <3>2
    <3> QED BY <3>1, <3>3
  <2> HIDE DEF S
  <2> QED BY <1>1, <2>1, <2>2, BoundedInduction
<1> DEFINE f == [k \in 0..M |-> h[N + k]]
<1>8. f[0] = g[N]
  BY <1>1, <1>7
<1>9. ASSUME NEW k \in 1..M PROVE f[k] = View(f[k - 1], more[k])
  <2>1. /\ k \in 0..M /\ k - 1 \in 0..M /\ N + k \in 1..(N + M) /\ (N + k) - 1 = N + (k - 1)
        /\ all[N + k] = more[k]
    BY <1>1
  <2>2. f[k] = h[N + k] /\ f[k - 1] = h[N + (k - 1)]
    BY <2>1
  <2> HIDE DEF f
  <2> QED BY <1>5, <2>1, <2>2
<1>10. f[M] = h[N + M]
  BY <1>1
<1> HIDE DEF f
<1>11. /\ f[0] = ViewState(text)
       /\ \A k \in 1..M : f[k] = View(f[k - 1], more[k])
       /\ ViewState(all) = f[M]
  BY <1>4, <1>5, <1>8, <1>9, <1>10
<1>12. ViewMore(text, more, f)
  BY <1>11 DEF N, M, all, ViewMore
<1> QED BY <1>12

\* One line more.
LEMMA ViewOne ==
    ASSUME NEW text, NEW l, IsSeq(text)
    PROVE  ViewState(text \o <<l>>) = View(ViewState(text), l)
<1>1. IsSeq(<<l>>) /\ Len(<<l>>) = 1 /\ <<l>>[1] = l
  <2>1. <<l>> \in Seq({l})
    OBVIOUS
  <2> QED BY <2>1 DEF IsSeq
<1>2. PICK f : ViewMore(text, <<l>>, f)
  BY <1>1, ViewExtends
<1>3. /\ f[0] = ViewState(text) /\ ViewState(text \o <<l>>) = f[1]
      /\ f[1] = View(f[1 - 1], <<l>>[1]) /\ 1 - 1 = 0
  BY <1>1, <1>2 DEF ViewMore
<1> QED BY <1>1, <1>3

\* The fields of the view and of a card.
IsView(v) ==
    v = [types |-> v.types, card |-> v.card, section |-> v.section, relation |-> v.relation,
         permission |-> v.permission, body |-> v.body]
IsCard(c) ==
    c = [name |-> c.name, attributes |-> c.attributes, relations |-> c.relations,
         permissions |-> c.permissions]

\* The permissions of a type but the last.
AllButLast(t) == {t.permissions[k] : k \in 1..(Len(t.permissions) - 1)}

\* A card has the relations of a type and its permissions without the last.
CardShows(c, t) ==
    /\ c.name = t.name
    /\ \A k \in 1..Len(t.relations) :
          /\ t.relations[k].name \in DOMAIN c.relations
          /\ c.relations[t.relations[k].name] = Shown(t.relations[k])
    /\ DOMAIN c.permissions = AllButLast(t)

\* The permission that the view has not put on a card yet.
Collected(v) == IF v.permission # None /\ v.body # <<>> THEN {v.permission} ELSE {}

\* The last permission of a type that ends with its permissions.
LastOf(t) ==
    IF t.latest = "permissions" /\ t.permissions # <<>> THEN {t.permissions[Len(t.permissions)]} ELSE {}

\* The same of a document: no section follows it.
PendingOf(types) ==
    {p \in PermissionNames : \E i \in 1..Len(types) :
        p \in LastOf(types[i]) /\ \A j \in 1..Len(types) : j > i => types[j].latest = None}

\* The view in step with the types of a document.
ViewIs(v, types, where) ==
    /\ IsView(v) /\ IsCard(v.card) /\ IsSeq(v.types)
    /\ types = <<>> => v.types = <<>> /\ v.card.name = None
    /\ types # <<>> =>
          /\ Len(v.types) = Len(types) - 1
          /\ \A i \in 1..(Len(types) - 1) : CardShows(v.types[i], types[i])
          /\ CardShows(v.card, types[Len(types)])
    /\ where = "type" => v.section = None
    /\ where \in Sections => v.section = where /\ types[Len(types)].latest = where
    /\ Collected(v) = PendingOf(types)

\* The view of an empty document.
LEMMA ViewBegins == ViewState(<<>>) = ViewStart /\ ViewIs(ViewStart, <<>>, "top")
<1>1. Len(<<>>) = 0 /\ Len(<<>>) \in Nat
  OBVIOUS
<1>2. PICK f : Viewed(<<>>, f)
  BY <1>1, ViewedIsRun
<1>3. ViewState(<<>>) = ViewStart
  BY <1>1, <1>2 DEF Viewed
<1>4. <<>> \in Seq({})
  OBVIOUS
<1>5. IsSeq(<<>>)
  BY <1>4 DEF IsSeq
<1>6. IsView(ViewStart) /\ IsCard(ViewStart.card) /\ ViewStart.types = <<>> /\ ViewStart.card.name = None
  BY DEF IsView, IsCard, ViewStart, NewCard
<1>7. Collected(ViewStart) = {}
  BY DEF Collected, ViewStart
<1>8. PendingOf(<<>>) = {}
  BY <1>1 DEF PendingOf
<1> QED BY <1>3, <1>5, <1>6, <1>7, <1>8 DEF ViewIs, Sections

\* Nothing is pending but the last permission of a type that has sections.
LEMMA PendingLast ==
    ASSUME NEW types, IsSeq(types), types # <<>>, types[Len(types)].latest \in Sections,
           types[Len(types)].permissions \in Seq(PermissionNames)
    PROVE  PendingOf(types) = LastOf(types[Len(types)])
<1> DEFINE n == Len(types)
           t == types[n]
<1>1. n \in Nat /\ n > 0
  <2>1. PICK S : types \in Seq(S)
    BY DEF IsSeq
  <2> QED BY <2>1
<1>2. LastOf(t) \subseteq PermissionNames
  <2>1. CASE t.permissions = <<>>
    BY <2>1 DEF LastOf
  <2>2. CASE t.permissions # <<>>
    <3>1. t.permissions[Len(t.permissions)] \in PermissionNames
      BY <2>2
    <3> QED BY <3>1 DEF LastOf
  <2> QED BY <2>1, <2>2
<1>3. t.latest # None
  BY TextAssumption DEF Sections
<1> HIDE DEF t
<1>4. ASSUME NEW i \in 1..n, \A j \in 1..n : j > i => types[j].latest = None PROVE i = n
  <2>1. ~(n > i)
    BY <1>1, <1>3, <1>4 DEF t
  <2> QED BY <1>1, <2>1
<1>5. n \in 1..n /\ \A j \in 1..n : ~(j > n)
  BY <1>1
<1> HIDE DEF n
<1>6. \A p \in PermissionNames :
         (\E i \in 1..n : p \in LastOf(types[i]) /\ \A j \in 1..n : j > i => types[j].latest = None)
            <=> p \in LastOf(t)
  BY <1>4, <1>5 DEF t
<1> QED BY <1>2, <1>6 DEF PendingOf, n, t

\* A type without sections changes nothing.
LEMMA PendingStays ==
    ASSUME NEW types, IsSeq(types), NEW t, t.latest = None
    PROVE  PendingOf(Append(types, t)) = PendingOf(types)
<1> DEFINE n == Len(types)
           new == Append(types, t)
<1>1. n \in Nat
  BY SeqFacts
<1>2. Len(new) = n + 1 /\ new[n + 1] = t /\ \A i \in 1..n : new[i] = types[i]
  BY AppendFacts
<1>3. LastOf(t) = {}
  BY TextAssumption DEF LastOf
<1> HIDE DEF new
<1>4. \A i \in 1..(n + 1) : i = n + 1 \/ i \in 1..n
  BY <1>1
<1>5. \A i \in 1..n : i \in 1..(n + 1)
  BY <1>1
<1>6. ASSUME NEW i \in 1..n
      PROVE  (\A j \in 1..(n + 1) : j > i => new[j].latest = None)
                <=> \A j \in 1..n : j > i => types[j].latest = None
  BY <1>2, <1>4, <1>5
<1> HIDE DEF n
<1>7. ASSUME NEW p
      PROVE  (\E i \in 1..(n + 1) : p \in LastOf(new[i]) /\ \A j \in 1..(n + 1) : j > i => new[j].latest = None)
                <=> \E i \in 1..n : p \in LastOf(types[i]) /\ \A j \in 1..n : j > i => types[j].latest = None
  BY <1>2, <1>3, <1>4, <1>5, <1>6
<1>8. PendingOf(new) = PendingOf(types)
  BY <1>2, <1>7, ZenonT(60) DEF PendingOf, n
<1> QED BY <1>8 DEF new

\* Lines that the view does not look at.
LEMMA UnseenLine ==
    ASSUME NEW v, NEW l, \/ l.indent = 0 \/ (l.indent = 2 /\ ~Opens(l))
                         \/ (l.indent = 6 /\ l.tail = "comment")
                         \/ (l.indent = 10 /\ v.section # "permissions")
    PROVE  View(v, l) = v
  BY DEF View, MemberLine, Opens


\* A card with another field.
WithAttributes(c, x) == [c EXCEPT !.attributes = x]
WithRelations(c, x) == [c EXCEPT !.relations = x]
WithPermissions(c, x) == [c EXCEPT !.permissions = x]

\* The other fields are what they were.
LEMMA CardFields ==
    ASSUME NEW c, IsCard(c), NEW x
    PROVE  LET a == WithAttributes(c, x)
               r == WithRelations(c, x)
               p == WithPermissions(c, x)
           IN  /\ IsCard(a) /\ a.name = c.name /\ a.relations = c.relations /\ a.permissions = c.permissions
               /\ IsCard(r) /\ r.name = c.name /\ r.relations = x /\ r.permissions = c.permissions
               /\ IsCard(p) /\ p.name = c.name /\ p.relations = c.relations /\ p.permissions = x
  BY DEF IsCard, WithAttributes, WithRelations, WithPermissions

\* A view with another card for the last type.
LEMMA LastInView ==
    ASSUME NEW types \in Seq(TypeMeaning), types # <<>>, NEW v, NEW where, ViewIs(v, types, where),
           NEW w, IsView(w), IsCard(w.card), w.types = v.types, NEW u, CardShows(w.card, u),
           NEW here \in Sections, w.section = here, u.latest = here,
           u.permissions \in Seq(PermissionNames), Collected(w) = LastOf(u)
    PROVE  ViewIs(w, SetLast(types, u), here)
<1> DEFINE n == Len(types)
           new == SetLast(types, u)
<1>1. IsSeq(types) /\ n \in Nat /\ n > 0
  BY MeaningFacts
<1>2. Len(new) = n /\ new[n] = u /\ IsSeq(new) /\ \A i \in 1..(n - 1) : new[i] = types[i]
  BY <1>1, SetLastFacts
<1>3. new # <<>>
  BY <1>1, <1>2
<1>4. IsSeq(v.types) /\ Len(v.types) = n - 1 /\ \A i \in 1..(n - 1) : CardShows(v.types[i], types[i])
  BY DEF ViewIs
<1> HIDE DEF n, new
<1>5. here # "type"
  BY DEF Sections
<1>6. PendingOf(new) = LastOf(u)
  BY <1>2, <1>3, PendingLast
<1>7. ViewIs(w, new, here)
  BY <1>2, <1>3, <1>4, <1>5, <1>6 DEF ViewIs
<1> QED BY <1>7 DEF new

\* In a section, the view has collected the last permission if that is the
\* section it belongs to.
LEMMA CollectedLast ==
    ASSUME NEW types \in Seq(TypeMeaning), types # <<>>, NEW v, NEW where \in Sections, ViewIs(v, types, where)
    PROVE  /\ v.section = where /\ types[Len(types)].latest = where
           /\ Collected(v) = LastOf(types[Len(types)])
           /\ types[Len(types)].permissions \in Seq(PermissionNames)
<1>1. types[Len(types)] \in TypeMeaning /\ IsSeq(types)
  BY MeaningFacts
<1>2. types[Len(types)].permissions \in Seq(PermissionNames)
  BY <1>1 DEF TypeMeaning
<1>3. v.section = where /\ types[Len(types)].latest = where /\ Collected(v) = PendingOf(types)
  BY DEF ViewIs
<1>4. PendingOf(types) = LastOf(types[Len(types)])
  BY <1>1, <1>2, <1>3, PendingLast
<1> QED BY <1>2, <1>3, <1>4

\* The card of the last type has a name.
LEMMA CardNamed ==
    ASSUME NEW types \in Seq(TypeMeaning), types # <<>>, NEW v, NEW where, ViewIs(v, types, where)
    PROVE  /\ v.card.name # None /\ v.card.name = types[Len(types)].name
           /\ CardShows(v.card, types[Len(types)])
           /\ types[Len(types)] \in TypeMeaning /\ IsView(v) /\ IsCard(v.card)
<1>1. types[Len(types)] \in TypeMeaning
  BY MeaningFacts
<1>2. types[Len(types)].name \in TypeNames
  BY <1>1 DEF TypeMeaning
<1>3. CardShows(v.card, types[Len(types)]) /\ IsView(v) /\ IsCard(v.card)
  BY DEF ViewIs
<1> QED BY <1>1, <1>2, <1>3, TextAssumption DEF CardShows

\* A type begins: its card is empty, the card before it is kept.
LEMMA TypeInView ==
    ASSUME NEW types \in Seq(TypeMeaning), NEW v, NEW where, ViewIs(v, types, where),
           NEW t \in TypeMeaning, t.relations = <<>>, t.permissions = <<>>, t.latest = None,
           NEW l, l.indent = 2, Opens(l), l.key = t.name
    PROVE  ViewIs(View(v, l), Append(types, t), "type")
<1> DEFINE n == Len(types)
           new == Append(types, t)
           w == View(v, l)
<1>1. IsSeq(types) /\ n \in Nat
  BY MeaningFacts
<1>2. IsSeq(new) /\ Len(new) = n + 1 /\ new[n + 1] = t /\ \A i \in 1..n : new[i] = types[i]
  BY <1>1, AppendFacts
<1>3. IsView(v) /\ IsSeq(v.types)
  BY DEF ViewIs
<1>4. w = [v EXCEPT !.types = Cards(v), !.card = NewCard(t.name), !.section = None]
  BY DEF View
<1>5. /\ w.types = Cards(v) /\ w.card = NewCard(t.name) /\ w.section = None /\ IsView(w)
      /\ w.permission = v.permission /\ w.body = v.body
  BY <1>3, <1>4 DEF IsView
<1> HIDE DEF w, new
<1>6. IsCard(w.card) /\ CardShows(w.card, t)
  <2>1. /\ NewCard(t.name).name = t.name /\ IsCard(NewCard(t.name))
        /\ DOMAIN NewCard(t.name).permissions = {}
    BY DEF NewCard, IsCard, NoMap
  <2>2. Len(t.relations) = 0 /\ Len(t.permissions) = 0
    OBVIOUS
  <2>3. AllButLast(t) = {}
    BY <2>2 DEF AllButLast
  <2> QED BY <1>5, <2>1, <2>2, <2>3 DEF CardShows
<1>7. /\ IsSeq(w.types) /\ Len(w.types) = n
      /\ \A i \in 1..n : CardShows(w.types[i], types[i])
  <2>1. CASE types = <<>>
    <3>1. v.types = <<>> /\ v.card.name = None /\ n = 0
      BY <2>1 DEF ViewIs
    <3>2. w.types = <<>>
      BY <1>5, <3>1 DEF Cards
    <3> QED BY <1>3, <3>1, <3>2
  <2>2. CASE types # <<>>
    <3>1. v.card.name # None /\ CardShows(v.card, types[n])
      BY <2>2, CardNamed
    <3>2. w.types = Append(v.types, v.card)
      BY <1>5, <3>1 DEF Cards
    <3>3. Len(v.types) = n - 1 /\ n > 0 /\ \A i \in 1..(n - 1) : CardShows(v.types[i], types[i])
      BY <2>2, MeaningFacts DEF ViewIs
    <3>4. (n - 1) + 1 = n
      BY <1>1
    <3>5. /\ IsSeq(w.types) /\ Len(w.types) = n /\ w.types[n] = v.card
          /\ \A i \in 1..(n - 1) : w.types[i] = v.types[i]
      <4> DEFINE old == v.types
      <4>1. IsSeq(old) /\ Len(old) = n - 1
        BY <1>3, <3>3
      <4> HIDE DEF old, n
      <4>2. /\ IsSeq(Append(old, v.card)) /\ Len(Append(old, v.card)) = Len(old) + 1
            /\ Append(old, v.card)[Len(old) + 1] = v.card
            /\ \A i \in 1..Len(old) : Append(old, v.card)[i] = old[i]
        BY <4>1, AppendFacts
      <4>3. w.types = Append(old, v.card)
        BY <3>2 DEF old
      <4> QED BY <3>4, <4>1, <4>2, <4>3 DEF old
    <3> HIDE DEF n
    <3>6. \A i \in 1..n : i = n \/ i \in 1..(n - 1)
      BY <1>1
    <3> QED BY <3>1, <3>3, <3>5, <3>6
  <2> QED BY <2>1, <2>2
<1> HIDE DEF n
<1>8. new # <<>> /\ Len(new) - 1 = n
  BY <1>1, <1>2
<1>9. Collected(w) = PendingOf(new)
  <2>1. Collected(w) = Collected(v) /\ Collected(v) = PendingOf(types)
    BY <1>5 DEF Collected, ViewIs
  <2> QED BY <1>1, <2>1, PendingStays DEF new
<1>10. ViewIs(w, new, "type")
  BY <1>2, <1>5, <1>6, <1>7, <1>8, <1>9 DEF ViewIs, Sections
<1> QED BY <1>10 DEF w, new

\* A section begins.
LEMMA SectionInView ==
    ASSUME NEW types \in Seq(TypeMeaning), types # <<>>, NEW v, NEW where, ViewIs(v, types, where),
           NEW u, u.name = types[Len(types)].name, u.relations = types[Len(types)].relations,
           u.permissions = types[Len(types)].permissions,
           NEW s \in Sections, u.latest = s, s = "permissions" => u.permissions = <<>>,
           NEW l, l.indent = 4, Opens(l), l.key = s
    PROVE  ViewIs(View(v, l), SetLast(types, u), s)
<1> DEFINE w == View(v, l)
           t == types[Len(types)]
<1>1. CardShows(v.card, t) /\ IsView(v) /\ IsCard(v.card) /\ t \in TypeMeaning
  BY CardNamed
<1>2. w = [v EXCEPT !.section = s, !.relation = None, !.permission = None]
  BY DEF View
<1>3. w.types = v.types /\ w.card = v.card /\ w.section = s /\ IsView(w) /\ w.permission = None
  BY <1>1, <1>2 DEF IsView
<1> HIDE DEF w
<1>4. CardShows(w.card, u)
  BY <1>1, <1>3 DEF CardShows, AllButLast
<1>5. Collected(w) = LastOf(u) /\ u.permissions \in Seq(PermissionNames)
  <2>1. Collected(w) = {}
    BY <1>3 DEF Collected
  <2>2. LastOf(u) = {}
    BY DEF LastOf
  <2> QED BY <1>1, <2>1, <2>2 DEF TypeMeaning
<1>6. IsCard(w.card)
  BY <1>1, <1>3
<1>7. ViewIs(w, SetLast(types, u), s)
  BY <1>3, <1>4, <1>5, <1>6, LastInView
<1> QED BY <1>7 DEF w

\* An attribute.
LEMMA AttributeInView ==
    ASSUME NEW types \in Seq(TypeMeaning), types # <<>>, NEW v, ViewIs(v, types, "attributes"),
           NEW l, l.indent = 6, l.tail = "value"
    PROVE  ViewIs(View(v, l), types, "attributes")
<1> DEFINE w == View(v, l)
           t == types[Len(types)]
<1>1. CardShows(v.card, t) /\ IsView(v) /\ IsCard(v.card) /\ v.card.name # None
  BY CardNamed
<1>2. v.section = "attributes" /\ v.section # None
  BY TextAssumption DEF ViewIs, Sections
<1>3. w = [v EXCEPT !.card.attributes = @ \cup {l.key}]
  BY <1>1, <1>2 DEF View, MemberLine
<1> DEFINE c == WithAttributes(v.card, v.card.attributes \cup {l.key})
<1>4. w = [v EXCEPT !.card = c]
  BY <1>3 DEF WithAttributes
<1>5. IsCard(c) /\ c.name = v.card.name /\ c.relations = v.card.relations /\ c.permissions = v.card.permissions
  BY <1>1, CardFields
<1> HIDE DEF w, c
<1>6. /\ w.types = v.types /\ w.card = c /\ w.section = v.section /\ IsView(w)
      /\ w.permission = v.permission /\ w.body = v.body
  BY <1>1, <1>4 DEF IsView
<1>7. CardShows(w.card, t) /\ Collected(w) = Collected(v)
  BY <1>1, <1>5, <1>6 DEF CardShows, Collected
<1>8. ViewIs(w, types, "attributes")
  BY <1>2, <1>5, <1>6, <1>7 DEF ViewIs, Sections
<1> QED BY <1>8 DEF w


\* The first line of a relation, and the line with its types.
LEMMA RelationInView ==
    ASSUME NEW v, IsView(v), IsCard(v.card), v.card.name # None, v.section = "relations",
           NEW name, name # None, NEW l, l.indent = 6, Opens(l), l.key = name,
           NEW m, m.indent = 8, m.key = "types"
    PROVE  LET w == View(View(v, l), m)
           IN  /\ IsView(w) /\ IsCard(w.card) /\ w.types = v.types /\ w.section = "relations"
               /\ w.card.name = v.card.name /\ w.card.permissions = v.card.permissions
               /\ w.card.relations = Put(Put(v.card.relations, name, <<>>), name, Entries(m))
               /\ w.permission = v.permission /\ w.body = v.body
<1> DEFINE a == Put(v.card.relations, name, <<>>)
           c == WithRelations(v.card, a)
           x == View(v, l)
           b == Put(a, name, Entries(m))
           e == WithRelations(c, b)
           w == View(x, m)
<1>1. "relations" # None
  BY TextAssumption
<1>2. x = [v EXCEPT !.relation = name, !.card.relations = Put(@, name, <<>>)]
  BY <1>1 DEF View, MemberLine
<1>3. x = [v EXCEPT !.relation = name, !.card = c]
  BY <1>2 DEF WithRelations
<1> HIDE DEF a
<1>4. IsCard(c) /\ c.name = v.card.name /\ c.relations = a /\ c.permissions = v.card.permissions
  BY CardFields
<1> HIDE DEF c, x
<1>5. /\ IsView(x) /\ x.types = v.types /\ x.card = c /\ x.section = "relations" /\ x.relation = name
      /\ x.permission = v.permission /\ x.body = v.body
  BY <1>3 DEF IsView
<1>6. w = [x EXCEPT !.card.relations = Put(@, name, Entries(m))]
  BY <1>4, <1>5 DEF View, BodyLine
<1>7. w = [x EXCEPT !.card = e]
  BY <1>4, <1>5, <1>6 DEF WithRelations
<1> HIDE DEF b
<1>8. IsCard(e) /\ e.name = c.name /\ e.relations = b /\ e.permissions = c.permissions
  BY <1>4, CardFields
<1> HIDE DEF e, w
<1>9. /\ IsView(w) /\ w.types = x.types /\ w.card = e /\ w.section = x.section
      /\ w.permission = x.permission /\ w.body = x.body
  BY <1>5, <1>7 DEF IsView
<1>10. /\ IsView(w) /\ IsCard(w.card) /\ w.types = v.types /\ w.section = "relations"
       /\ w.card.name = v.card.name /\ w.card.permissions = v.card.permissions
       /\ w.card.relations = b /\ w.permission = v.permission /\ w.body = v.body
  BY <1>4, <1>5, <1>8, <1>9
<1> QED BY <1>10 DEF w, x, b, a

\* What it shows of a line with types.
LEMMA EntriesShown ==
    ASSUME NEW r, IsSeq(r.targets), r.inline \in BOOLEAN
    PROVE  /\ r.inline => Entries(Line(8, "types", "list", r.targets, 2 \in r.notes)) = Shown(r)
           /\ ~r.inline /\ 2 \notin r.notes =>
                 Entries(Line(8, "types", "open", <<>>, 2 \in r.notes)) = Shown(r)
<1> DEFINE s == r.targets
           n == Len(s)
           l == Line(8, "types", "list", s, 2 \in r.notes)
           m == Line(8, "types", "open", <<>>, 2 \in r.notes)
<1>1. n \in Nat /\ DOMAIN s = 1..n
  BY SeqFacts
<1>2. l.items = s /\ l.note = (2 \in r.notes)
  BY LineFields
<1>3. m.items = <<>> /\ m.note = (2 \in r.notes)
  BY LineFields
<1> HIDE DEF l, m
<1>4. ASSUME ~r.inline, 2 \notin r.notes PROVE Entries(m) = Shown(r)
  <2>1. Entries(m) = <<>>
    BY <1>3, <1>4 DEF Entries
  <2>2. Shown(r) = <<>>
    BY <1>4 DEF Shown
  <2> QED BY <2>1, <2>2
<1>5. ASSUME r.inline PROVE Entries(l) = Shown(r)
  <2>1. CASE 2 \notin r.notes
    <3>1. Shown(r) = [i \in DOMAIN s |-> s[i]]
      BY <1>5, <2>1 DEF Shown
    <3>2. s = [i \in DOMAIN s |-> s[i]]
      <4>1. PICK S : s \in Seq(S)
        BY DEF IsSeq
      <4> QED BY <4>1
    <3>3. Entries(l) = s
      BY <1>2, <2>1 DEF Entries
    <3> QED BY <3>1, <3>2, <3>3
  <2>2. CASE 2 \in r.notes /\ s = <<>>
    <3>1. Shown(r) = <<CommentText>>
      BY <1>5, <2>2 DEF Shown
    <3>2. Entries(l) = <<CommentText>>
      BY <1>2, <2>2 DEF Entries
    <3> QED BY <3>1, <3>2
  <2>3. CASE 2 \in r.notes /\ s # <<>>
    <3>1. Entries(l) = SetLast(s, Noted(Last(s)))
      BY <1>2, <2>3 DEF Entries
    <3>2. SetLast(s, Noted(Last(s))) = [i \in DOMAIN s |-> IF i = n THEN Noted(s[n]) ELSE s[i]]
      BY DEF SetLast, Last
    <3>3. Shown(r) = [i \in DOMAIN s |-> IF i = n THEN Noted(s[i]) ELSE s[i]]
      BY <1>5, <2>3 DEF Shown
    <3>4. \A i \in DOMAIN s : (IF i = n THEN Noted(s[n]) ELSE s[i]) = (IF i = n THEN Noted(s[i]) ELSE s[i])
      OBVIOUS
    <3> QED BY <3>1, <3>2, <3>3, <3>4
  <2> QED BY <2>1, <2>2, <2>3
<1> QED BY <1>4, <1>5 DEF m, l

\* The card has the relation then.
LEMMA RelationShown ==
    ASSUME NEW t \in TypeMeaning, NEW r \in RelationMeaning, Named(t.relations, r.name) = {},
           NEW u, u.name = t.name, u.permissions = t.permissions, u.relations = Append(t.relations, r),
           NEW c, CardShows(c, t), NEW e, e.name = c.name, e.permissions = c.permissions, NEW items,
           items = Shown(r),
           e.relations = Put(Put(c.relations, r.name, <<>>), r.name, items)
    PROVE  CardShows(e, u)
<1> DEFINE n == Len(t.relations)
           old == c.relations
           new == e.relations
<1>1. t.relations \in Seq(RelationMeaning)
  BY DEF TypeMeaning
<1>2. IsSeq(t.relations) /\ n \in Nat /\ DOMAIN t.relations = 1..n
  BY <1>1 DEF IsSeq
<1>3. /\ Len(u.relations) = n + 1 /\ u.relations[n + 1] = r
      /\ \A k \in 1..n : u.relations[k] = t.relations[k]
  BY <1>2, AppendFacts
<1>4. \A k \in 1..n : t.relations[k].name # r.name
  BY <1>2 DEF Named
<1>5. \A k \in 1..n : /\ t.relations[k].name \in DOMAIN old
                      /\ old[t.relations[k].name] = Shown(t.relations[k])
  BY DEF CardShows
<1> DEFINE mid == Put(old, r.name, <<>>)
<1>6. DOMAIN mid = DOMAIN old \cup {r.name} /\ \A x \in DOMAIN old : x # r.name => mid[x] = old[x]
  BY DEF Put
<1>7. new = Put(mid, r.name, items)
  OBVIOUS
<1> HIDE DEF mid, new, n
<1>8. /\ DOMAIN new = DOMAIN mid \cup {r.name} /\ new[r.name] = items
      /\ \A x \in DOMAIN mid : x # r.name => new[x] = mid[x]
  BY <1>7 DEF Put
<1>9. \A x \in DOMAIN old : x \in DOMAIN new /\ (x # r.name => new[x] = old[x])
  BY <1>6, <1>8
<1>10. r.name \in DOMAIN new
  BY <1>8
<1> HIDE DEF old
<1>11. ASSUME NEW k \in 1..(n + 1)
       PROVE  /\ u.relations[k].name \in DOMAIN new
              /\ new[u.relations[k].name] = Shown(u.relations[k])
  <2>1. k = n + 1 \/ k \in 1..n
    BY <1>2 DEF n
  <2>2. CASE k = n + 1
    BY <1>3, <1>8, <1>10, <2>2
  <2>3. CASE k \in 1..n
    BY <1>3, <1>4, <1>5, <1>9, <2>3
  <2> QED BY <2>1, <2>2, <2>3
<1> QED BY <1>3, <1>11 DEF CardShows, AllButLast, new

\* The permission that was collected is put on the card.
LEMMA Flushed ==
    ASSUME NEW v, IsView(v), IsCard(v.card)
    PROVE  LET f == Flush(v)
           IN  /\ IsView(f) /\ IsCard(f.card) /\ f.types = v.types /\ f.section = v.section
               /\ f.card.name = v.card.name /\ f.card.relations = v.card.relations
               /\ DOMAIN f.card.permissions = DOMAIN v.card.permissions \cup Collected(v)
<1> DEFINE f == Flush(v)
<1>1. CASE v.permission = None \/ v.body = <<>>
  <2>1. f = v /\ Collected(v) = {}
    BY <1>1 DEF Flush, Collected
  <2> QED BY <2>1
<1>2. CASE ~(v.permission = None \/ v.body = <<>>)
  <2> DEFINE a == Put(v.card.permissions, v.permission, v.body)
             c == WithPermissions(v.card, a)
  <2>1. f = [v EXCEPT !.card = c]
    BY <1>2 DEF Flush, WithPermissions
  <2>2. DOMAIN a = DOMAIN v.card.permissions \cup {v.permission} /\ Collected(v) = {v.permission}
    BY <1>2 DEF Put, Collected
  <2> HIDE DEF a
  <2>3. IsCard(c) /\ c.name = v.card.name /\ c.relations = v.card.relations /\ c.permissions = a
    BY CardFields
  <2> HIDE DEF c, f
  <2>4. IsView(f) /\ f.types = v.types /\ f.section = v.section /\ f.card = c
    BY <2>1 DEF IsView
  <2>5. /\ IsView(f) /\ IsCard(f.card) /\ f.types = v.types /\ f.section = v.section
        /\ f.card.name = v.card.name /\ f.card.relations = v.card.relations
        /\ DOMAIN f.card.permissions = DOMAIN v.card.permissions \cup Collected(v)
    BY <2>2, <2>3, <2>4
  <2> QED BY <2>5 DEF f
<1> QED BY <1>1, <1>2

\* The lines of a permission: the one before it becomes part of the card,
\* and its own body begins.
LEMMA PermissionInView ==
    ASSUME NEW v, IsView(v), IsCard(v.card), v.card.name # None, v.section = "permissions",
           NEW name, name # None, NEW l, l.indent = 6, Opens(l), l.key = name,
           NEW m, m.indent = 8
    PROVE  LET w == View(View(v, l), m)
           IN  /\ IsView(w) /\ IsCard(w.card) /\ w.types = v.types /\ w.section = "permissions"
               /\ w.card.name = v.card.name /\ w.card.relations = v.card.relations
               /\ DOMAIN w.card.permissions = DOMAIN v.card.permissions \cup Collected(v)
               /\ w.permission = name /\ w.body # <<>> /\ IsSeq(w.body)
<1> DEFINE f == Flush(v)
           x == View(v, l)
           w == View(x, m)
<1>1. "permissions" # None
  BY TextAssumption
<1>2. /\ IsView(f) /\ IsCard(f.card) /\ f.types = v.types /\ f.section = "permissions"
      /\ f.card.name = v.card.name /\ f.card.relations = v.card.relations
      /\ DOMAIN f.card.permissions = DOMAIN v.card.permissions \cup Collected(v)
  BY Flushed
<1>3. x = [f EXCEPT !.permission = name, !.body = <<>>]
  BY <1>1 DEF View, MemberLine
<1> HIDE DEF f, x
<1>4. /\ IsView(x) /\ x.types = f.types /\ x.section = f.section /\ x.card = f.card
      /\ x.permission = name /\ x.body = <<>>
  BY <1>2, <1>3 DEF IsView
<1>5. w = [x EXCEPT !.body = Append(@, m)]
  BY <1>2, <1>4 DEF View, BodyLine
<1>6. w = [x EXCEPT !.body = <<m>>]
  BY <1>4, <1>5
<1> HIDE DEF w
<1>7. /\ IsView(w) /\ w.types = x.types /\ w.section = x.section /\ w.card = x.card
      /\ w.permission = name /\ w.body = <<m>>
  BY <1>4, <1>6 DEF IsView
<1>8. <<m>> # <<>> /\ IsSeq(<<m>>)
  <2>1. <<m>> \in Seq({m})
    OBVIOUS
  <2> QED BY <2>1 DEF IsSeq
<1>9. /\ IsView(w) /\ IsCard(w.card) /\ w.types = v.types /\ w.section = "permissions"
      /\ w.card.name = v.card.name /\ w.card.relations = v.card.relations
      /\ DOMAIN w.card.permissions = DOMAIN v.card.permissions \cup Collected(v)
      /\ w.permission = name /\ w.body # <<>> /\ IsSeq(w.body)
  BY <1>2, <1>4, <1>7, <1>8
<1> QED BY <1>9 DEF w, x

\* A further line of its body.
LEMMA BodyInView ==
    ASSUME NEW v, IsView(v), v.section = "permissions", v.body # <<>>, IsSeq(v.body), NEW l, l.indent = 10
    PROVE  LET w == View(v, l)
           IN  /\ IsView(w) /\ w.types = v.types /\ w.section = v.section /\ w.card = v.card
               /\ w.permission = v.permission /\ w.body # <<>>
<1> DEFINE w == View(v, l)
           b == Append(v.body, l)
<1>1. w = [v EXCEPT !.body = b]
  BY DEF View
<1>2. b # <<>>
  <2>1. Len(v.body) \in Nat /\ Len(b) = Len(v.body) + 1
    BY SeqFacts, AppendFacts
  <2>2. Len(<<>>) = 0
    OBVIOUS
  <2> HIDE DEF b
  <2>3. Len(b) # 0
    BY <2>1
  <2> QED BY <2>2, <2>3
<1> HIDE DEF b, w
<1>3. /\ IsView(w) /\ w.types = v.types /\ w.section = v.section /\ w.card = v.card
      /\ w.permission = v.permission /\ w.body = b
  BY <1>1 DEF IsView
<1> QED BY <1>2, <1>3 DEF w

\* The card has all permissions before the new one.
LEMMA PermissionShown ==
    ASSUME NEW t \in TypeMeaning, t.latest = "permissions", NEW name,
           NEW u, u.name = t.name, u.latest = t.latest, u.relations = t.relations,
           u.permissions = Append(t.permissions, name),
           NEW v, CardShows(v.card, t), Collected(v) = LastOf(t),
           NEW e, e.name = v.card.name, e.relations = v.card.relations,
           DOMAIN e.permissions = DOMAIN v.card.permissions \cup Collected(v)
    PROVE  CardShows(e, u) /\ LastOf(u) = {name}
<1> DEFINE n == Len(t.permissions)
<1>1. t.permissions \in Seq(PermissionNames)
  BY DEF TypeMeaning
<1>2. IsSeq(t.permissions) /\ n \in Nat /\ (t.permissions = <<>> <=> n = 0)
  BY <1>1 DEF IsSeq
<1>3. /\ Len(u.permissions) = n + 1 /\ u.permissions[n + 1] = name
      /\ \A k \in 1..n : u.permissions[k] = t.permissions[k]
  BY <1>2, AppendFacts
<1>4. LastOf(t) = IF n = 0 THEN {} ELSE {t.permissions[n]}
  BY <1>2 DEF LastOf
<1>5. AllButLast(t) = {t.permissions[k] : k \in 1..(n - 1)}
  BY DEF AllButLast
<1>6. Len(<<>>) = 0
  OBVIOUS
<1> HIDE DEF n
<1>7. (n + 1) - 1 = n /\ n + 1 # 0 /\ \A k : k \in 1..n <=> (k = n /\ n # 0) \/ k \in 1..(n - 1)
  BY <1>2
<1>8. AllButLast(u) = {t.permissions[k] : k \in 1..n}
  BY <1>3, <1>7 DEF AllButLast
<1>9. {t.permissions[k] : k \in 1..n} = AllButLast(t) \cup LastOf(t)
  BY <1>4, <1>5, <1>7
<1>10. DOMAIN e.permissions = AllButLast(u)
  BY <1>8, <1>9 DEF CardShows
<1>11. u.permissions # <<>>
  BY <1>3, <1>6, <1>7
<1>12. LastOf(u) = {name}
  BY <1>3, <1>11 DEF LastOf
<1> QED BY <1>10, <1>12 DEF CardShows


-----------------------------------------------------------------------------
(* The view of a document.                                                 *)

\* No comment ends with a colon.
NoOpen(text) == ~\E i \in DOMAIN text : IsComment(text[i]) /\ Opens(text[i])

ViewInv == OpeningsAreBare /\ NoOpen(doc) => ViewIs(ViewState(doc), meaning, place)

\* There was none before.
LEMMA NoOpenBefore ==
    ASSUME NEW text, NEW more, IsSeq(text), IsSeq(more), NoOpen(text \o more)
    PROVE  NoOpen(text) /\ \A k \in 1..Len(more) : ~(IsComment(more[k]) /\ Opens(more[k]))
<1> DEFINE all == text \o more
<1>1. Len(text) \in Nat /\ Len(more) \in Nat /\ DOMAIN text = 1..Len(text)
  BY SeqFacts
<1>2. /\ IsSeq(all) /\ Len(all) = Len(text) + Len(more)
      /\ \A i \in 1..Len(text) : all[i] = text[i]
      /\ \A i \in 1..Len(more) : all[Len(text) + i] = more[i]
  BY ConcatFacts
<1> HIDE DEF all
<1>3. DOMAIN all = 1..(Len(text) + Len(more))
  BY <1>2, SeqFacts
<1>4. \A i \in 1..(Len(text) + Len(more)) : ~(IsComment(all[i]) /\ Opens(all[i]))
  BY <1>3 DEF NoOpen, all
<1>5. /\ \A i \in 1..Len(text) : i \in 1..(Len(text) + Len(more))
      /\ \A i \in 1..Len(more) : Len(text) + i \in 1..(Len(text) + Len(more))
  BY <1>1
<1> QED BY <1>1, <1>2, <1>4, <1>5 DEF NoOpen

\* Outside of a section less is known.
LEMMA ViewOutside ==
    ASSUME NEW v, NEW types, NEW where, ViewIs(v, types, where), NEW here, here \in {"top", "types"}
    PROVE  ViewIs(v, types, here)
  BY DEF ViewIs, Sections

\* One more line.
LEMMA OneInView ==
    ASSUME TextInv, ViewInv, NEW l, Write(<<l>>), OpeningsAreBare', NoOpen(doc')
    PROVE  /\ ViewState(doc') = View(ViewState(doc), l)
           /\ ViewIs(ViewState(doc), meaning, place)
           /\ ~(IsComment(l) /\ Opens(l)) /\ (l.tail = "open" => ~l.note)
           /\ meaning \in Seq(TypeMeaning) /\ IsSeq(doc)
<1>1. IsSeq(doc) /\ meaning \in Seq(TypeMeaning) /\ doc' = doc \o <<l>>
  BY DEF Write, TextInv, TextType
<1>2. ViewState(doc \o <<l>>) = View(ViewState(doc), l)
  BY <1>1, ViewOne
<1>3. IsSeq(<<l>>) /\ Len(<<l>>) = 1 /\ <<l>>[1] = l
  <2>1. <<l>> \in Seq({l})
    OBVIOUS
  <2> QED BY <2>1 DEF IsSeq
<1>4. NoOpen(doc) /\ \A k \in 1..Len(<<l>>) : ~(IsComment(<<l>>[k]) /\ Opens(<<l>>[k]))
  BY <1>1, <1>3, NoOpenBefore
<1>5. 1 \in 1..Len(<<l>>)
  BY <1>3
<1>6. ~(IsComment(l) /\ Opens(l))
  BY <1>3, <1>4, <1>5
<1>7. OpeningsAreBare /\ (l.tail = "open" => ~l.note)
  BY SingleLine DEF TextInv
<1> QED BY <1>1, <1>2, <1>4, <1>6, <1>7 DEF ViewInv

\* A type is added to the document.
LEMMA TypeSeen ==
    ASSUME TextInv, ViewInv, NEW name \in TypeNames, NEW bare \in BOOLEAN, NEW note,
           WriteType(name, bare, note), OpeningsAreBare', NoOpen(doc')
    PROVE  ViewIs(ViewState(doc'), meaning', place')
<1> DEFINE l == Line(2, name, IF bare THEN "empty" ELSE "open", <<>>, note)
           t == [name |-> name, sections |-> {}, latest |-> None, relations |-> <<>>, permissions |-> <<>>]
           v == ViewState(doc)
<1>1. l.indent = 2 /\ l.key = name /\ l.tail = IF bare THEN "empty" ELSE "open"
  BY LineFields
<1>2. Write(<<l>>)
  BY DEF WriteType
<1>3. /\ ViewState(doc') = View(v, l) /\ ViewIs(v, meaning, place) /\ meaning \in Seq(TypeMeaning)
      /\ l.tail = "open" => ~l.note
  <2> HIDE DEF l
  <2> QED BY <1>2, OneInView
<1> HIDE DEF l, v
<1>4. CASE bare
  <2>1. place' = "types" /\ meaning' = meaning
    BY <1>4 DEF WriteType
  <2>2. View(v, l) = v
    BY <1>1, <1>4, UnseenLine DEF Opens
  <2> QED BY <1>3, <2>1, <2>2, ViewOutside
<1>5. CASE ~bare
  <2>1. place' = "type" /\ meaning' = Append(meaning, t)
    BY <1>5 DEF WriteType
  <2>2. t \in TypeMeaning /\ t.relations = <<>> /\ t.permissions = <<>> /\ t.name = name /\ t.latest = None
    BY DEF TypeMeaning, Sections
  <2> HIDE DEF t
  <2>3. Opens(l)
    BY <1>1, <1>3, <1>5 DEF Opens
  <2>4. ViewIs(View(v, l), Append(meaning, t), "type")
    BY <1>1, <1>3, <2>2, <2>3, TypeInView
  <2> QED BY <1>3, <2>1, <2>4
<1> QED BY <1>4, <1>5

\* A section is added: the view forgets the relation and the permission before.
LEMMA SectionSeen ==
    ASSUME TextInv, ViewInv, NEW s \in Sections, NEW note, WriteSection(s, note),
           OpeningsAreBare', NoOpen(doc')
    PROVE  ViewIs(ViewState(doc'), meaning', place')
<1> DEFINE l == Line(4, s, "open", <<>>, note)
           t == meaning[Len(meaning)]
           u == [t EXCEPT !.sections = @ \cup {s}, !.latest = s]
           v == ViewState(doc)
<1>1. l.indent = 4 /\ l.key = s /\ l.tail = "open"
  BY LineFields
<1>2. Write(<<l>>)
  BY DEF WriteSection
<1>3. /\ ViewState(doc') = View(v, l) /\ ViewIs(v, meaning, place) /\ meaning \in Seq(TypeMeaning)
      /\ l.tail = "open" => ~l.note
  <2> HIDE DEF l
  <2> QED BY <1>2, OneInView
<1> HIDE DEF l, v
<1>4. place' = s /\ meaning # <<>> /\ s \notin t.sections
  BY DEF WriteSection, TextInv, TextType, Here
<1>5. t \in TypeMeaning /\ Len(meaning) \in DOMAIN meaning
  BY <1>3, <1>4, MeaningFacts
<1>6. meaning' = SetLast(meaning, u)
  BY DEF WriteSection, SetLast, Here
<1>7. "permissions" \notin t.sections => t.permissions = <<>>
  BY <1>5 DEF TextInv, SectionsOnce
<1> HIDE DEF t
<1>8. u.name = t.name /\ u.relations = t.relations /\ u.permissions = t.permissions /\ u.latest = s
  BY <1>5 DEF TypeMeaning
<1> HIDE DEF u
<1>9. s = "permissions" => u.permissions = <<>>
  BY <1>4, <1>7, <1>8
<1>10. /\ u.name = meaning[Len(meaning)].name /\ u.relations = meaning[Len(meaning)].relations
       /\ u.permissions = meaning[Len(meaning)].permissions
  BY <1>8 DEF t
<1>11. Opens(l)
  BY <1>1, <1>3 DEF Opens
<1>12. ViewIs(View(v, l), SetLast(meaning, u), s)
  BY <1>1, <1>3, <1>4, <1>8, <1>9, <1>10, <1>11, SectionInView
<1> QED BY <1>3, <1>4, <1>6, <1>12

\* An attribute is added.
LEMMA AttributeSeen ==
    ASSUME TextInv, ViewInv, NEW name \in AttributeNames, NEW note, WriteAttribute(name, note),
           OpeningsAreBare', NoOpen(doc')
    PROVE  ViewIs(ViewState(doc'), meaning', place')
<1> DEFINE l == Line(6, name, "value", <<>>, note)
           v == ViewState(doc)
<1>1. l.indent = 6 /\ l.tail = "value"
  BY LineFields
<1>2. Write(<<l>>)
  BY DEF WriteAttribute
<1>3. ViewState(doc') = View(v, l) /\ ViewIs(v, meaning, place) /\ meaning \in Seq(TypeMeaning)
  <2> HIDE DEF l
  <2> QED BY <1>2, OneInView
<1> HIDE DEF l, v
<1>4. place = "attributes" /\ place' = place /\ meaning' = meaning /\ meaning # <<>>
  BY DEF WriteAttribute, TextInv, TextType, Sections
<1>5. ViewIs(View(v, l), meaning, "attributes")
  BY <1>1, <1>3, <1>4, AttributeInView
<1> QED BY <1>3, <1>4, <1>5

\* A comment is added that does not end with a colon.
LEMMA CommentSeen ==
    ASSUME TextInv, ViewInv, NEW indent \in {2, 6}, NEW tail \in {"open", "comment"},
           WriteComment(indent, tail), OpeningsAreBare', NoOpen(doc')
    PROVE  ViewIs(ViewState(doc'), meaning', place')
<1> DEFINE l == Line(indent, "#", tail, <<>>, FALSE)
           v == ViewState(doc)
<1>1. l.indent = indent /\ l.key = "#" /\ l.tail = tail /\ ~l.note
  BY DEF Line
<1>2. Write(<<l>>) /\ meaning' = meaning /\ place' = place
  BY DEF WriteComment
<1>3. ViewState(doc') = View(v, l) /\ ViewIs(v, meaning, place) /\ ~(IsComment(l) /\ Opens(l))
  <2> HIDE DEF l
  <2> QED BY <1>2, OneInView
<1> HIDE DEF l, v
<1>4. tail = "comment" /\ ~Opens(l)
  BY <1>1, <1>3 DEF IsComment, Opens
<1>5. View(v, l) = v
  BY <1>1, <1>4, UnseenLine
<1> QED BY <1>2, <1>3, <1>5


\* Several lines more.
LEMMA ManyInView ==
    ASSUME TextInv, ViewInv, NEW more, IsSeq(more), Write(more), OpeningsAreBare', NoOpen(doc')
    PROVE  /\ \E f : /\ ViewMore(doc, more, f) /\ f[0] = ViewState(doc) /\ ViewState(doc') = f[Len(more)]
                     /\ \A k \in 1..Len(more) : f[k] = View(f[k - 1], more[k])
           /\ ViewIs(ViewState(doc), meaning, place)
           /\ meaning \in Seq(TypeMeaning)
           /\ \A k \in 1..Len(more) : more[k].tail = "open" => ~more[k].note
<1>1. IsSeq(doc) /\ meaning \in Seq(TypeMeaning) /\ doc' = doc \o more
  BY DEF Write, TextInv, TextType
<1>2. PICK f : ViewMore(doc, more, f)
  BY <1>1, ViewExtends
<1>3. /\ f[0] = ViewState(doc) /\ ViewState(doc') = f[Len(more)]
      /\ \A k \in 1..Len(more) : f[k] = View(f[k - 1], more[k])
  BY <1>1, <1>2 DEF ViewMore
<1>4. NoOpen(doc)
  BY <1>1, NoOpenBefore
<1>5. OpeningsAreBare /\ \A k \in 1..Len(more) : more[k].tail = "open" => ~more[k].note
  BY BareBefore DEF TextInv
<1> QED BY <1>1, <1>2, <1>3, <1>4, <1>5 DEF ViewInv

\* A relation is added.
LEMMA RelationSeen ==
    ASSUME TextInv, ViewInv, NEW name \in RelationNames, NEW targets \in TargetLists, NEW inline \in BOOLEAN,
           NEW notes \in SUBSET Nat, WriteRelation(name, targets, inline, notes), OpeningsAreBare', NoOpen(doc')
    PROVE  ViewIs(ViewState(doc'), meaning', place')
<1> DEFINE more == RelationLines(name, targets, inline, notes)
           t == meaning[Len(meaning)]
           r == Relation(name, targets, inline, notes)
           u == [t EXCEPT !.relations = Append(@, r)]
           v == ViewState(doc)
<1>1. IsSeq(targets) /\ Len(targets) \in Nat
  BY TextAssumption, SeqFacts DEF IsSeq
<1>2. /\ IsSeq(more)
      /\ more[1] = Line(6, name, "open", <<>>, 1 \in notes)
      /\ inline => Len(more) = 2 /\ more[2] = Line(8, "types", "list", targets, 2 \in notes)
      /\ ~inline => /\ Len(more) = Len(targets) + 2
                    /\ more[2] = Line(8, "types", "open", <<>>, 2 \in notes)
                    /\ \A i \in 1..Len(targets) : more[2 + i] = Line(10, None, "item", <<targets[i]>>, i + 2 \in notes)
  BY <1>1, RelationLinesFacts
<1>3. Write(more)
  BY DEF WriteRelation, RelationLines
<1> HIDE DEF more
<1> DEFINE M == Len(more)
<1>4. PICK f : /\ ViewMore(doc, more, f) /\ f[0] = v /\ ViewState(doc') = f[M]
               /\ \A k \in 1..M : f[k] = View(f[k - 1], more[k])
  BY <1>2, <1>3, ManyInView
<1>5. /\ ViewIs(v, meaning, place) /\ meaning \in Seq(TypeMeaning)
      /\ \A k \in 1..M : more[k].tail = "open" => ~more[k].note
  BY <1>2, <1>3, ManyInView
<1> HIDE DEF v
<1>6. place = "relations" /\ place' = place /\ meaning # <<>> /\ "relations" \in Sections
      /\ Named(t.relations, name) = {}
  BY DEF WriteRelation, TextInv, TextType, Sections, Here
<1>7. meaning' = SetLast(meaning, u)
  BY DEF WriteRelation, SetLast, Here, Relation
<1>8. r \in RelationMeaning /\ r.name = name /\ r.targets = targets /\ r.inline = inline /\ r.notes = notes
  BY DEF RelationMeaning, Relation
<1>9. /\ v.card.name # None /\ CardShows(v.card, t) /\ t \in TypeMeaning /\ IsView(v) /\ IsCard(v.card)
      /\ v.section = "relations" /\ t.latest = "relations" /\ Collected(v) = LastOf(t)
  BY <1>5, <1>6, CardNamed, CollectedLast
<1> HIDE DEF t, r
<1>10. /\ u.name = t.name /\ u.permissions = t.permissions /\ u.relations = Append(t.relations, r)
       /\ u.latest = "relations" /\ u \in TypeMeaning
  BY <1>8, <1>9, RelationDeclared
<1> HIDE DEF u
<1>11. /\ more[1].indent = 6 /\ more[1].key = name /\ more[1].tail = "open"
       /\ more[2].indent = 8 /\ more[2].key = "types"
       /\ ~inline => more[2].tail = "open" /\ more[2].note = (2 \in notes)
  BY <1>2, LineFields
<1>12. M \in Nat /\ M >= 2
  <2>1. inline => M = 2
    BY <1>2
  <2>2. ~inline => M = Len(targets) + 2
    BY <1>2
  <2> HIDE DEF M
  <2>3. CASE inline
    BY <2>1, <2>3
  <2>4. CASE ~inline
    BY <1>1, <2>2, <2>4
  <2> QED BY <2>3, <2>4
<1>13. 1 \in 1..M /\ 2 \in 1..M /\ 1 - 1 = 0 /\ 2 - 1 = 1
  <2> HIDE DEF M
  <2> QED BY <1>12
<1> DEFINE w == View(View(v, more[1]), more[2])
<1>14. f[2] = w
  <2>1. f[1] = View(v, more[1])
    BY <1>4, <1>13
  <2>2. f[2] = View(f[1], more[2])
    BY <1>4, <1>13
  <2> QED BY <2>1, <2>2
<1>15. Opens(more[1]) /\ (~inline => 2 \notin notes)
  BY <1>5, <1>11, <1>13 DEF Opens
<1>16. name # None
  BY TextAssumption
<1>17. /\ IsView(w) /\ IsCard(w.card) /\ w.types = v.types /\ w.section = "relations"
       /\ w.card.name = v.card.name /\ w.card.permissions = v.card.permissions
       /\ w.card.relations = Put(Put(v.card.relations, name, <<>>), name, Entries(more[2]))
       /\ w.permission = v.permission /\ w.body = v.body
  BY <1>9, <1>11, <1>15, <1>16, RelationInView
<1> HIDE DEF w
<1>18. CardShows(w.card, u)
  <2>1. Entries(more[2]) = Shown(r)
    <3>1. inline => Entries(Line(8, "types", "list", targets, 2 \in notes)) = Shown(r)
      BY <1>1, <1>8, EntriesShown
    <3>2. ~inline => Entries(Line(8, "types", "open", <<>>, 2 \in notes)) = Shown(r)
      BY <1>1, <1>8, <1>15, EntriesShown
    <3> QED BY <1>2, <3>1, <3>2
  <2>2. w.card.relations = Put(Put(v.card.relations, r.name, <<>>), r.name, Entries(more[2]))
    BY <1>8, <1>17
  <2>3. Named(t.relations, r.name) = {}
    BY <1>6, <1>8
  <2> QED BY <1>8, <1>9, <1>10, <1>17, <2>1, <2>2, <2>3, RelationShown
<1>19. f[M] = w
  <2>1. CASE inline
    BY <1>2, <1>14, <2>1
  <2>2. CASE ~inline
    <3>1. M = Len(targets) + 2 /\ \A i \in 1..Len(targets) : more[2 + i].indent = 10
      <4>1. /\ Len(more) = Len(targets) + 2
            /\ \A i \in 1..Len(targets) : more[2 + i] = Line(10, None, "item", <<targets[i]>>, i + 2 \in notes)
        BY <1>2, <2>2
      <4>2. \A i : Line(10, None, "item", <<targets[i]>>, i + 2 \in notes).indent = 10
        BY LineFields
      <4> QED BY <4>1, <4>2
    <3> HIDE DEF M
    <3> DEFINE S == {i \in 0..Len(targets) : f[2 + i] = w}
    <3>2. 0 \in S
      <4>1. 2 + 0 = 2 /\ 0 \in 0..Len(targets)
        BY <1>1
      <4> QED BY <1>14, <4>1
    <3>3. ASSUME NEW i \in 0..(Len(targets) - 1), i \in S PROVE i + 1 \in S
      <4>1. /\ i + 1 \in 1..Len(targets) /\ i + 1 \in 0..Len(targets) /\ 2 + (i + 1) \in 1..M
            /\ (2 + (i + 1)) - 1 = 2 + i
        BY <1>1, <3>1
      <4>2. f[2 + (i + 1)] = View(w, more[2 + (i + 1)])
        BY <1>4, <3>3, <4>1
      <4>3. more[2 + (i + 1)].indent = 10 /\ w.section # "permissions"
        BY <1>17, <3>1, <4>1
      <4>4. View(w, more[2 + (i + 1)]) = w
        BY <4>3, UnseenLine
      <4> QED BY <4>1, <4>2, <4>4
    <3> HIDE DEF S
    <3>4. \A i \in 0..Len(targets) : i \in S
      BY <1>1, <3>2, <3>3, BoundedInduction
    <3>5. Len(targets) \in 0..Len(targets) /\ 2 + Len(targets) = M
      BY <1>1, <3>1
    <3> QED BY <3>4, <3>5 DEF S
  <2> QED BY <2>1, <2>2
<1>20. Collected(w) = LastOf(u) /\ u.permissions \in Seq(PermissionNames)
  <2>1. Collected(w) = Collected(v)
    BY <1>17 DEF Collected
  <2>2. LastOf(t) = {} /\ LastOf(u) = {}
    BY <1>9, <1>10 DEF LastOf
  <2> QED BY <1>9, <1>10, <2>1, <2>2 DEF TypeMeaning
<1>21. ViewIs(w, SetLast(meaning, u), "relations")
  BY <1>5, <1>6, <1>10, <1>17, <1>18, <1>20, LastInView
<1> QED BY <1>4, <1>6, <1>7, <1>19, <1>21

\* A permission is added.
LEMMA PermissionSeen ==
    ASSUME TextInv, ViewInv, NEW name \in PermissionNames, NEW union \in BOOLEAN,
           NEW notes, WritePermission(name, union, notes), OpeningsAreBare', NoOpen(doc')
    PROVE  ViewIs(ViewState(doc'), meaning', place')
<1> DEFINE more == PermissionLines(name, union, notes)
           t == meaning[Len(meaning)]
           u == [t EXCEPT !.permissions = Append(@, name)]
           v == ViewState(doc)
<1>1. /\ IsSeq(more) /\ Len(more) = IF union THEN 3 ELSE 2
      /\ more[1] = Line(6, name, "open", <<>>, 1 \in notes)
      /\ union => /\ more[2] = Line(8, "union", "open", <<>>, 2 \in notes)
                  /\ more[3] = Line(10, None, "item", <<>>, 3 \in notes)
      /\ ~union => more[2] = Line(8, "resolve", "value", <<>>, 2 \in notes)
  BY PermissionLinesFacts
<1>2. Write(more)
  BY DEF WritePermission, PermissionLines
<1> HIDE DEF more
<1> DEFINE M == Len(more)
<1>3. PICK f : /\ ViewMore(doc, more, f) /\ f[0] = v /\ ViewState(doc') = f[M]
               /\ \A k \in 1..M : f[k] = View(f[k - 1], more[k])
  BY <1>1, <1>2, ManyInView
<1>4. /\ ViewIs(v, meaning, place) /\ meaning \in Seq(TypeMeaning)
      /\ \A k \in 1..M : more[k].tail = "open" => ~more[k].note
  BY <1>1, <1>2, ManyInView
<1> HIDE DEF v
<1>5. place = "permissions" /\ place' = place /\ meaning # <<>> /\ "permissions" \in Sections
  BY DEF WritePermission, TextInv, TextType, Sections, Here
<1>6. meaning' = SetLast(meaning, u)
  BY DEF WritePermission, SetLast, Here
<1>7. /\ v.card.name # None /\ CardShows(v.card, t) /\ t \in TypeMeaning /\ IsView(v) /\ IsCard(v.card)
      /\ v.section = "permissions" /\ t.latest = "permissions" /\ Collected(v) = LastOf(t)
  BY <1>4, <1>5, CardNamed, CollectedLast
<1> HIDE DEF t
<1>8. /\ u.name = t.name /\ u.relations = t.relations /\ u.permissions = Append(t.permissions, name)
       /\ u.latest = t.latest /\ u \in TypeMeaning
  BY <1>7, PermissionDeclared
<1> HIDE DEF u
<1>9. /\ more[1].indent = 6 /\ more[1].tail = "open" /\ more[1].key = name
       /\ more[2].indent = 8 /\ (union => more[3].indent = 10)
  BY <1>1, LineFields
<1>10. 1 \in 1..M /\ 2 \in 1..M /\ 1 - 1 = 0 /\ 2 - 1 = 1
  <2>1. M = 3 \/ M = 2
    BY <1>1
  <2> HIDE DEF M
  <2> QED BY <2>1
<1> DEFINE x == View(View(v, more[1]), more[2])
<1>11. f[2] = x
  <2>1. f[1] = View(v, more[1])
    BY <1>3, <1>10
  <2>2. f[2] = View(f[1], more[2])
    BY <1>3, <1>10
  <2> QED BY <2>1, <2>2
<1>12. Opens(more[1])
  BY <1>4, <1>9, <1>10 DEF Opens
<1>13. name # None
  BY TextAssumption
<1>14. /\ IsView(x) /\ IsCard(x.card) /\ x.types = v.types /\ x.section = "permissions"
       /\ x.card.name = v.card.name /\ x.card.relations = v.card.relations
       /\ DOMAIN x.card.permissions = DOMAIN v.card.permissions \cup Collected(v)
       /\ x.permission = name /\ x.body # <<>> /\ IsSeq(x.body)
  BY <1>7, <1>9, <1>12, <1>13, PermissionInView
<1> HIDE DEF x
<1>15. CardShows(x.card, u) /\ LastOf(u) = {name}
  <2> DEFINE e == x.card
  <2>1. /\ e.name = v.card.name /\ e.relations = v.card.relations
        /\ DOMAIN e.permissions = DOMAIN v.card.permissions \cup Collected(v)
    BY <1>14
  <2> HIDE DEF e
  <2>2. CardShows(e, u) /\ LastOf(u) = {name}
    BY <1>7, <1>8, <2>1, PermissionShown
  <2> QED BY <2>2 DEF e
<1>16. PICK w : /\ ViewState(doc') = w /\ IsView(w) /\ w.types = x.types /\ w.section = x.section
                /\ w.card = x.card /\ w.permission = x.permission /\ w.body # <<>>
  <2>1. CASE ~union
    BY <1>1, <1>3, <1>11, <1>14, <2>1
  <2>2. CASE union
    <3>1. M = 3 /\ 3 \in 1..3 /\ 3 - 1 = 2
      BY <1>1, <2>2
    <3>2. ViewState(doc') = View(x, more[3])
      BY <1>3, <1>11, <3>1
    <3>3. LET y == View(x, more[3])
          IN  /\ IsView(y) /\ y.types = x.types /\ y.section = x.section /\ y.card = x.card
              /\ y.permission = x.permission /\ y.body # <<>>
      BY <1>9, <1>14, <2>2, BodyInView
    <3> QED BY <3>2, <3>3
  <2> QED BY <2>1, <2>2
<1>17. Collected(w) = LastOf(u) /\ u.latest = "permissions" /\ u.permissions \in Seq(PermissionNames)
  BY <1>7, <1>8, <1>13, <1>14, <1>15, <1>16 DEF Collected, TypeMeaning
<1>18. /\ IsCard(w.card) /\ w.types = v.types /\ CardShows(w.card, u) /\ w.section = "permissions"
  BY <1>14, <1>15, <1>16
<1>19. ViewIs(w, SetLast(meaning, u), "permissions")
  BY <1>4, <1>5, <1>16, <1>17, <1>18, LastInView
<1> QED BY <1>5, <1>6, <1>16, <1>19

\* The view stays in step with the document.
LEMMA ViewNext == TextInv /\ ViewInv /\ [Next]_vars => ViewInv'
<1> SUFFICES ASSUME TextInv, ViewInv, [Next]_vars, OpeningsAreBare', NoOpen(doc')
             PROVE  ViewIs(ViewState(doc'), meaning', place')
  BY DEF ViewInv
<1>1. ASSUME NEW note \in BOOLEAN, WriteVersion(note) PROVE ViewIs(ViewState(doc'), meaning', place')
  <2> DEFINE l == Line(0, "version", "value", <<>>, note)
  <2>1. Write(<<l>>) /\ meaning' = meaning /\ place' = "top"
    BY <1>1 DEF WriteVersion
  <2>2. l.indent = 0
    BY LineFields
  <2> HIDE DEF l
  <2>3. ViewState(doc') = View(ViewState(doc), l) /\ ViewIs(ViewState(doc), meaning, place)
    BY <2>1, OneInView
  <2>4. View(ViewState(doc), l) = ViewState(doc)
    BY <2>2, UnseenLine
  <2> QED BY <2>1, <2>3, <2>4, ViewOutside
<1>2. ASSUME NEW note \in BOOLEAN, StartTypes(note) PROVE ViewIs(ViewState(doc'), meaning', place')
  <2> DEFINE l == Line(0, "types", "open", <<>>, note)
  <2>1. Write(<<l>>) /\ meaning' = meaning /\ place' = "types"
    BY <1>2 DEF StartTypes
  <2>2. l.indent = 0
    BY LineFields
  <2> HIDE DEF l
  <2>3. ViewState(doc') = View(ViewState(doc), l) /\ ViewIs(ViewState(doc), meaning, place)
    BY <2>1, OneInView
  <2>4. View(ViewState(doc), l) = ViewState(doc)
    BY <2>2, UnseenLine
  <2> QED BY <2>1, <2>3, <2>4, ViewOutside
<1>3. CASE \E name \in TypeNames, bare, note \in BOOLEAN : WriteType(name, bare, note)
  BY <1>3, TypeSeen
<1>4. CASE \E section \in Sections, note \in BOOLEAN : WriteSection(section, note)
  BY <1>4, SectionSeen
<1>5. CASE \E name \in AttributeNames, note \in BOOLEAN : WriteAttribute(name, note)
  BY <1>5, AttributeSeen
<1>6. CASE \E name \in RelationNames, targets \in TargetLists, inline \in BOOLEAN :
           \E notes \in SUBSET (1..(IF inline THEN 2 ELSE 2 + Len(targets))) :
              WriteRelation(name, targets, inline, notes)
  BY <1>6, RelationSeen, NaturalNotes
<1>7. CASE \E name \in PermissionNames, union \in BOOLEAN :
           \E notes \in SUBSET (1..(IF union THEN 3 ELSE 2)) : WritePermission(name, union, notes)
  BY <1>7, PermissionSeen
<1>8. CASE \E indent \in {2, 6}, tail \in {"open", "comment"} : WriteComment(indent, tail)
  BY <1>8, CommentSeen
<1>9. CASE UNCHANGED vars
  BY <1>9 DEF vars, ViewInv, OpeningsAreBare
<1> QED BY <1>1, <1>2, <1>3, <1>4, <1>5, <1>6, <1>7, <1>8, <1>9 DEF Next

\* The cards that the view shows at the end: the permission that is still
\* collected is on the last one.
LEMMA CardsShown ==
    ASSUME NEW types \in Seq(TypeMeaning), NEW v, NEW where, ViewIs(v, types, where),
           NEW cards, cards = IF v.card.name = None THEN v.types ELSE Cards(Flush(v))
    PROVE  /\ IsSeq(cards) /\ Len(cards) = Len(types)
           /\ \A i \in 1..Len(types) :
                 /\ cards[i].name = types[i].name
                 /\ \A k \in 1..Len(types[i].relations) :
                       cards[i].relations[types[i].relations[k].name] = Shown(types[i].relations[k])
                 /\ DOMAIN cards[i].permissions =
                       AllButLast(types[i]) \cup IF i = Len(types) THEN PendingOf(types) ELSE {}
<1> DEFINE n == Len(types)
<1>1. IsSeq(types) /\ n \in Nat /\ IsSeq(v.types) /\ Collected(v) = PendingOf(types)
  BY MeaningFacts DEF ViewIs
<1>2. CASE types = <<>>
  <2>1. v.types = <<>> /\ v.card.name = None /\ n = 0
    BY <1>2 DEF ViewIs
  <2>2. cards = <<>>
    BY <2>1
  <2> QED BY <1>1, <1>2, <2>1, <2>2
<1>3. CASE types # <<>>
  <2> DEFINE t == types[n]
             f == Flush(v)
             old == v.types
  <2>1. v.card.name # None /\ CardShows(v.card, t) /\ t \in TypeMeaning /\ IsView(v) /\ IsCard(v.card)
    BY <1>3, CardNamed
  <2>2. /\ f.types = old
        /\ f.card.name = v.card.name /\ f.card.relations = v.card.relations
        /\ DOMAIN f.card.permissions = DOMAIN v.card.permissions \cup Collected(v)
    BY <2>1, Flushed
  <2> HIDE DEF f
  <2>3. cards = Append(old, f.card)
    BY <2>1, <2>2 DEF Cards, f
  <2>4. Len(old) = n - 1 /\ n > 0 /\ \A i \in 1..(n - 1) : CardShows(old[i], types[i])
    BY <1>3, MeaningFacts DEF ViewIs
  <2>5. IsSeq(old)
    BY <1>1
  <2> HIDE DEF n, old
  <2>6. (n - 1) + 1 = n
    BY <1>1
  <2>7. /\ IsSeq(cards) /\ Len(cards) = n /\ cards[n] = f.card
        /\ \A i \in 1..(n - 1) : cards[i] = old[i]
    <3>1. /\ IsSeq(Append(old, f.card)) /\ Len(Append(old, f.card)) = Len(old) + 1
          /\ Append(old, f.card)[Len(old) + 1] = f.card
          /\ \A i \in 1..Len(old) : Append(old, f.card)[i] = old[i]
      BY <2>5, AppendFacts
    <3> QED BY <2>3, <2>4, <2>6, <3>1
  <2>8. ASSUME NEW i \in 1..n
        PROVE  /\ cards[i].name = types[i].name
               /\ \A k \in 1..Len(types[i].relations) :
                     cards[i].relations[types[i].relations[k].name] = Shown(types[i].relations[k])
               /\ DOMAIN cards[i].permissions =
                     AllButLast(types[i]) \cup IF i = n THEN PendingOf(types) ELSE {}
    <3>1. i = n \/ (i # n /\ i \in 1..(n - 1))
      BY <1>1
    <3>2. CASE i = n
      BY <1>1, <2>1, <2>2, <2>7, <3>2 DEF CardShows
    <3>3. CASE i # n /\ i \in 1..(n - 1)
      BY <2>4, <2>7, <3>3 DEF CardShows
    <3> QED BY <3>1, <3>2, <3>3
  <2> QED BY <2>7, <2>8 DEF n
<1> QED BY <1>2, <1>3

\* Without comments that end with a colon or follow such a line, a card of the
\* visual view has the relations of its type and exactly its permissions but
\* the last; the last card also has the one that no section follows, even
\* when that belongs to a type before: for documents of any length, with any
\* names and target lists.
THEOREM ViewerLoses == Spec => []ViewerLosesOnlyLast
<1>1. Init => TextInv /\ ViewInv
  <2> SUFFICES ASSUME Init PROVE ViewInv
    BY TextInit
  <2> QED BY ViewBegins DEF Init, ViewInv
<1>2. TextInv /\ ViewInv /\ [Next]_vars => (TextInv /\ ViewInv)'
  BY TextNext, ViewNext
<1>3. TextInv /\ ViewInv => ViewerLosesOnlyLast
  <2> DEFINE cards == parseYamlSimple(doc)
             n == Len(meaning)
  <2> SUFFICES ASSUME TextInv, ViewInv, OpeningsAreBare, NoOpen(doc)
               PROVE  /\ [i \in DOMAIN cards |-> cards[i].name] = [i \in DOMAIN meaning |-> meaning[i].name]
                      /\ \A i \in DOMAIN cards :
                            /\ \A k \in DOMAIN meaning[i].relations :
                                  cards[i].relations[meaning[i].relations[k].name] = Shown(meaning[i].relations[k])
                            /\ DOMAIN cards[i].permissions =
                                  {meaning[i].permissions[k] : k \in 1..(Len(meaning[i].permissions) - 1)}
                                     \cup IF i = Len(cards) THEN Pending ELSE {}
    BY DEF ViewerLosesOnlyLast, NoOpen
  <2> DEFINE v == ViewState(doc)
  <2>1. ViewIs(v, meaning, place) /\ meaning \in Seq(TypeMeaning)
    BY DEF ViewInv, TextInv, TextType
  <2>2. cards = IF v.card.name = None THEN v.types ELSE Cards(Flush(v))
    BY DEF parseYamlSimple
  <2> HIDE DEF cards, v
  <2>3. /\ IsSeq(cards) /\ Len(cards) = n
        /\ \A i \in 1..n :
              /\ cards[i].name = meaning[i].name
              /\ \A k \in 1..Len(meaning[i].relations) :
                    cards[i].relations[meaning[i].relations[k].name] = Shown(meaning[i].relations[k])
              /\ DOMAIN cards[i].permissions =
                    AllButLast(meaning[i]) \cup IF i = n THEN PendingOf(meaning) ELSE {}
    BY <2>1, <2>2, CardsShown
  <2>4. DOMAIN cards = 1..n /\ DOMAIN meaning = 1..n
    BY <2>1, <2>3, MeaningFacts, SeqFacts
  <2>5. \A i \in 1..n : DOMAIN meaning[i].relations = 1..Len(meaning[i].relations)
    BY <2>1, MeaningFacts, SeqFacts, SMTT(60)
  <2>6. [i \in DOMAIN cards |-> cards[i].name] = [i \in DOMAIN meaning |-> meaning[i].name]
    BY <2>3, <2>4
  <2>7. Pending = PendingOf(meaning)
    <3>1. ASSUME NEW i \in 1..n, NEW p
          PROVE  p \in LastOf(meaning[i]) <=>
                    /\ meaning[i].latest = "permissions" /\ meaning[i].permissions # <<>>
                    /\ p = Last(meaning[i].permissions)
      BY DEF LastOf, Last
    <3> QED BY <2>4, <3>1 DEF Pending, PendingOf
  <2> HIDE DEF n
  <2>8. ASSUME NEW i \in 1..n
        PROVE  /\ \A k \in DOMAIN meaning[i].relations :
                     cards[i].relations[meaning[i].relations[k].name] = Shown(meaning[i].relations[k])
               /\ DOMAIN cards[i].permissions =
                     {meaning[i].permissions[k] : k \in 1..(Len(meaning[i].permissions) - 1)}
                        \cup IF i = Len(cards) THEN Pending ELSE {}
    <3>1. DOMAIN cards[i].permissions = AllButLast(meaning[i]) \cup IF i = n THEN Pending ELSE {}
      BY <2>3, <2>7
    <3> QED BY <2>3, <2>5, <3>1 DEF AllButLast
  <2> QED BY <2>4, <2>6, <2>8
<1> QED BY <1>1, <1>2, <1>3, PTL DEF Spec
=============================================================================
