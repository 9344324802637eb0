---------------------- MODULE FccLoweredFunctionProofs ----------------------
(***************************************************************************)
(* Proofs that what FccLoweredFunction runs is what the body of the        *)
(* function says: the same expressions are evaluated, in the same order,   *)
(* and the same value is returned. For any programs, any values, any depth *)
(* of nesting.                                                             *)
(*                                                                         *)
(* The text is described first: where the text of each statement begins    *)
(* and ends and which labels it was given, its layout (LaidOut, IsLayout). *)
(* Then what the machine does between two places of a text (Reaches, Goes, *)
(* Tests), and what it does, therefore, in the text of each kind of        *)
(* statement. At last the body and the machine are run side by side: the   *)
(* machine and the place in the text where the control of the body is have *)
(* both come of one state, by steps of the machine that nothing outside of *)
(* it sees (RunInv).                                                       *)
(***************************************************************************)
EXTENDS FccStatementsProofs

-----------------------------------------------------------------------------
(***************************************************************************)
(* The layout of a body in the text: where the text of a statement begins  *)
(* and ends, and its labels.  What is written for a statement before the   *)
(* first statement inside of it, between two and behind the last is a      *)
(* piece; nothing else is written for it.                                  *)
(***************************************************************************)
ExitLabel(tree, L, q) ==
  L.labels[q][CASE tree[q].kind = "switch" -> 1
                [] tree[q].kind = "while" -> 2
                [] OTHER -> 3]
ContinueLabel(tree, L, q) == L.labels[q][IF tree[q].kind = "while" THEN 1 ELSE 2]
CasesOf(tree, L, s) ==
  {[statement |-> p, label |-> L.labels[p][1], is_default |-> tree[p].kind = "default"] :
     p \in CasesIn(tree, s)}

DispatchOf(tree, cases, end) ==
  LET defaults == {c \in cases : c.is_default}
      compared == cases \ defaults
      compare(c) == CmpEax(tree[c.statement].arg) \o Jump("je", c.label)
  IN [i \in 1 .. 2 * Cardinality(compared) |->
        compare(NthCase(compared, (i + 1) \div 2))[2 - (i % 2)]]
       \o Jump("jmp", IF defaults = {} THEN end ELSE NthCase(defaults, 1).label)

ForFront(tree, L, p) ==
  Label(L.labels[p][1])
    \o IF Has(tree, p, "test") THEN TestAndSkip(p, L.labels[p][3]) ELSE << >>

FrontText(tree, L, p) ==
  LET kind == tree[p].kind
      l == L.labels[p]
  IN CASE kind = "label" -> Label(User(tree[p].arg))
       [] kind \in {"case", "default"} -> Label(l[1])
       [] kind = "if" -> TestAndSkip(p, l[1])
       [] kind = "while" -> Label(l[1]) \o TestAndSkip(p, l[2])
       [] kind = "do" -> Label(l[1])
       [] kind = "for" -> IF Has(tree, p, "init") THEN << >> ELSE ForFront(tree, L, p)
       [] kind = "switch" -> Eval(p, "test") \o DispatchOf(tree, CasesOf(tree, L, p), l[1])
       [] OTHER -> << >>

BetweenText(tree, L, p) ==
  CASE tree[p].kind = "if" -> Jump("jmp", L.labels[p][2]) \o Label(L.labels[p][1])
    [] tree[p].kind = "for" -> ForFront(tree, L, p)
    [] OTHER -> << >>

EndText(tree, L, p) ==
  LET kind == tree[p].kind
      l == L.labels[p]
      value == Has(tree, p, "value")
  IN CASE kind = "expression" -> IF value THEN Eval(p, "value") ELSE << >>
       [] kind = "return" ->
            (IF value THEN Eval(p, "value") ELSE XorEax) \o Jump("jmp", ReturnLabel)
       [] kind = "break" ->
            Jump("jmp", ExitLabel(tree, L, C!The(Innermost(tree, p, Targeted))))
       [] kind = "continue" ->
            Jump("jmp", ContinueLabel(tree, L, C!The(Innermost(tree, p, Loops))))
       [] kind = "goto" -> Jump("jmp", User(tree[p].arg))
       [] kind = "if" -> Label(l[tree[p].kids])
       [] kind = "while" -> Jump("jmp", l[1]) \o Label(l[2])
       [] kind = "do" -> Label(l[2]) \o Eval(p, "test") \o CmpEax(0)
                           \o Jump("jne", l[1]) \o Label(l[3])
       [] kind = "for" -> Label(l[2])
                            \o (IF Has(tree, p, "update") THEN Eval(p, "update") ELSE << >>)
                            \o Jump("jmp", l[1]) \o Label(l[3])
       [] kind = "switch" -> Label(l[1])
       [] OTHER -> << >>

\* The text between the n-th and the next statement inside of the one at p.
Piece(tree, L, p, n) ==
  IF n = tree[p].kids THEN EndText(tree, L, p)
  ELSE IF n = 0 THEN FrontText(tree, L, p)
  ELSE BetweenText(tree, L, p)

StartOf(L, p, n) == IF n = 0 THEN L.from[p] ELSE L.to[Kid(p, n)]
EndOf(tree, L, p, n) == IF n = tree[p].kids THEN L.to[p] ELSE L.from[Kid(p, n + 1)]
\* t is in the text at i, and j is behind it.
Holds(text, i, t, j) ==
  /\ IsSomeSequence(t) /\ i \in Nat \ {0} /\ j = i + Len(t) /\ j <= Len(text) + 1
  /\ \A k \in 1..Len(t) : text[i + k - 1] = t[k]
PieceThere(tree, text, L, p, n) ==
  Holds(text, StartOf(L, p, n), Piece(tree, L, p, n), EndOf(tree, L, p, n))

\* The statements whose text has begun, and those whose text is complete.
CalledAt(s, p) == \E j \in 1..Len(s) : s[j].at = p
CalledIn(s, p) == \E j \in 1..Len(s) : IsPrefix(p, s[j].at)
Arrived(tree, s, p) == ~IsAhead(tree, s, p) \/ CalledAt(s, p)
Complete(tree, s, p) == ~IsAhead(tree, s, p) /\ ~CalledIn(s, p)
Written(tree, s, p, n) ==
  IF n = tree[p].kids THEN Complete(tree, s, p) ELSE Arrived(tree, s, Kid(p, n + 1))

Reached(tree, s, L) ==
  IF s = << >> THEN L.to[<< >>] ELSE StartOf(L, s[Len(s)].at, Begun(tree, s[Len(s)]))
BegunNoMore(tree, s) ==
  s # << >> => Begun(tree, s[Len(s)]) \in 0..tree[s[Len(s)].at].kids
LaidOut(tree, s, text, L) ==
  /\ IsSomeSequence(text)
  /\ L.from[<< >>] = 1
  /\ \A p \in DOMAIN tree : \A n \in 0..tree[p].kids :
       Written(tree, s, p, n) => PieceThere(tree, text, L, p, n)
  /\ Reached(tree, s, L) = Len(text) + 1 /\ BegunNoMore(tree, s)

-----------------------------------------------------------------------------
LEMMA HoldsStill ==
  ASSUME NEW text, IsSomeSequence(text), NEW t, IsSomeSequence(t),
         NEW i, NEW u, NEW j, Holds(text, i, u, j)
  PROVE  Holds(text \o t, i, u, j)
<1>u. IsSomeSequence(u)
  BY DEF Holds
<1>1. /\ Len(text) \in Nat /\ Len(t) \in Nat /\ Len(u) \in Nat
      /\ Len(text \o t) = Len(text) + Len(t)
      /\ \A k \in 1..Len(text) : (text \o t)[k] = text[k]
  BY <1>u, JoinedAt DEF IsSomeSequence
<1>2. i \in Nat \ {0} /\ j = i + Len(u) /\ j <= Len(text) + 1
  BY DEF Holds
<1>3. ASSUME NEW k \in 1..Len(u) PROVE (text \o t)[i + k - 1] = u[k]
  <2>1. i + k - 1 \in 1..Len(text)
    BY <1>1, <1>2
  <2> QED BY <2>1, <1>1 DEF Holds
<1> QED BY <1>u, <1>1, <1>2, <1>3 DEF Holds

LEMMA HoldsNew ==
  ASSUME NEW text, IsSomeSequence(text), NEW t, IsSomeSequence(t)
  PROVE  Holds(text \o t, Len(text) + 1, t, Len(text \o t) + 1)
<1>1. /\ Len(text) \in Nat /\ Len(t) \in Nat
      /\ DOMAIN (text \o t) = 1 .. Len(text) + Len(t)
      /\ \A k \in 1..Len(t) : (text \o t)[Len(text) + k] = t[k]
      /\ IsSomeSequence(text \o t)
  BY JoinedAt
<1>2. Len(text \o t) = Len(text) + Len(t)
  BY <1>1 DEF IsSomeSequence
<1>3. ASSUME NEW k \in 1..Len(t) PROVE (text \o t)[Len(text) + 1 + k - 1] = t[k]
  <2>1. Len(text) + 1 + k - 1 = Len(text) + k
    BY <1>1
  <2> QED BY <2>1, <1>1
<1> QED BY <1>1, <1>2, <1>3 DEF Holds

LEMMA ShortTexts ==
  /\ IsSomeSequence(<< >>) /\ Len(<< >>) = 0
  /\ \A p, role : IsSomeSequence(Eval(p, role)) /\ Len(Eval(p, role)) = 1
  /\ \A l : IsSomeSequence(Label(l)) /\ Len(Label(l)) = 1
  /\ \A op, l : IsSomeSequence(Jump(op, l)) /\ Len(Jump(op, l)) = 1
  /\ \A v : IsSomeSequence(CmpEax(v)) /\ Len(CmpEax(v)) = 1
  /\ IsSomeSequence(XorEax) /\ Len(XorEax) = 1
  /\ IsSomeSequence(Ret) /\ Len(Ret) = 1
<1>1. ASSUME NEW r PROVE IsSomeSequence(<<r>>) /\ Len(<<r>>) = 1
  <2>1. <<r>> \in Seq({r})
    OBVIOUS
  <2> QED BY <2>1 DEF IsSomeSequence
<1>2. IsSomeSequence(<< >>) /\ Len(<< >>) = 0
  <2>1. << >> \in Seq({})
    OBVIOUS
  <2> QED BY <2>1 DEF IsSomeSequence
<1>3. \A p, role : IsSomeSequence(Eval(p, role)) /\ Len(Eval(p, role)) = 1
  BY <1>1 DEF Eval
<1>4. \A l : IsSomeSequence(Label(l)) /\ Len(Label(l)) = 1
  BY <1>1 DEF Label
<1>5. \A op, l : IsSomeSequence(Jump(op, l)) /\ Len(Jump(op, l)) = 1
  BY <1>1 DEF Jump
<1>6. \A v : IsSomeSequence(CmpEax(v)) /\ Len(CmpEax(v)) = 1
  BY <1>1 DEF CmpEax
<1> QED BY <1>1, <1>2, <1>3, <1>4, <1>5, <1>6 DEF XorEax, Ret

LEMMA JoinedTexts ==
  ASSUME NEW a, IsSomeSequence(a), NEW b, IsSomeSequence(b)
  PROVE  /\ IsSomeSequence(a \o b) /\ Len(a) \in Nat /\ Len(b) \in Nat
         /\ Len(a \o b) = Len(a) + Len(b)
<1>1. IsSomeSequence(a \o b) /\ Len(a) \in Nat /\ Len(b) \in Nat
      /\ DOMAIN (a \o b) = 1 .. Len(a) + Len(b)
  BY JoinedAt
<1> QED BY <1>1 DEF IsSomeSequence


-----------------------------------------------------------------------------
(***************************************************************************)
(* What a step of the generator adds to what is written.                   *)
(***************************************************************************)
Past(tree, s, t, a) ==
  \A d \in DOMAIN tree : IsAhead(tree, t, d) <=> IsAhead(tree, s, d) /\ d # a

LEMMA KidsDiffer ==
  ASSUME NEW p \in Seq(Nat), NEW q \in Seq(Nat), NEW m \in Nat, NEW n \in Nat,
         Kid(p, m) = Kid(q, n)
  PROVE  p = q /\ m = n
<1>1. Len(p) = Len(q) /\ m = n
  BY DEF Kid
<1>2. ASSUME NEW i \in 1..Len(p) PROVE p[i] = q[i]
  <2>1. i \in 1..Len(q)
    BY <1>1
  <2>2. Kid(p, m)[i] = p[i]
    BY DEF Kid
  <2>3. Kid(q, n)[i] = q[i]
    BY <2>1 DEF Kid
  <2> QED BY <2>2, <2>3
<1> QED BY <1>1, <1>2, SeqEqual, Zenon

LEMMA PrefixOfPrefix ==
  ASSUME NEW p \in Seq(Nat), NEW q \in Seq(Nat), NEW r \in Seq(Nat),
         IsPrefix(p, q), IsPrefix(q, r)
  PROVE  IsPrefix(p, r) /\ Len(p) <= Len(q) /\ Len(p) \in Nat /\ Len(q) \in Nat
<1>1. Len(p) \in Nat /\ Len(q) \in Nat /\ Len(r) \in Nat
  OBVIOUS
<1>2. Len(p) <= Len(q) /\ \A i \in 1..Len(p) : q[i] = p[i]
  BY PrefixByElements
<1>3. Len(q) <= Len(r) /\ \A i \in 1..Len(q) : r[i] = q[i]
  BY PrefixByElements
<1>4. Len(p) <= Len(r) /\ \A i \in 1..Len(p) : r[i] = p[i]
  BY <1>1, <1>2, <1>3
<1>5. IsPrefix(p, r)
  BY <1>4, PrefixByElements
<1> QED BY <1>1, <1>2, <1>5

LEMMA PrefixOfItself ==
  ASSUME NEW p \in Seq(Nat) PROVE IsPrefix(p, p)
<1>1. Len(p) <= Len(p)
  OBVIOUS
<1> QED BY <1>1, PrefixByElements

LEMMA KidIsThere ==
  ASSUME NEW tree, WellFormed(tree), NEW p \in DOMAIN tree
  PROVE  /\ p \in Seq(Nat) /\ tree[p].kids \in Nat
         /\ \A n \in 1..tree[p].kids :
              /\ n \in Nat /\ Kid(p, n) \in DOMAIN tree /\ Kid(p, n) \in Seq(Nat)
              /\ Kid(p, n) # << >> /\ Len(Kid(p, n)) = Len(p) + 1 /\ Under(p, n, Kid(p, n))
         /\ \A n \in 0..tree[p].kids :
              n \in Nat /\ (n # tree[p].kids => n + 1 \in 1..tree[p].kids)
<1>1. p \in Seq(Nat) /\ tree[p].kids \in Nat
  BY DEF WellFormed
<1>2. ASSUME NEW n \in 1..tree[p].kids
      PROVE  /\ n \in Nat /\ Kid(p, n) \in DOMAIN tree /\ Kid(p, n) \in Seq(Nat)
             /\ Kid(p, n) # << >> /\ Len(Kid(p, n)) = Len(p) + 1 /\ Under(p, n, Kid(p, n))
  <2>1. n \in Nat
    BY <1>1
  <2>2. Kid(p, n) \in DOMAIN tree
    BY DEF WellFormed
  <2>3. Kid(p, n) \in Seq(Nat) /\ Under(p, n, Kid(p, n))
    BY <1>1, <2>1, KidIsUnder
  <2>4. Len(Kid(p, n)) = Len(p) + 1 /\ Kid(p, n) # << >>
    BY <1>1, <2>1 DEF Kid
  <2> QED BY <2>1, <2>2, <2>3, <2>4
<1>3. \A n \in 0..tree[p].kids : n \in Nat /\ (n # tree[p].kids => n + 1 \in 1..tree[p].kids)
  BY <1>1
<1> QED BY <1>1, <1>2, <1>3

LEMMA CalledAppended ==
  ASSUME NEW s, IsSomeSequence(s), NEW c, NEW p
  PROVE  /\ CalledAt(Append(s, c), p) <=> CalledAt(s, p) \/ c.at = p
         /\ CalledIn(Append(s, c), p) <=> CalledIn(s, p) \/ IsPrefix(p, c.at)
         /\ Append(s, c)[Len(Append(s, c))] = c /\ Append(s, c) # << >>
<1>1. /\ Len(s) \in Nat /\ Len(Append(s, c)) = Len(s) + 1
      /\ \A i \in 1..Len(s) : Append(s, c)[i] = s[i]
      /\ Append(s, c)[Len(s) + 1] = c
  BY AppendedAt
<1>2. 1 .. Len(s) + 1 = (1..Len(s)) \cup {Len(s) + 1}
  BY <1>1
<1>3. CalledAt(Append(s, c), p) <=> CalledAt(s, p) \/ c.at = p
  BY <1>1, <1>2 DEF CalledAt
<1>4. CalledIn(Append(s, c), p) <=> CalledIn(s, p) \/ IsPrefix(p, c.at)
  BY <1>1, <1>2 DEF CalledIn
<1>5. Append(s, c) # << >>
  <2>1. Len(<< >>) = 0
    BY ShortTexts
  <2> QED BY <2>1, <1>1
<1> QED BY <1>1, <1>3, <1>4, <1>5

LEMMA PlacesOfCalls ==
  ASSUME NEW tree, WellFormed(tree), NEW s, IsSomeSequence(s), NEW c,
         InOrder(tree, Append(s, c))
  PROVE  /\ c.at \in DOMAIN tree /\ c.at \in Seq(Nat)
         /\ \A j \in 1..Len(s) :
              /\ s[j].at \in DOMAIN tree /\ s[j].at \in Seq(Nat)
              /\ Under(s[j].at, Begun(tree, s[j]), c.at)
              /\ Begun(tree, s[j]) \in 1..tree[s[j].at].kids
              /\ Len(s[j].at) < Len(c.at) /\ IsPrefix(s[j].at, c.at)
         /\ \A a \in Ancestors(c.at) : tree[a].kind \in Passing \/ CalledAt(s, a)
<1>1. c.at \in DOMAIN tree /\ Follows(tree, s, Len(s), c.at)
  BY InOrderAppended
<1>2. DOMAIN tree \subseteq Seq(Nat)
  BY DEF WellFormed
<1>3. ASSUME NEW j \in 1..Len(s)
      PROVE  /\ s[j].at \in DOMAIN tree /\ s[j].at \in Seq(Nat)
             /\ Under(s[j].at, Begun(tree, s[j]), c.at)
             /\ Begun(tree, s[j]) \in 1..tree[s[j].at].kids
             /\ Len(s[j].at) < Len(c.at) /\ IsPrefix(s[j].at, c.at)
  <2>1. /\ s[j].at \in DOMAIN tree /\ s[j].at \in Seq(Nat)
        /\ Under(s[j].at, Begun(tree, s[j]), c.at)
    BY <1>1, <1>2 DEF Follows
  <2>2. Begun(tree, s[j]) \in 1..tree[s[j].at].kids
    BY <2>1, <1>1, AroundIsThere
  <2>3. Len(s[j].at) < Len(c.at) /\ \A i \in 1..Len(s[j].at) : c.at[i] = s[j].at[i]
    BY <2>1 DEF Under
  <2>4. IsPrefix(s[j].at, c.at)
    <3>1. Begun(tree, s[j]) \in Nat /\ c.at \in Seq(Nat)
      BY <2>1, <2>2, <1>1, <1>2 DEF WellFormed
    <3> QED BY <3>1, <2>1, UnderIsBefore
  <2> QED BY <2>1, <2>2, <2>3, <2>4
<1> QED BY <1>1, <1>2, <1>3 DEF Follows, CalledAt

\* The call c begins the next statement inside of its own, at q, or gives way
\* to it.
Begins(tree, s, c, t, q) ==
  /\ q = Kid(c.at, Begun(tree, c) + 1)
  /\ \/ t = Append(s, Entry(q))
     \/ \E e : e.at = c.at /\ t = Append(Append(s, e), Entry(q))
  /\ Past(tree, Append(s, c), t, c.at)

LEMMA BegunWritten ==
  ASSUME NEW tree, WellFormed(tree), NEW s, IsSomeSequence(s), NEW c,
         InOrder(tree, Append(s, c)), Begun(tree, c) \in 0 .. tree[c.at].kids - 1,
         NEW t, NEW q, Begins(tree, s, c, t, q),
         NEW p \in DOMAIN tree, NEW m \in 0..tree[p].kids, Written(tree, t, p, m)
  PROVE  /\ Written(tree, Append(s, c), p, m) \/ (p = c.at /\ m = Begun(tree, c))
         /\ ~(p = q /\ m = 0)
<1> DEFINE n == Begun(tree, c) + 1
<1>1. /\ c.at \in DOMAIN tree /\ c.at \in Seq(Nat) /\ p \in Seq(Nat)
      /\ tree[c.at].kids \in Nat /\ tree[p].kids \in Nat
      /\ \A j \in 1..Len(s) : Len(s[j].at) < Len(c.at)
  BY PlacesOfCalls DEF WellFormed
<1>2. /\ q = Kid(c.at, n) /\ n \in Nat /\ n \in 1..tree[c.at].kids /\ q \in Seq(Nat)
      /\ Len(q) = Len(c.at) + 1 /\ Under(c.at, n, q) /\ n > Begun(tree, c)
  BY <1>1, KidIsUnder DEF Begins, Kid
<1>3. /\ \A r : CalledAt(t, r) => CalledAt(s, r) \/ r = c.at \/ r = q
      /\ \A r : CalledIn(s, r) \/ IsPrefix(r, q) => CalledIn(t, r)
  <2>1. Entry(q).at = q
    BY DEF Entry
  <2>2. CASE t = Append(s, Entry(q))
    BY <2>1, <2>2, CalledAppended
  <2>3. ASSUME NEW e, e.at = c.at, t = Append(Append(s, e), Entry(q))
        PROVE  /\ \A r : CalledAt(t, r) => CalledAt(s, r) \/ r = c.at \/ r = q
               /\ \A r : CalledIn(s, r) \/ IsPrefix(r, q) => CalledIn(t, r)
    <3>1. IsSomeSequence(Append(s, e))
      BY AppendedAt
    <3>2. \A r : CalledAt(t, r) <=> CalledAt(Append(s, e), r) \/ q = r
      BY <2>1, <2>3, <3>1, CalledAppended
    <3>3. \A r : CalledIn(t, r) <=> CalledIn(Append(s, e), r) \/ IsPrefix(r, q)
      BY <2>1, <2>3, <3>1, CalledAppended
    <3>4. \A r : CalledAt(Append(s, e), r) <=> CalledAt(s, r) \/ c.at = r
      BY <2>3, CalledAppended
    <3>5. \A r : CalledIn(Append(s, e), r) <=> CalledIn(s, r) \/ IsPrefix(r, c.at)
      BY <2>3, CalledAppended
    <3> QED BY <3>2, <3>3, <3>4, <3>5
  <2> QED BY <2>2, <2>3 DEF Begins
<1>4. \A r \in Seq(Nat) : IsPrefix(r, c.at) => IsPrefix(r, q)
  <2>1. IsPrefix(c.at, q)
    BY <1>1, <1>2, UnderIsBefore
  <2> QED BY <2>1, <1>1, <1>2, PrefixOfPrefix
<1>5. \A r : CalledAt(Append(s, c), r) <=> CalledAt(s, r) \/ c.at = r
  BY CalledAppended
<1>6. \A r : CalledIn(Append(s, c), r) <=> CalledIn(s, r) \/ IsPrefix(r, c.at)
  BY CalledAppended
<1>7. \A d \in DOMAIN tree : IsAhead(tree, t, d) <=> IsAhead(tree, Append(s, c), d) /\ d # c.at
  BY DEF Begins, Past
<1>8. IsPrefix(q, q) /\ IsPrefix(c.at, q)
  BY <1>1, <1>2, <1>4, PrefixOfItself
<1>9. CASE m = tree[p].kids
  <2>1. ~IsAhead(tree, t, p) /\ ~CalledIn(t, p)
    BY <1>9 DEF Written, Complete
  <2>2. p # q /\ p # c.at /\ ~IsPrefix(p, c.at) /\ ~CalledIn(s, p)
    BY <2>1, <1>3, <1>4, <1>8, <1>1
  <2>3. Complete(tree, Append(s, c), p)
    BY <2>1, <2>2, <1>6, <1>7 DEF Complete
  <2> QED BY <2>2, <2>3, <1>9 DEF Written
<1>10. CASE m # tree[p].kids
  <2> DEFINE k == Kid(p, m + 1)
  <2>1. Arrived(tree, t, k)
    BY <1>10 DEF Written
  <2>2. m + 1 \in 1..tree[p].kids /\ m + 1 \in Nat
    BY <1>1, <1>10
  <2>3. k \in DOMAIN tree /\ k \in Seq(Nat) /\ Len(k) = Len(p) + 1
    BY <2>2, <1>1 DEF WellFormed, Kid
  <2>4. k = q => p = c.at /\ m = Begun(tree, c)
    <3>1. ASSUME k = q PROVE p = c.at /\ m + 1 = n
      <4>1. Kid(p, m + 1) = Kid(c.at, n)
        BY <3>1, <1>2
      <4>2. p \in Seq(Nat) /\ c.at \in Seq(Nat) /\ m + 1 \in Nat /\ n \in Nat
        BY <1>1, <1>2, <2>2
      <4> HIDE DEF n
      <4> QED BY <4>1, <4>2, KidsDiffer
    <3> QED BY <3>1, <2>2
  <2>5. k # q => Arrived(tree, Append(s, c), k)
    <3> SUFFICES ASSUME k # q PROVE Arrived(tree, Append(s, c), k)
      OBVIOUS
    <3>1. CASE ~IsAhead(tree, t, k)
      BY <3>1, <1>5, <1>7, <2>3 DEF Arrived
    <3>2. CASE CalledAt(t, k)
      BY <3>2, <1>3, <1>5 DEF Arrived
    <3> QED BY <3>1, <3>2, <2>1 DEF Arrived
  <2>6. ~(p = q /\ m = 0)
    <3> SUFFICES ASSUME p = q, m = 0 PROVE FALSE
      OBVIOUS
    <3>1. Under(c.at, n, k)
      <4>1. Under(q, 1, Kid(q, 1))
        BY <1>2, KidIsUnder
      <4>2. k = Kid(q, 1)
        OBVIOUS
      <4> QED BY <4>1, <4>2, <1>1, <1>2, <2>3, UnderIsTransitive
    <3>2. k \in Ahead(tree, c)
      BY <3>1, <1>2, <2>3 DEF Ahead
    <3>3. IsAhead(tree, Append(s, c), k)
      BY <3>2, AheadAppended
    <3>4. k # c.at /\ k # q /\ ~CalledAt(s, k)
      <4>1. Len(k) = Len(c.at) + 2
        BY <2>3, <1>2, <1>1
      <4>2. Len(c.at) \in Nat /\ Len(k) # Len(c.at) /\ Len(k) # Len(q)
        BY <4>1, <1>1, <1>2
      <4>3. \A j \in 1..Len(s) : s[j].at # k
        <5> SUFFICES ASSUME NEW j \in 1..Len(s), s[j].at = k PROVE FALSE
          OBVIOUS
        <5>1. Len(k) < Len(c.at)
          BY <1>1
        <5> QED BY <5>1, <4>1, <4>2
      <4> QED BY <4>2, <4>3 DEF CalledAt
    <3>5. IsAhead(tree, t, k) /\ ~CalledAt(t, k)
      BY <3>3, <3>4, <1>3, <1>7, <2>3
    <3> QED BY <3>5, <2>1 DEF Arrived
  <2>7. Written(tree, Append(s, c), p, m) <=> Arrived(tree, Append(s, c), k)
    BY <1>10 DEF Written
  <2> QED BY <2>4, <2>5, <2>6, <2>7
<1> QED BY <1>9, <1>10

LEMMA PieceByLabels ==
  ASSUME NEW tree, NEW L, NEW M, M.labels = L.labels, NEW p, NEW n
  PROVE  Piece(tree, M, p, n) = Piece(tree, L, p, n)
<1>1. \A q : ExitLabel(tree, M, q) = ExitLabel(tree, L, q)
  BY DEF ExitLabel
<1>2. \A q : ContinueLabel(tree, M, q) = ContinueLabel(tree, L, q)
  BY DEF ContinueLabel
<1>3. CasesOf(tree, M, p) = CasesOf(tree, L, p)
  BY DEF CasesOf
<1>4. ForFront(tree, M, p) = ForFront(tree, L, p)
  BY DEF ForFront
<1>5. FrontText(tree, M, p) = FrontText(tree, L, p)
  BY <1>3, <1>4 DEF FrontText
<1>6. BetweenText(tree, M, p) = BetweenText(tree, L, p)
  BY <1>4 DEF BetweenText
<1>7. EndText(tree, M, p) = EndText(tree, L, p)
  BY <1>1, <1>2 DEF EndText
<1> QED BY <1>5, <1>6, <1>7 DEF Piece

\* The text before the statement that begins ends where that begins.
LEMMA BegunIsLaidOut ==
  ASSUME NEW tree, WellFormed(tree), NEW s, IsSomeSequence(s), NEW c,
         InOrder(tree, Append(s, c)), Begun(tree, c) \in 0 .. tree[c.at].kids - 1,
         NEW t, NEW q, Begins(tree, s, c, t, q),
         NEW text, NEW L, LaidOut(tree, Append(s, c), text, L),
         NEW new, IsSomeSequence(new), new = Piece(tree, L, c.at, Begun(tree, c))
  PROVE  \E M : LaidOut(tree, t, text \o new, M) /\ M.labels = L.labels
<1> DEFINE end == Len(text \o new) + 1
           from == [p \in DOMAIN tree |-> IF p = q THEN end ELSE L.from[p]]
<1>1. PICK M : M = [from |-> from, to |-> L.to, labels |-> L.labels]
  OBVIOUS
<1>2. M.labels = L.labels /\ M.to = L.to /\ \A p \in DOMAIN tree :
        M.from[p] = IF p = q THEN end ELSE L.from[p]
  BY <1>1
<1> HIDE DEF end, from
<1>3. /\ c.at \in DOMAIN tree /\ c.at \in Seq(Nat) /\ tree[c.at].kids \in Nat
      /\ DOMAIN tree \subseteq Seq(Nat)
      /\ q = Kid(c.at, Begun(tree, c) + 1)
      /\ Begun(tree, c) + 1 \in Nat /\ Begun(tree, c) + 1 \in 1..tree[c.at].kids
  BY PlacesOfCalls DEF WellFormed, Begins
<1>4. q \in DOMAIN tree /\ q \in Seq(Nat) /\ q # << >>
  BY <1>3, KidIsThere
<1>5. /\ IsSomeSequence(text \o new) /\ IsSomeSequence(text)
      /\ Holds(text \o new, Len(text) + 1, new, end)
  BY JoinedAt, HoldsNew DEF LaidOut, end
<1>6. ASSUME NEW p \in DOMAIN tree, NEW m \in 0..tree[p].kids, Written(tree, t, p, m)
      PROVE  PieceThere(tree, text \o new, M, p, m)
  <2>1. /\ Written(tree, Append(s, c), p, m) \/ (p = c.at /\ m = Begun(tree, c))
        /\ ~(p = q /\ m = 0)
    BY <1>6, BegunWritten
  <2>2. Piece(tree, M, p, m) = Piece(tree, L, p, m)
    BY <1>2, PieceByLabels
  <2>3. StartOf(M, p, m) = StartOf(L, p, m)
    BY <2>1, <1>2 DEF StartOf
  <2>4. CASE p = c.at /\ m = Begun(tree, c)
    <3>1. EndOf(tree, M, p, m) = end
      BY <2>4, <1>2, <1>3, <1>4 DEF EndOf
    <3>2. StartOf(L, p, m) = Len(text) + 1
      BY <2>4, CalledAppended DEF LaidOut, Reached
    <3> QED BY <3>1, <3>2, <2>2, <2>3, <2>4, <1>5 DEF PieceThere
  <2>5. CASE Written(tree, Append(s, c), p, m) /\ ~(p = c.at /\ m = Begun(tree, c))
    <3>1. EndOf(tree, M, p, m) = EndOf(tree, L, p, m)
      <4>1. CASE m = tree[p].kids
        BY <4>1, <1>2 DEF EndOf
      <4>2. CASE m # tree[p].kids
        <5>1. m + 1 \in 1..tree[p].kids /\ m + 1 \in Nat /\ p \in Seq(Nat)
          BY <4>2, KidIsThere
        <5>2. Kid(p, m + 1) # q
          <6> SUFFICES ASSUME Kid(p, m + 1) = q PROVE FALSE
            OBVIOUS
          <6>1. p = c.at /\ m + 1 = Begun(tree, c) + 1
            BY <5>1, <1>3, KidsDiffer
          <6>2. m = Begun(tree, c)
            BY <6>1, <5>1, <1>3
          <6> QED BY <6>1, <6>2, <2>5
        <5>3. Kid(p, m + 1) \in DOMAIN tree
          BY <5>1 DEF WellFormed
        <5> QED BY <4>2, <5>2, <5>3, <1>2 DEF EndOf
      <4> QED BY <4>1, <4>2
    <3>2. PieceThere(tree, text, L, p, m)
      BY <2>5 DEF LaidOut
    <3> QED BY <3>1, <3>2, <2>2, <2>3, <1>5, HoldsStill DEF PieceThere
  <2> QED BY <2>1, <2>4, <2>5
<1>7. t # << >> /\ t[Len(t)] = Entry(q)
  <2>1. CASE t = Append(s, Entry(q))
    BY <2>1, CalledAppended
  <2>2. ASSUME NEW e, t = Append(Append(s, e), Entry(q))
        PROVE  t # << >> /\ t[Len(t)] = Entry(q)
    <3>1. IsSomeSequence(Append(s, e))
      BY AppendedAt
    <3> QED BY <3>1, <2>2, CalledAppended
  <2> QED BY <2>1, <2>2 DEF Begins
<1>8. Entry(q).at = q /\ Begun(tree, Entry(q)) = 0
  BY DEF Entry, Begun
<1>9. Reached(tree, t, M) = end /\ BegunNoMore(tree, t)
  <2>1. tree[q].kids \in Nat
    BY <1>4 DEF WellFormed
  <2> QED BY <2>1, <1>7, <1>8, <1>2, <1>4 DEF Reached, StartOf, BegunNoMore
<1>10. M.from[<< >>] = 1
  <2>1. << >> \in DOMAIN tree /\ L.from[<< >>] = 1
    BY DEF WellFormed, LaidOut
  <2> QED BY <2>1, <1>2, <1>4
<1>11. LaidOut(tree, t, text \o new, M)
  BY <1>5, <1>6, <1>9, <1>10 DEF LaidOut, end
<1> QED BY <1>11, <1>2

\* A call that goes on without a text.
LEMMA StillLaidOut ==
  ASSUME NEW tree, WellFormed(tree), NEW s, IsSomeSequence(s), NEW c,
         InOrder(tree, Append(s, c)), NEW e, e.at = c.at, Begun(tree, e) = Begun(tree, c),
         Past(tree, Append(s, c), Append(s, e), c.at),
         NEW text, NEW L, LaidOut(tree, Append(s, c), text, L)
  PROVE  LaidOut(tree, Append(s, e), text, L)
<1>1. \A p : CalledAt(Append(s, e), p) <=> CalledAt(Append(s, c), p)
  BY CalledAppended
<1>2. \A p : CalledIn(Append(s, e), p) <=> CalledIn(Append(s, c), p)
  BY CalledAppended
<1>3. c.at \in Seq(Nat) /\ CalledAt(Append(s, c), c.at) /\ CalledIn(Append(s, c), c.at)
  BY PlacesOfCalls, CalledAppended, PrefixOfItself
<1>4. ASSUME NEW p \in DOMAIN tree, NEW m \in 0..tree[p].kids,
             Written(tree, Append(s, e), p, m)
      PROVE  Written(tree, Append(s, c), p, m)
  <2>1. CASE m = tree[p].kids
    BY <2>1, <1>2, <1>3, <1>4 DEF Written, Complete, Past
  <2>2. CASE m # tree[p].kids
    <3>1. Kid(p, m + 1) \in DOMAIN tree
      <4>1. m + 1 \in 1..tree[p].kids
        BY <2>2 DEF WellFormed
      <4> QED BY <4>1 DEF WellFormed
    <3> QED BY <3>1, <2>2, <1>1, <1>3, <1>4 DEF Written, Arrived, Past
  <2> QED BY <2>1, <2>2
<1>5. Reached(tree, Append(s, e), L) = Reached(tree, Append(s, c), L)
  BY CalledAppended DEF Reached
<1>6. BegunNoMore(tree, Append(s, e))
  BY CalledAppended DEF LaidOut, BegunNoMore
<1> QED BY <1>4, <1>5, <1>6 DEF LaidOut

\* The statements that are complete when the call for the one at a returns.
Completed(tree, s, a) == {p \in DOMAIN tree : IsPrefix(p, a) /\ ~CalledIn(s, p)}

LEMMA CompletedTogether ==
  ASSUME NEW tree, WellFormed(tree), NEW s, IsSomeSequence(s), NEW c,
         InOrder(tree, Append(s, c)), NEW p \in Completed(tree, s, c.at), p # c.at
  PROVE  /\ tree[p].kind \in Passing /\ tree[p].kids = 1
         /\ Kid(p, 1) \in Completed(tree, s, c.at)
<1>1. /\ c.at \in Seq(Nat) /\ c.at \in DOMAIN tree
      /\ p \in DOMAIN tree /\ p \in Seq(Nat) /\ IsPrefix(p, c.at) /\ ~CalledIn(s, p)
      /\ \A j \in 1..Len(s) : s[j].at \in Seq(Nat)
  BY PlacesOfCalls DEF Completed, WellFormed
<1>2. PICK n \in Nat : Under(p, n, c.at)
  <2>1. IsStrictPrefix(p, c.at)
    BY <1>1 DEF IsStrictPrefix
  <2> QED BY <2>1, <1>1, PrefixByElements
<1>3. tree[p].kind \in Passing
  <2>1. p \in Ancestors(c.at)
    BY <1>1, <1>2, AncestorByElements
  <2>2. ~CalledAt(s, p)
    BY <1>1, PrefixOfItself DEF CalledAt, CalledIn
  <2> QED BY <2>1, <2>2, PlacesOfCalls
<1>4. tree[p].kids = 1 /\ n = 1
  <2>1. n \in 1..tree[p].kids
    BY <1>1, <1>2, AroundIsThere
  <2>2. tree[p].kids = 1
    BY <1>1, <1>3 DEF WellFormed, Passing
  <2> QED BY <2>1, <2>2
<1>5. Kid(p, 1) \in DOMAIN tree /\ Kid(p, 1) \in Seq(Nat) /\ Under(p, 1, Kid(p, 1))
  BY <1>1, <1>4, KidIsThere
<1>6. IsPrefix(Kid(p, 1), c.at)
  <2>1. c.at = Kid(p, 1) \/ \E m \in Nat : Under(Kid(p, 1), m, c.at)
    BY <1>1, <1>2, <1>4, UnderAKid
  <2>2. ASSUME NEW m \in Nat, Under(Kid(p, 1), m, c.at) PROVE IsPrefix(Kid(p, 1), c.at)
    BY <2>2, <1>1, <1>5, UnderIsBefore
  <2> QED BY <2>1, <2>2, <1>5, PrefixOfItself
<1>7. ~CalledIn(s, Kid(p, 1))
  <2>1. IsPrefix(p, Kid(p, 1))
    BY <1>1, <1>5, UnderIsBefore
  <2> QED BY <2>1, <1>1, <1>5, PrefixOfPrefix DEF CalledIn
<1> QED BY <1>3, <1>4, <1>5, <1>6, <1>7 DEF Completed

LEMMA CompletedWritten ==
  ASSUME NEW tree, WellFormed(tree), NEW s, IsSomeSequence(s), NEW c,
         InOrder(tree, Append(s, c)), Past(tree, Append(s, c), s, c.at),
         NEW p \in DOMAIN tree, NEW m \in 0..tree[p].kids, Written(tree, s, p, m),
         ~(p \in Completed(tree, s, c.at) /\ m = tree[p].kids)
  PROVE  /\ Written(tree, Append(s, c), p, m)
         /\ m # 0 => Kid(p, m) \notin Completed(tree, s, c.at)
<1>1. /\ c.at \in Seq(Nat) /\ c.at \in DOMAIN tree
      /\ p \in Seq(Nat) /\ tree[p].kids \in Nat
      /\ \A j \in 1..Len(s) : /\ s[j].at \in Seq(Nat)
                              /\ Under(s[j].at, Begun(tree, s[j]), c.at)
                              /\ Begun(tree, s[j]) \in 1..tree[s[j].at].kids
                              /\ IsPrefix(s[j].at, c.at)
  BY PlacesOfCalls, KidIsThere
<1>2. \A r : CalledAt(Append(s, c), r) <=> CalledAt(s, r) \/ c.at = r
  BY CalledAppended
<1>3. \A r : CalledIn(Append(s, c), r) <=> CalledIn(s, r) \/ IsPrefix(r, c.at)
  BY CalledAppended
<1>4. IsPrefix(c.at, c.at)
  BY <1>1, PrefixOfItself
<1>5. m # 0 => m \in 1..tree[p].kids
  BY <1>1
<1>6. CASE m = tree[p].kids
  <2>1. ~IsAhead(tree, s, p) /\ ~CalledIn(s, p) /\ ~IsPrefix(p, c.at)
    BY <1>6 DEF Written, Complete, Completed
  <2>2. Written(tree, Append(s, c), p, m)
    BY <2>1, <1>3, <1>4, <1>6 DEF Written, Complete, Past
  <2>3. m # 0 => ~IsPrefix(Kid(p, m), c.at)
    <3> SUFFICES ASSUME m # 0, IsPrefix(Kid(p, m), c.at) PROVE FALSE
      OBVIOUS
    <3>1. /\ m \in Nat /\ Kid(p, m) \in DOMAIN tree /\ Kid(p, m) \in Seq(Nat)
          /\ Under(p, m, Kid(p, m))
      BY <1>5, KidIsThere
    <3>2. IsPrefix(p, Kid(p, m))
      BY <3>1, <1>1, UnderIsBefore
    <3> QED BY <3>1, <3>2, <1>1, <2>1, PrefixOfPrefix
  <2> QED BY <2>2, <2>3 DEF Completed
<1>7. CASE m # tree[p].kids
  <2> DEFINE k == Kid(p, m + 1)
  <2>1. m + 1 \in 1..tree[p].kids /\ k \in DOMAIN tree /\ k \in Seq(Nat) /\ m + 1 \in Nat
        /\ Under(p, m + 1, k)
    BY <1>7, KidIsThere
  <2>2. Arrived(tree, s, k)
    BY <1>7 DEF Written
  <2>3. Arrived(tree, Append(s, c), k)
    BY <2>1, <2>2, <1>2 DEF Arrived, Past
  <2>4. ASSUME m # 0, Kid(p, m) \in Completed(tree, s, c.at) PROVE FALSE
    <3>1. m \in 1..tree[p].kids /\ m \in Nat /\ Kid(p, m) \in Seq(Nat) /\ Under(p, m, Kid(p, m))
      BY <1>5, <2>4, KidIsThere
    <3>2. IsPrefix(Kid(p, m), c.at)
      BY <2>4 DEF Completed
    <3>3. Under(p, m, c.at)
      <4>1. Kid(p, m) = c.at \/ \E n \in Nat : Under(Kid(p, m), n, c.at)
        <5>1. Kid(p, m) # c.at => IsStrictPrefix(Kid(p, m), c.at)
          BY <3>2 DEF IsStrictPrefix
        <5> QED BY <5>1, <3>1, <1>1, PrefixByElements
      <4> QED BY <4>1, <3>1, <1>1, UnderAKid
    <3>4. tree[p].kind \notin Passing
      <4>1. tree[p].kids # 1
        BY <1>1, <1>7, <3>1
      <4> QED BY <4>1 DEF WellFormed, Passing
    <3>5. PICK j \in 1..Len(s) : s[j].at = p
      <4>1. p \in Ancestors(c.at)
        BY <3>1, <3>3, <1>1, AncestorByElements
      <4> QED BY <4>1, <3>4, PlacesOfCalls DEF CalledAt
    <3>6. Begun(tree, s[j]) = m
      BY <3>3, <3>5, <1>1 DEF Under
    <3>7. k \in Ahead(tree, s[j])
      <4>1. m + 1 > m
        BY <3>1
      <4> QED BY <4>1, <2>1, <3>5, <3>6 DEF Ahead
    <3>8. IsAhead(tree, s, k)
      BY <3>7 DEF IsAhead
    <3>9. PICK i \in 1..Len(s) : s[i].at = k
      BY <3>8, <2>2 DEF Arrived, CalledAt
    <3>10. Under(p, m + 1, c.at)
      <4>1. Under(k, Begun(tree, s[i]), c.at) /\ Begun(tree, s[i]) \in 1..tree[k].kids
            /\ tree[k].kids \in Nat
        BY <3>9, <2>1, <1>1, KidIsThere
      <4>2. Begun(tree, s[i]) \in Nat
        BY <4>1
      <4> HIDE DEF k
      <4> QED BY <4>1, <4>2, <2>1, <1>1, UnderIsTransitive
    <3> QED BY <3>3, <3>10, <3>1 DEF Under
  <2>5. Written(tree, Append(s, c), p, m)
    BY <2>3, <1>7 DEF Written
  <2> QED BY <2>4, <2>5
<1> QED BY <1>6, <1>7

LEMMA SplitAtLast ==
  ASSUME NEW s, IsSomeSequence(s), s # << >>
  PROVE  /\ Len(s) \in 1..Len(s) /\ s = Append(Front(s), s[Len(s)])
         /\ IsSomeSequence(Front(s))
         /\ Len(Front(s)) = Len(s) - 1 /\ Len(s) \in Nat
         /\ \A i \in 1..Len(Front(s)) : Front(s)[i] = s[i]
<1>1. PICK S : s \in Seq(S)
  BY DEF IsSomeSequence
<1>2. Len(s) \in Nat \ {0} /\ Front(s) = [i \in 1 .. Len(s) - 1 |-> s[i]]
  BY <1>1 DEF Front
<1>3. Front(s) \in Seq(S) /\ Len(Front(s)) = Len(s) - 1
  BY <1>1, <1>2
<1>4. s = Append(Front(s), s[Len(s)])
  BY <1>1, <1>2, <1>3
<1>5. \A i \in 1..Len(Front(s)) : Front(s)[i] = s[i]
  BY <1>2, <1>3
<1>6. Len(s) \in 1..Len(s)
  BY <1>2
<1>7. IsSomeSequence(Front(s))
  BY <1>3 DEF IsSomeSequence
<1> QED BY <1>2, <1>3, <1>4, <1>5, <1>6, <1>7

\* The text behind the last statement inside of one ends that.
LEMMA CompletedIsLaidOut ==
  ASSUME NEW tree, WellFormed(tree), NEW s, IsSomeSequence(s), NEW c,
         InOrder(tree, Append(s, c)), InOrder(tree, s),
         Begun(tree, c) = tree[c.at].kids, Past(tree, Append(s, c), s, c.at),
         NEW text, NEW L, LaidOut(tree, Append(s, c), text, L),
         NEW new, IsSomeSequence(new), new = Piece(tree, L, c.at, tree[c.at].kids)
  PROVE  \E M : LaidOut(tree, s, text \o new, M) /\ M.labels = L.labels
<1> DEFINE end == Len(text \o new) + 1
           done == Completed(tree, s, c.at)
           to == [p \in DOMAIN tree |-> IF p \in done THEN end ELSE L.to[p]]
<1>1. PICK M : M = [from |-> L.from, to |-> to, labels |-> L.labels]
  OBVIOUS
<1>2. M.labels = L.labels /\ M.from = L.from /\ \A p \in DOMAIN tree :
        M.to[p] = IF p \in done THEN end ELSE L.to[p]
  BY <1>1
<1> HIDE DEF to
<1>3. /\ c.at \in DOMAIN tree /\ c.at \in Seq(Nat) /\ tree[c.at].kids \in Nat
      /\ \A j \in 1..Len(s) : /\ s[j].at \in DOMAIN tree /\ s[j].at \in Seq(Nat)
                              /\ Under(s[j].at, Begun(tree, s[j]), c.at)
                              /\ Begun(tree, s[j]) \in 1..tree[s[j].at].kids
                              /\ Len(s[j].at) < Len(c.at)
  BY PlacesOfCalls, KidIsThere
<1>4. /\ IsSomeSequence(text \o new) /\ IsSomeSequence(text)
      /\ Holds(text \o new, Len(text) + 1, new, end)
      /\ Len(text \o new) \in Nat
  <2>1. IsSomeSequence(text)
    BY DEF LaidOut
  <2> QED BY <2>1, JoinedAt, HoldsNew DEF IsSomeSequence
<1>5. ASSUME NEW p \in DOMAIN tree, NEW m \in 0..tree[p].kids, Written(tree, s, p, m)
      PROVE  PieceThere(tree, text \o new, M, p, m)
  <2>1. Piece(tree, M, p, m) = Piece(tree, L, p, m)
    BY <1>2, PieceByLabels
  <2>2. p \in Seq(Nat) /\ tree[p].kids \in Nat /\ m \in Nat
    BY KidIsThere
  <2>3. CASE p = c.at /\ m = tree[p].kids /\ p \in done
    <3>1. EndOf(tree, M, p, m) = end
      BY <2>3, <1>2 DEF EndOf
    <3>2. StartOf(L, p, m) = Len(text) + 1
      BY <2>3, CalledAppended DEF LaidOut, Reached
    <3>3. StartOf(M, p, m) = StartOf(L, p, m)
      <4>1. ASSUME m # 0 PROVE Kid(p, m) \in DOMAIN tree /\ Kid(p, m) \notin done
        <5>1. m \in 1..tree[p].kids
          BY <2>2, <4>1
        <5>2. /\ Kid(p, m) \in DOMAIN tree /\ Kid(p, m) \in Seq(Nat)
              /\ Len(Kid(p, m)) = Len(p) + 1 /\ Len(p) \in Nat
          BY <5>1, <2>2, KidIsThere
        <5>3. ~(Len(Kid(p, m)) <= Len(p))
          BY <5>2
        <5>4. ~IsPrefix(Kid(p, m), c.at)
          BY <5>2, <5>3, <2>3, <2>2, PrefixByElements
        <5> QED BY <5>2, <5>4 DEF Completed
      <4> QED BY <4>1, <1>2 DEF StartOf
    <3> QED BY <3>1, <3>2, <3>3, <2>1, <2>3, <1>4 DEF PieceThere
  <2>4. CASE p # c.at /\ m = tree[p].kids /\ p \in done
    <3>1. tree[p].kind \in Passing /\ tree[p].kids = 1 /\ Kid(p, 1) \in done
      BY <2>4, CompletedTogether
    <3>2. Kid(p, 1) \in DOMAIN tree
      BY <3>1 DEF Completed
    <3>3. EndOf(tree, M, p, m) = end /\ StartOf(M, p, m) = end
      BY <2>4, <3>1, <3>2, <1>2 DEF EndOf, StartOf
    <3>4. Piece(tree, L, p, m) = << >>
      BY <2>4, <3>1, Zenon DEF Piece, EndText, Passing
    <3>5. Holds(text \o new, end, << >>, end)
      <4>1. /\ IsSomeSequence(<< >>) /\ Len(<< >>) = 0 /\ end \in Nat \ {0}
            /\ end = end + 0 /\ end <= Len(text \o new) + 1
        BY <1>4, ShortTexts
      <4>2. \A k \in 1..0 : (text \o new)[end + k - 1] = << >>[k]
        OBVIOUS
      <4> HIDE DEF end
      <4> QED BY <4>1, <4>2 DEF Holds
    <3> QED BY <3>3, <3>4, <3>5, <2>1 DEF PieceThere
  <2>5. CASE ~(p \in done /\ m = tree[p].kids)
    <3>1. /\ Written(tree, Append(s, c), p, m)
          /\ m # 0 => Kid(p, m) \notin done
      BY <2>5, <1>5, CompletedWritten
    <3>2. PieceThere(tree, text, L, p, m)
      BY <3>1 DEF LaidOut
    <3>3. StartOf(M, p, m) = StartOf(L, p, m)
      <4>1. m # 0 => Kid(p, m) \in DOMAIN tree
        <5>1. m # 0 => m \in 1..tree[p].kids
          BY <2>2
        <5> QED BY <5>1, KidIsThere
      <4> QED BY <4>1, <3>1, <1>2 DEF StartOf
    <3>4. EndOf(tree, M, p, m) = EndOf(tree, L, p, m)
      BY <2>5, <1>2 DEF EndOf
    <3> QED BY <3>2, <3>3, <3>4, <2>1, <1>4, HoldsStill DEF PieceThere
  <2> QED BY <2>3, <2>4, <2>5
<1>6. Reached(tree, s, M) = end /\ BegunNoMore(tree, s)
  <2>1. CASE s = << >>
    <3>1. << >> \in done
      <4>1. << >> \in DOMAIN tree
        BY DEF WellFormed
      <4>2. ~CalledIn(s, << >>)
        <5>1. Len(s) = 0
          BY <2>1, ShortTexts
        <5> QED BY <5>1 DEF CalledIn
      <4>3. IsPrefix(<< >>, c.at)
        <5>1. << >> \in Seq(Nat) /\ Len(<< >>) = 0 /\ Len(c.at) \in Nat
          BY <1>3
        <5>2. Len(<< >>) <= Len(c.at) /\ \A i \in 1..Len(<< >>) : c.at[i] = << >>[i]
          BY <5>1
        <5> QED BY <5>1, <5>2, <1>3, PrefixByElements
      <4> QED BY <4>1, <4>2, <4>3 DEF Completed
    <3>2. << >> \in DOMAIN tree
      BY DEF WellFormed
    <3> QED BY <2>1, <3>1, <3>2, <1>2 DEF Reached, BegunNoMore
  <2>2. CASE s # << >>
    <3> DEFINE f == s[Len(s)]
               n == Begun(tree, f)
               k == Kid(f.at, n)
    <3>1. Len(s) \in 1..Len(s) /\ s = Append(Front(s), f) /\ IsSomeSequence(Front(s))
          /\ Len(Front(s)) = Len(s) - 1 /\ Len(s) \in Nat
          /\ \A i \in 1..Len(Front(s)) : Front(s)[i] = s[i]
      BY <2>2, SplitAtLast
    <3>2. /\ f.at \in DOMAIN tree /\ f.at \in Seq(Nat) /\ n \in 1..tree[f.at].kids
          /\ Under(f.at, n, c.at)
      BY <3>1, <1>3
    <3> HIDE DEF f, n
    <3>3. /\ k \in DOMAIN tree /\ k \in Seq(Nat) /\ Len(k) = Len(f.at) + 1 /\ n \in Nat
          /\ Len(f.at) \in Nat /\ tree[f.at].kids \in Nat
      BY <3>2, KidIsThere
    <3> HIDE DEF k
    <3>4. IsPrefix(k, c.at)
      <4>1. c.at = k \/ \E m \in Nat : Under(k, m, c.at)
        BY <3>2, <3>3, <1>3, UnderAKid DEF k
      <4>2. ASSUME NEW m \in Nat, Under(k, m, c.at) PROVE IsPrefix(k, c.at)
        BY <4>2, <1>3, <3>3, UnderIsBefore
      <4> QED BY <4>1, <4>2, <3>3, PrefixOfItself
    <3>5. ~CalledIn(s, k)
      <4> SUFFICES ASSUME NEW j \in 1..Len(s), IsPrefix(k, s[j].at) PROVE FALSE
        BY DEF CalledIn
      <4>1. Len(k) <= Len(s[j].at) /\ Len(s[j].at) \in Nat
        BY <3>3, <1>3, PrefixOfPrefix, PrefixOfItself
      <4>2. j = Len(s) \/ j \in 1..Len(Front(s))
        BY <3>1
      <4>3. CASE j \in 1..Len(Front(s))
        <5>1. Front(s)[j].at = s[j].at
          BY <4>3, <3>1
        <5>2. Len(s[j].at) < Len(f.at)
          <6>1. InOrder(tree, Append(Front(s), f))
            BY <3>1
          <6> QED BY <6>1, <5>1, <4>3, <3>1, PlacesOfCalls
        <5> QED BY <4>1, <5>2, <3>3
      <4>4. CASE j = Len(s)
        BY <4>1, <4>4, <3>3 DEF f
      <4> QED BY <4>2, <4>3, <4>4
    <3>6. k \in done
      BY <3>3, <3>4, <3>5 DEF Completed
    <3>7. Reached(tree, s, M) = StartOf(M, f.at, n)
      BY <2>2 DEF Reached, n, f
    <3>8. StartOf(M, f.at, n) = M.to[k]
      BY <3>2, <3>3 DEF StartOf, k
    <3>9. M.to[k] = end
      BY <3>6, <3>3, <1>2
    <3>10. BegunNoMore(tree, s)
      BY <3>2, <3>3 DEF BegunNoMore, n, f
    <3> QED BY <3>7, <3>8, <3>9, <3>10
  <2> QED BY <2>1, <2>2
<1>7. LaidOut(tree, s, text \o new, M)
  BY <1>2, <1>4, <1>5, <1>6 DEF LaidOut
<1> QED BY <1>7, <1>2


-----------------------------------------------------------------------------
(***************************************************************************)
(* The target of a break or continue, and the labels that may be chosen    *)
(* when a statement is begun.                                              *)
(***************************************************************************)
LEMMA InnermostIsOne ==
  ASSUME NEW tree, WellFormed(tree), NEW p \in DOMAIN tree, NEW kinds,
         NEW a \in Ancestors(p), tree[a].kind \in kinds
  PROVE  \E q \in Ancestors(p) :
           /\ tree[q].kind \in kinds /\ Innermost(tree, p, kinds) = {q}
           /\ q \in DOMAIN tree /\ q \in Seq(Nat) /\ Len(a) <= Len(q)
<1>1. p \in Seq(Nat) /\ Len(p) \in Nat
  BY KidIsThere
<1>2. \A n \in 0 .. Len(p) - 1 : SubSeq(p, 1, n) \in Seq(Nat) /\ Len(SubSeq(p, 1, n)) = n
  BY <1>1
<1> DEFINE T == {n \in 1..Len(p) : tree[SubSeq(p, 1, n - 1)].kind \in kinds}
<1>3. \A b \in Ancestors(p) : \E n \in 0 .. Len(p) - 1 : b = SubSeq(p, 1, n)
  BY DEF Ancestors
<1>4. PICK k \in 0 .. Len(p) - 1 : a = SubSeq(p, 1, k)
  BY <1>3
<1>5. k + 1 \in T
  <2>1. k + 1 \in 1..Len(p) /\ (k + 1) - 1 = k
    BY <1>1
  <2> QED BY <2>1, <1>4
<1>6. PICK m \in T : \A n \in T : n <= m
  BY <1>1, <1>5, LastIndex
<1> DEFINE q == SubSeq(p, 1, m - 1)
<1>7. /\ m - 1 \in 0 .. Len(p) - 1 /\ q \in Ancestors(p) /\ tree[q].kind \in kinds
      /\ Len(q) = m - 1 /\ q \in Seq(Nat)
  <2>1. m \in 1..Len(p) /\ tree[q].kind \in kinds
    BY <1>6
  <2>2. m - 1 \in 0 .. Len(p) - 1
    BY <2>1, <1>1
  <2> QED BY <2>1, <2>2, <1>2 DEF Ancestors
<1>8. \A b \in Ancestors(p) : tree[b].kind \in kinds => Len(b) <= Len(q)
  <2> SUFFICES ASSUME NEW b \in Ancestors(p), tree[b].kind \in kinds PROVE Len(b) <= Len(q)
    OBVIOUS
  <2>1. PICK n \in 0 .. Len(p) - 1 : b = SubSeq(p, 1, n)
    BY <1>3
  <2>2. n + 1 \in T
    <3>1. n + 1 \in 1..Len(p) /\ (n + 1) - 1 = n
      BY <1>1
    <3> QED BY <3>1, <2>1
  <2>3. n + 1 <= m /\ Len(b) = n
    BY <2>1, <2>2, <1>2, <1>6
  <2> QED BY <2>3, <1>7
<1>9. \A b \in Ancestors(p) : Len(b) = Len(q) => b = q
  BY <1>2, <1>3, <1>7
<1> HIDE DEF q, T
<1>10. q \in Innermost(tree, p, kinds)
  BY <1>7, <1>8 DEF Innermost
<1>11. \A b \in Innermost(tree, p, kinds) : b = q
  <2> SUFFICES ASSUME NEW b \in Innermost(tree, p, kinds) PROVE b = q
    OBVIOUS
  <2>1. b \in Ancestors(p) /\ tree[b].kind \in kinds /\ Len(q) <= Len(b)
    BY <1>7 DEF Innermost
  <2>2. Len(b) <= Len(q) /\ Len(b) \in Nat
    BY <2>1, <1>8, <1>2, <1>3
  <2>3. Len(b) = Len(q)
    BY <2>1, <2>2, <1>7
  <2> QED BY <2>1, <2>3, <1>9
<1>12. Innermost(tree, p, kinds) = {q}
  BY <1>10, <1>11
<1>13. q \in DOMAIN tree
  <2>1. PICK n \in Nat : Under(q, n, p)
    BY <1>1, <1>7, AncestorByElements
  <2> QED BY <2>1, <1>7, AroundIsThere
<1>14. Len(a) <= Len(q)
  BY <1>4, <1>8 DEF Ancestors
<1> QED BY <1>7, <1>12, <1>13, <1>14

LEMMA TheOnlyOne == \A x : C!The({x}) = x
BY DEF C!The

\* A break leaves the innermost loop or switch around it.
LEMMA TargetOfJump ==
  ASSUME NEW tree, WellFormed(tree), SemaAccepts(tree), NEW p \in DOMAIN tree
  PROVE  /\ tree[p].kind = "break" =>
              \E q \in Ancestors(p) :
                /\ q \in DOMAIN tree /\ tree[q].kind \in Targeted
                /\ Innermost(tree, p, Targeted) = {q}
                /\ C!The(Innermost(tree, p, Targeted)) = q
         /\ tree[p].kind = "continue" =>
              \E q \in Ancestors(p) :
                /\ q \in DOMAIN tree /\ tree[q].kind \in Loops
                /\ Innermost(tree, p, Loops) = {q}
                /\ C!The(Innermost(tree, p, Loops)) = q
<1>1. CheckStatement(tree, p)
  BY DEF SemaAccepts
<1>2. ASSUME tree[p].kind = "break"
      PROVE  \E q \in Ancestors(p) :
                /\ q \in DOMAIN tree /\ tree[q].kind \in Targeted
                /\ Innermost(tree, p, Targeted) = {q}
                /\ C!The(Innermost(tree, p, Targeted)) = q
  <2>1. PICK a \in Ancestors(p) : tree[a].kind \in Targeted
    BY <1>1, <1>2 DEF CheckStatement, LoopDepth, SwitchDepth, Targeted
  <2>2. PICK q \in Ancestors(p) :
          /\ tree[q].kind \in Targeted /\ Innermost(tree, p, Targeted) = {q}
          /\ q \in DOMAIN tree /\ q \in Seq(Nat) /\ Len(a) <= Len(q)
    BY <2>1, InnermostIsOne
  <2>3. C!The(Innermost(tree, p, Targeted)) = q
    BY <2>2, TheOnlyOne
  <2> QED BY <2>2, <2>3
<1>3. ASSUME tree[p].kind = "continue"
      PROVE  \E q \in Ancestors(p) :
                /\ q \in DOMAIN tree /\ tree[q].kind \in Loops
                /\ Innermost(tree, p, Loops) = {q}
                /\ C!The(Innermost(tree, p, Loops)) = q
  <2>1. PICK a \in Ancestors(p) : tree[a].kind \in Loops
    BY <1>1, <1>3 DEF CheckStatement, LoopDepth
  <2>2. PICK q \in Ancestors(p) :
          /\ tree[q].kind \in Loops /\ Innermost(tree, p, Loops) = {q}
          /\ q \in DOMAIN tree /\ q \in Seq(Nat) /\ Len(a) <= Len(q)
    BY <2>1, InnermostIsOne
  <2>3. C!The(Innermost(tree, p, Loops)) = q
    BY <2>2, TheOnlyOne
  <2> QED BY <2>2, <2>3
<1> QED BY <1>2, <1>3

\* A case belongs to one switch.
LEMMA CasesOfOneSwitch ==
  ASSUME NEW tree, WellFormed(tree), NEW a \in DOMAIN tree, NEW b \in DOMAIN tree,
         tree[a].kind = "switch", tree[b].kind = "switch",
         NEW q \in CasesIn(tree, a), q \in CasesIn(tree, b)
  PROVE  a = b
<1>1. a \in Seq(Nat) /\ b \in Seq(Nat) /\ q \in Seq(Nat) /\ q \in DOMAIN tree
  BY DEF WellFormed, CasesIn
<1>2. PICK m \in Nat : Under(a, m, q)
  BY <1>1, PrefixByElements DEF CasesIn
<1>3. PICK n \in Nat : Under(b, n, q)
  BY <1>1, PrefixByElements DEF CasesIn
<1>4. a \in Ancestors(q) /\ b \in Ancestors(q)
  BY <1>1, <1>2, <1>3, AncestorByElements
<1>5. ~IsStrictPrefix(a, b) /\ ~IsStrictPrefix(b, a)
  BY <1>4 DEF CasesIn, LookedInto, Loops
<1>6. Len(a) \in Nat /\ Len(b) \in Nat /\ Len(q) \in Nat
  BY <1>1
<1>7. /\ Len(a) < Len(q) /\ Len(b) < Len(q)
      /\ \A i \in 1..Len(a) : q[i] = a[i] 
      /\ \A i \in 1..Len(b) : q[i] = b[i]
  BY <1>2, <1>3 DEF Under
<1>8. CASE Len(a) <= Len(b)
  <2>1. \A i \in 1..Len(a) : b[i] = a[i]
    BY <1>6, <1>7, <1>8
  <2>2. IsPrefix(a, b)
    BY <2>1, <1>1, <1>8, PrefixByElements
  <2> QED BY <2>2, <1>5 DEF IsStrictPrefix
<1>9. CASE Len(b) <= Len(a)
  <2>1. \A i \in 1..Len(b) : a[i] = b[i]
    BY <1>6, <1>7, <1>9
  <2>2. IsPrefix(b, a)
    BY <2>1, <1>1, <1>9, PrefixByElements
  <2> QED BY <2>2, <1>5 DEF IsStrictPrefix
<1> QED BY <1>6, <1>8, <1>9

\* The statements whose labels are allocated when the one at a begins.
Relabels(tree, a) == {a} \cup {q \in CasesIn(tree, a) : tree[a].kind = "switch"}
SameBut(tree, L, M, X) ==
  /\ M.from = L.from /\ M.to = L.to
  /\ \A p \in DOMAIN tree \ X : M.labels[p] = L.labels[p]

LEMMA PieceOfOthers ==
  ASSUME NEW tree, WellFormed(tree), SemaAccepts(tree), NEW a \in DOMAIN tree,
         tree[a].kind \in Targeted \cup {"if"},
         NEW L, NEW M, SameBut(tree, L, M, Relabels(tree, a)),
         NEW p \in DOMAIN tree \ Relabels(tree, a),
         tree[p].kind \in {"break", "continue"} => a \notin Ancestors(p), NEW n
  PROVE  Piece(tree, M, p, n) = Piece(tree, L, p, n)
<1>1. M.labels[p] = L.labels[p]
  BY DEF SameBut
<1>2. \A q \in DOMAIN tree : q # a /\ tree[q].kind \in Targeted => M.labels[q] = L.labels[q]
  BY DEF SameBut, Relabels, CasesIn, Targeted, Loops
<1>3. tree[p].kind = "break" =>
        ExitLabel(tree, M, C!The(Innermost(tree, p, Targeted))) =
          ExitLabel(tree, L, C!The(Innermost(tree, p, Targeted)))
  BY <1>2, TargetOfJump DEF ExitLabel
<1>4. tree[p].kind = "continue" =>
        ContinueLabel(tree, M, C!The(Innermost(tree, p, Loops))) =
          ContinueLabel(tree, L, C!The(Innermost(tree, p, Loops)))
  BY <1>2, TargetOfJump DEF ContinueLabel, Targeted
<1>5. tree[p].kind = "switch" => CasesOf(tree, M, p) = CasesOf(tree, L, p)
  <2> SUFFICES ASSUME tree[p].kind = "switch" PROVE CasesOf(tree, M, p) = CasesOf(tree, L, p)
    OBVIOUS
  <2>1. \A q \in CasesIn(tree, p) : M.labels[q] = L.labels[q]
    <3> SUFFICES ASSUME NEW q \in CasesIn(tree, p) PROVE M.labels[q] = L.labels[q]
      OBVIOUS
    <3>1. q \in DOMAIN tree /\ q # a
      BY DEF CasesIn, Targeted, Loops
    <3>2. tree[a].kind = "switch" => q \notin CasesIn(tree, a)
      BY CasesOfOneSwitch DEF Relabels
    <3> QED BY <3>1, <3>2 DEF SameBut, Relabels
  <2> QED BY <2>1 DEF CasesOf
<1>6. ForFront(tree, M, p) = ForFront(tree, L, p)
  BY <1>1 DEF ForFront
<1>7. FrontText(tree, M, p) = FrontText(tree, L, p)
  BY <1>1, <1>5, <1>6 DEF FrontText
<1>8. BetweenText(tree, M, p) = BetweenText(tree, L, p)
  BY <1>1, <1>6 DEF BetweenText
<1>9. EndText(tree, M, p) = EndText(tree, L, p)
  BY <1>1, <1>3, <1>4 DEF EndText
<1> QED BY <1>7, <1>8, <1>9 DEF Piece

\* Nothing that is written of other statements names a label of a statement that
\* is about to begin.
LEMMA RelabelledIsLaidOut ==
  ASSUME NEW tree, WellFormed(tree), SemaAccepts(tree), NEW s, IsSomeSequence(s), NEW c,
         InOrder(tree, Append(s, c)), tree[c.at].kind \in Targeted \cup {"if"},
         Begun(tree, c) \in 0 .. tree[c.at].kids - 1,
         \A n \in 1..Begun(tree, c) : tree[Kid(c.at, n)].kind = "expression",
         NEW text, NEW L, LaidOut(tree, Append(s, c), text, L),
         NEW M, SameBut(tree, L, M, Relabels(tree, c.at)),
         \A m \in 0 .. Begun(tree, c) - 1 : Piece(tree, M, c.at, m) = Piece(tree, L, c.at, m)
  PROVE  LaidOut(tree, Append(s, c), text, M)
<1> DEFINE a == c.at
<1>1. /\ a \in DOMAIN tree /\ a \in Seq(Nat) /\ tree[a].kids \in Nat /\ Len(a) \in Nat
      /\ \A j \in 1..Len(s) : s[j].at \in Seq(Nat) /\ Len(s[j].at) < Len(a)
  BY PlacesOfCalls, KidIsThere
<1>2. ASSUME NEW d \in DOMAIN tree, NEW n \in Nat, Under(a, n, d), d # Kid(a, n) \/ n > Begun(tree, c)
      PROVE  IsAhead(tree, Append(s, c), d) /\ ~CalledAt(Append(s, c), d)
  <2>1. n \in 1..tree[a].kids
    BY <1>1, <1>2, AroundIsThere
  <2>2. n > Begun(tree, c)
    <3> SUFFICES ASSUME ~(n > Begun(tree, c)) PROVE FALSE
      OBVIOUS
    <3>1. n \in 1..Begun(tree, c) /\ d # Kid(a, n)
      BY <2>1, <1>2, <1>1
    <3>2. tree[Kid(a, n)].kind = "expression" /\ Kid(a, n) \in DOMAIN tree /\ d \in Seq(Nat)
          /\ Kid(a, n) \in Seq(Nat)
      BY <3>1, <2>1, <1>1, KidIsThere
    <3>3. PICK m \in Nat : Under(Kid(a, n), m, d)
      BY <3>1, <3>2, <1>1, <1>2, UnderAKid
    <3>4. m \in 1..tree[Kid(a, n)].kids
      BY <3>2, <3>3, AroundIsThere
    <3>5. tree[Kid(a, n)].kids = 0
      BY <3>2 DEF WellFormed, LeafKinds
    <3> QED BY <3>4, <3>5
  <2>3. d \in Ahead(tree, c)
    BY <2>1, <2>2, <1>2 DEF Ahead
  <2>4. Len(a) < Len(d)
    BY <1>2 DEF Under
  <2>5. ~CalledAt(s, d) /\ c.at # d
    <3>1. \A j \in 1..Len(s) : s[j].at # d
      <4> SUFFICES ASSUME NEW j \in 1..Len(s), s[j].at = d PROVE FALSE
        OBVIOUS
      <4>1. Len(d) < Len(a) /\ Len(d) \in Nat
        BY <1>1
      <4> QED BY <4>1, <2>4, <1>1
    <3> QED BY <3>1, <2>4, <1>1 DEF CalledAt
  <2> QED BY <2>3, <2>5, AheadAppended, CalledAppended
<1>3. CalledIn(Append(s, c), a)
  BY <1>1, PrefixOfItself, CalledAppended
<1>4. ASSUME NEW p \in DOMAIN tree, NEW m \in 0..tree[p].kids, Written(tree, Append(s, c), p, m)
      PROVE  Piece(tree, M, p, m) = Piece(tree, L, p, m)
  <2>1. p \in Seq(Nat) /\ tree[p].kids \in Nat
    BY KidIsThere
  <2>2. CASE p = a
    <3>1. m # tree[p].kids
      BY <2>2, <1>3, <1>4 DEF Written, Complete
    <3>2. /\ m + 1 \in 1..tree[a].kids /\ m + 1 \in Nat /\ Under(a, m + 1, Kid(a, m + 1))
          /\ Kid(a, m + 1) \in DOMAIN tree
      BY <3>1, <2>2, KidIsThere
    <3>3. Arrived(tree, Append(s, c), Kid(a, m + 1))
      BY <3>1, <2>2, <1>4 DEF Written
    <3>4. ~(m + 1 > Begun(tree, c))
      BY <3>2, <3>3, <1>2 DEF Arrived
    <3>5. m \in 0 .. Begun(tree, c) - 1
      BY <3>2, <3>4, <1>1
    <3> QED BY <3>5, <2>2
  <2>3. CASE p # a /\ p \in Relabels(tree, a)
    <3>1. tree[p].kind \in Passing /\ IsStrictPrefix(a, p)
      BY <2>3 DEF Relabels, CasesIn, Passing
    <3>2. PICK n \in Nat : Under(a, n, p)
      BY <3>1, <2>1, <1>1, PrefixByElements
    <3>3. tree[p].kids = 1
      BY <3>1 DEF WellFormed, Passing
    <3>4. p # Kid(a, n) \/ n > Begun(tree, c)
      <4> SUFFICES ASSUME p = Kid(a, n), ~(n > Begun(tree, c)) PROVE FALSE
        OBVIOUS
      <4>1. n \in 1..tree[a].kids
        BY <1>1, <3>2, AroundIsThere
      <4>2. tree[p].kind = "expression"
        BY <4>1, <1>1
      <4> QED BY <4>2, <3>1 DEF Passing
    <3>5. IsAhead(tree, Append(s, c), p)
      BY <3>2, <3>4, <1>2
    <3>6. CASE m = 1
      BY <3>3, <3>5, <3>6, <1>4 DEF Written, Complete
    <3>7. CASE m = 0
      <4>1. /\ Kid(p, 1) \in DOMAIN tree /\ Kid(p, 1) \in Seq(Nat) /\ Under(p, 1, Kid(p, 1))
            /\ Len(Kid(p, 1)) = Len(p) + 1
        BY <3>3, KidIsThere
      <4>2. Under(a, n, Kid(p, 1))
        BY <4>1, <3>2, <2>1, <1>1, UnderIsTransitive
      <4>3. Kid(p, 1) # Kid(a, n)
        <5> SUFFICES ASSUME Kid(p, 1) = Kid(a, n) PROVE FALSE
          OBVIOUS
        <5>1. p = a
          BY <2>1, <1>1, KidsDiffer
        <5> QED BY <5>1, <2>3
      <4>4. ~Arrived(tree, Append(s, c), Kid(p, 1))
        BY <4>1, <4>2, <4>3, <1>2 DEF Arrived
      <4> QED BY <4>4, <3>3, <3>7, <1>4 DEF Written
    <3> QED BY <3>3, <3>6, <3>7
  <2>4. CASE p \notin Relabels(tree, a)
    <3>1. tree[p].kind \in {"break", "continue"} => a \notin Ancestors(p)
      <4> SUFFICES ASSUME tree[p].kind \in {"break", "continue"}, a \in Ancestors(p) PROVE FALSE
        OBVIOUS
      <4>1. PICK n \in Nat : Under(a, n, p)
        BY <2>1, <1>1, AncestorByElements
      <4>2. n \in 1..tree[a].kids
        BY <1>1, <4>1, AroundIsThere
      <4>3. p = Kid(a, n) => n > Begun(tree, c)
        <5> SUFFICES ASSUME p = Kid(a, n), ~(n > Begun(tree, c)) PROVE FALSE
          OBVIOUS
        <5>1. tree[p].kind = "expression"
          BY <4>2, <1>1
        <5> QED BY <5>1
      <4>4. IsAhead(tree, Append(s, c), p)
        BY <4>1, <4>3, <1>2
      <4>5. tree[p].kids = 0
        BY DEF WellFormed, LeafKinds
      <4> QED BY <4>4, <4>5, <1>4 DEF Written, Complete
    <3> QED BY <3>1, <2>4, <1>1, PieceOfOthers
  <2> QED BY <2>2, <2>3, <2>4
<1>5. /\ \A p, m : StartOf(M, p, m) = StartOf(L, p, m)
      /\ \A p, m : EndOf(tree, M, p, m) = EndOf(tree, L, p, m)
      /\ M.from = L.from /\ Reached(tree, Append(s, c), M) = Reached(tree, Append(s, c), L)
  BY DEF SameBut, StartOf, EndOf, Reached
<1>6. ASSUME NEW p \in DOMAIN tree, NEW m \in 0..tree[p].kids, Written(tree, Append(s, c), p, m)
      PROVE  PieceThere(tree, text, M, p, m)
  <2>1. PieceThere(tree, text, L, p, m)
    BY <1>6 DEF LaidOut
  <2> QED BY <2>1, <1>4, <1>5, <1>6 DEF PieceThere
<1> QED BY <1>5, <1>6 DEF LaidOut


-----------------------------------------------------------------------------
(***************************************************************************)
(* The labels in the calls in progress and in the tables are those of the  *)
(* layout.                                                                 *)
(***************************************************************************)
IsLocal(l) == \E n : l = Local(n)
LocalLabels(tree, L) == \A p \in DOMAIN tree : \A i \in 1..3 : IsLocal(L.labels[p][i])

LabelCount(kind) ==
  CASE kind \in {"if", "while"} -> 2
    [] kind \in {"do", "for"} -> 3
    [] kind = "switch" -> 1
    [] OTHER -> 0
HasLabelsOf(tree, c, L) ==
  c.step \in {"then", "else", "body"} =>
    \A i \in 1..LabelCount(tree[c.at].kind) : c.labels[i] = L.labels[c.at][i]
Labelled(tree, s, L) == \A j \in 1..Len(s) : HasLabelsOf(tree, s[j], L)

\* The table given has meant[p] for every statement p of the kinds whose body is
\* being emitted, in their order.
Rank(tree, s, kinds, j) == Cardinality({k \in BodiesOf(tree, s, kinds) : k <= j})
Lists(tree, s, kinds, given, meant) ==
  \A j \in BodiesOf(tree, s, kinds) : given[Rank(tree, s, kinds, j)] = meant[s[j].at]

Exits(tree, L) == [p \in DOMAIN tree |-> ExitLabel(tree, L, p)]
Continues(tree, L) == [p \in DOMAIN tree |-> ContinueLabel(tree, L, p)]
ContinuesIn(loops) == [i \in DOMAIN loops |-> loops[i].continue]

\* One target more than the n of less.
OneMore(more, less, n) ==
  /\ IsSomeSequence(more) /\ IsSomeSequence(less)
  /\ Len(less) = n /\ Len(more) = n + 1
  /\ \A i \in 1..n : less[i] = more[i]

CasesMeant(tree, s, cases, L) ==
  LET switches == BodiesOf(tree, s, {"switch"})
  IN /\ \A j \in switches :
          (\A k \in switches : k <= j) => cases = CasesOf(tree, L, s[j].at)
     /\ \A j, m \in switches :
          j < m /\ (\A k \in switches : k < m => k <= j) => s[m].saved = CasesOf(tree, L, s[j].at)

TablesMeant(tree, s, loops, breaks, cases, L) ==
  /\ Labelled(tree, s, L)
  /\ Lists(tree, s, Targeted, breaks, Exits(tree, L))
  /\ Lists(tree, s, Loops, ContinuesIn(loops), Continues(tree, L))
  /\ CasesMeant(tree, s, cases, L)

LEMMA LabelledAppended ==
  ASSUME NEW tree, NEW s, IsSomeSequence(s), NEW c, NEW L
  PROVE  Labelled(tree, Append(s, c), L) <=> Labelled(tree, s, L) /\ HasLabelsOf(tree, c, L)
<1>1. /\ Len(s) \in Nat /\ Len(Append(s, c)) = Len(s) + 1
      /\ \A i \in 1..Len(s) : Append(s, c)[i] = s[i]
      /\ Append(s, c)[Len(s) + 1] = c
  BY AppendedAt
<1>2. 1 .. Len(s) + 1 = (1..Len(s)) \cup {Len(s) + 1}
  BY <1>1
<1> QED BY <1>1, <1>2 DEF Labelled

LEMMA Ranks ==
  ASSUME NEW tree, NEW s, IsSomeSequence(s), NEW kinds, NEW j \in BodiesOf(tree, s, kinds)
  PROVE  /\ Rank(tree, s, kinds, j) \in 1..Cardinality(BodiesOf(tree, s, kinds))
         /\ (\A k \in BodiesOf(tree, s, kinds) : k <= j) =>
              Rank(tree, s, kinds, j) = Cardinality(BodiesOf(tree, s, kinds))
<1> DEFINE B == BodiesOf(tree, s, kinds)
           R == {k \in B : k <= j}
<1>1. B \subseteq 1..Len(s) /\ Len(s) \in Nat /\ j \in B
  BY BodiesOfAppended, AppendedAt
<1> HIDE DEF B
<1>2. IsFiniteSet(1..Len(s))
  BY <1>1, FS_Interval
<1>a. R \subseteq B
  OBVIOUS
<1>b. j \in R
  <2>1. j \in Nat
    BY <1>1
  <2> QED BY <1>1, <2>1
<1>c. IsFiniteSet(B)
  BY <1>1, <1>2, FS_Subset
<1>3. IsFiniteSet(B) /\ R \subseteq B /\ j \in R
  BY <1>a, <1>b, <1>c
<1>4. IsFiniteSet(R) /\ Cardinality(R) <= Cardinality(B)
  BY <1>3, FS_Subset
<1>5. Cardinality(R) \in Nat /\ Cardinality(B) \in Nat
  BY <1>3, <1>4, FS_CardinalityType
<1>6. Cardinality(R) # 0
  BY <1>3, <1>4, FS_EmptySet
<1>7. (\A k \in B : k <= j) => R = B
  BY <1>3
<1>8. Rank(tree, s, kinds, j) = Cardinality(R)
  BY DEF Rank, B
<1> QED BY <1>4, <1>5, <1>6, <1>7, <1>8 DEF B

LEMMA ListsAppended ==
  ASSUME NEW tree, NEW s, IsSomeSequence(s), NEW c, NEW kinds, NEW given, NEW meant
  PROVE  /\ ~IsBodyOf(tree, c, kinds) =>
              (Lists(tree, Append(s, c), kinds, given, meant) <=>
                 Lists(tree, s, kinds, given, meant))
         /\ IsBodyOf(tree, c, kinds) =>
              \A less : (\A i \in 1..Cardinality(BodiesOf(tree, s, kinds)) : less[i] = given[i]) =>
                (Lists(tree, Append(s, c), kinds, given, meant) <=>
                   /\ Lists(tree, s, kinds, less, meant)
                   /\ given[Cardinality(BodiesOf(tree, s, kinds)) + 1] = meant[c.at])
<1> DEFINE t == Append(s, c)
           n == Len(s)
           B == BodiesOf(tree, s, kinds)
<1>1. /\ n \in Nat /\ B \subseteq 1..n /\ t[n + 1] = c
      /\ \A i \in B : t[i] = s[i]
  BY AppendedAt, BodiesOfAppended
<1>2. /\ ~IsBodyOf(tree, c, kinds) => BodiesOf(tree, t, kinds) = B
      /\ IsBodyOf(tree, c, kinds) => BodiesOf(tree, t, kinds) = B \cup {n + 1}
  BY BodiesOfAppended
<1>3. IsBodyOf(tree, c, kinds) => Cardinality(BodiesOf(tree, t, kinds)) = Cardinality(B) + 1
  BY BodiesCounted
<1>4. IsSomeSequence(t)
  BY AppendedAt
<1>5. \A j \in B : Rank(tree, s, kinds, j) \in 1..Cardinality(B)
  BY Ranks
<1>6. ASSUME NEW j \in BodiesOf(tree, t, kinds), \A k \in BodiesOf(tree, t, kinds) : k <= j
      PROVE  Rank(tree, t, kinds, j) = Cardinality(BodiesOf(tree, t, kinds))
  BY <1>4, <1>6, Ranks
<1> HIDE DEF t, n
<1>7. \A j \in B : Rank(tree, t, kinds, j) = Rank(tree, s, kinds, j)
  <2> SUFFICES ASSUME NEW j \in B PROVE Rank(tree, t, kinds, j) = Rank(tree, s, kinds, j)
    OBVIOUS
  <2> HIDE DEF B
  <2>1. ~(n + 1 <= j)
    BY <1>1
  <2>2. {k \in BodiesOf(tree, t, kinds) : k <= j} = {k \in B : k <= j}
    BY <1>2, <2>1
  <2> QED BY <2>2 DEF Rank, B
<1>8. ASSUME ~IsBodyOf(tree, c, kinds)
      PROVE  Lists(tree, t, kinds, given, meant) <=> Lists(tree, s, kinds, given, meant)
  BY <1>8, <1>1, <1>2, <1>7 DEF Lists
<1>9. ASSUME IsBodyOf(tree, c, kinds), NEW less,
             \A i \in 1..Cardinality(B) : less[i] = given[i]
      PROVE  Lists(tree, t, kinds, given, meant) <=>
               /\ Lists(tree, s, kinds, less, meant)
               /\ given[Cardinality(B) + 1] = meant[c.at]
  <2>1. BodiesOf(tree, t, kinds) = B \cup {n + 1}
    BY <1>2, <1>9
  <2>2. Rank(tree, t, kinds, n + 1) = Cardinality(B) + 1
    <3>1. \A k \in BodiesOf(tree, t, kinds) : k <= n + 1
      <4> HIDE DEF B
      <4>1. \A k \in B \cup {n + 1} : k <= n + 1
        BY <1>1
      <4> QED BY <2>1, <4>1
    <3> QED BY <3>1, <2>1, <1>3, <1>6, <1>9
  <2>3. \A j \in B : given[Rank(tree, t, kinds, j)] = less[Rank(tree, s, kinds, j)]
    BY <1>5, <1>7, <1>9
  <2>4. Lists(tree, t, kinds, given, meant) <=>
          /\ \A j \in B : given[Rank(tree, t, kinds, j)] = meant[t[j].at]
          /\ given[Rank(tree, t, kinds, n + 1)] = meant[t[n + 1].at]
    <3> HIDE DEF B
    <3> QED BY <2>1 DEF Lists
  <2> QED BY <2>2, <2>3, <2>4, <1>1 DEF Lists
<1> QED BY <1>8, <1>9 DEF t

LEMMA ListsPushed ==
  ASSUME NEW tree, NEW s, IsSomeSequence(s), NEW c, NEW kinds, IsBodyOf(tree, c, kinds),
         NEW given, NEW meant, NEW less,
         \A i \in 1..Cardinality(BodiesOf(tree, s, kinds)) : less[i] = given[i]
  PROVE  Lists(tree, Append(s, c), kinds, given, meant) <=>
           /\ Lists(tree, s, kinds, less, meant)
           /\ given[Cardinality(BodiesOf(tree, s, kinds)) + 1] = meant[c.at]
  BY ListsAppended

LEMMA TargetPushed ==
  ASSUME NEW tree, NEW s, IsSomeSequence(s), NEW c, IsBodyOf(tree, c, Targeted),
         NEW given, NEW meant, NEW less, NEW n \in Nat,
         n = Cardinality(BodiesOf(tree, s, Targeted)), \A i \in 1..n : less[i] = given[i],
         NEW m, m = n + 1
  PROVE  Lists(tree, Append(s, c), Targeted, given, meant) <=>
           Lists(tree, s, Targeted, less, meant) /\ given[m] = meant[c.at]
<1>1. ASSUME NEW K, K = Targeted
      PROVE  Lists(tree, Append(s, c), K, given, meant) <=>
               /\ Lists(tree, s, K, less, meant)
               /\ given[Cardinality(BodiesOf(tree, s, K)) + 1] = meant[c.at]
  <2>1. IsBodyOf(tree, c, K) /\ \A i \in 1..Cardinality(BodiesOf(tree, s, K)) : less[i] = given[i]
    BY <1>1
  <2> QED BY <2>1, ListsPushed
<1> QED BY <1>1

LEMMA BreakPushed ==
  ASSUME NEW tree, NEW s, IsSomeSequence(s), NEW c, IsBodyOf(tree, c, Targeted),
         c.at \in DOMAIN tree, NEW breaks, NEW less, NEW L,
         OneMore(breaks, less, Cardinality(BodiesOf(tree, s, Targeted)))
  PROVE  Lists(tree, Append(s, c), Targeted, breaks, Exits(tree, L)) <=>
           /\ Lists(tree, s, Targeted, less, Exits(tree, L))
           /\ breaks[Len(breaks)] = ExitLabel(tree, L, c.at)
<1> DEFINE n == Cardinality(BodiesOf(tree, s, Targeted))
<1>1. n \in Nat
  BY BodiesCounted
<1>2. Exits(tree, L)[c.at] = ExitLabel(tree, L, c.at)
  BY DEF Exits
<1>3. Len(breaks) = n + 1 /\ \A i \in 1..n : less[i] = breaks[i]
  BY DEF OneMore
<1>4. Lists(tree, Append(s, c), Targeted, breaks, Exits(tree, L)) <=>
        Lists(tree, s, Targeted, less, Exits(tree, L)) /\ breaks[Len(breaks)] = Exits(tree, L)[c.at]
  BY <1>1, <1>3, TargetPushed
<1> QED BY <1>2, <1>4

LEMMA ContinuePushed ==
  ASSUME NEW tree, NEW s, IsSomeSequence(s), NEW c, IsBodyOf(tree, c, Loops),
         c.at \in DOMAIN tree, NEW loops, NEW less, NEW L,
         OneMore(loops, less, Cardinality(BodiesOf(tree, s, Loops)))
  PROVE  Lists(tree, Append(s, c), Loops, ContinuesIn(loops), Continues(tree, L)) <=>
           /\ Lists(tree, s, Loops, ContinuesIn(less), Continues(tree, L))
           /\ loops[Len(loops)].continue = ContinueLabel(tree, L, c.at)
<1> DEFINE n == Cardinality(BodiesOf(tree, s, Loops))
<1>1. n \in Nat
  BY BodiesCounted
<1>2. Continues(tree, L)[c.at] = ContinueLabel(tree, L, c.at)
  BY DEF Continues
<1>3. Len(loops) = n + 1 /\ DOMAIN loops = 1 .. n + 1 /\ DOMAIN less = 1..n
      /\ \A i \in 1..n : less[i] = loops[i]
  BY DEF OneMore, IsSomeSequence
<1> HIDE DEF n
<1>4. /\ \A i \in 1..n : ContinuesIn(less)[i] = ContinuesIn(loops)[i]
      /\ ContinuesIn(loops)[n + 1] = loops[n + 1].continue
  BY <1>1, <1>3 DEF ContinuesIn
<1>5. Lists(tree, Append(s, c), Loops, ContinuesIn(loops), Continues(tree, L)) <=>
        /\ Lists(tree, s, Loops, ContinuesIn(less), Continues(tree, L))
        /\ ContinuesIn(loops)[n + 1] = Continues(tree, L)[c.at]
  BY <1>4, ListsPushed DEF n
<1> QED BY <1>2, <1>3, <1>4, <1>5

LEMMA CasesMeantAppended ==
  ASSUME NEW tree, NEW s, IsSomeSequence(s), NEW c, NEW cases, NEW L
  PROVE  /\ ~IsBodyOf(tree, c, {"switch"}) =>
              (CasesMeant(tree, Append(s, c), cases, L) <=> CasesMeant(tree, s, cases, L))
         /\ IsBodyOf(tree, c, {"switch"}) =>
              (CasesMeant(tree, Append(s, c), cases, L) <=>
                 CasesMeant(tree, s, c.saved, L) /\ cases = CasesOf(tree, L, c.at))
<1> DEFINE t == Append(s, c)
           n == Len(s)
           B == BodiesOf(tree, s, {"switch"})
<1>1. /\ ~IsBodyOf(tree, c, {"switch"}) => BodiesOf(tree, t, {"switch"}) = B
      /\ IsBodyOf(tree, c, {"switch"}) => BodiesOf(tree, t, {"switch"}) = B \cup {n + 1}
  BY BodiesOfAppended
<1>2. /\ n \in Nat /\ B \subseteq 1..n /\ t[n + 1] = c
      /\ \A i \in B : t[i] = s[i]
  BY AppendedAt, BodiesOfAppended
<1> HIDE DEF t, n, B
<1>3. ASSUME ~IsBodyOf(tree, c, {"switch"})
      PROVE  CasesMeant(tree, t, cases, L) <=> CasesMeant(tree, s, cases, L)
  <2>1. BodiesOf(tree, t, {"switch"}) = B
    BY <1>1, <1>3
  <2> QED BY <2>1, <1>2 DEF CasesMeant, B
<1>4. ASSUME IsBodyOf(tree, c, {"switch"})
      PROVE  CasesMeant(tree, t, cases, L) <=>
               CasesMeant(tree, s, c.saved, L) /\ cases = CasesOf(tree, L, c.at)
  <2>1. \A j \in B : j \in Nat /\ j < n + 1 /\ j <= n + 1 /\ ~(n + 1 <= j) /\ ~(n + 1 < j)
    BY <1>2
  <2> DEFINE A1 == \A j \in B \cup {n + 1} : (\A k \in B \cup {n + 1} : k <= j) =>
                      cases = CasesOf(tree, L, t[j].at)
             A2 == \A j, m \in B \cup {n + 1} :
                      j < m /\ (\A k \in B \cup {n + 1} : k < m => k <= j) =>
                        t[m].saved = CasesOf(tree, L, t[j].at)
             C1 == \A j \in B : (\A k \in B : k <= j) => c.saved = CasesOf(tree, L, s[j].at)
             C2 == \A j, m \in B : j < m /\ (\A k \in B : k < m => k <= j) =>
                        s[m].saved = CasesOf(tree, L, s[j].at)
  <2>2. CasesMeant(tree, t, cases, L) <=> A1 /\ A2
    BY <1>1, <1>4 DEF CasesMeant
  <2>3. CasesMeant(tree, s, c.saved, L) <=> C1 /\ C2
    BY DEF CasesMeant, B
  <2>4. A1 <=> cases = CasesOf(tree, L, c.at)
    <3>1. ASSUME NEW j \in B PROVE ~(\A k \in B \cup {n + 1} : k <= j)
      BY <2>1
    <3>2. \A k \in B \cup {n + 1} : k <= n + 1
      BY <1>2, <2>1
    <3>3. A1 <=> cases = CasesOf(tree, L, t[n + 1].at)
      BY <3>1, <3>2
    <3> QED BY <1>2, <3>3
  <2>5. A2 <=> C1 /\ C2
    <3>1. n + 1 <= n + 1 /\ ~(n + 1 < n + 1)
      BY <1>2
    <3>2. A2 <=> /\ \A j \in B : (\A k \in B \cup {n + 1} : k < n + 1 => k <= j) =>
                        t[n + 1].saved = CasesOf(tree, L, t[j].at)
                 /\ \A j, m \in B : j < m /\ (\A k \in B \cup {n + 1} : k < m => k <= j) =>
                        t[m].saved = CasesOf(tree, L, t[j].at)
      BY <2>1, <3>1
    <3> QED BY <1>2, <2>1, <3>1, <3>2
  <2> QED BY <2>2, <2>3, <2>4, <2>5
<1> QED BY <1>3, <1>4 DEF t

\* A call that is not for the body of a loop or switch adds nothing to the tables.
LEMMA PlainCallMeant ==
  ASSUME NEW tree, NEW s, IsSomeSequence(s), NEW c, ~IsBodyOf(tree, c, Targeted),
         NEW loops, NEW breaks, NEW cases, NEW L
  PROVE  TablesMeant(tree, Append(s, c), loops, breaks, cases, L) <=>
           TablesMeant(tree, s, loops, breaks, cases, L) /\ HasLabelsOf(tree, c, L)
<1>1. ~IsBodyOf(tree, c, Loops) /\ ~IsBodyOf(tree, c, {"switch"})
  BY DEF IsBodyOf, IsAt, Targeted
<1>2. Lists(tree, Append(s, c), Targeted, breaks, Exits(tree, L)) <=>
        Lists(tree, s, Targeted, breaks, Exits(tree, L))
  BY ListsAppended
<1>3. Lists(tree, Append(s, c), Loops, ContinuesIn(loops), Continues(tree, L)) <=>
        Lists(tree, s, Loops, ContinuesIn(loops), Continues(tree, L))
  BY <1>1, ListsAppended
<1>4. CasesMeant(tree, Append(s, c), cases, L) <=> CasesMeant(tree, s, cases, L)
  BY <1>1, CasesMeantAppended
<1>5. Labelled(tree, Append(s, c), L) <=> Labelled(tree, s, L) /\ HasLabelsOf(tree, c, L)
  BY LabelledAppended
<1> QED BY <1>2, <1>3, <1>4, <1>5 DEF TablesMeant

LEMMA LoopBodyMeant ==
  ASSUME NEW tree, NEW s, IsSomeSequence(s), NEW c, IsBodyOf(tree, c, Loops),
         c.at \in DOMAIN tree,
         NEW loops, NEW breaks, NEW fewer, NEW less, NEW cases, NEW L,
         OneMore(loops, fewer, Cardinality(BodiesOf(tree, s, Loops))),
         OneMore(breaks, less, Cardinality(BodiesOf(tree, s, Targeted)))
  PROVE  TablesMeant(tree, Append(s, c), loops, breaks, cases, L) <=>
           /\ TablesMeant(tree, s, fewer, less, cases, L) /\ HasLabelsOf(tree, c, L)
           /\ breaks[Len(breaks)] = ExitLabel(tree, L, c.at)
           /\ loops[Len(loops)].continue = ContinueLabel(tree, L, c.at)
<1>1. IsBodyOf(tree, c, Targeted) /\ ~IsBodyOf(tree, c, {"switch"})
  BY DEF IsBodyOf, IsAt, Targeted, Loops
<1>2. Lists(tree, Append(s, c), Targeted, breaks, Exits(tree, L)) <=>
        /\ Lists(tree, s, Targeted, less, Exits(tree, L))
        /\ breaks[Len(breaks)] = ExitLabel(tree, L, c.at)
  BY <1>1, BreakPushed
<1>3. Lists(tree, Append(s, c), Loops, ContinuesIn(loops), Continues(tree, L)) <=>
        /\ Lists(tree, s, Loops, ContinuesIn(fewer), Continues(tree, L))
        /\ loops[Len(loops)].continue = ContinueLabel(tree, L, c.at)
  BY ContinuePushed
<1>4. CasesMeant(tree, Append(s, c), cases, L) <=> CasesMeant(tree, s, cases, L)
  BY <1>1, CasesMeantAppended
<1>5. Labelled(tree, Append(s, c), L) <=> Labelled(tree, s, L) /\ HasLabelsOf(tree, c, L)
  BY LabelledAppended
<1> QED BY <1>2, <1>3, <1>4, <1>5 DEF TablesMeant

LEMMA SwitchBodyMeant ==
  ASSUME NEW tree, NEW s, IsSomeSequence(s), NEW c, IsBodyOf(tree, c, {"switch"}),
         c.at \in DOMAIN tree,
         NEW loops, NEW breaks, NEW less, NEW cases, NEW L,
         OneMore(breaks, less, Cardinality(BodiesOf(tree, s, Targeted)))
  PROVE  TablesMeant(tree, Append(s, c), loops, breaks, cases, L) <=>
           /\ TablesMeant(tree, s, loops, less, c.saved, L) /\ HasLabelsOf(tree, c, L)
           /\ breaks[Len(breaks)] = ExitLabel(tree, L, c.at)
           /\ cases = CasesOf(tree, L, c.at)
<1>1. IsBodyOf(tree, c, Targeted) /\ ~IsBodyOf(tree, c, Loops)
  BY DEF IsBodyOf, IsAt, Targeted, Loops
<1>2. Lists(tree, Append(s, c), Targeted, breaks, Exits(tree, L)) <=>
        /\ Lists(tree, s, Targeted, less, Exits(tree, L))
        /\ breaks[Len(breaks)] = ExitLabel(tree, L, c.at)
  BY <1>1, BreakPushed
<1>3. Lists(tree, Append(s, c), Loops, ContinuesIn(loops), Continues(tree, L)) <=>
        Lists(tree, s, Loops, ContinuesIn(loops), Continues(tree, L))
  BY <1>1, ListsAppended
<1>4. CasesMeant(tree, Append(s, c), cases, L) <=>
        CasesMeant(tree, s, c.saved, L) /\ cases = CasesOf(tree, L, c.at)
  BY CasesMeantAppended
<1>5. Labelled(tree, Append(s, c), L) <=> Labelled(tree, s, L) /\ HasLabelsOf(tree, c, L)
  BY LabelledAppended
<1> QED BY <1>2, <1>3, <1>4, <1>5 DEF TablesMeant


-----------------------------------------------------------------------------
(***************************************************************************)
(* What a piece may define, and what a change of labels leaves alone.      *)
(***************************************************************************)
IsLabelOf(tree, l) ==
  IsLocal(l) \/ \E p \in DOMAIN tree : tree[p].kind = "label" /\ l = User(tree[p].arg)
HasItsLabels(tree, t) ==
  /\ IsSomeSequence(t)
  /\ \A i \in DOMAIN t : t[i].op = "label" => IsLabelOf(tree, t[i].label)

LEMMA LabelsJoined ==
  ASSUME NEW tree, NEW a, HasItsLabels(tree, a), NEW b, HasItsLabels(tree, b)
  PROVE  HasItsLabels(tree, a \o b)
<1>1. /\ IsSomeSequence(a \o b) /\ Len(a) \in Nat /\ Len(b) \in Nat
      /\ DOMAIN (a \o b) = 1 .. Len(a) + Len(b)
      /\ DOMAIN a = 1..Len(a) /\ DOMAIN b = 1..Len(b)
      /\ \A i \in 1..Len(a) : (a \o b)[i] = a[i]
      /\ \A i \in 1..Len(b) : (a \o b)[Len(a) + i] = b[i]
  BY JoinedAt DEF HasItsLabels
<1>2. ASSUME NEW i \in 1 .. Len(a) + Len(b), (a \o b)[i].op = "label"
      PROVE  IsLabelOf(tree, (a \o b)[i].label)
  <2>1. CASE i <= Len(a)
    <3>1. i \in DOMAIN a /\ (a \o b)[i] = a[i]
      BY <1>1, <2>1
    <3> QED BY <1>2, <3>1 DEF HasItsLabels
  <2>2. CASE ~(i <= Len(a))
    <3>1. PICK k \in 1..Len(b) : i = Len(a) + k
      <4>1. i - Len(a) \in 1..Len(b) /\ i = Len(a) + (i - Len(a))
        BY <1>1, <2>2
      <4> QED BY <4>1
    <3>2. k \in DOMAIN b /\ (a \o b)[i] = b[k]
      BY <1>1, <3>1
    <3> QED BY <1>2, <3>2 DEF HasItsLabels
  <2> QED BY <2>1, <2>2
<1> QED BY <1>1, <1>2 DEF HasItsLabels

LEMMA TextHasItsLabels ==
  ASSUME NEW tree, NEW t, NEW L, NEW J, IsText(t, L, J), \A l \in L : IsLabelOf(tree, l)
  PROVE  HasItsLabels(tree, t)
<1>1. IsSomeSequence(t) /\ LabelsIn(t) = L
  BY DEF IsText
<1>2. \A i \in DOMAIN t : t[i].op = "label" => t[i].label \in LabelsIn(t)
  BY DEF LabelsIn
<1> QED BY <1>1, <1>2 DEF HasItsLabels

LEMMA InstructionsHaveTheirs ==
  ASSUME NEW tree
  PROVE  /\ HasItsLabels(tree, << >>) /\ HasItsLabels(tree, XorEax)
         /\ HasItsLabels(tree, Ret)
         /\ \A p, role : HasItsLabels(tree, Eval(p, role))
         /\ \A v : HasItsLabels(tree, CmpEax(v))
         /\ \A l : IsLabelOf(tree, l) => HasItsLabels(tree, Label(l))
         /\ \A l : \A op \in JumpOps : HasItsLabels(tree, Jump(op, l))
         /\ \A p, l : HasItsLabels(tree, TestAndSkip(p, l))
<1>1. \A l, p, role, v :
         /\ IsText(Label(l), {l}, {})
         /\ \A op \in JumpOps : IsText(Jump(op, l), {}, {l})
         /\ IsText(Eval(p, role), {}, {}) /\ IsText(CmpEax(v), {}, {})
         /\ IsText(XorEax, {}, {}) /\ IsText(Ret, {}, {}) /\ IsText(<< >>, {}, {})
  BY Instructions, Zenon
<1>2. \A p, l : IsText(TestAndSkip(p, l), {}, {l})
  BY TestText
<1>3. ASSUME NEW t, NEW J, IsText(t, {}, J) PROVE HasItsLabels(tree, t)
  BY <1>3, TextHasItsLabels
<1>4. ASSUME NEW l, IsLabelOf(tree, l) PROVE HasItsLabels(tree, Label(l))
  <2>1. IsText(Label(l), {l}, {}) /\ \A k \in {l} : IsLabelOf(tree, k)
    BY <1>1, <1>4
  <2> QED BY <2>1, TextHasItsLabels
<1>5. HasItsLabels(tree, << >>) /\ HasItsLabels(tree, XorEax) /\ HasItsLabels(tree, Ret)
  BY <1>1, <1>3
<1>6. ASSUME NEW p, NEW role PROVE HasItsLabels(tree, Eval(p, role))
  BY <1>1, <1>3
<1>7. ASSUME NEW v PROVE HasItsLabels(tree, CmpEax(v))
  BY <1>1, <1>3
<1>8. ASSUME NEW l, NEW op \in JumpOps PROVE HasItsLabels(tree, Jump(op, l))
  BY <1>1, <1>3
<1>9. ASSUME NEW p, NEW l PROVE HasItsLabels(tree, TestAndSkip(p, l))
  BY <1>2, <1>3
<1> QED BY <1>4, <1>5, <1>6, <1>7, <1>8, <1>9

\* The cases of a switch, with the labels they have in a layout.
LEMMA CasesOfAreCases ==
  ASSUME NEW tree, WellFormed(tree), NEW L, NEW s
  PROVE  /\ AreCases(CasesOf(tree, L, s))
         /\ \A c \in CasesOf(tree, L, s) :
              /\ c.statement \in CasesIn(tree, s) /\ c.label = L.labels[c.statement][1]
              /\ c.is_default = (tree[c.statement].kind = "default")
         /\ \A p \in CasesIn(tree, s) : \E c \in CasesOf(tree, L, s) : c.statement = p
<1> DEFINE made(p) == [statement |-> p, label |-> L.labels[p][1],
                       is_default |-> tree[p].kind = "default"]
           S == CasesIn(tree, s)
<1>1. IsFiniteSet(S) /\ S \subseteq Seq(Nat)
  <2>1. S \subseteq DOMAIN tree
    BY DEF CasesIn
  <2>2. IsFiniteSet(DOMAIN tree) /\ DOMAIN tree \subseteq Seq(Nat)
    BY DEF WellFormed
  <2> QED BY <2>1, <2>2, FS_Subset
<1>2. CasesOf(tree, L, s) = {made(p) : p \in S}
  BY DEF CasesOf
<1>3. \A p : /\ made(p).statement = p /\ made(p).label = L.labels[p][1]
             /\ made(p).is_default = (tree[p].kind = "default")
  OBVIOUS
<1> HIDE DEF made, S
<1>4. IsFiniteSet({made(p) : p \in S})
  <2> DEFINE T == {made(p) : p \in S}
             f == [p \in S |-> made(p)]
  <2>1. f \in Surjection(S, T)
    BY DEF Surjection
  <2> HIDE DEF f, T
  <2>2. IsFiniteSet(T)
    BY <1>1, <2>1, FS_Surjection
  <2> QED BY <2>2 DEF T
<1>5. AreCases(CasesOf(tree, L, s))
  BY <1>1, <1>2, <1>3, <1>4 DEF AreCases
<1> QED BY <1>2, <1>3, <1>5 DEF S

LEMMA PieceHasItsLabels ==
  ASSUME WellFormed(program), NEW L, LocalLabels(program, L),
         NEW p \in DOMAIN program, NEW n
  PROVE  HasItsLabels(program, Piece(program, L, p, n))
<1> DEFINE l == L.labels[p]
           kind == program[p].kind
<1>1. /\ HasItsLabels(program, << >>) /\ HasItsLabels(program, XorEax)
      /\ \A q, role : HasItsLabels(program, Eval(q, role))
      /\ \A v : HasItsLabels(program, CmpEax(v))
      /\ \A m : IsLabelOf(program, m) => HasItsLabels(program, Label(m))
      /\ \A m : HasItsLabels(program, Jump("jmp", m)) /\ HasItsLabels(program, Jump("jne", m))
      /\ \A q, m : HasItsLabels(program, TestAndSkip(q, m))
  BY InstructionsHaveTheirs DEF JumpOps
<1>2. \A i \in 1..3 : IsLabelOf(program, l[i])
  BY DEF LocalLabels, IsLabelOf
<1>3. /\ HasItsLabels(program, Label(l[1])) /\ HasItsLabels(program, Label(l[2]))
      /\ HasItsLabels(program, Label(l[3]))
  BY <1>1, <1>2
<1>4. \A a, b : HasItsLabels(program, a) /\ HasItsLabels(program, b) =>
        HasItsLabels(program, a \o b)
  BY LabelsJoined
<1>5. HasItsLabels(program, ForFront(program, L, p))
  BY <1>1, <1>3, <1>4 DEF ForFront
<1>6. HasItsLabels(program, FrontText(program, L, p))
  <2>1. CASE kind = "label"
    <3>1. IsLabelOf(program, User(program[p].arg))
      BY <2>1 DEF IsLabelOf
    <3>2. FrontText(program, L, p) = Label(User(program[p].arg))
      BY <2>1 DEF FrontText
    <3> QED BY <1>1, <3>1, <3>2
  <2>2. CASE kind = "switch"
    <3> DEFINE cases == CasesOf(program, L, p)
    <3>1. AreCases(cases)
      BY CasesOfAreCases
    <3>2. DispatchOf(program, cases, l[1]) = Dispatch(cases, l[1])
      BY DEF DispatchOf, Dispatch
    <3>3. HasItsLabels(program, Dispatch(cases, l[1]))
      BY <3>1, DispatchText, TextHasItsLabels
    <3>4. FrontText(program, L, p) = Eval(p, "test") \o Dispatch(cases, l[1])
      BY <2>2, <3>2 DEF FrontText
    <3> QED BY <1>1, <1>4, <3>3, <3>4
  <2>3. CASE kind \notin {"label", "switch"}
    <3>1. FrontText(program, L, p) \in
            {<< >>, Label(l[1]), TestAndSkip(p, l[1]), Label(l[1]) \o TestAndSkip(p, l[2]),
             ForFront(program, L, p)}
      BY <2>3 DEF FrontText
    <3> QED BY <1>1, <1>3, <1>4, <1>5, <3>1
  <2> QED BY <2>1, <2>2, <2>3
<1>7. HasItsLabels(program, BetweenText(program, L, p))
  <2>1. BetweenText(program, L, p) \in
          {<< >>, Jump("jmp", l[2]) \o Label(l[1]), ForFront(program, L, p)}
    BY DEF BetweenText
  <2> QED BY <1>1, <1>3, <1>4, <1>5, <2>1
<1>8. HasItsLabels(program, EndText(program, L, p))
  <2>1. CASE kind = "if"
    <3>1. program[p].kids \in 1..2
      BY <2>1 DEF WellFormed
    <3>2. EndText(program, L, p) = Label(l[program[p].kids])
      BY <2>1 DEF EndText
    <3> QED BY <1>3, <3>1, <3>2
  <2>2. CASE kind = "return"
    <3> DEFINE value == IF Has(program, p, "value") THEN Eval(p, "value") ELSE XorEax
    <3>1. EndText(program, L, p) = value \o Jump("jmp", ReturnLabel)
      BY <2>2 DEF EndText
    <3>2. HasItsLabels(program, value)
      BY <1>1
    <3> QED BY <1>1, <1>4, <3>1, <3>2
  <2>3. CASE kind = "do"
    <3> DEFINE a == Label(l[2]) \o Eval(p, "test")
               b == a \o CmpEax(0)
               c == b \o Jump("jne", l[1])
    <3>1. EndText(program, L, p) = c \o Label(l[3])
      BY <2>3 DEF EndText
    <3>2. HasItsLabels(program, a)
      BY <1>1, <1>3, <1>4
    <3> HIDE DEF a
    <3>3. HasItsLabels(program, b)
      BY <1>1, <1>4, <3>2
    <3> HIDE DEF b
    <3>4. HasItsLabels(program, c)
      BY <1>1, <1>4, <3>3
    <3> HIDE DEF c
    <3> QED BY <1>3, <1>4, <3>1, <3>4
  <2>4. CASE kind = "for"
    <3> DEFINE u == IF Has(program, p, "update") THEN Eval(p, "update") ELSE << >>
               a == Label(l[2]) \o u
               b == a \o Jump("jmp", l[1])
    <3>1. EndText(program, L, p) = b \o Label(l[3])
      BY <2>4 DEF EndText
    <3>2. HasItsLabels(program, u)
      BY <1>1
    <3> HIDE DEF u
    <3>3. HasItsLabels(program, a)
      BY <1>3, <1>4, <3>2
    <3> HIDE DEF a
    <3>4. HasItsLabels(program, b)
      BY <1>1, <1>4, <3>3
    <3> HIDE DEF b
    <3> QED BY <1>3, <1>4, <3>1, <3>4
  <2>5. CASE kind \notin {"if", "return", "do", "for"}
    <3>1. \/ EndText(program, L, p) \in
               {<< >>, Eval(p, "value"), Jump("jmp", l[1]) \o Label(l[2]), Label(l[1])}
          \/ \E m : EndText(program, L, p) = Jump("jmp", m)
      BY <2>5, Zenon DEF EndText
    <3> QED BY <1>1, <1>3, <1>4, <3>1
  <2> QED BY <2>1, <2>2, <2>3, <2>4, <2>5
<1> QED BY <1>6, <1>7, <1>8 DEF Piece

-----------------------------------------------------------------------------
LEMMA TablesByLabels ==
  ASSUME NEW tree, NEW L, NEW M, M.labels = L.labels, NEW s, NEW loops, NEW breaks, NEW cases
  PROVE  /\ LocalLabels(tree, L) => LocalLabels(tree, M)
         /\ TablesMeant(tree, s, loops, breaks, cases, L) =>
              TablesMeant(tree, s, loops, breaks, cases, M)
<1>1. Exits(tree, M) = Exits(tree, L) /\ Continues(tree, M) = Continues(tree, L)
  BY DEF Exits, Continues, ExitLabel, ContinueLabel
<1>2. \A a : CasesOf(tree, M, a) = CasesOf(tree, L, a)
  BY DEF CasesOf
<1>3. Labelled(tree, s, L) => Labelled(tree, s, M)
  BY DEF Labelled, HasLabelsOf
<1>4. CasesMeant(tree, s, cases, L) => CasesMeant(tree, s, cases, M)
  BY <1>2 DEF CasesMeant
<1> QED BY <1>1, <1>3, <1>4 DEF TablesMeant, LocalLabels

\* The tables are about the statements around the running one, whose labels and
\* whose cases stay as they are when that is begun.
LEMMA RelabelledMeant ==
  ASSUME NEW tree, WellFormed(tree), NEW s, IsSomeSequence(s), NEW c,
         InOrder(tree, Append(s, c)), tree[c.at].kind \in Targeted \cup {"if"},
         NEW L, NEW M, SameBut(tree, L, M, Relabels(tree, c.at)),
         NEW loops, NEW breaks, NEW cases, TablesMeant(tree, s, loops, breaks, cases, L)
  PROVE  TablesMeant(tree, s, loops, breaks, cases, M)
<1> DEFINE a == c.at
<1>1. /\ a \in DOMAIN tree /\ a \in Seq(Nat)
      /\ \A j \in 1..Len(s) : /\ s[j].at \in DOMAIN tree /\ s[j].at \in Seq(Nat)
                              /\ Len(s[j].at) < Len(a)
  BY PlacesOfCalls
<1> HIDE DEF a
<1>2. ASSUME NEW q \in CasesIn(tree, a) PROVE q \in Seq(Nat) /\ Len(a) < Len(q)
  <2>1. q \in Seq(Nat) /\ IsStrictPrefix(a, q)
    BY DEF CasesIn, WellFormed
  <2>2. PICK n \in Nat : Under(a, n, q)
    BY <1>1, <2>1, PrefixByElements
  <2> QED BY <2>1, <2>2 DEF Under
<1>3. ASSUME NEW j \in 1..Len(s)
      PROVE  s[j].at \in DOMAIN tree /\ M.labels[s[j].at] = L.labels[s[j].at]
  <2>1. /\ s[j].at \in DOMAIN tree /\ Len(s[j].at) < Len(a)
        /\ Len(a) \in Nat /\ Len(s[j].at) \in Nat
    BY <1>1
  <2>2. s[j].at # a
    BY <2>1
  <2>3. ASSUME NEW q \in CasesIn(tree, a) PROVE s[j].at # q
    <3>1. Len(q) \in Nat
      BY <1>2
    <3> QED BY <1>2, <2>1, <3>1
  <2>4. s[j].at \notin Relabels(tree, a)
    BY <2>2, <2>3 DEF Relabels
  <2> QED BY <2>1, <2>4 DEF SameBut, a
<1>4. ASSUME NEW j \in 1..Len(s)
      PROVE  /\ Exits(tree, M)[s[j].at] = Exits(tree, L)[s[j].at]
             /\ Continues(tree, M)[s[j].at] = Continues(tree, L)[s[j].at]
  BY <1>3 DEF Exits, Continues, ExitLabel, ContinueLabel
<1>5. ASSUME NEW j \in 1..Len(s), tree[s[j].at].kind = "switch"
      PROVE  CasesOf(tree, M, s[j].at) = CasesOf(tree, L, s[j].at)
  <2>1. s[j].at \in DOMAIN tree /\ s[j].at # a
    BY <1>1, <1>3
  <2>2. ASSUME NEW p \in CasesIn(tree, s[j].at) PROVE M.labels[p] = L.labels[p]
    <3>1. p \in DOMAIN tree /\ tree[p].kind \in {"case", "default"}
      BY DEF CasesIn
    <3>2. p # a
      BY <3>1 DEF Targeted, Loops, a
    <3>3. ~(tree[a].kind = "switch" /\ p \in CasesIn(tree, a))
      BY <1>1, <1>5, <2>1, CasesOfOneSwitch
    <3>4. p \notin Relabels(tree, a)
      BY <3>2, <3>3 DEF Relabels
    <3> QED BY <3>1, <3>4 DEF SameBut, a
  <2> QED BY <2>2 DEF CasesOf
<1>6. Labelled(tree, s, M)
  BY <1>3 DEF TablesMeant, Labelled, HasLabelsOf
<1>7. \A kinds : BodiesOf(tree, s, kinds) \subseteq 1..Len(s)
  BY DEF BodiesOf, CallsAt
<1>8. Lists(tree, s, Targeted, breaks, Exits(tree, M))
  BY <1>4, <1>7 DEF TablesMeant, Lists
<1>9. Lists(tree, s, Loops, ContinuesIn(loops), Continues(tree, M))
  BY <1>4, <1>7 DEF TablesMeant, Lists
<1>10. \A j \in BodiesOf(tree, s, {"switch"}) :
         j \in 1..Len(s) /\ tree[s[j].at].kind = "switch"
  BY DEF BodiesOf, CallsAt, IsAt
<1>11. CasesMeant(tree, s, cases, M)
  BY <1>5, <1>10 DEF TablesMeant, CasesMeant
<1> QED BY <1>6, <1>8, <1>9, <1>11 DEF TablesMeant


-----------------------------------------------------------------------------
(***************************************************************************)
(* While the body is emitted, what is written is laid out.                 *)
(***************************************************************************)
Fits(tree, s, text, loops, breaks, cases, L) ==
  /\ LaidOut(tree, s, text, L) /\ LocalLabels(tree, L)
  /\ TablesMeant(tree, s, loops, breaks, cases, L)
FitsNow(L) ==
  Fits(program, calls, code, loop_targets, break_targets, switch_cases, L)
FitsNext(L) ==
  Fits(program, calls', code', loop_targets', break_targets', switch_cases', L)
LayoutNext == HasItsLabels(program, code') /\ \E L : FitsNext(L)
Laying == Ordered /\ HasItsLabels(program, code)

LEMMA ReturnLaysOut ==
  ASSUME Laying, NEW L, LaidOut(program, calls, code, L), LocalLabels(program, L), Return,
         NEW t, code' = code \o t, t = Piece(program, L, Call.at, Node.kids),
         Begun(program, Call) = Node.kids, InOrderNext, WentPast(Call.at),
         TablesMeant(program, Front(calls), loop_targets', break_targets', switch_cases', L)
  PROVE  LayoutNext
<1> DEFINE s == Front(calls)
<1>1. /\ WellFormed(program) /\ IsSomeSequence(s) /\ calls = Append(s, Call) /\ calls' = s
      /\ InOrder(program, Append(s, Call)) /\ Call.at \in DOMAIN program
      /\ Node = program[Call.at]
  BY OrderedCall DEF Laying, Return
<1> HIDE DEF s
<1>2. InOrder(program, s) /\ Past(program, Append(s, Call), s, Call.at)
  BY <1>1 DEF InOrderNext, WentPast, Past
<1>3. HasItsLabels(program, t) /\ IsSomeSequence(t)
  BY <1>1, PieceHasItsLabels DEF HasItsLabels
<1>4. LaidOut(program, Append(s, Call), code, L)
  BY <1>1
<1>a. /\ Begun(program, Call) = program[Call.at].kids
      /\ t = Piece(program, L, Call.at, program[Call.at].kids)
  BY <1>1
<1>5. PICK M : LaidOut(program, s, code \o t, M) /\ M.labels = L.labels
  <2> DEFINE c == Call
  <2>1. /\ WellFormed(program) /\ IsSomeSequence(s) /\ InOrder(program, Append(s, c))
        /\ InOrder(program, s) /\ Begun(program, c) = program[c.at].kids
        /\ Past(program, Append(s, c), s, c.at)
        /\ LaidOut(program, Append(s, c), code, L) /\ IsSomeSequence(t)
        /\ t = Piece(program, L, c.at, program[c.at].kids)
    BY <1>a, <1>1, <1>2, <1>3, <1>4
  <2> HIDE DEF c
  <2> QED BY <2>1, CompletedIsLaidOut
<1>6. LocalLabels(program, M) /\
      TablesMeant(program, s, loop_targets', break_targets', switch_cases', M)
  BY <1>5, TablesByLabels DEF s
<1>7. HasItsLabels(program, code')
  BY <1>3, LabelsJoined DEF Laying
<1>8. FitsNext(M)
  BY <1>1, <1>5, <1>6 DEF FitsNext, Fits
<1> QED BY <1>7, <1>8 DEF LayoutNext

LEMMA BeginLaysOut ==
  ASSUME Laying, NEW L, LaidOut(program, calls, code, L), LocalLabels(program, L),
         Begun(program, Call) \in 0 .. Node.kids - 1,
         NEW q, q = Kid(Call.at, Begun(program, Call) + 1),
         \/ calls' = Append(Front(calls), Entry(q))
         \/ \E e : e.at = Call.at /\ calls' = Append(Append(Front(calls), e), Entry(q)),
         WentPast(Call.at),
         NEW t, code' = code \o t, t = Piece(program, L, Call.at, Begun(program, Call)),
         TablesMeant(program, calls', loop_targets', break_targets', switch_cases', L)
  PROVE  LayoutNext
<1> DEFINE s == Front(calls)
<1>1. /\ WellFormed(program) /\ IsSomeSequence(s) /\ calls = Append(s, Call)
      /\ InOrder(program, Append(s, Call)) /\ Call.at \in DOMAIN program
      /\ Node = program[Call.at]
  BY OrderedCall DEF Laying
<1>2. Begins(program, s, Call, calls', q)
  <2>1. Past(program, Append(s, Call), calls', Call.at)
    BY <1>1 DEF WentPast, Past
  <2> QED BY <2>1 DEF Begins
<1> HIDE DEF s
<1>3. HasItsLabels(program, t) /\ IsSomeSequence(t)
  BY <1>1, PieceHasItsLabels DEF HasItsLabels
<1>4. LaidOut(program, Append(s, Call), code, L)
  BY <1>1
<1>5. PICK M : LaidOut(program, calls', code \o t, M) /\ M.labels = L.labels
  BY <1>1, <1>2, <1>3, <1>4, BegunIsLaidOut
<1>6. /\ LocalLabels(program, M)
      /\ TablesMeant(program, calls', loop_targets', break_targets', switch_cases', M)
  BY <1>5, TablesByLabels
<1>7. HasItsLabels(program, code')
  BY <1>3, LabelsJoined DEF Laying
<1>8. FitsNext(M)
  BY <1>5, <1>6 DEF FitsNext, Fits
<1> QED BY <1>7, <1>8 DEF LayoutNext

LEMMA StayLaysOut ==
  ASSUME Laying, NEW L, LaidOut(program, calls, code, L), LocalLabels(program, L),
         NEW e, e.at = Call.at, Begun(program, e) = Begun(program, Call),
         calls' = Append(Front(calls), e), WentPast(Call.at), code' = code,
         TablesMeant(program, calls', loop_targets', break_targets', switch_cases', L)
  PROVE  LayoutNext
<1> DEFINE s == Front(calls)
<1>1. /\ WellFormed(program) /\ IsSomeSequence(s) /\ calls = Append(s, Call)
      /\ InOrder(program, Append(s, Call))
  BY OrderedCall DEF Laying
<1>2. Past(program, Append(s, Call), Append(s, e), Call.at)
  BY <1>1 DEF WentPast, Past
<1>3. LaidOut(program, Append(s, Call), code, L)
  BY <1>1
<1> HIDE DEF s
<1>4. LaidOut(program, Append(s, e), code, L)
  BY <1>1, <1>2, <1>3, StillLaidOut
<1>5. FitsNext(L)
  BY <1>4 DEF FitsNext, Fits, s
<1> QED BY <1>5 DEF LayoutNext, Laying

-----------------------------------------------------------------------------
(***************************************************************************)
(* The tables as calls begin and end.                                      *)
(***************************************************************************)
LEMMA PlainTables ==
  ASSUME NEW tree, NEW s, IsSomeSequence(s), NEW c, ~IsBodyOf(tree, c, Targeted),
         NEW q, NEW loops, NEW breaks, NEW cases, NEW L, HasLabelsOf(tree, c, L),
         TablesMeant(tree, s, loops, breaks, cases, L)
  PROVE  /\ TablesMeant(tree, Append(s, c), loops, breaks, cases, L)
         /\ TablesMeant(tree, Append(s, Entry(q)), loops, breaks, cases, L)
         /\ TablesMeant(tree, Append(Append(s, c), Entry(q)), loops, breaks, cases, L)
<1> DEFINE e == Entry(q)
<1>1. e.step = "enter"
  BY DEF Entry
<1> HIDE DEF e
<1>2. ~IsBodyOf(tree, e, Targeted) /\ HasLabelsOf(tree, e, L)
  BY <1>1 DEF IsBodyOf, IsAt, HasLabelsOf
<1>3. IsSomeSequence(Append(s, c))
  BY AppendedAt
<1>4. TablesMeant(tree, Append(s, c), loops, breaks, cases, L)
  BY PlainCallMeant
<1>5. TablesMeant(tree, Append(s, e), loops, breaks, cases, L)
  BY <1>2, PlainCallMeant
<1>6. TablesMeant(tree, Append(Append(s, c), e), loops, breaks, cases, L)
  BY <1>2, <1>3, <1>4, PlainCallMeant
<1> QED BY <1>4, <1>5, <1>6 DEF e

LEMMA EntryTables ==
  ASSUME NEW tree, NEW s, IsSomeSequence(s), NEW q, NEW loops, NEW breaks, NEW cases, NEW L,
         TablesMeant(tree, s, loops, breaks, cases, L)
  PROVE  TablesMeant(tree, Append(s, Entry(q)), loops, breaks, cases, L)
<1> DEFINE e == Entry(q)
<1>1. e.step = "enter"
  BY DEF Entry
<1> HIDE DEF e
<1>2. ~IsBodyOf(tree, e, Targeted) /\ HasLabelsOf(tree, e, L)
  BY <1>1 DEF IsBodyOf, IsAt, HasLabelsOf
<1>3. TablesMeant(tree, Append(s, e), loops, breaks, cases, L)
  BY <1>2, PlainCallMeant
<1> QED BY <1>3 DEF e

LEMMA OneMoreAppended ==
  ASSUME NEW s, IsSomeSequence(s), NEW x
  PROVE  /\ OneMore(Append(s, x), s, Len(s))
         /\ Append(s, x)[Len(Append(s, x))] = x
<1>1. /\ Len(s) \in Nat /\ Len(Append(s, x)) = Len(s) + 1
      /\ \A i \in 1..Len(s) : Append(s, x)[i] = s[i]
      /\ Append(s, x)[Len(s) + 1] = x
      /\ IsSomeSequence(Append(s, x))
  BY AppendedAt
<1> QED BY <1>1 DEF OneMore

LEMMA OneMoreThanFront ==
  ASSUME NEW s, IsSomeSequence(s), NEW n \in Nat, Len(s) = n + 1
  PROVE  OneMore(s, Front(s), n)
<1>1. s # << >>
  BY DEF IsSomeSequence
<1>2. Len(Front(s)) = n /\ IsSomeSequence(Front(s))
  BY <1>1, FrontOfSequence
<1>3. \A i \in 1..Len(Front(s)) : Front(s)[i] = s[i]
  BY <1>1, FrontAt
<1> QED BY <1>2, <1>3 DEF OneMore

TableNow(L) ==
  TablesMeant(program, calls, loop_targets, break_targets, switch_cases, L)
TableBelow(L) ==
  TablesMeant(program, Front(calls), loop_targets, break_targets, switch_cases, L)

\* The running call's own labels, and the tables without it.
LEMMA TablesWithoutCall ==
  ASSUME Ordered, NEW L, TableNow(L)
  PROVE  /\ HasLabelsOf(program, Call, L)
         /\ ~IsBodyOf(program, Call, Targeted) => TableBelow(L)
         /\ IsBodyOf(program, Call, Loops) =>
              TablesMeant(program, Front(calls), Front(loop_targets), Front(break_targets),
                          switch_cases, L)
         /\ IsBodyOf(program, Call, {"switch"}) =>
              TablesMeant(program, Front(calls), loop_targets, Front(break_targets),
                          Call.saved, L)
<1> DEFINE s == Front(calls)
           n == Cardinality(BodiesOf(program, s, Loops))
           m == Cardinality(BodiesOf(program, s, Targeted))
<1>1. /\ IsSomeSequence(s) /\ calls = Append(s, Call) /\ Call.at \in DOMAIN program
  BY OrderedCall
<1>2. /\ IsSomeSequence(loop_targets) /\ IsSomeSequence(break_targets)
      /\ TargetsFit(program, calls, Len(loop_targets), Len(break_targets), switch_cases)
  BY RunningCall DEF Ordered, InProgress, NestInv, TargetsInv, TablesFit
<1>3. TablesMeant(program, Append(s, Call), loop_targets, break_targets, switch_cases, L)
  BY <1>1 DEF TableNow
<1> HIDE DEF s
<1>4. /\ n \in Nat /\ m \in Nat
      /\ Len(loop_targets) = IF IsBodyOf(program, Call, Loops) THEN n + 1 ELSE n
      /\ Len(break_targets) = IF IsBodyOf(program, Call, Targeted) THEN m + 1 ELSE m
  BY <1>1, <1>2, BodiesCounted DEF TargetsFit
<1>5. CASE ~IsBodyOf(program, Call, Targeted)
  <2>1. ~IsBodyOf(program, Call, Loops) /\ ~IsBodyOf(program, Call, {"switch"})
    BY <1>5 DEF IsBodyOf, IsAt, Targeted
  <2> QED BY <1>1, <1>3, <1>5, <2>1, PlainCallMeant DEF TableBelow, s
<1>6. CASE IsBodyOf(program, Call, Loops)
  <2>1. IsBodyOf(program, Call, Targeted) /\ ~IsBodyOf(program, Call, {"switch"})
    BY <1>6 DEF IsBodyOf, IsAt, Targeted, Loops
  <2>2. OneMore(loop_targets, Front(loop_targets), n)
    BY <1>2, <1>4, <1>6, OneMoreThanFront
  <2>3. OneMore(break_targets, Front(break_targets), m)
    BY <1>2, <1>4, <2>1, OneMoreThanFront
  <2>4. /\ TablesMeant(program, s, Front(loop_targets), Front(break_targets), switch_cases, L)
        /\ HasLabelsOf(program, Call, L)
    BY <1>1, <1>3, <1>6, <2>2, <2>3, LoopBodyMeant
  <2> QED BY <1>6, <2>1, <2>4 DEF s
<1>7. CASE IsBodyOf(program, Call, {"switch"})
  <2>1. IsBodyOf(program, Call, Targeted) /\ ~IsBodyOf(program, Call, Loops)
    BY <1>7 DEF IsBodyOf, IsAt, Targeted, Loops
  <2>2. OneMore(break_targets, Front(break_targets), m)
    BY <1>2, <1>4, <2>1, OneMoreThanFront
  <2>3. /\ TablesMeant(program, s, loop_targets, Front(break_targets), Call.saved, L)
        /\ HasLabelsOf(program, Call, L)
    BY <1>1, <1>3, <1>7, <2>2, SwitchBodyMeant
  <2> QED BY <1>7, <2>1, <2>3 DEF s
<1>8. IsBodyOf(program, Call, Targeted) =>
        IsBodyOf(program, Call, Loops) \/ IsBodyOf(program, Call, {"switch"})
  BY DEF IsBodyOf, IsAt, Targeted
<1> QED BY <1>5, <1>6, <1>7, <1>8

\* The targets of a loop whose body begins.
LEMMA TablesWithLoop ==
  ASSUME Ordered, ~IsBodyOf(program, Call, Targeted), NEW L, TableBelow(L),
         NEW e, e.at = Call.at, IsBodyOf(program, e, Loops), HasLabelsOf(program, e, L),
         NEW b, NEW c, PushLoop(b, c), switch_cases' = switch_cases,
         b = ExitLabel(program, L, Call.at), c = ContinueLabel(program, L, Call.at), NEW q
  PROVE  TablesMeant(program, Append(Append(Front(calls), e), Entry(q)),
                     loop_targets', break_targets', switch_cases', L)
<1> DEFINE s == Front(calls)
<1>1. /\ IsSomeSequence(s) /\ Call.at \in DOMAIN program
  BY OrderedCall
<1>2. /\ IsSomeSequence(loop_targets) /\ IsSomeSequence(break_targets)
  BY DEF Ordered, InProgress, NestInv, TargetsInv
<1>3. TargetsFit(program, s, Len(loop_targets), Len(break_targets), switch_cases)
  BY FitWithoutCall DEF Ordered
<1>4. TablesMeant(program, s, loop_targets, break_targets, switch_cases, L)
  BY DEF TableBelow
<1> HIDE DEF s
<1>5. /\ Len(loop_targets) = Cardinality(BodiesOf(program, s, Loops))
      /\ Len(break_targets) = Cardinality(BodiesOf(program, s, Targeted))
  BY <1>3 DEF TargetsFit
<1> DEFINE x == [break |-> b, continue |-> c]
<1>6. x.continue = c
  OBVIOUS
<1>7. loop_targets' = Append(loop_targets, x) /\ break_targets' = Append(break_targets, b)
  BY DEF PushLoop
<1> HIDE DEF x
<1>8. /\ OneMore(loop_targets', loop_targets, Cardinality(BodiesOf(program, s, Loops)))
      /\ OneMore(break_targets', break_targets, Cardinality(BodiesOf(program, s, Targeted)))
      /\ loop_targets'[Len(loop_targets')] = x /\ break_targets'[Len(break_targets')] = b
  BY <1>2, <1>5, <1>7, OneMoreAppended
<1> DEFINE lo == loop_targets'
           br == break_targets'
<1> HIDE DEF lo, br
<1>9. /\ OneMore(lo, loop_targets, Cardinality(BodiesOf(program, s, Loops)))
      /\ OneMore(br, break_targets, Cardinality(BodiesOf(program, s, Targeted)))
      /\ lo[Len(lo)].continue = ContinueLabel(program, L, e.at)
      /\ br[Len(br)] = ExitLabel(program, L, e.at) /\ e.at \in DOMAIN program
  BY <1>1, <1>6, <1>8 DEF lo, br
<1>10. TablesMeant(program, Append(s, e), lo, br, switch_cases, L)
  BY <1>1, <1>4, <1>9, LoopBodyMeant
<1>11. IsSomeSequence(Append(s, e))
  BY <1>1, AppendedAt
<1>12. TablesMeant(program, Append(Append(s, e), Entry(q)), lo, br, switch_cases, L)
  BY <1>10, <1>11, EntryTables
<1> QED BY <1>12 DEF lo, br, s

LEMMA TablesWithSwitch ==
  ASSUME Ordered, ~IsBodyOf(program, Call, Targeted), NEW L, TableBelow(L),
         NEW e, e.at = Call.at, IsBodyOf(program, e, {"switch"}), HasLabelsOf(program, e, L),
         e.saved = switch_cases, loop_targets' = loop_targets,
         NEW b, break_targets' = Append(break_targets, b), b = ExitLabel(program, L, Call.at),
         switch_cases' = CasesOf(program, L, Call.at), NEW q
  PROVE  TablesMeant(program, Append(Append(Front(calls), e), Entry(q)),
                     loop_targets', break_targets', switch_cases', L)
<1> DEFINE s == Front(calls)
<1>1. /\ IsSomeSequence(s) /\ Call.at \in DOMAIN program
  BY OrderedCall
<1>2. IsSomeSequence(break_targets)
  BY DEF Ordered, InProgress, NestInv, TargetsInv
<1>3. TargetsFit(program, s, Len(loop_targets), Len(break_targets), switch_cases)
  BY FitWithoutCall DEF Ordered
<1>4. TablesMeant(program, s, loop_targets, break_targets, e.saved, L)
  BY DEF TableBelow
<1> HIDE DEF s
<1>5. Len(break_targets) = Cardinality(BodiesOf(program, s, Targeted))
  BY <1>3 DEF TargetsFit
<1>6. /\ OneMore(break_targets', break_targets, Cardinality(BodiesOf(program, s, Targeted)))
      /\ break_targets'[Len(break_targets')] = b
  BY <1>2, <1>5, OneMoreAppended
<1> DEFINE br == break_targets'
           ca == switch_cases'
<1> HIDE DEF br, ca
<1>7. /\ OneMore(br, break_targets, Cardinality(BodiesOf(program, s, Targeted)))
      /\ br[Len(br)] = ExitLabel(program, L, e.at) /\ e.at \in DOMAIN program
      /\ ca = CasesOf(program, L, e.at)
  BY <1>1, <1>6 DEF br, ca
<1>8. TablesMeant(program, Append(s, e), loop_targets, br, ca, L)
  BY <1>1, <1>4, <1>7, SwitchBodyMeant
<1>9. IsSomeSequence(Append(s, e))
  BY <1>1, AppendedAt
<1>10. TablesMeant(program, Append(Append(s, e), Entry(q)), loop_targets, br, ca, L)
  BY <1>8, <1>9, EntryTables
<1> QED BY <1>10 DEF br, ca, s

-----------------------------------------------------------------------------
(***************************************************************************)
(* What a statement finds in the tables.                                   *)
(***************************************************************************)
\* The innermost statement of some kinds around the running one is the last whose
\* body is being emitted.
LEMMA InnermostBody ==
  ASSUME Ordered, Node.kind # "expression", NEW kinds \in SUBSET Targeted,
         NEW q, Innermost(program, Call.at, kinds) = {q}
  PROVE  \E j \in BodiesOf(program, Front(calls), kinds) :
           /\ Front(calls)[j].at = q
           /\ \A k \in BodiesOf(program, Front(calls), kinds) : k <= j
<1> DEFINE s == Front(calls)
<1>1. /\ WellFormed(program) /\ IsSomeSequence(s)
      /\ InOrder(program, Append(s, Call)) /\ Call.at \in DOMAIN program
      /\ Call.at \in Seq(Nat)
  BY OrderedCall
<1>2. /\ q \in Ancestors(Call.at) /\ program[q].kind \in kinds
      /\ \A b \in Ancestors(Call.at) : program[b].kind \in kinds => Len(b) <= Len(q)
  BY DEF Innermost
<1>3. PICK j \in BodiesOf(program, s, kinds) : s[j].at = q
  BY <1>2, BodyIsBeingEmitted DEF Ordered
<1> HIDE DEF s
<1>4. InOrder(program, s) /\ Len(s) \in Nat
  BY <1>1, ReturnedInOrder, AppendedAt
<1>5. ASSUME NEW k \in BodiesOf(program, s, kinds), ~(k <= j) PROVE FALSE
  <2>1. /\ k \in 1..Len(s) /\ program[s[k].at].kind \in kinds
        /\ j \in 1..Len(s) /\ j \in 1 .. k - 1
    BY <1>3, <1>4, <1>5 DEF BodiesOf, CallsAt, IsAt
  <2>2. /\ s[k].at \in DOMAIN program /\ s[k].at \in Seq(Nat)
        /\ Under(s[k].at, Begun(program, s[k]), Call.at)
        /\ Begun(program, s[k]) \in Nat
    <3>1. /\ Under(s[k].at, Begun(program, s[k]), Call.at)
          /\ Begun(program, s[k]) \in 1..program[s[k].at].kids
          /\ s[k].at \in DOMAIN program /\ s[k].at \in Seq(Nat)
      BY <1>1, <2>1, PlacesOfCalls
    <3> QED BY <3>1, KidIsThere, <1>1
  <2>3. s[k].at \in Ancestors(Call.at)
    BY <1>1, <2>2, AncestorByElements
  <2>4. Under(s[j].at, Begun(program, s[j]), s[k].at)
    BY <1>4, <2>1 DEF InOrder, Placed, Follows
  <2>5. Len(q) < Len(s[k].at)
    BY <1>3, <2>4 DEF Under
  <2>6. Len(s[k].at) <= Len(q)
    BY <1>2, <2>1, <2>3
  <2>7. Len(q) \in Nat /\ Len(s[k].at) \in Nat
    BY <1>1, <1>2, <2>2, AncestorIsPrefix
  <2> QED BY <2>5, <2>6, <2>7
<1> QED BY <1>3, <1>5 DEF s

LEMMA JumpTargetsMeant ==
  ASSUME Ordered, NEW L, TableNow(L)
  PROVE  /\ Node.kind = "break" =>
              Last(break_targets) =
                ExitLabel(program, L, C!The(Innermost(program, Call.at, Targeted)))
         /\ Node.kind = "continue" =>
              Last(loop_targets).continue =
                ContinueLabel(program, L, C!The(Innermost(program, Call.at, Loops)))
<1> DEFINE s == Front(calls)
<1>1. /\ WellFormed(program) /\ SemaAccepts(program) /\ IsSomeSequence(s)
      /\ Call.at \in DOMAIN program /\ Node = program[Call.at]
  BY OrderedCall DEF Ordered, InProgress, NestInv
<1>2. /\ IsSomeSequence(loop_targets) /\ IsSomeSequence(break_targets)
  BY DEF Ordered, InProgress, NestInv, TargetsInv
<1>3. ASSUME Node.kind \in {"break", "continue"}
      PROVE  /\ TargetsFit(program, s, Len(loop_targets), Len(break_targets), switch_cases)
             /\ TablesMeant(program, s, loop_targets, break_targets, switch_cases, L)
             /\ Node.kind # "expression"
  <2>1. ~IsBodyOf(program, Call, Targeted)
    BY <1>1, <1>3 DEF IsBodyOf, IsAt, Targeted, Loops
  <2>2. TableBelow(L)
    BY <2>1, TablesWithoutCall
  <2> QED BY <1>3, <2>1, <2>2, FitWithoutCall DEF Ordered, TableBelow
<1>4. CASE Node.kind = "break"
  <2>1. PICK q \in Ancestors(Call.at) :
          /\ q \in DOMAIN program /\ Innermost(program, Call.at, Targeted) = {q}
          /\ C!The(Innermost(program, Call.at, Targeted)) = q
    BY <1>1, <1>4, TargetOfJump
  <2>2. PICK j \in BodiesOf(program, s, Targeted) :
          s[j].at = q /\ \A k \in BodiesOf(program, s, Targeted) : k <= j
    BY <1>3, <1>4, <2>1, InnermostBody
  <2> HIDE DEF s
  <2>3. /\ Rank(program, s, Targeted, j) = Len(break_targets)
        /\ Rank(program, s, Targeted, j) \in 1..Len(break_targets)
    BY <1>1, <1>3, <1>4, <2>2, Ranks DEF TargetsFit
  <2>4. break_targets[Len(break_targets)] = Exits(program, L)[q]
    BY <1>3, <1>4, <2>2, <2>3 DEF TablesMeant, Lists
  <2>5. break_targets # << >>
    BY <2>3, <1>2 DEF IsSomeSequence
  <2>6. Last(break_targets) = ExitLabel(program, L, q)
    BY <1>2, <2>1, <2>4, <2>5, LastTarget DEF Exits
  <2> QED BY <1>4, <2>1, <2>6
<1>5. CASE Node.kind = "continue"
  <2>1. PICK q \in Ancestors(Call.at) :
          /\ q \in DOMAIN program /\ Innermost(program, Call.at, Loops) = {q}
          /\ C!The(Innermost(program, Call.at, Loops)) = q
    BY <1>1, <1>5, TargetOfJump
  <2>2. PICK j \in BodiesOf(program, s, Loops) :
          s[j].at = q /\ \A k \in BodiesOf(program, s, Loops) : k <= j
    <3>1. Loops \in SUBSET Targeted
      BY DEF Targeted
    <3> QED BY <1>3, <1>5, <2>1, <3>1, InnermostBody
  <2> HIDE DEF s
  <2>3. /\ Rank(program, s, Loops, j) = Len(loop_targets)
        /\ Rank(program, s, Loops, j) \in 1..Len(loop_targets)
    BY <1>1, <1>3, <1>5, <2>2, Ranks DEF TargetsFit
  <2>4. ContinuesIn(loop_targets)[Len(loop_targets)] = Continues(program, L)[q]
    BY <1>3, <1>5, <2>2, <2>3 DEF TablesMeant, Lists
  <2>5. loop_targets # << >> /\ Len(loop_targets) \in DOMAIN loop_targets
    BY <2>3, <1>2 DEF IsSomeSequence
  <2>6. loop_targets[Len(loop_targets)].continue = ContinueLabel(program, L, q)
    BY <2>1, <2>4, <2>5 DEF Continues, ContinuesIn
  <2>7. Last(loop_targets) = loop_targets[Len(loop_targets)]
    BY <1>2, <2>5, LastTarget
  <2> QED BY <1>5, <2>1, <2>6, <2>7
<1> QED BY <1>4, <1>5

LEMMA CaseLabelMeant ==
  ASSUME Ordered, NEW L, TableNow(L), Node.kind \in {"case", "default"},
         NEW c \in switch_cases, c.statement = Call.at
  PROVE  c.label = L.labels[Call.at][1]
<1> DEFINE s == Front(calls)
           B == BodiesOf(program, s, {"switch"})
<1>1. /\ WellFormed(program) /\ SemaAccepts(program) /\ IsSomeSequence(s)
      /\ Call.at \in DOMAIN program /\ Node = program[Call.at]
  BY OrderedCall DEF Ordered, InProgress, NestInv
<1>2. ~IsBodyOf(program, Call, Targeted) /\ Node.kind # "expression"
  BY <1>1 DEF IsBodyOf, IsAt, Targeted, Loops
<1>3. TablesMeant(program, s, loop_targets, break_targets, switch_cases, L)
  BY <1>2, TablesWithoutCall DEF TableBelow
<1>4. B # {}
  <2>1. SwitchDepth(program, Call.at) # {}
    BY <1>1 DEF SemaAccepts, CheckStatement
  <2>2. PICK a \in Ancestors(Call.at) : program[a].kind \in {"switch"}
    BY <2>1 DEF SwitchDepth
  <2>3. {"switch"} \in SUBSET Targeted
    BY DEF Targeted
  <2> QED BY <1>2, <2>2, <2>3, BodyIsBeingEmitted DEF Ordered
<1>5. B \subseteq 1..Len(s) /\ Len(s) \in Nat
  BY <1>1, AppendedAt DEF BodiesOf, CallsAt
<1> HIDE DEF s, B
<1>6. PICK j \in B : \A k \in B : k <= j
  BY <1>4, <1>5, LastIndex
<1>7. switch_cases = CasesOf(program, L, s[j].at)
  BY <1>3, <1>6 DEF TablesMeant, CasesMeant, B
<1> QED BY <1>1, <1>7, CasesOfAreCases


-----------------------------------------------------------------------------
(***************************************************************************)
(* The actions of the generator keep the layout.                           *)
(***************************************************************************)
LEMMA NothingWritten ==
  ASSUME NEW s, IsSomeSequence(s)
  PROVE  s \o << >> = s
<1>1. PICK S : s \in Seq(S)
  BY DEF IsSomeSequence
<1>2. /\ << >> \in Seq(S) /\ s \o << >> \in Seq(S) /\ Len(s \o << >>) = Len(s)
      /\ \A i \in 1..Len(s) : (s \o << >>)[i] = s[i]
  BY <1>1
<1> QED BY <1>1, <1>2, SeqEqual, Zenon

\* A statement without others inside of it.
LEMMA LeavesLayOut ==
  ASSUME Laying, NEW L, FitsNow(L), outcome' = "emitting",
         EmitExpression \/ EmitReturn \/ EmitBreak \/ EmitContinue \/ EmitGoto
  PROVE  LayoutNext
<1>1. /\ Ordered /\ LaidOut(program, calls, code, L) /\ LocalLabels(program, L) /\ TableNow(L)
  BY DEF Laying, FitsNow, Fits, TableNow
<1>2. /\ InOrderNext /\ WentPast(Call.at)
  BY <1>1, LeavesInOrder
<1>3. /\ Node.kind \in LeafKinds /\ Call.step = "enter"
      /\ ~IsBodyOf(program, Call, Targeted)
  BY DEF EmitExpression, EmitReturn, EmitBreak, EmitContinue, EmitGoto, At, LeafKinds,
         IsBodyOf, IsAt
<1>4. TableBelow(L)
  BY <1>1, <1>3, TablesWithoutCall
<1>5. Node.kids = 0 /\ Begun(program, Call) = 0
  BY <1>1, <1>3, KidsByKind, BegunBySteps
<1>6. /\ Return /\ UNCHANGED targets
      /\ code' = code \o EndText(program, L, Call.at)
  <2> DEFINE p == Call.at
  <2>0. /\ Node = program[p] /\ Node.kind = program[p].kind /\ Node.arg = program[p].arg
        /\ Call.at = p
    BY DEF Node
  <2> HIDE DEF p
  <2>1. CASE EmitExpression
    <3>1. EndText(program, L, p) =
            IF Has(program, p, "value") THEN Eval(p, "value") ELSE << >>
      BY <2>0, <2>1 DEF EmitExpression, At, EndText
    <3> QED BY <2>0, <2>1, <3>1 DEF EmitExpression, Write
  <2>2. CASE EmitReturn
    <3>1. EndText(program, L, p) =
            (IF Has(program, p, "value") THEN Eval(p, "value") ELSE XorEax)
              \o Jump("jmp", ReturnLabel)
      BY <2>0, <2>2 DEF EmitReturn, At, EndText
    <3> QED BY <2>0, <2>2, <3>1 DEF EmitReturn, Write
  <2>3. CASE EmitBreak
    <3>1. break_targets # << >> /\ Node.kind = "break"
      BY <2>3 DEF EmitBreak, Fail, At
    <3>2. EndText(program, L, p) =
            Jump("jmp", ExitLabel(program, L, C!The(Innermost(program, p, Targeted))))
      BY <2>0, <3>1 DEF EndText
    <3>3. Last(break_targets) = ExitLabel(program, L, C!The(Innermost(program, p, Targeted)))
      BY <1>1, <2>0, <3>1, JumpTargetsMeant
    <3> QED BY <2>0, <2>3, <3>1, <3>2, <3>3 DEF EmitBreak, Write, targets
  <2>4. CASE EmitContinue
    <3>1. loop_targets # << >> /\ Node.kind = "continue"
      BY <2>4 DEF EmitContinue, Fail, At
    <3>2. EndText(program, L, p) =
            Jump("jmp", ContinueLabel(program, L, C!The(Innermost(program, p, Loops))))
      BY <2>0, <3>1 DEF EndText
    <3>3. Last(loop_targets).continue =
            ContinueLabel(program, L, C!The(Innermost(program, p, Loops)))
      BY <1>1, <2>0, <3>1, JumpTargetsMeant
    <3> QED BY <2>0, <2>4, <3>1, <3>2, <3>3 DEF EmitContinue, Write, targets
  <2>5. CASE EmitGoto
    <3>1. EndText(program, L, p) = Jump("jmp", User(program[p].arg))
      BY <2>0, <2>5 DEF EmitGoto, At, EndText
    <3> QED BY <2>0, <2>5, <3>1 DEF EmitGoto, Write
  <2> QED BY <2>1, <2>2, <2>3, <2>4, <2>5
<1>7. EndText(program, L, Call.at) = Piece(program, L, Call.at, Node.kids)
  BY DEF Piece, Node
<1>9. TablesMeant(program, Front(calls), loop_targets', break_targets', switch_cases', L)
  BY <1>4, <1>6 DEF TableBelow, targets
<1> QED BY <1>1, <1>2, <1>5, <1>6, <1>7, <1>9, ReturnLaysOut

\* What a call that goes on without labels of its own has in the tables.
LEMMA PlainStepMeant ==
  ASSUME Ordered, NEW L, TableNow(L), ~IsBodyOf(program, Call, Targeted),
         NEW e, e.step \notin {"then", "else", "body"}, UNCHANGED targets, NEW q,
         \/ calls' = Append(Front(calls), e)
         \/ calls' = Append(Append(Front(calls), e), Entry(q))
         \/ calls' = Append(Front(calls), Entry(q))
  PROVE  TablesMeant(program, calls', loop_targets', break_targets', switch_cases', L)
<1>1. TableBelow(L) /\ IsSomeSequence(Front(calls))
  BY TablesWithoutCall, OrderedCall
<1>2. ~IsBodyOf(program, e, Targeted) /\ HasLabelsOf(program, e, L)
  BY DEF IsBodyOf, IsAt, HasLabelsOf
<1> DEFINE s == Front(calls)
<1>3. /\ IsSomeSequence(s)
      /\ TablesMeant(program, s, loop_targets', break_targets', switch_cases', L)
      /\ \/ calls' = Append(s, e)
         \/ calls' = Append(Append(s, e), Entry(q))
         \/ calls' = Append(s, Entry(q))
  BY <1>1 DEF TableBelow, targets
<1> HIDE DEF s
<1> QED BY <1>2, <1>3, PlainTables

LEMMA CompoundsLayOut ==
  ASSUME Laying, NEW L, FitsNow(L), EnterCompound \/ EmitItem \/ LeaveCompound \/ EnterFor
  PROVE  LayoutNext
<1>1. /\ Ordered /\ LaidOut(program, calls, code, L) /\ LocalLabels(program, L) /\ TableNow(L)
      /\ IsSomeSequence(code)
  BY DEF Laying, FitsNow, Fits, TableNow, HasItsLabels
<1>2. /\ WentPast(Call.at) /\ InOrderNext
  BY <1>1, ScopesOpenInOrder, StatementsBeginInOrder, EndsInOrder
<1>3. /\ Node.kind \in {"compound", "for"} /\ Call.step \in {"enter", "items"}
      /\ ~IsBodyOf(program, Call, Targeted) /\ UNCHANGED targets /\ code' = code
  BY DEF EnterCompound, EmitItem, LeaveCompound, EnterFor, At, IsBodyOf, IsAt
<1>4. code' = code \o << >>
  BY <1>1, <1>3, NothingWritten
<1>5. /\ Node = program[Call.at] /\ Node.kids \in Nat /\ Call.next \in Nat \ {0}
      /\ InProgress /\ (Call.step = "enter" => Call.next = 1)
  BY <1>1, OrderedCall, ChangedNext DEF Ordered
<1>6. CASE EnterCompound
  <2> DEFINE e == [Call EXCEPT !.step = "items"]
  <2>1. e.at = Call.at /\ e.step = "items" /\ e.next = 1 /\ calls' = Append(Front(calls), e)
        /\ Call.step = "enter"
    BY <1>1, <1>5, <1>6, ChangedCall, ChangedNext DEF EnterCompound, At
  <2> HIDE DEF e
  <2>2. Begun(program, e) = 0 /\ Begun(program, Call) = 0
    BY <2>1, BegunBySteps
  <2>3. TablesMeant(program, calls', loop_targets', break_targets', switch_cases', L)
    BY <1>1, <1>3, <2>1, PlainStepMeant
  <2> QED BY <1>1, <1>2, <1>3, <2>1, <2>2, <2>3, StayLaysOut
<1>7. CASE EmitItem
  <2> DEFINE e == [Call EXCEPT !.next = @ + 1]
  <2> DEFINE n == Begun(program, Call)
  <2> DEFINE q == Kid(Call.at, Call.next)
  <2>1. /\ Emitting(e, q)
        /\ Node.kind = "compound" /\ Call.step = "items" /\ Call.next <= Node.kids
    BY <1>7 DEF EmitItem, At
  <2>2. e.at = Call.at /\ e.step = "items"
    BY <1>5, <2>1, ChangedCall
  <2>3. n = Call.next - 1 /\ n \in 0 .. Node.kids - 1 /\ q = Kid(Call.at, n + 1)
    BY <1>5, <2>1, BegunBySteps
  <2>4. calls' = Append(Append(Front(calls), e), Entry(q))
    BY <1>5, <2>1, EmittingAppends
  <2>5. << >> = Piece(program, L, Call.at, n)
    BY <1>5, <2>1, <2>3 DEF Piece, FrontText, BetweenText
  <2> HIDE DEF e, n, q
  <2>6. TablesMeant(program, calls', loop_targets', break_targets', switch_cases', L)
    BY <1>1, <1>3, <2>2, <2>4, PlainStepMeant
  <2>7. \E f : f.at = Call.at /\ calls' = Append(Append(Front(calls), f), Entry(q))
    BY <2>2, <2>4
  <2>8. n = Begun(program, Call)
    BY DEF n
  <2> QED BY <1>1, <1>2, <1>4, <2>3, <2>5, <2>6, <2>7, <2>8, BeginLaysOut
<1>8. CASE LeaveCompound
  <2>1. /\ Return /\ Node.kind = "compound" /\ Call.step = "items" /\ Call.next > Node.kids
    BY <1>8 DEF LeaveCompound, At
  <2>2. Begun(program, Call) \in 0..Node.kids
    BY <1>1, OrderedCall, <1>5 DEF LaidOut, BegunNoMore, Ordered, InProgress, Call, Last
  <2>3. Begun(program, Call) = Node.kids
    BY <1>5, <2>1, <2>2, BegunBySteps
  <2>4. << >> = Piece(program, L, Call.at, Node.kids)
    BY <1>5, <2>1 DEF Piece, EndText
  <2>5. TablesMeant(program, Front(calls), loop_targets', break_targets', switch_cases', L)
    BY <1>1, <1>3, TablesWithoutCall DEF TableBelow, targets
  <2> QED BY <1>1, <1>2, <1>4, <2>1, <2>3, <2>4, <2>5, ReturnLaysOut
<1>9. CASE EnterFor
  <2> DEFINE e == [Call EXCEPT !.step = "test"]
  <2> DEFINE q == Kid(Call.at, 1)
  <2>1. /\ Node.kind = "for" /\ Call.step = "enter" /\ e.at = Call.at /\ e.step = "test"
        /\ IF Has(program, Call.at, "init") THEN Emitting(e, q)
           ELSE calls' = Append(Front(calls), e)
    BY <1>5, <1>9, ChangedCall DEF EnterFor, At
  <2>2. /\ Begun(program, Call) = 0 /\ q = Kid(Call.at, 0 + 1)
        /\ IF Has(program, Call.at, "init") THEN Node.kids = 2 ELSE Node.kids = 1
    BY <1>1, <2>1, BegunBySteps, KidsByKind
  <2> HIDE DEF e, q
  <2>3. CASE Has(program, Call.at, "init")
    <3>1. calls' = Append(Append(Front(calls), e), Entry(q))
      BY <1>5, <2>1, <2>3, EmittingAppends
    <3>2. << >> = Piece(program, L, Call.at, 0)
      BY <1>5, <2>1, <2>2, <2>3 DEF Piece, FrontText
    <3>3. TablesMeant(program, calls', loop_targets', break_targets', switch_cases', L)
      BY <1>1, <1>3, <2>1, <3>1, PlainStepMeant
    <3>4. \E f : f.at = Call.at /\ calls' = Append(Append(Front(calls), f), Entry(q))
      BY <2>1, <3>1
    <3>5. 0 \in 0 .. Node.kids - 1
      BY <2>2, <2>3
    <3> QED BY <1>1, <1>2, <1>4, <2>2, <3>2, <3>3, <3>4, <3>5, BeginLaysOut
  <2>4. CASE ~Has(program, Call.at, "init")
    <3>1. calls' = Append(Front(calls), e) /\ Begun(program, e) = Begun(program, Call)
      BY <1>5, <2>1, <2>2, <2>4, BegunBySteps
    <3>2. TablesMeant(program, calls', loop_targets', break_targets', switch_cases', L)
      BY <1>1, <1>3, <2>1, <3>1, PlainStepMeant
    <3> QED BY <1>1, <1>2, <1>3, <2>1, <3>1, <3>2, StayLaysOut
  <2> QED BY <2>3, <2>4
<1> QED BY <1>6, <1>7, <1>8, <1>9

LEMMA LabelsLayOut ==
  ASSUME Laying, NEW L, FitsNow(L), EmitLabel \/ EmitCase, outcome' = "emitting"
  PROVE  LayoutNext
<1>1. /\ Ordered /\ LaidOut(program, calls, code, L) /\ LocalLabels(program, L) /\ TableNow(L)
  BY DEF Laying, FitsNow, Fits, TableNow
<1>2. /\ WentPast(Call.at) /\ InOrderNext
  BY <1>1, LabelsInOrder
<1>3. /\ Node.kind \in Passing /\ Call.step = "enter" /\ ~IsBodyOf(program, Call, Targeted)
      /\ Node = program[Call.at]
  BY DEF EmitLabel, EmitCase, At, IsBodyOf, IsAt, Passing, Node
<1>4. /\ Begun(program, Call) = 0 /\ Node.kids = 1 /\ 0 \in 0 .. Node.kids - 1
  BY <1>1, <1>3, BegunBySteps, KidsByKind DEF Passing
<1>5. /\ calls' = Append(Front(calls), Entry(Kid(Call.at, 1))) /\ UNCHANGED targets
      /\ code' = code \o FrontText(program, L, Call.at)
  <2>1. CASE EmitLabel
    BY <1>3, <2>1 DEF EmitLabel, At, Write, FrontText
  <2>2. CASE EmitCase
    <3>1. Node.kind \in {"case", "default"} /\ outcome = "emitting"
      BY <2>2 DEF EmitCase, At
    <3>2. /\ calls' = Append(Front(calls), Entry(Kid(Call.at, 1))) /\ UNCHANGED targets
          /\ \E c \in switch_cases : c.statement = Call.at /\ Write(Label(c.label))
      BY <2>2 DEF EmitCase, Fail
    <3>3. Write(Label(L.labels[Call.at][1]))
      BY <1>1, <3>1, <3>2, CaseLabelMeant
    <3> QED BY <1>3, <3>1, <3>2, <3>3, Zenon DEF Write, FrontText
  <2> QED BY <2>1, <2>2
<1>6. FrontText(program, L, Call.at) = Piece(program, L, Call.at, 0)
  BY <1>3, <1>4 DEF Piece
<1> DEFINE q == Kid(Call.at, 1)
<1>7. /\ q = Kid(Call.at, 0 + 1) /\ calls' = Append(Front(calls), Entry(q))
  BY <1>5
<1> HIDE DEF q
<1>8. \A e : e.step = "items" =>
        TablesMeant(program, calls', loop_targets', break_targets', switch_cases', L)
  BY <1>1, <1>3, <1>5, <1>7, PlainStepMeant
<1>9. TablesMeant(program, calls', loop_targets', break_targets', switch_cases', L)
  <2>1. [step |-> "items"].step = "items"
    OBVIOUS
  <2> QED BY <1>8, <2>1
<1> QED BY <1>1, <1>2, <1>4, <1>5, <1>6, <1>7, <1>9, BeginLaysOut

\* The labels of the running call are those of its statement.
LEMMA OwnLabels ==
  ASSUME Ordered, NEW L, TableNow(L)
  PROVE  /\ Node.kind = "if" /\ Call.step \in {"then", "else"} =>
              Call.labels[1] = L.labels[Call.at][1] /\ Call.labels[2] = L.labels[Call.at][2]
         /\ Call.step = "body" =>
              /\ Node.kind = "while" => /\ Call.labels[1] = L.labels[Call.at][1]
                                        /\ Call.labels[2] = L.labels[Call.at][2]
              /\ Node.kind \in {"do", "for"} => /\ Call.labels[1] = L.labels[Call.at][1]
                                                /\ Call.labels[2] = L.labels[Call.at][2]
                                                /\ Call.labels[3] = L.labels[Call.at][3]
              /\ Node.kind = "switch" => Call.labels[1] = L.labels[Call.at][1]
<1>1. HasLabelsOf(program, Call, L)
  BY TablesWithoutCall
<1> DEFINE n == LabelCount(program[Call.at].kind)
<1>2. Call.step \in {"then", "else", "body"} =>
        \A i \in 1..n : Call.labels[i] = L.labels[Call.at][i]
  BY <1>1 DEF HasLabelsOf
<1>3. /\ Node.kind \in {"if", "while"} => n = 2
      /\ Node.kind \in {"do", "for"} => n = 3
      /\ Node.kind = "switch" => n = 1
  BY DEF LabelCount, Node
<1> HIDE DEF n
<1> QED BY <1>2, <1>3

LEMMA ThenLaysOut ==
  ASSUME Laying, NEW L, FitsNow(L), AfterThen \/ AfterElse
  PROVE  LayoutNext
<1>1. /\ Ordered /\ LaidOut(program, calls, code, L) /\ LocalLabels(program, L) /\ TableNow(L)
  BY DEF Laying, FitsNow, Fits, TableNow
<1>2. /\ WentPast(Call.at) /\ InOrderNext
  BY <1>1, StatementsBeginInOrder, EndsInOrder
<1>3. /\ Node.kind = "if" /\ Call.step \in {"then", "else"} /\ UNCHANGED targets
      /\ ~IsBodyOf(program, Call, Targeted) /\ Node = program[Call.at]
  BY DEF AfterThen, AfterElse, At, IsBodyOf, IsAt, Node
<1>4. Node.kids \in 1..2 /\ InProgress
  BY <1>1, <1>3, KidsByKind DEF Ordered
<1>5. /\ Call.labels[1] = L.labels[Call.at][1] /\ Call.labels[2] = L.labels[Call.at][2]
  BY <1>1, <1>3, OwnLabels
<1>6. TablesMeant(program, Front(calls), loop_targets', break_targets', switch_cases', L)
  BY <1>1, <1>3, TablesWithoutCall DEF TableBelow, targets
<1>7. EndText(program, L, Call.at) = Piece(program, L, Call.at, Node.kids)
  BY DEF Piece, Node
<1>8. EndText(program, L, Call.at) = Label(L.labels[Call.at][Node.kids])
  BY <1>3 DEF EndText
<1>9. CASE AfterThen /\ Node.kids # 2
  <2>1. Node.kids = 1 /\ Return /\ code' = code \o Label(Call.labels[1])
    BY <1>4, <1>9 DEF AfterThen, Write
  <2>2. Begun(program, Call) = Node.kids
    BY <1>9, <2>1, BegunBySteps DEF AfterThen, At
  <2> QED BY <1>1, <1>2, <1>5, <1>6, <1>7, <1>8, <2>1, <2>2, ReturnLaysOut
<1>10. CASE AfterElse
  <2>1. Return /\ code' = code \o Label(Call.labels[2]) /\ Call.step = "else"
    BY <1>10 DEF AfterElse, At, Write
  <2>2. Begun(program, Call) \in 0..Node.kids
    BY <1>1, <1>3, OrderedCall DEF LaidOut, BegunNoMore, Ordered, InProgress, Call, Last
  <2>3. Begun(program, Call) = Node.kids /\ Node.kids = 2
    BY <1>4, <2>1, <2>2, BegunBySteps
  <2> QED BY <1>1, <1>2, <1>5, <1>6, <1>7, <1>8, <2>1, <2>3, ReturnLaysOut
<1>11. CASE AfterThen /\ Node.kids = 2
  <2> DEFINE e == [Call EXCEPT !.step = "else"]
  <2> DEFINE q == Kid(Call.at, 2)
  <2>1. /\ code' = code \o (Jump("jmp", Call.labels[2]) \o Label(Call.labels[1]))
        /\ Emitting(e, q) /\ Call.step = "then"
    BY <1>11 DEF AfterThen, At, Write
  <2>2. e.at = Call.at /\ e.step = "else"
    BY <1>4, ChangedCall
  <2>3. /\ Begun(program, Call) = 1 /\ 1 \in 0 .. Node.kids - 1 /\ q = Kid(Call.at, 1 + 1)
    BY <1>11, <2>1, BegunBySteps
  <2>4. calls' = Append(Append(Front(calls), e), Entry(q))
    BY <1>4, <2>1, EmittingAppends
  <2>5. BetweenText(program, L, Call.at) =
          Jump("jmp", L.labels[Call.at][2]) \o Label(L.labels[Call.at][1])
    BY <1>3 DEF BetweenText
  <2>6. BetweenText(program, L, Call.at) = Piece(program, L, Call.at, 1)
    BY <1>3, <1>11 DEF Piece
  <2>7. HasLabelsOf(program, e, L) /\ ~IsBodyOf(program, e, Targeted)
    <3> DEFINE c == Call
    <3>1. e.labels = Call.labels
      BY <1>1 DEF Laying, Ordered, InProgress, NestInv, CallsInv, AreCalls, Call, Last
    <3>2. LabelCount(program[e.at].kind) = 2
      BY <1>3, <2>2 DEF LabelCount
    <3>3. \A i \in 1..2 : e.labels[i] = L.labels[e.at][i]
      BY <1>5, <2>2, <3>1
    <3> QED BY <2>2, <3>2, <3>3 DEF HasLabelsOf, IsBodyOf, IsAt
  <2> HIDE DEF e, q
  <2>8. TablesMeant(program, calls', loop_targets', break_targets', switch_cases', L)
    <3> DEFINE s == Front(calls)
    <3>1. /\ IsSomeSequence(s) /\ calls' = Append(Append(s, e), Entry(q))
          /\ TablesMeant(program, s, loop_targets', break_targets', switch_cases', L)
      BY <1>1, <1>6, <2>4, OrderedCall
    <3> HIDE DEF s
    <3> QED BY <2>7, <3>1, PlainTables
  <2>9. \E f : f.at = Call.at /\ calls' = Append(Append(Front(calls), f), Entry(q))
    BY <2>2, <2>4
  <2>10. code' = code \o Piece(program, L, Call.at, 1)
    BY <1>5, <2>1, <2>5, <2>6, Zenon
  <2> QED BY <1>1, <1>2, <2>3, <2>8, <2>9, <2>10, BeginLaysOut
<1> QED BY <1>9, <1>10, <1>11

LEMMA BodiesLayOut ==
  ASSUME Laying, NEW L, FitsNow(L),
         AfterWhileBody \/ AfterDoBody \/ AfterForBody \/ AfterSwitchBody
  PROVE  LayoutNext
<1>1. /\ Ordered /\ LaidOut(program, calls, code, L) /\ LocalLabels(program, L) /\ TableNow(L)
  BY DEF Laying, FitsNow, Fits, TableNow
<1>2. /\ WentPast(Call.at) /\ InOrderNext
  BY <1>1, EndsInOrder
<1>3. /\ Node.kind \in Targeted /\ Call.step = "body" /\ Return /\ Node = program[Call.at]
      /\ IsBodyOf(program, Call, {Node.kind})
  BY DEF AfterWhileBody, AfterDoBody, AfterForBody, AfterSwitchBody, At, IsBodyOf, IsAt, Node,
         Targeted, Loops
<1>4. Begun(program, Call) = Node.kids
  BY <1>3, BegunBySteps
<1>5. TablesMeant(program, Front(calls), loop_targets', break_targets', switch_cases', L)
  <2>1. CASE AfterWhileBody \/ AfterDoBody \/ AfterForBody
    <3>1. /\ loop_targets' = Front(loop_targets) /\ break_targets' = Front(break_targets)
          /\ switch_cases' = switch_cases /\ IsBodyOf(program, Call, Loops)
      BY <1>3, <2>1 DEF AfterWhileBody, AfterDoBody, AfterForBody, PopLoop, At, IsBodyOf, IsAt,
                        Loops
    <3> QED BY <1>1, <3>1, TablesWithoutCall
  <2>2. CASE AfterSwitchBody
    <3>1. /\ loop_targets' = loop_targets /\ break_targets' = Front(break_targets)
          /\ switch_cases' = Call.saved /\ IsBodyOf(program, Call, {"switch"})
      BY <1>3, <2>2 DEF AfterSwitchBody, At, IsBodyOf, IsAt
    <3> QED BY <1>1, <3>1, TablesWithoutCall
  <2> QED BY <2>1, <2>2
<1>6. EndText(program, L, Call.at) = Piece(program, L, Call.at, Node.kids)
  BY DEF Piece, Node
<1>7. code' = code \o EndText(program, L, Call.at)
  <2> DEFINE p == Call.at
  <2> DEFINE l == Call.labels
  <2>0. /\ Node.kind = program[p].kind /\ Call.at = p /\ Call.labels = l
        /\ Node.kind = "while" => l[1] = L.labels[p][1] /\ l[2] = L.labels[p][2]
        /\ Node.kind \in {"do", "for"} =>
             /\ l[1] = L.labels[p][1] /\ l[2] = L.labels[p][2] /\ l[3] = L.labels[p][3]
        /\ Node.kind = "switch" => l[1] = L.labels[p][1]
    BY <1>1, <1>3, OwnLabels
  <2> HIDE DEF p, l
  <2>1. CASE AfterWhileBody
    BY <2>0, <2>1 DEF AfterWhileBody, At, Write, EndText
  <2>2. CASE AfterDoBody
    BY <2>0, <2>2 DEF AfterDoBody, At, Write, EndText
  <2>3. CASE AfterForBody
    BY <2>0, <2>3 DEF AfterForBody, At, Write, EndText
  <2>4. CASE AfterSwitchBody
    BY <2>0, <2>4 DEF AfterSwitchBody, At, Write, EndText
  <2> QED BY <2>1, <2>2, <2>3, <2>4
<1> QED BY <1>1, <1>2, <1>3, <1>4, <1>5, <1>6, <1>7, ReturnLaysOut

-----------------------------------------------------------------------------
(***************************************************************************)
(* When a statement begins, the labels allocated for it are those of its   *)
(* layout: nothing that is written names them yet.                         *)
(***************************************************************************)
Beginning ==
  /\ Ordered /\ Node.kind \in Targeted \cup {"if"}
  /\ \/ Call.step = "enter" /\ Node.kind # "for"
     \/ Call.step = "test" /\ Node.kind = "for"

LEMMA BeginningBegun ==
  ASSUME Beginning
  PROVE  /\ Begun(program, Call) \in 0 .. Node.kids - 1
         /\ Begun(program, Call) = Node.kids - 1 \/ (Node.kind = "if" /\ Begun(program, Call) = 0)
         /\ ~IsBodyOf(program, Call, Targeted) /\ Node = program[Call.at]
         /\ \A n \in 1..Begun(program, Call) : program[Kid(Call.at, n)].kind = "expression"
         /\ \A m \in 0 .. Begun(program, Call) - 1 :
              m = 0 /\ Node.kids = 2 /\ Node.kind = "for" /\ Has(program, Call.at, "init")
<1>1. /\ Ordered /\ Node.kind \in Targeted \cup {"if"} /\ Node = program[Call.at]
      /\ WellFormed(program) /\ Call.at \in DOMAIN program
  BY OrderedCall DEF Beginning
<1>2. /\ Call.step = "enter" => Begun(program, Call) = 0
      /\ Call.step = "test" => Begun(program, Call) = Node.kids - 1
      /\ Node.kind \in {"while", "do", "switch"} => Node.kids = 1
      /\ Node.kind = "if" => Node.kids \in 1..2
      /\ Node.kind = "for" =>
           IF Has(program, Call.at, "init") THEN Node.kids = 2 ELSE Node.kids = 1
  BY <1>1, BegunBySteps, KidsByKind
<1>3. Node.kind = "for" /\ Has(program, Call.at, "init") =>
        program[Kid(Call.at, 1)].kind = "expression"
  BY <1>1 DEF WellFormed
<1>4. Node.kind \in {"while", "do", "switch", "for", "if"}
  BY <1>1 DEF Targeted, Loops
<1> QED BY <1>1, <1>2, <1>3, <1>4 DEF Beginning, IsBodyOf, IsAt

LEMMA Relabelled ==
  ASSUME Beginning, NEW L, LaidOut(program, calls, code, L), LocalLabels(program, L),
         TableBelow(L), NEW new,
         \A p \in Relabels(program, Call.at) : \A i \in 1..3 : IsLocal(new[p][i])
  PROVE  \E M : /\ LaidOut(program, calls, code, M) /\ LocalLabels(program, M) /\ TableBelow(M)
                /\ \A p \in Relabels(program, Call.at) : M.labels[p] = new[p]
<1> DEFINE X == Relabels(program, Call.at)
<1> DEFINE labels == [p \in DOMAIN program |-> IF p \in X THEN new[p] ELSE L.labels[p]]
<1>1. PICK M : M = [from |-> L.from, to |-> L.to, labels |-> labels]
  OBVIOUS
<1>2. /\ Ordered /\ WellFormed(program) /\ SemaAccepts(program)
      /\ Call.at \in DOMAIN program /\ X \subseteq DOMAIN program
      /\ Node = program[Call.at] /\ Node.kind \in Targeted \cup {"if"}
  BY OrderedCall DEF Beginning, Ordered, InProgress, NestInv, Relabels, CasesIn
<1>3. /\ M.from = L.from /\ M.to = L.to
      /\ \A p \in DOMAIN program : M.labels[p] = IF p \in X THEN new[p] ELSE L.labels[p]
  BY <1>1
<1> HIDE DEF X, labels
<1>4. /\ SameBut(program, L, M, X) /\ LocalLabels(program, M)
      /\ \A p \in X : M.labels[p] = new[p]
  BY <1>2, <1>3 DEF SameBut, LocalLabels, X
<1>5. \A m \in 0 .. Begun(program, Call) - 1 :
        Piece(program, M, Call.at, m) = Piece(program, L, Call.at, m)
  <2>1. SUFFICES ASSUME NEW m \in 0 .. Begun(program, Call) - 1
                 PROVE  Piece(program, M, Call.at, m) = Piece(program, L, Call.at, m)
    OBVIOUS
  <2>2. /\ m = 0 /\ program[Call.at].kids = 2 /\ program[Call.at].kind = "for"
        /\ Has(program, Call.at, "init")
    BY <1>2, <2>1, BeginningBegun
  <2> QED BY <2>2 DEF Piece, FrontText
<1> DEFINE s == Front(calls)
<1> DEFINE c == Call
<1>6. /\ IsSomeSequence(s) /\ InOrder(program, Append(s, c)) /\ calls = Append(s, c)
      /\ program[c.at].kind \in Targeted \cup {"if"}
      /\ Begun(program, c) \in 0 .. program[c.at].kids - 1
      /\ \A n \in 1..Begun(program, c) : program[Kid(c.at, n)].kind = "expression"
      /\ LaidOut(program, Append(s, c), code, L) /\ SameBut(program, L, M, Relabels(program, c.at))
      /\ TablesMeant(program, s, loop_targets, break_targets, switch_cases, L)
      /\ \A m \in 0 .. Begun(program, c) - 1 :
           Piece(program, M, c.at, m) = Piece(program, L, c.at, m)
  BY <1>2, <1>4, <1>5, OrderedCall, BeginningBegun DEF X, TableBelow
<1> HIDE DEF s, c
<1>7. LaidOut(program, Append(s, c), code, M)
  BY <1>2, <1>6, RelabelledIsLaidOut
<1>8. TablesMeant(program, s, loop_targets, break_targets, switch_cases, M)
  BY <1>2, <1>6, RelabelledMeant
<1>9. LaidOut(program, calls, code, M) /\ TableBelow(M)
  BY <1>6, <1>7, <1>8 DEF s, TableBelow
<1> QED BY <1>4, <1>9 DEF X

LEMMA NewIsLocal == \A n : IsLocal(New(n))
BY DEF New, IsLocal

\* The labels of an if or a loop that begins are the next ones.
LEMMA RelabelledByNext ==
  ASSUME Beginning, Node.kind # "switch", NEW L, FitsNow(L)
  PROVE  \E M : /\ LaidOut(program, calls, code, M) /\ LocalLabels(program, M) /\ TableBelow(M)
                /\ M.labels[Call.at] = <<New(1), New(2), New(3)>>
<1>1. PICK new : new = [p \in {Call.at} |-> <<New(1), New(2), New(3)>>]
  OBVIOUS
<1>2. Relabels(program, Call.at) = {Call.at}
  BY BeginningBegun DEF Relabels
<1>3. \A p \in Relabels(program, Call.at) : \A i \in 1..3 : IsLocal(new[p][i])
  BY <1>1, <1>2, NewIsLocal
<1>4. LaidOut(program, calls, code, L) /\ LocalLabels(program, L) /\ TableBelow(L)
  BY BeginningBegun, TablesWithoutCall DEF FitsNow, Fits, TableNow, Beginning
<1>5. PICK M : /\ LaidOut(program, calls, code, M) /\ LocalLabels(program, M) /\ TableBelow(M)
               /\ \A p \in Relabels(program, Call.at) : M.labels[p] = new[p]
  BY <1>3, <1>4, Relabelled
<1>6. M.labels[Call.at] = <<New(1), New(2), New(3)>>
  BY <1>1, <1>2, <1>5
<1> QED BY <1>5, <1>6

LEMMA IfLaysOut ==
  ASSUME Laying, NEW L, FitsNow(L), EnterIf
  PROVE  LayoutNext
<1>1. Ordered /\ InProgress /\ Node.kind = "if" /\ Call.step = "enter" /\ Beginning
      /\ Node = program[Call.at]
  BY DEF Laying, Ordered, EnterIf, At, Beginning, Node
<1>2. WentPast(Call.at)
  BY <1>1, StatementsBeginInOrder
<1>3. PICK M : /\ LaidOut(program, calls, code, M) /\ LocalLabels(program, M) /\ TableBelow(M)
               /\ M.labels[Call.at] = <<New(1), New(2), New(3)>>
  BY <1>1, RelabelledByNext
<1>4. /\ Begun(program, Call) = 0 /\ 0 \in 0 .. Node.kids - 1 /\ Node.kids # 0
  BY <1>1, BegunBySteps, KidsByKind
<1> DEFINE labels == <<New(1), New(2)>>
<1> DEFINE e == [Call EXCEPT !.step = "then", !.labels = labels]
<1> DEFINE q == Kid(Call.at, 1)
<1>5. /\ e.at = Call.at /\ e.step = "then" /\ q = Kid(Call.at, 0 + 1)
  BY <1>1, ChangedCall
<1>6. e.labels = labels
  BY <1>1, ChangedLabels DEF Laying, Ordered, InProgress, NestInv, CallsInv, AreCalls, Call, Last
<1>7. Emitting(e, q) /\ UNCHANGED targets
  BY DEF EnterIf
<1>8. labels[1] = New(1) /\ labels[2] = New(2)
  OBVIOUS
<1> HIDE DEF labels, e, q
<1>9. calls' = Append(Append(Front(calls), e), Entry(q))
  BY <1>1, <1>7, EmittingAppends
<1>10. HasLabelsOf(program, e, M) /\ ~IsBodyOf(program, e, Targeted)
  <2>1. LabelCount(program[e.at].kind) = 2
    BY <1>1, <1>5 DEF LabelCount
  <2>2. \A i \in 1..2 : e.labels[i] = M.labels[e.at][i]
    BY <1>3, <1>5, <1>6, <1>8
  <2> QED BY <1>5, <2>1, <2>2 DEF HasLabelsOf, IsBodyOf, IsAt
<1>11. TablesMeant(program, calls', loop_targets', break_targets', switch_cases', M)
  <2> DEFINE s == Front(calls)
  <2>1. /\ IsSomeSequence(s) /\ calls' = Append(Append(s, e), Entry(q))
        /\ TablesMeant(program, s, loop_targets', break_targets', switch_cases', M)
    BY <1>1, <1>3, <1>7, <1>9, OrderedCall DEF TableBelow, targets
  <2> HIDE DEF s
  <2> QED BY <1>10, <2>1, PlainTables
<1>12. code' = code \o Piece(program, M, Call.at, 0)
  <2>1. M.labels[Call.at][1] = New(1)
    BY <1>3
  <2>2. FrontText(program, M, Call.at) = TestAndSkip(Call.at, New(1))
    BY <1>1, <2>1 DEF FrontText
  <2>3. Piece(program, M, Call.at, 0) = FrontText(program, M, Call.at)
    BY <1>1, <1>4 DEF Piece
  <2> QED BY <2>2, <2>3 DEF EnterIf, Write
<1>13. \E f : f.at = Call.at /\ calls' = Append(Append(Front(calls), f), Entry(q))
  BY <1>5, <1>9
<1> QED BY <1>2, <1>3, <1>4, <1>5, <1>11, <1>12, <1>13, BeginLaysOut

LEMMA LoopsLayOut ==
  ASSUME Laying, NEW L, FitsNow(L), EnterWhile \/ EnterDo \/ ForTest
  PROVE  LayoutNext
<1>1. /\ Ordered /\ InProgress /\ Node.kind \in Loops /\ Node = program[Call.at]
      /\ Call.step = (IF Node.kind = "for" THEN "test" ELSE "enter")
      /\ Beginning
  BY DEF Laying, Ordered, EnterWhile, EnterDo, ForTest, At, Beginning, Node, Loops, Targeted
<1>2. WentPast(Call.at)
  BY <1>1, StatementsBeginInOrder
<1>3. PICK M : /\ LaidOut(program, calls, code, M) /\ LocalLabels(program, M) /\ TableBelow(M)
               /\ M.labels[Call.at] = <<New(1), New(2), New(3)>>
  BY <1>1, RelabelledByNext DEF Loops
<1> DEFINE n == Begun(program, Call)
<1> DEFINE q == Kid(Call.at, Node.kids)
<1>4. /\ n = Node.kids - 1 /\ n \in 0 .. Node.kids - 1 /\ q = Kid(Call.at, n + 1)
      /\ Node.kind \in {"while", "do"} => Node.kids = 1
      /\ Node.kind = "for" =>
           IF Has(program, Call.at, "init") THEN Node.kids = 2 ELSE Node.kids = 1
  <2>1. /\ Node.kind \in {"while", "do"} => Node.kids = 1
        /\ Node.kind = "for" =>
             IF Has(program, Call.at, "init") THEN Node.kids = 2 ELSE Node.kids = 1
    BY <1>1, KidsByKind
  <2>2. n = Node.kids - 1 /\ Node.kids \in Nat /\ n \in 0 .. Node.kids - 1
    BY <1>1, BeginningBegun, OrderedCall DEF Loops
  <2>3. n + 1 = Node.kids
    BY <2>2
  <2> HIDE DEF n
  <2> QED BY <2>1, <2>2, <2>3
<1> DEFINE k == IF Node.kind = "while" THEN 2 ELSE 3
<1> DEFINE m == IF Node.kind = "while" THEN 1 ELSE 2
<1> DEFINE labels == IF Node.kind = "while" THEN <<New(1), New(2)>> ELSE <<New(1), New(2), New(3)>>
<1> DEFINE e == [Call EXCEPT !.step = "body", !.labels = labels]
<1>5. /\ e.at = Call.at /\ e.step = "body"
  BY <1>1, ChangedCall
<1>6. e.labels = labels
  BY <1>1, ChangedLabels DEF Laying, Ordered, InProgress, NestInv, CallsInv, AreCalls, Call, Last
<1>7. /\ Emitting(e, q) /\ PushLoop(New(k), New(m)) /\ switch_cases' = switch_cases
  BY <1>4 DEF EnterWhile, EnterDo, ForTest, At
<1>8. \A i \in 1..k : labels[i] = New(i)
  OBVIOUS
<1>9. /\ ExitLabel(program, M, Call.at) = New(k)
      /\ ContinueLabel(program, M, Call.at) = New(m)
  BY <1>1, <1>3 DEF ExitLabel, ContinueLabel, Loops
<1>10. LabelCount(program[Call.at].kind) = k
  BY <1>1 DEF LabelCount, Loops
<1>11. k \in {2, 3}
  OBVIOUS
<1> HIDE DEF labels, e, q, n, k, m
<1>12. calls' = Append(Append(Front(calls), e), Entry(q))
  BY <1>1, <1>7, EmittingAppends
<1>13. HasLabelsOf(program, e, M) /\ IsBodyOf(program, e, Loops)
  <2>1. \A i \in 1..3 : M.labels[Call.at][i] = New(i)
    BY <1>3
  <2>2. \A i \in 1..k : e.labels[i] = M.labels[e.at][i]
    BY <1>5, <1>6, <1>8, <1>11, <2>1
  <2> QED BY <1>1, <1>5, <1>10, <2>2 DEF HasLabelsOf, IsBodyOf, IsAt
<1>14. TablesMeant(program, calls', loop_targets', break_targets', switch_cases', M)
  <2> DEFINE b == New(k)
  <2> DEFINE c == New(m)
  <2>1. /\ PushLoop(b, c)
        /\ b = ExitLabel(program, M, Call.at) /\ c = ContinueLabel(program, M, Call.at)
    BY <1>7, <1>9
  <2>2. ~IsBodyOf(program, Call, Targeted)
    BY <1>1, BeginningBegun
  <2> HIDE DEF b, c
  <2>3. TablesMeant(program, Append(Append(Front(calls), e), Entry(q)),
                    loop_targets', break_targets', switch_cases', M)
    BY <1>1, <1>3, <1>5, <1>7, <1>13, <2>1, <2>2, TablesWithLoop
  <2> QED BY <1>12, <2>3
<1>15. code' = code \o Piece(program, M, Call.at, n)
  <2> DEFINE p == Call.at
  <2>0. /\ M.labels[p][1] = New(1) /\ M.labels[p][2] = New(2) /\ M.labels[p][3] = New(3)
        /\ Node.kind = program[p].kind /\ Node.kids = program[p].kids /\ Call.at = p
        /\ Node.kids # 0
    BY <1>1, <1>3, <1>4
  <2> HIDE DEF p
  <2>1. CASE EnterWhile
    <3>1. Node.kind = "while" /\ n = 0 /\ Node.kids = 1
      BY <1>4, <2>1 DEF EnterWhile, At
    <3>2. Piece(program, M, p, n) = Label(New(1)) \o TestAndSkip(p, New(2))
      BY <2>0, <3>1 DEF Piece, FrontText
    <3> QED BY <2>0, <2>1, <3>2 DEF EnterWhile, Write
  <2>2. CASE EnterDo
    <3>1. Node.kind = "do" /\ n = 0 /\ Node.kids = 1
      BY <1>4, <2>2 DEF EnterDo, At
    <3>2. Piece(program, M, p, n) = Label(New(1))
      BY <2>0, <3>1 DEF Piece, FrontText
    <3> QED BY <2>0, <2>2, <3>2 DEF EnterDo, Write
  <2>3. CASE ForTest
    <3>1. Node.kind = "for" /\ n = Node.kids - 1
          /\ (IF Has(program, p, "init") THEN Node.kids = 2 ELSE Node.kids = 1)
      BY <1>4, <2>0, <2>3 DEF ForTest, At
    <3>2. Piece(program, M, p, n) = ForFront(program, M, p)
      BY <2>0, <3>1 DEF Piece, FrontText, BetweenText
    <3>3. ForFront(program, M, p) =
            Label(New(1)) \o IF Has(program, p, "test") THEN TestAndSkip(p, New(3)) ELSE << >>
      BY <2>0 DEF ForFront
    <3>4. code' = code \o (Label(New(1))
             \o IF Has(program, p, "test") THEN TestAndSkip(p, New(3)) ELSE << >>)
      BY <2>0, <2>3 DEF ForTest, Write
    <3> QED BY <2>0, <3>2, <3>3, <3>4
  <2> QED BY <2>1, <2>2, <2>3
<1>16. \E f : f.at = Call.at /\ calls' = Append(Append(Front(calls), f), Entry(q))
  BY <1>5, <1>12
<1>17. n = Begun(program, Call)
  BY DEF n
<1> QED BY <1>2, <1>3, <1>4, <1>14, <1>15, <1>16, <1>17, BeginLaysOut DEF Laying

LEMMA SwitchLaysOut ==
  ASSUME Laying, NEW L, FitsNow(L), EnterSwitch
  PROVE  LayoutNext
<1>1. Ordered /\ InProgress /\ Node.kind = "switch" /\ Call.step = "enter" /\ Beginning
      /\ Node = program[Call.at] /\ WellFormed(program) /\ Call.at \in Seq(Nat)
      /\ Call.at \in DOMAIN program
  BY OrderedCall DEF Laying, Ordered, EnterSwitch, At, Beginning, Node, Targeted
<1>2. WentPast(Call.at)
  BY <1>1, StatementsBeginInOrder
<1> DEFINE a == Call.at
<1> DEFINE cases == CollectSwitchCases(a)
<1> DEFINE end == New(Cardinality(cases) + 1)
<1>0. PICK before : before = [p \in DOMAIN program |->
                               Cardinality({r \in CaseStatements(a) : Before(r, p)})]
  OBVIOUS
<1>3. PICK new : new = [p \in DOMAIN program |->
                          [i \in 1..3 |-> IF p = a THEN end ELSE New(before[p] + 1)]]
  OBVIOUS
<1>4. Relabels(program, a) = {a} \cup CasesIn(program, a) /\ CasesIn(program, a) \subseteq DOMAIN program
      /\ CaseStatements(a) = CasesIn(program, a) /\ a \notin CasesIn(program, a)
  <2>1. a \notin CasesIn(program, a)
    BY <1>1 DEF CasesIn
  <2> QED BY <1>1, <2>1 DEF Relabels, CasesIn, CaseStatements
<1>5. \A p \in Relabels(program, a) : \A i \in 1..3 : IsLocal(new[p][i])
  BY <1>1, <1>3, <1>4, NewIsLocal
<1>6. LaidOut(program, calls, code, L) /\ LocalLabels(program, L) /\ TableBelow(L)
  BY <1>1, BeginningBegun, TablesWithoutCall DEF FitsNow, Fits, TableNow
<1>7. PICK M : /\ LaidOut(program, calls, code, M) /\ LocalLabels(program, M) /\ TableBelow(M)
               /\ \A p \in Relabels(program, a) : M.labels[p] = new[p]
  BY <1>1, <1>5, <1>6, Relabelled
<1>8. /\ M.labels[a][1] = end
      /\ \A p \in CasesIn(program, a) : M.labels[p][1] = New(before[p] + 1)
  <2> HIDE DEF a, cases, end
  <2>1. /\ \A p \in DOMAIN program : new[p][1] = IF p = a THEN end ELSE New(before[p] + 1)
        /\ a \in DOMAIN program
    BY <1>1, <1>3 DEF a
  <2> QED BY <1>4, <1>7, <2>1
<1>9. CasesOf(program, M, a) = cases
  <2> DEFINE meant(p) == [statement |-> p, label |-> M.labels[p][1],
                          is_default |-> program[p].kind = "default"]
  <2> DEFINE found(p) == [statement |-> p, 
                          label |-> New(Cardinality({r \in CaseStatements(a) : Before(r, p)}) + 1),
                          is_default |-> program[p].kind = "default"]
  <2>1. \A p \in CasesIn(program, a) : meant(p) = found(p)
    BY <1>0, <1>4, <1>8
  <2>2. CasesOf(program, M, a) = {meant(p) : p \in CasesIn(program, a)}
    BY DEF CasesOf
  <2>3. cases = {found(p) : p \in CasesIn(program, a)}
    BY <1>4 DEF CollectSwitchCases
  <2> HIDE DEF meant, found, cases
  <2> QED BY <2>1, <2>2, <2>3
<1> DEFINE q == Kid(a, 1)
<1> DEFINE labels == <<end>>
<1> DEFINE e == [Call EXCEPT !.step = "body", !.labels = labels, !.saved = switch_cases]
<1>10. /\ e.at = Call.at /\ e.step = "body" /\ e.saved = switch_cases
  BY <1>1, ChangedCall
<1>11. e.labels = labels
  BY <1>1, ChangedLabels DEF Laying, Ordered, InProgress, NestInv, CallsInv, AreCalls, Call, Last
<1>12. /\ Emitting(e, q) /\ break_targets' = Append(break_targets, end)
       /\ loop_targets' = loop_targets /\ switch_cases' = cases
       /\ code' = code \o (Eval(a, "test") \o Dispatch(cases, end))
  BY DEF EnterSwitch, Write
<1>13. labels[1] = end
  OBVIOUS
<1>14. Dispatch(cases, end) = DispatchOf(program, cases, end)
  BY DEF Dispatch, DispatchOf
<1>15. CasesOf(program, M, a) = cases /\ M.labels[a][1] = end /\ a = Call.at
  BY <1>8, <1>9
<1> HIDE DEF labels, e, q, cases, end, a
<1>16. calls' = Append(Append(Front(calls), e), Entry(q))
  BY <1>1, <1>12, EmittingAppends
<1>17. HasLabelsOf(program, e, M) /\ IsBodyOf(program, e, {"switch"})
  <2>1. LabelCount(program[e.at].kind) = 1
    BY <1>1, <1>10 DEF LabelCount
  <2>2. \A i \in 1..1 : e.labels[i] = M.labels[e.at][i]
    BY <1>10, <1>11, <1>13, <1>15
  <2> QED BY <1>1, <1>10, <2>1, <2>2 DEF HasLabelsOf, IsBodyOf, IsAt
<1>18. TablesMeant(program, calls', loop_targets', break_targets', switch_cases', M)
  <2>1. end = ExitLabel(program, M, Call.at)
    BY <1>1, <1>15 DEF ExitLabel
  <2>2. ~IsBodyOf(program, Call, Targeted)
    BY <1>1, BeginningBegun
  <2>3. TablesMeant(program, Append(Append(Front(calls), e), Entry(q)),
                    loop_targets', break_targets', switch_cases', M)
    BY <1>1, <1>7, <1>10, <1>12, <1>15, <1>17, <2>1, <2>2, TablesWithSwitch
  <2> QED BY <1>16, <2>3
<1>19. /\ Begun(program, Call) = 0 /\ Node.kids = 1 /\ 0 \in 0 .. Node.kids - 1
       /\ q = Kid(Call.at, 0 + 1)
  BY <1>1, <1>15, BegunBySteps, KidsByKind DEF q
<1>20. code' = code \o Piece(program, M, Call.at, 0)
  <2>1. FrontText(program, M, a) = Eval(a, "test") \o DispatchOf(program, cases, end)
    BY <1>1, <1>15 DEF FrontText
  <2>2. Piece(program, M, a, 0) = FrontText(program, M, a)
    BY <1>1, <1>15, <1>19 DEF Piece
  <2> QED BY <1>12, <1>14, <1>15, <2>1, <2>2
<1>21. \E f : f.at = Call.at /\ calls' = Append(Append(Front(calls), f), Entry(q))
  BY <1>10, <1>16
<1> QED BY <1>1, <1>2, <1>7, <1>18, <1>19, <1>20, <1>21, BeginLaysOut

LEMMA EmitLaysOut ==
  ASSUME Laying, NEW L, FitsNow(L), Emit, ~FinishFunction, outcome' = "emitting"
  PROVE  LayoutNext
<1>1. ~NestingExceeded
  BY DEF NestingExceeded, Fail
<1>2. \/ EmitExpression \/ EmitReturn \/ EmitBreak \/ EmitContinue \/ EmitGoto
      \/ EmitLabel \/ EnterCompound \/ EmitItem \/ LeaveCompound
      \/ EnterIf \/ AfterThen \/ AfterElse \/ EnterWhile \/ AfterWhileBody
      \/ EnterDo \/ AfterDoBody \/ EnterFor \/ ForTest \/ AfterForBody
      \/ EnterSwitch \/ AfterSwitchBody \/ EmitCase
  BY <1>1 DEF Emit
<1> QED BY <1>2, LeavesLayOut, LabelsLayOut, CompoundsLayOut, IfLaysOut, ThenLaysOut,
           LoopsLayOut, BodiesLayOut, SwitchLaysOut


-----------------------------------------------------------------------------
(***************************************************************************)
(* The layout of a finished function.                                      *)
(***************************************************************************)
EndOfCode == XorEax \o Label(ReturnLabel) \o Ret
IsLayout(tree, text, L) ==
  /\ IsSomeSequence(text) /\ L.from[<< >>] = 1
  /\ Holds(text, L.to[<< >>], EndOfCode, Len(text) + 1)
  /\ \A p \in DOMAIN tree : \A n \in 0..tree[p].kids : PieceThere(tree, text, L, p, n)

LayoutInv ==
  /\ LabelInv
  /\ outcome = "emitting" => HasItsLabels(program, code) /\ \E L : FitsNow(L)
  /\ outcome \in {"emitted", "running"} =>
       HasItsLabels(program, code) /\ \E L : IsLayout(program, code, L)

LEMMA EndOfCodeIsText ==
  ASSUME NEW tree PROVE IsSomeSequence(EndOfCode) /\ HasItsLabels(tree, EndOfCode)
<1> DEFINE a == XorEax
           b == Label(ReturnLabel)
           c == Ret
<1>1. IsLabelOf(tree, ReturnLabel)
  BY DEF IsLabelOf, IsLocal, ReturnLabel
<1>2. HasItsLabels(tree, a) /\ HasItsLabels(tree, b) /\ HasItsLabels(tree, c)
  BY <1>1, InstructionsHaveTheirs
<1> HIDE DEF a, b, c
<1>3. HasItsLabels(tree, a \o b)
  BY <1>2, LabelsJoined
<1>4. HasItsLabels(tree, (a \o b) \o c)
  BY <1>2, <1>3, LabelsJoined
<1> QED BY <1>4 DEF a, b, c, EndOfCode, HasItsLabels

LEMMA InitLaysOut ==
  ASSUME Init
  PROVE  HasItsLabels(program, code) /\ \E L : FitsNow(L)
<1> DEFINE e == Entry(<< >>)
<1> DEFINE from == [p \in DOMAIN program |-> 1]
<1> DEFINE labels == [p \in DOMAIN program |-> [i \in 1..3 |-> ReturnLabel]]
<1>1. PICK L : L = [from |-> from, to |-> from, labels |-> labels]
  OBVIOUS
<1>2. /\ program \in Programs /\ calls = <<e>> /\ code = << >> /\ switch_cases = {}
      /\ WellFormed(program) /\ << >> \in DOMAIN program
  BY ProgramsAssumption DEF Init, WellFormed
<1>3. L.from[<< >>] = 1 /\ LocalLabels(program, L)
  BY <1>1, <1>2 DEF LocalLabels, IsLocal, ReturnLabel
<1> HIDE DEF from, labels
<1>4. /\ Len(calls) = 1 /\ calls[1] = e /\ calls # << >> /\ Len(code) = 0 /\ 1..1 = {1}
      /\ e.at = << >> /\ e.step = "enter" /\ 1..0 = {}
  BY <1>2, AheadOfEntry
<1> HIDE DEF e
<1>5. \A d \in DOMAIN program : IsAhead(program, calls, d)
  <2>1. IsAhead(program, calls, << >>)
    BY <1>2, <1>4 DEF IsAhead, Ahead
  <2> QED BY <1>2, <2>1, EntryCalls DEF e
<1>6. \A p \in DOMAIN program : \A n \in 0..program[p].kids : ~Written(program, calls, p, n)
  <2>1. SUFFICES ASSUME NEW p \in DOMAIN program, NEW n \in 0..program[p].kids,
                        Written(program, calls, p, n)
                 PROVE  FALSE
    OBVIOUS
  <2>2. n # program[p].kids /\ Arrived(program, calls, Kid(p, n + 1))
    BY <1>5, <2>1 DEF Written, Complete
  <2>3. Kid(p, n + 1) \in DOMAIN program /\ Kid(p, n + 1) # << >>
    BY <1>2, <2>2, KidIsThere
  <2> QED BY <1>4, <1>5, <2>2, <2>3 DEF Arrived, CalledAt
<1>7. Begun(program, e) = 0 /\ program[<< >>].kids \in Nat
  BY <1>2, <1>4, BegunBySteps DEF WellFormed
<1>8. LaidOut(program, calls, code, L)
  BY <1>2, <1>3, <1>4, <1>6, <1>7, ShortTexts DEF LaidOut, Reached, BegunNoMore, StartOf
<1>9. TablesMeant(program, calls, loop_targets, break_targets, switch_cases, L)
  <2>1. \A kinds : BodiesOf(program, calls, kinds) = {}
    BY <1>4 DEF BodiesOf, CallsAt, IsAt
  <2>2. Labelled(program, calls, L)
    BY <1>4 DEF Labelled, HasLabelsOf
  <2> QED BY <2>1, <2>2 DEF TablesMeant, Lists, CasesMeant
<1>10. HasItsLabels(program, code)
  BY <1>2, InstructionsHaveTheirs
<1> QED BY <1>3, <1>8, <1>9, <1>10 DEF FitsNow, Fits

\* When no call is in progress, every piece is written.
LEMMA FinishedIsLaidOut ==
  ASSUME LayoutInv, FinishFunction
  PROVE  HasItsLabels(program, code') /\ \E L : IsLayout(program, code', L)
<1>1. calls = << >> /\ code' = code \o EndOfCode /\ outcome = "emitting"
  BY DEF FinishFunction, Write, EndOfCode
<1>2. PICK L : FitsNow(L)
  BY <1>1 DEF LayoutInv
<1>3. HasItsLabels(program, code) /\ IsSomeSequence(code)
  BY <1>1 DEF LayoutInv, HasItsLabels
<1>4. LaidOut(program, << >>, code, L)
  BY <1>1, <1>2 DEF FitsNow, Fits
<1>5. \A p \in DOMAIN program : \A n \in 0..program[p].kids :
        PieceThere(program, code, L, p, n)
  <2>1. 1..Len(<< >>) = {}
    OBVIOUS
  <2>2. \A p, n : Written(program, << >>, p, n)
    BY <2>1 DEF Written, Complete, Arrived, IsAhead, CalledIn
  <2> QED BY <1>4, <2>2 DEF LaidOut
<1>6. L.from[<< >>] = 1 /\ L.to[<< >>] = Len(code) + 1
  BY <1>4 DEF LaidOut, Reached
<1>7. IsSomeSequence(EndOfCode) /\ HasItsLabels(program, EndOfCode)
  BY EndOfCodeIsText
<1>8. HasItsLabels(program, code')
  BY <1>1, <1>3, <1>7, LabelsJoined
<1>9. Holds(code', Len(code) + 1, EndOfCode, Len(code') + 1)
  BY <1>1, <1>3, <1>7, HoldsNew
<1>10. \A p \in DOMAIN program : \A n \in 0..program[p].kids :
         PieceThere(program, code', L, p, n)
  BY <1>1, <1>3, <1>5, <1>7, HoldsStill DEF PieceThere
<1>11. IsSomeSequence(code')
  BY <1>8 DEF HasItsLabels
<1> QED BY <1>6, <1>8, <1>9, <1>10, <1>11 DEF IsLayout

LEMMA EmitKeepsLayout ==
  ASSUME LayoutInv, EmitStep, LabelInv' PROVE LayoutInv'
<1>1. Emit /\ program' = program /\ outcome = "emitting"
  BY EmitKeepsProgram DEF EmitStep
<1>0. /\ HasItsLabels(program, code)' <=> HasItsLabels(program, code')
      /\ (\E L : FitsNow(L))' <=> \E L : FitsNext(L)
      /\ (\E L : IsLayout(program, code, L))' <=> \E L : IsLayout(program, code', L)
  <2>1. HasItsLabels(program, code)' <=> HasItsLabels(program', code')
    OBVIOUS
  <2>2. \A L : FitsNow(L)' <=> FitsNext(L)
    BY <1>1 DEF FitsNow, FitsNext
  <2>3. (\E L : IsLayout(program, code, L))' <=> \E L : IsLayout(program', code', L)
    OBVIOUS
  <2> QED BY <1>1, <2>1, <2>2, <2>3
<1>2. CASE FinishFunction
  <2>1. outcome' = "emitted"
    BY <1>2 DEF FinishFunction
  <2> QED BY <1>0, <1>2, <2>1, FinishedIsLaidOut DEF LayoutInv
<1>3. CASE ~FinishFunction
  <2>1. outcome' \in {"emitting", "nesting exceeded"}
    <3>1. NestInv
      BY DEF LayoutInv, LabelInv, NoErrorInv
    <3>2. outcome' \in {"emitting", "emitted", "nesting exceeded"}
      BY <1>1, <3>1, EmitKeepsNest
    <3>3. outcome' # "emitted"
      BY <1>1, <1>3 DEF Emit, EmitExpression, EmitReturn, EmitBreak, EmitContinue,
         EmitGoto, EmitLabel, EnterCompound, EmitItem, LeaveCompound, EnterIf, AfterThen,
         AfterElse, EnterWhile, AfterWhileBody, EnterDo, AfterDoBody, EnterFor, ForTest,
         AfterForBody, EnterSwitch, AfterSwitchBody, EmitCase, NestingExceeded, Fail
    <3> QED BY <3>2, <3>3
  <2>2. Ordered
    <3>1. calls # << >>
      BY <1>1, <1>3 DEF Emit, EmitExpression, EmitReturn, EmitBreak, EmitContinue,
         EmitGoto, EmitLabel, EnterCompound, EmitItem, LeaveCompound, EnterIf, AfterThen,
         AfterElse, EnterWhile, AfterWhileBody, EnterDo, AfterDoBody, EnterFor, ForTest,
         AfterForBody, EnterSwitch, AfterSwitchBody, EmitCase, NestingExceeded, TooDeep,
         EmitsExpression, At
    <3> QED BY <1>1, <3>1 DEF LayoutInv, LabelInv, NoErrorInv, Ordered, InProgress
  <2>3. outcome' = "emitting" => LayoutNext
    <3>1. Laying /\ \E L : FitsNow(L)
      BY <1>1, <2>2 DEF LayoutInv, Laying
    <3> QED BY <1>1, <1>3, <3>1, EmitLaysOut
  <2> QED BY <1>0, <1>1, <2>1, <2>3 DEF LayoutInv, LayoutNext
<1> QED BY <1>2, <1>3

LEMMA NextKeepsLayout == LayoutInv /\ [Next]_vars => LayoutInv'
<1> SUFFICES ASSUME LayoutInv, [Next]_vars PROVE LayoutInv'
  OBVIOUS
<1>1. LabelInv'
  BY NextKeepsLabels DEF LayoutInv
<1>2. CASE EmitStep
  BY <1>1, <1>2, EmitKeepsLayout
<1>3. CASE Assemble
  <2>1. UNCHANGED <<program, code>> /\ outcome = "emitted"
        /\ outcome' \in {"running", "not assembled"}
    BY <1>3 DEF Assemble
  <2>2. /\ HasItsLabels(program, code)' <=> HasItsLabels(program', code')
        /\ (\E L : IsLayout(program, code, L))' <=> \E L : IsLayout(program', code', L)
    OBVIOUS
  <2> QED BY <1>1, <2>1, <2>2 DEF LayoutInv
<1>4. CASE UNCHANGED vars \/ SourceStep \/ MachineStep \/ \E v \in Values : Evaluate(v)
  <2>1. UNCHANGED <<program, calls, code, next_label_id, targets, outcome>>
    BY <1>4, Zenon DEF vars, emitVars, SourceStep, MachineStep, Evaluate
  <2>2. UNCHANGED <<loop_targets, break_targets, switch_cases>>
    BY <2>1 DEF targets
  <2>3. /\ HasItsLabels(program, code)' <=> HasItsLabels(program', code')
        /\ (\E L : IsLayout(program, code, L))' <=> \E L : IsLayout(program', code', L)
    OBVIOUS
  <2>4. (\E L : FitsNow(L))' <=> \E L : FitsNow(L)
    BY <2>1, <2>2 DEF FitsNow
  <2> QED BY <1>1, <2>1, <2>3, <2>4 DEF LayoutInv
<1> QED BY <1>2, <1>3, <1>4 DEF Next


-----------------------------------------------------------------------------
(***************************************************************************)
(* The machine: a text that assembles and ends with a return never runs    *)
(* out of itself, and what it comes to by its own steps is determined.     *)
(***************************************************************************)
Cells(text) == [pc : DOMAIN text, rax : Nat, zero : BOOLEAN]
DefinitionsIn(text, l) == {i \in DOMAIN text : text[i].op = "label" /\ text[i].label = l}
\* MachineStep, as a function of the state before it.
Moves(text, x) == text[x.pc].op \notin {"eval", "ret"}
Takes(text, x) ==
  \/ text[x.pc].op = "jmp"
  \/ text[x.pc].op = "je" /\ x.zero
  \/ text[x.pc].op = "jne" /\ ~x.zero
Step(text, x) ==
  [pc |-> IF Takes(text, x) THEN C!The(DefinitionsIn(text, text[x.pc].label)) ELSE x.pc + 1,
   rax |-> IF text[x.pc].op = "xor" THEN 0 ELSE x.rax,
   zero |-> IF text[x.pc].op = "cmp" THEN x.rax % EaxRange = text[x.pc].with
            ELSE IF text[x.pc].op = "xor" THEN TRUE ELSE x.zero]

Runnable(text) ==
  /\ IsSomeSequence(text) /\ Len(text) # 0 /\ text[Len(text)].op = "ret"
  /\ \A i \in DOMAIN text : text[i].op \in JumpOps => DefinitionsIn(text, text[i].label) # {}
  /\ \A i, j \in DOMAIN text :
       text[i].op = "label" /\ text[j].op = "label" /\ text[i].label = text[j].label => i = j

\* y is one of the states the machine comes to from x by itself.
Closed(text, S) == \A x \in S : Moves(text, x) => Step(text, x) \in S
Reaches(text, x, y) ==
  \A S \in SUBSET Cells(text) : x \in S /\ Closed(text, S) => y \in S

LEMMA StepIsCell ==
  ASSUME NEW text, Runnable(text), NEW x \in Cells(text)
  PROVE  /\ text[x.pc].op # "ret" => x.pc + 1 \in DOMAIN text
         /\ Moves(text, x) => Step(text, x) \in Cells(text)
<1>1. DOMAIN text = 1..Len(text) /\ Len(text) \in Nat
  BY DEF Runnable, IsSomeSequence
<1>2. x.pc \in DOMAIN text /\ x.rax \in Nat /\ x.zero \in BOOLEAN
  BY DEF Cells
<1>3. text[x.pc].op # "ret" => x.pc + 1 \in DOMAIN text
  BY <1>1, <1>2 DEF Runnable
<1>4. ASSUME Takes(text, x)
      PROVE  C!The(DefinitionsIn(text, text[x.pc].label)) \in DOMAIN text
  <2>1. text[x.pc].op \in JumpOps
    BY <1>4 DEF Takes, JumpOps
  <2>2. DefinitionsIn(text, text[x.pc].label) # {}
    BY <1>2, <2>1 DEF Runnable
  <2>3. C!The(DefinitionsIn(text, text[x.pc].label)) \in DefinitionsIn(text, text[x.pc].label)
    BY <2>2 DEF C!The
  <2> QED BY <2>3 DEF DefinitionsIn
<1>5. ASSUME Moves(text, x) PROVE Step(text, x) \in Cells(text)
  <2> DEFINE new == IF Takes(text, x) THEN C!The(DefinitionsIn(text, text[x.pc].label))
                    ELSE x.pc + 1
             value == IF text[x.pc].op = "xor" THEN 0 ELSE x.rax
             flag == IF text[x.pc].op = "cmp" THEN x.rax % EaxRange = text[x.pc].with
                     ELSE IF text[x.pc].op = "xor" THEN TRUE ELSE x.zero
  <2>1. new \in DOMAIN text
    BY <1>3, <1>4, <1>5 DEF Moves
  <2>2. value \in Nat
    BY <1>2
  <2>3. flag \in BOOLEAN
    BY <1>2
  <2>4. Step(text, x) = [pc |-> new, rax |-> value, zero |-> flag]
    BY DEF Step
  <2> HIDE DEF new, value, flag
  <2> QED BY <2>1, <2>2, <2>3, <2>4 DEF Cells
<1> QED BY <1>3, <1>5

LEMMA CellsAreClosed ==
  ASSUME NEW text, Runnable(text)
  PROVE  Closed(text, Cells(text))
BY StepIsCell DEF Closed

LEMMA ReachesItself ==
  ASSUME NEW text, NEW x PROVE Reaches(text, x, x)
BY DEF Reaches

LEMMA ReachesCells ==
  ASSUME NEW text, Runnable(text), NEW x \in Cells(text), NEW y, Reaches(text, x, y)
  PROVE  y \in Cells(text)
BY CellsAreClosed DEF Reaches

LEMMA ReachesOn ==
  ASSUME NEW text, NEW x, NEW y, Reaches(text, x, y), NEW z, Reaches(text, y, z)
  PROVE  Reaches(text, x, z)
BY DEF Reaches

LEMMA ReachesNext ==
  ASSUME NEW text, NEW x, Moves(text, x)
  PROVE  Reaches(text, x, Step(text, x))
BY DEF Reaches, Closed

\* From a state that has moved on, what it comes to is still to come.
LEMMA ReachesFromNext ==
  ASSUME NEW text, Runnable(text), NEW x \in Cells(text), Moves(text, x),
         NEW z, Reaches(text, x, z), z # x
  PROVE  Reaches(text, Step(text, x), z)
<1>1. SUFFICES ASSUME NEW S \in SUBSET Cells(text), Step(text, x) \in S, Closed(text, S)
               PROVE  z \in S
  BY DEF Reaches
<1>2. S \cup {x} \in SUBSET Cells(text) /\ Closed(text, S \cup {x})
  BY <1>1 DEF Closed
<1>3. z \in S \cup {x}
  BY <1>2 DEF Reaches
<1> QED BY <1>3

\* All that comes of a state goes on to the one it stops at.
LEMMA ReachesItsEnd ==
  ASSUME NEW text, Runnable(text), NEW x \in Cells(text),
         NEW z, Reaches(text, x, z), ~Moves(text, z), NEW y, Reaches(text, x, y)
  PROVE  Reaches(text, y, z)
<1> DEFINE S == {u \in Cells(text) : Reaches(text, u, z)}
<1>1. Closed(text, S)
  <2>1. SUFFICES ASSUME NEW u \in S, Moves(text, u) PROVE Step(text, u) \in S
    BY DEF Closed
  <2>2. u \in Cells(text) /\ Reaches(text, u, z) /\ u # z
    BY <2>1
  <2>3. Reaches(text, Step(text, u), z)
    BY <2>1, <2>2, ReachesFromNext
  <2>4. Step(text, u) \in Cells(text)
    BY <2>1, <2>2, StepIsCell
  <2> QED BY <2>3, <2>4
<1>2. x \in S /\ S \in SUBSET Cells(text)
  OBVIOUS
<1>3. y \in S
  BY <1>1, <1>2 DEF Reaches
<1> QED BY <1>3

LEMMA StopsAtItself ==
  ASSUME NEW text, NEW x \in Cells(text), ~Moves(text, x), NEW y, Reaches(text, x, y)
  PROVE  y = x
<1>1. {x} \in SUBSET Cells(text) /\ x \in {x} /\ Closed(text, {x})
  BY DEF Closed
<1> QED BY <1>1 DEF Reaches

LEMMA StopsAtOne ==
  ASSUME NEW text, Runnable(text), NEW x \in Cells(text),
         NEW y, Reaches(text, x, y), ~Moves(text, y),
         NEW z, Reaches(text, x, z), ~Moves(text, z)
  PROVE  y = z
<1>1. y \in Cells(text) /\ Reaches(text, y, z)
  BY ReachesCells, ReachesItsEnd
<1> QED BY <1>1, StopsAtItself

-----------------------------------------------------------------------------
(***************************************************************************)
(* Where a state comes to, with what is in rax as it was.                  *)
(***************************************************************************)
Leads(text, x, i) ==
  \E y \in Cells(text) : Reaches(text, x, y) /\ y.pc = i /\ y.rax = x.rax

LEMMA LeadsItself ==
  ASSUME NEW text, NEW x \in Cells(text) PROVE Leads(text, x, x.pc)
BY ReachesItself DEF Leads

LEMMA LeadsOn ==
  ASSUME NEW text, NEW x, NEW i, Leads(text, x, i), NEW j,
         \A y \in Cells(text) : y.pc = i => Leads(text, y, j)
  PROVE  Leads(text, x, j)
<1>1. PICK y \in Cells(text) : Reaches(text, x, y) /\ y.pc = i /\ y.rax = x.rax
  BY DEF Leads
<1>2. PICK z \in Cells(text) : Reaches(text, y, z) /\ z.pc = j /\ z.rax = y.rax
  BY <1>1 DEF Leads
<1> QED BY <1>1, <1>2, ReachesOn DEF Leads

\* The instruction at i is the only one of t.
Instr(text, i, t) == i \in DOMAIN text /\ i \in Nat /\ <<text[i]>> = t

LEMMA LabelAt ==
  ASSUME NEW text, NEW i, NEW l, Instr(text, i, Label(l))
  PROVE  i \in DOMAIN text /\ i \in Nat /\ text[i].op = "label" /\ text[i].label = l
<1>1. i \in DOMAIN text /\ i \in Nat /\ text[i] = [op |-> "label", label |-> l]
  BY DEF Instr, Label
<1> QED BY <1>1

LEMMA JumpAt ==
  ASSUME NEW text, NEW i, NEW op, NEW l, Instr(text, i, Jump(op, l))
  PROVE  i \in DOMAIN text /\ i \in Nat /\ text[i].op = op /\ text[i].label = l
<1>1. i \in DOMAIN text /\ i \in Nat /\ text[i] = [op |-> op, label |-> l]
  BY DEF Instr, Jump
<1> QED BY <1>1

LEMMA CompareAt ==
  ASSUME NEW text, NEW i, NEW v, Instr(text, i, CmpEax(v))
  PROVE  i \in DOMAIN text /\ i \in Nat /\ text[i].op = "cmp" /\ text[i].with = v
<1>1. i \in DOMAIN text /\ i \in Nat /\ text[i] = [op |-> "cmp", with |-> v]
  BY DEF Instr, CmpEax
<1> QED BY <1>1

LEMMA EvalAt ==
  ASSUME NEW text, NEW i, NEW p, NEW role, Instr(text, i, Eval(p, role))
  PROVE  /\ i \in DOMAIN text /\ i \in Nat /\ text[i].op = "eval"
         /\ text[i].at = p /\ text[i].role = role
<1>1. i \in DOMAIN text /\ i \in Nat /\ text[i] = [op |-> "eval", at |-> p, role |-> role]
  BY DEF Instr, Eval
<1> QED BY <1>1

LEMMA XorAndRetAt ==
  ASSUME NEW text, NEW i
  PROVE  /\ Instr(text, i, XorEax) => i \in DOMAIN text /\ i \in Nat /\ text[i].op = "xor"
         /\ Instr(text, i, Ret) => i \in DOMAIN text /\ i \in Nat /\ text[i].op = "ret"
<1>1. /\ Instr(text, i, XorEax) => i \in DOMAIN text /\ i \in Nat /\ text[i] = [op |-> "xor"]
      /\ Instr(text, i, Ret) => i \in DOMAIN text /\ i \in Nat /\ text[i] = [op |-> "ret"]
  BY DEF Instr, XorEax, Ret
<1> QED BY <1>1

LEMMA LabelLeads ==
  ASSUME NEW text, Runnable(text), NEW i, NEW l, Instr(text, i, Label(l)),
         NEW x \in Cells(text), x.pc = i
  PROVE  Leads(text, x, i + 1)
<1>1. text[x.pc].op = "label"
  BY LabelAt
<1>2. Moves(text, x) /\ ~Takes(text, x)
  BY <1>1 DEF Moves, Takes
<1>3. Step(text, x) \in Cells(text) /\ Reaches(text, x, Step(text, x))
  BY <1>2, StepIsCell, ReachesNext
<1>4. Step(text, x).pc = i + 1 /\ Step(text, x).rax = x.rax
  BY <1>1, <1>2 DEF Step
<1> QED BY <1>3, <1>4 DEF Leads

LEMMA OneDefinition ==
  ASSUME NEW text, Runnable(text), NEW i, NEW l, Instr(text, i, Label(l))
  PROVE  DefinitionsIn(text, l) = {i} /\ C!The(DefinitionsIn(text, l)) = i
<1>1. DefinitionsIn(text, l) = {i}
  BY LabelAt DEF DefinitionsIn, Runnable
<1> QED BY <1>1, TheOnlyOne

\* A jump that is taken, to a label that is at k; one that is not goes on.
LEMMA JumpLeads ==
  ASSUME NEW text, Runnable(text), NEW i, NEW op, NEW l,
         Instr(text, i, Jump(op, l)), op \in JumpOps,
         NEW k, Instr(text, k, Label(l)),
         NEW x \in Cells(text), x.pc = i
  PROVE  /\ op = "jmp" \/ (op = "je" /\ x.zero) \/ (op = "jne" /\ ~x.zero) => Leads(text, x, k)
         /\ (op = "je" /\ ~x.zero) \/ (op = "jne" /\ x.zero) => Leads(text, x, i + 1)
<1>1. text[x.pc].op = op /\ text[x.pc].label = l /\ op \in {"jmp", "je", "jne"}
  BY JumpAt DEF JumpOps
<1>2. Moves(text, x)
  BY <1>1 DEF Moves
<1>3. Step(text, x) \in Cells(text) /\ Reaches(text, x, Step(text, x))
  BY <1>2, StepIsCell, ReachesNext
<1>4. C!The(DefinitionsIn(text, l)) = k
  BY OneDefinition
<1>5. ASSUME op = "jmp" \/ (op = "je" /\ x.zero) \/ (op = "jne" /\ ~x.zero)
      PROVE  Leads(text, x, k)
  <2>1. Takes(text, x)
    BY <1>1, <1>5 DEF Takes
  <2>2. Step(text, x).pc = k /\ Step(text, x).rax = x.rax
    BY <1>1, <1>4, <2>1 DEF Step
  <2> QED BY <1>3, <2>2 DEF Leads
<1>6. ASSUME (op = "je" /\ ~x.zero) \/ (op = "jne" /\ x.zero)
      PROVE  Leads(text, x, i + 1)
  <2>1. ~Takes(text, x)
    BY <1>1, <1>6 DEF Takes
  <2>2. Step(text, x).pc = i + 1 /\ Step(text, x).rax = x.rax
    BY <1>1, <2>1 DEF Step
  <2> QED BY <1>3, <2>2 DEF Leads
<1> QED BY <1>5, <1>6

\* A compare and the jump behind it, to a label that is at k.
LEMMA CompareLeads ==
  ASSUME NEW text, Runnable(text), NEW i, NEW v, Instr(text, i, CmpEax(v)),
         NEW op, op \in {"je", "jne"}, NEW l, Instr(text, i + 1, Jump(op, l)),
         NEW k, Instr(text, k, Label(l)),
         NEW x \in Cells(text), x.pc = i
  PROVE  /\ (op = "je") = (x.rax % EaxRange = v) => Leads(text, x, k)
         /\ (op = "je") # (x.rax % EaxRange = v) => Leads(text, x, i + 2)
<1>1. text[x.pc].op = "cmp" /\ text[x.pc].with = v /\ i \in Nat
  BY CompareAt
<1>2. Moves(text, x) /\ ~Takes(text, x)
  BY <1>1 DEF Moves, Takes
<1> DEFINE y == Step(text, x)
<1>3. y \in Cells(text) /\ Reaches(text, x, y)
  BY <1>2, StepIsCell, ReachesNext
<1>4. y.pc = i + 1 /\ y.rax = x.rax /\ y.zero = (x.rax % EaxRange = v)
  BY <1>1, <1>2 DEF Step
<1> HIDE DEF y
<1>5. /\ (op = "je" /\ y.zero) \/ (op = "jne" /\ ~y.zero) => Leads(text, y, k)
      /\ (op = "je" /\ ~y.zero) \/ (op = "jne" /\ y.zero) => Leads(text, y, i + 1 + 1)
  BY <1>3, <1>4, JumpLeads DEF JumpOps
<1>6. \A j : Leads(text, y, j) => Leads(text, x, j)
  BY <1>3, <1>4, ReachesOn DEF Leads
<1>7. i + 1 + 1 = i + 2
  BY <1>1
<1> QED BY <1>4, <1>5, <1>6, <1>7


-----------------------------------------------------------------------------
(***************************************************************************)
(* The instructions of each statement, by where they are.                  *)
(***************************************************************************)
LEMMA HoldsSplit ==
  ASSUME NEW text, NEW i, NEW j, NEW a, IsSomeSequence(a), NEW b, IsSomeSequence(b),
         Holds(text, i, a \o b, j)
  PROVE  /\ Holds(text, i, a, i + Len(a)) /\ Holds(text, i + Len(a), b, j)
         /\ i \in Nat /\ j \in Nat
<1>1. /\ Len(a) \in Nat /\ Len(b) \in Nat /\ Len(a \o b) = Len(a) + Len(b)
      /\ \A k \in 1..Len(a) : (a \o b)[k] = a[k]
      /\ \A k \in 1..Len(b) : (a \o b)[Len(a) + k] = b[k]
  BY JoinedAt, JoinedTexts
<1>2. /\ i \in Nat \ {0} /\ j = i + (Len(a) + Len(b)) /\ j <= Len(text) + 1
      /\ \A k \in 1 .. Len(a) + Len(b) : text[i + k - 1] = (a \o b)[k]
  BY <1>1 DEF Holds
<1>3. ASSUME NEW k \in 1..Len(a) PROVE text[i + k - 1] = a[k]
  <2>1. k \in 1 .. Len(a) + Len(b)
    BY <1>1
  <2> QED BY <1>1, <1>2, <2>1
<1>4. ASSUME NEW k \in 1..Len(b) PROVE text[(i + Len(a)) + k - 1] = b[k]
  <2>1. Len(a) + k \in 1 .. Len(a) + Len(b) /\ (i + Len(a)) + k - 1 = i + (Len(a) + k) - 1
    BY <1>1, <1>2
  <2> QED BY <1>1, <1>2, <2>1
<1>5. i + Len(a) <= Len(text) + 1
  <2>1. Len(a) <= Len(a) + Len(b)
    BY <1>1
  <2> DEFINE n == Len(text) + 1
  <2>2. i + (Len(a) + Len(b)) <= n
    BY <1>2
  <2>3. n \in Int \/ n \notin Int
    OBVIOUS
  <2> QED BY <1>1, <1>2, <2>1, <2>2
<1> QED BY <1>1, <1>2, <1>3, <1>4, <1>5 DEF Holds

LEMMA HoldsOne ==
  ASSUME NEW text, IsSomeSequence(text), NEW i, NEW j, NEW r, Holds(text, i, <<r>>, j)
  PROVE  Instr(text, i, <<r>>) /\ j = i + 1 /\ i \in Nat /\ j \in Nat
<1>1. /\ i \in Nat \ {0} /\ j = i + 1 /\ j <= Len(text) + 1 /\ text[i + 1 - 1] = r
      /\ Len(text) \in Nat /\ DOMAIN text = 1..Len(text)
  BY DEF Holds, IsSomeSequence
<1> QED BY <1>1 DEF Instr

LEMMA HoldsNothing ==
  ASSUME NEW text, NEW i, NEW j, Holds(text, i, << >>, j)
  PROVE  i = j /\ i \in Nat
BY DEF Holds

LEMMA HoldsInstruction ==
  ASSUME NEW text, IsSomeSequence(text), NEW i, NEW j
  PROVE  /\ \A l : Holds(text, i, Label(l), j) => Instr(text, i, Label(l)) /\ j = i + 1 /\ i \in Nat
         /\ \A op, l : Holds(text, i, Jump(op, l), j) =>
              Instr(text, i, Jump(op, l)) /\ j = i + 1 /\ i \in Nat
         /\ \A v : Holds(text, i, CmpEax(v), j) =>
              Instr(text, i, CmpEax(v)) /\ j = i + 1 /\ i \in Nat
         /\ \A p, role : Holds(text, i, Eval(p, role), j) =>
              Instr(text, i, Eval(p, role)) /\ j = i + 1 /\ i \in Nat
         /\ Holds(text, i, XorEax, j) => Instr(text, i, XorEax) /\ j = i + 1 /\ i \in Nat
         /\ Holds(text, i, Ret, j) => Instr(text, i, Ret) /\ j = i + 1 /\ i \in Nat
BY HoldsOne DEF Label, Jump, CmpEax, Eval, XorEax, Ret

LEMMA HoldsFirst ==
  ASSUME NEW text, NEW i, NEW j, NEW a, NEW b, IsSomeSequence(a), Len(a) = 1,
         IsSomeSequence(b), Holds(text, i, a \o b, j)
  PROVE  Holds(text, i, a, i + 1) /\ Holds(text, i + 1, b, j) /\ i \in Nat /\ j \in Nat
BY HoldsSplit

LEMMA PieceLaid ==
  ASSUME NEW tree, NEW text, NEW L, IsLayout(tree, text, L), NEW p \in DOMAIN tree,
         NEW n \in 0..tree[p].kids
  PROVE  /\ IsSomeSequence(text)
         /\ Holds(text, StartOf(L, p, n), Piece(tree, L, p, n), EndOf(tree, L, p, n))
BY DEF IsLayout, PieceThere

\* The pieces of a statement with one inside of it, and those of one with none.
LEMMA PiecesLaid ==
  ASSUME NEW tree, WellFormed(tree), NEW text, NEW L, IsLayout(tree, text, L),
         NEW p \in DOMAIN tree
  PROVE  /\ IsSomeSequence(text)
         /\ tree[p].kids = 0 => Holds(text, L.from[p], EndText(tree, L, p), L.to[p])
         /\ tree[p].kids # 0 =>
              /\ Holds(text, L.from[p], FrontText(tree, L, p), L.from[Kid(p, 1)])
              /\ Holds(text, L.to[Kid(p, tree[p].kids)], EndText(tree, L, p), L.to[p])
              /\ \A n \in 1 .. tree[p].kids - 1 :
                   Holds(text, L.to[Kid(p, n)], BetweenText(tree, L, p), L.from[Kid(p, n + 1)])
<1>1. tree[p].kids \in Nat
  BY KidIsThere
<1>2. \A n \in 0..tree[p].kids :
        /\ IsSomeSequence(text)
        /\ Holds(text, StartOf(L, p, n), Piece(tree, L, p, n), EndOf(tree, L, p, n))
  BY PieceLaid
<1>3. 0 \in 0..tree[p].kids /\ tree[p].kids \in 0..tree[p].kids
  BY <1>1
<1>4. IsSomeSequence(text)
  BY <1>2, <1>3
<1>5. ASSUME tree[p].kids = 0
      PROVE  Holds(text, L.from[p], EndText(tree, L, p), L.to[p])
  BY <1>2, <1>3, <1>5 DEF StartOf, Piece, EndOf
<1>6. ASSUME tree[p].kids # 0
      PROVE  /\ Holds(text, L.from[p], FrontText(tree, L, p), L.from[Kid(p, 1)])
             /\ Holds(text, L.to[Kid(p, tree[p].kids)], EndText(tree, L, p), L.to[p])
  <2>1. /\ StartOf(L, p, 0) = L.from[p] /\ EndOf(tree, L, p, 0) = L.from[Kid(p, 0 + 1)]
        /\ Piece(tree, L, p, 0) = FrontText(tree, L, p)
    BY <1>6 DEF StartOf, Piece, EndOf
  <2>2. /\ StartOf(L, p, tree[p].kids) = L.to[Kid(p, tree[p].kids)]
        /\ EndOf(tree, L, p, tree[p].kids) = L.to[p]
        /\ Piece(tree, L, p, tree[p].kids) = EndText(tree, L, p)
    BY <1>6 DEF StartOf, Piece, EndOf
  <2>3. 0 + 1 = 1
    OBVIOUS
  <2> QED BY <1>2, <1>3, <2>1, <2>2, <2>3
<1>7. ASSUME NEW n \in 1 .. tree[p].kids - 1
      PROVE  Holds(text, L.to[Kid(p, n)], BetweenText(tree, L, p), L.from[Kid(p, n + 1)])
  <2>1. n \in 0..tree[p].kids /\ n # 0 /\ n # tree[p].kids
    BY <1>1
  <2>2. /\ StartOf(L, p, n) = L.to[Kid(p, n)] /\ EndOf(tree, L, p, n) = L.from[Kid(p, n + 1)]
        /\ Piece(tree, L, p, n) = BetweenText(tree, L, p)
    BY <2>1 DEF StartOf, Piece, EndOf
  <2> QED BY <1>2, <2>1, <2>2
<1> QED BY <1>4, <1>5, <1>6, <1>7

LEMMA TestLaid ==
  ASSUME NEW text, IsSomeSequence(text), NEW i, NEW j, NEW p, NEW l,
         Holds(text, i, TestAndSkip(p, l), j)
  PROVE  /\ Instr(text, i, Eval(p, "test")) /\ Instr(text, i + 1, CmpEax(0))
         /\ Instr(text, i + 2, Jump("je", l)) /\ j = i + 3 /\ i \in Nat
<1> DEFINE a == Eval(p, "test")
           b == CmpEax(0)
           c == Jump("je", l)
<1>1. /\ IsSomeSequence(a) /\ Len(a) = 1 /\ IsSomeSequence(b) /\ Len(b) = 1
      /\ IsSomeSequence(c) /\ Len(c) = 1 /\ Holds(text, i, (a \o b) \o c, j)
  BY ShortTexts DEF TestAndSkip
<1>2. /\ \A m, n : Holds(text, m, a, n) => Instr(text, m, a) /\ n = m + 1 /\ m \in Nat
      /\ \A m, n : Holds(text, m, b, n) => Instr(text, m, b) /\ n = m + 1 /\ m \in Nat
      /\ \A m, n : Holds(text, m, c, n) => Instr(text, m, c) /\ n = m + 1 /\ m \in Nat
  BY HoldsInstruction
<1> HIDE DEF a, b, c
<1>3. IsSomeSequence(a \o b) /\ Len(a \o b) = 2
  <2>1. IsSomeSequence(a) /\ IsSomeSequence(b) /\ Len(a) = 1 /\ Len(b) = 1
    BY <1>1
  <2>2. IsSomeSequence(a \o b) /\ Len(a \o b) = Len(a) + Len(b)
    BY <2>1, JoinedTexts
  <2> QED BY <2>1, <2>2
<1>4. Holds(text, i, a \o b, i + 2) /\ Holds(text, i + 2, c, j)
  BY <1>1, <1>3, HoldsSplit
<1>5. Holds(text, i, a, i + 1) /\ Holds(text, i + 1, b, i + 2)
  BY <1>1, <1>4, HoldsFirst
<1>6. Instr(text, i, a) /\ Instr(text, i + 1, b) /\ Instr(text, i + 2, c) /\ j = (i + 2) + 1 /\ i \in Nat
  BY <1>2, <1>4, <1>5
<1>7. (i + 2) + 1 = i + 3
  BY <1>6
<1> QED BY <1>6, <1>7 DEF a, b, c


-----------------------------------------------------------------------------
(***************************************************************************)
(* Where the machine gets to by itself from one place of the text, and     *)
(* from behind a test of the value in rax.                                 *)
(***************************************************************************)
Goes(text, i, j) == \A x \in Cells(text) : x.pc = i => Leads(text, x, j)
Tests(text, i, yes, no) ==
  \A x \in Cells(text) : x.pc = i =>
    /\ x.rax % EaxRange # 0 => Leads(text, x, yes)
    /\ x.rax % EaxRange = 0 => Leads(text, x, no)
IsOne(a) == \E r : a = <<r>>

LEMMA GoesNowhere ==
  ASSUME NEW text, NEW i PROVE Goes(text, i, i)
BY LeadsItself DEF Goes

LEMMA GoesOn ==
  ASSUME NEW text, NEW i, NEW j, Goes(text, i, j), NEW k, Goes(text, j, k)
  PROVE  Goes(text, i, k)
<1>1. ASSUME NEW x \in Cells(text), x.pc = i PROVE Leads(text, x, k)
  <2>1. Leads(text, x, j) /\ \A y \in Cells(text) : y.pc = j => Leads(text, y, k)
    BY <1>1 DEF Goes
  <2> QED BY <2>1, LeadsOn
<1> QED BY <1>1 DEF Goes

LEMMA TestsOn ==
  ASSUME NEW text, NEW i, NEW yes, NEW no, Tests(text, i, yes, no),
         NEW on, Goes(text, yes, on), NEW off, Goes(text, no, off)
  PROVE  Tests(text, i, on, off)
<1>1. /\ \A y \in Cells(text) : y.pc = yes => Leads(text, y, on)
      /\ \A y \in Cells(text) : y.pc = no => Leads(text, y, off)
  BY DEF Goes
<1>2. \A x : Leads(text, x, yes) => Leads(text, x, on)
  BY <1>1, LeadsOn
<1>3. \A x : Leads(text, x, no) => Leads(text, x, off)
  BY <1>1, LeadsOn
<1> QED BY <1>2, <1>3 DEF Tests

LEMMA LabelGoes ==
  ASSUME NEW text, Runnable(text), NEW i, NEW l, Instr(text, i, Label(l))
  PROVE  Goes(text, i, i + 1)
BY LabelLeads DEF Goes

LEMMA JumpGoes ==
  ASSUME NEW text, Runnable(text), NEW i, NEW l, Instr(text, i, Jump("jmp", l)),
         NEW k, Instr(text, k, Label(l))
  PROVE  Goes(text, i, k) /\ Goes(text, i, k + 1)
<1>1. ASSUME NEW x \in Cells(text), x.pc = i PROVE Leads(text, x, k)
  BY <1>1, JumpLeads DEF JumpOps
<1>2. Goes(text, i, k)
  BY <1>1 DEF Goes
<1> QED BY <1>2, LabelGoes, GoesOn

\* A condition that is zero skips.
LEMMA SkipTests ==
  ASSUME NEW text, Runnable(text), NEW i, Instr(text, i, CmpEax(0)),
         NEW l, Instr(text, i + 1, Jump("je", l)), NEW k, Instr(text, k, Label(l))
  PROVE  Tests(text, i, i + 2, k)
<1>1. ASSUME NEW x \in Cells(text), x.pc = i
      PROVE  /\ x.rax % EaxRange = 0 => Leads(text, x, k)
             /\ x.rax % EaxRange # 0 => Leads(text, x, i + 2)
  <2> DEFINE op == "je"
  <2>1. op = "je" /\ op \in {"je", "jne"} /\ Instr(text, i + 1, Jump(op, l))
    OBVIOUS
  <2> HIDE DEF op
  <2>2. /\ (op = "je") = (x.rax % EaxRange = 0) => Leads(text, x, k)
        /\ (op = "je") # (x.rax % EaxRange = 0) => Leads(text, x, i + 2)
    BY <1>1, <2>1, CompareLeads
  <2> QED BY <2>1, <2>2
<1> QED BY <1>1 DEF Tests

LEMMA BackTests ==
  ASSUME NEW text, Runnable(text), NEW i, Instr(text, i, CmpEax(0)),
         NEW l, Instr(text, i + 1, Jump("jne", l)), NEW k, Instr(text, k, Label(l))
  PROVE  Tests(text, i, k, i + 2)
<1>1. ASSUME NEW x \in Cells(text), x.pc = i
      PROVE  /\ x.rax % EaxRange = 0 => Leads(text, x, i + 2)
             /\ x.rax % EaxRange # 0 => Leads(text, x, k)
  <2> DEFINE op == "jne"
  <2>1. op # "je" /\ op \in {"je", "jne"} /\ Instr(text, i + 1, Jump(op, l))
    OBVIOUS
  <2> HIDE DEF op
  <2>2. /\ (op = "je") = (x.rax % EaxRange = 0) => Leads(text, x, k)
        /\ (op = "je") # (x.rax % EaxRange = 0) => Leads(text, x, i + 2)
    BY <1>1, <2>1, CompareLeads
  <2> QED BY <2>1, <2>2
<1> QED BY <1>1 DEF Tests

-----------------------------------------------------------------------------
(***************************************************************************)
(* The instructions of a text of a few.                                    *)
(***************************************************************************)
LEMMA Ones ==
  /\ \A l : IsOne(Label(l))
  /\ \A op, l : IsOne(Jump(op, l))
  /\ \A v : IsOne(CmpEax(v))
  /\ \A p, role : IsOne(Eval(p, role))
  /\ IsOne(XorEax) /\ IsOne(Ret)
BY DEF IsOne, Label, Jump, CmpEax, Eval, XorEax, Ret

LEMMA OneAt ==
  ASSUME NEW text, IsSomeSequence(text), NEW i, NEW j, NEW a, IsOne(a), Holds(text, i, a, j)
  PROVE  Instr(text, i, a) /\ j = i + 1 /\ i \in Nat
BY HoldsOne DEF IsOne

LEMMA OneIsShort ==
  ASSUME NEW a, IsOne(a) PROVE IsSomeSequence(a) /\ Len(a) = 1
<1>1. PICK r : a = <<r>>
  BY DEF IsOne
<1>2. <<r>> \in Seq({r}) /\ Len(<<r>>) = 1
  OBVIOUS
<1> QED BY <1>1, <1>2 DEF IsSomeSequence

\* The first of some instructions, and the last.
LEMMA FirstAt ==
  ASSUME NEW text, IsSomeSequence(text), NEW i, NEW j, NEW a, IsOne(a),
         NEW b, IsSomeSequence(b), Holds(text, i, a \o b, j)
  PROVE  Instr(text, i, a) /\ Holds(text, i + 1, b, j) /\ i \in Nat
<1>1. IsSomeSequence(a) /\ Len(a) = 1
  BY OneIsShort
<1>2. Holds(text, i, a, i + 1) /\ Holds(text, i + 1, b, j)
  BY <1>1, HoldsFirst
<1> QED BY <1>2, OneAt

LEMMA LastAt ==
  ASSUME NEW text, IsSomeSequence(text), NEW i, NEW j, NEW a, IsSomeSequence(a),
         NEW b, IsOne(b), Holds(text, i, a \o b, j)
  PROVE  /\ Holds(text, i, a, i + Len(a)) /\ Instr(text, i + Len(a), b)
         /\ j = (i + Len(a)) + 1 /\ i \in Nat /\ Len(a) \in Nat
<1>1. IsSomeSequence(b) /\ Len(b) = 1
  BY OneIsShort
<1>2. /\ Holds(text, i, a, i + Len(a)) /\ Holds(text, i + Len(a), b, j)
      /\ i \in Nat
  BY <1>1, HoldsSplit
<1>3. Len(a) \in Nat
  BY DEF IsSomeSequence
<1> QED BY <1>2, <1>3, OneAt

LEMMA TwoAt ==
  ASSUME NEW text, IsSomeSequence(text), NEW i, NEW j,
         NEW a, IsOne(a), NEW b, IsOne(b), Holds(text, i, a \o b, j)
  PROVE  Instr(text, i, a) /\ Instr(text, i + 1, b) /\ j = i + 2 /\ i \in Nat
<1>1. IsSomeSequence(b)
  BY OneIsShort
<1>2. Instr(text, i, a) /\ Holds(text, i + 1, b, j) /\ i \in Nat
  BY <1>1, FirstAt
<1>3. Instr(text, i + 1, b) /\ j = i + 1 + 1
  BY <1>2, OneAt
<1> QED BY <1>2, <1>3

LEMMA TwoAreShort ==
  ASSUME NEW a, IsOne(a), NEW b, IsOne(b)
  PROVE  IsSomeSequence(a \o b) /\ Len(a \o b) = 2
<1>1. IsSomeSequence(a) /\ Len(a) = 1 /\ IsSomeSequence(b) /\ Len(b) = 1
  BY OneIsShort
<1>2. IsSomeSequence(a \o b) /\ Len(a \o b) = Len(a) + Len(b)
  BY <1>1, JoinedTexts
<1> QED BY <1>1, <1>2

LEMMA ThreeAt ==
  ASSUME NEW text, IsSomeSequence(text), NEW i, NEW j,
         NEW a, IsOne(a), NEW b, IsOne(b), NEW c, IsOne(c), Holds(text, i, a \o b \o c, j)
  PROVE  /\ Instr(text, i, a) /\ Instr(text, i + 1, b) /\ Instr(text, i + 2, c)
         /\ j = i + 3 /\ i \in Nat
<1> DEFINE ab == a \o b
<1>1. IsSomeSequence(ab) /\ Len(ab) = 2 /\ Holds(text, i, ab \o c, j)
  BY TwoAreShort
<1> HIDE DEF ab
<1>2. /\ Holds(text, i, ab, i + Len(ab)) /\ Instr(text, i + Len(ab), c)
      /\ j = (i + Len(ab)) + 1 /\ i \in Nat
  <2>1. IsSomeSequence(ab) /\ Holds(text, i, ab \o c, j)
    BY <1>1
  <2> QED BY <2>1, LastAt
<1>3. Holds(text, i, a \o b, i + 2)
  <2>1. Holds(text, i, ab, i + 2)
    BY <1>1, <1>2
  <2> QED BY <2>1 DEF ab
<1>4. Instr(text, i, a) /\ Instr(text, i + 1, b)
  BY <1>3, TwoAt
<1> QED BY <1>1, <1>2, <1>4

LEMMA ThreeAreShort ==
  ASSUME NEW a, IsOne(a), NEW b, IsOne(b), NEW c, IsOne(c)
  PROVE  IsSomeSequence(a \o b \o c) /\ Len(a \o b \o c) = 3
<1> DEFINE ab == a \o b
<1>1. IsSomeSequence(ab) /\ Len(ab) = 2
  BY TwoAreShort
<1> HIDE DEF ab
<1>2. IsSomeSequence(c) /\ Len(c) = 1
  BY OneIsShort
<1>3. IsSomeSequence(ab \o c) /\ Len(ab \o c) = Len(ab) + Len(c)
  BY <1>1, <1>2, JoinedTexts
<1>4. IsSomeSequence(ab \o c) /\ Len(ab \o c) = 3
  BY <1>1, <1>2, <1>3
<1> QED BY <1>4 DEF ab

LEMMA FourAt ==
  ASSUME NEW text, IsSomeSequence(text), NEW i, NEW j,
         NEW a, IsOne(a), NEW b, IsOne(b), NEW c, IsOne(c), NEW d, IsOne(d),
         Holds(text, i, a \o b \o c \o d, j)
  PROVE  /\ Instr(text, i, a) /\ Instr(text, i + 1, b) /\ Instr(text, i + 2, c)
         /\ Instr(text, i + 3, d) /\ j = i + 4 /\ i \in Nat
<1> DEFINE abc == a \o b \o c
<1>1. IsSomeSequence(abc) /\ Len(abc) = 3 /\ Holds(text, i, abc \o d, j)
  BY ThreeAreShort
<1> HIDE DEF abc
<1>2. /\ Holds(text, i, abc, i + Len(abc)) /\ Instr(text, i + Len(abc), d)
      /\ j = (i + Len(abc)) + 1 /\ i \in Nat
  <2>1. IsSomeSequence(abc) /\ Holds(text, i, abc \o d, j)
    BY <1>1
  <2> QED BY <2>1, LastAt
<1>3. Holds(text, i, a \o b \o c, i + 3)
  <2>1. Holds(text, i, abc, i + 3)
    BY <1>1, <1>2
  <2> QED BY <2>1 DEF abc
<1>4. Instr(text, i, a) /\ Instr(text, i + 1, b) /\ Instr(text, i + 2, c)
  BY <1>3, ThreeAt
<1> QED BY <1>1, <1>2, <1>4


-----------------------------------------------------------------------------
(***************************************************************************)
(* What the text of each statement does, by the places where the texts of  *)
(* the statements inside of it begin and end.                              *)
(***************************************************************************)
Compiled(tree, text, L) ==
  /\ WellFormed(tree) /\ SemaAccepts(tree) /\ HasItsLabels(tree, text)
  /\ IsLayout(tree, text, L) /\ Runnable(text)

LEMMA KidsOfKinds ==
  ASSUME NEW tree, WellFormed(tree), NEW p \in DOMAIN tree
  PROVE  /\ tree[p].kind \in Kinds /\ tree[p].kids \in Nat
         /\ tree[p].kind \in LeafKinds => tree[p].kids = 0
         /\ tree[p].kind \in {"while", "do", "switch", "case", "default", "label"} =>
              tree[p].kids = 1
         /\ tree[p].kind = "if" => tree[p].kids \in 1..2
         /\ tree[p].kind = "for" => tree[p].kids = IF Has(tree, p, "init") THEN 2 ELSE 1
BY DEF WellFormed

LEMMA LeafRuns ==
  ASSUME NEW tree, NEW text, NEW L, Compiled(tree, text, L),
         NEW p \in DOMAIN tree, tree[p].kind \in LeafKinds
  PROVE  IsSomeSequence(text) /\ Holds(text, L.from[p], EndText(tree, L, p), L.to[p])
BY KidsOfKinds, PiecesLaid DEF Compiled

LEMMA IfRuns ==
  ASSUME NEW tree, NEW text, NEW L, Compiled(tree, text, L),
         NEW p \in DOMAIN tree, tree[p].kind = "if"
  PROVE  /\ Instr(text, L.from[p], Eval(p, "test"))
         /\ Tests(text, L.from[p] + 1, L.from[Kid(p, 1)],
                  IF tree[p].kids = 2 THEN L.from[Kid(p, 2)] ELSE L.to[p])
         /\ \A n \in 1..tree[p].kids : Goes(text, L.to[Kid(p, n)], L.to[p])
<1> DEFINE l == L.labels[p]
           f == L.from[p]
           kids == tree[p].kids
<1>1. kids \in {1, 2} /\ kids # 0 /\ Runnable(text) /\ WellFormed(tree)
  BY KidsOfKinds DEF Compiled
<1>2. /\ IsSomeSequence(text)
      /\ Holds(text, f, FrontText(tree, L, p), L.from[Kid(p, 1)])
      /\ Holds(text, L.to[Kid(p, kids)], EndText(tree, L, p), L.to[p])
      /\ \A n \in 1 .. kids - 1 :
           Holds(text, L.to[Kid(p, n)], BetweenText(tree, L, p), L.from[Kid(p, n + 1)])
  BY <1>1, PiecesLaid DEF Compiled
<1>3. Holds(text, f, TestAndSkip(p, l[1]), L.from[Kid(p, 1)])
  BY <1>2 DEF FrontText
<1>4. Holds(text, L.to[Kid(p, kids)], Label(l[kids]), L.to[p])
  BY <1>2 DEF EndText
<1>5. kids = 2 =>
        Holds(text, L.to[Kid(p, 1)], Jump("jmp", l[2]) \o Label(l[1]), L.from[Kid(p, 2)])
  <2>1. kids = 2 => 1 \in 1 .. kids - 1 /\ 1 + 1 = 2
    OBVIOUS
  <2> QED BY <1>2, <2>1 DEF BetweenText
<1> HIDE DEF l, f, kids
<1>6. /\ Instr(text, f, Eval(p, "test")) /\ Instr(text, f + 1, CmpEax(0))
      /\ Instr(text, f + 2, Jump("je", l[1])) /\ L.from[Kid(p, 1)] = f + 3 /\ f \in Nat
  BY <1>2, <1>3, TestLaid
<1>7. Instr(text, L.to[Kid(p, kids)], Label(l[kids])) /\ L.to[p] = L.to[Kid(p, kids)] + 1
  BY <1>2, <1>4, Ones, OneAt
<1>8. Goes(text, L.to[Kid(p, kids)], L.to[p])
  BY <1>1, <1>7, LabelGoes
<1>9. (f + 1) + 1 = f + 2 /\ (f + 1) + 2 = f + 3
  BY <1>6
<1>10. CASE kids = 2
  <2> DEFINE g == L.to[Kid(p, 1)]
  <2>1. Holds(text, g, Jump("jmp", l[2]) \o Label(l[1]), L.from[Kid(p, 2)])
    BY <1>5, <1>10
  <2> HIDE DEF g
  <2>2. /\ Instr(text, g, Jump("jmp", l[2])) /\ Instr(text, g + 1, Label(l[1]))
        /\ L.from[Kid(p, 2)] = g + 2 /\ g \in Nat
    BY <1>2, <2>1, Ones, TwoAt
  <2>3. Tests(text, f + 1, f + 3, g + 1)
    BY <1>1, <1>6, <1>9, <2>2, SkipTests
  <2>4. Goes(text, g + 1, g + 2)
    <3>1. Goes(text, g + 1, (g + 1) + 1) /\ (g + 1) + 1 = g + 2
      BY <1>1, <2>2, LabelGoes
    <3> QED BY <3>1
  <2>5. Tests(text, f + 1, f + 3, g + 2)
    BY <2>3, <2>4, GoesNowhere, TestsOn
  <2>6. Goes(text, g, L.to[Kid(p, 2)] + 1)
    BY <1>1, <1>7, <1>10, <2>2, JumpGoes
  <2>7. \A n \in 1..2 : n = 1 \/ n = 2
    OBVIOUS
  <2> QED BY <1>6, <1>7, <1>8, <1>10, <2>2, <2>5, <2>6, <2>7 DEF f, kids, g
<1>11. CASE kids = 1
  <2>1. Instr(text, L.to[Kid(p, 1)], Label(l[1])) /\ L.to[p] = L.to[Kid(p, 1)] + 1
    BY <1>7, <1>11
  <2>2. Tests(text, f + 1, f + 3, L.to[Kid(p, 1)])
    BY <1>1, <1>6, <1>9, <2>1, SkipTests
  <2>3. Tests(text, f + 1, f + 3, L.to[p])
    BY <1>8, <1>11, <2>2, GoesNowhere, TestsOn
  <2>4. \A n \in 1..1 : n = 1
    OBVIOUS
  <2> QED BY <1>6, <1>8, <1>11, <2>3, <2>4 DEF f, kids
<1> QED BY <1>1, <1>10, <1>11


\* A break gets behind its loop or switch.
BreakGoesOn(tree, text, L, p) ==
  \E k : Instr(text, k, Label(ExitLabel(tree, L, p))) /\ Goes(text, k, L.to[p])

LEMMA WhileRuns ==
  ASSUME NEW tree, NEW text, NEW L, Compiled(tree, text, L),
         NEW p \in DOMAIN tree, tree[p].kind = "while"
  PROVE  /\ Instr(text, L.from[p], Label(ContinueLabel(tree, L, p)))
         /\ Goes(text, L.from[p], L.from[p] + 1)
         /\ Instr(text, L.from[p] + 1, Eval(p, "test"))
         /\ Tests(text, L.from[p] + 1 + 1, L.from[Kid(p, 1)], L.to[p])
         /\ Goes(text, L.to[Kid(p, 1)], L.from[p])
         /\ BreakGoesOn(tree, text, L, p)
<1> DEFINE l == L.labels[p]
           f == L.from[p]
           g == L.to[Kid(p, 1)]
<1>1. tree[p].kids = 1 /\ Runnable(text) /\ WellFormed(tree)
  BY KidsOfKinds DEF Compiled
<1>2. /\ IsSomeSequence(text)
      /\ Holds(text, f, FrontText(tree, L, p), L.from[Kid(p, 1)])
      /\ Holds(text, g, EndText(tree, L, p), L.to[p])
  BY <1>1, PiecesLaid DEF Compiled
<1>3. Holds(text, f, Label(l[1]) \o TestAndSkip(p, l[2]), L.from[Kid(p, 1)])
  BY <1>2 DEF FrontText
<1>4. Holds(text, g, Jump("jmp", l[1]) \o Label(l[2]), L.to[p])
  BY <1>2 DEF EndText
<1>5. ExitLabel(tree, L, p) = l[2] /\ ContinueLabel(tree, L, p) = l[1]
  BY DEF ExitLabel, ContinueLabel
<1> HIDE DEF l, f, g
<1>6. IsSomeSequence(TestAndSkip(p, l[2]))
  BY Ones, ThreeAreShort DEF TestAndSkip
<1>7. Instr(text, f, Label(l[1])) /\ Holds(text, f + 1, TestAndSkip(p, l[2]), L.from[Kid(p, 1)])
        /\ f \in Nat
  BY <1>2, <1>3, <1>6, Ones, FirstAt
<1> DEFINE e == f + 1
<1>8. Holds(text, e, TestAndSkip(p, l[2]), L.from[Kid(p, 1)])
  BY <1>7
<1>9. Goes(text, f, e)
  BY <1>1, <1>7, LabelGoes
<1> HIDE DEF e
<1>10. /\ Instr(text, e, Eval(p, "test")) /\ Instr(text, e + 1, CmpEax(0))
       /\ Instr(text, e + 2, Jump("je", l[2])) /\ L.from[Kid(p, 1)] = e + 3 /\ e \in Nat
  BY <1>2, <1>8, TestLaid
<1>11. /\ Instr(text, g, Jump("jmp", l[1])) /\ Instr(text, g + 1, Label(l[2]))
       /\ L.to[p] = g + 2 /\ g \in Nat
  BY <1>2, <1>4, Ones, TwoAt
<1>12. (e + 1) + 1 = e + 2 /\ (e + 1) + 2 = e + 3 /\ (g + 1) + 1 = g + 2
  BY <1>10, <1>11
<1>13. Goes(text, g + 1, L.to[p]) /\ Goes(text, g, f)
  <2>1. Goes(text, g + 1, (g + 1) + 1)
    BY <1>1, <1>11, LabelGoes
  <2>2. Goes(text, g, f)
    BY <1>1, <1>7, <1>11, JumpGoes
  <2> QED BY <1>11, <1>12, <2>1, <2>2
<1>14. Tests(text, e + 1, e + 3, L.to[p])
  <2>1. Tests(text, e + 1, e + 3, g + 1)
    BY <1>1, <1>10, <1>11, <1>12, SkipTests
  <2> QED BY <1>13, <2>1, GoesNowhere, TestsOn
<1> QED BY <1>5, <1>7, <1>9, <1>10, <1>11, <1>13, <1>14 DEF e, f, g, BreakGoesOn

LEMMA FiveAt ==
  ASSUME NEW text, IsSomeSequence(text), NEW i, NEW j,
         NEW a, IsOne(a), NEW b, IsOne(b), NEW c, IsOne(c), NEW d, IsOne(d), NEW e, IsOne(e),
         Holds(text, i, a \o b \o c \o d \o e, j)
  PROVE  /\ Instr(text, i, a) /\ Instr(text, i + 1, b) /\ Instr(text, i + 2, c)
         /\ Instr(text, i + 3, d) /\ Instr(text, i + 4, e) /\ j = i + 5 /\ i \in Nat
<1> DEFINE abc == a \o b \o c
           abcd == abc \o d
<1>1. IsSomeSequence(abc) /\ Len(abc) = 3 /\ IsSomeSequence(d) /\ Len(d) = 1
  BY ThreeAreShort, OneIsShort
<1>2. Holds(text, i, abcd \o e, j)
  OBVIOUS
<1> HIDE DEF abc
<1>3. IsSomeSequence(abcd) /\ Len(abcd) = Len(abc) + Len(d)
  BY <1>1, JoinedTexts
<1>4. IsSomeSequence(abcd) /\ Len(abcd) = 4
  BY <1>1, <1>3
<1> HIDE DEF abcd
<1>5. /\ Holds(text, i, abcd, i + Len(abcd)) /\ Instr(text, i + Len(abcd), e)
      /\ j = (i + Len(abcd)) + 1 /\ i \in Nat
  <2>1. IsSomeSequence(abcd) /\ Holds(text, i, abcd \o e, j)
    BY <1>2, <1>4
  <2> QED BY <2>1, LastAt
<1>6. Holds(text, i, abcd, i + 4)
  BY <1>4, <1>5
<1>7. Holds(text, i, a \o b \o c \o d, i + 4)
  BY <1>6 DEF abcd, abc
<1>8. /\ Instr(text, i, a) /\ Instr(text, i + 1, b) /\ Instr(text, i + 2, c)
      /\ Instr(text, i + 3, d)
  BY <1>7, FourAt
<1> QED BY <1>4, <1>5, <1>8

LEMMA DoRuns ==
  ASSUME NEW tree, NEW text, NEW L, Compiled(tree, text, L),
         NEW p \in DOMAIN tree, tree[p].kind = "do"
  PROVE  /\ Goes(text, L.from[p], L.from[Kid(p, 1)])
         /\ Instr(text, L.to[Kid(p, 1)], Label(ContinueLabel(tree, L, p)))
         /\ Goes(text, L.to[Kid(p, 1)], L.to[Kid(p, 1)] + 1)
         /\ Instr(text, L.to[Kid(p, 1)] + 1, Eval(p, "test"))
         /\ Tests(text, L.to[Kid(p, 1)] + 1 + 1, L.from[Kid(p, 1)], L.to[p])
         /\ BreakGoesOn(tree, text, L, p)
<1> DEFINE l == L.labels[p]
           f == L.from[p]
           g == L.to[Kid(p, 1)]
<1>1. tree[p].kids = 1 /\ Runnable(text) /\ WellFormed(tree)
  BY KidsOfKinds DEF Compiled
<1>2. /\ IsSomeSequence(text)
      /\ Holds(text, f, FrontText(tree, L, p), L.from[Kid(p, 1)])
      /\ Holds(text, g, EndText(tree, L, p), L.to[p])
  BY <1>1, PiecesLaid DEF Compiled
<1>3. Holds(text, f, Label(l[1]), L.from[Kid(p, 1)])
  BY <1>2 DEF FrontText
<1>4. Holds(text, g, Label(l[2]) \o Eval(p, "test") \o CmpEax(0) \o Jump("jne", l[1])
                       \o Label(l[3]), L.to[p])
  BY <1>2 DEF EndText
<1>5. ExitLabel(tree, L, p) = l[3] /\ ContinueLabel(tree, L, p) = l[2]
  BY DEF ExitLabel, ContinueLabel
<1> HIDE DEF l, f, g
<1>6. Instr(text, f, Label(l[1])) /\ L.from[Kid(p, 1)] = f + 1
  BY <1>2, <1>3, Ones, OneAt
<1>7. /\ Instr(text, g, Label(l[2])) /\ Instr(text, g + 1, Eval(p, "test"))
      /\ Instr(text, g + 2, CmpEax(0)) /\ Instr(text, g + 3, Jump("jne", l[1]))
      /\ Instr(text, g + 4, Label(l[3])) /\ L.to[p] = g + 5 /\ g \in Nat
  BY <1>2, <1>4, Ones, FiveAt
<1>8. Goes(text, f, f + 1) /\ Goes(text, g, g + 1) /\ Goes(text, g + 4, (g + 4) + 1)
  BY <1>1, <1>6, <1>7, LabelGoes
<1>9. (g + 1) + 1 = g + 2 /\ (g + 2) + 1 = g + 3 /\ (g + 2) + 2 = g + 4 /\ (g + 4) + 1 = g + 5
  BY <1>7
<1>10. Tests(text, g + 2, f, g + 4)
  BY <1>1, <1>6, <1>7, <1>9, BackTests
<1>11. Goes(text, g + 4, L.to[p]) /\ Goes(text, f, L.from[Kid(p, 1)])
  BY <1>6, <1>7, <1>8, <1>9
<1>12. Tests(text, g + 2, L.from[Kid(p, 1)], L.to[p])
  BY <1>10, <1>11, TestsOn
<1> QED BY <1>5, <1>7, <1>8, <1>9, <1>11, <1>12 DEF f, g, BreakGoesOn


LEMMA NothingJoined ==
  ASSUME NEW a, IsOne(a) PROVE a \o << >> = a
<1>1. PICK r : a = <<r>>
  BY DEF IsOne
<1>2. a \in Seq({r})
  BY <1>1
<1> QED BY <1>2, ConcatEmptySeq

LEMMA ForRuns ==
  ASSUME NEW tree, NEW text, NEW L, Compiled(tree, text, L),
         NEW p \in DOMAIN tree, tree[p].kind = "for",
         NEW s, s = StartOf(L, p, tree[p].kids - 1), NEW k, k = Kid(p, tree[p].kids)
  PROVE  /\ Has(tree, p, "init") => Goes(text, L.from[p], L.from[Kid(p, 1)])
         /\ ~Has(tree, p, "init") => s = L.from[p]
         /\ Has(tree, p, "test") =>
              /\ Goes(text, s, s + 1) /\ Instr(text, s + 1, Eval(p, "test"))
              /\ Tests(text, s + 1 + 1, L.from[k], L.to[p])
         /\ ~Has(tree, p, "test") => Goes(text, s, L.from[k])
         /\ Instr(text, L.to[k], Label(ContinueLabel(tree, L, p)))
         /\ Has(tree, p, "update") =>
              /\ Goes(text, L.to[k], L.to[k] + 1) /\ Instr(text, L.to[k] + 1, Eval(p, "update"))
              /\ Goes(text, L.to[k] + 1 + 1, s)
         /\ ~Has(tree, p, "update") => Goes(text, L.to[k], s)
         /\ BreakGoesOn(tree, text, L, p)
<1> DEFINE l == L.labels[p]
           kids == tree[p].kids
           g == L.to[k]
           h == L.from[k]
<1>1. /\ kids = IF Has(tree, p, "init") THEN 2 ELSE 1
      /\ kids # 0 /\ kids - 1 \in 0..kids /\ (kids - 1) + 1 = kids /\ kids - 1 # kids
      /\ Runnable(text) /\ WellFormed(tree) /\ IsLayout(tree, text, L)
  BY KidsOfKinds DEF Compiled
<1>2. /\ IsSomeSequence(text)
      /\ Holds(text, L.from[p], FrontText(tree, L, p), L.from[Kid(p, 1)])
      /\ Holds(text, g, EndText(tree, L, p), L.to[p])
  BY <1>1, PiecesLaid
<1>3. Holds(text, s, ForFront(tree, L, p), h)
  <2>1. Holds(text, s, Piece(tree, L, p, kids - 1), EndOf(tree, L, p, kids - 1))
    BY <1>1, PieceLaid
  <2>2. EndOf(tree, L, p, kids - 1) = h
    BY <1>1 DEF EndOf
  <2>3. Piece(tree, L, p, kids - 1) = ForFront(tree, L, p)
    <3>1. CASE Has(tree, p, "init")
      <4>1. kids = 2 /\ kids - 1 = 1 /\ kids - 1 # 0
        BY <1>1, <3>1
      <4> QED BY <4>1 DEF Piece, BetweenText
    <3>2. CASE ~Has(tree, p, "init")
      <4>1. kids = 1 /\ kids - 1 = 0
        BY <1>1, <3>2
      <4> QED BY <3>2, <4>1 DEF Piece, FrontText
    <3> QED BY <3>1, <3>2
  <2> QED BY <2>1, <2>2, <2>3
<1>4. Has(tree, p, "init") => Goes(text, L.from[p], L.from[Kid(p, 1)])
  <2> SUFFICES ASSUME Has(tree, p, "init") PROVE L.from[p] = L.from[Kid(p, 1)]
    BY GoesNowhere
  <2>1. Holds(text, L.from[p], << >>, L.from[Kid(p, 1)])
    BY <1>2 DEF FrontText
  <2> QED BY <2>1, HoldsNothing
<1>5. ~Has(tree, p, "init") => s = L.from[p]
  BY <1>1 DEF StartOf
<1>6. ExitLabel(tree, L, p) = l[3] /\ ContinueLabel(tree, L, p) = l[2]
  BY DEF ExitLabel, ContinueLabel
<1>7. Holds(text, g, Label(l[2])
                       \o (IF Has(tree, p, "update") THEN Eval(p, "update") ELSE << >>)
                       \o Jump("jmp", l[1]) \o Label(l[3]), L.to[p])
  BY <1>2 DEF EndText
<1>8. Holds(text, s, Label(l[1])
                       \o IF Has(tree, p, "test") THEN TestAndSkip(p, l[3]) ELSE << >>, h)
  BY <1>3 DEF ForFront
<1> HIDE DEF l, kids, g, h
<1>9. Label(l[2]) \o << >> = Label(l[2]) /\ Label(l[1]) \o << >> = Label(l[1])
  BY Ones, NothingJoined
<1>10. Instr(text, s, Label(l[1]))
  <2>1. CASE Has(tree, p, "test")
    <3>1. Holds(text, s, Label(l[1]) \o TestAndSkip(p, l[3]), h)
      BY <1>8, <2>1
    <3>2. IsSomeSequence(TestAndSkip(p, l[3]))
      BY Ones, ThreeAreShort DEF TestAndSkip
    <3> QED BY <1>2, <3>1, <3>2, Ones, FirstAt
  <2>2. CASE ~Has(tree, p, "test")
    <3>1. Holds(text, s, Label(l[1]), h)
      BY <1>8, <1>9, <2>2
    <3> QED BY <1>2, <3>1, Ones, OneAt
  <2> QED BY <2>1, <2>2
<1>11. /\ Instr(text, g, Label(l[2]))
       /\ \E k1 : Instr(text, k1, Label(l[3])) /\ Goes(text, k1, L.to[p])
       /\ Has(tree, p, "update") =>
              /\ Goes(text, g, g + 1) /\ Instr(text, g + 1, Eval(p, "update"))
              /\ Goes(text, g + 1 + 1, s)
       /\ ~Has(tree, p, "update") => Goes(text, g, s)
  <2>1. CASE Has(tree, p, "update")
    <3>1. Holds(text, g, Label(l[2]) \o Eval(p, "update") \o Jump("jmp", l[1]) \o Label(l[3]),
                L.to[p])
      BY <1>7, <2>1
    <3>2. /\ Instr(text, g, Label(l[2])) /\ Instr(text, g + 1, Eval(p, "update"))
          /\ Instr(text, g + 2, Jump("jmp", l[1])) /\ Instr(text, g + 3, Label(l[3]))
          /\ L.to[p] = g + 4 /\ g \in Nat
      BY <1>2, <3>1, Ones, FourAt
    <3>3. g + 1 + 1 = g + 2 /\ (g + 3) + 1 = g + 4
      BY <3>2
    <3>4. Goes(text, g, g + 1) /\ Goes(text, g + 3, (g + 3) + 1)
      BY <1>1, <3>2, LabelGoes
    <3>5. Goes(text, g + 2, s)
      BY <1>1, <1>10, <3>2, JumpGoes
    <3> QED BY <2>1, <3>2, <3>3, <3>4, <3>5
  <2>2. CASE ~Has(tree, p, "update")
    <3>1. Holds(text, g, Label(l[2]) \o Jump("jmp", l[1]) \o Label(l[3]), L.to[p])
      BY <1>7, <1>9, <2>2
    <3>2. /\ Instr(text, g, Label(l[2])) /\ Instr(text, g + 1, Jump("jmp", l[1]))
          /\ Instr(text, g + 2, Label(l[3])) /\ L.to[p] = g + 3 /\ g \in Nat
      BY <1>2, <3>1, Ones, ThreeAt
    <3>3. (g + 2) + 1 = g + 3
      BY <3>2
    <3>4. Goes(text, g, g + 1) /\ Goes(text, g + 2, (g + 2) + 1)
      BY <1>1, <3>2, LabelGoes
    <3>5. Goes(text, g + 1, s)
      BY <1>1, <1>10, <3>2, JumpGoes
    <3>6. Goes(text, g, s)
      BY <3>4, <3>5, GoesOn
    <3> QED BY <2>2, <3>2, <3>3, <3>4, <3>6
  <2> QED BY <2>1, <2>2
<1>12. ASSUME Has(tree, p, "test")
       PROVE  /\ Goes(text, s, s + 1) /\ Instr(text, s + 1, Eval(p, "test"))
              /\ Tests(text, s + 1 + 1, h, L.to[p])
  <2>1. Holds(text, s, Label(l[1]) \o TestAndSkip(p, l[3]), h)
    BY <1>8, <1>12
  <2>2. IsSomeSequence(TestAndSkip(p, l[3]))
    BY Ones, ThreeAreShort DEF TestAndSkip
  <2> DEFINE e == s + 1
  <2>3. Holds(text, e, TestAndSkip(p, l[3]), h)
    BY <1>2, <2>1, <2>2, Ones, FirstAt
  <2>4. Goes(text, s, e)
    BY <1>1, <1>10, LabelGoes
  <2> HIDE DEF e
  <2>5. /\ Instr(text, e, Eval(p, "test")) /\ Instr(text, e + 1, CmpEax(0))
        /\ Instr(text, e + 2, Jump("je", l[3])) /\ h = e + 3 /\ e \in Nat
    BY <1>2, <2>3, TestLaid
  <2>6. (e + 1) + 1 = e + 2 /\ (e + 1) + 2 = e + 3
    BY <2>5
  <2>7. PICK k1 : Instr(text, k1, Label(l[3])) /\ Goes(text, k1, L.to[p])
    BY <1>11
  <2>8. Tests(text, e + 1, e + 3, k1)
    BY <1>1, <2>5, <2>6, <2>7, SkipTests
  <2>9. Tests(text, e + 1, h, L.to[p])
    BY <2>5, <2>7, <2>8, GoesNowhere, TestsOn
  <2> QED BY <2>4, <2>5, <2>9 DEF e
<1>13. ASSUME ~Has(tree, p, "test") PROVE Goes(text, s, h)
  <2>1. Holds(text, s, Label(l[1]), h)
    BY <1>8, <1>9, <1>13
  <2>2. h = s + 1
    BY <1>2, <2>1, Ones, OneAt
  <2> QED BY <1>1, <1>10, <2>2, LabelGoes
<1> QED BY <1>4, <1>5, <1>6, <1>11, <1>12, <1>13 DEF g, h, BreakGoesOn


LEMMA CompoundRuns ==
  ASSUME NEW tree, NEW text, NEW L, Compiled(tree, text, L),
         NEW p \in DOMAIN tree, tree[p].kind = "compound"
  PROVE  /\ tree[p].kids = 0 => Goes(text, L.from[p], L.to[p])
         /\ tree[p].kids # 0 =>
              /\ Goes(text, L.from[p], L.from[Kid(p, 1)])
              /\ Goes(text, L.to[Kid(p, tree[p].kids)], L.to[p])
              /\ \A n \in 1 .. tree[p].kids - 1 :
                   Goes(text, L.to[Kid(p, n)], L.from[Kid(p, n + 1)])
<1>1. /\ FrontText(tree, L, p) = << >> /\ BetweenText(tree, L, p) = << >>
      /\ EndText(tree, L, p) = << >>
  BY DEF FrontText, BetweenText, EndText
<1>2. /\ tree[p].kids = 0 => Holds(text, L.from[p], << >>, L.to[p])
      /\ tree[p].kids # 0 =>
           /\ Holds(text, L.from[p], << >>, L.from[Kid(p, 1)])
           /\ Holds(text, L.to[Kid(p, tree[p].kids)], << >>, L.to[p])
           /\ \A n \in 1 .. tree[p].kids - 1 :
                Holds(text, L.to[Kid(p, n)], << >>, L.from[Kid(p, n + 1)])
  BY <1>1, PiecesLaid DEF Compiled
<1>3. \A i, j : Holds(text, i, << >>, j) => Goes(text, i, j)
  BY HoldsNothing, GoesNowhere
<1> QED BY <1>2, <1>3

\* A statement with a label in front of another.
LEMMA LabelledRuns ==
  ASSUME NEW tree, NEW text, NEW L, Compiled(tree, text, L),
         NEW p \in DOMAIN tree, tree[p].kind \in {"case", "default", "label"}
  PROVE  /\ Instr(text, L.from[p], Label(IF tree[p].kind = "label" THEN User(tree[p].arg)
                                         ELSE L.labels[p][1]))
         /\ Goes(text, L.from[p], L.from[Kid(p, 1)])
         /\ Goes(text, L.to[Kid(p, 1)], L.to[p])
<1> DEFINE l == IF tree[p].kind = "label" THEN User(tree[p].arg) ELSE L.labels[p][1]
<1>1. tree[p].kids = 1 /\ Runnable(text) /\ WellFormed(tree)
  BY KidsOfKinds DEF Compiled
<1>2. FrontText(tree, L, p) = Label(l)
  BY DEF FrontText
<1>3. EndText(tree, L, p) = << >>
  BY DEF EndText
<1>4. /\ IsSomeSequence(text) /\ Holds(text, L.from[p], Label(l), L.from[Kid(p, 1)])
      /\ Holds(text, L.to[Kid(p, 1)], << >>, L.to[p])
  BY <1>1, <1>2, <1>3, PiecesLaid DEF Compiled
<1> HIDE DEF l
<1>5. Instr(text, L.from[p], Label(l)) /\ L.from[Kid(p, 1)] = L.from[p] + 1
  BY <1>4, Ones, OneAt
<1>6. Goes(text, L.from[p], L.from[Kid(p, 1)])
  BY <1>1, <1>5, LabelGoes
<1>7. Goes(text, L.to[Kid(p, 1)], L.to[p])
  BY <1>4, HoldsNothing, GoesNowhere
<1> QED BY <1>5, <1>6, <1>7 DEF l

LEMMA LeavesRun ==
  ASSUME NEW tree, NEW text, NEW L, Compiled(tree, text, L),
         NEW p \in DOMAIN tree, tree[p].kind \in LeafKinds
  PROVE  /\ tree[p].kind = "expression" /\ Has(tree, p, "value") =>
              Instr(text, L.from[p], Eval(p, "value")) /\ L.to[p] = L.from[p] + 1
         /\ tree[p].kind = "expression" /\ ~Has(tree, p, "value") =>
              Goes(text, L.from[p], L.to[p])
         /\ tree[p].kind = "return" =>
              /\ Instr(text, L.from[p] + 1, Jump("jmp", ReturnLabel))
              /\ Has(tree, p, "value") => Instr(text, L.from[p], Eval(p, "value"))
              /\ ~Has(tree, p, "value") => Instr(text, L.from[p], XorEax)
         /\ tree[p].kind = "break" =>
              Instr(text, L.from[p],
                    Jump("jmp", ExitLabel(tree, L, C!The(Innermost(tree, p, Targeted)))))
         /\ tree[p].kind = "continue" =>
              Instr(text, L.from[p],
                    Jump("jmp", ContinueLabel(tree, L, C!The(Innermost(tree, p, Loops)))))
         /\ tree[p].kind = "goto" =>
              Instr(text, L.from[p], Jump("jmp", User(tree[p].arg)))
<1>1. IsSomeSequence(text) /\ Holds(text, L.from[p], EndText(tree, L, p), L.to[p])
  BY LeafRuns
<1>2. CASE tree[p].kind = "expression" /\ Has(tree, p, "value")
  <2>1. Holds(text, L.from[p], Eval(p, "value"), L.to[p])
    BY <1>1, <1>2 DEF EndText
  <2> QED BY <1>1, <1>2, <2>1, Ones, OneAt
<1>3. CASE tree[p].kind = "expression" /\ ~Has(tree, p, "value")
  <2>1. Holds(text, L.from[p], << >>, L.to[p])
    BY <1>1, <1>3 DEF EndText
  <2> QED BY <1>3, <2>1, HoldsNothing, GoesNowhere
<1>4. CASE tree[p].kind = "return" /\ Has(tree, p, "value")
  <2>1. Holds(text, L.from[p], Eval(p, "value") \o Jump("jmp", ReturnLabel), L.to[p])
    BY <1>1, <1>4 DEF EndText
  <2> QED BY <1>1, <1>4, <2>1, Ones, TwoAt
<1>5. CASE tree[p].kind = "return" /\ ~Has(tree, p, "value")
  <2>1. Holds(text, L.from[p], XorEax \o Jump("jmp", ReturnLabel), L.to[p])
    BY <1>1, <1>5 DEF EndText
  <2> QED BY <1>1, <1>5, <2>1, Ones, TwoAt
<1>6. CASE tree[p].kind = "break"
  <2> DEFINE l == ExitLabel(tree, L, C!The(Innermost(tree, p, Targeted)))
  <2>1. Holds(text, L.from[p], Jump("jmp", l), L.to[p])
    BY <1>1, <1>6 DEF EndText
  <2> HIDE DEF l
  <2>2. Instr(text, L.from[p], Jump("jmp", l))
    BY <1>1, <2>1, Ones, OneAt
  <2> QED BY <1>6, <2>2 DEF l
<1>7. CASE tree[p].kind = "continue"
  <2> DEFINE l == ContinueLabel(tree, L, C!The(Innermost(tree, p, Loops)))
  <2>1. Holds(text, L.from[p], Jump("jmp", l), L.to[p])
    BY <1>1, <1>7 DEF EndText
  <2> HIDE DEF l
  <2>2. Instr(text, L.from[p], Jump("jmp", l))
    BY <1>1, <2>1, Ones, OneAt
  <2> QED BY <1>7, <2>2 DEF l
<1>8. CASE tree[p].kind = "goto"
  <2>1. Holds(text, L.from[p], Jump("jmp", User(tree[p].arg)), L.to[p])
    BY <1>1, <1>8 DEF EndText
  <2>2. Instr(text, L.from[p], Jump("jmp", User(tree[p].arg)))
    BY <1>1, <2>1, Ones, OneAt
  <2> QED BY <1>8, <2>2
<1> QED BY <1>2, <1>3, <1>4, <1>5, <1>6, <1>7, <1>8 DEF LeafKinds

LEMMA EndRuns ==
  ASSUME NEW tree, NEW text, NEW L, Compiled(tree, text, L)
  PROVE  /\ Instr(text, L.to[<< >>], XorEax)
         /\ Instr(text, L.to[<< >>] + 1, Label(ReturnLabel))
         /\ Instr(text, L.to[<< >>] + 2, Ret)
<1>1. IsSomeSequence(text) /\ Holds(text, L.to[<< >>], EndOfCode, Len(text) + 1)
  BY DEF Compiled, IsLayout
<1>2. Holds(text, L.to[<< >>], XorEax \o Label(ReturnLabel) \o Ret, Len(text) + 1)
  BY <1>1 DEF EndOfCode
<1> QED BY <1>1, <1>2, Ones, ThreeAt

LEMMA SwitchRuns ==
  ASSUME NEW tree, NEW text, NEW L, Compiled(tree, text, L),
         NEW p \in DOMAIN tree, tree[p].kind = "switch",
         NEW dispatch, dispatch = DispatchOf(tree, CasesOf(tree, L, p), L.labels[p][1]),
         IsSomeSequence(dispatch)
  PROVE  /\ Instr(text, L.from[p], Eval(p, "test"))
         /\ Holds(text, L.from[p] + 1, dispatch, L.from[Kid(p, 1)])
         /\ Instr(text, L.to[Kid(p, 1)], Label(ExitLabel(tree, L, p)))
         /\ Goes(text, L.to[Kid(p, 1)], L.to[p])
         /\ BreakGoesOn(tree, text, L, p)
<1> DEFINE l == L.labels[p]
           g == L.to[Kid(p, 1)]
<1>1. tree[p].kids = 1 /\ Runnable(text) /\ WellFormed(tree)
  BY KidsOfKinds DEF Compiled
<1>2. /\ IsSomeSequence(text)
      /\ Holds(text, L.from[p], FrontText(tree, L, p), L.from[Kid(p, 1)])
      /\ Holds(text, g, EndText(tree, L, p), L.to[p])
  BY <1>1, PiecesLaid DEF Compiled
<1>3. Holds(text, L.from[p], Eval(p, "test") \o dispatch, L.from[Kid(p, 1)])
  BY <1>2 DEF FrontText
<1>4. Holds(text, g, Label(l[1]), L.to[p])
  BY <1>2 DEF EndText
<1>5. ExitLabel(tree, L, p) = l[1]
  BY DEF ExitLabel
<1> HIDE DEF l, g
<1>6. Instr(text, L.from[p], Eval(p, "test")) /\ Holds(text, L.from[p] + 1, dispatch, L.from[Kid(p, 1)])
  BY <1>2, <1>3, Ones, FirstAt
<1>7. Instr(text, g, Label(l[1])) /\ L.to[p] = g + 1
  BY <1>2, <1>4, Ones, OneAt
<1>8. Goes(text, g, L.to[p])
  BY <1>1, <1>7, LabelGoes
<1> QED BY <1>5, <1>6, <1>7, <1>8 DEF g, BreakGoesOn


-----------------------------------------------------------------------------
(***************************************************************************)
(* Where in the text control is.                                           *)
(***************************************************************************)
IsControl(tree, c) ==
  \E p \in DOMAIN tree :
    \/ c = C!Control("enter", p) \/ c = C!Control("left", p)
    \/ c = C!Control("update", p) /\ tree[p].kind = "for" /\ Has(tree, p, "update")
    \/ /\ c = C!Control("test", p) /\ tree[p].kind \in Targeted \cup {"if"}
       /\ tree[p].kind = "for" => Has(tree, p, "test")
PlaceOf(tree, L, c) ==
  IF c.stage = "enter" THEN L.from[c.at]
  ELSE IF c.stage = "left" THEN L.to[c.at]
  ELSE IF c.stage = "update" \/ tree[c.at].kind = "do" THEN L.to[Kid(c.at, tree[c.at].kids)]
  ELSE IF tree[c.at].kind = "for" THEN StartOf(L, c.at, tree[c.at].kids - 1)
  ELSE L.from[c.at]
\* Control gets to d while the machine gets from i to where d is.
ComesTo(tree, text, L, i, d) == IsControl(tree, d) /\ Goes(text, i, PlaceOf(tree, L, d))

\* The words of the semantics are those of the tree.
LEMMA SameWords ==
  /\ C!Loops = Loops
  /\ \A tree, p, part : C!Has(tree, p, part) <=> Has(tree, p, part)
  /\ \A p, n : C!Kid(p, n) = Kid(p, n)
  /\ \A p : C!Parent(p) = Front(p)
  /\ \A tree, p, kinds : C!Innermost(tree, p, kinds) = Innermost(tree, p, kinds)
<1>1. C!Loops = Loops
  BY DEF C!Loops, Loops
<1>2. \A tree, p, part : C!Has(tree, p, part) <=> Has(tree, p, part)
  BY DEF C!Has, Has
<1>3. \A p, n : C!Kid(p, n) = Kid(p, n)
  BY DEF C!Kid, Kid
<1>4. \A p : C!Parent(p) = Front(p)
  BY DEF C!Parent, C!Front, Front
<1>5. \A tree, p, kinds : C!Innermost(tree, p, kinds) = Innermost(tree, p, kinds)
  BY DEF C!Innermost, Innermost, C!Ancestors, Ancestors
<1> QED BY <1>1, <1>2, <1>3, <1>4, <1>5

LEMMA Controls ==
  ASSUME NEW tree, NEW p
  PROVE  /\ C!EnterKid(tree, p, 1) = C!Control("enter", Kid(p, 1))
         /\ \A n : C!EnterKid(tree, p, n) = C!Control("enter", Kid(p, n))
         /\ C!Body(tree, p) = C!Control("enter", Kid(p, tree[p].kids))
         /\ C!ForTest(tree, p) =
              IF Has(tree, p, "test") THEN C!Control("test", p)
              ELSE C!Control("enter", Kid(p, tree[p].kids))
         /\ C!ForUpdate(tree, p) =
              IF Has(tree, p, "update") THEN C!Control("update", p) ELSE C!ForTest(tree, p)
         /\ C!Iterate(tree, p) =
              IF tree[p].kind = "for" THEN C!ForUpdate(tree, p) ELSE C!Control("test", p)
<1>1. \A n : C!EnterKid(tree, p, n) = C!Control("enter", Kid(p, n))
  BY SameWords DEF C!EnterKid
<1>2. C!Body(tree, p) = C!Control("enter", Kid(p, tree[p].kids))
  BY <1>1 DEF C!Body
<1>3. C!ForTest(tree, p) = IF Has(tree, p, "test") THEN C!Control("test", p)
                           ELSE C!Control("enter", Kid(p, tree[p].kids))
  BY <1>2, SameWords DEF C!ForTest
<1>4. C!ForUpdate(tree, p) =
        IF Has(tree, p, "update") THEN C!Control("update", p) ELSE C!ForTest(tree, p)
  BY SameWords DEF C!ForUpdate
<1>5. C!Iterate(tree, p) =
        IF tree[p].kind = "for" THEN C!ForUpdate(tree, p) ELSE C!Control("test", p)
  BY DEF C!Iterate
<1> QED BY <1>1, <1>2, <1>3, <1>4, <1>5

LEMMA ControlFields ==
  ASSUME NEW s, NEW p
  PROVE  /\ C!Control(s, p).stage = s /\ C!Control(s, p).at = p
         /\ C!Control(s, p).result = 0
BY DEF C!Control

LEMMA Places ==
  ASSUME NEW tree, NEW L, NEW p
  PROVE  /\ PlaceOf(tree, L, C!Control("enter", p)) = L.from[p]
         /\ PlaceOf(tree, L, C!Control("left", p)) = L.to[p]
         /\ PlaceOf(tree, L, C!Control("update", p)) = L.to[Kid(p, tree[p].kids)]
         /\ tree[p].kind = "do" =>
              PlaceOf(tree, L, C!Control("test", p)) = L.to[Kid(p, tree[p].kids)]
         /\ tree[p].kind = "for" =>
              PlaceOf(tree, L, C!Control("test", p)) = StartOf(L, p, tree[p].kids - 1)
         /\ tree[p].kind \in {"if", "while", "switch"} =>
              PlaceOf(tree, L, C!Control("test", p)) = L.from[p]
<1> DEFINE c(s) == C!Control(s, p)
<1>1. \A s : c(s).stage = s /\ c(s).at = p
  BY ControlFields
<1> HIDE DEF c
<1>2. /\ PlaceOf(tree, L, c("enter")) = L.from[p]
      /\ PlaceOf(tree, L, c("left")) = L.to[p]
      /\ PlaceOf(tree, L, c("update")) = L.to[Kid(p, tree[p].kids)]
      /\ tree[p].kind = "do" => PlaceOf(tree, L, c("test")) = L.to[Kid(p, tree[p].kids)]
      /\ tree[p].kind = "for" =>
           PlaceOf(tree, L, c("test")) = StartOf(L, p, tree[p].kids - 1)
      /\ tree[p].kind \in {"if", "while", "switch"} => PlaceOf(tree, L, c("test")) = L.from[p]
  BY <1>1 DEF PlaceOf
<1> QED BY <1>2 DEF c

LEMMA EnterFollows ==
  ASSUME NEW tree, NEW text, NEW L, NEW p \in DOMAIN tree, NEW i
  PROVE  /\ Goes(text, i, L.from[p]) => ComesTo(tree, text, L, i, C!Control("enter", p))
         /\ Goes(text, i, L.to[p]) => ComesTo(tree, text, L, i, C!Control("left", p))
<1>1. IsControl(tree, C!Control("enter", p)) /\ IsControl(tree, C!Control("left", p))
  BY DEF IsControl
<1> QED BY <1>1, Places DEF ComesTo

LEMMA LastKid ==
  ASSUME NEW tree, WellFormed(tree), NEW p \in DOMAIN tree, tree[p].kids # 0
  PROVE  Kid(p, tree[p].kids) \in DOMAIN tree /\ Kid(p, 1) \in DOMAIN tree
<1>1. tree[p].kids \in 1..tree[p].kids /\ 1 \in 1..tree[p].kids
  BY KidIsThere
<1> QED BY <1>1, KidIsThere

LEMMA ForTestFollows ==
  ASSUME NEW tree, NEW text, NEW L, Compiled(tree, text, L),
         NEW p \in DOMAIN tree, tree[p].kind = "for"
  PROVE  ComesTo(tree, text, L, StartOf(L, p, tree[p].kids - 1), C!ForTest(tree, p))
<1> DEFINE k == Kid(p, tree[p].kids)
           s == StartOf(L, p, tree[p].kids - 1)
<1>1. tree[p].kids # 0 /\ k \in DOMAIN tree
  BY KidsOfKinds, LastKid DEF Compiled
<1>2. CASE Has(tree, p, "test")
  <2>1. IsControl(tree, C!Control("test", p))
    BY <1>2 DEF IsControl, Targeted, Loops
  <2> QED BY <1>2, <2>1, Places, Controls, GoesNowhere DEF ComesTo
<1>3. CASE ~Has(tree, p, "test")
  <2>1. Goes(text, s, L.from[k])
    BY <1>3, ForRuns
  <2>2. C!ForTest(tree, p) = C!Control("enter", k)
    BY <1>3, Controls
  <2> HIDE DEF k, s
  <2>3. ComesTo(tree, text, L, s, C!Control("enter", k))
    BY <1>1, <2>1, EnterFollows
  <2> QED BY <2>2, <2>3 DEF s
<1> QED BY <1>2, <1>3

LEMMA FollowsFrom ==
  ASSUME NEW tree, NEW text, NEW L, NEW i, NEW j, Goes(text, i, j), NEW d,
         ComesTo(tree, text, L, j, d)
  PROVE  ComesTo(tree, text, L, i, d)
BY GoesOn DEF ComesTo

LEMMA IterateFollows ==
  ASSUME NEW tree, NEW text, NEW L, Compiled(tree, text, L),
         NEW p \in DOMAIN tree, tree[p].kind \in Loops
  PROVE  ComesTo(tree, text, L, L.to[Kid(p, tree[p].kids)], C!Iterate(tree, p))
<1> DEFINE k == Kid(p, tree[p].kids)
<1>1. CASE tree[p].kind = "for"
  <2>1. CASE Has(tree, p, "update")
    <3>1. IsControl(tree, C!Control("update", p))
      BY <1>1, <2>1 DEF IsControl
    <3> QED BY <1>1, <2>1, <3>1, Places, Controls, GoesNowhere DEF ComesTo
  <2>2. CASE ~Has(tree, p, "update")
    <3>1. Goes(text, L.to[k], StartOf(L, p, tree[p].kids - 1))
      BY <1>1, <2>2, ForRuns
    <3>2. C!Iterate(tree, p) = C!ForTest(tree, p)
      BY <1>1, <2>2, Controls
    <3> HIDE DEF k
    <3>3. ComesTo(tree, text, L, L.to[k], C!ForTest(tree, p))
      BY <1>1, <3>1, ForTestFollows, FollowsFrom
    <3> QED BY <3>2, <3>3 DEF k
  <2> QED BY <2>1, <2>2
<1>2. CASE tree[p].kind \in {"while", "do"}
  <2>1. IsControl(tree, C!Control("test", p)) /\ C!Iterate(tree, p) = C!Control("test", p)
    BY <1>2, Controls DEF IsControl, Targeted, Loops
  <2>2. tree[p].kids = 1
    BY <1>2, KidsOfKinds DEF Compiled
  <2>3. Goes(text, L.to[k], PlaceOf(tree, L, C!Control("test", p)))
    <3>1. CASE tree[p].kind = "while"
      <4>1. Goes(text, L.to[k], L.from[p])
        BY <2>2, <3>1, WhileRuns
      <4> QED BY <3>1, <4>1, Places
    <3>2. CASE tree[p].kind = "do"
      BY <3>2, Places, GoesNowhere
    <3> QED BY <1>2, <3>1, <3>2
  <2> QED BY <2>1, <2>3 DEF ComesTo
<1> QED BY <1>1, <1>2 DEF Loops


-----------------------------------------------------------------------------
(***************************************************************************)
(* A silent step of the body is followed by the machine.                   *)
(***************************************************************************)
LEMMA KidOfFront ==
  ASSUME NEW tree, WellFormed(tree), NEW p \in DOMAIN tree, p # << >>
  PROVE  /\ Front(p) \in DOMAIN tree /\ Last(p) \in 1..tree[Front(p)].kids
         /\ p = Kid(Front(p), Last(p)) /\ tree[Front(p)].kids \in Nat /\ Last(p) \in Nat
<1>1. p \in Seq(Nat) /\ Len(p) \in Nat /\ Len(p) # 0
  <2>1. p \in Seq(Nat)
    BY KidIsThere
  <2> QED BY <2>1
<1>2. Front(p) = SubSeq(p, 1, Len(p) - 1) /\ Last(p) = p[Len(p)]
  BY DEF Front, Last
<1>3. Len(p) \in 1..Len(p)
  BY <1>1
<1>4. SubSeq(p, 1, Len(p) - 1) \in DOMAIN tree
      /\ p[Len(p)] \in 1..tree[SubSeq(p, 1, Len(p) - 1)].kids
  BY <1>3 DEF WellFormed
<1>5. p = Append(SubSeq(p, 1, Len(p) - 1), p[Len(p)])
  BY <1>1
<1>6. tree[Front(p)].kids \in Nat
  BY <1>2, <1>4, KidIsThere
<1> QED BY <1>2, <1>4, <1>5, <1>6 DEF Kid

LEMMA AfterSteps ==
  ASSUME NEW tree, NEW p, p # << >>, NEW q, q = Front(p), NEW n, n = Last(p)
  PROVE  C!After(tree, p) =
           CASE tree[q].kind = "compound" /\ n < tree[q].kids -> C!Control("enter", Kid(q, n + 1))
             [] tree[q].kind = "for" /\ n < tree[q].kids -> C!ForTest(tree, q)
             [] tree[q].kind \in Loops /\ n = tree[q].kids -> C!Iterate(tree, q)
             [] OTHER -> C!Control("left", q)
<1>1. C!Parent(p) = q /\ C!Last(p) = n /\ C!Loops = Loops
  BY SameWords DEF C!Last, Last
<1> QED BY <1>1, Controls DEF C!After

LEMMA LeftFollows ==
  ASSUME NEW tree, NEW text, NEW L, Compiled(tree, text, L), NEW p \in DOMAIN tree, p # << >>
  PROVE  ComesTo(tree, text, L, L.to[p], C!After(tree, p))
<1>1. PICK q \in DOMAIN tree : q = Front(p)
  BY KidOfFront DEF Compiled
<1>2. PICK n \in Nat : n = Last(p)
  BY KidOfFront DEF Compiled
<1>3. /\ n \in 1..tree[q].kids /\ p = Kid(q, n) /\ tree[q].kids \in Nat /\ WellFormed(tree)
      /\ tree[q].kids # 0 /\ (n = tree[q].kids \/ n \in 1 .. tree[q].kids - 1)
      /\ tree[q].kind \in Kinds
  BY <1>1, <1>2, KidOfFront, KidsOfKinds DEF Compiled
<1> DEFINE a == C!After(tree, p)
<1>4. a = CASE tree[q].kind = "compound" /\ n < tree[q].kids -> C!Control("enter", Kid(q, n + 1))
            [] tree[q].kind = "for" /\ n < tree[q].kids -> C!ForTest(tree, q)
            [] tree[q].kind \in Loops /\ n = tree[q].kids -> C!Iterate(tree, q)
            [] OTHER -> C!Control("left", q)
  BY <1>1, <1>2, AfterSteps
<1> HIDE DEF a
<1>5. CASE tree[q].kind = "compound" /\ n < tree[q].kids
  <2>1. n \in 1 .. tree[q].kids - 1 /\ n + 1 \in 1..tree[q].kids
    BY <1>3, <1>5
  <2>2. Goes(text, L.to[p], L.from[Kid(q, n + 1)])
    BY <1>3, <1>5, <2>1, CompoundRuns
  <2>3. Kid(q, n + 1) \in DOMAIN tree
    BY <1>3, <2>1, KidIsThere
  <2>4. a = C!Control("enter", Kid(q, n + 1))
    BY <1>4, <1>5
  <2>5. ComesTo(tree, text, L, L.to[p], C!Control("enter", Kid(q, n + 1)))
    BY <2>2, <2>3, EnterFollows
  <2> QED BY <2>4, <2>5 DEF a
<1>6. CASE tree[q].kind = "for" /\ n < tree[q].kids
  <2>1. n = 1 /\ tree[q].kids = 2 /\ tree[q].kids - 1 = 1 /\ tree[q].kids - 1 # 0
    BY <1>3, <1>6, KidsOfKinds
  <2>2. StartOf(L, q, tree[q].kids - 1) = L.to[p]
    BY <1>3, <2>1 DEF StartOf
  <2>3. ComesTo(tree, text, L, StartOf(L, q, tree[q].kids - 1), C!ForTest(tree, q))
    BY <1>6, ForTestFollows
  <2>4. a = C!ForTest(tree, q)
    BY <1>4, <1>6
  <2> QED BY <2>2, <2>3, <2>4 DEF a
<1>7. CASE tree[q].kind \in Loops /\ n = tree[q].kids
  <2>1. ComesTo(tree, text, L, L.to[p], C!Iterate(tree, q))
    BY <1>3, <1>7, IterateFollows
  <2>2. a = C!Iterate(tree, q)
    BY <1>4, <1>7, <1>3 DEF Loops
  <2> QED BY <2>1, <2>2 DEF a
<1>8. CASE /\ ~(tree[q].kind = "compound" /\ n < tree[q].kids)
           /\ ~(tree[q].kind = "for" /\ n < tree[q].kids)
           /\ ~(tree[q].kind \in Loops /\ n = tree[q].kids)
  <2>1. a = C!Control("left", q)
    BY <1>4, <1>8
  <2>2. Goes(text, L.to[p], L.to[q])
    <3>1. CASE tree[q].kind = "compound"
      <4>1. n = tree[q].kids
        BY <1>3, <1>8, <3>1
      <4> QED BY <1>3, <3>1, <4>1, CompoundRuns
    <3>2. CASE tree[q].kind = "if"
      BY <1>3, <3>2, IfRuns
    <3>3. CASE tree[q].kind = "switch"
      <4>1. n = 1
        BY <1>3, <3>3, KidsOfKinds
      <4>3. IsLayout(tree, text, L) /\ tree[q].kids = 1 /\ Runnable(text)
        BY <3>3, KidsOfKinds DEF Compiled
      <4>4. Holds(text, L.to[Kid(q, 1)], Label(L.labels[q][1]), L.to[q]) /\ IsSomeSequence(text)
        <5>1. EndText(tree, L, q) = Label(L.labels[q][1])
          BY <3>3 DEF EndText
        <5> QED BY <1>3, <4>3, <5>1, PiecesLaid
      <4>5. Instr(text, L.to[Kid(q, 1)], Label(L.labels[q][1])) /\ L.to[q] = L.to[Kid(q, 1)] + 1
        BY <4>4, Ones, OneAt
      <4> QED BY <1>3, <4>1, <4>3, <4>5, LabelGoes
    <3>4. CASE tree[q].kind \in {"case", "default", "label"}
      <4>1. n = 1
        BY <1>3, <3>4, KidsOfKinds
      <4> QED BY <1>3, <3>4, <4>1, LabelledRuns
    <3>5. CASE tree[q].kind \in Loops
      <4>1. tree[q].kind \in {"while", "do"} => tree[q].kids = 1
        BY <1>3, KidsOfKinds
      <4>2. n < tree[q].kids /\ tree[q].kind # "for"
        BY <1>3, <1>8, <3>5
      <4> QED BY <1>3, <3>5, <4>1, <4>2 DEF Loops
    <3>6. CASE tree[q].kind \in LeafKinds
      BY <1>3, <3>6, KidsOfKinds
    <3> QED BY <1>3, <3>1, <3>2, <3>3, <3>4, <3>5, <3>6 DEF Kinds
  <2>3. ComesTo(tree, text, L, L.to[p], C!Control("left", q))
    BY <2>2, EnterFollows
  <2> QED BY <2>1, <2>3 DEF a
<1> QED BY <1>5, <1>6, <1>7, <1>8


-----------------------------------------------------------------------------
(***************************************************************************)
(* The statement a switch goes to.                                         *)
(***************************************************************************)
LEMMA InnermostSwitch ==
  ASSUME NEW tree, WellFormed(tree), NEW p \in DOMAIN tree, tree[p].kind = "switch",
         NEW q \in DOMAIN tree, tree[q].kind \in {"case", "default"}
  PROVE  Innermost(tree, q, {"switch"}) = {p} <=> q \in CasesIn(tree, p)
<1>1. p \in Seq(Nat) /\ q \in Seq(Nat) /\ Len(p) \in Nat /\ Len(q) \in Nat
  <2>1. p \in Seq(Nat) /\ q \in Seq(Nat)
    BY KidIsThere
  <2> QED BY <2>1
<1>2. ASSUME q \in CasesIn(tree, p) PROVE Innermost(tree, q, {"switch"}) = {p}
  <2>1. IsStrictPrefix(p, q)
    BY <1>2 DEF CasesIn
  <2>2. p \in Ancestors(q)
    BY <1>1, <2>1, PrefixByElements, AncestorByElements
  <2>3. PICK r \in Ancestors(q) :
          /\ tree[r].kind \in {"switch"} /\ Innermost(tree, q, {"switch"}) = {r}
          /\ r \in Seq(Nat) /\ Len(p) <= Len(r)
    BY <2>2, InnermostIsOne
  <2>4. IsStrictPrefix(r, q)
    BY <1>1, <2>3, AncestorIsPrefix
  <2>5. PICK m \in Nat : Under(p, m, q)
    BY <1>1, <2>1, PrefixByElements
  <2>6. PICK n \in Nat : Under(r, n, q)
    BY <1>1, <2>3, <2>4, PrefixByElements
  <2>7. \A i \in 1..Len(p) : r[i] = p[i]
    <3>1. Len(r) \in Nat /\ \A i \in 1..Len(p) : i \in 1..Len(r)
      BY <1>1, <2>3
    <3> QED BY <2>5, <2>6, <3>1 DEF Under
  <2>8. IsPrefix(p, r)
    BY <1>1, <2>3, <2>7, PrefixByElements
  <2>9. ~IsStrictPrefix(p, r)
    BY <1>2, <2>3 DEF CasesIn, LookedInto, Loops
  <2>10. r = p
    BY <2>8, <2>9 DEF IsStrictPrefix
  <2> QED BY <2>3, <2>10
<1>3. ASSUME Innermost(tree, q, {"switch"}) = {p} PROVE q \in CasesIn(tree, p)
  <2>1. /\ p \in Ancestors(q)
        /\ \A b \in Ancestors(q) : tree[b].kind \in {"switch"} => Len(b) <= Len(p)
    BY <1>3 DEF Innermost
  <2>2. IsStrictPrefix(p, q)
    BY <1>1, <2>1, AncestorIsPrefix
  <2>3. ASSUME NEW a \in Ancestors(q), IsStrictPrefix(p, a) PROVE tree[a].kind \in LookedInto
    <3>1. a \in Seq(Nat)
      BY <1>1, AncestorIsPrefix
    <3>2. PICK n \in Nat : Under(a, n, q)
      BY <1>1, <3>1, AncestorByElements
    <3>3. a \in DOMAIN tree /\ n \in 1..tree[a].kids /\ tree[a].kids \in Nat
      BY <3>1, <3>2, AroundIsThere
    <3>4. tree[a].kids # 0
      BY <3>3
    <3>5. tree[a].kind \in Kinds /\ tree[a].kind \notin LeafKinds
      BY <3>3, <3>4, KidsOfKinds
    <3>6. PICK m \in Nat : Under(p, m, a)
      BY <1>1, <2>3, <3>1, PrefixByElements
    <3>7. Len(p) < Len(a) /\ Len(a) \in Nat
      BY <3>1, <3>6 DEF Under
    <3>8. tree[a].kind # "switch"
      BY <1>1, <2>1, <3>7
    <3> QED BY <3>5, <3>8 DEF Kinds, LookedInto
  <2> QED BY <2>2, <2>3 DEF CasesIn
<1> QED BY <1>2, <1>3

LEMMA LabelsOfSwitch ==
  ASSUME NEW tree, WellFormed(tree), NEW p \in DOMAIN tree, tree[p].kind = "switch",
         NEW kind \in {"case", "default"}
  PROVE  C!LabelsOf(tree, p, kind) = {q \in CasesIn(tree, p) : tree[q].kind = kind}
<1>1. \A q \in DOMAIN tree : tree[q].kind = kind =>
        (C!Innermost(tree, q, {"switch"}) = {p} <=> q \in CasesIn(tree, p))
  BY InnermostSwitch, SameWords
<1>2. \A q \in CasesIn(tree, p) : q \in DOMAIN tree
  BY DEF CasesIn
<1> QED BY <1>1, <1>2 DEF C!LabelsOf

LEMMA SameOrder ==
  ASSUME NEW p, NEW q PROVE C!Before(p, q) <=> Before(p, q)
BY DEF C!Before, Before, C!IsStrictPrefix, IsStrictPrefix, C!IsPrefix, IsPrefix

LEMMA FirstIsOne ==
  ASSUME NEW S, S \subseteq Seq(Nat), NEW p \in S, \A q \in S : q = p \/ Before(p, q)
  PROVE  C!First(S) = {p} /\ C!The(C!First(S)) = p
<1>1. p \in C!First(S)
  BY SameOrder DEF C!First
<1>2. ASSUME NEW q \in C!First(S) PROVE q = p
  <2>1. q \in S /\ (p = q \/ Before(q, p))
    BY <1>2, SameOrder DEF C!First
  <2>2. q = p \/ Before(p, q)
    BY <2>1
  <2>3. Before(p, q) => ~Before(q, p)
    BY <2>1, BeforeByElements
  <2> QED BY <2>1, <2>2, <2>3
<1>3. C!First(S) = {p}
  BY <1>1, <1>2
<1> QED BY <1>3, TheOnlyOne

LEMMA NothingIsFirst == C!First({}) = {}
BY DEF C!First

-----------------------------------------------------------------------------
\* The cases are numbered as they come.
RanksBefore(cases, c) == {d \in cases : Before(d.statement, c.statement)}

LEMMA EarlierRanksLower ==
  ASSUME NEW cases, AreCases(cases), NEW c \in cases, NEW d \in cases,
         Before(c.statement, d.statement)
  PROVE  /\ Cardinality(RanksBefore(cases, c)) \in Nat
         /\ Cardinality(RanksBefore(cases, d)) \in Nat
         /\ Cardinality(RanksBefore(cases, c)) < Cardinality(RanksBefore(cases, d))
<1> DEFINE A == RanksBefore(cases, c)
           B == RanksBefore(cases, d)
<1>1. \A e \in cases : e.statement \in Seq(Nat)
  BY DEF AreCases
<1>2. A \subseteq B
  BY <1>1, BeforeTransitive DEF RanksBefore
<1>3. c \in B /\ c \notin A
  BY <1>1, BeforeByElements DEF RanksBefore
<1>4. B \subseteq cases /\ A \in SUBSET B /\ A # B
  BY <1>2, <1>3 DEF RanksBefore
<1> HIDE DEF A, B
<1>5. IsFiniteSet(B)
  BY <1>4, FS_Subset DEF AreCases
<1>6. IsFiniteSet(A) /\ Cardinality(A) <= Cardinality(B) /\ Cardinality(A) # Cardinality(B)
  BY <1>4, <1>5, FS_Subset
<1>7. Cardinality(A) \in Nat /\ Cardinality(B) \in Nat
  BY <1>5, <1>6, FS_CardinalityType
<1> QED BY <1>6, <1>7 DEF A, B

Numbered(cases, k) ==
  /\ k \in Nat
  /\ \A n \in 1..k : NthCase(cases, n) \in cases
  /\ \A c \in cases : \E n \in 1..k : NthCase(cases, n) = c
  /\ \A m, n \in 1..k : m < n =>
       Before(NthCase(cases, m).statement, NthCase(cases, n).statement)

LEMMA CasesAreNumbered ==
  ASSUME NEW cases, AreCases(cases)
  PROVE  Numbered(cases, Cardinality(cases))
<1> DEFINE k == Cardinality(cases)
           rank == [c \in cases |-> Cardinality(RanksBefore(cases, c))]
<1>1. k \in Nat /\ \A n \in 1..k : NthCase(cases, n) \in cases
  BY NthCaseIsOne
<1>2. \A c \in cases : rank[c] \in 0 .. k - 1
  <2>1. ASSUME NEW c \in cases PROVE Cardinality(RanksBefore(cases, c)) \in 0 .. k - 1
    <3>1. RanksBefore(cases, c) \in SUBSET cases /\ RanksBefore(cases, c) # cases
      <4>1. c.statement \in Seq(Nat)
        BY DEF AreCases
      <4>2. c \notin RanksBefore(cases, c)
        BY <4>1, BeforeByElements DEF RanksBefore
      <4> QED BY <4>2 DEF RanksBefore
    <3>2. /\ IsFiniteSet(RanksBefore(cases, c))
          /\ Cardinality(RanksBefore(cases, c)) <= k /\ Cardinality(RanksBefore(cases, c)) # k
      BY <3>1, FS_Subset DEF AreCases
    <3>3. Cardinality(RanksBefore(cases, c)) \in Nat
      BY <3>2, FS_CardinalityType
    <3> QED BY <1>1, <3>2, <3>3
  <2> QED BY <2>1
<1>3. \A c, d \in cases : c # d => rank[c] < rank[d] \/ rank[d] < rank[c]
  <2>1. ASSUME NEW c \in cases, NEW d \in cases, c # d
        PROVE  rank[c] < rank[d] \/ rank[d] < rank[c]
    <3>1. Before(c.statement, d.statement) \/ Before(d.statement, c.statement)
      BY <2>1, BeforeByElements DEF AreCases
    <3> QED BY <3>1, EarlierRanksLower
  <2> QED BY <2>1
<1>4. \A n \in 1..k : rank[NthCase(cases, n)] = n - 1
  <2> SUFFICES ASSUME NEW n \in 1..k PROVE rank[NthCase(cases, n)] = n - 1
    OBVIOUS
  <2>1. \E c \in cases : Cardinality(RanksBefore(cases, c)) = n - 1
    <3> DEFINE P == [c \in cases |-> RanksBefore(cases, c)]
    <3>1. P \in [cases -> SUBSET cases] /\ \A c \in cases : P[c] = RanksBefore(cases, c)
      BY DEF RanksBefore
    <3>2. \A c \in cases : c.statement \in Seq(Nat)
      BY DEF AreCases
    <3>3. /\ \A c \in cases : c \notin RanksBefore(cases, c)
          /\ \A c, d \in cases : c # d => c \in RanksBefore(cases, d) \/ d \in RanksBefore(cases, c)
      BY <3>2, BeforeByElements DEF RanksBefore, AreCases
    <3>4. \A c, d \in cases : c \in RanksBefore(cases, d) =>
                              RanksBefore(cases, c) \subseteq RanksBefore(cases, d)
      BY <3>2, BeforeTransitive DEF RanksBefore
    <3> HIDE DEF P
    <3>5. /\ IsFiniteSet(cases) /\ \A c \in cases : c \notin P[c]
          /\ \A c, d \in cases : c # d => c \in P[d] \/ d \in P[c]
          /\ \A c, d \in cases : c \in P[d] => P[c] \subseteq P[d]
      BY <3>1, <3>3, <3>4 DEF AreCases
    <3>6. \A m \in 0 .. k - 1 : \E c \in cases : Cardinality(P[c]) = m
      BY <3>1, <3>5, Ranked
    <3>7. n - 1 \in 0 .. k - 1
      BY <1>1
    <3> QED BY <3>1, <3>6, <3>7
  <2>2. NthCase(cases, n) = CHOOSE c \in cases : Cardinality(RanksBefore(cases, c)) = n - 1
    BY DEF NthCase, RanksBefore
  <2>3. Cardinality(RanksBefore(cases, NthCase(cases, n))) = n - 1
    BY <2>1, <2>2
  <2> QED BY <1>1, <2>3
<1>5. ASSUME NEW c \in cases PROVE \E n \in 1..k : NthCase(cases, n) = c
  <2>1. rank[c] \in 0 .. k - 1
    BY <1>2
  <2> DEFINE n == rank[c] + 1
  <2>2. n \in 1..k /\ n - 1 = rank[c]
    BY <1>1, <2>1
  <2> HIDE DEF n
  <2>3. rank[NthCase(cases, n)] = rank[c] /\ NthCase(cases, n) \in cases
    BY <1>1, <1>4, <2>2
  <2>4. NthCase(cases, n) = c
    <3>1. rank[c] \in Int
      BY <2>1
    <3> HIDE DEF rank
    <3> QED BY <1>3, <2>3, <3>1
  <2> QED BY <2>2, <2>4
<1>6. ASSUME NEW m \in 1..k, NEW n \in 1..k, m < n
      PROVE  Before(NthCase(cases, m).statement, NthCase(cases, n).statement)
  <2> DEFINE c == NthCase(cases, m)
             d == NthCase(cases, n)
  <2>1. c \in cases /\ d \in cases /\ rank[c] = m - 1 /\ rank[d] = n - 1
    BY <1>1, <1>4
  <2> HIDE DEF c, d
  <2>2. rank[c] < rank[d] /\ rank[c] \in Int /\ rank[d] \in Int
    BY <1>1, <1>6, <2>1
  <2>3. c # d /\ ~(rank[d] < rank[c])
    BY <2>2
  <2>4. c.statement # d.statement /\ c.statement \in Seq(Nat) /\ d.statement \in Seq(Nat)
    BY <2>1, <2>3 DEF AreCases
  <2>5. Before(c.statement, d.statement) \/ Before(d.statement, c.statement)
    BY <2>4, BeforeByElements
  <2>6. Before(d.statement, c.statement) => rank[d] < rank[c]
    BY <2>1, EarlierRanksLower
  <2> QED BY <2>3, <2>5, <2>6 DEF c, d
<1> QED BY <1>1, <1>5, <1>6 DEF Numbered


\* The compares of a switch, each with its jump, and the jump behind them.
IsRow(tree, compared, F) ==
  /\ IsSomeSequence(F) /\ Len(F) = 2 * Cardinality(compared)
  /\ \A n \in 1..Cardinality(compared) :
       /\ <<F[2 * n - 1]>> = CmpEax(tree[NthCase(compared, n).statement].arg)
       /\ <<F[2 * n]>> = Jump("je", NthCase(compared, n).label)

Defaults(cases) == {c \in cases : c.is_default}
LastJump(cases, end) ==
  Jump("jmp", IF Defaults(cases) = {} THEN end ELSE NthCase(Defaults(cases), 1).label)

LEMMA DispatchParts ==
  ASSUME NEW tree, NEW cases, AreCases(cases), NEW end
  PROVE  \E F : /\ IsRow(tree, cases \ Defaults(cases), F)
                /\ DispatchOf(tree, cases, end) = F \o LastJump(cases, end)
<1> DEFINE compared == cases \ Defaults(cases)
           compare(c) == CmpEax(tree[c.statement].arg) \o Jump("je", c.label)
           k == Cardinality(compared)
           F == [i \in 1 .. 2 * k |-> compare(NthCase(compared, (i + 1) \div 2))[2 - (i % 2)]]
<1>1. AreCases(compared) /\ k \in Nat
  <2>1. AreCases(compared)
    BY SomeAreCases
  <2> QED BY <2>1, NthCaseIsOne
<1>2. ASSUME NEW c
      PROVE  /\ <<compare(c)[1]>> = CmpEax(tree[c.statement].arg)
             /\ <<compare(c)[2]>> = Jump("je", c.label)
  <2>1. PICK a : CmpEax(tree[c.statement].arg) = <<a>>
    BY DEF CmpEax
  <2>2. PICK b : Jump("je", c.label) = <<b>>
    BY DEF Jump
  <2>3. compare(c) = <<a>> \o <<b>>
    BY <2>1, <2>2
  <2>4. compare(c)[1] = a /\ compare(c)[2] = b
    BY <2>3
  <2> HIDE DEF compare
  <2> QED BY <2>1, <2>2, <2>4
<1>3. IsSomeSequence(F) /\ Len(F) = 2 * k
  <2> DEFINE S == {F[i] : i \in 1 .. 2 * k}
  <2>1. PICK m \in Nat : m = 2 * k
    <3>1. 2 * k \in Nat
      BY <1>1
    <3> HIDE DEF F, S
    <3> QED BY <3>1
  <2>2. F \in [1..m -> S]
    BY <2>1
  <2> HIDE DEF F, S
  <2>3. F \in Seq(S) /\ Len(F) = m
    BY <2>2
  <2> QED BY <2>1, <2>3 DEF IsSomeSequence
<1>4. DispatchOf(tree, cases, end) = F \o LastJump(cases, end)
  BY DEF DispatchOf, LastJump, Defaults
<1> HIDE DEF compare, k, compared
<1>5. ASSUME NEW n \in 1..k
      PROVE  /\ <<F[2 * n - 1]>> = CmpEax(tree[NthCase(compared, n).statement].arg)
             /\ <<F[2 * n]>> = Jump("je", NthCase(compared, n).label)
  <2>1. /\ 2 * n - 1 \in 1 .. 2 * k /\ 2 * n \in 1 .. 2 * k
        /\ ((2 * n - 1) + 1) \div 2 = n /\ ((2 * n) + 1) \div 2 = n
        /\ 2 - ((2 * n - 1) % 2) = 1 /\ 2 - ((2 * n) % 2) = 2
    BY <1>1
  <2>2. F[2 * n - 1] = compare(NthCase(compared, n))[1]
    BY <2>1
  <2>3. F[2 * n] = compare(NthCase(compared, n))[2]
    BY <2>1
  <2> HIDE DEF F
  <2> QED BY <1>2, <2>2, <2>3
<1> HIDE DEF F, k
<1>6. IsRow(tree, compared, F)
  BY <1>3, <1>5 DEF IsRow, k
<1> QED BY <1>4, <1>6 DEF compared

\* Where a case or default of a switch is in the text.
LEMMA CaseLabelThere ==
  ASSUME NEW tree, NEW text, NEW L, Compiled(tree, text, L), NEW p,
         NEW c \in CasesOf(tree, L, p)
  PROVE  /\ Instr(text, L.from[c.statement], Label(c.label))
         /\ c.statement \in DOMAIN tree /\ c.statement \in CasesIn(tree, p)
         /\ c.is_default <=> tree[c.statement].kind = "default"
         /\ ~c.is_default <=> tree[c.statement].kind = "case"
<1>1. /\ c.statement \in CasesIn(tree, p) /\ c.label = L.labels[c.statement][1]
      /\ c.is_default = (tree[c.statement].kind = "default")
  <2>1. WellFormed(tree)
    BY DEF Compiled
  <2> QED BY <2>1, CasesOfAreCases
<1>2. c.statement \in DOMAIN tree /\ tree[c.statement].kind \in {"case", "default"}
  BY <1>1 DEF CasesIn
<1> DEFINE q == c.statement
<1>3. q \in DOMAIN tree /\ tree[q].kind \in {"case", "default"} /\ tree[q].kind # "label"
  BY <1>2
<1> HIDE DEF q
<1>4. Instr(text, L.from[q], Label(IF tree[q].kind = "label" THEN User(tree[q].arg)
                                   ELSE L.labels[q][1]))
  BY <1>3, LabelledRuns
<1>5. Instr(text, L.from[q], Label(L.labels[q][1]))
  BY <1>3, <1>4
<1> QED BY <1>1, <1>2, <1>5 DEF q

LEMMA LeadsWith ==
  ASSUME NEW text, NEW x, NEW i, Leads(text, x, i), NEW j,
         \A y \in Cells(text) : y.pc = i /\ y.rax = x.rax => Leads(text, y, j)
  PROVE  Leads(text, x, j)
<1>1. PICK y \in Cells(text) : Reaches(text, x, y) /\ y.pc = i /\ y.rax = x.rax
  BY DEF Leads
<1>2. PICK z \in Cells(text) : Reaches(text, y, z) /\ z.pc = j /\ z.rax = y.rax
  BY <1>1 DEF Leads
<1>3. Reaches(text, x, z)
  BY <1>1, <1>2, ReachesOn
<1> QED BY <1>1, <1>2, <1>3 DEF Leads

\* One compare with its jump.
CompareThere(text, i, v, k) ==
  /\ Instr(text, i, CmpEax(v))
  /\ \E l : Instr(text, i + 1, Jump("je", l)) /\ Instr(text, k, Label(l))

LEMMA CaseCompared ==
  ASSUME NEW text, Runnable(text), NEW i, NEW v, NEW k, CompareThere(text, i, v, k),
         NEW x \in Cells(text), x.pc = i, NEW r, r = x.rax % EaxRange
  PROVE  /\ r = v => Leads(text, x, k)
         /\ r # v => Leads(text, x, i + 2)
<1>1. PICK l : Instr(text, i + 1, Jump("je", l)) /\ Instr(text, k, Label(l))
  BY DEF CompareThere
<1> DEFINE op == "je"
<1>2. op = "je" /\ op \in {"je", "jne"} /\ Instr(text, i + 1, Jump(op, l))
  BY <1>1
<1> HIDE DEF op
<1>3. /\ (op = "je") = (x.rax % EaxRange = v) => Leads(text, x, k)
      /\ (op = "je") # (x.rax % EaxRange = v) => Leads(text, x, i + 2)
  BY <1>1, <1>2, CompareLeads DEF CompareThere
<1> QED BY <1>2, <1>3

\* A row of compares: the first that is equal is the one that jumps.
LEMMA RowOfCompares ==
  ASSUME NEW text, Runnable(text), NEW b \in Nat, NEW n \in Nat, NEW arg, NEW place,
         \A m \in 1..n : CompareThere(text, b + 2 * m - 2, arg[m], place[m]),
         NEW x \in Cells(text), x.pc = b, NEW v, v = x.rax % EaxRange
  PROVE  /\ \A m \in 1..n : arg[m] = v /\ (\A j \in 1..n : arg[j] = v => m <= j)
                              => Leads(text, x, place[m])
         /\ (\A m \in 1..n : arg[m] # v) => Leads(text, x, b + 2 * n)
<1> DEFINE Passed(m) == \A j \in 1..n : arg[j] = v => m < j
           Wrong == {m \in 0..n : Passed(m) /\ ~Leads(text, x, b + 2 * m)}
<1>1. ASSUME NEW m \in 1..n, Leads(text, x, b + 2 * m - 2)
      PROVE  /\ arg[m] = v => Leads(text, x, place[m])
             /\ arg[m] # v => Leads(text, x, b + 2 * m)
  <2> DEFINE i == b + 2 * m - 2
  <2>1. CompareThere(text, i, arg[m], place[m]) /\ i + 2 = b + 2 * m /\ Leads(text, x, i)
    BY <1>1
  <2> HIDE DEF i
  <2>2. \A y \in Cells(text) : y.pc = i /\ y.rax = x.rax =>
          /\ arg[m] = v => Leads(text, y, place[m])
          /\ arg[m] # v => Leads(text, y, i + 2)
    BY <2>1, CaseCompared
  <2>3. ASSUME arg[m] = v PROVE Leads(text, x, place[m])
    BY <2>1, <2>2, <2>3, LeadsWith
  <2>4. ASSUME arg[m] # v PROVE Leads(text, x, i + 2)
    BY <2>1, <2>2, <2>4, LeadsWith
  <2> QED BY <2>1, <2>3, <2>4
<1>2. Wrong = {}
  <2> SUFFICES ASSUME Wrong # {} PROVE FALSE
    OBVIOUS
  <2>1. PICK m \in Wrong : \A j \in Wrong : m <= j
    <3>1. Wrong \subseteq Nat
      OBVIOUS
    <3> HIDE DEF Wrong
    <3> QED BY <3>1, LeastIndex
  <2>2. m \in 0..n /\ Passed(m) /\ ~Leads(text, x, b + 2 * m)
    OBVIOUS
  <2>3. m # 0
    <3>1. Leads(text, x, b)
      BY LeadsItself
    <3>2. m = 0 => b + 2 * m = b
      OBVIOUS
    <3> QED BY <2>2, <3>1, <3>2
  <2>4. m \in 1..n /\ m - 1 \in 0..n /\ m - 1 \in Nat /\ b + 2 * m - 2 = b + 2 * (m - 1)
    BY <2>2, <2>3
  <2>5. Passed(m - 1) /\ arg[m] # v
    <3>1. \A j \in 1..n : m < j => m - 1 < j
      BY <2>4
    <3>2. ~(m < m)
      BY <2>4
    <3> QED BY <2>2, <2>4, <3>1, <3>2
  <2>6. Leads(text, x, b + 2 * (m - 1))
    <3>1. ~(m <= m - 1)
      BY <2>4
    <3>2. m - 1 \notin Wrong
      BY <2>1, <3>1
    <3> QED BY <2>4, <2>5, <3>2
  <2> HIDE DEF Passed, Wrong
  <2>7. Leads(text, x, b + 2 * m - 2)
    BY <2>4, <2>6
  <2> QED BY <1>1, <2>2, <2>4, <2>5, <2>7
<1>3. ASSUME NEW m \in 1..n, arg[m] = v, \A j \in 1..n : arg[j] = v => m <= j
      PROVE  Leads(text, x, place[m])
  <2>1. m - 1 \in 0..n /\ b + 2 * m - 2 = b + 2 * (m - 1) /\ \A j \in 1..n : m <= j => m - 1 < j
    OBVIOUS
  <2>2. Passed(m - 1)
    BY <1>3, <2>1
  <2>3. Leads(text, x, b + 2 * (m - 1))
    BY <1>2, <2>1, <2>2
  <2>4. Leads(text, x, b + 2 * m - 2)
    BY <2>1, <2>3
  <2> HIDE DEF Passed, Wrong
  <2> QED BY <1>1, <1>3, <2>4
<1>4. ASSUME \A m \in 1..n : arg[m] # v PROVE Leads(text, x, b + 2 * n)
  <2>1. Passed(n) /\ n \in 0..n
    BY <1>4
  <2> QED BY <1>2, <2>1
<1> QED BY <1>3, <1>4


Selection(tree, p, v, compared, defaults) ==
  LET arg(m) == tree[NthCase(compared, m).statement].arg
      k == Cardinality(compared)
  IN /\ \A m \in 1..k : arg(m) = v /\ (\A j \in 1..k : arg(j) = v => m <= j)
          => C!SelectedBy(tree, p, v) = {NthCase(compared, m).statement}
     /\ (\A m \in 1..k : arg(m) # v)
          => C!SelectedBy(tree, p, v) =
               IF defaults = {} THEN {} ELSE {NthCase(defaults, 1).statement}

LEMMA SwitchSelects ==
  ASSUME NEW tree, WellFormed(tree), NEW p \in DOMAIN tree, tree[p].kind = "switch",
         NEW L, NEW cases, cases = CasesOf(tree, L, p),
         NEW defaults, defaults = {c \in cases : c.is_default},
         NEW compared, compared = cases \ defaults,
         NEW v
  PROVE  Selection(tree, p, v, compared, defaults)
<1> DEFINE V == {q \in C!LabelsOf(tree, p, "case") : tree[q].arg = v}
           D == C!LabelsOf(tree, p, "default")
           k == Cardinality(compared)
           arg == [m \in 1..k |-> tree[NthCase(compared, m).statement].arg]
<1>1. /\ AreCases(cases)
      /\ \A c \in cases : /\ c.statement \in CasesIn(tree, p)
                          /\ c.is_default = (tree[c.statement].kind = "default")
      /\ \A q \in CasesIn(tree, p) : \E c \in cases : c.statement = q
  BY CasesOfAreCases
<1>2. /\ C!LabelsOf(tree, p, "case") = {q \in CasesIn(tree, p) : tree[q].kind = "case"}
      /\ D = {q \in CasesIn(tree, p) : tree[q].kind = "default"}
  BY LabelsOfSwitch
<1>3. \A q \in CasesIn(tree, p) : q \in Seq(Nat) /\ tree[q].kind \in {"case", "default"}
  <2>1. \A q \in CasesIn(tree, p) : q \in DOMAIN tree /\ tree[q].kind \in {"case", "default"}
    BY DEF CasesIn
  <2> QED BY <2>1, KidIsThere
<1>4. V \subseteq Seq(Nat) /\ D \subseteq Seq(Nat)
  BY <1>2, <1>3
<1>5. AreCases(compared) /\ AreCases(defaults)
  BY <1>1, SomeAreCases
<1>6. /\ k \in Nat /\ \A n \in 1..k : NthCase(compared, n) \in compared
      /\ \A c \in compared : \E n \in 1..k : NthCase(compared, n) = c
      /\ \A m, n \in 1..k : m < n =>
           Before(NthCase(compared, m).statement, NthCase(compared, n).statement)
  <2>1. Numbered(compared, k)
    BY <1>5, CasesAreNumbered
  <2> HIDE DEF V, D, k, arg
  <2> QED BY <2>1 DEF Numbered
<1>7. \A c \in compared : c.statement \in CasesIn(tree, p) /\ tree[c.statement].kind = "case"
  <2>1. \A c \in cases : c.is_default <=> tree[c.statement].kind = "default"
    BY <1>1
  <2>2. \A c \in compared : c \in cases /\ ~c.is_default
    OBVIOUS
  <2> HIDE DEF V, D, k, arg
  <2> QED BY <1>1, <1>3, <2>1, <2>2
<1>8. \A c \in defaults : c.statement \in CasesIn(tree, p) /\ tree[c.statement].kind = "default"
  BY <1>1
<1>9. ASSUME NEW q \in V PROVE \E j \in 1..k : NthCase(compared, j).statement = q /\ arg[j] = v
  <2>1. q \in CasesIn(tree, p) /\ tree[q].kind = "case" /\ tree[q].arg = v
    BY <1>2, <1>9
  <2>2. PICK c \in cases : c.statement = q
    BY <1>1, <2>1
  <2>3. c \in compared
    BY <1>8, <2>1, <2>2
  <2>4. PICK j \in 1..k : NthCase(compared, j) = c
    BY <1>6, <2>3
  <2> QED BY <2>1, <2>2, <2>4
<1>10. ASSUME NEW q \in D PROVE \E c \in defaults : c.statement = q
  <2>1. q \in CasesIn(tree, p) /\ tree[q].kind = "default"
    BY <1>2, <1>10
  <2>2. PICK c \in cases : c.statement = q
    BY <1>1, <2>1
  <2>3. c \in defaults
    BY <1>1, <2>1, <2>2
  <2> QED BY <2>2, <2>3
<1>11. \A m \in 1..k : arg[m] = v => NthCase(compared, m).statement \in V
  BY <1>2, <1>6, <1>7
<1>12. C!SelectedBy(tree, p, v) = IF C!First(V) # {} THEN C!First(V) ELSE C!First(D)
  BY DEF C!SelectedBy
<1> HIDE DEF V, D, arg, k
<1>13. ASSUME NEW m \in 1..k, arg[m] = v, \A j \in 1..k : arg[j] = v => m <= j
       PROVE  C!SelectedBy(tree, p, v) = {NthCase(compared, m).statement}
  <2> DEFINE r == NthCase(compared, m).statement
  <2>1. r \in V
    BY <1>11, <1>13
  <2>2. ASSUME NEW q \in V PROVE q = r \/ Before(r, q)
    <3>1. PICK j \in 1..k : NthCase(compared, j).statement = q /\ arg[j] = v
      BY <1>9
    <3>2. j = m \/ m < j
      BY <1>13, <3>1
    <3> QED BY <1>6, <3>1, <3>2
  <2> HIDE DEF r
  <2>3. C!First(V) = {r}
    BY <1>4, <2>1, <2>2, FirstIsOne
  <2> QED BY <1>12, <2>3 DEF r
<1>14. ASSUME \A m \in 1..k : arg[m] # v
       PROVE  C!SelectedBy(tree, p, v) =
                IF defaults = {} THEN {} ELSE {NthCase(defaults, 1).statement}
  <2>1. V = {}
    BY <1>9, <1>14
  <2>2. C!SelectedBy(tree, p, v) = C!First(D)
    BY <1>12, <2>1, NothingIsFirst
  <2>3. CASE defaults = {}
    <3>1. D = {}
      BY <1>10, <2>3
    <3> QED BY <2>2, <2>3, <3>1, NothingIsFirst
  <2>4. CASE defaults # {}
    <3> DEFINE n == Cardinality(defaults)
               r == NthCase(defaults, 1).statement
    <3>1. n \in Nat /\ 1 \in 1..n
      BY <1>5, <2>4, NthCaseIsOne
    <3>2. /\ \A i \in 1..n : NthCase(defaults, i) \in defaults
          /\ \A c \in defaults : \E i \in 1..n : NthCase(defaults, i) = c
          /\ \A i, j \in 1..n : i < j =>
               Before(NthCase(defaults, i).statement, NthCase(defaults, j).statement)
      <4>1. Numbered(defaults, n)
        BY <1>5, CasesAreNumbered
      <4> HIDE DEF n, r
      <4> QED BY <4>1 DEF Numbered
    <3>3. r \in D
      <4>1. NthCase(defaults, 1) \in defaults
        BY <3>1, <3>2
      <4> QED BY <1>2, <1>8, <4>1 DEF D
    <3>4. ASSUME NEW q \in D PROVE q = r \/ Before(r, q)
      <4>1. PICK c \in defaults : c.statement = q
        BY <1>10
      <4>2. PICK j \in 1..n : NthCase(defaults, j) = c
        BY <3>2
      <4>3. j = 1 \/ 1 < j
        BY <3>1
      <4> QED BY <3>1, <3>2, <4>1, <4>2, <4>3
    <3> HIDE DEF r
    <3>5. C!First(D) = {r}
      BY <1>4, <3>3, <3>4, FirstIsOne
    <3> QED BY <2>2, <2>4, <3>5 DEF r
  <2> QED BY <2>3, <2>4
<1> QED BY <1>13, <1>14 DEF Selection, arg, k

LEMMA HeldAt ==
  ASSUME NEW text, IsSomeSequence(text), NEW i, NEW t, NEW j, Holds(text, i, t, j),
         NEW n \in 1..Len(t)
  PROVE  Instr(text, i + n - 1, <<t[n]>>)
<1>1. /\ i \in Nat \ {0} /\ j = i + Len(t) /\ j <= Len(text) + 1 /\ text[i + n - 1] = t[n]
      /\ Len(text) \in Nat /\ DOMAIN text = 1..Len(text) /\ Len(t) \in Nat
  BY DEF Holds, IsSomeSequence
<1>2. i + n - 1 \in 1..Len(text)
  BY <1>1
<1> QED BY <1>1, <1>2 DEF Instr


\* The compares of a switch in the text, from b on, and the jump behind them.
DispatchAt(tree, text, L, b, compared, last) ==
  /\ b \in Nat
  /\ \A m \in 1..Cardinality(compared) :
       CompareThere(text, b + 2 * m - 2, tree[NthCase(compared, m).statement].arg,
                    L.from[NthCase(compared, m).statement])
  /\ Instr(text, b + 2 * Cardinality(compared), Jump("jmp", last))

LEMMA DispatchIsThere ==
  ASSUME NEW tree, NEW text, NEW L, Compiled(tree, text, L),
         NEW p \in DOMAIN tree, tree[p].kind = "switch",
         NEW cases, cases = CasesOf(tree, L, p),
         NEW defaults, defaults = Defaults(cases), NEW compared, compared = cases \ defaults
  PROVE  /\ Instr(text, L.from[p], Eval(p, "test"))
         /\ DispatchAt(tree, text, L, L.from[p] + 1, compared,
                       IF defaults = {} THEN ExitLabel(tree, L, p)
                       ELSE NthCase(defaults, 1).label)
         /\ Instr(text, L.to[Kid(p, 1)], Label(ExitLabel(tree, L, p)))
         /\ Goes(text, L.to[Kid(p, 1)], L.to[p])
         /\ BreakGoesOn(tree, text, L, p)
<1> DEFINE end == L.labels[p][1]
           k == Cardinality(compared)
           last == IF defaults = {} THEN end ELSE NthCase(defaults, 1).label
           b == L.from[p] + 1
<1>1. AreCases(cases)
  <2>1. WellFormed(tree)
    BY DEF Compiled
  <2> QED BY <2>1, CasesOfAreCases
<1>2. IsSomeSequence(text)
  BY DEF Compiled, IsLayout
<1>3. AreCases(compared) /\ k \in Nat /\ \A m \in 1..k : NthCase(compared, m) \in cases
  <2>1. AreCases(compared)
    BY <1>1, SomeAreCases DEF Defaults
  <2>2. k \in Nat /\ \A m \in 1..k : NthCase(compared, m) \in compared
    BY <2>1, NthCaseIsOne
  <2> QED BY <2>1, <2>2
<1>4. PICK F : IsRow(tree, compared, F) /\ DispatchOf(tree, cases, end) = F \o Jump("jmp", last)
  <2> HIDE DEF last, end, k, b
  <2>1. \E F : IsRow(tree, cases \ Defaults(cases), F)
                 /\ DispatchOf(tree, cases, end) = F \o LastJump(cases, end)
    BY <1>1, DispatchParts
  <2>2. compared = cases \ Defaults(cases)
    OBVIOUS
  <2>3. LastJump(cases, end) = Jump("jmp", last)
    BY DEF LastJump, last
  <2> QED BY <2>1, <2>2, <2>3
<1>5. ExitLabel(tree, L, p) = end
  BY DEF ExitLabel
<1> DEFINE dispatch == DispatchOf(tree, cases, end)
<1>6. IsSomeSequence(dispatch)
  <2>1. IsSomeSequence(Jump("jmp", last))
    BY Ones, OneIsShort
  <2>2. IsSomeSequence(F)
    BY <1>4 DEF IsRow
  <2> HIDE DEF last
  <2> QED BY <1>4, <2>1, <2>2, JoinedTexts
<1>7. /\ Instr(text, L.from[p], Eval(p, "test"))
      /\ Holds(text, b, dispatch, L.from[Kid(p, 1)])
      /\ Instr(text, L.to[Kid(p, 1)], Label(ExitLabel(tree, L, p)))
      /\ Goes(text, L.to[Kid(p, 1)], L.to[p])
      /\ BreakGoesOn(tree, text, L, p)
  <2>1. dispatch = DispatchOf(tree, CasesOf(tree, L, p), L.labels[p][1])
    OBVIOUS
  <2> HIDE DEF dispatch
  <2> QED BY <1>6, <2>1, SwitchRuns
<1> HIDE DEF last, end, k, b
<1>8. Holds(text, b, F \o Jump("jmp", last), L.from[Kid(p, 1)])
  BY <1>4, <1>7
<1>9. /\ Holds(text, b, F, b + Len(F)) /\ Instr(text, b + Len(F), Jump("jmp", last))
      /\ b \in Nat
  <2>1. IsSomeSequence(F)
    BY <1>4 DEF IsRow
  <2> QED BY <1>2, <1>8, <2>1, Ones, LastAt
<1>10. ASSUME NEW m \in 1..k
       PROVE  CompareThere(text, b + 2 * m - 2, tree[NthCase(compared, m).statement].arg,
                           L.from[NthCase(compared, m).statement])
  <2> DEFINE c == NthCase(compared, m)
             i == 2 * m - 1
             j == 2 * m
  <2>1. /\ i \in 1..Len(F) /\ j \in 1..Len(F)
        /\ b + i - 1 = b + 2 * m - 2 /\ b + j - 1 = (b + 2 * m - 2) + 1
    <3>1. Len(F) = 2 * k
      BY <1>4 DEF IsRow, k
    <3> QED BY <1>3, <1>9, <3>1
  <2>2. <<F[i]>> = CmpEax(tree[c.statement].arg) /\ <<F[j]>> = Jump("je", c.label)
    BY <1>4 DEF IsRow, k
  <2>3. c \in CasesOf(tree, L, p)
    BY <1>3
  <2> HIDE DEF c, i, j
  <2>4. Instr(text, b + i - 1, <<F[i]>>) /\ Instr(text, b + j - 1, <<F[j]>>)
    BY <1>2, <1>9, <2>1, HeldAt
  <2>5. Instr(text, L.from[c.statement], Label(c.label))
    BY <2>3, CaseLabelThere
  <2>6. CompareThere(text, b + 2 * m - 2, tree[c.statement].arg, L.from[c.statement])
    BY <2>1, <2>2, <2>4, <2>5 DEF CompareThere
  <2> QED BY <2>6 DEF c
<1>11. DispatchAt(tree, text, L, b, compared, last)
  <2>1. Instr(text, b + 2 * k, Jump("jmp", last))
    BY <1>4, <1>9 DEF IsRow, k
  <2> QED BY <1>9, <1>10, <2>1 DEF DispatchAt, k
<1> QED BY <1>5, <1>7, <1>11 DEF b, last

LEMMA SelectedLeads ==
  ASSUME NEW tree, NEW text, NEW L, Compiled(tree, text, L),
         NEW p \in DOMAIN tree, tree[p].kind = "switch",
         NEW x \in Cells(text), x.pc = L.from[p] + 1, NEW v, v = x.rax, v = x.rax % EaxRange
  PROVE  \/ \E q \in DOMAIN tree : C!SelectedBy(tree, p, v) = {q} /\ Leads(text, x, L.from[q])
         \/ C!SelectedBy(tree, p, v) = {} /\ Leads(text, x, L.to[p])
<1>1. PICK cases : cases = CasesOf(tree, L, p)
  OBVIOUS
<1>2. PICK defaults : defaults = Defaults(cases)
  OBVIOUS
<1>3. PICK compared : compared = cases \ defaults
  OBVIOUS
<1> DEFINE last == IF defaults = {} THEN ExitLabel(tree, L, p) ELSE NthCase(defaults, 1).label
           b == L.from[p] + 1
           k == Cardinality(compared)
           arg == [m \in 1..k |-> tree[NthCase(compared, m).statement].arg]
           place == [m \in 1..k |-> L.from[NthCase(compared, m).statement]]
           selected == C!SelectedBy(tree, p, v)
<1>4. /\ DispatchAt(tree, text, L, b, compared, last)
      /\ Instr(text, L.to[Kid(p, 1)], Label(ExitLabel(tree, L, p)))
      /\ Goes(text, L.to[Kid(p, 1)], L.to[p])
  BY <1>1, <1>2, <1>3, DispatchIsThere
<1>5. WellFormed(tree) /\ Runnable(text)
  BY DEF Compiled
<1>6. AreCases(compared) /\ AreCases(defaults) /\ k \in Nat
      /\ \A m \in 1..k : NthCase(compared, m) \in cases
  <2>1. AreCases(cases)
    BY <1>1, <1>5, CasesOfAreCases
  <2>2. AreCases(compared) /\ AreCases(defaults)
    BY <1>2, <1>3, <2>1, SomeAreCases DEF Defaults
  <2>3. k \in Nat /\ \A m \in 1..k : NthCase(compared, m) \in compared
    BY <2>2, NthCaseIsOne
  <2> QED BY <1>3, <2>2, <2>3
<1>7. \A c \in cases : c.statement \in DOMAIN tree /\ Instr(text, L.from[c.statement], Label(c.label))
  BY <1>1, CaseLabelThere
<1>8. \A m \in 1..k : arg[m] = tree[NthCase(compared, m).statement].arg
                        /\ place[m] = L.from[NthCase(compared, m).statement]
  OBVIOUS
<1>9. /\ b \in Nat /\ \A m \in 1..k : CompareThere(text, b + 2 * m - 2, arg[m], place[m])
      /\ Instr(text, b + 2 * k, Jump("jmp", last))
  BY <1>4 DEF DispatchAt
<1> HIDE DEF last, b, arg, place, k
<1>10. /\ \A m \in 1..k : arg[m] = v /\ (\A j \in 1..k : arg[j] = v => m <= j)
            => selected = {NthCase(compared, m).statement}
       /\ (\A m \in 1..k : arg[m] # v)
            => selected = IF defaults = {} THEN {} ELSE {NthCase(defaults, 1).statement}
  <2>1. Selection(tree, p, v, compared, defaults)
    BY <1>1, <1>2, <1>3, <1>5, SwitchSelects DEF Defaults
  <2>2. k = Cardinality(compared)
    BY DEF k
  <2> QED BY <1>8, <2>1, <2>2 DEF Selection
<1>11. /\ \A m \in 1..k : arg[m] = v /\ (\A j \in 1..k : arg[j] = v => m <= j)
             => Leads(text, x, place[m])
       /\ (\A m \in 1..k : arg[m] # v) => Leads(text, x, b + 2 * k)
  <2>1. x.pc = b
    BY DEF b
  <2> QED BY <1>5, <1>6, <1>9, <2>1, RowOfCompares
<1> HIDE DEF selected
<1>12. CASE \E m \in 1..k : arg[m] = v
  <2> DEFINE T == {m \in 1..k : arg[m] = v}
  <2>1. T \subseteq Nat /\ T # {}
    BY <1>6, <1>12
  <2>2. PICK m \in T : \A j \in T : m <= j
    <3> HIDE DEF T
    <3> QED BY <2>1, LeastIndex
  <2>3. m \in 1..k /\ arg[m] = v /\ \A j \in 1..k : arg[j] = v => m <= j
    BY <2>2
  <2>4. selected = {NthCase(compared, m).statement} /\ Leads(text, x, place[m])
    BY <1>10, <1>11, <2>3
  <2>5. NthCase(compared, m).statement \in DOMAIN tree
    BY <1>6, <1>7, <2>3
  <2> QED BY <1>8, <2>3, <2>4, <2>5 DEF selected
<1>13. CASE \A m \in 1..k : arg[m] # v
  <2>1. Leads(text, x, b + 2 * k)
    BY <1>11, <1>13
  <2>2. CASE defaults = {}
    <3>1. selected = {} /\ last = ExitLabel(tree, L, p)
      BY <1>10, <1>13, <2>2 DEF last
    <3>2. Goes(text, b + 2 * k, L.to[Kid(p, 1)])
      BY <1>4, <1>5, <1>9, <3>1, JumpGoes
    <3>3. Goes(text, b + 2 * k, L.to[p])
      BY <1>4, <3>2, GoesOn
    <3>4. Leads(text, x, L.to[p])
      BY <2>1, <3>3, LeadsOn DEF Goes
    <3> QED BY <3>1, <3>4 DEF selected
  <2>3. CASE defaults # {}
    <3> DEFINE c == NthCase(defaults, 1)
    <3>1. selected = {c.statement} /\ last = c.label
      BY <1>10, <1>13, <2>3 DEF last
    <3>2. c \in cases
      <4>1. c \in defaults
        BY <1>6, <2>3, NthCaseIsOne
      <4> QED BY <1>2, <4>1 DEF Defaults
    <3> HIDE DEF c
    <3>3. c.statement \in DOMAIN tree /\ Instr(text, L.from[c.statement], Label(last))
      BY <1>7, <3>1, <3>2
    <3>4. Goes(text, b + 2 * k, L.from[c.statement])
      BY <1>5, <1>9, <3>3, JumpGoes
    <3>5. Leads(text, x, L.from[c.statement])
      BY <2>1, <3>4, LeadsOn DEF Goes
    <3> QED BY <3>1, <3>3, <3>5 DEF selected
  <2> QED BY <2>2, <2>3
<1> QED BY <1>12, <1>13


LEMMA BreaksGoOn ==
  ASSUME NEW tree, NEW text, NEW L, Compiled(tree, text, L),
         NEW p \in DOMAIN tree, tree[p].kind \in Targeted
  PROVE  BreakGoesOn(tree, text, L, p)
<1>1. CASE tree[p].kind = "while"
  BY <1>1, WhileRuns
<1>2. CASE tree[p].kind = "do"
  BY <1>2, DoRuns
<1>3. CASE tree[p].kind = "for"
  BY <1>3, ForRuns
<1>4. CASE tree[p].kind = "switch"
  <2>1. PICK cases : cases = CasesOf(tree, L, p)
    OBVIOUS
  <2>2. PICK defaults : defaults = Defaults(cases)
    OBVIOUS
  <2>3. PICK compared : compared = cases \ defaults
    OBVIOUS
  <2> QED BY <1>4, <2>1, <2>2, <2>3, DispatchIsThere
<1> QED BY <1>1, <1>2, <1>3, <1>4 DEF Targeted, Loops

LEMMA SilentSteps ==
  ASSUME NEW tree, NEW p, NEW kind, kind = tree[p].kind,
         NEW e, e = C!SilentStep(tree, C!Control("enter", p))
  PROVE  /\ C!SilentStep(tree, C!Control("left", p)) = C!After(tree, p)
         /\ kind = "compound" =>
              e = IF tree[p].kids = 0 THEN C!Control("left", p)
                  ELSE C!Control("enter", Kid(p, 1))
         /\ kind \in {"if", "while", "switch"} => e = C!Control("test", p)
         /\ kind \in {"do", "case", "default", "label"} => e = C!Control("enter", Kid(p, 1))
         /\ kind = "for" =>
              e = IF Has(tree, p, "init") THEN C!Control("enter", Kid(p, 1))
                  ELSE C!ForTest(tree, p)
         /\ kind = "break" => e = C!Control("left", C!The(Innermost(tree, p, Targeted)))
         /\ kind = "continue" => e = C!Iterate(tree, C!The(Innermost(tree, p, Loops)))
         /\ kind = "goto" => e = C!Control("enter", C!The(C!LabelsNamed(tree, tree[p].arg)))
         /\ kind = "return" => e = C!Finished(0)
         /\ kind = "expression" => e = C!Control("left", p)
<1>1. PICK c : c = C!Control("enter", p)
  OBVIOUS
<1>2. c.stage = "enter" /\ c.at = p
  BY <1>1, ControlFields
<1>3. PICK d : d = C!Control("left", p)
  OBVIOUS
<1>4. d.stage = "left" /\ d.at = p
  BY <1>3, ControlFields
<1>5. C!SilentStep(tree, d) = C!After(tree, p)
  BY <1>4 DEF C!SilentStep
<1>6. e = C!SilentStep(tree, c)
  BY <1>1
<1>7. /\ C!Loops = Loops /\ C!EnterKid(tree, p, 1) = C!Control("enter", Kid(p, 1))
      /\ \A part : C!Has(tree, p, part) <=> Has(tree, p, part)
      /\ \A kinds : C!Innermost(tree, p, kinds) = Innermost(tree, p, kinds)
  BY SameWords, Controls
<1>8. CASE kind = "compound"
  BY <1>2, <1>3, <1>5, <1>6, <1>7, <1>8, ZenonT(40) DEF C!SilentStep
<1>9. CASE kind \in {"if", "while", "switch"}
  BY <1>2, <1>3, <1>5, <1>6, <1>7, <1>9, ZenonT(40) DEF C!SilentStep
<1>10. CASE kind \in {"do", "case", "default", "label"}
  BY <1>2, <1>3, <1>5, <1>6, <1>7, <1>10, ZenonT(40) DEF C!SilentStep
<1>11. CASE kind = "for"
  BY <1>2, <1>3, <1>5, <1>6, <1>7, <1>11, ZenonT(40) DEF C!SilentStep
<1>12. CASE kind = "break"
  <2>1. e = C!Control("left", C!The(C!Innermost(tree, p, C!Loops \cup {"switch"})))
    BY <1>2, <1>6, <1>12, ZenonT(40) DEF C!SilentStep
  <2> QED BY <1>3, <1>5, <1>7, <1>12, <2>1 DEF Targeted
<1>13. CASE kind = "continue"
  <2>1. e = C!Iterate(tree, C!The(C!Innermost(tree, p, C!Loops)))
    BY <1>2, <1>6, <1>13, ZenonT(40) DEF C!SilentStep
  <2> QED BY <1>3, <1>5, <1>7, <1>13, <2>1
<1>14. CASE kind = "goto"
  BY <1>2, <1>3, <1>5, <1>6, <1>7, <1>14, ZenonT(40) DEF C!SilentStep
<1>15. CASE kind = "return"
  BY <1>2, <1>3, <1>5, <1>6, <1>7, <1>15, ZenonT(40) DEF C!SilentStep
<1>16. CASE kind = "expression"
  BY <1>2, <1>3, <1>5, <1>6, <1>7, <1>16, ZenonT(40) DEF C!SilentStep
<1>17. CASE kind \notin {"compound", "if", "while", "switch", "do", "case", "default", "label",
                         "for", "break", "continue", "goto", "return", "expression"}
  BY <1>3, <1>5, <1>17
<1> QED BY <1>8, <1>9, <1>10, <1>11, <1>12, <1>13, <1>14, <1>15, <1>16, <1>17

\* A goto gets to the label it names.
LEMMA GotoLeads ==
  ASSUME NEW tree, NEW text, NEW L, Compiled(tree, text, L),
         NEW p \in DOMAIN tree, tree[p].kind = "goto"
  PROVE  ComesTo(tree, text, L, L.from[p],
                 C!Control("enter", C!The(C!LabelsNamed(tree, tree[p].arg))))
<1> DEFINE named == C!LabelsNamed(tree, tree[p].arg)
           r == C!The(named)
<1>1. Instr(text, L.from[p], Jump("jmp", User(tree[p].arg)))
  BY LeavesRun DEF LeafKinds
<1>2. Runnable(text) /\ HasItsLabels(tree, text)
  BY DEF Compiled
<1>3. PICK i : i \in DOMAIN text /\ text[i].op = "label" /\ text[i].label = User(tree[p].arg)
  <2>1. /\ L.from[p] \in DOMAIN text /\ text[L.from[p]].op = "jmp"
        /\ text[L.from[p]].label = User(tree[p].arg)
    BY <1>1, JumpAt
  <2>2. DefinitionsIn(text, User(tree[p].arg)) # {}
    BY <1>2, <2>1 DEF Runnable, JumpOps
  <2> QED BY <2>2 DEF DefinitionsIn
<1>4. PICK q \in DOMAIN tree : tree[q].kind = "label" /\ User(tree[p].arg) = User(tree[q].arg)
  <2>1. IsLabelOf(tree, User(tree[p].arg))
    BY <1>2, <1>3 DEF HasItsLabels
  <2>2. ~IsLocal(User(tree[p].arg))
    BY DEF IsLocal, Local, User
  <2> QED BY <2>1, <2>2 DEF IsLabelOf
<1>5. tree[q].arg = tree[p].arg
  BY <1>4 DEF User
<1>6. q \in named
  BY <1>4, <1>5 DEF C!LabelsNamed
<1>7. r \in named
  BY <1>6 DEF C!The
<1>8. r \in DOMAIN tree /\ tree[r].kind = "label" /\ tree[r].arg = tree[p].arg
  BY <1>7 DEF C!LabelsNamed
<1> HIDE DEF r, named
<1>9. Instr(text, L.from[r], Label(User(tree[p].arg)))
  BY <1>8, LabelledRuns
<1>10. Goes(text, L.from[p], L.from[r])
  BY <1>1, <1>2, <1>9, JumpGoes
<1>11. ComesTo(tree, text, L, L.from[p], C!Control("enter", r))
  BY <1>8, <1>10, EnterFollows
<1> QED BY <1>11 DEF r, named

LEMMA BreakLeads ==
  ASSUME NEW tree, NEW text, NEW L, Compiled(tree, text, L),
         NEW p \in DOMAIN tree, tree[p].kind = "break"
  PROVE  ComesTo(tree, text, L, L.from[p],
                 C!Control("left", C!The(Innermost(tree, p, Targeted))))
<1>1. WellFormed(tree) /\ SemaAccepts(tree) /\ Runnable(text)
  BY DEF Compiled
<1>2. PICK q \in DOMAIN tree : tree[q].kind \in Targeted /\ C!The(Innermost(tree, p, Targeted)) = q
  BY <1>1, TargetOfJump
<1>3. Instr(text, L.from[p], Jump("jmp", ExitLabel(tree, L, q)))
  BY <1>2, LeavesRun DEF LeafKinds
<1>4. PICK k : Instr(text, k, Label(ExitLabel(tree, L, q))) /\ Goes(text, k, L.to[q])
  BY <1>2, BreaksGoOn DEF BreakGoesOn
<1>5. Goes(text, L.from[p], k)
  BY <1>1, <1>3, <1>4, JumpGoes
<1>6. Goes(text, L.from[p], L.to[q])
  BY <1>4, <1>5, GoesOn
<1>7. ComesTo(tree, text, L, L.from[p], C!Control("left", q))
  BY <1>6, EnterFollows
<1> QED BY <1>2, <1>7

LEMMA ContinueLeads ==
  ASSUME NEW tree, NEW text, NEW L, Compiled(tree, text, L),
         NEW p \in DOMAIN tree, tree[p].kind = "continue"
  PROVE  ComesTo(tree, text, L, L.from[p], C!Iterate(tree, C!The(Innermost(tree, p, Loops))))
<1>1. WellFormed(tree) /\ SemaAccepts(tree) /\ Runnable(text)
  BY DEF Compiled
<1>2. PICK q \in DOMAIN tree : tree[q].kind \in Loops /\ C!The(Innermost(tree, p, Loops)) = q
  BY <1>1, TargetOfJump
<1>3. Instr(text, L.from[p], Jump("jmp", ContinueLabel(tree, L, q)))
  BY <1>2, LeavesRun DEF LeafKinds
<1>4. CASE tree[q].kind = "while"
  <2>1. Instr(text, L.from[q], Label(ContinueLabel(tree, L, q)))
    BY <1>4, WhileRuns
  <2>2. Goes(text, L.from[p], L.from[q])
    BY <1>1, <1>3, <2>1, JumpGoes
  <2>3. C!Iterate(tree, q) = C!Control("test", q) /\ IsControl(tree, C!Control("test", q))
    BY <1>4, Controls DEF IsControl, Targeted, Loops
  <2>4. PlaceOf(tree, L, C!Control("test", q)) = L.from[q]
    BY <1>4, Places
  <2> QED BY <1>2, <2>2, <2>3, <2>4 DEF ComesTo
<1>5. CASE tree[q].kind \in {"do", "for"}
  <2> DEFINE k == L.to[Kid(q, tree[q].kids)]
  <2>1. Instr(text, k, Label(ContinueLabel(tree, L, q)))
    <3>1. CASE tree[q].kind = "do"
      <4>1. tree[q].kids = 1
        BY <1>1, <3>1, KidsOfKinds
      <4> QED BY <3>1, <4>1, DoRuns
    <3>2. CASE tree[q].kind = "for"
      BY <3>2, ForRuns
    <3> QED BY <1>5, <3>1, <3>2
  <2>2. ComesTo(tree, text, L, k, C!Iterate(tree, q))
    BY <1>2, IterateFollows
  <2> HIDE DEF k
  <2>3. Goes(text, L.from[p], k)
    BY <1>1, <1>3, <2>1, JumpGoes
  <2>4. ComesTo(tree, text, L, L.from[p], C!Iterate(tree, q))
    BY <2>2, <2>3, FollowsFrom
  <2> QED BY <1>2, <2>4
<1> QED BY <1>2, <1>4, <1>5 DEF Loops

\* What is entered and asks for no value, by the step the body makes.
LEMMA EnteredFollows ==
  ASSUME NEW tree, NEW text, NEW L, Compiled(tree, text, L),
         NEW p \in DOMAIN tree, tree[p].kind # "return",
         ~(tree[p].kind = "expression" /\ Has(tree, p, "value"))
  PROVE  ComesTo(tree, text, L, L.from[p], C!SilentStep(tree, C!Control("enter", p)))
<1>1. PICK e : e = C!SilentStep(tree, C!Control("enter", p))
  OBVIOUS
<1>2. WellFormed(tree) /\ tree[p].kind \in Kinds
  BY KidsOfKinds DEF Compiled
<1>3. ComesTo(tree, text, L, L.from[p], e)
  <2>1. CASE tree[p].kind = "compound"
    <3>1. CASE tree[p].kids = 0
      <4>1. e = C!Control("left", p) /\ Goes(text, L.from[p], L.to[p])
        BY <1>1, <2>1, <3>1, SilentSteps, CompoundRuns
      <4> QED BY <4>1, EnterFollows
    <3>2. CASE tree[p].kids # 0
      <4>1. e = C!Control("enter", Kid(p, 1)) /\ Goes(text, L.from[p], L.from[Kid(p, 1)])
        BY <1>1, <2>1, <3>2, SilentSteps, CompoundRuns
      <4>2. Kid(p, 1) \in DOMAIN tree
        BY <1>2, <3>2, LastKid
      <4> QED BY <4>1, <4>2, EnterFollows
    <3> QED BY <3>1, <3>2
  <2>2. CASE tree[p].kind \in {"if", "while", "switch"}
    <3>1. e = C!Control("test", p)
      BY <1>1, <2>2, SilentSteps
    <3>2. IsControl(tree, C!Control("test", p))
      BY <2>2 DEF IsControl, Targeted, Loops
    <3>3. PlaceOf(tree, L, C!Control("test", p)) = L.from[p]
      BY <2>2, Places
    <3> QED BY <3>1, <3>2, <3>3, GoesNowhere DEF ComesTo
  <2>3. CASE tree[p].kind \in {"do", "case", "default", "label"}
    <3>1. e = C!Control("enter", Kid(p, 1))
      BY <1>1, <2>3, SilentSteps
    <3>2. Goes(text, L.from[p], L.from[Kid(p, 1)])
      BY <2>3, DoRuns, LabelledRuns
    <3>3. Kid(p, 1) \in DOMAIN tree
      <4>1. tree[p].kids # 0
        BY <1>2, <2>3, KidsOfKinds
      <4> QED BY <1>2, <4>1, LastKid
    <3> QED BY <3>1, <3>2, <3>3, EnterFollows
  <2>4. CASE tree[p].kind = "for"
    <3>1. CASE Has(tree, p, "init")
      <4>1. e = C!Control("enter", Kid(p, 1))
        BY <1>1, <2>4, <3>1, SilentSteps
      <4>2. Goes(text, L.from[p], L.from[Kid(p, 1)])
        BY <2>4, <3>1, ForRuns
      <4>3. Kid(p, 1) \in DOMAIN tree
        <5>1. tree[p].kids # 0
          BY <1>2, <2>4, <3>1, KidsOfKinds
        <5> QED BY <1>2, <5>1, LastKid
      <4> QED BY <4>1, <4>2, <4>3, EnterFollows
    <3>2. CASE ~Has(tree, p, "init")
      <4>1. e = C!ForTest(tree, p)
        BY <1>1, <2>4, <3>2, SilentSteps
      <4>2. StartOf(L, p, tree[p].kids - 1) = L.from[p]
        BY <2>4, <3>2, ForRuns
      <4> QED BY <2>4, <4>1, <4>2, ForTestFollows
    <3> QED BY <3>1, <3>2
  <2>5. CASE tree[p].kind = "break"
    <3>1. e = C!Control("left", C!The(Innermost(tree, p, Targeted)))
      BY <1>1, <2>5, SilentSteps
    <3> QED BY <2>5, <3>1, BreakLeads
  <2>6. CASE tree[p].kind = "continue"
    <3>1. e = C!Iterate(tree, C!The(Innermost(tree, p, Loops)))
      BY <1>1, <2>6, SilentSteps
    <3> QED BY <2>6, <3>1, ContinueLeads
  <2>7. CASE tree[p].kind = "goto"
    <3>1. e = C!Control("enter", C!The(C!LabelsNamed(tree, tree[p].arg)))
      BY <1>1, <2>7, SilentSteps
    <3> QED BY <2>7, <3>1, GotoLeads
  <2>8. CASE tree[p].kind = "expression"
    <3>1. e = C!Control("left", p)
      BY <1>1, <2>8, SilentSteps
    <3>2. Goes(text, L.from[p], L.to[p])
      BY <2>8, LeavesRun DEF LeafKinds
    <3> QED BY <3>1, <3>2, EnterFollows
  <2> QED BY <1>2, <2>1, <2>2, <2>3, <2>4, <2>5, <2>6, <2>7, <2>8 DEF Kinds, Loops, LeafKinds
<1> QED BY <1>1, <1>3


-----------------------------------------------------------------------------
(***************************************************************************)
(* The machine is where control is; and gets to where control goes.        *)
(***************************************************************************)
Valid(tree, c) == IsControl(tree, c) \/ \E v \in Nat : c = C!Finished(v)

PlacedAt(tree, text, L, c, x) ==
  IF c.stage = "finished" THEN x.pc \in DefinitionsIn(text, ReturnLabel) /\ x.rax = c.result
  ELSE x.pc = PlaceOf(tree, L, c)

Comes(tree, text, L, x, c) ==
  /\ Valid(tree, c)
  /\ \E y \in Cells(text) : Reaches(text, x, y) /\ PlacedAt(tree, text, L, c, y)

LEMMA FinishedFields ==
  ASSUME NEW v
  PROVE  /\ C!Finished(v).stage = "finished" /\ C!Finished(v).at = << >>
         /\ C!Finished(v).result = v
BY DEF C!Finished

LEMMA ControlStages ==
  ASSUME NEW tree, NEW c, IsControl(tree, c)
  PROVE  /\ c.stage \in {"enter", "left", "update", "test"} /\ c.stage # "finished"
         /\ c.at \in DOMAIN tree /\ c = C!Control(c.stage, c.at) /\ c.result = 0
         /\ c.stage = "update" => tree[c.at].kind = "for" /\ Has(tree, c.at, "update")
         /\ c.stage = "test" =>
              /\ tree[c.at].kind \in Targeted \cup {"if"}
              /\ tree[c.at].kind = "for" => Has(tree, c.at, "test")
<1>1. PICK s \in {"enter", "left", "update", "test"}, p \in DOMAIN tree :
        /\ c = C!Control(s, p)
        /\ s = "update" => tree[p].kind = "for" /\ Has(tree, p, "update")
        /\ s = "test" => /\ tree[p].kind \in Targeted \cup {"if"}
                         /\ tree[p].kind = "for" => Has(tree, p, "test")
  BY DEF IsControl
<1>2. c.stage = s /\ c.at = p /\ c.result = 0
  BY <1>1, ControlFields
<1> QED BY <1>1, <1>2

LEMMA ComesByLeads ==
  ASSUME NEW tree, NEW text, NEW L, NEW x, NEW j, Leads(text, x, j), NEW d,
         ComesTo(tree, text, L, j, d)
  PROVE  Comes(tree, text, L, x, d)
<1>1. Leads(text, x, PlaceOf(tree, L, d)) /\ IsControl(tree, d)
  BY LeadsOn DEF ComesTo, Goes
<1>2. d.stage # "finished"
  BY <1>1, ControlStages
<1> QED BY <1>1, <1>2 DEF Comes, Valid, PlacedAt, Leads

LEMMA ComesByPlace ==
  ASSUME NEW tree, NEW text, NEW L, NEW x \in Cells(text), NEW d,
         ComesTo(tree, text, L, x.pc, d)
  PROVE  Comes(tree, text, L, x, d)
BY LeadsItself, ComesByLeads

LEMMA ComesOn ==
  ASSUME NEW tree, NEW text, NEW L, NEW x, NEW y, Reaches(text, x, y), NEW d,
         Comes(tree, text, L, y, d)
  PROVE  Comes(tree, text, L, x, d)
BY ReachesOn DEF Comes

LEMMA ComesByEntering ==
  ASSUME NEW tree, NEW text, NEW L, NEW x, NEW p \in DOMAIN tree
  PROVE  /\ Leads(text, x, L.from[p]) => Comes(tree, text, L, x, C!Control("enter", p))
         /\ Leads(text, x, L.to[p]) => Comes(tree, text, L, x, C!Control("left", p))
<1>1. ComesTo(tree, text, L, L.from[p], C!Control("enter", p))
  BY GoesNowhere, EnterFollows
<1>2. ComesTo(tree, text, L, L.to[p], C!Control("left", p))
  BY GoesNowhere, EnterFollows
<1> QED BY <1>1, <1>2, ComesByLeads

LEMMA ReturnIsThere ==
  ASSUME NEW tree, NEW text, NEW L, Compiled(tree, text, L)
  PROVE  /\ DefinitionsIn(text, ReturnLabel) = {L.to[<< >>] + 1}
         /\ Instr(text, L.to[<< >>] + 1, Label(ReturnLabel))
<1>1. Instr(text, L.to[<< >>] + 1, Label(ReturnLabel))
  BY EndRuns
<1>2. Runnable(text)
  BY DEF Compiled
<1> QED BY <1>1, <1>2, OneDefinition

LEMMA ReturnComes ==
  ASSUME NEW tree, NEW text, NEW L, Compiled(tree, text, L),
         NEW x \in Cells(text), Instr(text, x.pc, Jump("jmp", ReturnLabel))
  PROVE  Comes(tree, text, L, x, C!Finished(x.rax))
<1>1. /\ DefinitionsIn(text, ReturnLabel) = {L.to[<< >>] + 1}
      /\ Instr(text, L.to[<< >>] + 1, Label(ReturnLabel)) /\ Runnable(text)
  BY ReturnIsThere DEF Compiled
<1>2. Goes(text, x.pc, L.to[<< >>] + 1)
  BY <1>1, JumpGoes
<1>3. Leads(text, x, L.to[<< >>] + 1)
  BY <1>2 DEF Goes
<1>4. PICK y \in Cells(text) : Reaches(text, x, y) /\ y.pc = L.to[<< >>] + 1 /\ y.rax = x.rax
  BY <1>3 DEF Leads
<1>5. PICK f : f = C!Finished(x.rax)
  OBVIOUS
<1>6. f.stage = "finished" /\ f.result = x.rax
  BY <1>5, FinishedFields
<1>7. x.rax \in Nat
  BY DEF Cells
<1>8. Valid(tree, f)
  BY <1>5, <1>7 DEF Valid
<1>9. PlacedAt(tree, text, L, f, y)
  BY <1>1, <1>4, <1>6 DEF PlacedAt
<1> QED BY <1>4, <1>5, <1>8, <1>9 DEF Comes

LEMMA XorLeads ==
  ASSUME NEW text, Runnable(text), NEW x \in Cells(text), Instr(text, x.pc, XorEax)
  PROVE  \E y \in Cells(text) : Reaches(text, x, y) /\ y.pc = x.pc + 1 /\ y.rax = 0
<1>1. text[x.pc].op = "xor"
  BY XorAndRetAt
<1>2. Moves(text, x) /\ ~Takes(text, x)
  BY <1>1 DEF Moves, Takes
<1>3. PICK y : y = Step(text, x)
  OBVIOUS
<1>4. y \in Cells(text) /\ Reaches(text, x, y)
  BY <1>2, <1>3, StepIsCell, ReachesNext
<1>5. y.pc = x.pc + 1 /\ y.rax = 0
  BY <1>1, <1>2, <1>3 DEF Step
<1> QED BY <1>4, <1>5

\* A silent step of the body is followed by the machine.
LEMMA SilentFollows ==
  ASSUME NEW tree, NEW text, NEW L, Compiled(tree, text, L),
         NEW c, Valid(tree, c), ~C!IsEvent(tree, c),
         NEW x \in Cells(text), PlacedAt(tree, text, L, c, x)
  PROVE  Comes(tree, text, L, x, C!SilentStep(tree, c))
<1>1. c.stage # "finished"
  BY DEF C!IsEvent
<1>2. IsControl(tree, c)
  BY <1>1, FinishedFields DEF Valid
<1>3. PICK p \in DOMAIN tree : p = c.at
  BY <1>2, ControlStages
<1>4. c.stage = "enter" \/ c.stage = "left"
  BY <1>2, ControlStages DEF C!IsEvent
<1>5. WellFormed(tree) /\ Runnable(text)
  BY DEF Compiled
<1>6. CASE c.stage = "enter"
  <2>1. c = C!Control("enter", p) /\ x.pc = L.from[p]
    BY <1>1, <1>2, <1>3, <1>6, ControlStages DEF PlacedAt, PlaceOf
  <2>2. ~(tree[p].kind \in {"expression", "return"} /\ Has(tree, p, "value"))
    BY <1>3, <1>6, SameWords DEF C!IsEvent
  <2>3. CASE tree[p].kind = "return"
    <3>1. Instr(text, L.from[p], XorEax) /\ Instr(text, L.from[p] + 1, Jump("jmp", ReturnLabel))
      BY <2>2, <2>3, LeavesRun DEF LeafKinds
    <3>2. PICK y \in Cells(text) : Reaches(text, x, y) /\ y.pc = x.pc + 1 /\ y.rax = 0
      BY <1>5, <2>1, <3>1, XorLeads
    <3>3. Comes(tree, text, L, y, C!Finished(y.rax))
      BY <2>1, <3>1, <3>2, ReturnComes
    <3>4. C!SilentStep(tree, c) = C!Finished(y.rax)
      BY <2>1, <2>3, <3>2, SilentSteps
    <3> QED BY <3>2, <3>3, <3>4, ComesOn
  <2>4. CASE tree[p].kind # "return"
    <3>1. ComesTo(tree, text, L, L.from[p], C!SilentStep(tree, C!Control("enter", p)))
      BY <2>2, <2>4, EnteredFollows
    <3> QED BY <2>1, <3>1, ComesByPlace
  <2> QED BY <2>3, <2>4
<1>7. CASE c.stage = "left"
  <2>1. c = C!Control("left", p) /\ x.pc = L.to[p]
    BY <1>1, <1>2, <1>3, <1>7, ControlStages DEF PlacedAt, PlaceOf
  <2>2. C!SilentStep(tree, c) = C!After(tree, p)
    BY <2>1, SilentSteps
  <2>3. CASE p = << >>
    <3>1. Instr(text, x.pc, XorEax)
      BY <2>1, <2>3, EndRuns
    <3>2. PICK y \in Cells(text) : Reaches(text, x, y) /\ y.pc = x.pc + 1 /\ y.rax = 0
      BY <1>5, <3>1, XorLeads
    <3>3. PICK f : f = C!Finished(0)
      OBVIOUS
    <3>4. f.stage = "finished" /\ f.result = 0 /\ Valid(tree, f)
      BY <3>3, FinishedFields DEF Valid
    <3>5. PlacedAt(tree, text, L, f, y)
      BY <2>1, <2>3, <3>2, <3>4, ReturnIsThere DEF PlacedAt
    <3>6. Comes(tree, text, L, x, f)
      BY <3>2, <3>4, <3>5 DEF Comes
    <3>7. C!After(tree, p) = f
      BY <2>3, <3>3 DEF C!After
    <3> QED BY <2>2, <3>6, <3>7
  <2>4. CASE p # << >>
    <3>1. ComesTo(tree, text, L, L.to[p], C!After(tree, p))
      BY <2>4, LeftFollows
    <3> QED BY <2>1, <2>2, <3>1, ComesByPlace
  <2> QED BY <2>3, <2>4
<1> QED BY <1>4, <1>6, <1>7


-----------------------------------------------------------------------------
(***************************************************************************)
(* Where the body asks for a value the machine does too, and what it makes *)
(* of the value is what the body makes of it.                              *)
(***************************************************************************)
GoesAsTold(tree, text, L, c, i) ==
  \A x \in Cells(text) : x.pc = i /\ x.rax < EaxRange =>
    Comes(tree, text, L, x, C!EventStep(tree, c, x.rax))

EventAt(tree, text, L, c, e) ==
  /\ e \in Nat
  /\ Goes(text, PlaceOf(tree, L, c), e)
  /\ Instr(text, e, Eval(c.at, C!Event(c).role))
  /\ GoesAsTold(tree, text, L, c, e + 1)

LEMMA EventSteps ==
  ASSUME NEW tree, NEW c, NEW p, p = c.at, NEW kind, kind = tree[p].kind, NEW v,
         NEW e, e = C!EventStep(tree, c, v)
  PROVE  /\ c.stage = "update" => e = C!ForTest(tree, p)
         /\ c.stage # "update" =>
              /\ kind = "return" => e = C!Finished(v)
              /\ kind = "expression" => e = C!Control("left", p)
              /\ kind = "switch" /\ C!SelectedBy(tree, p, v) = {} => e = C!Control("left", p)
              /\ kind = "switch" => \A q : C!SelectedBy(tree, p, v) = {q}
                                      => e = C!Control("enter", q)
              /\ kind \in Loops /\ v # 0 => e = C!Control("enter", Kid(p, tree[p].kids))
              /\ kind \in Loops /\ v = 0 => e = C!Control("left", p)
              /\ kind = "if" /\ v # 0 => e = C!Control("enter", Kid(p, 1))
              /\ kind = "if" /\ v = 0 =>
                   e = IF tree[p].kids = 2 THEN C!Control("enter", Kid(p, 2))
                       ELSE C!Control("left", p)
<1>1. C!Loops = Loops /\ C!Body(tree, p) = C!Control("enter", Kid(p, tree[p].kids))
      /\ \A n : C!EnterKid(tree, p, n) = C!Control("enter", Kid(p, n))
  BY SameWords, Controls
<1>2. \A q : C!The({q}) = q
  BY DEF C!The
<1>3. CASE c.stage = "update"
  BY <1>3 DEF C!EventStep
<1>4. CASE c.stage # "update" /\ kind = "switch"
  <2>1. e = IF C!SelectedBy(tree, p, v) = {} THEN C!Control("left", p)
            ELSE C!Control("enter", C!The(C!SelectedBy(tree, p, v)))
    BY <1>1, <1>4 DEF C!EventStep, Loops
  <2> QED BY <1>2, <1>4, <2>1 DEF Loops
<1>5. CASE c.stage # "update" /\ kind = "if"
  <2>1. e = IF v # 0 THEN C!EnterKid(tree, p, 1)
            ELSE IF tree[p].kids = 2 THEN C!EnterKid(tree, p, 2) ELSE C!Control("left", p)
    BY <1>1, <1>5 DEF C!EventStep, Loops
  <2> QED BY <1>1, <1>5, <2>1 DEF Loops
<1>6. CASE c.stage # "update" /\ kind \in Loops
  <2>1. e = IF v # 0 THEN C!Body(tree, p) ELSE C!Control("left", p)
    BY <1>1, <1>6 DEF C!EventStep, Loops
  <2> QED BY <1>1, <1>6, <2>1 DEF Loops
<1>7. CASE c.stage # "update" /\ kind = "return"
  <2>1. e = C!Finished(v)
    BY <1>1, <1>7 DEF C!EventStep, Loops
  <2> QED BY <1>7, <2>1 DEF Loops
<1>8. CASE c.stage # "update" /\ kind = "expression"
  <2>1. e = C!Control("left", p)
    BY <1>1, <1>8 DEF C!EventStep, Loops
  <2> QED BY <1>8, <2>1 DEF Loops
<1>9. CASE /\ c.stage # "update"
           /\ kind \notin {"switch", "if", "return", "expression"} \cup Loops
  BY <1>9
<1> QED BY <1>3, <1>4, <1>5, <1>6, <1>7, <1>8, <1>9

\* Behind a test.
LEMMA TestsComes ==
  ASSUME NEW text, NEW i, NEW yes, NEW no, Tests(text, i, yes, no),
         NEW x \in Cells(text), x.pc = i, x.rax < EaxRange
  PROVE  /\ x.rax # 0 => Leads(text, x, yes)
         /\ x.rax = 0 => Leads(text, x, no)
<1>1. x.rax \in Nat /\ EaxRange \in Nat \ {0}
  BY ValuesAssumption DEF Cells
<1>2. x.rax % EaxRange = x.rax
  BY <1>1
<1> QED BY <1>2 DEF Tests

LEMMA IfAsTold ==
  ASSUME NEW tree, NEW text, NEW L, Compiled(tree, text, L),
         NEW p \in DOMAIN tree, tree[p].kind = "if",
         NEW c, c = C!Control("test", p)
  PROVE  EventAt(tree, text, L, c, L.from[p])
<1> DEFINE e == L.from[p]
           no == IF tree[p].kids = 2 THEN L.from[Kid(p, 2)] ELSE L.to[p]
<1>1. Instr(text, e, Eval(p, "test")) /\ Tests(text, e + 1, L.from[Kid(p, 1)], no)
  BY IfRuns
<1>2. c.stage = "test" /\ c.at = p /\ C!Event(c).role = "test"
  BY ControlFields DEF C!Event
<1>3. PlaceOf(tree, L, c) = e
  BY Places
<1>4. WellFormed(tree) /\ tree[p].kids \in 1..2
  BY KidsOfKinds DEF Compiled
<1>5. Kid(p, 1) \in DOMAIN tree /\ (tree[p].kids = 2 => Kid(p, 2) \in DOMAIN tree)
  BY <1>4, KidIsThere
<1>6. ASSUME NEW x \in Cells(text), x.pc = e + 1, x.rax < EaxRange
      PROVE  Comes(tree, text, L, x, C!EventStep(tree, c, x.rax))
  <2>1. /\ x.rax # 0 => Leads(text, x, L.from[Kid(p, 1)])
        /\ x.rax = 0 => Leads(text, x, no)
    <3> HIDE DEF e, no
    <3> QED BY <1>1, <1>6, TestsComes
  <2>2. PICK d : d = C!EventStep(tree, c, x.rax)
    OBVIOUS
  <2>3. CASE x.rax # 0
    <3>1. d = C!Control("enter", Kid(p, 1))
      BY <1>2, <2>2, <2>3, EventSteps
    <3> QED BY <1>5, <2>1, <2>2, <2>3, <3>1, ComesByEntering
  <2>4. CASE x.rax = 0 /\ tree[p].kids = 2
    <3>1. d = C!Control("enter", Kid(p, 2))
      BY <1>2, <2>2, <2>4, EventSteps
    <3> QED BY <1>5, <2>1, <2>2, <2>4, <3>1, ComesByEntering
  <2>5. CASE x.rax = 0 /\ tree[p].kids # 2
    <3>1. d = C!Control("left", p)
      BY <1>2, <2>2, <2>5, EventSteps
    <3> QED BY <2>1, <2>2, <2>5, <3>1, ComesByEntering
  <2> QED BY <2>3, <2>4, <2>5
<1> HIDE DEF no
<1>7. GoesAsTold(tree, text, L, c, e + 1)
  BY <1>6 DEF GoesAsTold
<1> QED BY <1>1, <1>2, <1>3, <1>7, GoesNowhere DEF EventAt, Instr

\* A loop at e tests, and its body is entered or it is left.
LEMMA LoopAsTold ==
  ASSUME NEW tree, NEW text, NEW L, Compiled(tree, text, L),
         NEW p \in DOMAIN tree, tree[p].kind \in Loops,
         NEW c, c = C!Control("test", p),
         NEW e, Goes(text, PlaceOf(tree, L, c), e), Instr(text, e, Eval(p, "test")),
         Tests(text, e + 1, L.from[Kid(p, tree[p].kids)], L.to[p])
  PROVE  EventAt(tree, text, L, c, e)
<1>1. c.stage = "test" /\ c.at = p /\ C!Event(c).role = "test"
  BY ControlFields DEF C!Event
<1>2. Kid(p, tree[p].kids) \in DOMAIN tree
  <2>1. WellFormed(tree) /\ tree[p].kids # 0
    BY KidsOfKinds DEF Compiled, Loops
  <2> QED BY <2>1, LastKid
<1>3. ASSUME NEW x \in Cells(text), x.pc = e + 1, x.rax < EaxRange
      PROVE  Comes(tree, text, L, x, C!EventStep(tree, c, x.rax))
  <2>1. /\ x.rax # 0 => Leads(text, x, L.from[Kid(p, tree[p].kids)])
        /\ x.rax = 0 => Leads(text, x, L.to[p])
    BY <1>3, TestsComes
  <2>2. PICK d : d = C!EventStep(tree, c, x.rax)
    OBVIOUS
  <2>3. CASE x.rax # 0
    <3>1. d = C!Control("enter", Kid(p, tree[p].kids))
      <4>1. p = c.at /\ c.stage # "update" /\ tree[p].kind \in Loops
        BY <1>1
      <4> QED BY <2>2, <2>3, <4>1, EventSteps
    <3> QED BY <1>2, <2>1, <2>2, <2>3, <3>1, ComesByEntering
  <2>4. CASE x.rax = 0
    <3>1. d = C!Control("left", p)
      BY <1>1, <2>2, <2>4, EventSteps
    <3> QED BY <2>1, <2>2, <2>4, <3>1, ComesByEntering
  <2> QED BY <2>3, <2>4
<1>4. GoesAsTold(tree, text, L, c, e + 1)
  BY <1>3 DEF GoesAsTold
<1> QED BY <1>1, <1>4 DEF EventAt, Instr

LEMMA SwitchAsTold ==
  ASSUME NEW tree, NEW text, NEW L, Compiled(tree, text, L),
         NEW p \in DOMAIN tree, tree[p].kind = "switch",
         NEW c, c = C!Control("test", p)
  PROVE  EventAt(tree, text, L, c, L.from[p])
<1> DEFINE e == L.from[p]
<1>1. Instr(text, e, Eval(p, "test"))
  <2>1. PICK cases : cases = CasesOf(tree, L, p)
    OBVIOUS
  <2>2. PICK defaults : defaults = Defaults(cases)
    OBVIOUS
  <2>3. PICK compared : compared = cases \ defaults
    OBVIOUS
  <2> QED BY <2>1, <2>2, <2>3, DispatchIsThere
<1>2. c.stage = "test" /\ c.at = p /\ C!Event(c).role = "test"
  BY ControlFields DEF C!Event
<1>3. PlaceOf(tree, L, c) = e
  BY Places
<1>4. ASSUME NEW x \in Cells(text), x.pc = e + 1, x.rax < EaxRange
      PROVE  Comes(tree, text, L, x, C!EventStep(tree, c, x.rax))
  <2>1. PICK v : v = x.rax
    OBVIOUS
  <2>2. v = x.rax % EaxRange
    <3>1. x.rax \in Nat /\ EaxRange \in Nat \ {0}
      BY ValuesAssumption DEF Cells
    <3> QED BY <1>4, <2>1, <3>1
  <2>3. \/ \E q \in DOMAIN tree : C!SelectedBy(tree, p, v) = {q} /\ Leads(text, x, L.from[q])
        \/ C!SelectedBy(tree, p, v) = {} /\ Leads(text, x, L.to[p])
    BY <1>4, <2>1, <2>2, SelectedLeads
  <2>4. PICK d : d = C!EventStep(tree, c, v)
    OBVIOUS
  <2>5. ASSUME NEW q \in DOMAIN tree, C!SelectedBy(tree, p, v) = {q}, Leads(text, x, L.from[q])
        PROVE  Comes(tree, text, L, x, d)
    <3>1. d = C!Control("enter", q)
      BY <1>2, <2>4, <2>5, EventSteps
    <3> QED BY <2>5, <3>1, ComesByEntering
  <2>6. CASE C!SelectedBy(tree, p, v) = {} /\ Leads(text, x, L.to[p])
    <3>1. d = C!Control("left", p)
      BY <1>2, <2>4, <2>6, EventSteps
    <3> QED BY <2>1, <2>4, <2>6, <3>1, ComesByEntering
  <2> QED BY <2>1, <2>3, <2>4, <2>5, <2>6
<1>5. GoesAsTold(tree, text, L, c, e + 1)
  BY <1>4 DEF GoesAsTold
<1> QED BY <1>1, <1>2, <1>3, <1>5, GoesNowhere DEF EventAt, Instr


LEMMA LoopTestAsTold ==
  ASSUME NEW tree, NEW text, NEW L, Compiled(tree, text, L),
         NEW p \in DOMAIN tree, tree[p].kind \in Loops,
         tree[p].kind = "for" => Has(tree, p, "test"),
         NEW c, c = C!Control("test", p)
  PROVE  \E e : EventAt(tree, text, L, c, e)
<1>1. tree[p].kind \in {"while", "do"} => tree[p].kids = 1
  BY KidsOfKinds DEF Compiled
<1>2. CASE tree[p].kind = "while"
  <2>1. PlaceOf(tree, L, c) = L.from[p]
    BY <1>2, Places
  <2> QED BY <1>1, <1>2, <2>1, WhileRuns, LoopAsTold
<1>3. CASE tree[p].kind = "do"
  <2>1. PlaceOf(tree, L, c) = L.to[Kid(p, 1)]
    BY <1>1, <1>3, Places
  <2> QED BY <1>1, <1>3, <2>1, DoRuns, LoopAsTold
<1>4. CASE tree[p].kind = "for"
  <2>1. PICK s : s = StartOf(L, p, tree[p].kids - 1)
    OBVIOUS
  <2>2. PlaceOf(tree, L, c) = s
    BY <1>4, <2>1, Places
  <2>3. /\ Goes(text, s, s + 1) /\ Instr(text, s + 1, Eval(p, "test"))
        /\ Tests(text, s + 1 + 1, L.from[Kid(p, tree[p].kids)], L.to[p])
    BY <1>4, <2>1, ForRuns
  <2> QED BY <2>2, <2>3, LoopAsTold
<1> QED BY <1>2, <1>3, <1>4 DEF Loops

LEMMA UpdateAsTold ==
  ASSUME NEW tree, NEW text, NEW L, Compiled(tree, text, L),
         NEW p \in DOMAIN tree, tree[p].kind = "for", Has(tree, p, "update"),
         NEW c, c = C!Control("update", p)
  PROVE  \E e : EventAt(tree, text, L, c, e)
<1> DEFINE k == L.to[Kid(p, tree[p].kids)]
           e == k + 1
<1>1. c.stage = "update" /\ c.at = p /\ C!Event(c).role = "update"
  BY ControlFields DEF C!Event
<1>2. PlaceOf(tree, L, c) = k
  BY Places
<1>3. /\ Goes(text, k, e) /\ Instr(text, e, Eval(p, "update"))
      /\ Goes(text, e + 1, StartOf(L, p, tree[p].kids - 1))
  BY ForRuns
<1> HIDE DEF k, e
<1>4. ComesTo(tree, text, L, e + 1, C!ForTest(tree, p))
  BY <1>3, ForTestFollows, FollowsFrom
<1>5. ASSUME NEW x \in Cells(text), x.pc = e + 1, x.rax < EaxRange
      PROVE  Comes(tree, text, L, x, C!EventStep(tree, c, x.rax))
  <2>1. C!EventStep(tree, c, x.rax) = C!ForTest(tree, p)
    BY <1>1, EventSteps
  <2> QED BY <1>4, <1>5, <2>1, ComesByPlace
<1>6. GoesAsTold(tree, text, L, c, e + 1)
  BY <1>5 DEF GoesAsTold
<1> QED BY <1>1, <1>2, <1>3, <1>6 DEF EventAt, Instr

LEMMA ValueAsTold ==
  ASSUME NEW tree, NEW text, NEW L, Compiled(tree, text, L),
         NEW p \in DOMAIN tree, tree[p].kind \in {"expression", "return"}, Has(tree, p, "value"),
         NEW c, c = C!Control("enter", p)
  PROVE  EventAt(tree, text, L, c, L.from[p])
<1> DEFINE e == L.from[p]
<1>1. c.stage = "enter" /\ c.at = p /\ C!Event(c).role = "value"
  BY ControlFields DEF C!Event
<1>2. PlaceOf(tree, L, c) = e
  BY Places
<1>3. /\ Instr(text, e, Eval(p, "value"))
      /\ tree[p].kind = "expression" => L.to[p] = e + 1
      /\ tree[p].kind = "return" => Instr(text, e + 1, Jump("jmp", ReturnLabel))
  BY LeavesRun DEF LeafKinds
<1> HIDE DEF e
<1>4. ASSUME NEW x \in Cells(text), x.pc = e + 1, x.rax < EaxRange
      PROVE  Comes(tree, text, L, x, C!EventStep(tree, c, x.rax))
  <2>1. CASE tree[p].kind = "expression"
    <3>1. C!EventStep(tree, c, x.rax) = C!Control("left", p)
      BY <1>1, <2>1, EventSteps
    <3>2. Leads(text, x, L.to[p])
      BY <1>3, <1>4, <2>1, LeadsItself
    <3> QED BY <3>1, <3>2, ComesByEntering
  <2>2. CASE tree[p].kind = "return"
    <3>1. C!EventStep(tree, c, x.rax) = C!Finished(x.rax)
      BY <1>1, <2>2, EventSteps
    <3> QED BY <1>3, <1>4, <2>2, <3>1, ReturnComes
  <2> QED BY <2>1, <2>2
<1>5. GoesAsTold(tree, text, L, c, e + 1)
  BY <1>4 DEF GoesAsTold
<1>6. EventAt(tree, text, L, c, e)
  BY <1>1, <1>2, <1>3, <1>5, GoesNowhere DEF EventAt, Instr
<1> QED BY <1>6 DEF e

LEMMA EventsAsTold ==
  ASSUME NEW tree, NEW text, NEW L, Compiled(tree, text, L),
         NEW c, IsControl(tree, c), C!IsEvent(tree, c)
  PROVE  \E e : EventAt(tree, text, L, c, e)
<1>1. PICK p \in DOMAIN tree : p = c.at
  BY ControlStages
<1>2. /\ c = C!Control(c.stage, p) /\ c.stage \in {"enter", "left", "update", "test"}
      /\ c.stage = "update" => tree[p].kind = "for" /\ Has(tree, p, "update")
      /\ c.stage = "test" => /\ tree[p].kind \in Targeted \cup {"if"}
                             /\ tree[p].kind = "for" => Has(tree, p, "test")
  BY <1>1, ControlStages
<1>3. CASE c.stage = "enter"
  <2>1. tree[p].kind \in {"expression", "return"} /\ Has(tree, p, "value")
    BY <1>1, <1>3, SameWords DEF C!IsEvent
  <2> QED BY <1>2, <1>3, <2>1, ValueAsTold
<1>4. CASE c.stage = "left"
  BY <1>4 DEF C!IsEvent
<1>5. CASE c.stage = "update"
  BY <1>2, <1>5, UpdateAsTold
<1>6. CASE c.stage = "test"
  <2>1. CASE tree[p].kind = "if"
    BY <1>2, <1>6, <2>1, IfAsTold
  <2>2. CASE tree[p].kind = "switch"
    BY <1>2, <1>6, <2>2, SwitchAsTold
  <2>3. CASE tree[p].kind \in Loops
    BY <1>2, <1>6, <2>3, LoopTestAsTold
  <2> QED BY <1>2, <1>6, <2>1, <2>2, <2>3 DEF Targeted
<1> QED BY <1>2, <1>3, <1>4, <1>5, <1>6

\* The machine stops, and is at the event of the body.
SameEvent(tree, text, L, c, y) ==
  /\ text[y.pc].op = "ret" =>
       C!Event(c) = [at |-> << >>, role |-> "finished", result |-> y.rax]
  /\ text[y.pc].op = "eval" =>
       /\ C!Event(c) = [at |-> text[y.pc].at, role |-> text[y.pc].role, result |-> 0]
       /\ GoesAsTold(tree, text, L, c, y.pc + 1)

LEMMA EventIsMet ==
  ASSUME NEW tree, NEW text, NEW L, Compiled(tree, text, L),
         NEW c, Valid(tree, c), C!IsEvent(tree, c),
         NEW x \in Cells(text), PlacedAt(tree, text, L, c, x)
  PROVE  \E y \in Cells(text) :
           Reaches(text, x, y) /\ ~Moves(text, y) /\ SameEvent(tree, text, L, c, y)
<1>1. Runnable(text)
  BY DEF Compiled
<1>2. CASE IsControl(tree, c)
  <2>1. PICK e : EventAt(tree, text, L, c, e)
    BY <1>2, EventsAsTold
  <2>2. c.stage # "finished" /\ c.result = 0
    BY <1>2, ControlStages
  <2>3. x.pc = PlaceOf(tree, L, c)
    BY <2>2 DEF PlacedAt
  <2>4. Leads(text, x, e)
    BY <2>1, <2>3 DEF EventAt, Goes
  <2>5. PICK y \in Cells(text) : Reaches(text, x, y) /\ y.pc = e
    BY <2>4 DEF Leads
  <2>6. /\ text[y.pc].op = "eval" /\ text[y.pc].at = c.at
        /\ text[y.pc].role = C!Event(c).role
    BY <2>1, <2>5, EvalAt DEF EventAt
  <2>7. C!Event(c) = [at |-> text[y.pc].at, role |-> text[y.pc].role, result |-> 0]
    BY <2>2, <2>6 DEF C!Event
  <2>8. SameEvent(tree, text, L, c, y)
    BY <2>1, <2>5, <2>6, <2>7 DEF SameEvent, EventAt
  <2>9. ~Moves(text, y)
    BY <2>6 DEF Moves
  <2> QED BY <2>5, <2>8, <2>9
<1>3. ASSUME NEW v \in Nat, c = C!Finished(v)
      PROVE  \E y \in Cells(text) :
               Reaches(text, x, y) /\ ~Moves(text, y) /\ SameEvent(tree, text, L, c, y)
  <2> DEFINE k == L.to[<< >>]
  <2>1. /\ DefinitionsIn(text, ReturnLabel) = {k + 1}
        /\ Instr(text, k + 1, Label(ReturnLabel)) /\ Instr(text, k + 2, Ret)
    BY ReturnIsThere, EndRuns
  <2>2. c.stage = "finished" /\ c.at = << >> /\ c.result = v
    BY <1>3, FinishedFields
  <2>3. x.pc = k + 1 /\ x.rax = v
    BY <2>1, <2>2 DEF PlacedAt
  <2> HIDE DEF k
  <2>4. Goes(text, k + 1, (k + 1) + 1)
    BY <1>1, <2>1, LabelGoes
  <2>5. PICK y \in Cells(text) : Reaches(text, x, y) /\ y.pc = (k + 1) + 1 /\ y.rax = v
    BY <2>3, <2>4 DEF Goes, Leads
  <2>6. text[y.pc].op = "ret"
    <3>1. k + 2 \in Nat /\ k + 1 \in Nat
      BY <2>1 DEF Instr
    <3>2. text[k + 2].op = "ret"
      BY <2>1, XorAndRetAt
    <3>3. (k + 1) + 1 = k + 2
      <4>1. L.to[<< >>] \in Nat
        BY EndRuns DEF Instr
      <4> QED BY <4>1 DEF k
    <3> QED BY <2>5, <3>2, <3>3
  <2>7. SameEvent(tree, text, L, c, y)
    BY <2>2, <2>5, <2>6 DEF SameEvent, C!Event
  <2>8. ~Moves(text, y)
    BY <2>6 DEF Moves
  <2> QED BY <2>5, <2>7, <2>8
<1> QED BY <1>2, <1>3 DEF Valid


-----------------------------------------------------------------------------
(***************************************************************************)
(* The body and the machine, run side by side: the machine and the place   *)
(* where the control of the body is have both come of one state.           *)
(***************************************************************************)
Cell == [pc |-> pc, rax |-> rax, zero |-> zero]

InStep(tree, text, L, c, m) ==
  /\ Compiled(tree, text, L) /\ Valid(tree, c) /\ m \in Cells(text)
  /\ \E x, y \in Cells(text) :
       Reaches(text, x, m) /\ Reaches(text, x, y) /\ PlacedAt(tree, text, L, c, y)

RunInv ==
  /\ LayoutInv
  /\ outcome # "running" => source = C!Start /\ rax = 0 /\ zero = FALSE
  /\ Running => \E L : InStep(program, code, L, source, Cell)

ConditionsFit == \A v \in Values : v < EaxRange

LEMMA CellFields == Cell.pc = pc /\ Cell.rax = rax /\ Cell.zero = zero
BY DEF Cell

\* The words of the specification are those of the machine.
LEMMA MachineWords ==
  /\ MachineAtEvent <=> Running /\ ~Moves(code, Cell)
  /\ Instruction = code[Cell.pc]
  /\ Taken <=> Takes(code, Cell)
  /\ \A l : Definitions(l) = DefinitionsIn(code, l)
BY CellFields DEF MachineAtEvent, Moves, Instruction, Taken, Takes, Definitions, DefinitionsIn

\* Side by side, at an event of both: it is the same.
LEMMA EventIsSame ==
  ASSUME NEW L, InStep(program, code, L, source, Cell), SourceAtEvent, MachineAtEvent
  PROVE  /\ C!Event(source) = MachineEvent
         /\ SameEvent(program, code, L, source, Cell)
<1>1. PICK m : m = Cell
  OBVIOUS
<1>2. PICK x \in Cells(code), y \in Cells(code) :
        Reaches(code, x, m) /\ Reaches(code, x, y) /\ PlacedAt(program, code, L, source, y)
  BY <1>1 DEF InStep
<1>3. /\ Compiled(program, code, L) /\ Valid(program, source) /\ m \in Cells(code)
      /\ C!IsEvent(program, source) /\ ~Moves(code, m) /\ Runnable(code)
  BY <1>1, MachineWords DEF InStep, SourceAtEvent, MachineAtEvent, Compiled
<1>4. PICK w \in Cells(code) :
        Reaches(code, y, w) /\ ~Moves(code, w) /\ SameEvent(program, code, L, source, w)
  BY <1>2, <1>3, EventIsMet
<1>5. Reaches(code, x, w)
  BY <1>2, <1>4, ReachesOn
<1>6. w = m
  BY <1>2, <1>3, <1>4, <1>5, StopsAtOne
<1>7. SameEvent(program, code, L, source, m)
  BY <1>4, <1>6
<1>8. m.pc = pc /\ m.rax = rax /\ code[m.pc].op \in {"eval", "ret"}
  BY <1>1, <1>3, CellFields DEF Moves
<1>9. CASE code[m.pc].op = "ret"
  BY <1>1, <1>7, <1>8, <1>9 DEF SameEvent, MachineEvent, Instruction
<1>10. CASE code[m.pc].op = "eval"
  BY <1>1, <1>7, <1>8, <1>10 DEF SameEvent, MachineEvent, Instruction
<1> QED BY <1>8, <1>9, <1>10

\* A text that assembles runs.
LEMMA AssembledIsRunnable ==
  ASSUME NEW tree, NEW L, IsLayout(tree, code, L), Assembles
  PROVE  Runnable(code) /\ 1 \in DOMAIN code
<1>1. IsSomeSequence(code) /\ Holds(code, L.to[<< >>], EndOfCode, Len(code) + 1)
  BY DEF IsLayout
<1>2. Holds(code, L.to[<< >>], XorEax \o Label(ReturnLabel) \o Ret, Len(code) + 1)
  BY <1>1 DEF EndOfCode
<1>3. Instr(code, L.to[<< >>] + 2, Ret) /\ Len(code) + 1 = L.to[<< >>] + 3 /\ L.to[<< >>] \in Nat
  BY <1>1, <1>2, Ones, ThreeAt
<1>4. Len(code) \in Nat /\ DOMAIN code = 1..Len(code)
  BY <1>1 DEF IsSomeSequence
<1>5. Len(code) = L.to[<< >>] + 2
  BY <1>3, <1>4
<1>6. code[Len(code)].op = "ret" /\ Len(code) # 0
  BY <1>3, <1>5, XorAndRetAt
<1>7. \A l : DefinitionsIn(code, l) = Definitions(l)
  BY DEF DefinitionsIn, Definitions
<1> QED BY <1>1, <1>4, <1>6, <1>7 DEF Runnable, Assembles

LEMMA ProgramIsThere ==
  ASSUME LayoutInv PROVE WellFormed(program) /\ SemaAccepts(program) /\ << >> \in DOMAIN program
<1>1. program \in Programs /\ SemaAccepts(program)
  BY DEF LayoutInv, LabelInv, NoErrorInv, NestInv, CallsInv
<1>2. WellFormed(program)
  BY <1>1, ProgramsAssumption
<1> QED BY <1>1, <1>2 DEF WellFormed

LEMMA AssembleRuns ==
  ASSUME RunInv, Assemble, LayoutInv' PROVE RunInv'
<1>1. /\ UNCHANGED <<program, code, source, rax, zero>> /\ outcome = "emitted"
      /\ outcome' = IF Assembles THEN "running" ELSE "not assembled"
      /\ Assembles => pc' = 1
  BY DEF Assemble
<1>2. source = C!Start /\ rax = 0 /\ zero = FALSE
  BY <1>1 DEF RunInv
<1>3. CASE ~Assembles
  BY <1>1, <1>2, <1>3 DEF RunInv, Running
<1>4. CASE Assembles
  <2>1. PICK L : IsLayout(program, code, L)
    BY <1>1 DEF RunInv, LayoutInv
  <2>2. Runnable(code) /\ 1 \in DOMAIN code
    BY <1>4, <2>1, AssembledIsRunnable
  <2>3. HasItsLabels(program, code)
    BY <1>1 DEF RunInv, LayoutInv
  <2>4. WellFormed(program) /\ SemaAccepts(program) /\ << >> \in DOMAIN program
    BY ProgramIsThere DEF RunInv
  <2>5. Compiled(program, code, L)
    BY <2>1, <2>2, <2>3, <2>4 DEF Compiled
  <2>6. PICK m : m = [pc |-> 1, rax |-> 0, zero |-> FALSE]
    OBVIOUS
  <2>7. m \in Cells(code) /\ m.pc = 1
    BY <2>2, <2>6 DEF Cells
  <2>8. source = C!Control("enter", << >>) /\ source.stage = "enter"
    BY <1>2, ControlFields DEF C!Start
  <2>9. Valid(program, source)
    BY <2>4, <2>8 DEF Valid, IsControl
  <2>10. PlacedAt(program, code, L, source, m)
    <3>1. PlaceOf(program, L, source) = L.from[<< >>] /\ L.from[<< >>] = 1
      BY <2>1, <2>8, Places DEF IsLayout
    <3> QED BY <2>7, <2>8, <3>1 DEF PlacedAt
  <2>11. InStep(program, code, L, source, m)
    BY <2>5, <2>7, <2>9, <2>10, ReachesItself DEF InStep
  <2>12. Cell' = m
    BY <1>1, <1>2, <1>4, <2>6 DEF Cell
  <2>13. (\E K : InStep(program, code, K, source, Cell))'
         <=> \E K : InStep(program', code', K, source', Cell')
    OBVIOUS
  <2> QED BY <1>1, <1>4, <2>11, <2>12, <2>13 DEF RunInv, Running
<1> QED BY <1>3, <1>4

LEMMA SourceStepRuns ==
  ASSUME NEW L, InStep(program, code, L, source, Cell), SourceStep
  PROVE  InStep(program', code', L, source', Cell')
<1>1. /\ UNCHANGED <<program, code, pc, rax, zero>> /\ ~C!IsEvent(program, source)
      /\ source' = C!SilentStep(program, source)
  BY DEF SourceStep, emitVars, machine, SourceAtEvent
<1>2. Cell' = Cell
  BY <1>1 DEF Cell
<1>3. PICK m : m = Cell
  OBVIOUS
<1>4. PICK x \in Cells(code), y \in Cells(code) :
        Reaches(code, x, m) /\ Reaches(code, x, y) /\ PlacedAt(program, code, L, source, y)
  BY <1>3 DEF InStep
<1>5. Compiled(program, code, L) /\ Valid(program, source) /\ m \in Cells(code)
  BY <1>3 DEF InStep
<1>6. Comes(program, code, L, y, C!SilentStep(program, source))
  BY <1>1, <1>4, <1>5, SilentFollows
<1>7. Comes(program, code, L, x, source')
  BY <1>1, <1>4, <1>6, ComesOn
<1>8. InStep(program, code, L, source', m)
  BY <1>4, <1>5, <1>7 DEF InStep, Comes
<1> QED BY <1>1, <1>2, <1>3, <1>8

LEMMA MachineStepRuns ==
  ASSUME NEW L, InStep(program, code, L, source, Cell), MachineStep
  PROVE  InStep(program', code', L, source', Cell')
<1>1. PICK m : m = Cell
  OBVIOUS
<1>2. /\ UNCHANGED <<program, code, source>> /\ Running /\ ~MachineAtEvent
      /\ pc' = IF Taken THEN C!The(Definitions(Instruction.label)) ELSE pc + 1
      /\ zero' = IF Instruction.op = "cmp" THEN rax % EaxRange = Instruction.with
                 ELSE IF Instruction.op = "xor" THEN TRUE ELSE zero
      /\ rax' = IF Instruction.op = "xor" THEN 0 ELSE rax
  BY DEF MachineStep, emitVars
<1>3. /\ Instruction = code[m.pc] /\ (Taken <=> Takes(code, m)) /\ Moves(code, m)
      /\ \A l : Definitions(l) = DefinitionsIn(code, l)
  BY <1>1, <1>2, MachineWords
<1>4. m.pc = pc /\ m.rax = rax /\ m.zero = zero
  BY <1>1, CellFields
<1>5. Cell' = Step(code, m)
  BY <1>2, <1>3, <1>4 DEF Cell, Step
<1>6. PICK x \in Cells(code), y \in Cells(code) :
        Reaches(code, x, m) /\ Reaches(code, x, y) /\ PlacedAt(program, code, L, source, y)
  BY <1>1 DEF InStep
<1>7. Compiled(program, code, L) /\ Valid(program, source) /\ m \in Cells(code) /\ Runnable(code)
  BY <1>1 DEF InStep, Compiled
<1>8. Reaches(code, m, Step(code, m)) /\ Step(code, m) \in Cells(code)
  BY <1>3, <1>7, ReachesNext, StepIsCell
<1>9. Reaches(code, x, Step(code, m))
  BY <1>6, <1>8, ReachesOn
<1>10. InStep(program, code, L, source, Step(code, m))
  BY <1>6, <1>7, <1>8, <1>9 DEF InStep
<1> QED BY <1>2, <1>5, <1>10

LEMMA EvaluateRuns ==
  ASSUME ConditionsFit, NEW L, InStep(program, code, L, source, Cell),
         NEW v \in Values, Evaluate(v)
  PROVE  InStep(program', code', L, source', Cell')
<1>1. PICK m : m = Cell
  OBVIOUS
<1>2. /\ UNCHANGED <<program, code, zero>> /\ SourceAtEvent /\ MachineAtEvent
      /\ Instruction.op = "eval"
      /\ source' = C!EventStep(program, source, v) /\ pc' = pc + 1 /\ rax' = v
  BY DEF Evaluate, emitVars
<1>3. SameEvent(program, code, L, source, m)
  BY <1>1, <1>2, EventIsSame
<1>4. m.pc = pc /\ m.zero = zero /\ code[m.pc].op = "eval"
  BY <1>1, <1>2, CellFields DEF Instruction
<1>5. GoesAsTold(program, code, L, source, pc + 1)
  BY <1>3, <1>4 DEF SameEvent
<1>6. Compiled(program, code, L) /\ m \in Cells(code) /\ Runnable(code)
  BY <1>1 DEF InStep, Compiled
<1>7. PICK n : n = [pc |-> pc + 1, rax |-> v, zero |-> zero]
  OBVIOUS
<1>8. n.pc = pc + 1 /\ n.rax = v /\ v < EaxRange /\ v \in Nat
  BY <1>7, ValuesAssumption DEF ConditionsFit
<1>9. n \in Cells(code)
  <2>1. pc + 1 \in DOMAIN code
    BY <1>4, <1>6, StepIsCell
  <2>2. zero \in BOOLEAN
    BY <1>4, <1>6 DEF Cells
  <2> QED BY <1>7, <1>8, <2>1, <2>2 DEF Cells
<1>10. Comes(program, code, L, n, source')
  BY <1>2, <1>5, <1>8, <1>9 DEF GoesAsTold
<1>11. InStep(program, code, L, source', n)
  BY <1>6, <1>9, <1>10, ReachesItself DEF InStep, Comes
<1>12. Cell' = n
  BY <1>2, <1>7 DEF Cell
<1> QED BY <1>2, <1>11, <1>12

LEMMA NextKeepsRunning == ConditionsFit /\ RunInv /\ [Next]_vars => RunInv'
<1> SUFFICES ASSUME ConditionsFit, RunInv, [Next]_vars PROVE RunInv'
  OBVIOUS
<1>1. LayoutInv'
  BY NextKeepsLayout DEF RunInv
<1>2. (\E L : InStep(program, code, L, source, Cell))'
      <=> \E L : InStep(program', code', L, source', Cell')
  OBVIOUS
<1>3. CASE EmitStep
  <2>1. outcome = "emitting" /\ UNCHANGED <<source, rax, zero>> /\ Emit
    BY <1>3, EmitKeepsProgram DEF EmitStep, machine
  <2>2. outcome' \in {"emitting", "emitted", "nesting exceeded"}
    BY <2>1, EmitKeepsNest DEF RunInv, LayoutInv, LabelInv, NoErrorInv
  <2> QED BY <1>1, <2>1, <2>2 DEF RunInv, Running
<1>4. CASE Assemble
  BY <1>1, <1>4, AssembleRuns
<1>5. CASE SourceStep \/ MachineStep \/ \E v \in Values : Evaluate(v)
  <2>1. Running /\ UNCHANGED outcome
    BY <1>5 DEF SourceStep, MachineStep, Evaluate, SourceAtEvent, emitVars
  <2>2. PICK L : InStep(program, code, L, source, Cell)
    BY <2>1 DEF RunInv
  <2>3. InStep(program', code', L, source', Cell')
    BY <1>5, <2>2, SourceStepRuns, MachineStepRuns, EvaluateRuns
  <2> QED BY <1>1, <1>2, <2>1, <2>3 DEF RunInv, Running
<1>6. CASE UNCHANGED vars
  <2>1. UNCHANGED <<program, code, source, pc, rax, zero, outcome>>
    BY <1>6 DEF vars, emitVars, machine
  <2>2. Cell' = Cell
    BY <2>1 DEF Cell
  <2> QED BY <1>1, <1>2, <2>1, <2>2 DEF RunInv, Running
<1> QED BY <1>3, <1>4, <1>5, <1>6 DEF Next

\* The emitted code evaluates the expressions the body evaluates, in its order,
\* and returns what it returns (the fcc_codegen_emit_* functions), when every
\* value of a condition fits the low half of rax that the code compares.
THEOREM LoweredBodiesRunAsWritten == ConditionsFit => (Spec => []RunsAsWritten)
<1>1. InitFunction => RunInv
  <2> SUFFICES ASSUME InitFunction PROVE RunInv
    OBVIOUS
  <2>1. Init /\ outcome = "emitting" /\ source = C!Start /\ rax = 0 /\ zero = FALSE
    BY DEF InitFunction, Init
  <2>2. LabelInv
    BY InitAgreesWithLabels
  <2>3. HasItsLabels(program, code) /\ \E L : FitsNow(L)
    BY <2>1, InitLaysOut
  <2> QED BY <2>1, <2>2, <2>3 DEF RunInv, LayoutInv, Running
<1>2. RunInv => RunsAsWritten
  BY EventIsSame DEF RunInv, RunsAsWritten, SourceAtEvent
<1>3. SUFFICES ASSUME ConditionsFit PROVE Spec => []RunsAsWritten
  OBVIOUS
<1>4. RunInv /\ [Next]_vars => RunInv'
  BY <1>3, NextKeepsRunning
<1> QED BY <1>1, <1>2, <1>4, PTL DEF Spec
=============================================================================
