-------------------------- MODULE StatementSemantics --------------------------
(***************************************************************************)
(* What C says the statements of a function body do (C17 6.8): which       *)
(* expression is evaluated next, given the values the earlier ones had.    *)
(* Nothing here is translated from the compiler: it is the promise its     *)
(* output is held to.                                                      *)
(*                                                                         *)
(* Control is at a stage of a statement: about to "enter" it, having       *)
(* "left" it, about to evaluate its "test" or its "update"; or "finished", *)
(* with the function's result.                                             *)
(***************************************************************************)
EXTENDS FccStatementTree

Control(stage, p) == [stage |-> stage, at |-> p, result |-> 0]
Finished(v) == [stage |-> "finished", at |-> << >>, result |-> v]
Start == Control("enter", << >>)

\* At an event a value is asked for, or handed over; other steps are silent.
IsEvent(tree, c) ==
  \/ c.stage \in {"test", "update", "finished"}
  \/ /\ c.stage = "enter"
     /\ tree[c.at].kind \in {"expression", "return"} /\ Has(tree, c.at, "value")

Event(c) ==
  [at |-> c.at, result |-> c.result,
   role |-> IF c.stage = "enter" THEN "value" ELSE c.stage]

The(S) == CHOOSE x \in S : TRUE
EnterKid(tree, p, i) == Control("enter", Kid(p, i))
Body(tree, p) == EnterKid(tree, p, tree[p].kids)

\* The start of an iteration of a for statement, and the end of one.
ForTest(tree, p) ==
  IF Has(tree, p, "test") THEN Control("test", p) ELSE Body(tree, p)
ForUpdate(tree, p) ==
  IF Has(tree, p, "update") THEN Control("update", p) ELSE ForTest(tree, p)

\* The end of the body of a loop: the next iteration, or its test.
Iterate(tree, p) ==
  IF tree[p].kind = "for" THEN ForUpdate(tree, p) ELSE Control("test", p)

\* Control after the statement at p has run to its end.
After(tree, p) ==
  IF p = << >> THEN Finished(0)
  ELSE LET q == Parent(p)
           kid == Last(p)
       IN CASE tree[q].kind = "compound" /\ kid < tree[q].kids ->
                 EnterKid(tree, q, kid + 1)
            [] tree[q].kind = "for" /\ kid < tree[q].kids -> ForTest(tree, q)
            [] tree[q].kind \in Loops /\ kid = tree[q].kids -> Iterate(tree, q)
            [] OTHER -> Control("left", q)

\* The labels of a function are visible in the whole of it.
LabelsNamed(tree, name) ==
  {p \in DOMAIN tree : tree[p].kind = "label" /\ tree[p].arg = name}

GotosResolve(tree) ==
  /\ \A p \in DOMAIN tree : tree[p].kind = "goto" =>
       LabelsNamed(tree, tree[p].arg) # {}
  /\ \A p, q \in DOMAIN tree :
       tree[p].kind = "label" /\ tree[q].kind = "label" /\ tree[p].arg = tree[q].arg
       => p = q

\* A case or default belongs to the innermost switch around it.  When the
\* labels of a switch repeat, which C forbids, the first one counts.
LabelsOf(tree, s, kind) ==
  {p \in DOMAIN tree : /\ tree[p].kind = kind
                       /\ Innermost(tree, p, {"switch"}) = {s}}
First(S) == {p \in S : \A q \in S : q = p \/ Before(p, q)}

SelectedBy(tree, s, v) ==
  LET cases == First({p \in LabelsOf(tree, s, "case") : tree[p].arg = v})
      default == First(LabelsOf(tree, s, "default"))
  IN IF cases # {} THEN cases ELSE default

-----------------------------------------------------------------------------
\* One silent step.
SilentStep(tree, c) ==
  LET p == c.at
      kind == tree[p].kind
  IN IF c.stage = "left" THEN After(tree, p)
     ELSE CASE kind = "compound" ->
                 IF tree[p].kids = 0 THEN Control("left", p) ELSE EnterKid(tree, p, 1)
            [] kind \in {"if", "while", "switch"} -> Control("test", p)
            [] kind \in {"do", "case", "default", "label"} -> EnterKid(tree, p, 1)
            [] kind = "for" -> IF Has(tree, p, "init") THEN EnterKid(tree, p, 1)
                               ELSE ForTest(tree, p)
            [] kind = "break" ->
                 Control("left", The(Innermost(tree, p, Loops \cup {"switch"})))
            [] kind = "continue" -> Iterate(tree, The(Innermost(tree, p, Loops)))
            [] kind = "goto" ->
                 Control("enter", The(LabelsNamed(tree, tree[p].arg)))
            [] kind = "return" -> Finished(0)
            [] kind = "expression" -> Control("left", p)

\* The step an event makes once its expression has had the value v.
EventStep(tree, c, v) ==
  LET p == c.at
      kind == tree[p].kind
  IN IF c.stage = "update" THEN ForTest(tree, p)
     ELSE CASE kind = "return" -> Finished(v)
            [] kind = "expression" -> Control("left", p)
            [] kind = "switch" ->
                 LET selected == SelectedBy(tree, p, v)
                 IN IF selected = {} THEN Control("left", p)
                    ELSE Control("enter", The(selected))
            [] kind = "if" ->
                 IF v # 0 THEN EnterKid(tree, p, 1)
                 ELSE IF tree[p].kids = 2 THEN EnterKid(tree, p, 2)
                 ELSE Control("left", p)
            [] kind \in Loops ->
                 IF v # 0 THEN Body(tree, p) ELSE Control("left", p)
=============================================================================
