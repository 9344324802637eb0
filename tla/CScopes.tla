------------------------------- MODULE CScopes -------------------------------
(***************************************************************************)
(* What C makes of the names of a unit, as regions of its text (C17        *)
(* 6.2.1).  A unit is a sequence of the external declarations that the     *)
(* grammar derives.  A declaration is visible from the end of its          *)
(* declarator (a tag: from its own place; an enumerator: from the end of   *)
(* its enumerator) to the end of its block, and a use means the last       *)
(* declaration of its name that is visible there.  Positions are those of  *)
(* the names in the text; a block is known by its depth and the positions  *)
(* of its first and its last name.                                         *)
(***************************************************************************)
EXTENDS SyntaxTree, FiniteSets, FiniteSetsExt, SequencesExt

RECURSIVE Words(_), Nodes(_, _)
Words(t) ==
  (IF t.k \in {"name", "id", "typedef name"} THEN {t} ELSE {}) \cup
  UNION {Words(t.a[i]) : i \in DOMAIN t.a}
Places(ts) == {w.p : w \in UNION {Words(ts[i]) : i \in DOMAIN ts}}
End(ts) == Max(Places(ts) \cup {0})
Block(ts, depth) == [depth |-> depth, first |-> Min(Places(ts) \cup {End(ts)}), last |-> End(ts)]

\* The nodes of trees with the block that each stands in.  The parameters and
\* the body of a function are one block, and so are the parameters of a pointer.
LOCAL NodesOf(ts, block) == UNION {Nodes(ts[i], block) : i \in DOMAIN ts}
Nodes(t, block) ==
  LET inner(ts) == NodesOf(ts, Block(ts, block.depth + 1))
  IN {[t |-> t, block |-> block]} \cup
     CASE t.k \in {"compound", "for"} -> inner(t.a)
       [] t.k = "function" ->
            NodesOf(SubSeq(t.a, 1, 2), block) \cup
            inner(IF Len(t.a) = 4 THEN <<t.a[3], t.a[4].a[1]>> ELSE <<t.a[3]>>)
       [] t.k = "function pointer" -> NodesOf(Front(t.a), block) \cup inner(<<Last(t.a)>>)
       [] OTHER -> NodesOf(t.a, block)
NodesOfUnit(unit) == NodesOf(unit, Block(unit, 0))

-----------------------------------------------------------------------------
(* Ordinary names *)

IsNamed(t) ==
  /\ t.k \in {"declaration", "parameter", "function"}
  /\ Len(t.a) > 1 /\ \E i \in DOMAIN t.a[2].a : t.a[2].a[i].k = "name"

\* The declaration that a node makes: from is the last position before it is visible.
DeclarationOf(node) ==
  LET t == node.t
      word == IF t.k = "enumerator" THEN t.a[1] ELSE Declared(t.a[2])
  IN [n |-> word.n, p |-> word.p, block |-> node.block, t |-> t,
      from |-> IF t.k = "enumerator" THEN End(<<t>>) ELSE End(<<t.a[2]>>),
      kind |-> CASE t.k = "enumerator" -> "enumerator"
                 [] t.k # "enumerator" /\ t.a[1].n = "typedef" -> "typedef"
                 [] OTHER -> IF t.k = "function" THEN "function" ELSE "object"]
Declarations(nodes) ==
  {DeclarationOf(node) : node \in {x \in nodes : x.t.k = "enumerator" \/ IsNamed(x.t)}}

VisibleAt(p, d) == d.from < p /\ p <= d.block.last
Visible(w, declarations) == {d \in declarations : d.n = w.n /\ VisibleAt(w.p, d)}
Meaning(w, declarations) ==
  CHOOSE d \in Visible(w, declarations) : \A x \in Visible(w, declarations) : x.p <= d.p

UsesOf(nodes) == {x.t : x \in {node \in nodes : node.t.k \in {"id", "typedef name"}}}
\* A function declared again is the one first declared.
FirstDeclared(d, declarations) ==
  Min({x.p : x \in {y \in declarations : y.n = d.n /\ y.block = d.block}})

-----------------------------------------------------------------------------
(* Tags *)

\* A record alone in a declaration declares its tag in its own block, and so
\* does the list of the members of a type.
Occurrences(nodes) ==
  LET alone == {x.t.a[1].a[1] : x \in {node \in nodes : node.t.k = "declaration" /\ Len(node.t.a) = 1}}
  IN {[w |-> x.t.a[1], kind |-> x.t.k, block |-> x.block, end |-> End(<<x.t>>),
       defines |-> Len(x.t.a) = 2,
       own |-> Len(x.t.a) = 2 \/ (x.t.k # "enum" /\ x.t \in alone)] :
        x \in {node \in nodes : /\ node.t.k \in {"struct", "union", "enum"}
                                /\ node.t.a # << >> /\ node.t.a[1].k = "name"}}

\* Every occurrence with the one that declares its tag.
Tags(nodes) ==
  FoldLeft(LAMBDA tags, o :
             LET visible == {x \in tags : /\ x.to = x.o.w.p /\ x.o.w.n = o.w.n
                                          /\ o.w.p <= x.o.block.last
                                          /\ o.own => x.o.block = o.block}
             IN tags \cup {[o |-> o, to |-> IF visible = {} THEN o.w.p
                                            ELSE Max({x.to : x \in visible})]},
           {}, SetToSortSeq(Occurrences(nodes), LAMBDA x, y : x.w.p < y.w.p))

\* What every name and every tag means.
Meanings(unit) ==
  LET nodes == NodesOfUnit(unit)
      declarations == Declarations(nodes)
  IN {<<w.p, FirstDeclared(Meaning(w, declarations), declarations)>> :
        w \in {u \in UsesOf(nodes) : Visible(u, declarations) # {}}} \cup
     {<<x.o.w.p, x.to>> : x \in Tags(nodes)}

-----------------------------------------------------------------------------
(* Constraints *)

UsesAreDeclared(nodes, declarations) ==
  \A w \in UsesOf(nodes) :
    /\ Visible(w, declarations) # {}
    /\ (w.k = "typedef name") <=> (Meaning(w, declarations).kind = "typedef")

NothingIsDeclaredTwice(declarations) ==
  \A d, e \in declarations :
    d.p < e.p /\ d.n = e.n /\ d.block = e.block =>
      d.kind = "function" /\ e.kind = "function" /\ ~(Len(d.t.a) = 4 /\ Len(e.t.a) = 4)

TagsAgree(tags) ==
  \A x, y \in tags :
    /\ x.to = y.to => x.o.kind = y.o.kind
    /\ x.to = y.to /\ x.o.defines /\ y.o.defines => x = y
    /\ x.o.kind = "enum" /\ x.to = x.o.w.p => x.o.defines

RECURSIVE IsCompleteAt(_, _, _, _, _)
IsCompleteAt(p, specifiers, declarator, declarations, tags) ==
  LET t == specifiers.a[1]
      tag == CHOOSE x \in tags : x.o.w = t.a[1]
      typedef == Meaning(t, declarations)
  IN \/ declarator.k = "function pointer" \/ declarator.a[1].a # << >>
     \/ t.k \in {"basic", "enum"}
     \/ t.k \in {"struct", "union"} /\ t.a[1].k = "list"
     \/ /\ t.k \in {"struct", "union"} /\ t.a[1].k = "name"
        /\ \E x \in tags : x.to = tag.to /\ x.o.defines /\ x.o.end < p
     \/ /\ t.k = "typedef name" /\ Visible(t, declarations) # {} /\ typedef.kind = "typedef"
        /\ IsCompleteAt(p, typedef.t.a[1], typedef.t.a[2], declarations, tags)

\* Objects, the parameters of a definition and the members of a record.
ObjectsAreComplete(nodes, declarations, tags) ==
  LET complete(t) == IsCompleteAt(Declared(t.a[2]).p, t.a[1], t.a[2], declarations, tags)
      parameters == UNION {ToSet(x.t.a[3].a) : x \in {y \in nodes : /\ y.t.k = "function"
                                                                   /\ Len(y.t.a) = 4}}
  IN /\ \A x \in nodes : /\ x.t.k = "declaration" /\ Len(x.t.a) > 1 /\ x.t.a[1].n # "typedef"
                         => complete(x.t)
     /\ \A x \in nodes : x.t.k = "field" => complete(x.t)
     /\ \A t \in {p \in parameters : p.k = "parameter"} : IsNamed(t) /\ (HasBounds(t.a[2]) \/ complete(t))

\* The subset has no arrays of variable length.
ConstantsAreConstant(nodes, declarations) ==
  LET constants == {Last(x.t.a) : x \in {y \in nodes : \/ y.t.k = "[n]"
                                                       \/ (y.t.k = "enumerator" /\ Len(y.t.a) = 2)}}
                   \cup {x.t.a[1] : x \in {y \in nodes : y.t.k \in {"case", "static assert"}}}
                   \cup {x.t.a[3] : x \in {y \in nodes : /\ y.t.k = "declaration" /\ Len(y.t.a) = 3
                                                         /\ y.block.depth = 0}}
  IN \A e \in constants : \A w \in Words(e) :
       w.k = "id" => /\ Visible(w, declarations) # {}
                     /\ Meaning(w, declarations).kind = "enumerator"

RECURSIVE JumpsHaveTargets(_, _)
JumpsHaveTargets(t, targets) ==
  LET inner == CASE t.k \in {"while", "do", "for"} -> targets \cup {"break", "continue"}
                 [] t.k = "switch" -> targets \cup {"break", "case", "default"}
                 [] OTHER -> targets
  IN /\ t.k \in {"break", "continue", "case", "default"} => t.k \in targets
     /\ \A i \in DOMAIN t.a : JumpsHaveTargets(t.a[i], inner)

IsValid(unit) ==
  LET nodes == NodesOfUnit(unit)
      declarations == Declarations(nodes)
      tags == Tags(nodes)
  IN /\ UsesAreDeclared(nodes, declarations)
     /\ NothingIsDeclaredTwice(declarations)
     /\ TagsAgree(tags)
     /\ ObjectsAreComplete(nodes, declarations, tags)
     /\ ConstantsAreConstant(nodes, declarations)
     /\ \A i \in DOMAIN unit : JumpsHaveTargets(unit[i], {})

-----------------------------------------------------------------------------
(* Where this compiler is known to differ *)

\* A declaration hides a typedef name: the parser goes on taking it for a type.
HidesTypedefName(unit) ==
  \E d, e \in Declarations(NodesOfUnit(unit)) :
    d.kind = "typedef" /\ e.kind # "typedef" /\ d.n = e.n /\ d.p # e.p /\ VisibleAt(e.p, d)

\* A typedef name is an operand where a declaration cannot begin.
TakesTypedefForObject(unit) ==
  LET nodes == NodesOfUnit(unit)
      declarations == Declarations(nodes)
  IN \E w \in UsesOf(nodes) : /\ w.k = "id" /\ Visible(w, declarations) # {}
                              /\ Meaning(w, declarations).kind = "typedef"

\* A type with members is declared together with a file-scope object that has
\* an initializer: its declaration is carried out twice.
DefinesTypeTwice(unit) ==
  \E i \in DOMAIN unit :
    LET t == unit[i]
    IN /\ t.k = "declaration" /\ Len(t.a) = 3
       /\ t.a[1].a[1].k \in {"struct", "union", "enum"} /\ Last(t.a[1].a[1].a).k = "list"

\* struct S; in a block does not declare another S; a tag in a parameter list is
\* one of the file; a tag or a name declared later in the file is found as well;
\* and an enumeration defined again in the same block is the old one.
FindsAnotherTag(unit) ==
  LET nodes == NodesOfUnit(unit)
      tags == Tags(nodes)
      inParameters == UNION {Places(<<x.t.a[3]>>) : x \in {y \in nodes : y.t.k = "function"}}
  IN \E x, y \in tags :
       /\ x # y /\ x.o.w.n = y.o.w.n
       /\ \/ x.o.own /\ ~x.o.defines /\ y.o.w.p < x.o.w.p /\ x.to # y.to
          \/ y.o.block.depth = 0 /\ x.o.w.p < y.o.w.p /\ x.to # y.to
          \/ x.to = x.o.w.p /\ x.to \in inParameters
FindsLaterName(unit) ==
  LET nodes == NodesOfUnit(unit)
      declarations == Declarations(nodes)
  IN \E w \in UsesOf(nodes), d \in declarations :
       w.n = d.n /\ d.block.depth = 0 /\ w.p <= d.from /\ Visible(w, declarations) = {}
DefinesEnumTwice(unit) ==
  LET tags == Tags(NodesOfUnit(unit))
  IN \E x, y \in tags : x # y /\ x.to = y.to /\ x.o.kind = "enum" /\ x.o.defines /\ y.o.defines
RedeclaresObject(unit) ==
  \E d, e \in Declarations(NodesOfUnit(unit)) :
    d.p < e.p /\ d.n = e.n /\ d.block = e.block /\ d.kind = e.kind /\ d.kind # "function"

Differs(unit) ==
  \/ HidesTypedefName(unit) \/ DefinesTypeTwice(unit) \/ FindsAnotherTag(unit)
  \/ FindsLaterName(unit) \/ DefinesEnumTwice(unit)
=============================================================================
