------------------------------ MODULE FccScopes ------------------------------
(***************************************************************************)
(* What semantic analysis (fcc_sema.c) makes of the names of a unit.  Its  *)
(* state s holds the names and the tags in scope, each a sequence with the *)
(* lengths at which the scopes began (marks); the typedefs declared so     *)
(* far, which outlive their scopes; the records that are complete; and how *)
(* many loops and switches are open.  uses says of every use of a name or  *)
(* a tag, by its position in the text, which declaration it was bound to,  *)
(* by the position of that.  ok becomes FALSE with the first error: the    *)
(* unit is then rejected, and what is bound afterwards no longer matters.  *)
(* Types are reduced to what decides whether an object may be declared;    *)
(* s.type is that of the specifiers and the declarator last looked at.     *)
(* FCC_MAX_SEMA_DEPTH and whether the types of two declarations of one     *)
(* function agree are left out.                                            *)
(***************************************************************************)
EXTENDS SyntaxTree, FiniteSets, SequencesExt

Scalar == [k |-> "scalar", id |-> 0]
Void == [k |-> "void", id |-> 0]
Record(id) == [k |-> "record", id |-> id]

Analysis ==
  [names |-> << >>, tags |-> << >>, marks |-> << >>, typedefs |-> << >>,
   complete |-> {}, type |-> Scalar, loops |-> 0, switches |-> 0, uses |-> {}, ok |-> TRUE]

Error(s) == [s EXCEPT !.ok = FALSE]
Require(s, condition) == IF condition THEN s ELSE Error(s)

PushScope(s) ==
  [s EXCEPT !.marks = Append(s.marks, [names |-> Len(s.names), tags |-> Len(s.tags)])]
\* Mistaken form: the tags of the scope are kept.
PopNames(s) ==
  [s EXCEPT !.names = SubSeq(s.names, 1, Last(s.marks).names), !.marks = Front(s.marks)]
PopScope(s) ==
  [s EXCEPT !.names = SubSeq(s.names, 1, Last(s.marks).names),
            !.tags = SubSeq(s.tags, 1, Last(s.marks).tags),
            !.marks = Front(s.marks)]

\* The last entry with the name n behind the first `from`, or 0.
Find(entries, n, from) ==
  SelectLastInSubSeq(entries, from + 1, Len(entries), LAMBDA entry : entry.n = n)

\* A use of the word w, bound to the declaration at the position to.
Bind(s, w, to) == [s EXCEPT !.uses = s.uses \cup {<<w.p, to>>}]

\* Mistaken form: names of outer scopes are taken for redefinitions.
DefineOnce(s, kind, w) ==
  IF Find(s.names, w.n, 0) # 0 THEN Error(s)
  ELSE [s EXCEPT !.names = Append(s.names, [n |-> w.n, kind |-> kind, p |-> w.p, type |-> s.type])]
\* define_named_symbol
Define(s, kind, w) ==
  IF Find(s.names, w.n, Last(s.marks).names) # 0 THEN Error(s)
  ELSE [s EXCEPT !.names = Append(s.names, [n |-> w.n, kind |-> kind, p |-> w.p, type |-> s.type])]

\* record_object_info, of which only the typedefs are ever looked up by name.
RecordTypedef(s, w) ==
  [s EXCEPT !.typedefs = Append(s.typedefs, [n |-> w.n, p |-> w.p, type |-> s.type])]

DefineTag(s, kind, w) ==
  [s EXCEPT !.tags = Append(s.tags, [n |-> w.n, kind |-> kind, p |-> w.p])]

RequireObjectType(s) ==
  Require(s, s.type.k = "scalar" \/ (s.type.k = "record" /\ s.type.id \in s.complete))

\* Whether an expression has a constant value; others says whether sizeof and
\* casts count.  The values themselves, and what depends on them, are left out.
RECURSIVE IsConstant(_, _, _)
IsConstant(s, e, others) ==
  CASE e.k = "number" -> TRUE
    [] e.k = "id" -> \E i \in {Find(s.names, e.n, 0)} : i # 0 /\ s.names[i].kind = "enumerator"
    [] e.k \in {"sizeof", "_Alignof"} -> others
    [] e.k = "cast" -> others /\ IsConstant(s, e.a[2], others)
    [] e.k \in Calculations \cup {"initializers", "list"} ->
         ~(e.k \in {"&", "*"} /\ Len(e.a) = 1) /\ \A i \in DOMAIN e.a : IsConstant(s, e.a[i], others)
    [] OTHER -> FALSE

\* Check(s, t) looks at a node of the tree: an expression, a type, a declarator,
\* a member, a parameter or a statement.
RECURSIVE Check(_, _)
CheckAll(s, ts) == FoldLeft(Check, s, ts)

\* evaluate_enum_constant_expression, and an expression checked to be constant.
EvaluateConstant(s, e) == Require(Check(s, e), IsConstant(s, e, FALSE))
CheckConstant(s, e) == Require(Check(s, e), IsConstant(s, e, TRUE))

CheckIdentifier(s, e) ==
  LET i == Find(s.names, e.n, 0)
  IN IF i = 0 THEN Error(s) ELSE Bind(s, e, s.names[i].p)

-----------------------------------------------------------------------------
\* The word of a tagged type, and its list of members, if it has one.
Tag(t) == IF t.a # << >> /\ t.a[1].k = "name" THEN t.a[1] ELSE Nothing
IsDefinition(t) == t.a # << >> /\ Last(t.a).k = "list"
\* Where a tag is looked for: a definition asks the innermost scope only.
FindTag(s, t) ==
  Find(s.tags, Tag(t).n, IF IsDefinition(t) THEN Last(s.marks).tags ELSE 0)

TypedefType(s, t) ==
  LET i == Find(s.names, t.n, 0)
      j == Find(s.typedefs, t.n, 0)     \* find_typedef_object
      found == IF i # 0 /\ s.names[i].kind = "typedef" THEN <<s.names[i]>>
               ELSE IF j # 0 THEN <<s.typedefs[j]>> ELSE << >>
  IN IF found = << >> THEN Error(s)
     ELSE [Bind(s, t, found[1].p) EXCEPT !.type = found[1].type]

\* define_record_from_ast: there are members, and no two of the same name.
FieldsAreSound(t) ==
  LET fields == SelectSeq(Last(t.a).a, LAMBDA f : f.k = "field")
  IN /\ fields # << >>
     /\ \A i, j \in DOMAIN fields :
          Declared(fields[i].a[2]).n = Declared(fields[j].a[2]).n => i = j

\* A record without a tag is complete wherever something has its type.  One
\* that a member list inside its own has completed is not completed again.
RecordType(s, t) ==
  LET tag == Tag(t)
      old == FindTag(s, t)
      id == IF old = 0 THEN tag.p ELSE s.tags[old].p
      known == /\ s.tags[old].kind = t.k
               /\ IsDefinition(t) => id \notin s.complete
      named == IF tag = Nothing THEN s
               ELSE IF old = 0 THEN Bind(DefineTag(s, t.k, tag), tag, id)
               ELSE Require(Bind(s, tag, id), known)
      members == CheckAll(named, t.a)
      sound == FieldsAreSound(t) /\ (tag # Nothing => id \notin members.complete)
  IN [Require(members, IsDefinition(t) => sound) EXCEPT
        !.complete = IF IsDefinition(t) THEN @ \cup {id} ELSE @,
        !.type = IF tag = Nothing THEN Scalar ELSE Record(id)]

CheckField(s, t) == RequireObjectType(CheckAll(s, t.a))

\* A second definition in the same scope yields the first one, silently.
EnumType(s, t) ==
  LET tag == Tag(t)
      old == FindTag(s, t)
      new == IF tag = Nothing THEN s ELSE Bind(DefineTag(s, "enum", tag), tag, tag.p)
      made == IF tag # Nothing /\ old # 0
              THEN Require(Bind(s, tag, s.tags[old].p), s.tags[old].kind = "enum")
              ELSE IF IsDefinition(t) THEN CheckAll(new, t.a)
              ELSE Error(s)
  IN [made EXCEPT !.type = Scalar]

DefineEnumerator(s, t) ==
  LET valued == IF Len(t.a) = 2 THEN EvaluateConstant(s, t.a[2]) ELSE s
  IN Define([valued EXCEPT !.type = Scalar], "enumerator", t.a[1])

\* The type that a declarator makes of s.type; an array of records is complete when
\* the record is.  The bounds of an array are looked at from the last one.
DeclaratorType(s, t) ==
  [CheckAll(s, Reverse(Last(t.a).a)) EXCEPT
     !.type = IF t.k = "function pointer" \/ t.a[1].a # << >> THEN Scalar ELSE s.type]

-----------------------------------------------------------------------------
IsTypedef(d) == d.a[1].n = "typedef"

\* The name of a declaration of the type s.type: check_declaration_statement and
\* declare_global alike.
DeclareName(s, d, kind) ==
  LET name == Declared(d.a[2])
  IN IF IsTypedef(d) THEN RecordTypedef(Define(s, "typedef", name), name)
     ELSE Define(RequireObjectType(s), kind, name)

\* A declaration without its initializer.
Declare(s, d, kind) ==
  LET typed == CheckAll(s, SubSeq(d.a, 1, IF Len(d.a) < 2 THEN 1 ELSE 2))
  IN IF Len(d.a) = 1 THEN typed ELSE DeclareName(typed, d, kind)

CheckDeclaration(s, d) ==
  LET declared == Declare(s, d, "local")
  IN Require(CheckAll(declared, SubSeq(d.a, 3, Len(d.a))), Len(d.a) = 3 => ~IsTypedef(d))

InLoop(s, t) == [Check([s EXCEPT !.loops = @ + 1], t) EXCEPT !.loops = s.loops]
InSwitch(s, t) == [Check([s EXCEPT !.switches = @ + 1], t) EXCEPT !.switches = s.switches]

CheckFor(s, t) == PopScope(InLoop(CheckAll(PushScope(s), Front(t.a)), Last(t.a)))

Check(s, t) ==
  CASE t.k = "id" -> CheckIdentifier(s, t)
    [] t.k = "basic" -> [s EXCEPT !.type = Scalar]
    [] t.k = "void" -> [s EXCEPT !.type = Void]
    [] t.k = "typedef name" -> TypedefType(s, t)
    [] t.k \in {"struct", "union"} -> RecordType(s, t)
    [] t.k = "field" -> CheckField(s, t)
    [] t.k = "enum" -> EnumType(s, t)
    [] t.k = "enumerator" -> DefineEnumerator(s, t)
    [] t.k \in {"declarator", "function pointer"} -> DeclaratorType(s, t)
    [] t.k = "[n]" -> EvaluateConstant(s, t.a[1])
    [] t.k = "declaration" -> CheckDeclaration(s, t)
    [] t.k = "static assert" -> CheckConstant(s, t.a[1])
    [] t.k = "compound" -> PopScope(CheckAll(PushScope(s), t.a))
    [] t.k = "for" -> CheckFor(s, t)
    [] t.k = "while" -> InLoop(Check(s, t.a[1]), t.a[2])
    [] t.k = "do" -> Check(InLoop(s, t.a[1]), t.a[2])
    [] t.k = "switch" -> InSwitch(Check(s, t.a[1]), t.a[2])
    [] t.k = "case" -> Check(CheckConstant(Require(s, s.switches > 0), t.a[1]), t.a[2])
    [] t.k = "default" -> Check(Require(s, s.switches > 0), t.a[1])
    [] t.k = "break" -> Require(s, s.loops + s.switches > 0)
    [] t.k = "continue" -> Require(s, s.loops > 0)
    [] OTHER -> CheckAll(s, t.a)

-----------------------------------------------------------------------------
\* The loops of fcc_sema_analyze_translation_unit, one step each.
DeclareGlobal(s, d) == Declare(s, d, "global")
CheckAssertion(s, t) == CheckConstant(s, t.a[1])

\* The type is made again where there is an initializer.
CheckGlobal(s, d) ==
  IF Len(d.a) < 3 THEN s
  ELSE IF IsTypedef(d) THEN Error(s)
  ELSE CheckConstant(CheckAll(s, Front(d.a)), d.a[3])

HasBody(f) == Len(f.a) = 4

DefineFunction(s, f) ==
  LET name == Declared(f.a[2])
      old == Find(s.names, name.n, Last(s.marks).names)
      kind == IF HasBody(f) THEN "defined function" ELSE "function"
  IN IF old = 0 THEN Define(s, kind, name)
     ELSE IF \/ s.names[old].kind \notin {"function", "defined function"}
             \/ HasBody(f) /\ s.names[old].kind = kind
          THEN Error(s)
     ELSE IF HasBody(f) THEN [s EXCEPT !.names[old].kind = kind]
     ELSE s

DeclareFunction(s, f) ==
  IF IsTypedef(f) THEN Error(s)
  ELSE DefineFunction(CheckAll(s, SubSeq(f.a, 1, 3)), f)

DefineParameter(s, p) ==
  LET name == SelectSeq(p.a[2].a, LAMBDA t : t.k = "name")
      typed == CheckAll(s, p.a)
      adjusted == IF HasBounds(p.a[2]) THEN [typed EXCEPT !.type = Scalar] ELSE typed
  IN IF p.k = "..." THEN s
     ELSE IF name = << >> \/ p.a[1].n # "" THEN Error(s)
     ELSE Define(RequireObjectType(adjusted), "parameter", name[1])

\* The parameters and the body of a function are one scope.
CheckFunction(s, f) ==
  LET inner == CheckAll(PushScope(s), SubSeq(f.a, 1, 2))
      declared == FoldLeft(DefineParameter, inner, f.a[3].a)
  IN IF HasBody(f) THEN PopScope(CheckAll(declared, f.a[4].a)) ELSE s
=============================================================================
