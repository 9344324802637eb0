------------------------------- MODULE FccFrame -------------------------------
(***************************************************************************)
(* Where the code generator puts the parameters and locals of a function   *)
(* and which of them a name in an expression addresses: FccStatements with *)
(* the stack frame and the bindings of fcc_codegen.c.                      *)
(*                                                                         *)
(* A node of the body has two fields more: declares, the object a          *)
(* declaration or, at the root, the parameter list introduces, a sequence  *)
(* of [name, size, storage]; and uses, the names of objects in the         *)
(* statement's own expression.                                             *)
(***************************************************************************)
EXTENDS FccStatements, Functions

CONSTANTS
  FileScope,  \* the objects the file declares outside of functions
  MaxOffset   \* INT_MAX, the largest offset from rbp

ASSUME MaxOffsetAssumption == MaxOffset \in Nat
ASSUME SizesAssumption ==
  \A tree \in Programs : \A p \in DOMAIN tree : \A i \in DOMAIN tree[p].declares :
    tree[p].declares[i].size \in Nat \ {0}
\* A declaration is a statement and introduces one object.
ASSUME DeclarationsAssumption ==
  \A tree \in Programs : \A p \in DOMAIN tree :
    /\ tree[p].declares \in Seq(ToSet(tree[p].declares))
    /\ p # << >> /\ tree[p].declares # << >> =>
         tree[p].kind = "expression" /\ Len(tree[p].declares) = 1

VARIABLES
  stage,              \* "counting", "homes" or "body" of emit_function
  total_stack_size,
  counted,            \* the objects total_stack_size includes
  next_stack_offset,
  bindings,           \* [name, size, offset] of the visible objects
  scopes,             \* first_binding_index of each open scope
  homes,              \* the binding each object was given, by position and name
  operands            \* what the emitted code addresses for a name at a position

frame == <<stage, total_stack_size, counted, next_stack_offset, bindings,
           scopes, homes, operands>>
reserved == <<stage, total_stack_size, counted>>
frameVars == <<emitVars, frame>>

Declared(p) == program[p].declares
Uses(p) == program[p].uses
Parameters == Declared(<< >>)

-----------------------------------------------------------------------------
(***************************************************************************)
(* The scopes of C as the semantic analysis applies them: a compound       *)
(* statement and a for are scopes, parameters and the outermost            *)
(* declarations share one.  A declaration may be any statement.            *)
(***************************************************************************)
\* How long the position of the scope is that d is declared in.
ScopeDepth(tree, d) ==
  IF d = << >> THEN 0
  ELSE Max({n \in 0 .. Len(d) - 1 :
              tree[SubSeq(d, 1, n)].kind \in {"compound", "for"}})
ScopeOf(tree, d) == SubSeq(d, 1, ScopeDepth(tree, d))

Names(tree, d) == {tree[d].declares[i].name : i \in DOMAIN tree[d].declares}

\* The expression of a do comes after its body, those of a for after its init
\* statement.
Seen(tree, d, p) ==
  \/ d = p \/ Before(d, p)
  \/ tree[p].kind = "do" /\ Before(p, d) /\ IsPrefix(p, d)
  \/ tree[p].kind = "for" /\ Has(tree, p, "init") /\ d = Kid(p, 1)

\* The declaration a name means at p: of those seen there, the one in the
\* innermost scope around p; {} for an object of the file.
Meaning(tree, p, n) ==
  LET seen == {d \in DOMAIN tree :
                 /\ n \in Names(tree, d)
                 /\ IsPrefix(ScopeOf(tree, d), p)
                 /\ Seen(tree, d, p)}
  IN {d \in seen : \A e \in seen : ScopeDepth(tree, e) <= ScopeDepth(tree, d)}

\* Nothing is declared twice in a scope, every name used means something.
DeclarationsAccepted(tree) ==
  /\ \A d, e \in DOMAIN tree :
       d # e /\ Names(tree, d) \cap Names(tree, e) # {} =>
         ScopeOf(tree, d) # ScopeOf(tree, e)
  /\ \A d \in DOMAIN tree : \A i, j \in DOMAIN tree[d].declares :
       i # j => tree[d].declares[i].name # tree[d].declares[j].name
  /\ \A p \in DOMAIN tree : \A n \in tree[p].uses :
       n \in FileScope \/ Meaning(tree, p, n) # {}

\* The grammar of C has no declaration as the body of a for.  The parser takes
\* one; the semantic analysis checks the update before the body, the generator
\* emits it after the body, so that a name of the body would be seen there.
OnlyInitsInFor(tree) ==
  \A d \in DOMAIN tree :
    tree[d].declares # << >> /\ tree[ScopeOf(tree, d)].kind = "for" =>
      Has(tree, ScopeOf(tree, d), "init") /\ d = Kid(ScopeOf(tree, d), 1)

-----------------------------------------------------------------------------
RequiresStorage(object) == object.storage # "extern"

AlignTo(n, alignment) == ((n + alignment - 1) \div alignment) * alignment
AllocationSize(object) == AlignTo(object.size, 8)

\* Mistaken form: the walk leaves out the init statement of a for.
WalkedWithoutInit ==
  {p \in DOMAIN program :
     ~(/\ p # << >> /\ Last(p) = 1 /\ program[Parent(p)].kind = "for"
       /\ Has(program, Parent(p), "init"))}

\* The walk over the body that adds up the locals goes into every statement.
Walked == DOMAIN program

InitFrame ==
  /\ Init
  /\ DeclarationsAccepted(program)
  /\ stage = "counting"
  /\ total_stack_size = 0 /\ counted = {} /\ next_stack_offset = 0
  /\ bindings = << >> /\ scopes = << >>
  /\ homes = << >> /\ operands = << >>

FailFrame(why) == Fail(why) /\ UNCHANGED frame

\* The objects still to be counted, parameters first, in source order.
Uncounted ==
  (UNION {{p} \X DOMAIN Declared(p) : p \in Walked}) \ counted
NextToCount ==
  {x \in Uncounted :
     \A y \in Uncounted : Before(x[1], y[1]) \/ (x[1] = y[1] /\ x[2] <= y[2])}

CountedSize(object) == AllocationSize(object)

CountObject ==
  /\ stage = "counting" /\ outcome = "emitting"
  /\ \E next \in NextToCount :
       LET object == Declared(next[1])[next[2]]
       IN /\ total_stack_size' = IF RequiresStorage(object)
                                 THEN total_stack_size + CountedSize(object)
                                 ELSE total_stack_size
          /\ counted' = counted \cup {next}
  /\ UNCHANGED <<emitVars, stage, next_stack_offset, bindings, scopes, homes,
                 operands>>

\* Mistaken form: the innermost level is not counted.
WalkTooDeepByOne == \E p \in DOMAIN program : Len(p) > MaxDepth

\* The walk nests once for each statement around another.
WalkTooDeep == \E p \in DOMAIN program : Len(p) >= MaxDepth

\* The size of the frame is known, the prologue is emitted.
EmitPrologue ==
  /\ stage = "counting" /\ outcome = "emitting" /\ Uncounted = {}
  /\ IF WalkTooDeep THEN FailFrame("nesting exceeded")
     ELSE /\ scopes' = <<0>>
          /\ stage' = "homes"
          /\ UNCHANGED <<emitVars, total_stack_size, counted, next_stack_offset,
                         bindings, homes, operands>>

-----------------------------------------------------------------------------
PushScope ==
  /\ scopes' = Append(scopes, Len(bindings))
  /\ UNCHANGED <<reserved, next_stack_offset, bindings, homes>>

\* The names of the scope go, its stack space is not given back.
PopScope ==
  /\ bindings' = SubSeq(bindings, 1, Last(scopes))
  /\ scopes' = Front(scopes)
  /\ UNCHANGED <<reserved, next_stack_offset, homes>>

OffsetAfter(object) == next_stack_offset + AllocationSize(object)

\* Mistaken form: an object is put where the one before it begins.
BindingAtNext(object) ==
  [name |-> object.name, size |-> object.size, offset |-> next_stack_offset]

Binding(object) ==
  [name |-> object.name, size |-> object.size, offset |-> OffsetAfter(object)]

CanDefine(object) ==
  OffsetAfter(object) <= total_stack_size /\ OffsetAfter(object) <= MaxOffset

\* homes with one for the object declared at p.
WithHome(p, object) ==
  [x \in DOMAIN homes \cup {<<p, object.name>>} |->
     IF x = <<p, object.name>> THEN Binding(object) ELSE homes[x]]

DefineBinding(p, object) ==
  /\ bindings' = Append(bindings, Binding(object))
  /\ next_stack_offset' = OffsetAfter(object)
  /\ homes' = WithHome(p, object)
  /\ UNCHANGED <<reserved, scopes>>

\* Objects of the frame are addressed as [rbp - offset], those of the file by
\* name.  A later binding of a name comes before an earlier one.
AtOffset(offset) == <<"rbp", offset>>
AtName(n) == <<"rel", n>>

Bound(n, visible) == {i \in DOMAIN visible : visible[i].name = n}

\* Mistaken form: the search runs forward.
LookupBindingForward(n, visible) == visible[Min(Bound(n, visible))]

LookupBinding(n, visible) == visible[Max(Bound(n, visible))]

Resolves(n, visible) == Bound(n, visible) # {} \/ n \in FileScope
Operand(n, visible) ==
  IF Bound(n, visible) # {} THEN AtOffset(LookupBinding(n, visible).offset)
  ELSE AtName(n)

Addressed(p, names, visible) ==
  [use \in ({p} \X names) \cup DOMAIN operands |->
     IF use \in {p} \X names THEN Operand(use[2], visible) ELSE operands[use]]

WhyNot(object) ==
  IF OffsetAfter(object) > total_stack_size THEN "internal error"
  ELSE "frame too large"

-----------------------------------------------------------------------------
NextParameter == Len(bindings) + 1

\* A home for each parameter, in which the prologue stores what was passed.
EmitParameterHome ==
  /\ stage = "homes" /\ outcome = "emitting"
  /\ NextParameter \in DOMAIN Parameters
  /\ LET parameter == Parameters[NextParameter]
     IN IF CanDefine(parameter)
        THEN /\ DefineBinding(<< >>, parameter)
             /\ UNCHANGED <<emitVars, operands>>
        ELSE FailFrame(WhyNot(parameter))

EnterBody ==
  /\ stage = "homes" /\ outcome = "emitting"
  /\ NextParameter \notin DOMAIN Parameters
  /\ stage' = "body"
  /\ UNCHANGED <<emitVars, total_stack_size, counted, next_stack_offset,
                 bindings, scopes, homes, operands>>

Introduces ==
  /\ At("expression", "enter")
  /\ 1 \in DOMAIN Declared(Call.at) /\ RequiresStorage(Declared(Call.at)[1])

\* A declaration binds its name before its initialiser is evaluated.
VisibleTo == IF Introduces
             THEN Append(bindings, Binding(Declared(Call.at)[1])) ELSE bindings

EmitDeclaration ==
  /\ Introduces
  /\ LET object == Declared(Call.at)[1]
     IN IF ~CanDefine(object) THEN FailFrame(WhyNot(object))
        ELSE /\ EmitExpression
             /\ DefineBinding(Call.at, object)
             /\ operands' = Addressed(Call.at, Uses(Call.at), VisibleTo)

\* A name no binding and no object of the file has.
NameUnresolved ==
  EmitsExpression /\ \E n \in Uses(Call.at) : ~Resolves(n, VisibleTo)

\* The names in the expression a step emits are looked up on the way.
AddOperands ==
  operands' = IF EmitsExpression
              THEN Addressed(Call.at, Uses(Call.at), bindings) ELSE operands

IsBody == Call.at = << >>
OpenScope ==
  /\ EnterFor \/ (EnterCompound /\ ~IsBody)
  /\ PushScope /\ UNCHANGED operands
CloseScope ==
  /\ AfterForBody \/ (LeaveCompound /\ ~IsBody) \/ FinishFunction
  /\ AddOperands /\ PopScope
StayInScope ==
  /\ \/ EmitExpression /\ ~Introduces
     \/ EmitReturn \/ EmitBreak \/ EmitContinue \/ EmitGoto \/ EmitLabel
     \/ (EnterCompound /\ IsBody) \/ EmitItem \/ (LeaveCompound /\ IsBody)
     \/ EnterIf \/ AfterThen \/ AfterElse \/ EnterWhile \/ AfterWhileBody
     \/ EnterDo \/ AfterDoBody \/ ForTest \/ EnterSwitch \/ AfterSwitchBody
     \/ EmitCase
  /\ AddOperands
  /\ UNCHANGED <<reserved, next_stack_offset, bindings, scopes, homes>>

\* The depth limits refuse nothing here any more: SecondWalkNestsNoDeeper.
EmitBody ==
  /\ stage = "body"
  /\ IF NameUnresolved THEN FailFrame("internal error")
     ELSE OpenScope \/ CloseScope \/ StayInScope \/ EmitDeclaration

FrameNext ==
  CountObject \/ EmitPrologue \/ EmitParameterHome \/ EnterBody \/ EmitBody
FrameSpec == InitFrame /\ [][FrameNext]_frameVars

-----------------------------------------------------------------------------
Objects == UNION {ToSet(Declared(p)) : p \in DOMAIN program}

\* All objects of the function lie inside the frame the prologue has reserved
\* below rbp, in multiples of eight bytes, and no two share a byte.
InFrame(home) ==
  /\ home.size <= home.offset
  /\ home.offset <= AlignTo(total_stack_size, 16)
  /\ home.offset % 8 = 0
Apart(g, h) == g.offset <= h.offset - h.size \/ h.offset <= g.offset - g.size

HomesAreDisjoint ==
  /\ \A x \in DOMAIN homes : InFrame(homes[x])
  /\ \A x, y \in DOMAIN homes : x # y => Apart(homes[x], homes[y])

\* A body the first walk has not found too deeply nested is not too deep for
\* the second, which also nests in the expressions of its statements.
SecondWalkNestsNoDeeper == stage = "body" => ~TooDeep

\* The object an expression addresses for a name is the one C's scopes say it
\* means there, whatever was declared and went out of scope in between.
OperandsAreMeant ==
  \A use \in DOMAIN operands :
    /\ Meaning(program, use[1], use[2]) = {} => operands[use] = AtName(use[2])
    /\ \A d \in Meaning(program, use[1], use[2]) :
         operands[use] = IF <<d, use[2]>> \in DOMAIN homes
                         THEN AtOffset(homes[<<d, use[2]>>].offset) ELSE AtName(use[2])
=============================================================================
