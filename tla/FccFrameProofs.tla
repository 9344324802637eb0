--------------------------- MODULE FccFrameProofs ---------------------------
(***************************************************************************)
(* Proofs about the stack frame, FccFrame: no two objects share a byte of  *)
(* it, the frame that the first walk counts is large enough for what the   *)
(* second hands out, and every name that is emitted is given the object C  *)
(* means there. For any bodies, names, sizes and limits.                   *)
(*                                                                         *)
(* The steps of the body itself are those of FccStatementsProofs; only     *)
(* what they add to the frame is here.                                     *)
(***************************************************************************)
EXTENDS FccStatementsProofs, FccFrame

-----------------------------------------------------------------------------
(***************************************************************************)
(* Rounding up to a multiple.                                              *)
(***************************************************************************)
LEMMA RoundedUp ==
  ASSUME NEW n \in Nat, NEW alignment \in {8, 16}
  PROVE  /\ AlignTo(n, alignment) \in Nat /\ n <= AlignTo(n, alignment)
         /\ AlignTo(n, alignment) % 8 = 0
<1>1. CASE alignment = 8
  BY <1>1 DEF AlignTo
<1>2. CASE alignment = 16
  BY <1>2 DEF AlignTo
<1> QED BY <1>1, <1>2

LEMMA MultiplesAdd ==
  ASSUME NEW m \in Nat, NEW n \in Nat, m % 8 = 0, n % 8 = 0
  PROVE  (m + n) % 8 = 0
OBVIOUS

-----------------------------------------------------------------------------
(***************************************************************************)
(* The inductive invariant: what has been handed out lies below rbp down   *)
(* to next_stack_offset, which stays inside the frame that was counted.    *)
(***************************************************************************)
HandedOut(home) ==
  /\ home.size \in Nat \ {0} /\ home.offset \in Nat
  /\ home.size <= home.offset /\ home.offset <= next_stack_offset
  /\ home.offset % 8 = 0

OffsetsInv ==
  /\ total_stack_size \in Nat /\ next_stack_offset \in Nat
  /\ next_stack_offset <= total_stack_size /\ next_stack_offset % 8 = 0

HomesInv ==
  /\ \A x \in DOMAIN homes : HandedOut(homes[x])
  /\ \A x, y \in DOMAIN homes : x # y => Apart(homes[x], homes[y])

FrameInv == CallsInv /\ OffsetsInv /\ HomesInv

LEMMA FrameInvSuffices == FrameInv => HomesAreDisjoint
<1> SUFFICES ASSUME FrameInv PROVE HomesAreDisjoint
  OBVIOUS
<1>1. total_stack_size <= AlignTo(total_stack_size, 16)
      /\ AlignTo(total_stack_size, 16) \in Nat
  BY RoundedUp DEF FrameInv, OffsetsInv
<1>2. ASSUME NEW x \in DOMAIN homes PROVE InFrame(homes[x])
  BY <1>1 DEF FrameInv, OffsetsInv, HomesInv, HandedOut, InFrame
<1> QED BY <1>2 DEF FrameInv, HomesInv, HomesAreDisjoint

LEMMA InitFrameInv == InitFrame => FrameInv
<1> SUFFICES ASSUME InitFrame PROVE FrameInv
  OBVIOUS
<1>1. program \in Programs /\ calls = <<Entry(<< >>)>>
  BY DEF InitFrame, Init
<1>2. WellFormed(program)
  BY <1>1, ProgramsAssumption
<1>3. IsCall(program, Entry(<< >>))
  BY <1>2, EntryIsCall DEF WellFormed
<1>4. AreCalls(program, calls)
  <2>1. AreCalls(program, Append(<< >>, Entry(<< >>)))
    BY <1>3, NoCalls, AppendedAreCalls
  <2>2. Append(<< >>, Entry(<< >>)) = <<Entry(<< >>)>>
    OBVIOUS
  <2> QED BY <1>1, <2>1, <2>2
<1>5. homes = << >> /\ total_stack_size = 0 /\ next_stack_offset = 0
  BY DEF InitFrame
<1>6. OffsetsInv /\ HomesInv
  BY <1>5 DEF OffsetsInv, HomesInv
<1> QED BY <1>1, <1>4, <1>6 DEF FrameInv, CallsInv

\* An object of the body has a size.
LEMMA DeclaredHasSize ==
  ASSUME CallsInv, NEW p \in DOMAIN program, NEW i \in DOMAIN Declared(p)
  PROVE  Declared(p)[i].size \in Nat \ {0}
BY SizesAssumption DEF CallsInv, Declared

\* The new object begins where those before it end.
LEMMA BindingIsHandedOut ==
  ASSUME OffsetsInv, NEW object, object.size \in Nat \ {0}, CanDefine(object),
         next_stack_offset' = OffsetAfter(object),
         total_stack_size' = total_stack_size
  PROVE  /\ OffsetsInv' /\ next_stack_offset < next_stack_offset'
         /\ Binding(object).size \in Nat \ {0}
         /\ Binding(object).offset = next_stack_offset'
         /\ next_stack_offset <= Binding(object).offset - Binding(object).size
<1> DEFINE a == AllocationSize(object)
<1>1. a \in Nat /\ object.size <= a /\ a % 8 = 0
  BY RoundedUp DEF AllocationSize
<1>2. OffsetAfter(object) = next_stack_offset + a
  BY DEF OffsetAfter
<1>3. /\ Binding(object).size = object.size
      /\ Binding(object).offset = OffsetAfter(object)
  BY DEF Binding
<1> HIDE DEF a
<1>4. (next_stack_offset + a) % 8 = 0
  BY <1>1, MultiplesAdd DEF OffsetsInv
<1>5. OffsetsInv'
  BY <1>1, <1>2, <1>4 DEF OffsetsInv, CanDefine
<1> QED BY <1>1, <1>2, <1>3, <1>5 DEF OffsetsInv

LEMMA DefineBindingKeepsFrame ==
  ASSUME FrameInv, CallsInv', NEW p, NEW object, object.size \in Nat \ {0},
         CanDefine(object), DefineBinding(p, object)
  PROVE  FrameInv'
<1> DEFINE k == <<p, object.name>>
           b == Binding(object)
<1>1. /\ next_stack_offset' = OffsetAfter(object)
      /\ total_stack_size' = total_stack_size
      /\ homes' = [x \in DOMAIN homes \cup {k} |-> IF x = k THEN b ELSE homes[x]]
  BY DEF DefineBinding, WithHome, reserved
<1>2. /\ OffsetsInv' /\ next_stack_offset < next_stack_offset'
      /\ b.size \in Nat \ {0} /\ b.offset = next_stack_offset'
      /\ next_stack_offset <= b.offset - b.size
  BY <1>1, BindingIsHandedOut DEF FrameInv
<1> HIDE DEF k, b
<1>3. /\ DOMAIN homes' = DOMAIN homes \cup {k} /\ homes'[k] = b
      /\ \A x \in DOMAIN homes : x # k => homes'[x] = homes[x]
  BY <1>1
<1>4. ASSUME NEW x \in DOMAIN homes, x # k
      PROVE  /\ HandedOut(homes[x]) /\ next_stack_offset' \in Nat
             /\ homes[x].offset <= next_stack_offset'
             /\ Apart(homes[x], b) /\ Apart(b, homes[x])
  <2>1. HandedOut(homes[x])
    BY DEF FrameInv, HomesInv
  <2>2. homes[x].offset <= b.offset - b.size /\ next_stack_offset' \in Nat
        /\ homes[x].offset <= next_stack_offset'
    BY <1>2, <2>1 DEF HandedOut, FrameInv, OffsetsInv
  <2> QED BY <2>1, <2>2 DEF Apart
<1>5. ASSUME NEW x \in DOMAIN homes' PROVE HandedOut(homes[x])'
  <2>1. CASE x = k
    <3>1. homes'[x] = b
      BY <1>3, <2>1
    <3>2. b.offset % 8 = 0 /\ b.offset \in Nat /\ next_stack_offset \in Nat
      <4>1. next_stack_offset' % 8 = 0 /\ next_stack_offset' \in Nat
        BY <1>2 DEF OffsetsInv
      <4>2. next_stack_offset \in Nat
        BY DEF FrameInv, OffsetsInv
      <4> QED BY <1>2, <4>1, <4>2
    <3>3. b.size <= b.offset
      BY <1>2, <3>2
    <3> QED BY <1>2, <3>1, <3>2, <3>3 DEF HandedOut
  <2>2. CASE x # k
    BY <1>3, <1>4, <2>2 DEF HandedOut
  <2> QED BY <2>1, <2>2
<1>6. ASSUME NEW x \in DOMAIN homes', NEW y \in DOMAIN homes', x # y
      PROVE  Apart(homes'[x], homes'[y])
  <2>1. CASE x = k
    BY <1>3, <1>4, <1>6, <2>1
  <2>2. CASE y = k
    BY <1>3, <1>4, <1>6, <2>2
  <2>3. CASE x # k /\ y # k
    BY <1>3, <1>6, <2>3 DEF FrameInv, HomesInv
  <2> QED BY <2>1, <2>2, <2>3
<1>7. HomesInv'
  BY <1>5, <1>6 DEF HomesInv
<1> QED BY <1>2, <1>7 DEF FrameInv

\* A step that hands nothing out.
LEMMA NothingHandedOut ==
  ASSUME FrameInv, CallsInv', OffsetsInv', UNCHANGED <<next_stack_offset, homes>>
  PROVE  FrameInv'
BY DEF FrameInv, HomesInv, HandedOut

LEMMA FailFrameKeepsFrame ==
  ASSUME FrameInv, NEW why, FailFrame(why) PROVE FrameInv'
<1>1. Fail(why) /\ UNCHANGED <<total_stack_size, next_stack_offset, homes>>
  BY DEF FailFrame, frame
<1>2. CallsInv'
  BY <1>1, FailKeepsCalls DEF FrameInv
<1>3. OffsetsInv'
  BY <1>1 DEF FrameInv, OffsetsInv
<1> QED BY <1>1, <1>2, <1>3, NothingHandedOut

LEMMA CountObjectKeepsFrame == ASSUME FrameInv, CountObject PROVE FrameInv'
<1>1. CallsInv' /\ UNCHANGED <<next_stack_offset, homes>>
  BY DEF CountObject, emitVars, CallsInv, FrameInv
<1>2. PICK next \in NextToCount :
        LET object == Declared(next[1])[next[2]]
        IN total_stack_size' = IF RequiresStorage(object)
                               THEN total_stack_size + CountedSize(object)
                               ELSE total_stack_size
  BY DEF CountObject
<1>3. PICK p \in DOMAIN program : next \in {p} \X DOMAIN Declared(p)
  BY <1>2 DEF NextToCount, Uncounted, Walked
<1>4. next[1] = p /\ next[2] \in DOMAIN Declared(p)
  BY <1>3
<1> DEFINE object == Declared(next[1])[next[2]]
<1>5. object.size \in Nat
  BY <1>4, DeclaredHasSize DEF FrameInv
<1> HIDE DEF object
<1>6. CountedSize(object) \in Nat
  BY <1>5, RoundedUp DEF CountedSize, AllocationSize
<1>7. total_stack_size' \in {total_stack_size, total_stack_size + CountedSize(object)}
  BY <1>2 DEF object
<1>8. OffsetsInv'
  BY <1>1, <1>6, <1>7 DEF FrameInv, OffsetsInv
<1> QED BY <1>1, <1>8, NothingHandedOut

LEMMA EmitPrologueKeepsFrame == ASSUME FrameInv, EmitPrologue PROVE FrameInv'
<1>1. CASE WalkTooDeep
  BY <1>1, FailFrameKeepsFrame DEF EmitPrologue
<1>2. CASE ~WalkTooDeep
  <2>1. UNCHANGED <<program, calls, total_stack_size, next_stack_offset, homes>>
    BY <1>2 DEF EmitPrologue, emitVars
  <2>2. CallsInv' /\ OffsetsInv'
    BY <2>1 DEF FrameInv, CallsInv, OffsetsInv
  <2> QED BY <2>1, <2>2, NothingHandedOut
<1> QED BY <1>1, <1>2

LEMMA EmitParameterHomeKeepsFrame ==
  ASSUME FrameInv, EmitParameterHome PROVE FrameInv'
<1> DEFINE parameter == Parameters[NextParameter]
<1>1. CASE ~CanDefine(parameter)
  BY <1>1, FailFrameKeepsFrame DEF EmitParameterHome
<1>2. CASE CanDefine(parameter)
  <2>1. DefineBinding(<< >>, parameter) /\ UNCHANGED <<program, calls>>
    BY <1>2 DEF EmitParameterHome, emitVars
  <2>2. CallsInv'
    BY <2>1 DEF FrameInv, CallsInv
  <2>3. << >> \in DOMAIN program
    BY ProgramsAssumption DEF FrameInv, CallsInv, WellFormed
  <2>4. parameter.size \in Nat \ {0}
    BY <2>3, DeclaredHasSize DEF EmitParameterHome, Parameters, FrameInv
  <2> QED BY <1>2, <2>1, <2>2, <2>4, DefineBindingKeepsFrame
<1> QED BY <1>1, <1>2

LEMMA EmitDeclarationKeepsFrame ==
  ASSUME FrameInv, EmitDeclaration PROVE FrameInv'
<1> DEFINE object == Declared(Call.at)[1]
<1>1. CASE ~CanDefine(object)
  BY <1>1, FailFrameKeepsFrame DEF EmitDeclaration
<1>2. CASE CanDefine(object)
  <2>1. DefineBinding(Call.at, object) /\ EmitExpression
    BY <1>2 DEF EmitDeclaration
  <2>2. CallsInv'
    BY <2>1, EmitKeepsCalls DEF FrameInv, Emit
  <2>3. calls # << >> /\ 1 \in DOMAIN Declared(Call.at)
    BY DEF EmitDeclaration, Introduces, At
  <2>4. object.size \in Nat \ {0}
    BY <2>3, CallIsInBody, DeclaredHasSize DEF FrameInv
  <2> QED BY <1>2, <2>1, <2>2, <2>4, DefineBindingKeepsFrame
<1> QED BY <1>1, <1>2

LEMMA EmitBodyKeepsFrame == ASSUME FrameInv, EmitBody PROVE FrameInv'
<1>1. CASE NameUnresolved
  BY <1>1, FailFrameKeepsFrame DEF EmitBody
<1>2. CASE EmitDeclaration
  BY <1>2, EmitDeclarationKeepsFrame
<1>3. CASE OpenScope \/ CloseScope \/ StayInScope
  <2>1. UNCHANGED <<total_stack_size, next_stack_offset, homes>>
    BY <1>3 DEF OpenScope, CloseScope, StayInScope, PushScope, PopScope, reserved
  <2>2. Emit
    BY <1>3, Zenon DEF OpenScope, CloseScope, StayInScope, Emit
  <2>3. CallsInv' /\ OffsetsInv'
    BY <2>1, <2>2, EmitKeepsCalls DEF FrameInv, OffsetsInv
  <2> QED BY <2>1, <2>3, NothingHandedOut
<1> QED BY <1>1, <1>2, <1>3 DEF EmitBody

LEMMA FrameNextKeepsFrame == FrameInv /\ [FrameNext]_frameVars => FrameInv'
<1> SUFFICES ASSUME FrameInv, [FrameNext]_frameVars PROVE FrameInv'
  OBVIOUS
<1>1. CASE CountObject
  BY <1>1, CountObjectKeepsFrame
<1>2. CASE EmitPrologue
  BY <1>2, EmitPrologueKeepsFrame
<1>3. CASE EmitParameterHome
  BY <1>3, EmitParameterHomeKeepsFrame
<1>4. CASE EnterBody
  <2>1. UNCHANGED <<program, calls, total_stack_size, next_stack_offset, homes>>
    BY <1>4 DEF EnterBody, emitVars
  <2>2. CallsInv' /\ OffsetsInv'
    BY <2>1 DEF FrameInv, CallsInv, OffsetsInv
  <2> QED BY <2>1, <2>2, NothingHandedOut
<1>5. CASE EmitBody
  BY <1>5, EmitBodyKeepsFrame
<1>6. CASE UNCHANGED frameVars
  <2>1. UNCHANGED <<program, calls, total_stack_size, next_stack_offset, homes>>
    BY <1>6 DEF frameVars, frame, emitVars
  <2>2. CallsInv' /\ OffsetsInv'
    BY <2>1 DEF FrameInv, CallsInv, OffsetsInv
  <2> QED BY <2>1, <2>2, NothingHandedOut
<1> QED BY <1>1, <1>2, <1>3, <1>4, <1>5, <1>6 DEF FrameNext

\* The parameters and locals of a function are inside the frame its prologue
\* reserves, eight-byte aligned, and no two of them share a byte: for every
\* body, whatever its scopes and however many objects it declares
\* (fcc_codegen_define_binding, fcc_codegen_count_statement_locals).
THEOREM ObjectsNeverOverlap == FrameSpec => []HomesAreDisjoint
<1> QED BY InitFrameInv, FrameNextKeepsFrame, FrameInvSuffices, PTL DEF FrameSpec

-----------------------------------------------------------------------------
(***************************************************************************)
(* The recursion depth counts the compound statements being emitted, and   *)
(* the calls in progress are no more than the statements around theirs.    *)
(***************************************************************************)
DepthOf(tree, s) == Cardinality(CallsAt(tree, s, "items", {"compound"}))
IsInItems(tree, c) == IsAt(tree, c, "items", {"compound"})

DepthInv == outcome = "emitting" => recursion_depth = DepthOf(program, calls)

LEMMA DepthIsNatural ==
  ASSUME NEW tree, NEW s, IsSomeSequence(s)
  PROVE  DepthOf(tree, s) \in Nat /\ DepthOf(tree, s) <= Len(s)
BY CallsCounted DEF DepthOf

LEMMA DepthOfAppended ==
  ASSUME NEW tree, NEW s, IsSomeSequence(s), NEW c, NEW p
  PROVE  /\ DepthOf(tree, Append(s, c)) =
              IF IsInItems(tree, c) THEN DepthOf(tree, s) + 1 ELSE DepthOf(tree, s)
         /\ DepthOf(tree, Append(Append(s, c), Entry(p))) = DepthOf(tree, Append(s, c))
         /\ DepthOf(tree, Append(s, Entry(p))) = DepthOf(tree, s)
<1>1. IsSomeSequence(Append(s, c)) /\ ~IsInItems(tree, Entry(p))
  BY AppendedAt DEF IsInItems, IsAt, Entry
<1>2. ASSUME NEW t, IsSomeSequence(t), NEW d
      PROVE  DepthOf(tree, Append(t, d)) =
                  IF IsInItems(tree, d) THEN DepthOf(tree, t) + 1 ELSE DepthOf(tree, t)
  BY <1>2, CallsCounted DEF DepthOf, IsInItems
<1> QED BY <1>1, <1>2

LEMMA DepthWithoutCall ==
  ASSUME InProgress, DepthInv
  PROVE  /\ DepthOf(program, Front(calls)) \in Nat
         /\ DepthOf(program, Front(calls)) <= Len(Front(calls))
         /\ recursion_depth = IF IsInItems(program, Call)
                              THEN DepthOf(program, Front(calls)) + 1
                              ELSE DepthOf(program, Front(calls))
<1> DEFINE f == Front(calls)
<1>1. calls = Append(f, Call) /\ IsSomeSequence(f)
      /\ recursion_depth = DepthOf(program, calls)
  BY RunningCall DEF DepthInv, InProgress
<1> HIDE DEF f
<1>2. recursion_depth = DepthOf(program, Append(f, Call))
  BY <1>1
<1> QED BY <1>1, <1>2, DepthOfAppended, DepthIsNatural DEF f

\* A step that leaves the depth as it is.
LEMMA DepthStays ==
  ASSUME InProgress, DepthInv, UNCHANGED <<program, recursion_depth>>,
         \/ Return /\ ~IsInItems(program, Call)
         \/ /\ ~IsInItems(program, Call)
            /\ \E p : calls' = Append(Front(calls), Entry(p))
         \/ \E c : /\ IsInItems(program, c) <=> IsInItems(program, Call)
                   /\ \/ calls' = Append(Front(calls), c)
                      \/ \E p : Emitting(c, p)
  PROVE  DepthInv'
<1> DEFINE f == Front(calls)
<1>1. /\ DepthOf(program, f) \in Nat /\ IsSomeSequence(f)
      /\ recursion_depth = IF IsInItems(program, Call)
                           THEN DepthOf(program, f) + 1 ELSE DepthOf(program, f)
  BY DepthWithoutCall, RunningCall
<1>2. \A c, p : Emitting(c, p) => calls' = Append(Append(f, c), Entry(p))
  BY EmittingAppends
<1> HIDE DEF f
<1>3. CASE Return /\ ~IsInItems(program, Call)
  BY <1>1, <1>3 DEF DepthInv, Return, f
<1>4. CASE ~IsInItems(program, Call) /\ \E p : calls' = Append(f, Entry(p))
  BY <1>1, <1>4, DepthOfAppended DEF DepthInv
<1>5. ASSUME NEW c, IsInItems(program, c) <=> IsInItems(program, Call),
             \/ calls' = Append(f, c)
             \/ \E p : calls' = Append(Append(f, c), Entry(p))
      PROVE  DepthInv'
  <2>1. DepthOf(program, calls') = DepthOf(program, Append(f, c))
    <3>1. CASE calls' = Append(f, c)
      BY <3>1
    <3>2. CASE \E p : calls' = Append(Append(f, c), Entry(p))
      <4>1. PICK p : calls' = Append(Append(f, c), Entry(p))
        BY <3>2
      <4> QED BY <1>1, <4>1, DepthOfAppended
    <3> QED BY <1>5, <3>1, <3>2
  <2>2. DepthOf(program, Append(f, c)) = recursion_depth
    BY <1>1, <1>5, DepthOfAppended
  <2> QED BY <2>1, <2>2 DEF DepthInv
<1> QED BY <1>2, <1>3, <1>4, <1>5 DEF f

LEMMA EmitKeepsDepth ==
  ASSUME NestInv, DepthInv, Emit PROVE DepthInv'
<1> USE DEF IsInItems, IsAt
<1>0. ASSUME outcome' # "emitting" PROVE DepthInv'
  BY <1>0 DEF DepthInv
<1>1. CASE EmitExpression \/ EmitReturn \/ EmitGoto \/ AfterElse \/ AfterWhileBody
             \/ AfterDoBody \/ AfterForBody \/ AfterSwitchBody
  <2>1. /\ Return /\ UNCHANGED <<program, recursion_depth>>
        /\ \E kind : \E step \in {"enter", "else", "body"} : At(kind, step)
    BY <1>1 DEF EmitExpression, EmitReturn, EmitGoto, AfterElse, AfterWhileBody,
         AfterDoBody, AfterForBody, AfterSwitchBody
  <2>2. InProgress /\ Call.step # "items"
    BY <2>1, RunningAt DEF At
  <2> QED BY <2>1, <2>2, DepthStays
<1>2. CASE EmitBreak \/ EmitContinue
  <2>1. \E kind : At(kind, "enter")
    BY <1>2 DEF EmitBreak, EmitContinue
  <2>2. InProgress /\ Call.step # "items"
    BY <2>1, RunningAt DEF At
  <2>3. CASE Fail("internal error")
    BY <1>0, <2>3 DEF Fail
  <2>4. CASE Return /\ UNCHANGED <<program, recursion_depth>>
    BY <2>2, <2>4, DepthStays
  <2> QED BY <1>2, <2>3, <2>4 DEF EmitBreak, EmitContinue
<1>3. CASE EmitLabel \/ EmitCase
  <2>1. \E kind : At(kind, "enter")
    BY <1>3 DEF EmitLabel, EmitCase
  <2>2. InProgress /\ Call.step # "items"
    BY <2>1, RunningAt DEF At
  <2>3. CASE Fail("internal error")
    BY <1>0, <2>3 DEF Fail
  <2>4. CASE /\ calls' = Append(Front(calls), Entry(Kid(Call.at, 1)))
             /\ UNCHANGED <<program, recursion_depth>>
    BY <2>2, <2>4, DepthStays
  <2> QED BY <1>3, <2>3, <2>4 DEF EmitLabel, EmitCase
<1>4. CASE EnterCompound
  <2> DEFINE c == [Call EXCEPT !.step = "items"]
  <2>1. /\ InProgress /\ Node.kind = "compound" /\ Call.step = "enter"
        /\ UNCHANGED program /\ recursion_depth' = recursion_depth + 1
        /\ calls' = Append(Front(calls), c)
    BY <1>4, RunningAt DEF EnterCompound, At
  <2>2. c.at = Call.at /\ c.step = "items"
    BY <2>1, ChangedCall
  <2> HIDE DEF c
  <2>3. IsInItems(program, c) /\ ~IsInItems(program, Call)
    BY <2>1, <2>2 DEF Node
  <2>4. /\ IsSomeSequence(Front(calls)) /\ DepthOf(program, Front(calls)) \in Nat
        /\ recursion_depth = DepthOf(program, Front(calls))
    BY <2>1, <2>3, RunningCall, DepthWithoutCall
  <2>5. DepthOf(program, calls') = recursion_depth + 1
    BY <2>1, <2>3, <2>4, DepthOfAppended
  <2> QED BY <2>1, <2>5 DEF DepthInv
<1>5. CASE LeaveCompound
  <2>1. /\ InProgress /\ IsInItems(program, Call)
        /\ UNCHANGED program /\ recursion_depth' = recursion_depth - 1 /\ Return
    BY <1>5, RunningAt DEF LeaveCompound, At, Node
  <2>2. DepthOf(program, Front(calls)) = recursion_depth - 1
    BY <2>1, DepthWithoutCall
  <2> QED BY <2>1, <2>2 DEF DepthInv, Return
<1>6. CASE EmitItem
  <2> DEFINE c == [Call EXCEPT !.next = @ + 1]
  <2>1. /\ InProgress /\ UNCHANGED <<program, recursion_depth>>
        /\ Emitting(c, Kid(Call.at, Call.next))
    BY <1>6, RunningAt DEF EmitItem
  <2>2. c.at = Call.at /\ c.step = Call.step
    BY <2>1, ChangedCall
  <2> HIDE DEF c
  <2> QED BY <2>1, <2>2, DepthStays
<1>7. CASE EnterIf \/ AfterThen \/ EnterFor
  <2>1. /\ InProgress /\ UNCHANGED <<program, recursion_depth>> /\ Call.step # "items"
    BY <1>7, RunningAt DEF EnterIf, AfterThen, EnterFor, At
  <2>2. \/ Return
        \/ \E c : /\ c.step # "items"
                  /\ calls' = Append(Front(calls), c) \/ \E p : Emitting(c, p)
    <3>1. CASE EnterIf
      <4> DEFINE c == [Call EXCEPT !.step = "then", !.labels = <<New(1), New(2)>>]
      <4>1. c.step # "items" /\ Emitting(c, Kid(Call.at, 1))
        BY <2>1, <3>1, ChangedCall DEF EnterIf
      <4> HIDE DEF c
      <4> QED BY <4>1
    <3>2. CASE AfterThen
      <4> DEFINE c == [Call EXCEPT !.step = "else"]
      <4>1. c.step # "items" /\ (Return \/ Emitting(c, Kid(Call.at, 2)))
        BY <2>1, <3>2, ChangedCall DEF AfterThen
      <4> HIDE DEF c
      <4> QED BY <4>1
    <3>3. CASE EnterFor
      <4> DEFINE c == [Call EXCEPT !.step = "test"]
      <4>1. /\ c.step # "items"
            /\ Emitting(c, Kid(Call.at, 1)) \/ calls' = Append(Front(calls), c)
        BY <2>1, <3>3, ChangedCall DEF EnterFor
      <4> HIDE DEF c
      <4> QED BY <4>1
    <3> QED BY <1>7, <3>1, <3>2, <3>3
  <2> QED BY <2>1, <2>2, DepthStays
<1>8. CASE EnterWhile \/ EnterDo \/ ForTest \/ EnterSwitch
  <2>1. /\ InProgress /\ UNCHANGED <<program, recursion_depth>> /\ Call.step # "items"
    BY <1>8, RunningAt DEF EnterWhile, EnterDo, ForTest, EnterSwitch, At
  <2>2. \E c : c.step # "items" /\ \E p : Emitting(c, p)
    <3>1. ASSUME NEW labels, NEW p,
                 Emitting([Call EXCEPT !.step = "body", !.labels = labels], p)
          PROVE  \E c : c.step # "items" /\ \E q : Emitting(c, q)
      <4> DEFINE c == [Call EXCEPT !.step = "body", !.labels = labels]
      <4>1. c.step # "items" /\ Emitting(c, p)
        BY <2>1, <3>1, ChangedCall
      <4> HIDE DEF c
      <4> QED BY <4>1
    <3>2. ASSUME NEW labels, NEW p,
                 Emitting([Call EXCEPT !.step = "body", !.labels = labels,
                                       !.saved = switch_cases], p)
          PROVE  \E c : c.step # "items" /\ \E q : Emitting(c, q)
      <4> DEFINE c == [Call EXCEPT !.step = "body", !.labels = labels,
                                   !.saved = switch_cases]
      <4>1. c.step # "items" /\ Emitting(c, p)
        BY <2>1, <3>2, ChangedCall
      <4> HIDE DEF c
      <4> QED BY <4>1
    <3>3. CASE EnterWhile
      BY <3>1, <3>3, Zenon DEF EnterWhile
    <3>4. CASE EnterDo
      BY <3>1, <3>4, Zenon DEF EnterDo
    <3>5. CASE ForTest
      BY <3>1, <3>5, Zenon DEF ForTest
    <3>6. CASE EnterSwitch
      BY <3>2, <3>6, Zenon DEF EnterSwitch
    <3> QED BY <1>8, <3>3, <3>4, <3>5, <3>6
  <2> QED BY <2>1, <2>2, DepthStays
<1>9. CASE NestingExceeded \/ FinishFunction
  <2>1. outcome' # "emitting"
    BY <1>9 DEF NestingExceeded, FinishFunction, Fail
  <2> QED BY <1>0, <2>1
<1> QED BY <1>1, <1>2, <1>3, <1>4, <1>5, <1>6, <1>7, <1>8, <1>9 DEF Emit

\* Each call has a statement one deeper at least than the one before it.
LEMMA NestedIsDeep ==
  ASSUME NEW tree, DOMAIN tree \subseteq Seq(Nat), NEW s, IsSomeSequence(s),
         Nested(tree, s), \A i \in 1..Len(s) : s[i].at \in DOMAIN tree
  PROVE  \A i \in 1..Len(s) : i <= Len(s[i].at) + 1
<1> DEFINE T == {i \in 1..Len(s) : ~(i <= Len(s[i].at) + 1)}
<1>1. Len(s) \in Nat
  BY FrontOfSequence
<1>2. \A i \in 1..Len(s) : s[i].at \in Seq(Nat) /\ Len(s[i].at) \in Nat
  OBVIOUS
<1> SUFFICES ASSUME T # {} PROVE FALSE
  OBVIOUS
<1>3. PICK n \in T : \A m \in T : n <= m
  <2>1. T \subseteq Nat
    BY <1>1
  <2> HIDE DEF T
  <2> QED BY <2>1, LeastIndex
<1>8. n \in 1..Len(s) /\ Len(s[n].at) \in Nat /\ n > Len(s[n].at) + 1
  BY <1>1, <1>2, <1>3
<1>4. n \in 1..Len(s) /\ n - 1 \in 1 .. Len(s) /\ n - 1 \in 1 .. n - 1 /\ n - 1 \notin T
  <2>1. n \in Nat /\ n > 1 /\ n <= Len(s)
    BY <1>1, <1>8
  <2>2. n - 1 \in Nat /\ 1 <= n - 1 /\ n - 1 <= Len(s) /\ ~(n <= n - 1)
    BY <1>1, <2>1
  <2>3. n - 1 \notin T
    <3> HIDE DEF T
    <3> QED BY <1>3, <2>2
  <2> QED BY <1>1, <1>8, <2>1, <2>2, <2>3
<1>5. s[n - 1].at \in Ancestors(s[n].at)
  BY <1>4 DEF Nested, PlacedAfter
<1>6. Len(s[n - 1].at) < Len(s[n].at)
  BY <1>2, <1>4, <1>5, AncestorIsPrefix
<1>7. n - 1 <= Len(s[n - 1].at) + 1
  BY <1>4
<1> QED BY <1>1, <1>2, <1>3, <1>4, <1>6, <1>7

LEMMA CallsAreShallow ==
  ASSUME InProgress PROVE Len(Front(calls)) \in Nat /\ Len(Front(calls)) <= Len(Call.at)
<1> DEFINE f == Front(calls)
<1>1. /\ IsSomeSequence(f) /\ calls = Append(f, Call) /\ Nested(program, calls)
  BY RunningCall DEF TablesFit
<1>2. DOMAIN program \subseteq Seq(Nat)
  BY ProgramsAssumption DEF InProgress, NestInv, CallsInv, WellFormed
<1>3. PICK S : calls \in Seq(S) /\ \A c \in S : IsCall(program, c)
  BY DEF InProgress, NestInv, CallsInv, AreCalls
<1>4. \A i \in 1..Len(calls) : calls[i].at \in DOMAIN program
  BY <1>3 DEF IsCall, CallsOf
<1>5. IsSomeSequence(calls)
  BY <1>3 DEF IsSomeSequence
<1>6. \A i \in 1..Len(calls) : i <= Len(calls[i].at) + 1
  BY <1>1, <1>2, <1>4, <1>5, NestedIsDeep
<1> HIDE DEF f
<1>7. Len(f) \in Nat /\ Len(calls) = Len(f) + 1 /\ calls[Len(f) + 1] = Call
  BY <1>1, AppendedAt
<1>8. Len(f) + 1 <= Len(Call.at) + 1
  BY <1>6, <1>7
<1>9. Len(Call.at) \in Nat
  BY RunningCall
<1> QED BY <1>7, <1>8, <1>9 DEF f

LEMMA ShallowIsNotTooDeep ==
  ASSUME InProgress, DepthInv, ~WalkTooDeep PROVE ~TooDeep
<1> DEFINE n == Len(Front(calls))
           f == Front(calls)
<1>1. /\ IsSomeSequence(f) /\ Call.at \in DOMAIN program /\ Call.at \in Seq(Nat)
      /\ TablesFit
  BY RunningCall
<1>2. n \in Nat /\ n < MaxDepth
  <2>1. ~(Len(Call.at) >= MaxDepth) /\ Len(Call.at) \in Nat
    BY <1>1 DEF WalkTooDeep
  <2> QED BY <2>1, CallsAreShallow, MaxDepthAssumption
<1>3. Call.step # "items" => CanNest
  <2> SUFFICES ASSUME Call.step # "items" PROVE CanNest
    OBVIOUS
  <2>1. ~IsInItems(program, Call)
    BY DEF IsInItems, IsAt
  <2> QED BY <1>2, <2>1, DepthWithoutCall, MaxDepthAssumption DEF CanNest
<1>4. Call.step # "body" => CanPushLoop /\ CanPushBreak
  <2> SUFFICES ASSUME Call.step # "body" PROVE CanPushLoop /\ CanPushBreak
    OBVIOUS
  <2>1. ~IsBodyOf(program, Call, Targeted)
    BY DEF IsBodyOf, IsAt
  <2>2. TargetsFit(program, f, Len(loop_targets), Len(break_targets), switch_cases)
    BY <2>1, FitWithoutCall
  <2> HIDE DEF f
  <2>3. \A kinds : /\ Cardinality(CallsAt(program, f, "body", kinds)) \in Nat
                   /\ Cardinality(CallsAt(program, f, "body", kinds)) <= Len(f)
    BY <1>1, CallsCounted
  <2>4. /\ Len(loop_targets) \in Nat /\ Len(loop_targets) <= Len(f)
        /\ Len(break_targets) \in Nat /\ Len(break_targets) <= Len(f)
    BY <2>2, <2>3 DEF TargetsFit, BodiesOf
  <2> QED BY <1>2, <2>4, MaxDepthAssumption DEF CanPushLoop, CanPushBreak, f
<1>5. EmitsExpression \/ At("compound", "enter") => Call.step # "items"
  BY DEF EmitsExpression, At
<1>6. At("while", "enter") \/ At("do", "enter") \/ At("for", "test")
        \/ At("switch", "enter") => Call.step # "body"
  BY DEF At
<1> QED BY <1>3, <1>4, <1>5, <1>6 DEF TooDeep

-----------------------------------------------------------------------------
(***************************************************************************)
(* With the stack frame, the first walk over the body refuses what nests   *)
(* too deeply before anything is emitted.                                  *)
(***************************************************************************)
WalkInv == NestInv /\ DepthInv /\ (stage # "counting" => ~WalkTooDeep)

LEMMA FailKeepsWalk ==
  ASSUME WalkInv, NEW why, why # "emitting", FailFrame(why) PROVE WalkInv'
<1>1. /\ Fail(why) /\ UNCHANGED <<program, stage, targets>> /\ outcome' # "emitting"
  BY DEF FailFrame, Fail, frame
<1>2. CallsInv'
  BY <1>1, FailKeepsCalls DEF WalkInv, NestInv
<1> QED BY <1>1, <1>2 DEF WalkInv, NestInv, DepthInv, TargetsInv, targets, IsSomeSequence,
      WalkTooDeep, SemaAccepts, CheckStatement, LoopDepth, SwitchDepth

LEMMA UnemittedKeepsWalk ==
  ASSUME WalkInv, UNCHANGED emitVars, stage' # "counting" => ~WalkTooDeep
  PROVE  WalkInv'
<1>1. UNCHANGED <<program, calls, outcome, recursion_depth, targets>>
  BY DEF emitVars
<1> QED BY <1>1 DEF WalkInv, NestInv, DepthInv, TargetsInv, targets, IsSomeSequence, CallsInv,
      TablesFit, WalkTooDeep, SemaAccepts, CheckStatement, LoopDepth, SwitchDepth

LEMMA EmitKeepsWalk ==
  ASSUME WalkInv, Emit, UNCHANGED stage PROVE WalkInv'
<1>1. NestInv' /\ DepthInv'
  BY EmitKeepsNest, EmitKeepsDepth DEF WalkInv
<1>2. UNCHANGED program
  BY Zenon DEF Emit, EmitExpression, EmitReturn, EmitBreak, EmitContinue, EmitGoto,
       EmitLabel, EnterCompound, EmitItem, LeaveCompound, EnterIf, AfterThen, AfterElse,
       EnterWhile, AfterWhileBody, EnterDo, AfterDoBody, EnterFor, ForTest, AfterForBody,
       EnterSwitch, AfterSwitchBody, EmitCase, NestingExceeded, FinishFunction, Fail
<1> QED BY <1>1, <1>2 DEF WalkInv, WalkTooDeep

LEMMA FrameNextKeepsWalk == WalkInv /\ [FrameNext]_frameVars => WalkInv'
<1> SUFFICES ASSUME WalkInv, [FrameNext]_frameVars PROVE WalkInv'
  OBVIOUS
<1>0. \A why : WhyNot(why) # "emitting"
  BY DEF WhyNot
<1>1. CASE CountObject
  <2>1. UNCHANGED emitVars /\ UNCHANGED stage
    BY <1>1 DEF CountObject
  <2> QED BY <2>1, UnemittedKeepsWalk DEF WalkInv
<1>2. CASE EmitPrologue
  <2>1. CASE WalkTooDeep
    BY <1>2, <2>1, FailKeepsWalk DEF EmitPrologue
  <2>2. CASE ~WalkTooDeep
    <3>1. UNCHANGED emitVars
      BY <1>2, <2>2 DEF EmitPrologue
    <3> QED BY <2>2, <3>1, UnemittedKeepsWalk
  <2> QED BY <2>1, <2>2
<1>3. CASE EmitParameterHome
  <2> DEFINE parameter == Parameters[NextParameter]
  <2>1. CASE ~CanDefine(parameter)
    BY <1>0, <1>3, <2>1, FailKeepsWalk DEF EmitParameterHome
  <2>2. CASE CanDefine(parameter)
    <3>1. UNCHANGED emitVars /\ UNCHANGED stage
      BY <1>3, <2>2 DEF EmitParameterHome, DefineBinding, reserved
    <3> QED BY <3>1, UnemittedKeepsWalk DEF WalkInv
  <2> QED BY <2>1, <2>2
<1>4. CASE EnterBody
  <2>1. UNCHANGED emitVars /\ stage = "homes"
    BY <1>4 DEF EnterBody
  <2> QED BY <2>1, UnemittedKeepsWalk DEF WalkInv
<1>5. CASE EmitBody
  <2>1. CASE NameUnresolved
    BY <1>5, <2>1, FailKeepsWalk DEF EmitBody
  <2>2. CASE OpenScope \/ CloseScope \/ StayInScope
    <3>1. Emit /\ UNCHANGED stage
      BY <2>2, Zenon DEF OpenScope, CloseScope, StayInScope, PushScope, PopScope,
           reserved, Emit
    <3> QED BY <3>1, EmitKeepsWalk
  <2>3. CASE EmitDeclaration
    <3> DEFINE object == Declared(Call.at)[1]
    <3>1. CASE ~CanDefine(object)
      BY <1>0, <2>3, <3>1, FailKeepsWalk DEF EmitDeclaration
    <3>2. CASE CanDefine(object)
      <4>1. Emit /\ UNCHANGED stage
        BY <2>3, <3>2 DEF EmitDeclaration, DefineBinding, reserved, Emit
      <4> QED BY <4>1, EmitKeepsWalk
    <3> QED BY <3>1, <3>2
  <2> QED BY <1>5, <2>1, <2>2, <2>3 DEF EmitBody
<1>6. CASE UNCHANGED frameVars
  <2>1. UNCHANGED emitVars /\ UNCHANGED stage
    BY <1>6 DEF frameVars, frame
  <2> QED BY <2>1, UnemittedKeepsWalk DEF WalkInv
<1> QED BY <1>1, <1>2, <1>3, <1>4, <1>5, <1>6 DEF FrameNext

LEMMA InitWalk == InitFrame => WalkInv
<1> SUFFICES ASSUME InitFrame PROVE WalkInv
  OBVIOUS
<1>1. Init /\ stage = "counting"
  BY DEF InitFrame
<1>2. recursion_depth = 0 /\ calls = <<Entry(<< >>)>>
  BY <1>1 DEF Init
<1> DEFINE none == << >>
           p == << >>
<1>3. IsSomeSequence(none) /\ Len(none) = 0 /\ calls = Append(none, Entry(p))
  <2>1. << >> \in Seq({})
    OBVIOUS
  <2> QED BY <1>2, <2>1 DEF IsSomeSequence
<1> HIDE DEF none, p
<1>5. DepthOf(program, none) = 0
  BY <1>3, DepthIsNatural
<1>6. DepthOf(program, Append(none, Entry(p))) = DepthOf(program, none)
  BY <1>3, DepthOfAppended
<1>4. DepthOf(program, calls) = 0
  BY <1>3, <1>5, <1>6
<1> QED BY <1>1, <1>2, <1>4, InitNest DEF WalkInv, DepthInv

\* A body the first walk of emit_function has not refused as too deeply nested
\* meets no depth limit when it is emitted, neither that of the recursion nor
\* those of the arrays of targets: nothing is refused once the prologue is out
\* (fcc_codegen_count_statement_locals, fcc_codegen_enter_recursion).
THEOREM SecondWalkIsNeverRefused == FrameSpec => []SecondWalkNestsNoDeeper
<1>1. WalkInv => SecondWalkNestsNoDeeper
  <2> SUFFICES ASSUME WalkInv, stage = "body", TooDeep PROVE FALSE
    BY DEF SecondWalkNestsNoDeeper
  <2>1. InProgress
    BY DEF TooDeep, EmitsExpression, At, InProgress, WalkInv
  <2> QED BY <2>1, ShallowIsNotTooDeep DEF WalkInv
<1> QED BY <1>1, InitWalk, FrameNextKeepsWalk, PTL DEF FrameSpec


-----------------------------------------------------------------------------
(***************************************************************************)
(* The scope of a declaration, and what is declared and evaluated by the   *)
(* calls in progress.                                                      *)
(***************************************************************************)
LEMMA ScopeIsInnermost ==
  ASSUME NEW tree, WellFormed(tree), NEW d \in DOMAIN tree
  PROVE  /\ ScopeOf(tree, d) \in DOMAIN tree /\ ScopeOf(tree, d) \in Seq(Nat)
         /\ ScopeDepth(tree, d) = Len(ScopeOf(tree, d))
         /\ d = << >> => ScopeOf(tree, d) = << >>
         /\ d # << >> => /\ ScopeOf(tree, d) \in Ancestors(d)
                         /\ tree[ScopeOf(tree, d)].kind \in ScopeKinds
         /\ \A a \in Ancestors(d) :
              tree[a].kind \in ScopeKinds => Len(a) <= Len(ScopeOf(tree, d))
<1>1. d \in Seq(Nat) /\ << >> \in DOMAIN tree /\ tree[<< >>].kind \in ScopeKinds
  BY DEF WellFormed, ScopeKinds
<1>2. CASE d = << >>
  <2>1. ScopeDepth(tree, d) = 0
    BY <1>2 DEF ScopeDepth
  <2>2. SubSeq(d, 1, 0) = << >>
    BY <1>2
  <2>3. Ancestors(d) = {}
    BY <1>2 DEF Ancestors
  <2>4. ScopeOf(tree, d) = << >> /\ ScopeDepth(tree, d) = Len(<< >>)
    BY <2>1, <2>2 DEF ScopeOf
  <2> QED BY <1>1, <1>2, <2>3, <2>4
<1>3. CASE d # << >>
  <2> DEFINE S == {n \in 0 .. Len(d) - 1 : tree[SubSeq(d, 1, n)].kind \in ScopeKinds}
             top == Max(S)
  <2>1. Len(d) \in Nat \ {0}
    BY <1>1, <1>3, EmptySeq
  <2>2. SubSeq(d, 1, 0) = << >>
    BY <1>1
  <2>3. 0 \in S /\ S \subseteq 0 .. Len(d) - 1
    <3>1. tree[SubSeq(d, 1, 0)].kind \in ScopeKinds
      BY <1>1, <2>2, Zenon
    <3>2. 0 \in 0 .. Len(d) - 1
      BY <2>1
    <3> QED BY <3>1, <3>2
  <2>4. \E n \in S : \A m \in S : n >= m
    <3> DEFINE T == {n + 1 : n \in S}
    <3>1. T \subseteq 1..Len(d) /\ T # {} /\ \A n \in S : n + 1 \in T /\ n \in Nat
      BY <2>1, <2>3
    <3> HIDE DEF S
    <3>2. PICK j \in T : \A k \in T : k <= j
      <4> HIDE DEF T
      <4> QED BY <2>1, <3>1, LastIndex
    <3>3. PICK n \in S : j = n + 1
      BY <3>2
    <3>4. ASSUME NEW m \in S PROVE n >= m
      <4>1. m + 1 \in T /\ m \in Nat /\ n \in Nat
        BY <3>1
      <4>2. m + 1 <= j
        BY <3>2, <4>1
      <4> QED BY <3>3, <4>1, <4>2
    <3> QED BY <3>4
  <2>5. top \in S /\ \A m \in S : top >= m
    <3> HIDE DEF S
    <3> QED BY <2>4 DEF Max
  <2>6. ScopeDepth(tree, d) = top
    BY <1>3 DEF ScopeDepth, ScopeKinds
  <2>7. top \in 0 .. Len(d) - 1 /\ ScopeOf(tree, d) = SubSeq(d, 1, top)
    BY <2>3, <2>5, <2>6 DEF ScopeOf
  <2>8. tree[ScopeOf(tree, d)].kind \in ScopeKinds
    BY <2>5, <2>7
  <2> HIDE DEF top, S
  <2>9. ScopeOf(tree, d) \in Ancestors(d)
    BY <2>7 DEF Ancestors
  <2>10. ScopeOf(tree, d) \in Seq(Nat) /\ Len(ScopeOf(tree, d)) = top
    <3>1. \A i \in 1..top : d[i] \in Nat
      BY <1>1, <2>1, <2>7
    <3> QED BY <2>7, <3>1, SubSeqProperties
  <2>11. ScopeOf(tree, d) \in DOMAIN tree
    <3>1. PICK n \in Nat : Under(ScopeOf(tree, d), n, d)
      BY <1>1, <2>9, <2>10, AncestorByElements
    <3> QED BY <2>10, <3>1, AroundIsThere
  <2>12. ASSUME NEW a \in Ancestors(d), tree[a].kind \in ScopeKinds PROVE Len(a) <= top
    <3>1. PICK n \in 0 .. Len(d) - 1 : a = SubSeq(d, 1, n)
      BY DEF Ancestors
    <3>2. \A i \in 1..n : d[i] \in Nat
      BY <1>1, <2>1, <3>1
    <3>3. Len(a) = n /\ n \in S
      BY <2>12, <3>1, <3>2, SubSeqProperties DEF S
    <3> QED BY <2>5, <2>7, <3>3
  <2> QED BY <1>3, <2>6, <2>8, <2>9, <2>10, <2>11, <2>12
<1> QED BY <1>2, <1>3

\* The calls that are about to evaluate an expression of their statement.
Evaluates(tree, c) ==
  \/ c.step = "enter" /\ tree[c.at].kind \in {"expression", "return", "if", "while",
                                              "switch"}
  \/ c.step = "body" /\ tree[c.at].kind \in {"do", "for"}
  \/ c.step = "test" /\ tree[c.at].kind = "for"

Declares(tree, d) == tree[d].declares # << >>

\* The declarations of the scopes around a statement that can be seen in its
\* expression are those the calls in progress have behind them.
LEMMA SeenIsBehind ==
  ASSUME NEW tree, WellFormed(tree), OnlyInitsInFor(tree),
         NEW s, NEW c, c.at \in DOMAIN tree, Follows(tree, s, Len(s), c.at),
         Evaluates(tree, c), NEW d \in DOMAIN tree, Declares(tree, d),
         tree[d].kind = "expression", IsPrefix(ScopeOf(tree, d), c.at)
  PROVE  Seen(tree, d, c.at) <=>
           \/ d = c.at
           \/ d \notin Ahead(tree, c) /\ \A j \in 1..Len(s) : d \notin Ahead(tree, s[j])
<1> DEFINE p == c.at
           behind == d \notin Ahead(tree, c) /\ \A j \in 1..Len(s) : d \notin Ahead(tree, s[j])
<1>1. p \in DOMAIN tree /\ p \in Seq(Nat) /\ d \in Seq(Nat)
  BY DEF WellFormed
<1>2. CASE d = p
  BY <1>2 DEF Seen
<1>3. CASE d # p /\ \E n \in Nat : Under(d, n, p)
  <2>1. PICK n \in Nat : Under(d, n, p)
    BY <1>3
  <2>2. n \in 1..tree[d].kids
    BY <1>1, <2>1, AroundIsThere
  <2>3. tree[d].kids = 0
    BY DEF WellFormed, LeafKinds
  <2> QED BY <2>2, <2>3
<1>4. ASSUME NEW n \in Nat, d # p, Under(p, n, d)
      PROVE  Seen(tree, d, p) <=> behind
  <2>1. n \in 1..tree[p].kids /\ tree[p].kids \in Nat
    BY <1>1, <1>4, AroundIsThere
  <2>2. Before(p, d) /\ ~Before(d, p) /\ IsPrefix(p, d)
    BY <1>1, <1>4, UnderIsBefore
  <2>3. \A j \in 1..Len(s) : d \notin Ahead(tree, s[j])
    BY <1>4, FollowsLeavesBehind
  <2>4. d \in Ahead(tree, c) <=> n > Begun(tree, c)
    <3>1. \A m : Under(p, m, d) <=> m = n
      BY <1>4 DEF Under
    <3> QED BY <1>4, <2>1, <3>1 DEF Ahead
  <2>5. Seen(tree, d, p) <=>
          \/ tree[p].kind = "do"
          \/ tree[p].kind = "for" /\ Has(tree, p, "init") /\ d = Kid(p, 1)
    BY <1>4, <2>2 DEF Seen
  <2>6. CASE c.step = "enter" /\ tree[p].kind \in {"expression", "return", "if", "while",
                                                   "switch"}
    <3>1. Begun(tree, c) = 0
      BY <2>6 DEF Begun
    <3> QED BY <2>1, <2>4, <2>5, <2>6, <3>1
  <2>7. CASE c.step = "body" /\ tree[p].kind = "do"
    <3>1. Begun(tree, c) = tree[p].kids
      BY <2>7 DEF Begun
    <3> QED BY <2>1, <2>3, <2>4, <2>5, <2>7, <3>1
  <2>8. CASE c.step \in {"test", "body"} /\ tree[p].kind = "for"
    <3>1. p \in Ancestors(d)
      BY <1>1, <1>4, AncestorByElements
    <3>2. /\ ScopeOf(tree, d) \in Seq(Nat)
          /\ Len(p) <= Len(ScopeOf(tree, d))
      BY <2>8, <3>1, ScopeIsInnermost DEF ScopeKinds
    <3>3. ScopeOf(tree, d) = p
      <4>1. /\ Len(ScopeOf(tree, d)) <= Len(p)
            /\ \A i \in 1..Len(ScopeOf(tree, d)) : p[i] = ScopeOf(tree, d)[i]
        BY <1>1, <3>2, PrefixByElements
      <4>2. Len(ScopeOf(tree, d)) = Len(p)
        BY <1>1, <3>2, <4>1
      <4> QED BY <1>1, <3>2, <4>1, <4>2, SeqEqual
    <3>4. Has(tree, p, "init") /\ d = Kid(p, 1)
      BY <2>8, <3>3 DEF OnlyInitsInFor, Declares
    <3>5. Under(p, 1, d)
      BY <1>1, <3>4, KidIsUnder
    <3>6. n = 1
      BY <1>4, <3>5 DEF Under
    <3>7. tree[p].kids = 2
      BY <1>1, <2>8, <3>4 DEF WellFormed
    <3>8. Begun(tree, c) \in {1, 2}
      BY <2>8, <3>7 DEF Begun
    <3> QED BY <2>3, <2>4, <2>5, <2>8, <3>4, <3>6, <3>8
  <2> QED BY <2>6, <2>7, <2>8 DEF Evaluates
<1>5. ASSUME NEW a \in Seq(Nat), NEW m \in Nat, NEW n \in Nat, m # n, d # p,
             Under(a, m, p), Under(a, n, d)
      PROVE  Seen(tree, d, p) <=> behind
  <2>1. m \in 1..tree[a].kids /\ n \in 1..tree[a].kids /\ tree[a].kids \in Nat /\ a \in DOMAIN tree
    BY <1>1, <1>5, AroundIsThere
  <2>2. CASE m < n
    <3>1. ~Before(d, p) /\ ~IsPrefix(p, d)
      BY <1>1, <1>5, <2>2, PartedOnce
    <3>2. d # Kid(p, 1)
      <4>1. Kid(p, 1) \in Seq(Nat) /\ Under(p, 1, Kid(p, 1))
        BY <1>1, KidIsUnder
      <4> QED BY <1>1, <3>1, <4>1, UnderIsBefore
    <3>3. ~Seen(tree, d, p)
      BY <1>5, <3>1, <3>2 DEF Seen
    <3>4. tree[a].kids > 1
      BY <2>1, <2>2
    <3>5. tree[a].kind \notin Passing
      BY <2>1, <3>4 DEF WellFormed, Passing
    <3>6. a \in Ancestors(p)
      BY <1>1, <1>5, AncestorByElements
    <3>7. PICK j \in 1..Len(s) : s[j].at = a
      BY <3>5, <3>6 DEF Follows
    <3>8. Begun(tree, s[j]) = m
      <4>1. Under(a, Begun(tree, s[j]), p)
        BY <3>7 DEF Follows
      <4> QED BY <1>5, <4>1 DEF Under
    <3>9. d \in Ahead(tree, s[j])
      BY <1>5, <2>1, <2>2, <3>7, <3>8 DEF Ahead
    <3> QED BY <3>3, <3>9
  <2>3. CASE n < m
    <3>1. Before(d, p) /\ ~IsPrefix(p, d) /\ ~Before(p, d)
      BY <1>1, <1>5, <2>3, PartedOnce
    <3>2. d \notin Ahead(tree, c)
      <4>1. \A k \in 1..tree[p].kids : ~Under(p, k, d)
        <5> SUFFICES ASSUME NEW k \in 1..tree[p].kids, Under(p, k, d) PROVE FALSE
          OBVIOUS
        <5>1. k \in Nat
          BY <1>1 DEF WellFormed
        <5> QED BY <1>1, <3>1, <5>1, UnderIsBefore
      <4> QED BY <1>5, <4>1 DEF Ahead
    <3>3. ASSUME NEW j \in 1..Len(s) PROVE d \notin Ahead(tree, s[j])
      <4> DEFINE b == s[j].at
                 g == Begun(tree, s[j])
      <4>1. b \in DOMAIN tree /\ s[j].step # "enter" /\ Under(b, g, p)
        BY DEF Follows
      <4>2. b \in Seq(Nat) /\ tree[b].kids \in Nat
        BY <4>1 DEF WellFormed
      <4> HIDE DEF b, g
      <4>3. g \in Nat
        BY <1>1, <4>1, <4>2, AroundIsThere
      <4>4. ASSUME NEW k \in 1..tree[b].kids, Under(b, k, d), k > g PROVE FALSE
        <5>1. k \in Nat
          BY <4>2
        <5> QED BY <1>1, <3>1, <4>1, <4>2, <4>3, <4>4, <5>1, PartedOnce
      <4> QED BY <4>1, <4>4 DEF Ahead, b, g
    <3> QED BY <3>1, <3>2, <3>3 DEF Seen
  <2> QED BY <1>5, <2>2, <2>3
<1>6. CASE d # p
  BY <1>1, <1>3, <1>4, <1>5, <1>6, WherePositionsPart
<1> QED BY <1>2, <1>6
-----------------------------------------------------------------------------
(***************************************************************************)
(* The lookup: a list of visible objects whose scopes do not get less deep,*)
(* which has the declarations seen at p and no others.                     *)
(***************************************************************************)
ListsWhatIsSeen(V, hs, w, p) ==
  /\ IsSomeSequence(V)
  /\ \A i \in 1..Len(V) :
       /\ w[i] \in DOMAIN program /\ V[i].name \in Names(program, w[i])
       /\ <<w[i], V[i].name>> \in DOMAIN hs /\ V[i] = hs[<<w[i], V[i].name>>]
       /\ IsPrefix(ScopeOf(program, w[i]), p) /\ Seen(program, w[i], p)
  /\ \A i, j \in 1..Len(V) :
       i <= j => ScopeDepth(program, w[i]) <= ScopeDepth(program, w[j])
  /\ \A d \in DOMAIN program : \A n \in Names(program, d) :
       IsPrefix(ScopeOf(program, d), p) /\ Seen(program, d, p) =>
         \E i \in 1..Len(V) : w[i] = d /\ V[i].name = n

LEMMA LookupFindsMeaning ==
  ASSUME WellFormed(program), DeclarationsAccepted(program), NEW p \in DOMAIN program,
         NEW V, NEW hs, NEW w, ListsWhatIsSeen(V, hs, w, p), NEW n
  PROVE  /\ Meaning(program, p, n) = {} => Bound(n, V) = {}
         /\ \A d \in Meaning(program, p, n) :
              /\ Bound(n, V) # {} /\ <<d, n>> \in DOMAIN hs
              /\ LookupBinding(n, V) = hs[<<d, n>>]
<1> DEFINE seen == {d \in DOMAIN program :
                      /\ n \in Names(program, d)
                      /\ IsPrefix(ScopeOf(program, d), p)
                      /\ Seen(program, d, p)}
           depth(d) == ScopeDepth(program, d)
           last == Max(Bound(n, V))
<1>1. Len(V) \in Nat /\ DOMAIN V = 1..Len(V)
  <2>1. PICK S : V \in Seq(S)
    BY DEF ListsWhatIsSeen, IsSomeSequence
  <2> QED BY <2>1
<1>2. Meaning(program, p, n) = {d \in seen : \A e \in seen : depth(e) <= depth(d)}
  BY DEF Meaning
<1>3. ASSUME NEW i \in Bound(n, V)
      PROVE  i \in 1..Len(V) /\ w[i] \in seen /\ <<w[i], n>> \in DOMAIN hs
             /\ V[i] = hs[<<w[i], n>>]
  <2>1. i \in 1..Len(V) /\ V[i].name = n
    BY <1>1, <1>3 DEF Bound
  <2> QED BY <2>1 DEF ListsWhatIsSeen
<1>4. ASSUME NEW d \in seen PROVE \E i \in Bound(n, V) : w[i] = d
  <2>1. PICK i \in 1..Len(V) : w[i] = d /\ V[i].name = n
    BY <1>4 DEF ListsWhatIsSeen
  <2> QED BY <1>1, <2>1 DEF Bound
<1>5. ASSUME NEW d \in seen
      PROVE  /\ depth(d) = Len(ScopeOf(program, d)) /\ depth(d) \in Nat
             /\ ScopeOf(program, d) \in Seq(Nat) /\ IsPrefix(ScopeOf(program, d), p)
  BY <1>5, ScopeIsInnermost
<1>6. p \in Seq(Nat)
  BY DEF WellFormed
<1> HIDE DEF seen
<1>7. ASSUME Bound(n, V) # {}
      PROVE  /\ last \in Bound(n, V) /\ w[last] \in seen
             /\ \A d \in seen : depth(d) <= depth(w[last])
  <2>1. Bound(n, V) \subseteq 1..Len(V)
    BY <1>3
  <2>2. \E i \in Bound(n, V) : \A j \in Bound(n, V) : j <= i
    BY <1>1, <1>7, <2>1, LastIndex
  <2>3. last \in Bound(n, V) /\ \A j \in Bound(n, V) : last >= j
    <3>1. \E i \in Bound(n, V) : \A j \in Bound(n, V) : i >= j
      BY <1>1, <2>1, <2>2
    <3> QED BY <3>1 DEF Max
  <2> HIDE DEF last
  <2>4. ASSUME NEW d \in seen PROVE depth(d) <= depth(w[last])
    <3>1. PICK i \in Bound(n, V) : w[i] = d
      BY <1>4
    <3>2. i \in 1..Len(V) /\ last \in 1..Len(V) /\ i <= last
      BY <1>3, <2>1, <2>3, <3>1
    <3> QED BY <3>1, <3>2 DEF ListsWhatIsSeen
  <2> QED BY <1>3, <2>3, <2>4
<1> HIDE DEF last
<1>8. ASSUME Meaning(program, p, n) = {} PROVE Bound(n, V) = {}
  BY <1>2, <1>7, <1>8
<1>9. ASSUME NEW d \in Meaning(program, p, n)
      PROVE  /\ Bound(n, V) # {} /\ <<d, n>> \in DOMAIN hs
             /\ LookupBinding(n, V) = hs[<<d, n>>]
  <2>1. d \in seen /\ \A e \in seen : depth(e) <= depth(d)
    BY <1>2, <1>9
  <2>2. Bound(n, V) # {}
    BY <1>4, <2>1
  <2>3. last \in Bound(n, V) /\ w[last] \in seen /\ depth(d) <= depth(w[last])
        /\ depth(w[last]) <= depth(d)
    BY <1>7, <2>1, <2>2
  <2> DEFINE e == w[last]
             S == ScopeOf(program, d)
             T == ScopeOf(program, e)
  <2>4. depth(d) = depth(e)
    BY <1>5, <2>1, <2>3
  <2>5. S = T
    <3>1. /\ S \in Seq(Nat) /\ T \in Seq(Nat) /\ Len(S) = Len(T)
          /\ IsPrefix(S, p) /\ IsPrefix(T, p)
      BY <1>5, <2>1, <2>3, <2>4
    <3> HIDE DEF S, T
    <3>2. (\A i \in 1..Len(S) : p[i] = S[i]) /\ (\A i \in 1..Len(T) : p[i] = T[i])
      BY <1>6, <3>1, PrefixByElements
    <3> QED BY <3>1, <3>2, SeqEqual
  <2>6. d = e
    <3>1. n \in Names(program, d) /\ n \in Names(program, e)
          /\ d \in DOMAIN program /\ e \in DOMAIN program
      BY <2>1, <2>3 DEF seen
    <3> QED BY <2>5, <3>1 DEF DeclarationsAccepted
  <2>7. <<e, n>> \in DOMAIN hs /\ V[last] = hs[<<e, n>>]
    BY <1>3, <2>3
  <2>8. LookupBinding(n, V) = V[last]
    BY DEF LookupBinding, last
  <2> QED BY <2>2, <2>6, <2>7, <2>8
<1> QED BY <1>8, <1>9

-----------------------------------------------------------------------------
(***************************************************************************)
(* The open scopes are around the running statement, and those around it   *)
(* are open.                                                               *)
(***************************************************************************)
LEMMA OpenByCalls ==
  ASSUME Ordered, NEW a
  PROVE  IsOpen(program, calls, a) <=>
           \/ IsOpen(program, Front(calls), a)
           \/ program[a].kind \in ScopeKinds /\ Call.at = a /\ Call.step # "enter"
<1> DEFINE s == Front(calls)
           c == Call
<1>1. IsSomeSequence(s) /\ calls = Append(s, c)
  BY OrderedCall
<1> HIDE DEF s, c
<1>2. IsOpen(program, Append(s, c), a) <=>
        \/ IsOpen(program, s, a)
        \/ program[a].kind \in ScopeKinds /\ c.at = a /\ c.step # "enter"
  BY <1>1, OpenAppended
<1> QED BY <1>1, <1>2 DEF s, c

LEMMA OpenIsAround ==
  ASSUME Ordered, NEW a, IsOpen(program, calls, a)
  PROVE  /\ a \in DOMAIN program /\ a \in Seq(Nat) /\ IsPrefix(a, Call.at)
         /\ a # Call.at => Len(a) < Len(Call.at) /\ a \in Ancestors(Call.at)
         /\ program[a].kind \in ScopeKinds
<1>1. /\ WellFormed(program) /\ Call.at \in Seq(Nat) /\ Call.at \in DOMAIN program
      /\ IsSomeSequence(Front(calls)) /\ calls = Append(Front(calls), Call)
      /\ Follows(program, Front(calls), Len(Front(calls)), Call.at)
  BY OrderedCall
<1>2. << >> \in DOMAIN program /\ << >> \in Seq(Nat) /\ program[<< >>].kind \in ScopeKinds
  BY <1>1 DEF WellFormed, ScopeKinds
<1>3. IsPrefix(Call.at, Call.at)
  BY <1>1, PrefixByElements
<1>4. ASSUME NEW n \in Nat, Under(a, n, Call.at), a \in Seq(Nat)
      PROVE  IsPrefix(a, Call.at) /\ Len(a) < Len(Call.at) /\ a \in Ancestors(Call.at)
  <2>1. IsPrefix(a, Call.at) /\ a \in Ancestors(Call.at)
    BY <1>1, <1>4, UnderIsBefore, AncestorByElements
  <2>2. Len(a) < Len(Call.at)
    BY <1>4 DEF Under
  <2> QED BY <2>1, <2>2
<1>5. CASE a = << >>
  <2>1. CASE Call.at = << >>
    BY <1>1, <1>2, <1>3, <1>5, <2>1
  <2>2. CASE Call.at # << >>
    <3>1. Len(<< >>) = 0 /\ 1 \in 1..Len(Call.at) /\ Len(Call.at) \in Nat
      BY <1>1, <2>2, EmptySeq
    <3>2. Under(<< >>, Call.at[1], Call.at) /\ Call.at[1] \in Nat
      BY <1>1, <3>1 DEF Under
    <3> QED BY <1>2, <1>4, <1>5, <3>2
  <2> QED BY <2>1, <2>2
<1>6. CASE a # << >>
  <2>1. /\ program[a].kind \in ScopeKinds
        /\ \/ \E j \in 1..Len(Front(calls)) : Front(calls)[j].at = a
           \/ a = Call.at
    <3>1. IsOpen(program, Front(calls), a) \/ (program[a].kind \in ScopeKinds /\ Call.at = a)
      BY OpenByCalls
    <3> QED BY <1>6, <3>1 DEF IsOpen
  <2>2. CASE a = Call.at
    BY <1>1, <1>3, <2>1, <2>2
  <2>3. ASSUME NEW j \in 1..Len(Front(calls)), Front(calls)[j].at = a
        PROVE  /\ a \in DOMAIN program /\ a \in Seq(Nat) /\ IsPrefix(a, Call.at)
               /\ Len(a) < Len(Call.at) /\ a \in Ancestors(Call.at)
    <3> DEFINE g == Begun(program, Front(calls)[j])
    <3>1. a \in DOMAIN program /\ Under(a, g, Call.at)
      BY <1>1, <2>3 DEF Follows
    <3>2. a \in Seq(Nat)
      BY <1>1, <3>1 DEF WellFormed
    <3> HIDE DEF g
    <3>3. g \in 1..program[a].kids /\ program[a].kids \in Nat
      BY <1>1, <3>1, <3>2, AroundIsThere
    <3> QED BY <1>4, <3>1, <3>2, <3>3
  <2> QED BY <2>1, <2>2, <2>3
<1> QED BY <1>5, <1>6

LEMMA AroundIsOpen ==
  ASSUME Ordered, NEW a \in Ancestors(Call.at), program[a].kind \in ScopeKinds
  PROVE  IsOpen(program, calls, a) /\ IsOpen(program, Front(calls), a)
<1>1. /\ IsSomeSequence(Front(calls)) /\ calls = Append(Front(calls), Call)
      /\ Follows(program, Front(calls), Len(Front(calls)), Call.at)
  BY OrderedCall
<1>2. program[a].kind \notin Passing
  BY DEF ScopeKinds, Passing
<1>3. \E j \in 1..Len(Front(calls)) :
        Front(calls)[j].at = a /\ Front(calls)[j].step # "enter"
  BY <1>1, <1>2 DEF Follows
<1>4. IsOpen(program, Front(calls), a)
  BY <1>3 DEF IsOpen
<1> QED BY <1>4, OpenByCalls

LEMMA ScopeAroundIsOpen ==
  ASSUME Ordered, Evaluates(program, Call), NEW d \in DOMAIN program,
         IsPrefix(ScopeOf(program, d), Call.at)
  PROVE  IsOpen(program, calls, ScopeOf(program, d))
<1> DEFINE a == ScopeOf(program, d)
           p == Call.at
<1>1. /\ WellFormed(program) /\ p \in Seq(Nat) /\ Node = program[p]
      /\ IsSomeSequence(Front(calls)) /\ calls = Append(Front(calls), Call)
  BY OrderedCall
<1>2. a \in Seq(Nat) /\ (a # << >> => program[a].kind \in ScopeKinds)
  BY <1>1, ScopeIsInnermost
<1> HIDE DEF a
<1>3. CASE a = << >>
  BY <1>3 DEF IsOpen, a
<1>4. CASE a # << >> /\ a = p
  <2>1. program[p].kind \in ScopeKinds /\ Call.step # "enter"
    BY <1>2, <1>4 DEF Evaluates, ScopeKinds
  <2>2. IsOpen(program, calls, a)
    BY <1>4, <2>1, OpenByCalls
  <2> QED BY <2>2 DEF a
<1>5. CASE a # << >> /\ a # p
  <2>1. IsStrictPrefix(a, p)
    BY <1>5 DEF IsStrictPrefix, a
  <2>2. a \in Ancestors(p)
    BY <1>1, <1>2, <2>1, PrefixByElements, AncestorByElements
  <2> QED BY <1>2, <1>5, <2>2, AroundIsOpen DEF a
<1> QED BY <1>3, <1>4, <1>5

\* No open scope is deeper than that a declaration of the running statement is in.
LEMMA ScopeIsDeepest ==
  ASSUME Ordered, Node.kind = "expression", NEW a, IsOpen(program, calls, a)
  PROVE  /\ Len(a) <= ScopeDepth(program, Call.at)
         /\ IsOpen(program, calls, ScopeOf(program, Call.at))
<1>1. WellFormed(program) /\ Node = program[Call.at] /\ Call.at \in DOMAIN program
  BY OrderedCall
<1>2. a # Call.at /\ program[a].kind \in ScopeKinds /\ a \in Ancestors(Call.at)
  BY <1>1, OpenIsAround DEF ScopeKinds
<1>3. /\ Len(a) <= Len(ScopeOf(program, Call.at))
      /\ ScopeDepth(program, Call.at) = Len(ScopeOf(program, Call.at))
  BY <1>1, <1>2, ScopeIsInnermost
<1>4. Call.at # << >>
  BY <1>1, KidsByKind
<1>5. IsOpen(program, calls, ScopeOf(program, Call.at))
  BY <1>1, <1>4, ScopeIsInnermost, AroundIsOpen
<1> QED BY <1>3, <1>5

-----------------------------------------------------------------------------
(***************************************************************************)
(* The names in use: what has been emitted has its home, and the bindings  *)
(* are those of the declarations at w, whose scopes are open.              *)
(***************************************************************************)
\* Bodies with no declaration as the body of a for and no extern in a block.
PlainBody(tree) ==
  /\ OnlyInitsInFor(tree)
  /\ \A p \in DOMAIN tree : \A i \in DOMAIN tree[p].declares :
       RequiresStorage(tree[p].declares[i])

EmittedHaveHomes ==
  /\ \A x \in DOMAIN homes :
       /\ x = <<x[1], x[2]>> /\ x[1] \in DOMAIN program
       /\ x[2] \in Names(program, x[1]) /\ ~IsPending(program, calls, x[1])
  /\ \A d \in DOMAIN program : d # << >> /\ ~IsPending(program, calls, d) =>
       \A n \in Names(program, d) : <<d, n>> \in DOMAIN homes

ParametersHaveHomes == \A n \in Names(program, << >>) : <<<< >>, n>> \in DOMAIN homes

BindingsFit(w) ==
  /\ IsSomeSequence(bindings) /\ w \in Seq(DOMAIN program) /\ Len(w) = Len(bindings)
  /\ \A i \in 1..Len(bindings) :
       /\ <<w[i], bindings[i].name>> \in DOMAIN homes
       /\ bindings[i] = homes[<<w[i], bindings[i].name>>]
       /\ IsOpen(program, calls, ScopeOf(program, w[i]))
  /\ \A i, j \in 1..Len(bindings) :
       i <= j => ScopeDepth(program, w[i]) <= ScopeDepth(program, w[j])
  /\ \A x \in DOMAIN homes : IsOpen(program, calls, ScopeOf(program, x[1])) =>
       \E i \in 1..Len(bindings) : w[i] = x[1] /\ bindings[i].name = x[2]

LEMMA DeclaringStatement ==
  ASSUME program \in Programs, NEW d \in DOMAIN program, NEW n \in Names(program, d)
  PROVE  /\ Declares(program, d)
         /\ d # << >> => /\ program[d].kind = "expression" /\ 1 \in DOMAIN Declared(d)
                         /\ n = Declared(d)[1].name
<1>1. PICK i \in DOMAIN program[d].declares : program[d].declares[i].name = n
  BY DEF Names
<1>2. /\ program[d].declares \in Seq(ToSet(program[d].declares))
      /\ d # << >> /\ program[d].declares # << >> =>
           program[d].kind = "expression" /\ Len(program[d].declares) = 1
  BY DeclarationsAssumption
<1>3. program[d].declares # << >>
  BY <1>1
<1>4. DOMAIN program[d].declares = 1..Len(program[d].declares)
  BY <1>2
<1> QED BY <1>1, <1>2, <1>3, <1>4 DEF Declares, Declared

LEMMA EvaluatesNow ==
  ASSUME Ordered, EmitsExpression \/ Introduces
  PROVE  Evaluates(program, Call) /\ Call.at # << >>
<1>1. Node = program[Call.at]
  BY OrderedCall
<1>2. Evaluates(program, Call) /\ Node.kind # "compound"
  BY <1>1 DEF EmitsExpression, Introduces, At, Evaluates
<1> QED BY <1>2, KidsByKind

LEMMA SeenByCalls ==
  ASSUME Ordered, PlainBody(program), Evaluates(program, Call),
         NEW d \in DOMAIN program, NEW n \in Names(program, d), d # << >>,
         IsPrefix(ScopeOf(program, d), Call.at)
  PROVE  Seen(program, d, Call.at) <=> d = Call.at \/ ~IsPending(program, calls, d)
<1> DEFINE s == Front(calls)
           c == Call
<1>1. /\ WellFormed(program) /\ IsSomeSequence(s) /\ calls = Append(s, c)
      /\ c.at \in DOMAIN program /\ Follows(program, s, Len(s), c.at)
      /\ program \in Programs
  BY OrderedCall DEF Ordered, InProgress, NestInv, CallsInv
<1>2. Declares(program, d) /\ program[d].kind = "expression"
  BY <1>1, DeclaringStatement
<1> HIDE DEF s, c
<1>3. Seen(program, d, c.at) <=>
        \/ d = c.at
        \/ d \notin Ahead(program, c) /\ \A j \in 1..Len(s) : d \notin Ahead(program, s[j])
  BY <1>1, <1>2, SeenIsBehind DEF PlainBody, c
<1>4. IsPending(program, Append(s, c), d) <=> IsPending(program, s, d) \/ d \in Ahead(program, c)
  BY <1>1, <1>2, AheadAppended DEF IsPending
<1>5. IsPending(program, s, d) <=> \E j \in 1..Len(s) : d \in Ahead(program, s[j])
  BY <1>2 DEF IsPending, IsAhead
<1> QED BY <1>1, <1>3, <1>4, <1>5 DEF c

LEMMA RootIsSeen ==
  ASSUME Ordered, Call.at # << >>
  PROVE  /\ Seen(program, << >>, Call.at) /\ << >> \in DOMAIN program
         /\ ScopeOf(program, << >>) = << >> /\ IsPrefix(<< >>, Call.at)
         /\ ~IsPending(program, calls, << >>)
<1>1. /\ WellFormed(program) /\ << >> \in DOMAIN program /\ Call.at \in Seq(Nat)
      /\ program[<< >>].kind = "compound"
  BY OrderedCall DEF WellFormed
<1>2. ScopeOf(program, << >>) = << >>
  BY <1>1, ScopeIsInnermost
<1>3. IsOpen(program, calls, << >>)
  BY DEF IsOpen
<1>4. IsPrefix(<< >>, Call.at)
  BY <1>3, OpenIsAround
<1>5. Seen(program, << >>, Call.at)
  BY <1>4 DEF Seen, Before, IsStrictPrefix
<1> QED BY <1>1, <1>2, <1>4, <1>5 DEF IsPending

LEMMA BindingsAreSeen ==
  ASSUME Ordered, PlainBody(program), Evaluates(program, Call), Call.at # << >>,
         EmittedHaveHomes, ParametersHaveHomes, NEW w, BindingsFit(w)
  PROVE  /\ \A i \in 1..Len(bindings) :
              /\ w[i] \in DOMAIN program /\ bindings[i].name \in Names(program, w[i])
              /\ IsPrefix(ScopeOf(program, w[i]), Call.at) /\ Seen(program, w[i], Call.at)
         /\ \A d \in DOMAIN program : \A n \in Names(program, d) :
              d # Call.at /\ IsPrefix(ScopeOf(program, d), Call.at)
                /\ Seen(program, d, Call.at) =>
                \E i \in 1..Len(bindings) : w[i] = d /\ bindings[i].name = n
<1>1. ASSUME NEW i \in 1..Len(bindings)
      PROVE  /\ w[i] \in DOMAIN program /\ bindings[i].name \in Names(program, w[i])
             /\ IsPrefix(ScopeOf(program, w[i]), Call.at) /\ Seen(program, w[i], Call.at)
  <2> DEFINE d == w[i]
             n == bindings[i].name
  <2>1. <<d, n>> \in DOMAIN homes /\ IsOpen(program, calls, ScopeOf(program, d))
    BY DEF BindingsFit
  <2>2. d \in DOMAIN program /\ n \in Names(program, d) /\ ~IsPending(program, calls, d)
    BY <2>1 DEF EmittedHaveHomes
  <2>3. IsPrefix(ScopeOf(program, d), Call.at)
    BY <2>1, OpenIsAround
  <2> HIDE DEF d, n
  <2>4. Seen(program, d, Call.at)
    <3>1. CASE d = << >>
      BY <3>1, RootIsSeen
    <3>2. CASE d # << >>
      BY <2>2, <2>3, <3>2, SeenByCalls
    <3> QED BY <3>1, <3>2
  <2> QED BY <2>2, <2>3, <2>4 DEF d, n
<1>2. ASSUME NEW d \in DOMAIN program, NEW n \in Names(program, d), d # Call.at,
             IsPrefix(ScopeOf(program, d), Call.at), Seen(program, d, Call.at)
      PROVE  \E i \in 1..Len(bindings) : w[i] = d /\ bindings[i].name = n
  <2>1. <<d, n>> \in DOMAIN homes
    <3>1. CASE d = << >>
      BY <3>1 DEF ParametersHaveHomes
    <3>2. CASE d # << >>
      <4>1. ~IsPending(program, calls, d)
        BY <1>2, <3>2, SeenByCalls
      <4> QED BY <3>2, <4>1 DEF EmittedHaveHomes
    <3> QED BY <3>1, <3>2
  <2>2. IsOpen(program, calls, ScopeOf(program, d))
    BY <1>2, ScopeAroundIsOpen
  <2> DEFINE x == <<d, n>>
  <2>3. x \in DOMAIN homes /\ x[1] = d /\ x[2] = n
    BY <2>1
  <2> HIDE DEF x
  <2> QED BY <2>2, <2>3 DEF BindingsFit
<1> QED BY <1>1, <1>2

LEMMA BindingsListSeen ==
  ASSUME Ordered, PlainBody(program), Evaluates(program, Call), Call.at # << >>,
         EmittedHaveHomes, ParametersHaveHomes, NEW w, BindingsFit(w),
         ~Declares(program, Call.at)
  PROVE  ListsWhatIsSeen(bindings, homes, w, Call.at)
<1>1. program \in Programs
  BY DEF Ordered, InProgress, NestInv, CallsInv
<1>2. Names(program, Call.at) = {}
  <2>1. Call.at \in DOMAIN program
    BY OrderedCall
  <2> QED BY <1>1, <2>1, DeclaringStatement
<1>3. /\ \A i \in 1..Len(bindings) :
           /\ w[i] \in DOMAIN program /\ bindings[i].name \in Names(program, w[i])
           /\ IsPrefix(ScopeOf(program, w[i]), Call.at) /\ Seen(program, w[i], Call.at)
      /\ \A d \in DOMAIN program : \A n \in Names(program, d) :
           d # Call.at /\ IsPrefix(ScopeOf(program, d), Call.at)
             /\ Seen(program, d, Call.at) =>
             \E i \in 1..Len(bindings) : w[i] = d /\ bindings[i].name = n
  BY BindingsAreSeen
<1>4. \A d \in DOMAIN program : \A n \in Names(program, d) : d # Call.at
  BY <1>2
<1>5. /\ IsSomeSequence(bindings)
      /\ \A i \in 1..Len(bindings) :
           /\ <<w[i], bindings[i].name>> \in DOMAIN homes
           /\ bindings[i] = homes[<<w[i], bindings[i].name>>]
      /\ \A i, j \in 1..Len(bindings) :
           i <= j => ScopeDepth(program, w[i]) <= ScopeDepth(program, w[j])
  BY DEF BindingsFit
<1> QED BY <1>3, <1>4, <1>5, Zenon DEF ListsWhatIsSeen

LEMMA DeclarationListsSeen ==
  ASSUME Ordered, PlainBody(program), Introduces,
         EmittedHaveHomes, ParametersHaveHomes, NEW w, BindingsFit(w),
         NEW object, object = Declared(Call.at)[1]
  PROVE  ListsWhatIsSeen(Append(bindings, Binding(object)), WithHome(Call.at, object),
                         Append(w, Call.at), Call.at)
<1> DEFINE p == Call.at
           b == Binding(object)
           V == Append(bindings, b)
           u == Append(w, p)
           hs == WithHome(p, object)
           x == <<p, object.name>>
           l == Len(bindings)
<1>1. /\ Evaluates(program, Call) /\ p # << >> /\ p \in DOMAIN program /\ p \in Seq(Nat)
      /\ program \in Programs /\ Node = program[p] /\ Node.kind = "expression"
      /\ WellFormed(program)
  BY EvaluatesNow, OrderedCall DEF Ordered, InProgress, NestInv, CallsInv, Introduces, At
<1>2. /\ l \in Nat /\ Len(V) = l + 1 /\ V[l + 1] = b /\ \A i \in 1..l : V[i] = bindings[i]
      /\ IsSomeSequence(V)
  BY AppendedAt DEF BindingsFit
<1>3. /\ Len(w) = l /\ u[l + 1] = p /\ \A i \in 1..l : u[i] = w[i]
  BY <1>1, AppendProperties DEF BindingsFit
<1>4. b.name = object.name /\ object.name \in Names(program, p)
  <2>1. 1 \in DOMAIN program[p].declares
    BY DEF Introduces, Declared
  <2> QED BY <2>1 DEF Binding, Names, Declared
<1>5. /\ x \in DOMAIN hs /\ hs[x] = b
      /\ \A y \in DOMAIN homes : y # x => y \in DOMAIN hs /\ hs[y] = homes[y]
  BY DEF WithHome
<1>6. IsPending(program, calls, p)
  <2> DEFINE s == Front(calls)
             c == Call
  <2>1. IsSomeSequence(s) /\ calls = Append(s, c)
    BY OrderedCall
  <2>2. p \in Ahead(program, c)
    BY <1>1 DEF Introduces, At, Ahead
  <2> HIDE DEF s, c, p
  <2> QED BY <1>1, <2>1, <2>2, AheadAppended DEF IsPending
<1>7. x \notin DOMAIN homes
  <2>1. x[1] = p
    OBVIOUS
  <2> HIDE DEF x
  <2> QED BY <1>6, <2>1 DEF EmittedHaveHomes
<1>8. /\ \A i \in 1..l :
           /\ w[i] \in DOMAIN program /\ bindings[i].name \in Names(program, w[i])
           /\ IsPrefix(ScopeOf(program, w[i]), p) /\ Seen(program, w[i], p)
      /\ \A d \in DOMAIN program : \A n \in Names(program, d) :
           d # p /\ IsPrefix(ScopeOf(program, d), p) /\ Seen(program, d, p) =>
             \E i \in 1..l : w[i] = d /\ bindings[i].name = n
  BY <1>1, BindingsAreSeen
<1>9. \A i \in 1..l : /\ <<w[i], bindings[i].name>> \in DOMAIN homes
                      /\ bindings[i] = homes[<<w[i], bindings[i].name>>]
  BY DEF BindingsFit
<1>10. IsPrefix(ScopeOf(program, p), p) /\ Seen(program, p, p)
  <2>1. ScopeOf(program, p) \in Ancestors(p)
    BY <1>1, ScopeIsInnermost
  <2>2. Seen(program, p, p)
    BY DEF Seen
  <2>3. \A a \in Ancestors(p) : IsPrefix(a, p)
    BY <1>1, AncestorIsPrefix DEF IsStrictPrefix
  <2> QED BY <2>1, <2>2, <2>3
<1>11. \A i \in 1..l : ScopeDepth(program, w[i]) <= ScopeDepth(program, p)
  <2> SUFFICES ASSUME NEW i \in 1..l
               PROVE  ScopeDepth(program, w[i]) <= ScopeDepth(program, p)
    OBVIOUS
  <2>1. IsOpen(program, calls, ScopeOf(program, w[i]))
    BY DEF BindingsFit
  <2>2. Len(ScopeOf(program, w[i])) <= ScopeDepth(program, p)
    BY <1>1, <2>1, ScopeIsDeepest
  <2>3. ScopeDepth(program, w[i]) = Len(ScopeOf(program, w[i]))
    BY <1>1, <1>8, ScopeIsInnermost
  <2> QED BY <2>2, <2>3
<1>12. \A i, j \in 1..l : i <= j => ScopeDepth(program, w[i]) <= ScopeDepth(program, w[j])
  BY DEF BindingsFit
<1>13. ScopeDepth(program, p) \in Nat
  BY <1>1, ScopeIsInnermost
<1>14. \A n \in Names(program, p) : n = object.name
  BY <1>1, DeclaringStatement
<1> HIDE DEF V, u, hs, x, b, l, p
<1>15. ASSUME NEW i \in 1..Len(V)
       PROVE  /\ u[i] \in DOMAIN program /\ V[i].name \in Names(program, u[i])
              /\ <<u[i], V[i].name>> \in DOMAIN hs /\ V[i] = hs[<<u[i], V[i].name>>]
              /\ IsPrefix(ScopeOf(program, u[i]), p) /\ Seen(program, u[i], p)
  <2>1. CASE i \in 1..l
    <3>1. <<w[i], bindings[i].name>> # x
      BY <1>7, <1>9, <2>1
    <3> QED BY <1>2, <1>3, <1>5, <1>8, <1>9, <2>1, <3>1
  <2>2. CASE i = l + 1
    <3>1. <<u[i], V[i].name>> = x
      BY <1>2, <1>3, <1>4, <2>2 DEF x
    <3> QED BY <1>1, <1>2, <1>3, <1>4, <1>5, <1>10, <2>2, <3>1
  <2> QED BY <1>2, <2>1, <2>2
<1>16. ASSUME NEW i \in 1..Len(V), NEW j \in 1..Len(V), i <= j
       PROVE  ScopeDepth(program, u[i]) <= ScopeDepth(program, u[j])
  <2>1. CASE j \in 1..l
    <3>1. i \in 1..l
      BY <1>2, <1>16, <2>1
    <3> QED BY <1>3, <1>12, <1>16, <2>1, <3>1
  <2>2. CASE j = l + 1 /\ i \in 1..l
    BY <1>3, <1>11, <2>2
  <2>3. CASE j = l + 1 /\ i = l + 1
    BY <1>3, <1>13, <2>3
  <2> QED BY <1>2, <2>1, <2>2, <2>3
<1>17. ASSUME NEW d \in DOMAIN program, NEW n \in Names(program, d),
              IsPrefix(ScopeOf(program, d), p), Seen(program, d, p)
       PROVE  \E i \in 1..Len(V) : u[i] = d /\ V[i].name = n
  <2>1. CASE d = p
    <3>1. l + 1 \in 1..Len(V)
      BY <1>2
    <3> QED BY <1>2, <1>3, <1>4, <1>14, <2>1, <3>1
  <2>2. CASE d # p
    <3>1. PICK i \in 1..l : w[i] = d /\ bindings[i].name = n
      BY <1>8, <1>17, <2>2
    <3>2. i \in 1..Len(V)
      BY <1>2
    <3> QED BY <1>2, <1>3, <3>1, <3>2
  <2> QED BY <2>1, <2>2
<1>18. ListsWhatIsSeen(V, hs, u, p)
  BY <1>2, <1>15, <1>16, <1>17 DEF ListsWhatIsSeen
<1> QED BY <1>18 DEF V, hs, u, p, b

-----------------------------------------------------------------------------
(***************************************************************************)
(* The open scopes at os are those whose first bindings scopes holds.      *)
(***************************************************************************)
ScopesFit(w, os) ==
  /\ IsSomeSequence(scopes) /\ os \in Seq(DOMAIN program) /\ Len(os) = Len(scopes)
  /\ \A a : IsOpen(program, calls, a) <=> \E k \in 1..Len(os) : os[k] = a
  /\ \A j, k \in 1..Len(os) : j < k => Len(os[j]) < Len(os[k])
  /\ \A k \in 1..Len(os) :
       /\ scopes[k] \in 0..Len(bindings)
       /\ \A i \in 1..Len(bindings) :
            i > scopes[k] <=> ScopeDepth(program, w[i]) >= Len(os[k])

LEMMA DepthsAreNatural ==
  ASSUME NEW tree, WellFormed(tree), NEW d \in DOMAIN tree
  PROVE  /\ ScopeDepth(tree, d) \in Nat /\ Len(d) \in Nat
         /\ ScopeDepth(tree, d) = Len(ScopeOf(tree, d))
<1>1. ScopeOf(tree, d) \in Seq(Nat) /\ ScopeDepth(tree, d) = Len(ScopeOf(tree, d))
  BY ScopeIsInnermost
<1>2. d \in Seq(Nat)
  BY DEF WellFormed
<1> QED BY <1>1, <1>2

\* A new binding, for a declaration in the innermost open scope.
LEMMA DefinedFits ==
  ASSUME WellFormed(program), NEW p \in DOMAIN program, NEW object,
         <<p, object.name>> \notin DOMAIN homes,
         NEW w, NEW os, BindingsFit(w), ScopesFit(w, os),
         IsOpen(program, calls, ScopeOf(program, p)),
         \A a : IsOpen(program, calls, a) => Len(a) <= ScopeDepth(program, p),
         DefineBinding(p, object), SameOpen, program' = program
  PROVE  BindingsFit(Append(w, p))' /\ ScopesFit(Append(w, p), os)'
<1> DEFINE b == Binding(object)
           u == Append(w, p)
           x == <<p, object.name>>
           l == Len(bindings)
           depth(d) == ScopeDepth(program, d)
<1>1. /\ l \in Nat /\ Len(bindings') = l + 1 /\ bindings'[l + 1] = b
      /\ \A i \in 1..l : bindings'[i] = bindings[i]
      /\ IsSomeSequence(bindings')
  BY AppendedAt DEF BindingsFit, DefineBinding
<1>2. /\ Len(w) = l /\ u \in Seq(DOMAIN program) /\ Len(u) = l + 1 /\ u[l + 1] = p
      /\ \A i \in 1..l : u[i] = w[i] /\ w[i] \in DOMAIN program
  BY AppendProperties DEF BindingsFit
<1>3. /\ x[1] = p /\ x[2] = object.name /\ b.name = object.name
      /\ DOMAIN homes' = DOMAIN homes \cup {x} /\ homes'[x] = b
      /\ \A y \in DOMAIN homes : homes'[y] = homes[y]
  BY DEF DefineBinding, WithHome, Binding
<1>4. ASSUME NEW a PROVE IsOpen(program, calls', a) <=> IsOpen(program, calls, a)
  BY DEF SameOpen
<1>5. /\ depth(p) \in Nat
      /\ \A i \in 1..l : depth(w[i]) = Len(ScopeOf(program, w[i])) /\ depth(w[i]) \in Nat
  BY <1>2, ScopeIsInnermost
<1>6. \A i \in 1..l : IsOpen(program, calls, ScopeOf(program, w[i]))
  BY DEF BindingsFit
<1>7. \A i \in 1..l : depth(w[i]) <= depth(p)
  BY <1>5, <1>6
<1>8. scopes' = scopes
  BY DEF DefineBinding
<1>9. 1..Len(bindings') = 1..l \cup {l + 1} /\ l + 1 \notin 1..l
  BY <1>1
<1>10. \A i \in 1..l :
         /\ <<w[i], bindings[i].name>> \in DOMAIN homes
         /\ bindings[i] = homes[<<w[i], bindings[i].name>>]
  BY DEF BindingsFit
<1>11. \A i, j \in 1..l : i <= j => depth(w[i]) <= depth(w[j])
  BY DEF BindingsFit
<1>12. \A y \in DOMAIN homes : IsOpen(program, calls, ScopeOf(program, y[1])) =>
         \E i \in 1..l : w[i] = y[1] /\ bindings[i].name = y[2]
  BY DEF BindingsFit
<1>13. \A k \in 1..Len(os) :
         /\ scopes[k] \in 0..l /\ IsOpen(program, calls, os[k])
         /\ \A i \in 1..l : i > scopes[k] <=> depth(w[i]) >= Len(os[k])
  BY DEF ScopesFit
<1>17. <<p, b.name>> = x
  BY <1>3 DEF x
<1> HIDE DEF b, u, x, l, depth
<1>14. ASSUME NEW i \in 1..Len(bindings')
       PROVE  /\ <<u[i], bindings'[i].name>> \in DOMAIN homes'
              /\ bindings'[i] = homes'[<<u[i], bindings'[i].name>>]
              /\ IsOpen(program, calls', ScopeOf(program, u[i]))
  <2>1. CASE i \in 1..l
    BY <1>1, <1>2, <1>3, <1>4, <1>6, <1>10, <2>1
  <2>2. CASE i = l + 1
    BY <1>1, <1>2, <1>3, <1>4, <1>17, <2>2
  <2> QED BY <1>9, <2>1, <2>2
<1>15. ASSUME NEW i \in 1..Len(bindings'), NEW j \in 1..Len(bindings'), i <= j
       PROVE  depth(u[i]) <= depth(u[j])
  <2>1. CASE j \in 1..l
    <3>1. i \in 1..l
      BY <1>1, <1>15, <2>1
    <3> QED BY <1>2, <1>11, <1>15, <2>1, <3>1
  <2>2. CASE j = l + 1 /\ i \in 1..l
    BY <1>2, <1>7, <2>2
  <2>3. CASE j = l + 1 /\ i = l + 1
    BY <1>2, <1>5, <2>3
  <2> QED BY <1>9, <2>1, <2>2, <2>3
<1>16. ASSUME NEW y \in DOMAIN homes', IsOpen(program, calls', ScopeOf(program, y[1]))
       PROVE  \E i \in 1..Len(bindings') : u[i] = y[1] /\ bindings'[i].name = y[2]
  <2>1. CASE y = x
    BY <1>1, <1>2, <1>3, <1>9, <2>1
  <2>2. CASE y \in DOMAIN homes
    <3>1. PICK i \in 1..l : w[i] = y[1] /\ bindings[i].name = y[2]
      BY <1>4, <1>12, <1>16, <2>2
    <3> QED BY <1>1, <1>2, <1>9, <3>1
  <2> QED BY <1>3, <2>1, <2>2
<1>18. BindingsFit(u)'
  BY <1>1, <1>2, <1>14, <1>15, <1>16 DEF BindingsFit, depth
<1>19. ASSUME NEW k \in 1..Len(os)
       PROVE  /\ scopes[k] \in 0..Len(bindings')
              /\ \A i \in 1..Len(bindings') : i > scopes[k] <=> depth(u[i]) >= Len(os[k])
  <2>1. scopes[k] \in 0..l + 1 /\ l + 1 > scopes[k]
    BY <1>1, <1>13
  <2>2. Len(os[k]) <= depth(p)
    BY <1>13 DEF depth
  <2>3. Len(os[k]) \in Nat
    <3>1. os[k] \in DOMAIN program
      BY DEF ScopesFit
    <3>2. os[k] \in Seq(Nat)
      BY <3>1 DEF WellFormed
    <3> QED BY <3>2
  <2>4. ASSUME NEW i \in 1..Len(bindings')
        PROVE  i > scopes[k] <=> depth(u[i]) >= Len(os[k])
    <3>1. CASE i \in 1..l
      BY <1>2, <1>13, <3>1
    <3>2. CASE i = l + 1
      BY <1>2, <1>5, <2>1, <2>2, <2>3, <3>2
    <3> QED BY <1>9, <3>1, <3>2
  <2> QED BY <1>1, <2>1, <2>4
<1>20. /\ IsSomeSequence(scopes) /\ os \in Seq(DOMAIN program) /\ Len(os) = Len(scopes)
       /\ \A a : IsOpen(program, calls', a) <=> \E k \in 1..Len(os) : os[k] = a
       /\ \A j, k \in 1..Len(os) : j < k => Len(os[j]) < Len(os[k])
  BY <1>4 DEF ScopesFit
<1>21. ScopesFit(u, os)'
  BY <1>8, <1>19, <1>20 DEF ScopesFit, depth
<1> QED BY <1>18, <1>21 DEF u

\* A scope opens inside of the others.
LEMMA OpenedFits ==
  ASSUME WellFormed(program), NEW p \in DOMAIN program,
         NEW w, NEW os, BindingsFit(w), ScopesFit(w, os),
         \A a : IsOpen(program, calls, a) => Len(a) < Len(p),
         \A x \in DOMAIN homes : ScopeOf(program, x[1]) # p,
         PushScope, OpenedAt(p), program' = program
  PROVE  BindingsFit(w)' /\ ScopesFit(w, Append(os, p))'
<1> DEFINE t == Append(os, p)
           n == Len(os)
           l == Len(bindings)
           depth(d) == ScopeDepth(program, d)
<1>1. l \in Nat /\ UNCHANGED <<bindings, homes>> /\ scopes' = Append(scopes, l)
  BY AppendedAt DEF BindingsFit, PushScope
<1>2. /\ n \in Nat /\ t \in Seq(DOMAIN program) /\ Len(t) = n + 1 /\ t[n + 1] = p
      /\ \A k \in 1..n : t[k] = os[k] /\ os[k] \in DOMAIN program
  BY AppendProperties DEF ScopesFit
<1>3. /\ Len(scopes') = n + 1 /\ scopes'[n + 1] = l /\ IsSomeSequence(scopes')
      /\ \A k \in 1..n : scopes'[k] = scopes[k]
  BY <1>1, AppendedAt DEF ScopesFit
<1>4. \A a : IsOpen(program, calls', a) <=> IsOpen(program, calls, a) \/ a = p
  BY DEF OpenedAt
<1>5. BindingsFit(w)'
  <2>1. \A i \in 1..l : IsOpen(program, calls', ScopeOf(program, w[i]))
    BY <1>4 DEF BindingsFit
  <2>2. \A x \in DOMAIN homes : IsOpen(program, calls', ScopeOf(program, x[1])) =>
          \E i \in 1..l : w[i] = x[1] /\ bindings[i].name = x[2]
    BY <1>4 DEF BindingsFit
  <2>3. /\ IsSomeSequence(bindings) /\ w \in Seq(DOMAIN program) /\ Len(w) = l
        /\ \A i \in 1..l :
             /\ <<w[i], bindings[i].name>> \in DOMAIN homes
             /\ bindings[i] = homes[<<w[i], bindings[i].name>>]
        /\ \A i, j \in 1..l : i <= j => depth(w[i]) <= depth(w[j])
    BY DEF BindingsFit
  <2> QED BY <1>1, <2>1, <2>2, <2>3 DEF BindingsFit
<1>6. \A k \in 1..n :
         /\ scopes[k] \in 0..l /\ IsOpen(program, calls, os[k]) /\ Len(os[k]) < Len(p)
         /\ \A i \in 1..l : i > scopes[k] <=> depth(w[i]) >= Len(os[k])
  BY DEF ScopesFit
<1>7. \A i \in 1..l : depth(w[i]) < Len(p)
  <2> SUFFICES ASSUME NEW i \in 1..l PROVE depth(w[i]) < Len(p)
    OBVIOUS
  <2>1. w[i] \in DOMAIN program /\ IsOpen(program, calls, ScopeOf(program, w[i]))
    <3>1. /\ w \in Seq(DOMAIN program) /\ Len(w) = l
          /\ \A j \in 1..l : IsOpen(program, calls, ScopeOf(program, w[j]))
      BY DEF BindingsFit
    <3> HIDE DEF l
    <3> QED BY <3>1
  <2>2. Len(ScopeOf(program, w[i])) < Len(p)
    BY <2>1
  <2>3. depth(w[i]) = Len(ScopeOf(program, w[i]))
    BY <2>1, DepthsAreNatural
  <2> QED BY <2>2, <2>3
<1>8. \A d \in DOMAIN program : depth(d) \in Nat /\ Len(d) \in Nat
  BY DepthsAreNatural
<1>9. \A a : IsOpen(program, calls, a) <=> \E k \in 1..n : os[k] = a
  BY DEF ScopesFit
<1>10. \A j, k \in 1..n : j < k => Len(os[j]) < Len(os[k])
  BY DEF ScopesFit
<1>11. \A i \in 1..l : w[i] \in DOMAIN program
  BY DEF BindingsFit
<1> HIDE DEF t, n, l, depth
<1>12. 1..Len(t) = 1..n \cup {n + 1}
  BY <1>2
<1>13. \A a : IsOpen(program, calls', a) <=> \E k \in 1..Len(t) : t[k] = a
  BY <1>2, <1>4, <1>9, <1>12
<1>14. ASSUME NEW j \in 1..Len(t), NEW k \in 1..Len(t), j < k PROVE Len(t[j]) < Len(t[k])
  <2>1. CASE k \in 1..n
    <3>1. j \in 1..n
      BY <1>2, <1>14, <2>1
    <3> QED BY <1>2, <1>10, <1>14, <2>1, <3>1
  <2>2. CASE k = n + 1
    <3>1. j \in 1..n
      BY <1>2, <1>14, <2>2
    <3> QED BY <1>2, <1>6, <2>2, <3>1
  <2> QED BY <1>12, <2>1, <2>2
<1>15. ASSUME NEW k \in 1..Len(t)
       PROVE  /\ scopes'[k] \in 0..l
              /\ \A i \in 1..l : i > scopes'[k] <=> depth(w[i]) >= Len(t[k])
  <2>1. CASE k \in 1..n
    BY <1>2, <1>3, <1>6, <2>1
  <2>2. CASE k = n + 1
    <3>1. \A i \in 1..l : ~(i > l) /\ ~(depth(w[i]) >= Len(p))
      BY <1>1, <1>7, <1>8, <1>11
    <3> QED BY <1>1, <1>2, <1>3, <2>2, <3>1
  <2> QED BY <1>12, <2>1, <2>2
<1>16. ScopesFit(w, t)'
  BY <1>1, <1>2, <1>3, <1>13, <1>14, <1>15 DEF ScopesFit, l, depth
<1> QED BY <1>5, <1>16 DEF t

\* The innermost scope closes, with its bindings.
LEMMA ClosedFits ==
  ASSUME WellFormed(program), NEW p \in DOMAIN program, p # << >>,
         NEW w, NEW os, BindingsFit(w), ScopesFit(w, os),
         IsOpen(program, calls, p),
         \A a : IsOpen(program, calls, a) => Len(a) <= Len(p),
         PopScope, ClosedAt(p), program' = program
  PROVE  \E u, t : BindingsFit(u)' /\ ScopesFit(u, t)'
<1> DEFINE n == Len(os)
           l == Len(bindings)
           depth(d) == ScopeDepth(program, d)
<1>20. PICK m : m = Last(scopes)
  OBVIOUS
<1>21. PICK t : t = SubSeq(os, 1, n - 1)
  OBVIOUS
<1>22. PICK u : u = SubSeq(w, 1, m)
  OBVIOUS
<1>1. n \in Nat /\ l \in Nat /\ Len(scopes) = n /\ Len(w) = l
  BY AppendedAt DEF BindingsFit, ScopesFit
<1>2. \A a : IsOpen(program, calls', a) <=> IsOpen(program, calls, a) /\ a # p
  <2>1. ASSUME NEW a, a = << >> PROVE IsOpen(program, calls, a) /\ a # p
    BY <2>1 DEF IsOpen
  <2> QED BY <2>1 DEF ClosedAt
<1>3. \A d \in DOMAIN program : depth(d) \in Nat /\ Len(d) \in Nat
  BY DepthsAreNatural
<1>4. /\ \A a : IsOpen(program, calls, a) <=> \E k \in 1..n : os[k] = a
      /\ \A j, k \in 1..n : j < k => Len(os[j]) < Len(os[k])
      /\ \A k \in 1..n : os[k] \in DOMAIN program
  BY DEF ScopesFit
<1>5. /\ \A i \in 1..l :
           /\ w[i] \in DOMAIN program /\ <<w[i], bindings[i].name>> \in DOMAIN homes
           /\ bindings[i] = homes[<<w[i], bindings[i].name>>]
           /\ IsOpen(program, calls, ScopeOf(program, w[i]))
           /\ depth(w[i]) = Len(ScopeOf(program, w[i]))
      /\ \A i, j \in 1..l : i <= j => depth(w[i]) <= depth(w[j])
      /\ \A x \in DOMAIN homes : IsOpen(program, calls, ScopeOf(program, x[1])) =>
           \E i \in 1..l : w[i] = x[1] /\ bindings[i].name = x[2]
  <2>1. \A i \in 1..l : w[i] \in DOMAIN program
    BY DEF BindingsFit
  <2>2. \A i \in 1..l : depth(w[i]) = Len(ScopeOf(program, w[i]))
    BY <2>1, ScopeIsInnermost
  <2> QED BY <2>1, <2>2 DEF BindingsFit
<1>23. \A i \in 1..l : w[i] \in DOMAIN program
  BY <1>5
<1>24. \A i \in 1..l : depth(w[i]) = Len(ScopeOf(program, w[i]))
  BY <1>5
<1>6. \A k \in 1..n : /\ scopes[k] \in 0..l
                      /\ \A i \in 1..l : i > scopes[k] <=> depth(w[i]) >= Len(os[k])
  BY DEF ScopesFit
<1> HIDE DEF depth
<1>7. n \in 1..n /\ os[n] = p
  <2>1. PICK k \in 1..n : os[k] = p
    BY <1>4
  <2>2. n \in 1..n
    BY <1>1, <2>1
  <2>3. IsOpen(program, calls, os[n])
    BY <1>4, <2>2
  <2>4. Len(os[n]) <= Len(p) /\ Len(os[n]) \in Nat /\ Len(p) \in Nat
    BY <1>3, <1>4, <2>2, <2>3
  <2>5. ~(k < n)
    BY <1>4, <2>1, <2>2, <2>4
  <2> QED BY <1>1, <2>1, <2>2, <2>5
<1>8. /\ m \in 0..l /\ \A i \in 1..l : i > m <=> depth(w[i]) >= Len(p)
  <2>1. m = scopes[n]
    BY <1>1, <1>20 DEF Last
  <2> QED BY <1>6, <1>7, <2>1
<1>9. /\ scopes' = SubSeq(scopes, 1, n - 1) /\ bindings' = SubSeq(bindings, 1, m)
      /\ UNCHANGED homes
  BY <1>1, <1>20 DEF PopScope, Front
<1>10. /\ t \in Seq(DOMAIN program) /\ Len(t) = n - 1 /\ \A k \in 1..n - 1 : t[k] = os[k]
       /\ IsSomeSequence(scopes') /\ Len(scopes') = n - 1
       /\ \A k \in 1..n - 1 : scopes'[k] = scopes[k]
  <2>1. PICK S : scopes \in Seq(S)
    BY DEF ScopesFit, IsSomeSequence
  <2>2. /\ SubSeq(scopes, 1, n - 1) \in Seq(S) /\ Len(SubSeq(scopes, 1, n - 1)) = n - 1
        /\ \A k \in 1..n - 1 : SubSeq(scopes, 1, n - 1)[k] = scopes[k]
    <3>1. \A k \in 1..n - 1 : scopes[k] \in S
      BY <1>1, <1>7, <2>1
    <3> QED BY <1>1, <1>7, <3>1, SubSeqProperties
  <2>3. t \in Seq(DOMAIN program) /\ Len(t) = n - 1 /\ \A k \in 1..n - 1 : t[k] = os[k]
    <3>1. \A k \in 1..n - 1 : os[k] \in DOMAIN program
      BY <1>1, <1>4
    <3> QED BY <1>1, <1>7, <1>21, <3>1, SubSeqProperties
  <2> QED BY <1>9, <2>2, <2>3 DEF IsSomeSequence
<1>11. /\ u \in Seq(DOMAIN program) /\ Len(u) = m /\ \A i \in 1..m : u[i] = w[i]
       /\ IsSomeSequence(bindings') /\ Len(bindings') = m
       /\ \A i \in 1..m : bindings'[i] = bindings[i]
  <2>1. PICK S : bindings \in Seq(S)
    BY DEF BindingsFit, IsSomeSequence
  <2>2. /\ SubSeq(bindings, 1, m) \in Seq(S) /\ Len(SubSeq(bindings, 1, m)) = m
        /\ \A i \in 1..m : SubSeq(bindings, 1, m)[i] = bindings[i]
    <3>1. \A i \in 1..m : bindings[i] \in S
      BY <1>1, <1>8, <2>1
    <3> QED BY <1>1, <1>8, <3>1, SubSeqProperties
  <2>3. u \in Seq(DOMAIN program) /\ Len(u) = m /\ \A i \in 1..m : u[i] = w[i]
    <3>1. \A i \in 1..m : w[i] \in DOMAIN program
      <4>1. \A i \in 1..m : i \in 1..l
        BY <1>1, <1>8
      <4> QED BY <1>23, <4>1
    <3> QED BY <1>1, <1>8, <1>22, <3>1, SubSeqProperties
  <2> QED BY <1>9, <2>2, <2>3 DEF IsSomeSequence
<1> HIDE DEF n, l
<1>12. \A i \in 1..m : i \in 1..l /\ ~(i > m)
  BY <1>1, <1>8
<1>18. \A i \in 1..l : depth(w[i]) \in Nat
  BY <1>3, <1>23
<1>19. Len(p) \in Nat /\ \A k \in 1..n : Len(os[k]) \in Nat
  BY <1>3, <1>4
<1>13. \A k \in 1..n - 1 : k \in 1..n /\ k < n
  BY <1>1
<1>14. ASSUME NEW i \in 1..m PROVE IsOpen(program, calls', ScopeOf(program, w[i]))
  <2>1. depth(w[i]) < Len(p)
    BY <1>8, <1>12, <1>18, <1>19
  <2>2. ScopeOf(program, w[i]) # p
    <3>1. depth(w[i]) = Len(ScopeOf(program, w[i])) /\ depth(w[i]) \in Nat
      BY <1>12, <1>18, <1>24
    <3> QED BY <1>19, <2>1, <3>1
  <2> QED BY <1>2, <1>5, <1>12, <2>2
<1>15. ASSUME NEW x \in DOMAIN homes, IsOpen(program, calls', ScopeOf(program, x[1]))
       PROVE  \E i \in 1..m : w[i] = x[1] /\ bindings[i].name = x[2]
  <2>1. IsOpen(program, calls, ScopeOf(program, x[1])) /\ ScopeOf(program, x[1]) # p
    BY <1>2, <1>15
  <2>2. PICK i \in 1..l : w[i] = x[1] /\ bindings[i].name = x[2]
    BY <1>5, <2>1
  <2>3. PICK k \in 1..n : os[k] = ScopeOf(program, x[1])
    BY <1>4, <2>1
  <2>4. k < n
    BY <1>1, <1>7, <2>1, <2>3
  <2>5. Len(os[k]) < Len(p)
    BY <1>4, <1>7, <2>4
  <2>6. depth(w[i]) < Len(p)
    BY <1>24, <2>2, <2>3, <2>5
  <2>7. i \in 1..m
    <3>1. ~(i > m)
      BY <1>8, <1>18, <1>19, <2>6
    <3> QED BY <1>1, <1>8, <3>1
  <2> QED BY <2>2, <2>7
<1>16. BindingsFit(u)'
  <2>1. \A i \in 1..m :
          /\ <<u[i], bindings'[i].name>> \in DOMAIN homes
          /\ bindings'[i] = homes[<<u[i], bindings'[i].name>>]
          /\ IsOpen(program, calls', ScopeOf(program, u[i]))
    BY <1>5, <1>11, <1>12, <1>14
  <2>2. \A i, j \in 1..m : i <= j => depth(u[i]) <= depth(u[j])
    BY <1>5, <1>11, <1>12
  <2>3. \A x \in DOMAIN homes : IsOpen(program, calls', ScopeOf(program, x[1])) =>
          \E i \in 1..m : u[i] = x[1] /\ bindings'[i].name = x[2]
    BY <1>11, <1>15
  <2> QED BY <1>9, <1>11, <2>1, <2>2, <2>3 DEF BindingsFit, depth
<1>17. ScopesFit(u, t)'
  <2>1. ASSUME NEW a PROVE IsOpen(program, calls', a) <=> \E k \in 1..n - 1 : t[k] = a
    <3>1. ASSUME NEW k \in 1..n, os[k] = a, a # p PROVE k \in 1..n - 1 /\ t[k] = a
      BY <1>1, <1>7, <1>10, <3>1
    <3>2. ASSUME NEW k \in 1..n - 1, t[k] = a PROVE os[k] = a /\ a # p /\ k \in 1..n
      <4>1. k \in 1..n /\ k < n /\ os[k] = a
        BY <1>10, <1>13, <3>2
      <4>2. Len(os[k]) < Len(p)
        BY <1>4, <1>7, <4>1
      <4> QED BY <1>19, <4>1, <4>2
    <3> QED BY <1>2, <1>4, <3>1, <3>2
  <2>2. \A j, k \in 1..n - 1 : j < k => Len(t[j]) < Len(t[k])
    BY <1>4, <1>10, <1>13
  <2>3. ASSUME NEW k \in 1..n - 1
        PROVE  /\ scopes'[k] \in 0..m
               /\ \A i \in 1..m : i > scopes'[k] <=> depth(u[i]) >= Len(t[k])
    <3>1. scopes[k] <= m
      <4>1. CASE scopes[k] = 0
        BY <1>8, <4>1
      <4>2. CASE scopes[k] # 0
        <5>1. scopes[k] \in 1..l
          BY <1>1, <1>6, <1>13, <4>2
        <5>2. depth(w[scopes[k]]) < Len(os[k])
          <6>1. k \in 1..n /\ scopes[k] \in Nat /\ ~(scopes[k] > scopes[k])
            BY <1>13, <5>1
          <6>2. ~(depth(w[scopes[k]]) >= Len(os[k]))
            BY <1>6, <5>1, <6>1
          <6> QED BY <1>18, <1>19, <5>1, <6>1, <6>2
        <5>3. Len(os[k]) < Len(p)
          BY <1>4, <1>7, <1>13
        <5>4. ~(depth(w[scopes[k]]) >= Len(p))
          BY <1>13, <1>18, <1>19, <5>1, <5>2, <5>3
        <5> QED BY <1>1, <1>8, <5>1, <5>4
      <4> QED BY <4>1, <4>2
    <3>2. scopes[k] \in 0..l /\ scopes'[k] = scopes[k] /\ t[k] = os[k]
      BY <1>6, <1>10, <1>13
    <3>3. \A i \in 1..m : i > scopes[k] <=> depth(w[i]) >= Len(os[k])
      BY <1>6, <1>12, <1>13
    <3> QED BY <1>1, <1>8, <1>11, <3>1, <3>2, <3>3
  <2> QED BY <1>9, <1>10, <1>11, <2>1, <2>2, <2>3 DEF ScopesFit, depth
<1> QED BY <1>16, <1>17

-----------------------------------------------------------------------------
(***************************************************************************)
(* The invariant of the names, kept by every step of the frame.            *)
(***************************************************************************)
NestedNames == \E w, os : BindingsFit(w) /\ ScopesFit(w, os)

OperandsInv ==
  \A use \in DOMAIN operands :
    /\ Meaning(program, use[1], use[2]) = {} => operands[use] = AtName(use[2])
    /\ \A d \in Meaning(program, use[1], use[2]) :
         /\ <<d, use[2]>> \in DOMAIN homes
         /\ operands[use] = AtOffset(homes[<<d, use[2]>>].offset)

StageInv ==
  /\ stage \in {"counting", "homes", "body"}
  /\ stage # "body" => calls = <<Entry(<< >>)>>
  /\ stage = "counting" => homes = << >> /\ bindings = << >>
  /\ stage = "homes" =>
       /\ Len(bindings) <= Len(Parameters)
       /\ DOMAIN homes = {<<<< >>, Parameters[i].name>> : i \in 1..Len(bindings)}
  /\ stage = "body" => ParametersHaveHomes

OrderInv ==
  /\ InOrder(program, calls) /\ EmittedHaveHomes /\ StageInv
  /\ stage # "counting" => NestedNames

NamesInv ==
  /\ WalkInv /\ DeclarationsAccepted(program) /\ PlainBody(program)
  /\ OperandsInv
  /\ outcome = "emitting" => OrderInv

LEMMA IntroducesWhatItDeclares ==
  ASSUME Ordered, PlainBody(program), EmitsExpression, Declares(program, Call.at)
  PROVE  Introduces
<1> DEFINE p == Call.at
           objects == program[p].declares
<1>1. p \in DOMAIN program /\ p # << >> /\ program \in Programs /\ Node = program[p]
  BY OrderedCall, EvaluatesNow DEF Ordered, InProgress, NestInv, CallsInv
<1>2. /\ objects \in Seq(ToSet(objects)) /\ objects # << >>
      /\ Node.kind = "expression" /\ Len(objects) = 1
  BY <1>1, DeclarationsAssumption DEF Declares
<1>3. 1 \in DOMAIN objects
  BY <1>2
<1>4. RequiresStorage(objects[1])
  BY <1>1, <1>3 DEF PlainBody
<1>5. At("expression", "enter")
  BY <1>2 DEF EmitsExpression, At
<1> QED BY <1>3, <1>4, <1>5 DEF Introduces, Declared

\* What an expression is looked up in has the declarations it sees.
LEMMA VisibleListsSeen ==
  ASSUME Ordered, PlainBody(program), EmittedHaveHomes, ParametersHaveHomes,
         NestedNames, EmitsExpression \/ Introduces
  PROVE  /\ Introduces =>
              \E u : ListsWhatIsSeen(VisibleTo, WithHome(Call.at, Declared(Call.at)[1]), u,
                                     Call.at)
         /\ ~Introduces =>
              \E u : ListsWhatIsSeen(VisibleTo, homes, u, Call.at)
<1>1. PICK w : BindingsFit(w)
  BY DEF NestedNames
<1>2. ASSUME Introduces
      PROVE  \E u : ListsWhatIsSeen(VisibleTo, WithHome(Call.at, Declared(Call.at)[1]), u,
                                    Call.at)
  <2> DEFINE object == Declared(Call.at)[1]
  <2>1. ListsWhatIsSeen(Append(bindings, Binding(object)), WithHome(Call.at, object),
                        Append(w, Call.at), Call.at)
    BY <1>1, <1>2, DeclarationListsSeen
  <2>2. VisibleTo = Append(bindings, Binding(object))
    BY <1>2 DEF VisibleTo
  <2> QED BY <2>1, <2>2
<1>3. ASSUME ~Introduces PROVE \E u : ListsWhatIsSeen(VisibleTo, homes, u, Call.at)
  <2>1. /\ Evaluates(program, Call) /\ Call.at # << >> /\ ~Declares(program, Call.at)
    BY <1>3, EvaluatesNow, IntroducesWhatItDeclares
  <2>2. ListsWhatIsSeen(bindings, homes, w, Call.at)
    BY <1>1, <2>1, BindingsListSeen
  <2>3. VisibleTo = bindings
    BY <1>3 DEF VisibleTo
  <2> QED BY <2>2, <2>3
<1> QED BY <1>2, <1>3

\* So every name is found that the semantic analysis has found.
LEMMA NamesAreResolved ==
  ASSUME NamesInv, stage = "body", NameUnresolved PROVE FALSE
<1>1. EmitsExpression /\ calls # << >> /\ outcome = "emitting"
  BY DEF NameUnresolved, EmitsExpression, At
<1>2. Ordered
  BY <1>1 DEF NamesInv, OrderInv, Ordered, WalkInv, InProgress
<1>3. /\ PlainBody(program) /\ EmittedHaveHomes /\ ParametersHaveHomes /\ NestedNames
      /\ DeclarationsAccepted(program)
  BY <1>1 DEF NamesInv, OrderInv, StageInv
<1>4. PICK hs, u : ListsWhatIsSeen(VisibleTo, hs, u, Call.at)
  BY <1>1, <1>2, <1>3, VisibleListsSeen
<1>5. PICK n \in Uses(Call.at) : ~Resolves(n, VisibleTo)
  BY DEF NameUnresolved
<1>6. WellFormed(program) /\ Call.at \in DOMAIN program
  BY <1>2, OrderedCall
<1>7. n \notin FileScope /\ Bound(n, VisibleTo) = {}
  BY <1>5 DEF Resolves
<1>8. Meaning(program, Call.at, n) # {}
  BY <1>3, <1>5, <1>6, <1>7 DEF DeclarationsAccepted, Uses
<1> QED BY <1>3, <1>4, <1>6, <1>7, <1>8, LookupFindsMeaning

LEMMA AddressedAreMeant ==
  ASSUME WellFormed(program), DeclarationsAccepted(program), NEW p \in DOMAIN program,
         NEW V, NEW hs, NEW u, NEW names, ListsWhatIsSeen(V, hs, u, p), OperandsInv,
         \A x \in DOMAIN homes : x \in DOMAIN hs /\ hs[x] = homes[x],
         homes' = hs, program' = program, operands' = Addressed(p, names, V)
  PROVE  OperandsInv'
<1>1. /\ DOMAIN operands' = ({p} \X names) \cup DOMAIN operands
      /\ \A use \in {p} \X names : operands'[use] = Operand(use[2], V)
      /\ \A use \in DOMAIN operands : use \notin {p} \X names => operands'[use] = operands[use]
  BY DEF Addressed
<1> SUFFICES ASSUME NEW use \in DOMAIN operands'
             PROVE  /\ Meaning(program, use[1], use[2]) = {} =>
                         operands'[use] = AtName(use[2])
                    /\ \A d \in Meaning(program, use[1], use[2]) :
                         /\ <<d, use[2]>> \in DOMAIN hs
                         /\ operands'[use] = AtOffset(hs[<<d, use[2]>>].offset)
  BY DEF OperandsInv
<1>2. CASE use \in {p} \X names
  <2>1. use[1] = p /\ operands'[use] = Operand(use[2], V)
    BY <1>1, <1>2
  <2>2. /\ Meaning(program, p, use[2]) = {} => Bound(use[2], V) = {}
        /\ \A d \in Meaning(program, p, use[2]) :
             /\ Bound(use[2], V) # {} /\ <<d, use[2]>> \in DOMAIN hs
             /\ LookupBinding(use[2], V) = hs[<<d, use[2]>>]
    BY LookupFindsMeaning
  <2> QED BY <2>1, <2>2 DEF Operand
<1>3. CASE use \notin {p} \X names
  <2>1. use \in DOMAIN operands /\ operands'[use] = operands[use]
    BY <1>1, <1>3
  <2> QED BY <2>1 DEF OperandsInv
<1> QED BY <1>2, <1>3

LEMMA AddOperandsAreMeant ==
  ASSUME Ordered, PlainBody(program), EmittedHaveHomes, ParametersHaveHomes,
         NestedNames, DeclarationsAccepted(program), OperandsInv, AddOperands,
         EmitsExpression => ~Introduces, UNCHANGED <<program, homes>>
  PROVE  OperandsInv'
<1>1. CASE ~EmitsExpression
  <2>1. operands' = operands
    BY <1>1 DEF AddOperands
  <2> QED BY <2>1 DEF OperandsInv
<1>2. CASE EmitsExpression
  <2>1. /\ ~Introduces /\ VisibleTo = bindings
        /\ operands' = Addressed(Call.at, Uses(Call.at), bindings)
    BY <1>2 DEF AddOperands, VisibleTo
  <2>2. PICK u : ListsWhatIsSeen(bindings, homes, u, Call.at)
    BY <1>2, <2>1, VisibleListsSeen
  <2>3. WellFormed(program) /\ Call.at \in DOMAIN program
    BY OrderedCall
  <2> QED BY <2>1, <2>2, <2>3, AddressedAreMeant
<1> QED BY <1>1, <1>2

-----------------------------------------------------------------------------
(***************************************************************************)
(* What a step keeps of the names, whatever else it does.                  *)
(***************************************************************************)
LEMMA OperandsKept ==
  ASSUME OperandsInv, operands' = operands, program' = program,
         \A x \in DOMAIN homes : x \in DOMAIN homes' /\ homes'[x] = homes[x]
  PROVE  OperandsInv'
BY DEF OperandsInv

LEMMA StayKeepsNames ==
  ASSUME NestedNames, SameOpen, UNCHANGED <<program, bindings, scopes, homes>>
  PROVE  NestedNames'
<1>1. PICK w, os : BindingsFit(w) /\ ScopesFit(w, os)
  BY DEF NestedNames
<1>2. \A a : IsOpen(program, calls', a) <=> IsOpen(program, calls, a)
  BY DEF SameOpen
<1>3. BindingsFit(w)'
  <2>1. \A i \in 1..Len(bindings) : IsOpen(program, calls', ScopeOf(program, w[i]))
    BY <1>1, <1>2 DEF BindingsFit
  <2>2. \A x \in DOMAIN homes : IsOpen(program, calls', ScopeOf(program, x[1])) =>
          \E i \in 1..Len(bindings) : w[i] = x[1] /\ bindings[i].name = x[2]
    BY <1>1, <1>2 DEF BindingsFit
  <2> QED BY <1>1, <2>1, <2>2 DEF BindingsFit
<1>4. ScopesFit(w, os)'
  <2>1. \A a : IsOpen(program, calls', a) <=> \E k \in 1..Len(os) : os[k] = a
    BY <1>1, <1>2 DEF ScopesFit
  <2> QED BY <1>1, <2>1 DEF ScopesFit
<1> QED BY <1>3, <1>4 DEF NestedNames

LEMMA PendingKeepsHomes ==
  ASSUME EmittedHaveHomes, SamePending, UNCHANGED <<program, homes>>
  PROVE  EmittedHaveHomes'
BY DEF EmittedHaveHomes, SamePending

LEMMA EmittedKeepsHomes ==
  ASSUME EmittedHaveHomes, NEW p, EmittedAt(p), Names(program, p) = {},
         UNCHANGED <<program, homes>>
  PROVE  EmittedHaveHomes'
<1>1. \A d \in DOMAIN program : \A n \in Names(program, d) : d # p
  OBVIOUS
<1> QED BY <1>1 DEF EmittedHaveHomes, EmittedAt

\* With the home of its object nothing of p is missing any more.
LEMMA DefinedHasHome ==
  ASSUME EmittedHaveHomes, NEW p \in DOMAIN program, NEW object,
         object.name \in Names(program, p), DefineBinding(p, object), program' = program,
         \/ p = << >> /\ SamePending /\ ~IsPending(program, calls, p)
         \/ EmittedAt(p) /\ \A n \in Names(program, p) : n = object.name
  PROVE  EmittedHaveHomes'
<1> DEFINE x == <<p, object.name>>
<1>1. DOMAIN homes' = DOMAIN homes \cup {x}
  BY DEF DefineBinding, WithHome
<1>2. x[1] = p /\ x[2] = object.name /\ x = <<x[1], x[2]>>
  OBVIOUS
<1> HIDE DEF x
<1>3. ~IsPending(program, calls', p)
  BY DEF SamePending, EmittedAt
<1>4. \A d \in DOMAIN program :
        IsPending(program, calls', d) => IsPending(program, calls, d)
  BY DEF SamePending, EmittedAt
<1>5. ASSUME NEW y \in DOMAIN homes'
      PROVE  /\ y = <<y[1], y[2]>> /\ y[1] \in DOMAIN program
             /\ y[2] \in Names(program, y[1]) /\ ~IsPending(program, calls', y[1])
  <2>1. CASE y = x
    BY <1>2, <1>3, <2>1
  <2>2. CASE y \in DOMAIN homes
    BY <1>4, <2>2 DEF EmittedHaveHomes
  <2> QED BY <1>1, <2>1, <2>2
<1>6. ASSUME NEW d \in DOMAIN program, d # << >>, ~IsPending(program, calls', d),
             NEW n \in Names(program, d)
      PROVE  <<d, n>> \in DOMAIN homes'
  <2>1. CASE d = p
    <3>1. n = object.name
      BY <1>6, <2>1
    <3> QED BY <1>1, <2>1, <3>1 DEF x
  <2>2. CASE d # p
    <3>1. ~IsPending(program, calls, d)
      BY <1>6, <2>2 DEF SamePending, EmittedAt
    <3> QED BY <1>1, <1>6, <3>1 DEF EmittedHaveHomes
  <2> QED BY <2>1, <2>2
<1> QED BY <1>5, <1>6 DEF EmittedHaveHomes

LEMMA NamesNothingElse ==
  ASSUME Ordered, PlainBody(program), At("expression", "enter"), ~Introduces
  PROVE  Names(program, Call.at) = {}
<1> SUFFICES ASSUME NEW n \in Names(program, Call.at) PROVE FALSE
  OBVIOUS
<1>1. /\ Call.at \in DOMAIN program /\ program \in Programs /\ Node = program[Call.at]
      /\ Call.at # << >>
  <2>1. Node.kind = "expression"
    BY DEF At
  <2> QED BY <2>1, OrderedCall, KidsByKind DEF Ordered, InProgress, NestInv, CallsInv
<1>2. 1 \in DOMAIN Declared(Call.at)
  BY <1>1, DeclaringStatement
<1>3. RequiresStorage(Declared(Call.at)[1])
  BY <1>1, <1>2 DEF PlainBody, Declared
<1> QED BY <1>2, <1>3 DEF Introduces

\* The steps that neither open nor close a scope nor declare anything.
LEMMA StaysInOrder ==
  ASSUME Ordered, PlainBody(program), outcome' = "emitting", StayInScope
  PROVE  /\ InOrderNext /\ SameOpen
         /\ SamePending \/ (EmittedAt(Call.at) /\ Names(program, Call.at) = {})
<1>1. CASE EmitExpression /\ ~Introduces
  <2>1. At("expression", "enter")
    BY <1>1 DEF EmitExpression
  <2>2. Names(program, Call.at) = {}
    BY <1>1, <2>1, NamesNothingElse
  <2> QED BY <1>1, <2>2, LeavesInOrder
<1>2. CASE EmitReturn \/ EmitBreak \/ EmitContinue \/ EmitGoto
  <2>1. ~EmitExpression
    BY <1>2 DEF EmitExpression, EmitReturn, EmitBreak, EmitContinue, EmitGoto, At
  <2> QED BY <1>2, <2>1, LeavesInOrder
<1>3. CASE EmitLabel \/ EmitCase
  BY <1>3, LabelsInOrder
<1>4. CASE EnterCompound /\ IsBody
  <2>1. InOrderNext /\ SamePending /\ OpenedAt(<< >>)
    BY <1>4, ScopesOpenInOrder DEF IsBody
  <2> QED BY <2>1 DEF OpenedAt, SameOpen, IsOpen
<1>5. CASE LeaveCompound /\ IsBody
  <2>1. InOrderNext /\ SamePending /\ ClosedAt(<< >>)
    BY <1>5, EndsInOrder DEF IsBody
  <2> QED BY <2>1 DEF ClosedAt, SameOpen
<1>6. CASE \/ EmitItem \/ EnterIf \/ (AfterThen /\ Node.kids = 2)
           \/ EnterWhile \/ EnterDo \/ ForTest \/ EnterSwitch
  BY <1>6, StatementsBeginInOrder
<1>7. CASE \/ (AfterThen /\ Node.kids # 2)
           \/ AfterElse \/ AfterWhileBody \/ AfterDoBody \/ AfterSwitchBody
  <2>1. ~(LeaveCompound \/ AfterForBody)
    BY <1>7 DEF AfterThen, AfterElse, AfterWhileBody, AfterDoBody, AfterSwitchBody,
                LeaveCompound, AfterForBody, At
  <2> QED BY <1>7, <2>1, EndsInOrder
<1> QED BY <1>1, <1>2, <1>3, <1>4, <1>5, <1>6, <1>7, Zenon DEF StayInScope

-----------------------------------------------------------------------------
(***************************************************************************)
(* The steps of the body.                                                  *)
(***************************************************************************)
\* Nothing that has a home is declared inside of a statement that is entered.
LEMMA NothingInsideHasHome ==
  ASSUME Ordered, EmittedHaveHomes, Call.step = "enter", Call.at # << >>,
         NEW x \in DOMAIN homes
  PROVE  ScopeOf(program, x[1]) # Call.at
<1> SUFFICES ASSUME ScopeOf(program, x[1]) = Call.at PROVE FALSE
  OBVIOUS
<1> DEFINE d == x[1]
           p == Call.at
           s == Front(calls)
           c == Call
<1>1. /\ WellFormed(program) /\ p \in Seq(Nat) /\ p \in DOMAIN program
      /\ IsSomeSequence(s) /\ calls = Append(s, c) /\ Node = program[p]
      /\ program \in Programs
  BY OrderedCall DEF Ordered, InProgress, NestInv, CallsInv
<1>2. /\ d \in DOMAIN program /\ x[2] \in Names(program, d)
      /\ ~IsPending(program, calls, d)
  BY DEF EmittedHaveHomes
<1> HIDE DEF s, c
<1>3. d # << >> /\ d \in Seq(Nat)
  BY <1>1, <1>2, ScopeIsInnermost DEF WellFormed
<1>4. p \in Ancestors(d)
  BY <1>1, <1>2, <1>3, ScopeIsInnermost
<1>5. PICK n \in Nat : Under(p, n, d)
  BY <1>1, <1>3, <1>4, AncestorByElements
<1>6. n \in 1..program[p].kids
  BY <1>1, <1>2, <1>5, AroundIsThere
<1>7. Begun(program, c) = 0 /\ c.at = p
  BY BegunBySteps DEF c
<1>8. d \in Ahead(program, c)
  BY <1>2, <1>5, <1>6, <1>7 DEF Ahead
<1>9. program[d].kind = "expression"
  BY <1>1, <1>2, <1>3, DeclaringStatement
<1>10. IsPending(program, Append(s, c), d)
  BY <1>1, <1>8, <1>9, AheadAppended DEF IsPending
<1> QED BY <1>1, <1>2, <1>10

LEMMA OpenScopeKeepsNames ==
  ASSUME NamesInv, stage = "body", OpenScope
  PROVE  OperandsInv' /\ OrderInv'
<1>1. /\ EnterCompound \/ EnterFor
      /\ Call.step = "enter" /\ calls # << >> /\ outcome = "emitting" /\ Call.at # << >>
      /\ UNCHANGED <<program, homes, operands, stage, bindings>> /\ PushScope
  <2>1. EnterFor => /\ Node.kind = "for" /\ Call.step = "enter"
                    /\ calls # << >> /\ outcome = "emitting"
    BY DEF EnterFor, At
  <2>2. EnterCompound => Call.step = "enter" /\ calls # << >> /\ outcome = "emitting"
    BY DEF EnterCompound, At
  <2>3. UNCHANGED program
    BY DEF OpenScope, EnterFor, EnterCompound
  <2>4. outcome = "emitting" /\ calls # << >>
    BY <2>1, <2>2 DEF OpenScope
  <2>5. Ordered
    BY <2>4 DEF NamesInv, OrderInv, Ordered, WalkInv, InProgress
  <2>6. Call.at # << >>
    <3>1. EnterFor => Node.kind # "compound"
      BY <2>1
    <3>2. EnterFor => Call.at # << >>
      BY <2>5, <3>1, KidsByKind
    <3> QED BY <3>2 DEF OpenScope, IsBody
  <2> QED BY <2>1, <2>2, <2>3, <2>6 DEF OpenScope, PushScope, reserved
<1>2. Ordered
  BY <1>1 DEF NamesInv, OrderInv, Ordered, WalkInv, InProgress
<1>3. /\ PlainBody(program) /\ EmittedHaveHomes /\ ParametersHaveHomes /\ NestedNames
      /\ OperandsInv /\ StageInv
  BY <1>1 DEF NamesInv, OrderInv, StageInv
<1>4. PICK p : p = Call.at
  OBVIOUS
<1>5. /\ InOrderNext /\ SamePending /\ OpenedAt(p) /\ ~IsOpen(program, calls, p)
      /\ p \in DOMAIN program /\ WellFormed(program) /\ p # << >>
  BY <1>1, <1>2, <1>4, ScopesOpenInOrder, OrderedCall
<1>6. \A a : IsOpen(program, calls, a) => Len(a) < Len(p)
  BY <1>2, <1>4, <1>5, OpenIsAround
<1>7. \A x \in DOMAIN homes : ScopeOf(program, x[1]) # p
  BY <1>1, <1>2, <1>3, <1>4, NothingInsideHasHome
<1>8. PICK w, os : BindingsFit(w) /\ ScopesFit(w, os)
  BY <1>3 DEF NestedNames
<1>9. BindingsFit(w)' /\ ScopesFit(w, Append(os, p))'
  BY <1>1, <1>5, <1>6, <1>7, <1>8, OpenedFits
<1>10. NestedNames'
  BY <1>9 DEF NestedNames
<1>11. EmittedHaveHomes'
  BY <1>1, <1>3, <1>5, PendingKeepsHomes
<1>12. StageInv'
  BY <1>1, <1>3 DEF StageInv, ParametersHaveHomes
<1>13. OperandsInv'
  BY <1>1, <1>3, OperandsKept
<1>14. InOrder(program, calls)'
  BY <1>1, <1>5 DEF InOrderNext
<1> QED BY <1>10, <1>11, <1>12, <1>13, <1>14 DEF OrderInv

LEMMA CloseScopeKeepsNames ==
  ASSUME NamesInv, stage = "body", CloseScope
  PROVE  OperandsInv' /\ (outcome' = "emitting" => OrderInv')
<1>1. CASE FinishFunction
  <2>1. /\ outcome' = "emitted" /\ UNCHANGED <<program, homes>> /\ ~EmitsExpression
    BY <1>1 DEF FinishFunction, CloseScope, PopScope, EmitsExpression, At
  <2>2. operands' = operands
    BY <2>1 DEF CloseScope, AddOperands
  <2> QED BY <2>1, <2>2, OperandsKept DEF NamesInv
<1>2. CASE AfterForBody \/ (LeaveCompound /\ ~IsBody)
  <2>1. /\ calls # << >> /\ outcome = "emitting" /\ Call.step # "enter"
        /\ Node.kind \in ScopeKinds /\ UNCHANGED <<program, outcome>>
        /\ AfterForBody => Node.kind = "for"
    BY <1>2 DEF AfterForBody, LeaveCompound, At, ScopeKinds
  <2>2. /\ AddOperands /\ PopScope /\ UNCHANGED <<homes, stage>>
    BY DEF CloseScope, PopScope, reserved
  <2>3. Ordered
    BY <2>1 DEF NamesInv, OrderInv, Ordered, WalkInv, InProgress
  <2>4. /\ PlainBody(program) /\ EmittedHaveHomes /\ ParametersHaveHomes /\ NestedNames
        /\ OperandsInv /\ StageInv /\ DeclarationsAccepted(program)
    BY <2>1 DEF NamesInv, OrderInv, StageInv
  <2>5. PICK p : p = Call.at
    OBVIOUS
  <2>6. p # << >>
    <3>1. AfterForBody => Call.at # << >>
      BY <2>1, <2>3, KidsByKind
    <3> QED BY <1>2, <2>5, <3>1 DEF IsBody
  <2>7. InOrderNext /\ SamePending /\ ClosedAt(p) /\ p \in DOMAIN program /\ WellFormed(program)
    BY <1>2, <2>3, <2>5, EndsInOrder, OrderedCall
  <2>8. IsOpen(program, calls, p)
    <3>1. program[p].kind \in ScopeKinds
      BY <2>1, <2>3, <2>5, OrderedCall
    <3> QED BY <2>1, <2>3, <2>5, <3>1, OpenByCalls
  <2>9. \A a : IsOpen(program, calls, a) => Len(a) <= Len(p)
    <3> SUFFICES ASSUME NEW a, IsOpen(program, calls, a) PROVE Len(a) <= Len(p)
      OBVIOUS
    <3>1. a \in Seq(Nat) /\ p \in Seq(Nat) /\ (a # p => Len(a) < Len(p))
      BY <2>3, <2>5, <2>7, OpenIsAround DEF WellFormed
    <3> QED BY <3>1
  <2>10. PICK w, os : BindingsFit(w) /\ ScopesFit(w, os)
    BY <2>4 DEF NestedNames
  <2>11. \E u, t : BindingsFit(u)' /\ ScopesFit(u, t)'
    BY <2>1, <2>2, <2>6, <2>7, <2>8, <2>9, <2>10, ClosedFits
  <2>12. NestedNames'
    BY <2>11 DEF NestedNames
  <2>13. EmittedHaveHomes'
    BY <2>1, <2>2, <2>4, <2>7, PendingKeepsHomes
  <2>14. StageInv'
    BY <2>1, <2>2, <2>4 DEF StageInv, ParametersHaveHomes
  <2>15. ~Introduces
    BY <2>1 DEF Introduces, At
  <2>16. OperandsInv'
    BY <2>1, <2>2, <2>3, <2>4, <2>15, AddOperandsAreMeant
  <2>17. InOrder(program, calls)'
    BY <2>1, <2>7 DEF InOrderNext
  <2> QED BY <2>12, <2>13, <2>14, <2>16, <2>17 DEF OrderInv
<1> QED BY <1>1, <1>2 DEF CloseScope

LEMMA StayInScopeKeepsNames ==
  ASSUME NamesInv, stage = "body", StayInScope
  PROVE  OperandsInv' /\ (outcome' = "emitting" => OrderInv')
<1>1. /\ calls # << >> /\ outcome = "emitting" /\ UNCHANGED program
      /\ At("expression", "enter") => EmitExpression /\ ~Introduces
  <2>1. CASE EmitExpression /\ ~Introduces
    BY <2>1 DEF EmitExpression, At
  <2>2. CASE EmitReturn
    BY <2>2 DEF EmitReturn, At
  <2>3. CASE EmitBreak \/ EmitContinue
    BY <2>3 DEF EmitBreak, EmitContinue, At, Fail
  <2>4. CASE EmitGoto \/ EmitLabel
    BY <2>4 DEF EmitGoto, EmitLabel, At
  <2>5. CASE EnterCompound \/ EmitItem \/ LeaveCompound
    BY <2>5 DEF EnterCompound, EmitItem, LeaveCompound, At
  <2>6. CASE EnterIf \/ AfterThen \/ AfterElse
    BY <2>6 DEF EnterIf, AfterThen, AfterElse, At
  <2>7. CASE EnterWhile \/ AfterWhileBody \/ EnterDo \/ AfterDoBody
    BY <2>7 DEF EnterWhile, AfterWhileBody, EnterDo, AfterDoBody, At
  <2>8. CASE ForTest \/ EnterSwitch \/ AfterSwitchBody
    BY <2>8 DEF ForTest, EnterSwitch, AfterSwitchBody, At
  <2>9. CASE EmitCase
    BY <2>9 DEF EmitCase, At, Fail
  <2> QED BY <2>1, <2>2, <2>3, <2>4, <2>5, <2>6, <2>7, <2>8, <2>9, Zenon DEF StayInScope
<1>2. /\ AddOperands /\ UNCHANGED <<homes, stage, bindings, scopes>>
  BY DEF StayInScope, reserved
<1>3. Ordered
  BY <1>1 DEF NamesInv, OrderInv, Ordered, WalkInv, InProgress
<1>4. /\ PlainBody(program) /\ EmittedHaveHomes /\ ParametersHaveHomes /\ NestedNames
      /\ OperandsInv /\ StageInv /\ DeclarationsAccepted(program)
  BY <1>1 DEF NamesInv, OrderInv, StageInv
<1>5. ~Introduces
  BY <1>1 DEF Introduces
<1>6. OperandsInv'
  BY <1>1, <1>2, <1>3, <1>4, <1>5, AddOperandsAreMeant
<1>7. ASSUME outcome' = "emitting" PROVE OrderInv'
  <2>1. PICK p : p = Call.at
    OBVIOUS
  <2>2. /\ InOrderNext /\ SameOpen
        /\ SamePending \/ (EmittedAt(p) /\ Names(program, p) = {})
    BY <1>3, <1>4, <1>7, <2>1, StaysInOrder
  <2>3. NestedNames'
    BY <1>1, <1>2, <1>4, <2>2, StayKeepsNames
  <2>4. EmittedHaveHomes'
    BY <1>1, <1>2, <1>4, <2>2, PendingKeepsHomes, EmittedKeepsHomes
  <2>5. StageInv'
    BY <1>1, <1>2, <1>4 DEF StageInv, ParametersHaveHomes
  <2>6. InOrder(program, calls)'
    BY <1>1, <2>2 DEF InOrderNext
  <2> QED BY <2>3, <2>4, <2>5, <2>6 DEF OrderInv
<1> QED BY <1>6, <1>7

LEMMA FailFrameKeepsOperands ==
  ASSUME OperandsInv, NEW why, FailFrame(why) PROVE OperandsInv'
<1>1. UNCHANGED <<operands, program, homes>>
  BY DEF FailFrame, Fail, frame
<1> QED BY <1>1, OperandsKept

\* A declaration about to be emitted has no home yet.
LEMMA NewHomeIsFresh ==
  ASSUME Ordered, EmittedHaveHomes, At("expression", "enter"), NEW n
  PROVE  <<Call.at, n>> \notin DOMAIN homes
<1> DEFINE p == Call.at
           s == Front(calls)
           c == Call
           x == <<p, n>>
<1>1. /\ IsSomeSequence(s) /\ calls = Append(s, c) /\ p \in DOMAIN program
      /\ program[p].kind = "expression"
  BY OrderedCall DEF At
<1>2. p \in Ahead(program, c)
  BY <1>1 DEF At, Ahead
<1>3. x[1] = p
  OBVIOUS
<1> HIDE DEF s, c, p, x
<1>4. IsPending(program, calls, p)
  BY <1>1, <1>2, AheadAppended DEF IsPending
<1>5. x \notin DOMAIN homes
  BY <1>3, <1>4 DEF EmittedHaveHomes
<1> QED BY <1>5 DEF x, p

LEMMA EmitDeclarationKeepsNames ==
  ASSUME NamesInv, stage = "body", EmitDeclaration
  PROVE  OperandsInv' /\ (outcome' = "emitting" => OrderInv')
<1>1. PICK p : p = Call.at
  OBVIOUS
<1>2. PICK object : object = Declared(p)[1]
  OBVIOUS
<1>3. Introduces /\ calls # << >> /\ outcome = "emitting" /\ At("expression", "enter")
  BY DEF EmitDeclaration, Introduces, At
<1>4. Ordered
  BY <1>3 DEF NamesInv, OrderInv, Ordered, WalkInv, InProgress
<1>5. /\ PlainBody(program) /\ EmittedHaveHomes /\ ParametersHaveHomes /\ NestedNames
      /\ OperandsInv /\ StageInv /\ DeclarationsAccepted(program)
  BY <1>3 DEF NamesInv, OrderInv, StageInv
<1>6. CASE ~CanDefine(object)
  <2>1. FailFrame(WhyNot(object))
    BY <1>1, <1>2, <1>6 DEF EmitDeclaration
  <2>2. outcome' = WhyNot(object)
    BY <2>1 DEF FailFrame, Fail
  <2>3. outcome' # "emitting"
    BY <2>2 DEF WhyNot
  <2> QED BY <1>5, <2>1, <2>3, FailFrameKeepsOperands
<1>7. CASE CanDefine(object)
  <2>1. /\ EmitExpression /\ DefineBinding(p, object)
        /\ operands' = Addressed(p, Uses(p), VisibleTo)
    BY <1>1, <1>2, <1>7 DEF EmitDeclaration
  <2>2. /\ UNCHANGED <<program, outcome, stage>>
        /\ homes' = WithHome(p, object)
    BY <2>1 DEF EmitExpression, DefineBinding, reserved
  <2>3. /\ p \in DOMAIN program /\ WellFormed(program) /\ program \in Programs
        /\ Node = program[p] /\ Node.kind = "expression"
    BY <1>1, <1>3, <1>4, OrderedCall DEF Ordered, InProgress, NestInv, CallsInv, At
  <2>4. p # << >> /\ <<p, object.name>> \notin DOMAIN homes
    BY <1>1, <1>3, <1>4, <1>5, NewHomeIsFresh, EvaluatesNow
  <2>5. \A x \in DOMAIN homes : x \in DOMAIN homes' /\ homes'[x] = homes[x]
    BY <2>2, <2>4 DEF WithHome
  <2>6. OperandsInv'
    <3>1. PICK u : ListsWhatIsSeen(VisibleTo, homes', u, p)
      BY <1>1, <1>2, <1>3, <1>4, <1>5, <2>2, VisibleListsSeen
    <3>2. PICK V : V = VisibleTo
      OBVIOUS
    <3>3. PICK hs : hs = homes'
      OBVIOUS
    <3>4. PICK names : names = Uses(p)
      OBVIOUS
    <3>5. /\ ListsWhatIsSeen(V, hs, u, p) /\ operands' = Addressed(p, names, V)
          /\ \A x \in DOMAIN homes : x \in DOMAIN hs /\ hs[x] = homes[x]
          /\ homes' = hs /\ program' = program
      BY <2>1, <2>2, <2>5, <3>1, <3>2, <3>3, <3>4
    <3> QED BY <1>5, <2>3, <3>5, AddressedAreMeant
  <2>7. object.name \in Names(program, p) /\ \A n \in Names(program, p) : n = object.name
    <3>1. 1 \in DOMAIN program[p].declares /\ object = program[p].declares[1]
      BY <1>1, <1>2, <1>3 DEF Introduces, Declared
    <3>2. \A n \in Names(program, p) : n = object.name
      BY <1>2, <2>3, <2>4, DeclaringStatement
    <3> QED BY <3>1, <3>2 DEF Names
  <2>8. InOrderNext /\ SameOpen /\ EmittedAt(p)
    <3>1. outcome' = "emitting"
      BY <1>3, <2>2
    <3> QED BY <1>1, <1>4, <2>1, <3>1, LeavesInOrder
  <2>9. PICK w, os : BindingsFit(w) /\ ScopesFit(w, os)
    BY <1>5 DEF NestedNames
  <2>10. BindingsFit(Append(w, p))' /\ ScopesFit(Append(w, p), os)'
    <3>1. /\ IsOpen(program, calls, ScopeOf(program, p))
          /\ \A a : IsOpen(program, calls, a) => Len(a) <= ScopeDepth(program, p)
      <4>1. IsOpen(program, calls, << >>)
        BY DEF IsOpen
      <4> QED BY <1>1, <1>4, <2>3, <4>1, ScopeIsDeepest
    <3> QED BY <2>1, <2>2, <2>3, <2>4, <2>8, <2>9, <3>1, DefinedFits
  <2>11. NestedNames'
    BY <2>10 DEF NestedNames
  <2>12. EmittedHaveHomes'
    BY <1>5, <2>1, <2>2, <2>3, <2>7, <2>8, DefinedHasHome
  <2>13. StageInv'
    BY <1>5, <2>2, <2>5 DEF StageInv, ParametersHaveHomes
  <2>14. InOrder(program, calls)'
    BY <2>2, <2>8 DEF InOrderNext
  <2> QED BY <2>6, <2>11, <2>12, <2>13, <2>14 DEF OrderInv
<1> QED BY <1>6, <1>7

LEMMA EmitBodyKeepsNames ==
  ASSUME NamesInv, EmitBody
  PROVE  OperandsInv' /\ (outcome' = "emitting" => OrderInv')
<1>1. stage = "body" /\ ~NameUnresolved
  BY NamesAreResolved DEF EmitBody
<1>2. OpenScope \/ CloseScope \/ StayInScope \/ EmitDeclaration
  BY <1>1 DEF EmitBody
<1> QED BY <1>1, <1>2, OpenScopeKeepsNames, CloseScopeKeepsNames, StayInScopeKeepsNames,
           EmitDeclarationKeepsNames


-----------------------------------------------------------------------------
(***************************************************************************)
(* The steps before the body.                                              *)
(***************************************************************************)
LEMMA InitKeepsNames ==
  ASSUME InitFrame, PlainBody(program) PROVE NamesInv
<1>1. /\ program \in Programs /\ calls = <<Entry(<< >>)>> /\ stage = "counting"
      /\ homes = << >> /\ bindings = << >> /\ operands = << >>
      /\ DeclarationsAccepted(program)
  BY DEF InitFrame, Init
<1>2. WellFormed(program)
  BY <1>1, ProgramsAssumption
<1>3. DOMAIN homes = {} /\ DOMAIN operands = {}
  BY <1>1
<1>4. OperandsInv
  BY <1>3 DEF OperandsInv
<1>5. StageInv
  BY <1>1 DEF StageInv
<1>6. EmittedHaveHomes
  <2>1. ASSUME NEW d \in DOMAIN program, d # << >>, ~IsPending(program, calls, d),
               NEW n \in Names(program, d)
        PROVE  FALSE
    <3>1. program[d].kind = "expression"
      BY <1>1, <2>1, DeclaringStatement
    <3> QED BY <1>1, <1>2, <2>1, <3>1, EntryCalls
  <2> QED BY <1>3, <2>1 DEF EmittedHaveHomes
<1>7. InOrder(program, calls)
  BY <1>1, <1>2, EntryCalls
<1>8. OrderInv
  BY <1>1, <1>5, <1>6, <1>7 DEF OrderInv
<1> QED BY <1>1, <1>4, <1>8, InitWalk DEF NamesInv

LEMMA EmitPrologueKeepsNames ==
  ASSUME NamesInv, EmitPrologue
  PROVE  OperandsInv' /\ (outcome' = "emitting" => OrderInv')
<1>1. stage = "counting" /\ outcome = "emitting" /\ OperandsInv /\ OrderInv
  BY DEF EmitPrologue, NamesInv
<1>2. CASE WalkTooDeep
  <2>1. FailFrame("nesting exceeded")
    BY <1>2 DEF EmitPrologue
  <2>2. outcome' # "emitting"
    BY <2>1 DEF FailFrame, Fail
  <2> QED BY <1>1, <2>1, <2>2, FailFrameKeepsOperands
<1>3. CASE ~WalkTooDeep
  <2>1. /\ scopes' = <<0>> /\ stage' = "homes"
        /\ UNCHANGED <<program, calls, outcome, homes, bindings, operands>>
    BY <1>3 DEF EmitPrologue, emitVars
  <2>2. /\ calls = <<Entry(<< >>)>> /\ homes = << >> /\ bindings = << >>
        /\ EmittedHaveHomes /\ InOrder(program, calls)
    BY <1>1 DEF OrderInv, StageInv
  <2>3. program \in Programs /\ WellFormed(program)
    BY ProgramsAssumption DEF NamesInv, WalkInv, NestInv, CallsInv
  <2>4. \A a : IsOpen(program, calls, a) <=> a = << >>
    BY <2>2, <2>3, EntryCalls
  <2>5. PICK w : w = << >>
    OBVIOUS
  <2>6. PICK os : os = <<<< >>>>
    OBVIOUS
  <2>7. << >> \in DOMAIN program
    BY <2>3 DEF WellFormed
  <2>8. BindingsFit(w)'
    <3>1. << >> \in Seq({}) /\ w \in Seq(DOMAIN program) /\ Len(<< >>) = 0
      BY <2>5
    <3>2. bindings' = << >> /\ DOMAIN homes' = {} /\ 1..Len(bindings') = {}
      BY <2>1, <2>2
    <3> QED BY <2>1, <2>5, <3>1, <3>2 DEF BindingsFit, IsSomeSequence
  <2>9. ScopesFit(w, os)'
    <3>1. os \in Seq(DOMAIN program) /\ Len(os) = 1 /\ os[1] = << >> /\ 1..1 = {1}
      BY <2>6, <2>7
    <3>2. scopes' \in Seq({0}) /\ Len(scopes') = 1 /\ scopes'[1] = 0
      BY <2>1
    <3>3. 1..Len(bindings') = {} /\ 0 \in 0..Len(bindings')
      BY <2>1, <2>2
    <3>4. \A a : IsOpen(program, calls', a) <=> \E k \in 1..Len(os) : os[k] = a
      BY <2>1, <2>4, <3>1
    <3> QED BY <2>1, <3>1, <3>2, <3>3, <3>4 DEF ScopesFit, IsSomeSequence
  <2>10. NestedNames'
    BY <2>8, <2>9 DEF NestedNames
  <2>11. EmittedHaveHomes' /\ InOrder(program, calls)'
    BY <2>1, <2>2 DEF EmittedHaveHomes
  <2>12. StageInv'
    <3>1. Len(bindings') = 0 /\ DOMAIN homes' = {} /\ 1..Len(bindings') = {}
      BY <2>1, <2>2
    <3>2. Len(Parameters') \in Nat
      <4>1. Parameters' = program[<< >>].declares
        BY <2>1 DEF Parameters, Declared
      <4>2. program[<< >>].declares \in Seq(ToSet(program[<< >>].declares))
        BY <2>3, <2>7, DeclarationsAssumption
      <4> QED BY <4>1, <4>2
    <3> QED BY <2>1, <2>2, <3>1, <3>2 DEF StageInv
  <2>13. OperandsInv'
    BY <1>1, <2>1, OperandsKept
  <2> QED BY <2>10, <2>11, <2>12, <2>13 DEF OrderInv
<1> QED BY <1>2, <1>3

\* The next parameter has no home yet.
LEMMA ParameterIsFresh ==
  ASSUME NamesInv, stage = "homes", outcome = "emitting", NextParameter \in DOMAIN Parameters
  PROVE  <<<< >>, Parameters[NextParameter].name>> \notin DOMAIN homes
<1>1. /\ NestedNames /\ Len(bindings) <= Len(Parameters)
      /\ DOMAIN homes = {<<<< >>, Parameters[i].name>> : i \in 1..Len(bindings)}
  BY DEF NamesInv, OrderInv, StageInv
<1>2. program \in Programs /\ << >> \in DOMAIN program
  BY ProgramsAssumption DEF NamesInv, WalkInv, NestInv, CallsInv, WellFormed
<1>3. Parameters = program[<< >>].declares /\ Parameters \in Seq(ToSet(Parameters))
  BY <1>2, DeclarationsAssumption DEF Parameters, Declared
<1>4. DOMAIN Parameters = 1..Len(Parameters) /\ Len(Parameters) \in Nat
  BY <1>3
<1>5. Len(bindings) \in Nat
  <2>1. PICK w : BindingsFit(w)
    BY <1>1 DEF NestedNames
  <2> QED BY <2>1, AppendedAt DEF BindingsFit
<1>6. ASSUME NEW i \in 1..Len(bindings),
             <<<< >>, Parameters[NextParameter].name>> = <<<< >>, Parameters[i].name>>
      PROVE  FALSE
  <2>1. i \in DOMAIN Parameters /\ i # NextParameter
    BY <1>1, <1>4, <1>5 DEF NextParameter
  <2>2. Parameters[i].name = Parameters[NextParameter].name
    BY <1>6
  <2> QED BY <1>2, <1>3, <2>1, <2>2 DEF DeclarationsAccepted, NamesInv
<1> QED BY <1>1, <1>6

LEMMA EmitParameterHomeKeepsNames ==
  ASSUME NamesInv, EmitParameterHome
  PROVE  OperandsInv' /\ (outcome' = "emitting" => OrderInv')
<1>1. /\ stage = "homes" /\ outcome = "emitting" /\ OperandsInv /\ OrderInv
      /\ NextParameter \in DOMAIN Parameters /\ DeclarationsAccepted(program)
  BY DEF EmitParameterHome, NamesInv
<1>2. PICK object : object = Parameters[NextParameter]
  OBVIOUS
<1>3. CASE ~CanDefine(object)
  <2>1. FailFrame(WhyNot(object))
    BY <1>2, <1>3 DEF EmitParameterHome
  <2>2. outcome' = WhyNot(object)
    BY <2>1 DEF FailFrame, Fail
  <2>3. outcome' # "emitting"
    BY <2>2 DEF WhyNot
  <2> QED BY <1>1, <2>1, <2>3, FailFrameKeepsOperands
<1>4. CASE CanDefine(object)
  <2>1. PICK p : p = << >>
    OBVIOUS
  <2>2. DefineBinding(p, object) /\ UNCHANGED <<emitVars, operands>>
    BY <1>2, <1>4, <2>1 DEF EmitParameterHome
  <2>3. UNCHANGED <<program, calls, outcome, stage>> /\ homes' = WithHome(p, object)
    BY <2>2 DEF emitVars, DefineBinding, reserved
  <2>4. /\ calls = <<Entry(<< >>)>> /\ EmittedHaveHomes /\ InOrder(program, calls)
        /\ NestedNames /\ Len(bindings) <= Len(Parameters)
        /\ DOMAIN homes = {<<<< >>, Parameters[i].name>> : i \in 1..Len(bindings)}
    BY <1>1 DEF OrderInv, StageInv
  <2>5. program \in Programs /\ WellFormed(program) /\ p \in DOMAIN program
    BY <2>1, ProgramsAssumption DEF NamesInv, WalkInv, NestInv, CallsInv, WellFormed
  <2>6. /\ program[p].declares \in Seq(ToSet(program[p].declares))
        /\ Parameters = program[p].declares
    BY <2>1, <2>5, DeclarationsAssumption DEF Parameters, Declared
  <2>7. /\ DOMAIN Parameters = 1..Len(Parameters) /\ Len(Parameters) \in Nat
    BY <2>6
  <2>8. PICK w, os : BindingsFit(w) /\ ScopesFit(w, os)
    BY <2>4 DEF NestedNames
  <2>9. Len(bindings) \in Nat /\ IsSomeSequence(bindings)
    BY <2>8, AppendedAt DEF BindingsFit
  <2>10. <<p, object.name>> \notin DOMAIN homes
    BY <1>1, <1>2, <2>1, ParameterIsFresh DEF NamesInv
  <2>11. \A x \in DOMAIN homes : x \in DOMAIN homes' /\ homes'[x] = homes[x]
    BY <2>3, <2>10 DEF WithHome
  <2>12. OperandsInv'
    BY <1>1, <2>2, <2>3, <2>11, OperandsKept
  <2>13. /\ \A a : IsOpen(program, calls, a) <=> a = << >>
         /\ ~IsPending(program, calls, p)
    BY <2>1, <2>4, <2>5, EntryCalls
  <2>14. SameOpen /\ SamePending
    BY <2>3 DEF SameOpen, SamePending
  <2>15. ScopeOf(program, p) = << >> /\ ScopeDepth(program, p) = 0
    <3>1. ScopeOf(program, p) = << >> /\ ScopeDepth(program, p) = Len(ScopeOf(program, p))
      BY <2>1, <2>5, ScopeIsInnermost
    <3> QED BY <3>1
  <2>16. \A a : IsOpen(program, calls, a) => Len(a) <= ScopeDepth(program, p)
    <3>1. Len(<< >>) <= 0
      OBVIOUS
    <3> QED BY <2>13, <2>15, <3>1
  <2>17. BindingsFit(Append(w, p))' /\ ScopesFit(Append(w, p), os)'
    BY <2>2, <2>3, <2>5, <2>8, <2>10, <2>13, <2>14, <2>15, <2>16, DefinedFits
  <2>18. NestedNames'
    BY <2>17 DEF NestedNames
  <2>19. object.name \in Names(program, p)
    BY <1>1, <1>2, <2>6 DEF Names
  <2>20. EmittedHaveHomes'
    BY <2>1, <2>2, <2>3, <2>4, <2>5, <2>13, <2>14, <2>19, DefinedHasHome
  <2>21. StageInv'
    <3>1. bindings' = Append(bindings, Binding(object))
      BY <2>2 DEF DefineBinding
    <3>2. Len(bindings') = Len(bindings) + 1
      BY <2>9, <3>1, AppendedAt
    <3>3. Parameters' = Parameters
      BY <2>3 DEF Parameters, Declared
    <3>4. Len(bindings') <= Len(Parameters)
      BY <1>1, <2>7, <2>9, <3>2 DEF NextParameter
    <3>5. 1..Len(bindings') = 1..Len(bindings) \cup {NextParameter}
      BY <2>9, <3>2 DEF NextParameter
    <3>6. DOMAIN homes' = DOMAIN homes \cup {<<<< >>, Parameters[NextParameter].name>>}
      BY <1>2, <2>1, <2>3 DEF WithHome
    <3>7. DOMAIN homes' = {<<<< >>, Parameters[i].name>> : i \in 1..Len(bindings')}
      BY <2>4, <3>5, <3>6
    <3> QED BY <1>1, <2>3, <2>4, <3>3, <3>4, <3>7 DEF StageInv
  <2>22. InOrder(program, calls)'
    BY <2>3, <2>4
  <2> QED BY <2>12, <2>18, <2>20, <2>21, <2>22 DEF OrderInv
<1> QED BY <1>3, <1>4

LEMMA EnterBodyKeepsNames ==
  ASSUME NamesInv, EnterBody PROVE OperandsInv' /\ OrderInv'
<1>1. /\ stage = "homes" /\ outcome = "emitting" /\ OperandsInv /\ OrderInv
      /\ NextParameter \notin DOMAIN Parameters /\ stage' = "body"
      /\ UNCHANGED <<program, calls, homes, operands, bindings, scopes>>
  BY DEF EnterBody, NamesInv, emitVars
<1>2. /\ EmittedHaveHomes /\ InOrder(program, calls)
      /\ NestedNames /\ Len(bindings) <= Len(Parameters)
      /\ DOMAIN homes = {<<<< >>, Parameters[i].name>> : i \in 1..Len(bindings)}
  BY <1>1 DEF OrderInv, StageInv
<1>3. program \in Programs /\ << >> \in DOMAIN program
  BY ProgramsAssumption DEF NamesInv, WalkInv, NestInv, CallsInv, WellFormed
<1>4. /\ Parameters = program[<< >>].declares /\ Parameters \in Seq(ToSet(Parameters))
  BY <1>3, DeclarationsAssumption DEF Parameters, Declared
<1>5. Len(bindings) \in Nat
  <2>1. PICK w : BindingsFit(w)
    BY <1>2 DEF NestedNames
  <2> QED BY <2>1, AppendedAt DEF BindingsFit
<1>6. 1..Len(bindings) = DOMAIN Parameters
  BY <1>1, <1>2, <1>4, <1>5 DEF NextParameter
<1>7. ParametersHaveHomes
  BY <1>2, <1>4, <1>6 DEF ParametersHaveHomes, Names
<1>8. SameOpen /\ SamePending
  BY <1>1 DEF SameOpen, SamePending
<1>9. NestedNames' /\ EmittedHaveHomes' /\ OperandsInv'
  BY <1>1, <1>2, <1>8, StayKeepsNames, PendingKeepsHomes, OperandsKept
<1>10. StageInv' /\ InOrder(program, calls)'
  BY <1>1, <1>2, <1>7 DEF StageInv, ParametersHaveHomes
<1> QED BY <1>9, <1>10 DEF OrderInv

LEMMA UntouchedKeepsNames ==
  ASSUME NamesInv,
         UNCHANGED <<program, calls, outcome, stage, homes, operands, bindings, scopes>>
  PROVE  OperandsInv' /\ (outcome' = "emitting" => OrderInv')
<1>1. OperandsInv'
  BY OperandsKept DEF NamesInv
<1>2. ASSUME outcome' = "emitting" PROVE OrderInv'
  <2>1. OrderInv
    BY <1>2 DEF NamesInv
  <2>2. SameOpen /\ SamePending
    BY DEF SameOpen, SamePending
  <2>3. EmittedHaveHomes' /\ (stage # "counting" => NestedNames')
    BY <2>1, <2>2, StayKeepsNames, PendingKeepsHomes DEF OrderInv
  <2>4. StageInv' /\ InOrder(program, calls)'
    BY <2>1 DEF OrderInv, StageInv, ParametersHaveHomes, Parameters, Declared
  <2> QED BY <2>3, <2>4 DEF OrderInv
<1> QED BY <1>1, <1>2

LEMMA FrameNextKeepsNames == NamesInv /\ [FrameNext]_frameVars => NamesInv'
<1> SUFFICES ASSUME NamesInv, [FrameNext]_frameVars PROVE NamesInv'
  OBVIOUS
<1>1. WalkInv'
  BY FrameNextKeepsWalk DEF NamesInv
<1>2. UNCHANGED program
  <2>1. CASE EmitBody
    <3>1. CASE OpenScope \/ CloseScope \/ StayInScope
      BY <3>1, Zenon DEF OpenScope, CloseScope, StayInScope, EmitExpression, EmitReturn,
         EmitBreak, EmitContinue, EmitGoto, EmitLabel, EnterCompound, EmitItem,
         LeaveCompound, EnterIf, AfterThen, AfterElse, EnterWhile, AfterWhileBody, EnterDo,
         AfterDoBody, EnterFor, ForTest, AfterForBody, EnterSwitch, AfterSwitchBody,
         EmitCase, FinishFunction, Fail
    <3>2. CASE EmitDeclaration
      BY <3>2 DEF EmitDeclaration, EmitExpression, FailFrame, Fail
    <3>3. CASE NameUnresolved
      BY <2>1, <3>3 DEF EmitBody, FailFrame, Fail
    <3> QED BY <2>1, <3>1, <3>2, <3>3 DEF EmitBody
  <2>2. CASE CountObject \/ EmitPrologue \/ EmitParameterHome \/ EnterBody
    BY <2>2 DEF CountObject, EmitPrologue, EmitParameterHome, EnterBody, FailFrame, Fail,
                emitVars
  <2>3. CASE UNCHANGED frameVars
    BY <2>3 DEF frameVars, emitVars
  <2> QED BY <2>1, <2>2, <2>3 DEF FrameNext
<1>3. OperandsInv' /\ (outcome' = "emitting" => OrderInv')
  <2>1. CASE CountObject
    <3>1. UNCHANGED <<program, calls, outcome, stage, homes, operands, bindings, scopes>>
      BY <2>1 DEF CountObject, emitVars
    <3> QED BY <3>1, UntouchedKeepsNames
  <2>2. CASE UNCHANGED frameVars
    <3>1. UNCHANGED <<program, calls, outcome, stage, homes, operands, bindings, scopes>>
      BY <2>2 DEF frameVars, frame, emitVars
    <3> QED BY <3>1, UntouchedKeepsNames
  <2> QED BY <2>1, <2>2, EmitPrologueKeepsNames, EmitParameterHomeKeepsNames,
             EnterBodyKeepsNames, EmitBodyKeepsNames DEF FrameNext
<1>4. DeclarationsAccepted(program)' /\ PlainBody(program)'
  BY <1>2 DEF NamesInv
<1> QED BY <1>1, <1>3, <1>4 DEF NamesInv

\* In a body with no extern declaration of its own and no declaration for the
\* body of a for, the code addresses for every name the object the scopes of C
\* say it means there: shadowing, a name that comes back when a scope ends, one
\* used in its own initialiser, in a loop's condition or a for's update, for
\* every body and whatever has been declared before
\* (fcc_codegen_lookup_binding, fcc_codegen_push_scope, fcc_codegen_pop_scope,
\* fcc_codegen_emit_statement).
THEOREM NamesReachTheirObjects == FrameSpec /\ PlainBody(program) => []OperandsAreMeant
<1>1. InitFrame /\ PlainBody(program) => NamesInv
  BY InitKeepsNames
<1>2. NamesInv => OperandsAreMeant
  BY DEF NamesInv, OperandsInv, OperandsAreMeant
<1> QED BY <1>1, <1>2, FrameNextKeepsNames, PTL DEF FrameSpec

-----------------------------------------------------------------------------
(***************************************************************************)
(* The room of the frame: what has been counted and what has been handed   *)
(* out, as sets of the bytes of objects.                                   *)
(***************************************************************************)
AllObjects == UNION {{p} \X DOMAIN Declared(p) : p \in DOMAIN program}
SizeOf(x) == AllocationSize(Declared(x[1])[x[2]])
BytesOf(S) == UNION {{x} \X (1..SizeOf(x)) : x \in S}
Defined == {x \in AllObjects : <<x[1], Declared(x[1])[x[2]].name>> \in DOMAIN homes}

RoomInv ==
  /\ counted \subseteq AllObjects /\ IsFiniteSet(BytesOf(counted))
  /\ total_stack_size = Cardinality(BytesOf(counted))
  /\ next_stack_offset = Cardinality(BytesOf(Defined))
  /\ stage # "counting" => counted = AllObjects

LEMMA BytesAdded ==
  ASSUME NEW S, NEW x, x \notin S, IsFiniteSet(BytesOf(S)), SizeOf(x) \in Nat
  PROVE  /\ IsFiniteSet(BytesOf(S \cup {x}))
         /\ Cardinality(BytesOf(S \cup {x})) = Cardinality(BytesOf(S)) + SizeOf(x)
<1> DEFINE own == {x} \X (1..SizeOf(x))
           others == BytesOf(S)
           all == BytesOf(S \cup {x})
<1>1. all = others \cup own
  BY DEF BytesOf
<1>2. others \cap own = {}
  <2> SUFFICES ASSUME NEW b, b \in others, b \in own PROVE FALSE
    OBVIOUS
  <2>1. PICK y \in S : b \in {y} \X (1..SizeOf(y))
    BY DEF BytesOf
  <2>2. b[1] = y /\ b[1] = x
    BY <2>1
  <2> QED BY <2>2
<1>3. IsFiniteSet(own) /\ Cardinality(own) = SizeOf(x)
  <2> DEFINE I == 1..SizeOf(x)
             X == {x}
  <2>1. IsFiniteSet(I) /\ Cardinality(I) = SizeOf(x)
    <3>1. /\ IsFiniteSet(1..SizeOf(x))
          /\ Cardinality(1..SizeOf(x)) = IF 1 > SizeOf(x) THEN 0 ELSE SizeOf(x) - 1 + 1
      BY FS_Interval
    <3> QED BY <3>1
  <2>2. IsFiniteSet(X) /\ Cardinality(X) = 1
    BY FS_Singleton
  <2>5. own = X \X I
    OBVIOUS
  <2> HIDE DEF I, X, own
  <2>3. IsFiniteSet(X \X I) /\ Cardinality(X \X I) = Cardinality(X) * Cardinality(I)
    BY <2>1, <2>2, FS_Product
  <2>4. Cardinality(X \X I) = SizeOf(x)
    BY <2>1, <2>2, <2>3
  <2> QED BY <2>3, <2>4, <2>5
<1>4. IsFiniteSet(others) /\ Cardinality(others) \in Nat
  BY FS_CardinalityType
<1> HIDE DEF own, others, all
<1>5. /\ IsFiniteSet(others \cup own)
      /\ Cardinality(others \cup own)
           = Cardinality(others) + Cardinality(own) - Cardinality(others \cap own)
  BY <1>3, <1>4, FS_Union
<1>6. Cardinality(others \cap own) = 0
  BY <1>2, FS_EmptySet
<1>7. IsFiniteSet(all) /\ Cardinality(all) = Cardinality(others) + SizeOf(x)
  BY <1>1, <1>3, <1>4, <1>5, <1>6
<1> QED BY <1>7 DEF others, all

LEMMA ObjectHasSize ==
  ASSUME CallsInv, NEW x \in AllObjects
  PROVE  /\ x = <<x[1], x[2]>> /\ x[1] \in DOMAIN program /\ x[2] \in DOMAIN Declared(x[1])
         /\ SizeOf(x) \in Nat
<1>1. PICK p \in DOMAIN program : x \in {p} \X DOMAIN Declared(p)
  BY DEF AllObjects
<1>2. x = <<x[1], x[2]>> /\ x[1] = p /\ x[2] \in DOMAIN Declared(p)
  BY <1>1
<1>3. Declared(x[1])[x[2]].size \in Nat \ {0}
  BY <1>2, DeclaredHasSize
<1> QED BY <1>2, <1>3, RoundedUp DEF SizeOf, AllocationSize

LEMMA CountObjectKeepsRoom ==
  ASSUME CallsInv, PlainBody(program), RoomInv, CountObject PROVE RoomInv'
<1>1. /\ stage = "counting" /\ UNCHANGED <<program, stage, next_stack_offset, homes>>
  BY DEF CountObject, emitVars
<1>2. PICK x \in NextToCount :
        /\ total_stack_size' = IF RequiresStorage(Declared(x[1])[x[2]])
                               THEN total_stack_size + CountedSize(Declared(x[1])[x[2]])
                               ELSE total_stack_size
        /\ counted' = counted \cup {x}
  BY DEF CountObject
<1>3. x \in AllObjects /\ x \notin counted
  BY <1>2 DEF NextToCount, Uncounted, Walked, AllObjects
<1>4. /\ x[1] \in DOMAIN program /\ x[2] \in DOMAIN Declared(x[1]) /\ SizeOf(x) \in Nat
  BY <1>3, ObjectHasSize
<1>5. RequiresStorage(Declared(x[1])[x[2]])
  BY <1>4 DEF PlainBody, Declared
<1>6. total_stack_size' = total_stack_size + SizeOf(x)
  BY <1>2, <1>5 DEF CountedSize, SizeOf
<1>7. /\ IsFiniteSet(BytesOf(counted \cup {x}))
      /\ Cardinality(BytesOf(counted \cup {x})) = Cardinality(BytesOf(counted)) + SizeOf(x)
  BY <1>3, <1>4, BytesAdded DEF RoomInv
<1>8. AllObjects' = AllObjects /\ BytesOf(counted)' = BytesOf(counted \cup {x})
      /\ BytesOf(Defined)' = BytesOf(Defined)
  BY <1>1, <1>2 DEF AllObjects, BytesOf, SizeOf, Declared, Defined
<1> QED BY <1>1, <1>2, <1>3, <1>6, <1>7, <1>8 DEF RoomInv

LEMMA RoomUntouched ==
  ASSUME RoomInv,
         UNCHANGED <<program, stage, total_stack_size, counted, next_stack_offset, homes>>
  PROVE  RoomInv'
<1>1. /\ AllObjects' = AllObjects /\ BytesOf(counted)' = BytesOf(counted)
      /\ BytesOf(Defined)' = BytesOf(Defined)
  BY DEF AllObjects, BytesOf, SizeOf, Declared, Defined
<1> QED BY <1>1 DEF RoomInv

\* There is room for an object that has no home yet.
LEMMA NextHasRoom ==
  ASSUME CallsInv, RoomInv, stage # "counting", NEW x \in AllObjects, x \notin Defined
  PROVE  /\ IsFiniteSet(BytesOf(Defined \cup {x}))
         /\ Cardinality(BytesOf(Defined \cup {x})) = OffsetAfter(Declared(x[1])[x[2]])
         /\ OffsetAfter(Declared(x[1])[x[2]]) \in Nat /\ total_stack_size \in Nat
         /\ OffsetAfter(Declared(x[1])[x[2]]) <= total_stack_size
<1> DEFINE all == BytesOf(AllObjects)
           defined == BytesOf(Defined)
           more == BytesOf(Defined \cup {x})
<1>1. SizeOf(x) \in Nat
  BY ObjectHasSize
<1>2. IsFiniteSet(all) /\ total_stack_size = Cardinality(all)
  BY DEF RoomInv
<1>3. defined \subseteq all /\ more \subseteq all
  BY DEF BytesOf, Defined
<1>4. next_stack_offset = Cardinality(defined)
  BY DEF RoomInv
<1>5. OffsetAfter(Declared(x[1])[x[2]]) = next_stack_offset + SizeOf(x)
  BY DEF OffsetAfter, SizeOf
<1>6. IsFiniteSet(defined)
  <2> HIDE DEF all, defined
  <2> QED BY <1>2, <1>3, FS_Subset
<1>7. IsFiniteSet(more) /\ Cardinality(more) = Cardinality(defined) + SizeOf(x)
  BY <1>1, <1>6, BytesAdded
<1> HIDE DEF all, defined, more
<1>8. Cardinality(more) <= Cardinality(all)
  BY <1>2, <1>3, FS_Subset
<1>9. Cardinality(more) \in Nat /\ Cardinality(all) \in Nat
  BY <1>2, <1>7, FS_CardinalityType
<1>10. /\ IsFiniteSet(more)
       /\ Cardinality(more) = OffsetAfter(Declared(x[1])[x[2]])
       /\ OffsetAfter(Declared(x[1])[x[2]]) \in Nat /\ total_stack_size \in Nat
       /\ OffsetAfter(Declared(x[1])[x[2]]) <= total_stack_size
  BY <1>2, <1>4, <1>5, <1>7, <1>8, <1>9
<1> QED BY <1>10 DEF more

LEMMA NoRoomIsTooLarge ==
  ASSUME CallsInv, RoomInv, stage # "counting", NEW x \in AllObjects, x \notin Defined
  PROVE  WhyNot(Declared(x[1])[x[2]]) = "frame too large"
<1> DEFINE o == OffsetAfter(Declared(x[1])[x[2]])
<1>2. o \in Nat /\ total_stack_size \in Nat /\ o <= total_stack_size
  BY NextHasRoom
<1>1. ~(o > total_stack_size)
  <2> HIDE DEF o
  <2> QED BY <1>2
<1> QED BY <1>1 DEF WhyNot

LEMMA DefineBindingKeepsRoom ==
  ASSUME CallsInv, RoomInv, DeclarationsAccepted(program), stage # "counting",
         NEW x \in AllObjects, x \notin Defined,
         DefineBinding(x[1], Declared(x[1])[x[2]]), program' = program
  PROVE  RoomInv'
<1> DEFINE object == Declared(x[1])[x[2]]
           k == <<x[1], object.name>>
<1>1. /\ UNCHANGED <<stage, total_stack_size, counted>>
      /\ next_stack_offset' = OffsetAfter(object)
      /\ DOMAIN homes' = DOMAIN homes \cup {k}
  BY DEF DefineBinding, reserved, WithHome
<1>2. AllObjects' = AllObjects /\ BytesOf(counted)' = BytesOf(counted)
  BY <1>1 DEF AllObjects, BytesOf, SizeOf, Declared
<1>3. ASSUME NEW y \in AllObjects
      PROVE  <<y[1], Declared(y[1])[y[2]].name>> = k <=> y = x
  <2>1. /\ y = <<y[1], y[2]>> /\ y[1] \in DOMAIN program /\ y[2] \in DOMAIN Declared(y[1])
        /\ x = <<x[1], x[2]>> /\ x[1] \in DOMAIN program /\ x[2] \in DOMAIN Declared(x[1])
    BY ObjectHasSize
  <2>2. ASSUME <<y[1], Declared(y[1])[y[2]].name>> = k PROVE y = x
    <3>1. y[1] = x[1] /\ Declared(y[1])[y[2]].name = Declared(x[1])[x[2]].name
      BY <2>2
    <3>2. y[2] = x[2]
      BY <2>1, <3>1 DEF DeclarationsAccepted, Declared
    <3> QED BY <2>1, <3>1, <3>2
  <2> QED BY <2>2
<1>4. Defined' = Defined \cup {x}
  <2>1. Defined' = {y \in AllObjects : <<y[1], Declared(y[1])[y[2]].name>> \in DOMAIN homes'}
    BY <1>2 DEF Defined, Declared
  <2> HIDE DEF k
  <2> QED BY <1>1, <1>3, <2>1 DEF Defined
<1>5. BytesOf(Defined)' = BytesOf(Defined \cup {x})
  BY <1>4 DEF BytesOf, SizeOf, Declared
<1>6. Cardinality(BytesOf(Defined \cup {x})) = OffsetAfter(object)
  BY NextHasRoom
<1> QED BY <1>1, <1>2, <1>5, <1>6 DEF RoomInv

LEMMA InitRoom == InitFrame => RoomInv
<1> SUFFICES ASSUME InitFrame PROVE RoomInv
  OBVIOUS
<1>1. /\ stage = "counting" /\ counted = {} /\ homes = << >> /\ total_stack_size = 0
      /\ next_stack_offset = 0
  BY DEF InitFrame
<1>2. Defined = {} /\ BytesOf({}) = {}
  BY <1>1 DEF Defined, BytesOf
<1> QED BY <1>1, <1>2, FS_EmptySet DEF RoomInv

FrameErrorInv == NamesInv /\ RoomInv /\ NoInternalError

LEMMA EmitParameterHomeKeepsRoom ==
  ASSUME FrameErrorInv, EmitParameterHome
  PROVE  RoomInv' /\ NoInternalError'
<1>1. /\ stage = "homes" /\ outcome = "emitting" /\ NextParameter \in DOMAIN Parameters
      /\ NamesInv /\ RoomInv /\ CallsInv /\ DeclarationsAccepted(program)
  BY DEF EmitParameterHome, FrameErrorInv, NamesInv, WalkInv, NestInv
<1>2. PICK x : x = <<<< >>, NextParameter>>
  OBVIOUS
<1>3. x[1] = << >> /\ x[2] = NextParameter /\ Declared(x[1])[x[2]] = Parameters[NextParameter]
  BY <1>2 DEF Parameters
<1>4. x \in AllObjects /\ x \notin Defined
  <2>1. << >> \in DOMAIN program
    BY <1>1, ProgramsAssumption DEF CallsInv, WellFormed
  <2>2. x \in {<< >>} \X DOMAIN Declared(<< >>)
    BY <1>1, <1>2 DEF Parameters
  <2>3. <<<< >>, Parameters[NextParameter].name>> \notin DOMAIN homes
    BY <1>1, ParameterIsFresh
  <2> QED BY <1>3, <2>1, <2>2, <2>3 DEF AllObjects, Defined
<1>5. CASE CanDefine(Declared(x[1])[x[2]])
  <2>1. DefineBinding(x[1], Declared(x[1])[x[2]]) /\ UNCHANGED emitVars
    BY <1>3, <1>5 DEF EmitParameterHome
  <2>2. RoomInv'
    BY <1>1, <1>4, <2>1, DefineBindingKeepsRoom DEF emitVars
  <2> QED BY <1>1, <2>1, <2>2 DEF emitVars, NoInternalError
<1>6. CASE ~CanDefine(Declared(x[1])[x[2]])
  <2>1. FailFrame(WhyNot(Declared(x[1])[x[2]]))
    BY <1>3, <1>6 DEF EmitParameterHome
  <2>2. WhyNot(Declared(x[1])[x[2]]) = "frame too large"
    BY <1>1, <1>4, NoRoomIsTooLarge
  <2> QED BY <1>1, <2>1, <2>2, RoomUntouched DEF FailFrame, Fail, frame, NoInternalError
<1> QED BY <1>5, <1>6

LEMMA EmitDeclarationKeepsRoom ==
  ASSUME FrameErrorInv, stage = "body", EmitDeclaration
  PROVE  RoomInv' /\ NoInternalError'
<1>1. /\ Introduces /\ calls # << >> /\ outcome = "emitting" /\ At("expression", "enter")
      /\ 1 \in DOMAIN Declared(Call.at)
      /\ NamesInv /\ RoomInv /\ CallsInv /\ DeclarationsAccepted(program)
  BY DEF EmitDeclaration, Introduces, At, FrameErrorInv, NamesInv, WalkInv, NestInv
<1>2. Ordered /\ EmittedHaveHomes
  BY <1>1 DEF NamesInv, OrderInv, Ordered, WalkInv, InProgress
<1>3. PICK x : x = <<Call.at, 1>>
  OBVIOUS
<1>4. x[1] = Call.at /\ x[2] = 1
  BY <1>3
<1>5. x \in AllObjects /\ x \notin Defined
  <2>1. Call.at \in DOMAIN program
    BY <1>2, OrderedCall
  <2>2. x \in {Call.at} \X DOMAIN Declared(Call.at)
    BY <1>1, <1>3
  <2>3. <<Call.at, Declared(Call.at)[1].name>> \notin DOMAIN homes
    BY <1>1, <1>2, NewHomeIsFresh
  <2> QED BY <1>4, <2>1, <2>2, <2>3 DEF AllObjects, Defined
<1>6. CASE CanDefine(Declared(x[1])[x[2]])
  <2>1. DefineBinding(x[1], Declared(x[1])[x[2]]) /\ EmitExpression
    BY <1>4, <1>6 DEF EmitDeclaration
  <2>2. UNCHANGED <<program, outcome>>
    BY <2>1 DEF EmitExpression
  <2>3. RoomInv'
    BY <1>1, <1>5, <2>1, <2>2, DefineBindingKeepsRoom
  <2> QED BY <1>1, <2>2, <2>3 DEF NoInternalError
<1>7. CASE ~CanDefine(Declared(x[1])[x[2]])
  <2>1. FailFrame(WhyNot(Declared(x[1])[x[2]]))
    BY <1>4, <1>7 DEF EmitDeclaration
  <2>2. WhyNot(Declared(x[1])[x[2]]) = "frame too large"
    BY <1>1, <1>5, NoRoomIsTooLarge
  <2> QED BY <1>1, <2>1, <2>2, RoomUntouched DEF FailFrame, Fail, frame, NoInternalError
<1> QED BY <1>6, <1>7

LEMMA FrameNextKeepsRoom == FrameErrorInv /\ [FrameNext]_frameVars => FrameErrorInv'
<1> SUFFICES ASSUME FrameErrorInv, [FrameNext]_frameVars PROVE FrameErrorInv'
  OBVIOUS
<1>1. /\ NamesInv /\ RoomInv /\ NoInternalError /\ NestInv /\ CallsInv /\ PlainBody(program)
      /\ NamesInv'
  BY FrameNextKeepsNames DEF FrameErrorInv, NamesInv, WalkInv, NestInv
<1>2. CASE CountObject
  BY <1>1, <1>2, CountObjectKeepsRoom DEF CountObject, emitVars, NoInternalError, FrameErrorInv
<1>3. CASE EmitPrologue
  <2>1. CASE WalkTooDeep
    <3>1. FailFrame("nesting exceeded")
      BY <1>3, <2>1 DEF EmitPrologue
    <3> QED BY <1>1, <3>1, RoomUntouched DEF FailFrame, Fail, frame, NoInternalError,
                                             FrameErrorInv
  <2>2. CASE ~WalkTooDeep
    <3>1. /\ Uncounted = {} /\ stage' = "homes"
          /\ UNCHANGED <<program, outcome, total_stack_size, counted, next_stack_offset, homes>>
      BY <1>3, <2>2 DEF EmitPrologue, emitVars
    <3>2. counted = AllObjects
      BY <1>1, <3>1 DEF Uncounted, Walked, AllObjects, RoomInv
    <3>3. /\ AllObjects' = AllObjects /\ BytesOf(counted)' = BytesOf(counted)
          /\ BytesOf(Defined)' = BytesOf(Defined)
      BY <3>1 DEF AllObjects, BytesOf, SizeOf, Declared, Defined
    <3>4. RoomInv'
      BY <1>1, <3>1, <3>2, <3>3 DEF RoomInv
    <3> QED BY <1>1, <3>1, <3>4 DEF NoInternalError, FrameErrorInv
  <2> QED BY <2>1, <2>2
<1>4. CASE EmitParameterHome
  BY <1>1, <1>4, EmitParameterHomeKeepsRoom DEF FrameErrorInv
<1>5. CASE EnterBody
  <2>1. /\ stage # "counting" /\ stage' # "counting"
        /\ UNCHANGED <<program, outcome, total_stack_size, counted, next_stack_offset, homes>>
    BY <1>5 DEF EnterBody, emitVars
  <2>2. /\ AllObjects' = AllObjects /\ BytesOf(counted)' = BytesOf(counted)
        /\ BytesOf(Defined)' = BytesOf(Defined)
    BY <2>1 DEF AllObjects, BytesOf, SizeOf, Declared, Defined
  <2>3. RoomInv'
    BY <1>1, <2>1, <2>2 DEF RoomInv
  <2> QED BY <1>1, <2>1, <2>3 DEF NoInternalError, FrameErrorInv
<1>6. CASE EmitBody
  <2>1. stage = "body" /\ ~NameUnresolved
    BY <1>1, <1>6, NamesAreResolved DEF EmitBody
  <2>2. CASE EmitDeclaration
    BY <1>1, <2>1, <2>2, EmitDeclarationKeepsRoom DEF FrameErrorInv
  <2>3. CASE OpenScope \/ CloseScope \/ StayInScope
    <3>1. UNCHANGED <<stage, total_stack_size, counted, next_stack_offset, homes>>
      BY <2>3 DEF OpenScope, CloseScope, StayInScope, PushScope, PopScope, reserved
    <3>2. Emit
      BY <2>3, Zenon DEF OpenScope, CloseScope, StayInScope, Emit
    <3>3. outcome' \in {outcome, "emitting", "emitted", "nesting exceeded"}
      BY <1>1, <3>2, EmitKeepsNest
    <3>4. UNCHANGED program
      BY <3>2, Zenon DEF Emit, EmitExpression, EmitReturn, EmitBreak, EmitContinue, EmitGoto,
       EmitLabel, EnterCompound, EmitItem, LeaveCompound, EnterIf, AfterThen, AfterElse,
       EnterWhile, AfterWhileBody, EnterDo, AfterDoBody, EnterFor, ForTest, AfterForBody,
       EnterSwitch, AfterSwitchBody, EmitCase, NestingExceeded, FinishFunction, Fail
    <3>5. RoomInv'
      BY <1>1, <3>1, <3>4, RoomUntouched
    <3> QED BY <1>1, <3>3, <3>5 DEF NoInternalError, FrameErrorInv
  <2> QED BY <1>6, <2>1, <2>2, <2>3 DEF EmitBody
<1>7. CASE UNCHANGED frameVars
  BY <1>1, <1>7, RoomUntouched DEF frameVars, frame, emitVars, NoInternalError, FrameErrorInv
<1> QED BY <1>2, <1>3, <1>4, <1>5, <1>6, <1>7 DEF FrameNext

\* In such a body the generator reports no internal error: the two walks over
\* it agree, so that every object finds room in the frame the first has counted
\* (fcc_codegen_define_binding), every name that was accepted is found
\* (fcc_codegen_lookup_binding), and so are the targets of its jumps.
THEOREM FrameIsLargeEnough == FrameSpec /\ PlainBody(program) => []NoInternalError
<1>1. InitFrame /\ PlainBody(program) => FrameErrorInv
  BY InitKeepsNames, InitRoom DEF InitFrame, Init, NoInternalError, FrameErrorInv
<1>2. FrameErrorInv => NoInternalError
  BY DEF FrameErrorInv
<1> QED BY <1>1, <1>2, FrameNextKeepsRoom, PTL DEF FrameSpec
=============================================================================
