------------------------ MODULE FccStatementsProofs -------------------------
(***************************************************************************)
(* Proofs about the steps of the statement generator, FccStatements, and   *)
(* about the function that is made of what it emits, FccLoweredFunction,   *)
(* up to its assembly: the tables of targets never overflow, every         *)
(* statement finds its target, and whatever assembles as C reads it,       *)
(* assembles. For any programs, any depth of nesting.                      *)
(*                                                                         *)
(* What is said of a step of the generator is used again in                *)
(* FccFrameProofs, and the labels in FccLoweredFunctionProofs.             *)
(***************************************************************************)
EXTENDS FccLoweredFunction, SequenceTheorems, FiniteSetTheorems, WellFoundedInduction, TLAPS

IsSomeSequence(s) == \E S : s \in Seq(S)

TargetsInv ==
  /\ IsSomeSequence(loop_targets) /\ IsSomeSequence(break_targets)
  /\ Len(loop_targets) <= MaxDepth /\ Len(break_targets) <= MaxDepth

LEMMA AppendedToSequence ==
  ASSUME NEW s, IsSomeSequence(s), NEW e
  PROVE  IsSomeSequence(Append(s, e)) /\ Len(Append(s, e)) = Len(s) + 1
<1>1. PICK S : s \in Seq(S)
  BY DEF IsSomeSequence
<1> DEFINE T == S \cup {e}
<1>2. s \in Seq(T) /\ e \in T
  BY <1>1
<1>3. Append(s, e) \in Seq(T) /\ Len(Append(s, e)) = Len(s) + 1
  <2> HIDE DEF T
  <2> QED BY <1>2
<1> QED BY <1>3 DEF IsSomeSequence

LEMMA FrontOfSequence ==
  ASSUME NEW s, IsSomeSequence(s)
  PROVE  /\ IsSomeSequence(Front(s)) /\ Len(s) \in Nat
         /\ Len(Front(s)) = IF Len(s) = 0 THEN 0 ELSE Len(s) - 1
<1>1. PICK S : s \in Seq(S)
  BY DEF IsSomeSequence
<1>2. Len(s) \in Nat
  BY <1>1
<1>3. CASE Len(s) = 0
  <2>1. s = << >>
    BY <1>1, <1>3
  <2>2. Front(s) = << >>
    BY <2>1, <1>3, SubSeqEmpty DEF Front
  <2>3. << >> \in Seq(S) /\ Len(<< >>) = 0
    OBVIOUS
  <2> QED BY <1>2, <1>3, <2>2, <2>3 DEF IsSomeSequence
<1>4. CASE Len(s) # 0
  <2> DEFINE n == Len(s) - 1
  <2>1. n \in Int /\ n >= 0 /\ \A i \in 1..n : s[i] \in S
    BY <1>1, <1>2, <1>4
  <2>2. Front(s) = SubSeq(s, 1, n)
    BY DEF Front
  <2> HIDE DEF n
  <2>3. Front(s) \in Seq(S) /\ Len(Front(s)) = n
    BY <2>1, <2>2, SubSeqProperties
  <2> QED BY <1>2, <1>4, <2>3 DEF IsSomeSequence, n
<1> QED BY <1>2, <1>3, <1>4

LEMMA PushLoopKeepsTargets ==
  ASSUME TargetsInv, CanPushLoop, NEW b, NEW c, PushLoop(b, c)
  PROVE  TargetsInv'
<1> USE MaxDepthAssumption
<1>1. /\ IsSomeSequence(loop_targets') /\ IsSomeSequence(break_targets')
      /\ Len(loop_targets') = Len(loop_targets) + 1
      /\ Len(break_targets') = Len(break_targets) + 1
  BY AppendedToSequence DEF TargetsInv, PushLoop
<1>2. Len(loop_targets) \in Nat /\ Len(break_targets) \in Nat
  BY FrontOfSequence DEF TargetsInv
<1> QED BY <1>1, <1>2 DEF TargetsInv, CanPushLoop, CanPushBreak

LEMMA PopLoopKeepsTargets ==
  ASSUME TargetsInv, PopLoop PROVE TargetsInv'
<1> USE MaxDepthAssumption
<1>1. /\ IsSomeSequence(loop_targets') /\ IsSomeSequence(break_targets')
      /\ Len(loop_targets) \in Nat /\ Len(break_targets) \in Nat
      /\ Len(loop_targets') =
           IF Len(loop_targets) = 0 THEN 0 ELSE Len(loop_targets) - 1
      /\ Len(break_targets') =
           IF Len(break_targets) = 0 THEN 0 ELSE Len(break_targets) - 1
  BY FrontOfSequence DEF TargetsInv, PopLoop
<1> QED BY <1>1 DEF TargetsInv

\* A switch pushes a break target only.
LEMMA SwitchKeepsTargets ==
  ASSUME TargetsInv, EnterSwitch PROVE TargetsInv'
<1> USE MaxDepthAssumption
<1>1. \E end : break_targets' = Append(break_targets, end)
  BY DEF EnterSwitch
<1>2. IsSomeSequence(break_targets') /\ Len(break_targets') = Len(break_targets) + 1
  BY <1>1, AppendedToSequence DEF TargetsInv
<1>3. UNCHANGED loop_targets /\ CanPushBreak
  BY DEF EnterSwitch
<1>4. Len(loop_targets) \in Nat /\ Len(break_targets) \in Nat
  BY FrontOfSequence DEF TargetsInv
<1> QED BY <1>2, <1>3, <1>4 DEF TargetsInv, CanPushBreak

LEMMA EmitKeepsTargets == TargetsInv /\ Emit => TargetsInv'
<1> SUFFICES ASSUME TargetsInv, Emit PROVE TargetsInv'
  OBVIOUS
<1>1. CASE UNCHANGED <<loop_targets, break_targets>>
  BY <1>1 DEF TargetsInv, IsSomeSequence
<1>2. CASE EnterWhile \/ EnterDo \/ ForTest
  <2>1. CanPushLoop /\ \E b, c : PushLoop(b, c)
    BY <1>2, Zenon DEF EnterWhile, EnterDo, ForTest
  <2> QED BY <2>1, PushLoopKeepsTargets
<1>3. CASE AfterWhileBody \/ AfterDoBody \/ AfterForBody
  <2>1. PopLoop
    BY <1>3 DEF AfterWhileBody, AfterDoBody, AfterForBody
  <2> QED BY <2>1, PopLoopKeepsTargets
<1>4. CASE EnterSwitch
  BY <1>4, SwitchKeepsTargets
<1>5. CASE AfterSwitchBody
  <2>1. break_targets' = Front(break_targets) /\ UNCHANGED loop_targets
    BY <1>5 DEF AfterSwitchBody
  <2>2. /\ IsSomeSequence(break_targets') /\ Len(break_targets) \in Nat
        /\ Len(break_targets') =
             IF Len(break_targets) = 0 THEN 0 ELSE Len(break_targets) - 1
    BY <2>1, FrontOfSequence DEF TargetsInv
  <2> QED BY <2>1, <2>2, MaxDepthAssumption DEF TargetsInv
<1>6. CASE EmitExpression \/ EmitReturn \/ EmitBreak \/ EmitContinue \/ EmitGoto
  BY <1>1, <1>6 DEF EmitExpression, EmitReturn, EmitBreak, EmitContinue,
       EmitGoto, Fail, targets
<1>7. CASE EmitLabel \/ EnterCompound \/ EmitItem \/ LeaveCompound \/ EnterIf
  BY <1>1, <1>7 DEF EmitLabel, EnterCompound, EmitItem, LeaveCompound,
       EnterIf, targets
<1>8. CASE AfterThen \/ AfterElse \/ EnterFor \/ EmitCase
  BY <1>1, <1>8 DEF AfterThen, AfterElse, EnterFor, EmitCase, Fail, targets
<1>9. CASE NestingExceeded \/ FinishFunction
  BY <1>1, <1>9 DEF NestingExceeded, FinishFunction, Fail, targets
<1> QED BY <1>2, <1>3, <1>4, <1>5, <1>6, <1>7, <1>8, <1>9 DEF Emit

LEMMA NextKeepsTargets == TargetsInv /\ [Next]_vars => TargetsInv'
<1> SUFFICES ASSUME TargetsInv, [Next]_vars PROVE TargetsInv'
  OBVIOUS
<1>1. CASE EmitStep
  BY <1>1, EmitKeepsTargets DEF EmitStep
<1>2. CASE UNCHANGED vars \/ Assemble \/ SourceStep \/ MachineStep
             \/ \E v \in Values : Evaluate(v)
  <2>1. UNCHANGED <<loop_targets, break_targets>>
    BY <1>2, Zenon DEF vars, emitVars, targets, Assemble, SourceStep,
         MachineStep, Evaluate
  <2> QED BY <2>1 DEF TargetsInv, IsSomeSequence
<1> QED BY <1>1, <1>2 DEF Next

\* The arrays of break and continue targets, which have room for MaxDepth
\* enclosing statements, are never written past their end.
THEOREM TargetsNeverOverflow == Spec => []TargetArraysSuffice
<1>1. InitFunction => TargetsInv
  <2>1. << >> \in Seq({}) /\ Len(<< >>) = 0
    OBVIOUS
  <2> QED BY <2>1, MaxDepthAssumption
       DEF InitFunction, Init, TargetsInv, IsSomeSequence
<1>2. TargetsInv => TargetArraysSuffice
  BY DEF TargetsInv, TargetArraysSuffice
<1> QED BY <1>1, <1>2, NextKeepsTargets, PTL DEF Spec

-----------------------------------------------------------------------------
(***************************************************************************)
(* The calls in progress: each is for a statement of the body.             *)
(***************************************************************************)
CallsOf(tree, K, L, V) ==
  [at : DOMAIN tree, step : K, next : Nat \ {0}, labels : L, saved : V]
IsCall(tree, c) == \E K, L, V : c \in CallsOf(tree, K, L, V)
AreCalls(tree, s) == \E S : s \in Seq(S) /\ \A c \in S : IsCall(tree, c)

CallsInv == program \in Programs /\ AreCalls(program, calls)

LEMMA EntryIsCall ==
  ASSUME NEW tree, NEW p \in DOMAIN tree PROVE IsCall(tree, Entry(p))
<1> DEFINE L == {<< >>}
           V == {{}}
           K == {"enter"}
<1>1. << >> \in L /\ {} \in V /\ 1 \in Nat \ {0} /\ "enter" \in K
  OBVIOUS
<1> HIDE DEF K, L, V
<1>2. Entry(p) \in CallsOf(tree, K, L, V)
  BY <1>1 DEF Entry, CallsOf
<1> QED BY <1>2 DEF IsCall

\* The ways a call in progress changes.
LEMMA ChangedIsCall ==
  ASSUME NEW tree, NEW c, IsCall(tree, c),
         NEW step, NEW labels, NEW saved
  PROVE  /\ IsCall(tree, [c EXCEPT !.step = step])
         /\ IsCall(tree, [c EXCEPT !.next = @ + 1])
         /\ IsCall(tree, [c EXCEPT !.step = step, !.labels = labels])
         /\ IsCall(tree, [c EXCEPT !.step = step, !.labels = labels,
                                  !.saved = saved])
<1>1. PICK K, L, V : c \in CallsOf(tree, K, L, V)
  BY DEF IsCall
<1> DEFINE J == K \cup {step}
           M == L \cup {labels}
           W == V \cup {saved}
<1>3. [c EXCEPT !.next = @ + 1] \in CallsOf(tree, K, L, V)
  BY <1>1 DEF CallsOf
<1>4. c \in CallsOf(tree, J, M, W) /\ step \in J /\ labels \in M /\ saved \in W
  BY <1>1 DEF CallsOf
<1> HIDE DEF J, M, W
<1>2. [c EXCEPT !.step = step] \in CallsOf(tree, J, M, W)
  BY <1>4 DEF CallsOf
<1>5. /\ [c EXCEPT !.step = step, !.labels = labels] \in CallsOf(tree, J, M, W)
      /\ [c EXCEPT !.step = step, !.labels = labels, !.saved = saved]
           \in CallsOf(tree, J, M, W)
  BY <1>4 DEF CallsOf
<1> QED BY <1>2, <1>3, <1>5 DEF IsCall

LEMMA NoCalls == ASSUME NEW tree PROVE AreCalls(tree, << >>)
<1> DEFINE S == {}
<1>1. << >> \in Seq(S) /\ \A c \in S : IsCall(tree, c)
  OBVIOUS
<1> HIDE DEF S
<1> QED BY <1>1 DEF AreCalls

LEMMA AppendedAreCalls ==
  ASSUME NEW tree, NEW s, AreCalls(tree, s), NEW c, IsCall(tree, c)
  PROVE  AreCalls(tree, Append(s, c))
<1>1. PICK S : s \in Seq(S) /\ \A d \in S : IsCall(tree, d)
  BY DEF AreCalls
<1> DEFINE T == S \cup {c}
<1>2. s \in Seq(T) /\ c \in T /\ \A d \in T : IsCall(tree, d)
  BY <1>1
<1> HIDE DEF T
<1>3. Append(s, c) \in Seq(T)
  BY <1>2
<1> QED BY <1>2, <1>3 DEF AreCalls

LEMMA FrontAreCalls ==
  ASSUME NEW tree, NEW s, AreCalls(tree, s), s # << >>
  PROVE  AreCalls(tree, Front(s)) /\ IsCall(tree, Last(s))
<1>1. PICK S : s \in Seq(S) /\ \A d \in S : IsCall(tree, d)
  BY DEF AreCalls
<1>2. Len(s) \in Nat \ {0} /\ s[Len(s)] \in S
  BY <1>1
<1> DEFINE n == Len(s) - 1
<1>3. n \in Int /\ n >= 0 /\ \A i \in 1..n : s[i] \in S
  BY <1>1, <1>2
<1>4. Front(s) = SubSeq(s, 1, n) /\ Last(s) = s[Len(s)]
  BY DEF Front, Last
<1> HIDE DEF n
<1>5. Front(s) \in Seq(S)
  BY <1>3, <1>4, SubSeqProperties
<1> QED BY <1>1, <1>2, <1>4, <1>5 DEF AreCalls

\* The running call, changed, is for the same statement.
LEMMA RunningCallChanged ==
  ASSUME CallsInv, calls # << >>
  PROVE  /\ IsCall(program, [Call EXCEPT !.next = @ + 1])
         /\ \A step : IsCall(program, [Call EXCEPT !.step = step])
         /\ \A step, labels :
              IsCall(program, [Call EXCEPT !.step = step, !.labels = labels])
         /\ \A step, labels, saved :
              IsCall(program, [Call EXCEPT !.step = step, !.labels = labels,
                                           !.saved = saved])
<1>1. IsCall(program, Call)
  BY FrontAreCalls DEF CallsInv, Call
<1>2. ASSUME NEW step, NEW labels, NEW saved
      PROVE  /\ IsCall(program, [Call EXCEPT !.step = step])
             /\ IsCall(program, [Call EXCEPT !.next = @ + 1])
             /\ IsCall(program, [Call EXCEPT !.step = step, !.labels = labels])
             /\ IsCall(program, [Call EXCEPT !.step = step, !.labels = labels,
                                             !.saved = saved])
  BY <1>1, ChangedIsCall, Zenon
<1> QED BY <1>2, Zenon

\* The three ways an emit call goes on.
LEMMA ReturnKeepsCalls ==
  ASSUME CallsInv, calls # << >>, Return, UNCHANGED program PROVE CallsInv'
<1>1. AreCalls(program, Front(calls))
  BY FrontAreCalls DEF CallsInv
<1> QED BY <1>1 DEF CallsInv, Return

LEMMA ReplacedKeepsCalls ==
  ASSUME CallsInv, calls # << >>, UNCHANGED program,
         NEW c, IsCall(program, c), calls' = Append(Front(calls), c)
  PROVE  CallsInv'
<1>1. AreCalls(program, Front(calls))
  BY FrontAreCalls DEF CallsInv
<1>2. AreCalls(program, Append(Front(calls), c))
  BY <1>1, AppendedAreCalls
<1> QED BY <1>2 DEF CallsInv

LEMMA EmittingKeepsCalls ==
  ASSUME CallsInv, calls # << >>, UNCHANGED program,
         NEW c, IsCall(program, c), NEW p \in DOMAIN program, Emitting(c, p)
  PROVE  CallsInv'
<1>1. AreCalls(program, Front(calls))
  BY FrontAreCalls DEF CallsInv
<1>2. IsCall(program, Entry(p))
  BY EntryIsCall
<1>3. AreCalls(program, Append(Append(Front(calls), c), Entry(p)))
  BY <1>1, <1>2, AppendedAreCalls
<1>4. calls' = Append(Append(Front(calls), c), Entry(p))
  <2>1. PICK S : Front(calls) \in Seq(S)
    BY <1>1 DEF AreCalls
  <2> DEFINE f == Front(calls)
             e == Entry(p)
             T == S \cup {c, e}
  <2>2. f \in Seq(T) /\ c \in T /\ e \in T
    BY <2>1
  <2>3. calls' = f \o <<c, e>>
    BY DEF Emitting
  <2> HIDE DEF f, e, T
  <2>4. f \o <<c, e>> = Append(Append(f, c), e)
    BY <2>2
  <2> QED BY <2>3, <2>4 DEF f, e
<1> QED BY <1>3, <1>4 DEF CallsInv

LEMMA FailKeepsCalls ==
  ASSUME CallsInv, NEW why, Fail(why) PROVE CallsInv'
<1>1. AreCalls(program, << >>)
  BY NoCalls
<1> QED BY <1>1 DEF Fail, CallsInv

LEMMA CallIsInBody ==
  ASSUME CallsInv, calls # << >>
  PROVE  /\ IsCall(program, Call) /\ Call.at \in DOMAIN program
         /\ Call.next \in Nat \ {0} /\ Node = program[Call.at]
         /\ \A i \in 1..Node.kids : Kid(Call.at, i) \in DOMAIN program
         /\ Node.kids \in Nat
         /\ Node.kind \in Loops \cup {"if", "switch", "case", "default", "label"} =>
              Node.kids > 0
<1>1. IsCall(program, Call)
  BY FrontAreCalls DEF CallsInv, Call
<1>2. Call.at \in DOMAIN program /\ Call.next \in Nat \ {0}
  BY <1>1 DEF IsCall, CallsOf
<1>3. WellFormed(program)
  BY ProgramsAssumption DEF CallsInv
<1>4. Node = program[Call.at]
  BY DEF Node
<1>5. Node.kids \in Nat /\ \A i \in 1..Node.kids : Kid(Call.at, i) \in DOMAIN program
  BY <1>2, <1>3, <1>4 DEF WellFormed
<1>6. Node.kind \in Loops \cup {"if", "switch", "case", "default", "label"} =>
        Node.kids \in 1..2
  BY <1>2, <1>3, <1>4 DEF WellFormed, Loops
<1> QED BY <1>1, <1>2, <1>4, <1>5, <1>6

\* A statement that goes on to its child, first or last.
LEMMA FirstKid ==
  ASSUME CallsInv, calls # << >>, 
         Node.kind \in Loops \cup {"if", "switch", "case", "default", "label"}
  PROVE  /\ Kid(Call.at, 1) \in DOMAIN program
         /\ Kid(Call.at, Node.kids) \in DOMAIN program
<1>1. Node.kids \in Nat /\ Node.kids > 0
  BY CallIsInBody
<1>2. 1 \in 1..Node.kids /\ Node.kids \in 1..Node.kids
  BY <1>1
<1> QED BY <1>2, CallIsInBody

LEMMA EmitKeepsCalls == CallsInv /\ Emit => CallsInv'
<1> SUFFICES ASSUME CallsInv, Emit PROVE CallsInv'
  OBVIOUS
<1>1. CASE EmitExpression \/ EmitReturn \/ EmitGoto \/ LeaveCompound
             \/ AfterElse \/ AfterWhileBody \/ AfterDoBody \/ AfterForBody
             \/ AfterSwitchBody
  <2>1. calls # << >> /\ Return /\ UNCHANGED program
    BY <1>1, Zenon DEF EmitExpression, EmitReturn, EmitGoto, LeaveCompound,
         AfterElse, AfterWhileBody, AfterDoBody, AfterForBody, AfterSwitchBody, At
  <2> QED BY <2>1, ReturnKeepsCalls
<1>2. ASSUME NEW why, Fail(why) PROVE CallsInv'
  BY <1>2, FailKeepsCalls
<1>3. CASE EmitBreak \/ EmitContinue
  <2>1. CASE Fail("internal error")
    BY <2>1, <1>2
  <2>2. CASE ~Fail("internal error")
    <3>1. calls # << >> /\ Return /\ UNCHANGED program
      BY <1>3, <2>2 DEF EmitBreak, EmitContinue, At
    <3> QED BY <3>1, ReturnKeepsCalls
  <2> QED BY <2>1, <2>2
<1>4. CASE EmitLabel \/ EmitCase
  <2>1. CASE Fail("internal error")
    BY <2>1, <1>2
  <2>2. CASE ~Fail("internal error")
    <3>1. /\ calls # << >> /\ UNCHANGED program
          /\ calls' = Append(Front(calls), Entry(Kid(Call.at, 1)))
          /\ Node.kind \in {"label", "case", "default"}
      BY <1>4, <2>2, Zenon DEF EmitLabel, EmitCase, At
    <3>2. IsCall(program, Entry(Kid(Call.at, 1)))
      BY <3>1, FirstKid, EntryIsCall
    <3> QED BY <3>1, <3>2, ReplacedKeepsCalls
  <2> QED BY <2>1, <2>2
<1>5. CASE EnterCompound
  <2>1. /\ calls # << >> /\ UNCHANGED program
        /\ calls' = Append(Front(calls), [Call EXCEPT !.step = "items"])
    BY <1>5 DEF EnterCompound, At
  <2>2. IsCall(program, [Call EXCEPT !.step = "items"])
    BY <2>1, RunningCallChanged, Zenon
  <2> QED BY <2>1, <2>2, ReplacedKeepsCalls
<1>6. CASE EmitItem
  <2>1. /\ calls # << >> /\ UNCHANGED program /\ Call.next <= Node.kids
        /\ Emitting([Call EXCEPT !.next = @ + 1], Kid(Call.at, Call.next))
    BY <1>6 DEF EmitItem, At
  <2>2. IsCall(program, [Call EXCEPT !.next = @ + 1])
    BY <2>1, RunningCallChanged, Zenon
  <2>3. Call.next \in 1..Node.kids
    BY <2>1, CallIsInBody
  <2>4. Kid(Call.at, Call.next) \in DOMAIN program
    BY <2>1, <2>3, CallIsInBody
  <2> QED BY <2>1, <2>2, <2>4, EmittingKeepsCalls
<1>7. CASE AfterThen
  <2>1. calls # << >> /\ UNCHANGED program /\ Node.kind = "if"
    BY <1>7 DEF AfterThen, At
  <2>2. CASE Node.kids = 2
    <3>1. Emitting([Call EXCEPT !.step = "else"], Kid(Call.at, 2))
      BY <1>7, <2>2 DEF AfterThen
    <3>2. IsCall(program, [Call EXCEPT !.step = "else"])
      BY <2>1, RunningCallChanged, Zenon
    <3>3. 2 \in 1..Node.kids
      BY <2>2
    <3>4. Kid(Call.at, 2) \in DOMAIN program
      BY <2>1, <3>3, CallIsInBody
    <3> QED BY <2>1, <3>1, <3>2, <3>4, EmittingKeepsCalls
  <2>3. CASE Node.kids # 2
    <3>1. Return
      BY <1>7, <2>3 DEF AfterThen
    <3> QED BY <2>1, <3>1, ReturnKeepsCalls
  <2> QED BY <2>2, <2>3
<1>8. CASE EnterIf \/ EnterWhile \/ EnterDo \/ ForTest
  <2>1. /\ calls # << >> /\ UNCHANGED program
        /\ Node.kind \in Loops \cup {"if"}
        /\ \E step, labels, kid : kid \in {1, Node.kids} /\
             Emitting([Call EXCEPT !.step = step, !.labels = labels],
                      Kid(Call.at, kid))
    <3>1. CASE EnterIf
      <4>1. calls # << >> /\ Node.kind \in Loops \cup {"if"} /\ UNCHANGED program
        BY <3>1 DEF EnterIf, At, Loops
      <4>2. Emitting([Call EXCEPT !.step = "then", !.labels = <<New(1), New(2)>>],
                     Kid(Call.at, 1))
        BY <3>1 DEF EnterIf
      <4> QED BY <4>1, <4>2, Zenon
    <3>2. CASE EnterWhile
      <4>1. calls # << >> /\ Node.kind \in Loops \cup {"if"} /\ UNCHANGED program
        BY <3>2 DEF EnterWhile, At, Loops
      <4>2. Emitting([Call EXCEPT !.step = "body", !.labels = <<New(1), New(2)>>],
                     Kid(Call.at, 1))
        BY <3>2 DEF EnterWhile
      <4> QED BY <4>1, <4>2, Zenon
    <3>3. CASE EnterDo
      <4>1. calls # << >> /\ Node.kind \in Loops \cup {"if"} /\ UNCHANGED program
        BY <3>3 DEF EnterDo, At, Loops
      <4>2. Emitting([Call EXCEPT !.step = "body", !.labels = <<New(1), New(2), New(3)>>],
                     Kid(Call.at, 1))
        BY <3>3 DEF EnterDo
      <4> QED BY <4>1, <4>2, Zenon
    <3>4. CASE ForTest
      <4>1. calls # << >> /\ Node.kind \in Loops \cup {"if"} /\ UNCHANGED program
        BY <3>4 DEF ForTest, At, Loops
      <4>2. Emitting([Call EXCEPT !.step = "body", !.labels = <<New(1), New(2), New(3)>>],
                     Kid(Call.at, Node.kids))
        BY <3>4 DEF ForTest
      <4> QED BY <4>1, <4>2, Zenon
    <3> QED BY <1>8, <3>1, <3>2, <3>3, <3>4
  <2>2. PICK step, labels, kid : kid \in {1, Node.kids} /\
          Emitting([Call EXCEPT !.step = step, !.labels = labels],
                   Kid(Call.at, kid))
    BY <2>1
  <2>3. IsCall(program, [Call EXCEPT !.step = step, !.labels = labels])
    BY <2>1, RunningCallChanged, Zenon
  <2>4. Kid(Call.at, kid) \in DOMAIN program
    BY <2>1, <2>2, FirstKid
  <2> QED BY <2>1, <2>2, <2>3, <2>4, EmittingKeepsCalls
<1>9. CASE EnterFor
  <2>1. calls # << >> /\ UNCHANGED program /\ Node.kind \in Loops
    BY <1>9 DEF EnterFor, At, Loops
  <2>2. IsCall(program, [Call EXCEPT !.step = "test"])
    BY <2>1, RunningCallChanged, Zenon
  <2>3. Kid(Call.at, 1) \in DOMAIN program
    BY <2>1, FirstKid
  <2>4. \/ Emitting([Call EXCEPT !.step = "test"], Kid(Call.at, 1))
        \/ calls' = Append(Front(calls), [Call EXCEPT !.step = "test"])
    BY <1>9 DEF EnterFor
  <2> QED BY <2>1, <2>2, <2>3, <2>4, EmittingKeepsCalls, ReplacedKeepsCalls
<1>10. CASE EnterSwitch
  <2>1. /\ calls # << >> /\ UNCHANGED program /\ Node.kind = "switch"
        /\ \E labels :
             Emitting([Call EXCEPT !.step = "body", !.labels = labels,
                                   !.saved = switch_cases], Kid(Call.at, 1))
    BY <1>10 DEF EnterSwitch, At
  <2>2. PICK labels :
          Emitting([Call EXCEPT !.step = "body", !.labels = labels,
                                !.saved = switch_cases], Kid(Call.at, 1))
    BY <2>1
  <2>3. IsCall(program, [Call EXCEPT !.step = "body", !.labels = labels,
                                     !.saved = switch_cases])
    BY <2>1, RunningCallChanged, Zenon
  <2>4. Kid(Call.at, 1) \in DOMAIN program
    BY <2>1, FirstKid
  <2> QED BY <2>1, <2>2, <2>3, <2>4, EmittingKeepsCalls
<1>11. CASE NestingExceeded
  BY <1>11, <1>2 DEF NestingExceeded
<1>12. CASE FinishFunction
  BY <1>12 DEF FinishFunction, CallsInv
<1> QED BY <1>1, <1>3, <1>4, <1>5, <1>6, <1>7, <1>8, <1>9, <1>10, <1>11, <1>12
     DEF Emit

-----------------------------------------------------------------------------
(***************************************************************************)
(* The calls in progress are nested as their statements are: each is for a *)
(* statement around those of the calls it has made, and a loop or a switch *)
(* around the statement being emitted is one whose body is being emitted.  *)
(***************************************************************************)
Targeted == Loops \cup {"switch"}

\* The calls at a step of statements of some kinds.
IsAt(tree, c, step, kinds) == c.step = step /\ tree[c.at].kind \in kinds
CallsAt(tree, s, step, kinds) == {i \in 1..Len(s) : IsAt(tree, s[i], step, kinds)}

IsBodyOf(tree, c, kinds) == IsAt(tree, c, "body", kinds)
BodiesOf(tree, s, kinds) == CallsAt(tree, s, "body", kinds)

\* A call for the statement at p may follow the first n calls of s.
PlacedAfter(tree, s, n, p) ==
  /\ \A j \in 1..n : s[j].at \in Ancestors(p)
  /\ tree[p].kind # "expression" =>
       \A a \in Ancestors(p) :
         /\ tree[a].kind \in LookedInto \cup {"switch"}
         /\ tree[a].kind \in Targeted =>
              \E j \in 1..n : s[j].at = a /\ s[j].step = "body"
Nested(tree, s) == \A i \in 1..Len(s) : PlacedAfter(tree, s, i - 1, s[i].at)

CasesIn(tree, s) ==
  {p \in DOMAIN tree :
     /\ tree[p].kind \in {"case", "default"}
     /\ IsStrictPrefix(s, p)
     /\ \A a \in Ancestors(p) : IsStrictPrefix(s, a) => tree[a].kind \in LookedInto}
HoldsCases(tree, cases, s) ==
  \A p \in CasesIn(tree, s) : \E c \in cases : c.statement = p

\* The innermost switch has its cases in the table, the one around it in what
\* the call for the inner one has saved.
CasesHeld(tree, s, cases) ==
  LET switches == BodiesOf(tree, s, {"switch"})
  IN /\ \A j \in switches :
          (\A k \in switches : k <= j) => HoldsCases(tree, cases, s[j].at)
     /\ \A j, m \in switches :
          j < m /\ (\A k \in switches : k < m => k <= j) =>
            HoldsCases(tree, s[m].saved, s[j].at)

\* How many targets there are and which cases, for the calls s.
TargetsFit(tree, s, loops, breaks, cases) ==
  /\ loops = Cardinality(BodiesOf(tree, s, Loops))
  /\ breaks = Cardinality(BodiesOf(tree, s, Targeted))
  /\ CasesHeld(tree, s, cases)

LEMMA AppendedAt ==
  ASSUME NEW s, IsSomeSequence(s), NEW c
  PROVE  /\ Len(s) \in Nat /\ Len(Append(s, c)) = Len(s) + 1
         /\ \A i \in 1..Len(s) : Append(s, c)[i] = s[i]
         /\ Append(s, c)[Len(s) + 1] = c
         /\ IsSomeSequence(Append(s, c))
<1>1. PICK S : s \in Seq(S)
  BY DEF IsSomeSequence
<1> DEFINE T == S \cup {c}
<1>2. s \in Seq(T) /\ c \in T
  BY <1>1
<1> HIDE DEF T
<1> QED BY <1>2, AppendProperties DEF IsSomeSequence

LEMMA CallsAtAppended ==
  ASSUME NEW tree, NEW s, IsSomeSequence(s), NEW c, NEW step, NEW kinds
  PROVE  /\ CallsAt(tree, s, step, kinds) \subseteq 1..Len(s)
         /\ ~IsAt(tree, c, step, kinds) =>
              CallsAt(tree, Append(s, c), step, kinds) = CallsAt(tree, s, step, kinds)
         /\ IsAt(tree, c, step, kinds) =>
              CallsAt(tree, Append(s, c), step, kinds) =
                CallsAt(tree, s, step, kinds) \cup {Len(s) + 1}
<1> DEFINE t == Append(s, c)
           n == Len(s)
<1>1. /\ n \in Nat /\ Len(t) = n + 1 /\ t[n + 1] = c
      /\ \A i \in 1..n : t[i] = s[i]
  BY AppendedAt
<1>2. 1..Len(t) = 1..n \cup {n + 1}
  BY <1>1
<1> HIDE DEF t
<1>3. CallsAt(tree, t, step, kinds) =
        {i \in 1..n : IsAt(tree, t[i], step, kinds)}
          \cup {i \in {n + 1} : IsAt(tree, t[i], step, kinds)}
  BY <1>2 DEF CallsAt
<1>4. {i \in 1..n : IsAt(tree, t[i], step, kinds)} = CallsAt(tree, s, step, kinds)
  BY <1>1 DEF CallsAt
<1>5. {i \in {n + 1} : IsAt(tree, t[i], step, kinds)} =
        IF IsAt(tree, c, step, kinds) THEN {n + 1} ELSE {}
  BY <1>1
<1> QED BY <1>3, <1>4, <1>5 DEF t, CallsAt

LEMMA CallsCounted ==
  ASSUME NEW tree, NEW s, IsSomeSequence(s), NEW c, NEW step, NEW kinds
  PROVE  /\ Cardinality(CallsAt(tree, s, step, kinds)) \in Nat
         /\ Cardinality(CallsAt(tree, s, step, kinds)) <= Len(s)
         /\ Cardinality(CallsAt(tree, s, step, kinds)) = 0
              <=> CallsAt(tree, s, step, kinds) = {}
         /\ Cardinality(CallsAt(tree, Append(s, c), step, kinds)) =
              IF IsAt(tree, c, step, kinds)
              THEN Cardinality(CallsAt(tree, s, step, kinds)) + 1
              ELSE Cardinality(CallsAt(tree, s, step, kinds))
<1> DEFINE B == CallsAt(tree, s, step, kinds)
           n == Len(s)
<1>1. n \in Nat /\ B \subseteq 1..n
  BY AppendedAt, CallsAtAppended
<1> HIDE DEF B, n
<1>2. IsFiniteSet(1..n) /\ Cardinality(1..n) = n
  BY <1>1, FS_Interval
<1>3. IsFiniteSet(B) /\ Cardinality(B) <= n
  BY <1>1, <1>2, FS_Subset
<1>4. Cardinality(B) \in Nat /\ (Cardinality(B) = 0 <=> B = {})
  BY <1>3, FS_CardinalityType, FS_EmptySet
<1>5. n + 1 \notin B
  BY <1>1
<1>6. Cardinality(B \cup {n + 1}) = Cardinality(B) + 1
  BY <1>3, <1>5, FS_AddElement
<1>7. CallsAt(tree, Append(s, c), step, kinds) =
        IF IsAt(tree, c, step, kinds) THEN B \cup {n + 1} ELSE B
  <2>1. CASE IsAt(tree, c, step, kinds)
    BY <2>1, CallsAtAppended DEF B, n
  <2>2. CASE ~IsAt(tree, c, step, kinds)
    BY <2>2, CallsAtAppended DEF B, n
  <2> QED BY <2>1, <2>2
<1> QED BY <1>3, <1>4, <1>6, <1>7 DEF B, n

LEMMA BodiesOfAppended ==
  ASSUME NEW tree, NEW s, IsSomeSequence(s), NEW c, NEW kinds
  PROVE  /\ BodiesOf(tree, s, kinds) \subseteq 1..Len(s)
         /\ ~IsBodyOf(tree, c, kinds) =>
              BodiesOf(tree, Append(s, c), kinds) = BodiesOf(tree, s, kinds)
         /\ IsBodyOf(tree, c, kinds) =>
              BodiesOf(tree, Append(s, c), kinds) =
                BodiesOf(tree, s, kinds) \cup {Len(s) + 1}
BY CallsAtAppended DEF BodiesOf, IsBodyOf

LEMMA BodiesCounted ==
  ASSUME NEW tree, NEW s, IsSomeSequence(s), NEW c, NEW kinds
  PROVE  /\ Cardinality(BodiesOf(tree, s, kinds)) \in Nat
         /\ Cardinality(BodiesOf(tree, s, kinds)) = 0 <=> BodiesOf(tree, s, kinds) = {}
         /\ Cardinality(BodiesOf(tree, Append(s, c), kinds)) =
              IF IsBodyOf(tree, c, kinds)
              THEN Cardinality(BodiesOf(tree, s, kinds)) + 1
              ELSE Cardinality(BodiesOf(tree, s, kinds))
BY CallsCounted DEF BodiesOf, IsBodyOf

\* A call that is not for the body of a loop or switch adds no target.
LEMMA PlainCallFits ==
  ASSUME NEW tree, NEW s, IsSomeSequence(s), NEW c, ~IsBodyOf(tree, c, Targeted),
         NEW l, NEW b, NEW cases
  PROVE  TargetsFit(tree, Append(s, c), l, b, cases) <=> TargetsFit(tree, s, l, b, cases)
<1> DEFINE t == Append(s, c)
<1>1. ~IsBodyOf(tree, c, Loops) /\ ~IsBodyOf(tree, c, {"switch"})
  BY DEF IsBodyOf, IsAt, Targeted
<1>2. ASSUME NEW kinds, ~IsBodyOf(tree, c, kinds)
      PROVE  BodiesOf(tree, t, kinds) = BodiesOf(tree, s, kinds)
  BY <1>2, BodiesOfAppended
<1>3. \A i \in BodiesOf(tree, s, {"switch"}) : t[i] = s[i]
  BY AppendedAt, BodiesOfAppended
<1> HIDE DEF t
<1>5. /\ BodiesOf(tree, t, Loops) = BodiesOf(tree, s, Loops)
      /\ BodiesOf(tree, t, Targeted) = BodiesOf(tree, s, Targeted)
      /\ BodiesOf(tree, t, {"switch"}) = BodiesOf(tree, s, {"switch"})
  BY <1>1, <1>2
<1>4. CasesHeld(tree, t, cases) <=> CasesHeld(tree, s, cases)
  BY <1>3, <1>5 DEF CasesHeld
<1> QED BY <1>4, <1>5 DEF TargetsFit, t

LEMMA LoopBodyFits ==
  ASSUME NEW tree, NEW s, IsSomeSequence(s), NEW c, IsBodyOf(tree, c, Loops),
         NEW l \in Int, NEW b \in Int, NEW cases
  PROVE  TargetsFit(tree, Append(s, c), l, b, cases) <=>
           TargetsFit(tree, s, l - 1, b - 1, cases)
<1> DEFINE t == Append(s, c)
<1>1. IsBodyOf(tree, c, Targeted) /\ ~IsBodyOf(tree, c, {"switch"})
  BY DEF IsBodyOf, IsAt, Targeted, Loops
<1>2. BodiesOf(tree, t, {"switch"}) = BodiesOf(tree, s, {"switch"})
  BY <1>1, BodiesOfAppended
<1>3. \A i \in BodiesOf(tree, s, {"switch"}) : t[i] = s[i]
  BY AppendedAt, BodiesOfAppended
<1> DEFINE x == Cardinality(BodiesOf(tree, s, Loops))
           y == Cardinality(BodiesOf(tree, s, Targeted))
<1>5. /\ x \in Nat /\ y \in Nat
      /\ Cardinality(BodiesOf(tree, t, Loops)) = x + 1
      /\ Cardinality(BodiesOf(tree, t, Targeted)) = y + 1
  BY <1>1, BodiesCounted
<1> HIDE DEF t
<1>4. CasesHeld(tree, t, cases) <=> CasesHeld(tree, s, cases)
  BY <1>2, <1>3 DEF CasesHeld
<1> HIDE DEF x, y
<1>6. (l = x + 1 <=> l - 1 = x) /\ (b = y + 1 <=> b - 1 = y)
  BY <1>5
<1> QED BY <1>4, <1>5, <1>6 DEF TargetsFit, t, x, y

LEMMA SwitchBodyFits ==
  ASSUME NEW tree, NEW s, IsSomeSequence(s), NEW c, IsBodyOf(tree, c, {"switch"}),
         NEW l \in Int, NEW b \in Int, NEW cases
  PROVE  TargetsFit(tree, Append(s, c), l, b, cases) <=>
           /\ TargetsFit(tree, s, l, b - 1, c.saved)
           /\ HoldsCases(tree, cases, c.at)
<1> DEFINE t == Append(s, c)
           n == Len(s)
           B == BodiesOf(tree, s, {"switch"})
<1>1. IsBodyOf(tree, c, Targeted) /\ ~IsBodyOf(tree, c, Loops)
  BY DEF IsBodyOf, IsAt, Targeted, Loops
<1>2. BodiesOf(tree, t, {"switch"}) = B \cup {n + 1}
  BY BodiesOfAppended
<1>3. /\ n \in Nat /\ B \subseteq 1..n /\ t[n + 1] = c
      /\ \A i \in B : t[i] = s[i]
  BY AppendedAt, BodiesOfAppended
<1> DEFINE y == Cardinality(BodiesOf(tree, s, Targeted))
<1>5. /\ y \in Nat
      /\ Cardinality(BodiesOf(tree, t, Loops)) = Cardinality(BodiesOf(tree, s, Loops))
      /\ Cardinality(BodiesOf(tree, t, Targeted)) = y + 1
  BY <1>1, BodiesCounted
<1> HIDE DEF t, n, B
<1>4. CasesHeld(tree, t, cases) <=>
        CasesHeld(tree, s, c.saved) /\ HoldsCases(tree, cases, c.at)
  <2>1. \A j \in B : j \in Nat /\ j < n + 1 /\ j <= n + 1 /\ ~(n + 1 <= j) /\ ~(n + 1 < j)
    BY <1>3
  <2> DEFINE A1 == \A j \in B \cup {n + 1} : (\A k \in B \cup {n + 1} : k <= j) =>
                      HoldsCases(tree, cases, t[j].at)
             A2 == \A j, m \in B \cup {n + 1} :
                      j < m /\ (\A k \in B \cup {n + 1} : k < m => k <= j) =>
                        HoldsCases(tree, t[m].saved, t[j].at)
             C1 == \A j \in B : (\A k \in B : k <= j) => HoldsCases(tree, c.saved, s[j].at)
             C2 == \A j, m \in B : j < m /\ (\A k \in B : k < m => k <= j) =>
                        HoldsCases(tree, s[m].saved, s[j].at)
  <2>2. CasesHeld(tree, t, cases) <=> A1 /\ A2
    BY <1>2 DEF CasesHeld
  <2>3. CasesHeld(tree, s, c.saved) <=> C1 /\ C2
    BY DEF CasesHeld, B
  <2>4. A1 <=> HoldsCases(tree, cases, c.at)
    <3>1. ASSUME NEW j \in B PROVE ~(\A k \in B \cup {n + 1} : k <= j)
      BY <2>1
    <3>2. \A k \in B \cup {n + 1} : k <= n + 1
      BY <1>3, <2>1
    <3>3. A1 <=> HoldsCases(tree, cases, t[n + 1].at)
      BY <3>1, <3>2
    <3> QED BY <1>3, <3>3
  <2>5. A2 <=> C1 /\ C2
    <3>1. n + 1 <= n + 1 /\ ~(n + 1 < n + 1)
      BY <1>3
    <3>2. A2 <=> /\ \A j \in B : (\A k \in B \cup {n + 1} : k < n + 1 => k <= j) =>
                        HoldsCases(tree, t[n + 1].saved, t[j].at)
                 /\ \A j, m \in B : j < m /\ (\A k \in B \cup {n + 1} : k < m => k <= j) =>
                        HoldsCases(tree, t[m].saved, t[j].at)
      BY <2>1, <3>1
    <3> QED BY <1>3, <2>1, <3>1, <3>2
  <2> QED BY <2>2, <2>3, <2>4, <2>5
<1> HIDE DEF y
<1>6. b = y + 1 <=> b - 1 = y
  BY <1>5
<1> QED BY <1>4, <1>5, <1>6 DEF TargetsFit, t, y

-----------------------------------------------------------------------------
LEMMA AncestorsOfKid ==
  ASSUME NEW p \in Seq(Nat), NEW i \in Nat
  PROVE  Ancestors(Kid(p, i)) = Ancestors(p) \cup {p}
<1> DEFINE q == Append(p, i)
           n == Len(p)
<1>1. /\ n \in Nat /\ Len(q) = n + 1 /\ q \in Seq(Nat)
      /\ \A j \in 1..n : q[j] = p[j]
  BY AppendProperties
<1>2. ASSUME NEW m \in 0..n PROVE SubSeq(q, 1, m) = SubSeq(p, 1, m)
  <2>1. \A j \in 1..m : p[j] \in Nat /\ q[j] = p[j]
    BY <1>1
  <2>2. /\ SubSeq(q, 1, m) \in Seq(Nat) /\ Len(SubSeq(q, 1, m)) = m
        /\ SubSeq(p, 1, m) \in Seq(Nat) /\ Len(SubSeq(p, 1, m)) = m
        /\ \A j \in 1..m : SubSeq(q, 1, m)[j] = q[j] /\ SubSeq(p, 1, m)[j] = p[j]
    <3> HIDE DEF q
    <3> QED BY <1>1, <2>1, SubSeqProperties
  <2> HIDE DEF q
  <2> QED BY <2>1, <2>2, SeqEqual
<1>3. SubSeq(p, 1, n) = p
  BY SubSeqFull
<1>4. 0..n = 0..n - 1 \cup {n} /\ n + 1 - 1 = n
  BY <1>1
<1> HIDE DEF q, n
<1>5. {SubSeq(q, 1, m) : m \in 0..n} = {SubSeq(p, 1, m) : m \in 0..n - 1} \cup {p}
  BY <1>2, <1>3, <1>4
<1>6. Ancestors(q) = {SubSeq(q, 1, m) : m \in 0..n}
  BY <1>1, <1>4 DEF Ancestors
<1>7. Ancestors(p) = {SubSeq(p, 1, m) : m \in 0..n - 1}
  BY DEF Ancestors, n
<1> QED BY <1>5, <1>6, <1>7 DEF q, Kid

LEMMA AncestorIsPrefix ==
  ASSUME NEW p \in Seq(Nat), NEW a \in Ancestors(p)
  PROVE  a \in Seq(Nat) /\ Len(a) < Len(p) /\ IsStrictPrefix(a, p)
<1>1. PICK n \in 0 .. Len(p) - 1 : a = SubSeq(p, 1, n)
  BY DEF Ancestors
<1>2. Len(p) \in Nat /\ n \in Nat /\ n < Len(p) /\ \A j \in 1..n : p[j] \in Nat
  BY <1>1
<1>3. a \in Seq(Nat) /\ Len(a) = n
  BY <1>1, <1>2, SubSeqProperties
<1>4. SubSeq(a, 1, n) = a
  BY <1>3, SubSeqFull
<1> QED BY <1>1, <1>2, <1>3, <1>4 DEF IsStrictPrefix, IsPrefix

LEMMA NestedAppended ==
  ASSUME NEW tree, NEW s, IsSomeSequence(s), NEW c
  PROVE  Nested(tree, Append(s, c)) <=>
           Nested(tree, s) /\ PlacedAfter(tree, s, Len(s), c.at)
<1> DEFINE t == Append(s, c)
           n == Len(s)
<1>1. /\ n \in Nat /\ Len(t) = n + 1 /\ t[n + 1] = c
      /\ \A i \in 1..n : t[i] = s[i]
  BY AppendedAt
<1> HIDE DEF t, n
<1>2. ASSUME NEW m \in 0..n, NEW p
      PROVE  PlacedAfter(tree, t, m, p) <=> PlacedAfter(tree, s, m, p)
  <2>1. \A j \in 1..m : t[j] = s[j]
    BY <1>1
  <2> QED BY <2>1 DEF PlacedAfter
<1>3. 1..Len(t) = 1..n \cup {n + 1} /\ n + 1 - 1 = n /\ n \in 0..n
  BY <1>1
<1>4. \A i \in 1..n : i - 1 \in 0..n
  BY <1>1
<1>5. Nested(tree, t) <=> /\ \A i \in 1..n : PlacedAfter(tree, t, i - 1, s[i].at)
                         /\ PlacedAfter(tree, t, n, c.at)
  BY <1>1, <1>3 DEF Nested
<1>6. Nested(tree, t) <=> /\ \A i \in 1..n : PlacedAfter(tree, s, i - 1, s[i].at)
                         /\ PlacedAfter(tree, s, n, c.at)
  BY <1>2, <1>3, <1>4, <1>5
<1> QED BY <1>6 DEF Nested, t, n

\* A statement around others goes on to one of them: the call for it stays, or
\* gives way when it is done.
LEMMA KidNests ==
  ASSUME NEW tree, NEW s, IsSomeSequence(s), NEW c, Nested(tree, Append(s, c)),
         c.at \in Seq(Nat), tree[c.at].kind \in LookedInto \cup {"switch"},
         NEW d, d.at = c.at, NEW i \in Nat,
         \/ tree[c.at].kind \in Targeted => d.step = "body"
         \/ tree[Kid(c.at, i)].kind = "expression"
  PROVE  Nested(tree, Append(Append(s, d), Entry(Kid(c.at, i))))
<1> DEFINE t == Append(s, d)
           n == Len(s)
           p == c.at
           q == Kid(c.at, i)
<1>1. Nested(tree, s) /\ PlacedAfter(tree, s, n, p)
  BY NestedAppended
<1>2. Nested(tree, t) /\ IsSomeSequence(t)
  BY <1>1, NestedAppended, AppendedAt
<1>3. /\ n \in Nat /\ Len(t) = n + 1 /\ t[n + 1] = d
      /\ \A j \in 1..n : t[j] = s[j]
  BY AppendedAt
<1>4. Ancestors(q) = Ancestors(p) \cup {p}
  BY AncestorsOfKid
<1>5. Entry(q).at = q
  BY DEF Entry
<1> HIDE DEF t, n, q
<1>6. 1..n + 1 = 1..n \cup {n + 1}
  BY <1>3
<1>7. PlacedAfter(tree, t, n + 1, q)
  <2>1. \A j \in 1..n + 1 : t[j].at \in Ancestors(q)
    BY <1>1, <1>3, <1>4, <1>6 DEF PlacedAfter
  <2>2. ASSUME NEW a \in Ancestors(q), tree[q].kind # "expression"
        PROVE  /\ tree[a].kind \in LookedInto \cup {"switch"}
               /\ tree[a].kind \in Targeted =>
                    \E j \in 1..n + 1 : t[j].at = a /\ t[j].step = "body"
    <3>1. CASE a = p
      BY <1>3, <1>6, <2>2, <3>1 DEF q
    <3>2. CASE a \in Ancestors(p)
      <4>1. tree[p].kind # "expression"
        BY DEF LookedInto, Loops
      <4>2. /\ tree[a].kind \in LookedInto \cup {"switch"}
            /\ tree[a].kind \in Targeted =>
                 \E j \in 1..n : s[j].at = a /\ s[j].step = "body"
        BY <1>1, <3>2, <4>1 DEF PlacedAfter
      <4> QED BY <1>3, <1>6, <4>2
    <3> QED BY <1>4, <2>2, <3>1, <3>2
  <2> QED BY <2>1, <2>2 DEF PlacedAfter
<1> QED BY <1>2, <1>3, <1>5, <1>7, NestedAppended DEF t, q

LEMMA KidFollows ==
  ASSUME NEW tree, NEW s, IsSomeSequence(s), NEW c, Nested(tree, Append(s, c)),
         c.at \in Seq(Nat), tree[c.at].kind \in LookedInto \ Targeted, NEW i \in Nat
  PROVE  Nested(tree, Append(s, Entry(Kid(c.at, i))))
<1> DEFINE n == Len(s)
           p == c.at
           q == Kid(c.at, i)
<1>1. Nested(tree, s) /\ PlacedAfter(tree, s, n, p)
  BY NestedAppended
<1>2. Ancestors(q) = Ancestors(p) \cup {p}
  BY AncestorsOfKid
<1>3. Entry(q).at = q
  BY DEF Entry
<1>4. tree[p].kind # "expression"
  BY DEF LookedInto, Loops
<1>5. PlacedAfter(tree, s, n, q)
  BY <1>1, <1>2, <1>4 DEF PlacedAfter
<1> QED BY <1>1, <1>3, <1>5, NestedAppended

-----------------------------------------------------------------------------
(***************************************************************************)
(* While the body is emitted, the tables of targets and of cases are those *)
(* of the calls in progress.                                               *)
(***************************************************************************)
TablesFit ==
  /\ Nested(program, calls)
  /\ TargetsFit(program, calls, Len(loop_targets), Len(break_targets), switch_cases)

NestInv ==
  /\ CallsInv /\ TargetsInv /\ SemaAccepts(program)
  /\ outcome = "emitting" => TablesFit

\* The statement of the running call is being emitted.
InProgress == NestInv /\ outcome = "emitting" /\ calls # << >>

LEMMA RunningCall ==
  ASSUME InProgress
  PROVE  /\ calls = Append(Front(calls), Call) /\ IsSomeSequence(Front(calls))
         /\ Call.at \in DOMAIN program /\ Call.at \in Seq(Nat)
         /\ TablesFit
         /\ Len(loop_targets) \in Nat /\ Len(break_targets) \in Nat
<1>1. AreCalls(program, calls) /\ AreCalls(program, Front(calls))
  BY FrontAreCalls DEF InProgress, NestInv, CallsInv
<1>2. PICK S : calls \in Seq(S)
  BY <1>1 DEF AreCalls
<1>3. PICK s \in Seq(S), c \in S : calls = Append(s, c)
  BY <1>2, SequenceEmptyOrAppend DEF InProgress
<1>4. Front(calls) = s /\ Call = c
  <2>1. /\ Len(s) \in Nat /\ Len(calls) = Len(s) + 1 /\ calls[Len(s) + 1] = c
        /\ \A i \in 1..Len(s) : calls[i] = s[i]
    BY <1>3, AppendProperties
  <2>2. Call = c
    BY <2>1 DEF Call, Last
  <2>3. Front(calls) = SubSeq(calls, 1, Len(s))
    BY <2>1 DEF Front
  <2>4. \A i \in 1..Len(s) : calls[i] \in S
    BY <2>1, <1>3
  <2>5. /\ Front(calls) \in Seq(S) /\ Len(Front(calls)) = Len(s)
        /\ \A i \in 1..Len(s) : Front(calls)[i] = calls[i]
    BY <2>1, <2>3, <2>4, SubSeqProperties
  <2>6. Front(calls) = s
    BY <1>3, <2>1, <2>5, SeqEqual
  <2> QED BY <2>2, <2>6
<1>5. IsSomeSequence(Front(calls))
  BY <1>3, <1>4 DEF IsSomeSequence
<1>6. Call.at \in DOMAIN program
  BY CallIsInBody DEF InProgress, NestInv
<1>7. Call.at \in Seq(Nat)
  BY <1>6, ProgramsAssumption DEF InProgress, NestInv, CallsInv, WellFormed
<1>8. Len(loop_targets) \in Nat /\ Len(break_targets) \in Nat
  BY FrontOfSequence DEF InProgress, NestInv, TargetsInv
<1> QED BY <1>3, <1>4, <1>5, <1>6, <1>7, <1>8 DEF InProgress, NestInv

LEMMA EmittingAppends ==
  ASSUME InProgress, NEW c, NEW p, Emitting(c, p)
  PROVE  calls' = Append(Append(Front(calls), c), Entry(p))
<1> DEFINE f == Front(calls)
           e == Entry(p)
<1>1. IsSomeSequence(f) /\ calls' = f \o <<c, e>>
  BY RunningCall DEF Emitting
<1> HIDE DEF f, e
<1>2. PICK S : f \in Seq(S)
  BY <1>1 DEF IsSomeSequence
<1> DEFINE T == S \cup {c, e}
<1>3. f \in Seq(T) /\ c \in T /\ e \in T
  BY <1>2
<1> HIDE DEF T
<1>4. f \o <<c, e>> = Append(Append(f, c), e)
  BY <1>3
<1> QED BY <1>1, <1>4 DEF f, e

\* What the tables fit without the running call.
LEMMA FitWithoutCall ==
  ASSUME InProgress
  PROVE  /\ Nested(program, Front(calls))
         /\ ~IsBodyOf(program, Call, Targeted) =>
              TargetsFit(program, Front(calls), Len(loop_targets), Len(break_targets),
                         switch_cases)
         /\ IsBodyOf(program, Call, Loops) =>
              TargetsFit(program, Front(calls), Len(loop_targets) - 1,
                         Len(break_targets) - 1, switch_cases)
         /\ IsBodyOf(program, Call, {"switch"}) =>
              TargetsFit(program, Front(calls), Len(loop_targets),
                         Len(break_targets) - 1, Call.saved)
<1> DEFINE f == Front(calls)
           l == Len(loop_targets)
           b == Len(break_targets)
<1>1. /\ calls = Append(f, Call) /\ IsSomeSequence(f) /\ l \in Nat /\ b \in Nat
      /\ Nested(program, calls) /\ TargetsFit(program, calls, l, b, switch_cases)
  BY RunningCall DEF TablesFit
<1> HIDE DEF f, l, b
<1>2. /\ Nested(program, Append(f, Call)) /\ l \in Int /\ b \in Int
      /\ TargetsFit(program, Append(f, Call), l, b, switch_cases)
  BY <1>1
<1>3. Nested(program, f)
  BY <1>1, <1>2, NestedAppended
<1>4. ~IsBodyOf(program, Call, Targeted) => TargetsFit(program, f, l, b, switch_cases)
  BY <1>1, <1>2, PlainCallFits
<1>5. IsBodyOf(program, Call, Loops) =>
        TargetsFit(program, f, l - 1, b - 1, switch_cases)
  BY <1>1, <1>2, LoopBodyFits
<1>6. IsBodyOf(program, Call, {"switch"}) => TargetsFit(program, f, l, b - 1, Call.saved)
  BY <1>1, <1>2, SwitchBodyFits
<1> QED BY <1>3, <1>4, <1>5, <1>6 DEF f, l, b

\* A call goes on in a place that is not a body: in itself, or with a call for
\* the statement at p.
LEMMA PlainFits ==
  ASSUME NEW tree, NEW s, IsSomeSequence(s), NEW c, ~IsBodyOf(tree, c, Targeted),
         NEW p, NEW l, NEW b, NEW cases, TargetsFit(tree, s, l, b, cases)
  PROVE  /\ TargetsFit(tree, Append(s, c), l, b, cases)
         /\ TargetsFit(tree, Append(s, Entry(p)), l, b, cases)
         /\ TargetsFit(tree, Append(Append(s, c), Entry(p)), l, b, cases)
<1>1. ~IsBodyOf(tree, Entry(p), Targeted)
  BY DEF IsBodyOf, IsAt, Entry
<1>2. TargetsFit(tree, Append(s, c), l, b, cases) /\ IsSomeSequence(Append(s, c))
  BY PlainCallFits, AppendedAt
<1>3. TargetsFit(tree, Append(s, Entry(p)), l, b, cases)
  BY <1>1, PlainCallFits
<1>4. TargetsFit(tree, Append(Append(s, c), Entry(p)), l, b, cases)
  BY <1>1, <1>2, PlainCallFits
<1> QED BY <1>2, <1>3, <1>4

LEMMA ReturnFits ==
  ASSUME InProgress, Return, UNCHANGED program,
         \/ ~IsBodyOf(program, Call, Targeted) /\ UNCHANGED targets
         \/ IsBodyOf(program, Call, Loops) /\ PopLoop /\ UNCHANGED switch_cases
         \/ /\ IsBodyOf(program, Call, {"switch"}) /\ UNCHANGED loop_targets
            /\ break_targets' = Front(break_targets) /\ switch_cases' = Call.saved
  PROVE  TablesFit'
<1> DEFINE f == Front(calls)
           l == Len(loop_targets)
           b == Len(break_targets)
<1>1. calls' = f /\ program' = program /\ Nested(program, f)
  BY FitWithoutCall DEF Return
<1>2. CASE ~IsBodyOf(program, Call, Targeted) /\ UNCHANGED targets
  <2>1. TargetsFit(program, f, l, b, switch_cases)
    BY <1>2, FitWithoutCall
  <2> QED BY <1>1, <1>2, <2>1 DEF TablesFit, targets
<1>3. /\ l \in Nat /\ b \in Nat
      /\ Len(Front(loop_targets)) = IF l = 0 THEN 0 ELSE l - 1
      /\ Len(Front(break_targets)) = IF b = 0 THEN 0 ELSE b - 1
  BY FrontOfSequence DEF InProgress, NestInv, TargetsInv
<1>4. IsSomeSequence(f)
  BY RunningCall
<1>5. \A kinds : Cardinality(BodiesOf(program, f, kinds)) \in Nat
  BY <1>4, BodiesCounted
<1>6. CASE IsBodyOf(program, Call, Loops) /\ PopLoop /\ UNCHANGED switch_cases
  <2>1. TargetsFit(program, f, l - 1, b - 1, switch_cases)
    BY <1>6, FitWithoutCall
  <2>2. l - 1 \in Nat /\ b - 1 \in Nat
    BY <1>5, <2>1 DEF TargetsFit
  <2>3. Len(loop_targets') = l - 1 /\ Len(break_targets') = b - 1
    BY <1>3, <1>6, <2>2 DEF PopLoop
  <2> QED BY <1>1, <1>6, <2>1, <2>3 DEF TablesFit
<1>7. CASE /\ IsBodyOf(program, Call, {"switch"}) /\ UNCHANGED loop_targets
           /\ break_targets' = Front(break_targets) /\ switch_cases' = Call.saved
  <2>1. TargetsFit(program, f, l, b - 1, Call.saved)
    BY <1>7, FitWithoutCall
  <2>2. b - 1 \in Nat
    BY <1>5, <2>1 DEF TargetsFit
  <2>3. Len(break_targets') = b - 1
    BY <1>3, <1>7, <2>2
  <2> QED BY <1>1, <1>7, <2>1, <2>3 DEF TablesFit
<1> QED BY <1>2, <1>6, <1>7

LEMMA StayFits ==
  ASSUME InProgress, UNCHANGED <<program, targets>>, ~IsBodyOf(program, Call, Targeted),
         NEW c, c.at = Call.at, ~IsBodyOf(program, c, Targeted),
         calls' = Append(Front(calls), c)
  PROVE  TablesFit'
<1> DEFINE f == Front(calls)
<1>1. /\ IsSomeSequence(f) /\ calls = Append(f, Call) /\ Nested(program, calls)
      /\ TargetsFit(program, f, Len(loop_targets), Len(break_targets), switch_cases)
  BY RunningCall, FitWithoutCall DEF TablesFit
<1> HIDE DEF f
<1>2. Nested(program, Append(f, Call))
  BY <1>1
<1>3. Nested(program, Append(f, c))
  BY <1>1, <1>2, NestedAppended
<1>4. TargetsFit(program, Append(f, c), Len(loop_targets), Len(break_targets), switch_cases)
  BY <1>1, PlainFits
<1> QED BY <1>3, <1>4 DEF TablesFit, targets, f

LEMMA FollowFits ==
  ASSUME InProgress, UNCHANGED <<program, targets>>,
         Node.kind \in LookedInto \ Targeted,
         calls' = Append(Front(calls), Entry(Kid(Call.at, 1)))
  PROVE  TablesFit'
<1> DEFINE f == Front(calls)
           e == Entry(Kid(Call.at, 1))
<1>1. program[Call.at].kind \in LookedInto \ Targeted
  BY DEF Node
<1>2. ~IsBodyOf(program, Call, Targeted)
  BY <1>1 DEF IsBodyOf, IsAt
<1>3. /\ IsSomeSequence(f) /\ calls = Append(f, Call) /\ Nested(program, calls)
      /\ Call.at \in Seq(Nat)
      /\ TargetsFit(program, f, Len(loop_targets), Len(break_targets), switch_cases)
  BY <1>2, RunningCall, FitWithoutCall DEF TablesFit
<1> HIDE DEF f
<1>4. Nested(program, Append(f, Call)) /\ 1 \in Nat
  BY <1>3
<1>5. Nested(program, Append(f, e))
  BY <1>1, <1>3, <1>4, KidFollows
<1>6. TargetsFit(program, Append(f, e), Len(loop_targets), Len(break_targets), switch_cases)
  BY <1>2, <1>3, PlainFits
<1> QED BY <1>5, <1>6 DEF TablesFit, targets, f

LEMMA GoOnFits ==
  ASSUME InProgress, UNCHANGED <<program, targets>>, ~IsBodyOf(program, Call, Targeted),
         Node.kind \in LookedInto \cup {"switch"},
         NEW c, c.at = Call.at, ~IsBodyOf(program, c, Targeted), NEW i \in Nat,
         Node.kind \in Targeted => program[Kid(Call.at, i)].kind = "expression",
         Emitting(c, Kid(Call.at, i))
  PROVE  TablesFit'
<1> DEFINE f == Front(calls)
           p == Kid(Call.at, i)
<1>1. /\ IsSomeSequence(f) /\ calls = Append(f, Call) /\ Nested(program, calls)
      /\ Call.at \in Seq(Nat) /\ program[Call.at] = Node
      /\ TargetsFit(program, f, Len(loop_targets), Len(break_targets), switch_cases)
      /\ calls' = Append(Append(f, c), Entry(p))
  BY RunningCall, FitWithoutCall, EmittingAppends DEF TablesFit, Node
<1> HIDE DEF f
<1>2. Nested(program, Append(f, Call))
  BY <1>1
<1>3. Nested(program, Append(Append(f, c), Entry(p)))
  BY <1>1, <1>2, KidNests
<1> HIDE DEF p
<1>4. TargetsFit(program, Append(Append(f, c), Entry(p)), Len(loop_targets),
                 Len(break_targets), switch_cases)
  BY <1>1, PlainFits
<1> QED BY <1>1, <1>3, <1>4 DEF TablesFit, targets

\* The body of a loop or of a switch: its targets are pushed with its call.
LEMMA BodyFits ==
  ASSUME InProgress, UNCHANGED program, ~IsBodyOf(program, Call, Targeted),
         NEW c, c.at = Call.at, NEW i \in Nat, Emitting(c, Kid(Call.at, i)),
         \/ /\ IsBodyOf(program, c, Loops) /\ UNCHANGED switch_cases
            /\ \E break, continue : PushLoop(break, continue)
         \/ /\ IsBodyOf(program, c, {"switch"}) /\ c.saved = switch_cases
            /\ HoldsCases(program, switch_cases', c.at)
            /\ \E end : break_targets' = Append(break_targets, end)
            /\ UNCHANGED loop_targets
  PROVE  TablesFit'
<1> DEFINE f == Front(calls)
           p == Kid(Call.at, i)
           l == Len(loop_targets)
           b == Len(break_targets)
<1>1. /\ IsSomeSequence(f) /\ calls = Append(f, Call) /\ Nested(program, calls)
      /\ Call.at \in Seq(Nat) /\ l \in Nat /\ b \in Nat
      /\ TargetsFit(program, f, l, b, switch_cases)
      /\ calls' = Append(Append(f, c), Entry(p))
  BY RunningCall, FitWithoutCall, EmittingAppends DEF TablesFit
<1>2. c.step = "body" /\ program[Call.at].kind \in LookedInto \cup {"switch"}
  BY DEF IsBodyOf, IsAt, LookedInto
<1> HIDE DEF f
<1>3. Nested(program, Append(f, Call))
  BY <1>1
<1>4. Nested(program, Append(Append(f, c), Entry(p)))
  BY <1>1, <1>2, <1>3, KidNests
<1> HIDE DEF p, l, b
<1>5. IsSomeSequence(Append(f, c)) /\ ~IsBodyOf(program, Entry(p), Targeted)
  BY <1>1, AppendedAt DEF IsBodyOf, IsAt, Entry
<1>6. ASSUME NEW m \in Int, NEW n \in Int, NEW cases,
             TargetsFit(program, Append(f, c), m, n, cases)
      PROVE  TargetsFit(program, Append(Append(f, c), Entry(p)), m, n, cases)
  BY <1>5, <1>6, PlainCallFits
<1>7. /\ l + 1 \in Int /\ b + 1 \in Int /\ (l + 1) - 1 = l /\ (b + 1) - 1 = b
      /\ l \in Int
  BY <1>1
<1>8. IsSomeSequence(loop_targets) /\ IsSomeSequence(break_targets)
  BY DEF InProgress, NestInv, TargetsInv
<1>9. CASE /\ IsBodyOf(program, c, Loops) /\ UNCHANGED switch_cases
           /\ \E break, continue : PushLoop(break, continue)
  <2>1. TargetsFit(program, Append(f, c), l + 1, b + 1, switch_cases)
    BY <1>1, <1>7, <1>9, LoopBodyFits
  <2>2. Len(loop_targets') = l + 1 /\ Len(break_targets') = b + 1
    BY <1>8, <1>9, AppendedToSequence DEF PushLoop, l, b
  <2>3. TargetsFit(program, Append(Append(f, c), Entry(p)), l + 1, b + 1, switch_cases)
    BY <1>6, <1>7, <2>1
  <2> QED BY <1>1, <1>4, <1>9, <2>2, <2>3 DEF TablesFit
<1>10. CASE /\ IsBodyOf(program, c, {"switch"}) /\ c.saved = switch_cases
            /\ HoldsCases(program, switch_cases', c.at)
            /\ \E end : break_targets' = Append(break_targets, end)
            /\ UNCHANGED loop_targets
  <2> DEFINE cases == switch_cases'
  <2>1. Len(loop_targets') = l /\ Len(break_targets') = b + 1
    BY <1>8, <1>10, AppendedToSequence DEF l, b
  <2>2. TargetsFit(program, f, l, b, c.saved) /\ HoldsCases(program, cases, c.at)
    BY <1>1, <1>10
  <2> HIDE DEF cases
  <2>3. TargetsFit(program, Append(f, c), l, b + 1, cases)
    BY <1>1, <1>7, <1>10, <2>2, SwitchBodyFits
  <2>4. TargetsFit(program, Append(Append(f, c), Entry(p)), l, b + 1, cases)
    BY <1>6, <1>7, <2>3
  <2> QED BY <1>1, <1>4, <2>1, <2>4 DEF TablesFit, cases
<1> QED BY <1>9, <1>10

LEMMA CollectedCasesHold ==
  ASSUME NEW s PROVE HoldsCases(program, CollectSwitchCases(s), s)
<1>1. CaseStatements(s) = CasesIn(program, s)
  BY DEF CaseStatements, CasesIn
<1>2. ASSUME NEW p \in CaseStatements(s)
      PROVE  \E c \in CollectSwitchCases(s) : c.statement = p
  <2> DEFINE r == [statement |-> p,
                   label |-> New(Cardinality({q \in CaseStatements(s) : Before(q, p)}) + 1),
                   is_default |-> program[p].kind = "default"]
  <2>1. r \in CollectSwitchCases(s)
    BY Zenon DEF CollectSwitchCases
  <2>2. r.statement = p
    OBVIOUS
  <2> QED BY <2>1, <2>2
<1> QED BY <1>1, <1>2 DEF HoldsCases

-----------------------------------------------------------------------------
(***************************************************************************)
(* A statement finds its target.                                           *)
(***************************************************************************)
LEMMA BodyIsBeingEmitted ==
  ASSUME InProgress, Node.kind # "expression", NEW kinds \in SUBSET Targeted,
         NEW a \in Ancestors(Call.at), program[a].kind \in kinds
  PROVE  \E j \in BodiesOf(program, Front(calls), kinds) : Front(calls)[j].at = a
<1> DEFINE f == Front(calls)
<1>1. calls = Append(f, Call) /\ IsSomeSequence(f) /\ Nested(program, calls)
  BY RunningCall DEF TablesFit
<1> HIDE DEF f
<1>2. PlacedAfter(program, f, Len(f), Call.at)
  BY <1>1, NestedAppended
<1>3. PICK j \in 1..Len(f) : f[j].at = a /\ f[j].step = "body"
  BY <1>2 DEF PlacedAfter, Node
<1> QED BY <1>3 DEF BodiesOf, CallsAt, IsBodyOf, IsAt, f

LEMMA TargetIsThere ==
  ASSUME InProgress, Node.kind # "expression", ~IsBodyOf(program, Call, Targeted)
  PROVE  /\ LoopDepth(program, Call.at) # {} => loop_targets # << >>
         /\ LoopDepth(program, Call.at) \cup SwitchDepth(program, Call.at) # {} =>
              break_targets # << >>
<1> DEFINE f == Front(calls)
<1>1. /\ TargetsFit(program, f, Len(loop_targets), Len(break_targets), switch_cases)
      /\ IsSomeSequence(f)
  BY FitWithoutCall, RunningCall
<1> HIDE DEF f
<1>2. ASSUME NEW kinds, BodiesOf(program, f, kinds) # {}
      PROVE  Cardinality(BodiesOf(program, f, kinds)) # 0
  BY <1>1, <1>2, BodiesCounted
<1>3. ASSUME NEW a \in LoopDepth(program, Call.at)
      PROVE  loop_targets # << >>
  <2>1. a \in Ancestors(Call.at) /\ program[a].kind \in Loops
        /\ Loops \in SUBSET Targeted
    BY DEF LoopDepth, Targeted
  <2>2. BodiesOf(program, f, Loops) # {}
    BY <2>1, BodyIsBeingEmitted DEF f
  <2>3. Len(loop_targets) # 0
    BY <1>1, <1>2, <2>2 DEF TargetsFit
  <2> QED BY <2>3
<1>4. ASSUME NEW a \in LoopDepth(program, Call.at) \cup SwitchDepth(program, Call.at)
      PROVE  break_targets # << >>
  <2>1. a \in Ancestors(Call.at) /\ program[a].kind \in Targeted
        /\ Targeted \in SUBSET Targeted
    BY DEF LoopDepth, SwitchDepth, Targeted
  <2>2. BodiesOf(program, f, Targeted) # {}
    BY <2>1, BodyIsBeingEmitted DEF f
  <2>3. Len(break_targets) # 0
    BY <1>1, <1>2, <2>2 DEF TargetsFit
  <2> QED BY <2>3
<1> QED BY <1>3, <1>4

\* The first and the last of some indices.
LEMMA LeastIndex ==
  ASSUME NEW T, T \subseteq Nat, T # {} PROVE \E n \in T : \A m \in T : n <= m
<1> DEFINE R == {ss \in Nat \X Nat : ss[1] < ss[2]}
<1>1. IsWellFoundedOn(R, Nat)
  BY NatLessThanWellFounded DEF OpToRel
<1> HIDE DEF R
<1>2. \E x \in T : \A y \in T : ~ (<<y, x>> \in R)
  BY <1>1, WFMin
<1>3. \A x, y \in Nat : <<y, x>> \notin R => x <= y
  BY DEF R
<1> QED BY <1>2, <1>3

LEMMA LastIndex ==
  ASSUME NEW n \in Nat, NEW B, B \subseteq 1..n, B # {}
  PROVE  \E j \in B : \A k \in B : k <= j
<1> DEFINE T == {n - k : k \in B}
<1>1. \A k \in B : n - k \in Nat
  OBVIOUS
<1>2. T \subseteq Nat /\ T # {}
  BY <1>1
<1>3. PICK x \in T : \A y \in T : x <= y
  <2> HIDE DEF T
  <2> QED BY <1>2, LeastIndex
<1>4. PICK j \in B : x = n - j
  BY <1>3
<1>5. ASSUME NEW k \in B PROVE k <= j
  <2>1. n - k \in T
    OBVIOUS
  <2> QED BY <1>3, <1>4, <2>1
<1> QED BY <1>5

\* The innermost switch whose body is being emitted is the one a case label
\* belongs to.
LEMMA CaseIsThere ==
  ASSUME InProgress, Node.kind \in {"case", "default"}
  PROVE  \E c \in switch_cases : c.statement = Call.at
<1> DEFINE f == Front(calls)
           p == Call.at
           B == BodiesOf(program, f, {"switch"})
<1>1. /\ calls = Append(f, Call) /\ IsSomeSequence(f) /\ Nested(program, calls)
      /\ p \in DOMAIN program /\ p \in Seq(Nat) /\ Node = program[p]
  BY RunningCall DEF TablesFit, Node
<1>2. Node.kind # "expression" /\ ~IsBodyOf(program, Call, Targeted)
  BY DEF IsBodyOf, IsAt, Targeted, Loops, Node
<1>3. CasesHeld(program, f, switch_cases)
  BY <1>2, FitWithoutCall DEF TargetsFit
<1>4. PICK switch \in Ancestors(p) : program[switch].kind = "switch"
  <2>1. CheckStatement(program, p)
    BY <1>1 DEF InProgress, NestInv, SemaAccepts
  <2> QED BY <1>1, <2>1 DEF CheckStatement, SwitchDepth
<1>5. B # {}
  BY <1>2, <1>4, BodyIsBeingEmitted DEF Targeted
<1> HIDE DEF f
<1>6. Len(f) \in Nat /\ B \subseteq 1..Len(f)
  BY <1>1, BodiesOfAppended, AppendedAt
<1>7. PICK j \in B : \A k \in B : k <= j
  <2> HIDE DEF B
  <2> QED BY <1>5, <1>6, LastIndex
<1> DEFINE s == f[j].at
<1>8. HoldsCases(program, switch_cases, s)
  BY <1>3, <1>7 DEF CasesHeld
<1>9. PlacedAfter(program, f, Len(f), p) /\ Nested(program, f)
  BY <1>1, NestedAppended
<1>10. s \in Ancestors(p) /\ IsStrictPrefix(s, p) /\ s \in Seq(Nat)
  BY <1>1, <1>6, <1>9, AncestorIsPrefix DEF PlacedAfter
<1>11. ASSUME NEW a \in Ancestors(p), IsStrictPrefix(s, a)
       PROVE  program[a].kind \in LookedInto
  <2>1. program[a].kind \in LookedInto \cup {"switch"}
    BY <1>1, <1>2, <1>9 DEF PlacedAfter
  <2>2. CASE program[a].kind = "switch"
    <3>1. PICK k \in B : f[k].at = a
      BY <1>2, <2>2, BodyIsBeingEmitted DEF Targeted, f
    <3>2. k <= j /\ k # j
      BY <1>7, <1>11, <3>1 DEF IsStrictPrefix
    <3>3. k \in 1 .. j - 1 /\ j \in 1..Len(f)
      BY <1>6, <3>2
    <3>4. a \in Ancestors(s)
      BY <1>9, <3>1, <3>3 DEF Nested, PlacedAfter
    <3>5. Len(a) < Len(s) /\ a \in Seq(Nat)
      BY <1>10, <3>4, AncestorIsPrefix
    <3>6. Len(s) <= Len(a)
      BY <1>11 DEF IsStrictPrefix, IsPrefix
    <3> QED BY <1>10, <3>5, <3>6
  <2> QED BY <2>1, <2>2
<1>12. p \in CasesIn(program, s)
  BY <1>1, <1>10, <1>11 DEF CasesIn
<1> QED BY <1>8, <1>12 DEF HoldsCases

-----------------------------------------------------------------------------
LEMMA KeepsTables ==
  ASSUME NestInv, Emit, outcome' = "emitting" => TablesFit' PROVE NestInv'
<1>1. CallsInv'
  BY EmitKeepsCalls DEF NestInv
<1>2. TargetsInv'
  BY EmitKeepsTargets DEF NestInv
<1>3. UNCHANGED program
  BY Zenon DEF Emit, EmitExpression, EmitReturn, EmitBreak, EmitContinue, EmitGoto,
       EmitLabel, EnterCompound, EmitItem, LeaveCompound, EnterIf, AfterThen, AfterElse,
       EnterWhile, AfterWhileBody, EnterDo, AfterDoBody, EnterFor, ForTest, AfterForBody,
       EnterSwitch, AfterSwitchBody, EmitCase, NestingExceeded, FinishFunction, Fail
<1>4. SemaAccepts(program)'
  BY <1>3 DEF NestInv, SemaAccepts, CheckStatement, LoopDepth, SwitchDepth
<1> QED BY <1>1, <1>2, <1>4 DEF NestInv

\* An action of the running call, of a statement of that kind and at that step.
LEMMA RunningAt ==
  ASSUME NestInv, NEW kind, NEW step, At(kind, step)
  PROVE  /\ InProgress /\ Node.kind = kind
         /\ step # "body" => ~IsBodyOf(program, Call, Targeted)
         /\ \A kinds : IsBodyOf(program, Call, kinds) <=> step = "body" /\ kind \in kinds
BY DEF At, InProgress, IsBodyOf, IsAt, Node

LEMMA SimpleStatementsFit ==
  ASSUME NestInv, EmitExpression \/ EmitReturn \/ EmitGoto \/ LeaveCompound \/ AfterElse
  PROVE  TablesFit'
<1>1. /\ Return /\ UNCHANGED <<program, targets>>
      /\ \E kind : \E step \in {"enter", "items", "else"} : At(kind, step)
  BY DEF EmitExpression, EmitReturn, EmitGoto, LeaveCompound, AfterElse
<1>2. InProgress /\ ~IsBodyOf(program, Call, Targeted)
  BY <1>1, RunningAt
<1> QED BY <1>1, <1>2, ReturnFits

\* A break or continue finds a target.
LEMMA JumpsFit ==
  ASSUME NestInv, EmitBreak \/ EmitContinue
  PROVE  outcome' = "emitting" /\ TablesFit'
<1>1. CASE EmitBreak
  <2>1. At("break", "enter")
    BY <1>1 DEF EmitBreak
  <2>2. /\ InProgress /\ Node.kind = "break" /\ Node.kind # "expression"
        /\ ~IsBodyOf(program, Call, Targeted) /\ outcome = "emitting"
    BY <2>1, RunningAt DEF InProgress
  <2>3. CheckStatement(program, Call.at) /\ program[Call.at].kind = "break"
    BY <2>2, RunningCall DEF InProgress, NestInv, SemaAccepts, Node
  <2>4. break_targets # << >>
    BY <2>2, <2>3, TargetIsThere DEF CheckStatement
  <2>5. Return /\ UNCHANGED <<program, targets, outcome>>
    BY <1>1, <2>4 DEF EmitBreak
  <2> QED BY <2>2, <2>5, ReturnFits
<1>2. CASE EmitContinue
  <2>1. At("continue", "enter")
    BY <1>2 DEF EmitContinue
  <2>2. /\ InProgress /\ Node.kind = "continue" /\ Node.kind # "expression"
        /\ ~IsBodyOf(program, Call, Targeted) /\ outcome = "emitting"
    BY <2>1, RunningAt DEF InProgress
  <2>3. CheckStatement(program, Call.at) /\ program[Call.at].kind = "continue"
    BY <2>2, RunningCall DEF InProgress, NestInv, SemaAccepts, Node
  <2>4. loop_targets # << >>
    BY <2>2, <2>3, TargetIsThere DEF CheckStatement
  <2>5. Return /\ UNCHANGED <<program, targets, outcome>>
    BY <1>2, <2>4 DEF EmitContinue
  <2> QED BY <2>2, <2>5, ReturnFits
<1> QED BY <1>1, <1>2

\* A case or default label is found among the cases of its switch.
LEMMA LabelsFit ==
  ASSUME NestInv, EmitLabel \/ EmitCase
  PROVE  outcome' = "emitting" /\ TablesFit'
<1>1. /\ InProgress /\ outcome = "emitting"
      /\ Node.kind \in {"label", "case", "default"}
      /\ EmitCase => Node.kind \in {"case", "default"}
  BY RunningAt DEF EmitLabel, EmitCase, InProgress
<1>2. Node.kind \in LookedInto \ Targeted
  BY <1>1 DEF LookedInto, Targeted, Loops
<1>3. /\ calls' = Append(Front(calls), Entry(Kid(Call.at, 1)))
      /\ UNCHANGED <<program, targets, outcome>>
  <2>1. CASE EmitLabel
    BY <2>1 DEF EmitLabel
  <2>2. CASE EmitCase
    <3>1. \E c \in switch_cases : c.statement = Call.at
      BY <1>1, <2>2, CaseIsThere
    <3>2. {c \in switch_cases : c.statement = Call.at} # {}
      BY <3>1
    <3> QED BY <2>2, <3>2 DEF EmitCase
  <2> QED BY <2>1, <2>2
<1> QED BY <1>1, <1>2, <1>3, FollowFits

\* What EXCEPT makes of the running call.
LEMMA ChangedCall ==
  ASSUME InProgress, NEW step, NEW labels, NEW saved, NEW next
  PROVE  /\ [Call EXCEPT !.next = next].at = Call.at
         /\ [Call EXCEPT !.next = next].step = Call.step
         /\ [Call EXCEPT !.step = step].at = Call.at
         /\ [Call EXCEPT !.step = step].step = step
         /\ [Call EXCEPT !.step = step, !.labels = labels].at = Call.at
         /\ [Call EXCEPT !.step = step, !.labels = labels].step = step
         /\ [Call EXCEPT !.step = step, !.labels = labels, !.saved = saved].at = Call.at
         /\ [Call EXCEPT !.step = step, !.labels = labels, !.saved = saved].step = step
         /\ [Call EXCEPT !.step = step, !.labels = labels, !.saved = saved].saved = saved
<1>1. IsCall(program, Call)
  BY CallIsInBody DEF InProgress, NestInv
<1>2. PICK K, L, V : Call \in CallsOf(program, K, L, V)
  BY <1>1 DEF IsCall
<1> QED BY <1>2 DEF CallsOf

LEMMA CompoundsAndIfsFit ==
  ASSUME NestInv, EnterCompound \/ EmitItem \/ EnterIf \/ AfterThen
  PROVE  TablesFit'
<1>1. /\ InProgress /\ ~IsBodyOf(program, Call, Targeted) /\ UNCHANGED <<program, targets>>
      /\ Node.kind \in {"compound", "if"} /\ Call.step # "body"
  BY RunningAt DEF EnterCompound, EmitItem, EnterIf, AfterThen, At
<1>2. Node.kind \in LookedInto \cup {"switch"} /\ Node.kind \notin Targeted
  BY <1>1 DEF LookedInto, Targeted, Loops
<1>3. CASE EnterCompound
  <2> DEFINE c == [Call EXCEPT !.step = "items"]
  <2>1. c.at = Call.at /\ c.step # "body" /\ calls' = Append(Front(calls), c)
    BY <1>1, <1>3, ChangedCall DEF EnterCompound
  <2> HIDE DEF c
  <2>2. ~IsBodyOf(program, c, Targeted)
    BY <2>1 DEF IsBodyOf, IsAt
  <2> QED BY <1>1, <2>1, <2>2, StayFits
<1>4. CASE EmitItem
  <2> DEFINE c == [Call EXCEPT !.next = @ + 1]
  <2>1. /\ c.at = Call.at /\ c.step # "body" /\ Emitting(c, Kid(Call.at, Call.next))
        /\ Call.next \in Nat
    BY <1>1, <1>4, ChangedCall, CallIsInBody DEF EmitItem, InProgress, NestInv
  <2> HIDE DEF c
  <2>2. ~IsBodyOf(program, c, Targeted)
    BY <2>1 DEF IsBodyOf, IsAt
  <2> QED BY <1>1, <1>2, <2>1, <2>2, GoOnFits
<1>5. CASE EnterIf
  <2> DEFINE c == [Call EXCEPT !.step = "then", !.labels = <<New(1), New(2)>>]
  <2>1. c.at = Call.at /\ c.step # "body" /\ Emitting(c, Kid(Call.at, 1)) /\ 1 \in Nat
    BY <1>1, <1>5, ChangedCall DEF EnterIf
  <2> HIDE DEF c
  <2>2. ~IsBodyOf(program, c, Targeted)
    BY <2>1 DEF IsBodyOf, IsAt
  <2> QED BY <1>1, <1>2, <2>1, <2>2, GoOnFits
<1>6. CASE AfterThen /\ Node.kids = 2
  <2> DEFINE c == [Call EXCEPT !.step = "else"]
  <2>1. c.at = Call.at /\ c.step # "body" /\ Emitting(c, Kid(Call.at, 2)) /\ 2 \in Nat
    BY <1>1, <1>6, ChangedCall DEF AfterThen
  <2> HIDE DEF c
  <2>2. ~IsBodyOf(program, c, Targeted)
    BY <2>1 DEF IsBodyOf, IsAt
  <2> QED BY <1>1, <1>2, <2>1, <2>2, GoOnFits
<1>7. CASE AfterThen /\ Node.kids # 2
  <2>1. Return
    BY <1>7 DEF AfterThen
  <2> QED BY <1>1, <2>1, ReturnFits
<1> QED BY <1>3, <1>4, <1>5, <1>6, <1>7

LEMMA EnterForFits ==
  ASSUME NestInv, EnterFor PROVE TablesFit'
<1>1. /\ InProgress /\ ~IsBodyOf(program, Call, Targeted) /\ UNCHANGED <<program, targets>>
      /\ Node.kind = "for"
  BY RunningAt DEF EnterFor
<1> DEFINE c == [Call EXCEPT !.step = "test"]
<1>2. c.at = Call.at /\ c.step # "body"
  BY <1>1, ChangedCall
<1>3. \/ Has(program, Call.at, "init") /\ Emitting(c, Kid(Call.at, 1))
      \/ calls' = Append(Front(calls), c)
  BY DEF EnterFor
<1> HIDE DEF c
<1>4. ~IsBodyOf(program, c, Targeted) /\ Node.kind \in LookedInto \cup {"switch"}
  BY <1>1, <1>2 DEF IsBodyOf, IsAt, LookedInto, Loops
<1>5. CASE calls' = Append(Front(calls), c)
  BY <1>1, <1>2, <1>4, <1>5, StayFits
<1>6. CASE Has(program, Call.at, "init") /\ Emitting(c, Kid(Call.at, 1))
  <2>1. program[Kid(Call.at, 1)].kind = "expression"
    <3>1. Call.at \in DOMAIN program /\ program[Call.at].kind = "for"
      BY <1>1, RunningCall DEF Node
    <3> QED BY <1>1, <1>6, <3>1, ProgramsAssumption
         DEF InProgress, NestInv, CallsInv, WellFormed
  <2> QED BY <1>1, <1>2, <1>4, <1>6, <2>1, GoOnFits
<1> QED BY <1>3, <1>5, <1>6

LEMMA LoopsFit ==
  ASSUME NestInv, EnterWhile \/ EnterDo \/ ForTest PROVE TablesFit'
<1>1. /\ InProgress /\ ~IsBodyOf(program, Call, Targeted)
      /\ UNCHANGED <<program, switch_cases>> /\ Node.kind \in Loops
      /\ \E break, continue : PushLoop(break, continue)
      /\ \E labels : \E kid \in {1, Node.kids} :
            Emitting([Call EXCEPT !.step = "body", !.labels = labels], Kid(Call.at, kid))
  <2>1. CASE EnterWhile
    <3>1. At("while", "enter") /\ UNCHANGED <<program, switch_cases>>
          /\ PushLoop(New(2), New(1))
      BY <2>1 DEF EnterWhile
    <3>2. Emitting([Call EXCEPT !.step = "body", !.labels = <<New(1), New(2)>>],
                   Kid(Call.at, 1))
      BY <2>1 DEF EnterWhile
    <3>3. InProgress /\ ~IsBodyOf(program, Call, Targeted) /\ Node.kind \in Loops
      BY <3>1, RunningAt DEF Loops
    <3> QED BY <3>1, <3>2, <3>3, Zenon
  <2>2. CASE EnterDo
    <3>1. At("do", "enter") /\ UNCHANGED <<program, switch_cases>>
          /\ PushLoop(New(3), New(2))
      BY <2>2 DEF EnterDo
    <3>2. Emitting([Call EXCEPT !.step = "body", !.labels = <<New(1), New(2), New(3)>>],
                   Kid(Call.at, 1))
      BY <2>2 DEF EnterDo
    <3>3. InProgress /\ ~IsBodyOf(program, Call, Targeted) /\ Node.kind \in Loops
      BY <3>1, RunningAt DEF Loops
    <3> QED BY <3>1, <3>2, <3>3, Zenon
  <2>3. CASE ForTest
    <3>1. At("for", "test") /\ UNCHANGED <<program, switch_cases>>
          /\ PushLoop(New(3), New(2))
      BY <2>3 DEF ForTest
    <3>2. Emitting([Call EXCEPT !.step = "body", !.labels = <<New(1), New(2), New(3)>>],
                   Kid(Call.at, Node.kids))
      BY <2>3 DEF ForTest
    <3>3. InProgress /\ ~IsBodyOf(program, Call, Targeted) /\ Node.kind \in Loops
      BY <3>1, RunningAt DEF Loops
    <3> QED BY <3>1, <3>2, <3>3, Zenon
  <2> QED BY <2>1, <2>2, <2>3
<1>2. PICK labels : \E kid \in {1, Node.kids} :
        Emitting([Call EXCEPT !.step = "body", !.labels = labels], Kid(Call.at, kid))
  BY <1>1
<1>5. PICK kid \in {1, Node.kids} :
        Emitting([Call EXCEPT !.step = "body", !.labels = labels], Kid(Call.at, kid))
  BY <1>2
<1> DEFINE c == [Call EXCEPT !.step = "body", !.labels = labels]
<1>3. /\ c.at = Call.at /\ c.step = "body" /\ Emitting(c, Kid(Call.at, kid))
      /\ kid \in Nat
  BY <1>1, <1>5, ChangedCall, CallIsInBody DEF InProgress, NestInv
<1> HIDE DEF c
<1>4. IsBodyOf(program, c, Loops)
  BY <1>1, <1>3 DEF IsBodyOf, IsAt, Node
<1> QED BY <1>1, <1>3, <1>4, BodyFits

LEMMA SwitchFits ==
  ASSUME NestInv, EnterSwitch PROVE TablesFit'
<1>1. /\ InProgress /\ ~IsBodyOf(program, Call, Targeted) /\ Node.kind = "switch"
      /\ UNCHANGED <<program, loop_targets>>
      /\ switch_cases' = CollectSwitchCases(Call.at)
      /\ \E end : break_targets' = Append(break_targets, end)
      /\ \E labels : Emitting([Call EXCEPT !.step = "body", !.labels = labels,
                                          !.saved = switch_cases], Kid(Call.at, 1))
  <2>1. At("switch", "enter") /\ UNCHANGED <<program, loop_targets>>
        /\ switch_cases' = CollectSwitchCases(Call.at)
    BY DEF EnterSwitch
  <2>2. InProgress /\ ~IsBodyOf(program, Call, Targeted) /\ Node.kind = "switch"
    BY <2>1, RunningAt
  <2>3. PICK end : /\ break_targets' = Append(break_targets, end)
                   /\ Emitting([Call EXCEPT !.step = "body", !.labels = <<end>>,
                                            !.saved = switch_cases], Kid(Call.at, 1))
    BY Zenon DEF EnterSwitch
  <2> QED BY <2>1, <2>2, <2>3, Zenon
<1>2. PICK labels : Emitting([Call EXCEPT !.step = "body", !.labels = labels,
                                          !.saved = switch_cases], Kid(Call.at, 1))
  BY <1>1
<1> DEFINE c == [Call EXCEPT !.step = "body", !.labels = labels, !.saved = switch_cases]
<1>3. /\ c.at = Call.at /\ c.step = "body" /\ c.saved = switch_cases
      /\ Emitting(c, Kid(Call.at, 1)) /\ 1 \in Nat
  BY <1>1, <1>2, ChangedCall
<1> HIDE DEF c
<1>4. IsBodyOf(program, c, {"switch"})
  BY <1>1, <1>3 DEF IsBodyOf, IsAt, Node
<1>5. HoldsCases(program, switch_cases', c.at)
  BY <1>1, <1>3, CollectedCasesHold
<1> QED BY <1>1, <1>3, <1>4, <1>5, BodyFits

LEMMA BodiesEndedFit ==
  ASSUME NestInv, AfterWhileBody \/ AfterDoBody \/ AfterForBody \/ AfterSwitchBody
  PROVE  TablesFit'
<1>1. CASE AfterWhileBody \/ AfterDoBody \/ AfterForBody
  <2>1. /\ InProgress /\ IsBodyOf(program, Call, Loops)
        /\ Return /\ PopLoop /\ UNCHANGED <<program, switch_cases>>
    BY <1>1, RunningAt DEF AfterWhileBody, AfterDoBody, AfterForBody, Loops
  <2> QED BY <2>1, ReturnFits
<1>2. CASE AfterSwitchBody
  <2>1. /\ InProgress /\ IsBodyOf(program, Call, {"switch"})
        /\ Return /\ UNCHANGED <<program, loop_targets>>
        /\ break_targets' = Front(break_targets) /\ switch_cases' = Call.saved
    BY <1>2, RunningAt DEF AfterSwitchBody
  <2> QED BY <2>1, ReturnFits
<1> QED BY <1>1, <1>2

LEMMA EmitKeepsNest ==
  ASSUME NestInv, Emit
  PROVE  NestInv' /\ outcome' \in {outcome, "emitting", "emitted", "nesting exceeded"}
<1>1. CASE EmitExpression \/ EmitReturn \/ EmitGoto \/ LeaveCompound \/ AfterElse
  <2>1. outcome' = outcome
    BY <1>1 DEF EmitExpression, EmitReturn, EmitGoto, LeaveCompound, AfterElse
  <2> QED BY <1>1, <2>1, SimpleStatementsFit, KeepsTables
<1>2. CASE EmitBreak \/ EmitContinue
  BY <1>2, JumpsFit, KeepsTables
<1>3. CASE EmitLabel \/ EmitCase
  BY <1>3, LabelsFit, KeepsTables
<1>4. CASE EnterCompound \/ EmitItem \/ EnterIf \/ AfterThen
  <2>1. outcome' = outcome
    BY <1>4 DEF EnterCompound, EmitItem, EnterIf, AfterThen
  <2> QED BY <1>4, <2>1, CompoundsAndIfsFit, KeepsTables
<1>5. CASE EnterFor
  <2>1. outcome' = outcome
    BY <1>5 DEF EnterFor
  <2> QED BY <1>5, <2>1, EnterForFits, KeepsTables
<1>6. CASE EnterWhile \/ EnterDo \/ ForTest
  <2>1. outcome' = outcome
    BY <1>6 DEF EnterWhile, EnterDo, ForTest
  <2> QED BY <1>6, <2>1, LoopsFit, KeepsTables
<1>7. CASE EnterSwitch
  <2>1. outcome' = outcome
    BY <1>7 DEF EnterSwitch
  <2> QED BY <1>7, <2>1, SwitchFits, KeepsTables
<1>8. CASE AfterWhileBody \/ AfterDoBody \/ AfterForBody \/ AfterSwitchBody
  <2>1. outcome' = outcome
    BY <1>8 DEF AfterWhileBody, AfterDoBody, AfterForBody, AfterSwitchBody
  <2> QED BY <1>8, <2>1, BodiesEndedFit, KeepsTables
<1>9. CASE NestingExceeded \/ FinishFunction
  <2>1. outcome' \in {"nesting exceeded", "emitted"}
    BY <1>9 DEF NestingExceeded, FinishFunction, Fail
  <2> QED BY <1>9, <2>1, KeepsTables
<1> QED BY <1>1, <1>2, <1>3, <1>4, <1>5, <1>6, <1>7, <1>8, <1>9 DEF Emit

LEMMA InitNest == Init => NestInv
<1> SUFFICES ASSUME Init PROVE NestInv
  OBVIOUS
<1>1. /\ program \in Programs /\ SemaAccepts(program) /\ calls = <<Entry(<< >>)>>
      /\ loop_targets = << >> /\ break_targets = << >> /\ outcome = "emitting"
  BY DEF Init
<1>2. << >> \in DOMAIN program
  BY <1>1, ProgramsAssumption DEF WellFormed
<1>3. calls = Append(<< >>, Entry(<< >>))
  BY <1>1
<1>4. CallsInv
  <2>1. IsCall(program, Entry(<< >>))
    BY <1>2, EntryIsCall
  <2> QED BY <1>1, <1>3, <2>1, NoCalls, AppendedAreCalls DEF CallsInv
<1>5. IsSomeSequence(<< >>) /\ Len(<< >>) = 0
  <2>1. << >> \in Seq({})
    OBVIOUS
  <2> QED BY <2>1 DEF IsSomeSequence
<1>6. TargetsInv
  BY <1>1, <1>5, MaxDepthAssumption DEF TargetsInv
<1>7. Nested(program, << >>) /\ TargetsFit(program, << >>, 0, 0, switch_cases)
  <2>1. ASSUME NEW kinds PROVE BodiesOf(program, << >>, kinds) = {}
    BY <1>5 DEF BodiesOf, CallsAt
  <2>2. Cardinality({}) = 0
    BY FS_EmptySet
  <2>3. CasesHeld(program, << >>, switch_cases)
    BY <2>1 DEF CasesHeld
  <2>4. 1..Len(<< >>) = {}
    BY <1>5
  <2>5. Nested(program, << >>)
    BY <2>4 DEF Nested
  <2>6. TargetsFit(program, << >>, 0, 0, switch_cases)
    BY <2>1, <2>2, <2>3 DEF TargetsFit
  <2> QED BY <2>5, <2>6
<1>8. Entry(<< >>).at = << >> /\ ~IsBodyOf(program, Entry(<< >>), Targeted)
  BY DEF Entry, IsBodyOf, IsAt
<1>9. PlacedAfter(program, << >>, 0, << >>)
  <2>1. Ancestors(<< >>) = {}
    BY <1>5 DEF Ancestors
  <2> QED BY <2>1 DEF PlacedAfter
<1>10. Nested(program, calls)
  BY <1>3, <1>5, <1>7, <1>8, <1>9, NestedAppended
<1>11. TargetsFit(program, calls, 0, 0, switch_cases)
  <2> DEFINE none == << >>
             entry == Entry(<< >>)
  <2>1. /\ IsSomeSequence(none) /\ ~IsBodyOf(program, entry, Targeted)
        /\ TargetsFit(program, none, 0, 0, switch_cases) /\ calls = Append(none, entry)
    BY <1>3, <1>5, <1>7, <1>8
  <2> HIDE DEF none, entry
  <2>2. TargetsFit(program, Append(none, entry), 0, 0, switch_cases)
    BY <2>1, PlainCallFits
  <2> QED BY <2>1, <2>2
<1> QED BY <1>1, <1>4, <1>5, <1>6, <1>10, <1>11 DEF NestInv, TablesFit

NoErrorInv == NestInv /\ NoInternalError

LEMMA NextKeepsNest == NoErrorInv /\ [Next]_vars => NoErrorInv'
<1> SUFFICES ASSUME NoErrorInv, [Next]_vars PROVE NoErrorInv'
  OBVIOUS
<1>1. CASE EmitStep
  BY <1>1, EmitKeepsNest DEF EmitStep, NoErrorInv, NoInternalError
<1>2. CASE Assemble
  <2>1. UNCHANGED <<program, calls, targets>> /\ outcome' \in {"running", "not assembled"}
    BY <1>2 DEF Assemble
  <2> QED BY <2>1 DEF NoErrorInv, NestInv, NoInternalError, CallsInv, TargetsInv, targets
<1>3. CASE UNCHANGED vars \/ SourceStep \/ MachineStep \/ \E v \in Values : Evaluate(v)
  <2>1. UNCHANGED <<program, calls, targets, outcome>>
    BY <1>3, Zenon DEF vars, emitVars, SourceStep, MachineStep, Evaluate
  <2> QED BY <2>1 DEF NoErrorInv, NestInv, NoInternalError, CallsInv, TargetsInv,
            TablesFit, targets
<1> QED BY <1>1, <1>2, <1>3 DEF Next

\* What the semantic analysis accepts never makes the generator report an
\* internal error: every break and continue finds its target and every case
\* label the switch it belongs to, however loops and switches are nested
\* (fcc_codegen_emit_statement, fcc_codegen_collect_switch_cases).
THEOREM StatementsFindTheirTargets == Spec => []NoInternalError
<1>1. InitFunction => NoErrorInv
  BY InitNest DEF InitFunction, Init, NoErrorInv, NoInternalError
<1>2. NoErrorInv => NoInternalError
  BY DEF NoErrorInv
<1> QED BY <1>1, <1>2, NextKeepsNest, PTL DEF Spec

-----------------------------------------------------------------------------
(***************************************************************************)
(* Positions, by their elements: q is under p in its n-th child.           *)
(***************************************************************************)
Under(p, n, q) ==
  Len(p) < Len(q) /\ (\A i \in 1..Len(p) : q[i] = p[i]) /\ q[Len(p) + 1] = n

LEMMA PrefixByElements ==
  ASSUME NEW p \in Seq(Nat), NEW q \in Seq(Nat)
  PROVE  /\ IsPrefix(p, q) <=> Len(p) <= Len(q) /\ \A i \in 1..Len(p) : q[i] = p[i]
         /\ IsStrictPrefix(p, q) <=> \E n \in Nat : Under(p, n, q)
<1>1. SubSeq(p, 1, Len(p)) = p /\ Len(p) \in Nat /\ Len(q) \in Nat
  BY SubSeqFull
<1>2. ASSUME Len(p) <= Len(q)
      PROVE  SubSeq(q, 1, Len(p)) = p <=> \A i \in 1..Len(p) : q[i] = p[i]
  <2>1. \A i \in 1..Len(p) : q[i] \in Nat
    BY <1>1, <1>2
  <2>2. /\ SubSeq(q, 1, Len(p)) \in Seq(Nat) /\ Len(SubSeq(q, 1, Len(p))) = Len(p)
        /\ \A i \in 1..Len(p) : SubSeq(q, 1, Len(p))[i] = q[i]
    BY <1>1, <2>1, SubSeqProperties
  <2> QED BY <2>2, SeqEqual
<1>3. IsPrefix(p, q) <=> Len(p) <= Len(q) /\ \A i \in 1..Len(p) : q[i] = p[i]
  BY <1>1, <1>2 DEF IsPrefix
<1>4. Len(p) = Len(q) /\ (\A i \in 1..Len(p) : q[i] = p[i]) => p = q
  BY SeqEqual
<1>5. Len(p) < Len(q) => q[Len(p) + 1] \in Nat
  BY <1>1
<1> QED BY <1>1, <1>3, <1>4, <1>5 DEF IsStrictPrefix, Under

LEMMA AncestorByElements ==
  ASSUME NEW p \in Seq(Nat), NEW q \in Seq(Nat)
  PROVE  q \in Ancestors(p) <=> \E n \in Nat : Under(q, n, p)
<1>1. ASSUME q \in Ancestors(p) PROVE \E n \in Nat : Under(q, n, p)
  BY <1>1, AncestorIsPrefix, PrefixByElements
<1>2. ASSUME NEW n \in Nat, Under(q, n, p) PROVE q \in Ancestors(p)
  <2>1. Len(q) \in 0..Len(p) - 1 /\ Len(p) \in Nat
    BY <1>2 DEF Under
  <2>2. IsStrictPrefix(q, p)
    BY <1>2, PrefixByElements
  <2>3. q = SubSeq(p, 1, Len(q))
    BY <2>2, SubSeqFull DEF IsStrictPrefix, IsPrefix
  <2> QED BY <2>1, <2>3 DEF Ancestors
<1> QED BY <1>1, <1>2

\* What is around a statement is a statement, and the child there is one.
LEMMA AroundIsThere ==
  ASSUME NEW tree, WellFormed(tree), NEW q \in DOMAIN tree,
         NEW p \in Seq(Nat), NEW n, Under(p, n, q)
  PROVE  p \in DOMAIN tree /\ n \in 1..tree[p].kids /\ tree[p].kids \in Nat
<1>1. q \in Seq(Nat)
  BY DEF WellFormed
<1>2. Len(p) + 1 \in 1..Len(q) /\ Len(p) \in Nat /\ Len(p) + 1 - 1 = Len(p)
  BY <1>1 DEF Under
<1>3. SubSeq(q, 1, Len(p)) = p
  <2>1. IsPrefix(p, q)
    <3>1. Len(p) <= Len(q) /\ \A i \in 1..Len(p) : q[i] = p[i]
      BY <1>2 DEF Under
    <3> QED BY <1>1, <3>1, PrefixByElements
  <2> QED BY <2>1, SubSeqFull DEF IsPrefix
<1>4. /\ SubSeq(q, 1, Len(p) + 1 - 1) \in DOMAIN tree
      /\ q[Len(p) + 1] \in 1..tree[SubSeq(q, 1, Len(p) + 1 - 1)].kids
  BY <1>2 DEF WellFormed
<1>5. p \in DOMAIN tree /\ q[Len(p) + 1] \in 1..tree[p].kids
  BY <1>2, <1>3, <1>4
<1> QED BY <1>5 DEF Under, WellFormed

\* Two different positions are one under the other, or there is one around both
\* where they part.
LEMMA WherePositionsPart ==
  ASSUME NEW p \in Seq(Nat), NEW q \in Seq(Nat), p # q
  PROVE  \/ \E n \in Nat : Under(p, n, q) \/ Under(q, n, p)
         \/ \E a \in Seq(Nat), m \in Nat, n \in Nat :
              m # n /\ Under(a, m, p) /\ Under(a, n, q)
<1> DEFINE D == {i \in 1..Len(p) \cap 1..Len(q) : p[i] # q[i]}
<1>1. Len(p) \in Nat /\ Len(q) \in Nat
  OBVIOUS
<1>2. CASE D = {}
  <2>4. ASSUME NEW i \in Nat, 1 <= i, i <= Len(p), i <= Len(q) PROVE p[i] = q[i]
    <3>1. i \in 1..Len(p) \cap 1..Len(q)
      BY <1>1, <2>4
    <3> QED BY <1>2, <3>1
  <2>1. Len(p) # Len(q)
    <3>1. ASSUME Len(p) = Len(q) PROVE \A i \in 1..Len(p) : p[i] = q[i]
      BY <1>1, <2>4, <3>1
    <3> QED BY <3>1, SeqEqual
  <2>2. CASE Len(p) < Len(q)
    <3>1. \A i \in 1..Len(p) : q[i] = p[i]
      BY <1>1, <2>4, <2>2
    <3>2. Len(p) + 1 \in 1..Len(q)
      BY <1>1, <2>2
    <3>3. q[Len(p) + 1] \in Nat
      BY <3>2
    <3> QED BY <2>2, <3>1, <3>3 DEF Under
  <2>3. CASE Len(q) < Len(p)
    <3>1. \A i \in 1..Len(q) : q[i] = p[i]
      BY <1>1, <2>4, <2>3
    <3>2. Len(q) + 1 \in 1..Len(p)
      BY <1>1, <2>3
    <3>3. p[Len(q) + 1] \in Nat
      BY <3>2
    <3> QED BY <2>3, <3>1, <3>3 DEF Under
  <2> QED BY <1>1, <2>1, <2>2, <2>3
<1>3. CASE D # {}
  <2>1. D \subseteq Nat
    OBVIOUS
  <2>2. PICK k \in D : \A m \in D : k <= m
    <3> HIDE DEF D
    <3> QED BY <1>3, <2>1, LeastIndex
  <2>3. k \in 1..Len(p) /\ k \in 1..Len(q) /\ p[k] # q[k]
    BY <2>2
  <2>4. \A i \in 1..k - 1 : p[i] = q[i]
    BY <1>1, <2>2, <2>3
  <2> DEFINE a == SubSeq(p, 1, k - 1)
  <2>5. \A i \in 1..k - 1 : p[i] \in Nat
    BY <2>3
  <2>6. a \in Seq(Nat) /\ Len(a) = k - 1 /\ \A i \in 1..k - 1 : a[i] = p[i]
    BY <2>3, <2>5, SubSeqProperties
  <2>7. p[k] \in Nat /\ q[k] \in Nat
    BY <2>3
  <2> HIDE DEF a
  <2>8. Under(a, p[k], p) /\ Under(a, q[k], q)
    BY <1>1, <2>3, <2>4, <2>6 DEF Under
  <2> QED BY <2>3, <2>6, <2>7, <2>8
<1> QED BY <1>2, <1>3

\* Where two positions part, they part once; so the earlier child is before.
LEMMA PartedOnce ==
  ASSUME NEW p \in Seq(Nat), NEW q \in Seq(Nat), NEW a \in Seq(Nat),
         NEW m \in Nat, NEW n \in Nat, Under(a, m, p), Under(a, n, q), m < n
  PROVE  /\ Before(p, q) /\ ~Before(q, p) /\ p # q
         /\ ~IsPrefix(p, q) /\ ~IsPrefix(q, p)
<1> DEFINE k == Len(a) + 1
<1>1. /\ k \in 1..Len(p) /\ k \in 1..Len(q) /\ p[k] < q[k] /\ k \in Nat
      /\ \A i \in 1..k - 1 : p[i] = q[i]
  BY DEF Under
<1> HIDE DEF k
<1>2. \A i \in 1..k - 1 : p[i] \in Nat /\ q[i] \in Nat
  BY <1>1
<1>3. ~IsPrefix(p, q) /\ ~IsPrefix(q, p) /\ p # q
  BY <1>1, PrefixByElements
<1>4. ASSUME NEW i \in 1..Len(p) \cap 1..Len(q)
      PROVE  SubSeq(p, 1, i - 1) = SubSeq(q, 1, i - 1) <=>
               \A j \in 1..i - 1 : p[j] = q[j]
  <2>1. \A j \in 1..i - 1 : p[j] \in Nat /\ q[j] \in Nat
    BY <1>4
  <2>2. /\ SubSeq(p, 1, i - 1) \in Seq(Nat) /\ Len(SubSeq(p, 1, i - 1)) = i - 1
        /\ SubSeq(q, 1, i - 1) \in Seq(Nat) /\ Len(SubSeq(q, 1, i - 1)) = i - 1
        /\ \A j \in 1..i - 1 : SubSeq(p, 1, i - 1)[j] = p[j]
        /\ \A j \in 1..i - 1 : SubSeq(q, 1, i - 1)[j] = q[j]
    BY <1>4, <2>1, SubSeqProperties
  <2> QED BY <2>2, SeqEqual
<1>5. Before(p, q)
  BY <1>1, <1>4 DEF Before
<1>6. ~Before(q, p)
  <2> SUFFICES ASSUME NEW i \in 1..Len(q) \cap 1..Len(p),
                      SubSeq(q, 1, i - 1) = SubSeq(p, 1, i - 1), q[i] < p[i]
               PROVE  FALSE
    BY <1>3 DEF Before, IsStrictPrefix
  <2>1. i \in 1..Len(p) \cap 1..Len(q) /\ \A j \in 1..i - 1 : p[j] = q[j]
    BY <1>4
  <2>2. p[i] \in Nat /\ q[i] \in Nat
    BY <2>1
  <2>3. CASE i < k
    BY <1>1, <2>1, <2>2, <2>3
  <2>4. CASE i = k
    BY <1>1, <2>2, <2>4
  <2>5. CASE k < i
    BY <1>1, <2>1, <2>5
  <2> QED BY <1>1, <2>1, <2>3, <2>4, <2>5
<1> QED BY <1>3, <1>5, <1>6

LEMMA UnderIsBefore ==
  ASSUME NEW p \in Seq(Nat), NEW q \in Seq(Nat), NEW n \in Nat, Under(p, n, q)
  PROVE  /\ Before(p, q) /\ ~Before(q, p) /\ p # q
         /\ IsPrefix(p, q) /\ ~IsPrefix(q, p)
<1>1. /\ Len(p) \in Nat /\ Len(q) \in Nat /\ Len(p) < Len(q)
      /\ \A i \in 1..Len(p) : q[i] = p[i]
  BY DEF Under
<1>2. IsStrictPrefix(p, q)
  BY PrefixByElements
<1>3. ~IsPrefix(q, p) /\ p # q
  BY <1>1, PrefixByElements
<1>4. ~Before(q, p)
  <2> SUFFICES ASSUME NEW i \in 1..Len(q) \cap 1..Len(p), q[i] < p[i] PROVE FALSE
    BY <1>3 DEF Before, IsStrictPrefix
  <2>1. q[i] = p[i] /\ p[i] \in Nat
    BY <1>1
  <2> QED BY <2>1
<1> QED BY <1>2, <1>3, <1>4 DEF Before, IsStrictPrefix

LEMMA UnderIsTransitive ==
  ASSUME NEW a \in Seq(Nat), NEW p \in Seq(Nat), NEW q \in Seq(Nat),
         NEW m \in Nat, NEW n \in Nat, Under(a, m, p), Under(p, n, q)
  PROVE  Under(a, m, q)
<1>1. /\ Len(a) \in Nat /\ Len(p) \in Nat /\ Len(q) \in Nat
      /\ Len(a) < Len(p) /\ Len(p) < Len(q)
  BY DEF Under
<1>2. \A i \in 1..Len(a) + 1 : i \in 1..Len(p)
  BY <1>1
<1>3. \A i \in 1..Len(a) + 1 : q[i] = p[i]
  BY <1>2 DEF Under
<1>4. Len(a) + 1 \in 1..Len(a) + 1 /\ \A i \in 1..Len(a) : i \in 1..Len(a) + 1
  BY <1>1
<1>5. (\A i \in 1..Len(a) : p[i] = a[i]) /\ p[Len(a) + 1] = m
  BY DEF Under
<1>6. (\A i \in 1..Len(a) : q[i] = a[i]) /\ q[Len(a) + 1] = m
  BY <1>3, <1>4, <1>5
<1> QED BY <1>1, <1>6 DEF Under

LEMMA UnderNotItself ==
  ASSUME NEW p, NEW n PROVE ~Under(p, n, p)
BY DEF Under

LEMMA KidIsUnder ==
  ASSUME NEW p \in Seq(Nat), NEW n \in Nat
  PROVE  /\ Kid(p, n) \in Seq(Nat) /\ Under(p, n, Kid(p, n))
         /\ \A m \in Nat : \A q \in Seq(Nat) :
              Under(Kid(p, n), m, q) => Under(p, n, q)
<1>1. Kid(p, n) \in Seq(Nat) /\ Under(p, n, Kid(p, n))
  BY AppendProperties DEF Kid, Under
<1> QED BY <1>1, UnderIsTransitive

\* The scope of a declaration is the innermost of the scopes around it.
ScopeKinds == {"compound", "for"}

-----------------------------------------------------------------------------
(***************************************************************************)
(* What the calls in progress still have to emit.  Of the statements       *)
(* inside of that of a call, the first Begun have been emitted or are      *)
(* being emitted.                                                          *)
(***************************************************************************)
Begun(tree, c) ==
  CASE c.step = "items" -> c.next - 1
    [] c.step = "then" -> 1
    [] c.step = "else" -> 2
    [] c.step = "test" -> tree[c.at].kids - 1
    [] c.step = "body" -> tree[c.at].kids
    [] OTHER -> 0

Ahead(tree, c) ==
  {d \in DOMAIN tree :
     \/ d = c.at /\ c.step = "enter"
     \/ \E n \in 1..tree[c.at].kids : Under(c.at, n, d) /\ n > Begun(tree, c)}

\* The statements not yet emitted, and the expressions and declarations of them.
IsAhead(tree, s, d) == \E j \in 1..Len(s) : d \in Ahead(tree, s[j])
IsPending(tree, s, d) == tree[d].kind = "expression" /\ IsAhead(tree, s, d)

\* A call for the statement at q follows the first n calls of s: it is inside of
\* what each of them is emitting, and each has its call that goes on after q.
Passing == {"label", "case", "default"}
Follows(tree, s, n, q) ==
  /\ \A j \in 1..n : /\ s[j].at \in DOMAIN tree /\ s[j].step # "enter"
                     /\ Under(s[j].at, Begun(tree, s[j]), q)
  /\ \A a \in Ancestors(q) :
       tree[a].kind \in Passing \/ \E j \in 1..n : s[j].at = a
Placed(tree, s, i) ==
  /\ s[i].at \in DOMAIN tree
  /\ s[i].step = "enter" => s[i].next = 1
  /\ Follows(tree, s, i - 1, s[i].at)
InOrder(tree, s) == \A i \in 1..Len(s) : Placed(tree, s, i)

\* What a call has begun is behind the calls it follows.
LEMMA FollowsLeavesBehind ==
  ASSUME NEW tree, WellFormed(tree), NEW s, NEW q \in DOMAIN tree,
         Follows(tree, s, Len(s), q), NEW j \in 1..Len(s), NEW d \in DOMAIN tree,
         d = q \/ \E n \in Nat : Under(q, n, d)
  PROVE  d \notin Ahead(tree, s[j])
<1> DEFINE a == s[j].at
           b == Begun(tree, s[j])
<1>1. a \in DOMAIN tree /\ s[j].step # "enter" /\ Under(a, b, q)
  BY DEF Follows
<1>2. a \in Seq(Nat) /\ q \in Seq(Nat) /\ d \in Seq(Nat)
  BY <1>1 DEF WellFormed
<1> HIDE DEF a, b
<1>3. b \in 1..tree[a].kids /\ tree[a].kids \in Nat
  BY <1>1, <1>2, AroundIsThere
<1>4. Under(a, b, d)
  BY <1>1, <1>2, <1>3, UnderIsTransitive
<1>5. \A n : Under(a, n, d) => n = b
  BY <1>4 DEF Under
<1> QED BY <1>1, <1>3, <1>5 DEF Ahead, a, b

-----------------------------------------------------------------------------
(***************************************************************************)
(* How what is pending changes as the calls go on.                         *)
(***************************************************************************)
LEMMA InOrderAppended ==
  ASSUME NEW tree, NEW s, IsSomeSequence(s), NEW c
  PROVE  InOrder(tree, Append(s, c)) <=>
           /\ InOrder(tree, s) /\ c.at \in DOMAIN tree
           /\ c.step = "enter" => c.next = 1
           /\ Follows(tree, s, Len(s), c.at)
<1> DEFINE t == Append(s, c)
           n == Len(s)
<1>1. /\ n \in Nat /\ Len(t) = n + 1 /\ t[n + 1] = c
      /\ \A i \in 1..n : t[i] = s[i]
  BY AppendedAt
<1> HIDE DEF t, n
<1>2. ASSUME NEW m \in 0..n, NEW p PROVE Follows(tree, t, m, p) <=> Follows(tree, s, m, p)
  <2>1. \A j \in 1..m : t[j] = s[j]
    BY <1>1
  <2> QED BY <2>1 DEF Follows
<1>3. 1..Len(t) = 1..n \cup {n + 1} /\ n + 1 - 1 = n /\ n \in 0..n
  BY <1>1
<1>4. \A i \in 1..n : i - 1 \in 0..n
  BY <1>1
<1>5. InOrder(tree, t) <=> (\A i \in 1..n : Placed(tree, t, i)) /\ Placed(tree, t, n + 1)
  BY <1>3 DEF InOrder
<1>6. \A i \in 1..n : Placed(tree, t, i) <=> Placed(tree, s, i)
  BY <1>1, <1>2, <1>4 DEF Placed
<1>7. Placed(tree, t, n + 1) <=>
        /\ c.at \in DOMAIN tree
        /\ c.step = "enter" => c.next = 1
        /\ Follows(tree, s, n, c.at)
  BY <1>1, <1>2, <1>3 DEF Placed
<1>8. InOrder(tree, s) <=> \A i \in 1..n : Placed(tree, s, i)
  BY DEF InOrder, n
<1> QED BY <1>5, <1>6, <1>7, <1>8 DEF t, n

LEMMA AheadAppended ==
  ASSUME NEW tree, NEW s, IsSomeSequence(s), NEW c, NEW d
  PROVE  IsAhead(tree, Append(s, c), d) <=> IsAhead(tree, s, d) \/ d \in Ahead(tree, c)
<1> DEFINE t == Append(s, c)
           n == Len(s)
<1>1. /\ n \in Nat /\ Len(t) = n + 1 /\ t[n + 1] = c
      /\ \A i \in 1..n : t[i] = s[i]
  BY AppendedAt
<1> HIDE DEF t, n
<1>2. 1..Len(t) = 1..n \cup {n + 1}
  BY <1>1
<1>3. IsAhead(tree, t, d) <=>
        (\E j \in 1..n : d \in Ahead(tree, s[j])) \/ d \in Ahead(tree, c)
  BY <1>1, <1>2 DEF IsAhead
<1> QED BY <1>3 DEF IsAhead, t, n

LEMMA UnderAKid ==
  ASSUME NEW p \in Seq(Nat), NEW d \in Seq(Nat), NEW n \in Nat
  PROVE  Under(p, n, d) <=>
           d = Kid(p, n) \/ \E m \in Nat : Under(Kid(p, n), m, d)
<1>1. Kid(p, n) \in Seq(Nat) /\ Under(p, n, Kid(p, n)) /\ Len(Kid(p, n)) = Len(p) + 1
  BY KidIsUnder, AppendProperties DEF Kid
<1>2. ASSUME Under(p, n, d)
      PROVE  d = Kid(p, n) \/ \E m \in Nat : Under(Kid(p, n), m, d)
  <2> DEFINE k == Kid(p, n)
  <2>1. Len(p) \in Nat /\ Len(d) \in Nat /\ Len(d) >= Len(p) + 1
    BY <1>2 DEF Under
  <2>2. \A i \in 1..Len(p) + 1 : i \in 1..Len(p) \/ i = Len(p) + 1
    BY <2>1
  <2>3. \A i \in 1..Len(k) : d[i] = k[i]
    BY <1>1, <1>2, <2>2 DEF Under
  <2> HIDE DEF k
  <2>4. CASE Len(d) = Len(k)
    <3>1. d = k
      BY <1>1, <2>3, <2>4, SeqEqual DEF k
    <3> QED BY <3>1 DEF k
  <2>5. CASE Len(d) > Len(k)
    <3>1. Len(k) + 1 \in 1..Len(d) /\ Len(k) \in Nat
      BY <1>1, <2>1, <2>5 DEF k
    <3>2. d[Len(k) + 1] \in Nat
      BY <3>1
    <3> QED BY <2>3, <2>5, <3>1, <3>2 DEF Under, k
  <2> QED BY <1>1, <2>1, <2>4, <2>5 DEF k
<1>3. ASSUME d = Kid(p, n) \/ \E m \in Nat : Under(Kid(p, n), m, d) PROVE Under(p, n, d)
  BY <1>1, <1>3, KidIsUnder
<1> QED BY <1>2, <1>3

LEMMA AheadOfEntry ==
  ASSUME NEW tree, WellFormed(tree), NEW q \in DOMAIN tree, NEW d \in DOMAIN tree
  PROVE  /\ d \in Ahead(tree, Entry(q)) <=> d = q \/ \E m \in Nat : Under(q, m, d)
         /\ Entry(q).at = q /\ Entry(q).step = "enter" /\ Entry(q).next = 1
<1>1. /\ Entry(q).at = q /\ Entry(q).step = "enter" /\ Begun(tree, Entry(q)) = 0
      /\ Entry(q).next = 1
  BY DEF Entry, Begun
<1>2. q \in Seq(Nat) /\ d \in Seq(Nat) /\ tree[q].kids \in Nat
  BY DEF WellFormed
<1>3. \A m \in Nat : Under(q, m, d) => m \in 1..tree[q].kids /\ m > 0
  BY <1>2, AroundIsThere
<1> QED BY <1>1, <1>2, <1>3 DEF Ahead

\* A call that returns has left what was pending of the others.
LEMMA ReturnedInOrder ==
  ASSUME NEW tree, WellFormed(tree), NEW s, IsSomeSequence(s), NEW c,
         InOrder(tree, Append(s, c))
  PROVE  /\ InOrder(tree, s)
         /\ ~IsAhead(tree, s, c.at)
         /\ \A d \in DOMAIN tree :
              IsAhead(tree, s, d) <=>
                IsAhead(tree, Append(s, c), d) /\ d \notin Ahead(tree, c)
<1>1. InOrder(tree, s) /\ c.at \in DOMAIN tree /\ Follows(tree, s, Len(s), c.at)
  BY InOrderAppended
<1>2. ASSUME NEW d \in DOMAIN tree, d = c.at \/ d \in Ahead(tree, c)
      PROVE  ~IsAhead(tree, s, d)
  <2>1. tree[c.at].kids \in Nat
    BY <1>1 DEF WellFormed
  <2>2. d = c.at \/ \E n \in Nat : Under(c.at, n, d)
    BY <1>2, <2>1 DEF Ahead
  <2>3. \A j \in 1..Len(s) : d \notin Ahead(tree, s[j])
    BY <1>1, <2>2, FollowsLeavesBehind
  <2> QED BY <2>3 DEF IsAhead
<1>3. ASSUME NEW d \in DOMAIN tree
      PROVE  IsAhead(tree, s, d) <=>
               IsAhead(tree, Append(s, c), d) /\ d \notin Ahead(tree, c)
  BY <1>2, AheadAppended
<1> QED BY <1>1, <1>2, <1>3

\* A call that goes on within its statement.
LEMMA ChangedInOrder ==
  ASSUME NEW tree, WellFormed(tree), NEW s, IsSomeSequence(s), NEW c,
         InOrder(tree, Append(s, c)),
         NEW e, e.at = c.at, e.step # "enter", Begun(tree, e) = Begun(tree, c)
  PROVE  /\ InOrder(tree, Append(s, e))
         /\ \A d \in DOMAIN tree :
              IsAhead(tree, Append(s, e), d) <=> IsAhead(tree, Append(s, c), d) /\ d # c.at
<1>1. InOrder(tree, Append(s, e))
  BY InOrderAppended
<1>2. ASSUME NEW d \in DOMAIN tree
      PROVE  d \in Ahead(tree, e) <=> d \in Ahead(tree, c) /\ d # c.at
  <2>1. \A n : ~Under(c.at, n, c.at)
    BY UnderNotItself
  <2> QED BY <2>1 DEF Ahead
<1>3. ~IsAhead(tree, s, c.at)
  BY ReturnedInOrder
<1> QED BY <1>1, <1>2, <1>3, AheadAppended

\* A call that begins the next statement inside of its own.
LEMMA BegunInOrder ==
  ASSUME NEW tree, WellFormed(tree), NEW s, IsSomeSequence(s), NEW c,
         InOrder(tree, Append(s, c)),
         NEW e, e.at = c.at, e.step # "enter", Begun(tree, c) = Begun(tree, e) - 1,
         Begun(tree, e) \in 1..tree[c.at].kids
  PROVE  LET t == Append(Append(s, e), Entry(Kid(c.at, Begun(tree, e))))
         IN /\ InOrder(tree, t)
            /\ \A d \in DOMAIN tree :
                 IsAhead(tree, t, d) <=> IsAhead(tree, Append(s, c), d) /\ d # c.at
<1> DEFINE p == c.at
           n == Begun(tree, e)
           k == Kid(p, n)
           r == Append(s, e)
<1>1. /\ InOrder(tree, s) /\ p \in DOMAIN tree /\ Follows(tree, s, Len(s), p)
  BY InOrderAppended
<1>2. p \in Seq(Nat) /\ tree[p].kids \in Nat /\ n \in Nat /\ n \in 1..tree[p].kids
  BY <1>1 DEF WellFormed
<1>3. k \in DOMAIN tree /\ k \in Seq(Nat)
  BY <1>1, <1>2 DEF WellFormed
<1>4. InOrder(tree, r) /\ IsSomeSequence(r)
  BY <1>1, InOrderAppended, AppendedAt
<1>5. /\ Len(s) \in Nat /\ Len(r) = Len(s) + 1 /\ r[Len(s) + 1] = e
      /\ \A i \in 1..Len(s) : r[i] = s[i]
  BY AppendedAt
<1>6. Under(p, n, k)
  BY <1>2, KidIsUnder
<1>7. Follows(tree, r, Len(r), k)
  <2>1. ASSUME NEW j \in 1..Len(s)
        PROVE  /\ s[j].at \in DOMAIN tree /\ s[j].step # "enter"
               /\ Under(s[j].at, Begun(tree, s[j]), k)
    <3> DEFINE a == s[j].at
               b == Begun(tree, s[j])
    <3>1. a \in DOMAIN tree /\ s[j].step # "enter" /\ Under(a, b, p)
      BY <1>1 DEF Follows
    <3>2. a \in Seq(Nat) /\ tree[a].kids \in Nat
      BY <3>1 DEF WellFormed
    <3> HIDE DEF a, b, k, n, p
    <3>3. b \in Nat
      BY <1>1, <3>1, <3>2, AroundIsThere
    <3>4. Under(a, b, k)
      BY <1>2, <1>3, <1>6, <3>1, <3>2, <3>3, UnderIsTransitive
    <3> QED BY <3>1, <3>4 DEF a, b
  <2>2. Ancestors(k) = Ancestors(p) \cup {p}
    BY <1>2, AncestorsOfKid
  <2>3. \A i \in 1..Len(s) + 1 : i \in 1..Len(s) \/ i = Len(s) + 1
    BY <1>5
  <2>4. Len(s) + 1 \in 1..Len(r) /\ \A i \in 1..Len(s) : i \in 1..Len(r)
    BY <1>5
  <2> HIDE DEF k, r
  <2>5. ASSUME NEW i \in 1..Len(r)
        PROVE  /\ r[i].at \in DOMAIN tree /\ r[i].step # "enter"
               /\ Under(r[i].at, Begun(tree, r[i]), k)
    <3>1. CASE i \in 1..Len(s)
      BY <1>5, <2>1, <3>1
    <3>2. CASE i = Len(s) + 1
      BY <1>1, <1>5, <1>6, <3>2
    <3> QED BY <1>5, <2>3, <3>1, <3>2
  <2>6. ASSUME NEW a \in Ancestors(k), tree[a].kind \notin Passing
        PROVE  \E i \in 1..Len(r) : r[i].at = a
    <3>1. CASE a = p
      BY <1>5, <2>4, <3>1
    <3>2. CASE a \in Ancestors(p)
      <4>1. PICK j \in 1..Len(s) : s[j].at = a
        BY <1>1, <2>6, <3>2 DEF Follows
      <4> QED BY <1>5, <2>4, <4>1
    <3> QED BY <2>2, <3>1, <3>2
  <2> QED BY <2>5, <2>6 DEF Follows
<1>8. Entry(k).at = k /\ Entry(k).step = "enter" /\ Entry(k).next = 1
  BY DEF Entry
<1>9. ASSUME NEW d \in DOMAIN tree
      PROVE  d \in Ahead(tree, e) \/ d \in Ahead(tree, Entry(k)) <=>
               d \in Ahead(tree, c) /\ d # p
  <2>1. d \in Seq(Nat) /\ \A m : ~Under(p, m, p)
    BY UnderNotItself DEF WellFormed
  <2>2. d \in Ahead(tree, Entry(k)) <=> Under(p, n, d)
    BY <1>2, <1>3, <2>1, AheadOfEntry, UnderAKid
  <2>3. d \in Ahead(tree, e) <=> \E m \in 1..tree[p].kids : Under(p, m, d) /\ m > n
    BY <2>1 DEF Ahead
  <2>4. d \in Ahead(tree, c) /\ d # p <=>
          \E m \in 1..tree[p].kids : Under(p, m, d) /\ m > n - 1
    BY <1>2, <2>1 DEF Ahead
  <2>5. \A m \in 1..tree[p].kids : m > n - 1 <=> m > n \/ m = n
    BY <1>2
  <2> HIDE DEF n, k, p
  <2> QED BY <1>2, <2>2, <2>3, <2>4, <2>5
<1> HIDE DEF k, r
<1>10. InOrder(tree, Append(r, Entry(k)))
  BY <1>3, <1>4, <1>7, <1>8, InOrderAppended
<1>11. ASSUME NEW d \in DOMAIN tree
       PROVE  IsAhead(tree, Append(r, Entry(k)), d) <=>
                IsAhead(tree, Append(s, c), d) /\ d # p
  <2>1. IsAhead(tree, Append(r, Entry(k)), d) <=>
          \/ IsAhead(tree, s, d)
          \/ d \in Ahead(tree, e) \/ d \in Ahead(tree, Entry(k))
    BY <1>4, AheadAppended DEF r
  <2>2. ~IsAhead(tree, s, p)
    BY ReturnedInOrder
  <2> QED BY <1>9, <2>1, <2>2, AheadAppended
<1> QED BY <1>10, <1>11 DEF k, r

\* A label gives way to its statement.
LEMMA PassedInOrder ==
  ASSUME NEW tree, WellFormed(tree), NEW s, IsSomeSequence(s), NEW c,
         InOrder(tree, Append(s, c)), tree[c.at].kind \in Passing, c.step = "enter"
  PROVE  LET t == Append(s, Entry(Kid(c.at, 1)))
         IN /\ InOrder(tree, t)
            /\ \A d \in DOMAIN tree :
                 IsAhead(tree, t, d) <=> IsAhead(tree, Append(s, c), d) /\ d # c.at
<1> DEFINE p == c.at
           k == Kid(p, 1)
<1>1. InOrder(tree, s) /\ p \in DOMAIN tree /\ Follows(tree, s, Len(s), p)
  BY InOrderAppended
<1>2. p \in Seq(Nat) /\ tree[p].kids = 1 /\ tree[p].kind # "expression"
  BY <1>1 DEF WellFormed, Passing
<1>3. k \in DOMAIN tree /\ k \in Seq(Nat) /\ Under(p, 1, k)
  <2>1. 1 \in 1..tree[p].kids
    BY <1>2
  <2>2. k \in DOMAIN tree
    BY <1>1, <2>1 DEF WellFormed
  <2> QED BY <1>2, <2>2, KidIsUnder
<1>4. Follows(tree, s, Len(s), k)
  <2>1. ASSUME NEW j \in 1..Len(s)
        PROVE  /\ s[j].at \in DOMAIN tree /\ s[j].step # "enter"
               /\ Under(s[j].at, Begun(tree, s[j]), k)
    <3> DEFINE a == s[j].at
               b == Begun(tree, s[j])
    <3>1. a \in DOMAIN tree /\ s[j].step # "enter" /\ Under(a, b, p)
      BY <1>1 DEF Follows
    <3>2. a \in Seq(Nat) /\ tree[a].kids \in Nat
      BY <3>1 DEF WellFormed
    <3> HIDE DEF a, b, k, p
    <3>3. b \in Nat
      BY <1>1, <3>1, <3>2, AroundIsThere
    <3>4. Under(a, b, k)
      BY <1>2, <1>3, <3>1, <3>2, <3>3, UnderIsTransitive
    <3> QED BY <3>1, <3>4 DEF a, b
  <2>2. Ancestors(k) = Ancestors(p) \cup {p}
    BY <1>2, AncestorsOfKid
  <2> HIDE DEF k
  <2> QED BY <1>1, <2>1, <2>2 DEF Follows
<1>5. Entry(k).at = k /\ Entry(k).step = "enter" /\ Entry(k).next = 1
  BY DEF Entry
<1>6. ASSUME NEW d \in DOMAIN tree
      PROVE  d \in Ahead(tree, Entry(k)) <=> d \in Ahead(tree, c) /\ d # p
  <2>1. d \in Seq(Nat) /\ \A m : ~Under(p, m, p)
    BY UnderNotItself DEF WellFormed
  <2>5. Under(p, 1, d) <=> d = k \/ \E m \in Nat : Under(k, m, d)
    BY <1>2, <2>1, UnderAKid
  <2>2. d \in Ahead(tree, Entry(k)) <=> Under(p, 1, d)
    <3> HIDE DEF k
    <3> QED BY <1>3, <2>5, AheadOfEntry
  <2>3. Begun(tree, c) = 0 /\ 1..tree[p].kids = {1}
    BY <1>2 DEF Begun
  <2>4. d \in Ahead(tree, c) /\ d # p <=> Under(p, 1, d)
    BY <2>1, <2>3 DEF Ahead
  <2> QED BY <2>2, <2>4
<1> HIDE DEF k
<1>7. InOrder(tree, Append(s, Entry(k)))
  BY <1>1, <1>3, <1>4, <1>5, InOrderAppended
<1>9. ~IsAhead(tree, s, p)
  BY ReturnedInOrder
<1>8. ASSUME NEW d \in DOMAIN tree
      PROVE  IsAhead(tree, Append(s, Entry(k)), d) <=>
               IsAhead(tree, Append(s, c), d) /\ d # p
  BY <1>6, <1>9, AheadAppended
<1> QED BY <1>7, <1>8 DEF k
-----------------------------------------------------------------------------
(***************************************************************************)
(* The scopes that are open, by the calls in progress: that of the         *)
(* parameters always is.                                                   *)
(***************************************************************************)
IsOpen(tree, s, a) ==
  \/ a = << >>
  \/ tree[a].kind \in ScopeKinds /\ \E j \in 1..Len(s) : s[j].at = a /\ s[j].step # "enter"

LEMMA OpenAppended ==
  ASSUME NEW tree, NEW s, IsSomeSequence(s), NEW c, NEW a
  PROVE  IsOpen(tree, Append(s, c), a) <=>
           \/ IsOpen(tree, s, a)
           \/ tree[a].kind \in ScopeKinds /\ c.at = a /\ c.step # "enter"
<1> DEFINE t == Append(s, c)
           n == Len(s)
<1>1. /\ n \in Nat /\ Len(t) = n + 1 /\ t[n + 1] = c
      /\ \A i \in 1..n : t[i] = s[i]
  BY AppendedAt
<1> HIDE DEF t, n
<1>2. 1..Len(t) = 1..n \cup {n + 1}
  BY <1>1
<1>3. (\E j \in 1..Len(t) : t[j].at = a /\ t[j].step # "enter") <=>
        \/ \E j \in 1..n : s[j].at = a /\ s[j].step # "enter"
        \/ c.at = a /\ c.step # "enter"
  BY <1>1, <1>2
<1> QED BY <1>3 DEF IsOpen, t, n

\* What a step does to what is pending and to the open scopes.
InOrderNext == InOrder(program, calls')
WentPast(p) ==
  \A d \in DOMAIN program :
    IsAhead(program, calls', d) <=> IsAhead(program, calls, d) /\ d # p
SamePending ==
  \A d \in DOMAIN program : IsPending(program, calls', d) <=> IsPending(program, calls, d)
EmittedAt(p) ==
  \A d \in DOMAIN program :
    IsPending(program, calls', d) <=> IsPending(program, calls, d) /\ d # p
SameOpen == \A a : IsOpen(program, calls', a) <=> IsOpen(program, calls, a)
OpenedAt(p) == \A a : IsOpen(program, calls', a) <=> IsOpen(program, calls, a) \/ a = p
ClosedAt(p) ==
  \A a : IsOpen(program, calls', a) <=> IsOpen(program, calls, a) /\ (a = << >> \/ a # p)

Ordered == InProgress /\ InOrder(program, calls)

LEMMA PendingByStep ==
  ASSUME NEW p, WentPast(p)
  PROVE  EmittedAt(p) /\ (program[p].kind # "expression" => SamePending)
BY DEF WentPast, EmittedAt, SamePending, IsPending

LEMMA OrderedCall ==
  ASSUME Ordered
  PROVE  /\ WellFormed(program) /\ IsSomeSequence(Front(calls))
         /\ calls = Append(Front(calls), Call)
         /\ InOrder(program, Append(Front(calls), Call))
         /\ Call.at \in DOMAIN program /\ Call.at \in Seq(Nat)
         /\ Follows(program, Front(calls), Len(Front(calls)), Call.at)
         /\ Call.step = "enter" => Call.next = 1
         /\ Node = program[Call.at] /\ Node.kids \in Nat
<1>1. WellFormed(program)
  BY ProgramsAssumption DEF Ordered, InProgress, NestInv, CallsInv
<1>2. /\ calls = Append(Front(calls), Call) /\ IsSomeSequence(Front(calls))
      /\ Call.at \in DOMAIN program /\ Call.at \in Seq(Nat)
  BY RunningCall DEF Ordered
<1>3. InOrder(program, Append(Front(calls), Call))
  BY <1>2 DEF Ordered
<1>4. /\ Follows(program, Front(calls), Len(Front(calls)), Call.at)
      /\ Call.step = "enter" => Call.next = 1
  BY <1>2, <1>3, InOrderAppended
<1>5. Node.kids \in Nat
  BY <1>1, <1>2 DEF WellFormed, Node
<1> QED BY <1>1, <1>2, <1>3, <1>4, <1>5 DEF Node

\* No call below the running one is for its statement.
LEMMA RunningIsAlone ==
  ASSUME Ordered, NEW j \in 1..Len(Front(calls)) PROVE Front(calls)[j].at # Call.at
<1>1. /\ Front(calls)[j].at \in DOMAIN program
      /\ Under(Front(calls)[j].at, Begun(program, Front(calls)[j]), Call.at)
  BY OrderedCall DEF Follows
<1>2. Front(calls)[j].at \in Seq(Nat)
  BY <1>1, OrderedCall DEF WellFormed
<1> QED BY <1>1, <1>2 DEF Under

LEMMA ReturnsInOrder ==
  ASSUME Ordered, Return, 
         \A d \in DOMAIN program : d \in Ahead(program, Call) => d = Call.at
  PROVE  /\ InOrderNext /\ ClosedAt(Call.at) /\ WentPast(Call.at)
         /\ Node.kind # "expression" => SamePending
         /\ Node.kind = "expression" /\ Call.step = "enter" => EmittedAt(Call.at)
         /\ Node.kind \notin ScopeKinds => SameOpen
<1> DEFINE s == Front(calls)
           c == Call
<1>1. /\ WellFormed(program) /\ IsSomeSequence(s) /\ calls = Append(s, c)
      /\ InOrder(program, Append(s, c)) /\ Node = program[c.at] /\ c.at \in DOMAIN program
  BY OrderedCall
<1>2. calls' = s
  BY DEF Return
<1>3. \A j \in 1..Len(s) : s[j].at # c.at
  BY RunningIsAlone
<1> HIDE DEF s, c
<1>4. /\ InOrder(program, s)
      /\ ~IsAhead(program, s, c.at)
      /\ \A d \in DOMAIN program :
           IsAhead(program, s, d) <=> IsAhead(program, calls, d) /\ d \notin Ahead(program, c)
  BY <1>1, ReturnedInOrder
<1>5. ASSUME NEW a
      PROVE  IsOpen(program, s, a) <=>
               IsOpen(program, calls, a) /\ (a = << >> \/ a # c.at)
  <2>1. CASE a = << >>
    BY <2>1 DEF IsOpen
  <2>2. CASE a # << >> /\ a = c.at
    BY <1>3, <2>2 DEF IsOpen
  <2>3. CASE a # c.at
    BY <1>1, <2>3, OpenAppended
  <2> QED BY <2>1, <2>2, <2>3
<1>8. ASSUME NEW a, Node.kind \notin ScopeKinds, IsOpen(program, calls, a)
      PROVE  a = << >> \/ a # c.at
  <2> SUFFICES ASSUME a # << >>, a = c.at PROVE FALSE
    OBVIOUS
  <2> QED BY <1>1, <1>8 DEF IsOpen
<1>9. \A d \in DOMAIN program : d \in Ahead(program, c) => d = c.at
  BY DEF c
<1>10. WentPast(c.at)
  BY <1>2, <1>4, <1>9 DEF WentPast
<1>11. EmittedAt(c.at) /\ (Node.kind # "expression" => SamePending)
  BY <1>1, <1>10, PendingByStep
<1> QED BY <1>2, <1>4, <1>5, <1>8, <1>10, <1>11 DEF InOrderNext, ClosedAt, SameOpen, c

LEMMA ChangesInOrder ==
  ASSUME Ordered, Node.kind # "expression",
         NEW e, e.at = Call.at, e.step # "enter", Begun(program, e) = Begun(program, Call),
         calls' = Append(Front(calls), e)
  PROVE  /\ InOrderNext /\ SamePending /\ WentPast(Call.at)
         /\ Node.kind \in ScopeKinds => OpenedAt(Call.at)
<1> DEFINE s == Front(calls)
           c == Call
<1>1. /\ WellFormed(program) /\ IsSomeSequence(s) /\ calls = Append(s, c)
      /\ InOrder(program, Append(s, c)) /\ Node = program[c.at]
  BY OrderedCall
<1> HIDE DEF s, c
<1>2. /\ e.at = c.at /\ Begun(program, e) = Begun(program, c) /\ calls' = Append(s, e)
      /\ program[c.at].kind # "expression"
  BY <1>1 DEF s, c
<1>3. /\ InOrder(program, Append(s, e))
      /\ \A d \in DOMAIN program :
           IsAhead(program, Append(s, e), d) <=> IsAhead(program, Append(s, c), d) /\ d # c.at
  BY <1>1, <1>2, ChangedInOrder
<1>4. ASSUME NEW a, Node.kind \in ScopeKinds
      PROVE  IsOpen(program, Append(s, e), a) <=> IsOpen(program, calls, a) \/ a = c.at
  <2>1. IsOpen(program, Append(s, e), a) <=>
          IsOpen(program, s, a) \/ (program[a].kind \in ScopeKinds /\ c.at = a)
    BY <1>1, <1>2, OpenAppended
  <2>2. IsOpen(program, calls, a) <=>
          \/ IsOpen(program, s, a)
          \/ program[a].kind \in ScopeKinds /\ c.at = a /\ c.step # "enter"
    BY <1>1, OpenAppended
  <2> QED BY <1>1, <1>4, <2>1, <2>2
<1>5. WentPast(c.at)
  BY <1>1, <1>2, <1>3 DEF WentPast
<1>6. SamePending
  BY <1>1, <1>5, PendingByStep
<1> QED BY <1>1, <1>2, <1>3, <1>4, <1>5, <1>6 DEF InOrderNext, OpenedAt, c

LEMMA BeginsInOrder ==
  ASSUME Ordered, Node.kind # "expression",
         NEW e, e.at = Call.at, e.step # "enter",
         Begun(program, Call) = Begun(program, e) - 1,
         NEW n \in 1..Node.kids, n = Begun(program, e), Emitting(e, Kid(Call.at, n))
  PROVE  /\ InOrderNext /\ SamePending /\ WentPast(Call.at)
         /\ Node.kind \in ScopeKinds => OpenedAt(Call.at)
         /\ Node.kind \notin ScopeKinds \/ Call.step # "enter" => SameOpen
<1> DEFINE s == Front(calls)
           c == Call
           k == Entry(Kid(c.at, n))
           t == Append(Append(s, e), k)
<1>1. /\ WellFormed(program) /\ IsSomeSequence(s) /\ calls = Append(s, c)
      /\ InOrder(program, Append(s, c)) /\ Node = program[c.at]
  BY OrderedCall
<1>2. calls' = t
  BY EmittingAppends DEF Ordered
<1>7. k.step = "enter"
  BY DEF Entry
<1> HIDE DEF s, c
<1>3. /\ e.at = c.at /\ Begun(program, c) = Begun(program, e) - 1
      /\ program[c.at].kind # "expression" /\ n \in 1..program[c.at].kids
  BY <1>1 DEF s, c
<1>4. InOrder(program, t) /\ \A d \in DOMAIN program :
         IsAhead(program, t, d) <=> IsAhead(program, Append(s, c), d) /\ d # c.at
  BY <1>1, <1>3, BegunInOrder
<1>5. IsSomeSequence(Append(s, e))
  BY <1>1, AppendedAt
<1> HIDE DEF k
<1>6. ASSUME NEW a
      PROVE  IsOpen(program, t, a) <=>
               IsOpen(program, s, a) \/ (program[a].kind \in ScopeKinds /\ c.at = a)
  BY <1>1, <1>3, <1>5, <1>7, OpenAppended
<1> HIDE DEF t
<1>8. ASSUME NEW a
      PROVE  IsOpen(program, calls, a) <=>
               \/ IsOpen(program, s, a)
               \/ program[a].kind \in ScopeKinds /\ c.at = a /\ c.step # "enter"
  BY <1>1, OpenAppended
<1>9. Node.kind \in ScopeKinds => OpenedAt(c.at)
  BY <1>1, <1>2, <1>6, <1>8 DEF OpenedAt
<1>10. Node.kind \notin ScopeKinds \/ c.step # "enter" => SameOpen
  BY <1>1, <1>2, <1>6, <1>8 DEF SameOpen
<1>11. WentPast(c.at)
  BY <1>1, <1>2, <1>4 DEF WentPast
<1>12. SamePending
  BY <1>1, <1>11, PendingByStep
<1> QED BY <1>2, <1>4, <1>9, <1>10, <1>11, <1>12 DEF InOrderNext, c

LEMMA PassesInOrder ==
  ASSUME Ordered, Node.kind \in Passing, Call.step = "enter",
         calls' = Append(Front(calls), Entry(Kid(Call.at, 1)))
  PROVE  InOrderNext /\ SamePending /\ SameOpen /\ WentPast(Call.at)
<1> DEFINE s == Front(calls)
           c == Call
           k == Entry(Kid(c.at, 1))
           t == Append(s, k)
<1>1. /\ WellFormed(program) /\ IsSomeSequence(s) /\ calls = Append(s, c)
      /\ InOrder(program, Append(s, c)) /\ Node = program[c.at] /\ c.step = "enter"
  BY OrderedCall
<1>2. calls' = t
  OBVIOUS
<1>3. k.step = "enter"
  BY DEF Entry
<1> HIDE DEF s, c
<1>4. InOrder(program, t) /\ \A d \in DOMAIN program :
         IsAhead(program, t, d) <=> IsAhead(program, Append(s, c), d) /\ d # c.at
  BY <1>1, PassedInOrder
<1> HIDE DEF k
<1>5. ASSUME NEW a PROVE IsOpen(program, t, a) <=> IsOpen(program, calls, a)
  BY <1>1, <1>3, OpenAppended
<1>6. WentPast(c.at)
  BY <1>1, <1>2, <1>4 DEF WentPast
<1>7. Node.kind # "expression"
  BY DEF Passing
<1>8. SamePending
  BY <1>1, <1>6, <1>7, PendingByStep
<1> QED BY <1>1, <1>2, <1>4, <1>5, <1>6, <1>8 DEF InOrderNext, SameOpen, c

-----------------------------------------------------------------------------
(***************************************************************************)
(* What each action of the generator does to the order, the pending        *)
(* expressions and the open scopes.                                        *)
(***************************************************************************)
LEMMA BegunBySteps ==
  ASSUME NEW tree, NEW c
  PROVE  /\ c.step = "enter" => Begun(tree, c) = 0
         /\ c.step = "items" => Begun(tree, c) = c.next - 1
         /\ c.step = "then" => Begun(tree, c) = 1
         /\ c.step = "else" => Begun(tree, c) = 2
         /\ c.step = "test" => Begun(tree, c) = tree[c.at].kids - 1
         /\ c.step = "body" => Begun(tree, c) = tree[c.at].kids
BY DEF Begun

LEMMA NothingAhead ==
  ASSUME Ordered, Begun(program, Call) \in Int, Node.kids <= Begun(program, Call),
         NEW d \in DOMAIN program, d \in Ahead(program, Call)
  PROVE  d = Call.at
<1>1. Node = program[Call.at] /\ Node.kids \in Nat
  BY OrderedCall
<1> QED BY <1>1 DEF Ahead

LEMMA ChangedNext ==
  ASSUME Ordered, NEW step, NEW next
  PROVE  /\ Call.next \in Nat \ {0}
         /\ [Call EXCEPT !.next = next].next = next
         /\ [Call EXCEPT !.step = step].next = Call.next
<1>1. IsCall(program, Call)
  BY CallIsInBody DEF Ordered, InProgress, NestInv
<1>2. PICK K, L, V : Call \in CallsOf(program, K, L, V)
  BY <1>1 DEF IsCall
<1> QED BY <1>2 DEF CallsOf

\* The number of statements inside of one, by its kind.
LEMMA KidsByKind ==
  ASSUME Ordered
  PROVE  /\ Node.kind \in LeafKinds => Node.kids = 0
         /\ Node.kind \in {"while", "do", "switch", "case", "default", "label"} =>
              Node.kids = 1
         /\ Node.kind = "if" => Node.kids \in 1..2
         /\ Node.kind = "for" =>
              IF Has(program, Call.at, "init") THEN Node.kids = 2 ELSE Node.kids = 1
         /\ Call.at = << >> => Node.kind = "compound"
<1>1. Node = program[Call.at] /\ Call.at \in DOMAIN program /\ WellFormed(program)
  BY OrderedCall
<1> QED BY <1>1 DEF WellFormed

LEMMA LeavesInOrder ==
  ASSUME Ordered, outcome' = "emitting",
         EmitExpression \/ EmitReturn \/ EmitBreak \/ EmitContinue \/ EmitGoto
  PROVE  /\ InOrderNext /\ SameOpen /\ WentPast(Call.at)
         /\ EmitExpression => EmittedAt(Call.at)
         /\ ~EmitExpression => SamePending
<1>1. /\ Return /\ Call.step = "enter" /\ Node.kind \in LeafKinds
      /\ EmitExpression <=> Node.kind = "expression"
  <2>1. ~Fail("internal error")
    BY DEF Fail
  <2>2. Return /\ Call.step = "enter" /\ Node.kind \in LeafKinds
    BY <2>1 DEF EmitExpression, EmitReturn, EmitBreak, EmitContinue, EmitGoto, At, LeafKinds
  <2>3. EmitExpression => Node.kind = "expression"
    BY DEF EmitExpression, At
  <2>4. ~EmitExpression => Node.kind # "expression"
    BY DEF EmitReturn, EmitBreak, EmitContinue, EmitGoto, At
  <2> QED BY <2>2, <2>3, <2>4
<1>2. Begun(program, Call) = 0 /\ Node.kids = 0
  BY <1>1, BegunBySteps, KidsByKind
<1>3. \A d \in DOMAIN program : d \in Ahead(program, Call) => d = Call.at
  BY <1>2, NothingAhead
<1>4. Node.kind \notin ScopeKinds
  BY <1>1 DEF ScopeKinds, LeafKinds
<1> QED BY <1>1, <1>3, <1>4, ReturnsInOrder

LEMMA EndsInOrder ==
  ASSUME Ordered,
         \/ AfterThen /\ Node.kids # 2
         \/ AfterElse \/ AfterWhileBody \/ AfterDoBody \/ AfterSwitchBody
         \/ LeaveCompound \/ AfterForBody
  PROVE  /\ InOrderNext /\ SamePending /\ WentPast(Call.at)
         /\ LeaveCompound \/ AfterForBody => ClosedAt(Call.at)
         /\ ~(LeaveCompound \/ AfterForBody) => SameOpen
<1>1. /\ Return /\ Node.kind # "expression"
      /\ \/ Node.kind = "if" /\ Call.step = "then" /\ Node.kids # 2
         \/ Node.kind = "if" /\ Call.step = "else"
         \/ Node.kind = "compound" /\ Call.step = "items" /\ Call.next > Node.kids
         \/ Call.step = "body"
      /\ ~(LeaveCompound \/ AfterForBody) => Node.kind \notin ScopeKinds
  BY DEF AfterThen, AfterElse, AfterWhileBody, AfterDoBody, AfterSwitchBody,
         LeaveCompound, AfterForBody, At, ScopeKinds
<1>2. Node = program[Call.at] /\ Node.kids \in Nat
  BY OrderedCall
<1>3. Begun(program, Call) \in Int /\ Node.kids <= Begun(program, Call)
  <2>1. Call.next \in Nat
    BY ChangedNext
  <2>2. CASE Node.kind = "if" /\ Call.step \in {"then", "else"}
    BY <1>1, <2>2, BegunBySteps, KidsByKind
  <2>3. CASE Call.step = "items" /\ Call.next > Node.kids
    BY <1>2, <2>1, <2>3, BegunBySteps
  <2>4. CASE Call.step = "body"
    BY <1>2, <2>4, BegunBySteps
  <2> QED BY <1>1, <2>2, <2>3, <2>4
<1>4. \A d \in DOMAIN program : d \in Ahead(program, Call) => d = Call.at
  BY <1>3, NothingAhead
<1> QED BY <1>1, <1>4, ReturnsInOrder

LEMMA StatementsBeginInOrder ==
  ASSUME Ordered,
         \/ EmitItem \/ EnterIf \/ (AfterThen /\ Node.kids = 2)
         \/ EnterWhile \/ EnterDo \/ ForTest \/ EnterSwitch
  PROVE  InOrderNext /\ SamePending /\ SameOpen /\ WentPast(Call.at)
<1>1. InProgress /\ Node = program[Call.at] /\ Node.kids \in Nat
  BY OrderedCall DEF Ordered
<1>2. CASE EmitItem
  <2> DEFINE e == [Call EXCEPT !.next = @ + 1]
  <2>1. /\ At("compound", "items") /\ Call.next <= Node.kids
        /\ Emitting(e, Kid(Call.at, Call.next))
    BY <1>2 DEF EmitItem
  <2>2. e.at = Call.at /\ e.step = "items" /\ e.next = Call.next + 1 /\ Call.next \in Nat \ {0}
    <3>1. e = [Call EXCEPT !.next = Call.next + 1]
      OBVIOUS
    <3> HIDE DEF e
    <3> QED BY <1>1, <2>1, <3>1, ChangedCall, ChangedNext DEF At
  <2> HIDE DEF e
  <2>3. /\ Begun(program, e) = Call.next /\ Begun(program, Call) = Call.next - 1
        /\ Call.next \in 1..Node.kids /\ Begun(program, Call) = Begun(program, e) - 1
    BY <1>1, <2>1, <2>2, BegunBySteps DEF At
  <2>4. Node.kind # "expression" /\ Call.step # "enter" /\ e.step # "enter"
    BY <2>1, <2>2 DEF At
  <2> QED BY <2>1, <2>2, <2>3, <2>4, BeginsInOrder
<1>3. CASE EnterIf
  <2> DEFINE e == [Call EXCEPT !.step = "then", !.labels = <<New(1), New(2)>>]
  <2>1. At("if", "enter") /\ Emitting(e, Kid(Call.at, 1))
    BY <1>3 DEF EnterIf
  <2>2. e.at = Call.at /\ e.step = "then"
    BY <1>1, ChangedCall
  <2> HIDE DEF e
  <2>3. Begun(program, e) = 1 /\ Begun(program, Call) = Begun(program, e) - 1 /\ 1 \in 1..Node.kids
    BY <1>1, <2>1, <2>2, BegunBySteps, KidsByKind DEF At
  <2>4. Node.kind # "expression" /\ Node.kind \notin ScopeKinds /\ e.step # "enter"
    BY <2>1, <2>2 DEF At, ScopeKinds
  <2> QED BY <2>1, <2>2, <2>3, <2>4, BeginsInOrder
<1>4. CASE AfterThen /\ Node.kids = 2
  <2> DEFINE e == [Call EXCEPT !.step = "else"]
  <2>1. At("if", "then") /\ Emitting(e, Kid(Call.at, 2))
    BY <1>4 DEF AfterThen
  <2>2. e.at = Call.at /\ e.step = "else"
    BY <1>1, ChangedCall
  <2> HIDE DEF e
  <2>3. Begun(program, e) = 2 /\ Begun(program, Call) = Begun(program, e) - 1 /\ 2 \in 1..Node.kids
    BY <1>1, <1>4, <2>1, <2>2, BegunBySteps DEF At
  <2>4. Node.kind # "expression" /\ Node.kind \notin ScopeKinds /\ e.step # "enter"
    BY <2>1, <2>2 DEF At, ScopeKinds
  <2> QED BY <2>1, <2>2, <2>3, <2>4, BeginsInOrder
<1>5. CASE EnterWhile \/ EnterDo
  <2>1. /\ Call.step = "enter" /\ Node.kind \in {"while", "do"}
        /\ \E labels : Emitting([Call EXCEPT !.step = "body", !.labels = labels], Kid(Call.at, 1))
    <3>1. CASE EnterWhile
      <4>1. Emitting([Call EXCEPT !.step = "body", !.labels = <<New(1), New(2)>>],
                     Kid(Call.at, 1))
        BY <3>1 DEF EnterWhile
      <4>2. Call.step = "enter" /\ Node.kind \in {"while", "do"}
        BY <3>1 DEF EnterWhile, At
      <4> QED BY <4>1, <4>2
    <3>2. CASE EnterDo
      <4>1. Emitting([Call EXCEPT !.step = "body", !.labels = <<New(1), New(2), New(3)>>],
                     Kid(Call.at, 1))
        BY <3>2 DEF EnterDo
      <4>2. Call.step = "enter" /\ Node.kind \in {"while", "do"}
        BY <3>2 DEF EnterDo, At
      <4> QED BY <4>1, <4>2
    <3> QED BY <1>5, <3>1, <3>2
  <2>2. PICK labels : Emitting([Call EXCEPT !.step = "body", !.labels = labels], Kid(Call.at, 1))
    BY <2>1
  <2> DEFINE e == [Call EXCEPT !.step = "body", !.labels = labels]
  <2>3. e.at = Call.at /\ e.step = "body" /\ Emitting(e, Kid(Call.at, 1))
    BY <1>1, <2>2, ChangedCall
  <2> HIDE DEF e
  <2>4. Begun(program, e) = 1 /\ Begun(program, Call) = Begun(program, e) - 1 /\ 1 \in 1..Node.kids
    BY <1>1, <2>1, <2>3, BegunBySteps, KidsByKind
  <2>5. Node.kind # "expression" /\ Node.kind \notin ScopeKinds /\ e.step # "enter"
    BY <2>1, <2>3 DEF ScopeKinds
  <2> QED BY <2>3, <2>4, <2>5, BeginsInOrder
<1>6. CASE ForTest
  <2> DEFINE e == [Call EXCEPT !.step = "body", !.labels = <<New(1), New(2), New(3)>>]
  <2>1. At("for", "test") /\ Emitting(e, Kid(Call.at, Node.kids))
    BY <1>6 DEF ForTest
  <2>2. e.at = Call.at /\ e.step = "body"
    BY <1>1, ChangedCall
  <2> HIDE DEF e
  <2>3. /\ Begun(program, e) = Node.kids /\ Begun(program, Call) = Begun(program, e) - 1
        /\ Node.kids \in 1..Node.kids
    BY <1>1, <2>1, <2>2, BegunBySteps, KidsByKind DEF At
  <2>4. Node.kind # "expression" /\ Call.step # "enter" /\ e.step # "enter"
    BY <2>1, <2>2 DEF At
  <2> QED BY <2>1, <2>2, <2>3, <2>4, BeginsInOrder
<1>7. CASE EnterSwitch
  <2>1. PICK labels : Emitting([Call EXCEPT !.step = "body", !.labels = labels,
                                            !.saved = switch_cases], Kid(Call.at, 1))
    BY <1>7, Zenon DEF EnterSwitch
  <2>2. At("switch", "enter")
    BY <1>7 DEF EnterSwitch
  <2> DEFINE e == [Call EXCEPT !.step = "body", !.labels = labels, !.saved = switch_cases]
  <2>3. e.at = Call.at /\ e.step = "body" /\ Emitting(e, Kid(Call.at, 1))
    BY <1>1, <2>1, ChangedCall
  <2> HIDE DEF e
  <2>4. Begun(program, e) = 1 /\ Begun(program, Call) = Begun(program, e) - 1 /\ 1 \in 1..Node.kids
    BY <1>1, <2>2, <2>3, BegunBySteps, KidsByKind DEF At
  <2>5. Node.kind # "expression" /\ Node.kind \notin ScopeKinds /\ e.step # "enter"
    BY <2>2, <2>3 DEF At, ScopeKinds
  <2> QED BY <2>3, <2>4, <2>5, BeginsInOrder
<1> QED BY <1>2, <1>3, <1>4, <1>5, <1>6, <1>7

LEMMA ScopesOpenInOrder ==
  ASSUME Ordered, EnterCompound \/ EnterFor
  PROVE  /\ InOrderNext /\ SamePending /\ OpenedAt(Call.at) /\ WentPast(Call.at)
         /\ Call.at # << >> => ~IsOpen(program, calls, Call.at)
<1>1. /\ InProgress /\ Node = program[Call.at] /\ Node.kids \in Nat
      /\ Call.step = "enter" /\ Call.next = 1 /\ Node.kind \in ScopeKinds
      /\ Node.kind # "expression"
  <2>1. Call.step = "enter" /\ Node.kind \in {"compound", "for"}
    BY DEF EnterCompound, EnterFor, At
  <2> QED BY <2>1, OrderedCall DEF Ordered, ScopeKinds
<1>2. ASSUME EnterCompound
      PROVE  InOrderNext /\ SamePending /\ OpenedAt(Call.at) /\ WentPast(Call.at)
  <2> DEFINE e == [Call EXCEPT !.step = "items"]
  <2>1. calls' = Append(Front(calls), e)
    BY <1>2 DEF EnterCompound
  <2>2. e.at = Call.at /\ e.step = "items" /\ e.next = 1
    BY <1>1, ChangedCall, ChangedNext
  <2> HIDE DEF e
  <2>3. Begun(program, e) = Begun(program, Call) /\ e.step # "enter"
    BY <1>1, <2>2, BegunBySteps
  <2> QED BY <1>1, <2>1, <2>2, <2>3, ChangesInOrder
<1>3. ASSUME EnterFor
      PROVE  InOrderNext /\ SamePending /\ OpenedAt(Call.at) /\ WentPast(Call.at)
  <2> DEFINE e == [Call EXCEPT !.step = "test"]
  <2>1. IF Has(program, Call.at, "init") THEN Emitting(e, Kid(Call.at, 1))
        ELSE calls' = Append(Front(calls), e)
    BY <1>3 DEF EnterFor
  <2>2. e.at = Call.at /\ e.step = "test" /\ Node.kind = "for"
    BY <1>1, <1>3, ChangedCall DEF EnterFor, At
  <2> HIDE DEF e
  <2>3. Begun(program, e) = Node.kids - 1 /\ Begun(program, Call) = 0 /\ e.step # "enter"
    BY <1>1, <2>2, BegunBySteps
  <2>4. CASE Has(program, Call.at, "init")
    <3>1. /\ Begun(program, e) = 1 /\ Begun(program, Call) = Begun(program, e) - 1
          /\ 1 \in 1..Node.kids
      BY <1>1, <2>2, <2>3, <2>4, KidsByKind
    <3> QED BY <1>1, <2>1, <2>2, <2>3, <2>4, <3>1, BeginsInOrder
  <2>5. CASE ~Has(program, Call.at, "init")
    <3>1. Begun(program, e) = Begun(program, Call)
      BY <1>1, <2>2, <2>3, <2>5, KidsByKind
    <3> QED BY <1>1, <2>1, <2>2, <2>3, <2>5, <3>1, ChangesInOrder
  <2> QED BY <2>4, <2>5
<1>4. ASSUME Call.at # << >> PROVE ~IsOpen(program, calls, Call.at)
  <2>1. ~IsOpen(program, Front(calls), Call.at)
    BY <1>4, RunningIsAlone DEF IsOpen
  <2>2. IsSomeSequence(Front(calls)) /\ calls = Append(Front(calls), Call)
    BY OrderedCall
  <2>3. IsOpen(program, Append(Front(calls), Call), Call.at) <=>
          \/ IsOpen(program, Front(calls), Call.at)
          \/ program[Call.at].kind \in ScopeKinds /\ Call.at = Call.at /\ Call.step # "enter"
    BY <2>2, OpenAppended
  <2> QED BY <1>1, <2>1, <2>2, <2>3
<1> QED BY <1>2, <1>3, <1>4

LEMMA LabelsInOrder ==
  ASSUME Ordered, EmitLabel \/ EmitCase, outcome' = "emitting"
  PROVE  InOrderNext /\ SamePending /\ SameOpen /\ WentPast(Call.at)
<1>1. ~Fail("internal error")
  BY DEF Fail
<1>2. /\ Node.kind \in Passing /\ Call.step = "enter"
      /\ calls' = Append(Front(calls), Entry(Kid(Call.at, 1)))
  BY <1>1 DEF EmitLabel, EmitCase, At, Passing
<1> QED BY <1>2, PassesInOrder


-----------------------------------------------------------------------------
(***************************************************************************)
(* The one call when the body is entered.                                  *)
(***************************************************************************)
\* Before the body only the scope of the parameters is open.
LEMMA EntryCalls ==
  ASSUME NEW s, s = <<Entry(<< >>)>>, NEW tree, WellFormed(tree)
  PROVE  /\ \A a : IsOpen(tree, s, a) <=> a = << >>
         /\ InOrder(tree, s) /\ ~IsPending(tree, s, << >>)
         /\ \A d \in DOMAIN tree : d # << >> =>
              /\ IsAhead(tree, s, d)
              /\ tree[d].kind = "expression" => IsPending(tree, s, d)
<1> DEFINE c == Entry(<< >>)
<1>1. /\ c.at = << >> /\ c.step = "enter" /\ c.next = 1
      /\ << >> \in DOMAIN tree /\ tree[<< >>].kind = "compound"
  BY DEF Entry, WellFormed
<1>2. ASSUME NEW d \in DOMAIN tree, d # << >> PROVE d \in Ahead(tree, c)
  <2>1. d \in Seq(Nat) /\ << >> \in Seq(Nat)
    BY DEF WellFormed
  <2>2. 1 \in 1..Len(d) /\ Len(<< >>) = 0 /\ Len(d) \in Nat
    BY <1>2, <2>1, EmptySeq
  <2>3. Under(<< >>, d[1], d) /\ d[1] \in Nat
    BY <2>1, <2>2 DEF Under
  <2> QED BY <1>1, <2>3, AheadOfEntry
<1>3. Len(s) = 1 /\ s[1] = c /\ 1..1 = {1}
  OBVIOUS
<1> HIDE DEF c
<1>4. \A a : IsOpen(tree, s, a) <=> a = << >>
  BY <1>1, <1>3 DEF IsOpen
<1>5. ~IsPending(tree, s, << >>)
  BY <1>1 DEF IsPending
<1>6. ASSUME NEW d \in DOMAIN tree, d # << >>
      PROVE  /\ IsAhead(tree, s, d)
             /\ tree[d].kind = "expression" => IsPending(tree, s, d)
  BY <1>2, <1>3, <1>6 DEF IsPending, IsAhead
<1>7. InOrder(tree, s)
  <2>1. Ancestors(<< >>) = {}
    BY DEF Ancestors
  <2>2. Follows(tree, s, 0, << >>)
    BY <2>1 DEF Follows
  <2>3. Placed(tree, s, 1)
    BY <1>1, <1>3, <2>2 DEF Placed
  <2> QED BY <1>3, <2>3 DEF InOrder
<1> QED BY <1>4, <1>5, <1>6, <1>7


-----------------------------------------------------------------------------
(***************************************************************************)
(* The labels. A label that is still to be defined is owed by the          *)
(* statement that will do it: a call in progress owes the labels it has    *)
(* allocated and not written, a case, default or label that is ahead its   *)
(* own. Every jump written is to a label that is defined or owed, and none *)
(* is owed twice; at the end of the function nothing is owed.              *)
(***************************************************************************)
LabelsIn(text) == {text[i].label : i \in {j \in DOMAIN text : text[j].op = "label"}}
JumpsIn(text) == {text[i].label : i \in {j \in DOMAIN text : text[j].op \in JumpOps}}
DefinesOnce(text) ==
  \A i, j \in DOMAIN text :
    text[i].op = "label" /\ text[j].op = "label" /\ text[i].label = text[j].label => i = j

LabelsLeft(tree, c) ==
  CASE c.step = "then" -> IF tree[c.at].kids = 2 THEN {c.labels[1], c.labels[2]}
                          ELSE {c.labels[1]}
    [] c.step = "else" -> {c.labels[2]}
    [] c.step = "body" /\ tree[c.at].kind = "while" -> {c.labels[2]}
    [] c.step = "body" /\ tree[c.at].kind \in {"do", "for"} -> {c.labels[2], c.labels[3]}
    [] c.step = "body" /\ tree[c.at].kind = "switch" -> {c.labels[1]}
    [] OTHER -> {}

\* The two that are left are not the same, and a loop's first is written.
LabelsOfCall(tree, c, written) ==
  /\ c.step = "then" => c.labels[1] # c.labels[2]
  /\ c.step = "body" /\ tree[c.at].kind \in {"do", "for"} => c.labels[2] # c.labels[3]
  /\ c.step = "body" /\ tree[c.at].kind \in Loops => c.labels[1] \in written

OwedBy(tree, c) == {c.at} \X LabelsLeft(tree, c)
OwedByCalls(tree, s) == UNION {OwedBy(tree, s[i]) : i \in 1..Len(s)}
Tabled(tree, s, cases) ==
  cases \cup UNION {s[i].saved : i \in BodiesOf(tree, s, {"switch"})}
OwedAhead(tree, s, cases) ==
  {<<d, User(tree[d].arg)>> :
     d \in {e \in DOMAIN tree : tree[e].kind = "label" /\ IsAhead(tree, s, e)}}
  \cup {<<c.statement, c.label>> :
          c \in {e \in Tabled(tree, s, cases) : IsAhead(tree, s, e.statement)}}
Owed(tree, s, cases) == OwedByCalls(tree, s) \cup OwedAhead(tree, s, cases)

Promised(text, owed) == LabelsIn(text) \cup {x[2] : x \in owed} \cup {ReturnLabel}

\* Every label is written or owed once, by one; none is from the future.
LabelsKept(text, owed, next) ==
  /\ IsSomeSequence(text) /\ next \in Nat \ {0}
  /\ DefinesOnce(text)
  /\ \A x, y \in owed : x[2] = y[2] => x = y
  /\ \A x \in owed : x[2] \notin LabelsIn(text)
  /\ \A l \in LabelsIn(text) \cup {x[2] : x \in owed} : \A n \in Nat :
       l = Local(n) => n \in 1 .. next - 1
  /\ JumpsIn(text) \subseteq Promised(text, owed)

\* The cases in a table are of the innermost switch that was being emitted then.
CasesInside(tree, s, cases) ==
  LET switches == BodiesOf(tree, s, {"switch"})
      inside(c, m) == \E j \in switches :
                        /\ j < m /\ \A k \in switches : k < m => k <= j
                        /\ c.statement \in CasesIn(tree, s[j].at)
  IN /\ \A c \in cases : inside(c, Len(s) + 1)
     /\ \A m \in switches : \A c \in s[m].saved : inside(c, m)

TablesApart(tree, s, cases) ==
  /\ CasesInside(tree, s, cases)
  /\ \A c, d \in Tabled(tree, s, cases) : c.statement = d.statement => c = d
  /\ \A c \in Tabled(tree, s, cases) :
       c.statement \in DOMAIN tree /\ tree[c.statement].kind \in {"case", "default"}

OwedNow == Owed(program, calls, switch_cases)
PromisedNow == Promised(code, OwedNow)

LabelsAgree ==
  /\ LabelsKept(code, OwedNow, next_label_id)
  /\ TablesApart(program, calls, switch_cases)
  /\ \A i \in 1..Len(calls) : LabelsOfCall(program, calls[i], LabelsIn(code))
  /\ \A i \in 1..Len(break_targets) : break_targets[i] \in PromisedNow
  /\ \A i \in 1..Len(loop_targets) : loop_targets[i].continue \in PromisedNow
  /\ \A p \in DOMAIN program : program[p].kind = "label" =>
       User(program[p].arg) \in PromisedNow

LabelInv ==
  /\ NoErrorInv
  /\ outcome = "emitting" => InOrder(program, calls)
  /\ outcome = "emitting" /\ C!GotosResolve(program) => LabelsAgree
  /\ outcome = "emitted" /\ C!GotosResolve(program) => Assembles
  /\ OnlyUserLabelsFailToAssemble

-----------------------------------------------------------------------------
(***************************************************************************)
(* Texts, by the labels they define and those they jump to.                *)
(***************************************************************************)
IsText(t, L, J) ==
  IsSomeSequence(t) /\ LabelsIn(t) = L /\ JumpsIn(t) = J /\ DefinesOnce(t)

LEMMA OneInstruction ==
  ASSUME NEW r
  PROVE  IsText(<<r>>, IF r.op = "label" THEN {r.label} ELSE {},
                IF r.op \in JumpOps THEN {r.label} ELSE {})
<1> DEFINE t == <<r>>
<1>1. IsSomeSequence(t)
  <2>1. t \in Seq({r})
    OBVIOUS
  <2> QED BY <2>1 DEF IsSomeSequence
<1>2. DOMAIN t = {1} /\ t[1] = r
  OBVIOUS
<1> HIDE DEF t
<1>3. /\ LabelsIn(t) = IF r.op = "label" THEN {r.label} ELSE {}
      /\ JumpsIn(t) = IF r.op \in JumpOps THEN {r.label} ELSE {}
  BY <1>2 DEF LabelsIn, JumpsIn
<1>4. DefinesOnce(t)
  BY <1>2 DEF DefinesOnce
<1> QED BY <1>1, <1>3, <1>4 DEF IsText, t

LEMMA Instructions ==
  ASSUME NEW l, NEW p, NEW role, NEW v
  PROVE  /\ IsText(Label(l), {l}, {})
         /\ \A op \in JumpOps : IsText(Jump(op, l), {}, {l})
         /\ IsText(Eval(p, role), {}, {}) /\ IsText(CmpEax(v), {}, {})
         /\ IsText(XorEax, {}, {}) /\ IsText(Ret, {}, {}) /\ IsText(<< >>, {}, {})
<1>1. IsText(Label(l), {l}, {})
  <2>1. PICK r : r = [op |-> "label", label |-> l]
    OBVIOUS
  <2>2. r.op = "label" /\ r.label = l /\ Label(l) = <<r>> /\ "label" \notin JumpOps
    BY <2>1 DEF Label, JumpOps
  <2> QED BY <2>2, OneInstruction
<1>2. ASSUME NEW op \in JumpOps PROVE IsText(Jump(op, l), {}, {l})
  <2>1. PICK r : r = [op |-> op, label |-> l]
    OBVIOUS
  <2>2. r.op = op /\ r.label = l /\ Jump(op, l) = <<r>> /\ op # "label"
    BY <2>1 DEF Jump, JumpOps
  <2> QED BY <2>2, OneInstruction
<1>3. IsText(Eval(p, role), {}, {})
  <2>1. PICK r : r = [op |-> "eval", at |-> p, role |-> role]
    OBVIOUS
  <2>2. r.op \notin JumpOps /\ r.op # "label" /\ Eval(p, role) = <<r>>
    BY <2>1 DEF Eval, JumpOps
  <2> QED BY <2>2, OneInstruction
<1>4. IsText(CmpEax(v), {}, {})
  <2>1. PICK r : r = [op |-> "cmp", with |-> v]
    OBVIOUS
  <2>2. r.op \notin JumpOps /\ r.op # "label" /\ CmpEax(v) = <<r>>
    BY <2>1 DEF CmpEax, JumpOps
  <2> QED BY <2>2, OneInstruction
<1>5. IsText(XorEax, {}, {})
  <2>1. PICK r : r = [op |-> "xor"]
    OBVIOUS
  <2>2. r.op \notin JumpOps /\ r.op # "label" /\ XorEax = <<r>>
    BY <2>1 DEF XorEax, JumpOps
  <2> QED BY <2>2, OneInstruction
<1>6. IsText(Ret, {}, {})
  <2>1. PICK r : r = [op |-> "ret"]
    OBVIOUS
  <2>2. r.op \notin JumpOps /\ r.op # "label" /\ Ret = <<r>>
    BY <2>1 DEF Ret, JumpOps
  <2> QED BY <2>2, OneInstruction
<1>7. IsText(<< >>, {}, {})
  <2>1. << >> \in Seq({}) /\ DOMAIN << >> = {}
    OBVIOUS
  <2> QED BY <2>1 DEF IsText, IsSomeSequence, LabelsIn, JumpsIn, DefinesOnce
<1> QED BY <1>1, <1>2, <1>3, <1>4, <1>5, <1>6, <1>7

LEMMA JoinedAt ==
  ASSUME NEW a, IsSomeSequence(a), NEW b, IsSomeSequence(b)
  PROVE  /\ IsSomeSequence(a \o b) /\ Len(a) \in Nat /\ Len(b) \in Nat
         /\ DOMAIN (a \o b) = 1 .. Len(a) + Len(b)
         /\ DOMAIN a = 1..Len(a) /\ DOMAIN b = 1..Len(b)
         /\ \A i \in 1..Len(a) : (a \o b)[i] = a[i]
         /\ \A i \in 1..Len(b) : (a \o b)[Len(a) + i] = b[i]
<1>1. PICK S : a \in Seq(S)
  BY DEF IsSomeSequence
<1>2. PICK T : b \in Seq(T)
  BY DEF IsSomeSequence
<1> DEFINE U == S \cup T
<1>3. a \in Seq(U) /\ b \in Seq(U)
  BY <1>1, <1>2
<1> HIDE DEF U
<1>4. /\ a \o b \in Seq(U) /\ Len(a \o b) = Len(a) + Len(b)
      /\ Len(a) \in Nat /\ Len(b) \in Nat
      /\ DOMAIN a = 1..Len(a) /\ DOMAIN b = 1..Len(b)
  BY <1>3
<1>5. DOMAIN (a \o b) = 1 .. Len(a) + Len(b)
  BY <1>4
<1>6. \A i \in 1..Len(a) : (a \o b)[i] = a[i]
  BY <1>3, <1>4
<1>7. \A i \in 1..Len(b) : (a \o b)[Len(a) + i] = b[i]
  BY <1>3, <1>4
<1> QED BY <1>4, <1>5, <1>6, <1>7 DEF IsSomeSequence

LEMMA TextsJoined ==
  ASSUME NEW a, NEW La, NEW Ja, IsText(a, La, Ja),
         NEW b, NEW Lb, NEW Jb, IsText(b, Lb, Jb), La \cap Lb = {}
  PROVE  IsText(a \o b, La \cup Lb, Ja \cup Jb)
<1> DEFINE t == a \o b
           m == Len(a)
           n == Len(b)
<1>1. /\ IsSomeSequence(t) /\ m \in Nat /\ n \in Nat
      /\ DOMAIN t = 1 .. m + n /\ DOMAIN a = 1..m /\ DOMAIN b = 1..n
      /\ \A i \in 1..m : t[i] = a[i]
      /\ \A i \in 1..n : t[m + i] = b[i]
  BY JoinedAt DEF IsText
<1> HIDE DEF t, m, n
<1>2. ASSUME NEW i \in DOMAIN t
      PROVE  \/ i \in DOMAIN a /\ t[i] = a[i]
             \/ i - m \in DOMAIN b /\ t[i] = b[i - m] /\ i > m
  <2>1. CASE i \in 1..m
    BY <1>1, <2>1
  <2>2. CASE i \notin 1..m
    <3>1. i - m \in 1..n /\ m + (i - m) = i /\ i > m
      BY <1>1, <2>2
    <3> QED BY <1>1, <3>1
  <2> QED BY <2>1, <2>2
<1>3. /\ \A i \in DOMAIN a : i \in DOMAIN t /\ t[i] = a[i]
      /\ \A i \in DOMAIN b : m + i \in DOMAIN t /\ t[m + i] = b[i]
  <2>1. ASSUME NEW i \in DOMAIN b PROVE m + i \in DOMAIN t
    BY <1>1
  <2>2. ASSUME NEW i \in DOMAIN a PROVE i \in DOMAIN t
    BY <1>1
  <2> QED BY <1>1, <2>1, <2>2
<1>4. LabelsIn(t) = LabelsIn(a) \cup LabelsIn(b)
  <2>1. LabelsIn(t) \subseteq LabelsIn(a) \cup LabelsIn(b)
    BY <1>2 DEF LabelsIn
  <2>2. LabelsIn(a) \subseteq LabelsIn(t)
    BY <1>3 DEF LabelsIn
  <2>3. ASSUME NEW i \in DOMAIN b, b[i].op = "label" PROVE b[i].label \in LabelsIn(t)
    <3>1. m + i \in DOMAIN t /\ t[m + i] = b[i]
      BY <1>3
    <3> QED BY <2>3, <3>1 DEF LabelsIn
  <2> QED BY <2>1, <2>2, <2>3 DEF LabelsIn
<1>5. JumpsIn(t) = JumpsIn(a) \cup JumpsIn(b)
  <2>1. JumpsIn(t) \subseteq JumpsIn(a) \cup JumpsIn(b)
    BY <1>2 DEF JumpsIn
  <2>2. JumpsIn(a) \subseteq JumpsIn(t)
    BY <1>3 DEF JumpsIn
  <2>3. ASSUME NEW i \in DOMAIN b, b[i].op \in JumpOps PROVE b[i].label \in JumpsIn(t)
    <3>1. m + i \in DOMAIN t /\ t[m + i] = b[i]
      BY <1>3
    <3> QED BY <2>3, <3>1 DEF JumpsIn
  <2> QED BY <2>1, <2>2, <2>3 DEF JumpsIn
<1>6. ASSUME NEW i \in DOMAIN t, NEW j \in DOMAIN t,
             t[i].op = "label", t[j].op = "label", t[i].label = t[j].label
      PROVE  i = j
  <2>1. \A k \in DOMAIN a, l \in DOMAIN b :
          a[k].op = "label" /\ b[l].op = "label" => a[k].label # b[l].label
    BY DEF IsText, LabelsIn
  <2>2. CASE i \in DOMAIN a /\ t[i] = a[i]
    <3>1. ~(j - m \in DOMAIN b /\ t[j] = b[j - m])
      BY <1>6, <2>1, <2>2
    <3>2. j \in DOMAIN a /\ t[j] = a[j]
      BY <1>2, <3>1
    <3> QED BY <1>6, <2>2, <3>2 DEF IsText, DefinesOnce
  <2>3. CASE i - m \in DOMAIN b /\ t[i] = b[i - m] /\ i > m
    <3>1. ~(j \in DOMAIN a /\ t[j] = a[j])
      BY <1>6, <2>1, <2>3
    <3>2. j - m \in DOMAIN b /\ t[j] = b[j - m] /\ j > m
      BY <1>2, <3>1
    <3>3. i - m = j - m
      BY <1>6, <2>3, <3>2 DEF IsText, DefinesOnce
    <3> QED BY <1>1, <3>3
  <2> QED BY <1>2, <2>2, <2>3
<1> QED BY <1>1, <1>4, <1>5, <1>6 DEF IsText, DefinesOnce, t

Fresh(l, from, to) == \E n \in from .. to - 1 : l = Local(n)

LEMMA LocalsDiffer ==
  /\ \A m, n : Local(m) = Local(n) => m = n
  /\ \A n, x : Local(n) # User(x)
  /\ \A x, y : User(x) = User(y) => x = y
BY DEF Local, User

\* p writes the labels L, which it owes or has just allocated, and owes new ones
\* from now on, which have been allocated with them.
Writes(p, L, new, owed, after, next, then) ==
  /\ then \in Nat /\ next <= then
  /\ \A l \in L : <<p, l>> \in owed \/ Fresh(l, next, then)
  /\ \A x \in new : Fresh(x[2], next, then) /\ x[2] \notin L
  /\ \A x, y \in new : x[2] = y[2] => x = y
  /\ after = (owed \ ({p} \X L)) \cup new

LEMMA WritingKeepsLabels ==
  ASSUME NEW text, NEW owed, NEW next, LabelsKept(text, owed, next),
         \A x \in owed : x = <<x[1], x[2]>>,
         NEW t, NEW L, NEW J, IsText(t, L, J),
         NEW p, NEW new, NEW after, NEW then, Writes(p, L, new, owed, after, next, then),
         J \subseteq Promised(text, owed) \cup L \cup {x[2] : x \in new}
  PROVE  /\ LabelsKept(text \o t, after, then)
         /\ Promised(text, owed) \subseteq Promised(text \o t, after)
         /\ LabelsIn(text \o t) = LabelsIn(text) \cup L
<1> DEFINE u == text \o t
           all == LabelsIn(text) \cup {x[2] : x \in owed}
<1>1. /\ next \in Nat \ {0} /\ then \in Nat /\ next <= then
      /\ \A l \in L : <<p, l>> \in owed \/ Fresh(l, next, then)
      /\ \A x \in new : Fresh(x[2], next, then) /\ x[2] \notin L
      /\ \A x, y \in new : x[2] = y[2] => x = y
      /\ after = (owed \ ({p} \X L)) \cup new
  BY DEF LabelsKept, Writes
<1>2. ASSUME NEW l, Fresh(l, next, then)
      PROVE  l \notin all /\ \A n \in Nat : l = Local(n) => n \in 1 .. then - 1
  <2>1. PICK m \in next .. then - 1 : l = Local(m)
    BY <1>2 DEF Fresh
  <2>2. m \in Nat /\ m \notin 1 .. next - 1 /\ m \in 1 .. then - 1
    BY <1>1
  <2>3. l \notin all
    BY <2>1, <2>2 DEF LabelsKept
  <2>4. \A n : l = Local(n) => n = m
    BY <2>1, LocalsDiffer
  <2> QED BY <2>2, <2>3, <2>4
<1>3. \A l \in all : \A n \in Nat : l = Local(n) => n \in 1 .. then - 1
  <2>1. ASSUME NEW n \in 1 .. next - 1 PROVE n \in 1 .. then - 1
    BY <1>1
  <2> QED BY <2>1 DEF LabelsKept
<1>4. LabelsIn(text) \cap L = {}
  <2>1. ASSUME NEW l \in L PROVE l \notin LabelsIn(text)
    <3>1. CASE <<p, l>> \in owed
      <4>1. PICK x \in owed : x = <<p, l>>
        BY <3>1
      <4> QED BY <4>1 DEF LabelsKept
    <3>2. CASE Fresh(l, next, then)
      BY <1>2, <3>2
    <3> QED BY <1>1, <3>1, <3>2
  <2> QED BY <2>1
<1>5. IsText(text, LabelsIn(text), JumpsIn(text))
  BY DEF IsText, LabelsKept
<1>6. IsText(u, LabelsIn(text) \cup L, JumpsIn(text) \cup J)
  BY <1>4, <1>5, TextsJoined
<1> HIDE DEF u, all
<1>7. /\ IsSomeSequence(u) /\ LabelsIn(u) = LabelsIn(text) \cup L
      /\ JumpsIn(u) = JumpsIn(text) \cup J /\ DefinesOnce(u)
  BY <1>6 DEF IsText
<1>8. ASSUME NEW x \in owed, x \in {p} \X L PROVE x[2] \in LabelsIn(u)
  <2>1. x[2] \in L
    BY <1>8
  <2> QED BY <1>7, <2>1
<1>9. Promised(text, owed) \subseteq Promised(u, after)
  <2>1. ASSUME NEW x \in owed PROVE x[2] \in Promised(u, after)
    <3>1. CASE x \in {p} \X L
      BY <1>8, <3>1 DEF Promised
    <3>2. CASE x \notin {p} \X L
      <4>1. x \in after
        BY <1>1, <3>2
      <4> HIDE DEF u
      <4> QED BY <4>1 DEF Promised
    <3> QED BY <3>1, <3>2
  <2> QED BY <1>7, <2>1 DEF Promised
<1>10. ASSUME NEW x \in owed PROVE x[2] \in all
  BY DEF all
<1>11. ASSUME NEW x \in after, NEW y \in after, x[2] = y[2] PROVE x = y
  <2>1. CASE x \in owed /\ y \in owed
    BY <1>11, <2>1 DEF LabelsKept
  <2>2. CASE x \in new /\ y \in new
    BY <1>1, <1>11, <2>2
  <2>3. CASE x \in owed /\ y \in new
    BY <1>1, <1>2, <1>10, <1>11, <2>3
  <2>4. CASE x \in new /\ y \in owed
    BY <1>1, <1>2, <1>10, <1>11, <2>4
  <2> QED BY <1>1, <2>1, <2>2, <2>3, <2>4
<1>12. ASSUME NEW x \in after PROVE x[2] \notin LabelsIn(u)
  <2>1. CASE x \in new
    <3>1. x[2] \notin all /\ x[2] \notin L
      BY <1>1, <1>2, <2>1
    <3> QED BY <1>7, <3>1 DEF all
  <2>2. CASE x \in owed /\ x \notin {p} \X L
    <3>1. x[2] \notin LabelsIn(text)
      BY <2>2 DEF LabelsKept
    <3>2. ASSUME x[2] \in L PROVE FALSE
      <4>1. x = <<x[1], x[2]>>
        BY <2>2
      <4>2. CASE <<p, x[2]>> \in owed
        <5>1. PICK y \in owed : y = <<p, x[2]>>
          BY <4>2
        <5>2. y[2] = x[2]
          BY <5>1
        <5>3. x = y
          BY <2>2, <5>2 DEF LabelsKept
        <5> QED BY <2>2, <3>2, <5>1, <5>3
      <4>3. CASE Fresh(x[2], next, then)
        BY <1>2, <1>10, <2>2, <4>3
      <4> QED BY <1>1, <3>2, <4>2, <4>3
    <3> QED BY <1>7, <3>1, <3>2
  <2> QED BY <1>1, <2>1, <2>2
<1>13. ASSUME NEW l \in LabelsIn(u) \cup {x[2] : x \in after}, NEW n \in Nat, l = Local(n)
       PROVE  n \in 1 .. then - 1
  <2>1. l \in all \/ Fresh(l, next, then)
    <3>1. CASE l \in LabelsIn(text)
      BY <3>1 DEF all
    <3>2. CASE l \in L
      <4>1. CASE <<p, l>> \in owed
        <5>1. PICK x \in owed : x = <<p, l>>
          BY <4>1
        <5> QED BY <1>10, <5>1
      <4> QED BY <1>1, <3>2, <4>1
    <3>3. CASE l \in {x[2] : x \in after}
      <4>1. PICK x \in after : l = x[2]
        BY <3>3
      <4> QED BY <1>1, <1>10, <4>1
    <3> QED BY <1>7, <3>1, <3>2, <3>3
  <2> QED BY <1>2, <1>3, <1>13, <2>1
<1>14. JumpsIn(u) \subseteq Promised(u, after)
  <2>1. JumpsIn(text) \subseteq Promised(text, owed)
    BY DEF LabelsKept
  <2>2. L \subseteq Promised(u, after)
    BY <1>7 DEF Promised
  <2>3. ASSUME NEW x \in new PROVE x[2] \in Promised(u, after)
    <3>1. x \in after
      BY <1>1
    <3> QED BY <3>1 DEF Promised
  <2>4. J \subseteq Promised(u, after)
    BY <1>9, <2>2, <2>3
  <2> QED BY <1>7, <1>9, <2>1, <2>4
<1>15. then \in Nat \ {0}
  BY <1>1
<1>16. LabelsKept(u, after, then)
  BY <1>7, <1>11, <1>12, <1>13, <1>14, <1>15 DEF LabelsKept
<1> QED BY <1>7, <1>9, <1>16 DEF u

-----------------------------------------------------------------------------
(***************************************************************************)
(* What the calls owe while they go on, begin a call and end.              *)
(***************************************************************************)
LEMMA OwedByAppended ==
  ASSUME NEW tree, NEW s, IsSomeSequence(s), NEW c
  PROVE  OwedByCalls(tree, Append(s, c)) = OwedByCalls(tree, s) \cup OwedBy(tree, c)
<1> DEFINE t == Append(s, c)
           n == Len(s)
           F(u, i) == OwedBy(tree, u[i])
<1>1. /\ n \in Nat /\ Len(t) = n + 1 /\ t[n + 1] = c
      /\ \A i \in 1..n : t[i] = s[i]
  BY AppendedAt
<1>2. 1..Len(t) = 1..n \cup {n + 1}
  BY <1>1
<1> HIDE DEF t, n
<1>3. \A i \in 1..n : F(t, i) = F(s, i)
  BY <1>1
<1>4. F(t, n + 1) = OwedBy(tree, c)
  BY <1>1
<1> HIDE DEF F
<1>5. UNION {F(t, i) : i \in 1..Len(t)} = (UNION {F(s, i) : i \in 1..n}) \cup F(t, n + 1)
  BY <1>2, <1>3
<1> QED BY <1>4, <1>5 DEF OwedByCalls, F, n, t

LEMMA PlainTabled ==
  ASSUME NEW tree, NEW s, IsSomeSequence(s), NEW c, ~IsBodyOf(tree, c, {"switch"}),
         NEW cases
  PROVE  Tabled(tree, Append(s, c), cases) = Tabled(tree, s, cases)
<1> DEFINE t == Append(s, c)
           B(u) == BodiesOf(tree, u, {"switch"})
<1>1. Len(s) \in Nat /\ \A i \in 1..Len(s) : t[i] = s[i]
  BY AppendedAt
<1>2. B(t) = B(s) /\ B(s) \subseteq 1..Len(s)
  BY BodiesOfAppended
<1> HIDE DEF t, B
<1>3. UNION {t[i].saved : i \in B(t)} = UNION {s[i].saved : i \in B(s)}
  BY <1>1, <1>2
<1> QED BY <1>3 DEF Tabled, B, t

LEMMA SwitchTabled ==
  ASSUME NEW tree, NEW s, IsSomeSequence(s), NEW c, IsBodyOf(tree, c, {"switch"}),
         NEW cases
  PROVE  Tabled(tree, Append(s, c), cases) = cases \cup Tabled(tree, s, c.saved)
<1> DEFINE t == Append(s, c)
           n == Len(s)
           B(u) == BodiesOf(tree, u, {"switch"})
<1>1. n \in Nat /\ t[n + 1] = c /\ \A i \in 1..n : t[i] = s[i]
  BY AppendedAt
<1>2. B(t) = B(s) \cup {n + 1} /\ B(s) \subseteq 1..n
  BY BodiesOfAppended
<1> HIDE DEF t, n, B
<1>3. \A i \in B(s) : t[i].saved = s[i].saved
  BY <1>1, <1>2
<1>4. UNION {t[i].saved : i \in B(t)} = (UNION {s[i].saved : i \in B(s)}) \cup c.saved
  BY <1>1, <1>2, <1>3
<1> QED BY <1>4 DEF Tabled, B, t

LEMMA OwedArePairs ==
  ASSUME NEW tree, NEW s, NEW cases, NEW x \in Owed(tree, s, cases)
  PROVE  x = <<x[1], x[2]>>
<1>1. ASSUME NEW i \in 1..Len(s), x \in OwedBy(tree, s[i])
      PROVE  x = <<x[1], x[2]>>
  BY <1>1 DEF OwedBy
<1> QED BY <1>1 DEF Owed, OwedByCalls, OwedAhead

LEMMA EntryOwesNothing ==
  ASSUME NEW tree, NEW p
  PROVE  /\ OwedBy(tree, Entry(p)) = {} /\ Entry(p).at = p /\ Entry(p).step = "enter"
         /\ ~IsBodyOf(tree, Entry(p), {"switch"})
         /\ \A written : LabelsOfCall(tree, Entry(p), written)
<1>1. Entry(p).at = p /\ Entry(p).step = "enter"
  BY DEF Entry
<1>2. PICK e : e = Entry(p)
  OBVIOUS
<1>3. LabelsLeft(tree, e) = {}
  BY <1>1, <1>2 DEF LabelsLeft
<1> QED BY <1>1, <1>2, <1>3 DEF OwedBy, IsBodyOf, IsAt, LabelsOfCall

LEMMA EntryAddsNothing ==
  ASSUME NEW tree, NEW s, IsSomeSequence(s), NEW q
  PROVE  /\ OwedByCalls(tree, Append(s, Entry(q))) = OwedByCalls(tree, s)
         /\ \A cases : Tabled(tree, Append(s, Entry(q)), cases) = Tabled(tree, s, cases)
<1>2. PICK e : e = Entry(q)
  OBVIOUS
<1>3. e.at = q /\ OwedBy(tree, e) = {} /\ ~IsBodyOf(tree, e, {"switch"})
  BY <1>2, EntryOwesNothing
<1>4. OwedByCalls(tree, Append(s, e)) = OwedByCalls(tree, s)
  BY <1>3, OwedByAppended
<1>5. \A cases : Tabled(tree, Append(s, e), cases) = Tabled(tree, s, cases)
  BY <1>3, PlainTabled
<1> QED BY <1>2, <1>4, <1>5

\* The call at p goes on as e, which may begin a statement, or ends, in which case
\* the statement it stands before may begin.
GoesOnAs(e) ==
  /\ e.at = Call.at
  /\ \/ calls' = Append(Front(calls), e)
     \/ \E q : calls' = Append(Append(Front(calls), e), Entry(q))
GoesOff ==
  \/ calls' = Front(calls)
  \/ \E q : calls' = Append(Front(calls), Entry(q))

LEMMA OwedByTheRest ==
  ASSUME Ordered, NEW cases
  PROVE  /\ \A x \in OwedByCalls(program, Front(calls)) : x[1] # Call.at
         /\ GoesOff => /\ OwedByCalls(program, calls') = OwedByCalls(program, Front(calls))
                       /\ Tabled(program, calls', cases) = Tabled(program, Front(calls), cases)
         /\ \A e : GoesOnAs(e) =>
              /\ OwedByCalls(program, calls') =
                   OwedByCalls(program, Front(calls))
                     \cup OwedBy(program, e)
              /\ Tabled(program, calls', cases) =
                   Tabled(program, Append(Front(calls), e), cases)
         /\ OwedByCalls(program, calls) =
              OwedByCalls(program, Front(calls))
                \cup OwedBy(program, Call)
<1> DEFINE f == Front(calls)
<1>1. IsSomeSequence(f) /\ calls = Append(f, Call)
  BY OrderedCall
<1>2. ASSUME NEW x \in OwedByCalls(program, f) PROVE x[1] # Call.at
  <2>1. PICK j \in 1..Len(f) : x \in OwedBy(program, f[j])
    BY <1>2 DEF OwedByCalls
  <2>2. f[j].at # Call.at
    BY RunningIsAlone
  <2> QED BY <2>1, <2>2 DEF OwedBy
<1>3. GoesOff => /\ OwedByCalls(program, calls') = OwedByCalls(program, f)
                 /\ Tabled(program, calls', cases) = Tabled(program, f, cases)
  <2>1. CASE \E q : calls' = Append(f, Entry(q))
    BY <1>1, <2>1, EntryAddsNothing
  <2> QED BY <2>1 DEF GoesOff
<1>4. ASSUME NEW e, GoesOnAs(e)
      PROVE  /\ OwedByCalls(program, calls') =
                  OwedByCalls(program, f) \cup OwedBy(program, e)
             /\ Tabled(program, calls', cases) = Tabled(program, Append(f, e), cases)
  <2> DEFINE O == OwedByCalls(program, Append(f, e))
             T == Tabled(program, Append(f, e), cases)
  <2>1. O = OwedByCalls(program, f) \cup OwedBy(program, e)
    BY <1>1, <1>4, OwedByAppended DEF GoesOnAs
  <2>2. OwedByCalls(program, calls') = O /\ Tabled(program, calls', cases) = T
    <3>1. CASE calls' = Append(f, e)
      BY <3>1
    <3>2. CASE \E q : calls' = Append(Append(f, e), Entry(q))
      <4>1. PICK q : calls' = Append(Append(f, e), Entry(q))
        BY <3>2
      <4>2. IsSomeSequence(Append(f, e))
        BY <1>1, AppendedAt
      <4> QED BY <4>1, <4>2, EntryAddsNothing
    <3> QED BY <1>4, <3>1, <3>2 DEF GoesOnAs
  <2> QED BY <2>1, <2>2
<1>5. OwedByCalls(program, Append(f, Call)) =
        OwedByCalls(program, f) \cup OwedBy(program, Call)
  BY <1>1, OwedByAppended
<1> QED BY <1>1, <1>2, <1>3, <1>4, <1>5

LEMMA OwedAfter ==
  ASSUME Ordered, program' = program, WentPast(Call.at), NEW left, NEW added,
         TablesApart(program, calls, switch_cases),
         TablesApart(program, calls', switch_cases'),
         OwedByCalls(program, calls') =
           OwedByCalls(program, Front(calls)) \cup ({Call.at} \X left),
         \A c : /\ c \in Tabled(program, calls', switch_cases')
                /\ IsAhead(program, calls', c.statement)
           <=> \/ /\ c \in Tabled(program, calls, switch_cases)
                  /\ IsAhead(program, calls, c.statement) /\ c.statement # Call.at
               \/ c \in added
  PROVE  OwedNow' = {x \in OwedNow : x[1] # Call.at} \cup ({Call.at} \X left)
                      \cup {<<c.statement, c.label>> : c \in added}
<1> DEFINE p == Call.at
           f == Front(calls)
           R == OwedByCalls(program, f)
           A == {<<d, User(program[d].arg)>> :
                   d \in {e \in DOMAIN program :
                            program[e].kind = "label" /\ IsAhead(program, calls, e)}}
           B == {<<d, User(program[d].arg)>> :
                   d \in {e \in DOMAIN program :
                            program[e].kind = "label" /\ IsAhead(program, calls', e)}}
           T == {<<c.statement, c.label>> :
                   c \in {e \in Tabled(program, calls, switch_cases) :
                            IsAhead(program, calls, e.statement)}}
           U == {<<c.statement, c.label>> :
                   c \in {e \in Tabled(program, calls', switch_cases') :
                            IsAhead(program, calls', e.statement)}}
           N == {<<c.statement, c.label>> : c \in added}
           mine == OwedBy(program, Call)
           next == {p} \X left
<1>1. OwedNow = R \cup mine \cup A \cup T
  BY OwedByTheRest DEF OwedNow, Owed, OwedAhead
<1>2. OwedNow' = R \cup next \cup B \cup U
  BY DEF OwedNow, Owed, OwedAhead
<1>3. B = {x \in A : x[1] # p}
  <2>1. \A d \in DOMAIN program :
          IsAhead(program, calls', d) <=> IsAhead(program, calls, d) /\ d # p
    BY DEF WentPast
  <2> QED BY <2>1
<1>4. U = {x \in T : x[1] # p} \cup N
  OBVIOUS
<1>5. \A x \in R : x[1] # p
  BY OwedByTheRest
<1>6. \A x \in mine : x[1] = p
  BY DEF OwedBy
<1> HIDE DEF p, R, A, B, T, U, N, mine, next
<1>7. R \cup next \cup B \cup U = {x \in R \cup mine \cup A \cup T : x[1] # p} \cup next \cup N
  BY <1>3, <1>4, <1>5, <1>6
<1> QED BY <1>1, <1>2, <1>7 DEF p, next, N

\* What p writes it owed or has just allocated, and what it owed before it has
\* written or owes still; the others owe what is allocated for them.
Settles(p, t, L, J, left, extra) ==
  /\ OwedNow' = {x \in OwedNow : x[1] # p} \cup ({p} \X left) \cup extra
  /\ IsText(t, L, J) /\ code' = code \o t
  /\ next_label_id' \in Nat /\ next_label_id <= next_label_id'
  /\ \A x \in OwedNow : x[1] = p => x[2] \in L \cup left
  /\ \A l \in L : <<p, l>> \in OwedNow \/ Fresh(l, next_label_id, next_label_id')
  /\ \A l \in left :
       /\ <<p, l>> \in OwedNow \/ Fresh(l, next_label_id, next_label_id')
       /\ l \notin L
  /\ \A x \in extra :
       /\ Fresh(x[2], next_label_id, next_label_id')
       /\ x[2] \notin L \cup left
       /\ \A y \in extra : x[2] = y[2] => x = y
  /\ J \subseteq PromisedNow \cup L \cup left \cup {x[2] : x \in extra}

LEMMA WritingAgrees ==
  ASSUME LabelsAgree, NEW p, NEW t, NEW L, NEW J, NEW left, NEW extra,
         Settles(p, t, L, J, left, extra)
  PROVE  /\ LabelsKept(code, OwedNow, next_label_id)'
         /\ PromisedNow \subseteq PromisedNow'
         /\ LabelsIn(code') = LabelsIn(code) \cup L
<1> DEFINE n == next_label_id
           m == next_label_id'
           owed == OwedNow
           after == OwedNow'
           new == {x \in {p} \X left : Fresh(x[2], n, m)} \cup extra
<1> USE DEF Settles
<1>1. LabelsKept(code, owed, n) /\ n \in Nat
  BY DEF LabelsAgree, LabelsKept
<1>2. \A x \in owed : x = <<x[1], x[2]>>
  BY OwedArePairs DEF OwedNow
<1>3. \A x \in new : Fresh(x[2], n, m) /\ x[2] \notin L
  OBVIOUS
<1>4. ASSUME NEW x \in new, NEW y \in new, x[2] = y[2] PROVE x = y
  <2>1. CASE x \in {p} \X left /\ y \in {p} \X left
    BY <1>4, <2>1
  <2>2. CASE x \in extra /\ y \in extra
    BY <1>4, <2>2
  <2>3. CASE x \in {p} \X left /\ y \in extra
    BY <1>4, <2>3
  <2>4. CASE x \in extra /\ y \in {p} \X left
    BY <1>4, <2>4
  <2> QED BY <2>1, <2>2, <2>3, <2>4
<1>5. after = (owed \ ({p} \X L)) \cup new
  <2>1. ASSUME NEW x \in after PROVE x \in (owed \ ({p} \X L)) \cup new
    <3>1. CASE x \in owed /\ x[1] # p
      BY <3>1
    <3>2. CASE x \in extra
      BY <3>2
    <3>3. CASE x \in {p} \X left
      <4>1. x = <<p, x[2]>> /\ x[2] \in left
        BY <3>3
      <4>2. x \notin {p} \X L
        BY <4>1
      <4>3. x \in owed \/ Fresh(x[2], n, m)
        BY <4>1
      <4> QED BY <3>3, <4>2, <4>3
    <3> QED BY <3>1, <3>2, <3>3
  <2>2. ASSUME NEW x \in new PROVE x \in after
    OBVIOUS
  <2>3. ASSUME NEW x \in owed, x \notin {p} \X L PROVE x \in after
    <3>1. CASE x[1] # p
      BY <3>1
    <3>2. CASE x[1] = p
      <4>1. x = <<p, x[2]>> /\ x[2] \in L \cup left
        BY <1>2, <3>2
      <4>2. x[2] \notin L
        BY <2>3, <4>1
      <4>3. x \in {p} \X left
        BY <4>1, <4>2
      <4> QED BY <4>3
    <3> QED BY <3>1, <3>2
  <2> HIDE DEF new, owed, after
  <2> QED BY <2>1, <2>2, <2>3
<1>6. J \subseteq Promised(code, owed) \cup L \cup {x[2] : x \in new}
  <2>1. ASSUME NEW l \in left PROVE l \in Promised(code, owed) \cup {x[2] : x \in new}
    <3>1. CASE <<p, l>> \in owed
      <4>1. PICK x \in owed : x = <<p, l>>
        BY <3>1
      <4> QED BY <4>1 DEF Promised
    <3>2. CASE Fresh(l, n, m)
      <4>1. PICK x : x = <<p, l>>
        OBVIOUS
      <4>2. x \in {p} \X left /\ x[2] = l
        BY <4>1
      <4>3. x \in new
        BY <3>2, <4>2
      <4> QED BY <4>2, <4>3
    <3> QED BY <3>1, <3>2
  <2> QED BY <2>1 DEF PromisedNow
<1> HIDE DEF new, after, n, m, owed
<1>7. /\ LabelsKept(code \o t, after, m)
      /\ Promised(code, owed) \subseteq Promised(code \o t, after)
      /\ LabelsIn(code \o t) = LabelsIn(code) \cup L
  <2>1. m \in Nat /\ n <= m
    BY DEF m, n
  <2>2. \A l \in L : <<p, l>> \in owed \/ Fresh(l, n, m)
    BY DEF m, n, owed
  <2>3. Writes(p, L, new, owed, after, n, m)
    BY <1>3, <1>4, <1>5, <2>1, <2>2 DEF Writes
  <2> QED BY <1>1, <1>2, <1>6, <2>3, WritingKeepsLabels
<1> QED BY <1>7 DEF PromisedNow, n, m, owed, after

LEMMA InsideAppended ==
  ASSUME NEW tree, NEW s, IsSomeSequence(s), NEW c, NEW cases
  PROVE  /\ ~IsBodyOf(tree, c, {"switch"}) =>
              (CasesInside(tree, Append(s, c), cases) <=> CasesInside(tree, s, cases))
         /\ IsBodyOf(tree, c, {"switch"}) =>
              (CasesInside(tree, Append(s, c), cases) <=>
                 /\ CasesInside(tree, s, c.saved)
                 /\ \A x \in cases : x.statement \in CasesIn(tree, c.at))
<1> DEFINE t == Append(s, c)
           n == Len(s)
           B(u) == BodiesOf(tree, u, {"switch"})
           inside(u, x, m) == \E j \in B(u) :
                                /\ j < m /\ \A k \in B(u) : k < m => k <= j
                                /\ x.statement \in CasesIn(tree, u[j].at)
<1>1. /\ n \in Nat /\ Len(t) = n + 1 /\ t[n + 1] = c
      /\ \A i \in 1..n : t[i] = s[i]
  BY AppendedAt
<1>2. /\ ~IsBodyOf(tree, c, {"switch"}) => B(t) = B(s)
      /\ IsBodyOf(tree, c, {"switch"}) => B(t) = B(s) \cup {n + 1}
      /\ B(s) \subseteq 1..n
  BY BodiesOfAppended
<1>3. \A u, table : CasesInside(tree, u, table) <=>
        /\ \A x \in table : inside(u, x, Len(u) + 1)
        /\ \A m \in B(u) : \A x \in u[m].saved : inside(u, x, m)
  BY DEF CasesInside
<1> HIDE DEF t, n, B
<1>4. ASSUME NEW x, NEW m \in 1 .. n + 1 PROVE inside(t, x, m) <=> inside(s, x, m)
  BY <1>1, <1>2
<1>5. ASSUME NEW x, ~IsBodyOf(tree, c, {"switch"})
      PROVE  inside(t, x, n + 2) <=> inside(s, x, n + 1)
  BY <1>1, <1>2, <1>5
<1>6. ASSUME NEW x, IsBodyOf(tree, c, {"switch"})
      PROVE  inside(t, x, n + 2) <=> x.statement \in CasesIn(tree, c.at)
  BY <1>1, <1>2, <1>6
<1> HIDE DEF inside
<1>7. \A m \in B(s) : m \in 1 .. n + 1 /\ t[m].saved = s[m].saved
  BY <1>1, <1>2
<1>8. (\A m \in B(s) : \A x \in t[m].saved : inside(t, x, m)) <=>
        (\A m \in B(s) : \A x \in s[m].saved : inside(s, x, m))
  BY <1>4, <1>7
<1>9. Len(t) + 1 = n + 2
  BY <1>1
<1>10. CASE ~IsBodyOf(tree, c, {"switch"})
  <2>1. CasesInside(tree, t, cases) <=>
          /\ \A x \in cases : inside(t, x, n + 2)
          /\ \A m \in B(s) : \A x \in t[m].saved : inside(t, x, m)
    BY <1>2, <1>3, <1>9, <1>10
  <2>2. CasesInside(tree, s, cases) <=>
          /\ \A x \in cases : inside(s, x, n + 1)
          /\ \A m \in B(s) : \A x \in s[m].saved : inside(s, x, m)
    BY <1>3 DEF n
  <2>3. (\A x \in cases : inside(t, x, n + 2)) <=> (\A x \in cases : inside(s, x, n + 1))
    BY <1>5, <1>10
  <2> QED BY <1>8, <1>10, <2>1, <2>2, <2>3 DEF t
<1>11. CASE IsBodyOf(tree, c, {"switch"})
  <2>1. CasesInside(tree, t, cases) <=>
          /\ \A x \in cases : inside(t, x, n + 2)
          /\ \A m \in B(s) : \A x \in t[m].saved : inside(t, x, m)
          /\ \A x \in c.saved : inside(t, x, n + 1)
    BY <1>1, <1>2, <1>3, <1>9, <1>11
  <2>2. CasesInside(tree, s, c.saved) <=>
          /\ \A x \in c.saved : inside(s, x, n + 1)
          /\ \A m \in B(s) : \A x \in s[m].saved : inside(s, x, m)
    BY <1>3 DEF n
  <2>3. n + 1 \in 1 .. n + 1
    BY <1>1
  <2>4. (\A x \in c.saved : inside(t, x, n + 1)) <=> (\A x \in c.saved : inside(s, x, n + 1))
    BY <1>4, <2>3
  <2>5. (\A x \in cases : inside(t, x, n + 2)) <=>
          (\A x \in cases : x.statement \in CasesIn(tree, c.at))
    BY <1>6, <1>11
  <2> QED BY <1>8, <1>11, <2>1, <2>2, <2>4, <2>5 DEF t
<1> QED BY <1>10, <1>11

LEMMA EntryHasNoCases ==
  ASSUME NEW tree, NEW s, IsSomeSequence(s), NEW q, NEW cases
  PROVE  CasesInside(tree, Append(s, Entry(q)), cases) <=> CasesInside(tree, s, cases)
BY EntryOwesNothing, InsideAppended

LEMMA TablesStay ==
  ASSUME Ordered, TablesApart(program, calls, switch_cases),
         ~IsBodyOf(program, Call, {"switch"}),
         GoesOff \/ \E e : GoesOnAs(e) /\ ~IsBodyOf(program, e, {"switch"})
  PROVE  /\ TablesApart(program, calls', switch_cases)
         /\ Tabled(program, calls', switch_cases) = Tabled(program, calls, switch_cases)
<1> DEFINE f == Front(calls)
           k == switch_cases
<1>1. IsSomeSequence(f) /\ calls = Append(f, Call)
  BY OrderedCall
<1>2. CasesInside(program, f, k)
  <2>1. CasesInside(program, Append(f, Call), k)
    BY <1>1 DEF TablesApart
  <2> QED BY <1>1, <2>1, InsideAppended
<1>3. Tabled(program, Append(f, Call), k) = Tabled(program, f, k)
  BY <1>1, PlainTabled
<1>4. /\ CasesInside(program, calls', k)
      /\ Tabled(program, calls', k) = Tabled(program, f, k)
  <2>1. CASE calls' = f
    BY <1>2, <2>1
  <2>2. ASSUME NEW q, calls' = Append(f, Entry(q)) PROVE <1>4
    BY <1>1, <1>2, <2>2, EntryHasNoCases, EntryAddsNothing
  <2>3. ASSUME NEW e, ~IsBodyOf(program, e, {"switch"}), GoesOnAs(e) PROVE <1>4
    <3> DEFINE s == Append(f, e)
    <3>1. IsSomeSequence(s)
      BY <1>1, AppendedAt
    <3>2. CasesInside(program, s, k)
      BY <1>1, <1>2, <2>3, InsideAppended
    <3>3. Tabled(program, s, k) = Tabled(program, f, k)
      BY <1>1, <2>3, PlainTabled
    <3>4. calls' = s \/ \E q : calls' = Append(s, Entry(q))
      BY <2>3 DEF GoesOnAs
    <3> HIDE DEF s
    <3>5. ASSUME NEW q, calls' = Append(s, Entry(q)) PROVE <1>4
      BY <3>1, <3>2, <3>3, <3>5, EntryHasNoCases, EntryAddsNothing
    <3> QED BY <3>2, <3>3, <3>4, <3>5
  <2> QED BY <2>1, <2>2, <2>3 DEF GoesOff
<1> QED BY <1>1, <1>3, <1>4 DEF TablesApart

CallsAgree(s, written) == \A i \in 1..Len(s) : LabelsOfCall(program, s[i], written)

LEMMA CallsAgreeAppended ==
  ASSUME NEW s, IsSomeSequence(s), NEW c, NEW written
  PROVE  CallsAgree(Append(s, c), written) <=>
           CallsAgree(s, written) /\ LabelsOfCall(program, c, written)
<1> DEFINE t == Append(s, c)
<1>1. /\ Len(s) \in Nat /\ Len(t) = Len(s) + 1 /\ t[Len(s) + 1] = c
      /\ \A i \in 1..Len(s) : t[i] = s[i]
  BY AppendedAt
<1> HIDE DEF t
<1>2. 1..Len(t) = 1..Len(s) \cup {Len(s) + 1}
  BY <1>1
<1>3. CallsAgree(t, written) <=> CallsAgree(s, written) /\ LabelsOfCall(program, c, written)
  BY <1>1, <1>2 DEF CallsAgree
<1> QED BY <1>3 DEF t

LEMMA CallsGoOnAgreeing ==
  ASSUME Ordered, NEW written, NEW then, written \subseteq then, CallsAgree(calls, written),
         GoesOff \/ \E e : GoesOnAs(e) /\ LabelsOfCall(program, e, then)
  PROVE  CallsAgree(calls', then)
<1> DEFINE f == Front(calls)
<1>1. IsSomeSequence(f) /\ calls = Append(f, Call)
  BY OrderedCall
<1>2. CallsAgree(f, then)
  <2>1. CallsAgree(f, written)
    BY <1>1, CallsAgreeAppended
  <2> QED BY <2>1 DEF CallsAgree, LabelsOfCall
<1>3. ASSUME NEW q, calls' = Append(f, Entry(q)) PROVE CallsAgree(calls', then)
  BY <1>1, <1>2, <1>3, EntryOwesNothing, CallsAgreeAppended
<1>4. ASSUME NEW e, GoesOnAs(e), LabelsOfCall(program, e, then) PROVE CallsAgree(calls', then)
  <2> DEFINE s == Append(f, e)
  <2>1. IsSomeSequence(s) /\ CallsAgree(s, then)
    BY <1>1, <1>2, <1>4, AppendedAt, CallsAgreeAppended
  <2>2. calls' = s \/ \E q : calls' = Append(s, Entry(q))
    BY <1>4 DEF GoesOnAs
  <2> HIDE DEF s
  <2>3. ASSUME NEW q, calls' = Append(s, Entry(q)) PROVE CallsAgree(calls', then)
    BY <2>1, <2>3, EntryOwesNothing, CallsAgreeAppended
  <2> QED BY <2>1, <2>2, <2>3
<1> QED BY <1>2, <1>3, <1>4 DEF GoesOff

JumpsHave(breaks, loops, promised) ==
  /\ \A i \in 1..Len(breaks) : breaks[i] \in promised
  /\ \A i \in 1..Len(loops) : loops[i].continue \in promised

\* The running call, which owes the labels own, writes the text t, which defines
\* the labels L and jumps to J: it owed them or has just allocated them, and what
\* it has not written it will.
Emits(own, t, L, J, left) ==
  /\ IsText(t, L, J) /\ code' = code \o t /\ program' = program
  /\ next_label_id' \in Nat /\ next_label_id <= next_label_id'
  /\ own \subseteq L \cup left
  /\ \A l \in L \cup left : l \in own \/ Fresh(l, next_label_id, next_label_id')
  /\ L \cap left = {}
  /\ J \subseteq PromisedNow \cup L \cup left
  /\ JumpsHave(break_targets', loop_targets', PromisedNow \cup (L \cup left))

Owes(own) ==
  /\ \A l \in own : <<Call.at, l>> \in OwedNow
  /\ \A x \in OwedNow : x[1] = Call.at => x[2] \in own

\* What the running call owes.
LEMMA OwedByRunning ==
  ASSUME Ordered, LabelsAgree
  PROVE  /\ \A l \in LabelsLeft(program, Call) : <<Call.at, l>> \in OwedNow
         /\ Node.kind \notin Passing => Owes(LabelsLeft(program, Call))
<1> DEFINE R == OwedByCalls(program, Front(calls))
           A == OwedAhead(program, calls, switch_cases)
<1>1. OwedNow = R \cup OwedBy(program, Call) \cup A
  BY OwedByTheRest DEF OwedNow, Owed
<1>2. \A x \in R : x[1] # Call.at
  BY OwedByTheRest
<1>3. ASSUME NEW x \in A, x[1] = Call.at PROVE Node.kind \in Passing
  <2>1. \A c \in Tabled(program, calls, switch_cases) :
          program[c.statement].kind \in {"case", "default"}
    BY DEF LabelsAgree, TablesApart
  <2> QED BY <1>3, <2>1 DEF OwedAhead, Node, Passing
<1>4. \A l \in LabelsLeft(program, Call) : <<Call.at, l>> \in OwedBy(program, Call)
  BY DEF OwedBy
<1>5. \A x \in OwedBy(program, Call) : x[2] \in LabelsLeft(program, Call)
  BY DEF OwedBy
<1> HIDE DEF R, A
<1> QED BY <1>1, <1>2, <1>3, <1>4, <1>5 DEF Owes

\* From the labels to the whole agreement.
LEMMA RestAgrees ==
  ASSUME LabelsAgree, LabelsKept(code, OwedNow, next_label_id)', program' = program,
         PromisedNow \subseteq PromisedNow',
         TablesApart(program, calls', switch_cases'), CallsAgree(calls', LabelsIn(code')),
         JumpsHave(break_targets', loop_targets', PromisedNow')
  PROVE  LabelsAgree'
<1>1. \A p \in DOMAIN program : program[p].kind = "label" =>
        User(program[p].arg) \in PromisedNow'
  BY DEF LabelsAgree
<1>2. \A i \in 1..Len(calls') : LabelsOfCall(program, calls'[i], LabelsIn(code'))
  BY DEF CallsAgree
<1> QED BY <1>1, <1>2 DEF LabelsAgree, JumpsHave

LEMMA CallAgrees ==
  ASSUME Ordered, LabelsAgree, WentPast(Call.at), NEW own, Owes(own),
         ~IsBodyOf(program, Call, {"switch"}), switch_cases' = switch_cases,
         NEW t, NEW L, NEW J, NEW left, Emits(own, t, L, J, left),
         \/ GoesOff /\ left = {}
         \/ \E e : /\ GoesOnAs(e) /\ ~IsBodyOf(program, e, {"switch"})
                   /\ LabelsLeft(program, e) = left
                   /\ LabelsOfCall(program, e, LabelsIn(code) \cup L)
  PROVE  LabelsAgree'
<1> DEFINE p == Call.at
           f == Front(calls)
           n == next_label_id
           m == next_label_id'
<1>1. /\ TablesApart(program, calls', switch_cases)
      /\ Tabled(program, calls', switch_cases) = Tabled(program, calls, switch_cases)
  BY TablesStay DEF LabelsAgree
<1>2. OwedByCalls(program, calls') = OwedByCalls(program, f) \cup ({p} \X left)
  <2>1. CASE GoesOff /\ left = {}
    <3>1. {p} \X left = {}
      BY <2>1
    <3>2. OwedByCalls(program, calls') = OwedByCalls(program, f)
      BY <2>1, OwedByTheRest
    <3> QED BY <3>1, <3>2
  <2>2. ASSUME NEW e, GoesOnAs(e), LabelsLeft(program, e) = left PROVE <1>2
    <3>1. OwedByCalls(program, calls') = OwedByCalls(program, f) \cup OwedBy(program, e)
      BY <2>2, OwedByTheRest
    <3>2. OwedBy(program, e) = {p} \X left
      BY <2>2 DEF OwedBy, GoesOnAs
    <3> QED BY <3>1, <3>2
  <2> QED BY <2>1, <2>2
<1>3. OwedNow' = {x \in OwedNow : x[1] # p} \cup ({p} \X left)
  <2>1. ASSUME NEW c \in Tabled(program, calls, switch_cases)
        PROVE  IsAhead(program, calls', c.statement) <=>
                 IsAhead(program, calls, c.statement) /\ c.statement # p
    <3>1. c.statement \in DOMAIN program
      BY DEF LabelsAgree, TablesApart
    <3> QED BY <3>1 DEF WentPast
  <2>2. \A c : /\ c \in Tabled(program, calls', switch_cases')
               /\ IsAhead(program, calls', c.statement)
          <=> \/ /\ c \in Tabled(program, calls, switch_cases)
                 /\ IsAhead(program, calls, c.statement) /\ c.statement # p
              \/ c \in {}
    BY <1>1, <2>1
  <2>3. /\ TablesApart(program, calls, switch_cases)
        /\ TablesApart(program, calls', switch_cases') /\ program' = program
    BY <1>1 DEF LabelsAgree, Emits
  <2>4. OwedNow' = {x \in OwedNow : x[1] # p} \cup ({p} \X left)
                     \cup {<<c.statement, c.label>> : c \in {}}
    BY <1>2, <2>2, <2>3, OwedAfter
  <2> QED BY <2>4
<1>4. /\ LabelsKept(code, OwedNow, next_label_id)'
      /\ PromisedNow \subseteq PromisedNow'
      /\ LabelsIn(code') = LabelsIn(code) \cup L
  <2>1. OwedNow' = {x \in OwedNow : x[1] # p} \cup ({p} \X left) \cup {}
    BY <1>3
  <2>2. \A x \in OwedNow : x[1] = p => x[2] \in L \cup left
    BY DEF Emits, Owes
  <2>3. /\ \A l \in L : <<p, l>> \in OwedNow \/ Fresh(l, n, m)
        /\ \A l \in left : (<<p, l>> \in OwedNow \/ Fresh(l, n, m)) /\ l \notin L
    BY DEF Emits, Owes
  <2>4. J \subseteq PromisedNow \cup L \cup left \cup {x[2] : x \in {}}
    BY DEF Emits
  <2>5. IsText(t, L, J) /\ code' = code \o t /\ m \in Nat /\ n <= m
    BY DEF Emits
  <2>6. Settles(p, t, L, J, left, {})
    BY <2>1, <2>2, <2>3, <2>4, <2>5 DEF Settles
  <2> QED BY <2>6, WritingAgrees
<1>5. PromisedNow \cup L \cup left \subseteq PromisedNow'
  <2>1. L \subseteq PromisedNow'
    BY <1>4 DEF PromisedNow, Promised
  <2>2. ASSUME NEW l \in left PROVE l \in PromisedNow'
    <3>1. PICK x : x = <<p, l>>
      OBVIOUS
    <3>2. x \in OwedNow' /\ x[2] = l
      BY <1>3, <3>1
    <3> QED BY <3>2 DEF PromisedNow, Promised
  <2> QED BY <1>4, <2>1, <2>2
<1>6. JumpsHave(break_targets', loop_targets', PromisedNow')
  <2>1. JumpsHave(break_targets', loop_targets', PromisedNow \cup (L \cup left))
    BY DEF Emits
  <2> QED BY <1>5, <2>1 DEF JumpsHave
<1>7. CallsAgree(calls', LabelsIn(code'))
  <2>1. CallsAgree(calls, LabelsIn(code)) /\ LabelsIn(code) \subseteq LabelsIn(code')
    BY <1>4 DEF LabelsAgree, CallsAgree
  <2>2. GoesOff \/ \E e : GoesOnAs(e) /\ LabelsOfCall(program, e, LabelsIn(code'))
    BY <1>4
  <2> QED BY <2>1, <2>2, CallsGoOnAgreeing
<1> QED BY <1>1, <1>4, <1>6, <1>7, RestAgrees DEF Emits

LEMMA StatementAgrees ==
  ASSUME Ordered, LabelsAgree, WentPast(Call.at), Node.kind \notin Passing,
         ~IsBodyOf(program, Call, {"switch"}), switch_cases' = switch_cases,
         NEW t, NEW L, NEW J, NEW left, Emits(LabelsLeft(program, Call), t, L, J, left),
         \/ GoesOff /\ left = {}
         \/ \E e : /\ GoesOnAs(e) /\ ~IsBodyOf(program, e, {"switch"})
                   /\ LabelsLeft(program, e) = left
                   /\ LabelsOfCall(program, e, LabelsIn(code) \cup L)
  PROVE  LabelsAgree'
BY OwedByRunning, CallAgrees

LEMMA LeftBySteps ==
  ASSUME NEW tree, NEW c
  PROVE  /\ c.step \in {"enter", "items", "test"} => LabelsLeft(tree, c) = {}
         /\ c.step = "then" =>
              LabelsLeft(tree, c) = IF tree[c.at].kids = 2 THEN {c.labels[1], c.labels[2]}
                                    ELSE {c.labels[1]}
         /\ c.step = "else" => LabelsLeft(tree, c) = {c.labels[2]}
         /\ c.step = "body" /\ tree[c.at].kind = "while" =>
              LabelsLeft(tree, c) = {c.labels[2]}
         /\ c.step = "body" /\ tree[c.at].kind \in {"do", "for"} =>
              LabelsLeft(tree, c) = {c.labels[2], c.labels[3]}
         /\ c.step = "body" /\ tree[c.at].kind = "switch" =>
              LabelsLeft(tree, c) = {c.labels[1]}
         /\ c.step \notin {"then", "body"} =>
              \A written : LabelsOfCall(tree, c, written)
BY DEF LabelsLeft, LabelsOfCall

Agreeing == Ordered /\ LabelsAgree

LEMMA PromisedNowHas ==
  ASSUME Agreeing
  PROVE  /\ ReturnLabel \in PromisedNow /\ LabelsIn(code) \subseteq PromisedNow
         /\ JumpsHave(break_targets, loop_targets, PromisedNow)
         /\ LabelsLeft(program, Call) \subseteq PromisedNow
         /\ LabelsOfCall(program, Call, LabelsIn(code))
         /\ next_label_id \in Nat \ {0}
<1>1. ReturnLabel \in PromisedNow /\ LabelsIn(code) \subseteq PromisedNow
  BY DEF PromisedNow, Promised
<1>2. JumpsHave(break_targets, loop_targets, PromisedNow)
  BY DEF Agreeing, LabelsAgree, JumpsHave
<1>3. ASSUME NEW l \in LabelsLeft(program, Call) PROVE l \in PromisedNow
  <2>1. <<Call.at, l>> \in OwedNow
    BY OwedByRunning DEF Agreeing
  <2>2. PICK x \in OwedNow : x = <<Call.at, l>>
    BY <2>1
  <2>3. x[2] = l
    BY <2>2
  <2> QED BY <2>3 DEF PromisedNow, Promised
<1>4. LabelsOfCall(program, Call, LabelsIn(code))
  <2>1. CallsAgree(Append(Front(calls), Call), LabelsIn(code))
    BY OrderedCall DEF Agreeing, LabelsAgree, CallsAgree
  <2> QED BY <2>1, OrderedCall, CallsAgreeAppended DEF Agreeing
<1>5. next_label_id \in Nat \ {0}
  BY DEF Agreeing, LabelsAgree, LabelsKept
<1> QED BY <1>1, <1>2, <1>3, <1>4, <1>5

\* A text without labels, and its jumps.
WritesJumps(t, J) == IsText(t, {}, J) /\ code' = code \o t /\ J \subseteq PromisedNow

\* A statement of no labels that only writes a text.
LEMMA PlainStatementAgrees ==
  ASSUME Agreeing, WentPast(Call.at), Node.kind \notin Passing,
         Call.step \in {"enter", "items", "test"},
         UNCHANGED <<program, next_label_id, targets>>,
         NEW t, NEW J, WritesJumps(t, J),
         \/ GoesOff
         \/ \E e : GoesOnAs(e) /\ e.step \in {"enter", "items", "test"}
  PROVE  LabelsAgree'
<1>1. LabelsLeft(program, Call) = {} /\ ~IsBodyOf(program, Call, {"switch"})
  BY LeftBySteps DEF IsBodyOf, IsAt
<1>2. Emits(LabelsLeft(program, Call), t, {}, J, {})
  <2>1. JumpsHave(break_targets', loop_targets', PromisedNow \cup ({} \cup {}))
    BY PromisedNowHas DEF targets
  <2> QED BY <1>1, <2>1, PromisedNowHas DEF Emits, WritesJumps
<1>3. \A e : e.step \in {"enter", "items", "test"} =>
        /\ LabelsLeft(program, e) = {} /\ ~IsBodyOf(program, e, {"switch"})
        /\ LabelsOfCall(program, e, LabelsIn(code) \cup {})
  BY LeftBySteps DEF IsBodyOf, IsAt
<1>4. \/ GoesOff /\ {} = {}
      \/ \E e : /\ GoesOnAs(e) /\ ~IsBodyOf(program, e, {"switch"})
                /\ LabelsLeft(program, e) = {}
                /\ LabelsOfCall(program, e, LabelsIn(code) \cup {})
  BY <1>3
<1> QED BY <1>1, <1>2, <1>4, StatementAgrees DEF Agreeing, targets

LEMMA LastTarget ==
  ASSUME NEW s, IsSomeSequence(s), s # << >>
  PROVE  Len(s) \in 1..Len(s) /\ Last(s) = s[Len(s)]
<1>1. PICK S : s \in Seq(S)
  BY DEF IsSomeSequence
<1>2. Len(s) \in Nat \ {0}
  BY <1>1
<1> QED BY <1>2 DEF Last

LEMMA LeavesAgree ==
  ASSUME Agreeing, C!GotosResolve(program), outcome' = "emitting",
         EmitExpression \/ EmitReturn \/ EmitBreak \/ EmitContinue \/ EmitGoto
  PROVE  LabelsAgree'
<1>1. /\ WentPast(Call.at) /\ GoesOff /\ Call.step = "enter"
      /\ UNCHANGED <<program, next_label_id, targets>>
      /\ Node.kind \notin Passing
  <2>1. WentPast(Call.at)
    BY LeavesInOrder DEF Agreeing
  <2> QED BY <2>1 DEF EmitExpression, EmitReturn, EmitBreak, EmitContinue, EmitGoto,
                      At, Return, GoesOff, Fail, Passing
<1>2. \E t, J : WritesJumps(t, J)
  <2> DEFINE value == Eval(Call.at, "value")
  <2>1. IsText(value, {}, {}) /\ IsText(<< >>, {}, {}) /\ IsText(XorEax, {}, {})
    BY Instructions
  <2>2. "jmp" \in JumpOps
    BY DEF JumpOps
  <2> HIDE DEF value
  <2>3. CASE EmitExpression
    <3>1. \/ code' = code \o value
          \/ code' = code \o << >>
      BY <2>3 DEF EmitExpression, Write, value
    <3>2. WritesJumps(value, {}) \/ WritesJumps(<< >>, {})
      BY <2>1, <3>1 DEF WritesJumps
    <3> QED BY <3>2
  <2>4. CASE EmitReturn
    <3> DEFINE jump == Jump("jmp", ReturnLabel)
    <3>1. IsText(jump, {}, {ReturnLabel})
      BY <2>2, Instructions
    <3> HIDE DEF jump
    <3>2. \/ code' = code \o (value \o jump)
          \/ code' = code \o (XorEax \o jump)
      BY <2>4 DEF EmitReturn, Write, value, jump
    <3>3. /\ IsText(value \o jump, {} \cup {}, {} \cup {ReturnLabel})
          /\ IsText(XorEax \o jump, {} \cup {}, {} \cup {ReturnLabel})
      BY <2>1, <3>1, TextsJoined
    <3>4. /\ IsText(value \o jump, {}, {ReturnLabel})
          /\ IsText(XorEax \o jump, {}, {ReturnLabel})
      BY <3>3
    <3>5. \/ WritesJumps(value \o jump, {ReturnLabel})
          \/ WritesJumps(XorEax \o jump, {ReturnLabel})
      BY <3>2, <3>4, PromisedNowHas DEF WritesJumps
    <3> QED BY <3>5
  <2>5. CASE EmitBreak
    <3> DEFINE l == Last(break_targets)
    <3>1. break_targets # << >> /\ code' = code \o Jump("jmp", l)
      BY <2>5 DEF EmitBreak, Fail, Write
    <3>2. l \in PromisedNow
      BY <3>1, LastTarget, PromisedNowHas DEF Agreeing, Ordered, InProgress, NestInv,
         TargetsInv, JumpsHave
    <3> HIDE DEF l
    <3>3. IsText(Jump("jmp", l), {}, {l})
      BY <2>2, Instructions
    <3>4. WritesJumps(Jump("jmp", l), {l})
      BY <3>1, <3>2, <3>3 DEF WritesJumps
    <3> QED BY <3>4
  <2>6. CASE EmitContinue
    <3> DEFINE l == Last(loop_targets).continue
    <3>1. loop_targets # << >> /\ code' = code \o Jump("jmp", l)
      BY <2>6 DEF EmitContinue, Fail, Write
    <3>2. l \in PromisedNow
      BY <3>1, LastTarget, PromisedNowHas DEF Agreeing, Ordered, InProgress, NestInv,
         TargetsInv, JumpsHave
    <3> HIDE DEF l
    <3>3. IsText(Jump("jmp", l), {}, {l})
      BY <2>2, Instructions
    <3>4. WritesJumps(Jump("jmp", l), {l})
      BY <3>1, <3>2, <3>3 DEF WritesJumps
    <3> QED BY <3>4
  <2>7. CASE EmitGoto
    <3> DEFINE l == User(Node.arg)
    <3>1. Node.kind = "goto" /\ code' = code \o Jump("jmp", l)
      BY <2>7 DEF EmitGoto, At, Write
    <3>2. PICK q \in DOMAIN program : program[q].kind = "label" /\ program[q].arg = Node.arg
      <4>1. Call.at \in DOMAIN program
        BY OrderedCall DEF Agreeing
      <4> QED BY <3>1, <4>1 DEF C!GotosResolve, C!LabelsNamed, Node
    <3>3. l \in PromisedNow
      BY <3>2 DEF Agreeing, LabelsAgree
    <3> HIDE DEF l
    <3>4. IsText(Jump("jmp", l), {}, {l})
      BY <2>2, Instructions
    <3>5. WritesJumps(Jump("jmp", l), {l})
      BY <3>1, <3>3, <3>4 DEF WritesJumps
    <3> QED BY <3>5
  <2> QED BY <2>3, <2>4, <2>5, <2>6, <2>7
<1> QED BY <1>1, <1>2, PlainStatementAgrees

LEMMA GoesOnByEmitting ==
  ASSUME Agreeing, NEW e, e.at = Call.at,
         calls' = Append(Front(calls), e) \/ \E q : Emitting(e, q)
  PROVE  GoesOnAs(e)
BY EmittingAppends DEF Agreeing, Ordered, GoesOnAs

LEMMA CompoundsAgree ==
  ASSUME Agreeing, EnterCompound \/ EmitItem \/ LeaveCompound \/ EnterFor
  PROVE  LabelsAgree'
<1>1. WentPast(Call.at)
  BY EndsInOrder, StatementsBeginInOrder, ScopesOpenInOrder DEF Agreeing
<1>2. /\ Call.step \in {"enter", "items", "test"} /\ Node.kind \notin Passing
      /\ UNCHANGED <<program, next_label_id, targets>> /\ code' = code
  BY DEF EnterCompound, EmitItem, LeaveCompound, EnterFor, At, Passing
<1>3. WritesJumps(<< >>, {})
  <2>1. PICK S : code \in Seq(S)
    BY DEF Agreeing, LabelsAgree, LabelsKept, IsSomeSequence
  <2>2. code \o << >> = code
    BY <2>1
  <2> QED BY <1>2, <2>2, Instructions DEF WritesJumps
<1>4. GoesOff \/ \E e : GoesOnAs(e) /\ e.step \in {"enter", "items", "test"}
  <2>1. CASE LeaveCompound
    BY <2>1 DEF LeaveCompound, Return, GoesOff
  <2>2. CASE EnterCompound
    <3> DEFINE e == [Call EXCEPT !.step = "items"]
    <3>1. e.at = Call.at /\ e.step = "items"
      BY ChangedCall DEF Agreeing, Ordered
    <3>2. calls' = Append(Front(calls), e)
      BY <2>2 DEF EnterCompound
    <3> HIDE DEF e
    <3> QED BY <3>1, <3>2, GoesOnByEmitting
  <2>3. CASE EmitItem
    <3> DEFINE e == [Call EXCEPT !.next = @ + 1]
    <3>1. e.at = Call.at /\ e.step = "items"
      BY <2>3, ChangedCall DEF Agreeing, Ordered, EmitItem, At
    <3>2. Emitting(e, Kid(Call.at, Call.next))
      BY <2>3 DEF EmitItem
    <3> HIDE DEF e
    <3> QED BY <3>1, <3>2, GoesOnByEmitting
  <2>4. CASE EnterFor
    <3> DEFINE e == [Call EXCEPT !.step = "test"]
    <3>1. e.at = Call.at /\ e.step = "test"
      BY ChangedCall DEF Agreeing, Ordered
    <3>2. calls' = Append(Front(calls), e) \/ \E q : Emitting(e, q)
      BY <2>4 DEF EnterFor
    <3> HIDE DEF e
    <3> QED BY <3>1, <3>2, GoesOnByEmitting
  <2> QED BY <2>1, <2>2, <2>3, <2>4
<1> QED BY <1>1, <1>2, <1>3, <1>4, PlainStatementAgrees

LEMMA ChangedLabels ==
  ASSUME Agreeing, NEW step, NEW labels, NEW saved
  PROVE  /\ [Call EXCEPT !.step = step].labels = Call.labels
         /\ [Call EXCEPT !.step = step, !.labels = labels].labels = labels
         /\ [Call EXCEPT !.step = step, !.labels = labels, !.saved = saved].labels = labels
<1>1. IsCall(program, Call)
  BY CallIsInBody DEF Agreeing, Ordered, InProgress, NestInv
<1>2. PICK K, L, V : Call \in CallsOf(program, K, L, V)
  BY <1>1 DEF IsCall
<1> QED BY <1>2 DEF CallsOf

LEMMA NewLabels ==
  ASSUME next_label_id \in Nat, NEW k \in Nat, Allocate(k)
  PROVE  /\ next_label_id' \in Nat /\ next_label_id <= next_label_id'
         /\ \A i \in 1..k : Fresh(New(i), next_label_id, next_label_id')
         /\ \A i, j \in 1..k : New(i) = New(j) => i = j
<1>1. next_label_id' = next_label_id + k
  BY DEF Allocate
<1>2. ASSUME NEW i \in 1..k PROVE Fresh(New(i), next_label_id, next_label_id')
  <2>1. next_label_id + i - 1 \in next_label_id .. next_label_id' - 1
    BY <1>1
  <2> QED BY <2>1 DEF Fresh, New
<1>3. ASSUME NEW i \in 1..k, NEW j \in 1..k, New(i) = New(j) PROVE i = j
  BY <1>3, LocalsDiffer DEF New
<1> QED BY <1>1, <1>2, <1>3

LEMMA TestText ==
  ASSUME NEW p, NEW l PROVE IsText(TestAndSkip(p, l), {}, {l})
<1> DEFINE a == Eval(p, "test")
           b == CmpEax(0)
           c == Jump("je", l)
<1>1. "je" \in JumpOps
  BY DEF JumpOps
<1>2. IsText(a, {}, {}) /\ IsText(b, {}, {}) /\ IsText(c, {}, {l})
  BY <1>1, Instructions
<1> HIDE DEF a, b, c
<1>3. IsText(a \o b, {} \cup {}, {} \cup {})
  BY <1>2, TextsJoined
<1>4. IsText(a \o b, {}, {})
  BY <1>3
<1>5. IsText((a \o b) \o c, {} \cup {}, {} \cup {l})
  BY <1>2, <1>4, TextsJoined
<1> QED BY <1>5 DEF TestAndSkip, a, b, c

LEMMA PushedTargets ==
  ASSUME Agreeing, NEW b, NEW c, NEW P, PushLoop(b, c), PromisedNow \subseteq P,
         b \in P, c \in P
  PROVE  JumpsHave(break_targets', loop_targets', P)
<1>1. /\ IsSomeSequence(break_targets) /\ IsSomeSequence(loop_targets)
      /\ JumpsHave(break_targets, loop_targets, PromisedNow)
  BY PromisedNowHas DEF Agreeing, Ordered, InProgress, NestInv, TargetsInv
<1> DEFINE d == [break |-> b, continue |-> c]
           m == Len(break_targets)
           n == Len(loop_targets)
<1>2. d.continue = c
  OBVIOUS
<1> HIDE DEF d
<1>3. /\ break_targets' = Append(break_targets, b) /\ loop_targets' = Append(loop_targets, d)
  BY DEF PushLoop, d
<1>4. /\ m \in Nat /\ Len(break_targets') = m + 1 /\ break_targets'[m + 1] = b
      /\ \A i \in 1..m : break_targets'[i] = break_targets[i]
  BY <1>1, <1>3, AppendedAt
<1>5. /\ n \in Nat /\ Len(loop_targets') = n + 1 /\ loop_targets'[n + 1] = d
      /\ \A i \in 1..n : loop_targets'[i] = loop_targets[i]
  BY <1>1, <1>3, AppendedAt
<1>6. \A i \in 1 .. m + 1 : i \in 1..m \/ i = m + 1
  BY <1>4
<1>7. \A i \in 1 .. n + 1 : i \in 1..n \/ i = n + 1
  BY <1>5
<1> QED BY <1>1, <1>2, <1>4, <1>5, <1>6, <1>7 DEF JumpsHave, m, n

LEMMA FrontAt ==
  ASSUME NEW s, IsSomeSequence(s), s # << >>
  PROVE  /\ Len(Front(s)) \in Nat /\ 1..Len(Front(s)) \subseteq 1..Len(s)
         /\ \A i \in 1..Len(Front(s)) : Front(s)[i] = s[i]
<1>1. PICK S : s \in Seq(S)
  BY DEF IsSomeSequence
<1>2. Len(s) \in Nat \ {0} /\ Front(s) = SubSeq(s, 1, Len(s) - 1)
  BY <1>1 DEF Front
<1> QED BY <1>1, <1>2

LEMMA BodyHasTargets ==
  ASSUME Agreeing, Call.step = "body"
  PROVE  /\ Node.kind \in Loops => loop_targets # << >>
         /\ Node.kind \in Targeted => break_targets # << >>
<1> DEFINE f == Front(calls)
           B(s, kinds) == Cardinality(BodiesOf(program, s, kinds))
<1>1. IsSomeSequence(f) /\ calls = Append(f, Call) /\ Node = program[Call.at]
  BY OrderedCall DEF Agreeing
<1>2. Len(loop_targets) = B(calls, Loops) /\ Len(break_targets) = B(calls, Targeted)
  BY DEF Agreeing, Ordered, InProgress, NestInv, TablesFit, TargetsFit
<1>3. ASSUME NEW kinds, Node.kind \in kinds PROVE B(calls, kinds) \in Nat \ {0}
  <2>1. IsBodyOf(program, Call, kinds)
    BY <1>1, <1>3 DEF IsBodyOf, IsAt
  <2>2. B(f, kinds) \in Nat /\ B(Append(f, Call), kinds) = B(f, kinds) + 1
    BY <1>1, <2>1, BodiesCounted
  <2>3. B(calls, kinds) = B(Append(f, Call), kinds)
    BY <1>1
  <2> HIDE DEF B
  <2> QED BY <2>2, <2>3
<1>4. Len(<< >>) = 0
  OBVIOUS
<1> HIDE DEF B
<1> QED BY <1>2, <1>3, <1>4

LEMMA PoppedTargets ==
  ASSUME Agreeing, Call.step = "body", Node.kind \in Loops, PopLoop
  PROVE  JumpsHave(break_targets', loop_targets', PromisedNow)
<1>1. /\ IsSomeSequence(break_targets) /\ IsSomeSequence(loop_targets)
      /\ JumpsHave(break_targets, loop_targets, PromisedNow)
  BY PromisedNowHas DEF Agreeing, Ordered, InProgress, NestInv, TargetsInv
<1>2. break_targets # << >> /\ loop_targets # << >>
  BY BodyHasTargets DEF Targeted
<1>3. break_targets' = Front(break_targets) /\ loop_targets' = Front(loop_targets)
  BY DEF PopLoop
<1>4. /\ 1..Len(break_targets') \subseteq 1..Len(break_targets)
      /\ \A i \in 1..Len(break_targets') : break_targets'[i] = break_targets[i]
  BY <1>1, <1>2, <1>3, FrontAt
<1>5. /\ 1..Len(loop_targets') \subseteq 1..Len(loop_targets)
      /\ \A i \in 1..Len(loop_targets') : loop_targets'[i] = loop_targets[i]
  BY <1>1, <1>2, <1>3, FrontAt
<1> QED BY <1>1, <1>4, <1>5 DEF JumpsHave

-----------------------------------------------------------------------------
(***************************************************************************)
(* Ifs and loops.                                                          *)
(***************************************************************************)
LEMMA IfsAgree ==
  ASSUME Agreeing, EnterIf \/ AfterThen \/ AfterElse
  PROVE  LabelsAgree'
<1>1. WentPast(Call.at)
  <2>1. AfterThen => (AfterThen /\ Node.kids = 2) \/ (AfterThen /\ Node.kids # 2)
    OBVIOUS
  <2> QED BY <2>1, EndsInOrder, StatementsBeginInOrder DEF Agreeing
<1>2. /\ Node.kind = "if" /\ Node = program[Call.at] /\ ~IsBodyOf(program, Call, {"switch"})
      /\ UNCHANGED <<program, targets>> /\ Node.kind \notin Passing
  BY DEF EnterIf, AfterThen, AfterElse, At, Node, IsBodyOf, IsAt, Passing
<1>3. \A P : JumpsHave(break_targets', loop_targets', PromisedNow \cup P)
  BY <1>2, PromisedNowHas DEF JumpsHave, targets
<1>4. next_label_id \in Nat /\ "jmp" \in JumpOps
  BY PromisedNowHas DEF JumpOps
<1>5. CASE EnterIf
  <2> DEFINE e == [Call EXCEPT !.step = "then", !.labels = <<New(1), New(2)>>]
             t == TestAndSkip(Call.at, New(1))
             left == LabelsLeft(program, e)
  <2>1. /\ e.at = Call.at /\ e.step = "then" /\ e.labels = <<New(1), New(2)>>
    BY ChangedCall, ChangedLabels DEF Agreeing, Ordered
  <2>2. e.labels[1] = New(1) /\ e.labels[2] = New(2)
    BY <2>1
  <2>3. Emitting(e, Kid(Call.at, 1)) /\ code' = code \o t /\ Allocate(2)
    BY <1>5 DEF EnterIf, Write
  <2> HIDE DEF e, t
  <2>4. GoesOnAs(e) /\ ~IsBodyOf(program, e, {"switch"})
    BY <2>1, <2>3, GoesOnByEmitting DEF IsBodyOf, IsAt
  <2>5. /\ next_label_id' \in Nat /\ next_label_id <= next_label_id' /\ New(1) # New(2)
        /\ Fresh(New(1), next_label_id, next_label_id')
        /\ Fresh(New(2), next_label_id, next_label_id')
    BY <1>4, <2>3, NewLabels
  <2>6. LabelsOfCall(program, e, LabelsIn(code) \cup {})
    BY <2>1, <2>2, <2>5 DEF LabelsOfCall
  <2>7. left \subseteq {New(1), New(2)} /\ New(1) \in left
    BY <2>1, <2>2, LeftBySteps
  <2>8. IsText(t, {}, {New(1)})
    BY TestText DEF t
  <2>9. LabelsLeft(program, Call) = {}
    BY <1>5, LeftBySteps DEF EnterIf, At
  <2> HIDE DEF left
  <2>10. Emits(LabelsLeft(program, Call), t, {}, {New(1)}, left)
    BY <1>2, <1>3, <2>3, <2>5, <2>7, <2>8, <2>9 DEF Emits
  <2> QED BY <1>1, <1>2, <2>4, <2>6, <2>10, StatementAgrees DEF left, Agreeing, targets
<1> DEFINE skip == Call.labels[1]
           end == Call.labels[2]
<1>6. CASE AfterThen /\ Node.kids = 2
  <2> DEFINE e == [Call EXCEPT !.step = "else"]
             t == Jump("jmp", end) \o Label(skip)
  <2>1. e.at = Call.at /\ e.step = "else" /\ e.labels[2] = end
    BY ChangedCall, ChangedLabels DEF Agreeing, Ordered
  <2>2. /\ Emitting(e, Kid(Call.at, 2)) /\ code' = code \o t
        /\ next_label_id' = next_label_id /\ Call.step = "then"
    BY <1>6 DEF AfterThen, Write, At
  <2> HIDE DEF e, skip, end
  <2>3. GoesOnAs(e) /\ ~IsBodyOf(program, e, {"switch"})
    BY <2>1, <2>2, GoesOnByEmitting DEF IsBodyOf, IsAt
  <2>4. LabelsLeft(program, Call) = {skip, end} /\ skip # end
    BY <1>2, <1>6, <2>2, LeftBySteps, PromisedNowHas DEF LabelsOfCall, skip, end
  <2>5. LabelsLeft(program, e) = {end} /\ LabelsOfCall(program, e, LabelsIn(code) \cup {skip})
    BY <2>1, LeftBySteps
  <2>6. IsText(t, {skip}, {end})
    <3>1. IsText(Jump("jmp", end), {}, {end}) /\ IsText(Label(skip), {skip}, {})
      BY <1>4, Instructions
    <3>2. IsText(t, {} \cup {skip}, {end} \cup {})
      BY <3>1, TextsJoined
    <3> QED BY <3>2
  <2> HIDE DEF t
  <2>7. Emits(LabelsLeft(program, Call), t, {skip}, {end}, {end})
    <3>1. JumpsHave(break_targets', loop_targets', PromisedNow \cup ({skip} \cup {end}))
      BY <1>3
    <3>2. {skip} \cap {end} = {} /\ {skip, end} \subseteq {skip} \cup {end}
      BY <2>4
    <3>3. \A l \in {skip} \cup {end} : l \in LabelsLeft(program, Call)
      BY <2>4
    <3>4. next_label_id' \in Nat /\ next_label_id <= next_label_id'
      BY <1>4, <2>2
    <3> QED BY <1>2, <2>2, <2>4, <2>6, <3>1, <3>2, <3>3, <3>4 DEF Emits
  <2> QED BY <1>1, <1>2, <2>3, <2>5, <2>7, StatementAgrees DEF Agreeing, targets
<1>7. CASE AfterThen /\ Node.kids # 2
  <2>1. /\ GoesOff /\ code' = code \o Label(skip)
        /\ next_label_id' = next_label_id /\ Call.step = "then"
    BY <1>7 DEF AfterThen, Write, At, Return, GoesOff
  <2> HIDE DEF skip
  <2>2. LabelsLeft(program, Call) = {skip}
    BY <1>2, <1>7, <2>1, LeftBySteps DEF skip
  <2>3. IsText(Label(skip), {skip}, {})
    BY Instructions
  <2>4. Emits(LabelsLeft(program, Call), Label(skip), {skip}, {}, {})
    <3>1. JumpsHave(break_targets', loop_targets', PromisedNow \cup ({skip} \cup {}))
      BY <1>3
    <3> QED BY <1>2, <1>4, <2>1, <2>2, <2>3, <3>1 DEF Emits
  <2> QED BY <1>1, <1>2, <2>1, <2>4, StatementAgrees DEF Agreeing, targets
<1>8. CASE AfterElse
  <2>1. /\ GoesOff /\ code' = code \o Label(end)
        /\ next_label_id' = next_label_id /\ Call.step = "else"
    BY <1>8 DEF AfterElse, Write, At, Return, GoesOff
  <2> HIDE DEF end
  <2>2. LabelsLeft(program, Call) = {end}
    BY <2>1, LeftBySteps DEF end
  <2>3. IsText(Label(end), {end}, {})
    BY Instructions
  <2>4. Emits(LabelsLeft(program, Call), Label(end), {end}, {}, {})
    <3>1. JumpsHave(break_targets', loop_targets', PromisedNow \cup ({end} \cup {}))
      BY <1>3
    <3> QED BY <1>2, <1>4, <2>1, <2>2, <2>3, <3>1 DEF Emits
  <2> QED BY <1>1, <1>2, <2>1, <2>4, StatementAgrees DEF Agreeing, targets
<1> QED BY <1>5, <1>6, <1>7, <1>8

LEMMA LoopBeginsAgreeing ==
  ASSUME Agreeing, WentPast(Call.at), Node.kind \in Loops, Call.step \in {"enter", "test"},
         NEW k, k = (IF Node.kind = "while" THEN 2 ELSE 3), Allocate(k),
         NEW c \in 1..k, PushLoop(New(k), New(c)), UNCHANGED <<program, switch_cases>>,
         NEW e, GoesOnAs(e), e.step = "body", \A i \in 1..k : e.labels[i] = New(i),
         NEW t, NEW J, IsText(t, {New(1)}, J), J \subseteq {New(k)}, code' = code \o t
  PROVE  LabelsAgree'
<1> DEFINE left == LabelsLeft(program, e)
           all == {New(i) : i \in 1..k}
<1>1. /\ k \in Nat /\ 1 \in 1..k /\ 2 \in 1..k /\ k \in 1..k
      /\ Node = program[Call.at] /\ e.at = Call.at
  BY DEF Node, GoesOnAs
<1>2. /\ next_label_id' \in Nat /\ next_label_id <= next_label_id'
      /\ \A i \in 1..k : Fresh(New(i), next_label_id, next_label_id')
      /\ \A i, j \in 1..k : New(i) = New(j) => i = j
  BY <1>1, NewLabels, PromisedNowHas
<1>3. left = {New(i) : i \in 2..k} /\ New(k) \in left
  <2>1. CASE Node.kind = "while"
    <3>1. left = {New(2)} /\ 2..k = {2}
      BY <1>1, <2>1, LeftBySteps
    <3> QED BY <2>1, <3>1
  <2>2. CASE Node.kind \in {"do", "for"}
    <3>1. left = {e.labels[2], e.labels[3]} /\ k = 3
      BY <1>1, <2>2, LeftBySteps
    <3>2. left = {New(2), New(3)} /\ 2..k = {2, 3}
      BY <3>1
    <3> QED BY <3>1, <3>2
  <2> QED BY <2>1, <2>2 DEF Loops
<1>4. {New(1)} \cup left = all /\ {New(1)} \cap left = {}
  <2>1. 1..k = {1} \cup 2..k /\ 1 \notin 2..k /\ \A i \in 2..k : i \in 1..k
    BY <1>1
  <2> QED BY <1>2, <1>3, <2>1
<1>5. /\ ~IsBodyOf(program, Call, {"switch"}) /\ ~IsBodyOf(program, e, {"switch"})
      /\ Node.kind \notin Passing
  BY <1>1 DEF IsBodyOf, IsAt, Loops, Passing
<1>6. LabelsLeft(program, Call) = {}
  BY LeftBySteps
<1>7. LabelsOfCall(program, e, LabelsIn(code) \cup {New(1)})
  <2>1. e.labels[1] = New(1) /\ e.labels[2] = New(2)
    BY <1>1
  <2>2. Node.kind \in {"do", "for"} => e.labels[3] = New(3) /\ New(2) # New(3)
    BY <1>1, <1>2
  <2> QED BY <1>1, <2>1, <2>2 DEF LabelsOfCall
<1>8. JumpsHave(break_targets', loop_targets', PromisedNow \cup all)
  <2>1. New(k) \in all /\ New(c) \in all
    BY <1>1
  <2> HIDE DEF all
  <2> QED BY <2>1, PushedTargets
<1> HIDE DEF left, all
<1>9. Emits(LabelsLeft(program, Call), t, {New(1)}, J, left)
  <2>1. \A l \in {New(1)} \cup left : Fresh(l, next_label_id, next_label_id')
    BY <1>2, <1>4 DEF all
  <2>2. JumpsHave(break_targets', loop_targets', PromisedNow \cup ({New(1)} \cup left))
    BY <1>4, <1>8
  <2>3. J \subseteq PromisedNow \cup {New(1)} \cup left
    BY <1>3
  <2> QED BY <1>2, <1>4, <1>6, <2>1, <2>2, <2>3 DEF Emits
<1> QED BY <1>5, <1>7, <1>9, StatementAgrees DEF left, Agreeing

LEMMA LoopEndsAgreeing ==
  ASSUME Agreeing, WentPast(Call.at), Node.kind \in Loops, Call.step = "body",
         PopLoop, Return, UNCHANGED <<program, next_label_id, switch_cases>>,
         NEW t, IsText(t, LabelsLeft(program, Call), {Call.labels[1]}), code' = code \o t
  PROVE  LabelsAgree'
<1> DEFINE L == LabelsLeft(program, Call)
           l == Call.labels[1]
<1>1. /\ ~IsBodyOf(program, Call, {"switch"}) /\ Node.kind \notin Passing /\ GoesOff
      /\ Node = program[Call.at]
  BY DEF IsBodyOf, IsAt, Node, Loops, Passing, Return, GoesOff
<1>2. l \in PromisedNow
  BY <1>1, PromisedNowHas DEF LabelsOfCall
<1>3. JumpsHave(break_targets', loop_targets', PromisedNow \cup (L \cup {}))
  BY PoppedTargets DEF JumpsHave
<1>4. next_label_id' \in Nat /\ next_label_id <= next_label_id'
  BY PromisedNowHas
<1> HIDE DEF l
<1>5. Emits(LabelsLeft(program, Call), t, L, {l}, {})
  BY <1>2, <1>3, <1>4 DEF Emits, l
<1> QED BY <1>1, <1>5, StatementAgrees DEF Agreeing

LEMMA ChangedToBody ==
  ASSUME Agreeing, NEW labels
  PROVE  LET e == [Call EXCEPT !.step = "body", !.labels = labels]
         IN e.at = Call.at /\ e.step = "body" /\ e.labels = labels
BY ChangedCall, ChangedLabels DEF Agreeing, Ordered

LEMMA LoopsBeginAgreeing ==
  ASSUME Agreeing, EnterWhile \/ EnterDo \/ ForTest
  PROVE  LabelsAgree'
<1>1. WentPast(Call.at)
  BY StatementsBeginInOrder DEF Agreeing
<1>2. IsText(Label(New(1)), {New(1)}, {})
  BY Instructions
<1>3. \A t, J : IsText(t, {}, J) => IsText(Label(New(1)) \o t, {New(1)}, J)
  <2>1. ASSUME NEW t, NEW J, IsText(t, {}, J)
        PROVE  IsText(Label(New(1)) \o t, {New(1)} \cup {}, {} \cup J)
    BY <1>2, <2>1, TextsJoined
  <2> QED BY <2>1
<1>4. CASE EnterWhile
  <2> DEFINE e == [Call EXCEPT !.step = "body", !.labels = <<New(1), New(2)>>]
             t == Label(New(1)) \o TestAndSkip(Call.at, New(2))
  <2>1. /\ e.at = Call.at /\ e.step = "body"
        /\ e.labels[1] = New(1) /\ e.labels[2] = New(2)
    <3>1. e.at = Call.at /\ e.step = "body" /\ e.labels = <<New(1), New(2)>>
      BY ChangedToBody
    <3> QED BY <3>1
  <2>2. /\ Node.kind = "while" /\ Call.step = "enter" /\ Allocate(2)
        /\ PushLoop(New(2), New(1)) /\ UNCHANGED <<program, switch_cases>>
        /\ code' = code \o t /\ Emitting(e, Kid(Call.at, 1))
    BY <1>4 DEF EnterWhile, At, Write
  <2>3. IsText(t, {New(1)}, {New(2)})
    BY <1>3, TestText
  <2> HIDE DEF e, t
  <2>4. GoesOnAs(e)
    BY <2>1, <2>2, GoesOnByEmitting
  <2>5. \A i \in 1..2 : e.labels[i] = New(i)
    <3>1. \A i \in 1..2 : i = 1 \/ i = 2
      OBVIOUS
    <3> QED BY <2>1, <3>1
  <2>6. Node.kind \in Loops /\ 1 \in 1..2 /\ {New(2)} \subseteq {New(2)}
    BY <2>2 DEF Loops
  <2> QED BY <1>1, <2>1, <2>2, <2>3, <2>4, <2>5, <2>6, LoopBeginsAgreeing
<1>5. ASSUME EnterDo \/ ForTest PROVE LabelsAgree'
  <2> DEFINE e == [Call EXCEPT !.step = "body", !.labels = <<New(1), New(2), New(3)>>]
  <2>1. /\ e.at = Call.at /\ e.step = "body"
        /\ e.labels[1] = New(1) /\ e.labels[2] = New(2) /\ e.labels[3] = New(3)
    <3>1. e.at = Call.at /\ e.step = "body" /\ e.labels = <<New(1), New(2), New(3)>>
      BY ChangedToBody
    <3> QED BY <3>1
  <2>2. /\ Node.kind \in {"do", "for"} /\ Call.step \in {"enter", "test"} /\ Allocate(3)
        /\ PushLoop(New(3), New(2)) /\ UNCHANGED <<program, switch_cases>>
        /\ \E q : Emitting(e, q)
    BY <1>5 DEF EnterDo, ForTest, At
  <2>3. PICK t, J : IsText(t, {New(1)}, J) /\ J \in {{}, {New(3)}} /\ code' = code \o t
    <3>1. CASE EnterDo
      <4>1. code' = code \o Label(New(1))
        BY <3>1 DEF EnterDo, Write
      <4> QED BY <1>2, <4>1
    <3>2. CASE ForTest
      <4> DEFINE test == TestAndSkip(Call.at, New(3))
      <4>1. IsText(test, {}, {New(3)}) /\ IsText(<< >>, {}, {})
        BY TestText, Instructions
      <4>2. \/ code' = code \o (Label(New(1)) \o test)
            \/ code' = code \o (Label(New(1)) \o << >>)
        BY <3>2 DEF ForTest, Write
      <4> HIDE DEF test
      <4>3. /\ IsText(Label(New(1)) \o test, {New(1)}, {New(3)})
            /\ IsText(Label(New(1)) \o << >>, {New(1)}, {})
        BY <1>3, <4>1
      <4> QED BY <4>2, <4>3
    <3> QED BY <1>5, <3>1, <3>2
  <2> HIDE DEF e
  <2>4. GoesOnAs(e)
    BY <2>1, <2>2, GoesOnByEmitting
  <2>5. \A i \in 1..3 : e.labels[i] = New(i)
    <3>1. \A i \in 1..3 : i = 1 \/ i = 2 \/ i = 3
      OBVIOUS
    <3> QED BY <2>1, <3>1
  <2>6. /\ Node.kind \in Loops /\ Node.kind # "while" /\ 2 \in 1..3
        /\ J \subseteq {New(3)}
    BY <2>2, <2>3 DEF Loops
  <2> QED BY <1>1, <2>1, <2>2, <2>3, <2>4, <2>5, <2>6, LoopBeginsAgreeing
<1> QED BY <1>4, <1>5

LEMMA LoopTail ==
  ASSUME NEW op \in JumpOps, NEW back, NEW end
  PROVE  IsText(Jump(op, back) \o Label(end), {end}, {back})
<1>1. IsText(Jump(op, back), {}, {back}) /\ IsText(Label(end), {end}, {})
  BY Instructions
<1>2. IsText(Jump(op, back) \o Label(end), {} \cup {end}, {back} \cup {})
  BY <1>1, TextsJoined
<1> QED BY <1>2

\* The end of a do and of a for: the target of continue, what is done between the
\* iterations, and the way back.
LEMMA LoopEnd ==
  ASSUME NEW next, NEW end, next # end, NEW back, NEW op \in JumpOps,
         NEW a, IsText(a, {}, {})
  PROVE  IsText(Label(next) \o a \o Jump(op, back) \o Label(end), {next, end}, {back})
<1> DEFINE l == Label(next)
           j == Jump(op, back)
           m == Label(end)
<1>1. IsText(l, {next}, {}) /\ IsText(j, {}, {back}) /\ IsText(m, {end}, {})
  BY Instructions
<1> HIDE DEF l, j, m
<1>2. IsText(l \o a, {next} \cup {}, {} \cup {})
  BY <1>1, TextsJoined
<1>3. IsText(l \o a, {next}, {})
  BY <1>2
<1>4. IsText((l \o a) \o j, {next} \cup {}, {} \cup {back})
  BY <1>1, <1>3, TextsJoined
<1>5. IsText((l \o a) \o j, {next}, {back})
  BY <1>4
<1>6. {next} \cap {end} = {}
  OBVIOUS
<1>7. IsText(((l \o a) \o j) \o m, {next} \cup {end}, {back} \cup {})
  BY <1>1, <1>5, <1>6, TextsJoined
<1>8. {next} \cup {end} = {next, end} /\ {back} \cup {} = {back}
  OBVIOUS
<1> QED BY <1>7, <1>8 DEF l, j, m

LEMMA LoopsEndAgreeing ==
  ASSUME Agreeing, AfterWhileBody \/ AfterDoBody \/ AfterForBody
  PROVE  LabelsAgree'
<1> DEFINE first == Call.labels[1]
           second == Call.labels[2]
           third == Call.labels[3]
<1>1. WentPast(Call.at)
  BY EndsInOrder DEF Agreeing
<1>2. /\ Node.kind \in Loops /\ Call.step = "body" /\ PopLoop /\ Return
      /\ UNCHANGED <<program, next_label_id, switch_cases>> /\ Node = program[Call.at]
  BY DEF AfterWhileBody, AfterDoBody, AfterForBody, At, Loops, Node
<1>3. "jmp" \in JumpOps /\ "jne" \in JumpOps
  BY DEF JumpOps
<1>4. \E t : IsText(t, LabelsLeft(program, Call), {first}) /\ code' = code \o t
  <2>1. CASE AfterWhileBody
    <3>1. LabelsLeft(program, Call) = {second}
      BY <1>2, <2>1, LeftBySteps DEF AfterWhileBody, At
    <3>2. code' = code \o (Jump("jmp", first) \o Label(second))
      BY <2>1 DEF AfterWhileBody, Write
    <3>3. IsText(Jump("jmp", first) \o Label(second), {second}, {first})
      BY <1>3, LoopTail
    <3> QED BY <3>1, <3>2, <3>3
  <2>2. ASSUME AfterDoBody \/ AfterForBody
        PROVE  LabelsLeft(program, Call) = {second, third} /\ second # third
    <3>1. Node.kind \in {"do", "for"}
      BY <2>2 DEF AfterDoBody, AfterForBody, At
    <3> QED BY <1>2, <3>1, LeftBySteps, PromisedNowHas DEF LabelsOfCall
  <2>3. CASE AfterDoBody
    <3> DEFINE a == Eval(Call.at, "test")
               b == CmpEax(0)
               u == Label(second) \o (a \o b) \o Jump("jne", first) \o Label(third)
    <3>1. IsText(a, {}, {}) /\ IsText(b, {}, {}) /\ IsText(Label(second), {second}, {})
      BY Instructions
    <3>2. code' = code \o (Label(second) \o a \o b \o Jump("jne", first) \o Label(third))
      BY <2>3 DEF AfterDoBody, Write
    <3> HIDE DEF a, b, first, second, third
    <3>3. IsText(a \o b, {} \cup {}, {} \cup {})
      BY <3>1, TextsJoined
    <3>4. IsText(a \o b, {}, {})
      BY <3>3
    <3>5. IsText(u, {second, third}, {first})
      BY <1>3, <2>2, <2>3, <3>4, LoopEnd
    <3>6. Label(second) \o a \o b = Label(second) \o (a \o b)
      <4>1. PICK A, B, E : a \in Seq(A) /\ b \in Seq(B) /\ Label(second) \in Seq(E)
        BY <3>1 DEF IsText, IsSomeSequence
      <4> DEFINE S == A \cup B \cup E
      <4>2. a \in Seq(S) /\ b \in Seq(S) /\ Label(second) \in Seq(S)
        BY <4>1
      <4> HIDE DEF S
      <4> QED BY <4>2
    <3>7. code' = code \o u
      BY <3>2, <3>6
    <3> QED BY <2>2, <2>3, <3>5, <3>7
  <2>4. CASE AfterForBody
    <3> DEFINE T(a) == Label(second) \o a \o Jump("jmp", first) \o Label(third)
               update == Eval(Call.at, "update")
    <3>1. code' = code \o T(update) \/ code' = code \o T(<< >>)
      BY <2>4 DEF AfterForBody, Write
    <3>2. IsText(update, {}, {}) /\ IsText(<< >>, {}, {})
      BY Instructions
    <3>3. \A a : IsText(a, {}, {}) => IsText(T(a), {second, third}, {first})
      BY <1>3, <2>2, <2>4, LoopEnd
    <3> HIDE DEF T, update, first, second, third
    <3> QED BY <2>2, <2>4, <3>1, <3>2, <3>3
  <2> QED BY <2>1, <2>3, <2>4
<1> QED BY <1>1, <1>2, <1>4, LoopEndsAgreeing

-----------------------------------------------------------------------------
(***************************************************************************)
(* Labels and cases.                                                       *)
(***************************************************************************)
LEMMA RunningIsAhead ==
  ASSUME Ordered, Call.step = "enter"
  PROVE  IsAhead(program, calls, Call.at) /\ LabelsLeft(program, Call) = {}
<1>1. Call.at \in Ahead(program, Call)
  BY OrderedCall DEF Ahead
<1> QED BY <1>1, OrderedCall, AheadAppended, LeftBySteps

\* A label, case or default writes the one label it owes.
LEMMA LabelWritten ==
  ASSUME Agreeing, WentPast(Call.at), GoesOff, Call.step = "enter",
         UNCHANGED <<program, next_label_id, targets>>,
         NEW l, Owes({l}), code' = code \o Label(l)
  PROVE  LabelsAgree'
<1>1. ~IsBodyOf(program, Call, {"switch"})
  BY DEF IsBodyOf, IsAt
<1>2. IsText(Label(l), {l}, {})
  BY Instructions
<1>3. JumpsHave(break_targets', loop_targets', PromisedNow \cup ({l} \cup {}))
  BY PromisedNowHas DEF JumpsHave, targets
<1>4. next_label_id' \in Nat /\ next_label_id <= next_label_id'
  BY PromisedNowHas
<1>5. Emits({l}, Label(l), {l}, {}, {})
  BY <1>2, <1>3, <1>4 DEF Emits
<1> QED BY <1>1, <1>5, CallAgrees DEF Agreeing, targets

LEMMA EmitLabelAgrees ==
  ASSUME Agreeing, EmitLabel PROVE LabelsAgree'
<1> DEFINE l == User(Node.arg)
<1>1. /\ Call.step = "enter" /\ Node.kind = "label" /\ Node = program[Call.at] /\ GoesOff
      /\ UNCHANGED <<program, next_label_id, targets, outcome>>
      /\ code' = code \o Label(l)
  BY DEF EmitLabel, At, Write, GoesOff, Node
<1>2. WentPast(Call.at)
  BY <1>1, LabelsInOrder DEF Agreeing, Ordered, InProgress
<1>3. IsAhead(program, calls, Call.at) /\ LabelsLeft(program, Call) = {}
  BY <1>1, RunningIsAhead DEF Agreeing
<1>4. Call.at \in DOMAIN program
  BY OrderedCall DEF Agreeing
<1>5. <<Call.at, l>> \in OwedNow
  BY <1>1, <1>3, <1>4 DEF OwedNow, Owed, OwedAhead
<1>6. ASSUME NEW x \in OwedNow, x[1] = Call.at PROVE x[2] \in {l}
  <2>1. x \notin OwedByCalls(program, calls)
    <3>1. OwedBy(program, Call) = {}
      BY <1>3 DEF OwedBy
    <3> QED BY <1>6, <3>1, OwedByTheRest DEF Agreeing
  <2>2. \A c \in Tabled(program, calls, switch_cases) :
          program[c.statement].kind \in {"case", "default"}
    BY DEF Agreeing, LabelsAgree, TablesApart
  <2> QED BY <1>1, <1>6, <2>1, <2>2 DEF OwedNow, Owed, OwedAhead
<1>7. Owes({l})
  BY <1>5, <1>6 DEF Owes
<1> QED BY <1>1, <1>2, <1>7, LabelWritten

LEMMA EmitCaseAgrees ==
  ASSUME Agreeing, outcome' = "emitting", EmitCase PROVE LabelsAgree'
<1>1. PICK c \in switch_cases : c.statement = Call.at /\ code' = code \o Label(c.label)
  <2>1. ~Fail("internal error")
    BY DEF Fail
  <2> QED BY <2>1 DEF EmitCase, Write
<1>2. /\ Call.step = "enter" /\ Node.kind \in {"case", "default"}
      /\ Node = program[Call.at] /\ GoesOff
      /\ UNCHANGED <<program, next_label_id, targets, outcome>>
  <2>1. ~Fail("internal error")
    BY DEF Fail
  <2> QED BY <2>1 DEF EmitCase, At, GoesOff, Node
<1>3. WentPast(Call.at)
  BY LabelsInOrder DEF Agreeing
<1>4. IsAhead(program, calls, Call.at) /\ LabelsLeft(program, Call) = {}
  BY <1>2, RunningIsAhead DEF Agreeing
<1>5. c \in Tabled(program, calls, switch_cases)
  BY DEF Tabled
<1>6. <<Call.at, c.label>> \in OwedNow
  BY <1>1, <1>4, <1>5 DEF OwedNow, Owed, OwedAhead
<1>7. ASSUME NEW x \in OwedNow, x[1] = Call.at PROVE x[2] \in {c.label}
  <2>1. x \notin OwedByCalls(program, calls)
    <3>1. OwedBy(program, Call) = {}
      BY <1>4 DEF OwedBy
    <3> QED BY <1>7, <3>1, OwedByTheRest DEF Agreeing
  <2>2. \A d \in Tabled(program, calls, switch_cases) : d.statement = c.statement => d = c
    BY <1>5 DEF Agreeing, LabelsAgree, TablesApart
  <2> QED BY <1>1, <1>2, <1>7, <2>1, <2>2 DEF OwedNow, Owed, OwedAhead
<1>8. Owes({c.label})
  BY <1>6, <1>7 DEF Owes
<1> QED BY <1>1, <1>2, <1>3, <1>8, LabelWritten

-----------------------------------------------------------------------------
(***************************************************************************)
(* Source order.  A position is before another that goes on behind it, or  *)
(* has the greater child where they part.                                  *)
(***************************************************************************)
PartsAt(p, q, i) ==
  /\ i \in 1..Len(q) /\ i - 1 <= Len(p)
  /\ \A j \in 1 .. i - 1 : p[j] = q[j]
  /\ i <= Len(p) => p[i] < q[i]

LEMMA BeforeByElements ==
  ASSUME NEW p \in Seq(Nat), NEW q \in Seq(Nat)
  PROVE  /\ Before(p, q) => \E i \in Nat : PartsAt(p, q, i)
         /\ p # q => Before(p, q) \/ Before(q, p)
         /\ Before(p, q) => ~Before(q, p) /\ p # q
<1>1. ~Before(p, p)
  <2>1. \A i \in 1..Len(p) : ~(p[i] < p[i])
    <3>1. \A i \in 1..Len(p) : p[i] \in Nat
      OBVIOUS
    <3> QED BY <3>1
  <2> QED BY <2>1 DEF Before, IsStrictPrefix
<1>2. ASSUME NEW n \in Nat, Under(p, n, q)
      PROVE  Before(p, q) /\ ~Before(q, p) /\ PartsAt(p, q, Len(p) + 1)
  <2>1. PartsAt(p, q, Len(p) + 1)
    BY <1>2 DEF Under, PartsAt
  <2> QED BY <1>2, <2>1, UnderIsBefore
<1>3. ASSUME NEW n \in Nat, Under(q, n, p) PROVE Before(q, p) /\ ~Before(p, q)
  BY <1>3, UnderIsBefore
<1>4. ASSUME NEW a \in Seq(Nat), NEW m \in Nat, NEW n \in Nat, m # n,
             Under(a, m, p), Under(a, n, q)
      PROVE  \/ Before(p, q) /\ ~Before(q, p) /\ PartsAt(p, q, Len(a) + 1)
             \/ Before(q, p) /\ ~Before(p, q)
  <2>1. CASE m < n
    <3> DEFINE k == Len(a)
    <3>1. /\ k < Len(p) /\ k < Len(q) /\ p[k + 1] = m /\ q[k + 1] = n
          /\ \A i \in 1..k : p[i] = q[i]
      BY <1>4 DEF Under
    <3>2. k \in Nat /\ Len(p) \in Nat /\ Len(q) \in Nat
      OBVIOUS
    <3> HIDE DEF k
    <3>3. /\ k + 1 \in 1..Len(q) /\ k + 1 - 1 = k /\ k <= Len(p) /\ p[k + 1] < q[k + 1]
      BY <1>4, <2>1, <3>1, <3>2
    <3>4. PartsAt(p, q, k + 1)
      BY <3>1, <3>2, <3>3 DEF PartsAt
    <3> QED BY <1>4, <2>1, <3>4, PartedOnce DEF k
  <2>2. CASE n < m
    BY <1>4, <2>2, PartedOnce
  <2> QED BY <1>4, <2>1, <2>2
<1>5. CASE p = q
  BY <1>1, <1>5
<1>6. CASE p # q
  <2>1. \/ Before(p, q) /\ ~Before(q, p) /\ \E i \in Nat : PartsAt(p, q, i)
        \/ Before(q, p) /\ ~Before(p, q)
    <3>1. \A a \in Seq(Nat) : Len(a) + 1 \in Nat
      OBVIOUS
    <3> QED BY <1>2, <1>3, <1>4, <1>6, <3>1, WherePositionsPart
  <2> QED BY <1>6, <2>1
<1> QED BY <1>5, <1>6

LEMMA PartsTransitive ==
  ASSUME NEW p \in Seq(Nat), NEW q \in Seq(Nat), NEW r \in Seq(Nat),
         NEW i \in Nat, PartsAt(p, q, i), NEW k \in Nat, PartsAt(q, r, k)
  PROVE  \E n \in Nat : PartsAt(p, r, n)
<1> DEFINE l == Len(p)
           m == Len(q)
           n == Len(r)
<1>1. l \in Nat /\ m \in Nat /\ n \in Nat
  OBVIOUS
<1>2. /\ \A j \in 1..l : p[j] \in Nat
      /\ \A j \in 1..m : q[j] \in Nat
      /\ \A j \in 1..n : r[j] \in Nat
  <2>1. ASSUME NEW s \in Seq(Nat) PROVE \A j \in 1..Len(s) : s[j] \in Nat
    OBVIOUS
  <2> QED BY <2>1
<1>3. /\ i \in 1..m /\ i - 1 <= l /\ (\A j \in 1 .. i - 1 : p[j] = q[j])
      /\ i <= l => p[i] < q[i]
  BY DEF PartsAt
<1>4. /\ k \in 1..n /\ k - 1 <= m /\ (\A j \in 1 .. k - 1 : q[j] = r[j])
      /\ k <= m => q[k] < r[k]
  BY DEF PartsAt
<1>5. \A e : PartsAt(p, r, e) <=>
        /\ e \in 1..n /\ e - 1 <= l /\ (\A j \in 1 .. e - 1 : p[j] = r[j])
        /\ e <= l => p[e] < r[e]
  BY DEF PartsAt
<1> HIDE DEF l, m, n
<1>6. CASE i < k
  <2>1. i \in 1..n /\ i \in 1 .. k - 1 /\ \A j \in 1 .. i - 1 : j \in 1 .. k - 1
    BY <1>1, <1>3, <1>4, <1>6
  <2>2. r[i] = q[i] /\ \A j \in 1 .. i - 1 : p[j] = r[j]
    BY <1>3, <1>4, <2>1
  <2>3. PartsAt(p, r, i)
    BY <1>3, <1>5, <2>1, <2>2
  <2> QED BY <2>3
<1>7. CASE i = k
  <2>1. \A j \in 1 .. i - 1 : p[j] = r[j]
    BY <1>3, <1>4, <1>7
  <2>2. ASSUME i <= l PROVE p[i] < r[i]
    <3>1. p[i] \in Nat /\ q[i] \in Nat /\ r[i] \in Nat /\ i <= m
      BY <1>1, <1>2, <1>3, <1>4, <1>7, <2>2
    <3>2. p[i] < q[i] /\ q[i] < r[i]
      BY <1>3, <1>4, <1>7, <2>2, <3>1
    <3> QED BY <3>1, <3>2
  <2>3. PartsAt(p, r, i)
    BY <1>3, <1>4, <1>5, <1>7, <2>1, <2>2
  <2> QED BY <2>3
<1>8. CASE k < i
  <2>1. k <= l /\ k <= m /\ k \in 1 .. i - 1 /\ \A j \in 1 .. k - 1 : j \in 1 .. i - 1
    BY <1>1, <1>3, <1>4, <1>8
  <2>2. /\ p[k] = q[k] /\ q[k] < r[k]
        /\ \A j \in 1 .. k - 1 : p[j] = r[j]
    BY <1>3, <1>4, <2>1
  <2>3. k - 1 <= l
    BY <1>1, <2>1
  <2>4. PartsAt(p, r, k)
    BY <1>4, <1>5, <2>2, <2>3
  <2> QED BY <2>4
<1> QED BY <1>3, <1>4, <1>6, <1>7, <1>8

LEMMA BeforeTransitive ==
  ASSUME NEW p \in Seq(Nat), NEW q \in Seq(Nat), NEW r \in Seq(Nat),
         Before(p, q), Before(q, r)
  PROVE  Before(p, r)
<1>1. PICK i \in Nat : PartsAt(p, q, i)
  BY BeforeByElements
<1>2. PICK k \in Nat : PartsAt(q, r, k)
  BY BeforeByElements
<1>3. PICK n \in Nat : PartsAt(p, r, n)
  BY <1>1, <1>2, PartsTransitive
<1>4. p # r
  <2>1. PartsAt(p, p, n) => FALSE
    <3>1. n \in 1..Len(p) => p[n] \in Nat
      OBVIOUS
    <3> QED BY <3>1 DEF PartsAt
  <2> QED BY <1>3, <2>1
<1>5. ~Before(r, p)
  <2> SUFFICES ASSUME Before(r, p) PROVE FALSE
    OBVIOUS
  <2>1. PICK m \in Nat : PartsAt(r, p, m)
    BY BeforeByElements
  <2>2. PICK l \in Nat : PartsAt(p, p, l)
    BY <1>3, <2>1, PartsTransitive
  <2>3. l \in 1..Len(p) => p[l] \in Nat
    OBVIOUS
  <2> QED BY <2>2, <2>3 DEF PartsAt
<1> QED BY <1>4, <1>5, BeforeByElements

-----------------------------------------------------------------------------
(***************************************************************************)
(* The cases of a switch in source order.                                  *)
(***************************************************************************)
\* Counting what is before each of finitely many numbers them from 0 without gaps.
LEMMA Ranked ==
  ASSUME NEW S, IsFiniteSet(S), NEW P \in [S -> SUBSET S],
         \A x \in S : x \notin P[x],
         \A x, y \in S : x # y => x \in P[y] \/ y \in P[x],
         \A x, y \in S : x \in P[y] => P[x] \subseteq P[y]
  PROVE  /\ Cardinality(S) \in Nat
         /\ \A x \in S : Cardinality(P[x]) \in 0 .. Cardinality(S) - 1
         /\ \A x, y \in S : Cardinality(P[x]) = Cardinality(P[y]) => x = y
         /\ \A n \in 0 .. Cardinality(S) - 1 : \E x \in S : Cardinality(P[x]) = n
<1> DEFINE n == Cardinality(S)
           rank == [x \in S |-> Cardinality(P[x])]
           T == 0 .. n - 1
<1>1. n \in Nat
  BY FS_CardinalityType
<1>2. ASSUME NEW x \in S
      PROVE  /\ IsFiniteSet(P[x]) /\ Cardinality(P[x]) \in Nat
             /\ Cardinality(P[x]) < n
  <2>1. P[x] \in SUBSET S /\ P[x] # S
    OBVIOUS
  <2>2. IsFiniteSet(P[x]) /\ Cardinality(P[x]) <= n /\ Cardinality(P[x]) # n
    BY <2>1, FS_Subset
  <2>3. Cardinality(P[x]) \in Nat
    BY <2>2, FS_CardinalityType
  <2> QED BY <1>1, <2>2, <2>3
<1>3. ASSUME NEW x \in S, NEW y \in S, x \in P[y]
      PROVE  Cardinality(P[x]) < Cardinality(P[y])
  <2>1. P[x] \in SUBSET P[y] /\ P[x] # P[y]
    BY <1>3
  <2>2. Cardinality(P[x]) <= Cardinality(P[y]) /\ Cardinality(P[x]) # Cardinality(P[y])
    BY <1>2, <2>1, FS_Subset
  <2> QED BY <1>2, <2>2
<1>4. ASSUME NEW x \in S, NEW y \in S, Cardinality(P[x]) = Cardinality(P[y])
      PROVE  x = y
  BY <1>2, <1>3, <1>4
<1>5. rank \in Injection(S, T)
  <2>1. rank \in [S -> T]
    BY <1>1, <1>2
  <2> QED BY <1>4, <2>1 DEF Injection, IsInjective
<1> HIDE DEF n
<1>6. IsFiniteSet(T) /\ Cardinality(T) = n
  <2>1. 0 \in Int /\ n - 1 \in Int /\ n = IF 0 > n - 1 THEN 0 ELSE n - 1 - 0 + 1
    BY <1>1
  <2> QED BY <2>1, FS_Interval
<1> HIDE DEF rank, T
<1>7. rank \in Surjection(S, T)
  BY <1>5, <1>6, FS_Injection DEF n
<1>8. ASSUME NEW m \in T PROVE \E x \in S : Cardinality(P[x]) = m
  BY <1>7 DEF Surjection, rank
<1>9. \A x \in S : Cardinality(P[x]) \in T
  BY <1>1, <1>2 DEF T
<1> QED BY <1>1, <1>4, <1>8, <1>9 DEF T, n

\* Some cases have statements of the body, each its own.
AreCases(cases) ==
  /\ IsFiniteSet(cases)
  /\ \A c \in cases : c.statement \in Seq(Nat)
  /\ \A c, d \in cases : c.statement = d.statement => c = d

LEMMA SourceOrderRanks ==
  ASSUME NEW S, S \subseteq Seq(Nat), IsFiniteSet(S)
  PROVE  /\ Cardinality(S) \in Nat
         /\ \A p \in S : Cardinality({q \in S : Before(q, p)}) \in 0 .. Cardinality(S) - 1
         /\ \A p, q \in S :
              Cardinality({r \in S : Before(r, p)}) = Cardinality({r \in S : Before(r, q)})
                => p = q
<1> DEFINE P == [p \in S |-> {q \in S : Before(q, p)}]
<1>1. P \in [S -> SUBSET S]
  OBVIOUS
<1>2. \A p \in S : p \notin P[p]
  <2>1. \A p \in S : ~Before(p, p)
    BY BeforeByElements
  <2> QED BY <2>1
<1>3. \A p, q \in S : p # q => p \in P[q] \/ q \in P[p]
  <2>1. \A p, q \in S : p # q => Before(p, q) \/ Before(q, p)
    BY BeforeByElements
  <2> QED BY <2>1
<1>4. ASSUME NEW p \in S, NEW q \in S, p \in P[q] PROVE P[p] \subseteq P[q]
  <2>1. \A r \in S : Before(r, p) => Before(r, q)
    BY <1>4, BeforeTransitive
  <2> QED BY <2>1
<1>5. \A p \in S : {q \in S : Before(q, p)} = P[p]
  OBVIOUS
<1> HIDE DEF P
<1>6. /\ Cardinality(S) \in Nat
      /\ \A p \in S : Cardinality(P[p]) \in 0 .. Cardinality(S) - 1
      /\ \A p, q \in S : Cardinality(P[p]) = Cardinality(P[q]) => p = q
  BY <1>1, <1>2, <1>3, <1>4, Ranked
<1>7. \A p \in S : Cardinality({q \in S : Before(q, p)}) = Cardinality(P[p])
  BY <1>5
<1>8. ASSUME NEW p \in S, NEW q \in S,
             Cardinality({r \in S : Before(r, p)}) = Cardinality({r \in S : Before(r, q)})
      PROVE  p = q
  BY <1>6, <1>7, <1>8
<1>9. \A p \in S : Cardinality({q \in S : Before(q, p)}) \in 0 .. Cardinality(S) - 1
  BY <1>6, <1>7
<1> QED BY <1>6, <1>8, <1>9

LEMMA NthCaseIsOne ==
  ASSUME NEW cases, AreCases(cases)
  PROVE  /\ Cardinality(cases) \in Nat /\ (cases # {} => 1 \in 1 .. Cardinality(cases))
         /\ \A n \in 1 .. Cardinality(cases) : NthCase(cases, n) \in cases
<1> DEFINE P == [c \in cases |-> {d \in cases : Before(d.statement, c.statement)}]
<1> USE DEF AreCases
<1>1. P \in [cases -> SUBSET cases]
  OBVIOUS
<1>2. \A c \in cases : c \notin P[c]
  <2>1. \A c \in cases : ~Before(c.statement, c.statement)
    BY BeforeByElements
  <2> QED BY <2>1
<1>3. \A c, d \in cases : c # d => c \in P[d] \/ d \in P[c]
  <2>1. \A c, d \in cases : c # d => Before(c.statement, d.statement)
                                      \/ Before(d.statement, c.statement)
    BY BeforeByElements
  <2> QED BY <2>1
<1>4. ASSUME NEW c \in cases, NEW d \in cases, c \in P[d] PROVE P[c] \subseteq P[d]
  <2>1. \A e \in cases : Before(e.statement, c.statement) => Before(e.statement, d.statement)
    BY <1>4, BeforeTransitive
  <2> QED BY <2>1
<1>5. \A c \in cases : {d \in cases : Before(d.statement, c.statement)} = P[c]
  OBVIOUS
<1> HIDE DEF P
<1>6. /\ Cardinality(cases) \in Nat
      /\ \A n \in 0 .. Cardinality(cases) - 1 : \E c \in cases : Cardinality(P[c]) = n
  BY <1>1, <1>2, <1>3, <1>4, Ranked
<1>7. ASSUME NEW n \in 1 .. Cardinality(cases) PROVE NthCase(cases, n) \in cases
  <2>1. n - 1 \in 0 .. Cardinality(cases) - 1
    BY <1>6
  <2>2. \E c \in cases :
          Cardinality({d \in cases : Before(d.statement, c.statement)}) = n - 1
    BY <1>5, <1>6, <2>1
  <2> QED BY <2>2 DEF NthCase
<1>8. cases # {} => 1 \in 1 .. Cardinality(cases)
  <2>1. cases # {} => Cardinality(cases) # 0
    BY FS_EmptySet
  <2> QED BY <1>6, <2>1
<1> QED BY <1>6, <1>7, <1>8

LEMMA SomeAreCases ==
  ASSUME NEW cases, AreCases(cases), NEW some, some \subseteq cases
  PROVE  AreCases(some)
BY FS_Subset DEF AreCases

-----------------------------------------------------------------------------
(***************************************************************************)
(* Switches.                                                               *)
(***************************************************************************)
\* The compares and jumps that begin a switch define no label, and jump to its
\* cases and its end.
LEMMA DispatchText ==
  ASSUME NEW cases, AreCases(cases), NEW end
  PROVE  \E J : /\ J \subseteq {c.label : c \in cases} \cup {end}
                /\ IsText(Dispatch(cases, end), {}, J)
<1> DEFINE defaults == {c \in cases : c.is_default}
           compared == cases \ defaults
           compare(c) == CmpEax(program[c.statement].arg) \o Jump("je", c.label)
           k == Cardinality(compared)
           F == [i \in 1 .. 2 * k |-> compare(NthCase(compared, (i + 1) \div 2))[2 - (i % 2)]]
           last == IF defaults = {} THEN end ELSE NthCase(defaults, 1).label
           J == JumpsIn(F)
           labels == {c.label : c \in cases}
<1>1. AreCases(defaults) /\ AreCases(compared)
  BY SomeAreCases
<1>2. k \in Nat /\ \A n \in 1..k : NthCase(compared, n) \in compared
  BY <1>1, NthCaseIsOne
<1>3. last \in labels \cup {end}
  <2>1. defaults # {} => NthCase(defaults, 1) \in defaults
    BY <1>1, NthCaseIsOne
  <2> QED BY <2>1
<1>4. ASSUME NEW c
      PROVE  /\ compare(c)[1].op = "cmp"
             /\ compare(c)[2].op = "je" /\ compare(c)[2].label = c.label
  <2>1. PICK a : a = [op |-> "cmp", with |-> program[c.statement].arg]
    OBVIOUS
  <2>2. PICK b : b = [op |-> "je", label |-> c.label]
    OBVIOUS
  <2>3. compare(c) = <<a>> \o <<b>>
    BY <2>1, <2>2 DEF CmpEax, Jump
  <2>4. compare(c)[1] = a /\ compare(c)[2] = b
    BY <2>3
  <2>5. a.op = "cmp" /\ b.op = "je" /\ b.label = c.label
    BY <2>1, <2>2
  <2> HIDE DEF compare
  <2> QED BY <2>4, <2>5
<1> HIDE DEF compare
<1>5. ASSUME NEW i \in 1 .. 2 * k
      PROVE  \E c \in cases : F[i] = compare(c)[1] \/ F[i] = compare(c)[2]
  <2>1. (i + 1) \div 2 \in 1..k /\ (2 - (i % 2) = 1 \/ 2 - (i % 2) = 2)
    BY <1>2
  <2>2. NthCase(compared, (i + 1) \div 2) \in cases
    BY <1>2, <2>1
  <2>3. F[i] = compare(NthCase(compared, (i + 1) \div 2))[2 - (i % 2)]
    OBVIOUS
  <2> HIDE DEF F, compared
  <2> QED BY <2>1, <2>2, <2>3
<1>6. DOMAIN F = 1 .. 2 * k /\ IsSomeSequence(F)
  <2> DEFINE S == {F[i] : i \in 1 .. 2 * k}
  <2>1. 2 * k \in Nat
    BY <1>2
  <2>2. F \in [1 .. 2 * k -> S]
    OBVIOUS
  <2> HIDE DEF F, S, k
  <2>3. F \in Seq(S)
    BY <2>1, <2>2
  <2>4. DOMAIN F = 1 .. 2 * k
    BY <2>2
  <2> QED BY <2>3, <2>4 DEF IsSomeSequence
<1>7. Dispatch(cases, end) = F \o Jump("jmp", last)
  BY DEF Dispatch, compare
<1> HIDE DEF F, k, compared, last
<1>8. IsText(F, {}, J) /\ J \subseteq labels
  <2>1. \A i \in DOMAIN F : F[i].op # "label"
    BY <1>4, <1>5, <1>6
  <2>2. LabelsIn(F) = {} /\ DefinesOnce(F)
    BY <2>1 DEF LabelsIn, DefinesOnce
  <2>3. ASSUME NEW i \in DOMAIN F, F[i].op \in JumpOps PROVE F[i].label \in labels
    <3>1. "cmp" \notin JumpOps
      BY DEF JumpOps
    <3>2. PICK c \in cases : F[i] = compare(c)[1] \/ F[i] = compare(c)[2]
      BY <1>5, <1>6
    <3>3. F[i].label = c.label
      BY <1>4, <2>3, <3>1, <3>2
    <3> QED BY <3>3
  <2>4. J \subseteq labels
    BY <2>3 DEF JumpsIn
  <2> QED BY <1>6, <2>2, <2>4 DEF IsText
<1>9. IsText(Jump("jmp", last), {}, {last})
  <2>1. "jmp" \in JumpOps
    BY DEF JumpOps
  <2> QED BY <2>1, Instructions
<1> HIDE DEF J
<1>10. IsText(F \o Jump("jmp", last), {} \cup {}, J \cup {last})
  BY <1>8, <1>9, TextsJoined
<1>11. IsText(Dispatch(cases, end), {}, J \cup {last})
  BY <1>7, <1>10
<1>12. J \cup {last} \subseteq labels \cup {end}
  BY <1>3, <1>8
<1> QED BY <1>11, <1>12

LEMMA CollectedCases ==
  ASSUME WellFormed(program), next_label_id \in Nat, NEW s,
         NEW cases, cases = CollectSwitchCases(s)
  PROVE  /\ AreCases(cases) /\ Cardinality(cases) \in Nat
         /\ \A c \in cases : /\ c.statement \in CasesIn(program, s)
                             /\ \E i \in 1 .. Cardinality(cases) : c.label = New(i)
         /\ \A c, d \in cases : c.label = d.label => c = d
<1> DEFINE found == CasesIn(program, s)
           before(p) == Cardinality({q \in found : Before(q, p)})
           collected(p) == [statement |-> p, label |-> New(before(p) + 1),
                            is_default |-> program[p].kind = "default"]
           f == [p \in found |-> collected(p)]
           n == Cardinality(found)
<1>1. cases = {collected(p) : p \in found}
  BY DEF CollectSwitchCases, CaseStatements, CasesIn
<1>2. \A p : collected(p).statement = p /\ collected(p).label = New(before(p) + 1)
  OBVIOUS
<1>3. found \subseteq Seq(Nat) /\ IsFiniteSet(found)
  <2>1. found \in SUBSET DOMAIN program
    BY DEF CasesIn
  <2> QED BY <2>1, FS_Subset DEF WellFormed
<1>4. /\ n \in Nat
      /\ \A p \in found : before(p) \in 0 .. n - 1
      /\ \A p, q \in found : before(p) = before(q) => p = q
  <2> HIDE DEF found
  <2> QED BY <1>3, SourceOrderRanks
<1> HIDE DEF found, before, collected, n
<1>5. f \in Bijection(found, cases)
  <2>1. f \in [found -> cases]
    BY <1>1
  <2>2. IsInjective(f)
    BY <1>2 DEF IsInjective
  <2>3. \A c \in cases : \E p \in found : f[p] = c
    BY <1>1
  <2> QED BY <2>1, <2>2, <2>3 DEF Bijection, Injection, Surjection
<1>6. IsFiniteSet(cases) /\ Cardinality(cases) = n
  BY <1>3, <1>5, FS_Bijection DEF ExistsBijection, n
<1>7. \A i \in 1..n : \A j \in 1..n : New(i) = New(j) => i = j
  BY <1>4, LocalsDiffer DEF New
<1>8. ASSUME NEW c \in cases, NEW d \in cases
      PROVE  /\ c.statement \in found /\ \E i \in 1..n : c.label = New(i)
             /\ c.statement = d.statement => c = d
             /\ c.label = d.label => c = d
  <2>1. PICK p \in found : c = collected(p)
    BY <1>1
  <2>2. PICK q \in found : d = collected(q)
    BY <1>1
  <2>3. /\ c.statement = p /\ c.label = New(before(p) + 1)
        /\ d.statement = q /\ d.label = New(before(q) + 1)
    BY <1>2, <2>1, <2>2
  <2>4. before(p) + 1 \in 1..n /\ before(q) + 1 \in 1..n
    BY <1>4
  <2>5. c.label = d.label => before(p) + 1 = before(q) + 1
    BY <1>7, <2>3, <2>4
  <2>6. c.label = d.label => p = q
    <3>1. before(p) \in Nat /\ before(q) \in Nat
      BY <1>4
    <3>2. before(p) + 1 = before(q) + 1 => before(p) = before(q)
      BY <3>1
    <3> QED BY <1>4, <2>5, <3>2
  <2> QED BY <2>1, <2>2, <2>3, <2>4, <2>6
<1>9. AreCases(cases)
  BY <1>3, <1>6, <1>8 DEF AreCases
<1> QED BY <1>4, <1>6, <1>8, <1>9 DEF found

\* A case of the switch that is about to be emitted is ahead, and in no table yet.
LEMMA CasesAreAhead ==
  ASSUME Ordered, Node.kind = "switch", Call.step = "enter",
         TablesApart(program, calls, switch_cases), NEW q \in CasesIn(program, Call.at)
  PROVE  /\ q \in DOMAIN program /\ q # Call.at /\ IsAhead(program, calls, q)
         /\ \A d \in Tabled(program, calls, switch_cases) : d.statement # q
<1> DEFINE f == Front(calls)
           p == Call.at
           B == BodiesOf(program, calls, {"switch"})
<1>1. /\ WellFormed(program) /\ IsSomeSequence(f) /\ calls = Append(f, Call)
      /\ p \in DOMAIN program /\ p \in Seq(Nat) /\ Follows(program, f, Len(f), p)
      /\ Node = program[p]
  BY OrderedCall
<1>2. /\ q \in DOMAIN program /\ q \in Seq(Nat) /\ IsStrictPrefix(p, q)
      /\ \A a \in Ancestors(q) : IsStrictPrefix(p, a) => program[a].kind \in LookedInto
  BY <1>1 DEF CasesIn, WellFormed
<1>3. PICK n \in Nat : Under(p, n, q)
  BY <1>1, <1>2, PrefixByElements
<1>4. q # p
  BY <1>3, UnderNotItself
<1>5. IsAhead(program, calls, q)
  <2>1. n \in 1..program[p].kids
    BY <1>1, <1>2, <1>3, AroundIsThere
  <2>2. Begun(program, Call) = 0
    BY BegunBySteps
  <2>3. n > Begun(program, Call)
    BY <2>1, <2>2
  <2>4. q \in Ahead(program, Call)
    BY <1>2, <1>3, <2>1, <2>3 DEF Ahead
  <2> QED BY <1>1, <2>4, AheadAppended
<1>6. ASSUME NEW j \in B PROVE q \notin CasesIn(program, calls[j].at)
  <2>1. /\ Len(f) \in Nat /\ Len(calls) = Len(f) + 1 /\ calls[Len(f) + 1] = Call
        /\ \A i \in 1..Len(f) : calls[i] = f[i]
    BY <1>1, AppendedAt
  <2>2. j \in 1..Len(calls) /\ calls[j].step = "body"
    BY DEF BodiesOf, CallsAt, IsAt
  <2>3. j \in 1..Len(f) /\ calls[j] = f[j]
    BY <2>1, <2>2
  <2>4. PICK m : Under(f[j].at, m, p) /\ f[j].at \in DOMAIN program
    BY <1>1, <2>3 DEF Follows
  <2>5. f[j].at \in Seq(Nat)
    BY <1>1, <2>4 DEF WellFormed
  <2>6. IsStrictPrefix(f[j].at, p)
    <3>1. m \in Nat
      <4>1. m = p[Len(f[j].at) + 1] /\ Len(f[j].at) + 1 \in 1..Len(p)
        BY <1>1, <2>4, <2>5 DEF Under
      <4> HIDE DEF p
      <4>2. p \in Seq(Nat)
        BY <1>1
      <4> QED BY <4>1, <4>2
    <3> QED BY <1>1, <2>4, <2>5, <3>1, PrefixByElements
  <2>7. p \in Ancestors(q)
    BY <1>1, <1>2, <1>3, AncestorByElements
  <2>8. "switch" \notin LookedInto
    BY DEF LookedInto, Loops
  <2> QED BY <1>1, <2>3, <2>6, <2>7, <2>8 DEF CasesIn
<1>7. ASSUME NEW d \in Tabled(program, calls, switch_cases)
      PROVE  \E j \in B : d.statement \in CasesIn(program, calls[j].at)
  <2>1. CasesInside(program, calls, switch_cases)
    BY DEF TablesApart
  <2>2. CASE d \in switch_cases
    BY <2>1, <2>2 DEF CasesInside
  <2>3. CASE \E m \in B : d \in calls[m].saved
    BY <2>1, <2>3 DEF CasesInside
  <2> QED BY <2>2, <2>3 DEF Tabled
<1> QED BY <1>2, <1>4, <1>5, <1>6, <1>7

\* What a switch changes in the tables.
LEMMA SwitchTablesEntered ==
  ASSUME Ordered, TablesApart(program, calls, switch_cases), program' = program,
         Node.kind = "switch", Call.step = "enter",
         NEW cases, AreCases(cases), \A c \in cases : c.statement \in CasesIn(program, Call.at),
         switch_cases' = cases,
         NEW e, GoesOnAs(e), e.step = "body", e.saved = switch_cases
  PROVE  /\ TablesApart(program, calls', cases)
         /\ Tabled(program, calls', cases) = cases \cup Tabled(program, calls, switch_cases)
<1> DEFINE f == Front(calls)
           k == switch_cases
           s == Append(f, e)
           old == Tabled(program, calls, k)
<1>1. IsSomeSequence(f) /\ calls = Append(f, Call) /\ Node = program[Call.at]
  BY OrderedCall
<1>2. ~IsBodyOf(program, Call, {"switch"}) /\ IsBodyOf(program, e, {"switch"})
      /\ e.at = Call.at
  BY <1>1 DEF IsBodyOf, IsAt, GoesOnAs
<1>3. Tabled(program, s, cases) = cases \cup Tabled(program, f, k)
  BY <1>1, <1>2, SwitchTabled
<1>4. Tabled(program, Append(f, Call), k) = Tabled(program, f, k)
  BY <1>1, <1>2, PlainTabled
<1>5. Tabled(program, calls', cases) = Tabled(program, s, cases)
  BY OwedByTheRest
<1>6. Tabled(program, calls', cases) = cases \cup old
  BY <1>1, <1>3, <1>4, <1>5
<1>7. CasesInside(program, f, k)
  <2>1. CasesInside(program, Append(f, Call), k)
    BY <1>1 DEF TablesApart
  <2> QED BY <1>1, <1>2, <2>1, InsideAppended
<1>8. CasesInside(program, s, cases)
  BY <1>1, <1>2, <1>7, InsideAppended
<1>9. CasesInside(program, calls', cases)
  <2>1. IsSomeSequence(s)
    BY <1>1, AppendedAt
  <2>2. calls' = s \/ \E q : calls' = Append(s, Entry(q))
    BY DEF GoesOnAs
  <2> HIDE DEF s
  <2>3. ASSUME NEW q, calls' = Append(s, Entry(q))
        PROVE  CasesInside(program, calls', cases)
    <3>1. CasesInside(program, Append(s, Entry(q)), cases)
      BY <1>8, <2>1, EntryHasNoCases
    <3> QED BY <2>3, <3>1
  <2>4. CASE calls' = s
    BY <1>8, <2>4
  <2> QED BY <2>2, <2>3, <2>4
<1>10. \A c \in cases : /\ c.statement \in DOMAIN program
                        /\ program[c.statement].kind \in {"case", "default"}
                        /\ \A d \in old : d.statement # c.statement
  BY CasesAreAhead DEF CasesIn
<1>11. \A c, d \in cases : c.statement = d.statement => c = d
  BY DEF AreCases
<1> HIDE DEF old
<1>12. /\ \A c, d \in old : c.statement = d.statement => c = d
       /\ \A c \in old : /\ c.statement \in DOMAIN program
                         /\ program[c.statement].kind \in {"case", "default"}
  BY DEF old, TablesApart
<1>13. TablesApart(program, calls', cases)
  BY <1>6, <1>9, <1>10, <1>11, <1>12 DEF TablesApart
<1> QED BY <1>6, <1>13 DEF old

\* What is owed once a switch has begun: its end, and the labels of its cases.
LEMMA OwedBySwitch ==
  ASSUME Agreeing, WentPast(Call.at), program' = program,
         Node.kind = "switch", Call.step = "enter",
         NEW cases, AreCases(cases), \A c \in cases : c.statement \in CasesIn(program, Call.at),
         switch_cases' = cases,
         NEW e, GoesOnAs(e), e.step = "body", e.saved = switch_cases,
         NEW end, e.labels = <<end>>
  PROVE  /\ OwedNow' = {x \in OwedNow : x[1] # Call.at} \cup ({Call.at} \X {end})
                         \cup {<<c.statement, c.label>> : c \in cases}
         /\ TablesApart(program, calls', cases)
<1> DEFINE p == Call.at
           k == switch_cases
           old == Tabled(program, calls, k)
<1>1. Ordered /\ TablesApart(program, calls, k)
  BY DEF Agreeing, LabelsAgree
<1>2. TablesApart(program, calls', cases) /\ Tabled(program, calls', cases) = cases \cup old
  BY <1>1, SwitchTablesEntered
<1>3. OwedByCalls(program, calls') =
        OwedByCalls(program, Front(calls)) \cup ({p} \X {end})
  <2>1. OwedByCalls(program, calls') =
          OwedByCalls(program, Front(calls)) \cup OwedBy(program, e)
    BY <1>1, OwedByTheRest
  <2>2. e.at = p /\ program[e.at].kind = "switch"
    BY <1>1, OrderedCall DEF GoesOnAs
  <2>3. LabelsLeft(program, e) = {e.labels[1]} /\ e.labels[1] = end
    BY <2>2, LeftBySteps
  <2>4. OwedBy(program, e) = {p} \X {end}
    BY <2>2, <2>3 DEF OwedBy
  <2> QED BY <2>1, <2>4
<1>4. ASSUME NEW c \in cases
      PROVE  IsAhead(program, calls', c.statement) /\ c.statement # p
  <2>1. /\ c.statement \in DOMAIN program /\ c.statement # p
        /\ IsAhead(program, calls, c.statement)
    BY <1>1, CasesAreAhead
  <2> QED BY <2>1 DEF WentPast
<1>5. ASSUME NEW c \in old
      PROVE  IsAhead(program, calls', c.statement) <=>
               IsAhead(program, calls, c.statement) /\ c.statement # p
  <2>1. c.statement \in DOMAIN program
    BY <1>1 DEF TablesApart
  <2> QED BY <2>1 DEF WentPast
<1>6. \A c : /\ c \in Tabled(program, calls', switch_cases')
             /\ IsAhead(program, calls', c.statement)
        <=> \/ /\ c \in Tabled(program, calls, switch_cases)
               /\ IsAhead(program, calls, c.statement) /\ c.statement # Call.at
            \/ c \in cases
  BY <1>2, <1>4, <1>5
<1> QED BY <1>1, <1>2, <1>3, <1>6, OwedAfter

LEMMA EnterSwitchAgrees ==
  ASSUME Agreeing, EnterSwitch PROVE LabelsAgree'
<1> DEFINE p == Call.at
           cases == CollectSwitchCases(p)
           k == Cardinality(cases)
           end == New(k + 1)
           e == [Call EXCEPT !.step = "body", !.labels = <<end>>, !.saved = switch_cases]
           t == Eval(p, "test") \o Dispatch(cases, end)
           extra == {<<c.statement, c.label>> : c \in cases}
<1>1. WentPast(p) /\ Ordered
  BY StatementsBeginInOrder DEF Agreeing
<1>2. /\ Node.kind = "switch" /\ Call.step = "enter"
      /\ Allocate(k + 1) /\ code' = code \o t /\ switch_cases' = cases
      /\ break_targets' = Append(break_targets, end)
      /\ Emitting(e, Kid(p, 1)) /\ UNCHANGED <<program, loop_targets>>
  BY DEF EnterSwitch, At, Write
<1>3. e.at = p /\ e.step = "body" /\ e.saved = switch_cases /\ e.labels = <<end>>
  BY ChangedCall, ChangedLabels DEF Agreeing, Ordered
<1> HIDE DEF e
<1>4. GoesOnAs(e)
  BY <1>2, <1>3, GoesOnByEmitting
<1>5. next_label_id \in Nat /\ WellFormed(program)
  BY <1>1, PromisedNowHas, OrderedCall
<1> HIDE DEF cases
<1>6. /\ AreCases(cases) /\ k \in Nat
      /\ \A c \in cases : /\ c.statement \in CasesIn(program, p)
                          /\ \E i \in 1..k : c.label = New(i)
      /\ \A c, d \in cases : c.label = d.label => c = d
  BY <1>5, CollectedCases DEF cases
<1> HIDE DEF k, end
<1>7. /\ OwedNow' = {x \in OwedNow : x[1] # p} \cup ({p} \X {end}) \cup extra
      /\ TablesApart(program, calls', cases)
  BY <1>1, <1>2, <1>3, <1>4, <1>6, OwedBySwitch
<1>8. /\ next_label_id' \in Nat /\ next_label_id <= next_label_id'
      /\ \A i \in 1 .. k + 1 : Fresh(New(i), next_label_id, next_label_id')
      /\ \A i, j \in 1 .. k + 1 : New(i) = New(j) => i = j
  <2>1. k + 1 \in Nat
    BY <1>6
  <2> QED BY <1>2, <1>5, <2>1, NewLabels
<1>9. Fresh(end, next_label_id, next_label_id') /\ \A i \in 1..k : New(i) # end
  <2>1. k + 1 \in 1 .. k + 1 /\ \A i \in 1..k : i \in 1 .. k + 1 /\ i # k + 1
    BY <1>6
  <2> QED BY <1>8, <2>1 DEF end
<1>10. ASSUME NEW c \in cases
       PROVE  Fresh(c.label, next_label_id, next_label_id') /\ c.label # end
  <2>1. PICK i \in 1..k : c.label = New(i)
    BY <1>6
  <2>2. i \in 1 .. k + 1
    BY <1>6
  <2> QED BY <1>8, <1>9, <2>1, <2>2
<1>11. PICK J : J \subseteq {c.label : c \in cases} \cup {end} /\ IsText(t, {}, J)
  <2>1. PICK K : /\ K \subseteq {c.label : c \in cases} \cup {end}
                 /\ IsText(Dispatch(cases, end), {}, K)
    BY <1>6, DispatchText
  <2>2. IsText(Eval(p, "test"), {}, {})
    BY Instructions
  <2>3. IsText(t, {} \cup {}, {} \cup K)
    BY <2>1, <2>2, TextsJoined
  <2>4. IsText(t, {}, K)
    BY <2>3
  <2> QED BY <2>1, <2>4
<1> HIDE DEF t
<1>12. Settles(p, t, {}, J, {end}, extra)
  <2>1. \A x \in OwedNow : x[1] # p
    <3>1. Owes(LabelsLeft(program, Call)) /\ LabelsLeft(program, Call) = {}
      <4>1. Node.kind \notin Passing
        BY <1>2 DEF Passing
      <4> QED BY <1>2, <4>1, OwedByRunning, LeftBySteps DEF Agreeing
    <3> QED BY <3>1 DEF Owes
  <2>2. ASSUME NEW x \in extra
        PROVE  /\ Fresh(x[2], next_label_id, next_label_id')
               /\ x[2] \notin {} \cup {end}
               /\ \A y \in extra : x[2] = y[2] => x = y
    <3>1. PICK c \in cases : x = <<c.statement, c.label>>
      OBVIOUS
    <3>2. ASSUME NEW y \in extra, x[2] = y[2] PROVE x = y
      <4>1. PICK d \in cases : y = <<d.statement, d.label>>
        OBVIOUS
      <4>2. c.label = d.label
        BY <3>1, <3>2, <4>1
      <4> QED BY <1>6, <3>1, <4>1, <4>2
    <3> QED BY <1>10, <3>1, <3>2
  <2>3. J \subseteq PromisedNow \cup {} \cup {end} \cup {x[2] : x \in extra}
    <3>1. ASSUME NEW c \in cases PROVE c.label \in {x[2] : x \in extra}
      <4>1. PICK x : x = <<c.statement, c.label>>
        OBVIOUS
      <4>2. x \in extra /\ x[2] = c.label
        BY <4>1
      <4> QED BY <4>2
    <3> QED BY <1>11, <3>1
  <2> HIDE DEF extra
  <2> QED BY <1>2, <1>7, <1>8, <1>9, <1>11, <2>1, <2>2, <2>3 DEF Settles
<1>13. /\ LabelsKept(code, OwedNow, next_label_id)'
       /\ PromisedNow \subseteq PromisedNow'
       /\ LabelsIn(code') = LabelsIn(code) \cup {}
  BY <1>12, WritingAgrees DEF Agreeing
<1>14. end \in PromisedNow'
  <2>1. PICK x : x = <<p, end>>
    OBVIOUS
  <2>2. x \in OwedNow' /\ x[2] = end
    BY <1>7, <2>1
  <2> QED BY <2>2 DEF PromisedNow, Promised
<1>15. JumpsHave(break_targets', loop_targets', PromisedNow')
  <2>1. /\ IsSomeSequence(break_targets) /\ JumpsHave(break_targets, loop_targets, PromisedNow)
    BY PromisedNowHas DEF Agreeing, Ordered, InProgress, NestInv, TargetsInv
  <2> DEFINE n == Len(break_targets)
  <2>2. /\ n \in Nat /\ Len(break_targets') = n + 1 /\ break_targets'[n + 1] = end
        /\ \A i \in 1..n : break_targets'[i] = break_targets[i]
    BY <1>2, <2>1, AppendedAt
  <2>3. \A i \in 1 .. n + 1 : i \in 1..n \/ i = n + 1
    BY <2>2
  <2>4. loop_targets' = loop_targets
    BY <1>2
  <2> QED BY <1>13, <1>14, <2>1, <2>2, <2>3, <2>4 DEF JumpsHave
<1>16. CallsAgree(calls', LabelsIn(code'))
  <2>1. CallsAgree(calls, LabelsIn(code)) /\ LabelsIn(code) \subseteq LabelsIn(code')
    BY <1>13 DEF Agreeing, LabelsAgree, CallsAgree
  <2>2. LabelsOfCall(program, e, LabelsIn(code'))
    <3>1. program[e.at].kind = "switch"
      BY <1>1, <1>2, <1>3, OrderedCall
    <3>2. "switch" \notin Loops \cup {"do", "for"}
      BY DEF Loops
    <3> QED BY <1>3, <3>1, <3>2 DEF LabelsOfCall
  <2> QED BY <1>1, <1>4, <2>1, <2>2, CallsGoOnAgreeing
<1> QED BY <1>2, <1>7, <1>13, <1>15, <1>16, RestAgrees DEF Agreeing

\* Behind the body of a switch its cases are written, and its table is dropped.
LEMMA SwitchTablesLeft ==
  ASSUME Ordered, TablesApart(program, calls, switch_cases), AfterSwitchBody
  PROVE  /\ TablesApart(program, calls', switch_cases')
         /\ Tabled(program, calls, switch_cases) =
              switch_cases \cup Tabled(program, calls', switch_cases')
         /\ \A c \in switch_cases : ~IsAhead(program, calls, c.statement)
<1> DEFINE f == Front(calls)
           p == Call.at
           k == switch_cases
           rest == Tabled(program, f, Call.saved)
<1>1. /\ WellFormed(program) /\ IsSomeSequence(f) /\ calls = Append(f, Call)
      /\ p \in DOMAIN program /\ p \in Seq(Nat) /\ Follows(program, f, Len(f), p)
      /\ Node = program[p] /\ Node.kids \in Nat
  BY OrderedCall
<1>2. /\ Node.kind = "switch" /\ Call.step = "body"
      /\ calls' = f /\ switch_cases' = Call.saved
  BY DEF AfterSwitchBody, At, Return
<1>3. IsBodyOf(program, Call, {"switch"})
  BY <1>1, <1>2 DEF IsBodyOf, IsAt
<1>4. Tabled(program, Append(f, Call), k) = k \cup rest
  BY <1>1, <1>3, SwitchTabled
<1>5. CasesInside(program, f, Call.saved) /\ \A c \in k : c.statement \in CasesIn(program, p)
  <2>1. CasesInside(program, Append(f, Call), k)
    BY <1>1 DEF TablesApart
  <2> QED BY <1>1, <1>3, <2>1, InsideAppended
<1>6. Tabled(program, calls, k) = k \cup rest
  BY <1>1, <1>4
<1>7. TablesApart(program, f, Call.saved)
  <2> HIDE DEF rest
  <2>1. /\ \A c, d \in rest : c.statement = d.statement => c = d
        /\ \A c \in rest : /\ c.statement \in DOMAIN program
                           /\ program[c.statement].kind \in {"case", "default"}
    BY <1>6 DEF TablesApart
  <2> QED BY <1>5, <2>1 DEF TablesApart, rest
<1>8. ASSUME NEW c \in k PROVE ~IsAhead(program, calls, c.statement)
  <2> DEFINE d == c.statement
  <2>1. d \in DOMAIN program /\ d \in Seq(Nat) /\ IsStrictPrefix(p, d)
    BY <1>1, <1>5 DEF CasesIn, WellFormed
  <2>2. PICK n \in Nat : Under(p, n, d)
    BY <1>1, <2>1, PrefixByElements
  <2>3. d # p
    BY <2>2, UnderNotItself
  <2> HIDE DEF d
  <2>4. ~IsAhead(program, f, d)
    BY <1>1, <2>1, <2>2, FollowsLeavesBehind DEF IsAhead
  <2>5. d \notin Ahead(program, Call)
    <3>1. Begun(program, Call) \in Int /\ Node.kids <= Begun(program, Call)
      BY <1>1, <1>2, BegunBySteps
    <3> QED BY <2>1, <2>3, <3>1, NothingAhead
  <2>6. ~IsAhead(program, Append(f, Call), d)
    BY <1>1, <2>4, <2>5, AheadAppended
  <2> QED BY <1>1, <2>6 DEF d
<1> QED BY <1>2, <1>6, <1>7, <1>8

LEMMA AfterSwitchBodyAgrees ==
  ASSUME Agreeing, AfterSwitchBody PROVE LabelsAgree'
<1> DEFINE p == Call.at
           l == Call.labels[1]
           kept == Tabled(program, calls', switch_cases')
<1>1. Ordered /\ WentPast(p) /\ TablesApart(program, calls, switch_cases)
  BY EndsInOrder DEF Agreeing, LabelsAgree
<1>2. /\ Node.kind = "switch" /\ Call.step = "body" /\ GoesOff
      /\ break_targets' = Front(break_targets) /\ code' = code \o Label(l)
      /\ UNCHANGED <<program, next_label_id, loop_targets>>
  BY DEF AfterSwitchBody, At, Return, GoesOff, Write
<1>3. /\ TablesApart(program, calls', switch_cases')
      /\ Tabled(program, calls, switch_cases) = switch_cases \cup kept
      /\ \A c \in switch_cases : ~IsAhead(program, calls, c.statement)
  BY <1>1, SwitchTablesLeft
<1>4. ASSUME NEW c \in kept
      PROVE  IsAhead(program, calls', c.statement) <=>
               IsAhead(program, calls, c.statement) /\ c.statement # p
  <2>1. c.statement \in DOMAIN program
    BY <1>3 DEF TablesApart
  <2> QED BY <1>1, <2>1 DEF WentPast
<1>5. OwedNow' = {x \in OwedNow : x[1] # p} \cup ({p} \X {}) \cup {}
  <2>1. OwedByCalls(program, calls') = OwedByCalls(program, Front(calls)) \cup ({p} \X {})
    <3>1. OwedByCalls(program, calls') = OwedByCalls(program, Front(calls))
      BY <1>1, <1>2, OwedByTheRest
    <3>2. {p} \X {} = {}
      OBVIOUS
    <3> QED BY <3>1, <3>2
  <2> HIDE DEF kept
  <2>2. \A c : c \in kept /\ IsAhead(program, calls', c.statement)
          <=> \/ /\ c \in Tabled(program, calls, switch_cases)
                 /\ IsAhead(program, calls, c.statement) /\ c.statement # p
              \/ c \in {}
    BY <1>3, <1>4
  <2>3. OwedNow' = {x \in OwedNow : x[1] # p} \cup ({p} \X {})
                     \cup {<<c.statement, c.label>> : c \in {}}
    BY <1>1, <1>2, <1>3, <2>1, <2>2, OwedAfter DEF kept
  <2> QED BY <2>3
<1>6. Owes({l})
  <2>1. LabelsLeft(program, Call) = {l}
    BY <1>1, <1>2, LeftBySteps, OrderedCall
  <2>2. Node.kind \notin Passing
    BY <1>2 DEF Passing
  <2>3. Owes(LabelsLeft(program, Call))
    BY <2>2, OwedByRunning DEF Agreeing
  <2> HIDE DEF l
  <2> QED BY <2>1, <2>3
<1> HIDE DEF l
<1>7. Settles(p, Label(l), {l}, {}, {}, {})
  <2>1. IsText(Label(l), {l}, {})
    BY Instructions
  <2>2. next_label_id' \in Nat /\ next_label_id <= next_label_id'
    BY <1>2, PromisedNowHas
  <2>3. \A x \in OwedNow : x[1] = p => x[2] \in {l} \cup {}
    BY <1>6 DEF Owes
  <2>4. <<p, l>> \in OwedNow
    BY <1>6 DEF Owes
  <2> QED BY <1>2, <1>5, <2>1, <2>2, <2>3, <2>4 DEF Settles
<1>8. /\ LabelsKept(code, OwedNow, next_label_id)'
      /\ PromisedNow \subseteq PromisedNow'
      /\ LabelsIn(code') = LabelsIn(code) \cup {l}
  BY <1>7, WritingAgrees DEF Agreeing
<1>9. JumpsHave(break_targets', loop_targets', PromisedNow')
  <2>1. IsSomeSequence(break_targets) /\ JumpsHave(break_targets, loop_targets, PromisedNow)
    BY PromisedNowHas DEF Agreeing, Ordered, InProgress, NestInv, TargetsInv
  <2>2. break_targets # << >>
    BY <1>2, BodyHasTargets DEF Targeted
  <2>3. /\ 1..Len(break_targets') \subseteq 1..Len(break_targets)
        /\ \A i \in 1..Len(break_targets') : break_targets'[i] = break_targets[i]
    BY <1>2, <2>1, <2>2, FrontAt
  <2>4. loop_targets' = loop_targets
    BY <1>2
  <2> QED BY <1>8, <2>1, <2>3, <2>4 DEF JumpsHave
<1>10. CallsAgree(calls', LabelsIn(code'))
  <2>1. CallsAgree(calls, LabelsIn(code)) /\ LabelsIn(code) \subseteq LabelsIn(code')
    BY <1>8 DEF Agreeing, LabelsAgree, CallsAgree
  <2> QED BY <1>1, <1>2, <2>1, CallsGoOnAgreeing
<1> QED BY <1>2, <1>3, <1>8, <1>9, <1>10, RestAgrees DEF Agreeing

-----------------------------------------------------------------------------
(***************************************************************************)
(* All steps together.                                                     *)
(***************************************************************************)
LEMMA InitAgrees ==
  ASSUME Init, C!GotosResolve(program) PROVE LabelsAgree
<1> DEFINE e == Entry(<< >>)
           labels == {d \in DOMAIN program : program[d].kind = "label"}
           owed == {<<d, User(program[d].arg)>> : d \in labels}
<1>1. /\ program \in Programs /\ calls = <<e>> /\ code = << >> /\ next_label_id = 1
      /\ loop_targets = << >> /\ break_targets = << >> /\ switch_cases = {}
  BY DEF Init
<1>2. WellFormed(program)
  BY <1>1, ProgramsAssumption
<1>3. Len(calls) = 1 /\ calls[1] = e /\ 1..1 = {1} /\ Len(<< >>) = 0 /\ 1..0 = {}
  BY <1>1
<1>4. /\ OwedBy(program, e) = {} /\ ~IsBodyOf(program, e, {"switch"})
      /\ \A written : LabelsOfCall(program, e, written)
  BY EntryOwesNothing
<1> HIDE DEF e
<1>5. OwedByCalls(program, calls) = {}
  BY <1>3, <1>4 DEF OwedByCalls
<1>6. BodiesOf(program, calls, {"switch"}) = {}
  BY <1>3, <1>4 DEF BodiesOf, CallsAt, IsBodyOf
<1>7. Tabled(program, calls, switch_cases) = {}
  BY <1>1, <1>6 DEF Tabled
<1>8. ASSUME NEW d \in labels PROVE d \in DOMAIN program /\ IsAhead(program, calls, d)
  <2>1. d # << >>
    BY <1>2 DEF WellFormed
  <2> QED BY <1>1, <1>2, <2>1, EntryCalls DEF e
<1>9. OwedNow = owed
  BY <1>5, <1>7, <1>8 DEF OwedNow, Owed, OwedAhead
<1>10. LabelsIn(code) = {} /\ JumpsIn(code) = {} /\ DefinesOnce(code) /\ IsSomeSequence(code)
  BY <1>1, Instructions DEF IsText
<1>11. LabelsKept(code, owed, next_label_id)
  <2>1. ASSUME NEW x \in owed, NEW y \in owed, x[2] = y[2] PROVE x = y
    <3>1. PICK d \in labels : x = <<d, User(program[d].arg)>>
      OBVIOUS
    <3>2. PICK c \in labels : y = <<c, User(program[c].arg)>>
      OBVIOUS
    <3>3. program[d].arg = program[c].arg
      BY <2>1, <3>1, <3>2, LocalsDiffer
    <3>4. d = c
      BY <3>3 DEF C!GotosResolve
    <3> QED BY <3>1, <3>2, <3>4
  <2>2. ASSUME NEW x \in owed, NEW n \in Nat PROVE x[2] # Local(n)
    BY LocalsDiffer
  <2> HIDE DEF owed
  <2> QED BY <1>1, <1>10, <2>1, <2>2 DEF LabelsKept
<1>12. TablesApart(program, calls, switch_cases)
  BY <1>1, <1>6, <1>7 DEF TablesApart, CasesInside
<1>13. ASSUME NEW d \in labels PROVE User(program[d].arg) \in PromisedNow
  <2>1. PICK x : x = <<d, User(program[d].arg)>>
    OBVIOUS
  <2>2. x \in OwedNow /\ x[2] = User(program[d].arg)
    BY <1>9, <2>1
  <2> QED BY <2>2 DEF PromisedNow, Promised
<1> QED BY <1>1, <1>3, <1>4, <1>9, <1>11, <1>12, <1>13 DEF LabelsAgree

\* Behind the whole body nothing is owed but the end of the function.
LEMMA FinishedAssembles ==
  ASSUME LabelsAgree, FinishFunction PROVE Assembles'
<1> DEFINE t == XorEax \o Label(ReturnLabel) \o Ret
           a == XorEax
           b == Label(ReturnLabel)
           c == Ret
           L == LabelsIn(code) \cup {ReturnLabel}
<1>1. calls = << >> /\ code' = code \o t
  BY DEF FinishFunction, Write
<1>2. OwedNow = {}
  <2>1. 1..Len(calls) = {}
    BY <1>1
  <2> QED BY <2>1 DEF OwedNow, Owed, OwedByCalls, OwedAhead, IsAhead
<1>3. IsText(t, {ReturnLabel}, {})
  <2>1. IsText(a, {}, {}) /\ IsText(b, {ReturnLabel}, {}) /\ IsText(c, {}, {})
    BY Instructions
  <2> HIDE DEF a, b, c
  <2>2. IsText(a \o b, {} \cup {ReturnLabel}, {} \cup {})
    BY <2>1, TextsJoined
  <2>3. IsText(a \o b, {ReturnLabel}, {})
    BY <2>2
  <2>4. IsText((a \o b) \o c, {ReturnLabel} \cup {}, {} \cup {})
    BY <2>1, <2>3, TextsJoined
  <2> QED BY <2>4 DEF a, b, c
<1> HIDE DEF t
<1>4. /\ IsText(code, LabelsIn(code), JumpsIn(code)) /\ JumpsIn(code) \subseteq L
      /\ ReturnLabel \notin LabelsIn(code)
  <2>1. LabelsKept(code, {}, next_label_id)
    BY <1>2 DEF LabelsAgree
  <2>2. 0 \notin 1 .. next_label_id - 1
    OBVIOUS
  <2> QED BY <2>1, <2>2 DEF LabelsKept, IsText, Promised, ReturnLabel
<1>5. IsText(code \o t, L, JumpsIn(code) \cup {})
  BY <1>3, <1>4, TextsJoined
<1> HIDE DEF L
<1>6. LabelsIn(code') = L /\ JumpsIn(code') \subseteq L /\ DefinesOnce(code')
  BY <1>1, <1>4, <1>5 DEF IsText
<1>7. ASSUME NEW i \in DOMAIN code', code'[i].op \in JumpOps
      PROVE  \E j \in DOMAIN code' : code'[j].op = "label" /\ code'[j].label = code'[i].label
  <2>1. code'[i].label \in LabelsIn(code')
    BY <1>6, <1>7 DEF JumpsIn
  <2> QED BY <2>1 DEF LabelsIn
<1> QED BY <1>6, <1>7 DEF Assembles, Definitions, DefinesOnce

LEMMA EmitKeepsOrder ==
  ASSUME Ordered, Emit, ~FinishFunction, outcome' = "emitting"
  PROVE  InOrder(program, calls')
<1>1. ~NestingExceeded
  BY DEF NestingExceeded, Fail
<1>2. CASE EmitExpression \/ EmitReturn \/ EmitBreak \/ EmitContinue \/ EmitGoto
  BY <1>2, LeavesInOrder DEF InOrderNext
<1>3. CASE EmitLabel \/ EmitCase
  BY <1>3, LabelsInOrder DEF InOrderNext
<1>4. CASE EnterCompound \/ EnterFor
  BY <1>4, ScopesOpenInOrder DEF InOrderNext
<1>5. CASE \/ (AfterThen /\ Node.kids # 2)
           \/ AfterElse \/ AfterWhileBody \/ AfterDoBody \/ AfterSwitchBody
           \/ LeaveCompound \/ AfterForBody
  BY <1>5, EndsInOrder DEF InOrderNext
<1>6. CASE \/ EmitItem \/ EnterIf \/ (AfterThen /\ Node.kids = 2)
           \/ EnterWhile \/ EnterDo \/ ForTest \/ EnterSwitch
  BY <1>6, StatementsBeginInOrder DEF InOrderNext
<1> QED BY <1>1, <1>2, <1>3, <1>4, <1>5, <1>6 DEF Emit

LEMMA EmitAgrees ==
  ASSUME Agreeing, C!GotosResolve(program), Emit, ~FinishFunction, outcome' = "emitting"
  PROVE  LabelsAgree'
<1>1. ~NestingExceeded
  BY DEF NestingExceeded, Fail
<1> QED BY <1>1, LeavesAgree, CompoundsAgree, IfsAgree, LoopsBeginAgreeing,
       LoopsEndAgreeing, EmitLabelAgrees, EmitCaseAgrees, EnterSwitchAgrees,
       AfterSwitchBodyAgrees DEF Emit

LEMMA EmitKeepsProgram == Emit => program' = program /\ outcome = "emitting"
BY DEF Emit, EmitExpression, EmitReturn, EmitBreak, EmitContinue, EmitGoto, EmitLabel,
   EnterCompound, EmitItem, LeaveCompound, EnterIf, AfterThen, AfterElse, EnterWhile,
   AfterWhileBody, EnterDo, AfterDoBody, EnterFor, ForTest, AfterForBody, EnterSwitch,
   AfterSwitchBody, EmitCase, NestingExceeded, FinishFunction, Fail, TooDeep,
   EmitsExpression, At

LEMMA LabelsStayResolved ==
  ASSUME program' = program, NoErrorInv',
         outcome' = "emitting" => InOrder(program, calls'),
         outcome' = "emitting" /\ C!GotosResolve(program) => LabelsAgree',
         outcome' = "emitted" /\ C!GotosResolve(program) => Assembles',
         outcome' = "not assembled" => ~C!GotosResolve(program)
  PROVE  LabelInv'
<1>1. C!GotosResolve(program)' <=> C!GotosResolve(program)
  <2>1. C!GotosResolve(program)' <=> C!GotosResolve(program')
    OBVIOUS
  <2> QED BY <2>1
<1>2. (outcome = "emitting" => InOrder(program, calls))'
  OBVIOUS
<1>3. (outcome = "emitting" /\ C!GotosResolve(program) => LabelsAgree)'
  BY <1>1
<1>4. (outcome = "emitted" /\ C!GotosResolve(program) => Assembles)'
  BY <1>1
<1>5. OnlyUserLabelsFailToAssemble'
  BY <1>1 DEF OnlyUserLabelsFailToAssemble
<1> QED BY <1>2, <1>3, <1>4, <1>5 DEF LabelInv

LEMMA EmitKeepsLabels ==
  ASSUME LabelInv, EmitStep, NoErrorInv' PROVE LabelInv'
<1>1. Emit /\ program' = program /\ outcome = "emitting"
  BY EmitKeepsProgram DEF EmitStep
<1>2. CASE FinishFunction
  <2>1. outcome' = "emitted"
    BY <1>2 DEF FinishFunction
  <2>2. C!GotosResolve(program) => Assembles'
    BY <1>1, <1>2, FinishedAssembles DEF LabelInv
  <2> QED BY <1>1, <2>1, <2>2, LabelsStayResolved
<1>3. CASE ~FinishFunction
  <2>1. outcome' \in {"emitting", "nesting exceeded"}
    <3>1. NestInv
      BY DEF LabelInv, NoErrorInv
    <3>2. outcome' \in {"emitting", "emitted", "nesting exceeded"}
      BY <1>1, <3>1, EmitKeepsNest
    <3>3. outcome' # "emitted"
      BY <1>1, <1>3 DEF Emit, EmitExpression, EmitReturn, EmitBreak, EmitContinue,
         EmitGoto, EmitLabel, EnterCompound, EmitItem, LeaveCompound, EnterIf, AfterThen,
         AfterElse, EnterWhile, AfterWhileBody, EnterDo, AfterDoBody, EnterFor, ForTest,
         AfterForBody, EnterSwitch, AfterSwitchBody, EmitCase, NestingExceeded, Fail
    <3> QED BY <3>2, <3>3
  <2>2. Ordered
    <3>1. calls # << >>
      BY <1>1, <1>3 DEF Emit, EmitExpression, EmitReturn, EmitBreak, EmitContinue,
         EmitGoto, EmitLabel, EnterCompound, EmitItem, LeaveCompound, EnterIf, AfterThen,
         AfterElse, EnterWhile, AfterWhileBody, EnterDo, AfterDoBody, EnterFor, ForTest,
         AfterForBody, EnterSwitch, AfterSwitchBody, EmitCase, NestingExceeded, TooDeep,
         EmitsExpression, At
    <3> QED BY <1>1, <3>1 DEF LabelInv, NoErrorInv, Ordered, InProgress
  <2>3. outcome' = "emitting" => InOrder(program, calls')
    BY <1>1, <1>3, <2>2, EmitKeepsOrder
  <2>4. outcome' = "emitting" /\ C!GotosResolve(program) => LabelsAgree'
    BY <1>1, <1>3, <2>2, EmitAgrees DEF Agreeing, LabelInv
  <2> QED BY <1>1, <2>1, <2>3, <2>4, LabelsStayResolved
<1> QED BY <1>2, <1>3

LEMMA NextKeepsLabels == LabelInv /\ [Next]_vars => LabelInv'
<1> SUFFICES ASSUME LabelInv, [Next]_vars PROVE LabelInv'
  OBVIOUS
<1>1. NoErrorInv'
  BY NextKeepsNest DEF LabelInv
<1>2. CASE EmitStep
  BY <1>1, <1>2, EmitKeepsLabels
<1>3. CASE Assemble
  <2>1. UNCHANGED <<program, calls, code>> /\ outcome = "emitted"
        /\ outcome' = IF Assembles THEN "running" ELSE "not assembled"
    BY <1>3 DEF Assemble
  <2>2. Assembles => outcome' # "not assembled"
    BY <2>1
  <2>3. C!GotosResolve(program) => Assembles
    BY <2>1 DEF LabelInv
  <2> QED BY <1>1, <2>1, <2>2, <2>3, LabelsStayResolved
<1>4. CASE UNCHANGED vars \/ SourceStep \/ MachineStep \/ \E v \in Values : Evaluate(v)
  <2>1. UNCHANGED <<program, calls, code, next_label_id, targets, outcome>>
    BY <1>4, Zenon DEF vars, emitVars, SourceStep, MachineStep, Evaluate
  <2>2. UNCHANGED <<loop_targets, break_targets, switch_cases>>
    BY <2>1 DEF targets
  <2>3. OwedNow' = OwedNow /\ PromisedNow' = PromisedNow
    BY <2>1, <2>2 DEF OwedNow, PromisedNow
  <2>4. LabelsAgree => LabelsAgree'
    BY <2>1, <2>2, <2>3 DEF LabelsAgree
  <2>5. Assembles => Assembles'
    BY <2>1 DEF Assembles, Definitions
  <2>6. /\ outcome = "emitting" => InOrder(program, calls')
        /\ outcome = "not assembled" => ~C!GotosResolve(program)
    BY <2>1 DEF LabelInv, OnlyUserLabelsFailToAssemble
  <2>7. /\ outcome = "emitting" /\ C!GotosResolve(program) => LabelsAgree'
        /\ outcome = "emitted" /\ C!GotosResolve(program) => Assembles'
    BY <2>4, <2>5 DEF LabelInv
  <2> QED BY <1>1, <2>1, <2>6, <2>7, LabelsStayResolved
<1> QED BY <1>2, <1>3, <1>4 DEF Next

LEMMA InitAgreesWithLabels == InitFunction => LabelInv
<1> SUFFICES ASSUME InitFunction PROVE LabelInv
  OBVIOUS
<1>1. Init /\ outcome = "emitting" /\ program \in Programs /\ calls = <<Entry(<< >>)>>
  BY DEF InitFunction, Init
<1>2. NoErrorInv
  BY <1>1, InitNest DEF NoErrorInv, NoInternalError
<1>3. InOrder(program, calls)
  BY <1>1, EntryCalls, ProgramsAssumption
<1> QED BY <1>1, <1>2, <1>3, InitAgrees DEF LabelInv, OnlyUserLabelsFailToAssemble

\* Every label the generator invents is defined, once, wherever a jump to it was
\* written (fcc_codegen_new_label and the emitters that use it): nothing but a
\* goto without a label, or two labels of one name, is left for NASM to reject.
THEOREM GeneratedLabelsAreDefined == Spec => []OnlyUserLabelsFailToAssemble
<1>1. LabelInv => OnlyUserLabelsFailToAssemble
  BY DEF LabelInv
<1> QED BY <1>1, InitAgreesWithLabels, NextKeepsLabels, PTL DEF Spec
=============================================================================
