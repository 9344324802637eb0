---------------------------- MODULE FccStatements ----------------------------
(***************************************************************************)
(* How fcc_codegen.c lowers the statements of one function to labels,      *)
(* compares and jumps.                                                     *)
(*                                                                         *)
(* The recursion of the fcc_codegen_emit_* functions is explicit: calls is *)
(* the stack of the calls in progress, each with the statement it emits,   *)
(* where it is in its work and the locals it still needs.  Around them are *)
(* the fields of FccCodegenFunction that statements read and write: the    *)
(* label counter, the jump targets of the enclosing loops and switches,    *)
(* the cases of the switch being emitted and the recursion depth.          *)
(* Expressions emit one opaque "eval", which leaves a value in rax.        *)
(***************************************************************************)
EXTENDS FccStatementTree

CONSTANTS
  Programs,  \* function bodies to compile
  MaxDepth   \* FCC_MAX_CODEGEN_DEPTH

ASSUME MaxDepthAssumption == MaxDepth \in Nat \ {0}
ASSUME ProgramsAssumption == \A tree \in Programs : WellFormed(tree)

VARIABLES
  program,          \* the body being compiled
  calls,            \* the emit calls in progress, innermost last
  code,             \* the assembly text written so far
  next_label_id,
  loop_targets,     \* break and continue labels of the enclosing loops
  break_targets,    \* break labels of the enclosing loops and switches
  switch_cases,     \* the case labels of the innermost enclosing switch
  recursion_depth,
  outcome           \* "emitting", "emitted", or what the emitter fails with

targets == <<loop_targets, break_targets, switch_cases>>
emitVars == <<program, calls, code, next_label_id, targets, recursion_depth,
              outcome>>

\* .L<n> and .Luser_<name> are different labels of the assembly.
Local(n) == <<"L", n>>
User(name) == <<"user", name>>
ReturnLabel == Local(0)

Label(l) == <<[op |-> "label", label |-> l]>>
Jump(op, l) == <<[op |-> op, label |-> l]>>
Eval(p, role) == <<[op |-> "eval", at |-> p, role |-> role]>>
CmpEax(v) == <<[op |-> "cmp", with |-> v]>>
XorEax == <<[op |-> "xor"]>>
Ret == <<[op |-> "ret"]>>

Entry(p) == [at |-> p, step |-> "enter", next |-> 1, labels |-> << >>,
             saved |-> {}]

Init ==
  /\ program \in {tree \in Programs : SemaAccepts(tree)}
  /\ calls = <<Entry(<< >>)>>
  /\ code = << >>
  /\ next_label_id = 1
  /\ loop_targets = << >> /\ break_targets = << >> /\ switch_cases = {}
  /\ recursion_depth = 0
  /\ outcome = "emitting"

Call == Last(calls)
Node == program[Call.at]
At(kind, step) ==
  /\ outcome = "emitting" /\ calls # << >>
  /\ Node.kind = kind /\ Call.step = step

\* The running call goes on to step, and first emits the statement at p.
Emitting(call, p) == calls' = Front(calls) \o <<call, Entry(p)>>
Return == calls' = Front(calls)
Write(text) == code' = code \o text

\* The n-th label allocated from here on.
New(n) == Local(next_label_id + n - 1)
Allocate(n) == next_label_id' = next_label_id + n

\* Emitting an expression takes one level of recursion and gives it back.
CanNest == recursion_depth < MaxDepth
CanPushBreak == Len(break_targets) < MaxDepth
\* Mistaken form: a loop's break target needs no room of its own.
CanPushLoopOnly == Len(loop_targets) < MaxDepth

CanPushLoop == Len(loop_targets) < MaxDepth /\ CanPushBreak

PushLoop(break, continue) ==
  /\ loop_targets' = Append(loop_targets, [break |-> break, continue |-> continue])
  /\ break_targets' = Append(break_targets, break)
PopLoop ==
  /\ loop_targets' = Front(loop_targets)
  /\ break_targets' = Front(break_targets)

Fail(why) ==
  /\ outcome' = why
  /\ calls' = << >>
  /\ UNCHANGED <<program, code, next_label_id, targets, recursion_depth>>

\* The jump every if, while and for makes when its condition is zero.
TestAndSkip(p, l) == Eval(p, "test") \o CmpEax(0) \o Jump("je", l)

-----------------------------------------------------------------------------
EmitExpression ==
  /\ At("expression", "enter")
  /\ Has(program, Call.at, "value") => CanNest
  /\ Write(IF Has(program, Call.at, "value") THEN Eval(Call.at, "value")
           ELSE << >>)
  /\ Return
  /\ UNCHANGED <<program, next_label_id, targets, recursion_depth, outcome>>

EmitReturn ==
  /\ At("return", "enter")
  /\ Has(program, Call.at, "value") => CanNest
  /\ Write((IF Has(program, Call.at, "value") THEN Eval(Call.at, "value")
            ELSE XorEax) \o Jump("jmp", ReturnLabel))
  /\ Return
  /\ UNCHANGED <<program, next_label_id, targets, recursion_depth, outcome>>

EmitBreak ==
  /\ At("break", "enter")
  /\ IF break_targets = << >>
     THEN Fail("internal error")
     ELSE /\ Write(Jump("jmp", Last(break_targets)))
          /\ Return
          /\ UNCHANGED <<program, next_label_id, targets, recursion_depth,
                         outcome>>

EmitContinue ==
  /\ At("continue", "enter")
  /\ IF loop_targets = << >>
     THEN Fail("internal error")
     ELSE /\ Write(Jump("jmp", Last(loop_targets).continue))
          /\ Return
          /\ UNCHANGED <<program, next_label_id, targets, recursion_depth,
                         outcome>>

EmitGoto ==
  /\ At("goto", "enter")
  /\ Write(Jump("jmp", User(Node.arg)))
  /\ Return
  /\ UNCHANGED <<program, next_label_id, targets, recursion_depth, outcome>>

EmitLabel ==
  /\ At("label", "enter")
  /\ Write(Label(User(Node.arg)))
  /\ calls' = Append(Front(calls), Entry(Kid(Call.at, 1)))
  /\ UNCHANGED <<program, next_label_id, targets, recursion_depth, outcome>>

EnterCompound ==
  /\ At("compound", "enter") /\ CanNest
  /\ recursion_depth' = recursion_depth + 1
  /\ calls' = Append(Front(calls), [Call EXCEPT !.step = "items"])
  /\ UNCHANGED <<program, code, next_label_id, targets, outcome>>

EmitItem ==
  /\ At("compound", "items") /\ Call.next <= Node.kids
  /\ Emitting([Call EXCEPT !.next = @ + 1], Kid(Call.at, Call.next))
  /\ UNCHANGED <<program, code, next_label_id, targets, recursion_depth, outcome>>

LeaveCompound ==
  /\ At("compound", "items") /\ Call.next > Node.kids
  /\ recursion_depth' = recursion_depth - 1
  /\ Return
  /\ UNCHANGED <<program, code, next_label_id, targets, outcome>>

-----------------------------------------------------------------------------
EnterIf ==
  /\ At("if", "enter") /\ CanNest
  /\ Allocate(2)
  /\ Write(TestAndSkip(Call.at, New(1)))
  /\ Emitting([Call EXCEPT !.step = "then", !.labels = <<New(1), New(2)>>],
              Kid(Call.at, 1))
  /\ UNCHANGED <<program, targets, recursion_depth, outcome>>

AfterThen ==
  /\ At("if", "then")
  /\ LET skip == Call.labels[1]
         end == Call.labels[2]
     IN IF Node.kids = 2
        THEN /\ Write(Jump("jmp", end) \o Label(skip))
             /\ Emitting([Call EXCEPT !.step = "else"], Kid(Call.at, 2))
        ELSE Write(Label(skip)) /\ Return
  /\ UNCHANGED <<program, next_label_id, targets, recursion_depth, outcome>>

AfterElse ==
  /\ At("if", "else")
  /\ Write(Label(Call.labels[2]))
  /\ Return
  /\ UNCHANGED <<program, next_label_id, targets, recursion_depth, outcome>>

\* Mistaken form: the loop goes back to behind its test.
EnterWhileTestOnce ==
  /\ At("while", "enter") /\ CanNest /\ CanPushLoop
  /\ Allocate(2)
  /\ Write(TestAndSkip(Call.at, New(2)) \o Label(New(1)))
  /\ PushLoop(New(2), New(1))
  /\ Emitting([Call EXCEPT !.step = "body", !.labels = <<New(1), New(2)>>],
              Kid(Call.at, 1))
  /\ UNCHANGED <<program, switch_cases, recursion_depth, outcome>>

EnterWhile ==
  /\ At("while", "enter") /\ CanNest /\ CanPushLoop
  /\ Allocate(2)
  /\ Write(Label(New(1)) \o TestAndSkip(Call.at, New(2)))
  /\ PushLoop(New(2), New(1))
  /\ Emitting([Call EXCEPT !.step = "body", !.labels = <<New(1), New(2)>>],
              Kid(Call.at, 1))
  /\ UNCHANGED <<program, switch_cases, recursion_depth, outcome>>

AfterWhileBody ==
  /\ At("while", "body")
  /\ PopLoop
  /\ Write(Jump("jmp", Call.labels[1]) \o Label(Call.labels[2]))
  /\ Return
  /\ UNCHANGED <<program, next_label_id, switch_cases, recursion_depth, outcome>>

EnterDo ==
  /\ At("do", "enter") /\ CanPushLoop
  /\ Allocate(3)
  /\ Write(Label(New(1)))
  /\ PushLoop(New(3), New(2))
  /\ Emitting([Call EXCEPT !.step = "body",
                           !.labels = <<New(1), New(2), New(3)>>],
              Kid(Call.at, 1))
  /\ UNCHANGED <<program, switch_cases, recursion_depth, outcome>>

AfterDoBody ==
  /\ At("do", "body") /\ CanNest
  /\ PopLoop
  /\ Write(Label(Call.labels[2]) \o Eval(Call.at, "test") \o CmpEax(0)
             \o Jump("jne", Call.labels[1]) \o Label(Call.labels[3]))
  /\ Return
  /\ UNCHANGED <<program, next_label_id, switch_cases, recursion_depth, outcome>>

\* The init statement, if any, is the first child, the body the last.
EnterFor ==
  /\ At("for", "enter")
  /\ LET call == [Call EXCEPT !.step = "test"]
     IN IF Has(program, Call.at, "init")
        THEN Emitting(call, Kid(Call.at, 1))
        ELSE calls' = Append(Front(calls), call)
  /\ UNCHANGED <<program, code, next_label_id, targets, recursion_depth, outcome>>

\* Mistaken form: a continue goes to the condition and skips the update.
ForTestContinuing ==
  /\ At("for", "test") /\ CanPushLoop
  /\ Has(program, Call.at, "test") => CanNest
  /\ Allocate(3)
  /\ Write(Label(New(1))
             \o IF Has(program, Call.at, "test")
                THEN TestAndSkip(Call.at, New(3)) ELSE << >>)
  /\ PushLoop(New(3), New(1))
  /\ Emitting([Call EXCEPT !.step = "body",
                           !.labels = <<New(1), New(2), New(3)>>],
              Kid(Call.at, Node.kids))
  /\ UNCHANGED <<program, switch_cases, recursion_depth, outcome>>

ForTest ==
  /\ At("for", "test") /\ CanPushLoop
  /\ Has(program, Call.at, "test") => CanNest
  /\ Allocate(3)
  /\ Write(Label(New(1))
             \o IF Has(program, Call.at, "test")
                THEN TestAndSkip(Call.at, New(3)) ELSE << >>)
  /\ PushLoop(New(3), New(2))
  /\ Emitting([Call EXCEPT !.step = "body",
                           !.labels = <<New(1), New(2), New(3)>>],
              Kid(Call.at, Node.kids))
  /\ UNCHANGED <<program, switch_cases, recursion_depth, outcome>>

AfterForBody ==
  /\ At("for", "body")
  /\ Has(program, Call.at, "update") => CanNest
  /\ PopLoop
  /\ Write(Label(Call.labels[2])
             \o (IF Has(program, Call.at, "update")
                 THEN Eval(Call.at, "update") ELSE << >>)
             \o Jump("jmp", Call.labels[1]) \o Label(Call.labels[3]))
  /\ Return
  /\ UNCHANGED <<program, next_label_id, switch_cases, recursion_depth, outcome>>

-----------------------------------------------------------------------------
\* Mistaken form: the cases of a nested switch are taken for the outer one's.
LookedIntoEverywhere == Loops \cup {"compound", "case", "default", "if", "label",
                                   "switch"}

\* The statements collect_switch_cases looks into: every one that holds
\* another, but not a switch.
LookedInto == Loops \cup {"compound", "case", "default", "if", "label"}

CaseStatements(s) ==
  {p \in DOMAIN program :
     /\ program[p].kind \in {"case", "default"}
     /\ IsStrictPrefix(s, p)
     /\ \A a \in Ancestors(p) : IsStrictPrefix(s, a) => program[a].kind \in LookedInto}

\* Their labels are numbered in source order.
CollectSwitchCases(s) ==
  LET found == CaseStatements(s)
      before(p) == Cardinality({q \in found : Before(q, p)})
  IN {[statement |-> p, label |-> New(before(p) + 1),
       is_default |-> program[p].kind = "default"] : p \in found}

\* The n-th of some cases in source order.
NthCase(cases, n) ==
  CHOOSE c \in cases : Cardinality({d \in cases : Before(d.statement, c.statement)}) = n - 1

\* One compare and jump for each case in source order, then one to the first
\* default or the end.
Dispatch(cases, end) ==
  LET defaults == {c \in cases : c.is_default}
      compared == cases \ defaults
      compare(c) == CmpEax(program[c.statement].arg) \o Jump("je", c.label)
  IN [i \in 1 .. 2 * Cardinality(compared) |->
        compare(NthCase(compared, (i + 1) \div 2))[2 - (i % 2)]]
       \o Jump("jmp", IF defaults = {} THEN end ELSE NthCase(defaults, 1).label)

EnterSwitch ==
  /\ At("switch", "enter") /\ CanNest /\ CanPushBreak
  /\ LET cases == CollectSwitchCases(Call.at)
         end == New(Cardinality(cases) + 1)
     IN /\ Allocate(Cardinality(cases) + 1)
        /\ Write(Eval(Call.at, "test") \o Dispatch(cases, end))
        /\ switch_cases' = cases
        /\ break_targets' = Append(break_targets, end)
        /\ Emitting([Call EXCEPT !.step = "body", !.labels = <<end>>,
                                 !.saved = switch_cases],
                    Kid(Call.at, 1))
  /\ UNCHANGED <<program, loop_targets, recursion_depth, outcome>>

AfterSwitchBody ==
  /\ At("switch", "body")
  /\ break_targets' = Front(break_targets)
  /\ switch_cases' = Call.saved
  /\ Write(Label(Call.labels[1]))
  /\ Return
  /\ UNCHANGED <<program, next_label_id, loop_targets, recursion_depth, outcome>>

\* A case or default label is one of the innermost switch's, by identity.
EmitCase ==
  /\ At("case", "enter") \/ At("default", "enter")
  /\ LET active == {c \in switch_cases : c.statement = Call.at}
     IN IF active = {}
        THEN Fail("internal error")
        ELSE /\ \E c \in active : Write(Label(c.label))
             /\ calls' = Append(Front(calls), Entry(Kid(Call.at, 1)))
             /\ UNCHANGED <<program, next_label_id, targets, recursion_depth,
                            outcome>>

-----------------------------------------------------------------------------
\* What the running call is about to do that the depth limits can refuse.
EmitsExpression ==
  \/ At("expression", "enter") /\ Has(program, Call.at, "value")
  \/ At("return", "enter") /\ Has(program, Call.at, "value")
  \/ At("if", "enter") \/ At("while", "enter") \/ At("switch", "enter")
  \/ At("do", "body")
  \/ At("for", "test") /\ Has(program, Call.at, "test")
  \/ At("for", "body") /\ Has(program, Call.at, "update")

TooDeep ==
  \/ (EmitsExpression \/ At("compound", "enter")) /\ ~CanNest
  \/ (At("while", "enter") \/ At("do", "enter") \/ At("for", "test"))
       /\ ~CanPushLoop
  \/ At("switch", "enter") /\ ~CanPushBreak

NestingExceeded == TooDeep /\ Fail("nesting exceeded")

\* Falling off the end of the body returns zero.
FinishFunction ==
  /\ outcome = "emitting" /\ calls = << >>
  /\ Write(XorEax \o Label(ReturnLabel) \o Ret)
  /\ outcome' = "emitted"
  /\ UNCHANGED <<program, calls, next_label_id, targets, recursion_depth>>

Emit ==
  \/ EmitExpression \/ EmitReturn \/ EmitBreak \/ EmitContinue \/ EmitGoto
  \/ EmitLabel \/ EnterCompound \/ EmitItem \/ LeaveCompound
  \/ EnterIf \/ AfterThen \/ AfterElse \/ EnterWhile \/ AfterWhileBody
  \/ EnterDo \/ AfterDoBody \/ EnterFor \/ ForTest \/ AfterForBody
  \/ EnterSwitch \/ AfterSwitchBody \/ EmitCase \/ NestingExceeded
  \/ FinishFunction

\* What the semantic analysis accepts never makes the generator report one of
\* its "internal" errors: a break or continue without a target, a case that is
\* not one of the switch being emitted; and with the stack frame (FccFrame) an
\* object for which the first walk left no room or a name that is not found.
NoInternalError == outcome # "internal error"
=============================================================================
