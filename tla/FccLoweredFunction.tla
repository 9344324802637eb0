-------------------------- MODULE FccLoweredFunction --------------------------
(***************************************************************************)
(* A function body and the assembly FccStatements makes of it, run side by *)
(* side: the body as C defines it (StatementSemantics), the assembly as    *)
(* NASM assembles it and the processor runs it.  Both ask the same         *)
(* environment for the values of the expressions they evaluate.            *)
(***************************************************************************)
EXTENDS FccStatements

CONSTANTS
  Values,   \* what an expression may evaluate to
  EaxRange  \* how many values the low half of rax tells apart (2^32)

ASSUME ValuesAssumption == EaxRange \in Nat \ {0} /\ Values \subseteq Nat

C == INSTANCE StatementSemantics

VARIABLES
  source,  \* control of the body
  pc,      \* index of the next instruction; 0 before the program is assembled
  rax,
  zero     \* the zero flag

machine == <<pc, rax, zero>>
vars == <<emitVars, source, machine>>

\* Where a label is defined in the assembly.
Definitions(l) ==
  {i \in DOMAIN code : code[i].op = "label" /\ code[i].label = l}
JumpOps == {"jmp", "je", "jne"}
\* NASM wants every label it is asked for defined, and none defined twice.
Assembles ==
  /\ \A i \in DOMAIN code :
       code[i].op \in JumpOps => Definitions(code[i].label) # {}
  /\ \A i, j \in DOMAIN code :
       code[i].op = "label" /\ code[j].op = "label"
         /\ code[i].label = code[j].label => i = j

InitFunction ==
  /\ Init
  /\ source = C!Start
  /\ pc = 0 /\ rax = 0 /\ zero = FALSE

Assemble ==
  /\ outcome = "emitted"
  /\ IF Assembles THEN outcome' = "running" /\ pc' = 1
     ELSE outcome' = "not assembled" /\ UNCHANGED pc
  /\ UNCHANGED <<program, calls, code, next_label_id, targets, recursion_depth,
                 source, rax, zero>>

Running == outcome = "running"
Instruction == code[pc]
SourceAtEvent == Running /\ C!IsEvent(program, source)
MachineAtEvent == Running /\ Instruction.op \in {"eval", "ret"}

\* What the machine is about to do, in the terms of the body.
MachineEvent ==
  IF Instruction.op = "ret"
  THEN [at |-> << >>, role |-> "finished", result |-> rax]
  ELSE [at |-> Instruction.at, role |-> Instruction.role, result |-> 0]

SourceStep ==
  /\ Running /\ ~SourceAtEvent
  /\ source' = C!SilentStep(program, source)
  /\ UNCHANGED <<emitVars, machine>>

Taken ==
  \/ Instruction.op = "jmp"
  \/ Instruction.op = "je" /\ zero
  \/ Instruction.op = "jne" /\ ~zero

\* A compare sees the low half of rax: cmp eax, <constant>.
MachineStep ==
  /\ Running /\ ~MachineAtEvent
  /\ pc' = IF Taken THEN C!The(Definitions(Instruction.label)) ELSE pc + 1
  /\ zero' = IF Instruction.op = "cmp" THEN rax % EaxRange = Instruction.with
             ELSE IF Instruction.op = "xor" THEN TRUE ELSE zero
  /\ rax' = IF Instruction.op = "xor" THEN 0 ELSE rax
  /\ UNCHANGED <<emitVars, source>>

\* Both evaluate an expression, and it has the same value for both.
Evaluate(v) ==
  /\ SourceAtEvent /\ MachineAtEvent
  /\ source.stage # "finished" /\ Instruction.op = "eval"
  /\ source' = C!EventStep(program, source, v)
  /\ pc' = pc + 1 /\ rax' = v
  /\ UNCHANGED <<emitVars, zero>>

EmitStep == Emit /\ UNCHANGED <<source, machine>>

Next == EmitStep \/ Assemble \/ SourceStep \/ MachineStep
          \/ \E v \in Values : Evaluate(v)

\* Compiling and running are sequential programs: neither stops by itself
\* while it has something to do.
Fairness == /\ WF_vars(EmitStep) /\ WF_vars(Assemble)
            /\ WF_vars(SourceStep) /\ WF_vars(MachineStep)
Spec == InitFunction /\ [][Next]_vars /\ Fairness

-----------------------------------------------------------------------------
\* The arrays of targets have MaxDepth slots, and loops and switches nested in
\* each other, which fill break_targets together, never need one more.
TargetArraysSuffice ==
  Len(loop_targets) <= MaxDepth /\ Len(break_targets) <= MaxDepth

\* Only what the program says wrong of its own labels, a goto without a label
\* or two labels of one name, is left for the assembler to reject: the labels
\* the generator invents are all defined, once.
OnlyUserLabelsFailToAssemble ==
  outcome = "not assembled" => ~C!GotosResolve(program)

\* The emitted code evaluates the expressions the body evaluates, in its order,
\* whatever values they have, and returns what it returns.
RunsAsWritten == SourceAtEvent /\ MachineAtEvent => C!Event(source) = MachineEvent

\* Neither side runs on silently while the other waits at an event: every event
\* of the body is one of the code, and the other way round.
EventsAreReached ==
  /\ SourceAtEvent ~> (SourceAtEvent /\ MachineAtEvent)
  /\ MachineAtEvent ~> (SourceAtEvent /\ MachineAtEvent)
=============================================================================
