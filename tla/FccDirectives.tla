---------------------------- MODULE FccDirectives ----------------------------
(***************************************************************************)
(* #define, #undef and the expression of an #if (fcc_preprocessor.c), from *)
(* their characters.  A program is a sequence of definitions and what they *)
(* are for: a line to be replaced, or the expression of an #if.  An error  *)
(* in a definition is reported, and the next directive is read.            *)
(*                                                                         *)
(* Left out: the limit of the length of names, and the built-in macros.    *)
(***************************************************************************)
EXTENDS FccMacroExpansion

CONSTANT Programs \* the programs of this instance

VARIABLES
  program,   \* [directives, use]: each a directive with its text
  directive, \* the directive to be read next
  reports,   \* errors reported
  condition  \* expression_value, when evaluated

directiveVars == <<program, directive, reports, condition>>

(***************************************************************************)
(* process_define.  A result is the macro and its name, if the definition  *)
(* is well-formed.                                                         *)
(***************************************************************************)
NameAt(s, i) == SubSeq(s, i, NameEnd(s, i) - 1)

\* The parameters read so far, and where the reading goes on.
Parameters(names, variadic, next) == {[names |-> names, variadic |-> variadic, next |-> next]}

ParameterRefused(names, name) == name \in ToSet(names) \/ Len(names) >= MaxArguments

\* parse_define_parameters, at a parameter or "..."
RECURSIVE ParametersFrom(_, _, _)
ParametersFrom(s, i, names) ==
  LET name == NameAt(s, i)
      behind == SkipSpace(s, NameEnd(s, i))
      next == SkipSpace(s, behind + 1)
      close == SkipSpace(s, i + 3)
  IN CASE Stands(s, i, <<".", ".", ".">>) ->
            IF Stands(s, close, <<")">>) THEN Parameters(names, TRUE, close + 1) ELSE {}
       [] i > Len(s) \/ ~StartsName(s[i]) -> {}
       [] OTHER ->
            IF ParameterRefused(names, name) \/ behind > Len(s) THEN {}
            ELSE IF s[behind] = "," /\ ~Stands(s, next, <<")">>)
              THEN ParametersFrom(s, next, Append(names, name))
            ELSE IF s[behind] = ")" THEN Parameters(Append(names, name), FALSE, behind + 1)
            ELSE {}

ParameterList(s, open) ==
  LET first == SkipSpace(s, open + 1)
  IN IF Stands(s, first, <<")">>) THEN Parameters(<< >>, FALSE, first + 1)
     ELSE ParametersFrom(s, first, << >>)

DefinitionRead(s) ==
  LET i == SkipSpace(s, 1)
      end == NameEnd(s, i)
  IN IF i > Len(s) \/ ~StartsName(s[i]) THEN {}
     ELSE IF Stands(s, end, <<"(">>)
       THEN {[name |-> NameAt(s, i),
              macro |-> Macro(TRUE, list.names, list.variadic, Trim(From(s, list.next)))] :
               list \in ParameterList(s, end)}
     ELSE {[name |-> NameAt(s, i), macro |-> Macro(FALSE, << >>, FALSE, Trim(From(s, end)))]}

\* process_undef
UndefinitionRead(s) ==
  LET i == SkipSpace(s, 1)
  IN IF i > Len(s) \/ ~StartsName(s[i]) THEN {}
     ELSE {name \in {NameAt(s, i)} : SkipSpace(s, NameEnd(s, i)) = Len(s) + 1}

(***************************************************************************)
(* evaluate_if_expression.  A function of the descent reads from position  *)
(* i on; its result is the value, where it ends, and the error.  "crash":  *)
(* the division traps.                                                     *)
(***************************************************************************)
Read(v, next) == [value |-> v, next |-> next, error |-> "none"]
Unread(error) == [value |-> 0, next |-> 1, error |-> error]

\* What int64_t holds of a result.  To overflow is undefined, and wraps.
Wrap(v) == ((v - MinWord) % 2 ^ WordBits) + MinWord

\* The digits at i: their value, whether there are any, and where they end.
Base(s, i) ==
  IF Stands(s, i, <<"0", "x">>) \/ Stands(s, i, <<"0", "X">>) THEN 16
  ELSE IF Stands(s, i, <<"0">>) THEN 8 ELSE 10
DigitsFrom(s, first, base) ==
  LET end == FirstFrom(s, first, LAMBDA j : ~IsDigit(s[j], base))
  IN [value |-> ValueOfDigits(SubSeq(s, first, end - 1), base), any |-> end > first,
      next |-> FirstFrom(s, end, LAMBDA j : s[j] \notin {"u", "U", "l", "L"})]
DigitsOfBase(s, i, base) == DigitsFrom(s, IF base = 16 THEN i + 2 ELSE i, base)
DigitsAt(s, i) == DigitsOfBase(s, i, Base(s, i))

\* parse_pp_number
Number(s, i) ==
  LET digits == DigitsAt(s, i)
  IN IF ~digits.any \/ digits.value > MaxWord THEN Unread("error")
     ELSE Read(digits.value, digits.next)

\* parse_replacement_integer: a sign, then a number, and nothing else.
ReplacementInteger(body) ==
  LET s == Trim(body)
      signed == Stands(s, 1, <<"+">>) \/ Stands(s, 1, <<"-">>)
      negative == Stands(s, 1, <<"-">>)
      digits == DigitsAt(s, IF signed THEN 2 ELSE 1)
  IN IF /\ digits.any /\ digits.next = Len(s) + 1
        /\ digits.value <= (IF negative THEN MaxWord + 1 ELSE MaxWord)
     THEN {IF negative THEN -digits.value ELSE digits.value} ELSE {}

\* A name that is no macro, or none that is an integer, is 0.
ValueOfName(table, name) ==
  LET values == IF name \in DOMAIN table /\ ~table[name].function
                THEN ReplacementInteger(table[name].body) ELSE {}
  IN IF values = {} THEN 0 ELSE CHOOSE v \in values : TRUE

\* parse_pp_defined, behind the word
DefinedAt(table, s, i) ==
  LET parenthesized == Stands(s, i, <<"(">>)
      j == IF parenthesized THEN SkipSpace(s, i + 1) ELSE i
      close == SkipSpace(s, NameEnd(s, j))
  IN IF j > Len(s) \/ ~StartsName(s[j])
        \/ (parenthesized /\ ~Stands(s, close, <<")">>))
     THEN Unread("error")
     ELSE Read(Truth(NameAt(s, j) \in DOMAIN table),
               IF parenthesized THEN close + 1 ELSE NameEnd(s, j))

\* The binary operators, from the ones that bind least, in the order they are tried.
Ladder ==
  << <<<<"|", "|">>>>, <<<<"&", "&">>>>, <<<<"|">>>>, <<<<"^">>>>, <<<<"&">>>>,
     <<<<"=", "=">>, <<"!", "=">>>>, <<<<"<", "=">>, <<">", "=">>, <<"<">>, <<">">>>>,
     <<<<"<", "<">>, <<">", ">">>>>, <<<<"+">>, <<"-">>>>, <<<<"*">>, <<"/">>, <<"%">>>> >>

\* Mistaken form: && is taken for an & before another.
OperatorsAtFirst(s, n, i) == SelectSeq(Ladder[n], LAMBDA op : Stands(s, i, op))

\* The operators of level n that match at i: | and & are none before another.
OperatorsAt(s, n, i) ==
  SelectSeq(Ladder[n], LAMBDA op :
    /\ Stands(s, i, op)
    /\ n \in {3, 5} => ~Stands(s, i, op \o op))

Divided(l, r, v) ==
  IF r = 0 THEN Unread("error") ELSE IF l = MinWord /\ r = -1 THEN Unread("crash") ELSE Read(v, 1)

\* A shift by 63 or more is an error.
ShiftRefused(count) == count < 0 \/ count >= WordBits - 1

Calculated(op, l, r) ==
  CASE op = <<"|", "|">> -> Read(Truth(l # 0 \/ r # 0), 1)
    [] op = <<"&", "&">> -> Read(Truth(l # 0 /\ r # 0), 1)
    [] op = <<"|">> -> Read(FromPattern(Pattern(l) | Pattern(r)), 1)
    [] op = <<"^">> -> Read(FromPattern(Pattern(l) ^^ Pattern(r)), 1)
    [] op = <<"&">> -> Read(FromPattern(Pattern(l) & Pattern(r)), 1)
    [] op = <<"=", "=">> -> Read(Truth(l = r), 1)
    [] op = <<"!", "=">> -> Read(Truth(l # r), 1)
    [] op = <<"<">> -> Read(Truth(l < r), 1)
    [] op = <<">">> -> Read(Truth(l > r), 1)
    [] op = <<"<", "=">> -> Read(Truth(l <= r), 1)
    [] op = <<">", "=">> -> Read(Truth(l >= r), 1)
    [] op \in {<<"<", "<">>, <<">", ">">>} ->
         IF ShiftRefused(r) THEN Unread("error")
         ELSE Read(IF op = <<"<", "<">> THEN Wrap(l * 2 ^ r) ELSE l \div 2 ^ r, 1)
    [] op = <<"+">> -> Read(Wrap(l + r), 1)
    [] op = <<"-">> -> Read(Wrap(l - r), 1)
    [] op = <<"*">> -> Read(Wrap(l * r), 1)
    [] op = <<"/">> -> Divided(l, r, Quotient(l, r))
    [] op = <<"%">> -> Divided(l, r, Remainder(l, r))

\* The unary operators, of what was read behind them.
Prefixed(op, r) ==
  IF r.error # "none" \/ op = "+" THEN r
  ELSE
  CASE op = "-" -> IF r.value = MinWord THEN Unread("error") ELSE Read(-r.value, r.next)
    [] op = "!" -> Read(Truth(r.value = 0), r.next)
    [] op = "~" -> Read(-r.value - 1, r.next)

\* What stands in parentheses, read behind the first.
Parenthesized(s, r) ==
  LET close == SkipSpace(s, r.next)
  IN IF r.error # "none" THEN r
     ELSE IF Stands(s, close, <<")">>) THEN Read(r.value, close + 1) ELSE Unread("error")

\* A number or a name at i.
OperandAt(table, s, i) ==
  CASE i > Len(s) -> Unread("error")
    [] i <= Len(s) /\ s[i] \in Digits -> Number(s, i)
    [] i <= Len(s) /\ StartsName(s[i]) ->
         IF NameAt(s, i) = <<"defined">> THEN DefinedAt(table, s, SkipSpace(s, NameEnd(s, i)))
         ELSE Read(ValueOfName(table, NameAt(s, i)), NameEnd(s, i))
    [] OTHER -> Unread("error")

\* The operators of level n and above, from i on; behind the last level the
\* operand, with the operators in front of it.
RECURSIVE Parsed(_, _, _, _)
RECURSIVE Continued(_, _, _, _)
ParsedUnary(table, s, n, i) ==
  IF i <= Len(s) /\ s[i] \in {"+", "-", "!", "~"} THEN Prefixed(s[i], Parsed(table, s, n, i + 1))
  ELSE IF Stands(s, i, <<"(">>) THEN Parenthesized(s, Parsed(table, s, 1, i + 1))
  ELSE OperandAt(table, s, i)

Parsed(table, s, n, i) ==
  IF n <= Len(Ladder) THEN Continued(table, s, n, Parsed(table, s, n + 1, i))
  ELSE ParsedUnary(table, s, n, SkipSpace(s, i))

\* The result so far with a right operand.
Combined(op, left, right) ==
  IF right.error # "none" THEN right
  ELSE [Calculated(op, left.value, right.value) EXCEPT !.next = right.next]

\* left: what was read up to i, where operators of level n match or none.
ContinuedAt(table, s, n, left, i, ops) ==
  IF ops = << >> THEN [left EXCEPT !.next = i]
  ELSE Continued(table, s, n, Combined(ops[1], left, Parsed(table, s, n + 1, i + Len(ops[1]))))

OperatorFollows(table, s, n, left, i) == ContinuedAt(table, s, n, left, i, OperatorsAt(s, n, i))

Continued(table, s, n, left) ==
  IF left.error # "none" THEN left
  ELSE OperatorFollows(table, s, n, left, SkipSpace(s, left.next))

\* Nothing may follow the expression.
ConditionRead(table, s) ==
  LET r == Parsed(table, s, 1, 1)
  IN IF r.error = "none" /\ SkipSpace(s, r.next) <= Len(s) THEN Unread("error") ELSE r

-----------------------------------------------------------------------------
DirectivesInit ==
  /\ program \in Programs
  /\ directive = 1 /\ reports = 0 /\ condition = 0
  /\ macros = NoMacros /\ buffer = Buffer(<< >>) /\ copies = 0 /\ status = "defining"

Current == program.directives[directive]
AtDirective(kind) ==
  /\ status = "defining" /\ directive <= Len(program.directives)
  /\ Current.directive = kind
  /\ directive' = directive + 1
  /\ UNCHANGED <<program, condition, buffer, copies, status>>

Define ==
  /\ AtDirective("define")
  /\ \E d \in DefinitionRead(Current.text) : macros' = With(macros, d)
  /\ UNCHANGED reports

Undefine ==
  /\ AtDirective("undef")
  /\ \E name \in UndefinitionRead(Current.text) : macros' = Restrict(macros, DOMAIN macros \ {name})
  /\ UNCHANGED reports

\* A directive that is not well-formed is reported, and has no effect.
Refuse ==
  /\ \/ AtDirective("define") /\ DefinitionRead(Current.text) = {}
     \/ AtDirective("undef") /\ UndefinitionRead(Current.text) = {}
  /\ reports' = reports + 1
  /\ UNCHANGED macros

AtUse(kind) ==
  /\ status = "defining" /\ directive > Len(program.directives)
  /\ program.use.directive = kind
  /\ UNCHANGED <<program, directive, macros, copies>>

BeginLine ==
  /\ AtUse("line")
  /\ buffer' = Buffer(program.use.text)
  /\ status' = "expanding"
  /\ UNCHANGED <<reports, condition>>

Evaluate ==
  /\ AtUse("if")
  /\ \E r \in {ConditionRead(macros, program.use.text)} :
       /\ status' = CASE r.error = "none" -> "evaluated"
                      [] r.error = "error" -> "refused"
                      [] r.error = "crash" -> "crashed"
       /\ condition' = r.value
       /\ reports' = reports + Truth(r.error = "error")
  /\ UNCHANGED buffer

DirectivesNext ==
  \/ Define \/ Undefine \/ Refuse
  \/ BeginLine \/ Evaluate
  \/ ExpandLine /\ UNCHANGED directiveVars
=============================================================================
