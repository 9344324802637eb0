-------------------------- MODULE FccMacroExpansion --------------------------
(***************************************************************************)
(* Macro replacement in one line of text (fcc_preprocessor.c, from         *)
(* emit_expanded_line down).  The line is copied into a buffer, macros     *)
(* replaced, and the buffer copied again, until a copy replaces nothing.   *)
(*                                                                         *)
(* A buffer is a text and its unavailable tokens: the places <<begin,      *)
(* end>> of names that were met while their own macro was being replaced,  *)
(* which no later copy may replace.                                        *)
(***************************************************************************)
EXTENDS CPreprocessing

CONSTANTS
  RescanLimit,  \* FCC_MAX_PREPROCESS_DEPTH, as the number of copies
  NestingLimit, \* the same limit, as the slots of disabled_macros
  MaxArguments  \* FCC_MAX_FUNCTION_PARAMETERS

ASSUME LimitsAssumption ==
  /\ RescanLimit \in Nat \ {0}
  /\ NestingLimit \in Nat \ {0}
  /\ MaxArguments \in Nat \ {0}

VARIABLES
  macros,  \* name -> macro: the macros defined
  buffer,  \* what the last copy left
  copies,  \* rescan_depth: the copies made
  status   \* "expanding", "written", "malformed", "too deep"

expansionVars == <<macros, buffer, copies, status>>

\* FccPreprocessorMacro
Macro(function, params, variadic, body) ==
  [function |-> function, params |-> params, variadic |-> variadic, body |-> body]

(***************************************************************************)
(* Buffers.                                                                *)
(***************************************************************************)
Buffer(s) == [text |-> s, unavailable |-> {}]

\* buffer_append_range: the range [from, end) with the tokens inside it.
Slice(b, from, end) ==
  [text |-> SubSeq(b.text, from, end - 1),
   unavailable |-> {<<m[1] - from + 1, m[2] - from + 1>> :
                      m \in {m \in b.unavailable : from <= m[1] /\ m[2] <= end}}]

\* Appending to a buffer moves the tokens of what is appended.
Then(a, b) ==
  [text |-> a.text \o b.text,
   unavailable |-> a.unavailable \cup
     {<<m[1] + Len(a.text), m[2] + Len(a.text)>> : m \in b.unavailable}]

\* Mistaken form: the name is not marked.
Unmarked(b) == b

\* buffer_mark_unavailable, of a buffer that holds one name
Marked(b) == [b EXCEPT !.unavailable = {<<1, Len(b.text) + 1>>}]

(***************************************************************************)
(* The arguments of an invocation whose "(" is at open.                    *)
(***************************************************************************)

\* Behind the comment at i: without an end it leaves the last symbol of the text.
ArgumentCommentEnd(s, i) ==
  LET end == FirstFrom(s, i + 2, LAMBDA j : Stands(s, j, <<"*", "/">>))
  IN IF end <= Len(s) THEN end + 2 ELSE IF i + 2 > Len(s) THEN i + 2 ELSE Len(s)

\* Positions from i on that are not part of a literal or of a comment.
RECURSIVE Plain(_, _)
Plain(s, i) ==
  CASE i > Len(s) -> {}
    [] i <= Len(s) /\ s[i] \in Quotes -> Plain(s, LiteralEnd(s, i))
    [] Stands(s, i, <<"/", "*">>) -> Plain(s, ArgumentCommentEnd(s, i))
    [] OTHER -> {i} \cup Plain(s, i + 1)

Depth(s, open, k) ==
  LET before(x) == {j \in Plain(s, open) : j <= k /\ s[j] = x}
  IN Cardinality(before("(")) - Cardinality(before(")"))

\* The closing parenthesis; nothing if the text ends before it.
Closers(s, open) ==
  LET at0 == {k \in Plain(s, open) : s[k] = ")" /\ Depth(s, open, k) = 0}
  IN {k \in at0 : \A j \in at0 : k <= j}

\* Mistaken form: a comma inside parentheses separates arguments, too.
EveryComma(s, open, close) ==
  {k \in Plain(s, open) : k < close /\ s[k] = ","}

Commas(s, open, close) ==
  {k \in Plain(s, open) : k < close /\ s[k] = "," /\ Depth(s, open, k) = 1}

\* parse_macro_invocation_arguments: the arguments as written, trimmed.  Empty
\* parentheses hold one empty argument only if the macro has one parameter.
Arguments(macro, s, open, close) ==
  LET cuts == SetToSortSeq({open, close} \cup Commas(s, open, close), <)
  IN IF SkipSpace(s, open + 1) = close /\ Len(macro.params) # 1 THEN << >>
     ELSE [i \in 1 .. Len(cuts) - 1 |-> Trim(SubSeq(s, cuts[i] + 1, cuts[i + 1] - 1))]

CountMatches(macro, args) ==
  /\ Len(args) <= MaxArguments
  /\ IF macro.variadic THEN Len(args) >= Len(macro.params)
     ELSE Len(args) = Len(macro.params)

\* join_variadic_macro_arguments
Joined(macro, args) ==
  FoldLeft(LAMBDA joined, i :
             joined \o (IF i = Len(macro.params) + 1 THEN << >> ELSE <<",", Space>>) \o args[i],
           << >>, [i \in 1 .. Len(args) - Len(macro.params) |-> Len(macro.params) + i])

\* What a name of the replacement is replaced by: {} if it is no parameter.
Substitutes(macro, args, name) ==
  LET named == ArgumentsNamed(macro, args, name)
  IN IF named = {} /\ macro.variadic /\ name = VaArgs THEN {Joined(macro, args)}
     ELSE named

\* write_stringized_argument: inner runs of spaces become one; quotes and
\* backslashes are escaped wherever they stand.
Stringized(arg) ==
  LET s == Trim(arg)
      Put(out, i) ==
        CASE s[i] = Space /\ s[i - 1] = Space -> out
          [] s[i] \in {"\"", Backslash} -> out \o <<Backslash, s[i]>>
          [] OTHER -> Append(out, s[i])
  IN <<"\"">> \o FoldLeft(Put, << >>, [i \in 1..Len(s) |-> i]) \o <<"\"">>

(***************************************************************************)
(* build_function_macro_replacement: what each item of the replacement is  *)
(* turned into, and where the next one starts.  Around ## the spaces go; a *)
(* # in front of a parameter makes a string of its argument; any other     *)
(* parameter is replaced by the argument as written.                       *)
(***************************************************************************)
Paste == <<"#", "#">>
ReplacementItem(macro, args, i) ==
  LET s == macro.body
      gap == SkipSpace(s, i)
      operand == IF s[i] = "#" THEN SkipSpace(s, i + 1) ELSE i
      StandsForName == operand <= Len(s) /\ StartsName(s[operand])
      name == SubSeq(s, operand, NameEnd(s, operand) - 1)
      found == IF StandsForName THEN Substitutes(macro, args, name) ELSE {}
  IN CASE s[i] = Space /\ Stands(s, gap, Paste) -> << << >>, gap>>
       [] Stands(s, i, Paste) -> << << >>, SkipSpace(s, i + 2)>>
       [] s[i] \in Quotes -> <<SubSeq(s, i, LiteralEnd(s, i) - 1), LiteralEnd(s, i)>>
       [] found # {} ->
            LET arg == CHOOSE a \in found : TRUE
            IN <<IF s[i] = "#" THEN Stringized(arg) ELSE arg, NameEnd(s, operand)>>
       [] StandsForName /\ operand = i /\ found = {} -> <<name, NameEnd(s, i)>>
       [] OTHER -> <<<<s[i]>>, i + 1>>

RECURSIVE Replacement(_, _, _)
Replacement(macro, args, i) ==
  IF i > Len(macro.body) THEN << >>
  ELSE LET item == ReplacementItem(macro, args, i)
       IN item[1] \o Replacement(macro, args, item[2])

(***************************************************************************)
(* expand_text_once, from position i of buffer b, with the macros of       *)
(* disabled being replaced around it.  A result is the text put out,       *)
(* whether a macro was replaced, and what was wrong, if anything.          *)
(***************************************************************************)
Copied(b) == [out |-> b, expanded |-> FALSE, error |-> "none"]
Failed(error) == [out |-> Buffer(<< >>), expanded |-> FALSE, error |-> error]

\* The end of the symbol, name, string or comment that starts at i.  A comment
\* of either kind takes the rest of the text.
ItemEnd(s, i) ==
  CASE Stands(s, i, <<"/", "/">>) \/ Stands(s, i, <<"/", "*">>) -> Len(s) + 1
    [] s[i] \in Quotes -> LiteralEnd(s, i)
    [] StartsName(s[i]) -> NameEnd(s, i)
    [] OTHER -> i + 1

RECURSIVE ExpandText(_, _, _, _)

\* push_disabled_macro, and the replacement expanded with that macro disabled.
ExpandReplacement(table, name, replacement, disabled) ==
  IF Cardinality(disabled) >= NestingLimit THEN Failed("too deep")
  ELSE [ExpandText(table, Buffer(replacement), 1, disabled \cup {name})
          EXCEPT !.expanded = TRUE]

\* The replacement of the macro called name, whose arguments, if it takes any,
\* stand between open and close; {} if their number is wrong.
ReplacementsOf(macro, s, open, close) ==
  IF ~macro.function THEN {macro.body}
  ELSE {Replacement(macro, args, 1) :
          args \in {a \in {Arguments(macro, s, open, close)} : CountMatches(macro, a)}}

\* Where the item ends whose macro is replaced: with its name, or with the
\* parenthesis that closes its arguments.
ReplacedTo(macro, s, end, open) == IF macro.function THEN Closers(s, open) ELSE {end - 1}

\* The replacements, each with its last position: {} if the text is malformed.
Replacements(macro, s, end, open) ==
  UNION {ReplacementsOf(macro, s, open, last) \X {last} :
           last \in ReplacedTo(macro, s, end, open)}

\* What is put out for the name between i and end, and where the rest starts.
ExpandName(table, b, i, end, name, disabled) ==
  LET open == SkipSpace(b.text, end)
      called == open <= Len(b.text) /\ b.text[open] = "("
      results == {<<ExpandReplacement(table, name, r[1], disabled), r[2] + 1>> :
                    r \in Replacements(table[name], b.text, end, open)}
  IN IF \/ name \notin DOMAIN table
        \/ <<i, end>> \in b.unavailable
        \/ name \notin disabled /\ table[name].function /\ ~called
       THEN <<Copied(Slice(b, i, end)), end>>
     ELSE IF name \in disabled THEN <<Copied(Marked(Buffer(name))), end>>
     ELSE IF results = {} THEN <<Failed("malformed"), end>>
     ELSE CHOOSE r \in results : TRUE

ExpandItem(table, b, i, end, disabled) ==
  IF StartsName(b.text[i])
    THEN ExpandName(table, b, i, end, SubSeq(b.text, i, end - 1), disabled)
  ELSE <<Copied(Slice(b, i, end)), end>>

\* What an item and the rest of the text are turned into; the first error ends it.
Both(item, rest) ==
  IF item.error # "none" THEN item
  ELSE IF rest.error # "none" THEN rest
  ELSE [out |-> Then(item.out, rest.out),
        expanded |-> item.expanded \/ rest.expanded,
        error |-> "none"]

ThenRest(table, b, item, disabled) ==
  Both(item[1], ExpandText(table, b, item[2], disabled))

ExpandText(table, b, i, disabled) ==
  IF i > Len(b.text) THEN Copied(Buffer(<< >>))
  ELSE ThenRest(table, b, ExpandItem(table, b, i, ItemEnd(b.text, i), disabled), disabled)

(***************************************************************************)
(* emit_expanded_line: one copy of the buffer is one step.                 *)
(***************************************************************************)
NextCopy == ExpandText(macros, buffer, 1, {})

\* A copy that replaced something and changed the text is copied again.
\* Any other is the line of the output.
Rescan(copy) ==
  /\ copy.error = "none" /\ copy.expanded /\ copy.out.text # buffer.text
  /\ buffer' = copy.out
  /\ copies' = copies + 1
  /\ UNCHANGED <<macros, status>>

Write(copy) ==
  /\ copy.error = "none" /\ (~copy.expanded \/ copy.out.text = buffer.text)
  /\ buffer' = copy.out
  /\ status' = "written"
  /\ UNCHANGED <<macros, copies>>

\* An argument list is wrong, or replacements nest too deeply.
Report(copy) ==
  /\ copy.error # "none"
  /\ status' = copy.error
  /\ UNCHANGED <<macros, buffer, copies>>

CopyLine ==
  /\ status = "expanding" /\ copies < RescanLimit
  /\ \E copy \in {NextCopy} : Rescan(copy) \/ Write(copy) \/ Report(copy)

\* The fatal error after the last copy allowed.
GiveUp ==
  /\ status = "expanding" /\ copies = RescanLimit
  /\ status' = "too deep"
  /\ UNCHANGED <<macros, buffer, copies>>

ExpandLine == CopyLine \/ GiveUp
=============================================================================
