-------------------------- MODULE FccTranslationUnit --------------------------
(***************************************************************************)
(* From the tokens of a unit to its verdict: fcc_parser_parse_translation_ *)
(* unit reads one external declaration after the other and sorts them into *)
(* three lists; fcc_sema_analyze_translation_unit then goes over the lists *)
(* five times.  readings is no part of the compiler: it holds what the     *)
(* grammar of C makes of the same text, for the properties to compare.     *)
(***************************************************************************)
EXTENDS FccParser, FccScopes, CGrammar

CONSTANT Texts


C == INSTANCE CScopes

VARIABLES text, readings, phase, parser, globals, functions, assertions, next, sema
vars == <<text, readings, phase, parser, globals, functions, assertions, next, sema>>

Init ==
  /\ text \in Texts
  /\ readings = {}
  /\ phase = "start"
  /\ parser = Parser(Append(text, "EOF"))
  /\ globals = << >> /\ functions = << >> /\ assertions = << >>
  /\ next = 1
  /\ sema = Analysis

Start ==
  /\ phase = "start"
  /\ readings' = Readings(text)
  /\ phase' = "parse"
  /\ UNCHANGED <<text, parser, globals, functions, assertions, next, sema>>

\* One round of the loop of parse_translation_unit.
ParseExternal ==
  /\ phase = "parse" /\ Current(parser) # "EOF"
  /\ LET r == Parse(parser, "<external>")
         added(k, list) == IF r.ok /\ r.t.k = k THEN Append(list, r.t) ELSE list
     IN /\ phase' = IF r.ok THEN "parse" ELSE "syntax error"
        /\ parser' = r.p
        /\ globals' = added("declaration", globals)
        /\ functions' = added("function", functions)
        /\ assertions' = added("static assert", assertions)
  /\ UNCHANGED <<text, readings, next, sema>>

\* A unit without declarations is an error.
EndParsing ==
  /\ phase = "parse" /\ Current(parser) = "EOF"
  /\ IF globals \o functions \o assertions = << >>
     THEN phase' = "syntax error" /\ UNCHANGED sema
     ELSE phase' = "declare globals" /\ sema' = PushScope(sema)
  /\ UNCHANGED <<text, readings, parser, globals, functions, assertions, next>>

\* A step of the loop of a phase over a list, and the end of the loop.
Step(loop, list, Visit(_, _), after) ==
  /\ phase = loop
  /\ IF next <= Len(list)
     THEN sema' = Visit(sema, list[next]) /\ next' = next + 1 /\ UNCHANGED phase
     ELSE phase' = after /\ next' = 1 /\ UNCHANGED sema
  /\ UNCHANGED <<text, readings, parser, globals, functions, assertions>>

DeclareGlobals == Step("declare globals", globals, DeclareGlobal, "declare functions")
DeclareFunctions == Step("declare functions", functions, DeclareFunction, "check assertions")
CheckAssertions == Step("check assertions", assertions, CheckAssertion, "check globals")
CheckGlobals == Step("check globals", globals, CheckGlobal, "check functions")
CheckFunctions == Step("check functions", functions, CheckFunction, "end")

End ==
  /\ phase = "end"
  /\ phase' = IF sema.ok THEN "accepted" ELSE "rejected"
  /\ sema' = PopScope(sema)
  /\ UNCHANGED <<text, readings, parser, globals, functions, assertions, next>>

Next ==
  \/ Start \/ ParseExternal \/ EndParsing
  \/ DeclareGlobals \/ DeclareFunctions \/ CheckAssertions \/ CheckGlobals \/ CheckFunctions
  \/ End

Spec == Init /\ [][Next]_vars

-----------------------------------------------------------------------------
Parsed == phase = "declare globals" /\ next = 1
Unit == globals \o functions \o assertions
Split(unit, k) == SelectSeq(unit, LAMBDA t : t.k = k)

\* The readings that are what the parser built.
Agreeing ==
  {unit \in readings : /\ Split(unit, "declaration") = globals
                       /\ Split(unit, "function") = functions
                       /\ Split(unit, "static assert") = assertions}

\* The parser accepts the texts that the grammar derives and builds the tree that
\* C means, also where the same tokens would be a declaration, a cast or an
\* expression depending on what names mean at that place, where an else could
\* belong to two ifs, and for every order of the operators.  What else it accepts
\* takes a typedef name for an object, or goes on taking a name for a typedef
\* name where another declaration hides that.
ReadsAsC ==
  /\ Parsed => \/ Agreeing # {}
               \/ readings = {} /\ C!TakesTypedefForObject(Unit)
               \/ \E unit \in readings \cup {Unit} : C!HidesTypedefName(unit)
  /\ phase = "syntax error" => \A unit \in readings : C!HidesTypedefName(unit)

\* In an accepted unit every name and every tag is bound to the declaration
\* that C's scopes give it, although the analysis declares all globals and all
\* functions before it looks into a body and keeps typedefs past their scope.
NamesMeanAsC ==
  phase = "accepted" =>
    \A unit \in Agreeing : C!IsValid(unit) /\ ~C!Differs(unit) => sema.uses = C!Meanings(unit)

\* A unit is accepted exactly if its names are used as C demands, but for the
\* known differences.
VerdictIsC ==
  phase \in {"accepted", "rejected"} =>
    \A unit \in Agreeing :
      C!Differs(unit) \/ C!RedeclaresObject(unit) \/ (phase = "accepted" <=> C!IsValid(unit))
=============================================================================
