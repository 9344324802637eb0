------------------------------- MODULE MCTypes -------------------------------
(***************************************************************************)
(* Types for TLC: char and int, pointers as large as two ints, one tag and *)
(* none.  31 is SIZE_MAX, so that arrays of a few records do not fit.      *)
(***************************************************************************)
EXTENDS FccTypes

MCBasics == {"char", "int"}
MCBasicSize == [b \in MCBasics |-> IF b = "char" THEN 1 ELSE 4]
MCTags == {"S"}
MCCounts == {0, 3}

\* Functions have nothing to do with arrays, records and enumerations, and these have
\* nothing to do with the members of records.
OneFeature ==
  LET kinds == {types[i].kind : i \in Ids}
  IN /\ parameters = << >> \/ kinds \subseteq {"basic", "pointer", "function"}
     /\ members = << >> \/ "enum" \notin kinds
=============================================================================
