--------------------------- MODULE ScopedEnvironment ---------------------------
(***************************************************************************)
(* What a client of the symbol table relies on: a stack of maps from names *)
(* to bindings.  Entering a block pushes an empty map, leaving it drops    *)
(* the map, a definition changes the innermost map only, and a question is *)
(* answered by the innermost map that knows the name.                      *)
(***************************************************************************)
EXTENDS Integers, Sequences

CONSTANTS Names, Types

VARIABLES
  env,    \* the maps, outermost first
  reply   \* the last answer: the empty set, or the set of the one binding

Depth == Len(env)

Bindings == [type_id : Types, has_body : BOOLEAN]

\* m with n bound to b.
Bound(m, n, b) ==
  [x \in DOMAIN m \cup {n} |-> IF x = n THEN b ELSE m[x]]

Knows(n) == {i \in 1..Depth : n \in DOMAIN env[i]}

Init == env = << >> /\ reply = {}

Enter == env' = Append(env, [x \in {} |-> x]) /\ UNCHANGED reply

Leave ==
  /\ Depth > 0
  /\ env' = SubSeq(env, 1, Depth - 1)
  /\ UNCHANGED reply

Bind(n, b) ==
  /\ Depth > 0
  /\ env' = [env EXCEPT ![Depth] = Bound(env[Depth], n, b)]
  /\ UNCHANGED reply

Ask(n) ==
  /\ reply' = {env[i][n] : i \in {k \in Knows(n) : \A j \in Knows(n) : j <= k}}
  /\ UNCHANGED env

AskInnermost(n) ==
  /\ Depth > 0
  /\ reply' = {env[i][n] : i \in Knows(n) \cap {Depth}}
  /\ UNCHANGED env

Forget == env' = << >> /\ UNCHANGED reply

Next ==
  \/ Enter \/ Leave \/ Forget
  \/ \E n \in Names : Ask(n) \/ AskInnermost(n) \/ \E b \in Bindings : Bind(n, b)

Spec == Init /\ [][Next]_<<env, reply>>
=============================================================================
