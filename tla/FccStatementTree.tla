--------------------------- MODULE FccStatementTree ---------------------------
(***************************************************************************)
(* The statements of one function body, the tree the parser hands to the   *)
(* semantic analysis and to the code generator (FccAstStatement).          *)
(*                                                                         *)
(* A body is a function from positions to nodes: the root is << >>, the    *)
(* i-th statement inside the one at p is at Append(p, i).  A position is   *)
(* a statement's identity, as its address is in the code.  What a node     *)
(* carries besides its children is its arg: the constant of a case, the    *)
(* name of a goto or a label, and for the others the set of its optional   *)
(* parts that are present.  Expressions are not modelled: "value" says     *)
(* that an expression statement, an initialised declaration or a return    *)
(* evaluates one.                                                          *)
(***************************************************************************)
EXTENDS Naturals, Sequences, SequencesExt

Loops == {"while", "do", "for"}
LeafKinds == {"expression", "return", "break", "continue", "goto"}
Kinds == Loops \cup LeafKinds
           \cup {"compound", "if", "switch", "case", "default", "label"}

Kid(p, i) == Append(p, i)
Parent(p) == Front(p)
Ancestors(p) == {SubSeq(p, 1, n) : n \in 0 .. Len(p) - 1}

Has(tree, p, part) == part \in tree[p].arg

\* The innermost statement around p of one of the given kinds; {} if none.
Innermost(tree, p, kinds) ==
  {a \in Ancestors(p) :
     /\ tree[a].kind \in kinds
     /\ \A b \in Ancestors(p) : tree[b].kind \in kinds => Len(b) <= Len(a)}

\* The statements inside of a statement are there, as many as its kind has, and no
\* others; the init statement of a for is an expression or a declaration.
WellFormed(tree) ==
  /\ << >> \in DOMAIN tree /\ DOMAIN tree \subseteq Seq(Nat)
  /\ IsFiniteSet(DOMAIN tree)
  /\ tree[<< >>].kind = "compound"
  /\ \A p \in DOMAIN tree :
       /\ tree[p].kind \in Kinds /\ tree[p].kids \in Nat
       /\ \A i \in 1..tree[p].kids : Kid(p, i) \in DOMAIN tree
       /\ \A i \in 1..Len(p) :
            LET around == SubSeq(p, 1, i - 1)
            IN around \in DOMAIN tree /\ p[i] \in 1..tree[around].kids
       /\ tree[p].kind \in LeafKinds => tree[p].kids = 0
       /\ tree[p].kind \in {"while", "do", "switch", "case", "default", "label"} =>
            tree[p].kids = 1
       /\ tree[p].kind = "if" => tree[p].kids \in 1..2
       /\ tree[p].kind = "for" =>
            IF Has(tree, p, "init")
            THEN tree[p].kids = 2 /\ tree[Kid(p, 1)].kind = "expression"
            ELSE tree[p].kids = 1

\* Source order of two positions: a statement comes before those inside it.
Before(p, q) ==
  \/ IsStrictPrefix(p, q)
  \/ \E i \in 1..Len(p) \cap 1..Len(q) :
       SubSeq(p, 1, i - 1) = SubSeq(q, 1, i - 1) /\ p[i] < q[i]

(***************************************************************************)
(* What the semantic analysis rejects.  It counts the loops and switches   *)
(* around the statement it checks (loop_depth, switch_depth); a goto is    *)
(* not checked at all, nor are repeated case constants.                    *)
(***************************************************************************)
LoopDepth(tree, p) == {a \in Ancestors(p) : tree[a].kind \in Loops}
SwitchDepth(tree, p) == {a \in Ancestors(p) : tree[a].kind = "switch"}

\* Mistaken form: a switch is enough around a continue, as it is for a break.
CheckContinueAsBreak(tree, p) ==
  /\ tree[p].kind \in {"case", "default"} => SwitchDepth(tree, p) # {}
  /\ tree[p].kind \in {"break", "continue"} =>
       LoopDepth(tree, p) \cup SwitchDepth(tree, p) # {}

CheckStatement(tree, p) ==
  /\ tree[p].kind \in {"case", "default"} => SwitchDepth(tree, p) # {}
  /\ tree[p].kind = "break" => LoopDepth(tree, p) \cup SwitchDepth(tree, p) # {}
  /\ tree[p].kind = "continue" => LoopDepth(tree, p) # {}

SemaAccepts(tree) == \A p \in DOMAIN tree : CheckStatement(tree, p)
=============================================================================
