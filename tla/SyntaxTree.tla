----------------------------- MODULE SyntaxTree -----------------------------
(***************************************************************************)
(* The tokens of a translation unit and the trees that stand for it.  A    *)
(* token is its text: a name is one of Names, a number is "1", a string    *)
(* literal is "text"; every other token is a keyword or a punctuator.  A   *)
(* node has a kind k, a word n, a position p and its children a, and all   *)
(* nodes have this shape.  The word and the position of a leaf are those   *)
(* of its token; those of "specifiers" are the storage class and whether   *)
(* there is a const.                                                       *)
(***************************************************************************)
EXTENDS Naturals, Sequences

CONSTANT Names

Node(k, a) == [k |-> k, n |-> "", p |-> 0, a |-> a]
Word(k, n, p) == [k |-> k, n |-> n, p |-> p, a |-> << >>]
Nothing == Node("nothing", << >>)

StorageKeywords == {"static", "extern", "typedef"}
BasicKeywords == {"int", "char", "short", "long", "signed", "unsigned", "_Bool"}
AssignmentTokens == {"=", "+=", "<<="}
UnaryTokens == {"+", "-", "!", "~", "&", "*"}
UpdateTokens == {"++", "--"}
BinaryTokens == {"||", "&&", "|", "^", "&", "==", "!=", "<", ">", "<=", ">=", "<<", ">>",
                 "+", "-", "*", "/", "%"}
\* The nodes that calculate a value from those of their children.
Calculations == BinaryTokens \cup UnaryTokens \cup {"?:"}

\* What follows from a declarator and from its specifiers.
Declared(declarator) == SelectSeq(declarator.a, LAMBDA t : t.k = "name")[1]
IsPlain(declarator) ==
  Len(declarator.a) = 3 /\ declarator.a[1].a = << >> /\ declarator.a[3].a = << >>
IsPlainVoid(specifiers, declarator) == specifiers.a[1].k = "void" /\ IsPlain(declarator)
HasBounds(declarator) == Len(declarator.a) = 3 /\ declarator.a[3].a # << >>
=============================================================================
