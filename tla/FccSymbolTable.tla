---------------------------- MODULE FccSymbolTable ----------------------------
(***************************************************************************)
(* The symbol table of fcc_symbol.c: one array of symbols and one array of *)
(* scopes, both grown by doubling.  A scope is the slice of the symbol     *)
(* array that starts where the array ended when the scope was pushed;      *)
(* popping it truncates the array and leaves the old contents behind as    *)
(* stale slots.  Sequence positions are the C indices plus one.            *)
(*                                                                         *)
(* An operation that needs memory may find that realloc fails, in which    *)
(* case it returns false and changes nothing.                              *)
(***************************************************************************)
EXTENDS Integers, Sequences

CONSTANTS
  Names,                \* identifiers
  Types,                \* type ids
  FirstSymbolCapacity,  \* 16 in the code
  FirstScopeCapacity,   \* 8 in the code
  MaxSymbols,           \* bound: symbols alive at once
  MaxScopes,            \* bound: scopes open at once
  Garbage               \* contents of a slot that was never written

ASSUME CapacityAssumption ==
  /\ FirstSymbolCapacity \in Nat \ {0}
  /\ FirstScopeCapacity \in Nat \ {0}

ASSUME BoundAssumption == MaxSymbols \in Nat /\ MaxScopes \in Nat

VARIABLES
  symbols,        \* table->symbols; its length is symbol_capacity
  symbol_count,
  scopes,         \* table->scopes; its length is scope_capacity
  scope_count,
  answer          \* what the last lookup returned: the empty set is NULL

vars == <<symbols, symbol_count, scopes, scope_count, answer>>

Symbol == [name : Names, type_id : Types, has_body : BOOLEAN,
           scope_depth : 1..MaxScopes]

Scope == [first_symbol_index : 0..MaxSymbols, symbol_count : 0..MaxSymbols]

-----------------------------------------------------------------------------
(* Growing an array.  The callers ask for one element more than is in use,  *)
(* so the doubling loop of the code runs at most once; the theorem          *)
(* DoublesAtMostOnce of FccSymbolTableProofs says that it does.             *)

Capacity(array) == Len(array)

GrownCapacity(capacity, first, needed) ==
  LET start == IF capacity = 0 THEN first ELSE capacity
  IN  IF start < needed THEN 2 * start ELSE start

\* realloc keeps the old contents; the new slots hold garbage.
Reallocated(array, capacity) ==
  [i \in 1..capacity |-> IF i <= Len(array) THEN array[i] ELSE Garbage]

\* Mistaken form: a full array is taken to have room for one more slot.
EnsuredTooLate(array, first, needed) ==
  IF needed - 1 <= Len(array) /\ array # << >> THEN array
  ELSE Reallocated(array, GrownCapacity(Len(array), first, needed))

\* The arrays that ensure_capacity may leave behind when it returns true.
Ensured(array, first, needed) ==
  IF needed <= Len(array) THEN array
  ELSE Reallocated(array, GrownCapacity(Len(array), first, needed))

\* ensure_capacity may return false only when it has to call realloc.
MayFail(array, needed) == needed > Len(array)

-----------------------------------------------------------------------------
Init ==
  /\ symbols = << >> /\ symbol_count = 0
  /\ scopes = << >>  /\ scope_count = 0
  /\ answer = {}

PushScope ==
  /\ scope_count < MaxScopes
  /\ scopes' = [Ensured(scopes, FirstScopeCapacity, scope_count + 1) EXCEPT
                  ![scope_count + 1] =
                     [first_symbol_index |-> symbol_count, symbol_count |-> 0]]
  /\ scope_count' = scope_count + 1
  /\ UNCHANGED <<symbols, symbol_count, answer>>

\* Mistaken form: define counts the symbol in its scope before there is room for it.
AllocationFailsCounted ==
  /\ scope_count > 0 /\ symbol_count < MaxSymbols
  /\ MayFail(symbols, symbol_count + 1)
  /\ scopes' = [scopes EXCEPT ![scope_count].symbol_count = @ + 1]
  /\ UNCHANGED <<symbols, symbol_count, scope_count, answer>>

\* push_scope or define returns false: realloc failed.  Neither has assigned
\* anything by then, nor has ensure_capacity.
AllocationFails ==
  /\ \/ MayFail(scopes, scope_count + 1)
     \/ MayFail(symbols, symbol_count + 1)
  /\ UNCHANGED vars

\* Mistaken form: the symbols of the scope are kept.
PopScopeOnly ==
  /\ scope_count > 0
  /\ scope_count' = scope_count - 1
  /\ UNCHANGED <<symbols, symbol_count, scopes, answer>>

PopScope ==
  /\ scope_count > 0
  /\ symbol_count' = scopes[scope_count].first_symbol_index
  /\ scope_count' = scope_count - 1
  /\ UNCHANGED <<symbols, scopes, answer>>

Define(n, t, b) ==
  /\ scope_count > 0
  /\ symbol_count < MaxSymbols
  /\ symbols' = [Ensured(symbols, FirstSymbolCapacity, symbol_count + 1) EXCEPT
                   ![symbol_count + 1] =
                      [name |-> n, type_id |-> t, has_body |-> b,
                       scope_depth |-> scope_count]]
  /\ symbol_count' = symbol_count + 1
  /\ scopes' = [scopes EXCEPT ![scope_count].symbol_count = @ + 1]
  /\ UNCHANGED <<scope_count, answer>>

\* Mistaken form: the scan goes forwards and stops at the outermost match.
FirstMatch(n, from) ==
  {i \in from + 1 .. symbol_count :
     /\ symbols[i].name = n
     /\ \A j \in from + 1 .. i - 1 : symbols[j].name # n}

\* The positions a backwards scan from the end of the array down to (not
\* including) position `from` stops at: none, or the last match.
LastMatch(n, from) ==
  {i \in from + 1 .. symbol_count :
     /\ symbols[i].name = n
     /\ \A j \in i + 1 .. symbol_count : symbols[j].name # n}

Lookup(n) ==
  /\ answer' = {symbols[i] : i \in LastMatch(n, 0)}
  /\ UNCHANGED <<symbols, symbol_count, scopes, scope_count>>

LookupCurrentScope(n) ==
  /\ scope_count > 0
  /\ answer' = {symbols[i] :
                  i \in LastMatch(n, scopes[scope_count].first_symbol_index)}
  /\ UNCHANGED <<symbols, symbol_count, scopes, scope_count>>

\* lookup_mutable_current_scope as sema uses it: a declared function gains a
\* body through the returned pointer.
GiveBody(n) ==
  /\ scope_count > 0
  /\ \E i \in LastMatch(n, scopes[scope_count].first_symbol_index) :
       symbols' = [symbols EXCEPT ![i].has_body = TRUE]
  /\ UNCHANGED <<symbol_count, scopes, scope_count, answer>>

Dispose ==
  /\ symbols' = << >> /\ symbol_count' = 0
  /\ scopes' = << >>  /\ scope_count' = 0
  /\ UNCHANGED answer

Next ==
  \/ PushScope \/ PopScope \/ AllocationFails \/ Dispose
  \/ \E n \in Names :
       \/ \E t \in Types, b \in BOOLEAN : Define(n, t, b)
       \/ Lookup(n) \/ LookupCurrentScope(n) \/ GiveBody(n)

Spec == Init /\ [][Next]_vars

-----------------------------------------------------------------------------
\* The arrays hold symbols, scopes or unwritten slots, the counts stay within
\* the bounds, and a recorded depth is the depth of a scope that was open.
TypeOK ==
  /\ symbols \in Seq(Symbol \cup {Garbage}) /\ symbol_count \in 0..MaxSymbols
  /\ scopes \in Seq(Scope \cup {Garbage})   /\ scope_count \in 0..MaxScopes
  /\ answer \in SUBSET Symbol

\* Every slot in use lies inside its allocation and has been written, so no
\* read or write of the two arrays leaves them or sees garbage.
SlotsInUseAreValid ==
  /\ symbol_count <= Capacity(symbols) /\ scope_count <= Capacity(scopes)
  /\ \A i \in 1..symbol_count : symbols[i] \in Symbol
  /\ \A i \in 1..scope_count : scopes[i] \in Scope

\* Where the slice of scope i ends: where the next scope begins.
SliceEnd(i) ==
  IF i = scope_count THEN symbol_count ELSE scopes[i + 1].first_symbol_index

Slice(i) == scopes[i].first_symbol_index + 1 .. SliceEnd(i)

\* The open scopes cut the symbols in use into consecutive slices, and the
\* count each scope keeps is the length of its slice.
SlicesAreContiguous ==
  /\ IF scope_count = 0 THEN symbol_count = 0
     ELSE scopes[1].first_symbol_index = 0
  /\ \A i \in 1..scope_count :
       SliceEnd(i) = scopes[i].first_symbol_index + scopes[i].symbol_count

\* The scope_depth recorded in a symbol is the depth of the slice it is in,
\* however many scopes were pushed and popped since.
DepthsMatchSlices ==
  \A i \in 1..scope_count : \A j \in Slice(i) : symbols[j].scope_depth = i

\* Whatever was pushed, defined, popped and left behind as stale slots, the
\* slices of the array are the open scopes, in order, with nothing between them.
SlicesAreScopes == SlicesAreContiguous /\ DepthsMatchSlices

\* The loop that doubles a capacity never needs a second round.
OneDoublingIsEnough ==
  /\ symbol_count + 1 <=
       GrownCapacity(Capacity(symbols), FirstSymbolCapacity, symbol_count + 1)
  /\ scope_count + 1 <=
       GrownCapacity(Capacity(scopes), FirstScopeCapacity, scope_count + 1)

-----------------------------------------------------------------------------
(* What the table promises: a stack of name-to-symbol maps.                 *)

Binding(s) == [type_id |-> s.type_id, has_body |-> s.has_body]

\* The last position of a slice that defines n.
Last(slots, from, to, n) ==
  CHOOSE j \in from + 1 .. to :
    slots[j].name = n /\ \A k \in j + 1 .. to : slots[k].name # n

\* The map a slice stands for: its names, each with its last definition.
MapOf(slots, from, to) ==
  [n \in {slots[j].name : j \in from + 1 .. to} |->
     Binding(slots[Last(slots, from, to, n)])]

env == [i \in 1..scope_count |->
         MapOf(symbols, scopes[i].first_symbol_index, SliceEnd(i))]

Promise == INSTANCE ScopedEnvironment
             WITH env <- env, reply <- {Binding(s) : s \in answer}

\* The table implements the scoped environment: whatever was pushed, defined
\* and popped, a lookup answers with the innermost latest definition and a
\* pop uncovers exactly what the scope had hidden.
ImplementsScopedEnvironment == Promise!Spec
=============================================================================
