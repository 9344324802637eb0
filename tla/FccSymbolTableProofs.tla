------------------------ MODULE FccSymbolTableProofs ------------------------
(***************************************************************************)
(* Proofs about FccSymbolTable: its arrays are never indexed out of their  *)
(* allocations, its scopes partition the symbols, and it implements        *)
(* ScopedEnvironment, for any names, types, capacities and bounds.         *)
(***************************************************************************)
EXTENDS FccSymbolTable, SequenceTheorems, TLAPS

\* Scopes begin in the order they were pushed, and none beyond the symbols.
OffsetsAscend ==
  /\ \A i \in 1..scope_count : scopes[i].first_symbol_index <= symbol_count
  /\ \A i \in 1..scope_count : \A j \in i..scope_count :
       scopes[i].first_symbol_index <= scopes[j].first_symbol_index

\* The inductive invariant.  The order of the offsets is what makes the
\* slices disjoint, which DepthsMatchSlices needs when a symbol is added.
IInv ==
  /\ TypeOK
  /\ SlotsInUseAreValid
  /\ OffsetsAscend
  /\ SlicesAreContiguous
  /\ DepthsMatchSlices

\* Growing an array for one more element keeps what is in it and makes room.
LEMMA EnsuredKeepsAndMakesRoom ==
  ASSUME NEW S, NEW array \in Seq(S \cup {Garbage}),
         NEW first \in Nat \ {0}, NEW n \in Nat, n <= Len(array)
  PROVE  /\ Ensured(array, first, n + 1) \in Seq(S \cup {Garbage})
         /\ n + 1 <= Len(Ensured(array, first, n + 1))
         /\ \A i \in 1..n : Ensured(array, first, n + 1)[i] = array[i]
<1>1. CASE n + 1 <= Len(array)
  BY <1>1 DEF Ensured
<1>2. CASE ~(n + 1 <= Len(array))
  <2> DEFINE c == GrownCapacity(Len(array), first, n + 1)
             grown == Reallocated(array, c)
  <2>1. c \in Nat /\ n + 1 <= c
    BY <1>2 DEF GrownCapacity
  <2>2. grown = [i \in 1..c |-> IF i <= Len(array) THEN array[i] ELSE Garbage]
    BY DEF Reallocated
  <2>3. \A i \in 1..c : (IF i <= Len(array) THEN array[i] ELSE Garbage)
                          \in S \cup {Garbage}
    BY <2>1
  <2>4. grown \in Seq(S \cup {Garbage}) /\ Len(grown) = c
    <3> HIDE DEF c, grown
    <3> QED BY <2>1, <2>2, <2>3
  <2>5. \A i \in 1..n : grown[i] = array[i]
    <3> HIDE DEF c, grown
    <3> QED BY <2>1, <2>2
  <2>6. Ensured(array, first, n + 1) = grown
    BY <1>2 DEF Ensured
  <2> QED BY <2>1, <2>4, <2>5, <2>6
<1> QED BY <1>1, <1>2

LEMMA InitEstablishesIInv == Init => IInv
<1> USE CapacityAssumption, BoundAssumption
<1> SUFFICES ASSUME Init PROVE IInv
  OBVIOUS
<1>1. TypeOK
  BY DEF Init, TypeOK
<1>2. SlotsInUseAreValid
  BY DEF Init, SlotsInUseAreValid, Capacity
<1>3. OffsetsAscend /\ SlicesAreContiguous /\ DepthsMatchSlices
  BY DEF Init, OffsetsAscend, SlicesAreContiguous, DepthsMatchSlices
<1> QED BY <1>1, <1>2, <1>3 DEF IInv

\* Pushing a scope writes one slot past the scopes in use and nothing else.
LEMMA PushScopeKeepsIInv ==
  ASSUME IInv, PushScope PROVE IInv'
<1> USE CapacityAssumption, BoundAssumption
<1> DEFINE r == [first_symbol_index |-> symbol_count, symbol_count |-> 0]
           grown == Ensured(scopes, FirstScopeCapacity, scope_count + 1)
<1>1. /\ TypeOK /\ scope_count <= Len(scopes) /\ scope_count < MaxScopes
      /\ symbol_count \in Nat /\ scope_count \in Nat
  BY DEF IInv, TypeOK, SlotsInUseAreValid, Capacity, PushScope
<1>2. /\ grown \in Seq(Scope \cup {Garbage})
      /\ scope_count + 1 <= Len(grown)
      /\ \A i \in 1..scope_count : grown[i] = scopes[i]
  <2>1. /\ scopes \in Seq(Scope \cup {Garbage})
        /\ scope_count \in Nat /\ scope_count <= Len(scopes)
        /\ FirstScopeCapacity \in Nat \ {0}
    BY <1>1 DEF TypeOK
  <2> QED BY <2>1, EnsuredKeepsAndMakesRoom, ZenonT(60)
<1>3. r \in Scope
  BY <1>1 DEF TypeOK, Scope
<1>4. /\ scopes' = [grown EXCEPT ![scope_count + 1] = r]
      /\ scope_count' = scope_count + 1
      /\ UNCHANGED <<symbols, symbol_count, answer>>
  BY DEF PushScope
<1> HIDE DEF grown
<1>5. /\ scopes' \in Seq(Scope \cup {Garbage})
      /\ scope_count' <= Len(scopes')
      /\ \A i \in 1..scope_count : scopes'[i] = scopes[i]
      /\ scopes'[scope_count'] = r
  BY <1>1, <1>2, <1>3, <1>4
<1> HIDE DEF r
<1>r. r.first_symbol_index = symbol_count /\ r.symbol_count = 0
  BY DEF r
<1>6. TypeOK'
  BY <1>1, <1>4, <1>5 DEF TypeOK
<1>7. SlotsInUseAreValid'
  BY <1>1, <1>3, <1>4, <1>5 DEF IInv, SlotsInUseAreValid, Capacity
<1>8. OffsetsAscend'
  <2>1. /\ OffsetsAscend
        /\ \A i \in 1..scope_count : scopes[i].first_symbol_index \in Nat
    BY DEF IInv, SlotsInUseAreValid, Scope
  <2>2. \A i \in 1..scope_count + 1 :
          scopes'[i].first_symbol_index =
            IF i = scope_count + 1 THEN symbol_count
            ELSE scopes[i].first_symbol_index
    BY <1>1, <1>4, <1>5, <1>r
  <2> QED BY <1>1, <1>4, <2>1, <2>2 DEF OffsetsAscend
<1>9. \A i \in 1..scope_count : SliceEnd(i)' = SliceEnd(i)
  BY <1>1, <1>4, <1>5, <1>r DEF SliceEnd
<1>10. \A i \in {scope_count + 1} : SliceEnd(i)' = symbol_count
  BY <1>4 DEF SliceEnd
<1>11. SlicesAreContiguous'
  <2>1. IF scope_count' = 0 THEN symbol_count' = 0
        ELSE scopes'[1].first_symbol_index = 0
    BY <1>1, <1>4, <1>5, <1>r DEF IInv, SlicesAreContiguous
  <2>2. \A i \in 1..scope_count' :
          SliceEnd(i)' = scopes'[i].first_symbol_index + scopes'[i].symbol_count
    BY <1>1, <1>4, <1>5, <1>r, <1>9, <1>10 DEF IInv, SlicesAreContiguous
  <2> QED BY <2>1, <2>2 DEF SlicesAreContiguous
<1>12. DepthsMatchSlices'
  <2>1. \A i \in 1..scope_count : Slice(i)' = Slice(i)
    BY <1>1, <1>4, <1>5, <1>9 DEF Slice
  <2>2. \A i \in {scope_count + 1} : Slice(i)' = {}
    BY <1>1, <1>4, <1>5, <1>r, <1>10 DEF Slice
  <2> QED BY <1>1, <1>4, <2>1, <2>2 DEF IInv, DepthsMatchSlices
<1> QED BY <1>6, <1>7, <1>8, <1>11, <1>12 DEF IInv

\* Popping truncates: the slices of the scopes below end where they did.
LEMMA PopScopeKeepsIInv ==
  ASSUME IInv, PopScope PROVE IInv'
<1> USE CapacityAssumption, BoundAssumption
<1>1. /\ scope_count \in Nat \ {0} /\ symbol_count \in Nat
      /\ scope_count <= Len(scopes)
      /\ scopes[scope_count] \in Scope
      /\ scopes[scope_count].first_symbol_index <= symbol_count
  BY DEF IInv, TypeOK, SlotsInUseAreValid, Capacity, PopScope, OffsetsAscend
<1>2. /\ symbol_count' = scopes[scope_count].first_symbol_index
      /\ scope_count' = scope_count - 1
      /\ UNCHANGED <<symbols, scopes, answer>>
  BY DEF PopScope
<1>3. TypeOK'
  BY <1>1, <1>2 DEF IInv, TypeOK, Scope
<1>4. SlotsInUseAreValid'
  BY <1>1, <1>2, <1>3 DEF IInv, TypeOK, SlotsInUseAreValid, Capacity
<1>5. OffsetsAscend'
  BY <1>1, <1>2 DEF IInv, OffsetsAscend
<1>6. \A i \in 1..scope_count' : SliceEnd(i)' = SliceEnd(i)
  BY <1>1, <1>2 DEF SliceEnd
<1>7. SlicesAreContiguous'
  BY <1>1, <1>2, <1>6 DEF IInv, SlicesAreContiguous
<1>8. DepthsMatchSlices'
  BY <1>1, <1>2, <1>6 DEF IInv, DepthsMatchSlices, Slice
<1> QED BY <1>3, <1>4, <1>5, <1>7, <1>8 DEF IInv

\* Defining a symbol extends the innermost slice by one.
LEMMA DefineKeepsIInv ==
  ASSUME IInv, NEW n \in Names, NEW t \in Types, NEW b \in BOOLEAN,
         Define(n, t, b)
  PROVE  IInv'
<1> USE CapacityAssumption, BoundAssumption
<1> DEFINE s == [name |-> n, type_id |-> t, has_body |-> b,
                 scope_depth |-> scope_count]
           grown == Ensured(symbols, FirstSymbolCapacity, symbol_count + 1)
<1>1. /\ scope_count \in Nat \ {0} /\ scope_count <= MaxScopes
      /\ symbol_count \in Nat /\ symbol_count < MaxSymbols
      /\ scope_count <= Len(scopes) /\ symbol_count <= Len(symbols)
      /\ \A i \in 1..scope_count : scopes[i] \in Scope
  BY DEF IInv, TypeOK, SlotsInUseAreValid, Capacity, Define
<1>2. /\ grown \in Seq(Symbol \cup {Garbage})
      /\ symbol_count + 1 <= Len(grown)
      /\ \A i \in 1..symbol_count : grown[i] = symbols[i]
  <2>1. /\ symbols \in Seq(Symbol \cup {Garbage})
        /\ symbol_count \in Nat /\ symbol_count <= Len(symbols)
        /\ FirstSymbolCapacity \in Nat \ {0}
    BY <1>1 DEF IInv, TypeOK
  <2> QED BY <2>1, EnsuredKeepsAndMakesRoom, ZenonT(60)
<1>3. s \in Symbol
  BY <1>1 DEF Symbol
<1>4. /\ symbols' = [grown EXCEPT ![symbol_count + 1] = s]
      /\ symbol_count' = symbol_count + 1
      /\ scopes' = [scopes EXCEPT ![scope_count].symbol_count = @ + 1]
      /\ UNCHANGED <<scope_count, answer>>
  BY DEF Define
<1> HIDE DEF grown
<1>5. /\ symbols' \in Seq(Symbol \cup {Garbage})
      /\ symbol_count' <= Len(symbols')
      /\ \A i \in 1..symbol_count : symbols'[i] = symbols[i]
      /\ symbols'[symbol_count'] = s
  BY <1>1, <1>2, <1>3, <1>4
<1>d. s.scope_depth = scope_count
  OBVIOUS
<1> HIDE DEF s
<1>6. scopes[scope_count].first_symbol_index
        + scopes[scope_count].symbol_count = symbol_count
  BY <1>1 DEF IInv, SlicesAreContiguous, SliceEnd
<1>7. /\ Len(scopes') = Len(scopes)
      /\ \A i \in 1..Len(scopes) : i # scope_count => scopes'[i] = scopes[i]
      /\ scopes'[scope_count] \in Scope
      /\ scopes'[scope_count].first_symbol_index
           = scopes[scope_count].first_symbol_index
      /\ scopes'[scope_count].symbol_count
           = scopes[scope_count].symbol_count + 1
      /\ scopes' \in Seq(Scope \cup {Garbage})
  <2>1. scopes \in Seq(Scope \cup {Garbage})
    BY DEF IInv, TypeOK
  <2> DEFINE q == [scopes[scope_count] EXCEPT !.symbol_count = @ + 1]
  <2>2. /\ q \in Scope
        /\ q.first_symbol_index = scopes[scope_count].first_symbol_index
        /\ q.symbol_count = scopes[scope_count].symbol_count + 1
    BY <1>1, <1>6 DEF Scope
  <2>3. scopes' = [scopes EXCEPT ![scope_count] = q]
    BY <1>4
  <2> HIDE DEF q
  <2> QED BY <1>1, <2>1, <2>2, <2>3
<1>8. \A i \in 1..scope_count :
        /\ scopes'[i] \in Scope
        /\ scopes'[i].first_symbol_index = scopes[i].first_symbol_index
  BY <1>1, <1>7
<1>9. TypeOK'
  BY <1>1, <1>4, <1>5, <1>7 DEF IInv, TypeOK
<1>10. SlotsInUseAreValid'
  <2>1. \A i \in 1..symbol_count : symbols[i] \in Symbol
    BY DEF IInv, SlotsInUseAreValid
  <2>2. \A i \in 1..symbol_count + 1 : symbols'[i] \in Symbol
    <3>1. symbol_count' = symbol_count + 1 /\ symbol_count \in Nat
      BY <1>1, <1>4
    <3> QED BY <1>3, <1>5, <2>1, <3>1
  <2>3. \A i \in 1..scope_count' : scopes'[i] \in Scope
    BY <1>4, <1>8
  <2>4. scope_count' <= Len(scopes') /\ symbol_count' <= Len(symbols')
    BY <1>1, <1>4, <1>5, <1>7
  <2> QED BY <1>4, <2>2, <2>3, <2>4 DEF SlotsInUseAreValid, Capacity
<1>11. OffsetsAscend'
  <2>1. /\ OffsetsAscend
        /\ \A i \in 1..scope_count : scopes[i].first_symbol_index \in Nat
    BY <1>1 DEF IInv, Scope
  <2>2. \A i \in 1..scope_count :
          scopes'[i].first_symbol_index = scopes[i].first_symbol_index
    BY <1>8
  <2>3. /\ scope_count' = scope_count /\ symbol_count' = symbol_count + 1
        /\ scope_count \in Nat /\ symbol_count \in Nat
    BY <1>1, <1>4
  <2> QED BY <2>1, <2>2, <2>3 DEF OffsetsAscend
<1>12. \A i \in 1..scope_count :
         SliceEnd(i)' = IF i = scope_count THEN symbol_count + 1 ELSE SliceEnd(i)
  BY <1>1, <1>4, <1>8 DEF SliceEnd
<1>13. SlicesAreContiguous'
  <2>1. IF scope_count' = 0 THEN symbol_count' = 0
        ELSE scopes'[1].first_symbol_index = 0
    BY <1>1, <1>4, <1>8 DEF IInv, SlicesAreContiguous
  <2>2. ASSUME NEW i \in 1..scope_count
        PROVE  SliceEnd(i)' = scopes'[i].first_symbol_index
                               + scopes'[i].symbol_count
    <3>1. CASE i = scope_count
      <4>1. scopes[scope_count].first_symbol_index \in Nat
            /\ scopes[scope_count].symbol_count \in Nat
        BY <1>1 DEF Scope
      <4> QED BY <1>6, <1>7, <1>12, <3>1, <4>1
    <3>2. CASE i # scope_count
      BY <1>1, <1>7, <1>12, <3>2 DEF IInv, SlicesAreContiguous
    <3> QED BY <3>1, <3>2
  <2> QED BY <1>4, <2>1, <2>2 DEF SlicesAreContiguous
<1>14. DepthsMatchSlices'
  <2> SUFFICES ASSUME NEW i \in 1..scope_count, NEW j \in Slice(i)'
               PROVE  symbols'[j].scope_depth = i
    BY <1>4 DEF DepthsMatchSlices
  <2>1. CASE i = scope_count
    <3>1. j \in Slice(scope_count) \cup {symbol_count + 1}
      BY <1>1, <1>8, <1>12, <2>1 DEF Slice, Scope, SliceEnd
    <3>2. Slice(scope_count) \subseteq 1..symbol_count
      BY <1>1 DEF Slice, SliceEnd, Scope
    <3> QED BY <1>1, <1>4, <1>5, <1>d, <2>1, <3>1, <3>2 DEF IInv, DepthsMatchSlices
  <2>2. CASE i # scope_count
    <3>1. j \in Slice(i)
      BY <1>8, <1>12, <2>2 DEF Slice
    <3>2. SliceEnd(i) <= symbol_count
      BY <1>1, <2>2 DEF IInv, OffsetsAscend, SliceEnd
    <3>3. scopes[i].first_symbol_index \in Nat /\ SliceEnd(i) \in Int
      BY <1>1 DEF SliceEnd, Scope
    <3>4. j \in 1..symbol_count
      BY <1>1, <3>1, <3>2, <3>3 DEF Slice
    <3> QED BY <1>5, <3>1, <3>4 DEF IInv, DepthsMatchSlices
  <2> QED BY <2>1, <2>2
<1> QED BY <1>9, <1>10, <1>11, <1>13, <1>14 DEF IInv

\* Looking a name up only reads slots in use.
LEMMA LookupsKeepIInv ==
  ASSUME IInv, NEW n \in Names, Lookup(n) \/ LookupCurrentScope(n)
  PROVE  IInv'
<1>1. \A from \in Nat : LastMatch(n, from) \subseteq 1..symbol_count
  BY DEF LastMatch, IInv, TypeOK
<1>2. scope_count > 0 => scopes[scope_count].first_symbol_index \in Nat
  BY DEF IInv, TypeOK, SlotsInUseAreValid, Scope
<1>3. answer' \in SUBSET Symbol
  BY <1>1, <1>2 DEF Lookup, LookupCurrentScope, IInv, SlotsInUseAreValid
<1>4. UNCHANGED <<symbols, symbol_count, scopes, scope_count>>
  BY DEF Lookup, LookupCurrentScope
<1>5. TypeOK'
  BY <1>3, <1>4 DEF IInv, TypeOK
<1>6. SlotsInUseAreValid' /\ OffsetsAscend'
  BY <1>4 DEF IInv, SlotsInUseAreValid, OffsetsAscend, Capacity
<1>7. SlicesAreContiguous' /\ DepthsMatchSlices'
  BY <1>4 DEF IInv, SlicesAreContiguous, DepthsMatchSlices, Slice, SliceEnd
<1> QED BY <1>5, <1>6, <1>7 DEF IInv

\* Writing has_body through a looked-up pointer changes no name and no depth.
LEMMA GiveBodyKeepsIInv ==
  ASSUME IInv, NEW n \in Names, GiveBody(n) PROVE IInv'
<1>1. PICK i \in LastMatch(n, scopes[scope_count].first_symbol_index) :
        symbols' = [symbols EXCEPT ![i].has_body = TRUE]
  BY DEF GiveBody
<1>2. UNCHANGED <<symbol_count, scopes, scope_count, answer>>
  BY DEF GiveBody
<1>3. /\ scope_count > 0 /\ symbol_count \in Nat
      /\ scopes[scope_count].first_symbol_index \in Nat
      /\ symbol_count <= Len(symbols)
  BY DEF GiveBody, IInv, TypeOK, SlotsInUseAreValid, Scope, Capacity
<1>4. i \in 1..symbol_count /\ symbols[i] \in Symbol
  BY <1>1, <1>3 DEF LastMatch, IInv, SlotsInUseAreValid
<1> DEFINE s == [symbols[i] EXCEPT !.has_body = TRUE]
<1>5. s \in Symbol /\ s.scope_depth = symbols[i].scope_depth
  BY <1>4 DEF Symbol
<1>6. symbols \in Seq(Symbol \cup {Garbage})
  BY DEF IInv, TypeOK
<1>7. symbols' = [symbols EXCEPT ![i] = s]
  BY <1>1
<1> HIDE DEF s
<1>8. /\ symbols' \in Seq(Symbol \cup {Garbage})
      /\ Len(symbols') = Len(symbols)
      /\ \A j \in 1..symbol_count :
           symbols'[j] = IF j = i THEN s ELSE symbols[j]
  BY <1>3, <1>4, <1>5, <1>6, <1>7
<1>9. TypeOK'
  BY <1>2, <1>8 DEF IInv, TypeOK
<1>10. SlotsInUseAreValid' /\ OffsetsAscend'
  BY <1>2, <1>5, <1>8 DEF IInv, SlotsInUseAreValid, OffsetsAscend, Capacity
<1>11. SlicesAreContiguous'
  BY <1>2 DEF IInv, SlicesAreContiguous, SliceEnd
<1>12. DepthsMatchSlices'
  <2> SUFFICES ASSUME NEW k \in 1..scope_count, NEW j \in Slice(k)
               PROVE  symbols'[j].scope_depth = k
    BY <1>2 DEF DepthsMatchSlices, Slice, SliceEnd
  <2>1. symbols[j].scope_depth = k
    BY DEF IInv, DepthsMatchSlices
  <2>2. SliceEnd(k) <= symbol_count
    BY <1>3 DEF IInv, OffsetsAscend, SliceEnd, TypeOK
  <2>3. scopes[k].first_symbol_index \in Nat /\ SliceEnd(k) \in Int
    BY <1>3 DEF SliceEnd, IInv, SlotsInUseAreValid, Scope, TypeOK
  <2>4. j \in 1..symbol_count
    BY <1>3, <2>2, <2>3 DEF Slice
  <2> QED BY <1>5, <1>8, <2>1, <2>4
<1> QED BY <1>9, <1>10, <1>11, <1>12 DEF IInv

LEMMA NextKeepsIInv == IInv /\ [Next]_vars => IInv'
<1> USE CapacityAssumption, BoundAssumption
<1> SUFFICES ASSUME IInv, [Next]_vars PROVE IInv'
  OBVIOUS
<1>1. CASE PushScope
  BY <1>1, PushScopeKeepsIInv
<1>2. CASE PopScope
  BY <1>2, PopScopeKeepsIInv
<1>3. CASE AllocationFails \/ UNCHANGED vars
  BY <1>3 DEF AllocationFails, vars, IInv, TypeOK, SlotsInUseAreValid, Capacity,
       OffsetsAscend, SlicesAreContiguous, DepthsMatchSlices, Slice, SliceEnd
<1>4. CASE Dispose
  <2>1. TypeOK'
    BY <1>4 DEF Dispose, IInv, TypeOK
  <2>2. SlotsInUseAreValid' /\ OffsetsAscend'
    BY <1>4 DEF Dispose, SlotsInUseAreValid, OffsetsAscend, Capacity
  <2>3. SlicesAreContiguous' /\ DepthsMatchSlices'
    BY <1>4 DEF Dispose, SlicesAreContiguous, DepthsMatchSlices
  <2> QED BY <2>1, <2>2, <2>3 DEF IInv
<1>5. CASE \E n \in Names, t \in Types, b \in BOOLEAN : Define(n, t, b)
  BY <1>5, DefineKeepsIInv
<1>6. CASE \E n \in Names : Lookup(n) \/ LookupCurrentScope(n)
  BY <1>6, LookupsKeepIInv
<1>7. CASE \E n \in Names : GiveBody(n)
  BY <1>7, GiveBodyKeepsIInv
<1> QED BY <1>1, <1>2, <1>3, <1>4, <1>5, <1>6, <1>7 DEF Next

LEMMA IInvHolds == Spec => []IInv
  BY InitEstablishesIInv, NextKeepsIInv, PTL DEF Spec

\* The variables of fcc_symbol.c keep their types.
THEOREM TypeCorrect == Spec => []TypeOK
<1>1. IInv => TypeOK
  BY DEF IInv
<1> QED BY <1>1, IInvHolds, PTL

\* No operation of fcc_symbol.c reads or writes outside an array it
\* allocated, or reads a slot that was never written, whatever the order of
\* pushes, pops and definitions and wherever realloc fails.
THEOREM ArraysStayInBounds == Spec => []SlotsInUseAreValid
<1>1. IInv => SlotsInUseAreValid
  BY DEF IInv
<1> QED BY <1>1, IInvHolds, PTL

\* The first_symbol_index and symbol_count that fcc_symbol_table_push_scope
\* and _define maintain always describe consecutive slices of the array, and the
\* scope_depth recorded with a symbol is the depth of the slice it lies in.
THEOREM ScopesAreSlices == Spec => []SlicesAreScopes
<1>1. IInv => SlicesAreScopes
  BY DEF IInv, SlicesAreScopes
<1> QED BY <1>1, IInvHolds, PTL

\* The doubling loops of the ensure_capacity functions run at most once.
THEOREM DoublesAtMostOnce == Spec => []OneDoublingIsEnough
<1>1. IInv => OneDoublingIsEnough
  BY CapacityAssumption, BoundAssumption
     DEF IInv, OneDoublingIsEnough, GrownCapacity, SlotsInUseAreValid, Capacity,
         TypeOK
<1> QED BY <1>1, IInvHolds, PTL

-----------------------------------------------------------------------------
(* The refinement.  The proofs about the map a slice stands for are about   *)
(* constants: slots and positions.                                          *)

\* Every name that a slice defines has a last definition in it.
HasLast(slots, from, to) ==
  \A j \in from + 1 .. to : \E k \in j..to :
    /\ slots[k].name = slots[j].name
    /\ \A m \in k + 1 .. to : slots[m].name # slots[j].name

LEMMA LastIsLast ==
  ASSUME NEW slots, NEW from \in Nat, NEW to \in Nat, HasLast(slots, from, to),
         NEW n \in {slots[j].name : j \in from + 1 .. to}
  PROVE  /\ Last(slots, from, to, n) \in from + 1 .. to
         /\ slots[Last(slots, from, to, n)].name = n
         /\ \A m \in Last(slots, from, to, n) + 1 .. to : slots[m].name # n
<1>1. PICK j \in from + 1 .. to : slots[j].name = n
  OBVIOUS
<1>2. PICK k \in j..to : /\ slots[k].name = n
                         /\ \A m \in k + 1 .. to : slots[m].name # n
  BY <1>1 DEF HasLast
<1>3. k \in from + 1 .. to
  BY <1>1, <1>2
<1> QED BY <1>2, <1>3 DEF Last

LEMMA LastIsUnique ==
  ASSUME NEW slots, NEW from \in Nat, NEW to \in Nat, NEW n,
         NEW j \in from + 1 .. to, slots[j].name = n,
         \A m \in j + 1 .. to : slots[m].name # n
  PROVE  Last(slots, from, to, n) = j
<1> DEFINE l == Last(slots, from, to, n)
<1>1. /\ l \in from + 1 .. to
      /\ slots[l].name = n
      /\ \A m \in l + 1 .. to : slots[m].name # n
  BY DEF Last
<1> HIDE DEF l
<1>2. l = j
  BY <1>1
<1> QED BY <1>2 DEF l

\* A slice none of whose slots changes stands for the same map.
LEMMA MapOfUnchangedSlice ==
  ASSUME NEW slots, NEW other, NEW from \in Nat, NEW to \in Nat,
         HasLast(slots, from, to),
         \A j \in from + 1 .. to : other[j] = slots[j]
  PROVE  MapOf(other, from, to) = MapOf(slots, from, to)
<1> DEFINE D == {slots[j].name : j \in from + 1 .. to}
<1>1. {other[j].name : j \in from + 1 .. to} = D
  OBVIOUS
<1>2. ASSUME NEW n \in D
      PROVE  Binding(other[Last(other, from, to, n)])
               = Binding(slots[Last(slots, from, to, n)])
  <2> DEFINE l == Last(slots, from, to, n)
  <2>1. /\ l \in from + 1 .. to /\ slots[l].name = n
        /\ \A m \in l + 1 .. to : slots[m].name # n
    BY LastIsLast
  <2> HIDE DEF l, D
  <2>2. /\ other[l] = slots[l] /\ other[l].name = n
        /\ \A m \in l + 1 .. to : other[m].name # n
    BY <2>1
  <2>3. Last(other, from, to, n) = l
    <3>1. l \in from + 1 .. to
      BY <2>1
    <3>2. other[l].name = n
      BY <2>2
    <3>3. \A m \in l + 1 .. to : other[m].name # n
      BY <2>2
    <3> QED BY <3>1, <3>2, <3>3, LastIsUnique
  <2> QED BY <2>2, <2>3 DEF l
<1> HIDE DEF D
<1>3. MapOf(other, from, to)
        = [n \in D |-> Binding(other[Last(other, from, to, n)])]
  BY <1>1 DEF MapOf
<1>4. MapOf(slots, from, to)
        = [n \in D |-> Binding(slots[Last(slots, from, to, n)])]
  BY DEF MapOf, D
<1> QED BY <1>2, <1>3, <1>4

\* One more symbol at the end of a slice binds its name in the map.
LEMMA MapOfLongerSlice ==
  ASSUME NEW slots, NEW other, NEW from \in Nat, NEW to \in Nat, from <= to,
         HasLast(slots, from, to), NEW n,
         \A j \in from + 1 .. to : other[j] = slots[j],
         other[to + 1].name = n
  PROVE  MapOf(other, from, to + 1)
           = Promise!Bound(MapOf(slots, from, to), n, Binding(other[to + 1]))
<1> DEFINE D == {slots[j].name : j \in from + 1 .. to}
<1>1. {other[j].name : j \in from + 1 .. to + 1} = D \cup {n}
  <2>1. \A j \in from + 1 .. to + 1 : j = to + 1 \/ j \in from + 1 .. to
    OBVIOUS
  <2>2. \A j \in from + 1 .. to : j \in from + 1 .. to + 1
    OBVIOUS
  <2>3. to + 1 \in from + 1 .. to + 1
    OBVIOUS
  <2> QED BY <2>1, <2>2, <2>3
<1>2. ASSUME NEW x \in D \cup {n}
      PROVE  Binding(other[Last(other, from, to + 1, x)])
               = IF x = n THEN Binding(other[to + 1])
                 ELSE Binding(slots[Last(slots, from, to, x)])
  <2>1. CASE x = n
    <3>1. Last(other, from, to + 1, n) = to + 1
      BY LastIsUnique
    <3> QED BY <2>1, <3>1
  <2>2. CASE x # n
    <3> DEFINE l == Last(slots, from, to, x)
    <3>1. /\ l \in from + 1 .. to /\ slots[l].name = x
          /\ \A m \in l + 1 .. to : slots[m].name # x
      BY <2>2, LastIsLast
    <3> HIDE DEF l
    <3>2. /\ other[l] = slots[l] /\ other[l].name = x
          /\ \A m \in l + 1 .. to + 1 : other[m].name # x
      BY <2>2, <3>1
    <3>3. l \in from + 1 .. to + 1 /\ to + 1 \in Nat
      BY <3>1
    <3>4. Last(other, from, to + 1, x) = l
      BY <3>2, <3>3, LastIsUnique
    <3> QED BY <2>2, <3>2, <3>4 DEF l
  <2> QED BY <2>1, <2>2
<1> HIDE DEF D
<1>3. MapOf(other, from, to + 1)
        = [x \in D \cup {n} |-> Binding(other[Last(other, from, to + 1, x)])]
  BY <1>1 DEF MapOf
<1>4. MapOf(slots, from, to)
        = [x \in D |-> Binding(slots[Last(slots, from, to, x)])]
  BY DEF MapOf, D
<1> QED BY <1>2, <1>3, <1>4 DEF Promise!Bound

\* Rewriting the last definition of a name rebinds that name only.
LEMMA MapOfRewrittenSlice ==
  ASSUME NEW slots, NEW other, NEW from \in Nat, NEW to \in Nat,
         HasLast(slots, from, to),
         NEW p \in from + 1 .. to,
         \A m \in p + 1 .. to : slots[m].name # slots[p].name,
         \A j \in from + 1 .. to : j # p => other[j] = slots[j],
         other[p].name = slots[p].name
  PROVE  MapOf(other, from, to)
           = Promise!Bound(MapOf(slots, from, to), slots[p].name,
                           Binding(other[p]))
<1> DEFINE D == {slots[j].name : j \in from + 1 .. to}
           n == slots[p].name
<1>0. \A j \in from + 1 .. to : other[j].name = slots[j].name
  OBVIOUS
<1>1. {other[j].name : j \in from + 1 .. to} = D /\ n \in D
  BY <1>0
<1>2. ASSUME NEW x \in D
      PROVE  Binding(other[Last(other, from, to, x)])
               = IF x = n THEN Binding(other[p])
                 ELSE Binding(slots[Last(slots, from, to, x)])
  <2> DEFINE l == Last(slots, from, to, x)
  <2>1. /\ l \in from + 1 .. to /\ slots[l].name = x
        /\ \A m \in l + 1 .. to : slots[m].name # x
    BY LastIsLast
  <2> HIDE DEF l, D, n
  <2>2. /\ other[l].name = x
        /\ \A m \in l + 1 .. to : other[m].name # x
    BY <1>0, <2>1
  <2>3. Last(other, from, to, x) = l
    <3>1. l \in from + 1 .. to
      BY <2>1
    <3>2. other[l].name = x
      BY <2>2
    <3>3. \A m \in l + 1 .. to : other[m].name # x
      BY <2>2
    <3> QED BY <3>1, <3>2, <3>3, LastIsUnique, SMTT(60)
  <2>4. CASE x = n
    BY <2>1, <2>3, <2>4 DEF n
  <2>5. CASE x # n
    BY <2>1, <2>3, <2>5 DEF l, n
  <2> QED BY <2>4, <2>5
<1> HIDE DEF D
<1>3. MapOf(other, from, to)
        = [x \in D |-> Binding(other[Last(other, from, to, x)])]
  BY <1>1 DEF MapOf
<1>4. MapOf(slots, from, to)
        = [x \in D |-> Binding(slots[Last(slots, from, to, x)])]
  BY DEF MapOf, D
<1>5. D \cup {n} = D
  BY <1>1
<1> HIDE DEF n
<1>6. MapOf(other, from, to)
        = Promise!Bound(MapOf(slots, from, to), n, Binding(other[p]))
  BY <1>2, <1>3, <1>4, <1>5 DEF Promise!Bound
<1> QED BY <1>6 DEF n

\* What a push leaves in the slots it does not write and in the one it does.
LEMMA PushScopeEffect ==
  ASSUME IInv, PushScope
  PROVE  /\ \A i \in 1..scope_count : scopes'[i] = scopes[i]
         /\ \A i \in {scope_count + 1} :
              scopes'[i].first_symbol_index = symbol_count
<1> DEFINE grown == Ensured(scopes, FirstScopeCapacity, scope_count + 1)
           r == [first_symbol_index |-> symbol_count, symbol_count |-> 0]
<1>1. scopes \in Seq(Scope \cup {Garbage}) /\ scope_count <= Len(scopes)
      /\ scope_count \in Nat
  BY DEF IInv, TypeOK, SlotsInUseAreValid, Capacity
<1>2. /\ grown \in Seq(Scope \cup {Garbage})
      /\ scope_count + 1 <= Len(grown)
      /\ \A i \in 1..scope_count : grown[i] = scopes[i]
  BY <1>1, CapacityAssumption, EnsuredKeepsAndMakesRoom, ZenonT(60)
<1>3. scopes' = [grown EXCEPT ![scope_count + 1] = r]
  BY DEF PushScope
<1>4. r.first_symbol_index = symbol_count
  OBVIOUS
<1> HIDE DEF grown, r
<1>5. \A i \in 1..scope_count : scopes'[i] = scopes[i]
  BY <1>1, <1>2, <1>3
<1>6. scopes'[scope_count + 1] = r
  BY <1>1, <1>2, <1>3
<1> QED BY <1>4, <1>5, <1>6

\* The same for a definition.
LEMMA DefineEffect ==
  ASSUME IInv, NEW n \in Names, NEW t \in Types, NEW b \in BOOLEAN,
         Define(n, t, b)
  PROVE  /\ \A j \in 1..symbol_count : symbols'[j] = symbols[j]
         /\ symbols'[symbol_count + 1] =
              [name |-> n, type_id |-> t, has_body |-> b,
               scope_depth |-> scope_count]
         /\ \A i \in 1..scope_count :
              scopes'[i].first_symbol_index = scopes[i].first_symbol_index
<1> DEFINE s == [name |-> n, type_id |-> t, has_body |-> b,
                 scope_depth |-> scope_count]
           grown == Ensured(symbols, FirstSymbolCapacity, symbol_count + 1)
<1>1. /\ symbols \in Seq(Symbol \cup {Garbage}) /\ symbol_count <= Len(symbols)
      /\ symbol_count \in Nat /\ scope_count \in Nat
  BY DEF IInv, TypeOK, SlotsInUseAreValid, Capacity
<1>2. /\ grown \in Seq(Symbol \cup {Garbage})
      /\ symbol_count + 1 <= Len(grown)
      /\ \A i \in 1..symbol_count : grown[i] = symbols[i]
  BY <1>1, CapacityAssumption, EnsuredKeepsAndMakesRoom, ZenonT(60)
<1>3. symbols' = [grown EXCEPT ![symbol_count + 1] = s]
  BY DEF Define
<1> HIDE DEF grown, s
<1>4. /\ \A j \in 1..symbol_count : symbols'[j] = symbols[j]
      /\ symbols'[symbol_count + 1] = s
  BY <1>1, <1>2, <1>3
<1>5. scopes \in Seq(Scope \cup {Garbage}) /\ scope_count <= Len(scopes)
      /\ \A i \in 1..scope_count : scopes[i] \in Scope
  BY DEF IInv, TypeOK, SlotsInUseAreValid, Capacity
<1>6. scopes' = [scopes EXCEPT ![scope_count].symbol_count = @ + 1]
  BY DEF Define
<1>7. \A i \in 1..scope_count :
         scopes'[i].first_symbol_index = scopes[i].first_symbol_index
  BY <1>1, <1>5, <1>6 DEF Scope
<1> QED BY <1>4, <1>7 DEF s

\* Every name defined in a prefix of the array has a last definition there.
\* Slices are suffixes of prefixes, so this gives HasLast for each of them;
\* popping only forgets prefixes, which is why it is stated for all of them.
PrefixesHaveLast == \A c \in 0..symbol_count : HasLast(symbols, 0, c)

\* Every symbol in use lies in the slice of the scope it was defined in.
SymbolsAreInTheirSlice ==
  \A j \in 1..symbol_count :
    /\ symbols[j].scope_depth \in 1..scope_count
    /\ j \in Slice(symbols[j].scope_depth)

RInv == IInv /\ PrefixesHaveLast /\ SymbolsAreInTheirSlice

LEMMA InitEstablishesRInv == Init => RInv
<1>1. Init => PrefixesHaveLast /\ SymbolsAreInTheirSlice
  BY DEF Init, PrefixesHaveLast, HasLast, SymbolsAreInTheirSlice
<1> QED BY <1>1, InitEstablishesIInv DEF RInv

\* The facts about one state that the steps below share.
LEMMA RInvFacts ==
  ASSUME RInv
  PROVE  /\ symbol_count \in Nat /\ scope_count \in Nat
         /\ \A i \in 1..scope_count :
              /\ scopes[i].first_symbol_index \in Nat
              /\ SliceEnd(i) \in Nat
              /\ scopes[i].first_symbol_index <= SliceEnd(i)
              /\ SliceEnd(i) <= symbol_count
              /\ HasLast(symbols, scopes[i].first_symbol_index, SliceEnd(i))
<1>1. symbol_count \in Nat /\ scope_count \in Nat
  BY DEF RInv, IInv, TypeOK
<1>2. ASSUME NEW i \in 1..scope_count
      PROVE  /\ scopes[i].first_symbol_index \in Nat
             /\ SliceEnd(i) \in Nat
             /\ scopes[i].first_symbol_index <= SliceEnd(i)
             /\ SliceEnd(i) <= symbol_count
  <2>1. scopes[i] \in Scope
    BY DEF RInv, IInv, SlotsInUseAreValid
  <2>2. scopes[i].first_symbol_index \in Nat /\ scopes[i].symbol_count \in Nat
    BY <2>1 DEF Scope
  <2>3. SliceEnd(i) = scopes[i].first_symbol_index + scopes[i].symbol_count
    BY DEF RInv, IInv, SlicesAreContiguous
  <2>4. SliceEnd(i) <= symbol_count
    BY <1>1 DEF RInv, IInv, OffsetsAscend, SliceEnd
  <2> QED BY <2>2, <2>3, <2>4
<1>3. ASSUME NEW i \in 1..scope_count
      PROVE  HasLast(symbols, scopes[i].first_symbol_index, SliceEnd(i))
  <2> DEFINE from == scopes[i].first_symbol_index
             to == SliceEnd(i)
  <2>1. /\ from \in Nat /\ to \in 0..symbol_count
    BY <1>1, <1>2
  <2>2. HasLast(symbols, 0, to)
    BY <2>1 DEF RInv, PrefixesHaveLast
  <2> HIDE DEF from, to
  <2>3. HasLast(symbols, from, to)
    BY <2>1, <2>2 DEF HasLast
  <2> QED BY <2>3 DEF from, to
<1> QED BY <1>1, <1>2, <1>3

LEMMA NextKeepsRInv == RInv /\ [Next]_vars => RInv'
<1> SUFFICES ASSUME RInv, [Next]_vars PROVE RInv'
  OBVIOUS
<1>0. IInv /\ IInv'
  BY NextKeepsIInv DEF RInv
<1>t. symbol_count \in Nat /\ scope_count \in Nat
  BY RInvFacts
<1>1. CASE PushScope
  <2>1. /\ UNCHANGED <<symbols, symbol_count>> /\ scope_count' = scope_count + 1
        /\ \A i \in 1..scope_count : scopes'[i] = scopes[i]
        /\ \A i \in {scope_count + 1} :
             scopes'[i].first_symbol_index = symbol_count
    BY <1>0, <1>1, PushScopeEffect DEF PushScope
  <2>2. PrefixesHaveLast'
    BY <2>1 DEF RInv, PrefixesHaveLast
  <2>3. \A i \in 1..scope_count : SliceEnd(i)' = SliceEnd(i)
    BY <1>t, <2>1 DEF SliceEnd
  <2>4. \A i \in 1..scope_count : Slice(i)' = Slice(i)
    BY <2>1, <2>3 DEF Slice
  <2>5. SymbolsAreInTheirSlice'
    BY <1>t, <2>1, <2>4 DEF RInv, SymbolsAreInTheirSlice
  <2> QED BY <1>0, <2>2, <2>5 DEF RInv
<1>2. CASE PopScope
  <2>1. /\ UNCHANGED <<symbols, scopes>> /\ scope_count' = scope_count - 1
        /\ scope_count > 0
        /\ symbol_count' = scopes[scope_count].first_symbol_index
        /\ symbol_count' \in Nat /\ symbol_count' <= symbol_count
    BY <1>2, RInvFacts, <1>0 DEF PopScope, IInv, OffsetsAscend
  <2>2. PrefixesHaveLast'
    BY <1>t, <2>1 DEF RInv, PrefixesHaveLast
  <2>3. \A i \in 1..scope_count' : SliceEnd(i)' = SliceEnd(i)
    BY <1>t, <2>1 DEF SliceEnd
  <2>4. SymbolsAreInTheirSlice'
    <3> SUFFICES ASSUME NEW j \in 1..symbol_count'
                 PROVE  /\ symbols[j].scope_depth \in 1..scope_count'
                        /\ j \in Slice(symbols[j].scope_depth)'
      BY <2>1 DEF SymbolsAreInTheirSlice
    <3>1. /\ symbols[j].scope_depth \in 1..scope_count
          /\ j \in Slice(symbols[j].scope_depth)
      BY <1>t, <2>1 DEF RInv, SymbolsAreInTheirSlice
    <3>2. symbols[j].scope_depth # scope_count
      BY <1>t, <2>1, <3>1 DEF Slice
    <3> QED BY <1>t, <2>1, <2>3, <3>1, <3>2 DEF Slice
  <2> QED BY <1>0, <2>2, <2>4 DEF RInv
<1>3. CASE UNCHANGED <<symbols, symbol_count, scopes, scope_count>>
  <2>1. PrefixesHaveLast'
    BY <1>3 DEF RInv, PrefixesHaveLast
  <2>2. SymbolsAreInTheirSlice'
    BY <1>3 DEF RInv, SymbolsAreInTheirSlice, Slice, SliceEnd
  <2> QED BY <1>0, <2>1, <2>2 DEF RInv
<1>4. CASE Dispose
  <2>1. PrefixesHaveLast' /\ SymbolsAreInTheirSlice'
    BY <1>4 DEF Dispose, PrefixesHaveLast, HasLast, SymbolsAreInTheirSlice
  <2> QED BY <1>0, <2>1 DEF RInv
<1>5. ASSUME NEW n \in Names, NEW t \in Types, NEW b \in BOOLEAN, Define(n, t, b)
      PROVE  RInv'
  <2> DEFINE s == [name |-> n, type_id |-> t, has_body |-> b,
                   scope_depth |-> scope_count]
  <2>4. s.name = n /\ s.scope_depth = scope_count
    OBVIOUS
  <2>5. /\ \A j \in 1..symbol_count : symbols'[j] = symbols[j]
        /\ symbols'[symbol_count + 1] = s
    BY <1>0, <1>5, DefineEffect
  <2>6. /\ symbol_count' = symbol_count + 1 /\ scope_count' = scope_count
        /\ scope_count > 0
        /\ \A i \in 1..scope_count :
             scopes'[i].first_symbol_index = scopes[i].first_symbol_index
    BY <1>0, <1>5, DefineEffect DEF Define
  <2> HIDE DEF s
  <2>7. PrefixesHaveLast'
    <3> SUFFICES ASSUME NEW c \in 0..symbol_count + 1
                 PROVE  HasLast(symbols', 0, c)
      BY <2>6 DEF PrefixesHaveLast
    <3> SUFFICES ASSUME NEW j \in 1..c
                 PROVE  \E k \in j..c :
                          /\ symbols'[k].name = symbols'[j].name
                          /\ \A m \in k + 1 .. c :
                               symbols'[m].name # symbols'[j].name
      BY <1>t DEF HasLast
    <3>1. CASE c \in 0..symbol_count
      <4>1. HasLast(symbols, 0, c)
        BY <3>1 DEF RInv, PrefixesHaveLast
      <4>2. PICK k \in j..c : /\ symbols[k].name = symbols[j].name
                              /\ \A m \in k + 1 .. c :
                                   symbols[m].name # symbols[j].name
        BY <4>1 DEF HasLast
      <4> QED BY <1>t, <2>5, <3>1, <4>2
    <3>2. CASE c = symbol_count + 1 /\ symbols'[j].name = n
      <4>1. c \in j..c /\ symbols'[c].name = n
        BY <1>t, <2>4, <2>5, <3>2
      <4>2. \A m \in c + 1 .. c : symbols'[m].name # n
        OBVIOUS
      <4> QED BY <3>2, <4>1, <4>2
    <3>3. CASE c = symbol_count + 1 /\ symbols'[j].name # n
      <4>1. j \in 1..symbol_count
        BY <1>t, <2>4, <2>5, <3>3
      <4>2. HasLast(symbols, 0, symbol_count)
        BY <1>t DEF RInv, PrefixesHaveLast
      <4>3. PICK k \in j..symbol_count :
                /\ symbols[k].name = symbols[j].name
                /\ \A m \in k + 1 .. symbol_count :
                     symbols[m].name # symbols[j].name
        BY <4>1, <4>2 DEF HasLast
      <4>4. /\ k \in j..c /\ symbols'[k].name = symbols'[j].name
            /\ \A m \in k + 1 .. c : symbols'[m].name # symbols'[j].name
        BY <1>t, <2>4, <2>5, <3>3, <4>1, <4>3
      <4> QED BY <4>4
    <3> QED BY <1>t, <3>1, <3>2, <3>3
  <2>8. \A i \in 1..scope_count : Slice(i) \subseteq Slice(i)'
    <3>1. \A i \in 1..scope_count :
             SliceEnd(i) <= SliceEnd(i)' /\ SliceEnd(i)' \in Nat
      BY <1>t, <2>6, RInvFacts DEF SliceEnd
    <3> QED BY <2>6, <3>1, RInvFacts DEF Slice
  <2>9. \A i \in {scope_count} : symbol_count + 1 \in Slice(i)'
    BY <1>t, <2>6, RInvFacts DEF Slice, SliceEnd
  <2>10. SymbolsAreInTheirSlice'
    BY <1>t, <2>4, <2>5, <2>6, <2>8, <2>9 DEF RInv, SymbolsAreInTheirSlice
  <2> QED BY <1>0, <2>7, <2>10 DEF RInv
<1>6. ASSUME NEW n \in Names, GiveBody(n) PROVE RInv'
  <2>1. PICK i \in LastMatch(n, scopes[scope_count].first_symbol_index) :
          symbols' = [symbols EXCEPT ![i].has_body = TRUE]
    BY <1>6 DEF GiveBody
  <2>2. UNCHANGED <<symbol_count, scopes, scope_count>> /\ scope_count > 0
    BY <1>6 DEF GiveBody
  <2>3. /\ \A j \in 1..symbol_count : symbols[j] \in Symbol
        /\ symbols \in Seq(Symbol \cup {Garbage})
        /\ symbol_count <= Len(symbols)
    BY <1>0 DEF IInv, TypeOK, SlotsInUseAreValid, Capacity
  <2>4. \A j \in 1..symbol_count :
          /\ symbols'[j].name = symbols[j].name
          /\ symbols'[j].scope_depth = symbols[j].scope_depth
    BY <1>t, <2>1, <2>3 DEF Symbol
  <2>5. PrefixesHaveLast'
    <3> SUFFICES ASSUME NEW c \in 0..symbol_count PROVE HasLast(symbols', 0, c)
      BY <2>2 DEF PrefixesHaveLast
    <3>1. HasLast(symbols, 0, c)
      BY DEF RInv, PrefixesHaveLast
    <3>2. \A j \in 1..c : symbols'[j].name = symbols[j].name
      BY <1>t, <2>4
    <3> QED BY <1>t, <3>1, <3>2 DEF HasLast
  <2>6. SymbolsAreInTheirSlice'
    BY <2>2, <2>4 DEF RInv, SymbolsAreInTheirSlice, Slice, SliceEnd
  <2> QED BY <1>0, <2>5, <2>6 DEF RInv
<1>7. Next \/ UNCHANGED vars
  OBVIOUS
<1>8. CASE AllocationFails \/ UNCHANGED vars
  BY <1>3, <1>8 DEF AllocationFails, vars
<1>9. CASE \E n \in Names : Lookup(n) \/ LookupCurrentScope(n)
  BY <1>3, <1>9 DEF Lookup, LookupCurrentScope
<1> QED BY <1>1, <1>2, <1>4, <1>5, <1>6, <1>7, <1>8, <1>9 DEF Next

\* env as a sequence.
LEMMA EnvIsSequence ==
  ASSUME RInv
  PROVE  /\ scope_count \in Nat
         /\ env \in Seq({env[i] : i \in 1..scope_count})
         /\ Len(env) = scope_count
         /\ \A i \in 1..scope_count :
              env[i] = MapOf(symbols, scopes[i].first_symbol_index, SliceEnd(i))
<1> DEFINE T == {env[i] : i \in 1..scope_count}
           m(i) == MapOf(symbols, scopes[i].first_symbol_index, SliceEnd(i))
<1>1. scope_count \in Nat
  BY RInvFacts
<1>2. env = [i \in 1..scope_count |-> m(i)]
  BY DEF env
<1>3. \A i \in 1..scope_count : m(i) \in T /\ env[i] = m(i)
  BY <1>2
<1> HIDE DEF T, m
<1>4. env \in Seq(T) /\ Len(env) = scope_count
  BY <1>1, <1>2, <1>3
<1> QED BY <1>1, <1>3, <1>4 DEF T, m

LEMMA EnvPrimed ==
  env' = [i \in 1..scope_count' |->
            MapOf(symbols', scopes'[i].first_symbol_index, SliceEnd(i)')]
BY DEF env

LEMMA AppendAsFunction ==
  ASSUME NEW S, NEW s \in Seq(S), NEW e
  PROVE  Append(s, e)
           = [i \in 1 .. Len(s) + 1 |-> IF i = Len(s) + 1 THEN e ELSE s[i]]
<1> DEFINE T == S \cup {e}
           f == [i \in 1 .. Len(s) + 1 |-> IF i = Len(s) + 1 THEN e ELSE s[i]]
<1>1. /\ Append(s, e) \in Seq(T) /\ Len(Append(s, e)) = Len(s) + 1
      /\ \A i \in 1..Len(s) : Append(s, e)[i] = s[i]
      /\ Append(s, e)[Len(s) + 1] = e
  OBVIOUS
<1>2. \A i \in 1 .. Len(s) + 1 : f[i] = Append(s, e)[i] /\ f[i] \in T
  BY <1>1
<1>3. f \in Seq(T) /\ Len(f) = Len(s) + 1
  OBVIOUS
<1> HIDE DEF f, T
<1>4. f = Append(s, e)
  BY <1>1, <1>2, <1>3, SeqEqual
<1> QED BY <1>4 DEF f

LEMMA PushScopeRefinesEnter ==
  ASSUME RInv, PushScope PROVE Promise!Enter
<1>1. /\ UNCHANGED <<symbols, symbol_count, answer>>
      /\ scope_count' = scope_count + 1
  BY DEF PushScope
<1>2. scope_count \in Nat /\ symbol_count \in Nat
  BY RInvFacts
<1>3. /\ \A i \in 1..scope_count : scopes'[i] = scopes[i]
      /\ \A i \in {scope_count + 1} :
           scopes'[i].first_symbol_index = symbol_count
  BY PushScopeEffect DEF RInv
<1>4. \A i \in 1..scope_count : SliceEnd(i)' = SliceEnd(i)
  BY <1>1, <1>2, <1>3 DEF SliceEnd
<1>5. \A i \in {scope_count + 1} : SliceEnd(i)' = symbol_count
  BY <1>1 DEF SliceEnd
<1> DEFINE none == [x \in {} |-> x]
<1>6. MapOf(symbols, symbol_count, symbol_count) = none
  <2>1. {symbols[j].name : j \in symbol_count + 1 .. symbol_count} = {}
    BY <1>2
  <2> QED BY <2>1 DEF MapOf
<1> HIDE DEF none
<1>7. env' = [i \in 1 .. Len(env) + 1 |->
                IF i = Len(env) + 1 THEN none ELSE env[i]]
  <2>1. \A i \in 1..scope_count :
          MapOf(symbols', scopes'[i].first_symbol_index, SliceEnd(i)') = env[i]
    BY <1>1, <1>3, <1>4, EnvIsSequence
  <2>2. \A i \in {scope_count + 1} :
          MapOf(symbols', scopes'[i].first_symbol_index, SliceEnd(i)') = none
    BY <1>1, <1>3, <1>5, <1>6
  <2>3. Len(env) = scope_count
    BY EnvIsSequence
  <2> QED BY <1>1, <1>2, <2>1, <2>2, <2>3, EnvPrimed
<1>8. env' = Append(env, none)
  <2>1. env \in Seq({env[i] : i \in 1..scope_count})
    BY EnvIsSequence
  <2> QED BY <1>7, <2>1, AppendAsFunction, Zenon
<1>9. UNCHANGED {Binding(s) : s \in answer}
  BY <1>1
<1> QED BY <1>8, <1>9 DEF Promise!Enter, none

LEMMA PopScopeRefinesLeave ==
  ASSUME RInv, PopScope PROVE Promise!Leave
<1>1. /\ UNCHANGED <<symbols, scopes, answer>> /\ scope_count > 0
      /\ scope_count' = scope_count - 1
      /\ symbol_count' = scopes[scope_count].first_symbol_index
  BY DEF PopScope
<1>2. /\ scope_count \in Nat /\ Len(env) = scope_count
      /\ env \in Seq({env[i] : i \in 1..scope_count})
  BY EnvIsSequence
<1>3. \A i \in 1..scope_count' : SliceEnd(i)' = SliceEnd(i)
  BY <1>1, <1>2 DEF SliceEnd
<1>4. \A i \in 1..scope_count' :
        MapOf(symbols', scopes'[i].first_symbol_index, SliceEnd(i)') = env[i]
  BY <1>1, <1>2, <1>3, EnvIsSequence
<1>5. env' = [i \in 1..scope_count - 1 |-> env[i]]
  BY <1>1, <1>4, EnvPrimed
<1>6. env' = SubSeq(env, 1, Len(env) - 1)
  BY <1>1, <1>2, <1>5
<1>7. UNCHANGED {Binding(s) : s \in answer}
  BY <1>1
<1> QED BY <1>1, <1>2, <1>6, <1>7 DEF Promise!Leave, Promise!Depth

\* A step that only replaces the innermost map changes env like an EXCEPT.
LEMMA InnermostReplaced ==
  ASSUME RInv, scope_count > 0, scope_count' = scope_count, NEW m,
         \A i \in 1 .. scope_count - 1 :
           MapOf(symbols', scopes'[i].first_symbol_index, SliceEnd(i)') = env[i],
         MapOf(symbols', scopes'[scope_count].first_symbol_index,
               SliceEnd(scope_count)') = m
  PROVE  env' = [env EXCEPT ![scope_count] = m]
<1>1. /\ scope_count \in Nat /\ Len(env) = scope_count
      /\ env \in Seq({env[i] : i \in 1..scope_count})
  BY EnvIsSequence
<1>2. env' = [i \in 1..scope_count |-> IF i = scope_count THEN m ELSE env[i]]
  <2>1. \A i \in 1..scope_count :
          MapOf(symbols', scopes'[i].first_symbol_index, SliceEnd(i)')
            = IF i = scope_count THEN m ELSE env[i]
    BY <1>1
  <2> QED BY <2>1, EnvPrimed
<1>3. DOMAIN env = 1..scope_count
  BY <1>1
<1> QED BY <1>2, <1>3

LEMMA DefineRefinesBind ==
  ASSUME RInv, NEW n \in Names, NEW t \in Types, NEW b \in BOOLEAN,
         Define(n, t, b)
  PROVE  Promise!Bind(n, [type_id |-> t, has_body |-> b])
<1> DEFINE s == [name |-> n, type_id |-> t, has_body |-> b,
                 scope_depth |-> scope_count]
<1>1. /\ scope_count > 0 /\ scope_count' = scope_count
      /\ symbol_count' = symbol_count + 1 /\ UNCHANGED answer
  BY DEF Define
<1>2. /\ scope_count \in Nat /\ symbol_count \in Nat /\ Len(env) = scope_count
  BY RInvFacts, EnvIsSequence
<1>3. /\ \A j \in 1..symbol_count : symbols'[j] = symbols[j]
      /\ symbols'[symbol_count + 1] = s
      /\ \A i \in 1..scope_count :
           scopes'[i].first_symbol_index = scopes[i].first_symbol_index
  BY DefineEffect DEF RInv
<1>4. s.name = n /\ Binding(s) = [type_id |-> t, has_body |-> b]
  BY DEF Binding
<1> HIDE DEF s
<1>5. \A i \in 1 .. scope_count - 1 :
        MapOf(symbols', scopes'[i].first_symbol_index, SliceEnd(i)') = env[i]
  <2> SUFFICES ASSUME NEW i \in 1 .. scope_count - 1
               PROVE  MapOf(symbols', scopes'[i].first_symbol_index,
                            SliceEnd(i)') = env[i]
    OBVIOUS
  <2>1. SliceEnd(i)' = SliceEnd(i)
    BY <1>1, <1>2, <1>3 DEF SliceEnd
  <2> DEFINE from == scopes[i].first_symbol_index
             to == SliceEnd(i)
  <2>2. /\ from \in Nat /\ to \in Nat /\ to <= symbol_count
        /\ HasLast(symbols, from, to)
    BY <1>2, RInvFacts
  <2>3. env[i] = MapOf(symbols, from, to)
    BY <1>2, EnvIsSequence
  <2>4. scopes'[i].first_symbol_index = from /\ SliceEnd(i)' = to
    BY <1>2, <1>3, <2>1
  <2> HIDE DEF from, to
  <2>5. \A j \in from + 1 .. to : symbols'[j] = symbols[j]
    BY <1>2, <1>3, <2>2
  <2>6. MapOf(symbols', from, to) = MapOf(symbols, from, to)
    BY <2>2, <2>5, MapOfUnchangedSlice
  <2> QED BY <2>3, <2>4, <2>6
<1>6. MapOf(symbols', scopes'[scope_count].first_symbol_index,
            SliceEnd(scope_count)')
        = Promise!Bound(env[scope_count], n, Binding(s))
  <2> DEFINE from == scopes[scope_count].first_symbol_index
             to == symbol_count
  <2>1. SliceEnd(scope_count) = to
    BY DEF SliceEnd
  <2>2. /\ from \in Nat /\ to \in Nat /\ from <= to
        /\ HasLast(symbols, from, to)
    BY <1>1, <1>2, <2>1, RInvFacts
  <2>3. env[scope_count] = MapOf(symbols, from, to)
    BY <1>1, <1>2, <2>1, EnvIsSequence
  <2>4. scopes'[scope_count].first_symbol_index = from
    BY <1>1, <1>2, <1>3
  <2>5. SliceEnd(scope_count)' = to + 1
    BY <1>1 DEF SliceEnd
  <2>6. /\ \A j \in from + 1 .. to : symbols'[j] = symbols[j]
        /\ symbols'[to + 1] = s
    BY <1>3, <2>2
  <2> HIDE DEF from, to
  <2>7. MapOf(symbols', from, to + 1)
          = Promise!Bound(MapOf(symbols, from, to), n, Binding(symbols'[to + 1]))
    <3>1. symbols'[to + 1].name = n
      BY <1>4, <2>6
    <3>2. \A j \in from + 1 .. to : symbols'[j] = symbols[j]
      BY <2>6
    <3> QED BY <2>2, <3>1, <3>2, MapOfLongerSlice, SMTT(60)
  <2> QED BY <2>3, <2>4, <2>5, <2>6, <2>7
<1>7. env' = [env EXCEPT ![scope_count] =
                Promise!Bound(env[scope_count], n, Binding(s))]
  BY <1>1, <1>5, <1>6, InnermostReplaced
<1>8. UNCHANGED {Binding(x) : x \in answer}
  BY <1>1
<1> QED BY <1>1, <1>2, <1>4, <1>7, <1>8 DEF Promise!Bind, Promise!Depth

LEMMA GiveBodyRefinesBind ==
  ASSUME RInv, NEW n \in Names, GiveBody(n)
  PROVE  \E b \in Promise!Bindings : Promise!Bind(n, b)
<1> DEFINE from == scopes[scope_count].first_symbol_index
           to == symbol_count
<1>1. PICK p \in LastMatch(n, from) :
        symbols' = [symbols EXCEPT ![p].has_body = TRUE]
  BY DEF GiveBody
<1>2. UNCHANGED <<symbol_count, scopes, scope_count, answer>> /\ scope_count > 0
  BY DEF GiveBody
<1>3. /\ scope_count \in Nat /\ to \in Nat /\ Len(env) = scope_count
      /\ from \in Nat /\ from <= to /\ SliceEnd(scope_count) = to
      /\ HasLast(symbols, from, to)
  <2>1. SliceEnd(scope_count) = to
    BY DEF SliceEnd
  <2> QED BY <1>2, <2>1, RInvFacts, EnvIsSequence
<1>4. /\ p \in from + 1 .. to /\ symbols[p].name = n
      /\ \A m \in p + 1 .. to : symbols[m].name # n
  BY <1>1 DEF LastMatch
<1>5. /\ symbols \in Seq(Symbol \cup {Garbage}) /\ p \in 1..Len(symbols)
      /\ symbols[p] \in Symbol
  BY <1>3, <1>4 DEF RInv, IInv, TypeOK, SlotsInUseAreValid, Capacity
<1>6. /\ \A j \in 1..symbol_count : j # p => symbols'[j] = symbols[j]
      /\ symbols'[p] = [symbols[p] EXCEPT !.has_body = TRUE]
  <2>1. symbol_count <= Len(symbols)
    BY DEF RInv, IInv, SlotsInUseAreValid, Capacity
  <2> DEFINE q == [symbols[p] EXCEPT !.has_body = TRUE]
  <2>2. symbols' = [symbols EXCEPT ![p] = q]
    BY <1>1
  <2> HIDE DEF q
  <2>3. /\ \A j \in 1..symbol_count : j # p => symbols'[j] = symbols[j]
        /\ symbols'[p] = q
    BY <1>3, <1>5, <2>1, <2>2
  <2> QED BY <2>3 DEF q
<1>7. /\ symbols'[p].name = n
      /\ Binding(symbols'[p]) \in Promise!Bindings
  BY <1>4, <1>5, <1>6 DEF Symbol, Binding, Promise!Bindings
<1>8. \A i \in 1 .. scope_count - 1 :
        MapOf(symbols', scopes'[i].first_symbol_index, SliceEnd(i)') = env[i]
  <2> SUFFICES ASSUME NEW i \in 1 .. scope_count - 1
               PROVE  MapOf(symbols', scopes'[i].first_symbol_index,
                            SliceEnd(i)') = env[i]
    OBVIOUS
  <2> DEFINE first == scopes[i].first_symbol_index
             last == SliceEnd(i)
  <2>1. SliceEnd(i)' = last /\ scopes'[i].first_symbol_index = first
    BY <1>2 DEF SliceEnd
  <2>2. /\ first \in Nat /\ last \in Nat /\ HasLast(symbols, first, last)
    BY <1>3, RInvFacts
  <2>3. last <= from
    <3>1. last = scopes[i + 1].first_symbol_index
      BY <1>3 DEF SliceEnd
    <3> QED BY <1>3, <3>1 DEF RInv, IInv, OffsetsAscend
  <2>4. env[i] = MapOf(symbols, first, last)
    BY <1>3, EnvIsSequence
  <2> HIDE DEF first, last, from, to
  <2>5. \A j \in first + 1 .. last : j # p /\ j \in 1..to
    BY <1>3, <1>4, <2>2, <2>3
  <2>6. \A j \in first + 1 .. last : symbols'[j] = symbols[j]
    BY <1>6, <2>5 DEF to
  <2>7. MapOf(symbols', first, last) = MapOf(symbols, first, last)
    BY <2>2, <2>6, MapOfUnchangedSlice
  <2> QED BY <2>1, <2>4, <2>7
<1>9. MapOf(symbols', scopes'[scope_count].first_symbol_index,
            SliceEnd(scope_count)')
        = Promise!Bound(env[scope_count], n, Binding(symbols'[p]))
  <2>1. /\ scopes'[scope_count].first_symbol_index = from
        /\ SliceEnd(scope_count)' = to
    BY <1>2 DEF SliceEnd
  <2>2. env[scope_count] = MapOf(symbols, from, to)
    BY <1>2, <1>3, EnvIsSequence
  <2>3. \A j \in from + 1 .. to : j # p => symbols'[j] = symbols[j]
    BY <1>3, <1>6
  <2> HIDE DEF from, to
  <2>4. MapOf(symbols', from, to)
          = Promise!Bound(MapOf(symbols, from, to), symbols[p].name,
                          Binding(symbols'[p]))
    BY <1>3, <1>4, <1>7, <2>3, MapOfRewrittenSlice
  <2> QED BY <1>4, <2>1, <2>2, <2>4
<1> HIDE DEF from, to
<1>10. env' = [env EXCEPT ![scope_count] =
                 Promise!Bound(env[scope_count], n, Binding(symbols'[p]))]
  BY <1>2, <1>8, <1>9, InnermostReplaced
<1>11. UNCHANGED {Binding(x) : x \in answer}
  BY <1>2
<1>12. Promise!Bind(n, Binding(symbols'[p]))
  BY <1>2, <1>3, <1>10, <1>11 DEF Promise!Bind, Promise!Depth
<1> QED BY <1>7, <1>12

\* What a scope's map says of a name, in terms of the slots.
LEMMA MapOfSlice ==
  ASSUME RInv, NEW i \in 1..scope_count, NEW n
  PROVE  /\ n \in DOMAIN env[i] <=> \E j \in Slice(i) : symbols[j].name = n
         /\ \A p \in Slice(i) :
              /\ symbols[p].name = n
              /\ \A m \in p + 1 .. SliceEnd(i) : symbols[m].name # n
              => env[i][n] = Binding(symbols[p])
<1> DEFINE from == scopes[i].first_symbol_index
           to == SliceEnd(i)
<1>1. from \in Nat /\ to \in Nat
  BY RInvFacts
<1>2. env[i] = MapOf(symbols, from, to)
  BY EnvIsSequence
<1>3. Slice(i) = from + 1 .. to
  BY DEF Slice
<1> HIDE DEF from, to
<1>4. DOMAIN env[i] = {symbols[j].name : j \in from + 1 .. to}
  BY <1>2 DEF MapOf
<1>5. ASSUME NEW p \in from + 1 .. to, symbols[p].name = n,
             \A m \in p + 1 .. to : symbols[m].name # n
      PROVE  env[i][n] = Binding(symbols[p])
  <2>1. Last(symbols, from, to, n) = p
    BY <1>1, <1>5, LastIsUnique, SMTT(60)
  <2>2. n \in {symbols[j].name : j \in from + 1 .. to}
    BY <1>5
  <2> QED BY <1>2, <2>1, <2>2 DEF MapOf
<1> QED BY <1>3, <1>4, <1>5 DEF to

LEMMA LookupRefinesAsk ==
  ASSUME RInv, NEW n \in Names, Lookup(n) PROVE Promise!Ask(n)
<1>0. /\ UNCHANGED <<symbols, symbol_count, scopes, scope_count>>
      /\ answer' = {symbols[p] : p \in LastMatch(n, 0)}
  BY DEF Lookup
<1>1. /\ scope_count \in Nat /\ symbol_count \in Nat /\ Len(env) = scope_count
  BY RInvFacts, EnvIsSequence
<1> DEFINE K == Promise!Knows(n)
<1>2. K = {i \in 1..scope_count : \E j \in Slice(i) : symbols[j].name = n}
  BY <1>1, MapOfSlice DEF Promise!Knows, Promise!Depth
<1>3. \A i \in 1..scope_count : Slice(i) \subseteq 1..symbol_count
  BY <1>1, RInvFacts DEF Slice
<1> HIDE DEF K
<1>4. ASSUME NEW p \in LastMatch(n, 0)
      PROVE  /\ symbols[p].scope_depth \in K
             /\ \A j \in K : j <= symbols[p].scope_depth
             /\ env[symbols[p].scope_depth][n] = Binding(symbols[p])
  <2> DEFINE d == symbols[p].scope_depth
  <2>1. /\ p \in 1..symbol_count /\ symbols[p].name = n
        /\ \A j \in p + 1 .. symbol_count : symbols[j].name # n
    BY <1>1 DEF LastMatch
  <2>2. d \in 1..scope_count /\ p \in Slice(d)
    BY <2>1 DEF RInv, SymbolsAreInTheirSlice
  <2> HIDE DEF d
  <2>3. d \in K
    BY <1>2, <2>1, <2>2
  <2>4. ASSUME NEW j \in K PROVE j <= d
    <3>1. j \in 1..scope_count
      BY <1>2
    <3>2. PICK q \in Slice(j) : symbols[q].name = n
      BY <1>2
    <3>3. q <= p /\ q \in 1..symbol_count
      BY <1>1, <1>3, <2>1, <3>1, <3>2
    <3>4. ASSUME j > d PROVE FALSE
      <4>1. SliceEnd(d) <= scopes[j].first_symbol_index
        BY <1>1, <2>2, <3>1, <3>4 DEF SliceEnd, RInv, IInv, OffsetsAscend
      <4>2. scopes[j].first_symbol_index < q /\ p <= SliceEnd(d)
        BY <2>1, <2>2, <3>1, <3>2, <3>3, RInvFacts DEF Slice
      <4> QED BY <2>1, <2>2, <3>1, <3>3, <4>1, <4>2, RInvFacts
    <3> QED BY <2>2, <3>1, <3>4
  <2>5. env[d][n] = Binding(symbols[p])
    <3>1. \A m \in p + 1 .. SliceEnd(d) : symbols[m].name # n
      BY <1>1, <2>1, <2>2, RInvFacts
    <3> QED BY <2>1, <2>2, <3>1, MapOfSlice
  <2> QED BY <2>3, <2>4, <2>5 DEF d
<1>5. ASSUME NEW i \in K, \A j \in K : j <= i
      PROVE  \E p \in LastMatch(n, 0) : env[i][n] = Binding(symbols[p])
  <2>1. PICK q \in 1..symbol_count : symbols[q].name = n
    BY <1>2, <1>3
  <2>2. HasLast(symbols, 0, symbol_count)
    BY <1>1 DEF RInv, PrefixesHaveLast
  <2>3. PICK p \in q..symbol_count :
           /\ symbols[p].name = n
           /\ \A m \in p + 1 .. symbol_count : symbols[m].name # n
    BY <2>1, <2>2 DEF HasLast
  <2>4. p \in LastMatch(n, 0)
    BY <1>1, <2>1, <2>3 DEF LastMatch
  <2>5. symbols[p].scope_depth = i
    BY <1>2, <1>4, <1>5, <2>4
  <2> QED BY <1>4, <2>4, <2>5
<1>6. {Binding(s) : s \in answer'} =
        {env[i][n] : i \in {k \in K : \A j \in K : j <= k}}
  <2>1. {Binding(s) : s \in answer'} = {Binding(symbols[p]) : p \in LastMatch(n, 0)}
    BY <1>0
  <2>2. ASSUME NEW p \in LastMatch(n, 0)
        PROVE  Binding(symbols[p]) \in
                 {env[i][n] : i \in {k \in K : \A j \in K : j <= k}}
    BY <1>4
  <2> QED BY <1>5, <2>1, <2>2
<1>7. UNCHANGED env
  <2>1. \A i \in 1..scope_count : SliceEnd(i)' = SliceEnd(i)
    BY <1>0 DEF SliceEnd
  <2> QED BY <1>0, <2>1, EnvPrimed DEF env
<1> QED BY <1>6, <1>7 DEF Promise!Ask, K, Binding

LEMMA LookupCurrentScopeRefinesAskInnermost ==
  ASSUME RInv, NEW n \in Names, LookupCurrentScope(n)
  PROVE  Promise!AskInnermost(n)
<1> DEFINE from == scopes[scope_count].first_symbol_index
<1>0. /\ UNCHANGED <<symbols, symbol_count, scopes, scope_count>>
      /\ scope_count > 0
      /\ answer' = {symbols[p] : p \in LastMatch(n, from)}
  BY DEF LookupCurrentScope
<1>1. /\ scope_count \in 1..scope_count /\ Len(env) = scope_count
      /\ from \in Nat /\ symbol_count \in Nat
  BY <1>0, RInvFacts, EnvIsSequence
<1>2. SliceEnd(scope_count) = symbol_count
  BY DEF SliceEnd
<1>3. Slice(scope_count) = from + 1 .. symbol_count
  BY <1>2 DEF Slice
<1>4. HasLast(symbols, from, symbol_count)
  BY <1>1, <1>2, RInvFacts
<1> HIDE DEF from
<1>5. \A p \in LastMatch(n, from) :
        n \in DOMAIN env[scope_count] /\ env[scope_count][n] = Binding(symbols[p])
  BY <1>1, <1>2, <1>3, MapOfSlice DEF LastMatch
<1>6. n \in DOMAIN env[scope_count] => LastMatch(n, from) # {}
  <2> SUFFICES ASSUME n \in DOMAIN env[scope_count]
               PROVE  \E p \in LastMatch(n, from) : TRUE
    OBVIOUS
  <2>1. PICK q \in from + 1 .. symbol_count : symbols[q].name = n
    BY <1>1, <1>3, MapOfSlice
  <2>2. PICK p \in q..symbol_count :
           /\ symbols[p].name = n
           /\ \A m \in p + 1 .. symbol_count : symbols[m].name # n
    BY <1>4, <2>1 DEF HasLast
  <2>3. p \in from + 1 .. symbol_count
    BY <1>1, <2>1
  <2> QED BY <2>2, <2>3 DEF LastMatch
<1>7. {Binding(s) : s \in answer'} =
        {env[i][n] : i \in {k \in {scope_count} : n \in DOMAIN env[k]}}
  <2>1. {Binding(s) : s \in answer'} =
          {Binding(symbols[p]) : p \in LastMatch(n, from)}
    BY <1>0
  <2> QED BY <1>5, <1>6, <2>1
<1>8. Promise!Knows(n) \cap {Promise!Depth}
        = {k \in {scope_count} : n \in DOMAIN env[k]}
  BY <1>1 DEF Promise!Knows, Promise!Depth
<1>9. UNCHANGED env
  <2>1. \A i \in 1..scope_count : SliceEnd(i)' = SliceEnd(i)
    BY <1>0 DEF SliceEnd
  <2> QED BY <1>0, <2>1, EnvPrimed DEF env
<1>10. Promise!Depth > 0
  BY <1>0, <1>1 DEF Promise!Depth
<1> QED BY <1>7, <1>8, <1>9, <1>10 DEF Promise!AskInnermost

\* The symbol table of fcc_symbol.c is a scoped environment: lookups see the
\* innermost latest definition, and popping a scope restores exactly the
\* bindings that were visible before it was pushed.
THEOREM TableIsScopedEnvironment == Spec => ImplementsScopedEnvironment
<1>1. Init => Promise!Init
  <2> SUFFICES ASSUME Init PROVE Promise!Init
    OBVIOUS
  <2>1. env = << >>
    BY DEF Init, env
  <2>2. {Binding(s) : s \in answer} = {}
    BY DEF Init
  <2> QED BY <2>1, <2>2 DEF Promise!Init
<1>2. RInv /\ [Next]_vars
        => [Promise!Next]_<<env, {Binding(s) : s \in answer}>>
  <2> SUFFICES ASSUME RInv, [Next]_vars
               PROVE  \/ Promise!Next
                      \/ UNCHANGED <<env, {Binding(s) : s \in answer}>>
    OBVIOUS
  <2>1. CASE PushScope
    BY <2>1, PushScopeRefinesEnter DEF Promise!Next
  <2>2. CASE PopScope
    BY <2>2, PopScopeRefinesLeave DEF Promise!Next
  <2>3. CASE AllocationFails \/ UNCHANGED vars
    <3>1. UNCHANGED <<symbols, symbol_count, scopes, scope_count, answer>>
      BY <2>3 DEF AllocationFails, vars
    <3>2. UNCHANGED env
      <4>1. \A i \in 1..scope_count : SliceEnd(i)' = SliceEnd(i)
        BY <3>1 DEF SliceEnd
      <4> QED BY <3>1, <4>1, EnvPrimed DEF env
    <3> QED BY <3>1, <3>2
  <2>4. CASE Dispose
    <3>1. env' = << >>
      BY <2>4 DEF Dispose, env
    <3>2. UNCHANGED {Binding(s) : s \in answer}
      BY <2>4 DEF Dispose
    <3> QED BY <3>1, <3>2 DEF Promise!Next, Promise!Forget
  <2>5. ASSUME NEW n \in Names, NEW t \in Types, NEW b \in BOOLEAN,
               Define(n, t, b)
        PROVE  Promise!Next
    <3>1. Promise!Bind(n, [type_id |-> t, has_body |-> b])
      BY <2>5, DefineRefinesBind
    <3>2. [type_id |-> t, has_body |-> b] \in Promise!Bindings
      BY DEF Promise!Bindings
    <3> QED BY <3>1, <3>2 DEF Promise!Next
  <2>6. ASSUME NEW n \in Names, Lookup(n) PROVE Promise!Next
    BY <2>6, LookupRefinesAsk DEF Promise!Next
  <2>7. ASSUME NEW n \in Names, LookupCurrentScope(n) PROVE Promise!Next
    BY <2>7, LookupCurrentScopeRefinesAskInnermost DEF Promise!Next
  <2>8. ASSUME NEW n \in Names, GiveBody(n) PROVE Promise!Next
    BY <2>8, GiveBodyRefinesBind DEF Promise!Next
  <2> QED BY <2>1, <2>2, <2>3, <2>4, <2>5, <2>6, <2>7, <2>8 DEF Next
<1>3. Spec => []RInv
  BY InitEstablishesRInv, NextKeepsRInv, PTL DEF Spec
<1> QED BY <1>1, <1>2, <1>3, PTL
     DEF Spec, ImplementsScopedEnvironment, Promise!Spec
=============================================================================
