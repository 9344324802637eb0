------------------------- MODULE FccInterningProofs -------------------------
(***************************************************************************)
(* Proofs about the two tables that hold each thing once.                  *)
(*                                                                         *)
(* Types: no type has two places, what a place stands for is stable,       *)
(* records share no members, and what analysis compares of two records     *)
(* tells whether they are the same.  For any types, sizes and bounds.      *)
(* With them, proofs about the constants that the lengths of arrays come   *)
(* from, for words of any width.                                           *)
(*                                                                         *)
(* Names: they are interned whatever the hash function, the names, the     *)
(* size of the first table and the order of the calls.  What is said of    *)
(* one table uses only that one's variables and assumptions.               *)
(***************************************************************************)
EXTENDS FccTypes, FccConstants, FccStringPool, WellFoundedInduction,
        FiniteSetTheorems, TLAPS

-----------------------------------------------------------------------------
(***************************************************************************)
(* Sequences of anything.                                                  *)
(***************************************************************************)
IsSequence(s) == \E S : s \in Seq(S)

LEMMA Appended ==
  ASSUME NEW s, IsSequence(s), NEW e
  PROVE  /\ IsSequence(Append(s, e)) /\ Len(s) \in Nat /\ Len(Append(s, e)) = Len(s) + 1
         /\ \A i \in 1 .. Len(s) : Append(s, e)[i] = s[i]
         /\ Append(s, e)[Len(s) + 1] = e
<1>1. PICK S : s \in Seq(S)
  BY DEF IsSequence
<1>2. s \in Seq(S \cup {e})
  BY <1>1
<1>3. Append(s, e) \in Seq(S \cup {e})
  BY <1>2
<1>4. IsSequence(Append(s, e))
  BY <1>3 DEF IsSequence
<1> QED BY <1>2, <1>4

LEMMA Joined ==
  ASSUME NEW s, IsSequence(s), NEW t, IsSequence(t)
  PROVE  /\ IsSequence(s \o t) /\ Len(s) \in Nat /\ Len(t) \in Nat
         /\ Len(s \o t) = Len(s) + Len(t)
         /\ \A i \in 1 .. Len(s) : (s \o t)[i] = s[i]
<1>1. PICK S : s \in Seq(S)
  BY DEF IsSequence
<1>2. PICK T : t \in Seq(T)
  BY DEF IsSequence
<1>3. s \in Seq(S \cup T) /\ t \in Seq(S \cup T)
  BY <1>1, <1>2
<1>4. s \o t \in Seq(S \cup T)
  BY <1>3
<1>5. IsSequence(s \o t)
  BY <1>4 DEF IsSequence
<1> QED BY <1>3, <1>5

LEMMA JoinedBehind ==
  ASSUME NEW s, IsSequence(s), NEW t, IsSequence(t)
  PROVE  \A k \in 1 .. Len(t) : (s \o t)[Len(s) + k] = t[k]
<1>1. PICK S : s \in Seq(S)
  BY DEF IsSequence
<1>2. PICK T : t \in Seq(T)
  BY DEF IsSequence
<1>3. s \in Seq(S \cup T) /\ t \in Seq(S \cup T)
  BY <1>1, <1>2
<1> QED BY <1>3

IsReplacement(t, s, i, e) == t = [s EXCEPT ![i] = e]
LEMMA Replaced ==
  ASSUME NEW s, IsSequence(s), NEW i \in 1 .. Len(s), NEW e, NEW t, IsReplacement(t, s, i, e)
  PROVE  /\ IsSequence(t) /\ Len(s) \in Nat /\ Len(t) = Len(s)
         /\ \A j \in 1 .. Len(s) : t[j] = IF j = i THEN e ELSE s[j]
<1>1. PICK S : s \in Seq(S)
  BY DEF IsSequence
<1>2. s \in Seq(S \cup {e})
  BY <1>1
<1>3. t \in Seq(S \cup {e}) /\ Len(t) = Len(s)
  BY <1>2 DEF IsReplacement
<1>4. DOMAIN s = 1 .. Len(s) /\ s = [j \in DOMAIN s |-> s[j]]
  BY <1>1
<1>5. t = [j \in DOMAIN s |-> IF j = i THEN e ELSE s[j]]
  BY <1>4 DEF IsReplacement
<1>6. IsSequence(t)
  BY <1>3 DEF IsSequence
<1> QED BY <1>1, <1>3, <1>4, <1>5, <1>6

-----------------------------------------------------------------------------
(***************************************************************************)
(* The inductive invariant.                                                *)
(***************************************************************************)
IsRecord(t) == t.kind \in {"struct", "union"}
IsTagged(t) == t.kind \in {"struct", "union", "enum"}

\* The shapes of types; the slice of a function lies in the array.
IsFunctionEntry(t, array) ==
  /\ "first" \in DOMAIN t /\ t.first \in Nat /\ t.count \in Nat
  /\ t.first + t.count <= Len(array)
IsRecordEntry(t) == t.first \in Nat /\ t.count \in Nat /\ t.complete \in BOOLEAN
IsEntry(t, array) ==
  /\ t = [f \in DOMAIN t |-> t[f]] /\ {"kind", "qualifiers"} \subseteq DOMAIN t
  /\ t.kind = "function" => IsFunctionEntry(t, array)
  /\ IsRecord(t) => IsRecordEntry(t)

ShapeInv ==
  /\ IsSequence(types) /\ IsSequence(members) /\ IsSequence(origins)
  /\ parameters \in Seq(Nat) /\ Len(origins) = Len(types)
  /\ \A i \in Ids : IsEntry(types[i], parameters)

\* What a type was qualified from was created, and is never const itself.
OriginInv(i) ==
  /\ ~IsTagged(types[i]) => origins[i] = {}
  /\ IsTagged(types[i]) =>
       /\ origins[i] # {} /\ origins[i] \subseteq Ids
       /\ \A r \in origins[i] : IsCreated(r) /\ types[r].kind = types[i].kind
       /\ IsCreated(i) <=> ~IsConst(types[i])

\* What const does not change of a record.
Agree(t, u) ==
  /\ t.kind = u.kind /\ t.tag = u.tag /\ t.first = u.first /\ t.count = u.count
  /\ t.size = u.size /\ t.alignment = u.alignment /\ t.complete = u.complete

HasMembers(t) == t.count >= 1 /\ t.first + t.count <= Len(members)

RecordInv(i) ==
  /\ ~types[i].complete => types[i].count = 0
  /\ types[i].complete => HasMembers(types[i]) /\ \A r \in origins[i] : Agree(types[i], types[r])

\* No two records have a member in common.
MembersAreApart ==
  \A i, j \in Records :
    IsCreated(i) /\ IsCreated(j) /\ types[i].complete /\ types[j].complete /\ i # j =>
      \/ types[i].first + types[i].count <= types[j].first
      \/ types[j].first + types[j].count <= types[i].first

TypesInv ==
  /\ ShapeInv
  /\ \A i \in Ids : OriginInv(i)
  /\ \A i \in Records : RecordInv(i)
  /\ MembersAreApart
  /\ NoTypeTwice

LEMMA InitEstablishesTypesInv == Init => TypesInv
<1> SUFFICES ASSUME Init PROVE TypesInv
  OBVIOUS
<1>1. types = << >> /\ members = << >> /\ origins = << >> /\ parameters = << >>
  BY DEF Init
<1>2. IsSequence(<< >>)
  <2>1. << >> \in Seq({})
    OBVIOUS
  <2> QED BY <2>1 DEF IsSequence
<1>3. Ids = {} /\ Records = {}
  BY <1>1 DEF Ids, Records
<1> QED BY <1>1, <1>2, <1>3 DEF TypesInv, ShapeInv, MembersAreApart, NoTypeTwice

\* Entries stay entries when the array of parameters grows.
Extends(longer, array) ==
  /\ longer \in Seq(Nat) /\ Len(array) <= Len(longer)
  /\ \A k \in 1 .. Len(array) : longer[k] = array[k]

LEMMA EntriesStay ==
  ASSUME NEW t, NEW array \in Seq(Nat), NEW longer, Extends(longer, array), IsEntry(t, array)
  PROVE  /\ IsEntry(t, longer)
         /\ t.kind = "function" => Slice(longer, t) = Slice(array, t)
<1>1. IsEntry(t, longer)
  BY DEF IsEntry, IsFunctionEntry, IsRecordEntry, Extends
<1>2. ASSUME t.kind = "function" PROVE Slice(longer, t) = Slice(array, t)
  <2>1. IsFunctionEntry(t, array)
    BY <1>2 DEF IsEntry, IsRecordEntry, IsRecord
  <2>2. \A k \in 1 .. t.count : t.first + k \in 1 .. Len(array)
    BY <2>1 DEF IsFunctionEntry
  <2>3. \A k \in 1 .. t.count : longer[t.first + k] = array[t.first + k]
    BY <2>2 DEF Extends
  <2> QED BY <2>3 DEF Slice
<1> QED BY <1>1, <1>2

LEMMA SpellingStays ==
  ASSUME NEW t, NEW array \in Seq(Nat), NEW longer, Extends(longer, array), IsEntry(t, array)
  PROVE  Spelled(t, longer) = Spelled(t, array)
BY EntriesStay DEF Spelled

\* Matching is saying the same.
LEMMA MatchingIsSayingTheSame ==
  ASSUME NEW s, NEW t, NEW array, IsEntry(s, array), IsEntry(t, array)
  PROVE  Matches(s, t, array) <=> Spelled(s, array) = Spelled(t, array)
<1>1. CASE s.kind = "function" /\ t.kind = "function"
  BY <1>1 DEF Matches, Spelled
<1>2. CASE s.kind # "function" /\ t.kind # "function"
  BY <1>2 DEF Matches, Spelled
<1>3. ASSUME NEW u, NEW v, IsEntry(u, array), u.kind = "function", v.kind # "function"
      PROVE  u # v /\ Spelled(u, array) # Spelled(v, array)
  <2>1. IsFunctionEntry(u, array)
    BY <1>3 DEF IsEntry, IsRecordEntry, IsRecord
  <2>2. [u EXCEPT !.first = 0].kind = "function"
    BY <1>3, <2>1 DEF IsEntry, IsFunctionEntry
  <2>3. Spelled(u, array).t.kind = "function" /\ Spelled(v, array).t.kind # "function"
    BY <1>3, <2>2 DEF Spelled
  <2> QED BY <1>3, <2>3
<1>4. CASE s.kind = "function" /\ t.kind # "function"
  <2>1. s # t /\ Spelled(s, array) # Spelled(t, array)
    BY <1>3, <1>4
  <2> QED BY <1>4, <2>1 DEF Matches
<1>5. CASE s.kind # "function" /\ t.kind = "function"
  <2>1. s # t /\ Spelled(s, array) # Spelled(t, array)
    BY <1>3, <1>5
  <2> QED BY <1>5, <2>1 DEF Matches
<1> QED BY <1>1, <1>2, <1>4, <1>5

-----------------------------------------------------------------------------
(***************************************************************************)
(* Looking for a type, and appending it.                                   *)
(***************************************************************************)
\* What the callers of Intern say of t and from.
MayIntern(t, array, from) ==
  /\ IsEntry(t, array) /\ Extends(array, parameters)
  /\ ~IsTagged(t) => from = {}
  /\ IsTagged(t) =>
       /\ IsConst(t) /\ from # {} /\ from \subseteq Ids
       /\ \A r \in from : IsCreated(r) /\ types[r].kind = t.kind
  /\ IsRecord(t) =>
       /\ ~t.complete => t.count = 0
       /\ t.complete => HasMembers(t) /\ \A r \in from : Agree(t, types[r])

LEMMA FoundKeepsTypesInv ==
  ASSUME TypesInv, NEW t, NEW array, NEW from, MayIntern(t, array, from),
         NEW i \in Ids, Matches(types[i], t, array),
         parameters' = array, IsReplacement(origins', origins, i, origins[i] \cup from),
         UNCHANGED <<types, members>>
  PROVE  TypesInv'
<1> USE DEF Ids, Records
<1>1. parameters \in Seq(Nat) /\ Extends(array, parameters) /\ array \in Seq(Nat)
  BY DEF TypesInv, ShapeInv, MayIntern, Extends
<1>2. \A j \in Ids : IsEntry(types[j], array) /\ Spelled(types[j], array) = Spelled(types[j], parameters)
  BY <1>1, EntriesStay, SpellingStays DEF TypesInv, ShapeInv
<1>3. /\ IsSequence(origins') /\ Len(origins') = Len(origins) /\ Len(origins) = Len(types)
      /\ \A j \in Ids : origins'[j] = IF j = i THEN origins[i] \cup from ELSE origins[j]
  <2>1. IsSequence(origins) /\ i \in 1 .. Len(origins) /\ Len(origins) = Len(types)
    BY DEF TypesInv, ShapeInv
  <2> DEFINE e == origins[i] \cup from
  <2> HIDE DEF e
  <2>2. IsReplacement(origins', origins, i, e)
    BY DEF e
  <2>3. /\ IsSequence(origins') /\ Len(origins) \in Nat /\ Len(origins') = Len(origins)
        /\ \A j \in 1 .. Len(origins) : origins'[j] = IF j = i THEN e ELSE origins[j]
    BY <2>1, <2>2, Replaced
  <2> QED BY <2>1, <2>3 DEF e
<1>4. ShapeInv'
  BY <1>1, <1>2, <1>3 DEF TypesInv, ShapeInv
<1>5. IsTagged(t) => types[i] = t
  <2> SUFFICES ASSUME IsTagged(t) PROVE types[i] = t
    OBVIOUS
  <2> QED BY DEF IsTagged, Matches
<1>6. \A j \in Ids : OriginInv(j)
  BY DEF TypesInv
<1>7. \A j \in Ids : IsCreated(j)' <=> IsCreated(j)
  <2>1. CASE ~IsTagged(t)
    BY <2>1, <1>3 DEF MayIntern, IsCreated
  <2>2. CASE IsTagged(t)
    <3>1. ~IsCreated(i) /\ \A r \in origins[i] \cup from : IsCreated(r)
      BY <2>2, <1>5, <1>6 DEF OriginInv, MayIntern
    <3>2. origins'[i] # {i} /\ origins[i] # {i}
      BY <3>1, <1>3 DEF IsCreated
    <3> QED BY <3>2, <1>3 DEF IsCreated
  <2> QED BY <2>1, <2>2
<1>8. \A j \in Ids : OriginInv(j)'
  <2> SUFFICES ASSUME NEW j \in Ids PROVE OriginInv(j)'
    OBVIOUS
  <2>1. CASE ~IsTagged(t) \/ j # i
    <3>1. origins'[j] = origins[j]
      BY <2>1, <1>3 DEF MayIntern
    <3> QED BY <3>1, <1>6, <1>7 DEF OriginInv
  <2>2. CASE IsTagged(t) /\ j = i
    <3>1. /\ types[i] = t /\ origins'[i] = origins[i] \cup from /\ origins[i] \subseteq Ids
          /\ \A r \in origins[i] \cup from : IsCreated(r) /\ types[r].kind = t.kind
      BY <2>2, <1>3, <1>5, <1>6 DEF OriginInv, MayIntern
    <3>2. from # {} /\ from \subseteq Ids
      BY <2>2 DEF MayIntern
    <3>3. IsCreated(i)' <=> ~IsConst(types[i])
      BY <2>2, <3>1, <1>6, <1>7 DEF OriginInv
    <3> QED BY <2>2, <3>1, <3>2, <3>3, <1>7 DEF OriginInv
  <2> QED BY <2>1, <2>2
<1>9. \A j \in Records : RecordInv(j)'
  <2> SUFFICES ASSUME NEW j \in Records PROVE RecordInv(j)'
    OBVIOUS
  <2>0. RecordInv(j)
    BY DEF TypesInv
  <2>1. CASE ~IsTagged(t) \/ j # i
    <3>1. origins'[j] = origins[j]
      BY <2>1, <1>3 DEF MayIntern
    <3> QED BY <3>1, <2>0 DEF RecordInv, HasMembers, Agree
  <2>2. CASE IsTagged(t) /\ j = i
    <3>1. types[i] = t /\ origins'[i] = origins[i] \cup from /\ IsRecord(t)
      BY <2>2, <1>3, <1>5 DEF IsRecord
    <3> QED BY <2>0, <2>2, <3>1 DEF RecordInv, HasMembers, Agree, MayIntern
  <2> QED BY <2>1, <2>2
<1>10. MembersAreApart'
  BY <1>7 DEF TypesInv, MembersAreApart
<1>11. NoTypeTwice'
  BY <1>2, <1>7 DEF TypesInv, NoTypeTwice
<1>12. Ids' = Ids /\ Records' = Records
  OBVIOUS
<1> QED BY <1>4, <1>8, <1>9, <1>10, <1>11, <1>12 DEF TypesInv

\* A new entry at the end: one that was not found, or a record or an enumeration that
\* is made without looking.
LEMMA AppendKeepsTypesInv ==
  ASSUME TypesInv, NEW t, NEW array, NEW from, IsEntry(t, array), Extends(array, parameters),
         parameters' = array, types' = Append(types, t), origins' = Append(origins, from),
         UNCHANGED members,
         \/ /\ MayIntern(t, array, from)
            /\ \A i \in Ids : ~Matches(types[i], t, array)
         \/ /\ IsTagged(t) /\ ~IsConst(t) /\ from = {Len(types) + 1}
            /\ IsRecord(t) => ~t.complete /\ t.count = 0
  PROVE  TypesInv'
<1>0. PICK n : n = Len(types) + 1
  OBVIOUS
<1> DEFINE creates == from = {n}
<1>1. parameters \in Seq(Nat) /\ array \in Seq(Nat) /\ Len(types) \in Nat /\ Len(origins) = Len(types)
  <2>1. Len(types) \in Nat
    BY Appended DEF TypesInv, ShapeInv
  <2> QED BY <2>1 DEF TypesInv, ShapeInv, Extends
<1>2. \A j \in Ids : IsEntry(types[j], array) /\ Spelled(types[j], array) = Spelled(types[j], parameters)
  BY <1>1, EntriesStay, SpellingStays DEF TypesInv, ShapeInv
<1>3. /\ IsSequence(types') /\ Len(types') = n /\ types'[n] = t
      /\ \A j \in Ids : types'[j] = types[j]
  BY <1>0, Appended DEF TypesInv, ShapeInv, Ids
<1>4. /\ IsSequence(origins') /\ Len(origins') = n /\ origins'[n] = from
      /\ \A j \in Ids : origins'[j] = origins[j]
  <2>1. IsSequence(origins)
    BY DEF TypesInv, ShapeInv
  <2>2. /\ IsSequence(origins') /\ Len(origins') = Len(origins) + 1
        /\ \A j \in 1 .. Len(origins) : origins'[j] = origins[j]
        /\ origins'[Len(origins) + 1] = from
    BY <2>1, Appended
  <2> QED BY <2>2, <1>0, <1>1 DEF Ids
<1>5. Ids' = Ids \cup {n} /\ n \notin Ids
  BY <1>0, <1>1, <1>3 DEF Ids
<1>6. ShapeInv'
  <2>1. \A j \in Ids' : IsEntry(types'[j], array)
    BY <1>2, <1>3, <1>5
  <2> QED BY <2>1, <1>1, <1>3, <1>4 DEF TypesInv, ShapeInv
<1>7. \A j \in Ids : OriginInv(j)
  BY DEF TypesInv
<1>8. \A j \in Ids : IsCreated(j)' <=> IsCreated(j)
  BY <1>4 DEF IsCreated
<1>9. IsCreated(n)' <=> creates
  BY <1>4 DEF IsCreated
<1>10. ~creates => MayIntern(t, array, from) /\ \A i \in Ids : ~Matches(types[i], t, array)
  BY <1>0
<1>11. creates => IsTagged(t) /\ ~IsConst(t) /\ (IsRecord(t) => ~t.complete /\ t.count = 0)
  <2> SUFFICES ASSUME creates, MayIntern(t, array, from) PROVE FALSE
    BY <1>0
  <2>1. from \subseteq Ids
    BY DEF MayIntern
  <2> QED BY <1>0, <2>1, <1>5
<1> HIDE DEF creates
<1>12. \A j \in Ids' : OriginInv(j)'
  <2> SUFFICES ASSUME NEW j \in Ids' PROVE OriginInv(j)'
    OBVIOUS
  <2>1. CASE j \in Ids
    <3>1. OriginInv(j) /\ types'[j] = types[j] /\ origins'[j] = origins[j] /\ (IsCreated(j)' <=> IsCreated(j))
      BY <2>1, <1>3, <1>4, <1>7, <1>8
    <3>2. CASE ~IsTagged(types[j])
      BY <3>1, <3>2 DEF OriginInv
    <3>3. CASE IsTagged(types[j])
      <4>1. origins[j] # {} /\ origins[j] \subseteq Ids /\ (IsCreated(j) <=> ~IsConst(types[j]))
            /\ \A r \in origins[j] : IsCreated(r) /\ types[r].kind = types[j].kind
        BY <3>1, <3>3 DEF OriginInv
      <4>2. \A r \in origins[j] : IsCreated(r)' /\ types'[r].kind = types[j].kind
        BY <4>1, <1>3, <1>8
      <4> QED BY <3>1, <4>1, <4>2, <1>5 DEF OriginInv
    <3> QED BY <3>2, <3>3
  <2>2. CASE j = n /\ creates
    BY <2>2, <1>3, <1>4, <1>5, <1>9, <1>11 DEF OriginInv, creates
  <2>3. CASE j = n /\ ~creates
    <3>1. MayIntern(t, array, from)
      BY <2>3, <1>10
    <3>2. \A r \in Ids : types'[r] = types[r]
      BY <1>3
    <3> QED BY <2>3, <3>1, <3>2, <1>3, <1>4, <1>5, <1>8, <1>9 DEF OriginInv, MayIntern
  <2> QED BY <2>1, <2>2, <2>3, <1>5
<1>13. \A j \in Records' : RecordInv(j)'
  <2> SUFFICES ASSUME NEW j \in Records' PROVE RecordInv(j)'
    OBVIOUS
  <2>0. j \in Ids' /\ IsRecord(types'[j])
    BY DEF Records, IsRecord
  <2>1. CASE j \in Ids
    <3>1. j \in Records /\ types'[j] = types[j] /\ origins'[j] = origins[j]
      BY <2>0, <2>1, <1>3, <1>4 DEF Records, IsRecord
    <3>2. RecordInv(j) /\ origins[j] \subseteq Ids
      BY <2>1, <3>1, <1>7 DEF TypesInv, OriginInv, Records, IsTagged
    <3>3. \A r \in origins[j] : types'[r] = types[r]
      BY <3>2, <1>3
    <3>4. types[j].complete => \A r \in origins[j] : Agree(types'[j], types'[r])
      BY <3>1, <3>2, <3>3 DEF RecordInv
    <3>5. types[j].complete => HasMembers(types[j])'
      BY <3>1, <3>2 DEF RecordInv, HasMembers
    <3> QED BY <3>1, <3>2, <3>4, <3>5 DEF RecordInv
  <2>2. CASE j = n /\ creates
    BY <2>0, <2>2, <1>3, <1>11 DEF RecordInv
  <2>3. CASE j = n /\ ~creates
    <3>1. MayIntern(t, array, from) /\ types'[j] = t /\ origins'[j] = from /\ IsRecord(t) /\ IsTagged(t)
      BY <2>0, <2>3, <1>3, <1>4, <1>10 DEF IsRecord, IsTagged
    <3>2. from \subseteq Ids
      BY <3>1 DEF MayIntern
    <3>3. \A r \in from : types'[r] = types[r]
      BY <3>2, <1>3
    <3>4. /\ ~t.complete => t.count = 0
          /\ t.complete => HasMembers(t) /\ \A r \in from : Agree(t, types[r])
      BY <3>1 DEF MayIntern
    <3>5. HasMembers(t)' <=> HasMembers(t)
      BY DEF HasMembers
    <3>6. \A r \in from : Agree(t, types[r]) => Agree(types'[j], types'[r])
      BY <3>1, <3>3
    <3> QED BY <3>1, <3>4, <3>5, <3>6 DEF RecordInv, HasMembers
  <2> QED BY <2>0, <2>1, <2>2, <2>3, <1>5
<1>14. \A i \in Records' : IsCreated(i)' /\ types'[i].complete => i \in Records /\ IsCreated(i)
  <2> SUFFICES ASSUME NEW i \in Records', IsCreated(i)', types'[i].complete
               PROVE  i \in Records /\ IsCreated(i)
    OBVIOUS
  <2>1. i \in Ids' /\ IsRecord(types'[i])
    BY DEF Records, IsRecord
  <2>2. i # n
    BY <2>1, <1>3, <1>9, <1>11
  <2> QED BY <2>1, <2>2, <1>3, <1>5, <1>8 DEF Records, IsRecord
<1>15. MembersAreApart'
  <2>1. \A i \in Records : types'[i] = types[i]
    BY <1>3 DEF Records
  <2> QED BY <2>1, <1>14 DEF TypesInv, MembersAreApart
<1>16. NoTypeTwice'
  <2>1. \A i \in Ids : Spelled(types[i], array) = Spelled(t, array) => IsCreated(i) /\ creates
    <3> SUFFICES ASSUME NEW i \in Ids, Spelled(types[i], array) = Spelled(t, array)
                 PROVE  IsCreated(i) /\ creates
      OBVIOUS
    <3>1. Matches(types[i], t, array)
      BY <1>2, MatchingIsSayingTheSame
    <3>2. creates
      BY <3>1, <1>10
    <3>3. IsTagged(t) /\ ~IsConst(t)
      BY <3>2, <1>11
    <3>4. types[i] = t
      BY <3>1, <3>3 DEF Matches, IsTagged
    <3> QED BY <3>2, <3>3, <3>4, <1>7 DEF OriginInv
  <2>2. ASSUME NEW i \in Ids', NEW j \in Ids', i # j,
               Spelled(types'[i], array) = Spelled(types'[j], array)
        PROVE  IsCreated(i)' /\ IsCreated(j)'
    <3>1. CASE i \in Ids /\ j \in Ids
      BY <2>2, <3>1, <1>2, <1>3, <1>8 DEF TypesInv, NoTypeTwice
    <3>2. CASE i = n
      BY <2>2, <3>2, <2>1, <1>3, <1>5, <1>8, <1>9
    <3>3. CASE j = n
      BY <2>2, <3>3, <2>1, <1>3, <1>5, <1>8, <1>9
    <3> QED BY <3>1, <3>2, <3>3, <1>5
  <2> QED BY <2>2 DEF NoTypeTwice
<1> QED BY <1>6, <1>12, <1>13, <1>15, <1>16 DEF TypesInv

LEMMA InternKeepsTypesInv ==
  ASSUME TypesInv, NEW t, NEW array, NEW from, MayIntern(t, array, from), Intern(t, array, from)
  PROVE  TypesInv'
<1>1. parameters' = array /\ UNCHANGED members
  BY DEF Intern
<1>2. ASSUME NEW i \in Ids, Matches(types[i], t, array), UNCHANGED types,
             origins' = [origins EXCEPT ![i] = @ \cup from]
      PROVE  TypesInv'
  <2>1. IsReplacement(origins', origins, i, origins[i] \cup from)
    BY <1>2 DEF IsReplacement
  <2> QED BY <1>1, <1>2, <2>1, FoundKeepsTypesInv
<1>3. ASSUME \A i \in Ids : ~Matches(types[i], t, array), types' = Append(types, t),
             origins' = Append(origins, from)
      PROVE  TypesInv'
  <2>1. IsEntry(t, array) /\ Extends(array, parameters)
    BY DEF MayIntern
  <2> QED BY <1>1, <1>3, <2>1, AppendKeepsTypesInv
<1> QED BY <1>2, <1>3 DEF Intern

-----------------------------------------------------------------------------
(***************************************************************************)
(* The calls.                                                              *)
(***************************************************************************)
LEMMA ParametersStay ==
  ASSUME TypesInv
  PROVE  Extends(parameters, parameters)
BY DEF TypesInv, ShapeInv, Extends

LEMMA ParametersAreStored ==
  ASSUME TypesInv, NEW limit, NEW ps \in Lists(Values, limit)
  PROVE  /\ Extends(StoredParameters(ps), parameters) /\ Len(ps) \in Nat
         /\ Len(StoredParameters(ps)) = Len(parameters) + Len(ps)
<1>1. PICK n \in 0 .. limit : ps \in [1 .. n -> Values]
  BY DEF Lists
<1>2. Values \subseteq Nat
  BY Appended DEF Values, Ids, TypesInv, ShapeInv
<1>3. n \in Nat
  OBVIOUS
<1>4. ps \in Seq(Nat)
  <2>1. ps \in [1 .. n -> Nat]
    BY <1>1, <1>2
  <2> QED BY <2>1, <1>3
<1>5. parameters \in Seq(Nat)
  BY DEF TypesInv, ShapeInv
<1> QED BY <1>4, <1>5 DEF StoredParameters, Extends

LEMMA BuiltinKeepsTypesInv ==
  ASSUME TypesInv, NEW name, GetBuiltin(name)
  PROVE  TypesInv'
<1>1. MayIntern(Basic(name), parameters, {})
  BY ParametersStay DEF MayIntern, Basic, IsEntry, IsTagged, IsRecord
<1> QED BY <1>1, InternKeepsTypesInv DEF GetBuiltin

LEMMA PointerKeepsTypesInv ==
  ASSUME TypesInv, NEW i, GetPointer(i)
  PROVE  TypesInv'
<1>1. MayIntern(Pointer(i), parameters, {})
  BY ParametersStay DEF MayIntern, Pointer, IsEntry, IsTagged, IsRecord
<1> QED BY <1>1, InternKeepsTypesInv DEF GetPointer

LEMMA ArrayKeepsTypesInv ==
  ASSUME TypesInv, NEW i, NEW count, NEW unsized, GetArray(i, count, unsized)
  PROVE  TypesInv'
<1> DEFINE length == IF unsized THEN 0 ELSE count
<1> HIDE DEF length
<1>1. MayIntern(Array(i, length, unsized), parameters, {})
  BY ParametersStay DEF MayIntern, Array, IsEntry, IsTagged, IsRecord
<1>2. Intern(Array(i, length, unsized), parameters, {})
  BY DEF GetArray, length
<1> QED BY <1>1, <1>2, InternKeepsTypesInv

LEMMA FunctionKeepsTypesInv ==
  ASSUME TypesInv, NEW i, NEW limit, NEW ps \in Lists(Values, limit), GetFunction(i, ps)
  PROVE  TypesInv'
<1> DEFINE t == Function(i, Len(parameters), Len(ps))
<1>1. Extends(StoredParameters(ps), parameters) /\ Len(ps) \in Nat
      /\ Len(StoredParameters(ps)) = Len(parameters) + Len(ps) /\ Len(parameters) \in Nat
  BY ParametersAreStored DEF TypesInv, ShapeInv
<1>2. IsEntry(t, StoredParameters(ps))
  <2>1. /\ t = [f \in DOMAIN t |-> t[f]] /\ {"kind", "qualifiers", "first"} \subseteq DOMAIN t
        /\ t.kind = "function" /\ t.first = Len(parameters) /\ t.count = Len(ps)
    BY DEF Function
  <2> HIDE DEF t
  <2> QED BY <1>1, <2>1 DEF IsEntry, IsFunctionEntry, IsRecord
<1>3. MayIntern(t, StoredParameters(ps), {})
  BY <1>1, <1>2 DEF MayIntern, Function, IsTagged, IsRecord
<1>4. Intern(t, StoredParameters(ps), {})
  BY DEF GetFunction
<1> QED BY <1>3, <1>4, InternKeepsTypesInv

\* const changes nothing else of a type.
LEMMA Qualified ==
  ASSUME NEW u, NEW array, IsEntry(u, array)
  PROVE  LET t == [u EXCEPT !.qualifiers = @ \cup {"const"}]
         IN /\ IsEntry(t, array) /\ IsConst(t) /\ t.kind = u.kind
            /\ IsRecord(u) => Agree(t, u)
<1> DEFINE t == [u EXCEPT !.qualifiers = @ \cup {"const"}]
<1>1. /\ t = [f \in DOMAIN t |-> t[f]] /\ DOMAIN t = DOMAIN u
      /\ t.qualifiers = u.qualifiers \cup {"const"}
      /\ t.kind = u.kind /\ t.tag = u.tag /\ t.first = u.first /\ t.count = u.count
      /\ t.size = u.size /\ t.alignment = u.alignment /\ t.complete = u.complete
  BY DEF IsEntry
<1> HIDE DEF t
<1>2. IsEntry(t, array)
  BY <1>1 DEF IsEntry, IsFunctionEntry, IsRecordEntry, IsRecord
<1>3. IsConst(t) /\ Agree(t, u)
  BY <1>1 DEF IsConst, Agree
<1> QED BY <1>1, <1>2, <1>3 DEF t

LEMMA QualifyConstKeepsTypesInv ==
  ASSUME TypesInv, NEW i \in Ids, QualifyConst(i)
  PROVE  TypesInv'
<1> DEFINE t == [types[i] EXCEPT !.qualifiers = @ \cup {"const"}]
<1>1. IsEntry(types[i], parameters) /\ OriginInv(i) /\ (IsRecord(types[i]) => RecordInv(i))
  BY DEF TypesInv, ShapeInv, Records, IsRecord
<1>2. IsEntry(t, parameters) /\ IsConst(t) /\ t.kind = types[i].kind
  BY <1>1, Qualified
<1>3. IsRecord(types[i]) => Agree(t, types[i])
  BY <1>1, Qualified
<1> HIDE DEF t
<1>4. IsTagged(t) <=> IsTagged(types[i])
  BY <1>2 DEF IsTagged
<1>5. ~IsTagged(t) => origins[i] = {}
  BY <1>1, <1>4 DEF OriginInv
<1>6. IsTagged(t) =>
        /\ origins[i] # {} /\ origins[i] \subseteq Ids
        /\ \A r \in origins[i] : IsCreated(r) /\ types[r].kind = t.kind
  BY <1>1, <1>2, <1>4 DEF OriginInv
<1>7. ASSUME IsRecord(t)
      PROVE  /\ ~t.complete => t.count = 0
             /\ t.complete => HasMembers(t) /\ \A r \in origins[i] : Agree(t, types[r])
  <2>1. RecordInv(i) /\ Agree(t, types[i])
    BY <1>1, <1>2, <1>3, <1>7 DEF IsRecord
  <2> QED BY <2>1 DEF RecordInv, Agree, HasMembers
<1>8. MayIntern(t, parameters, origins[i])
  BY <1>2, <1>5, <1>6, <1>7, ParametersStay DEF MayIntern
<1>9. Intern(t, parameters, origins[i])
  BY DEF QualifyConst, t
<1> QED BY <1>8, <1>9, InternKeepsTypesInv

LEMMA CreateKeepsTypesInv ==
  ASSUME TypesInv, NEW t, IsEntry(t, parameters), IsTagged(t), ~IsConst(t),
         IsRecord(t) => ~t.complete /\ t.count = 0, Create(t)
  PROVE  TypesInv'
<1>1. /\ types' = Append(types, t) /\ origins' = Append(origins, {Len(types) + 1})
      /\ parameters' = parameters /\ UNCHANGED members
  BY DEF Create
<1> QED BY <1>1, ParametersStay, AppendKeepsTypesInv

LEMMA CreateRecordKeepsTypesInv ==
  ASSUME TypesInv, NEW kind \in {"struct", "union"}, NEW tag, CreateRecord(kind, tag)
  PROVE  TypesInv'
<1> DEFINE t == IncompleteRecord(kind, tag)
<1>1. /\ IsEntry(t, parameters) /\ IsTagged(t) /\ ~IsConst(t) /\ (IsRecord(t) => ~t.complete /\ t.count = 0)
  <2>1. /\ t = [f \in DOMAIN t |-> t[f]] /\ {"kind", "qualifiers"} \subseteq DOMAIN t
        /\ t.kind = kind /\ t.qualifiers = {} /\ t.first = 0 /\ t.count = 0
    BY DEF IncompleteRecord
  <2>0. t.complete \in BOOLEAN /\ ~t.complete
    BY DEF IncompleteRecord
  <2> HIDE DEF t
  <2>2. IsTagged(t) /\ IsRecord(t) /\ t.kind # "function"
    BY <2>1 DEF IsTagged, IsRecord
  <2>3. IsRecordEntry(t) /\ ~t.complete /\ t.count = 0
    BY <2>0, <2>1 DEF IsRecordEntry
  <2> QED BY <2>1, <2>2, <2>3 DEF IsEntry, IsConst
<1> QED BY <1>1, CreateKeepsTypesInv DEF CreateRecord

LEMMA CreateEnumKeepsTypesInv ==
  ASSUME TypesInv, NEW tag, CreateEnum(tag)
  PROVE  TypesInv'
<1> DEFINE t == Enumeration(tag)
<1>1. /\ IsEntry(t, parameters) /\ IsTagged(t) /\ ~IsConst(t) /\ ~IsRecord(t)
  <2>1. /\ t = [f \in DOMAIN t |-> t[f]] /\ {"kind", "qualifiers"} \subseteq DOMAIN t
        /\ t.kind = "enum" /\ t.qualifiers = {}
    BY DEF Enumeration
  <2> HIDE DEF t
  <2> QED BY <2>1 DEF IsEntry, IsTagged, IsRecord, IsConst
<1> QED BY <1>1, CreateKeepsTypesInv DEF CreateEnum


\* The members of the record go behind those of all others.
LEMMA DefineRecordKeepsTypesInv ==
  ASSUME TypesInv, NEW limit, NEW r \in Records, NEW ms \in Lists(Ids, limit), DefineRecord(r, ms)
  PROVE  TypesInv'
<1> DEFINE layout == Layout(types[r].kind, [k \in DOMAIN ms |-> ExtentOf[ms[k]]])
           e == Completed(types[r], Len(ms), layout)
           added == [k \in DOMAIN ms |-> [type |-> ms[k], offset |-> layout.offsets[k]]]
<1>1. /\ ~IsConst(types[r]) /\ ~types[r].complete /\ ms # << >>
      /\ members' = members \o added
      /\ types' = [types EXCEPT ![r] = e]
      /\ UNCHANGED <<parameters, origins>>
  BY DEF DefineRecord, MayDefine, Complete
<1>2. /\ e.kind = types[r].kind /\ e.qualifiers = types[r].qualifiers /\ e.tag = types[r].tag
      /\ e.first = Len(members) /\ e.count = Len(ms) /\ e.complete = TRUE
  BY DEF Completed
<1> HIDE DEF e
<1>3. Len(ms) \in Nat /\ Len(ms) >= 1 /\ IsSequence(added) /\ Len(added) = Len(ms)
  <2>1. PICK n \in 0 .. limit : ms \in [1 .. n -> Ids]
    BY DEF Lists
  <2>2. n \in Nat
    OBVIOUS
  <2>3. ms \in Seq(Ids) /\ Len(ms) = n
    BY <2>1, <2>2
  <2>4. n # 0
    BY <1>1, <2>3
  <2> DEFINE S == {[type |-> ms[k], offset |-> layout.offsets[k]] : k \in 1 .. n}
  <2> HIDE DEF layout
  <2>5. added \in [1 .. n -> S]
    BY <2>1
  <2> HIDE DEF S, added
  <2>6. added \in Seq(S) /\ Len(added) = n
    BY <2>2, <2>5
  <2> QED BY <2>2, <2>3, <2>4, <2>6 DEF IsSequence
<1> HIDE DEF added
<1>4. /\ IsSequence(members') /\ Len(members) \in Nat /\ Len(members') = Len(members) + Len(ms)
  BY <1>1, <1>3, Joined DEF TypesInv, ShapeInv
<1>5. r \in Ids /\ IsRecord(types[r])
  BY DEF Records, IsRecord
<1>6. /\ IsSequence(types') /\ Len(types') = Len(types)
      /\ \A j \in Ids : types'[j] = IF j = r THEN e ELSE types[j]
  <2>1. IsSequence(types) /\ r \in 1 .. Len(types) /\ IsReplacement(types', types, r, e)
    BY <1>1, <1>5 DEF IsReplacement, TypesInv, ShapeInv, Ids
  <2>2. /\ IsSequence(types') /\ Len(types) \in Nat /\ Len(types') = Len(types)
        /\ \A j \in 1 .. Len(types) : types'[j] = IF j = r THEN e ELSE types[j]
    BY <2>1, Replaced
  <2> QED BY <2>2 DEF Ids
<1>7. Ids' = Ids /\ Records' = Records /\ \A j \in Ids : IsCreated(j)' <=> IsCreated(j)
  <2>1. Ids' = Ids
    BY <1>6 DEF Ids
  <2> QED BY <2>1, <1>1, <1>2, <1>5, <1>6 DEF Records, IsRecord, IsCreated
<1>8. \A j \in Ids : OriginInv(j) /\ IsEntry(types[j], parameters)
  BY DEF TypesInv, ShapeInv
<1>9. IsEntry(e, parameters)
  <2>1. e = [f \in DOMAIN e |-> e[f]] /\ {"kind", "qualifiers"} \subseteq DOMAIN e
    BY DEF e, Completed
  <2> QED BY <1>2, <1>3, <1>4, <1>5, <2>1 DEF IsEntry, IsRecordEntry, IsRecord
<1>10. ShapeInv'
  <2>1. \A j \in Ids : IsEntry(types'[j], parameters)
    BY <1>6, <1>8, <1>9
  <2> QED BY <2>1, <1>1, <1>4, <1>6, <1>7 DEF TypesInv, ShapeInv
<1>11. \A j \in Ids : types'[j].kind = types[j].kind /\ types'[j].qualifiers = types[j].qualifiers
  BY <1>2, <1>6
<1>12. \A j \in Ids : OriginInv(j)'
  <2> SUFFICES ASSUME NEW j \in Ids PROVE OriginInv(j)'
    OBVIOUS
  <2>1. OriginInv(j) /\ origins' = origins
    BY <1>1, <1>8
  <2>2. IsTagged(types'[j]) <=> IsTagged(types[j])
    BY <1>11 DEF IsTagged
  <2>3. CASE ~IsTagged(types[j])
    BY <2>1, <2>2, <2>3 DEF OriginInv
  <2>4. CASE IsTagged(types[j])
    <3>1. /\ origins[j] # {} /\ origins[j] \subseteq Ids
          /\ \A q \in origins[j] : IsCreated(q) /\ types[q].kind = types[j].kind
          /\ IsCreated(j) <=> ~IsConst(types[j])
      BY <2>1, <2>4 DEF OriginInv
    <3>2. \A q \in origins[j] : IsCreated(q)' /\ types'[q].kind = types'[j].kind
      BY <3>1, <1>7, <1>11
    <3>3. IsCreated(j)' <=> ~IsConst(types'[j])
      BY <3>1, <1>7, <1>11 DEF IsConst
    <3> QED BY <2>1, <2>2, <2>4, <3>1, <3>2, <3>3, <1>7 DEF OriginInv
  <2> QED BY <2>3, <2>4
<1>13. IsCreated(r)
  BY <1>1, <1>5, <1>8 DEF OriginInv, IsTagged, IsRecord
<1>14. \A j \in Records : types[j].complete => types[j].first + types[j].count <= Len(members)
  BY DEF TypesInv, RecordInv, HasMembers
<1>15. \A j \in Records : RecordInv(j)'
  <2> SUFFICES ASSUME NEW j \in Records PROVE RecordInv(j)'
    OBVIOUS
  <2>1. RecordInv(j) /\ j \in Ids /\ OriginInv(j) /\ IsTagged(types[j])
    BY <1>8 DEF TypesInv, Records, IsTagged
  <2>2. CASE j = r
    <3>1. types'[r] = e /\ origins'[r] = {r}
      BY <1>1, <1>5, <1>6, <1>13 DEF IsCreated
    <3>2. HasMembers(types[r])'
      BY <3>1, <1>2, <1>3, <1>4 DEF HasMembers
    <3>3. Agree(e, e)
      BY DEF Agree
    <3> QED BY <2>2, <3>1, <3>2, <3>3, <1>2 DEF RecordInv
  <2>3. CASE j # r
    <3>1. types'[j] = types[j] /\ origins'[j] = origins[j] /\ origins[j] \subseteq Ids
      BY <2>1, <2>3, <1>1, <1>6 DEF OriginInv
    <3>2. CASE ~types[j].complete
      BY <2>1, <3>1, <3>2 DEF RecordInv
    <3>3. CASE types[j].complete
      <4>1. \A q \in origins[j] : Agree(types[j], types[q]) /\ q # r
        BY <2>1, <3>3, <1>1 DEF RecordInv, Agree
      <4>2. \A q \in origins[j] : types'[q] = types[q]
        BY <4>1, <3>1, <1>6
      <4>3. types[j].count >= 1 /\ types[j].first \in Nat /\ types[j].count \in Nat
        BY <2>1, <3>3, <1>8 DEF RecordInv, HasMembers, IsEntry, IsRecordEntry, Records, IsRecord
      <4>4. types[j].first + types[j].count <= Len(members')
        BY <3>3, <4>3, <1>3, <1>4, <1>14
      <4>5. HasMembers(types[j])'
        BY <3>1, <4>3, <4>4 DEF HasMembers
      <4> QED BY <3>1, <3>3, <4>1, <4>2, <4>5 DEF RecordInv
    <3> QED BY <3>2, <3>3
  <2> QED BY <2>2, <2>3
<1>16. MembersAreApart'
  <2> SUFFICES ASSUME NEW i \in Records, NEW j \in Records, IsCreated(i), IsCreated(j), i # j,
                      types'[i].complete, types'[j].complete
               PROVE  \/ types'[i].first + types'[i].count <= types'[j].first
                      \/ types'[j].first + types'[j].count <= types'[i].first
    <3>1. \A j \in Records : j \in Ids
      BY DEF Records
    <3> QED BY <1>7, <3>1 DEF MembersAreApart
  <2>1. i \in Ids /\ j \in Ids
    BY DEF Records
  <2>2. CASE i # r /\ j # r
    BY <2>1, <2>2, <1>6 DEF TypesInv, MembersAreApart
  <2>3. CASE i = r
    BY <2>1, <2>3, <1>2, <1>6, <1>14
  <2>4. CASE j = r
    BY <2>1, <2>4, <1>2, <1>6, <1>14
  <2> QED BY <2>2, <2>3, <2>4
<1>17. NoTypeTwice'
  <2>1. \A j \in Ids : j # r => Spelled(types[j], parameters) # Spelled(e, parameters)
    <3> SUFFICES ASSUME NEW j \in Ids, j # r, Spelled(types[j], parameters) = Spelled(e, parameters)
                 PROVE  FALSE
      OBVIOUS
    <3>1. Matches(types[j], e, parameters)
      BY <1>8, <1>9, MatchingIsSayingTheSame
    <3>2. types[j] = e
      BY <3>1, <1>2, <1>5 DEF Matches, IsRecord
    <3>3. j \in Records
      BY <3>2, <1>2, <1>5 DEF Records, IsRecord
    <3> QED BY <3>2, <3>3, <1>2, <1>3, <1>4, <1>14
  <2>2. ASSUME NEW i \in Ids, NEW j \in Ids, i # j,
               Spelled(types'[i], parameters) = Spelled(types'[j], parameters)
        PROVE  IsCreated(i) /\ IsCreated(j)
    <3>1. CASE i # r /\ j # r
      BY <2>2, <3>1, <1>6 DEF TypesInv, NoTypeTwice
    <3>2. CASE i = r
      BY <2>1, <2>2, <3>2, <1>6
    <3>3. CASE j = r
      BY <2>1, <2>2, <3>3, <1>6
    <3> QED BY <3>1, <3>2, <3>3
  <2> QED BY <2>2, <1>1, <1>7 DEF NoTypeTwice
<1> QED BY <1>7, <1>10, <1>12, <1>15, <1>16, <1>17 DEF TypesInv

-----------------------------------------------------------------------------
(***************************************************************************)
(* The theorems.                                                           *)
(***************************************************************************)
LEMMA AllocationFailsKeepsTypesInv ==
  ASSUME TypesInv, NEW limit, NEW ps \in Lists(Values, limit), AllocationFails(ps)
  PROVE  TypesInv'
<1> DEFINE array == StoredParameters(ps)
<1>1. Extends(array, parameters) /\ parameters' = array /\ UNCHANGED <<types, members, origins>>
  BY ParametersAreStored DEF AllocationFails
<1>2. parameters \in Seq(Nat) /\ array \in Seq(Nat)
  BY <1>1 DEF TypesInv, ShapeInv, Extends
<1> HIDE DEF array
<1>3. \A j \in Ids : IsEntry(types[j], array) /\ Spelled(types[j], array) = Spelled(types[j], parameters)
  BY <1>1, <1>2, EntriesStay, SpellingStays DEF TypesInv, ShapeInv
<1>4. Ids' = Ids /\ Records' = Records
  BY <1>1 DEF Ids, Records
<1>5. ShapeInv'
  BY <1>1, <1>2, <1>3, <1>4 DEF TypesInv, ShapeInv
<1>6. NoTypeTwice'
  BY <1>1, <1>3, <1>4 DEF TypesInv, NoTypeTwice, IsCreated
<1>7. /\ \A i \in Ids : OriginInv(i) <=> OriginInv(i)'
      /\ \A i \in Records : RecordInv(i) <=> RecordInv(i)'
      /\ MembersAreApart <=> MembersAreApart'
  BY <1>1, <1>4 DEF OriginInv, RecordInv, HasMembers, MembersAreApart, IsCreated
<1> QED BY <1>4, <1>5, <1>6, <1>7 DEF TypesInv

LEMMA StutteringKeepsTypesInv ==
  ASSUME TypesInv, UNCHANGED <<types, parameters, members, origins>>
  PROVE  TypesInv'
BY DEF TypesInv, ShapeInv, OriginInv, RecordInv, HasMembers, MembersAreApart, NoTypeTwice, IsCreated,
       Ids, Records

LEMMA NextKeepsTypesInv == TypesInv /\ [Next]_vars => TypesInv'
<1> SUFFICES ASSUME TypesInv, [Next]_vars PROVE TypesInv'
  OBVIOUS
<1>1. ASSUME NEW name \in Basics, GetBuiltin(name) PROVE TypesInv'
  BY <1>1, BuiltinKeepsTypesInv
<1>2. ASSUME NEW i \in Ids, QualifyConst(i) PROVE TypesInv'
  BY <1>2, QualifyConstKeepsTypesInv
<1>3. ASSUME NEW i \in Ids, GetPointer(i) PROVE TypesInv'
  BY <1>3, PointerKeepsTypesInv
<1>4. ASSUME NEW i, NEW count, NEW unsized, GetArray(i, count, unsized) PROVE TypesInv'
  BY <1>4, ArrayKeepsTypesInv
<1>5. ASSUME NEW i, NEW ps \in Lists(Values, ParameterLimit), GetFunction(i, ps) PROVE TypesInv'
  BY <1>5, FunctionKeepsTypesInv
<1>6. ASSUME NEW kind \in {"struct", "union"}, NEW tag, CreateRecord(kind, tag) PROVE TypesInv'
  BY <1>6, CreateRecordKeepsTypesInv
<1>7. ASSUME NEW tag, CreateEnum(tag) PROVE TypesInv'
  BY <1>7, CreateEnumKeepsTypesInv
<1>8. ASSUME NEW r \in Records, NEW ms \in Lists(Ids, MemberLimit), DefineRecord(r, ms) PROVE TypesInv'
  BY <1>8, DefineRecordKeepsTypesInv
<1>9. ASSUME NEW r, NEW ms, Crash(r, ms) PROVE TypesInv'
  BY <1>9, StutteringKeepsTypesInv DEF Crash
<1>10. ASSUME NEW ps \in Lists(Values, ParameterLimit), AllocationFails(ps) PROVE TypesInv'
  BY <1>10, AllocationFailsKeepsTypesInv
<1>11. CASE UNCHANGED vars
  BY <1>11, StutteringKeepsTypesInv DEF vars
<1> QED BY <1>1, <1>2, <1>3, <1>4, <1>5, <1>6, <1>7, <1>8, <1>9, <1>10, <1>11 DEF Next

\* Every state the calls reach satisfies the invariant.
THEOREM TypesInvariance == Spec => []TypesInv
<1>1. Init => TypesInv
  BY InitEstablishesTypesInv
<1>2. TypesInv /\ [Next]_vars => TypesInv'
  BY NextKeepsTypesInv
<1> QED BY <1>1, <1>2, PTL DEF Spec

\* No type has two places, whatever parameters lie where and records are completed when.
THEOREM NoTypeTwiceHolds == Spec => []NoTypeTwice
<1>1. TypesInv => NoTypeTwice
  BY DEF TypesInv
<1> QED BY <1>1, TypesInvariance, PTL

\* A step that only adds to the types and the parameters.
StableStep ==
  /\ Len(types') >= Len(types)
  /\ \A i \in Ids : types'[i] # types[i] => i \in Records /\ ~types[i].complete /\ IsCreated(i)
  /\ \A k \in DOMAIN parameters : k \in DOMAIN parameters' /\ parameters'[k] = parameters[k]
  /\ \A k \in DOMAIN members : k \in DOMAIN members' /\ members'[k] = members[k]

LEMMA GrowingIsStable ==
  ASSUME TypesInv, Extends(parameters', parameters), UNCHANGED members,
         types' = types \/ \E t : types' = Append(types, t)
  PROVE  StableStep
<1>1. IsSequence(types) /\ parameters \in Seq(Nat)
  BY DEF TypesInv, ShapeInv
<1>2. Len(types') >= Len(types) /\ \A i \in Ids : types'[i] = types[i]
  <2>1. CASE types' = types
    BY <2>1, <1>1, Appended
  <2>2. CASE \E t : types' = Append(types, t)
    <3>1. PICK t : types' = Append(types, t)
      BY <2>2
    <3> QED BY <3>1, <1>1, Appended DEF Ids
  <2> QED BY <2>1, <2>2
<1>3. \A k \in DOMAIN parameters : k \in DOMAIN parameters' /\ parameters'[k] = parameters[k]
  <2>1. DOMAIN parameters = 1 .. Len(parameters) /\ Len(parameters) \in Nat
    BY <1>1
  <2>2. parameters' \in Seq(Nat) /\ Len(parameters) <= Len(parameters')
        /\ \A k \in 1 .. Len(parameters) : parameters'[k] = parameters[k]
    BY DEF Extends
  <2>3. DOMAIN parameters' = 1 .. Len(parameters') /\ Len(parameters') \in Nat
    BY <2>2
  <2> QED BY <2>1, <2>2, <2>3
<1> QED BY <1>2, <1>3 DEF StableStep

LEMMA InternIsStable ==
  ASSUME TypesInv, NEW t, NEW array, NEW from, Extends(array, parameters), Intern(t, array, from)
  PROVE  StableStep
<1>1. parameters' = array /\ UNCHANGED members /\ (types' = types \/ types' = Append(types, t))
  BY DEF Intern
<1> QED BY <1>1, GrowingIsStable

LEMMA DefineRecordIsStable ==
  ASSUME TypesInv, NEW limit, NEW r \in Records, NEW ms \in Lists(Ids, limit), DefineRecord(r, ms)
  PROVE  StableStep
<1> DEFINE layout == Layout(types[r].kind, [k \in DOMAIN ms |-> ExtentOf[ms[k]]])
           e == Completed(types[r], Len(ms), layout)
           added == [k \in DOMAIN ms |-> [type |-> ms[k], offset |-> layout.offsets[k]]]
<1>1. /\ ~IsConst(types[r]) /\ ~types[r].complete
      /\ members' = members \o added /\ types' = [types EXCEPT ![r] = e]
      /\ parameters' = parameters
  BY DEF DefineRecord, MayDefine, Complete
<1>2. IsCreated(r) /\ r \in Ids
  BY <1>1 DEF TypesInv, OriginInv, IsTagged, Records
<1> HIDE DEF e
<1>3. /\ Len(types') = Len(types) /\ Len(types) \in Nat
      /\ \A i \in Ids : types'[i] = IF i = r THEN e ELSE types[i]
  <2>1. IsSequence(types) /\ r \in 1 .. Len(types) /\ IsReplacement(types', types, r, e)
    BY <1>1, <1>2 DEF IsReplacement, TypesInv, ShapeInv, Ids
  <2>2. /\ IsSequence(types') /\ Len(types) \in Nat /\ Len(types') = Len(types)
        /\ \A j \in 1 .. Len(types) : types'[j] = IF j = r THEN e ELSE types[j]
    BY <2>1, Replaced
  <2> QED BY <2>2 DEF Ids
<1>4. IsSequence(added)
  <2>1. PICK n \in 0 .. limit : ms \in [1 .. n -> Ids]
    BY DEF Lists
  <2>2. n \in Nat
    OBVIOUS
  <2> DEFINE S == {[type |-> ms[k], offset |-> layout.offsets[k]] : k \in 1 .. n}
  <2> HIDE DEF layout
  <2>3. added \in [1 .. n -> S]
    BY <2>1
  <2> HIDE DEF S, added
  <2>4. added \in Seq(S)
    BY <2>2, <2>3
  <2> QED BY <2>4 DEF IsSequence
<1> HIDE DEF added
<1>5. \A k \in DOMAIN members : k \in DOMAIN members' /\ members'[k] = members[k]
  <2>1. /\ IsSequence(members) /\ IsSequence(members') /\ Len(members) \in Nat /\ Len(added) \in Nat
        /\ Len(members') = Len(members) + Len(added)
        /\ \A k \in 1 .. Len(members) : members'[k] = members[k]
    BY <1>1, <1>4, Joined DEF TypesInv, ShapeInv
  <2>2. DOMAIN members = 1 .. Len(members) /\ DOMAIN members' = 1 .. Len(members')
    BY <2>1 DEF IsSequence
  <2> QED BY <2>1, <2>2
<1> QED BY <1>1, <1>2, <1>3, <1>5 DEF StableStep

LEMMA NextIsStable == TypesInv /\ Next => StableStep
<1> SUFFICES ASSUME TypesInv, Next PROVE StableStep
  OBVIOUS
<1>1. ASSUME NEW t, NEW from, Intern(t, parameters, from) PROVE StableStep
  BY <1>1, ParametersStay, InternIsStable
<1>2. CASE \E name \in Basics : GetBuiltin(name)
  BY <1>1, <1>2 DEF GetBuiltin
<1>3. CASE \E i \in Ids : QualifyConst(i)
  BY <1>1, <1>3 DEF QualifyConst
<1>4. CASE \E i \in Ids : GetPointer(i)
  BY <1>1, <1>4 DEF GetPointer
<1>5. CASE \E i, count, unsized : GetArray(i, count, unsized)
  BY <1>1, <1>5 DEF GetArray
<1>6. ASSUME NEW i, NEW ps \in Lists(Values, ParameterLimit), GetFunction(i, ps) PROVE StableStep
  <2>1. Extends(StoredParameters(ps), parameters)
    BY ParametersAreStored
  <2>2. Intern(Function(i, Len(parameters), Len(ps)), StoredParameters(ps), {})
    BY <1>6 DEF GetFunction
  <2> QED BY <2>1, <2>2, InternIsStable
<1>7. ASSUME NEW t, Create(t) PROVE StableStep
  <2>1. types' = Append(types, t) /\ UNCHANGED <<parameters, members>>
    BY <1>7 DEF Create
  <2>2. Extends(parameters', parameters)
    BY <2>1, ParametersStay
  <2> QED BY <2>1, <2>2, GrowingIsStable
<1>8. ASSUME NEW r \in Records, NEW ms \in Lists(Ids, MemberLimit), DefineRecord(r, ms)
      PROVE  StableStep
  BY <1>8, DefineRecordIsStable
<1>9. ASSUME NEW r, NEW ms, Crash(r, ms) PROVE StableStep
  <2>1. types' = types /\ UNCHANGED <<parameters, members>>
    BY <1>9 DEF Crash
  <2>2. Extends(parameters', parameters)
    BY <2>1, ParametersStay
  <2> QED BY <2>1, <2>2, GrowingIsStable
<1>10. ASSUME NEW ps \in Lists(Values, ParameterLimit), AllocationFails(ps) PROVE StableStep
  <2>1. types' = types /\ UNCHANGED members /\ Extends(parameters', parameters)
    BY <1>10, ParametersAreStored DEF AllocationFails
  <2> QED BY <2>1, GrowingIsStable
<1> QED BY <1>2, <1>3, <1>4, <1>5, <1>6, <1>7, <1>8, <1>9, <1>10 DEF Next, CreateRecord, CreateEnum

\* What a place stands for is never taken from it, and only a record that was created and
\* is incomplete still is ever given more.
THEOREM TypesAreStableHolds == Spec => TypesAreStable
<1>1. TypesInv /\ [Next]_vars => [StableStep]_vars
  BY NextIsStable
<1> QED BY <1>1, TypesInvariance, PTL DEF Spec, TypesAreStable, StableStep

\* Which of the records a pointer points to decides whether it may be assigned.
THEOREM RecordPointersAreAssignedAsCHolds == Spec => []RecordPointersAreAssignedAsC
<1>1. TypesInv => RecordPointersAreAssignedAsC
  <2> SUFFICES ASSUME TypesInv, NEW i \in Records, NEW j \in Records, ~IsStale(i), ~IsStale(j),
                      Complete(i) \/ Complete(j)
               PROVE  PointerMayBecome(i, j) <=>
                        origins[i] = origins[j] /\ (IsConst(types[j]) => IsConst(types[i]))
    BY DEF RecordPointersAreAssignedAsC
  <2>1. ASSUME NEW k \in Records
        PROVE  /\ k \in Ids /\ OriginInv(k) /\ RecordInv(k) /\ IsTagged(types[k])
               /\ types[k].first \in Nat /\ types[k].count \in Nat
               /\ origins[k] # {} /\ \A r \in origins[k] : r \in Records /\ IsCreated(r)
    <3>1. k \in Ids /\ IsRecord(types[k]) /\ IsTagged(types[k]) /\ OriginInv(k) /\ RecordInv(k)
      BY DEF TypesInv, Records, IsRecord, IsTagged
    <3>2. types[k].first \in Nat /\ types[k].count \in Nat
      BY <3>1 DEF TypesInv, ShapeInv, IsEntry, IsRecordEntry
    <3>3. origins[k] # {} /\ \A r \in origins[k] : r \in Records /\ IsCreated(r)
      BY <3>1 DEF OriginInv, Records, IsRecord
    <3> QED BY <3>1, <3>2, <3>3
  <2>2. ASSUME NEW k \in Records, ~IsStale(k), NEW r \in origins[k], types[r].complete
        PROVE  types[k].complete
    <3>1. CASE IsConst(types[k])
      BY <3>1, <2>2 DEF IsStale
    <3>2. CASE ~IsConst(types[k])
      <4>1. IsCreated(k)
        BY <3>2, <2>1 DEF OriginInv
      <4> QED BY <4>1, <2>2 DEF IsCreated
    <3> QED BY <3>1, <3>2
  <2>3. SameRecord(i, j) => origins[i] = origins[j]
    <3> SUFFICES ASSUME SameRecord(i, j), i # j PROVE origins[i] = origins[j]
      OBVIOUS
    <3>1. types[i].first = types[j].first /\ types[i].count = types[j].count
      BY DEF SameRecord
    <3>2. types[i].complete /\ types[j].complete /\ types[i].count >= 1
      BY <2>1, <3>1 DEF Complete, RecordInv, HasMembers
    <3>3. ASSUME NEW r \in origins[i], NEW q \in origins[j] PROVE r = q
      <4>1. /\ types[r].first = types[q].first /\ types[r].count = types[i].count
            /\ types[q].count = types[i].count /\ types[r].complete /\ types[q].complete
        BY <2>1, <3>1, <3>2 DEF RecordInv, Agree
      <4>2. r \in Records /\ q \in Records /\ IsCreated(r) /\ IsCreated(q)
        BY <2>1
      <4>3. types[r].first \in Nat /\ types[r].count \in Nat /\ types[r].count >= 1
        BY <2>1, <3>2, <4>1, <4>2
      <4> QED BY <4>1, <4>2, <4>3 DEF TypesInv, MembersAreApart
    <3>4. PICK r : r \in origins[i]
      BY <2>1
    <3>5. PICK q : q \in origins[j]
      BY <2>1
    <3>6. \A x : (x \in origins[i] <=> x = r) /\ (x \in origins[j] <=> x = r)
      BY <3>3, <3>4, <3>5
    <3> QED BY <3>6
  <2>4. origins[i] = origins[j] => SameRecord(i, j)
    <3> SUFFICES ASSUME origins[i] = origins[j] PROVE SameRecord(i, j)
      OBVIOUS
    <3>1. PICK r : r \in origins[i] /\ r \in origins[j]
      BY <2>1
    <3>2. types[r].complete
      BY <2>1, <3>1 DEF Complete, RecordInv, Agree
    <3>3. types[i].complete /\ types[j].complete
      BY <2>2, <3>1, <3>2
    <3>4. Agree(types[i], types[r]) /\ Agree(types[j], types[r])
      BY <2>1, <3>1, <3>3 DEF RecordInv
    <3> QED BY <3>4 DEF Agree, SameRecord
  <2> QED BY <2>3, <2>4 DEF PointerMayBecome
<1> QED BY <1>1, TypesInvariance, PTL

-----------------------------------------------------------------------------
(***************************************************************************)
(* Numbers and recursion.                                                  *)
(***************************************************************************)
\* The least of numbers.
LEMMA Least ==
  ASSUME NEW T, T \subseteq Nat, T # {} PROVE \E n \in T : \A m \in T : n <= m
<1> DEFINE R == {ss \in Nat \X Nat : ss[1] < ss[2]}
<1>1. IsWellFoundedOn(R, Nat)
  BY NatLessThanWellFounded DEF OpToRel
<1> HIDE DEF R
<1>2. \E x \in T : \A y \in T : ~ (<<y, x>> \in R)
  BY <1>1, WFMin
<1>3. \A x, y \in Nat : <<y, x>> \notin R => x <= y
  BY DEF R
<1> QED BY <1>2, <1>3

LEMMA LargestIsThere ==
  ASSUME NEW S, S \subseteq 0 .. SizeMax, S # {}
  PROVE  Largest(S) \in S /\ \A m \in S : m <= Largest(S)
<1> DEFINE T == {SizeMax - m : m \in S}
<1>1. SizeMax \in Nat
  BY SizesAssumption
<1>2. T \subseteq Nat /\ T # {}
  <2>1. \A m \in 0 .. SizeMax : SizeMax - m \in Nat
    BY <1>1
  <2>2. \A m \in S : SizeMax - m \in Nat
    BY <2>1
  <2> QED BY <2>2
<1>3. PICK n \in T : \A m \in T : n <= m
  <2> HIDE DEF T
  <2> QED BY <1>2, Least
<1>4. PICK x \in S : n = SizeMax - x
  BY <1>3
<1>5. \A m \in S : m <= x
  <2> SUFFICES ASSUME NEW m \in S PROVE m <= x
    OBVIOUS
  <2>1. SizeMax - x <= SizeMax - m
    BY <1>3, <1>4
  <2>2. m \in Int /\ x \in Int
    BY <1>4
  <2> QED BY <1>1, <2>1, <2>2
<1> DEFINE Q(y) == y \in S /\ \A m \in S : m <= y
<1>6. \E y : Q(y)
  BY <1>5
<1>7. Largest(S) = CHOOSE y : Q(y)
  BY DEF Largest
<1> HIDE DEF Q
<1>8. Q(CHOOSE y : Q(y))
  BY <1>6
<1> QED BY <1>7, <1>8 DEF Q

\* How far the members reach, by recursion.
LEMMA EndsUnfold ==
  ASSUME NEW extents, Len(extents) \in Nat
  PROVE  \A k \in 0 .. Len(extents) :
           Ends(extents)[k] = IF k = 0 THEN 0 ELSE Behind(extents[k], Ends(extents)[k - 1])
<1> DEFINE Solves(f, n) == f = [k \in 0 .. n |-> IF k = 0 THEN 0 ELSE Behind(extents[k], f[k - 1])]
           T == {n \in Nat : ~\E f : Solves(f, n)}
<1>1. T = {}
  <2> SUFFICES ASSUME T # {} PROVE FALSE
    OBVIOUS
  <2>1. PICK n \in T : \A m \in T : n <= m
    <3>1. T \subseteq Nat
      OBVIOUS
    <3> HIDE DEF T
    <3> QED BY <3>1, Least
  <2>2. n # 0
    <3>1. Solves([k \in 0 .. 0 |-> 0], 0)
      OBVIOUS
    <3> QED BY <3>1
  <2>3. n \in Nat /\ n - 1 \in Nat /\ n - 1 \notin T
    <3>1. n \in Nat /\ n - 1 \in Nat
      BY <2>1, <2>2
    <3> HIDE DEF T
    <3> QED BY <3>1, <2>1
  <2>4. PICK g : Solves(g, n - 1)
    BY <2>3
  <2> DEFINE f == [k \in 0 .. n |-> IF k = n THEN Behind(extents[n], g[n - 1]) ELSE g[k]]
  <2>5. \A k \in 0 .. n - 1 : f[k] = g[k]
    BY <2>3
  <2>6. \A k \in 0 .. n : f[k] = IF k = 0 THEN 0 ELSE Behind(extents[k], f[k - 1])
    <3> SUFFICES ASSUME NEW k \in 0 .. n
                 PROVE  f[k] = IF k = 0 THEN 0 ELSE Behind(extents[k], f[k - 1])
      OBVIOUS
    <3>1. CASE k = n
      <4>1. n - 1 \in 0 .. n - 1
        BY <2>3
      <4>2. f[k - 1] = g[k - 1]
        BY <3>1, <4>1, <2>5
      <4>3. f[k] = Behind(extents[n], g[n - 1])
        BY <3>1
      <4> HIDE DEF f
      <4> QED BY <3>1, <4>2, <4>3, <2>2
    <3>2. CASE k # n
      <4>1. k \in 0 .. n - 1
        BY <3>2, <2>3
      <4>2. g[k] = IF k = 0 THEN 0 ELSE Behind(extents[k], g[k - 1])
        BY <2>4, <4>1
      <4>3. k # 0 => k - 1 \in 0 .. n - 1
        BY <4>1, <2>3
      <4>4. f[k] = g[k] /\ (k # 0 => f[k - 1] = g[k - 1])
        BY <4>1, <4>3, <2>5
      <4> HIDE DEF f
      <4> QED BY <4>2, <4>4
    <3> QED BY <3>1, <3>2
  <2>7. Solves(f, n)
    <3>1. f = [k \in 0 .. n |-> f[k]]
      OBVIOUS
    <3> HIDE DEF f
    <3> QED BY <2>6, <3>1
  <2> HIDE DEF f, Solves
  <2> QED BY <2>1, <2>7
<1>2. \E f : Solves(f, Len(extents))
  BY <1>1
<1>3. Ends(extents) = CHOOSE f : Solves(f, Len(extents))
  BY DEF Ends
<1>4. Solves(Ends(extents), Len(extents))
  <2> HIDE DEF Solves
  <2> QED BY <1>2, <1>3
<1> QED BY <1>4

-----------------------------------------------------------------------------
(***************************************************************************)
(* Arithmetic on sizes.                                                    *)
(***************************************************************************)
Sizes == 0 .. SizeMax
Places == -1 .. SizeMax

LEMMA AlignmentsAreSizes ==
  ASSUME NEW a \in Alignments PROVE a \in 1 .. SizeMax /\ a \in Nat \ {0}
<1>1. SizeMax \in Nat /\ PointerSize \in 1 .. SizeMax
  BY SizesAssumption DEF IsSize
<1>2. \A b \in Basics : BasicSize[b] > 0 => BasicSize[b] \in 1 .. SizeMax
  <2> SUFFICES ASSUME NEW b \in Basics, BasicSize[b] > 0 PROVE BasicSize[b] \in 1 .. SizeMax
    OBVIOUS
  <2>1. BasicSize[b] \in 0 .. SizeMax
    BY SizesAssumption
  <2> QED BY <1>1, <2>1
<1>3. a \in 1 .. SizeMax
  BY <1>1, <1>2 DEF Alignments
<1> QED BY <1>1, <1>3

LEMMA SizesDoNotWrap ==
  ASSUME NEW n \in Sizes PROVE Wrapped(n) = n
BY SizesAssumption DEF Sizes, Wrapped

\* A number is a multiple of a divisor plus its remainder.
LEMMA Division ==
  ASSUME NEW v \in Nat, NEW a \in Nat \ {0}
  PROVE  \E q \in Nat : v = (a * q) + (v % a) /\ v % a \in 0 .. a - 1
<1>1. /\ v % a \in 0 .. a - 1 /\ v = (a * (v \div a)) + (v % a) /\ v \div a \in Nat
  BY Z3
<1> QED BY <1>1

LEMMA MultipleIsAligned ==
  ASSUME NEW q \in Nat, NEW a \in Nat \ {0}
  PROVE  (a * q) % a = 0
BY Z3

LEMMA AlignUpFacts ==
  ASSUME NEW n \in Places, NEW a \in Alignments
  PROVE  /\ AlignUp(n, a) \in Places
         /\ AlignUp(n, a) >= 0 =>
              /\ n >= 0 /\ AlignUp(n, a) % a = 0
              /\ AlignUp(n, a) - n \in 0 .. a - 1
         /\ AlignUp(0, a) = 0
<1>1. a \in Nat \ {0} /\ SizeMax \in Nat /\ n \in Int
  BY AlignmentsAreSizes, SizesAssumption DEF Places
<1>2. 0 % a = 0
  BY <1>1
<1>3. AlignUp(0, a) = 0
  BY <1>2 DEF AlignUp
<1>4. CASE n < 0
  <2>1. AlignUp(n, a) = n
    BY <1>4 DEF AlignUp
  <2> QED BY <1>1, <1>3, <1>4, <2>1
<1>5. CASE n >= 0 /\ n % a = 0
  <2>1. AlignUp(n, a) = n
    BY <1>5 DEF AlignUp
  <2>2. 0 \in 0 .. a - 1
    BY <1>1
  <2> QED BY <1>1, <1>3, <1>5, <2>1, <2>2
<1>6. CASE n >= 0 /\ n % a # 0
  <2> DEFINE padding == a - (n % a)
  <2>1. PICK q \in Nat : n = (a * q) + (n % a) /\ n % a \in 0 .. a - 1
    <3>1. n \in Nat
      BY <1>1, <1>6
    <3> HIDE DEF padding
    <3> QED BY <3>1, <1>1, Division
  <2>2. padding \in 1 .. a - 1
    BY <1>1, <1>6, <2>1
  <2>3. AlignUp(n, a) = IF n > SizeMax - padding THEN -1 ELSE Wrapped(n + padding)
    BY <1>1, <1>6 DEF AlignUp
  <2>4. (n + padding) % a = 0
    <3>1. n + padding = (a * q) + a
      BY <1>1, <2>1
    <3>2. (a * q) + a = a * (q + 1)
      BY <1>1
    <3>3. (a * (q + 1)) % a = 0
      BY <1>1, MultipleIsAligned
    <3> QED BY <3>1, <3>2, <3>3
  <2> HIDE DEF padding
  <2>5. CASE n > SizeMax - padding
    BY <1>1, <1>3, <2>3, <2>5 DEF Places
  <2>6. CASE ~(n > SizeMax - padding)
    <3>1. n + padding \in Sizes
      BY <1>1, <1>6, <2>2, <2>6 DEF Sizes
    <3>2. AlignUp(n, a) = n + padding
      BY <3>1, <2>3, <2>6, SizesDoNotWrap
    <3>3. n + padding \in Places /\ (n + padding) - n \in 0 .. a - 1
      BY <1>1, <2>2, <3>1 DEF Sizes, Places
    <3> QED BY <1>3, <1>6, <2>4, <3>2, <3>3
  <2> QED BY <2>5, <2>6
<1> QED BY <1>1, <1>4, <1>5, <1>6

LEMMA AddSizeFacts ==
  ASSUME NEW n \in Places, NEW size \in Sizes
  PROVE  /\ AddSize(n, size) \in Places
         /\ AddSize(n, size) >= 0 => n >= 0 /\ AddSize(n, size) = n + size
<1>1. SizeMax \in Nat /\ n \in Int /\ size \in Nat
  BY SizesAssumption DEF Places, Sizes
<1>2. CASE n < 0 \/ size > SizeMax - n
  <2>1. AddSize(n, size) = -1
    BY <1>2 DEF AddSize
  <2> QED BY <1>1, <2>1 DEF Places
<1>3. CASE ~(n < 0 \/ size > SizeMax - n)
  <2>1. n + size \in Sizes
    BY <1>1, <1>3 DEF Sizes
  <2>2. AddSize(n, size) = n + size
    BY <1>3, <2>1, SizesDoNotWrap DEF AddSize
  <2> QED BY <1>1, <1>3, <2>1, <2>2 DEF Sizes, Places
<1> QED BY <1>2, <1>3


-----------------------------------------------------------------------------
(***************************************************************************)
(* Layouts.                                                                *)
(***************************************************************************)
IsKnown(extent) == extent.known /\ extent.size \in Sizes /\ extent.alignment \in Alignments

LEMMA EndsArePlaces ==
  ASSUME NEW n \in Nat, NEW extents, Len(extents) = n, \A k \in 1 .. n : IsKnown(extents[k])
  PROVE  /\ \A k \in 0 .. n : Ends(extents)[k] \in Places
         /\ Ends(extents)[n] >= 0 => \A k \in 0 .. n : Ends(extents)[k] >= 0
<1> DEFINE end == Ends(extents)
<1>1. \A k \in 0 .. n : end[k] = IF k = 0 THEN 0 ELSE Behind(extents[k], end[k - 1])
  BY EndsUnfold
<1>2. SizeMax \in Nat
  BY SizesAssumption
<1> HIDE DEF end
<1>3. ASSUME NEW k \in 1 .. n, end[k - 1] \in Places
      PROVE  end[k] \in Places /\ (end[k] >= 0 => end[k - 1] >= 0)
  <2>1. end[k] = AddSize(AlignUp(end[k - 1], extents[k].alignment), extents[k].size)
    BY <1>1 DEF Behind
  <2>2. AlignUp(end[k - 1], extents[k].alignment) \in Places
        /\ (AlignUp(end[k - 1], extents[k].alignment) >= 0 => end[k - 1] >= 0)
    BY <1>3, AlignUpFacts DEF IsKnown
  <2>3. extents[k].size \in Sizes
    BY DEF IsKnown
  <2> QED BY <2>1, <2>2, <2>3, AddSizeFacts
<1>4. \A k \in 0 .. n : end[k] \in Places
  <2> DEFINE T == {k \in 0 .. n : end[k] \notin Places}
  <2> SUFFICES ASSUME T # {} PROVE FALSE
    OBVIOUS
  <2>1. T \subseteq Nat
    OBVIOUS
  <2>2. PICK k \in T : \A m \in T : k <= m
    <3> HIDE DEF T
    <3> QED BY <2>1, Least
  <2>3. k # 0
    BY <1>1, <1>2 DEF Places
  <2>4. k \in 1 .. n /\ k - 1 \in 0 .. n /\ ~(k <= k - 1)
    BY <2>3
  <2>5. end[k - 1] \in Places
    BY <2>2, <2>4
  <2> QED BY <2>4, <2>5, <1>3
<1>5. ASSUME end[n] >= 0 PROVE \A k \in 0 .. n : end[k] >= 0
  <2> DEFINE T == {j \in 0 .. n : ~(end[n - j] >= 0)}
  <2>1. T = {}
    <3> SUFFICES ASSUME T # {} PROVE FALSE
      OBVIOUS
    <3>1. T \subseteq Nat
      OBVIOUS
    <3>2. PICK j \in T : \A m \in T : j <= m
      <4> HIDE DEF T
      <4> QED BY <3>1, Least
    <3>3. j # 0
      BY <1>5
    <3>4. j \in 1 .. n /\ j - 1 \in 0 .. n /\ ~(j <= j - 1) /\ (n - j) + 1 \in 1 .. n
          /\ n - (j - 1) = (n - j) + 1 /\ ((n - j) + 1) - 1 = n - j /\ n - j \in 0 .. n
      BY <3>3
    <3>5. end[(n - j) + 1] >= 0
      BY <3>2, <3>4
    <3>6. end[n - j] >= 0
      BY <3>4, <3>5, <1>3, <1>4
    <3> QED BY <3>6
  <2> SUFFICES ASSUME NEW k \in 0 .. n PROVE end[k] >= 0
    OBVIOUS
  <2>2. n - k \in 0 .. n /\ n - (n - k) = k
    OBVIOUS
  <2> QED BY <2>1, <2>2
<1> QED BY <1>4, <1>5 DEF end

\* The alignment of a record is the largest of its members', and a multiple of all.
LEMMA RecordAlignment ==
  ASSUME NEW n \in Nat \ {0}, NEW extents, DOMAIN extents = 1 .. n, \A k \in 1 .. n : IsKnown(extents[k])
  PROVE  LET alignment == Largest({extents[k].alignment : k \in DOMAIN extents})
         IN /\ alignment \in Alignments /\ \E k \in 1 .. n : alignment = extents[k].alignment
            /\ \A k \in 1 .. n : alignment % extents[k].alignment = 0
<1> DEFINE S == {extents[k].alignment : k \in DOMAIN extents}
<1>1. S \subseteq Alignments
  BY DEF IsKnown
<1>2. S \subseteq 0 .. SizeMax /\ S # {}
  <2>1. extents[1].alignment \in S
    OBVIOUS
  <2>2. Alignments \subseteq 0 .. SizeMax
    BY AlignmentsAreSizes
  <2> HIDE DEF S
  <2> QED BY <1>1, <2>1, <2>2
<1>3. Largest(S) \in S /\ \A m \in S : m <= Largest(S)
  <2> HIDE DEF S
  <2> QED BY <1>2, LargestIsThere
<1>4. \A m \in S : Largest(S) % m = 0
  <2> HIDE DEF S
  <2> QED BY <1>1, <1>3, AlignmentsAssumption
<1>5. \A k \in 1 .. n : extents[k].alignment \in S
  OBVIOUS
<1>6. \E k \in 1 .. n : Largest(S) = extents[k].alignment
  BY <1>3
<1> QED BY <1>1, <1>3, <1>4, <1>5, <1>6

LEMMA StructIsLaidOut ==
  ASSUME NEW n \in Nat \ {0}, NEW extents, DOMAIN extents = 1 .. n, Len(extents) = n,
         \A k \in 1 .. n : IsKnown(extents[k]), StructLayout(extents).size >= 0
  PROVE  LET layout == StructLayout(extents)
         IN /\ layout.size \in Sizes /\ layout.alignment \in Alignments
            /\ LaidOut("struct", layout.size, layout.alignment, n, layout.offsets, extents)
<1> DEFINE end == Ends(extents)
           alignment == Largest({extents[k].alignment : k \in DOMAIN extents})
           layout == StructLayout(extents)
<1>1. /\ alignment \in Alignments /\ \E k \in 1 .. n : alignment = extents[k].alignment
      /\ \A k \in 1 .. n : alignment % extents[k].alignment = 0
  BY RecordAlignment
<1>2. /\ layout.size = AlignUp(end[n], alignment) /\ layout.alignment = alignment
      /\ \A k \in 1 .. n : layout.offsets[k] = AlignUp(end[k - 1], extents[k].alignment)
  BY DEF StructLayout
<1>3. \A k \in 0 .. n : end[k] = IF k = 0 THEN 0 ELSE Behind(extents[k], end[k - 1])
  BY EndsUnfold
<1>4. \A k \in 0 .. n : end[k] \in Places
  BY EndsArePlaces
<1>5. Ends(extents)[n] >= 0 => \A k \in 0 .. n : end[k] >= 0
  BY EndsArePlaces
<1>6. layout.size >= 0
  OBVIOUS
<1> DEFINE at == layout.offsets
<1>7. SizeMax \in Nat
  BY SizesAssumption
<1> HIDE DEF alignment, layout, at
<1>8. /\ layout.size \in Sizes /\ end[n] >= 0 /\ layout.size % alignment = 0
      /\ layout.size - end[n] \in 0 .. alignment - 1
  <2>1. n \in 0 .. n
    OBVIOUS
  <2> HIDE DEF end
  <2>2. AlignUp(end[n], alignment) \in Places
    BY <1>1, <1>4, <2>1, AlignUpFacts
  <2>3. layout.size \in Sizes
    BY <1>2, <1>6, <1>7, <2>2 DEF Places, Sizes
  <2> QED BY <1>1, <1>2, <1>4, <1>6, <2>1, <2>3, AlignUpFacts
<1>9. \A k \in 0 .. n : end[k] >= 0
  BY <1>5, <1>8
<1> HIDE DEF end
<1>10. ASSUME NEW k \in 1 .. n
       PROVE  /\ at[k] = AlignUp(end[k - 1], extents[k].alignment)
              /\ at[k] % extents[k].alignment = 0
              /\ at[k] - end[k - 1] \in 0 .. extents[k].alignment - 1
              /\ end[k] = at[k] + extents[k].size
  <2>1. extents[k].size \in Sizes /\ extents[k].alignment \in Alignments
    BY DEF IsKnown
  <2>2. k - 1 \in 0 .. n /\ k \in 0 .. n /\ k # 0
    OBVIOUS
  <2>3. at[k] = AlignUp(end[k - 1], extents[k].alignment)
    BY <1>2 DEF at
  <2>4. end[k - 1] \in Places /\ end[k] >= 0
    BY <2>2, <1>4, <1>9
  <2>5. at[k] \in Places
    BY <2>1, <2>3, <2>4, AlignUpFacts
  <2>6. end[k] = AddSize(at[k], extents[k].size)
    BY <1>3, <2>2, <2>3 DEF Behind
  <2>7. at[k] >= 0 /\ end[k] = at[k] + extents[k].size
    BY <2>1, <2>4, <2>5, <2>6, AddSizeFacts
  <2> QED BY <2>1, <2>3, <2>4, <2>7, AlignUpFacts
<1>11. at[1] = 0
  <2>1. 1 \in 1 .. n /\ 0 \in 0 .. n /\ 1 - 1 = 0
    OBVIOUS
  <2>2. end[0] = 0
    BY <1>3, <2>1
  <2>3. at[1] = AlignUp(0, extents[1].alignment)
    BY <1>10, <2>1, <2>2
  <2>4. 0 \in Places /\ extents[1].alignment \in Alignments
    BY <1>7, <2>1 DEF Places, IsKnown
  <2> QED BY <2>3, <2>4, AlignUpFacts
<1>12. \A k \in 2 .. n : at[k] - (at[k - 1] + extents[k - 1].size) \in 0 .. extents[k].alignment - 1
  <2> SUFFICES ASSUME NEW k \in 2 .. n
               PROVE  at[k] - (at[k - 1] + extents[k - 1].size) \in 0 .. extents[k].alignment - 1
    OBVIOUS
  <2>1. k \in 1 .. n /\ k - 1 \in 1 .. n
    OBVIOUS
  <2>2. end[k - 1] = at[k - 1] + extents[k - 1].size
    BY <2>1, <1>10
  <2>3. at[k] - end[k - 1] \in 0 .. extents[k].alignment - 1
    BY <2>1, <1>10
  <2> QED BY <2>2, <2>3
<1>13. layout.size - (at[n] + extents[n].size) \in 0 .. alignment - 1
  <2>1. n \in 1 .. n
    OBVIOUS
  <2>2. end[n] = at[n] + extents[n].size
    BY <2>1, <1>10
  <2> QED BY <2>2, <1>8
<1>14. LaidOut("struct", layout.size, alignment, n, at, extents)
  BY <1>1, <1>8, <1>10, <1>11, <1>12, <1>13 DEF LaidOut
<1> QED BY <1>1, <1>2, <1>8, <1>14 DEF layout, at

LEMMA UnionIsLaidOut ==
  ASSUME NEW n \in Nat \ {0}, NEW extents, DOMAIN extents = 1 .. n,
         \A k \in 1 .. n : IsKnown(extents[k]), UnionLayout(extents).size >= 0
  PROVE  LET layout == UnionLayout(extents)
         IN /\ layout.size \in Sizes /\ layout.alignment \in Alignments
            /\ LaidOut("union", layout.size, layout.alignment, n, layout.offsets, extents)
<1> DEFINE S == {extents[k].size : k \in DOMAIN extents}
           alignment == Largest({extents[k].alignment : k \in DOMAIN extents})
           layout == UnionLayout(extents)
           at == layout.offsets
<1>1. /\ alignment \in Alignments /\ \E k \in 1 .. n : alignment = extents[k].alignment
      /\ \A k \in 1 .. n : alignment % extents[k].alignment = 0
  BY RecordAlignment
<1>2. /\ layout.size = AlignUp(Largest(S), alignment) /\ layout.alignment = alignment
      /\ \A k \in 1 .. n : at[k] = 0
  BY DEF UnionLayout
<1>3. layout.size >= 0
  OBVIOUS
<1>4. S \subseteq 0 .. SizeMax /\ S # {}
  <2>1. extents[1].size \in S
    OBVIOUS
  <2>2. \A k \in 1 .. n : extents[k].size \in 0 .. SizeMax
    BY DEF IsKnown, Sizes
  <2> QED BY <2>1, <2>2
<1>5. SizeMax \in Nat
  BY SizesAssumption
<1>6. \A k \in 1 .. n : extents[k].size \in S /\ extents[k].alignment \in Nat \ {0}
  BY AlignmentsAreSizes DEF IsKnown
<1>7. \E k \in 1 .. n : Largest(S) = extents[k].size
  <2>1. Largest(S) \in S
    <3> HIDE DEF S
    <3> QED BY <1>4, LargestIsThere
  <2> QED BY <2>1
<1> HIDE DEF alignment, layout, at, S
<1>8. Largest(S) \in 0 .. SizeMax /\ \A m \in S : m <= Largest(S)
  BY <1>4, LargestIsThere
<1> DEFINE widest == Largest(S)
<1>9. /\ layout.size \in Sizes /\ layout.size % alignment = 0
      /\ layout.size - widest \in 0 .. alignment - 1
  <2>1. widest \in Places
    BY <1>5, <1>8 DEF Places
  <2> HIDE DEF widest
  <2>2. layout.size = AlignUp(widest, alignment)
    BY <1>2 DEF widest
  <2>3. AlignUp(widest, alignment) \in Places
    BY <1>1, <2>1, AlignUpFacts
  <2>4. layout.size \in Sizes
    BY <1>3, <1>5, <2>2, <2>3 DEF Places, Sizes
  <2> QED BY <1>1, <1>3, <2>1, <2>2, <2>4, AlignUpFacts
<1>10. \A k \in 1 .. n : at[k] % extents[k].alignment = 0
  BY <1>2, <1>6
<1>11. \A k \in 1 .. n : at[k] = 0 /\ at[k] + extents[k].size <= layout.size
  <2> SUFFICES ASSUME NEW k \in 1 .. n PROVE at[k] = 0 /\ at[k] + extents[k].size <= layout.size
    OBVIOUS
  <2>1. extents[k].size <= widest /\ extents[k].size \in Nat
    <3>1. extents[k].size \in S /\ extents[k].size \in 0 .. SizeMax
      BY <1>6 DEF IsKnown, Sizes
    <3> QED BY <3>1, <1>5, <1>8
  <2>2. at[k] = 0 /\ widest \in Nat /\ layout.size \in Nat /\ layout.size - widest >= 0
    BY <1>1, <1>2, <1>5, <1>8, <1>9, AlignmentsAreSizes DEF Sizes
  <2> HIDE DEF widest
  <2> QED BY <2>1, <2>2
<1>12. \E k \in 1 .. n : layout.size - (at[k] + extents[k].size) < alignment
  <2>1. PICK k \in 1 .. n : widest = extents[k].size
    BY <1>7
  <2>2. at[k] = 0 /\ widest \in Nat /\ layout.size \in Nat /\ alignment \in Nat
        /\ layout.size - widest <= alignment - 1
    BY <1>1, <1>2, <1>5, <1>8, <1>9, AlignmentsAreSizes DEF Sizes
  <2> HIDE DEF widest
  <2>3. layout.size - (at[k] + widest) < alignment
    BY <2>2
  <2> QED BY <2>1, <2>3
<1>13. LaidOut("union", layout.size, alignment, n, at, extents)
  BY <1>1, <1>9, <1>10, <1>11, <1>12 DEF LaidOut
<1> QED BY <1>1, <1>2, <1>9, <1>13 DEF layout, at


-----------------------------------------------------------------------------
(***************************************************************************)
(* Extents.                                                                *)
(***************************************************************************)
\* What the extent of a type is computed from: the element of an array is older.
SizedEntry(t, i) ==
  /\ t.kind = "basic" => t.name \in Basics
  /\ t.kind = "array" => t.of \in 1 .. i - 1 /\ t.count \in Sizes /\ t.unsized \in BOOLEAN
  /\ t.kind \in {"struct", "union"} /\ t.complete => t.size \in Sizes /\ t.alignment \in Alignments
SizedTable(ts) == Len(ts) \in Nat /\ \A i \in 1 .. Len(ts) : SizedEntry(ts[i], i)

\* Two tables of extents that agree on what is older.
LEMMA SameExtent ==
  ASSUME NEW i \in Nat, NEW t, SizedEntry(t, i), NEW f, NEW g, \A j \in 1 .. i - 1 : f[j] = g[j]
  PROVE  ExtentAmong(t, f) = ExtentAmong(t, g)
<1>1. t.kind = "array" => f[t.of] = g[t.of]
  BY DEF SizedEntry
<1> QED BY <1>1 DEF ExtentAmong

LEMMA ExtentsUnfold ==
  ASSUME NEW ts, SizedTable(ts)
  PROVE  \A i \in 1 .. Len(ts) : ExtentsIn(ts)[i] = ExtentAmong(ts[i], ExtentsIn(ts))
<1> DEFINE Solves(f, n) == f = [i \in 1 .. n |-> ExtentAmong(ts[i], f)]
           T == {n \in 0 .. Len(ts) : ~\E f : Solves(f, n)}
<1>0. Len(ts) \in Nat /\ \A i \in 1 .. Len(ts) : SizedEntry(ts[i], i)
  BY DEF SizedTable
<1>1. T = {}
  <2> SUFFICES ASSUME T # {} PROVE FALSE
    OBVIOUS
  <2>1. PICK n \in T : \A m \in T : n <= m
    <3>1. T \subseteq Nat
      BY <1>0
    <3> HIDE DEF T
    <3> QED BY <3>1, Least
  <2>2. n # 0
    <3>1. Solves([i \in 1 .. 0 |-> 0], 0)
      OBVIOUS
    <3> QED BY <3>1
  <2>3. n \in 1 .. Len(ts) /\ n - 1 \in 0 .. Len(ts) /\ n - 1 \notin T
    <3>1. n \in 1 .. Len(ts) /\ n - 1 \in 0 .. Len(ts) /\ ~(n <= n - 1)
      BY <2>1, <2>2, <1>0
    <3> HIDE DEF T
    <3> QED BY <3>1, <2>1
  <2>4. PICK g : Solves(g, n - 1)
    BY <2>3
  <2> DEFINE f == [i \in 1 .. n |-> IF i = n THEN ExtentAmong(ts[n], g) ELSE g[i]]
  <2>5. \A i \in 1 .. n - 1 : f[i] = g[i]
    BY <2>3, <1>0
  <2>6. \A i \in 1 .. n : f[i] = ExtentAmong(ts[i], g)
    <3> SUFFICES ASSUME NEW i \in 1 .. n PROVE f[i] = ExtentAmong(ts[i], g)
      OBVIOUS
    <3>1. CASE i = n
      <4>1. f[i] = ExtentAmong(ts[n], g)
        BY <3>1
      <4> QED BY <3>1, <4>1
    <3>2. CASE i # n
      <4>1. i \in 1 .. n - 1
        BY <3>2, <2>3, <1>0
      <4>2. g[i] = ExtentAmong(ts[i], g)
        BY <4>1, <2>4
      <4>3. f[i] = g[i]
        BY <4>1, <2>5
      <4> QED BY <4>2, <4>3
    <3> QED BY <3>1, <3>2
  <2>7. f = [i \in 1 .. n |-> f[i]]
    OBVIOUS
  <2> HIDE DEF f
  <2>8. \A i \in 1 .. n : ExtentAmong(ts[i], g) = ExtentAmong(ts[i], f)
    <3> SUFFICES ASSUME NEW i \in 1 .. n PROVE ExtentAmong(ts[i], g) = ExtentAmong(ts[i], f)
      OBVIOUS
    <3>1. i \in Nat /\ i \in 1 .. Len(ts) /\ \A j \in 1 .. i - 1 : j \in 1 .. n - 1
      BY <2>3, <1>0
    <3>2. SizedEntry(ts[i], i) /\ \A j \in 1 .. i - 1 : g[j] = f[j]
      BY <3>1, <2>5, <1>0
    <3> QED BY <3>1, <3>2, SameExtent
  <2>9. Solves(f, n)
    BY <2>6, <2>7, <2>8
  <2> HIDE DEF Solves
  <2> QED BY <2>1, <2>9
<1>2. \E f : Solves(f, Len(ts))
  <2>1. Len(ts) \in 0 .. Len(ts)
    BY <1>0
  <2> QED BY <1>1, <2>1
<1>3. ExtentsIn(ts) = CHOOSE f : Solves(f, Len(ts))
  BY DEF ExtentsIn
<1>4. Solves(ExtentsIn(ts), Len(ts))
  <2> HIDE DEF Solves
  <2> QED BY <1>2, <1>3
<1> QED BY <1>4

\* A length that is not more than the quotient has a product that fits.
LEMMA ProductsFit ==
  ASSUME NEW count \in Nat, NEW size \in Nat \ {0}, ~(count > SizeMax \div size)
  PROVE  count * size \in Sizes
<1> DEFINE q == SizeMax \div size
<1>1. SizeMax \in Nat
  BY SizesAssumption
<1>2. q \in Nat /\ size * q <= SizeMax
  BY <1>1, Z3
<1>3. count <= q
  BY <1>2
<1> HIDE DEF q
<1>4. count * size <= size * q
  BY <1>2, <1>3, Z3
<1>5. count * size \in Nat /\ size * q \in Nat
  BY <1>2
<1> QED BY <1>1, <1>2, <1>4, <1>5 DEF Sizes

\* What an extent says of itself.
IsExtent(extent) == extent.known \in BOOLEAN /\ (extent.known => IsKnown(extent))

LEMMA ArrayExtents ==
  ASSUME NEW t, t.count \in Sizes, t.unsized \in BOOLEAN, NEW element, IsExtent(element)
  PROVE  IsExtent(ArrayExtent(t, element))
<1> DEFINE extent == ArrayExtent(t, element)
<1>1. IsExtent(Unknown) /\ IsExtent(DividesByZero)
  BY DEF IsExtent, Unknown, DividesByZero
<1>2. CASE ~(~t.unsized /\ element.known /\ element.size # 0 /\ t.count <= SizeMax \div element.size)
  <2>1. CASE t.unsized
    BY <2>1, <1>1 DEF ArrayExtent
  <2>2. CASE ~t.unsized /\ ~element.known
    BY <2>2 DEF ArrayExtent
  <2>3. CASE ~t.unsized /\ element.known /\ element.size = 0
    BY <2>3, <1>1 DEF ArrayExtent
  <2>4. CASE ~t.unsized /\ element.known /\ element.size # 0 /\ ~(t.count <= SizeMax \div element.size)
    <3>1. element.size \in Nat \ {0} /\ t.count \in Nat /\ SizeMax \in Nat
      BY <2>4, SizesAssumption DEF IsExtent, IsKnown, Sizes
    <3>2. t.count > SizeMax \div element.size
      BY <2>4, <3>1
    <3> QED BY <2>4, <3>2, <1>1 DEF ArrayExtent
  <2> QED BY <1>2, <2>1, <2>2, <2>3, <2>4 DEF IsExtent
<1>3. CASE ~t.unsized /\ element.known /\ element.size # 0 /\ t.count <= SizeMax \div element.size
  <2>1. element.size \in Nat \ {0} /\ t.count \in Nat /\ SizeMax \in Nat /\ element.alignment \in Alignments
    BY <1>3, SizesAssumption DEF IsExtent, IsKnown, Sizes
  <2>2. t.count * element.size \in Sizes
    <3>1. ~(t.count > SizeMax \div element.size)
      <4>1. SizeMax \div element.size \in Nat
        BY <2>1, Z3
      <4> QED BY <2>1, <4>1, <1>3
    <3> QED BY <2>1, <3>1, ProductsFit
  <2>3. ~(t.count > SizeMax \div element.size)
    BY <1>3, <2>1
  <2>4. ArrayExtent(t, element) = Extent(t.count * element.size, element.alignment)
    BY <1>3, <2>2, <2>3, SizesDoNotWrap DEF ArrayExtent
  <2> QED BY <2>1, <2>2, <2>4 DEF Extent, IsExtent, IsKnown
<1> QED BY <1>2, <1>3

\* What is known of an array has not wrapped.
LEMMA ArrayExtentsAreExact ==
  ASSUME NEW t, t.count \in Sizes, t.unsized \in BOOLEAN, NEW element, IsExtent(element),
         ArrayExtent(t, element).known
  PROVE  /\ element.known
         /\ ArrayExtent(t, element) = Extent(t.count * element.size, element.alignment)
<1>1. ~t.unsized /\ element.known /\ element.size # 0 /\ ~(t.count > SizeMax \div element.size)
  BY DEF ArrayExtent, Unknown, DividesByZero
<1>2. element.size \in Nat \ {0} /\ t.count \in Nat /\ SizeMax \in Nat
  BY <1>1, SizesAssumption DEF IsExtent, IsKnown, Sizes
<1>3. t.count * element.size \in Sizes
  BY <1>1, <1>2, ProductsFit
<1>4. ArrayExtent(t, element) = Extent(t.count * element.size, element.alignment)
  BY <1>1, <1>3, SizesDoNotWrap DEF ArrayExtent
<1> QED BY <1>1, <1>4

LEMMA ExtentsAreKnown ==
  ASSUME NEW ts, SizedTable(ts)
  PROVE  \A i \in 1 .. Len(ts) : IsExtent(ExtentsIn(ts)[i])
<1> DEFINE extents == ExtentsIn(ts)
           T == {i \in 1 .. Len(ts) : ~IsExtent(extents[i])}
<1>0. Len(ts) \in Nat /\ \A i \in 1 .. Len(ts) : SizedEntry(ts[i], i)
  BY DEF SizedTable
<1>1. \A i \in 1 .. Len(ts) : extents[i] = ExtentAmong(ts[i], extents)
  BY ExtentsUnfold
<1> HIDE DEF extents
<1> SUFFICES ASSUME T # {} PROVE FALSE
  BY DEF extents
<1>2. PICK i \in T : \A j \in T : i <= j
  <2>1. T \subseteq Nat
    OBVIOUS
  <2> HIDE DEF T
  <2> QED BY <2>1, Least
<1> DEFINE t == ts[i]
<1>3. SizedEntry(t, i) /\ extents[i] = ExtentAmong(t, extents) /\ i \in 1 .. Len(ts)
  BY <1>0, <1>1
<1>4. \A j \in 1 .. i - 1 : IsExtent(extents[j])
  <2>1. \A j \in 1 .. i - 1 : j \in 1 .. Len(ts) /\ ~(i <= j)
    BY <1>0, <1>3
  <2> QED BY <1>2, <2>1
<1> HIDE DEF t
<1>5. IsExtent(ExtentAmong(t, extents))
  <2>1. CASE t.kind = "array"
    <3>1. IsExtent(ArrayExtent(t, extents[t.of]))
      BY <2>1, <1>3, <1>4, ArrayExtents DEF SizedEntry
    <3> QED BY <2>1, <3>1 DEF ExtentAmong
  <2>2. CASE t.kind = "basic" /\ BasicSize[t.name] > 0
    <3>1. BasicSize[t.name] \in Alignments /\ BasicSize[t.name] \in Sizes
      BY <2>2, <1>3, SizesAssumption DEF SizedEntry, Alignments, Sizes
    <3> QED BY <2>2, <3>1 DEF ExtentAmong, Extent, IsExtent, IsKnown
  <2>3. CASE t.kind = "enum"
    <3>1. BasicSize["int"] \in Alignments /\ BasicSize["int"] \in Sizes
      BY SizesAssumption, AlignmentsAssumption DEF Alignments, Sizes
    <3> QED BY <2>3, <3>1 DEF ExtentAmong, Extent, IsExtent, IsKnown
  <2>4. CASE t.kind = "pointer"
    <3>1. PointerSize \in Alignments /\ PointerSize \in Sizes
      BY SizesAssumption DEF Alignments, Sizes, IsSize
    <3> QED BY <2>4, <3>1 DEF ExtentAmong, Extent, IsExtent, IsKnown
  <2>5. CASE t.kind \in {"struct", "union"} /\ t.complete
    <3>1. t.size \in Sizes /\ t.alignment \in Alignments
      BY <2>5, <1>3 DEF SizedEntry
    <3> QED BY <2>5, <3>1 DEF ExtentAmong, Extent, IsExtent, IsKnown
  <2>6. CASE /\ t.kind \notin {"array", "enum", "pointer"}
             /\ ~(t.kind = "basic" /\ BasicSize[t.name] > 0)
             /\ ~(t.kind \in {"struct", "union"} /\ t.complete)
    <3>1. ExtentAmong(t, extents) = Unknown
      BY <2>6 DEF ExtentAmong
    <3> QED BY <3>1 DEF Unknown, IsExtent
  <2> QED BY <2>1, <2>2, <2>3, <2>4, <2>5, <2>6
<1> QED BY <1>3, <1>5

\* The room of a type, as the code should compute it, depends on what is older as well.
LEMMA SameRoom ==
  ASSUME NEW i \in Nat, NEW t, SizedEntry(t, i), NEW f, NEW g, \A j \in 1 .. i - 1 : f[j] = g[j]
  PROVE  RoomAmong(t, f) = RoomAmong(t, g)
<1>1. t.kind = "array" => f[t.of] = g[t.of]
  BY DEF SizedEntry
<1> QED BY <1>1, SameExtent DEF RoomAmong

LEMMA RoomsUnfold ==
  ASSUME NEW ts, SizedTable(ts)
  PROVE  \A i \in 1 .. Len(ts) : RoomsIn(ts)[i] = RoomAmong(ts[i], RoomsIn(ts))
<1> DEFINE Solves(f, n) == f = [i \in 1 .. n |-> RoomAmong(ts[i], f)]
           T == {n \in 0 .. Len(ts) : ~\E f : Solves(f, n)}
<1>0. Len(ts) \in Nat /\ \A i \in 1 .. Len(ts) : SizedEntry(ts[i], i)
  BY DEF SizedTable
<1>1. T = {}
  <2> SUFFICES ASSUME T # {} PROVE FALSE
    OBVIOUS
  <2>1. PICK n \in T : \A m \in T : n <= m
    <3>1. T \subseteq Nat
      BY <1>0
    <3> HIDE DEF T
    <3> QED BY <3>1, Least
  <2>2. n # 0
    <3>1. Solves([i \in 1 .. 0 |-> 0], 0)
      OBVIOUS
    <3> QED BY <3>1
  <2>3. n \in 1 .. Len(ts) /\ n - 1 \in 0 .. Len(ts) /\ n - 1 \notin T
    <3>1. n \in 1 .. Len(ts) /\ n - 1 \in 0 .. Len(ts) /\ ~(n <= n - 1)
      BY <2>1, <2>2, <1>0
    <3> HIDE DEF T
    <3> QED BY <3>1, <2>1
  <2>4. PICK g : Solves(g, n - 1)
    BY <2>3
  <2> DEFINE f == [i \in 1 .. n |-> IF i = n THEN RoomAmong(ts[n], g) ELSE g[i]]
  <2>5. \A i \in 1 .. n - 1 : f[i] = g[i]
    BY <2>3, <1>0
  <2>6. \A i \in 1 .. n : f[i] = RoomAmong(ts[i], g)
    <3> SUFFICES ASSUME NEW i \in 1 .. n PROVE f[i] = RoomAmong(ts[i], g)
      OBVIOUS
    <3>1. CASE i = n
      <4>1. f[i] = RoomAmong(ts[n], g)
        BY <3>1
      <4> QED BY <3>1, <4>1
    <3>2. CASE i # n
      <4>1. i \in 1 .. n - 1
        BY <3>2, <2>3, <1>0
      <4>2. g[i] = RoomAmong(ts[i], g)
        BY <4>1, <2>4
      <4>3. f[i] = g[i]
        BY <4>1, <2>5
      <4> QED BY <4>2, <4>3
    <3> QED BY <3>1, <3>2
  <2>7. f = [i \in 1 .. n |-> f[i]]
    OBVIOUS
  <2> HIDE DEF f
  <2>8. \A i \in 1 .. n : RoomAmong(ts[i], g) = RoomAmong(ts[i], f)
    <3> SUFFICES ASSUME NEW i \in 1 .. n PROVE RoomAmong(ts[i], g) = RoomAmong(ts[i], f)
      OBVIOUS
    <3>1. i \in Nat /\ i \in 1 .. Len(ts) /\ \A j \in 1 .. i - 1 : j \in 1 .. n - 1
      BY <2>3, <1>0
    <3>2. SizedEntry(ts[i], i) /\ \A j \in 1 .. i - 1 : g[j] = f[j]
      BY <3>1, <2>5, <1>0
    <3> QED BY <3>1, <3>2, SameRoom
  <2>9. Solves(f, n)
    BY <2>6, <2>7, <2>8
  <2> HIDE DEF Solves
  <2> QED BY <2>1, <2>9
<1>2. \E f : Solves(f, Len(ts))
  <2>1. Len(ts) \in 0 .. Len(ts)
    BY <1>0
  <2> QED BY <1>1, <2>1
<1>3. RoomsIn(ts) = CHOOSE f : Solves(f, Len(ts))
  BY DEF RoomsIn
<1>4. Solves(RoomsIn(ts), Len(ts))
  <2> HIDE DEF Solves
  <2> QED BY <1>2, <1>3
<1> QED BY <1>4

\* What the code knows of a type is the room it takes.
LEMMA KnownExtentsAreRooms ==
  ASSUME NEW ts, SizedTable(ts)
  PROVE  \A i \in 1 .. Len(ts) : ExtentsIn(ts)[i].known => RoomsIn(ts)[i] = ExtentsIn(ts)[i]
<1> DEFINE extents == ExtentsIn(ts)
           room == RoomsIn(ts)
           T == {i \in 1 .. Len(ts) : extents[i].known /\ room[i] # extents[i]}
<1>0. Len(ts) \in Nat /\ \A i \in 1 .. Len(ts) : SizedEntry(ts[i], i)
  BY DEF SizedTable
<1>1. \A i \in 1 .. Len(ts) : extents[i] = ExtentAmong(ts[i], extents) /\ IsExtent(extents[i])
  BY ExtentsUnfold, ExtentsAreKnown
<1>2. \A i \in 1 .. Len(ts) : room[i] = RoomAmong(ts[i], room)
  BY RoomsUnfold
<1> HIDE DEF extents, room
<1> SUFFICES ASSUME T # {} PROVE FALSE
  BY DEF extents, room
<1>3. PICK i \in T : \A j \in T : i <= j
  <2>1. T \subseteq Nat
    OBVIOUS
  <2> HIDE DEF T
  <2> QED BY <2>1, Least
<1> DEFINE t == ts[i]
<1>4. /\ i \in 1 .. Len(ts) /\ SizedEntry(t, i)
      /\ extents[i] = ExtentAmong(t, extents) /\ room[i] = RoomAmong(t, room)
      /\ extents[i].known /\ room[i] # extents[i]
  BY <1>0, <1>1, <1>2
<1>5. \A j \in 1 .. i - 1 :
        j \in 1 .. Len(ts) /\ IsExtent(extents[j]) /\ (extents[j].known => room[j] = extents[j])
  <2>1. \A j \in 1 .. i - 1 : j \in 1 .. Len(ts) /\ ~(i <= j)
    BY <1>0, <1>4
  <2> QED BY <1>1, <1>3, <2>1
<1> HIDE DEF t, T
<1>6. CASE t.kind = "array"
  <2>1. t.of \in 1 .. i - 1 /\ t.count \in Sizes /\ t.unsized \in BOOLEAN
    BY <1>4, <1>6 DEF SizedEntry
  <2>2. extents[i] = ArrayExtent(t, extents[t.of])
    BY <1>4, <1>6 DEF ExtentAmong
  <2>3. /\ extents[t.of].known
        /\ extents[i] = Extent(t.count * extents[t.of].size, extents[t.of].alignment)
    BY <1>4, <1>5, <2>1, <2>2, ArrayExtentsAreExact
  <2>4. room[t.of] = extents[t.of]
    BY <1>5, <2>1, <2>3
  <2> QED BY <1>4, <1>6, <2>3, <2>4 DEF RoomAmong
<1>7. CASE t.kind # "array"
  <2>1. room[i] = ExtentAmong(t, room)
    BY <1>4, <1>7 DEF RoomAmong
  <2>2. ExtentAmong(t, room) = ExtentAmong(t, extents)
    BY <1>7 DEF ExtentAmong
  <2> QED BY <1>4, <2>1, <2>2
<1> QED BY <1>6, <1>7

\* A type whose extent is known keeps it: no type changes but records that were incomplete.
LEMMA ExtentsStay ==
  ASSUME NEW ts, SizedTable(ts), NEW longer, SizedTable(longer), Len(ts) <= Len(longer),
         \A i \in 1 .. Len(ts) :
           \/ longer[i] = ts[i]
           \/ ts[i].kind \in {"struct", "union"} /\ ~ts[i].complete
  PROVE  \A i \in 1 .. Len(ts) :
           ExtentsIn(ts)[i].known => ExtentsIn(longer)[i] = ExtentsIn(ts)[i]
<1> DEFINE old == ExtentsIn(ts)
           new == ExtentsIn(longer)
           T == {i \in 1 .. Len(ts) : old[i].known /\ new[i] # old[i]}
<1>0. /\ Len(ts) \in Nat /\ Len(longer) \in Nat
      /\ \A i \in 1 .. Len(ts) : SizedEntry(ts[i], i)
  BY DEF SizedTable
<1>1. \A i \in 1 .. Len(ts) : old[i] = ExtentAmong(ts[i], old)
  BY ExtentsUnfold
<1>2. \A i \in 1 .. Len(longer) : new[i] = ExtentAmong(longer[i], new)
  BY ExtentsUnfold
<1> HIDE DEF old, new
<1> SUFFICES ASSUME T # {} PROVE FALSE
  BY DEF old, new
<1>3. PICK i \in T : \A j \in T : i <= j
  <2>1. T \subseteq Nat
    OBVIOUS
  <2> HIDE DEF T
  <2> QED BY <2>1, Least
<1> DEFINE t == ts[i]
<1>4. /\ i \in 1 .. Len(ts) /\ i \in 1 .. Len(longer)
      /\ SizedEntry(t, i) /\ old[i] = ExtentAmong(t, old) /\ new[i] = ExtentAmong(longer[i], new)
      /\ old[i].known /\ new[i] # old[i]
  BY <1>0, <1>1, <1>2
<1>5. \A j \in 1 .. i - 1 : old[j].known => new[j] = old[j]
  <2>1. \A j \in 1 .. i - 1 : j \in 1 .. Len(ts) /\ ~(i <= j)
    BY <1>0, <1>4
  <2> QED BY <1>3, <2>1
<1>6. longer[i] = t
  <2> SUFFICES ASSUME t.kind \in {"struct", "union"}, ~t.complete PROVE FALSE
    BY <1>4
  <2>1. ExtentAmong(t, old) = Unknown
    BY DEF ExtentAmong
  <2> QED BY <1>4, <2>1 DEF Unknown
<1> HIDE DEF t, T
<1>7. t.kind = "array" => old[t.of].known
  <2> SUFFICES ASSUME t.kind = "array", ~old[t.of].known PROVE FALSE
    OBVIOUS
  <2>1. ExtentAmong(t, old) = ArrayExtent(t, old[t.of])
    BY DEF ExtentAmong
  <2>2. ~ArrayExtent(t, old[t.of]).known
    BY DEF ArrayExtent, Unknown
  <2> QED BY <1>4, <2>1, <2>2
<1>8. t.kind = "array" => new[t.of] = old[t.of]
  BY <1>4, <1>5, <1>7 DEF SizedEntry
<1>9. ExtentAmong(t, new) = ExtentAmong(t, old)
  BY <1>8 DEF ExtentAmong
<1> QED BY <1>4, <1>6, <1>9

-----------------------------------------------------------------------------
(***************************************************************************)
(* Complete records stay laid out.                                         *)
(***************************************************************************)
\* A record with its members in ms, whose types are in ts.
IsLaidOut(t, ms, ts) ==
  /\ \A k \in 1 .. t.count : /\ ms[t.first + k].type \in 1 .. Len(ts)
                             /\ ExtentsIn(ts)[ms[t.first + k].type].known
  /\ LaidOut(t.kind, t.size, t.alignment, t.count,
             [k \in 1 .. t.count |-> ms[t.first + k].offset],
             [k \in 1 .. t.count |-> ExtentsIn(ts)[ms[t.first + k].type]])

Sized(ts, ms) ==
  /\ SizedTable(ts)
  /\ \A i \in 1 .. Len(ts) :
       IsRecord(ts[i]) /\ ts[i].complete => IsLaidOut(ts[i], ms, ts)
SizesInv == Sized(types, members)

LEMMA SameLaidOut ==
  ASSUME NEW n \in Nat \ {0}, NEW kind, NEW size, NEW alignment, NEW at, NEW extents, NEW bt, NEW fs,
         \A k \in 1 .. n : at[k] = bt[k] /\ extents[k] = fs[k],
         LaidOut(kind, size, alignment, n, at, extents)
  PROVE  LaidOut(kind, size, alignment, n, bt, fs)
<1>1. 1 \in 1 .. n /\ n \in 1 .. n /\ \A k \in 2 .. n : k \in 1 .. n /\ k - 1 \in 1 .. n
  OBVIOUS
<1>2. at[1] = bt[1] /\ at[n] = bt[n] /\ extents[n] = fs[n]
      /\ \A k \in 2 .. n : /\ at[k] = bt[k] /\ at[k - 1] = bt[k - 1]
                           /\ extents[k] = fs[k] /\ extents[k - 1] = fs[k - 1]
  BY <1>1
<1> QED BY <1>2 DEF LaidOut

\* The members of two tables of which one holds all of the other.
Holds(more, ms) == Len(ms) \in Nat /\ \A k \in 1 .. Len(ms) : more[k] = ms[k]
Outlasts(longer, ts) ==
  /\ SizedTable(ts) /\ SizedTable(longer) /\ Len(ts) <= Len(longer)
  /\ \A i \in 1 .. Len(ts) :
       \/ longer[i] = ts[i]
       \/ ts[i].kind \in {"struct", "union"} /\ ~ts[i].complete

LEMMA RecordStaysLaidOut ==
  ASSUME NEW ts, NEW longer, Outlasts(longer, ts), NEW ms, NEW more, Holds(more, ms),
         NEW t, t.first \in Nat, t.count \in Nat \ {0}, t.first + t.count <= Len(ms),
         IsLaidOut(t, ms, ts)
  PROVE  IsLaidOut(t, more, longer)
<1>1. \A k \in 1 .. t.count : t.first + k \in 1 .. Len(ms)
  BY DEF Holds
<1>2. \A k \in 1 .. t.count : more[t.first + k] = ms[t.first + k]
  BY <1>1 DEF Holds
<1>3. \A i \in 1 .. Len(ts) : ExtentsIn(ts)[i].known => ExtentsIn(longer)[i] = ExtentsIn(ts)[i]
  BY ExtentsStay DEF Outlasts
<1>4. \A k \in 1 .. t.count : /\ ms[t.first + k].type \in 1 .. Len(ts)
                              /\ ExtentsIn(ts)[ms[t.first + k].type].known
  BY DEF IsLaidOut
<1>5. \A k \in 1 .. t.count : /\ more[t.first + k].type \in 1 .. Len(longer)
                              /\ ExtentsIn(longer)[more[t.first + k].type]
                                   = ExtentsIn(ts)[ms[t.first + k].type]
  <2>1. \A i \in 1 .. Len(ts) : i \in 1 .. Len(longer)
    BY DEF Outlasts, SizedTable
  <2> QED BY <2>1, <1>2, <1>3, <1>4
<1> DEFINE at == [k \in 1 .. t.count |-> ms[t.first + k].offset]
           extents == [k \in 1 .. t.count |-> ExtentsIn(ts)[ms[t.first + k].type]]
           bt == [k \in 1 .. t.count |-> more[t.first + k].offset]
           fs == [k \in 1 .. t.count |-> ExtentsIn(longer)[more[t.first + k].type]]
<1>6. \A k \in 1 .. t.count : at[k] = bt[k] /\ extents[k] = fs[k]
  BY <1>2, <1>5
<1>7. LaidOut(t.kind, t.size, t.alignment, t.count, at, extents)
  BY DEF IsLaidOut
<1> HIDE DEF at, extents, bt, fs
<1>8. LaidOut(t.kind, t.size, t.alignment, t.count, bt, fs)
  BY <1>6, <1>7, SameLaidOut
<1> QED BY <1>4, <1>5, <1>8 DEF IsLaidOut, bt, fs

\* The members of a complete record are there.
LEMMA CompleteHasMembers ==
  ASSUME TypesInv, NEW i \in Ids, IsRecord(types[i]), types[i].complete
  PROVE  /\ types[i].first \in Nat /\ types[i].count \in Nat \ {0}
         /\ types[i].first + types[i].count <= Len(members)
<1>1. IsRecordEntry(types[i]) /\ RecordInv(i)
  BY DEF TypesInv, ShapeInv, IsEntry, Records, IsRecord
<1> QED BY <1>1 DEF IsRecordEntry, RecordInv, HasMembers

LEMMA AppendKeepsSizes ==
  ASSUME TypesInv, SizesInv, NEW t, SizedEntry(t, Len(types) + 1), types' = Append(types, t),
         UNCHANGED members,
         IsRecord(t) /\ t.complete =>
           /\ t.first \in Nat /\ t.count \in Nat \ {0} /\ t.first + t.count <= Len(members)
           /\ IsLaidOut(t, members, types)
  PROVE  SizesInv'
<1> DEFINE longer == Append(types, t)
           n == Len(types) + 1
<1>1. /\ Len(types) \in Nat /\ Len(longer) = n /\ longer[n] = t
      /\ \A i \in 1 .. Len(types) : longer[i] = types[i]
  BY Appended DEF TypesInv, ShapeInv
<1> HIDE DEF longer
<1>2. SizedTable(types) /\ \A i \in 1 .. Len(types) : SizedEntry(types[i], i)
  BY DEF SizesInv, Sized, SizedTable
<1>3. SizedTable(longer)
  <2>1. \A i \in 1 .. n : SizedEntry(longer[i], i)
    BY <1>1, <1>2
  <2> QED BY <1>1, <2>1 DEF SizedTable
<1>4. Outlasts(longer, types) /\ Holds(members, members)
  <2>1. Len(members) \in Nat
    BY Appended DEF TypesInv, ShapeInv
  <2> QED BY <1>1, <1>2, <1>3, <2>1 DEF Outlasts, Holds
<1>5. ASSUME NEW i \in 1 .. n, IsRecord(longer[i]), longer[i].complete
      PROVE  IsLaidOut(longer[i], members, longer)
  <2>1. CASE i = n
    BY <1>1, <1>4, <1>5, <2>1, RecordStaysLaidOut
  <2>2. CASE i # n
    <3>1. i \in Ids /\ longer[i] = types[i]
      BY <1>1, <2>2 DEF Ids
    <3>2. IsLaidOut(types[i], members, types)
      BY <1>5, <3>1 DEF SizesInv, Sized, Ids
    <3>3. types[i].first \in Nat /\ types[i].count \in Nat \ {0}
          /\ types[i].first + types[i].count <= Len(members)
      BY <1>5, <3>1, CompleteHasMembers
    <3> QED BY <1>4, <3>1, <3>2, <3>3, RecordStaysLaidOut
  <2> QED BY <2>1, <2>2
<1>6. Sized(longer, members)
  BY <1>1, <1>3, <1>5 DEF Sized
<1> QED BY <1>6 DEF SizesInv, longer

LEMMA InternKeepsSizes ==
  ASSUME TypesInv, SizesInv, NEW t, NEW array, NEW from, Intern(t, array, from),
         SizedEntry(t, Len(types) + 1),
         IsRecord(t) /\ t.complete =>
           /\ t.first \in Nat /\ t.count \in Nat \ {0} /\ t.first + t.count <= Len(members)
           /\ IsLaidOut(t, members, types)
  PROVE  SizesInv'
<1>1. UNCHANGED members /\ (types' = types \/ types' = Append(types, t))
  BY DEF Intern
<1>2. CASE types' = types
  BY <1>1, <1>2 DEF SizesInv
<1>3. CASE types' = Append(types, t)
  BY <1>1, <1>3, AppendKeepsSizes
<1> QED BY <1>1, <1>2, <1>3

LEMMA QualifyConstKeepsSizes ==
  ASSUME TypesInv, SizesInv, NEW i \in Ids, QualifyConst(i)
  PROVE  SizesInv'
<1> DEFINE u == types[i]
           t == [u EXCEPT !.qualifiers = @ \cup {"const"}]
<1>1. u = [f \in DOMAIN u |-> u[f]]
  BY DEF TypesInv, ShapeInv, IsEntry
<1>2. /\ t.kind = u.kind /\ t.first = u.first /\ t.count = u.count /\ t.name = u.name /\ t.of = u.of
      /\ t.unsized = u.unsized /\ t.size = u.size /\ t.alignment = u.alignment
      /\ t.complete = u.complete
  <2> HIDE DEF u
  <2> QED BY <1>1
<1>3. Intern(t, parameters, origins[i])
  BY DEF QualifyConst
<1>4. SizedEntry(u, i) /\ Len(types) \in Nat /\ i \in 1 .. Len(types)
  BY DEF SizesInv, Sized, SizedTable, Ids
<1>5. IsRecord(u) /\ u.complete =>
        /\ u.first \in Nat /\ u.count \in Nat \ {0} /\ u.first + u.count <= Len(members)
        /\ IsLaidOut(u, members, types)
  BY CompleteHasMembers DEF SizesInv, Sized, Ids
<1> HIDE DEF u, t
<1>6. SizedEntry(t, Len(types) + 1)
  BY <1>2, <1>4 DEF SizedEntry
<1>7. IsRecord(t) /\ t.complete =>
        /\ t.first \in Nat /\ t.count \in Nat \ {0} /\ t.first + t.count <= Len(members)
        /\ IsLaidOut(t, members, types)
  BY <1>2, <1>5 DEF IsRecord, IsLaidOut
<1> QED BY <1>3, <1>6, <1>7, InternKeepsSizes

LEMMA DefineRecordKeepsSizes ==
  ASSUME TypesInv, SizesInv, NEW limit, NEW r \in Records, NEW ms \in Lists(Ids, limit),
         DefineRecord(r, ms)
  PROVE  SizesInv'
<1> DEFINE extents == [k \in DOMAIN ms |-> ExtentOf[ms[k]]]
           layout == Layout(types[r].kind, extents)
           n == Len(ms)
           e == Completed(types[r], n, layout)
           added == [k \in DOMAIN ms |-> [type |-> ms[k], offset |-> layout.offsets[k]]]
<1>1. /\ ~types[r].complete /\ ms # << >>
      /\ \A k \in DOMAIN ms : extents[k].known
      /\ layout.size >= 0
      /\ members' = members \o added
      /\ types' = [types EXCEPT ![r] = e]
  BY DEF DefineRecord, MayDefine, Complete
<1>2. n \in Nat \ {0} /\ DOMAIN ms = 1 .. n /\ \A k \in 1 .. n : ms[k] \in 1 .. Len(types)
  <2>1. PICK m \in 0 .. limit : ms \in [1 .. m -> Ids]
    BY DEF Lists
  <2>2. m \in Nat
    OBVIOUS
  <2>3. ms \in Seq(Ids) /\ Len(ms) = m /\ DOMAIN ms = 1 .. m
    BY <2>1, <2>2
  <2>4. m # 0
    BY <1>1, <2>3
  <2> QED BY <2>1, <2>2, <2>3, <2>4 DEF Ids
<1> HIDE DEF n
<1>3. DOMAIN extents = 1 .. n /\ Len(extents) = n
      /\ \A k \in 1 .. n : extents[k] = ExtentsIn(types)[ms[k]]
  <2>1. DOMAIN extents = 1 .. n /\ \A k \in 1 .. n : extents[k] = ExtentsIn(types)[ms[k]]
    BY <1>2 DEF ExtentOf
  <2>2. extents = [k \in 1 .. n |-> ExtentOf[ms[k]]]
    BY <1>2
  <2>3. Len(extents) = n
    <3> DEFINE S == {ExtentOf[ms[k]] : k \in 1 .. n}
    <3>1. extents \in [1 .. n -> S]
      BY <2>2
    <3> HIDE DEF S, extents
    <3>2. extents \in Seq(S)
      BY <1>2, <3>1
    <3> QED BY <1>2, <3>1, <3>2
  <2> QED BY <2>1, <2>3
<1>4. SizedTable(types) /\ \A i \in 1 .. Len(types) : SizedEntry(types[i], i)
  BY DEF SizesInv, Sized, SizedTable
<1>5. \A k \in 1 .. n : IsKnown(extents[k])
  <2>1. \A k \in 1 .. n : IsExtent(ExtentsIn(types)[ms[k]])
    BY <1>2, <1>4, ExtentsAreKnown
  <2> QED BY <1>1, <1>2, <1>3, <2>1 DEF IsExtent
<1> DEFINE kind == types[r].kind
<1>6. kind \in {"struct", "union"} /\ r \in Ids /\ r \in 1 .. Len(types)
  BY DEF Records, Ids
<1> HIDE DEF extents
<1>7. /\ layout.size \in Sizes /\ layout.alignment \in Alignments
      /\ LaidOut(kind, layout.size, layout.alignment, n, layout.offsets, extents)
  <2>1. CASE kind = "struct"
    <3>1. layout = StructLayout(extents)
      BY <2>1 DEF Layout
    <3> QED BY <1>1, <1>2, <1>3, <1>5, <2>1, <3>1, StructIsLaidOut
  <2>2. CASE kind = "union"
    <3>1. layout = UnionLayout(extents)
      BY <2>2 DEF Layout
    <3> QED BY <1>1, <1>2, <1>3, <1>5, <2>2, <3>1, UnionIsLaidOut
  <2> QED BY <1>6, <2>1, <2>2
<1>8. /\ Len(added) = n /\ IsSequence(added)
      /\ \A k \in 1 .. n : added[k].type = ms[k] /\ added[k].offset = layout.offsets[k]
  <2> HIDE DEF layout
  <2>1. added = [k \in 1 .. n |-> [type |-> ms[k], offset |-> layout.offsets[k]]]
    BY <1>2
  <2> DEFINE S == {[type |-> ms[k], offset |-> layout.offsets[k]] : k \in 1 .. n}
  <2>2. added \in [1 .. n -> S]
    BY <2>1
  <2>3. \A k \in 1 .. n : added[k].type = ms[k] /\ added[k].offset = layout.offsets[k]
    BY <2>1
  <2> HIDE DEF S, added
  <2>4. added \in Seq(S) /\ Len(added) = n
    BY <1>2, <2>2
  <2> QED BY <2>3, <2>4 DEF IsSequence
<1>9. /\ e.kind = kind /\ e.first = Len(members) /\ e.count = n /\ e.complete = TRUE
      /\ e.size = layout.size /\ e.alignment = layout.alignment
  BY DEF Completed
<1> HIDE DEF layout, e, added, kind
<1>10. /\ Len(types) \in Nat /\ Len(types') = Len(types)
       /\ \A j \in 1 .. Len(types) : types'[j] = IF j = r THEN e ELSE types[j]
  <2>1. IsSequence(types) /\ r \in 1 .. Len(types) /\ IsReplacement(types', types, r, e)
    BY <1>1, <1>6 DEF IsReplacement, TypesInv, ShapeInv
  <2> QED BY <2>1, Replaced
<1>11. /\ Len(members) \in Nat
       /\ \A k \in 1 .. Len(members) : members'[k] = members[k]
       /\ \A k \in 1 .. n : members'[Len(members) + k] = added[k]
  <2>1. IsSequence(members)
    BY DEF TypesInv, ShapeInv
  <2>2. \A k \in 1 .. Len(added) : (members \o added)[Len(members) + k] = added[k]
    BY <1>8, <2>1, JoinedBehind
  <2>3. Len(members) \in Nat /\ \A k \in 1 .. Len(members) : (members \o added)[k] = members[k]
    BY <1>8, <2>1, Joined
  <2> QED BY <1>1, <1>8, <2>2, <2>3
<1>12. SizedTable(types')
  <2>1. SizedEntry(e, r)
    BY <1>6, <1>7, <1>9 DEF SizedEntry
  <2> QED BY <1>4, <1>10, <2>1 DEF SizedTable
<1> DEFINE longer == types'
           more == members'
<1> HIDE DEF longer, more
<1>13. Outlasts(longer, types) /\ Holds(more, members)
  BY <1>1, <1>4, <1>6, <1>10, <1>11, <1>12 DEF Outlasts, Holds, longer, more, kind
<1>14. IsLaidOut(e, more, longer)
  <2>1. \A k \in 1 .. n : more[e.first + k].type = ms[k] /\ more[e.first + k].offset = layout.offsets[k]
    BY <1>8, <1>9, <1>11 DEF more
  <2>2. \A k \in 1 .. n : ExtentsIn(longer)[ms[k]] = extents[k] /\ extents[k].known
    <3>1. \A i \in 1 .. Len(types) :
            ExtentsIn(types)[i].known => ExtentsIn(longer)[i] = ExtentsIn(types)[i]
      BY <1>13, ExtentsStay DEF Outlasts
    <3> QED BY <1>2, <1>3, <1>5, <3>1 DEF IsKnown
  <2>3. \A k \in 1 .. e.count : /\ more[e.first + k].type \in 1 .. Len(longer)
                                /\ ExtentsIn(longer)[more[e.first + k].type].known
    <3>1. \A k \in 1 .. n : ms[k] \in 1 .. Len(longer)
      BY <1>2, <1>10 DEF longer
    <3> QED BY <1>9, <2>1, <2>2, <3>1
  <2> DEFINE bt == [k \in 1 .. n |-> more[e.first + k].offset]
             fs == [k \in 1 .. n |-> ExtentsIn(longer)[more[e.first + k].type]]
             at == layout.offsets
  <2>4. \A k \in 1 .. n : at[k] = bt[k] /\ extents[k] = fs[k]
    BY <2>1, <2>2
  <2>5. LaidOut(kind, layout.size, layout.alignment, n, at, extents)
    BY <1>7
  <2> HIDE DEF at, bt, fs
  <2>6. LaidOut(kind, layout.size, layout.alignment, n, bt, fs)
    BY <1>2, <2>4, <2>5, SameLaidOut
  <2> QED BY <1>9, <2>3, <2>6 DEF IsLaidOut, bt, fs
<1>15. ASSUME NEW i \in 1 .. Len(longer), IsRecord(longer[i]), longer[i].complete
       PROVE  IsLaidOut(longer[i], more, longer)
  <2>1. CASE i = r
    <3>1. longer[i] = e
      BY <1>6, <1>10, <2>1 DEF longer
    <3> QED BY <1>14, <3>1
  <2>2. CASE i # r
    <3>1. i \in Ids /\ longer[i] = types[i]
      BY <1>10, <2>2 DEF Ids, longer
    <3>2. IsLaidOut(types[i], members, types)
      BY <1>15, <3>1 DEF SizesInv, Sized, Ids
    <3>3. types[i].first \in Nat /\ types[i].count \in Nat \ {0}
          /\ types[i].first + types[i].count <= Len(members)
      BY <1>15, <3>1, CompleteHasMembers
    <3> QED BY <1>13, <3>1, <3>2, <3>3, RecordStaysLaidOut
  <2> QED BY <2>1, <2>2
<1>16. Sized(longer, more)
  BY <1>12, <1>15 DEF Sized, longer
<1> QED BY <1>16 DEF SizesInv, longer, more

LEMMA NextKeepsSizes == TypesInv /\ SizesInv /\ [Next]_vars => SizesInv'
<1> SUFFICES ASSUME TypesInv, SizesInv, [Next]_vars PROVE SizesInv'
  OBVIOUS
<1>1. ASSUME NEW name \in Basics, GetBuiltin(name) PROVE SizesInv'
  <2>1. SizedEntry(Basic(name), Len(types) + 1) /\ ~IsRecord(Basic(name))
    BY DEF SizedEntry, Basic, IsRecord
  <2> QED BY <1>1, <2>1, InternKeepsSizes DEF GetBuiltin
<1>2. ASSUME NEW i \in Ids, QualifyConst(i) PROVE SizesInv'
  BY <1>2, QualifyConstKeepsSizes
<1>3. ASSUME NEW i \in Ids, GetPointer(i) PROVE SizesInv'
  <2>1. SizedEntry(Pointer(i), Len(types) + 1) /\ ~IsRecord(Pointer(i))
    BY DEF SizedEntry, Pointer, IsRecord
  <2> QED BY <1>3, <2>1, InternKeepsSizes DEF GetPointer
<1>4. ASSUME NEW i \in Ids, NEW count \in Counts, NEW unsized \in BOOLEAN, GetArray(i, count, unsized)
      PROVE  SizesInv'
  <2> DEFINE length == IF unsized THEN 0 ELSE count
  <2>1. length \in Sizes /\ Len(types) \in Nat /\ i \in 1 .. Len(types)
    BY CountsAssumption, SizesAssumption DEF Sizes, Ids, SizesInv, Sized, SizedTable
  <2>2. Intern(Array(i, length, unsized), parameters, {})
    BY <1>4 DEF GetArray
  <2> HIDE DEF length
  <2>3. SizedEntry(Array(i, length, unsized), Len(types) + 1) /\ ~IsRecord(Array(i, length, unsized))
    BY <2>1 DEF SizedEntry, Array, IsRecord
  <2> QED BY <2>2, <2>3, InternKeepsSizes
<1>5. ASSUME NEW i, NEW ps, GetFunction(i, ps) PROVE SizesInv'
  <2> DEFINE t == Function(i, Len(parameters), Len(ps))
  <2>1. SizedEntry(t, Len(types) + 1) /\ ~IsRecord(t)
    BY DEF SizedEntry, Function, IsRecord
  <2>2. Intern(t, StoredParameters(ps), {})
    BY <1>5 DEF GetFunction
  <2> HIDE DEF t
  <2> QED BY <2>1, <2>2, InternKeepsSizes
<1>6. ASSUME NEW kind \in {"struct", "union"}, NEW tag, CreateRecord(kind, tag) PROVE SizesInv'
  <2>1. SizedEntry(IncompleteRecord(kind, tag), Len(types) + 1) /\ ~IncompleteRecord(kind, tag).complete
    BY DEF SizedEntry, IncompleteRecord
  <2> QED BY <1>6, <2>1, AppendKeepsSizes DEF CreateRecord, Create
<1>7. ASSUME NEW tag, CreateEnum(tag) PROVE SizesInv'
  <2>1. SizedEntry(Enumeration(tag), Len(types) + 1) /\ ~IsRecord(Enumeration(tag))
    BY DEF SizedEntry, Enumeration, IsRecord
  <2> QED BY <1>7, <2>1, AppendKeepsSizes DEF CreateEnum, Create
<1>8. ASSUME NEW r \in Records, NEW ms \in Lists(Ids, MemberLimit), DefineRecord(r, ms) PROVE SizesInv'
  BY <1>8, DefineRecordKeepsSizes
<1>9. ASSUME UNCHANGED <<types, members>> PROVE SizesInv'
  BY <1>9 DEF SizesInv
<1>10. ASSUME NEW r, NEW ms, Crash(r, ms) PROVE SizesInv'
  BY <1>9, <1>10 DEF Crash
<1>11. ASSUME NEW ps, AllocationFails(ps) PROVE SizesInv'
  BY <1>9, <1>11 DEF AllocationFails
<1>12. CASE UNCHANGED vars
  BY <1>9, <1>12 DEF vars
<1> QED BY <1>1, <1>2, <1>3, <1>4, <1>5, <1>6, <1>7, <1>8, <1>10, <1>11, <1>12 DEF Next

LEMMA InitEstablishesSizes == Init => SizesInv
<1> SUFFICES ASSUME Init PROVE SizesInv
  OBVIOUS
<1>1. Len(types) = 0
  BY DEF Init
<1> QED BY <1>1 DEF SizesInv, Sized, SizedTable

\* Every complete record is laid out as the ABI says for the room its members really
\* take, whatever these are, their alignments and the width of sizes: a sum, a padding or
\* a product of lengths that is too large is refused, never wrapped.
THEOREM RecordsAreLaidOutHolds == Spec => []RecordsAreLaidOut
<1>1. Init => SizesInv
  BY InitEstablishesSizes
<1>2. TypesInv /\ SizesInv /\ [Next]_vars => SizesInv'
  BY NextKeepsSizes
<1>3. TypesInv /\ SizesInv => RecordsAreLaidOut
  <2> SUFFICES ASSUME TypesInv, SizesInv, NEW i \in Records, Complete(i)
               PROVE  LET t == types[i]
                          ms == MembersOf(i)
                      IN LaidOut(t.kind, t.size, t.alignment, Len(ms), [k \in DOMAIN ms |-> ms[k].offset],
                                 [k \in DOMAIN ms |-> RoomsIn(types)[ms[k].type]])
    BY DEF RecordsAreLaidOut
  <2> DEFINE t == types[i]
             n == t.count
             ms == MembersOf(i)
             at == [k \in 1 .. n |-> members[t.first + k].offset]
             extents == [k \in 1 .. n |-> ExtentsIn(types)[members[t.first + k].type]]
             rooms == [k \in 1 .. n |-> RoomsIn(types)[members[t.first + k].type]]
  <2>1. i \in Ids /\ IsRecord(t) /\ t.complete
    BY DEF Records, IsRecord, Complete
  <2>2. n \in Nat \ {0} /\ IsLaidOut(t, members, types)
    BY <2>1, CompleteHasMembers DEF SizesInv, Sized, Ids
  <2>3. ms = [k \in 1 .. n |-> members[t.first + k]]
    BY DEF MembersOf, Slice
  <2>4. Len(ms) = n /\ DOMAIN ms = 1 .. n
    <3> DEFINE S == {members[t.first + k] : k \in 1 .. n}
    <3>1. ms \in [1 .. n -> S]
      BY <2>3
    <3> HIDE DEF S, ms, n
    <3> QED BY <2>2, <3>1
  <2>5. /\ [k \in DOMAIN ms |-> ms[k].offset] = at
        /\ [k \in DOMAIN ms |-> RoomsIn(types)[ms[k].type]] = rooms
    <3>1. \A k \in 1 .. n : ms[k] = members[t.first + k]
      BY <2>3
    <3> HIDE DEF ms, n, t
    <3> QED BY <2>4, <3>1
  <2>6. LaidOut(t.kind, t.size, t.alignment, n, at, extents)
    BY <2>2 DEF IsLaidOut
  <2>7. \A k \in 1 .. n : at[k] = at[k] /\ extents[k] = rooms[k]
    <3>1. SizedTable(types)
      BY DEF SizesInv, Sized
    <3>2. \A k \in 1 .. n : /\ members[t.first + k].type \in 1 .. Len(types)
                             /\ ExtentsIn(types)[members[t.first + k].type].known
      BY <2>2 DEF IsLaidOut
    <3> QED BY <3>1, <3>2, KnownExtentsAreRooms
  <2> HIDE DEF at, extents, rooms, n, ms
  <2>8. LaidOut(t.kind, t.size, t.alignment, n, at, rooms)
    BY <2>2, <2>6, <2>7, SameLaidOut
  <2> QED BY <2>4, <2>5, <2>8 DEF ms
<1> QED BY <1>1, <1>2, <1>3, TypesInvariance, PTL DEF Spec


-----------------------------------------------------------------------------
(***************************************************************************)
(* FccConstants: constant folding refuses an operation exactly when its    *)
(* result is none or no word, and never overflows itself.                  *)
(***************************************************************************)
LEMMA WordLimits ==
  /\ MaxWord \in Nat /\ MinWord \in Int /\ MinWord = -MaxWord - 1
  /\ \A v : v \in Word <=> v \in Int /\ MinWord <= v /\ v <= MaxWord
<1>1. WordBits - 1 \in 0 .. WordBits
  BY WordBitsAssumption
<1>2. 2 ^ (WordBits - 1) \in Nat \ {0}
  BY <1>1, WordBitsAssumption
<1>3. MaxWord \in Nat
  BY <1>2 DEF MaxWord
<1> QED
  BY <1>3 DEF MinWord, Word

\* Multiplication by a positive number keeps the order.
LEMMA ProductOrder ==
  ASSUME NEW a \in Nat, NEW b \in Nat, NEW c \in Nat, a <= b
  PROVE  a * c <= b * c /\ a * c \in Nat /\ b * c \in Nat
<1>1. PICK d \in Nat : b = a + d
  <2>1. b - a \in Nat /\ b = a + (b - a)
    OBVIOUS
  <2> QED
    BY <2>1
<1>2. b * c = a * c + d * c
  BY <1>1
<1>3. a * c \in Nat /\ d * c \in Nat
  OBVIOUS
<1> QED
  BY <1>2, <1>3

LEMMA QuotientBounds ==
  ASSUME NEW m \in Nat, NEW b \in Nat \ {0}
  PROVE  /\ m \div b \in Nat
         /\ b * (m \div b) <= m /\ m < b * (m \div b) + b
         /\ m \div b <= m
OBVIOUS

\* The comparison by which the check of a product avoids the product.
LEMMA ProductExceeds ==
  ASSUME NEW a \in Nat, NEW b \in Nat \ {0}, NEW m \in Nat
  PROVE  a > m \div b <=> a * b > m
<1> DEFINE q == m \div b
<1>1. q \in Nat /\ b * q <= m /\ m < b * q + b
  BY QuotientBounds
<1>2. CASE a > q
  <2>1. q + 1 \in Nat /\ q + 1 <= a
    BY <1>1, <1>2
  <2>2. (q + 1) * b <= a * b /\ a * b \in Nat
    BY <2>1, ProductOrder
  <2>3. (q + 1) * b = b * q + b
    BY <1>1
  <2> QED
    BY <1>1, <1>2, <2>2, <2>3
<1>3. CASE ~(a > q)
  <2>1. a <= q
    BY <1>1, <1>3
  <2>2. a * b <= q * b /\ a * b \in Nat
    BY <1>1, <2>1, ProductOrder
  <2>3. q * b = b * q
    BY <1>1
  <2> QED
    BY <1>1, <1>3, <2>2, <2>3
<1> QED
  BY <1>2, <1>3

LEMMA QuotientOfSigns ==
  ASSUME NEW m \in Nat, NEW b \in Nat \ {0}
  PROVE  /\ Quotient(m, b) = m \div b /\ Quotient(m, -b) = -(m \div b)
         /\ m > 0 => Quotient(-m, b) = -(m \div b) /\ Quotient(-m, -b) = m \div b
BY DEF Quotient, Abs

LEMMA ProductOfSigns ==
  ASSUME NEW a \in Nat, NEW b \in Nat
  PROVE  /\ a * b \in Nat
         /\ a * (-b) = -(a * b) /\ (-a) * b = -(a * b) /\ (-a) * (-b) = a * b
OBVIOUS

\* A product is refused exactly when it is no word.
LEMMA MultiplyIsExact ==
  ASSUME NEW l \in Word, NEW r \in Word
  PROVE  MultiplyOverflows(l, r) <=> l * r \notin Word
<1> DEFINE M == MaxWord
           N == M + 1
           a == IF l < 0 THEN -l ELSE l
           b == IF r < 0 THEN -r ELSE r
<1>1. M \in Nat /\ N \in Nat \ {0} /\ MinWord = -N
  BY WordLimits
<1>2. l \in Int /\ r \in Int /\ a \in Nat /\ b \in Nat
  BY WordLimits
<1>3. ASSUME NEW p \in Nat PROVE /\ p \in Word <=> ~(p > M)
                                 /\ -p \in Word <=> ~(p > N)
  BY <1>1, <1>3, WordLimits
<1>4. a * b \in Nat
  BY <1>2
<1>5. CASE l = 0
  <2>1. l * r = 0 /\ 0 \in Word
    BY <1>2, <1>5, WordLimits
  <2> QED
    BY <2>1, <1>5 DEF MultiplyOverflows
<1>6. CASE l > 0 /\ r > 0
  <2>1. a = l /\ b = r /\ b \in Nat \ {0} /\ l * r = a * b
    BY <1>2, <1>6
  <2>2. Quotient(M, r) = M \div b
    BY <1>1, <2>1, QuotientOfSigns
  <2>3. a > M \div b <=> a * b > M
    BY <1>1, <1>2, <2>1, ProductExceeds
  <2>4. MultiplyOverflows(l, r) <=> a > M \div b
    BY <1>2, <1>6, <2>1, <2>2 DEF MultiplyOverflows
  <2> QED
    BY <1>3, <1>4, <2>1, <2>3, <2>4
<1>7. CASE l > 0 /\ r < 0
  <2>1. a = l /\ r = -b /\ a \in Nat \ {0} /\ l * r = -(a * b) /\ a * b = b * a
    <3>1. a = l /\ r = -b /\ a \in Nat \ {0}
      BY <1>2, <1>7
    <3>2. a * (-b) = -(a * b) /\ a * b = b * a
      BY <1>2, ProductOfSigns
    <3> QED
      BY <3>1, <3>2
  <2>2. Quotient(MinWord, l) = -(N \div a) /\ N \div a \in Nat
    <3>1. N \in Nat /\ N > 0
      BY <1>1
    <3>2. Quotient(-N, a) = -(N \div a)
      BY <3>1, <2>1, QuotientOfSigns
    <3> QED
      BY <1>1, <3>2, <2>1, QuotientBounds
  <2>3. b > N \div a <=> b * a > N
    BY <1>1, <1>2, <2>1, ProductExceeds
  <2>4. MultiplyOverflows(l, r) <=> b > N \div a
    BY <1>2, <1>7, <2>1, <2>2 DEF MultiplyOverflows
  <2> QED
    BY <1>3, <1>4, <2>1, <2>3, <2>4
<1>8. CASE l < 0 /\ r > 0
  <2>1. l = -a /\ r = b /\ b \in Nat \ {0} /\ l * r = -(a * b)
    <3>1. l = -a /\ r = b /\ b \in Nat \ {0}
      BY <1>2, <1>8
    <3>2. (-a) * b = -(a * b)
      BY <1>2, ProductOfSigns
    <3> QED
      BY <3>1, <3>2
  <2>2. Quotient(MinWord, r) = -(N \div b) /\ N \div b \in Nat
    <3>1. N \in Nat /\ N > 0
      BY <1>1
    <3>2. Quotient(-N, b) = -(N \div b)
      BY <3>1, <2>1, QuotientOfSigns
    <3> QED
      BY <1>1, <3>2, <2>1, QuotientBounds
  <2>3. a > N \div b <=> a * b > N
    BY <1>1, <1>2, <2>1, ProductExceeds
  <2>4. MultiplyOverflows(l, r) <=> a > N \div b
    BY <1>2, <1>8, <2>1, <2>2 DEF MultiplyOverflows
  <2> QED
    BY <1>3, <1>4, <2>1, <2>3, <2>4
<1>9. CASE l < 0 /\ r < 0
  <2>1. l = -a /\ r = -b /\ b \in Nat \ {0} /\ l * r = a * b
    <3>1. l = -a /\ r = -b /\ b \in Nat \ {0}
      BY <1>2, <1>9
    <3>2. (-a) * (-b) = a * b
      BY <1>2, ProductOfSigns
    <3> QED
      BY <3>1, <3>2
  <2>2. Quotient(M, r) = -(M \div b) /\ M \div b \in Nat
    BY <1>1, <2>1, QuotientOfSigns, QuotientBounds
  <2>3. a > M \div b <=> a * b > M
    BY <1>1, <1>2, <2>1, ProductExceeds
  <2>4. MultiplyOverflows(l, r) <=> a > M \div b
    BY <1>2, <1>9, <2>1, <2>2 DEF MultiplyOverflows
  <2> QED
    BY <1>3, <1>4, <2>1, <2>3, <2>4
<1>10. CASE r = 0
  <2>1. l * r = 0 /\ 0 \in Word
    BY <1>2, <1>10, WordLimits
  <2> QED
    BY <2>1, <1>2, <1>10 DEF MultiplyOverflows
<1> HIDE DEF M, N, a, b
<1> QED
  BY <1>2, <1>5, <1>6, <1>7, <1>8, <1>9, <1>10

\* The size of a quotient and of a remainder, for every combination of signs.
LEMMA DivisionOfSigns ==
  ASSUME NEW m \in Nat, NEW b \in Nat \ {0}, NEW l \in {m, -m}, NEW r \in {b, -b}
  PROVE  /\ Quotient(l, r) \in {m \div b, -(m \div b)}
         /\ (l < 0 <=> r < 0) => Quotient(l, r) = m \div b
         /\ Remainder(l, r) \in {m - b * (m \div b), -(m - b * (m \div b))}
<1> DEFINE q == m \div b
<1>1. q \in Nat
  BY QuotientBounds
<1>2. b * (-q) = -(b * q) /\ (-b) * q = -(b * q) /\ (-b) * (-q) = b * q /\ b * q \in Nat
  BY <1>1, ProductOfSigns
<1>3. CASE l = m /\ r = b
  BY <1>1, <1>2, <1>3, QuotientOfSigns DEF Remainder
<1>4. CASE l = m /\ r = -b
  <2>1. Quotient(l, r) = -q /\ ~(l < 0) /\ r < 0
    <3>1. Quotient(m, -b) = -q
      BY QuotientOfSigns
    <3>2. ~(m < 0) /\ -b < 0
      OBVIOUS
    <3> QED
      BY <1>4, <3>1, <3>2
  <2>2. Remainder(l, r) = m - b * q
    BY <1>1, <1>2, <1>4, <2>1 DEF Remainder
  <2> QED
    BY <2>1, <2>2
<1>5. CASE l = -m /\ m > 0 /\ r = b
  <2>1. Quotient(l, r) = -q /\ l < 0 /\ ~(r < 0)
    <3>1. Quotient(-m, b) = -q
      BY <1>5, QuotientOfSigns
    <3>2. -m < 0 /\ ~(b < 0)
      BY <1>5
    <3> QED
      BY <1>5, <3>1, <3>2
  <2>2. Remainder(l, r) = -(m - b * q)
    BY <1>1, <1>2, <1>5, <2>1 DEF Remainder
  <2> QED
    BY <2>1, <2>2
<1>6. CASE l = -m /\ m > 0 /\ r = -b
  <2>1. Quotient(l, r) = q
    BY <1>6, QuotientOfSigns
  <2>2. Remainder(l, r) = -(m - b * q)
    BY <1>1, <1>2, <1>6, <2>1 DEF Remainder
  <2> QED
    BY <2>1, <2>2
<1> QED
  BY <1>3, <1>4, <1>5, <1>6

LEMMA MagnitudeOfWord ==
  ASSUME NEW v \in Word
  PROVE  \E m \in Nat : /\ v \in {m, -m} /\ m <= MaxWord + 1
                        /\ v # MinWord => m <= MaxWord
                        /\ v # 0 => m # 0
<1>1. CASE v >= 0
  <2>1. v \in Nat /\ v <= MaxWord
    BY <1>1, WordLimits
  <2> QED
    BY <2>1, WordLimits
<1>2. CASE v < 0
  <2>1. -v \in Nat /\ v = -(-v) /\ -v <= MaxWord + 1 /\ (v # MinWord => -v <= MaxWord)
    BY <1>2, WordLimits
  <2> QED
    BY <1>2, <2>1
<1> QED
  BY <1>1, <1>2, WordLimits

\* A division is refused exactly when it has no quotient that is a word.
LEMMA DivideIsExact ==
  ASSUME NEW l \in Word, NEW r \in Word
  PROVE  /\ DivideOverflows(l, r) <=> r = 0 \/ Quotient(l, r) \notin Word
         /\ ~DivideOverflows(l, r) => Remainder(l, r) \in Word
<1>1. CASE r = 0
  BY <1>1 DEF DivideOverflows
<1>2. CASE r # 0
  <2>1. PICK m \in Nat : l \in {m, -m} /\ m <= MaxWord + 1 /\ (l # MinWord => m <= MaxWord)
    BY MagnitudeOfWord
  <2>2. PICK b \in Nat : r \in {b, -b} /\ b <= MaxWord + 1 /\ b # 0
    BY <1>2, MagnitudeOfWord
  <2>3. b \in Nat \ {0} /\ MaxWord \in Nat /\ l \in Int /\ r \in Int
    BY <2>1, <2>2, WordLimits
  <2> DEFINE q == m \div b
             rest == m - b * q
             SizesOfResults(x, y) == /\ Quotient(x, y) \in {q, -q}
                                     /\ (x < 0 <=> y < 0) => Quotient(x, y) = q
                                     /\ Remainder(x, y) \in {rest, -rest}
  <2>4. SizesOfResults(l, r)
    <3>1. \A x \in {m, -m}, y \in {b, -b} : SizesOfResults(x, y)
      BY <2>3, DivisionOfSigns
    <3> HIDE DEF SizesOfResults
    <3> QED
      BY <2>1, <2>2, <3>1
  <2>5. q \in Nat /\ b * q <= m /\ m < b * q + b /\ q <= m
    BY <2>3, QuotientBounds
  <2>6. b * q \in Nat
    BY <2>3, <2>5
  <2>7. rest \in Nat /\ rest <= MaxWord
    BY <2>2, <2>3, <2>5, <2>6
  <2>8. Remainder(l, r) \in Word
    BY <2>4, <2>7, WordLimits
  <2>9. CASE l # MinWord
    <3>1. q <= MaxWord
      BY <2>1, <2>3, <2>5, <2>9
    <3>2. Quotient(l, r) \in Word
      BY <2>4, <2>5, <3>1, WordLimits
    <3> QED
      BY <1>2, <2>8, <2>9, <3>2 DEF DivideOverflows
  <2>10. CASE l = MinWord /\ r = -1
    <3>1. m = MaxWord + 1 /\ b = 1 /\ l < 0 /\ r < 0
      BY <2>1, <2>2, <2>3, <2>10, WordLimits
    <3>2. 1 * q = q
      BY <2>5
    <3>3. q = MaxWord + 1
      BY <2>3, <2>5, <3>1, <3>2
    <3>4. Quotient(l, r) \notin Word
      BY <2>3, <2>4, <3>1, <3>3, WordLimits
    <3> QED
      BY <2>10, <3>4 DEF DivideOverflows
  <2>11. CASE l = MinWord /\ r # -1
    <3>1. m = MaxWord + 1 /\ l < 0
      BY <2>1, <2>3, <2>11, WordLimits
    <3>2. CASE b = 1
      <4>1. r = 1
        BY <2>2, <2>11, <3>2
      <4>2. m > 0 /\ l = -m
        BY <2>1, <2>3, <3>1
      <4>3. Quotient(-m, b) = -q
        BY <2>3, <4>2, QuotientOfSigns
      <4>4. Quotient(l, r) = -q /\ q <= MaxWord + 1
        BY <2>3, <2>5, <3>1, <3>2, <4>1, <4>2, <4>3
      <4>5. Quotient(l, r) \in Word
        BY <2>3, <2>5, <4>4, WordLimits
      <4> QED
        BY <1>2, <2>8, <2>11, <4>5 DEF DivideOverflows
    <3>3. CASE b >= 2
      <4>1. 2 * q <= b * q
        BY <2>3, <2>5, <3>3, ProductOrder
      <4>2. q <= MaxWord
        BY <2>3, <2>5, <2>6, <3>1, <4>1
      <4>3. Quotient(l, r) \in Word
        BY <2>3, <2>4, <2>5, <4>2, WordLimits
      <4> QED
        BY <1>2, <2>8, <2>11, <4>3 DEF DivideOverflows
    <3> QED
      BY <2>3, <3>2, <3>3
  <2> QED
    BY <2>9, <2>10, <2>11
<1> QED
  BY <1>1, <1>2

LEMMA SumIsExact ==
  ASSUME NEW l \in Word, NEW r \in Word
  PROVE  /\ AddOverflows(l, r) <=> l + r \notin Word
         /\ SubtractOverflows(l, r) <=> l - r \notin Word
BY WordLimits DEF AddOverflows, SubtractOverflows

LEMMA PowerOfTwo ==
  ASSUME NEW n \in Int, 0 <= n, n < WordBits - 1
  PROVE  2 ^ n \in Nat \ {0}
BY WordBitsAssumption

LEMMA ShiftIsExact ==
  ASSUME NEW l \in Word, NEW r \in Word, l >= 0, r >= 0, r < WordBits - 1
  PROVE  /\ LeftShiftOverflows(l, r) <=> l * 2 ^ r \notin Word
         /\ ~RightShiftRefused(l, r) /\ l \div 2 ^ r \in Word
<1> DEFINE p == 2 ^ r
<1>1. l \in Nat /\ r \in Int /\ MaxWord \in Nat /\ l <= MaxWord
  BY WordLimits
<1>2. p \in Nat \ {0}
  BY <1>1, PowerOfTwo
<1>3. ~RightShiftRefused(l, r)
  BY <1>1, WordBitsAssumption DEF RightShiftRefused
<1>4. l > MaxWord \div p <=> l * p > MaxWord
  BY <1>1, <1>2, ProductExceeds
<1>5. l * p \in Nat /\ l \div p \in Nat /\ l \div p <= l
  BY <1>1, <1>2, QuotientBounds
<1>6. l * p \notin Word <=> l * p > MaxWord
  BY <1>1, <1>5, WordLimits
<1>7. l \div p \in Word
  BY <1>1, <1>5, WordLimits
<1>8. LeftShiftOverflows(l, r) <=> l > MaxWord \div p
  BY <1>3 DEF LeftShiftOverflows
<1> QED
  BY <1>3, <1>4, <1>6, <1>7, <1>8

\* An operation on constants has the value it has on the integers, unless that
\* is no word or does not exist: only then it is refused.
THEOREM ConstantsAreExact ==
  \A l, r \in Word :
    /\ ArithmeticConstant("+", l, r) = {l + r} \cap Word
    /\ ArithmeticConstant("-", l, r) = {l - r} \cap Word
    /\ ArithmeticConstant("*", l, r) = {l * r} \cap Word
    /\ r = 0 => ArithmeticConstant("/", l, r) = {} /\ ArithmeticConstant("%", l, r) = {}
    /\ r # 0 => /\ ArithmeticConstant("/", l, r) = {Quotient(l, r)} \cap Word
                /\ ArithmeticConstant("%", l, r) =
                     IF Quotient(l, r) \in Word THEN {Remainder(l, r)} ELSE {}
    /\ l >= 0 /\ r >= 0 /\ r < WordBits - 1 =>
         /\ ArithmeticConstant("<<", l, r) = {l * 2 ^ r} \cap Word
         /\ ArithmeticConstant(">>", l, r) = {l \div 2 ^ r}
    /\ UnaryConstant("negate", l) = {-l} \cap Word
<1> SUFFICES ASSUME NEW l \in Word, NEW r \in Word
             PROVE  /\ ArithmeticConstant("+", l, r) = {l + r} \cap Word
                    /\ ArithmeticConstant("-", l, r) = {l - r} \cap Word
                    /\ ArithmeticConstant("*", l, r) = {l * r} \cap Word
                    /\ r = 0 => /\ ArithmeticConstant("/", l, r) = {}
                                /\ ArithmeticConstant("%", l, r) = {}
                    /\ r # 0 => /\ ArithmeticConstant("/", l, r) = {Quotient(l, r)} \cap Word
                                /\ ArithmeticConstant("%", l, r) =
                                     IF Quotient(l, r) \in Word THEN {Remainder(l, r)} ELSE {}
                    /\ l >= 0 /\ r >= 0 /\ r < WordBits - 1 =>
                         /\ ArithmeticConstant("<<", l, r) = {l * 2 ^ r} \cap Word
                         /\ ArithmeticConstant(">>", l, r) = {l \div 2 ^ r}
                    /\ UnaryConstant("negate", l) = {-l} \cap Word
  OBVIOUS
<1>1. ArithmeticConstant("+", l, r) = {l + r} \cap Word
  BY SumIsExact DEF ArithmeticConstant, FoldUnless
<1>2. ArithmeticConstant("-", l, r) = {l - r} \cap Word
  BY SumIsExact DEF ArithmeticConstant, FoldUnless
<1>3. ArithmeticConstant("*", l, r) = {l * r} \cap Word
  BY MultiplyIsExact DEF ArithmeticConstant, FoldUnless
<1>4. /\ ArithmeticConstant("/", l, r) = FoldUnless(DivideOverflows(l, r), Quotient(l, r))
      /\ ArithmeticConstant("%", l, r) = FoldUnless(DivideOverflows(l, r), Remainder(l, r))
  BY DEF ArithmeticConstant
<1>5. DivideOverflows(l, r) <=> r = 0 \/ Quotient(l, r) \notin Word
  BY DivideIsExact
<1>6. r = 0 => ArithmeticConstant("/", l, r) = {} /\ ArithmeticConstant("%", l, r) = {}
  BY <1>4, <1>5 DEF FoldUnless
<1>7. r # 0 => /\ ArithmeticConstant("/", l, r) = {Quotient(l, r)} \cap Word
               /\ ArithmeticConstant("%", l, r) =
                    IF Quotient(l, r) \in Word THEN {Remainder(l, r)} ELSE {}
  BY <1>4, <1>5 DEF FoldUnless
<1>8. ASSUME l >= 0, r >= 0, r < WordBits - 1
      PROVE  /\ ArithmeticConstant("<<", l, r) = {l * 2 ^ r} \cap Word
             /\ ArithmeticConstant(">>", l, r) = {l \div 2 ^ r}
  <2>1. /\ LeftShiftOverflows(l, r) <=> l * 2 ^ r \notin Word
        /\ ~RightShiftRefused(l, r)
    BY <1>8, ShiftIsExact
  <2>2. /\ ArithmeticConstant("<<", l, r) = FoldUnless(LeftShiftOverflows(l, r), l * 2 ^ r)
        /\ ArithmeticConstant(">>", l, r) = FoldUnless(RightShiftRefused(l, r), l \div 2 ^ r)
    BY DEF ArithmeticConstant
  <2> QED
    BY <2>1, <2>2 DEF FoldUnless
<1>9. UnaryConstant("negate", l) = {-l} \cap Word
  <2>1. UnaryConstant("negate", l) = FoldUnless(l = MinWord, -l)
    BY DEF UnaryConstant
  <2>2. l = MinWord <=> -l \notin Word
    BY WordLimits
  <2> QED
    BY <2>1, <2>2 DEF FoldUnless
<1> QED
  BY <1>1, <1>2, <1>3, <1>6, <1>7, <1>8, <1>9

LEMMA LimitQuotients ==
  ASSUME NEW v \in Word, v # 0
  PROVE  /\ Quotient(MaxWord, v) \in Word
         /\ v # -1 => Quotient(MinWord, v) \in Word
<1>1. MaxWord \in Word /\ MinWord \in Word /\ v \in Int
  BY WordLimits
<1>2. ~DivideOverflows(MaxWord, v)
  BY WordLimits DEF DivideOverflows
<1>3. v # -1 => ~DivideOverflows(MinWord, v)
  BY WordLimits DEF DivideOverflows
<1> QED
  BY <1>1, <1>2, <1>3, DivideIsExact

\* The checks themselves, each made only where it is needed, never compute a
\* value that is no word: the compiler's own arithmetic is defined.
THEOREM ChecksStayInRange ==
  \A l, r \in Word :
    /\ r > 0 => MaxWord - r \in Word /\ MinWord + r \in Word
    /\ r < 0 => MinWord - r \in Word /\ MaxWord + r \in Word
    /\ l > 0 /\ r > 0 => Quotient(MaxWord, r) \in Word
    /\ l > 0 /\ r < 0 => Quotient(MinWord, l) \in Word
    /\ l < 0 /\ r > 0 => Quotient(MinWord, r) \in Word
    /\ l < 0 /\ r < 0 => Quotient(MaxWord, r) \in Word
<1> SUFFICES ASSUME NEW l \in Word, NEW r \in Word
             PROVE  /\ r > 0 => MaxWord - r \in Word /\ MinWord + r \in Word
                    /\ r < 0 => MinWord - r \in Word /\ MaxWord + r \in Word
                    /\ l > 0 /\ r > 0 => Quotient(MaxWord, r) \in Word
                    /\ l > 0 /\ r < 0 => Quotient(MinWord, l) \in Word
                    /\ l < 0 /\ r > 0 => Quotient(MinWord, r) \in Word
                    /\ l < 0 /\ r < 0 => Quotient(MaxWord, r) \in Word
  OBVIOUS
<1>1. r > 0 => MaxWord - r \in Word /\ MinWord + r \in Word
  BY WordLimits
<1>2. r < 0 => MinWord - r \in Word /\ MaxWord + r \in Word
  BY WordLimits
<1>3. l > 0 => l # 0 /\ l # -1
  BY WordLimits
<1>4. (r > 0 => r # 0 /\ r # -1) /\ (r < 0 => r # 0)
  BY WordLimits
<1>5. l > 0 => Quotient(MinWord, l) \in Word
  BY <1>3, LimitQuotients
<1>6. /\ r > 0 => Quotient(MaxWord, r) \in Word /\ Quotient(MinWord, r) \in Word
      /\ r < 0 => Quotient(MaxWord, r) \in Word
  BY <1>4, LimitQuotients
<1> QED
  BY <1>1, <1>2, <1>5, <1>6

-----------------------------------------------------------------------------
(***************************************************************************)
(* The string pool.  An entry is found again because the slots between     *)
(* the one its hash names and its own are never free: the search that      *)
(* entered it has passed them, and nothing is ever removed.  There is      *)
(* always a free slot for a search to end at, because a table is grown     *)
(* before it is full.                                                      *)
(***************************************************************************)
Occupied(t, n) == {slot \in 0 .. n - 1 : t[slot] # {}}

IsTable(t, n) ==
  /\ t \in [0 .. n - 1 -> SUBSET Entry]
  /\ \A slot \in 0 .. n - 1 : \A a \in t[slot], b \in t[slot] : a = b

\* Every slot that a search for the name passes on the way to an entry is in use.
FoundAt(t, n, name, slot) ==
  \E d \in 0 .. n - 1 :
    /\ slot = SlotAt(name, d, n)
    /\ \A k \in 0 .. d - 1 : t[SlotAt(name, k, n)] # {}
Reachable(t, n) ==
  \A slot \in 0 .. n - 1 : \A e \in t[slot] : FoundAt(t, n, e.name, slot)

Distinct(t, n) ==
  \A s1 \in 0 .. n - 1, s2 \in 0 .. n - 1 : \A a \in t[s1], b \in t[s2] :
    a.name = b.name \/ a.address = b.address => s1 = s2

Shape ==
  /\ capacity \in Nat /\ entry_count \in Nat /\ addresses \in Nat /\ distance \in Nat
  /\ new_capacity \in Nat /\ entry_index \in Nat
  /\ phase \in {"idle", "sizing", "moving", "probing", "failed"}
  /\ phase # "idle" => wanted \in Names
  /\ IsTable(entries, capacity)

EntriesAreFound ==
  /\ Reachable(entries, capacity)
  /\ Distinct(entries, capacity)
  /\ \A slot \in 0 .. capacity - 1 : \A e \in entries[slot] : e.address < addresses
  /\ Cardinality(Occupied(entries, capacity)) <= entry_count

GivenAreEntries == \A g \in given : \E slot \in 0 .. capacity - 1 : g \in entries[slot]

SizeGrows ==
  phase = "sizing" =>
    /\ distance = 0
    /\ capacity <= new_capacity /\ 1 <= new_capacity
    /\ capacity = new_capacity => NeedsGrow(entry_count + 1, new_capacity)

Moved(index) == {slot \in Occupied(entries, capacity) : slot < index}

LargerIsRight ==
  phase = "moving" =>
    /\ capacity < new_capacity /\ ~NeedsGrow(entry_count + 1, new_capacity)
    /\ entry_index <= capacity
    /\ IsTable(larger, new_capacity)
    /\ Reachable(larger, new_capacity)
    /\ Distinct(larger, new_capacity)
    /\ \A u \in 0 .. new_capacity - 1 : \A e \in larger[u] :
         \E slot \in 0 .. entry_index - 1 : e \in entries[slot]
    /\ \A slot \in 0 .. entry_index - 1 : \A e \in entries[slot] :
         \E u \in 0 .. new_capacity - 1 : e \in larger[u]
    /\ Cardinality(Occupied(larger, new_capacity)) <= Cardinality(Moved(entry_index))
    /\ distance # 0 => entry_index < capacity /\ entries[entry_index] # {}
    /\ entry_index < capacity =>
         \A e \in entries[entry_index] : \A k \in 0 .. distance - 1 :
           larger[SlotAt(e.name, k, new_capacity)] # {}

SearchIsRight ==
  phase = "probing" =>
    /\ entry_count < capacity
    /\ \A k \in 0 .. distance - 1 :
         /\ entries[SlotAt(wanted, k, capacity)] # {}
         /\ \A e \in entries[SlotAt(wanted, k, capacity)] : e.name # wanted

IInv ==
  /\ Shape /\ EntriesAreFound /\ GivenAreEntries
  /\ SizeGrows /\ LargerIsRight /\ SearchIsRight

-----------------------------------------------------------------------------
\* A slot at a distance shorter than the table is in the table.
LEMMA SlotInRange ==
  ASSUME NEW name \in Names, NEW n \in Nat \ {0}, NEW d \in 0 .. n - 1
  PROVE  SlotAt(name, d, n) \in 0 .. n - 1
<1>1. Hash(name) \in Nat
  BY HashAssumption
<1>2. Hash(name) % n \in 0 .. n - 1
  BY <1>1
<1>. QED
  BY <1>2 DEF SlotAt

\* Every slot of the table is at a distance shorter than the table.
LEMMA SlotHasDistance ==
  ASSUME NEW name \in Names, NEW n \in Nat \ {0}, NEW slot \in 0 .. n - 1
  PROVE  \E d \in 0 .. n - 1 : SlotAt(name, d, n) = slot
<1>1. Hash(name) \in Nat
  BY HashAssumption
<1>. DEFINE home == Hash(name) % n
<1>2. home \in 0 .. n - 1
  BY <1>1
<1>3. SlotAt(name, 0, n) = SlotAt(name, 0, n) /\ \A d : SlotAt(name, d, n) =
        IF home + d < n THEN home + d ELSE (home + d) - n
  BY DEF SlotAt
<1>. HIDE DEF home
<1>4. CASE slot >= home
  <2>1. slot - home \in 0 .. n - 1 /\ home + (slot - home) = slot
    BY <1>2, <1>4
  <2>. QED
    BY <2>1, <1>3
<1>5. CASE slot < home
  <2>1. /\ (slot + n) - home \in 0 .. n - 1
        /\ ~(home + ((slot + n) - home) < n)
        /\ (home + ((slot + n) - home)) - n = slot
    BY <1>2, <1>5
  <2>. QED
    BY <2>1, <1>3
<1>. QED
  BY <1>2, <1>4, <1>5

\* The slots in use are a finite set.
LEMMA OccupiedIsFinite ==
  ASSUME NEW t, NEW n \in Nat
  PROVE  /\ IsFiniteSet(Occupied(t, n))
         /\ Cardinality(Occupied(t, n)) \in Nat
         /\ Cardinality(Occupied(t, n)) <= n
<1>1. IsFiniteSet(0 .. n - 1) /\ Cardinality(0 .. n - 1) = n
  BY FS_Interval
<1>2. Occupied(t, n) \subseteq 0 .. n - 1
  BY DEF Occupied
<1>. QED
  BY <1>1, <1>2, FS_Subset, FS_CardinalityType

\* A search that has only passed slots in use has a free one ahead of it.
LEMMA FreeSlotAhead ==
  ASSUME NEW t, NEW n \in Nat, NEW name \in Names, NEW passed \in Nat,
         Cardinality(Occupied(t, n)) < n,
         \A k \in 0 .. passed - 1 : t[SlotAt(name, k, n)] # {}
  PROVE  /\ \E d \in passed .. n - 1 : t[SlotAt(name, d, n)] = {}
         /\ passed < n
         /\ SlotAt(name, passed, n) \in 0 .. n - 1
<1>1. Cardinality(Occupied(t, n)) \in Nat
  BY OccupiedIsFinite
<1>2. n \in Nat \ {0}
  BY <1>1
<1>3. PICK slot \in 0 .. n - 1 : t[slot] = {}
  <2>1. SUFFICES ASSUME \A slot \in 0 .. n - 1 : t[slot] # {}
                 PROVE  FALSE
    OBVIOUS
  <2>2. Occupied(t, n) = 0 .. n - 1
    BY <2>1 DEF Occupied
  <2>3. Cardinality(0 .. n - 1) = n
    BY FS_Interval
  <2>. QED
    BY <2>2, <2>3
<1>4. PICK d \in 0 .. n - 1 : SlotAt(name, d, n) = slot
  BY <1>2, SlotHasDistance
<1>5. ~(d < passed)
  BY <1>3, <1>4
<1>6. d \in passed .. n - 1 /\ passed \in 0 .. n - 1
  BY <1>5
<1>. QED
  BY <1>2, <1>3, <1>4, <1>6, SlotInRange

-----------------------------------------------------------------------------
\* The table and what is said of it stays when it is not touched.
LEMMA TableKept ==
  ASSUME IInv, UNCHANGED <<table, given>>
  PROVE  /\ IsTable(entries, capacity)' /\ EntriesAreFound' /\ GivenAreEntries'
         /\ capacity' \in Nat /\ entry_count' \in Nat /\ addresses' \in Nat
<1>1. /\ entries' = entries /\ capacity' = capacity /\ entry_count' = entry_count
      /\ addresses' = addresses /\ given' = given
  BY DEF table
<1>. QED
  BY <1>1 DEF IInv, Shape, EntriesAreFound, GivenAreEntries

LEMMA InternKeeps ==
  ASSUME IInv, NEW name \in Names, InternName(name)
  PROVE  IInv'
<1>1. IsTable(entries, capacity)' /\ EntriesAreFound' /\ GivenAreEntries'
  BY TableKept DEF InternName
<1>2. Shape'
  BY <1>1, CapacityAssumption DEF IInv, Shape, InternName, table
<1>3. SizeGrows'
  BY CapacityAssumption DEF IInv, Shape, InternName, SizeGrows, NeedsGrow, table
<1>4. LargerIsRight'
  BY DEF InternName, LargerIsRight
<1>5. SearchIsRight'
  <2>1. CASE NeedsGrow(entry_count, capacity)
    BY <2>1 DEF InternName, SearchIsRight
  <2>2. CASE ~NeedsGrow(entry_count, capacity)
    BY <2>2 DEF IInv, Shape, InternName, SearchIsRight, NeedsGrow, table
  <2>. QED
    BY <2>1, <2>2
<1>. QED
  BY <1>1, <1>2, <1>3, <1>4, <1>5 DEF IInv

LEMMA DoubleKeeps ==
  ASSUME IInv, Double
  PROVE  IInv'
<1>1. IsTable(entries, capacity)' /\ EntriesAreFound' /\ GivenAreEntries'
  BY TableKept DEF Double
<1>2. Shape'
  BY <1>1 DEF IInv, Shape, Double, table
<1>3. SizeGrows'
  BY DEF IInv, Shape, Double, SizeGrows, table
<1>4. LargerIsRight' /\ SearchIsRight'
  BY DEF Double, LargerIsRight, SearchIsRight
<1>. QED
  BY <1>1, <1>2, <1>3, <1>4 DEF IInv

\* Nothing is in use in an empty table.
LEMMA EmptyTable ==
  ASSUME NEW n \in Nat
  PROVE  /\ IsTable(Empty(n), n) /\ Reachable(Empty(n), n) /\ Distinct(Empty(n), n)
         /\ Occupied(Empty(n), n) = {} /\ Cardinality(Occupied(Empty(n), n)) = 0
         /\ \A slot \in 0 .. n - 1 : Empty(n)[slot] = {}
<1>1. Occupied(Empty(n), n) = {} /\ \A slot \in 0 .. n - 1 : Empty(n)[slot] = {}
  BY DEF Occupied, Empty
<1>2. Empty(n) \in [0 .. n - 1 -> SUBSET Entry]
  BY DEF Empty
<1>. QED
  BY <1>1, <1>2, FS_EmptySet DEF IsTable, Reachable, Distinct

LEMMA AllocateKeeps ==
  ASSUME IInv, Allocate
  PROVE  IInv'
<1>1. IsTable(entries, capacity)' /\ EntriesAreFound' /\ GivenAreEntries'
  BY TableKept DEF Allocate
<1>2. Shape'
  BY <1>1 DEF IInv, Shape, Allocate, table
<1>3. SizeGrows' /\ SearchIsRight'
  BY DEF Allocate, SizeGrows, SearchIsRight
<1>4. LargerIsRight'
  <2>1. /\ larger' = Empty(new_capacity) /\ new_capacity' = new_capacity /\ entry_index' = 0
        /\ entries' = entries /\ capacity' = capacity /\ entry_count' = entry_count
        /\ distance' = 0 /\ new_capacity \in Nat /\ capacity \in Nat
    BY DEF IInv, Shape, SizeGrows, Allocate, table
  <2>2. capacity < new_capacity /\ ~NeedsGrow(entry_count + 1, new_capacity)
    BY DEF IInv, Shape, SizeGrows, Allocate
  <2>3. /\ IsTable(larger, new_capacity)' /\ Reachable(larger, new_capacity)'
        /\ Distinct(larger, new_capacity)'
        /\ \A slot \in 0 .. new_capacity - 1 : larger'[slot] = {}
    BY <2>1, EmptyTable
  <2>4. Cardinality(Occupied(larger, new_capacity))' <= Cardinality(Moved(entry_index))'
    <3>1. Cardinality(Occupied(larger, new_capacity))' = 0
      BY <2>1, EmptyTable
    <3>2. Moved(entry_index)' = {}
      BY <2>1 DEF Moved, Occupied
    <3>3. Cardinality(Moved(entry_index)') = 0
      BY <3>2, FS_EmptySet
    <3>. QED
      BY <3>1, <3>3
  <2>. QED
    BY <2>1, <2>2, <2>3, <2>4 DEF LargerIsRight
<1>. QED
  BY <1>1, <1>2, <1>3, <1>4 DEF IInv

LEMMA FailKeeps ==
  ASSUME IInv, Fail
  PROVE  IInv'
<1>1. IsTable(entries, capacity)' /\ EntriesAreFound' /\ GivenAreEntries'
  BY TableKept DEF Fail
<1>2. Shape'
  BY <1>1 DEF IInv, Shape, Fail, table, growth
<1>3. SizeGrows' /\ SearchIsRight' /\ LargerIsRight'
  BY DEF Fail, SizeGrows, SearchIsRight, LargerIsRight
<1>. QED
  BY <1>1, <1>2, <1>3 DEF IInv

LEMMA SkipKeeps ==
  ASSUME IInv, Skip
  PROVE  IInv'
<1>1. IsTable(entries, capacity)' /\ EntriesAreFound' /\ GivenAreEntries'
  BY TableKept DEF Skip
<1>2. Shape'
  BY <1>1 DEF IInv, Shape, Skip, table
<1>3. SizeGrows' /\ SearchIsRight'
  BY DEF Skip, SizeGrows, SearchIsRight
<1>4. LargerIsRight'
  <2>1. /\ entries' = entries /\ capacity' = capacity /\ entry_count' = entry_count
        /\ larger' = larger /\ new_capacity' = new_capacity /\ distance' = distance
        /\ entry_index' = entry_index + 1 /\ entries[entry_index] = {}
        /\ entry_index < capacity /\ phase = "moving"
    BY DEF Skip, table
  <2>2. capacity \in Nat /\ entry_index \in Nat /\ LargerIsRight /\ distance = 0
    BY <2>1 DEF IInv, Shape, LargerIsRight
  <2>3. Moved(entry_index)' = Moved(entry_index)
    BY <2>1, <2>2 DEF Moved, Occupied
  <2>4. /\ \A u \in 0 .. new_capacity - 1 : \A e \in larger[u] :
             \E slot \in 0 .. entry_index : e \in entries[slot]
        /\ \A slot \in 0 .. entry_index : \A e \in entries[slot] :
             \E u \in 0 .. new_capacity - 1 : e \in larger[u]
    BY <2>1, <2>2 DEF LargerIsRight
  <2>. QED
    BY <2>1, <2>2, <2>3, <2>4 DEF LargerIsRight
<1>. QED
  BY <1>1, <1>2, <1>3, <1>4 DEF IInv

\* An entry put in a free slot that a search for its name has come to.
LEMMA PutEntry ==
  ASSUME NEW t, NEW n \in Nat \ {0}, NEW e \in Entry, NEW d \in 0 .. n - 1,
         IsTable(t, n), Reachable(t, n), Distinct(t, n),
         t[SlotAt(e.name, d, n)] = {},
         \A k \in 0 .. d - 1 : t[SlotAt(e.name, k, n)] # {},
         \A slot \in 0 .. n - 1 : \A o \in t[slot] : o.name # e.name /\ o.address # e.address,
         NEW u, u = [t EXCEPT ![SlotAt(e.name, d, n)] = {e}]
  PROVE  /\ IsTable(u, n) /\ Reachable(u, n) /\ Distinct(u, n)
         /\ Cardinality(Occupied(u, n)) = Cardinality(Occupied(t, n)) + 1
<1>. DEFINE free == SlotAt(e.name, d, n)
<1>1. e.name \in Names
  BY DEF Entry
<1>2. free \in 0 .. n - 1
  BY <1>1, SlotInRange
<1>3. /\ t \in [0 .. n - 1 -> SUBSET Entry] /\ t[free] = {}
      /\ \A slot \in 0 .. n - 1 : \A a \in t[slot], b \in t[slot] : a = b
  BY DEF IsTable
<1>4. /\ u \in [0 .. n - 1 -> SUBSET Entry] /\ u[free] = {e}
      /\ \A slot \in 0 .. n - 1 : slot # free => u[slot] = t[slot]
  BY <1>2, <1>3
<1>. HIDE DEF free
<1>5. IsTable(u, n)
  BY <1>3, <1>4 DEF IsTable
<1>6. Distinct(u, n)
  <2>. SUFFICES ASSUME NEW s1 \in 0 .. n - 1, NEW s2 \in 0 .. n - 1,
                       NEW a \in u[s1], NEW b \in u[s2],
                       a.name = b.name \/ a.address = b.address
                PROVE  s1 = s2
    BY DEF Distinct
  <2>1. CASE s1 # free /\ s2 # free
    BY <2>1, <1>4 DEF Distinct
  <2>2. CASE s1 = free /\ s2 # free
    BY <2>2, <1>4
  <2>3. CASE s1 # free /\ s2 = free
    BY <2>3, <1>4
  <2>. QED
    BY <2>1, <2>2, <2>3
<1>7. \A k \in 0 .. n - 1 : \A name \in Names :
        t[SlotAt(name, k, n)] # {} => u[SlotAt(name, k, n)] # {}
  <2>. SUFFICES ASSUME NEW k \in 0 .. n - 1, NEW name \in Names
                PROVE  t[SlotAt(name, k, n)] # {} => u[SlotAt(name, k, n)] # {}
    OBVIOUS
  <2>1. SlotAt(name, k, n) \in 0 .. n - 1
    BY SlotInRange
  <2>. QED
    BY <2>1, <1>4
<1>8. Reachable(u, n)
  <2>. SUFFICES ASSUME NEW slot \in 0 .. n - 1, NEW o \in u[slot]
                PROVE  FoundAt(u, n, o.name, slot)
    BY DEF Reachable
  <2>1. CASE slot = free
    <3>1. o = e
      BY <2>1, <1>4
    <3>2. \A k \in 0 .. d - 1 : u[SlotAt(e.name, k, n)] # {}
      BY <1>1, <1>7
    <3>. QED
      BY <3>1, <3>2, <2>1 DEF FoundAt, free
  <2>2. CASE slot # free
    <3>1. o \in t[slot] /\ o.name \in Names
      BY <2>2, <1>3, <1>4 DEF Entry
    <3>2. PICK c \in 0 .. n - 1 :
            slot = SlotAt(o.name, c, n) /\ \A k \in 0 .. c - 1 : t[SlotAt(o.name, k, n)] # {}
      BY <3>1 DEF Reachable, FoundAt
    <3>3. \A k \in 0 .. c - 1 : u[SlotAt(o.name, k, n)] # {}
      BY <3>1, <3>2, <1>7
    <3>. QED
      BY <3>2, <3>3 DEF FoundAt
  <2>. QED
    BY <2>1, <2>2
<1>9. Cardinality(Occupied(u, n)) = Cardinality(Occupied(t, n)) + 1
  <2>1. Occupied(u, n) = Occupied(t, n) \cup {free} /\ free \notin Occupied(t, n)
    BY <1>2, <1>3, <1>4 DEF Occupied
  <2>. QED
    BY <2>1, OccupiedIsFinite, FS_AddElement
<1>. QED
  BY <1>5, <1>6, <1>8, <1>9

LEMMA ReplaceKeeps ==
  ASSUME IInv, Replace
  PROVE  IInv'
<1>1. /\ entries' = larger /\ capacity' = new_capacity /\ entry_count' = entry_count
      /\ addresses' = addresses /\ distance' = distance /\ wanted' = wanted
      /\ new_capacity' = new_capacity /\ entry_index' = entry_index /\ given' = given
      /\ phase = "moving" /\ phase' = "probing" /\ entry_index = capacity
  BY DEF Replace, growth
<1>2. /\ IsTable(larger, new_capacity) /\ Reachable(larger, new_capacity)
      /\ Distinct(larger, new_capacity) /\ distance = 0
      /\ ~NeedsGrow(entry_count + 1, new_capacity) /\ capacity < new_capacity
      /\ Cardinality(Occupied(larger, new_capacity)) <= Cardinality(Moved(capacity))
  BY <1>1 DEF IInv, LargerIsRight, Shape
<1>3. /\ \A u \in 0 .. new_capacity - 1 : \A e \in larger[u] :
           \E slot \in 0 .. capacity - 1 : e \in entries[slot]
      /\ \A slot \in 0 .. capacity - 1 : \A e \in entries[slot] :
           \E u \in 0 .. new_capacity - 1 : e \in larger[u]
  BY <1>1 DEF IInv, LargerIsRight
<1>4. Moved(capacity) = Occupied(entries, capacity) /\ capacity \in Nat /\ new_capacity \in Nat
  BY DEF Moved, Occupied, IInv, Shape
<1>5. Cardinality(Occupied(larger, new_capacity)) <= entry_count
  BY <1>2, <1>4, OccupiedIsFinite DEF IInv, EntriesAreFound, Shape
<1>6. EntriesAreFound'
  BY <1>1, <1>2, <1>3, <1>5 DEF IInv, EntriesAreFound
<1>7. GivenAreEntries'
  BY <1>1, <1>3 DEF IInv, GivenAreEntries
<1>8. Shape'
  BY <1>1, <1>2 DEF IInv, Shape
<1>9. SizeGrows' /\ LargerIsRight'
  BY <1>1 DEF SizeGrows, LargerIsRight
<1>10. SearchIsRight'
  BY <1>1, <1>2, <1>4 DEF IInv, Shape, SearchIsRight, NeedsGrow
<1>. QED
  BY <1>6, <1>7, <1>8, <1>9, <1>10 DEF IInv

\* A search for a name is at a slot of the table.
LEMMA SearchInRange ==
  ASSUME IInv, phase = "probing"
  PROVE  /\ capacity \in Nat \ {0} /\ wanted \in Names /\ distance \in 0 .. capacity - 1
         /\ SlotAt(wanted, distance, capacity) \in 0 .. capacity - 1
         /\ \E d \in distance .. capacity - 1 : entries[SlotAt(wanted, d, capacity)] = {}
<1>1. /\ Cardinality(Occupied(entries, capacity)) <= entry_count /\ entry_count < capacity
      /\ \A k \in 0 .. distance - 1 : entries[SlotAt(wanted, k, capacity)] # {}
      /\ capacity \in Nat /\ entry_count \in Nat /\ distance \in Nat /\ wanted \in Names
  BY DEF IInv, Shape, SearchIsRight, EntriesAreFound
<1>2. Cardinality(Occupied(entries, capacity)) < capacity
  BY <1>1, OccupiedIsFinite
<1>3. /\ \E d \in distance .. capacity - 1 : entries[SlotAt(wanted, d, capacity)] = {}
      /\ distance < capacity
      /\ SlotAt(wanted, distance, capacity) \in 0 .. capacity - 1
  BY <1>1, <1>2, FreeSlotAhead
<1>. QED
  BY <1>1, <1>3

LEMMA PassKeeps ==
  ASSUME IInv, Pass
  PROVE  IInv'
<1>1. IsTable(entries, capacity)' /\ EntriesAreFound' /\ GivenAreEntries'
  BY TableKept DEF Pass
<1>2. Shape'
  BY <1>1 DEF IInv, Shape, Pass, table, growth
<1>3. SizeGrows' /\ LargerIsRight'
  BY DEF Pass, SizeGrows, LargerIsRight
<1>4. SearchIsRight'
  <2>1. /\ entries' = entries /\ capacity' = capacity /\ entry_count' = entry_count
        /\ wanted' = wanted /\ distance' = distance + 1 /\ phase = "probing"
    BY DEF Pass, table
  <2>2. PICK entry \in entries[SlotAt(wanted, distance, capacity)] : entry.name # wanted
    BY DEF Pass
  <2>3. /\ Cardinality(Occupied(entries, capacity)) <= entry_count /\ entry_count < capacity
        /\ \A k \in 0 .. distance - 1 : entries[SlotAt(wanted, k, capacity)] # {}
        /\ capacity \in Nat /\ entry_count \in Nat /\ distance \in Nat /\ wanted \in Names
    BY <2>1 DEF IInv, Shape, SearchIsRight, EntriesAreFound
  <2>4. SlotAt(wanted, distance, capacity) \in 0 .. capacity - 1
    BY <2>1, SearchInRange
  <2>5. \A e \in entries[SlotAt(wanted, distance, capacity)] : e.name # wanted
    BY <2>2, <2>4 DEF IInv, Shape, IsTable
  <2>6. \A k \in 0 .. distance :
          /\ entries[SlotAt(wanted, k, capacity)] # {}
          /\ \A e \in entries[SlotAt(wanted, k, capacity)] : e.name # wanted
    <3>. SUFFICES ASSUME NEW k \in 0 .. distance
                  PROVE  /\ entries[SlotAt(wanted, k, capacity)] # {}
                         /\ \A e \in entries[SlotAt(wanted, k, capacity)] : e.name # wanted
      OBVIOUS
    <3>1. CASE k = distance
      BY <3>1, <2>2, <2>5
    <3>2. CASE k # distance
      <4>1. k \in 0 .. distance - 1
        BY <3>2, <2>3
      <4>. QED
        BY <4>1, <2>1 DEF IInv, SearchIsRight
    <3>. QED
      BY <3>1, <3>2
  <2>. QED
    BY <2>1, <2>3, <2>6 DEF SearchIsRight
<1>. QED
  BY <1>1, <1>2, <1>3, <1>4 DEF IInv

LEMMA FindKeeps ==
  ASSUME IInv, Find
  PROVE  IInv'
<1>1. PICK entry \in entries[SlotAt(wanted, distance, capacity)] :
        entry.name = wanted /\ Return(entry.address)
  BY DEF Find
<1>2. /\ entries' = entries /\ capacity' = capacity /\ entry_count' = entry_count
      /\ addresses' = addresses /\ wanted' = wanted /\ distance' = distance
      /\ new_capacity' = new_capacity /\ entry_index' = entry_index
      /\ phase = "probing" /\ phase' = "idle"
      /\ given' = given \cup {[name |-> wanted, address |-> entry.address]}
  BY <1>1 DEF Find, Return, growth
<1>3. SlotAt(wanted, distance, capacity) \in 0 .. capacity - 1
  BY <1>2, SearchInRange
<1>4. entry = [name |-> wanted, address |-> entry.address]
  BY <1>1, <1>3 DEF IInv, Shape, IsTable, Entry
<1>5. GivenAreEntries'
  <2>1. given' = given \cup {entry}
    BY <1>2, <1>4
  <2>. QED
    BY <2>1, <1>1, <1>2, <1>3 DEF IInv, GivenAreEntries
<1>6. EntriesAreFound'
  BY <1>2 DEF IInv, EntriesAreFound
<1>7. Shape'
  BY <1>2 DEF IInv, Shape
<1>8. SizeGrows' /\ LargerIsRight' /\ SearchIsRight'
  BY <1>2 DEF SizeGrows, LargerIsRight, SearchIsRight
<1>. QED
  BY <1>5, <1>6, <1>7, <1>8 DEF IInv

\* A search that has come to a free slot has proved that the name is new.
LEMMA NameIsNew ==
  ASSUME IInv, phase = "probing", entries[SlotAt(wanted, distance, capacity)] = {}
  PROVE  \A slot \in 0 .. capacity - 1 : \A e \in entries[slot] : e.name # wanted
<1>. SUFFICES ASSUME NEW slot \in 0 .. capacity - 1, NEW e \in entries[slot], e.name = wanted
              PROVE  FALSE
  OBVIOUS
<1>1. PICK d \in 0 .. capacity - 1 :
        /\ slot = SlotAt(wanted, d, capacity)
        /\ \A k \in 0 .. d - 1 : entries[SlotAt(wanted, k, capacity)] # {}
  BY DEF IInv, EntriesAreFound, Reachable, FoundAt
<1>2. capacity \in Nat /\ distance \in Nat
  BY DEF IInv, Shape
<1>3. CASE d < distance
  <2>1. d \in 0 .. distance - 1
    BY <1>2, <1>3
  <2>. QED
    BY <2>1, <1>1 DEF IInv, SearchIsRight
<1>4. CASE d = distance
  BY <1>1, <1>4
<1>5. CASE d > distance
  <2>1. distance \in 0 .. d - 1
    BY <1>2, <1>5
  <2>. QED
    BY <2>1, <1>1
<1>. QED
  BY <1>2, <1>3, <1>4, <1>5

LEMMA InsertKeeps ==
  ASSUME IInv, Insert
  PROVE  IInv'
<1>. DEFINE new == [name |-> wanted, address |-> addresses]
            slot == SlotAt(wanted, distance, capacity)
<1>1. /\ entries' = [entries EXCEPT ![slot] = {new}] /\ entries[slot] = {}
      /\ capacity' = capacity /\ entry_count' = entry_count + 1 /\ addresses' = addresses + 1
      /\ wanted' = wanted /\ distance' = distance
      /\ new_capacity' = new_capacity /\ entry_index' = entry_index
      /\ phase = "probing" /\ phase' = "idle" /\ given' = given \cup {new}
  BY DEF Insert, Return, growth
<1>2. /\ slot \in 0 .. capacity - 1 /\ capacity \in Nat \ {0} /\ wanted \in Names
      /\ distance \in 0 .. capacity - 1
  BY <1>1, SearchInRange
<1>3. new \in Entry /\ new.name = wanted /\ new.address = addresses /\ addresses \in Nat
  BY <1>2 DEF Entry, IInv, Shape
<1>4. \A s \in 0 .. capacity - 1 : \A o \in entries[s] : o.name # wanted
  BY <1>1, NameIsNew
<1>5. \A s \in 0 .. capacity - 1 : \A o \in entries[s] : o.address # addresses /\ o.address < addresses
  BY <1>3 DEF IInv, EntriesAreFound
<1>6. \A k \in 0 .. distance - 1 : entries[SlotAt(wanted, k, capacity)] # {}
  BY <1>1 DEF IInv, SearchIsRight
<1>7. IsTable(entries, capacity) /\ Reachable(entries, capacity) /\ Distinct(entries, capacity)
  BY DEF IInv, Shape, EntriesAreFound
<1>8. /\ slot = SlotAt(new.name, distance, capacity)
      /\ \A s \in 0 .. capacity - 1 : \A o \in entries[s] :
           o.name # new.name /\ o.address # new.address
      /\ \A k \in 0 .. distance - 1 : entries[SlotAt(new.name, k, capacity)] # {}
  BY <1>3, <1>4, <1>5, <1>6
<1>. HIDE DEF new
<1>9. /\ IsTable(entries', capacity) /\ Reachable(entries', capacity)
      /\ Distinct(entries', capacity)
      /\ Cardinality(Occupied(entries', capacity)) = Cardinality(Occupied(entries, capacity)) + 1
  BY <1>1, <1>2, <1>3, <1>7, <1>8, PutEntry
<1>10. entries \in [0 .. capacity - 1 -> SUBSET Entry]
  BY <1>7 DEF IsTable
<1>. HIDE DEF slot
<1>11. /\ entries'[slot] = {new}
       /\ \A s \in 0 .. capacity - 1 : s # slot => entries'[s] = entries[s]
  BY <1>1, <1>2, <1>10
<1>12. \A s \in 0 .. capacity - 1 : \A o \in entries'[s] : o.address < addresses + 1
  BY <1>3, <1>5, <1>11, <1>10 DEF Entry
<1>13. EntriesAreFound'
  <2>1. /\ Cardinality(Occupied(entries, capacity)) <= entry_count
        /\ Cardinality(Occupied(entries, capacity)) \in Nat /\ entry_count \in Nat
    BY <1>2, OccupiedIsFinite DEF IInv, EntriesAreFound, Shape
  <2>2. Cardinality(Occupied(entries', capacity)) <= entry_count + 1
    BY <2>1, <1>9
  <2>. QED
    BY <1>1, <1>9, <1>12, <2>2 DEF EntriesAreFound
<1>14. GivenAreEntries'
  <2>. SUFFICES ASSUME NEW g \in given'
                PROVE  \E s \in 0 .. capacity - 1 : g \in entries'[s]
    BY <1>1 DEF GivenAreEntries
  <2>1. CASE g = new
    BY <2>1, <1>2, <1>11
  <2>2. CASE g \in given
    <3>1. PICK s \in 0 .. capacity - 1 : g \in entries[s]
      BY <2>2 DEF IInv, GivenAreEntries
    <3>2. s # slot
      BY <3>1, <1>1
    <3>. QED
      BY <3>1, <3>2, <1>11
  <2>. QED
    BY <2>1, <2>2, <1>1
<1>15. Shape'
  BY <1>1, <1>2, <1>9 DEF IInv, Shape
<1>16. SizeGrows' /\ LargerIsRight' /\ SearchIsRight'
  BY <1>1 DEF SizeGrows, LargerIsRight, SearchIsRight
<1>. QED
  BY <1>13, <1>14, <1>15, <1>16 DEF IInv

\* An entry that is moved has a free slot ahead of it, too.
LEMMA MoveInRange ==
  ASSUME IInv, phase = "moving", entry_index < capacity, NEW moved \in entries[entry_index]
  PROVE  /\ new_capacity \in Nat \ {0} /\ moved \in Entry /\ distance \in 0 .. new_capacity - 1
         /\ SlotAt(moved.name, distance, new_capacity) \in 0 .. new_capacity - 1
         /\ \E d \in distance .. new_capacity - 1 :
              larger[SlotAt(moved.name, d, new_capacity)] = {}
<1>1. /\ Cardinality(Occupied(larger, new_capacity)) <= Cardinality(Moved(entry_index))
      /\ capacity < new_capacity /\ capacity \in Nat /\ new_capacity \in Nat
      /\ distance \in Nat /\ entry_index \in Nat
      /\ \A k \in 0 .. distance - 1 : larger[SlotAt(moved.name, k, new_capacity)] # {}
  BY DEF IInv, Shape, LargerIsRight
<1>2. moved \in Entry
  BY <1>1 DEF IInv, Shape, IsTable
<1>3. moved.name \in Names
  BY <1>2 DEF Entry
<1>4. /\ IsFiniteSet(Occupied(entries, capacity))
      /\ Cardinality(Occupied(entries, capacity)) \in Nat
      /\ Cardinality(Occupied(entries, capacity)) <= capacity
      /\ Cardinality(Occupied(larger, new_capacity)) \in Nat
  BY <1>1, OccupiedIsFinite
<1>5. Moved(entry_index) \subseteq Occupied(entries, capacity)
  BY DEF Moved
<1>6. /\ Cardinality(Moved(entry_index)) <= Cardinality(Occupied(entries, capacity))
      /\ Cardinality(Moved(entry_index)) \in Nat
  BY <1>4, <1>5, FS_Subset, FS_CardinalityType
<1>7. Cardinality(Occupied(larger, new_capacity)) < new_capacity
  BY <1>1, <1>4, <1>6
<1>8. /\ \E d \in distance .. new_capacity - 1 : larger[SlotAt(moved.name, d, new_capacity)] = {}
      /\ distance < new_capacity
      /\ SlotAt(moved.name, distance, new_capacity) \in 0 .. new_capacity - 1
  BY <1>1, <1>3, <1>7, FreeSlotAhead
<1>. QED
  BY <1>1, <1>2, <1>8

\* The entry is not put yet: nothing in the larger table has its name or address.
LEMMA MovedIsNew ==
  ASSUME IInv, phase = "moving", entry_index < capacity, NEW moved \in entries[entry_index]
  PROVE  \A u \in 0 .. new_capacity - 1 : \A o \in larger[u] :
           o.name # moved.name /\ o.address # moved.address
<1>. SUFFICES ASSUME NEW u \in 0 .. new_capacity - 1, NEW o \in larger[u],
                     o.name = moved.name \/ o.address = moved.address
              PROVE  FALSE
  OBVIOUS
<1>1. PICK s \in 0 .. entry_index - 1 : o \in entries[s]
  BY DEF IInv, LargerIsRight
<1>2. s \in 0 .. capacity - 1 /\ entry_index \in 0 .. capacity - 1 /\ s # entry_index
  BY DEF IInv, Shape
<1>. QED
  BY <1>1, <1>2 DEF IInv, EntriesAreFound, Distinct

LEMMA MoveKeeps ==
  ASSUME IInv, entry_index < capacity, NEW moved \in entries[entry_index], Move(moved)
  PROVE  IInv'
<1>. DEFINE slot == SlotAt(moved.name, distance, new_capacity)
<1>1. IsTable(entries, capacity)' /\ EntriesAreFound' /\ GivenAreEntries'
  BY TableKept DEF Move
<1>2. /\ entries' = entries /\ capacity' = capacity /\ entry_count' = entry_count
      /\ wanted' = wanted /\ new_capacity' = new_capacity
      /\ phase = "moving" /\ phase' = "moving"
  BY DEF Move, table
<1>3. /\ new_capacity \in Nat \ {0} /\ moved \in Entry /\ distance \in 0 .. new_capacity - 1
      /\ slot \in 0 .. new_capacity - 1
  BY <1>2, MoveInRange
<1>4. SizeGrows' /\ SearchIsRight'
  BY <1>2 DEF SizeGrows, SearchIsRight
<1>5. /\ capacity \in Nat /\ entry_index \in Nat /\ capacity < new_capacity
      /\ IsTable(larger, new_capacity) /\ Reachable(larger, new_capacity)
      /\ Distinct(larger, new_capacity) /\ ~NeedsGrow(entry_count + 1, new_capacity)
      /\ \A k \in 0 .. distance - 1 : larger[SlotAt(moved.name, k, new_capacity)] # {}
  BY <1>2 DEF IInv, Shape, LargerIsRight
<1>6. /\ \A u \in 0 .. new_capacity - 1 : \A e \in larger[u] :
           \E s \in 0 .. entry_index - 1 : e \in entries[s]
      /\ \A s \in 0 .. entry_index - 1 : \A e \in entries[s] :
           \E u \in 0 .. new_capacity - 1 : e \in larger[u]
      /\ Cardinality(Occupied(larger, new_capacity)) <= Cardinality(Moved(entry_index))
  BY <1>2 DEF IInv, LargerIsRight
<1>7. \A e \in entries[entry_index] : e = moved
  BY <1>5 DEF IInv, Shape, IsTable
<1>8. CASE larger[slot] = {}
  <2>1. /\ larger' = [larger EXCEPT ![slot] = {moved}] /\ entry_index' = entry_index + 1
        /\ distance' = 0
    BY <1>8 DEF Move, IsFree
  <2>2. /\ IsTable(larger', new_capacity) /\ Reachable(larger', new_capacity)
        /\ Distinct(larger', new_capacity)
        /\ Cardinality(Occupied(larger', new_capacity))
             = Cardinality(Occupied(larger, new_capacity)) + 1
    BY <1>2, <1>3, <1>5, <1>8, <2>1, MovedIsNew, PutEntry
  <2>3. larger \in [0 .. new_capacity - 1 -> SUBSET Entry]
    BY <1>5 DEF IsTable
  <2>. HIDE DEF slot
  <2>4. /\ larger'[slot] = {moved}
        /\ \A u \in 0 .. new_capacity - 1 : u # slot => larger'[u] = larger[u]
    BY <1>3, <2>1, <2>3
  <2>5. \A u \in 0 .. new_capacity - 1 : \A e \in larger'[u] :
          \E s \in 0 .. entry_index : e \in entries[s]
    <3>. SUFFICES ASSUME NEW u \in 0 .. new_capacity - 1, NEW e \in larger'[u]
                  PROVE  \E s \in 0 .. entry_index : e \in entries[s]
      OBVIOUS
    <3>1. CASE u = slot
      BY <3>1, <2>4, <1>5
    <3>2. CASE u # slot
      BY <3>2, <2>4, <1>5, <1>6
    <3>. QED
      BY <3>1, <3>2
  <2>6. \A s \in 0 .. entry_index : \A e \in entries[s] :
          \E u \in 0 .. new_capacity - 1 : e \in larger'[u]
    <3>. SUFFICES ASSUME NEW s \in 0 .. entry_index, NEW e \in entries[s]
                  PROVE  \E u \in 0 .. new_capacity - 1 : e \in larger'[u]
      OBVIOUS
    <3>1. CASE s = entry_index
      BY <3>1, <1>3, <1>7, <2>4
    <3>2. CASE s # entry_index
      <4>1. PICK u \in 0 .. new_capacity - 1 : e \in larger[u]
        BY <3>2, <1>5, <1>6
      <4>2. u # slot
        BY <4>1, <1>8
      <4>. QED
        BY <4>1, <4>2, <2>4
    <3>. QED
      BY <3>1, <3>2
  <2>7. Cardinality(Occupied(larger', new_capacity)) <= Cardinality(Moved(entry_index + 1))
    <3>1. Moved(entry_index + 1) = Moved(entry_index) \cup {entry_index}
      BY <1>5 DEF Moved, Occupied
    <3>2. entry_index \notin Moved(entry_index) /\ Moved(entry_index) \subseteq Occupied(entries, capacity)
      BY <1>5 DEF Moved
    <3>3. IsFiniteSet(Moved(entry_index))
      BY <1>5, <3>2, OccupiedIsFinite, FS_Subset
    <3>4. Cardinality(Moved(entry_index + 1)) = Cardinality(Moved(entry_index)) + 1
      BY <3>1, <3>2, <3>3, FS_AddElement
    <3>5. Cardinality(Moved(entry_index)) \in Nat /\ Cardinality(Occupied(larger, new_capacity)) \in Nat
      BY <1>3, <3>3, OccupiedIsFinite, FS_CardinalityType
    <3>. QED
      BY <2>2, <3>4, <3>5, <1>6
  <2>8. Moved(entry_index)' = Moved(entry_index + 1)
    BY <1>2, <2>1 DEF Moved
  <2>9. LargerIsRight'
    BY <1>2, <1>3, <1>5, <2>1, <2>2, <2>5, <2>6, <2>7, <2>8 DEF LargerIsRight
  <2>10. Shape'
    BY <1>1, <1>2, <1>3, <1>5, <2>1 DEF IInv, Shape, Move, table
  <2>. QED
    BY <1>1, <1>4, <2>9, <2>10 DEF IInv
<1>9. CASE larger[slot] # {}
  <2>1. larger' = larger /\ entry_index' = entry_index /\ distance' = distance + 1
    BY <1>9 DEF Move, IsFree
  <2>2. \A k \in 0 .. distance : larger[SlotAt(moved.name, k, new_capacity)] # {}
    <3>. SUFFICES ASSUME NEW k \in 0 .. distance
                  PROVE  larger[SlotAt(moved.name, k, new_capacity)] # {}
      OBVIOUS
    <3>1. CASE k = distance
      BY <3>1, <1>9
    <3>2. CASE k # distance
      BY <3>2, <1>3, <1>5
    <3>. QED
      BY <3>1, <3>2
  <2>3. Moved(entry_index)' = Moved(entry_index)
    BY <1>2, <2>1 DEF Moved
  <2>4. LargerIsRight'
    BY <1>2, <1>3, <1>5, <1>6, <1>7, <2>1, <2>2, <2>3 DEF LargerIsRight
  <2>5. Shape'
    BY <1>1, <1>2, <1>3, <1>5, <2>1 DEF IInv, Shape, Move, table
  <2>. QED
    BY <1>1, <1>4, <2>4, <2>5 DEF IInv
<1>. QED
  BY <1>8, <1>9

-----------------------------------------------------------------------------
LEMMA InitHolds == PoolInit => IInv
<1>. SUFFICES ASSUME PoolInit PROVE IInv
  OBVIOUS
<1>1. /\ entries = Empty(0) /\ capacity = 0 /\ entry_count = 0 /\ given = {} /\ phase = "idle"
  BY DEF PoolInit
<1>2. Shape
  BY EmptyTable DEF Shape, PoolInit
<1>3. EntriesAreFound
  BY <1>1, EmptyTable DEF EntriesAreFound
<1>4. GivenAreEntries /\ SizeGrows /\ LargerIsRight /\ SearchIsRight
  BY <1>1 DEF GivenAreEntries, SizeGrows, LargerIsRight, SearchIsRight
<1>. QED
  BY <1>2, <1>3, <1>4 DEF IInv

LEMMA StepKeeps == IInv /\ [PoolNext]_poolVars => IInv'
<1>. SUFFICES ASSUME IInv, [PoolNext]_poolVars PROVE IInv'
  OBVIOUS
<1>1. ASSUME NEW name \in Names, InternName(name) PROVE IInv'
  BY <1>1, InternKeeps
<1>2. CASE Double
  BY <1>2, DoubleKeeps
<1>3. CASE Allocate
  BY <1>3, AllocateKeeps
<1>4. CASE Fail
  BY <1>4, FailKeeps
<1>5. CASE Skip
  BY <1>5, SkipKeeps
<1>6. CASE Replace
  BY <1>6, ReplaceKeeps
<1>7. CASE Pass
  BY <1>7, PassKeeps
<1>8. CASE Find
  BY <1>8, FindKeeps
<1>9. CASE Insert
  BY <1>9, InsertKeeps
<1>10. ASSUME NEW slot \in {entry_index} \cap 0 .. capacity - 1, NEW moved \in entries[slot],
              Move(moved)
       PROVE  IInv'
  <2>1. slot = entry_index /\ entry_index < capacity
    BY DEF IInv, Shape
  <2>. QED
    BY <1>10, <2>1, MoveKeeps
<1>11. CASE UNCHANGED poolVars
  BY <1>11 DEF poolVars, IInv, Shape, EntriesAreFound, GivenAreEntries, SizeGrows, LargerIsRight,
               SearchIsRight, Moved
<1>. QED
  BY <1>1, <1>2, <1>3, <1>4, <1>5, <1>6, <1>7, <1>8, <1>9, <1>10, <1>11 DEF PoolNext, PoolStep

LEMMA Invariance == PoolSpec => []IInv
<1>1. PoolInit => IInv
  BY InitHolds
<1>2. IInv /\ [PoolNext]_poolVars => IInv'
  BY StepKeeps
<1>. QED
  BY <1>1, <1>2, PTL DEF PoolSpec

\* For every set of names and every hash function, two names returned are at
\* the same address exactly if they are equal (intern_identifier_text).
THEOREM InterningIsExact == PoolSpec => []NamesAreInterned
<1>1. IInv => NamesAreInterned
  <2>. SUFFICES ASSUME IInv, NEW r \in given, NEW s \in given
                PROVE  r.name = s.name <=> r.address = s.address
    BY DEF NamesAreInterned
  <2>1. PICK i \in 0 .. capacity - 1 : r \in entries[i]
    BY DEF IInv, GivenAreEntries
  <2>2. PICK j \in 0 .. capacity - 1 : s \in entries[j]
    BY DEF IInv, GivenAreEntries
  <2>3. r.name = s.name \/ r.address = s.address => i = j
    BY <2>1, <2>2 DEF IInv, EntriesAreFound, Distinct
  <2>4. i = j => r = s
    BY <2>1, <2>2 DEF IInv, Shape, IsTable
  <2>. QED
    BY <2>3, <2>4
<1>. QED
  BY <1>1, Invariance, PTL

\* Neither loop that looks for a slot runs forever: for every sequence of calls
\* a free slot is ahead (intern_identifier_text and string_pool_rehash).
THEOREM SearchesEnd == PoolSpec => []ProbingStops
<1>1. IInv => ProbingStops
  BY SearchInRange, MoveInRange DEF ProbingStops
<1>. QED
  BY <1>1, Invariance, PTL
=============================================================================
