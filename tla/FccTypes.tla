------------------------------- MODULE FccTypes -------------------------------
(***************************************************************************)
(* The type table (fcc_type.c) and the layout of records (fcc_layout.c).   *)
(* A type is known by its place in types, from 1; it names other types by  *)
(* theirs.  The parameters of functions and the members of records lie in  *)
(* two arrays of their own, of which a type has a slice.  Semantic         *)
(* analysis is the caller: it makes types in any order, and completes a    *)
(* record some time after others have come to name it.                     *)
(*                                                                         *)
(* Names of members are left out: analysis has compared them before, and   *)
(* they decide nothing here.  So is the growth of the arrays: where one    *)
(* has to grow, the call may fail (AllocationFails).                       *)
(***************************************************************************)
EXTENDS Integers, Sequences, FiniteSets

CONSTANTS Basics, BasicSize,           \* the basic types, and the size of each; 0: void
          PointerSize, SizeMax,        \* SIZE_MAX
          Tags, Counts,                \* the tags and the lengths of arrays used
          MaxTypes, MaxParameters, MaxMembers, ParameterLimit, MemberLimit   \* bounds

IsSize(n) == n \in 1 .. SizeMax
ASSUME SizesAssumption ==
  /\ SizeMax \in Nat /\ IsSize(PointerSize)
  /\ BasicSize \in [Basics -> 0 .. SizeMax]
ASSUME CountsAssumption == Counts \subseteq 0 .. SizeMax
\* Alignments are powers of two, so that of two the smaller divides the larger.
Alignments == {PointerSize} \cup {BasicSize[b] : b \in {c \in Basics : BasicSize[c] > 0}}
ASSUME AlignmentsAssumption ==
  /\ "int" \in Basics /\ BasicSize["int"] > 0
  /\ \A a, b \in Alignments : a <= b => b % a = 0
ASSUME BoundsAssumption == MaxTypes \in Nat /\ MaxParameters \in Nat /\ MaxMembers \in Nat /\ ParameterLimit \in Nat /\ MemberLimit \in Nat

\* origins is no part of the program: the records and enumerations, by their own
\* places, that a type was made from by qualifying it.  crashed: a division by zero.
VARIABLES types, parameters, members, origins, crashed
vars == <<types, parameters, members, origins, crashed>>

Ids == 1 .. Len(types)
Records == {i \in Ids : types[i].kind \in {"struct", "union"}}
Complete(i) == types[i].complete
IsConst(t) == "const" \in t.qualifiers

\* size_t arithmetic wraps.
Wrapped(n) == n % (SizeMax + 1)

Slice(array, t) == [k \in 1 .. t.count |-> array[t.first + k]]

\* fcc_type_matches.  Two calls put equal parameters into different slices.
\* Mistaken form: the slices are not looked into.
MatchesBySlice(s, t, array) == s = t
Matches(s, t, array) ==
  IF s.kind = "function" /\ t.kind = "function"
  THEN /\ [s EXCEPT !.first = 0] = [t EXCEPT !.first = 0]
       /\ Slice(array, s) = Slice(array, t)
  ELSE s = t

\* The type t is looked for and appended if there is none.  array is what
\* parameters is by then, and from the records the type was made from.
Intern(t, array, from) ==
  LET found == {i \in Ids : Matches(types[i], t, array)}
  IN /\ ~crashed
     /\ parameters' = array
     /\ \/ \E i \in found :
             /\ \A j \in found : i <= j
             /\ origins' = [origins EXCEPT ![i] = @ \cup from]
             /\ UNCHANGED types
        \/ /\ found = {} /\ Len(types) < MaxTypes
           /\ types' = Append(types, t)
           /\ origins' = Append(origins, from)
     /\ UNCHANGED <<members, crashed>>

-----------------------------------------------------------------------------
(* Sizes *)

Extent(size, alignment) == [known |-> TRUE, size |-> size, alignment |-> alignment]
Unknown == [known |-> FALSE, size |-> 0, alignment |-> 1]
DividesByZero == [known |-> FALSE, size |-> -1, alignment |-> 1]

\* Mistaken form: the length is not compared, and the product may wrap.
ArrayExtentWrapping(t, element) ==
  IF t.unsized THEN Unknown
  ELSE IF ~element.known THEN element
  ELSE IF element.size = 0 THEN DividesByZero
  ELSE Extent(Wrapped(t.count * element.size), element.alignment)

\* The length is compared with SIZE_MAX divided by the size of an element.
ArrayExtent(t, element) ==
  IF t.unsized THEN Unknown
  ELSE IF ~element.known THEN element
  ELSE IF element.size = 0 THEN DividesByZero
  ELSE IF t.count > SizeMax \div element.size THEN Unknown
  ELSE Extent(Wrapped(t.count * element.size), element.alignment)

\* The extent of a type, where those of the types before it are given.
ExtentAmong(t, extents) ==
  CASE t.kind = "basic" /\ BasicSize[t.name] > 0 -> Extent(BasicSize[t.name], BasicSize[t.name])
    [] t.kind = "enum" -> Extent(BasicSize["int"], BasicSize["int"])
    [] t.kind = "pointer" -> Extent(PointerSize, PointerSize)
    [] t.kind = "array" -> ArrayExtent(t, extents[t.of])
    [] t.kind \in {"struct", "union"} /\ t.complete -> Extent(t.size, t.alignment)
    [] OTHER -> Unknown

\* fcc_type_size_of and fcc_type_alignment_of
ExtentsIn(table) ==
  LET extents[i \in 1 .. Len(table)] == ExtentAmong(table[i], extents)
  IN extents
ExtentOf == ExtentsIn(types)

\* fcc_type_is_complete, after fcc_type_is_object
IsObject[i \in Ids] ==
  LET t == types[i]
  IN CASE t.kind = "basic" -> BasicSize[t.name] > 0
       [] t.kind \in {"struct", "union"} -> t.complete
       [] t.kind = "array" -> ~t.unsized /\ IsObject[t.of]
       [] OTHER -> t.kind \in {"pointer", "enum"}

(* Layout *)

\* fcc_layout_align_up; -1: refused.  A place that is -1 already stays so.
\* Mistaken form: the sum may wrap.
AlignUpWrapping(n, alignment) ==
  IF n < 0 \/ n % alignment = 0 THEN n ELSE Wrapped(n + (alignment - (n % alignment)))
AlignUp(n, alignment) ==
  LET padding == alignment - (n % alignment)
  IN IF n < 0 \/ n % alignment = 0 THEN n
     ELSE IF n > SizeMax - padding THEN -1
     ELSE Wrapped(n + padding)
AddSize(n, size) == IF n < 0 \/ size > SizeMax - n THEN -1 ELSE Wrapped(n + size)

Largest(numbers) == CHOOSE n \in numbers : \A m \in numbers : m <= n

\* What a record with members of these extents gets: their offsets, its own extent.
\* How far each member reaches that is put behind the one before it.
Behind(extent, end) == AddSize(AlignUp(end, extent.alignment), extent.size)
Ends(extents) ==
  LET end[k \in 0 .. Len(extents)] ==
        IF k = 0 THEN 0 ELSE Behind(extents[k], end[k - 1])
  IN end

\* fcc_layout_compute_struct
StructLayout(extents) ==
  LET end == Ends(extents)
      alignment == Largest({extents[k].alignment : k \in DOMAIN extents})
  IN [offsets |-> [k \in DOMAIN extents |-> AlignUp(end[k - 1], extents[k].alignment)],
      size |-> AlignUp(end[Len(extents)], alignment), alignment |-> alignment]

\* fcc_layout_compute_union
UnionLayout(extents) ==
  LET alignment == Largest({extents[k].alignment : k \in DOMAIN extents})
  IN [offsets |-> [k \in DOMAIN extents |-> 0],
      size |-> AlignUp(Largest({extents[k].size : k \in DOMAIN extents}), alignment),
      alignment |-> alignment]
Layout(kind, extents) == IF kind = "struct" THEN StructLayout(extents) ELSE UnionLayout(extents)

-----------------------------------------------------------------------------
Init ==
  /\ types = << >> /\ parameters = << >> /\ members = << >> /\ origins = << >>
  /\ crashed = FALSE

Basic(name) == [kind |-> "basic", qualifiers |-> {}, name |-> name]
Pointer(i) == [kind |-> "pointer", qualifiers |-> {}, to |-> i]
Array(i, count, unsized) ==
  [kind |-> "array", qualifiers |-> {}, of |-> i, count |-> count, unsized |-> unsized]
Function(i, first, count) ==
  [kind |-> "function", qualifiers |-> {}, returns |-> i, first |-> first, count |-> count]
IncompleteRecord(kind, tag) ==
  [kind |-> kind, qualifiers |-> {}, tag |-> tag, first |-> 0, count |-> 0, size |-> 0,
   alignment |-> 1, complete |-> FALSE]
Enumeration(tag) == [kind |-> "enum", qualifiers |-> {}, tag |-> tag]

GetBuiltin(name) == Intern(Basic(name), parameters, {})

\* A copy of the type as it is now: of a record that is incomplete still, the copy
\* stays incomplete.
QualifyConst(i) == Intern([types[i] EXCEPT !.qualifiers = @ \cup {"const"}], parameters, origins[i])

GetPointer(i) == Intern(Pointer(i), parameters, {})

GetArray(i, count, unsized) ==
  Intern(Array(i, IF unsized THEN 0 ELSE count, unsized), parameters, {})

\* The parameters are stored before the type is looked for.
StoredParameters(ps) == parameters \o ps
GetFunction(i, ps) ==
  /\ Len(parameters) + Len(ps) <= MaxParameters
  /\ Intern(Function(i, Len(parameters), Len(ps)), StoredParameters(ps), {})

\* Records and enumerations are never looked for: each call makes one.
Create(t) ==
  /\ ~crashed
  /\ Len(types) < MaxTypes
  /\ types' = Append(types, t)
  /\ origins' = Append(origins, {Len(types) + 1})
  /\ UNCHANGED <<parameters, members, crashed>>
CreateRecord(kind, tag) == Create(IncompleteRecord(kind, tag))
CreateEnum(tag) == Create(Enumeration(tag))

\* Analysis asks for a definition of records it has made itself, once, with members
\* that are complete objects, at least one (fcc_sema_define_record_from_ast).
\* Mistaken form: not once.
MayDefineAgain(r, ms) == ~IsConst(types[r]) /\ ms # << >> /\ \A k \in DOMAIN ms : IsObject[ms[k]]
MayDefine(r, ms) ==
  /\ ~crashed
  /\ ~IsConst(types[r]) /\ ~Complete(r)
  /\ ms # << >> /\ \A k \in DOMAIN ms : IsObject[ms[k]]

\* The members go behind all others.
Completed(t, count, layout) ==
  [kind |-> t.kind, qualifiers |-> t.qualifiers, tag |-> t.tag, first |-> Len(members), count |-> count,
   size |-> layout.size, alignment |-> layout.alignment, complete |-> TRUE]

\* fcc_type_context_define_record
DefineRecord(r, ms) ==
  LET extents == [k \in DOMAIN ms |-> ExtentOf[ms[k]]]
      layout == Layout(types[r].kind, extents)
  IN /\ MayDefine(r, ms)
     /\ Len(members) + Len(ms) <= MaxMembers
     /\ \A k \in DOMAIN ms : extents[k].known
     /\ layout.size >= 0
     /\ members' = members \o [k \in DOMAIN ms |-> [type |-> ms[k], offset |-> layout.offsets[k]]]
     /\ types' = [types EXCEPT ![r] = Completed(types[r], Len(ms), layout)]
     /\ UNCHANGED <<parameters, origins, crashed>>

\* The size of an array of elements without size divides by zero.
Crash(r, ms) ==
  /\ MayDefine(r, ms)
  /\ \E k \in DOMAIN ms : ExtentOf[ms[k]] = DividesByZero
  /\ crashed' = TRUE
  /\ UNCHANGED <<types, parameters, members, origins>>

\* A call that has to grow an array returns without a type; what is left of it is at
\* most the parameters of a function.
AllocationFails(ps) ==
  /\ ~crashed
  /\ Len(parameters) + Len(ps) <= MaxParameters
  /\ parameters' = StoredParameters(ps)
  /\ UNCHANGED <<types, members, origins, crashed>>

Lists(ids, limit) == UNION {[1 .. n -> ids] : n \in 0 .. limit}
\* Parameters decay before a function type is made of them.
Values == {i \in Ids : types[i].kind # "array"}

Next ==
  \/ \E name \in Basics : GetBuiltin(name)
  \/ \E i \in {j \in Ids : types[j].kind # "function"} : QualifyConst(i)
  \/ \E i \in Ids : GetPointer(i)
  \/ \E i \in Ids, count \in Counts, unsized \in BOOLEAN : GetArray(i, count, unsized)
  \/ \E i \in Values, ps \in Lists(Values, ParameterLimit) : GetFunction(i, ps)
  \/ \E kind \in {"struct", "union"}, tag \in Tags : CreateRecord(kind, tag)
  \/ \E tag \in Tags : CreateEnum(tag)
  \/ \E r \in Records, ms \in Lists(Ids, MemberLimit) : DefineRecord(r, ms)
  \/ \E r \in Records, ms \in Lists(Ids, MemberLimit) : Crash(r, ms)
  \/ \E ps \in Lists(Values, ParameterLimit) : AllocationFails(ps)

Spec == Init /\ [][Next]_vars

-----------------------------------------------------------------------------
\* A type that is not a record or an enumeration itself, nor qualified from one.
IsCreated(i) == origins[i] = {i}

\* What a type says, wherever its parameters lie.
Spelled(t, array) ==
  IF t.kind = "function" THEN [t |-> [t EXCEPT !.first = 0], parameters |-> Slice(array, t)]
  ELSE [t |-> t, parameters |-> << >>]

\* Types are compared by their places everywhere else, so no type may have two: no
\* two entries say the same but those of records and enumerations created apart.
\* Neither the slices of parameters nor the records completed after they were looked
\* for may bring a second one about.
NoTypeTwice ==
  \A i, j \in Ids :
    i # j /\ Spelled(types[i], parameters) = Spelled(types[j], parameters) =>
      IsCreated(i) /\ IsCreated(j)

\* What a place stands for never changes, except that an incomplete record becomes
\* complete: the types, parameters and members that others name stay where they are.
TypesAreStable ==
  [][/\ Len(types') >= Len(types)
     /\ \A i \in Ids : types'[i] # types[i] => i \in Records /\ ~types[i].complete /\ IsCreated(i)
     /\ \A k \in DOMAIN parameters : k \in DOMAIN parameters' /\ parameters'[k] = parameters[k]
     /\ \A k \in DOMAIN members : k \in DOMAIN members' /\ members'[k] = members[k]]_vars

MembersOf(i) == Slice(members, types[i])

\* A record of count members at these offsets, of these extents, is laid out as the
\* Windows x64 ABI says: members of a struct at the next multiple of their alignment,
\* those of a union at 0, the end padded to the largest alignment.
LaidOut(kind, size, alignment, count, at, extents) ==
  LET end(k) == at[k] + extents[k].size
  IN /\ size % alignment = 0
     /\ \A k \in 1 .. count : alignment % extents[k].alignment = 0 /\ at[k] % extents[k].alignment = 0
     /\ \E k \in 1 .. count : alignment = extents[k].alignment
     /\ IF kind = "struct"
        THEN /\ at[1] = 0
             /\ \A k \in 2 .. count : at[k] - end(k - 1) \in 0 .. extents[k].alignment - 1
             /\ size - end(count) \in 0 .. alignment - 1
        ELSE /\ \A k \in 1 .. count : at[k] = 0 /\ end(k) <= size
             /\ \E k \in 1 .. count : size - end(k) < alignment

\* The room a type takes, with the lengths of arrays multiplied in the integers: what
\* an array should take, whatever the code computes for it.
RoomAmong(t, room) ==
  IF t.kind = "array" THEN Extent(t.count * room[t.of].size, room[t.of].alignment)
  ELSE ExtentAmong(t, room)
RoomsIn(table) ==
  LET room[i \in 1 .. Len(table)] == RoomAmong(table[i], room)
  IN room

\* Every complete record is laid out so for the room its members really take: no sum of
\* sizes, no padding and no product of lengths has wrapped on the way, at any nesting.
RecordsAreLaidOut ==
  \A i \in {r \in Records : Complete(r)} :
    LET t == types[i]
        ms == MembersOf(i)
    IN LaidOut(t.kind, t.size, t.alignment, Len(ms), [k \in DOMAIN ms |-> ms[k].offset],
               [k \in DOMAIN ms |-> RoomsIn(types)[ms[k].type]])

-----------------------------------------------------------------------------
(* Pointers to records (fcc_sema_pointer_types_are_compatible) *)

\* fcc_sema_unqualified_types_are_compatible, for records.
\* Mistaken form: by tag and number of members.
SameByTag(i, j) ==
  \/ i = j
  \/ /\ types[i].kind = types[j].kind /\ types[i].tag = types[j].tag
     /\ types[i].count = types[j].count
SameRecord(i, j) ==
  \/ i = j
  \/ /\ types[i].kind = types[j].kind /\ types[i].tag = types[j].tag
     /\ types[i].first = types[j].first /\ types[i].count = types[j].count
PointerMayBecome(target, value) ==
  /\ IsConst(types[value]) => IsConst(types[target])
  /\ SameRecord(target, value)

\* A copy made before its record was complete.
IsStale(i) == IsConst(types[i]) /\ ~types[i].complete /\ \E r \in origins[i] : types[r].complete

\* A pointer to a record may be assigned where a pointer to a record is wanted exactly
\* if it is the same record and no const is lost.  Analysis has no more to go by than
\* the tag and the slice of the members; the stale copies are a known difference.
RecordPointersAreAssignedAsC ==
  \A i, j \in {r \in Records : ~IsStale(r)} :
    Complete(i) \/ Complete(j) =>
      (PointerMayBecome(i, j) <=> origins[i] = origins[j] /\ (IsConst(types[j]) => IsConst(types[i])))
=============================================================================
