----------------------------- MODULE FccLinkProofs -----------------------------
(***************************************************************************)
(* Theorems about FccLink, for every set of objects and all sizes: neither *)
(* on the way in nor in the image do sections overlap; a linked image      *)
(* holds every section as the object had it, enters at main, and its       *)
(* references reach their symbols; and a link does to the files of its     *)
(* caller only what LinkPromise says.                                      *)
(***************************************************************************)
EXTENDS FccLink, SequenceTheorems, TLAPS

-----------------------------------------------------------------------------
(* The inductive invariant.                                                 *)

\* The object was accepted and its sections are being linked.
Linking == stage \in {"place", "main", "relocate", "write"}

\* What the steps up to the failing one, or all of them, leave behind.
StageInv ==
  /\ ok => stage \in {"cleanup", "done"}
  /\ item # 0
  /\ stage \in {"nasm", "read"} => section = 1 /\ out = [k \in Kinds |-> << >>]
  /\ stage \in {"nasm", "read", "place", "main", "relocate"} =>
       image = << >> /\ output = << >>
  /\ stage \notin {"nasm", "done"} => object_file = "whole" /\ object \in Objects
  /\ Linking \/ Written =>
       /\ object \in Objects /\ ~Malformed
       /\ Len(input_sections) = SectionCount
       /\ \A i \in 1..SectionCount :
            input_sections[i].output_kind = OutputKind(object.sections[i])

\* A cell copied from the object comes from inside it.
CellsInv ==
  Linking =>
    \A kind \in Kinds : \A k \in 1..Len(out[kind]) :
      out[kind][k].origin = "object" => out[kind][k].value \in 0..object.size - 1

\* Where section i ends in its output.
End(i) == input_sections[i].output_offset + VirtualSize(object.sections[i])

\* The sections follow one another in their outputs, each one aligned, and an
\* output with bytes has a section.
PlacesInv ==
  Linking =>
    /\ \A i \in PlacedSoFar :
         /\ input_sections[i].output_offset
              % Pad[input_sections[i].output_kind] = 0
         /\ End(i) <= Len(out[input_sections[i].output_kind])
         /\ \A j \in PlacedSoFar :
              i < j /\ input_sections[i].output_kind = input_sections[j].output_kind
                => End(i) <= input_sections[j].output_offset
    /\ \A kind \in Kinds :
         out[kind] # << >> =>
           \E i \in PlacedSoFar : input_sections[i].output_kind = kind

\* The addresses are those the layout computed from the final outputs.
AddressesInv ==
  stage \in {"main", "relocate", "write"} =>
    /\ out["text"] # << >>
    /\ text_rva = SectionAlignment /\ data_rva = DataRva
    /\ \A i \in 1..SectionCount :
         Placed(i) => input_sections[i].output_rva = OutputRva(i)

LayoutInv ==
  TypeOK /\ StageInv /\ CellsInv /\ PlacesInv /\ AddressesInv
    /\ ImageSectionsDoNotOverlap

\* Where the writer stands in the file before chunk n.
Before(n) ==
  IF n = 1 THEN 0
  ELSE IF n <= Len(image) + 1 THEN image[n - 1].raw_offset
  ELSE FileSize

\* The output with cells `from` is in the file, at the place the section table
\* gives it, as soon as its chunk is written.
InFile(a, from) ==
  item > a + 1 =>
    \A k \in 1..Len(from) : output[image[a].raw_offset + k] = from[k]

WriteInv ==
  /\ stage = "write" =>
       /\ image = SectionTable
       /\ item \in 1..Len(image) + 2
       /\ Len(output) = Before(item)
       /\ InFile(1, out["text"])
       /\ HasData => InFile(2, out["data"])
  /\ Written => image # << >> /\ Len(output) = FileSize

\* The search for main stands on a symbol; what it found stays.
MainInv ==
  /\ stage = "main" => item \in Nat \ {0} /\ IsSymbol(item)
  /\ stage \in {"relocate", "write"} \/ Written =>
       \E i \in 1..Len(object.symbols) :
         /\ IsSymbol(i) /\ Candidate(object.symbols[i])
         /\ object.symbols[i].name = "main"
         /\ entry_rva = SymbolRva(i - 1)

\* Relocation n of section i has been applied.
Applied(i, n) ==
  \/ stage = "write"
  \/ stage = "relocate" /\ (i < section \/ (i = section /\ n < item))

InAppliedField(i, k) ==
  \E n \in 1..Len(Relocations(i)) :
    /\ Applied(i, n)
    /\ k \in Relocations(i)[n].at ..
               Relocations(i)[n].at + FieldSize(Relocations(i)[n]) - 1

\* The cell of section i at offset k before any relocation.
Original(i, k) ==
  LET s == object.sections[i]
  IN  IF k < s.raw_size THEN FromObject(s.raw_offset + k) ELSE Zero

CellOf(i, k) ==
  out[input_sections[i].output_kind][input_sections[i].output_offset + k + 1]

\* The fields of a section lie inside it, as NASM writes them.
FieldsStayInside(o) ==
  \A i \in 1..Len(o.sections) :
    \A n \in 1..Len(o.sections[i].relocations) :
      LET r == o.sections[i].relocations[n]
      IN  r.at + FieldSize(r) <= VirtualSize(o.sections[i])

ContentsInv ==
  Linking /\ FieldsStayInside(object) =>
    \A i \in PlacedSoFar : \A k \in 0..VirtualSize(object.sections[i]) - 1 :
      IF InAppliedField(i, k) THEN CellOf(i, k).origin = "patch"
      ELSE CellOf(i, k) = Original(i, k)

\* The fields of a section lie in its raw data, and no two of them overlap.
FieldsAreApart(o) ==
  \A i \in 1..Len(o.sections) :
    \A n \in 1..Len(o.sections[i].relocations) :
      LET s == o.sections[i]
          r == s.relocations[n]
      IN  /\ r.at + FieldSize(r) <= s.raw_size
          /\ \A m \in 1..Len(s.relocations) \ {n} :
               Disjoint(r.at, FieldSize(r), s.relocations[m].at,
                        FieldSize(s.relocations[m]))

\* What relocation n of section i writes when its addend is the object's.
Meant(i, n) ==
  LET r == Relocations(i)[n]
  IN  Value(i, r, object.words[object.sections[i].raw_offset + r.at])

ReferencesInv ==
  Linking /\ FieldsAreApart(object) =>
    \A i \in PlacedSoFar : \A n \in 1..Len(Relocations(i)) :
      Applied(i, n) =>
        /\ Resolves(Relocations(i)[n].symbol)
        /\ CellOf(i, Relocations(i)[n].at) = Patch(Meant(i, n))

-----------------------------------------------------------------------------
(* Alignment.                                                               *)

\* A number is a multiple of a divisor plus its remainder.
LEMMA Division ==
  ASSUME NEW v \in Nat, NEW a \in Nat \ {0}
  PROVE  \E q \in Nat : v = (a * q) + (v % a) /\ v % a \in 0..a-1
<1>1. /\ v % a \in 0..a-1 /\ v = (a * (v \div a)) + (v % a) /\ v \div a \in Nat
  BY Z3
<1>. QED  BY <1>1

\* A multiple of an alignment is aligned.
LEMMA MultipleIsAligned ==
  ASSUME NEW q \in Nat, NEW a \in Nat \ {0}
  PROVE  (a * q) % a = 0
BY Z3

\* fcc_link_align_up_size (fcc_link.c) gives the next multiple of the alignment.
LEMMA AlignUpIsNext ==
  ASSUME NEW v \in Nat, NEW a \in Nat \ {0}
  PROVE  /\ AlignUp(v, a) \in Nat /\ AlignUp(v, a) % a = 0
         /\ v <= AlignUp(v, a) /\ AlignUp(v, a) < v + a
<1>1. CASE v % a = 0
  BY <1>1 DEF AlignUp
<1>2. CASE v % a # 0
  <2>1. PICK q \in Nat : v = (a * q) + (v % a) /\ v % a \in 0..a-1
    BY Division
  <2>2. AlignUp(v, a) = v + (a - (v % a)) /\ v % a \in 1..a-1
    BY <1>2, <2>1 DEF AlignUp
  <2>3. AlignUp(v, a) = a * (q + 1)
    <3>1. a * (q + 1) = (a * q) + a
      OBVIOUS
    <3>2. a * q \in Nat
      OBVIOUS
    <3>. QED  BY <2>1, <2>2, <3>1, <3>2
  <2>4. AlignUp(v, a) % a = 0
    <3>. q + 1 \in Nat
      OBVIOUS
    <3>. QED  BY <2>3, MultipleIsAligned
  <2>. QED  BY <2>2, <2>4
<1>. QED  BY <1>1, <1>2

\* Aligned numbers have an aligned sum.
LEMMA AlignedSum ==
  ASSUME NEW v \in Nat, NEW w \in Nat, NEW a \in Nat \ {0}, v % a = 0, w % a = 0
  PROVE  (v + w) % a = 0
<1>1. PICK q \in Nat : v = (a * q) + (v % a)
  BY Division
<1>2. PICK p \in Nat : w = (a * p) + (w % a)
  BY Division
<1>3. v + w = a * (q + p)
  <2>1. a * (q + p) = (a * q) + (a * p) /\ a * q \in Nat /\ a * p \in Nat
    OBVIOUS
  <2>. QED  BY <1>1, <1>2, <2>1
<1>. QED
  <2>. q + p \in Nat
    OBVIOUS
  <2>. QED  BY <1>3, MultipleIsAligned

-----------------------------------------------------------------------------
(* Types of what the linker reads and builds.                               *)

\* Every object has the parts IsObject names.
LEMMA ObjectsAreObjects ==
  ASSUME object \in Objects
  PROVE  /\ object.sections \in Seq(InputSection) /\ object.symbols \in Seq(Symbol)
         /\ object.size \in Nat
         /\ \A k \in 0..object.size - 1 : object.words[k] \in Int
         /\ SectionCount \in Nat
         /\ \A i \in 1..SectionCount : object.sections[i] \in InputSection
         /\ \A i \in 1..Len(object.symbols) : object.symbols[i] \in Symbol
BY ObjectsAssumption DEF IsObject, SectionCount

\* The virtual size of a section is never below its raw size.
LEMMA SizesOfSection ==
  ASSUME NEW s \in InputSection
  PROVE  /\ s.raw_size \in Nat /\ s.raw_offset \in Nat /\ VirtualSize(s) \in Nat
         /\ s.raw_size <= VirtualSize(s)
         /\ OutputKind(s) \in Kinds \cup {"ignored"}
BY DEF InputSection, VirtualSize, Largest, OutputKind, Kinds

\* A function over the first n numbers is a sequence.
LEMMA FunctionIsSequence ==
  ASSUME NEW S, NEW n \in Nat, NEW f \in [1..n -> S]
  PROVE  f \in Seq(S) /\ Len(f) = n
OBVIOUS

\* A concatenation holds the first sequence, then the second.
LEMMA Joined ==
  ASSUME NEW S, NEW a \in Seq(S), NEW b \in Seq(S)
  PROVE  /\ a \o b \in Seq(S) /\ Len(a \o b) = Len(a) + Len(b)
         /\ \A k \in 1..Len(a) : (a \o b)[k] = a[k]
         /\ \A k \in 1..Len(b) : (a \o b)[Len(a) + k] = b[k]
BY ConcatProperties

\* What a section adds to its output: zeros up to the alignment, its raw data,
\* and zeros up to its virtual size.
LEMMA ContributionIs ==
  ASSUME NEW s \in InputSection, OutputKind(s) \in Kinds, NEW used \in Nat,
         NEW from, from = AlignUp(used, Pad[OutputKind(s)])
  PROVE  /\ from \in Nat /\ used <= from /\ from % Pad[OutputKind(s)] = 0
         /\ Contribution(s, used) \in Seq(Cell)
         /\ Len(Contribution(s, used)) = (from - used) + VirtualSize(s)
         /\ \A k \in 0..VirtualSize(s) - 1 :
              Contribution(s, used)[(from - used) + k + 1]
                = IF k < s.raw_size THEN FromObject(s.raw_offset + k) ELSE Zero
         /\ \A k \in 1..Len(Contribution(s, used)) :
              Contribution(s, used)[k].origin = "object" =>
                Contribution(s, used)[k].value
                  \in s.raw_offset .. s.raw_offset + s.raw_size - 1
<1>1. Pad[OutputKind(s)] \in Nat \ {0}
  BY SizesAssumption
<1>2. from \in Nat /\ used <= from /\ from % Pad[OutputKind(s)] = 0
  BY <1>1, AlignUpIsNext
<1>. DEFINE gap == from - used
            raw == [k \in 1..s.raw_size |-> FromObject(s.raw_offset + k - 1)]
            pad == Fill(gap, Zero)
            rest == Fill(VirtualSize(s) - s.raw_size, Zero)
<1>3. gap \in Nat /\ s.raw_size \in Nat /\ s.raw_offset \in Nat
      /\ VirtualSize(s) - s.raw_size \in Nat /\ VirtualSize(s) \in Nat
  BY <1>2, SizesOfSection
<1>4. Zero \in Cell /\ \A k \in Nat : FromObject(k) \in Cell
  BY DEF Zero, FromObject, Cell
<1>5. pad \in Seq(Cell) /\ Len(pad) = gap /\ \A k \in 1..gap : pad[k] = Zero
  BY <1>3, <1>4 DEF Fill
<1>6. /\ raw \in Seq(Cell) /\ Len(raw) = s.raw_size
      /\ \A k \in 1..s.raw_size : raw[k] = FromObject(s.raw_offset + k - 1)
  <2>1. \A k \in 1..s.raw_size : s.raw_offset + k - 1 \in Nat
    BY <1>3
  <2>2. raw \in [1..s.raw_size -> Cell]
    BY <1>4, <2>1
  <2>3. raw \in Seq(Cell) /\ Len(raw) = s.raw_size
    BY <1>3, <2>2, FunctionIsSequence
  <2>. QED  BY <2>3
<1>7. /\ rest \in Seq(Cell) /\ Len(rest) = VirtualSize(s) - s.raw_size
      /\ \A k \in 1..VirtualSize(s) - s.raw_size : rest[k] = Zero
  BY <1>3, <1>4 DEF Fill
<1>8. Contribution(s, used) = (pad \o raw) \o rest
  BY DEF Contribution
<1>. HIDE DEF gap, raw, pad, rest
<1>9. /\ pad \o raw \in Seq(Cell) /\ Len(pad \o raw) = gap + s.raw_size
      /\ \A k \in 1..gap : (pad \o raw)[k] = Zero
      /\ \A k \in 1..s.raw_size :
           (pad \o raw)[gap + k] = FromObject(s.raw_offset + k - 1)
  <2>1. /\ pad \o raw \in Seq(Cell) /\ Len(pad \o raw) = Len(pad) + Len(raw)
        /\ \A k \in 1..Len(pad) : (pad \o raw)[k] = pad[k]
        /\ \A k \in 1..Len(raw) : (pad \o raw)[Len(pad) + k] = raw[k]
    <3>1. pad \in Seq(Cell) /\ raw \in Seq(Cell)
      BY <1>5, <1>6
    <3>. QED  BY <3>1, Joined
  <2>. QED  BY <1>5, <1>6, <2>1
<1>10. /\ Contribution(s, used) \in Seq(Cell)
       /\ Len(Contribution(s, used)) = gap + VirtualSize(s)
       /\ \A k \in 1..gap : Contribution(s, used)[k] = Zero
       /\ \A k \in 1..s.raw_size :
            Contribution(s, used)[gap + k] = FromObject(s.raw_offset + k - 1)
       /\ \A k \in 1..VirtualSize(s) - s.raw_size :
            Contribution(s, used)[(gap + s.raw_size) + k] = Zero
  <2>. DEFINE both == pad \o raw
  <2>1. both \in Seq(Cell)
    BY <1>9
  <2>2. Len(both) = gap + s.raw_size /\ Len(rest) = VirtualSize(s) - s.raw_size
    BY <1>7, <1>9
  <2>3. /\ \A k \in 1..gap : both[k] = Zero
        /\ \A k \in 1..s.raw_size : both[gap + k] = FromObject(s.raw_offset + k - 1)
    BY <1>9
  <2>4. Contribution(s, used) = both \o rest
    BY <1>8
  <2>. HIDE DEF both
  <2>5. /\ both \o rest \in Seq(Cell) /\ Len(both \o rest) = Len(both) + Len(rest)
        /\ \A k \in 1..Len(both) : (both \o rest)[k] = both[k]
        /\ \A k \in 1..Len(rest) : (both \o rest)[Len(both) + k] = rest[k]
    BY <1>7, <2>1, Joined
  <2>6. /\ \A k \in 1..gap : k \in 1..gap + s.raw_size
        /\ \A k \in 1..s.raw_size : gap + k \in 1..gap + s.raw_size
        /\ (gap + s.raw_size) + (VirtualSize(s) - s.raw_size) = gap + VirtualSize(s)
    BY <1>3
  <2>7. \A k \in 1..VirtualSize(s) - s.raw_size :
          (both \o rest)[(gap + s.raw_size) + k] = Zero
    BY <1>7, <2>2, <2>5
  <2>8. /\ \A k \in 1..gap : (both \o rest)[k] = Zero
        /\ \A k \in 1..s.raw_size :
             (both \o rest)[gap + k] = FromObject(s.raw_offset + k - 1)
    BY <2>2, <2>3, <2>5, <2>6
  <2>. QED  BY <2>2, <2>4, <2>5, <2>6, <2>7, <2>8
<1>11. \A k \in 0..VirtualSize(s) - 1 :
         Contribution(s, used)[gap + k + 1]
           = IF k < s.raw_size THEN FromObject(s.raw_offset + k) ELSE Zero
  <2>. SUFFICES ASSUME NEW k \in 0..VirtualSize(s) - 1
                PROVE  Contribution(s, used)[gap + k + 1]
                         = IF k < s.raw_size THEN FromObject(s.raw_offset + k) ELSE Zero
    OBVIOUS
  <2>1. CASE k < s.raw_size
    <3>1. k + 1 \in 1..s.raw_size /\ gap + k + 1 = gap + (k + 1)
          /\ s.raw_offset + (k + 1) - 1 = s.raw_offset + k
      BY <1>3, <2>1
    <3>2. Contribution(s, used)[gap + (k + 1)] = FromObject(s.raw_offset + (k + 1) - 1)
      BY <1>10, <3>1
    <3>. QED  BY <2>1, <3>1, <3>2
  <2>2. CASE ~(k < s.raw_size)
    <3>1. /\ k + 1 - s.raw_size \in 1..VirtualSize(s) - s.raw_size
          /\ gap + k + 1 = (gap + s.raw_size) + (k + 1 - s.raw_size)
      BY <1>3, <2>2
    <3>. QED  BY <1>10, <2>2, <3>1
  <2>. QED  BY <2>1, <2>2
<1>12. \A k \in 1..Len(Contribution(s, used)) :
         Contribution(s, used)[k].origin = "object" =>
           Contribution(s, used)[k].value
             \in s.raw_offset .. s.raw_offset + s.raw_size - 1
  <2>. SUFFICES ASSUME NEW k \in 1..gap + VirtualSize(s),
                       Contribution(s, used)[k].origin = "object"
                PROVE  Contribution(s, used)[k].value
                         \in s.raw_offset .. s.raw_offset + s.raw_size - 1
    BY <1>10
  <2>1. Contribution(s, used)[k] # Zero
    BY DEF Zero
  <2>2. ~(k \in 1..gap)
    BY <1>10, <2>1
  <2>3. k - gap - 1 \in 0..VirtualSize(s) - 1 /\ k = gap + (k - gap - 1) + 1
    BY <1>3, <2>2
  <2>4. /\ k - gap - 1 < s.raw_size
        /\ Contribution(s, used)[k] = FromObject(s.raw_offset + (k - gap - 1))
    BY <1>11, <2>1, <2>3
  <2>5. Contribution(s, used)[k].value = s.raw_offset + (k - gap - 1)
    BY <2>4 DEF FromObject
  <2>. QED  BY <1>3, <2>3, <2>4, <2>5
<1>. QED  BY <1>2, <1>10, <1>11, <1>12 DEF gap

-----------------------------------------------------------------------------
(* The layout: initially, and after every step.                            *)

\* A link starts with nothing.
LEMMA LayoutInit == Init => LayoutInv
<1>. SUFFICES ASSUME Init PROVE LayoutInv
  OBVIOUS
<1>1. object.sections = << >> /\ SectionCount = 0
  BY DEF Init, NoObject, SectionCount
<1>2. TypeOK
  <2>1. out \in [Kinds -> Seq(Cell)]
    BY DEF Init
  <2>2. section \in 1..SectionCount + 1 /\ item \in Nat
    BY <1>1 DEF Init
  <2>3. text_rva \in 0..MaxRva /\ data_rva \in 0..MaxRva /\ entry_rva \in 0..MaxRva
    BY SizesAssumption DEF Init
  <2>4. \A S : input_sections \in Seq(S) /\ image \in Seq(S) /\ output \in Seq(S)
    BY DEF Init
  <2>5. /\ stage = "nasm" /\ ok \in BOOLEAN /\ delete_object \in BOOLEAN
        /\ object_file = "absent" /\ object = NoObject
    BY DEF Init
  <2>. QED  BY <2>1, <2>2, <2>3, <2>4, <2>5 DEF TypeOK
<1>3. StageInv
  BY DEF Init, StageInv, Linking, Written
<1>4. CellsInv /\ PlacesInv /\ AddressesInv /\ ImageSectionsDoNotOverlap
  BY DEF Init, CellsInv, PlacesInv, AddressesInv, Linking, ImageSectionsDoNotOverlap
<1>. QED  BY <1>2, <1>3, <1>4 DEF LayoutInv

\* Every failure after NASM abandons the link: nothing but the stage changes.
Abandoned ==
  /\ stage \notin {"nasm", "cleanup", "done"}
  /\ Abandon
  /\ UNCHANGED <<delete_object, object_file, object, linked, section, item,
                 image, output>>

LEMMA LayoutAbandoned ==
  ASSUME LayoutInv, Abandoned
  PROVE  LayoutInv'
<1>. USE DEF LayoutInv, Abandoned, Abandon, linked
<1>1. TypeOK'
  BY DEF TypeOK, SectionCount
<1>2. StageInv'
  BY DEF StageInv, TypeOK, Linking, Written
<1>3. CellsInv' /\ PlacesInv' /\ AddressesInv'
  BY DEF CellsInv, PlacesInv, AddressesInv, Linking
<1>4. ImageSectionsDoNotOverlap'
  BY DEF ImageSectionsDoNotOverlap
<1>. QED  BY <1>1, <1>2, <1>3, <1>4

\* NASM ran or failed.
LEMMA LayoutNasm ==
  ASSUME LayoutInv, RunNasm \/ NasmFails
  PROVE  LayoutInv'
<1>1. stage = "nasm" /\ ok = FALSE /\ section = 1 /\ ok' = FALSE
  BY DEF LayoutInv, TypeOK, StageInv, RunNasm, NasmFails
<1>2. SectionCount' \in Nat
  <2>1. CASE RunNasm
    BY <2>1, ObjectsAssumption DEF RunNasm, IsObject, SectionCount
  <2>2. CASE NasmFails
    BY <2>2, ObjectsAssumption
    DEF LayoutInv, NasmFails, TypeOK, IsObject, SectionCount, NoObject
  <2>. QED  BY <2>1, <2>2
<1>3. TypeOK'
  <2>1. section' \in 1..SectionCount' + 1
    BY <1>1, <1>2 DEF RunNasm, NasmFails
  <2>2. CASE RunNasm
    BY <1>1, <2>1, <2>2 DEF LayoutInv, TypeOK, RunNasm, Primary, linked
  <2>3. CASE NasmFails
    BY <1>1, <2>1, <2>3 DEF LayoutInv, TypeOK, NasmFails, linked
  <2>. QED  BY <2>2, <2>3
<1>4. StageInv'
  <2>1. CASE RunNasm
    BY <1>1, <2>1 DEF LayoutInv, StageInv, RunNasm, Primary, linked, Linking, Written
  <2>2. CASE NasmFails
    BY <1>1, <2>2 DEF LayoutInv, StageInv, NasmFails, linked, Linking, Written
  <2>. QED  BY <2>1, <2>2
<1>5. CellsInv' /\ PlacesInv' /\ AddressesInv'
  BY DEF RunNasm, NasmFails, Primary, CellsInv, PlacesInv, AddressesInv, Linking
<1>6. ImageSectionsDoNotOverlap'
  BY DEF LayoutInv, RunNasm, NasmFails, ImageSectionsDoNotOverlap
<1>. QED  BY <1>3, <1>4, <1>5, <1>6 DEF LayoutInv

\* The sections of the object are accepted; none has its place yet.
LEMMA LayoutRead ==
  ASSUME LayoutInv, InitializeInputSections
  PROVE  LayoutInv'
<1>. USE DEF LayoutInv, InitializeInputSections, Primary
<1>1. object \in Objects /\ ~Malformed /\ stage = "read" /\ stage' = "place"
  BY DEF StageInv
<1>2. /\ SectionCount \in Nat
      /\ \A i \in 1..SectionCount : object.sections[i] \in InputSection
  BY <1>1, ObjectsAreObjects
<1>3. \A i \in 1..SectionCount : OutputKind(object.sections[i]) \in Kinds \cup {"ignored"}
  BY <1>2, SizesOfSection
<1>. DEFINE Placing == [output_kind : Kinds \cup {"ignored"},
                        output_offset : Nat, output_rva : 0..MaxRva]
            first == [i \in 1..SectionCount |->
                        [output_kind |-> OutputKind(object.sections[i]),
                         output_offset |-> 0, output_rva |-> 0]]
<1>4. input_sections' \in Seq(Placing) /\ Len(input_sections') = SectionCount
  <2>1. first \in [1..SectionCount -> Placing]
    BY <1>3, SizesAssumption
  <2>. QED  BY <1>2, <2>1, FunctionIsSequence
<1>5. TypeOK'
  BY <1>2, <1>4 DEF TypeOK, SectionCount
<1>6. StageInv'
  BY <1>1, <1>2, <1>4 DEF StageInv, TypeOK, Linking, Written, SectionCount, Malformed
<1>7. PlacedSoFar' = {}
  BY <1>1, <1>2, <1>4 DEF PlacedSoFar
<1>8. \A kind \in Kinds : out'[kind] = << >>
  BY <1>1 DEF StageInv
<1>9. CellsInv' /\ PlacesInv' /\ AddressesInv'
  BY <1>1, <1>7, <1>8 DEF CellsInv, PlacesInv, AddressesInv
<1>10. ImageSectionsDoNotOverlap'
  BY DEF ImageSectionsDoNotOverlap
<1>. QED  BY <1>5, <1>6, <1>9, <1>10

\* Where a section goes.
Placements ==
  [output_kind : Kinds \cup {"ignored"}, output_offset : Nat, output_rva : 0..MaxRva]

\* Every placed section is in one of the outputs and has a size.
LEMMA PlacedFacts ==
  ASSUME TypeOK, StageInv, Linking, NEW i \in 1..SectionCount
  PROVE  /\ object.sections[i] \in InputSection
         /\ VirtualSize(object.sections[i]) \in Nat
         /\ input_sections[i] \in Placements
         /\ Placed(i) <=> OutputKind(object.sections[i]) \in Kinds
         /\ i \in 1..Len(input_sections)
<1>1. object \in Objects /\ Len(input_sections) = SectionCount
  BY DEF StageInv
<1>2. object.sections[i] \in InputSection
  BY <1>1, ObjectsAreObjects
<1>3. VirtualSize(object.sections[i]) \in Nat
  BY <1>2, SizesOfSection
<1>4. i \in 1..Len(input_sections)
  BY <1>1
<1>5. input_sections[i] \in Placements
  <2>1. input_sections \in Seq(Placements)
    BY DEF TypeOK, Placements
  <2>. QED  BY <1>4, <2>1
<1>6. Placed(i) <=> OutputKind(object.sections[i]) \in Kinds
  BY DEF StageInv, Placed
<1>. QED  BY <1>2, <1>3, <1>4, <1>5, <1>6

\* The section in turn, its output, the cells of that output, and where the
\* section begins in it.
Current == object.sections[section]
Kind == input_sections[section].output_kind
Used == Len(out[Kind])
From == AlignUp(Used, Pad[Kind])

\* The step that places a section: its cells go to the end of its output, after
\* the zeros that align it, and nothing else moves.
LEMMA PlaceFacts ==
  ASSUME LayoutInv, PlaceSection, Placed(section)
  PROVE  /\ Current \in InputSection /\ Kind \in Kinds /\ VirtualSize(Current) \in Nat
         /\ out[Kind] \in Seq(Cell) /\ Used \in Nat
         /\ From \in Nat /\ Used <= From /\ From % Pad[Kind] = 0
         /\ out' \in [Kinds -> Seq(Cell)]
         /\ Len(out'[Kind]) = From + VirtualSize(Current)
         /\ \A k \in 1..Used : out'[Kind][k] = out[Kind][k]
         /\ \A k \in Used + 1 .. Len(out'[Kind]) :
              out'[Kind][k].origin = "object" =>
                out'[Kind][k].value \in 0..object.size - 1
         /\ \A k \in 0..VirtualSize(Current) - 1 :
              out'[Kind][From + (k + 1)]
                = IF k < Current.raw_size THEN FromObject(Current.raw_offset + k) ELSE Zero
         /\ \A other \in Kinds \ {Kind} : out'[other] = out[other]
         /\ Len(input_sections') = Len(input_sections)
         /\ \A i \in 1..SectionCount \ {section} : input_sections'[i] = input_sections[i]
         /\ input_sections'[section].output_offset = From
         /\ \A i \in 1..SectionCount :
              input_sections'[i].output_kind = input_sections[i].output_kind
         /\ input_sections' \in Seq(Placements)
         /\ PlacedSoFar' = PlacedSoFar \cup {section}
         /\ PlacedSoFar \subseteq 1..section - 1
         /\ \A i \in PlacedSoFar : i \in 1..SectionCount \ {section} /\ Placed(i)
<1>. DEFINE more == Contribution(Current, Used)
<1>1. /\ TypeOK /\ StageInv /\ CellsInv /\ PlacesInv /\ stage = "place" /\ Linking
      /\ object \in Objects /\ ~Malformed /\ SectionCount \in Nat
      /\ section \in 1..SectionCount /\ Len(input_sections) = SectionCount
  <2>1. TypeOK /\ StageInv /\ CellsInv /\ PlacesInv /\ stage = "place" /\ Linking
    BY DEF LayoutInv, PlaceSection, Linking
  <2>2. object \in Objects /\ ~Malformed /\ Len(input_sections) = SectionCount
    BY <2>1 DEF StageInv
  <2>3. SectionCount \in Nat
    BY <2>2, ObjectsAreObjects
  <2>. QED  BY <2>1, <2>2, <2>3 DEF TypeOK, PlaceSection
<1>2. /\ UNCHANGED <<stage, ok, delete_object, object_file, object, text_rva,
                     data_rva, entry_rva, item, image, output>>
      /\ section' = section + 1 /\ SectionCount' = SectionCount
  BY DEF PlaceSection, SectionCount
<1>3. /\ out' = [out EXCEPT ![Kind] = @ \o more]
      /\ input_sections' = [input_sections EXCEPT ![section].output_offset = From]
  BY DEF PlaceSection, Current, Kind, Used, From
<1>4. /\ Kind \in Kinds /\ Kind = OutputKind(Current) /\ Current \in InputSection
      /\ out[Kind] \in Seq(Cell) /\ Used \in Nat
  BY <1>1, PlacedFacts, SMTT(30) DEF Placed, StageInv, TypeOK, Current, Kind, Used
<1>5. /\ From \in Nat /\ Used <= From /\ From % Pad[Kind] = 0
      /\ more \in Seq(Cell) /\ Len(more) = (From - Used) + VirtualSize(Current)
      /\ \A k \in 1..Len(more) : more[k].origin = "object" =>
           more[k].value \in Current.raw_offset .. Current.raw_offset + Current.raw_size - 1
      /\ \A k \in 0..VirtualSize(Current) - 1 :
           more[(From - Used) + k + 1]
             = IF k < Current.raw_size THEN FromObject(Current.raw_offset + k) ELSE Zero
  <2>1. From = AlignUp(Used, Pad[OutputKind(Current)]) /\ OutputKind(Current) \in Kinds
    BY <1>4 DEF From
  <2>2. more = Contribution(Current, Used) /\ Current \in InputSection /\ Used \in Nat
    BY <1>4
  <2>3. Kind = OutputKind(Current)
    BY <1>4
  <2>. HIDE DEF more
  <2>. QED  BY <2>1, <2>2, <2>3, ContributionIs
<1>6. /\ Current.raw_size \in Nat /\ Current.raw_offset \in Nat /\ VirtualSize(Current) \in Nat
      /\ object.size \in Nat
      /\ Current.raw_size > 0 => Current.raw_offset + Current.raw_size <= object.size
  <2>1. /\ Current.raw_size \in Nat /\ Current.raw_offset \in Nat
        /\ VirtualSize(Current) \in Nat /\ object.size \in Nat
    BY <1>1, <1>4, SizesOfSection, ObjectsAreObjects
  <2>2. Current.raw_size > 0 => ~(Current.raw_offset + Current.raw_size > object.size)
    BY <1>1 DEF Malformed, Current
  <2>. QED  BY <2>1, <2>2
<1>. HIDE DEF more
<1>7. /\ out' \in [Kinds -> Seq(Cell)]
      /\ Len(out'[Kind]) = From + VirtualSize(Current)
      /\ \A k \in 1..Used : out'[Kind][k] = out[Kind][k]
      /\ \A k \in 1..Len(more) : out'[Kind][Used + k] = more[k]
      /\ \A other \in Kinds \ {Kind} : out'[other] = out[other]
  <2>1. out \in [Kinds -> Seq(Cell)]
    BY <1>1 DEF TypeOK
  <2>2. out'[Kind] = out[Kind] \o more /\ out' \in [Kinds -> Seq(Cell)]
        /\ \A other \in Kinds \ {Kind} : out'[other] = out[other]
    <3>1. out[Kind] \o more \in Seq(Cell)
      BY <1>4, <1>5, Joined
    <3>. QED  BY <1>3, <1>4, <2>1, <3>1
  <2>3. /\ Len(out[Kind] \o more) = Used + Len(more)
        /\ \A k \in 1..Used : (out[Kind] \o more)[k] = out[Kind][k]
        /\ \A k \in 1..Len(more) : (out[Kind] \o more)[Used + k] = more[k]
    <3>1. Used = Len(out[Kind]) /\ out[Kind] \in Seq(Cell) /\ more \in Seq(Cell)
      BY <1>4, <1>5 DEF Used
    <3>. QED  BY <3>1, Joined
  <2>. QED  BY <1>4, <1>5, <1>6, <2>2, <2>3, SMTT(30) DEF Used
<1>8. /\ Len(input_sections') = Len(input_sections)
      /\ \A i \in 1..SectionCount \ {section} : input_sections'[i] = input_sections[i]
      /\ input_sections'[section].output_offset = From
      /\ \A i \in 1..SectionCount :
           input_sections'[i].output_kind = input_sections[i].output_kind
      /\ input_sections' \in Seq(Placements)
  <2>. DEFINE moved == [input_sections[section] EXCEPT !.output_offset = From]
  <2>1. input_sections \in Seq(Placements)
    BY <1>1 DEF TypeOK, Placements
  <2>2. input_sections[section] \in Placements
    BY <1>1, PlacedFacts
  <2>3. /\ moved \in Placements /\ moved.output_offset = From
        /\ moved.output_kind = input_sections[section].output_kind
    BY <1>5, <2>2 DEF Placements
  <2>4. input_sections' = [input_sections EXCEPT ![section] = moved]
    BY <1>3
  <2>. HIDE DEF moved
  <2>5. /\ input_sections' \in Seq(Placements)
        /\ Len(input_sections') = Len(input_sections)
    BY <1>1, <2>1, <2>3, <2>4
  <2>6. /\ input_sections'[section] = moved
        /\ \A i \in 1..SectionCount \ {section} : input_sections'[i] = input_sections[i]
    BY <1>1, <2>1, <2>4
  <2>. QED  BY <2>3, <2>5, <2>6
<1>9. /\ PlacedSoFar' = PlacedSoFar \cup {section}
      /\ PlacedSoFar \subseteq 1..section - 1
      /\ \A i \in PlacedSoFar : i \in 1..SectionCount \ {section} /\ Placed(i)
  <2>1. \A i \in 1..SectionCount : Placed(i)' <=> Placed(i)
    BY <1>8 DEF Placed
  <2>2. PlacedSoFar' = {i \in 1..SectionCount : Placed(i) /\ i < section + 1}
    BY <1>1, <1>2, <1>8, <2>1 DEF PlacedSoFar
  <2>3. PlacedSoFar = {i \in 1..SectionCount : Placed(i) /\ i < section}
    BY <1>1 DEF PlacedSoFar
  <2>. QED  BY <1>1, <2>2, <2>3
<1>10. \A k \in Used + 1 .. Len(out'[Kind]) :
         out'[Kind][k].origin = "object" => out'[Kind][k].value \in 0..object.size - 1
  <2>. SUFFICES ASSUME NEW k \in Used + 1 .. Len(out'[Kind]),
                       out'[Kind][k].origin = "object"
                PROVE  out'[Kind][k].value \in 0..object.size - 1
    OBVIOUS
  <2>1. k - Used \in 1..Len(more) /\ Used + (k - Used) = k
    BY <1>4, <1>5, <1>6, <1>7
  <2>2. more[k - Used].origin = "object" /\ more[k - Used] = out'[Kind][k]
    BY <1>7, <2>1
  <2>3. out'[Kind][k].value \in Current.raw_offset .. Current.raw_offset + Current.raw_size - 1
    BY <1>5, <2>1, <2>2
  <2>4. out'[Kind][k].value \in Nat /\ Current.raw_size > 0
        /\ out'[Kind][k].value <= Current.raw_offset + Current.raw_size - 1
    BY <1>6, <2>3
  <2>5. object.size \in Nat /\ Current.raw_offset + Current.raw_size <= object.size
        /\ Current.raw_offset + Current.raw_size \in Nat
    BY <1>6, <2>4
  <2>. DEFINE value == out'[Kind][k].value
              offset == Current.raw_offset
              size == Current.raw_size
  <2>6. /\ value \in offset .. offset + size - 1
        /\ offset \in Nat /\ size \in Nat /\ size > 0 /\ offset + size <= object.size
    BY <1>6, <2>3, <2>4, <2>5
  <2>. HIDE DEF value, offset, size
  <2>7. value \in 0..object.size - 1
    BY <2>5, <2>6
  <2>. QED  BY <2>7 DEF value
<1>11. \A k \in 0..VirtualSize(Current) - 1 :
         out'[Kind][From + (k + 1)]
           = IF k < Current.raw_size THEN FromObject(Current.raw_offset + k) ELSE Zero
  <2>. SUFFICES ASSUME NEW k \in 0..VirtualSize(Current) - 1
                PROVE  out'[Kind][From + (k + 1)] = more[(From - Used) + k + 1]
    BY <1>5
  <2>1. /\ (From - Used) + k + 1 \in 1..Len(more)
        /\ Used + ((From - Used) + k + 1) = From + (k + 1)
    BY <1>4, <1>5, <1>6
  <2>. QED  BY <1>7, <2>1
<1>. QED
  BY <1>4, <1>5, <1>6, <1>7, <1>8, <1>9, <1>10, <1>11

\* A section gets its place: after everything in its output, aligned.
LEMMA LayoutPlace ==
  ASSUME LayoutInv, PlaceSection
  PROVE  LayoutInv'
<1>1. /\ TypeOK /\ StageInv /\ CellsInv /\ PlacesInv /\ stage = "place" /\ Linking
      /\ object \in Objects /\ ~Malformed /\ SectionCount \in Nat
      /\ section \in 1..SectionCount /\ Len(input_sections) = SectionCount
  <2>1. TypeOK /\ StageInv /\ CellsInv /\ PlacesInv /\ stage = "place" /\ Linking
    BY DEF LayoutInv, PlaceSection, Linking
  <2>2. object \in Objects /\ ~Malformed /\ Len(input_sections) = SectionCount
    BY <2>1 DEF StageInv
  <2>3. SectionCount \in Nat
    BY <2>2, ObjectsAreObjects
  <2>. QED  BY <2>1, <2>2, <2>3 DEF TypeOK, PlaceSection
<1>2. /\ UNCHANGED <<stage, ok, delete_object, object_file, object, text_rva,
                     data_rva, entry_rva, item, image, output>>
      /\ section' = section + 1 /\ SectionCount' = SectionCount
  BY DEF PlaceSection, SectionCount
<1>3. CASE ~Placed(section)
  <2>1. UNCHANGED <<out, input_sections>>
    BY <1>3 DEF PlaceSection
  <2>2. PlacedSoFar' = PlacedSoFar
    <3>1. \A i \in 1..Len(input_sections) : Placed(i)' = Placed(i)
      BY <2>1 DEF Placed
    <3>2. \A i \in 1..Len(input_sections) :
            Placed(i) => (i < section + 1 <=> i < section)
      BY <1>1, <1>3
    <3>. QED  BY <1>1, <1>2, <2>1, <3>1, <3>2 DEF PlacedSoFar
  <2>3. TypeOK'
    BY <1>1, <1>2, <2>1 DEF TypeOK
  <2>4. StageInv'
    BY <1>1, <1>2, <2>1 DEF StageInv, Linking, Written, Malformed, SectionCount
  <2>5. CellsInv'
    BY <1>1, <1>2, <2>1 DEF CellsInv, Linking
  <2>6. PlacesInv'
    BY <1>1, <1>2, <2>1, <2>2 DEF PlacesInv, Linking, End
  <2>7. AddressesInv' /\ ImageSectionsDoNotOverlap'
    BY <1>1, <1>2 DEF LayoutInv, AddressesInv, ImageSectionsDoNotOverlap
  <2>. QED  BY <2>3, <2>4, <2>5, <2>6, <2>7 DEF LayoutInv
<1>4. CASE Placed(section)
  <2>1. /\ Current \in InputSection /\ Kind \in Kinds /\ VirtualSize(Current) \in Nat
        /\ out[Kind] \in Seq(Cell) /\ Used \in Nat
        /\ From \in Nat /\ Used <= From /\ From % Pad[Kind] = 0
        /\ out' \in [Kinds -> Seq(Cell)]
        /\ Len(out'[Kind]) = From + VirtualSize(Current)
        /\ \A k \in 1..Used : out'[Kind][k] = out[Kind][k]
        /\ \A k \in Used + 1 .. Len(out'[Kind]) :
             out'[Kind][k].origin = "object" =>
               out'[Kind][k].value \in 0..object.size - 1
        /\ \A other \in Kinds \ {Kind} : out'[other] = out[other]
        /\ Len(input_sections') = Len(input_sections)
        /\ \A i \in 1..SectionCount \ {section} : input_sections'[i] = input_sections[i]
        /\ input_sections'[section].output_offset = From
        /\ \A i \in 1..SectionCount :
             input_sections'[i].output_kind = input_sections[i].output_kind
        /\ input_sections' \in Seq(Placements)
        /\ PlacedSoFar' = PlacedSoFar \cup {section}
        /\ PlacedSoFar \subseteq 1..section - 1
        /\ \A i \in PlacedSoFar : i \in 1..SectionCount \ {section} /\ Placed(i)
    BY <1>4, PlaceFacts
  <2>2. /\ Kind \in Kinds /\ Current \in InputSection
        /\ out[Kind] \in Seq(Cell) /\ Used \in Nat
    BY <2>1
  <2>3. From \in Nat /\ Used <= From /\ From % Pad[Kind] = 0
    BY <2>1
  <2>4. VirtualSize(Current) \in Nat
    BY <2>1
  <2>5. /\ out' \in [Kinds -> Seq(Cell)]
        /\ Len(out'[Kind]) = From + VirtualSize(Current)
        /\ \A k \in 1..Used : out'[Kind][k] = out[Kind][k]
        /\ \A k \in Used + 1 .. Len(out'[Kind]) :
             out'[Kind][k].origin = "object" =>
               out'[Kind][k].value \in 0..object.size - 1
        /\ \A other \in Kinds \ {Kind} : out'[other] = out[other]
    BY <2>1
  <2>6. /\ Len(input_sections') = Len(input_sections)
        /\ \A i \in 1..SectionCount \ {section} : input_sections'[i] = input_sections[i]
        /\ input_sections'[section].output_offset = From
        /\ \A i \in 1..SectionCount :
             input_sections'[i].output_kind = input_sections[i].output_kind
        /\ input_sections' \in Seq(Placements)
    BY <2>1
  <2>7. /\ PlacedSoFar' = PlacedSoFar \cup {section}
        /\ PlacedSoFar \subseteq 1..section - 1
        /\ \A i \in PlacedSoFar : i \in 1..SectionCount \ {section} /\ Placed(i)
    BY <2>1
  <2>8. TypeOK'
    BY <1>1, <1>2, <2>5, <2>6 DEF TypeOK, Placements
  <2>9. StageInv'
    BY <1>1, <1>2, <2>6 DEF StageInv, Linking, Written, Malformed, SectionCount
  <2>10. CellsInv'
    <3>. SUFFICES ASSUME NEW knd \in Kinds, NEW k \in 1..Len(out'[knd]),
                         out'[knd][k].origin = "object"
                  PROVE  out'[knd][k].value \in 0..object.size - 1
      BY <1>2 DEF CellsInv
    <3>1. CASE knd # Kind
      BY <1>1, <2>5, <3>1 DEF CellsInv
    <3>2. CASE knd = Kind /\ k \in 1..Used
      BY <1>1, <2>2, <2>5, <3>2 DEF CellsInv, Kind, Used
    <3>3. CASE knd = Kind /\ k \notin 1..Used
      <4>1. k \in Used + 1 .. Len(out'[Kind])
        BY <2>2, <3>3
      <4>. QED  BY <2>5, <3>3, <4>1
    <3>. QED  BY <3>1, <3>2, <3>3
  <2>11. PlacesInv'
    <3>1. /\ \A i \in PlacedSoFar :
               /\ End(i)' = End(i) /\ End(i) \in Nat
               /\ input_sections'[i] = input_sections[i]
          /\ \A i \in 1..SectionCount : i = section => End(i)' = From + VirtualSize(Current)
      <4>1. \A i \in PlacedSoFar : VirtualSize(object.sections[i]) \in Nat
                                   /\ input_sections[i].output_offset \in Nat
        <5>. SUFFICES ASSUME NEW i \in PlacedSoFar
                      PROVE  /\ VirtualSize(object.sections[i]) \in Nat
                             /\ input_sections[i].output_offset \in Nat
          OBVIOUS
        <5>1. VirtualSize(object.sections[i]) \in Nat /\ input_sections[i] \in Placements
          BY <1>1, <2>7, PlacedFacts
        <5>. QED  BY <5>1 DEF Placements
      <4>2. \A i \in PlacedSoFar : input_sections'[i] = input_sections[i]
        BY <2>6, <2>7
      <4>3. \A i \in PlacedSoFar : End(i)' = End(i)
        BY <1>2, <4>2 DEF End
      <4>4. \A i \in 1..SectionCount : i = section => End(i)' = From + VirtualSize(Current)
        BY <1>2, <2>6 DEF End, Current
      <4>. QED  BY <4>1, <4>2, <4>3, <4>4 DEF End
    <3>2. \A i \in PlacedSoFar' :
            /\ input_sections'[i].output_offset % Pad[input_sections'[i].output_kind] = 0
            /\ End(i)' <= Len(out'[input_sections'[i].output_kind])
      <4>. SUFFICES ASSUME NEW i \in PlacedSoFar'
                    PROVE  /\ input_sections'[i].output_offset
                                % Pad[input_sections'[i].output_kind] = 0
                           /\ End(i)' <= Len(out'[input_sections'[i].output_kind])
        OBVIOUS
      <4>1. CASE i = section
        <5>1. input_sections'[i].output_offset = From /\ End(i)' = Len(out'[Kind])
              /\ input_sections'[i].output_kind = Kind
          <6>1. input_sections'[i].output_kind = Kind /\ i \in 1..SectionCount
            BY <1>1, <2>6, <4>1 DEF Kind
          <6>. QED  BY <2>5, <2>6, <3>1, <4>1, <6>1
        <5>. QED  BY <2>3, <2>4, <2>5, <5>1
      <4>2. CASE i # section
        <5>1. i \in PlacedSoFar /\ input_sections[i].output_kind \in Kinds
          BY <2>7, <4>2 DEF Placed
        <5>2. /\ input_sections[i].output_offset % Pad[input_sections[i].output_kind] = 0
              /\ End(i) <= Len(out[input_sections[i].output_kind])
          BY <1>1, <5>1 DEF PlacesInv
        <5>3. CASE input_sections[i].output_kind = Kind
          <6>1. /\ End(i)' = End(i) /\ End(i) \in Nat /\ End(i) <= Used
                /\ input_sections'[i] = input_sections[i]
            BY <3>1, <5>1, <5>2, <5>3 DEF Used
          <6>2. End(i)' <= Len(out'[Kind])
            BY <2>2, <2>3, <2>4, <2>5, <6>1
          <6>. QED  BY <5>2, <5>3, <6>1, <6>2
        <5>4. CASE input_sections[i].output_kind # Kind
          BY <2>5, <3>1, <5>1, <5>2, <5>4
        <5>. QED  BY <5>3, <5>4
      <4>. QED  BY <4>1, <4>2
    <3>3. \A i, j \in PlacedSoFar' :
            i < j /\ input_sections'[i].output_kind = input_sections'[j].output_kind
              => End(i)' <= input_sections'[j].output_offset
      <4>. SUFFICES ASSUME NEW i \in PlacedSoFar', NEW j \in PlacedSoFar', i < j,
                           input_sections'[i].output_kind = input_sections'[j].output_kind
                    PROVE  End(i)' <= input_sections'[j].output_offset
        OBVIOUS
      <4>1. i \in PlacedSoFar
        BY <1>1, <2>7
      <4>2. CASE j = section
        <5>1. input_sections[i].output_kind = Kind
          BY <1>1, <2>6, <2>7, <4>1, <4>2 DEF Kind
        <5>2. End(i) <= Used
          BY <1>1, <4>1, <5>1 DEF PlacesInv, Used
        <5>. QED  BY <2>2, <2>3, <2>6, <3>1, <4>1, <4>2, <5>2
      <4>3. CASE j # section
        BY <1>1, <2>7, <3>1, <4>1, <4>3 DEF PlacesInv
      <4>. QED  BY <4>2, <4>3
    <3>4. \A knd \in Kinds : out'[knd] # << >> =>
            \E i \in PlacedSoFar' : input_sections'[i].output_kind = knd
      <4>. SUFFICES ASSUME NEW knd \in Kinds, out'[knd] # << >>
                    PROVE  \E i \in PlacedSoFar' : input_sections'[i].output_kind = knd
        OBVIOUS
      <4>1. CASE knd = Kind
        BY <1>1, <2>6, <2>7, <4>1 DEF Kind
      <4>2. CASE knd # Kind
        <5>1. out[knd] # << >>
          BY <2>5, <4>2
        <5>2. PICK i \in PlacedSoFar : input_sections[i].output_kind = knd
          BY <1>1, <5>1 DEF PlacesInv
        <5>. QED  BY <2>7, <3>1, <5>2
      <4>. QED  BY <4>1, <4>2
    <3>. QED  BY <3>2, <3>3, <3>4 DEF PlacesInv
  <2>12. AddressesInv' /\ ImageSectionsDoNotOverlap'
    BY <1>1, <1>2 DEF LayoutInv, AddressesInv, ImageSectionsDoNotOverlap
  <2>. QED  BY <2>8, <2>9, <2>10, <2>11, <2>12 DEF LayoutInv
<1>. QED  BY <1>3, <1>4

\* Nothing that keeps the places and the lengths of the outputs disturbs them.
LEMMA PlacesKept ==
  ASSUME PlacesInv, Linking, UNCHANGED object, PlacedSoFar' = PlacedSoFar,
         \A i \in PlacedSoFar :
           /\ input_sections'[i].output_kind = input_sections[i].output_kind
           /\ input_sections'[i].output_offset = input_sections[i].output_offset
           /\ input_sections[i].output_kind \in Kinds,
         \A kind \in Kinds : /\ Len(out'[kind]) = Len(out[kind])
                             /\ out[kind] = << >> => out'[kind] = << >>
  PROVE  PlacesInv'
<1>1. \A i \in PlacedSoFar : End(i)' = End(i)
  BY DEF End
<1>2. \A i \in PlacedSoFar' :
        /\ input_sections'[i].output_offset % Pad[input_sections'[i].output_kind] = 0
        /\ End(i)' <= Len(out'[input_sections'[i].output_kind])
        /\ \A j \in PlacedSoFar' :
             i < j /\ input_sections'[i].output_kind = input_sections'[j].output_kind
               => End(i)' <= input_sections'[j].output_offset
  BY <1>1 DEF PlacesInv
<1>3. \A kind \in Kinds : out'[kind] # << >> =>
        \E i \in PlacedSoFar' : input_sections'[i].output_kind = kind
  BY DEF PlacesInv
<1>. QED  BY <1>2, <1>3 DEF PlacesInv

\* The addresses are computed; every one of them fits.
LEMMA LayoutAddresses ==
  ASSUME LayoutInv, AssignAddresses
  PROVE  LayoutInv'
<1>1. /\ TypeOK /\ StageInv /\ CellsInv /\ PlacesInv /\ stage = "place" /\ Linking
      /\ object \in Objects /\ ~Malformed /\ Len(input_sections) = SectionCount
      /\ out["text"] # << >> /\ ~LayoutOverflows /\ section = SectionCount + 1
      /\ stage' = "main" /\ SectionCount \in Nat
  <2>1. TypeOK /\ StageInv /\ CellsInv /\ PlacesInv /\ stage = "place" /\ Linking
    BY DEF LayoutInv, AssignAddresses, Linking
  <2>2. object \in Objects /\ ~Malformed /\ Len(input_sections) = SectionCount
    BY <2>1 DEF StageInv
  <2>. QED  BY <2>1, <2>2, ObjectsAreObjects DEF AssignAddresses, Primary
<1>2. /\ UNCHANGED <<ok, delete_object, object_file, object, out, entry_rva,
                     section, image, output>>
      /\ SectionCount' = SectionCount
      /\ text_rva' = SectionAlignment /\ data_rva' = DataRva /\ item' = 1
  BY DEF AssignAddresses, SectionCount
<1>3. DataRva \in 0..MaxRva
  <2>1. out["text"] \in Seq(Cell) /\ out["data"] \in Seq(Cell)
    BY <1>1 DEF TypeOK, Kinds
  <2>2. SectionAlignment + Len(out["text"]) \in Nat /\ SectionAlignment \in Nat \ {0}
    BY <2>1, SizesAssumption
  <2>3. DataRva \in Nat
    BY <2>2, AlignUpIsNext DEF DataRva
  <2>4. DataRva <= MaxRva
    BY <1>1, <2>3, SizesAssumption DEF LayoutOverflows
  <2>. QED  BY <2>3, <2>4, SizesAssumption
<1>4. \A i \in 1..SectionCount :
        /\ input_sections[i] \in Placements
        /\ Placed(i) => OutputRva(i) \in 0..MaxRva
  <2>. SUFFICES ASSUME NEW i \in 1..SectionCount
                PROVE  /\ input_sections[i] \in Placements
                       /\ Placed(i) => OutputRva(i) \in 0..MaxRva
    OBVIOUS
  <2>1. input_sections[i] \in Placements
    BY <1>1, PlacedFacts
  <2>2. OutputRva(i) \in Nat
    BY <1>3, <2>1, SizesAssumption DEF OutputRva, Placements
  <2>3. Placed(i) => OutputRva(i) <= MaxRva
    BY <1>1, <2>2, SizesAssumption DEF LayoutOverflows
  <2>. QED  BY <2>1, <2>2, <2>3, SizesAssumption
<1>5. /\ input_sections' \in Seq(Placements) /\ Len(input_sections') = SectionCount
      /\ \A i \in 1..SectionCount :
           /\ input_sections'[i].output_kind = input_sections[i].output_kind
           /\ input_sections'[i].output_offset = input_sections[i].output_offset
           /\ Placed(i) => input_sections'[i].output_rva = OutputRva(i)
  <2>. DEFINE addressed(i) == [input_sections[i] EXCEPT !.output_rva = OutputRva(i)]
              placed == [i \in 1..SectionCount |->
                           IF Placed(i) THEN addressed(i) ELSE input_sections[i]]
  <2>1. \A i \in 1..SectionCount : Placed(i) =>
          /\ addressed(i) \in Placements
          /\ addressed(i).output_kind = input_sections[i].output_kind
          /\ addressed(i).output_offset = input_sections[i].output_offset
          /\ addressed(i).output_rva = OutputRva(i)
    BY <1>4 DEF Placements
  <2>2. input_sections' = placed
    BY DEF AssignAddresses
  <2>. HIDE DEF addressed
  <2>3. placed \in [1..SectionCount -> Placements]
    BY <1>4, <2>1
  <2>4. input_sections' \in Seq(Placements) /\ Len(input_sections') = SectionCount
    BY <1>1, <2>2, <2>3, FunctionIsSequence
  <2>5. \A i \in 1..SectionCount :
          input_sections'[i] = IF Placed(i) THEN addressed(i) ELSE input_sections[i]
    BY <2>2
  <2>. QED  BY <2>1, <2>4, <2>5
<1>6. /\ PlacedSoFar = {i \in 1..SectionCount : Placed(i)}
      /\ PlacedSoFar' = PlacedSoFar
  <2>1. \A i \in 1..SectionCount : Placed(i)' <=> Placed(i)
    BY <1>5 DEF Placed
  <2>2. PlacedSoFar = {i \in 1..SectionCount : Placed(i)}
    BY <1>1 DEF PlacedSoFar
  <2>3. PlacedSoFar' = {i \in 1..SectionCount : Placed(i)}
    BY <1>1, <1>5, <2>1 DEF PlacedSoFar
  <2>. QED  BY <2>2, <2>3
<1>7. SectionAlignment \in 0..MaxRva
  <2>1. PICK i \in PlacedSoFar : input_sections[i].output_kind = "text"
    BY <1>1 DEF PlacesInv, Kinds
  <2>2. OutputRva(i) \in 0..MaxRva /\ input_sections[i] \in Placements
    BY <1>4, <1>6
  <2>. QED  BY <2>1, <2>2, SizesAssumption DEF OutputRva, Placements
<1>8. TypeOK'
  BY <1>1, <1>2, <1>3, <1>5, <1>7 DEF TypeOK, Placements
<1>9. StageInv'
  BY <1>1, <1>2, <1>5 DEF StageInv, Linking, Written, Malformed, SectionCount
<1>10. CellsInv'
  BY <1>1, <1>2 DEF CellsInv
<1>11. PlacesInv'
  <2>1. \A i \in PlacedSoFar : input_sections[i].output_kind \in Kinds
    BY <1>6 DEF Placed
  <2>. QED  BY <1>1, <1>2, <1>5, <1>6, <2>1, PlacesKept
<1>12. AddressesInv'
  <2>1. DataRva' = DataRva
    BY <1>2 DEF DataRva
  <2>2. \A i \in 1..SectionCount : OutputRva(i)' = OutputRva(i) /\ (Placed(i)' <=> Placed(i))
    BY <1>2, <1>5, <2>1 DEF OutputRva, Placed
  <2>. QED  BY <1>1, <1>2, <1>5, <2>1, <2>2 DEF AddressesInv
<1>13. ImageSectionsDoNotOverlap'
  BY <1>2 DEF LayoutInv, ImageSectionsDoNotOverlap
<1>. QED  BY <1>8, <1>9, <1>10, <1>11, <1>12, <1>13 DEF LayoutInv

\* What the stages after the layout have in common.
LEMMA AddressedFacts ==
  ASSUME TypeOK, StageInv, stage \in {"main", "relocate", "write"}
  PROVE  /\ Linking /\ ok = FALSE /\ object \in Objects /\ ~Malformed
         /\ Len(input_sections) = SectionCount /\ SectionCount \in Nat
         /\ PlacedSoFar = {i \in 1..SectionCount : Placed(i)}
         /\ object.sections \in Seq(InputSection) /\ object.symbols \in Seq(Symbol)
<1>1. /\ Linking /\ ok = FALSE /\ object \in Objects /\ ~Malformed
      /\ Len(input_sections) = SectionCount
  BY DEF StageInv, TypeOK, Linking
<1>. QED  BY <1>1, ObjectsAreObjects DEF PlacedSoFar

\* Steps between the stages after the layout leave the layout alone.
LEMMA LayoutMoved ==
  ASSUME LayoutInv, stage \in {"main", "relocate", "write"},
         stage' \in {"main", "relocate", "write"}, item' # 0,
         stage' \in {"main", "relocate"} => image' = << >> /\ output' = << >>,
         UNCHANGED <<ok, object_file, object, input_sections, text_rva, data_rva>>,
         \A kind \in Kinds :
           /\ Len(out'[kind]) = Len(out[kind])
           /\ out[kind] = << >> <=> out'[kind] = << >>
  PROVE  StageInv' /\ PlacesInv' /\ AddressesInv'
<1>1. TypeOK /\ StageInv /\ PlacesInv /\ AddressesInv
  BY DEF LayoutInv
<1>2. /\ Linking /\ ok = FALSE /\ SectionCount' = SectionCount
      /\ PlacedSoFar = {i \in 1..SectionCount : Placed(i)}
      /\ Len(input_sections) = SectionCount
  BY <1>1, AddressedFacts DEF SectionCount
<1>3. StageInv'
  BY <1>1, <1>2 DEF StageInv, Linking, Written, Malformed, SectionCount
<1>4. PlacesInv'
  <2>1. PlacedSoFar' = PlacedSoFar
    BY <1>2 DEF PlacedSoFar, Placed
  <2>2. \A i \in PlacedSoFar : input_sections[i].output_kind \in Kinds
    BY <1>2 DEF Placed
  <2>. QED  BY <1>1, <1>2, <2>1, <2>2, PlacesKept
<1>5. AddressesInv'
  <2>1. DataRva' = DataRva
    BY DEF DataRva, Kinds
  <2>2. \A i \in 1..SectionCount : OutputRva(i)' = OutputRva(i) /\ (Placed(i)' <=> Placed(i))
    BY <2>1 DEF OutputRva, Placed
  <2>. QED  BY <1>1, <1>2, <2>1, <2>2 DEF AddressesInv, Kinds
<1>. QED  BY <1>3, <1>4, <1>5

\* A symbol that resolves has an address in the image.
LEMMA ResolvedFacts ==
  ASSUME TypeOK, StageInv, stage \in {"main", "relocate", "write"},
         NEW index \in Nat, Resolves(index)
  PROVE  /\ SymbolRva(index) \in 0..MaxRva
         /\ object.symbols[index + 1] \in Symbol
         /\ object.symbols[index + 1].section \in 1..SectionCount
         /\ Placed(object.symbols[index + 1].section)
<1>. DEFINE y == object.symbols[index + 1]
<1>1. object.symbols \in Seq(Symbol) /\ Linking
  BY AddressedFacts
<1>2. index + 1 \in 1..Len(object.symbols)
  BY <1>1 DEF Resolves
<1>3. y \in Symbol
  BY <1>1, <1>2
<1>4. y.section \in 1..SectionCount /\ Placed(y.section)
      /\ y.value <= MaxRva - input_sections[y.section].output_rva
  BY DEF Resolves
<1>5. input_sections[y.section] \in Placements
  BY <1>1, <1>4, PlacedFacts
<1>6. SymbolRva(index) = input_sections[y.section].output_rva + y.value
  BY DEF SymbolRva
<1>7. y.value \in Nat
  BY <1>3 DEF Symbol
<1>. HIDE DEF y
<1>8. SymbolRva(index) \in 0..MaxRva
  BY <1>4, <1>5, <1>6, <1>7, SizesAssumption DEF Placements
<1>. QED  BY <1>3, <1>4, <1>8 DEF y

\* The search for main, and the step from one section to the next.
LEMMA LayoutSearch ==
  ASSUME LayoutInv, NextSymbol \/ NextSection, ~Abandoned
  PROVE  LayoutInv'
<1>1. /\ TypeOK /\ StageInv /\ stage \in {"main", "relocate"}
      /\ image = << >> /\ output = << >>
  BY DEF LayoutInv, StageInv, NextSymbol, NextSection
<1>2. /\ object.symbols \in Seq(Symbol) /\ SectionCount \in Nat /\ ok = FALSE
      /\ SectionCount' = SectionCount
      /\ object.sections \in Seq(InputSection)
  BY <1>1, AddressedFacts DEF NextSymbol, NextSection, linked, SectionCount
<1>3. /\ stage' \in {"main", "relocate"}
      /\ UNCHANGED <<ok, delete_object, object_file, object, input_sections, out,
                     text_rva, data_rva, image, output>>
      /\ item' \in Nat \ {0} /\ section' \in 1..SectionCount + 1
      /\ entry_rva' \in 0..MaxRva
  <2>1. CASE NextSection
    <3>1. section' \in 1..SectionCount + 1 /\ item' \in Nat \ {0}
      BY <1>1, <1>2, <2>1 DEF NextSection, TypeOK
    <3>. QED  BY <1>1, <2>1, <3>1 DEF NextSection, linked, TypeOK
  <2>2. CASE NextSymbol
    <3>. DEFINE y == object.symbols[item]
    <3>1. stage = "main" /\ item \in 1..Len(object.symbols) /\ y \in Symbol
      <4>1. stage = "main" /\ item \in Nat \ {0} /\ item <= Len(object.symbols)
        BY <1>1, <2>2 DEF NextSymbol, TypeOK, StageInv
      <4>. QED  BY <1>2, <4>1
    <3>2. CASE /\ ~Candidate(y) \/ y.name = "other"
               /\ item' = AfterSymbol(y)
               /\ UNCHANGED <<stage, ok, entry_rva, section>>
      <4>1. item' \in Nat \ {0}
        <5>1. y.aux \in Nat /\ item \in Nat
          BY <1>2, <3>1 DEF Symbol
        <5>2. item' = item + y.aux + 1
          BY <3>2 DEF AfterSymbol
        <5>. HIDE DEF y
        <5>. QED  BY <5>1, <5>2
      <4>. QED  BY <1>1, <2>2, <3>2, <4>1 DEF NextSymbol, TypeOK
    <3>3. CASE /\ Candidate(y) /\ y.name = "main" /\ Resolves(item - 1)
               /\ entry_rva' = SymbolRva(item - 1)
               /\ section' = 1 /\ item' = 1
               /\ Primary("relocate") /\ UNCHANGED ok
      <4>1. item - 1 \in Nat
        BY <1>2, <3>1, <3>3
      <4>2. entry_rva' \in 0..MaxRva
        BY <1>1, <3>1, <3>3, <4>1, ResolvedFacts
      <4>. QED  BY <1>1, <1>2, <2>2, <3>3, <4>2 DEF NextSymbol, TypeOK, Primary
    <3>4. ~(Abandon /\ UNCHANGED <<entry_rva, section, item>>)
      BY <2>2, <3>1 DEF NextSymbol, Abandoned, linked
    <3>. QED  BY <2>2, <3>2, <3>3, <3>4 DEF NextSymbol
  <2>. QED  BY <2>1, <2>2
<1>4. TypeOK'
  BY <1>1, <1>2, <1>3 DEF TypeOK
<1>5. StageInv' /\ PlacesInv' /\ AddressesInv'
  BY <1>1, <1>3, LayoutMoved
<1>6. CellsInv' /\ ImageSectionsDoNotOverlap'
  BY <1>1, <1>3 DEF LayoutInv, CellsInv, Linking, ImageSectionsDoNotOverlap
<1>. QED  BY <1>4, <1>5, <1>6 DEF LayoutInv

\* A relocation that is accepted: where its field is, and what it writes.
LEMMA AcceptedFacts ==
  ASSUME TypeOK, StageInv, CellsInv, stage = "relocate",
         section \in 1..SectionCount, item \in 1..Len(Relocations(section)),
         NEW r, r = Relocations(section)[item], Accepts(section, r)
  PROVE  /\ Placed(section) /\ Relocations(section) = object.sections[section].relocations
         /\ r \in Relocation /\ FieldSize(r) \in Nat \ {0}
         /\ input_sections[section].output_kind \in Kinds
         /\ Buffer(section) = out[input_sections[section].output_kind]
         /\ Buffer(section) \in Seq(Cell)
         /\ PatchOffset(section, r) \in Nat
         /\ PatchOffset(section, r) + FieldSize(r) <= Len(Buffer(section))
         /\ PatchOffset(section, r) + 1 \in 1..Len(Buffer(section))
         /\ Value(section, r, Stored(Buffer(section)[PatchOffset(section, r) + 1])) \in Int
<1>1. /\ Linking /\ object \in Objects /\ object.sections \in Seq(InputSection)
  BY AddressedFacts
<1>2. Placed(section) /\ Relocations(section) = object.sections[section].relocations
  BY DEF Relocations
<1>3. object.sections[section] \in InputSection /\ input_sections[section] \in Placements
  BY <1>1, PlacedFacts
<1>4. r \in Relocation
  BY <1>2, <1>3 DEF InputSection
<1>5. /\ r.at \in Nat /\ r.symbol \in Nat /\ r.adjustment \in Nat
      /\ FieldSize(r) \in Nat \ {0} /\ WordSize \in Nat
  BY <1>4, SizesAssumption DEF Relocation, FieldSize
<1>6. /\ input_sections[section].output_kind \in Kinds
      /\ input_sections[section].output_offset \in Nat
      /\ input_sections[section].output_rva \in Nat
  BY <1>2, <1>3, SizesAssumption, SMTT(30) DEF Placements, Placed
<1>7. Buffer(section) \in Seq(Cell) /\ Len(Buffer(section)) \in Nat
  <2>1. out \in [Kinds -> Seq(Cell)]
    BY DEF TypeOK
  <2>2. out[input_sections[section].output_kind] \in Seq(Cell)
    BY <1>6, <2>1
  <2>. QED  BY <2>2 DEF Buffer
<1>8. PatchOffset(section, r) \in Nat
  BY <1>5, <1>6 DEF PatchOffset
<1>9. /\ PatchOffset(section, r) + 1 \in 1..Len(Buffer(section))
      /\ PatchOffset(section, r) + FieldSize(r) <= Len(Buffer(section))
  BY <1>7, <1>8 DEF Accepts
<1>10. Value(section, r, Stored(Buffer(section)[PatchOffset(section, r) + 1])) \in Int
  <2>. DEFINE cell == Buffer(section)[PatchOffset(section, r) + 1]
  <2>1. cell \in Cell
    BY <1>7, <1>9
  <2>2. cell.origin = "object" => cell.value \in 0..object.size - 1
    BY <1>1, <1>6, <1>9 DEF CellsInv, Buffer
  <2>3. Stored(cell) \in Int
    <3>1. \A k \in 0..object.size - 1 : object.words[k] \in Int
      BY <1>1, ObjectsAreObjects
    <3>. HIDE DEF cell
    <3>. QED  BY <2>1, <2>2, <3>1 DEF Stored, Cell
  <2>4. SymbolRva(r.symbol) \in Int
    <3>1. Resolves(r.symbol)
      BY DEF Accepts
    <3>2. SymbolRva(r.symbol) \in 0..MaxRva
      BY <1>5, <3>1, ResolvedFacts
    <3>. QED  BY <3>2, SizesAssumption
  <2>. HIDE DEF cell
  <2>5. Value(section, r, Stored(cell)) \in Int
    <3>. DEFINE target == SymbolRva(r.symbol)
                addend == Stored(cell)
                next == (input_sections[section].output_rva + r.at)
                          + WordSize + r.adjustment
    <3>1. target \in Int /\ addend \in Int /\ next \in Int /\ ImageBase \in Int
      <4>1. target \in Int /\ addend \in Int /\ ImageBase \in Int
        BY <2>3, <2>4, SizesAssumption
      <4>2. next \in Int
        BY <1>5, <1>6
      <4>. QED  BY <4>1, <4>2
    <3>2. Value(section, r, addend) \in
            {(target - next) + addend, target + addend, (ImageBase + target) + addend}
      BY DEF Value
    <3>. HIDE DEF target, addend, next
    <3>3. Value(section, r, addend) \in Int
      BY <3>1, <3>2
    <3>. QED  BY <3>3 DEF addend
  <2>. QED  BY <2>5 DEF cell
<1>. QED  BY <1>2, <1>4, <1>5, <1>6, <1>7, <1>8, <1>9, <1>10 DEF Buffer

\* What an accepted relocation does to the outputs: it writes its value over
\* its field, and nothing else changes.
LEMMA AppliedFacts ==
  ASSUME TypeOK, StageInv, CellsInv, ApplyRelocation, ~Abandoned,
         NEW r, r = Relocations(section)[item],
         NEW kind, kind = input_sections[section].output_kind,
         NEW from, from = PatchOffset(section, r),
         NEW value, value = Value(section, r, Stored(Buffer(section)[from + 1]))
  PROVE  /\ stage = "relocate" /\ section \in 1..SectionCount
         /\ item \in 1..Len(Relocations(section)) /\ Accepts(section, r)
         /\ item' = item + 1 /\ kind \in Kinds
         /\ UNCHANGED <<stage, ok, delete_object, object_file, object,
                        input_sections, text_rva, data_rva, entry_rva, section,
                        image, output>>
         /\ out' \in [Kinds -> Seq(Cell)]
         /\ \A other \in Kinds \ {kind} : out'[other] = out[other]
         /\ Len(out'[kind]) = Len(out[kind])
         /\ \A k \in 1..Len(out[kind]) :
              out'[kind][k] = IF k \in from + 1 .. from + FieldSize(r)
                              THEN Patch(value) ELSE out[kind][k]
<1>1. /\ stage = "relocate" /\ section \in 1..SectionCount
      /\ item \in 1..Len(Relocations(section)) /\ SectionCount \in Nat
  <2>1. stage = "relocate" /\ SectionCount \in Nat
    BY AddressedFacts DEF ApplyRelocation
  <2>2. section \in 1..SectionCount
    BY <2>1 DEF ApplyRelocation, TypeOK
  <2>. QED  BY <2>1, <2>2 DEF ApplyRelocation, TypeOK, StageInv
<1>2. /\ Accepts(section, r) /\ item' = item + 1 /\ UNCHANGED <<stage, ok>>
      /\ out' = [out EXCEPT ![kind] = Patched(section, r)]
      /\ UNCHANGED <<delete_object, object_file, object, input_sections, text_rva,
                     data_rva, entry_rva, section, image, output>>
  <2>1. ~(Abandon /\ UNCHANGED <<out, item>>)
    BY <1>1 DEF ApplyRelocation, Abandoned, linked
  <2>. QED  BY <2>1 DEF ApplyRelocation
<1>3. /\ kind \in Kinds /\ Buffer(section) = out[kind] /\ out[kind] \in Seq(Cell)
      /\ value \in Int
  BY <1>1, <1>2, AcceptedFacts
<1>4. Patched(section, r) = [k \in 1..Len(out[kind]) |->
                               IF k \in from + 1 .. from + FieldSize(r)
                               THEN Patch(value) ELSE out[kind][k]]
  BY <1>3 DEF Patched
<1>5. Patched(section, r) \in Seq(Cell) /\ Len(Patched(section, r)) = Len(out[kind])
  <2>1. Patch(value) \in Cell
    BY <1>3 DEF Patch, Cell
  <2>2. Patched(section, r) \in [1..Len(out[kind]) -> Cell]
    BY <1>3, <1>4, <2>1
  <2>. QED  BY <1>3, <2>2, FunctionIsSequence
<1>6. out \in [Kinds -> Seq(Cell)]
  BY DEF TypeOK
<1>7. /\ out' \in [Kinds -> Seq(Cell)] /\ out'[kind] = Patched(section, r)
      /\ \A other \in Kinds \ {kind} : out'[other] = out[other]
  BY <1>2, <1>3, <1>5, <1>6
<1>. QED  BY <1>1, <1>2, <1>3, <1>4, <1>5, <1>7

LEMMA LayoutRelocate ==
  ASSUME LayoutInv, ApplyRelocation, ~Abandoned
  PROVE  LayoutInv'
<1>. DEFINE r == Relocations(section)[item]
            kind == input_sections[section].output_kind
            from == PatchOffset(section, r)
            value == Value(section, r, Stored(Buffer(section)[from + 1]))
<1>1. /\ TypeOK /\ StageInv /\ CellsInv
      /\ r = Relocations(section)[item] /\ kind = input_sections[section].output_kind
      /\ from = PatchOffset(section, r)
      /\ value = Value(section, r, Stored(Buffer(section)[from + 1]))
  BY DEF LayoutInv
<1>. HIDE DEF r, kind, from, value
<1>2. /\ stage = "relocate" /\ section \in 1..SectionCount
      /\ item \in 1..Len(Relocations(section))
      /\ item' = item + 1 /\ kind \in Kinds
      /\ UNCHANGED <<stage, ok, delete_object, object_file, object,
                     input_sections, text_rva, data_rva, entry_rva, section,
                     image, output>>
      /\ out' \in [Kinds -> Seq(Cell)]
      /\ \A other \in Kinds \ {kind} : out'[other] = out[other]
      /\ Len(out'[kind]) = Len(out[kind])
      /\ \A k \in 1..Len(out[kind]) :
           out'[kind][k] = IF k \in from + 1 .. from + FieldSize(r)
                           THEN Patch(value) ELSE out[kind][k]
  BY <1>1, AppliedFacts
<1>3. item' \in Nat \ {0} /\ image = << >> /\ output = << >> /\ Linking
  BY <1>1, <1>2 DEF StageInv, Linking
<1>4. TypeOK'
  BY <1>1, <1>2, <1>3 DEF TypeOK, SectionCount
<1>5. \A knd \in Kinds : /\ Len(out'[knd]) = Len(out[knd])
                         /\ out[knd] = << >> <=> out'[knd] = << >>
                         /\ out[knd] \in Seq(Cell) /\ out'[knd] \in Seq(Cell)
  <2>1. \A knd \in Kinds : /\ Len(out'[knd]) = Len(out[knd])
                           /\ out[knd] \in Seq(Cell) /\ out'[knd] \in Seq(Cell)
    BY <1>1, <1>2 DEF TypeOK
  <2>. QED  BY <2>1
<1>6. StageInv' /\ PlacesInv' /\ AddressesInv'
  BY <1>2, <1>3, <1>5, LayoutMoved
<1>7. CellsInv'
  <2>. SUFFICES ASSUME NEW knd \in Kinds, NEW k \in 1..Len(out[knd]),
                       out'[knd][k].origin = "object"
                PROVE  out'[knd][k].value \in 0..object.size - 1
    BY <1>2, <1>5 DEF CellsInv
  <2>1. out'[knd][k] = out[knd][k]
    <3>1. Patch(value).origin # "object"
      BY DEF Patch
    <3>. QED  BY <1>2, <3>1
  <2>. QED  BY <1>1, <1>3, <2>1 DEF CellsInv
<1>8. ImageSectionsDoNotOverlap'
  BY <1>2 DEF LayoutInv, ImageSectionsDoNotOverlap
<1>. QED  BY <1>4, <1>6, <1>7, <1>8 DEF LayoutInv

-----------------------------------------------------------------------------
(* The image.                                                               *)

\* A chunk of n cells and its padding take a whole number of file units.
LEMMA RawSizeIs ==
  ASSUME NEW n \in Nat
  PROVE  /\ RawSize(n) \in Nat /\ n <= RawSize(n) /\ RawSize(n) % FileAlignment = 0
         /\ RawSize(n) - n \in Nat
<1>1. FileAlignment \in Nat \ {0}
  BY SizesAssumption
<1>2. AlignUp(n, FileAlignment) \in Nat /\ n <= AlignUp(n, FileAlignment)
      /\ AlignUp(n, FileAlignment) % FileAlignment = 0
  BY <1>1, AlignUpIsNext
<1>. QED  BY <1>2 DEF RawSize

\* The sizes of the two outputs, and the headers.
Headers == AlignUp(HeadersSize[IF HasData THEN 3 ELSE 2], FileAlignment)
TextSize == Len(out["text"])
DataSize == Len(out["data"])

LEMMA SizesFacts ==
  ASSUME TypeOK
  PROVE  /\ out["text"] \in Seq(Cell) /\ out["data"] \in Seq(Cell)
         /\ TextSize \in Nat /\ DataSize \in Nat
         /\ HasData <=> DataSize # 0
         /\ HeadersSize[IF HasData THEN 3 ELSE 2] \in Nat
         /\ Headers \in Nat /\ HeadersSize[IF HasData THEN 3 ELSE 2] <= Headers
         /\ Headers % FileAlignment = 0
         /\ ResourceSize \in Nat
<1>1. out["text"] \in Seq(Cell) /\ out["data"] \in Seq(Cell)
  BY DEF TypeOK, Kinds
<1>2. HeadersSize[2] \in Nat /\ HeadersSize[3] \in Nat /\ ResourceSize \in Nat
  BY SizesAssumption
<1>3. HeadersSize[IF HasData THEN 3 ELSE 2] \in Nat
  BY <1>2
<1>4. /\ Headers \in Nat /\ HeadersSize[IF HasData THEN 3 ELSE 2] <= Headers
      /\ Headers % FileAlignment = 0
  BY <1>3, RawSizeIs DEF Headers, RawSize
<1>. QED  BY <1>1, <1>2, <1>3, <1>4 DEF TextSize, DataSize, HasData

AfterText == Headers + RawSize(TextSize)
AfterData == AfterText + RawSize(DataSize)

Entry(rva, size, raw_offset) ==
  [rva |-> rva, size |-> size, raw_offset |-> raw_offset, raw_size |-> RawSize(size)]

\* The entries of the section table.
LEMMA SectionTableIs ==
  SectionTable =
    IF HasData
    THEN <<Entry(text_rva, TextSize, Headers), Entry(data_rva, DataSize, AfterText),
           Entry(ResourceRva, ResourceSize, AfterData)>>
    ELSE <<Entry(text_rva, TextSize, Headers),
           Entry(ResourceRva, ResourceSize, AfterText)>>
BY DEF SectionTable, Headers, TextSize, DataSize, AfterText, AfterData, Entry

\* The places of the sections in the file and in memory, once the addresses
\* have been assigned: aligned, and one after the other.
LEMMA SectionTableFacts ==
  ASSUME TypeOK, AddressesInv, stage \in {"relocate", "write"}
  PROVE  /\ text_rva \in Nat /\ data_rva \in Nat /\ ResourceRva \in Nat
         /\ SectionAlignment \in Nat \ {0} /\ text_rva = SectionAlignment
         /\ text_rva % SectionAlignment = 0 /\ ResourceRva % SectionAlignment = 0
         /\ text_rva + TextSize <= ResourceRva
         /\ HasData => /\ data_rva % SectionAlignment = 0
                       /\ text_rva + TextSize <= data_rva
                       /\ data_rva + DataSize <= ResourceRva
         /\ AfterText \in Nat /\ AfterText % FileAlignment = 0
         /\ AfterData \in Nat /\ AfterData % FileAlignment = 0
         /\ AfterText = Headers + RawSize(TextSize)
         /\ AfterData = AfterText + RawSize(DataSize)
<1>1. SectionAlignment \in Nat \ {0} /\ FileAlignment \in Nat \ {0}
  BY SizesAssumption
<1>2. /\ text_rva = SectionAlignment /\ data_rva = DataRva
      /\ text_rva \in Nat /\ data_rva \in Nat
  BY <1>1, SizesAssumption DEF AddressesInv, TypeOK
<1>3. /\ TextSize \in Nat /\ DataSize \in Nat /\ Headers \in Nat
      /\ Headers % FileAlignment = 0
  BY SizesFacts
<1>4. SectionAlignment % SectionAlignment = 0
  <2>1. (SectionAlignment * 1) % SectionAlignment = 0
    BY <1>1, MultipleIsAligned
  <2>2. SectionAlignment * 1 = SectionAlignment
    BY <1>1
  <2>. QED  BY <2>1, <2>2
<1>5. HasData => /\ data_rva % SectionAlignment = 0
                 /\ text_rva + TextSize <= data_rva
  <2>1. SectionAlignment + TextSize \in Nat
    BY <1>1, <1>3
  <2>2. HasData => data_rva = AlignUp(SectionAlignment + TextSize, SectionAlignment)
    BY <1>2 DEF HasData, DataRva, TextSize
  <2>. QED  BY <1>1, <1>2, <2>1, <2>2, AlignUpIsNext
<1>6. /\ ResourceRva \in Nat /\ ResourceRva % SectionAlignment = 0
      /\ ~HasData => text_rva + TextSize <= ResourceRva
      /\ HasData => data_rva + DataSize <= ResourceRva
  <2>. DEFINE end == IF HasData THEN data_rva + DataSize ELSE text_rva + TextSize
  <2>1. end \in Nat
    BY <1>2, <1>3
  <2>2. ResourceRva = AlignUp(end, SectionAlignment)
    BY DEF ResourceRva, TextSize, DataSize
  <2>3. /\ ResourceRva \in Nat /\ ResourceRva % SectionAlignment = 0
        /\ end <= ResourceRva
    <3>. HIDE DEF end
    <3>. QED  BY <1>1, <2>1, <2>2, AlignUpIsNext
  <2>. QED  BY <2>3
<1>7. AfterText \in Nat /\ AfterText % FileAlignment = 0
  <2>1. RawSize(TextSize) \in Nat /\ RawSize(TextSize) % FileAlignment = 0
    BY <1>3, RawSizeIs
  <2>. QED  BY <1>1, <1>3, <2>1, AlignedSum DEF AfterText
<1>8. AfterData \in Nat /\ AfterData % FileAlignment = 0
  <2>1. RawSize(DataSize) \in Nat /\ RawSize(DataSize) % FileAlignment = 0
    BY <1>3, RawSizeIs
  <2>. QED  BY <1>1, <1>7, <2>1, AlignedSum DEF AfterData
<1>9. text_rva + TextSize <= ResourceRva
  BY <1>2, <1>3, <1>5, <1>6
<1>. QED  BY <1>1, <1>2, <1>4, <1>5, <1>6, <1>7, <1>8, <1>9 DEF AfterText, AfterData

\* The section table has entries of the right type, each one aligned, large
\* enough and behind the headers, and the entries follow one another.
LEMMA SectionTableIsOrdered ==
  ASSUME TypeOK, AddressesInv, stage \in {"relocate", "write"}
  PROVE  /\ SectionTable \in Seq([rva : Nat, size : Nat, raw_offset : Nat,
                                  raw_size : Nat])
         /\ Len(SectionTable) = IF HasData THEN 3 ELSE 2
         /\ \A a \in 1..Len(SectionTable) :
              /\ SectionTable[a].rva % SectionAlignment = 0
              /\ SectionTable[a].rva >= SectionAlignment
              /\ SectionTable[a].raw_offset % FileAlignment = 0
              /\ SectionTable[a].raw_offset >= HeadersSize[Len(SectionTable)]
              /\ SectionTable[a].size <= SectionTable[a].raw_size
         /\ \A a, b \in 1..Len(SectionTable) : a < b =>
              /\ SectionTable[a].rva + SectionTable[a].size <= SectionTable[b].rva
              /\ SectionTable[a].raw_offset + SectionTable[a].raw_size
                   <= SectionTable[b].raw_offset
<1>1. /\ TextSize \in Nat /\ DataSize \in Nat /\ ResourceSize \in Nat /\ Headers \in Nat
      /\ HeadersSize[IF HasData THEN 3 ELSE 2] \in Nat
      /\ HeadersSize[IF HasData THEN 3 ELSE 2] <= Headers
      /\ Headers % FileAlignment = 0
  BY SizesFacts
<1>2. \A n \in {TextSize, DataSize, ResourceSize} : RawSize(n) \in Nat /\ n <= RawSize(n)
  BY <1>1, RawSizeIs
<1>3. /\ text_rva \in Nat /\ data_rva \in Nat /\ ResourceRva \in Nat
      /\ SectionAlignment \in Nat \ {0} /\ text_rva = SectionAlignment
      /\ text_rva % SectionAlignment = 0 /\ ResourceRva % SectionAlignment = 0
      /\ text_rva + TextSize <= ResourceRva
      /\ HasData => /\ data_rva % SectionAlignment = 0
                    /\ text_rva + TextSize <= data_rva
                    /\ data_rva + DataSize <= ResourceRva
      /\ AfterText \in Nat /\ AfterText % FileAlignment = 0
      /\ AfterData \in Nat /\ AfterData % FileAlignment = 0
      /\ AfterText = Headers + RawSize(TextSize)
      /\ AfterData = AfterText + RawSize(DataSize)
  BY SectionTableFacts
<1>4. CASE HasData
  <2>1. SectionTable = <<Entry(text_rva, TextSize, Headers),
                         Entry(data_rva, DataSize, AfterText),
                         Entry(ResourceRva, ResourceSize, AfterData)>>
    BY <1>4, SectionTableIs
  <2>2. /\ Len(SectionTable) = 3
        /\ SectionTable[1] = Entry(text_rva, TextSize, Headers)
        /\ SectionTable[2] = Entry(data_rva, DataSize, AfterText)
        /\ SectionTable[3] = Entry(ResourceRva, ResourceSize, AfterData)
    BY <2>1
  <2>3. /\ SectionTable[1].rva = text_rva /\ SectionTable[1].size = TextSize
        /\ SectionTable[1].raw_offset = Headers
        /\ SectionTable[1].raw_size = RawSize(TextSize)
        /\ SectionTable[2].rva = data_rva /\ SectionTable[2].size = DataSize
        /\ SectionTable[2].raw_offset = AfterText
        /\ SectionTable[2].raw_size = RawSize(DataSize)
        /\ SectionTable[3].rva = ResourceRva /\ SectionTable[3].size = ResourceSize
        /\ SectionTable[3].raw_offset = AfterData
        /\ SectionTable[3].raw_size = RawSize(ResourceSize)
    BY <2>2 DEF Entry
  <2>4. SectionTable \in Seq([rva : Nat, size : Nat, raw_offset : Nat, raw_size : Nat])
    BY <1>1, <1>2, <1>3, <2>1 DEF Entry
  <2>5. \A a \in 1..3 :
          /\ SectionTable[a].rva % SectionAlignment = 0
          /\ SectionTable[a].rva >= SectionAlignment
          /\ SectionTable[a].raw_offset % FileAlignment = 0
          /\ SectionTable[a].raw_offset >= HeadersSize[3]
          /\ SectionTable[a].size <= SectionTable[a].raw_size
    <3>. SUFFICES ASSUME NEW a \in 1..3
                  PROVE  /\ SectionTable[a].rva % SectionAlignment = 0
                         /\ SectionTable[a].rva >= SectionAlignment
                         /\ SectionTable[a].raw_offset % FileAlignment = 0
                         /\ SectionTable[a].raw_offset >= HeadersSize[3]
                         /\ SectionTable[a].size <= SectionTable[a].raw_size
      OBVIOUS
    <3>1. HeadersSize[3] \in Nat /\ HeadersSize[3] <= Headers
      BY <1>1, <1>4
    <3>2. CASE a = 1
      BY <1>1, <1>2, <1>3, <1>4, <2>3, <3>1, <3>2
    <3>3. CASE a = 2
      BY <1>1, <1>2, <1>3, <1>4, <2>3, <3>1, <3>3
    <3>4. CASE a = 3
      BY <1>1, <1>2, <1>3, <1>4, <2>3, <3>1, <3>4
    <3>. QED  BY <3>2, <3>3, <3>4
  <2>6. \A a, b \in 1..3 : a < b =>
          /\ SectionTable[a].rva + SectionTable[a].size <= SectionTable[b].rva
          /\ SectionTable[a].raw_offset + SectionTable[a].raw_size
               <= SectionTable[b].raw_offset
    <3>. SUFFICES ASSUME NEW a \in 1..3, NEW b \in 1..3, a < b
                  PROVE  /\ SectionTable[a].rva + SectionTable[a].size
                              <= SectionTable[b].rva
                         /\ SectionTable[a].raw_offset + SectionTable[a].raw_size
                              <= SectionTable[b].raw_offset
      OBVIOUS
    <3>1. CASE a = 1 /\ b = 2
      BY <1>1, <1>2, <1>3, <1>4, <2>3, <3>1
    <3>2. CASE a = 1 /\ b = 3
      BY <1>1, <1>2, <1>3, <1>4, <2>3, <3>2
    <3>3. CASE a = 2 /\ b = 3
      BY <1>1, <1>2, <1>3, <1>4, <2>3, <3>3
    <3>. QED  BY <3>1, <3>2, <3>3
  <2>. QED  BY <1>4, <2>2, <2>4, <2>5, <2>6
<1>5. CASE ~HasData
  <2>1. SectionTable = <<Entry(text_rva, TextSize, Headers),
                         Entry(ResourceRva, ResourceSize, AfterText)>>
    BY <1>5, SectionTableIs
  <2>2. /\ Len(SectionTable) = 2
        /\ SectionTable[1] = Entry(text_rva, TextSize, Headers)
        /\ SectionTable[2] = Entry(ResourceRva, ResourceSize, AfterText)
    BY <2>1
  <2>3. /\ SectionTable[1].rva = text_rva /\ SectionTable[1].size = TextSize
        /\ SectionTable[1].raw_offset = Headers
        /\ SectionTable[1].raw_size = RawSize(TextSize)
        /\ SectionTable[2].rva = ResourceRva /\ SectionTable[2].size = ResourceSize
        /\ SectionTable[2].raw_offset = AfterText
        /\ SectionTable[2].raw_size = RawSize(ResourceSize)
    BY <2>2 DEF Entry
  <2>4. SectionTable \in Seq([rva : Nat, size : Nat, raw_offset : Nat, raw_size : Nat])
    BY <1>1, <1>2, <1>3, <2>1 DEF Entry
  <2>5. \A a \in 1..2 :
          /\ SectionTable[a].rva % SectionAlignment = 0
          /\ SectionTable[a].rva >= SectionAlignment
          /\ SectionTable[a].raw_offset % FileAlignment = 0
          /\ SectionTable[a].raw_offset >= HeadersSize[2]
          /\ SectionTable[a].size <= SectionTable[a].raw_size
    <3>. SUFFICES ASSUME NEW a \in 1..2
                  PROVE  /\ SectionTable[a].rva % SectionAlignment = 0
                         /\ SectionTable[a].rva >= SectionAlignment
                         /\ SectionTable[a].raw_offset % FileAlignment = 0
                         /\ SectionTable[a].raw_offset >= HeadersSize[2]
                         /\ SectionTable[a].size <= SectionTable[a].raw_size
      OBVIOUS
    <3>1. HeadersSize[2] \in Nat /\ HeadersSize[2] <= Headers
      BY <1>1, <1>5
    <3>2. CASE a = 1
      BY <1>1, <1>2, <1>3, <1>5, <2>3, <3>1, <3>2
    <3>3. CASE a = 2
      BY <1>1, <1>2, <1>3, <1>5, <2>3, <3>1, <3>3
    <3>. QED  BY <3>2, <3>3
  <2>6. \A a, b \in 1..2 : a < b =>
          /\ SectionTable[a].rva + SectionTable[a].size <= SectionTable[b].rva
          /\ SectionTable[a].raw_offset + SectionTable[a].raw_size
               <= SectionTable[b].raw_offset
    <3>. SUFFICES ASSUME NEW a \in 1..2, NEW b \in 1..2, a < b
                  PROVE  /\ SectionTable[a].rva + SectionTable[a].size
                              <= SectionTable[b].rva
                         /\ SectionTable[a].raw_offset + SectionTable[a].raw_size
                              <= SectionTable[b].raw_offset
      OBVIOUS
    <3>1. CASE a = 1 /\ b = 2
      BY <1>1, <1>2, <1>3, <1>5, <2>3, <3>1
    <3>. QED  BY <3>1
  <2>. QED  BY <1>5, <2>2, <2>4, <2>5, <2>6
<1>. QED  BY <1>4, <1>5

Padded(cells) == cells \o Fill(RawSize(Len(cells)) - Len(cells), Zero)

\* A chunk keeps its cells and fills whole file units.
LEMMA PaddedIs ==
  ASSUME NEW cells \in Seq(Cell)
  PROVE  /\ Padded(cells) \in Seq(Cell) /\ Len(Padded(cells)) = RawSize(Len(cells))
         /\ \A k \in 1..Len(cells) : Padded(cells)[k] = cells[k]
<1>. DEFINE n == Len(cells)
            pad == Fill(RawSize(n) - n, Zero)
<1>1. n \in Nat /\ RawSize(n) \in Nat /\ RawSize(n) - n \in Nat
  BY RawSizeIs
<1>2. pad \in Seq(Cell) /\ Len(pad) = RawSize(n) - n
  <2>1. Zero \in Cell
    BY DEF Zero, Cell
  <2>. QED  BY <1>1, <2>1 DEF Fill
<1>3. Padded(cells) = cells \o pad
  BY DEF Padded
<1>. HIDE DEF pad
<1>4. /\ cells \o pad \in Seq(Cell) /\ Len(cells \o pad) = n + Len(pad)
      /\ \A k \in 1..n : (cells \o pad)[k] = cells[k]
  BY <1>2, Joined
<1>. QED  BY <1>1, <1>2, <1>3, <1>4

HeaderCells == Fill(HeadersSize[IF HasData THEN 3 ELSE 2], Fixed("headers"))
ResourceCells == Fill(ResourceSize, Fixed("resource"))

\* The chunks, by their names.
LEMMA ChunksAreNamed ==
  Chunks = IF HasData
           THEN <<Padded(HeaderCells), Padded(out["text"]), Padded(out["data"]),
                  Padded(ResourceCells)>>
           ELSE <<Padded(HeaderCells), Padded(out["text"]), Padded(ResourceCells)>>
BY DEF Chunks, Padded, HeaderCells, ResourceCells

\* Every chunk is made of cells and has the length the section table gives it.
LEMMA ChunksFacts ==
  ASSUME TypeOK
  PROVE  /\ Len(Chunks) = IF HasData THEN 4 ELSE 3
         /\ \A k \in 1..Len(Chunks) : Chunks[k] \in Seq(Cell)
         /\ Len(Chunks[1]) = Headers
         /\ Chunks[2] = Padded(out["text"]) /\ Len(Chunks[2]) = RawSize(TextSize)
         /\ HasData => Chunks[3] = Padded(out["data"]) /\ Len(Chunks[3]) = RawSize(DataSize)
         /\ Len(Chunks[Len(Chunks)]) = RawSize(ResourceSize)
<1>1. /\ out["text"] \in Seq(Cell) /\ out["data"] \in Seq(Cell)
      /\ HeadersSize[IF HasData THEN 3 ELSE 2] \in Nat /\ ResourceSize \in Nat
  BY SizesFacts
<1>2. /\ HeaderCells \in Seq(Cell)
      /\ Len(HeaderCells) = HeadersSize[IF HasData THEN 3 ELSE 2]
  <2>1. Fixed("headers") \in Cell
    BY DEF Fixed, Cell
  <2>. QED  BY <1>1, <2>1 DEF HeaderCells, Fill
<1>3. ResourceCells \in Seq(Cell) /\ Len(ResourceCells) = ResourceSize
  <2>1. Fixed("resource") \in Cell
    BY DEF Fixed, Cell
  <2>. QED  BY <1>1, <2>1 DEF ResourceCells, Fill
<1>4. /\ Padded(HeaderCells) \in Seq(Cell) /\ Len(Padded(HeaderCells)) = Headers
      /\ Padded(ResourceCells) \in Seq(Cell)
      /\ Len(Padded(ResourceCells)) = RawSize(ResourceSize)
      /\ Padded(out["text"]) \in Seq(Cell) /\ Len(Padded(out["text"])) = RawSize(TextSize)
      /\ Padded(out["data"]) \in Seq(Cell) /\ Len(Padded(out["data"])) = RawSize(DataSize)
  BY <1>1, <1>2, <1>3, PaddedIs DEF Headers, RawSize, TextSize, DataSize
<1>5. CASE HasData
  BY <1>4, <1>5, ChunksAreNamed
<1>6. CASE ~HasData
  BY <1>4, <1>6, ChunksAreNamed
<1>. QED  BY <1>5, <1>6

\* The image is opened with its section table.
LEMMA LayoutOpen ==
  ASSUME LayoutInv, OpenImage
  PROVE  LayoutInv'
<1>1. TypeOK /\ StageInv /\ AddressesInv /\ stage = "relocate"
  BY DEF LayoutInv, OpenImage
<1>2. /\ image' = SectionTable /\ output' = << >> /\ item' = 1 /\ stage' = "write"
      /\ UNCHANGED <<ok, delete_object, object_file, object, input_sections, out,
                     text_rva, data_rva, entry_rva, section>>
  BY DEF OpenImage, Primary, linked
<1>3. image' \in Seq([rva : Nat, size : Nat, raw_offset : Nat, raw_size : Nat])
  BY <1>1, <1>2, SectionTableIsOrdered
<1>4. TypeOK'
  BY <1>1, <1>2, <1>3 DEF TypeOK, SectionCount
<1>5. StageInv' /\ PlacesInv' /\ AddressesInv'
  BY <1>1, <1>2, LayoutMoved
<1>6. CellsInv'
  BY <1>1, <1>2 DEF LayoutInv, CellsInv, Linking
<1>7. ImageSectionsDoNotOverlap'
  <2>1. /\ \A a \in 1..Len(image') :
             /\ image'[a].rva % SectionAlignment = 0 /\ image'[a].rva >= SectionAlignment
             /\ image'[a].raw_offset % FileAlignment = 0
             /\ image'[a].raw_offset >= HeadersSize[Len(image')]
             /\ image'[a].size <= image'[a].raw_size
        /\ \A a, b \in 1..Len(image') : a < b =>
             /\ image'[a].rva + image'[a].size <= image'[b].rva
             /\ image'[a].raw_offset + image'[a].raw_size <= image'[b].raw_offset
    BY <1>1, <1>2, SectionTableIsOrdered
  <2>2. \A a, b \in 1..Len(image') : a # b => a < b \/ b < a
    BY <1>3
  <2>. QED  BY <2>1, <2>2 DEF ImageSectionsDoNotOverlap, Disjoint
<1>. QED  BY <1>4, <1>5, <1>6, <1>7 DEF LayoutInv

\* Chunks are written, the file is closed, the context disposed.
LEMMA LayoutWrite ==
  ASSUME LayoutInv, WriteChunk
  PROVE  LayoutInv'
<1>1. TypeOK /\ StageInv /\ stage = "write" /\ item \in 1..Len(Chunks)
  <2>1. TypeOK /\ StageInv /\ stage = "write" /\ item <= Len(Chunks)
    BY DEF LayoutInv, WriteChunk
  <2>2. item \in Nat \ {0} /\ Len(Chunks) \in Nat
    BY <2>1, ChunksFacts DEF TypeOK, StageInv
  <2>. QED  BY <2>1, <2>2
<1>2. /\ output' = output \o Chunks[item] /\ item' = item + 1
      /\ UNCHANGED <<stage, ok, delete_object, object_file, object, input_sections,
                     out, text_rva, data_rva, entry_rva, section, image>>
  BY DEF WriteChunk, linked
<1>3. output' \in Seq(Cell)
  BY <1>1, <1>2, ChunksFacts, Joined DEF TypeOK
<1>4. item' \in Nat \ {0}
  BY <1>1, <1>2, ChunksFacts
<1>5. TypeOK'
  BY <1>1, <1>2, <1>3, <1>4 DEF TypeOK, SectionCount
<1>6. StageInv' /\ PlacesInv' /\ AddressesInv'
  BY <1>1, <1>2, <1>4, LayoutMoved
<1>7. CellsInv' /\ ImageSectionsDoNotOverlap'
  BY <1>1, <1>2 DEF LayoutInv, CellsInv, Linking, ImageSectionsDoNotOverlap
<1>. QED  BY <1>5, <1>6, <1>7 DEF LayoutInv

LEMMA LayoutEnd ==
  ASSUME LayoutInv, CloseImage \/ Cleanup
  PROVE  LayoutInv'
<1>1. /\ TypeOK /\ StageInv /\ ImageSectionsDoNotOverlap
      /\ stage' \in {"cleanup", "done"}
      /\ stage = "write" \/ stage = "cleanup"
      /\ stage' = "cleanup" => object_file' = object_file
      /\ UNCHANGED <<delete_object, object, input_sections, text_rva, data_rva,
                     entry_rva, section, item, image, output>>
  BY DEF LayoutInv, CloseImage, Cleanup, Primary, linked
<1>2. out' \in [Kinds -> Seq(Cell)] /\ object_file' \in {"absent", "partial", "whole"}
  <2>1. CASE CloseImage
    BY <1>1, <2>1 DEF CloseImage, linked, TypeOK
  <2>2. CASE Cleanup
    BY <1>1, <2>2 DEF Cleanup, TypeOK
  <2>. QED  BY <2>1, <2>2
<1>3. ok' \in BOOLEAN
  BY <1>1 DEF CloseImage, Cleanup, TypeOK
<1>4. TypeOK'
  BY <1>1, <1>2, <1>3 DEF TypeOK, SectionCount
<1>5. StageInv'
  <2>1. stage' = "cleanup" => object_file' = "whole" /\ object' \in Objects
    BY <1>1 DEF StageInv, CloseImage, Cleanup, Primary
  <2>2. Linking \/ Written \/ ok' = FALSE
    <3>1. CASE CloseImage
      BY <3>1 DEF CloseImage, Linking
    <3>2. CASE Cleanup
      BY <1>1, <3>2 DEF Cleanup, Written, TypeOK
    <3>. QED  BY <3>1, <3>2
  <2>. QED  BY <1>1, <2>1, <2>2 DEF StageInv, Linking, Written, Malformed, SectionCount
<1>6. CellsInv' /\ PlacesInv' /\ AddressesInv'
  BY <1>1 DEF CellsInv, PlacesInv, AddressesInv, Linking
<1>7. ImageSectionsDoNotOverlap'
  BY <1>1 DEF ImageSectionsDoNotOverlap
<1>. QED  BY <1>4, <1>5, <1>6, <1>7 DEF LayoutInv

\* The failures are abandonments.
LEMMA FailuresAbandon ==
  (ReadFails \/ PlaceFails \/ NoMain \/ OpenFails \/ WriteFails) => Abandoned
BY DEF ReadFails, PlaceFails, NoMain, OpenFails, WriteFails, Abandoned

\* Every step keeps the layout.
LEMMA LayoutStep == LayoutInv /\ [Next]_vars => LayoutInv'
<1>. SUFFICES ASSUME LayoutInv, [Next]_vars PROVE LayoutInv'
  OBVIOUS
<1>1. CASE UNCHANGED vars
  BY <1>1 DEF vars, linked, LayoutInv, TypeOK, StageInv, CellsInv, PlacesInv, AddressesInv,
     ImageSectionsDoNotOverlap, Linking, Written, SectionCount, PlacedSoFar, Placed, End,
     Malformed, DataRva, OutputRva
<1>2. CASE Abandoned
  BY <1>2, LayoutAbandoned
<1>3. CASE RunNasm \/ NasmFails
  BY <1>3, LayoutNasm
<1>4. CASE InitializeInputSections
  BY <1>4, LayoutRead
<1>5. CASE PlaceSection
  BY <1>5, LayoutPlace
<1>6. CASE AssignAddresses
  BY <1>6, LayoutAddresses
<1>7. CASE (NextSymbol \/ NextSection) /\ ~Abandoned
  BY <1>7, LayoutSearch
<1>8. CASE ApplyRelocation /\ ~Abandoned
  BY <1>8, LayoutRelocate
<1>9. CASE OpenImage
  BY <1>9, LayoutOpen
<1>10. CASE WriteChunk
  BY <1>10, LayoutWrite
<1>11. CASE CloseImage \/ Cleanup
  BY <1>11, LayoutEnd
<1>. QED
  BY <1>1, <1>2, <1>3, <1>4, <1>5, <1>6, <1>7, <1>8, <1>9, <1>10, <1>11, FailuresAbandon
  DEF Next

-----------------------------------------------------------------------------
(* No section over another.                                                 *)

\* What a link lays out is laid out without overlaps, and can be addressed.
LEMMA LayoutIsApart == LayoutInv => SectionsDoNotOverlap
<1>. SUFFICES ASSUME LayoutInv PROVE SectionsDoNotOverlap
  OBVIOUS
<1>1. TypeOK /\ StageInv /\ PlacesInv
  BY DEF LayoutInv
<1>2. \A i \in PlacedSoFar :
        /\ Linking /\ i \in 1..Len(input_sections)
        /\ input_sections[i] \in Placements
  <2>. SUFFICES ASSUME NEW i \in PlacedSoFar
                PROVE  /\ Linking /\ i \in 1..Len(input_sections)
                       /\ input_sections[i] \in Placements
    OBVIOUS
  <2>1. Linking /\ i \in 1..Len(input_sections)
    BY DEF PlacedSoFar, Linking
  <2>2. input_sections \in Seq(Placements)
    BY <1>1 DEF TypeOK, Placements
  <2>. QED  BY <2>1, <2>2
<1>3. InputsDoNotOverlap
  <2>1. \A i, j \in PlacedSoFar : i # j => i < j \/ j < i
    BY <1>2
  <2>. QED  BY <1>1, <1>2, <2>1 DEF InputsDoNotOverlap, PlacesInv, End, Disjoint, Buffer
<1>4. AddressesFit
  <2>1. \A i \in PlacedSoFar : input_sections[i].output_rva <= MaxRva
    BY <1>2, SizesAssumption DEF Placements
  <2>. QED  BY <1>1, <2>1, SizesAssumption DEF AddressesFit, TypeOK
<1>. QED  BY <1>3, <1>4 DEF LayoutInv, SectionsDoNotOverlap

\* build_output_sections and write_pe_image (fcc_link.c): for every object and
\* all sizes and alignments, no section lies over another, neither in an output
\* nor in the image, and every address fits 32 bits.
THEOREM SectionsStayApart == Spec => []SectionsDoNotOverlap
<1>. QED  BY LayoutInit, LayoutStep, LayoutIsApart, PTL DEF Spec

-----------------------------------------------------------------------------
(* Writing the file.                                                        *)

\* Where the chunks begin, by the section table.
LEMMA ChunkPlaces ==
  ASSUME TypeOK, image = SectionTable
  PROVE  /\ Len(image) = IF HasData THEN 3 ELSE 2
         /\ Len(Chunks) = Len(image) + 1
         /\ image[1].raw_offset = Headers /\ image[1].size = TextSize
         /\ image[2].raw_offset = AfterText
         /\ HasData => image[3].raw_offset = AfterData /\ image[2].size = DataSize
         /\ FileSize = IF HasData THEN AfterData + RawSize(ResourceSize)
                       ELSE AfterText + RawSize(ResourceSize)
         /\ Headers \in Nat /\ TextSize \in Nat /\ DataSize \in Nat
         /\ RawSize(TextSize) \in Nat /\ TextSize <= RawSize(TextSize)
         /\ RawSize(DataSize) \in Nat /\ DataSize <= RawSize(DataSize)
         /\ RawSize(ResourceSize) \in Nat
         /\ AfterText = Headers + RawSize(TextSize) /\ AfterText \in Nat
         /\ AfterData = AfterText + RawSize(DataSize) /\ AfterData \in Nat
<1>1. Len(Chunks) = IF HasData THEN 4 ELSE 3
  BY ChunksFacts
<1>2. /\ Headers \in Nat /\ TextSize \in Nat /\ DataSize \in Nat
      /\ ResourceSize \in Nat
  BY SizesFacts
<1>3. /\ RawSize(TextSize) \in Nat /\ TextSize <= RawSize(TextSize)
      /\ RawSize(DataSize) \in Nat /\ DataSize <= RawSize(DataSize)
      /\ RawSize(ResourceSize) \in Nat
  BY <1>2, RawSizeIs
<1>4. /\ AfterText = Headers + RawSize(TextSize) /\ AfterText \in Nat
      /\ AfterData = AfterText + RawSize(DataSize) /\ AfterData \in Nat
  BY <1>2, <1>3 DEF AfterText, AfterData
<1>5. CASE HasData
  <2>1. /\ Len(image) = 3
        /\ image[1] = Entry(text_rva, TextSize, Headers)
        /\ image[2] = Entry(data_rva, DataSize, AfterText)
        /\ image[3] = Entry(ResourceRva, ResourceSize, AfterData)
    BY <1>5, SectionTableIs
  <2>2. /\ image[1].raw_offset = Headers /\ image[1].size = TextSize
        /\ image[2].raw_offset = AfterText /\ image[2].size = DataSize
        /\ image[3].raw_offset = AfterData
        /\ image[3].raw_size = RawSize(ResourceSize)
    BY <2>1 DEF Entry
  <2>. QED  BY <1>1, <1>2, <1>3, <1>4, <1>5, <2>1, <2>2 DEF FileSize
<1>6. CASE ~HasData
  <2>1. /\ Len(image) = 2
        /\ image[1] = Entry(text_rva, TextSize, Headers)
        /\ image[2] = Entry(ResourceRva, ResourceSize, AfterText)
    BY <1>6, SectionTableIs
  <2>2. /\ image[1].raw_offset = Headers /\ image[1].size = TextSize
        /\ image[2].raw_offset = AfterText
        /\ image[2].raw_size = RawSize(ResourceSize)
    BY <2>1 DEF Entry
  <2>. QED  BY <1>1, <1>2, <1>3, <1>4, <1>6, <2>1, <2>2 DEF FileSize
<1>. QED  BY <1>5, <1>6

\* Where the writer stands, chunk by chunk.
LEMMA BeforeIs ==
  ASSUME TypeOK, image = SectionTable
  PROVE  /\ Before(1) = 0 /\ Before(2) = Headers /\ Before(3) = AfterText
         /\ HasData => Before(4) = AfterData
         /\ Before(Len(image) + 2) = FileSize
<1>1. /\ Len(image) = IF HasData THEN 3 ELSE 2
      /\ image[1].raw_offset = Headers /\ image[2].raw_offset = AfterText
      /\ HasData => image[3].raw_offset = AfterData
  BY ChunkPlaces
<1>2. CASE HasData
  BY <1>1, <1>2 DEF Before
<1>3. CASE ~HasData
  BY <1>1, <1>3 DEF Before
<1>. QED  BY <1>2, <1>3

\* A chunk is appended where the section table wants it.
LEMMA WriteInvChunk ==
  ASSUME LayoutInv, WriteInv, WriteChunk
  PROVE  WriteInv'
<1>1. /\ TypeOK /\ StageInv /\ stage = "write" /\ image = SectionTable
      /\ Len(output) = Before(item) /\ output \in Seq(Cell)
      /\ InFile(1, out["text"])
      /\ HasData => InFile(2, out["data"])
  BY DEF LayoutInv, WriteInv, WriteChunk, TypeOK
<1>2. /\ output' = output \o Chunks[item] /\ item' = item + 1 /\ ok' = FALSE
      /\ UNCHANGED <<stage, out, image, text_rva, data_rva>>
  BY <1>1 DEF WriteChunk, linked, TypeOK, StageInv
<1>3. /\ Len(image) = IF HasData THEN 3 ELSE 2
      /\ Len(Chunks) = Len(image) + 1
      /\ image[1].raw_offset = Headers /\ image[2].raw_offset = AfterText
  BY <1>1, ChunkPlaces
<1>4. /\ item \in 1..Len(image) + 1
      /\ item = 1 \/ item = 2 \/ (item = 3 /\ HasData) \/ item = Len(image) + 1
  <2>1. item \in 1..Len(image) + 2 /\ item <= Len(Chunks)
    BY <1>1 DEF WriteInv, WriteChunk
  <2>. QED  BY <1>3, <2>1
<1>5. /\ Headers \in Nat /\ TextSize \in Nat /\ DataSize \in Nat
      /\ RawSize(TextSize) \in Nat /\ TextSize <= RawSize(TextSize)
      /\ RawSize(DataSize) \in Nat /\ DataSize <= RawSize(DataSize)
      /\ AfterText = Headers + RawSize(TextSize) /\ AfterText \in Nat
      /\ AfterData = AfterText + RawSize(DataSize) /\ AfterData \in Nat
  BY <1>1, ChunkPlaces
<1>6. /\ Chunks[item] \in Seq(Cell)
      /\ item = 1 => Len(Chunks[item]) = Headers
      /\ item = 2 => /\ Chunks[item] = Padded(out["text"])
                     /\ Len(Chunks[item]) = RawSize(TextSize)
      /\ HasData /\ item = 3 => /\ Chunks[item] = Padded(out["data"])
                                /\ Len(Chunks[item]) = RawSize(DataSize)
      /\ item = Len(image) + 1 => Len(Chunks[item]) = RawSize(ResourceSize)
  BY <1>1, <1>3, <1>4, ChunksFacts
<1>7. /\ Len(output') = Len(output) + Len(Chunks[item]) /\ output' \in Seq(Cell)
      /\ \A k \in 1..Len(output) : output'[k] = output[k]
      /\ \A k \in 1..Len(Chunks[item]) : output'[Len(output) + k] = Chunks[item][k]
  <2>1. output \in Seq(Cell) /\ Chunks[item] \in Seq(Cell)
    BY <1>1, <1>6
  <2>. QED  BY <1>2, <2>1, Joined
<1>8. /\ Before(1) = 0 /\ Before(2) = Headers /\ Before(3) = AfterText
      /\ HasData => Before(4) = AfterData
      /\ Before(Len(image) + 2) = FileSize
  BY <1>1, BeforeIs
<1>9. Len(output') = Before(item + 1)
  <2>1. CASE item = 1
    <3>1. Before(item) = 0 /\ Before(item + 1) = Headers
      BY <1>8, <2>1
    <3>. QED  BY <1>1, <1>5, <1>6, <1>7, <2>1, <3>1
  <2>2. CASE item = 2
    <3>1. Before(item) = Headers /\ Before(item + 1) = AfterText
      BY <1>8, <2>2
    <3>. QED  BY <1>1, <1>5, <1>6, <1>7, <2>2, <3>1
  <2>3. CASE item = 3 /\ HasData
    <3>1. Before(item) = AfterText /\ Before(item + 1) = AfterData
      BY <1>8, <2>3
    <3>. QED  BY <1>1, <1>5, <1>6, <1>7, <2>3, <3>1
  <2>4. CASE item = Len(image) + 1
    <3>1. Before(item) = IF HasData THEN AfterData ELSE AfterText
      BY <1>3, <1>8, <2>4
    <3>2. item + 1 = Len(image) + 2
      BY <1>3, <2>4
    <3>3. FileSize = IF HasData THEN AfterData + RawSize(ResourceSize)
                     ELSE AfterText + RawSize(ResourceSize)
      BY <1>1, ChunkPlaces
    <3>. QED  BY <1>1, <1>6, <1>7, <1>8, <2>4, <3>1, <3>2, <3>3
  <2>. QED  BY <1>4, <2>1, <2>2, <2>3, <2>4
<1>10. item + 1 > 2 => \A k \in 1..TextSize : output'[Headers + k] = out["text"][k]
  <2>. SUFFICES ASSUME item + 1 > 2, NEW k \in 1..TextSize
                PROVE  output'[Headers + k] = out["text"][k]
    OBVIOUS
  <2>1. CASE item = 2
    <3>1. k \in 1..Len(Chunks[item])
      BY <1>5, <1>6, <2>1
    <3>2. output'[Headers + k] = Chunks[item][k]
      BY <1>1, <1>7, <1>8, <2>1, <3>1
    <3>3. Padded(out["text"])[k] = out["text"][k]
      BY <1>1, SizesFacts, PaddedIs DEF TextSize
    <3>. QED  BY <1>6, <2>1, <3>2, <3>3
  <2>2. CASE item > 2
    <3>1. AfterText <= Len(output)
      <4>1. item = 3 \/ (item = 4 /\ HasData)
        BY <1>3, <1>4, <2>2
      <4>. QED  BY <1>1, <1>5, <1>8, <4>1
    <3>2. output[Headers + k] = out["text"][k]
      BY <1>1, <1>3, <2>2 DEF InFile, TextSize
    <3>3. Headers + k \in 1..Len(output)
      BY <1>1, <1>5, <3>1
    <3>. QED  BY <1>7, <3>2, <3>3
  <2>. QED  BY <1>3, <1>4, <2>1, <2>2
<1>11. HasData /\ item + 1 > 3 =>
         \A k \in 1..DataSize : output'[AfterText + k] = out["data"][k]
  <2>. SUFFICES ASSUME HasData, item + 1 > 3, NEW k \in 1..DataSize
                PROVE  output'[AfterText + k] = out["data"][k]
    OBVIOUS
  <2>1. CASE item = 3
    <3>1. k \in 1..Len(Chunks[item])
      BY <1>5, <1>6, <2>1
    <3>2. output'[AfterText + k] = Chunks[item][k]
      BY <1>1, <1>7, <1>8, <2>1, <3>1
    <3>3. Padded(out["data"])[k] = out["data"][k]
      BY <1>1, SizesFacts, PaddedIs DEF DataSize
    <3>. QED  BY <1>6, <2>1, <3>2, <3>3
  <2>2. CASE item > 3
    <3>1. Len(output) = AfterData
      <4>1. item = 4
        BY <1>3, <1>4, <2>2
      <4>. QED  BY <1>1, <1>8, <4>1
    <3>2. output[AfterText + k] = out["data"][k]
      BY <1>1, <1>3, <2>2 DEF InFile, DataSize
    <3>3. AfterText + k \in 1..Len(output)
      BY <1>5, <3>1
    <3>. QED  BY <1>7, <3>2, <3>3
  <2>. QED  BY <1>3, <1>4, <2>1, <2>2
<1>12. SectionTable' = SectionTable /\ (HasData' <=> HasData) /\ FileSize' = FileSize
  BY <1>2 DEF SectionTable, HasData, FileSize, ResourceRva
<1>13. Len(output') = Before(item)'
  BY <1>2, <1>9, <1>12 DEF Before
<1>14. InFile(1, out["text"])' /\ (HasData' => InFile(2, out["data"])')
  <2>1. item' > 2 => \A k \in 1..Len(out'["text"]) :
                       output'[image'[1].raw_offset + k] = out'["text"][k]
    BY <1>2, <1>3, <1>10 DEF TextSize
  <2>2. HasData' /\ item' > 3 =>
          \A k \in 1..Len(out'["data"]) :
            output'[image'[2].raw_offset + k] = out'["data"][k]
    BY <1>2, <1>3, <1>11, <1>12 DEF DataSize
  <2>. QED  BY <2>1, <2>2 DEF InFile
<1>15. ~Written'
  BY <1>2 DEF Written
<1>16. item' \in 1..Len(image') + 2
  BY <1>2, <1>3, <1>4
<1>. QED  BY <1>1, <1>2, <1>12, <1>13, <1>14, <1>15, <1>16 DEF WriteInv

LEMMA WriteStep == LayoutInv /\ WriteInv /\ [Next]_vars => WriteInv'
<1>. SUFFICES ASSUME LayoutInv, WriteInv, [Next]_vars PROVE WriteInv'
  OBVIOUS
<1>1. TypeOK /\ StageInv
  BY DEF LayoutInv
<1>2. CASE UNCHANGED vars
  BY <1>2 DEF vars, linked, WriteInv, SectionTable, HasData, FileSize, ResourceRva,
     Before, InFile, Written
<1>3. CASE Abandoned
  BY <1>3 DEF Abandoned, Abandon, WriteInv, Written
<1>4. CASE WriteChunk
  BY <1>4, WriteInvChunk
<1>5. CASE OpenImage
  <2>1. /\ image' = SectionTable /\ output' = << >> /\ item' = 1 /\ ok' = FALSE
        /\ UNCHANGED <<out, text_rva, data_rva>>
    BY <1>1, <1>5 DEF OpenImage, linked, TypeOK, StageInv
  <2>2. image' = SectionTable'
    BY <2>1 DEF SectionTable, HasData, ResourceRva
  <2>3. Len(image') \in Nat
    BY <1>1, <1>5, <2>1, SectionTableIsOrdered DEF LayoutInv, OpenImage
  <2>. QED  BY <2>1, <2>2, <2>3 DEF WriteInv, Before, InFile, Written
<1>6. CASE CloseImage
  <2>1. /\ stage = "write" /\ image = SectionTable /\ Len(output) = Before(item)
        /\ item = Len(Chunks) + 1 /\ stage' = "cleanup" /\ UNCHANGED <<image, output>>
    BY <1>6 DEF CloseImage, WriteInv, Primary
  <2>2. Len(image) \in Nat \ {0} /\ item = Len(image) + 2
    BY <1>1, <2>1, ChunkPlaces
  <2>3. Len(output) = FileSize
    BY <2>1, <2>2 DEF Before
  <2>4. image # << >>
    BY <2>2
  <2>. QED  BY <2>1, <2>3, <2>4 DEF WriteInv, FileSize
<1>7. CASE Cleanup
  BY <1>7 DEF Cleanup, Primary, WriteInv, Written, FileSize
<1>8. CASE RunNasm \/ NasmFails \/ InitializeInputSections \/ PlaceSection \/ AssignAddresses
           \/ (NextSymbol /\ ~Abandoned) \/ NextSection \/ (ApplyRelocation /\ ~Abandoned)
  <2>1. stage' \in {"read", "place", "main", "relocate", "done"} /\ ok' = FALSE
    <3>1. CASE NextSymbol /\ ~Abandoned
      BY <1>1, <3>1 DEF NextSymbol, Abandoned, Primary, linked, StageInv, TypeOK
    <3>2. CASE ApplyRelocation /\ ~Abandoned
      BY <1>1, <3>2, AppliedFacts DEF LayoutInv, StageInv, TypeOK
    <3>3. CASE RunNasm \/ NasmFails \/ InitializeInputSections \/ PlaceSection
               \/ AssignAddresses \/ NextSection
      BY <1>1, <3>3 DEF RunNasm, NasmFails, InitializeInputSections, PlaceSection,
         AssignAddresses, NextSection, Primary, StageInv, TypeOK
    <3>. QED  BY <1>8, <3>1, <3>2, <3>3
  <2>. QED  BY <2>1 DEF WriteInv, Written
<1>. QED
  BY <1>2, <1>3, <1>4, <1>5, <1>6, <1>7, <1>8, FailuresAbandon DEF Next
-----------------------------------------------------------------------------
(* What the caller sees.                                                    *)

Result == IF stage # "done" THEN "pending" ELSE IF ok THEN "linked" ELSE "failed"

Executable ==
  IF image = << >> THEN "kept"
  ELSE IF ok /\ Len(output) = FileSize THEN "whole" ELSE "partial"

\* What the caller sees stays as it was.
Unseen == UNCHANGED <<Result, ~delete_object, object_file, Executable>>

LEMMA WriteInit == Init => WriteInv
BY DEF Init, WriteInv, Written

\* A step within the link leaves what the caller sees alone.
LEMMA InnerStepsAreUnseen ==
  ASSUME TypeOK, StageInv, stage \notin {"done", "cleanup"}, stage' # "done",
         ok' = FALSE, UNCHANGED <<delete_object, object_file, image>>
  PROVE  Unseen
<1>1. ok = FALSE /\ stage # "done"
  BY DEF StageInv, TypeOK
<1>. QED  BY <1>1 DEF Unseen, Result, Executable

\* Every step of a link is a step of the promise, or is not seen.
LEMMA PromiseStep ==
  ASSUME LayoutInv, WriteInv, WriteInv', Next
  PROVE  Promise!Next \/ Unseen
<1>1. TypeOK /\ StageInv
  BY DEF LayoutInv
<1>2. CASE Abandoned
  BY <1>1, <1>2, InnerStepsAreUnseen DEF Abandoned, Abandon, linked
<1>3. CASE RunNasm
  <2>1. stage = "nasm" /\ image = << >> /\ stage' = "read" /\ object_file' = "whole"
        /\ UNCHANGED <<ok, delete_object, image, output>>
    BY <1>1, <1>3 DEF RunNasm, Primary, StageInv
  <2>2. Promise!Assemble
    BY <2>1 DEF Promise!Assemble, Promise!Temporaries
  <2>. QED  BY <2>2 DEF Promise!Next
<1>4. CASE NasmFails
  <2>1. /\ stage = "nasm" /\ image = << >> /\ stage' = "done" /\ ok' = FALSE
        /\ object_file' \in {"absent", "partial"}
        /\ UNCHANGED <<delete_object, image, output>>
    BY <1>1, <1>4 DEF NasmFails, StageInv
  <2>2. [ok |-> FALSE, executable |-> "kept", temporary |-> object_file']
          \in Promise!LinkOutcomes(~delete_object)
    BY <2>1 DEF Promise!LinkOutcomes, Promise!Temporaries
  <2>3. Promise!Return
    BY <2>1, <2>2 DEF Promise!Return
  <2>. QED  BY <2>3 DEF Promise!Next
<1>5. CASE OpenImage
  <2>1. /\ stage = "relocate" /\ ok = FALSE /\ image = << >> /\ stage' = "write"
        /\ image' = SectionTable /\ UNCHANGED <<ok, delete_object, object_file>>
    BY <1>1, <1>5 DEF OpenImage, Primary, StageInv, TypeOK
  <2>2. SectionTable # << >>
    BY DEF SectionTable
  <2>3. Promise!Write
    BY <2>1, <2>2 DEF Promise!Write
  <2>. QED  BY <2>3 DEF Promise!Next
<1>6. CASE CloseImage
  <2>1. /\ stage = "write" /\ ok = FALSE /\ stage' = "cleanup" /\ ok' = TRUE
        /\ UNCHANGED <<delete_object, object_file, image, output>>
    BY <1>1, <1>6 DEF CloseImage, Primary, StageInv, TypeOK
  <2>2. image' # << >> /\ Len(output') = FileSize'
    BY <2>1 DEF WriteInv, Written
  <2>3. Promise!Write
    BY <2>1, <2>2 DEF Promise!Write
  <2>. QED  BY <2>3 DEF Promise!Next
<1>7. CASE Cleanup
  <2>1. /\ stage = "cleanup" /\ object_file = "whole" /\ stage' = "done"
        /\ object_file' = IF delete_object THEN "absent" ELSE "whole"
        /\ UNCHANGED <<ok, delete_object, image, output>>
    BY <1>1, <1>7 DEF Cleanup, Primary, StageInv
  <2>2. FileSize' = FileSize
    BY <2>1 DEF FileSize
  <2>3. CASE ok
    <3>1. Executable = "whole"
      BY <2>1, <2>3 DEF WriteInv, Written, Executable
    <3>2. [ok |-> TRUE, executable |-> "whole", temporary |-> object_file']
            \in Promise!LinkOutcomes(~delete_object)
      BY <2>1 DEF Promise!LinkOutcomes
    <3>3. Promise!Return
      BY <2>1, <2>2, <2>3, <3>1, <3>2 DEF Promise!Return, Executable
    <3>. QED  BY <3>3 DEF Promise!Next
  <2>4. CASE ~ok
    <3>1. Executable \in {"kept", "partial"}
      BY <2>4 DEF Executable
    <3>2. [ok |-> FALSE, executable |-> Executable, temporary |-> object_file']
            \in Promise!LinkOutcomes(~delete_object)
      BY <2>1, <3>1 DEF Promise!LinkOutcomes, Promise!Temporaries
    <3>3. Promise!Return
      BY <2>1, <2>2, <2>4, <3>1, <3>2 DEF Promise!Return, Executable
    <3>. QED  BY <3>3 DEF Promise!Next
  <2>. QED  BY <2>3, <2>4
<1>8. CASE InitializeInputSections \/ PlaceSection \/ AssignAddresses
           \/ (NextSymbol /\ ~Abandoned) \/ NextSection
           \/ (ApplyRelocation /\ ~Abandoned) \/ WriteChunk
  <2>1. /\ stage \notin {"done", "cleanup"} /\ stage' # "done" /\ ok' = FALSE
        /\ UNCHANGED <<delete_object, object_file, image>>
    <3>1. CASE NextSymbol /\ ~Abandoned
      BY <1>1, <3>1 DEF NextSymbol, Abandoned, Primary, linked, StageInv, TypeOK
    <3>2. CASE ApplyRelocation /\ ~Abandoned
      BY <1>1, <3>2 DEF ApplyRelocation, Abandoned, linked, StageInv, TypeOK
    <3>3. CASE InitializeInputSections \/ PlaceSection \/ AssignAddresses
               \/ NextSection \/ WriteChunk
      BY <1>1, <3>3 DEF InitializeInputSections, PlaceSection, AssignAddresses,
         NextSection, WriteChunk, Primary, StageInv, TypeOK
    <3>. QED  BY <1>8, <3>1, <3>2, <3>3
  <2>. QED  BY <1>1, <2>1, InnerStepsAreUnseen
<1>. QED
  BY <1>2, <1>3, <1>4, <1>5, <1>6, <1>7, <1>8, FailuresAbandon DEF Next

\* fcc_link_executable (fcc_link.c) implements what the driver relies on, for
\* every object NASM writes: the executable is left alone until it is opened,
\* once, the link reports success only when all of the image was written, and
\* the stage object is gone unless the caller asked to keep it.
THEOREM LinkKeepsPromise == Spec => KeepsLinkPromise
<1>1. Init => Promise!Init
  BY DEF Init, Promise!Init
<1>2. LayoutInv /\ WriteInv /\ WriteInv' /\ [Next]_vars
        => [Promise!Next]_<<Result, ~delete_object, object_file, Executable>>
  <2>1. UNCHANGED vars => Unseen
    BY DEF vars, linked, Unseen, Result, Executable, FileSize
  <2>. QED  BY <2>1, PromiseStep DEF Unseen
<1>3. Spec => [](LayoutInv /\ WriteInv)
  BY LayoutInit, WriteInit, LayoutStep, WriteStep, PTL DEF Spec
<1>. QED
  BY <1>1, <1>2, <1>3, PTL
  DEF Spec, KeepsLinkPromise, Promise!Spec, Result, Executable
-----------------------------------------------------------------------------
(* The entry point.                                                         *)

\* What was found stays found as long as the object and the addresses stay.
Found(entry) ==
  \E i \in 1..Len(object.symbols) :
    /\ IsSymbol(i) /\ Candidate(object.symbols[i])
    /\ object.symbols[i].name = "main"
    /\ entry = SymbolRva(i - 1)

LEMMA FoundStays ==
  ASSUME Found(entry_rva), UNCHANGED <<object, input_sections, entry_rva>>
  PROVE  Found(entry_rva)'
BY DEF Found, IsSymbol, Candidate, SymbolRva

\* From a symbol, the search goes on to a symbol.
LEMMA AfterSymbolIsSymbol ==
  ASSUME NEW i \in Nat \ {0}, IsSymbol(i), NEW aux \in Nat,
         aux = object.symbols[i].aux
  PROVE  IsSymbol(i + aux + 1)
<1>1. PICK passed \in SUBSET (1..i) :
        /\ {1, i} \subseteq passed
        /\ \A j \in passed \ {i} : j + object.symbols[j].aux + 1 \in passed
  BY DEF IsSymbol
<1>. DEFINE next == i + aux + 1
            extended == passed \cup {next}
<1>2. next \in Nat /\ i < next
  OBVIOUS
<1>3. extended \in SUBSET (1..next)
  <2>1. \A j \in 1..i : j \in 1..next
    BY <1>2
  <2>2. next \in 1..next
    BY <1>2
  <2>. QED  BY <2>1, <2>2
<1>4. \A j \in extended \ {next} : j + object.symbols[j].aux + 1 \in extended
  <2>. SUFFICES ASSUME NEW j \in passed
                PROVE  j + object.symbols[j].aux + 1 \in extended
    OBVIOUS
  <2>1. CASE j = i
    BY <2>1
  <2>2. CASE j # i
    BY <1>1, <2>2
  <2>. QED  BY <2>1, <2>2
<1>5. {1, next} \subseteq extended
  BY <1>1
<1>. QED  BY <1>3, <1>4, <1>5 DEF IsSymbol

LEMMA MainInit == Init => MainInv
BY DEF Init, MainInv, Written

LEMMA MainStep == LayoutInv /\ MainInv /\ [Next]_vars => MainInv'
<1>. SUFFICES ASSUME LayoutInv, MainInv, [Next]_vars PROVE MainInv'
  OBVIOUS
<1>1. TypeOK /\ StageInv
  BY DEF LayoutInv
<1>2. stage \in {"relocate", "write"} \/ Written => Found(entry_rva)
  BY DEF MainInv, Found
<1>3. SUFFICES /\ stage' = "main" => item' \in Nat \ {0} /\ IsSymbol(item)'
               /\ stage' \in {"relocate", "write"} \/ Written' => Found(entry_rva)'
  BY DEF MainInv, Found
<1>4. CASE UNCHANGED vars
  <2>1. UNCHANGED <<stage, ok, item, object, input_sections, entry_rva>>
    BY <1>4 DEF vars, linked
  <2>2. stage = "main" => item \in Nat \ {0} /\ IsSymbol(item)
    BY DEF MainInv
  <2>3. IsSymbol(item)' <=> IsSymbol(item)
    BY <2>1 DEF IsSymbol
  <2>. QED  BY <1>2, <2>1, <2>2, <2>3, FoundStays DEF Written
<1>5. CASE Abandoned
  BY <1>5 DEF Abandoned, Abandon, Written
<1>6. CASE RunNasm \/ NasmFails \/ InitializeInputSections \/ PlaceSection
  BY <1>1, <1>6 DEF RunNasm, NasmFails, InitializeInputSections, PlaceSection, Primary,
     StageInv, TypeOK, Written
<1>7. CASE AssignAddresses
  <2>1. stage' = "main" /\ item' = 1 /\ ok' = FALSE /\ object' = object
    BY <1>1, <1>7 DEF AssignAddresses, Primary, StageInv, TypeOK
  <2>2. {1} \in SUBSET (1..1)
    OBVIOUS
  <2>3. IsSymbol(item)'
    BY <2>1, <2>2 DEF IsSymbol
  <2>. QED  BY <2>1, <2>3 DEF Written
<1>8. CASE NextSymbol /\ ~Abandoned
  <2>1. /\ stage = "main" /\ item \in 1..Len(object.symbols) /\ ok' = FALSE
        /\ object' = object /\ input_sections' = input_sections
        /\ object.symbols[item] \in Symbol /\ IsSymbol(item)
    <3>1. /\ stage = "main" /\ item \in 1..Len(object.symbols)
          /\ object' = object /\ input_sections' = input_sections /\ IsSymbol(item)
      BY <1>1, <1>8 DEF NextSymbol, TypeOK, MainInv
    <3>2. ok' = FALSE
      BY <1>1, <1>8 DEF NextSymbol, StageInv, TypeOK, Abandon
    <3>3. object \in Objects
      BY <1>1, <3>1 DEF StageInv
    <3>. QED  BY <3>1, <3>2, <3>3, ObjectsAreObjects
  <2>2. CASE item' = AfterSymbol(object.symbols[item]) /\ stage' = stage
    <3>1. object.symbols[item].aux \in Nat
      BY <2>1 DEF Symbol
    <3>2. IsSymbol(item + object.symbols[item].aux + 1)
      BY <2>1, <3>1, AfterSymbolIsSymbol
    <3>3. item' = item + object.symbols[item].aux + 1 /\ item' \in Nat \ {0}
      BY <2>1, <2>2, <3>1 DEF AfterSymbol
    <3>4. IsSymbol(item)'
      BY <2>1, <3>2, <3>3 DEF IsSymbol
    <3>. QED  BY <2>1, <2>2, <3>3, <3>4 DEF Written
  <2>3. CASE /\ Candidate(object.symbols[item]) /\ object.symbols[item].name = "main"
             /\ entry_rva' = SymbolRva(item - 1) /\ stage' = "relocate"
    <3>1. Found(entry_rva')
      BY <2>1, <2>3 DEF Found
    <3>2. Found(entry_rva)'
      BY <2>1, <3>1 DEF Found, IsSymbol, Candidate, SymbolRva
    <3>. QED  BY <2>3, <3>2
  <2>4. stage' = "cleanup" => Abandoned
    BY <1>8, <2>1 DEF NextSymbol, Abandoned, Abandon, Primary, linked
  <2>. QED  BY <1>8, <2>1, <2>2, <2>3, <2>4 DEF NextSymbol, Abandon, Primary
<1>9. CASE (ApplyRelocation /\ ~Abandoned) \/ NextSection \/ OpenImage \/ WriteChunk
           \/ CloseImage
  <2>1. /\ stage \in {"relocate", "write"} /\ stage' # "main"
        /\ UNCHANGED <<object, input_sections, entry_rva>>
    <3>1. CASE ApplyRelocation /\ ~Abandoned
      BY <3>1 DEF ApplyRelocation, Abandon
    <3>2. CASE NextSection \/ OpenImage \/ WriteChunk \/ CloseImage
      BY <3>2 DEF NextSection, OpenImage, WriteChunk, CloseImage, Primary, linked
    <3>. QED  BY <1>9, <3>1, <3>2
  <2>. QED  BY <1>2, <2>1, FoundStays
<1>10. CASE Cleanup
  <2>1. /\ stage = "cleanup" /\ stage' = "done"
        /\ UNCHANGED <<ok, object, input_sections, entry_rva>>
    BY <1>10 DEF Cleanup, Primary
  <2>. QED  BY <1>2, <2>1, FoundStays DEF Written
<1>. QED
  BY <1>4, <1>5, <1>6, <1>7, <1>8, <1>9, <1>10, FailuresAbandon DEF Next

\* find_main_symbol (fcc_link.c), for every object NASM writes: a written image
\* enters at an external symbol main that the symbol table really holds, however
\* its auxiliary records look.
THEOREM MainIsEntered == Spec => []EntryIsMain
<1>1. LayoutInv /\ MainInv => EntryIsMain
  BY DEF MainInv, EntryIsMain
<1>. QED  BY <1>1, LayoutInit, LayoutStep, MainInit, MainStep, PTL DEF Spec
-----------------------------------------------------------------------------
(* The contents of the outputs.                                             *)

\* A cell of a section lies in its output, before the end of the section.
LEMMA CellIsInside ==
  ASSUME TypeOK, StageInv, PlacesInv, Linking, NEW i \in PlacedSoFar,
         NEW k \in 0..VirtualSize(object.sections[i]) - 1
  PROVE  /\ i \in 1..SectionCount /\ Placed(i)
         /\ object.sections[i] \in InputSection
         /\ input_sections[i] \in Placements
         /\ input_sections[i].output_kind \in Kinds
         /\ input_sections[i].output_offset \in Nat
         /\ VirtualSize(object.sections[i]) \in Nat
         /\ End(i) \in Nat
         /\ input_sections[i].output_offset + (k + 1) <= End(i)
         /\ End(i) <= Len(out[input_sections[i].output_kind])
         /\ input_sections[i].output_offset + k + 1
              \in 1..Len(out[input_sections[i].output_kind])
<1>1. i \in 1..SectionCount /\ Placed(i)
  BY DEF PlacedSoFar, StageInv
<1>2. /\ object.sections[i] \in InputSection /\ input_sections[i] \in Placements
      /\ VirtualSize(object.sections[i]) \in Nat
  BY <1>1, PlacedFacts
<1>3. input_sections[i].output_kind \in Kinds /\ input_sections[i].output_offset \in Nat
  BY <1>1, <1>2 DEF Placed, Placements
<1>4. End(i) \in Nat /\ input_sections[i].output_offset + (k + 1) <= End(i)
  BY <1>2, <1>3 DEF End
<1>5. End(i) <= Len(out[input_sections[i].output_kind])
  BY DEF PlacesInv
<1>6. Len(out[input_sections[i].output_kind]) \in Nat
  BY <1>3, SMTT(30) DEF TypeOK
<1>7. input_sections[i].output_offset + k + 1 \in 1..Len(out[input_sections[i].output_kind])
  BY <1>3, <1>4, <1>5, <1>6
<1>. QED  BY <1>1, <1>2, <1>3, <1>4, <1>5, <1>7

\* A step that leaves the outputs and the places alone, and applies nothing,
\* leaves the contents alone.
LEMMA ContentsKept ==
  ASSUME ContentsInv, ReferencesInv, Linking,
         UNCHANGED <<object, out>>, PlacedSoFar' = PlacedSoFar,
         \A i \in PlacedSoFar :
           /\ Placed(i)
           /\ input_sections'[i].output_kind = input_sections[i].output_kind
           /\ input_sections'[i].output_offset = input_sections[i].output_offset
           /\ \A n \in 1..Len(Relocations(i)) : Applied(i, n)' <=> Applied(i, n),
         \/ UNCHANGED input_sections
         \/ \A i \in PlacedSoFar : \A n \in 1..Len(Relocations(i)) : ~Applied(i, n)
  PROVE  ContentsInv' /\ ReferencesInv'
<1>1. /\ Linking /\ FieldsStayInside(object)' => FieldsStayInside(object)
      /\ Linking /\ FieldsAreApart(object)' => FieldsAreApart(object)
  BY DEF FieldsStayInside, FieldsAreApart
<1>2. \A i \in PlacedSoFar : Relocations(i)' = Relocations(i)
  BY DEF Relocations, Placed
<1>3. \A i \in PlacedSoFar : \A k : /\ CellOf(i, k)' = CellOf(i, k)
                                    /\ Original(i, k)' = Original(i, k)
                                    /\ InAppliedField(i, k)' <=> InAppliedField(i, k)
  BY <1>2 DEF CellOf, Original, InAppliedField
<1>4. ContentsInv'
  <2>. SUFFICES ASSUME FieldsStayInside(object)', NEW i \in PlacedSoFar,
                       NEW k \in 0..VirtualSize(object.sections[i]) - 1
                PROVE  IF InAppliedField(i, k)' THEN CellOf(i, k)'.origin = "patch"
                       ELSE CellOf(i, k)' = Original(i, k)'
    BY DEF ContentsInv
  <2>. QED  BY <1>1, <1>3 DEF ContentsInv
<1>5. ReferencesInv'
  <2>. SUFFICES ASSUME FieldsAreApart(object)', NEW i \in PlacedSoFar,
                       NEW n \in 1..Len(Relocations(i)'), Applied(i, n)'
                PROVE  /\ Resolves(Relocations(i)[n].symbol)'
                       /\ CellOf(i, Relocations(i)[n].at)' = Patch(Meant(i, n))'
    BY DEF ReferencesInv
  <2>1. n \in 1..Len(Relocations(i)) /\ Applied(i, n)
    BY <1>2
  <2>2. UNCHANGED input_sections
    BY <2>1
  <2>3. /\ Resolves(Relocations(i)[n].symbol)
        /\ CellOf(i, Relocations(i)[n].at) = Patch(Meant(i, n))
    BY <1>1, <2>1 DEF ReferencesInv
  <2>4. Resolves(Relocations(i)[n].symbol)' /\ Meant(i, n)' = Meant(i, n)
    BY <1>2, <2>2, <2>3 DEF Resolves, Meant, Value, SymbolRva, SectionCount, Placed, Relocations
  <2>5. CellOf(i, Relocations(i)[n].at)' = CellOf(i, Relocations(i)[n].at)
    BY <2>2 DEF CellOf, Relocations, Placed
  <2>6. Patch(Meant(i, n))' = Patch(Meant(i, n))
    BY <2>4 DEF Patch
  <2>. QED  BY <2>3, <2>4, <2>5, <2>6
<1>. QED  BY <1>4, <1>5

\* A section is placed with its own contents, and the others keep theirs.
LEMMA ContentsPlaced ==
  ASSUME LayoutInv, ContentsInv, PlaceSection
  PROVE  ContentsInv' /\ ReferencesInv'
<1>1. /\ TypeOK /\ StageInv /\ PlacesInv /\ stage = "place" /\ stage' = "place" /\ Linking
      /\ section' = section + 1 /\ object' = object /\ SectionCount' = SectionCount
  BY DEF LayoutInv, PlaceSection, Linking, SectionCount
<1>2. \A i, n : ~Applied(i, n) /\ ~Applied(i, n)'
  BY <1>1 DEF Applied
<1>3. ReferencesInv'
  BY <1>2 DEF ReferencesInv
<1>4. \A i, k : ~InAppliedField(i, k) /\ ~InAppliedField(i, k)'
  BY <1>2 DEF InAppliedField
<1>5. FieldsStayInside(object)' => FieldsStayInside(object)
  BY <1>1 DEF FieldsStayInside
<1>6. SUFFICES ASSUME FieldsStayInside(object), NEW i \in PlacedSoFar',
                      NEW k \in 0..VirtualSize(object.sections[i]) - 1
               PROVE  CellOf(i, k)' = Original(i, k)
  <2>1. \A i, k : Original(i, k)' = Original(i, k)
    BY <1>1 DEF Original
  <2>. QED  BY <1>1, <1>3, <1>4, <1>5, <2>1 DEF ContentsInv
<1>7. CASE ~Placed(section)
  <2>1. UNCHANGED <<out, input_sections>>
    BY <1>7 DEF PlaceSection
  <2>2. i \in 1..Len(input_sections) /\ Placed(i) /\ i < section + 1
    BY <1>1, <2>1 DEF PlacedSoFar, Placed
  <2>3. section \in Nat /\ i # section
    BY <1>1, <1>7, <2>2 DEF TypeOK
  <2>4. i \in PlacedSoFar
    BY <1>1, <2>2, <2>3 DEF PlacedSoFar
  <2>5. CellOf(i, k) = Original(i, k)
    BY <1>1, <1>4, <1>6, <2>4 DEF ContentsInv
  <2>. QED  BY <2>1, <2>5 DEF CellOf
<1>8. CASE Placed(section) /\ i = section
  <2>1. /\ input_sections'[i].output_kind = Kind /\ input_sections'[i].output_offset = From
        /\ Current = object.sections[i] /\ From \in Nat
        /\ out'[Kind][From + (k + 1)]
             = IF k < Current.raw_size THEN FromObject(Current.raw_offset + k) ELSE Zero
    <3>1. i \in 1..SectionCount /\ Current = object.sections[i]
      <4>1. section \in 1..SectionCount
        BY <1>1, AddressedFacts, ObjectsAreObjects, SMTT(30) DEF PlaceSection, TypeOK, StageInv
      <4>. QED  BY <1>8, <4>1 DEF Current
    <3>2. input_sections[i].output_kind = Kind
      BY <1>8 DEF Kind
    <3>. QED  BY <1>8, <3>1, <3>2, PlaceFacts
  <2>2. CellOf(i, k)' = out'[Kind][From + k + 1]
    BY <2>1 DEF CellOf
  <2>3. From + k + 1 = From + (k + 1)
    BY <2>1
  <2>. QED  BY <2>1, <2>2, <2>3 DEF Original
<1>9. CASE Placed(section) /\ i # section
  <2>1. i \in PlacedSoFar /\ input_sections'[i] = input_sections[i]
    BY <1>8, <1>9, PlaceFacts
  <2>2. /\ input_sections[i].output_kind \in Kinds
        /\ input_sections[i].output_offset + k + 1
             \in 1..Len(out[input_sections[i].output_kind])
    BY <1>1, <2>1, CellIsInside
  <2>3. CellOf(i, k)' = CellOf(i, k)
    <3>1. CASE input_sections[i].output_kind = Kind
      BY <1>9, <2>1, <2>2, <3>1, PlaceFacts DEF CellOf, Used
    <3>2. CASE input_sections[i].output_kind # Kind
      BY <1>9, <2>1, <2>2, <3>2, PlaceFacts DEF CellOf
    <3>. QED  BY <3>1, <3>2
  <2>4. CellOf(i, k) = Original(i, k)
    BY <1>1, <1>4, <1>6, <2>1 DEF ContentsInv
  <2>. QED  BY <2>3, <2>4
<1>. QED  BY <1>7, <1>8, <1>9

\* Fields that are apart lie inside their section.
LEMMA ApartIsInside ==
  ASSUME object \in Objects, FieldsAreApart(object)
  PROVE  FieldsStayInside(object)
<1>. SUFFICES ASSUME NEW i \in 1..Len(object.sections),
                     NEW n \in 1..Len(object.sections[i].relocations)
              PROVE  object.sections[i].relocations[n].at
                       + FieldSize(object.sections[i].relocations[n])
                       <= VirtualSize(object.sections[i])
  BY DEF FieldsStayInside
<1>1. object.sections[i] \in InputSection
  BY ObjectsAreObjects DEF SectionCount
<1>2. /\ object.sections[i].raw_size \in Nat /\ VirtualSize(object.sections[i]) \in Nat
      /\ object.sections[i].raw_size <= VirtualSize(object.sections[i])
  BY <1>1, SizesOfSection
<1>3. object.sections[i].relocations[n] \in Relocation
  BY <1>1 DEF InputSection
<1>4. object.sections[i].relocations[n].at \in Nat
      /\ FieldSize(object.sections[i].relocations[n]) \in Nat
  BY <1>3, SizesAssumption DEF Relocation, FieldSize
<1>5. object.sections[i].relocations[n].at + FieldSize(object.sections[i].relocations[n])
        <= object.sections[i].raw_size
  BY DEF FieldsAreApart
<1>. QED  BY <1>2, <1>4, <1>5

\* A relocation writes over its field, and over nothing else of any section.
LEMMA AppliedCells ==
  ASSUME LayoutInv, ApplyRelocation, ~Abandoned, FieldsStayInside(object),
         NEW r, r = Relocations(section)[item],
         NEW value,
         value = Value(section, r, Stored(Buffer(section)[PatchOffset(section, r) + 1])),
         NEW i \in PlacedSoFar, NEW k \in 0..VirtualSize(object.sections[i]) - 1
  PROVE  CellOf(i, k)' = IF i = section /\ k \in r.at .. r.at + FieldSize(r) - 1
                         THEN Patch(value) ELSE CellOf(i, k)
<1>. DEFINE kind == input_sections[section].output_kind
            from == PatchOffset(section, r)
            at == input_sections[i].output_offset
<1>1. TypeOK /\ StageInv /\ CellsInv /\ PlacesInv
  BY DEF LayoutInv
<1>2. /\ kind = input_sections[section].output_kind /\ from = PatchOffset(section, r)
      /\ at = input_sections[i].output_offset
      /\ value = Value(section, r, Stored(Buffer(section)[from + 1]))
  OBVIOUS
<1>. HIDE DEF kind, from, at
<1>3. /\ stage = "relocate" /\ section \in 1..SectionCount
      /\ item \in 1..Len(Relocations(section)) /\ Accepts(section, r)
      /\ kind \in Kinds /\ UNCHANGED <<object, input_sections>>
      /\ \A other \in Kinds \ {kind} : out'[other] = out[other]
      /\ \A c \in 1..Len(out[kind]) :
           out'[kind][c] = IF c \in from + 1 .. from + FieldSize(r)
                           THEN Patch(value) ELSE out[kind][c]
  BY <1>1, <1>2, AppliedFacts
<1>4. /\ Placed(section) /\ Relocations(section) = object.sections[section].relocations
      /\ r \in Relocation /\ FieldSize(r) \in Nat \ {0}
  BY <1>1, <1>3, AcceptedFacts
<1>5. r.at \in Nat
  BY <1>4 DEF Relocation
<1>6. /\ Linking /\ SectionCount \in Nat
      /\ PlacedSoFar = {j \in 1..SectionCount : Placed(j)}
  BY <1>1, <1>3, AddressedFacts
<1>7. /\ at \in Nat /\ at + k + 1 \in 1..Len(out[input_sections[i].output_kind])
      /\ input_sections[i].output_kind \in Kinds
      /\ at + (k + 1) <= End(i) /\ End(i) \in Nat /\ i \in 1..SectionCount
  BY <1>1, <1>2, <1>6, CellIsInside
<1>8. CellOf(i, k)' = out'[input_sections[i].output_kind][at + k + 1]
      /\ CellOf(i, k) = out[input_sections[i].output_kind][at + k + 1]
  BY <1>2, <1>3 DEF CellOf
<1>9. CASE i = section
  <2>1. from = at + r.at
    BY <1>2, <1>9 DEF PatchOffset
  <2>2. at + k + 1 \in from + 1 .. from + FieldSize(r)
          <=> k \in r.at .. r.at + FieldSize(r) - 1
    <3>1. k \in Nat /\ FieldSize(r) \in Nat
      BY <1>4
    <3>2. \A a, b, f, c \in Nat :
            a + c + 1 \in (a + b) + 1 .. (a + b) + f <=> c \in b .. b + f - 1
      OBVIOUS
    <3>3. at + k + 1 \in (at + r.at) + 1 .. (at + r.at) + FieldSize(r)
            <=> k \in r.at .. r.at + FieldSize(r) - 1
      BY <1>5, <1>7, <3>1, <3>2
    <3>. QED  BY <2>1, <3>3
  <2>. QED  BY <1>2, <1>3, <1>7, <1>8, <1>9, <2>2
<1>10. CASE i # section /\ input_sections[i].output_kind = kind
  <2>1. /\ section \in PlacedSoFar /\ input_sections[section].output_offset \in Nat
        /\ VirtualSize(object.sections[section]) \in Nat
    <3>1. input_sections[section] \in Placements
          /\ VirtualSize(object.sections[section]) \in Nat
      BY <1>1, <1>3, <1>6, PlacedFacts
    <3>. QED  BY <1>3, <1>4, <1>6, <3>1 DEF Placements
  <2>2. r.at + FieldSize(r) <= VirtualSize(object.sections[section])
    BY <1>3, <1>4 DEF FieldsStayInside, SectionCount
  <2>3. from = input_sections[section].output_offset + r.at
    BY <1>2 DEF PatchOffset
  <2>4. from \in Nat /\ End(section) \in Nat /\ from + FieldSize(r) <= End(section)
        /\ input_sections[section].output_offset <= from
    BY <1>4, <1>5, <2>1, <2>2, <2>3 DEF End
  <2>5. CASE i < section
    <3>1. End(i) <= input_sections[section].output_offset
      BY <1>1, <1>2, <1>6, <1>10, <2>1, <2>5 DEF PlacesInv
    <3>2. at + k + 1 \notin from + 1 .. from + FieldSize(r)
      BY <1>4, <1>7, <2>1, <2>4, <3>1
    <3>. QED  BY <1>3, <1>7, <1>8, <1>10, <3>2
  <2>6. CASE section < i
    <3>1. End(section) <= at
      BY <1>1, <1>2, <1>6, <1>10, <2>1, <2>6 DEF PlacesInv
    <3>2. at + k + 1 \notin from + 1 .. from + FieldSize(r)
      BY <1>4, <1>7, <2>1, <2>4, <3>1
    <3>. QED  BY <1>3, <1>7, <1>8, <1>10, <3>2
  <2>7. i < section \/ section < i
    BY <1>3, <1>6, <1>7, <1>10
  <2>. QED  BY <2>5, <2>6, <2>7
<1>11. CASE i # section /\ input_sections[i].output_kind # kind
  BY <1>3, <1>7, <1>8, <1>11
<1>. QED  BY <1>9, <1>10, <1>11

\* Applying a relocation applies that relocation.
LEMMA AppliedNow ==
  ASSUME LayoutInv, ApplyRelocation, ~Abandoned
  PROVE  /\ stage = "relocate" /\ Linking /\ Linking' /\ object \in Objects
         /\ UNCHANGED <<object, input_sections, section>> /\ PlacedSoFar' = PlacedSoFar
         /\ section \in PlacedSoFar /\ item \in 1..Len(Relocations(section))
         /\ section \in 1..SectionCount /\ Accepts(section, Relocations(section)[item])
         /\ Relocations(section) = object.sections[section].relocations
         /\ Relocations(section)[item] \in Relocation
         /\ \A i \in PlacedSoFar :
              /\ i \in 1..SectionCount /\ Relocations(i)' = Relocations(i)
              /\ \A n \in 1..Len(Relocations(i)) :
                   Applied(i, n)' <=> Applied(i, n) \/ (i = section /\ n = item)
<1>1. TypeOK /\ StageInv /\ CellsInv
  BY DEF LayoutInv
<1>2. /\ stage = "relocate" /\ section \in 1..SectionCount
      /\ item \in 1..Len(Relocations(section))
      /\ Accepts(section, Relocations(section)[item]) /\ item' = item + 1
      /\ UNCHANGED <<stage, object, input_sections, section>>
  BY <1>1, AppliedFacts
<1>3. /\ Placed(section) /\ Relocations(section) = object.sections[section].relocations
      /\ Relocations(section)[item] \in Relocation
  BY <1>1, <1>2, AcceptedFacts
<1>4. /\ Linking /\ object \in Objects /\ SectionCount \in Nat
      /\ PlacedSoFar = {i \in 1..SectionCount : Placed(i)}
  BY <1>1, <1>2, AddressedFacts
<1>5. PlacedSoFar' = PlacedSoFar /\ Linking'
  BY <1>2, <1>4 DEF PlacedSoFar, Placed, Linking
<1>6. \A i \in PlacedSoFar : i \in 1..SectionCount /\ Relocations(i)' = Relocations(i)
  BY <1>2, <1>4 DEF Relocations, Placed
<1>7. item \in Nat
  BY <1>1 DEF TypeOK
<1>8. \A i \in PlacedSoFar : \A n \in 1..Len(Relocations(i)) :
        Applied(i, n)' <=> Applied(i, n) \/ (i = section /\ n = item)
  <2>. SUFFICES ASSUME NEW i \in PlacedSoFar, NEW n \in 1..Len(Relocations(i))
                PROVE  Applied(i, n)' <=> Applied(i, n) \/ (i = section /\ n = item)
    OBVIOUS
  <2>1. n \in Nat /\ (n < item + 1 <=> n < item \/ n = item)
    BY <1>7
  <2>2. i \in Nat /\ section \in Nat
    BY <1>2, <1>4
  <2>. QED  BY <1>2, <2>1, <2>2 DEF Applied
<1>. QED  BY <1>2, <1>3, <1>4, <1>5, <1>6, <1>8

LEMMA ContentsApplied ==
  ASSUME LayoutInv, ContentsInv, ApplyRelocation, ~Abandoned
  PROVE  ContentsInv'
<1>. DEFINE r == Relocations(section)[item]
            value == Value(section, r, Stored(Buffer(section)[PatchOffset(section, r) + 1]))
<1>1. /\ Linking /\ UNCHANGED <<object, input_sections>> /\ PlacedSoFar' = PlacedSoFar
      /\ item \in 1..Len(Relocations(section)) /\ section \in PlacedSoFar
      /\ \A i \in PlacedSoFar :
           /\ Relocations(i)' = Relocations(i)
           /\ \A n \in 1..Len(Relocations(i)) :
                Applied(i, n)' <=> Applied(i, n) \/ (i = section /\ n = item)
  BY AppliedNow
<1>2. FieldsStayInside(object)' => FieldsStayInside(object)
  BY <1>1 DEF FieldsStayInside
<1>3. SUFFICES ASSUME FieldsStayInside(object), NEW i \in PlacedSoFar,
                      NEW k \in 0..VirtualSize(object.sections[i]) - 1
               PROVE  IF InAppliedField(i, k)' THEN CellOf(i, k)'.origin = "patch"
                      ELSE CellOf(i, k)' = Original(i, k)'
  BY <1>1, <1>2 DEF ContentsInv
<1>4. Original(i, k)' = Original(i, k)
  BY <1>1 DEF Original
<1>5. InAppliedField(i, k)' <=>
        InAppliedField(i, k) \/ (i = section /\ k \in r.at .. r.at + FieldSize(r) - 1)
  BY <1>1, <1>3 DEF InAppliedField
<1>6. CellOf(i, k)' = IF i = section /\ k \in r.at .. r.at + FieldSize(r) - 1
                      THEN Patch(value) ELSE CellOf(i, k)
  <2>1. r = Relocations(section)[item]
        /\ value = Value(section, r,
                         Stored(Buffer(section)[PatchOffset(section, r) + 1]))
    OBVIOUS
  <2>. HIDE DEF r, value
  <2>. QED  BY <1>3, <2>1, AppliedCells
<1>7. IF InAppliedField(i, k) THEN CellOf(i, k).origin = "patch"
      ELSE CellOf(i, k) = Original(i, k)
  BY <1>1, <1>3 DEF ContentsInv
<1>8. Patch(value).origin = "patch"
  BY DEF Patch
<1>. HIDE DEF r, value
<1>. QED  BY <1>4, <1>5, <1>6, <1>7, <1>8

\* The field of a relocation that is about to be applied holds what the object
\* held there.
LEMMA AddendIsOriginal ==
  ASSUME LayoutInv, ContentsInv, ApplyRelocation, ~Abandoned, FieldsAreApart(object),
         NEW r, r = Relocations(section)[item]
  PROVE  /\ r.at \in 0..VirtualSize(object.sections[section]) - 1
         /\ Stored(Buffer(section)[PatchOffset(section, r) + 1])
              = object.words[object.sections[section].raw_offset + r.at]
<1>1. /\ stage = "relocate" /\ Linking /\ object \in Objects /\ section \in PlacedSoFar
      /\ section \in 1..SectionCount /\ item \in 1..Len(Relocations(section))
      /\ Relocations(section) = object.sections[section].relocations
      /\ r \in Relocation
  BY AppliedNow
<1>2. FieldsStayInside(object)
  BY <1>1, ApartIsInside
<1>3. /\ object.sections[section] \in InputSection
      /\ object.sections[section].raw_size \in Nat
      /\ VirtualSize(object.sections[section]) \in Nat
      /\ object.sections[section].raw_size <= VirtualSize(object.sections[section])
  BY <1>1, ObjectsAreObjects, SizesOfSection
<1>4. r.at \in Nat /\ FieldSize(r) \in Nat \ {0}
  <2>1. r \in Relocation
    BY <1>1
  <2>. QED  BY <2>1, SizesAssumption DEF Relocation, FieldSize
<1>5. r.at + FieldSize(r) <= object.sections[section].raw_size
  BY <1>1 DEF FieldsAreApart, SectionCount
<1>6. r.at < object.sections[section].raw_size
      /\ r.at \in 0..VirtualSize(object.sections[section]) - 1
  BY <1>3, <1>4, <1>5
<1>7. ~InAppliedField(section, r.at)
  <2>. SUFFICES ASSUME NEW n \in 1..Len(Relocations(section)), Applied(section, n),
                       r.at \in Relocations(section)[n].at ..
                                  Relocations(section)[n].at
                                    + FieldSize(Relocations(section)[n]) - 1
                PROVE  FALSE
    BY DEF InAppliedField
  <2>1. n # item
    <3>1. n < item
      BY <1>1 DEF Applied
    <3>. QED  BY <1>1, <3>1
  <2>2. Relocations(section)[n] \in Relocation
    BY <1>1, <1>3 DEF InputSection
  <2>3. Relocations(section)[n].at \in Nat /\ FieldSize(Relocations(section)[n]) \in Nat
    BY <2>2, SizesAssumption DEF Relocation, FieldSize
  <2>4. Disjoint(r.at, FieldSize(r), Relocations(section)[n].at,
                 FieldSize(Relocations(section)[n]))
    BY <1>1, <2>1 DEF FieldsAreApart, SectionCount
  <2>. QED  BY <1>4, <2>3, <2>4 DEF Disjoint
<1>8. CellOf(section, r.at) = FromObject(object.sections[section].raw_offset + r.at)
  BY <1>1, <1>2, <1>6, <1>7 DEF ContentsInv, Original
<1>9. Buffer(section)[PatchOffset(section, r) + 1] = CellOf(section, r.at)
  BY DEF Buffer, PatchOffset, CellOf
<1>. QED  BY <1>6, <1>8, <1>9 DEF Stored, FromObject

LEMMA ReferencesApplied ==
  ASSUME LayoutInv, ContentsInv, ReferencesInv, ApplyRelocation, ~Abandoned
  PROVE  ReferencesInv'
<1>. DEFINE r == Relocations(section)[item]
            value == Value(section, r, Stored(Buffer(section)[PatchOffset(section, r) + 1]))
<1>1. /\ Linking /\ UNCHANGED <<object, input_sections>> /\ PlacedSoFar' = PlacedSoFar
      /\ item \in 1..Len(Relocations(section)) /\ section \in PlacedSoFar
      /\ object \in Objects /\ Accepts(section, r)
      /\ \A i \in PlacedSoFar :
           /\ i \in 1..SectionCount /\ Relocations(i)' = Relocations(i)
           /\ \A n \in 1..Len(Relocations(i)) :
                Applied(i, n)' <=> Applied(i, n) \/ (i = section /\ n = item)
  BY AppliedNow
<1>2. FieldsAreApart(object)' => FieldsAreApart(object)
  BY <1>1 DEF FieldsAreApart
<1>3. SUFFICES ASSUME FieldsAreApart(object), NEW i \in PlacedSoFar,
                      NEW n \in 1..Len(Relocations(i)'), Applied(i, n)'
               PROVE  /\ Resolves(Relocations(i)[n].symbol)'
                      /\ CellOf(i, Relocations(i)[n].at)' = Patch(Meant(i, n))'
  BY <1>1, <1>2 DEF ReferencesInv
<1>4. /\ \A index : Resolves(index)' <=> Resolves(index)
      /\ Meant(i, n)' = Meant(i, n) /\ Relocations(i)' = Relocations(i)
      /\ n \in 1..Len(Relocations(i))
  BY <1>1, <1>3 DEF Resolves, Meant, Value, SymbolRva, SectionCount, Placed, Relocations
<1>5. r = Relocations(section)[item]
      /\ value = Value(section, r, Stored(Buffer(section)[PatchOffset(section, r) + 1]))
  OBVIOUS
<1>. HIDE DEF r, value
<1>6. FieldsStayInside(object)
  BY <1>1, <1>3, ApartIsInside
<1>7. CASE i = section /\ n = item
  <2>1. Meant(i, n) = value /\ r.at \in 0..VirtualSize(object.sections[section]) - 1
    BY <1>3, <1>5, <1>7, AddendIsOriginal DEF Meant
  <2>2. r.at \in r.at .. r.at + FieldSize(r) - 1
    <3>1. r \in Relocation
      BY <1>5, AppliedNow
    <3>2. r.at \in Nat /\ FieldSize(r) \in Nat \ {0}
      BY <3>1, SizesAssumption DEF Relocation, FieldSize
    <3>. QED  BY <3>2
  <2>3. \A k : k = r.at => CellOf(i, k)' = Patch(value)
    BY <1>3, <1>5, <1>6, <1>7, <2>1, <2>2, AppliedCells
  <2>4. Resolves(r.symbol)
    BY <1>1, <1>5 DEF Accepts
  <2>5. Relocations(i)'[n] = r /\ Patch(Meant(i, n))' = Patch(value)
    BY <1>4, <1>5, <1>7, <2>1 DEF Patch
  <2>6. CellOf(i, Relocations(i)[n].at)' = Patch(value)
    BY <2>3, <2>5 DEF CellOf
  <2>7. Resolves(Relocations(i)[n].symbol)'
    BY <1>4, <2>4, <2>5
  <2>. QED  BY <2>5, <2>6, <2>7
<1>8. CASE ~(i = section /\ n = item)
  <2>. DEFINE q == Relocations(i)[n]
  <2>1. /\ Applied(i, n) /\ Resolves(q.symbol) /\ CellOf(i, q.at) = Patch(Meant(i, n))
    BY <1>1, <1>3, <1>4, <1>8 DEF ReferencesInv
  <2>2. /\ object.sections[i] \in InputSection /\ VirtualSize(object.sections[i]) \in Nat
        /\ object.sections[i].raw_size \in Nat
        /\ object.sections[i].raw_size <= VirtualSize(object.sections[i])
    BY <1>1, <1>3, ObjectsAreObjects, SizesOfSection
  <2>3. Relocations(i) = object.sections[i].relocations
    BY <1>3, <1>4 DEF Relocations
  <2>4. q \in Relocation /\ q.at \in Nat /\ FieldSize(q) \in Nat \ {0}
    <3>1. q \in Relocation
      BY <1>3, <1>4, <2>2, <2>3 DEF InputSection
    <3>. QED  BY <3>1, SizesAssumption DEF Relocation, FieldSize
  <2>5. q.at + FieldSize(q) <= object.sections[i].raw_size
    BY <1>1, <1>3, <1>4, <2>3 DEF FieldsAreApart, SectionCount
  <2>6. q.at \in 0..VirtualSize(object.sections[i]) - 1
    BY <2>2, <2>4, <2>5
  <2>7. ~(i = section /\ q.at \in r.at .. r.at + FieldSize(r) - 1)
    <3>. SUFFICES ASSUME i = section PROVE q.at \notin r.at .. r.at + FieldSize(r) - 1
      OBVIOUS
    <3>1. Disjoint(q.at, FieldSize(q), r.at, FieldSize(r))
      BY <1>1, <1>3, <1>4, <1>5, <1>8, <2>3 DEF FieldsAreApart, SectionCount
    <3>2. r.at \in Nat /\ FieldSize(r) \in Nat
      <4>1. r \in Relocation
        BY <1>5, AppliedNow
      <4>. QED  BY <4>1, SizesAssumption DEF Relocation, FieldSize
    <3>. QED  BY <2>4, <3>1, <3>2 DEF Disjoint
  <2>8. \A k : k = q.at => CellOf(i, k)' = CellOf(i, k)
    <3>. HIDE DEF q
    <3>. QED  BY <1>3, <1>5, <1>6, <2>6, <2>7, AppliedCells
  <2>9. Relocations(i)'[n] = q /\ Patch(Meant(i, n))' = Patch(Meant(i, n))
    BY <1>4 DEF Patch
  <2>10. CellOf(i, Relocations(i)[n].at)' = Patch(Meant(i, n))
    BY <2>1, <2>8, <2>9 DEF CellOf
  <2>11. Resolves(Relocations(i)[n].symbol)'
    BY <1>4, <2>1, <2>9
  <2>. QED  BY <2>9, <2>10, <2>11
<1>. QED  BY <1>7, <1>8

LEMMA ContentsInit == Init => ContentsInv /\ ReferencesInv
BY DEF Init, ContentsInv, ReferencesInv, Linking

\* Every step keeps the contents.
LEMMA ContentsStep ==
  LayoutInv /\ ContentsInv /\ ReferencesInv /\ [Next]_vars
    => ContentsInv' /\ ReferencesInv'
<1>. SUFFICES ASSUME LayoutInv, ContentsInv, ReferencesInv, [Next]_vars
              PROVE  ContentsInv' /\ ReferencesInv'
  OBVIOUS
<1>1. TypeOK /\ StageInv
  BY DEF LayoutInv
<1>2. CASE ~Linking'
  BY <1>2 DEF ContentsInv, ReferencesInv
<1>3. ASSUME stage \in {"main", "relocate", "write"}, Linking',
             UNCHANGED <<object, input_sections, out>>, stage' # "place",
             \A i \in PlacedSoFar : \A n \in 1..Len(Relocations(i)) :
               Applied(i, n)' <=> Applied(i, n)
      PROVE  ContentsInv' /\ ReferencesInv'
  <2>1. /\ Linking /\ Len(input_sections) = SectionCount
        /\ PlacedSoFar = {i \in 1..SectionCount : Placed(i)}
    BY <1>1, <1>3, AddressedFacts
  <2>2. PlacedSoFar' = PlacedSoFar
    BY <1>3, <2>1 DEF PlacedSoFar, Placed, Linking
  <2>. QED  BY <1>3, <2>1, <2>2, ContentsKept
<1>4. CASE UNCHANGED vars /\ Linking
  <2>1. /\ UNCHANGED <<object, out, input_sections>> /\ PlacedSoFar' = PlacedSoFar
        /\ \A i \in PlacedSoFar : Placed(i)
        /\ \A i, n : Applied(i, n)' <=> Applied(i, n)
    BY <1>4 DEF vars, linked, PlacedSoFar, Placed, Applied
  <2>. QED  BY <1>4, <2>1, ContentsKept
<1>5. CASE RunNasm \/ NasmFails \/ CloseImage \/ Cleanup \/ Abandoned
  BY <1>2, <1>5 DEF RunNasm, NasmFails, CloseImage, Cleanup, Abandoned, Abandon,
     Primary, Linking
<1>6. CASE InitializeInputSections
  <2>1. stage' = "place" /\ section' = 1
    BY <1>6 DEF InitializeInputSections, Primary
  <2>2. PlacedSoFar' = {}
    BY <2>1 DEF PlacedSoFar
  <2>. QED  BY <2>2 DEF ContentsInv, ReferencesInv
<1>7. CASE PlaceSection
  BY <1>7, ContentsPlaced
<1>8. CASE AssignAddresses
  <2>1. /\ stage = "place" /\ section = SectionCount + 1 /\ stage' = "main" /\ Linking
        /\ UNCHANGED <<object, out>>
        /\ input_sections' = [i \in 1..SectionCount |->
             IF Placed(i) THEN [input_sections[i] EXCEPT !.output_rva = OutputRva(i)]
             ELSE input_sections[i]]
    BY <1>8 DEF AssignAddresses, Primary, Linking
  <2>2. SectionCount \in Nat /\ Len(input_sections) = SectionCount
    BY <1>1, <2>1, ObjectsAreObjects DEF StageInv
  <2>3. PlacedSoFar = {i \in 1..SectionCount : Placed(i)}
    BY <2>1, <2>2 DEF PlacedSoFar
  <2>4. \A i \in 1..SectionCount :
          /\ input_sections'[i].output_kind = input_sections[i].output_kind
          /\ input_sections'[i].output_offset = input_sections[i].output_offset
    <3>1. \A i \in 1..SectionCount : input_sections[i] \in Placements
      BY <1>1, <2>1, PlacedFacts
    <3>. QED  BY <2>1, <3>1 DEF Placements
  <2>5. Len(input_sections') = SectionCount
    BY <2>1, <2>2
  <2>6. PlacedSoFar' = PlacedSoFar
    BY <2>1, <2>3, <2>4, <2>5 DEF PlacedSoFar, Placed
  <2>7. \A i, n : ~Applied(i, n) /\ ~Applied(i, n)'
    BY <2>1 DEF Applied
  <2>8. \A i \in PlacedSoFar : Placed(i) /\ i \in 1..SectionCount
    BY <2>3
  <2>. QED  BY <2>1, <2>4, <2>6, <2>7, <2>8, ContentsKept
<1>9. CASE NextSymbol /\ ~Abandoned
  <2>1. /\ stage = "main" /\ UNCHANGED <<object, input_sections, out>>
        /\ stage' = "main" \/ (stage' = "relocate" /\ section' = 1 /\ item' = 1)
    BY <1>9 DEF NextSymbol, Abandoned, Abandon, Primary, linked
  <2>2. \A i \in PlacedSoFar : \A n \in 1..Len(Relocations(i)) :
          ~Applied(i, n) /\ ~Applied(i, n)'
    <3>1. \A i \in PlacedSoFar : i \in Nat \ {0}
      BY DEF PlacedSoFar
    <3>. QED  BY <2>1, <3>1 DEF Applied
  <2>. QED  BY <1>3, <2>1, <2>2 DEF Linking
<1>10. CASE NextSection
  <2>1. /\ stage = "relocate" /\ section \in 1..SectionCount
        /\ item > Len(Relocations(section)) /\ section' = section + 1 /\ item' = 1
        /\ UNCHANGED <<stage, object, input_sections, out>>
    BY <1>1, <1>10 DEF NextSection, linked, TypeOK
  <2>2. /\ Linking /\ SectionCount \in Nat /\ item \in Nat
        /\ PlacedSoFar = {i \in 1..SectionCount : Placed(i)}
    BY <1>1, <2>1, AddressedFacts DEF TypeOK
  <2>3. \A i \in PlacedSoFar : \A n \in 1..Len(Relocations(i)) :
          Applied(i, n)' <=> Applied(i, n)
    <3>. SUFFICES ASSUME NEW i \in PlacedSoFar, NEW n \in 1..Len(Relocations(i))
                  PROVE  Applied(i, n)' <=> Applied(i, n)
      OBVIOUS
    <3>1. i \in Nat /\ section \in Nat /\ n \in Nat \ {0}
      BY <2>1, <2>2
    <3>2. i = section => n < item
      <4>. SUFFICES ASSUME i = section PROVE n < item
        OBVIOUS
      <4>1. Len(Relocations(section)) \in Nat
        <5>1. object.sections[section] \in InputSection
          BY <1>1, <2>1, <2>2, PlacedFacts
        <5>. QED  BY <5>1 DEF Relocations, InputSection
      <4>. QED  BY <2>1, <2>2, <4>1
    <3>. QED  BY <2>1, <3>1, <3>2 DEF Applied
  <2>. QED  BY <1>3, <2>1, <2>2, <2>3 DEF Linking
<1>11. CASE OpenImage \/ WriteChunk
  <2>1. /\ stage \in {"relocate", "write"} /\ stage' = "write"
        /\ stage = "relocate" => section = SectionCount + 1
        /\ UNCHANGED <<object, input_sections, out>>
    BY <1>11 DEF OpenImage, WriteChunk, Primary, linked
  <2>2. SectionCount \in Nat /\ PlacedSoFar = {i \in 1..SectionCount : Placed(i)}
    BY <1>1, <2>1, AddressedFacts
  <2>3. \A i \in PlacedSoFar : \A n : Applied(i, n) /\ Applied(i, n)'
    <3>1. \A i \in PlacedSoFar : i < SectionCount + 1
      BY <2>2
    <3>. QED  BY <2>1, <3>1 DEF Applied
  <2>. QED  BY <1>3, <2>1, <2>3 DEF Linking
<1>12. CASE ApplyRelocation /\ ~Abandoned
  BY <1>12, ContentsApplied, ReferencesApplied
<1>13. CASE UNCHANGED vars /\ ~Linking
  BY <1>2, <1>13 DEF vars, Linking
<1>. QED
  BY <1>4, <1>5, <1>6, <1>7, <1>8, <1>9, <1>10, <1>11, <1>12, <1>13, FailuresAbandon
  DEF Next

-----------------------------------------------------------------------------
(* The loaded image.                                                        *)

\* The entries of the section table are numbers.
LEMMA ImageIsTyped ==
  ASSUME TypeOK, NEW a \in 1..Len(image)
  PROVE  image[a].rva \in Nat /\ image[a].size \in Nat /\ image[a].raw_offset \in Nat
<1>. DEFINE E == [rva : Nat, size : Nat, raw_offset : Nat, raw_size : Nat]
<1>1. image \in Seq(E)
  BY DEF TypeOK
<1>2. image[a] \in E
  <2>. HIDE DEF E
  <2>. QED  BY <1>1
<1>. QED  BY <1>2

\* An address belongs to one section of the image only.
LEMMA LoadedIs ==
  ASSUME TypeOK, ImageSectionsDoNotOverlap, NEW a \in 1..Len(image), NEW rva \in Nat,
         image[a].rva <= rva, rva < image[a].rva + image[a].size
  PROVE  Loaded(rva) = output[image[a].raw_offset + (rva - image[a].rva) + 1]
<1>. DEFINE Holds(t) == t.rva <= rva /\ rva < t.rva + t.size
            S == {image[b] : b \in 1..Len(image)}
<1>1. \A b \in 1..Len(image) : image[b].rva \in Nat /\ image[b].size \in Nat
  BY ImageIsTyped
<1>2. \A b \in 1..Len(image) : Holds(image[b]) => b = a
  <2>. SUFFICES ASSUME NEW b \in 1..Len(image), Holds(image[b]), b # a PROVE FALSE
    OBVIOUS
  <2>1. Disjoint(image[a].rva, image[a].size, image[b].rva, image[b].size)
    BY DEF ImageSectionsDoNotOverlap
  <2>. QED  BY <1>1, <2>1, SMTT(30) DEF Disjoint
<1>3. image[a] \in S /\ Holds(image[a])
  OBVIOUS
<1>4. \A t \in S : Holds(t) => t = image[a]
  BY <1>2
<1>5. (CHOOSE t \in S : Holds(t)) = image[a]
  <2>. HIDE DEF S, Holds
  <2>. QED  BY <1>3, <1>4
<1>. QED  BY <1>5 DEF Loaded

\* When the file is complete, every section is loaded where its symbols are.
LEMMA SectionIsLoaded ==
  ASSUME LayoutInv, WriteInv, stage = "write", item = Len(Chunks) + 1,
         NEW i \in PlacedSoFar, NEW k \in 0..VirtualSize(object.sections[i]) - 1
  PROVE  Loaded(input_sections[i].output_rva + k) = CellOf(i, k)
<1>. DEFINE at == input_sections[i].output_offset
<1>1. /\ TypeOK /\ StageInv /\ PlacesInv /\ AddressesInv /\ ImageSectionsDoNotOverlap
      /\ image = SectionTable /\ InFile(1, out["text"])
      /\ HasData => InFile(2, out["data"])
  BY DEF LayoutInv, WriteInv
<1>2. /\ Linking /\ PlacedSoFar = {j \in 1..SectionCount : Placed(j)}
  BY <1>1, AddressedFacts
<1>3. /\ Placed(i) /\ input_sections[i].output_kind \in Kinds /\ at \in Nat
      /\ at + k + 1 \in 1..Len(out[input_sections[i].output_kind])
      /\ i \in 1..SectionCount
  BY <1>1, <1>2, CellIsInside
<1>4. /\ Len(image) = IF HasData THEN 3 ELSE 2
      /\ Len(Chunks) = Len(image) + 1
      /\ image[1].size = TextSize
      /\ HasData => image[2].size = DataSize
      /\ TextSize \in Nat /\ DataSize \in Nat
  BY <1>1, ChunkPlaces
<1>5. input_sections[i].output_rva = OutputRva(i)
  BY <1>1, <1>3 DEF AddressesInv
<1>6. k \in Nat
  OBVIOUS
<1>7. CellOf(i, k) = out[input_sections[i].output_kind][at + k + 1]
  BY DEF CellOf
<1>8. text_rva = SectionAlignment /\ SectionAlignment \in Nat /\ data_rva = DataRva
      /\ data_rva \in Nat
  BY <1>1, SizesAssumption DEF AddressesInv, TypeOK
<1>. HIDE DEF at
<1>9. CASE input_sections[i].output_kind = "text"
  <2>1. image[1].rva = text_rva
    BY <1>1, <1>4, SectionTableIs DEF Entry
  <2>2. input_sections[i].output_rva + k = text_rva + (at + k)
    <3>1. input_sections[i].output_rva = at + SectionAlignment
      BY <1>5, <1>9 DEF OutputRva, at
    <3>. QED  BY <1>3, <1>6, <1>8, <3>1
  <2>3. at + k \in Nat /\ at + k < TextSize /\ at + k + 1 \in 1..TextSize
    BY <1>3, <1>6, <1>9 DEF TextSize
  <2>4. Loaded(text_rva + (at + k))
          = output[image[1].raw_offset + ((text_rva + (at + k)) - image[1].rva) + 1]
    <3>1. 1 \in 1..Len(image) /\ text_rva + (at + k) \in Nat
          /\ image[1].rva <= text_rva + (at + k)
          /\ text_rva + (at + k) < image[1].rva + image[1].size
      BY <1>4, <1>8, <2>1, <2>3
    <3>. QED  BY <1>1, <3>1, LoadedIs
  <2>5. output[image[1].raw_offset + (at + k + 1)] = out["text"][at + k + 1]
    BY <1>1, <1>4, <2>3 DEF InFile, TextSize
  <2>6. image[1].raw_offset + ((text_rva + (at + k)) - image[1].rva) + 1
          = image[1].raw_offset + (at + k + 1)
    <3>1. image[1].raw_offset \in Nat
      BY <1>1, <1>4, ImageIsTyped
    <3>. QED  BY <1>3, <1>6, <1>8, <2>1, <3>1
  <2>. QED  BY <1>7, <1>9, <2>2, <2>4, <2>5, <2>6
<1>10. CASE input_sections[i].output_kind = "data"
  <2>0. HasData
    BY <1>3, <1>10 DEF HasData
  <2>1. image[2].rva = data_rva
    BY <1>1, <1>4, <2>0, SectionTableIs DEF Entry
  <2>2. input_sections[i].output_rva + k = data_rva + (at + k)
    <3>1. input_sections[i].output_rva = at + DataRva
      BY <1>5, <1>10 DEF OutputRva, at
    <3>. QED  BY <1>3, <1>6, <1>8, <3>1
  <2>3. at + k \in Nat /\ at + k < DataSize /\ at + k + 1 \in 1..DataSize
    BY <1>3, <1>6, <1>10 DEF DataSize
  <2>4. Loaded(data_rva + (at + k))
          = output[image[2].raw_offset + ((data_rva + (at + k)) - image[2].rva) + 1]
    <3>1. 2 \in 1..Len(image) /\ data_rva + (at + k) \in Nat
          /\ image[2].rva <= data_rva + (at + k)
          /\ data_rva + (at + k) < image[2].rva + image[2].size
      BY <1>4, <1>8, <2>0, <2>1, <2>3
    <3>. QED  BY <1>1, <3>1, LoadedIs
  <2>5. output[image[2].raw_offset + (at + k + 1)] = out["data"][at + k + 1]
    BY <1>1, <1>4, <2>0, <2>3 DEF InFile, DataSize
  <2>6. image[2].raw_offset + ((data_rva + (at + k)) - image[2].rva) + 1
          = image[2].raw_offset + (at + k + 1)
    <3>1. image[2].raw_offset \in Nat
      BY <1>1, <1>4, <2>0, ImageIsTyped
    <3>. QED  BY <1>3, <1>6, <1>8, <2>1, <3>1
  <2>. QED  BY <1>7, <1>10, <2>2, <2>4, <2>5, <2>6
<1>. QED  BY <1>3, <1>9, <1>10 DEF Kinds

\* What a successful link has written holds every section.
LEMMA ContentsAreLoaded ==
  ASSUME LayoutInv, WriteInv, ContentsInv, CloseImage, FieldsStayInside(object)
  PROVE  ImageHoldsEverySection'
<1>1. /\ TypeOK /\ StageInv /\ stage = "write" /\ item = Len(Chunks) + 1
      /\ UNCHANGED <<object, input_sections, image, output>>
  BY DEF LayoutInv, CloseImage, linked
<1>2. Linking /\ PlacedSoFar = {i \in 1..SectionCount : Placed(i)}
  BY <1>1, AddressedFacts
<1>3. \A i : /\ Placed(i)' <=> Placed(i)
             /\ \A k : InField(i, k)' <=> InField(i, k)
  BY <1>1 DEF Placed, InField, Relocations
<1>4. \A i, k : InField(i, k) <=> InAppliedField(i, k)
  BY <1>1 DEF InField, InAppliedField, Applied
<1>5. \A rva : Loaded(rva)' = Loaded(rva)
  BY <1>1 DEF Loaded
<1>. SUFFICES ASSUME NEW i \in 1..SectionCount, Placed(i),
                     NEW k \in 0..VirtualSize(object.sections[i]) - 1
              PROVE  IF InField(i, k)
                     THEN Loaded(input_sections[i].output_rva + k).origin = "patch"
                     ELSE Loaded(input_sections[i].output_rva + k)
                            = IF k < object.sections[i].raw_size
                              THEN FromObject(object.sections[i].raw_offset + k)
                              ELSE Zero
  BY <1>1, <1>3, <1>5 DEF ImageHoldsEverySection, SectionCount
<1>6. i \in PlacedSoFar
  BY <1>2
<1>7. IF InAppliedField(i, k) THEN CellOf(i, k).origin = "patch"
      ELSE CellOf(i, k) = Original(i, k)
  BY <1>2, <1>6 DEF ContentsInv
<1>8. Loaded(input_sections[i].output_rva + k) = CellOf(i, k)
  BY <1>1, <1>6, SectionIsLoaded
<1>. QED  BY <1>4, <1>7, <1>8 DEF Original

\* A field that holds what its relocation means stands for its symbol.
LEMMA AddressOfValue ==
  ASSUME TypeOK, StageInv, stage = "write", NEW i \in PlacedSoFar,
         NEW r \in Relocation, Resolves(r.symbol), NEW addend \in Int
  PROVE  Address(i, r, Value(i, r, addend)) = SymbolRva(r.symbol) + addend
<1>1. SymbolRva(r.symbol) \in Int
  <2>1. r.symbol \in Nat
    BY DEF Relocation
  <2>. QED  BY <2>1, ResolvedFacts, SizesAssumption
<1>2. input_sections[i].output_rva \in Int
  <2>1. input_sections[i] \in Placements
    BY AddressedFacts, PlacedFacts
  <2>. QED  BY <2>1, SizesAssumption DEF Placements
<1>3. r.at \in Int /\ r.adjustment \in Int /\ WordSize \in Int /\ ImageBase \in Int
  BY SizesAssumption DEF Relocation
<1>4. \A place, at, word, adj, target, base, x \in Int :
        /\ place + at + word + adj + (target - ((place + at) + word + adj) + x)
             = target + x
        /\ (base + target + x) - base = target + x
  OBVIOUS
<1>5. CASE r.type = "REL32"
  <2>1. Value(i, r, addend)
          = SymbolRva(r.symbol)
              - ((input_sections[i].output_rva + r.at) + WordSize + r.adjustment) + addend
    BY <1>5 DEF Value
  <2>2. Address(i, r, Value(i, r, addend))
          = input_sections[i].output_rva + r.at + WordSize + r.adjustment
              + Value(i, r, addend)
    BY <1>5 DEF Address
  <2>. QED  BY <1>1, <1>2, <1>3, <1>4, <2>1, <2>2
<1>6. CASE r.type = "ADDR32NB"
  BY <1>6 DEF Value, Address
<1>7. CASE r.type \notin {"REL32", "ADDR32NB"}
  <2>1. Value(i, r, addend) = ImageBase + SymbolRva(r.symbol) + addend
    BY <1>7 DEF Value
  <2>2. Address(i, r, Value(i, r, addend)) = Value(i, r, addend) - ImageBase
    BY <1>7 DEF Address
  <2>. QED  BY <1>1, <1>2, <1>3, <1>4, <2>1, <2>2
<1>. QED  BY <1>5, <1>6, <1>7

\* What a successful link has written holds references that reach their symbols.
LEMMA ReferencesAreLoaded ==
  ASSUME LayoutInv, WriteInv, ReferencesInv, CloseImage, FieldsAreApart(object)
  PROVE  ReferencesReachTheirSymbols'
<1>1. /\ TypeOK /\ StageInv /\ stage = "write" /\ item = Len(Chunks) + 1
      /\ UNCHANGED <<object, input_sections, image, output>>
  BY DEF LayoutInv, CloseImage, linked
<1>2. /\ Linking /\ PlacedSoFar = {i \in 1..SectionCount : Placed(i)}
      /\ object \in Objects /\ ~Malformed
  BY <1>1, AddressedFacts
<1>3. \A i : Relocations(i)' = Relocations(i)
  BY <1>1 DEF Placed, Relocations
<1>4. \A rva : Loaded(rva)' = Loaded(rva)
  BY <1>1 DEF Loaded
<1>. SUFFICES ASSUME NEW i \in 1..SectionCount, NEW n \in 1..Len(Relocations(i))
              PROVE  LET r == Relocations(i)[n]
                         y == object.symbols[r.symbol + 1]
                     IN  Address(i, r, Loaded(input_sections[i].output_rva + r.at).value)
                           = input_sections[y.section].output_rva + y.value
                               + object.words[object.sections[i].raw_offset + r.at]
  BY <1>1, <1>3, <1>4 DEF ReferencesReachTheirSymbols, SectionCount, Address
<1>. DEFINE r == Relocations(i)[n]
            s == object.sections[i]
            addend == object.words[s.raw_offset + r.at]
<1>5. Placed(i) /\ i \in PlacedSoFar /\ Relocations(i) = s.relocations
  BY <1>2 DEF Relocations
<1>6. /\ s \in InputSection /\ s.raw_size \in Nat /\ s.raw_offset \in Nat
      /\ VirtualSize(s) \in Nat /\ s.raw_size <= VirtualSize(s) /\ object.size \in Nat
  BY <1>2, ObjectsAreObjects, SizesOfSection
<1>7. r \in Relocation
  BY <1>5, <1>6 DEF InputSection
<1>8. r.at \in Nat /\ FieldSize(r) \in Nat \ {0}
  <2>. HIDE DEF r
  <2>. QED  BY <1>7, SizesAssumption DEF Relocation, FieldSize
<1>9. r.at + FieldSize(r) <= s.raw_size
  BY <1>5 DEF FieldsAreApart, SectionCount
<1>10. r.at < s.raw_size /\ r.at \in 0..VirtualSize(s) - 1
  <2>. HIDE DEF r, s
  <2>. QED  BY <1>6, <1>8, <1>9
<1>11. addend \in Int
  <2>1. s.raw_offset + s.raw_size <= object.size
    <3>1. s.raw_size > 0
      <4>. HIDE DEF r, s
      <4>. QED  BY <1>6, <1>8, <1>10
    <3>2. ~(s.raw_offset + s.raw_size > object.size)
      BY <1>2, <3>1 DEF Malformed
    <3>. HIDE DEF s
    <3>. QED  BY <1>6, <3>2
  <2>2. s.raw_offset + r.at \in 0..object.size - 1
    <3>. HIDE DEF r, s
    <3>. QED  BY <1>6, <1>8, <1>10, <2>1, SMTT(30)
  <2>. HIDE DEF r, s
  <2>. QED  BY <1>2, <2>2, ObjectsAreObjects
<1>12. /\ Resolves(r.symbol) /\ CellOf(i, r.at) = Patch(Value(i, r, addend))
  BY <1>1, <1>2, <1>5 DEF ReferencesInv, Applied, Meant
<1>13. Loaded(input_sections[i].output_rva + r.at) = CellOf(i, r.at)
  BY <1>1, <1>5, <1>10, SectionIsLoaded
<1>14. Loaded(input_sections[i].output_rva + r.at).value = Value(i, r, addend)
  BY <1>12, <1>13 DEF Patch
<1>15. Address(i, r, Value(i, r, addend)) = SymbolRva(r.symbol) + addend
  <2>. HIDE DEF r, addend
  <2>. QED  BY <1>1, <1>5, <1>7, <1>11, <1>12, AddressOfValue
<1>. QED  BY <1>14, <1>15 DEF SymbolRva

\* Once it is written, an image stays as it is.
LEMMA ImageStays ==
  ASSUME LayoutInv, [Next]_vars, Written', ~CloseImage
  PROVE  Written /\ UNCHANGED <<object, input_sections, image, output>>
<1>1. TypeOK /\ StageInv
  BY DEF LayoutInv
<1>2. CASE UNCHANGED vars
  BY <1>2 DEF vars, linked, Written
<1>3. CASE Cleanup
  BY <1>3 DEF Cleanup, Primary, Written
<1>4. ~Abandoned /\ ~RunNasm /\ ~NasmFails
  BY DEF Abandoned, Abandon, RunNasm, NasmFails, Primary, Written
<1>5. ~(NextSymbol /\ ~Abandoned) /\ ~(ApplyRelocation /\ ~Abandoned)
  BY <1>1 DEF NextSymbol, ApplyRelocation, Primary, Abandon, Written, StageInv, TypeOK
<1>6. /\ ~InitializeInputSections /\ ~PlaceSection /\ ~AssignAddresses
      /\ ~NextSection /\ ~OpenImage /\ ~WriteChunk
  BY <1>1 DEF InitializeInputSections, PlaceSection, AssignAddresses, NextSection,
     OpenImage, WriteChunk, Primary, Written
<1>. QED  BY <1>2, <1>3, <1>4, <1>5, <1>6, FailuresAbandon DEF Next

\* write_pe_image (fcc_link.c), for every object NASM writes whose relocations
\* have their fields inside their sections: a written image, as a loader maps
\* it, holds at the address of each section its bytes and nothing else, but in
\* the fields of its own relocations.
THEOREM SectionsAreLoaded ==
  Spec => [](FieldsStayInside(object) => ImageHoldsEverySection)
<1>. DEFINE Loads == FieldsStayInside(object) => ImageHoldsEverySection
<1>1. Init => Loads
  BY DEF Init, ImageHoldsEverySection, Written
<1>2. LayoutInv /\ WriteInv /\ ContentsInv /\ Loads /\ [Next]_vars => Loads'
  <2>. SUFFICES ASSUME LayoutInv, WriteInv, ContentsInv, Loads, [Next]_vars,
                       Written', FieldsStayInside(object)'
                PROVE  ImageHoldsEverySection'
    BY DEF ImageHoldsEverySection
  <2>1. CASE CloseImage
    <3>1. FieldsStayInside(object)
      BY <2>1 DEF CloseImage, FieldsStayInside
    <3>. QED  BY <2>1, <3>1, ContentsAreLoaded
  <2>2. CASE ~CloseImage
    <3>1. Written /\ UNCHANGED <<object, input_sections, image, output>>
      BY <2>2, ImageStays
    <3>2. /\ \A i : Placed(i)' <=> Placed(i)
          /\ \A i, k : InField(i, k)' <=> InField(i, k)
          /\ \A rva : Loaded(rva)' = Loaded(rva)
          /\ SectionCount' = SectionCount
      BY <3>1 DEF Placed, InField, Relocations, Loaded, SectionCount
    <3>3. FieldsStayInside(object)
      BY <3>1 DEF FieldsStayInside
    <3>. QED  BY <3>1, <3>2, <3>3 DEF ImageHoldsEverySection
  <2>. QED  BY <2>1, <2>2
<1>. QED
  BY <1>1, <1>2, LayoutInit, LayoutStep, WriteInit, WriteStep, ContentsInit,
     ContentsStep, PTL DEF Spec

\* apply_relocations (fcc_link.c), for every object NASM writes whose
\* relocations have fields apart from each other in the raw data of their
\* sections: every relocated field of a written image stands for the address its
\* symbol was loaded at, plus the addend the object held there.
THEOREM ReferencesAreResolved ==
  Spec => [](FieldsAreApart(object) => ReferencesReachTheirSymbols)
<1>. DEFINE Reaches == FieldsAreApart(object) => ReferencesReachTheirSymbols
<1>1. Init => Reaches
  BY DEF Init, ReferencesReachTheirSymbols, Written
<1>2. LayoutInv /\ WriteInv /\ ReferencesInv /\ Reaches /\ [Next]_vars => Reaches'
  <2>. SUFFICES ASSUME LayoutInv, WriteInv, ReferencesInv, Reaches, [Next]_vars,
                       Written', FieldsAreApart(object)'
                PROVE  ReferencesReachTheirSymbols'
    BY DEF ReferencesReachTheirSymbols
  <2>1. CASE CloseImage
    <3>1. FieldsAreApart(object)
      BY <2>1 DEF CloseImage, FieldsAreApart
    <3>. QED  BY <2>1, <3>1, ReferencesAreLoaded
  <2>2. CASE ~CloseImage
    <3>1. Written /\ UNCHANGED <<object, input_sections, image, output>>
      BY <2>2, ImageStays
    <3>2. /\ \A i : Relocations(i)' = Relocations(i)
          /\ \A rva : Loaded(rva)' = Loaded(rva)
          /\ SectionCount' = SectionCount
      BY <3>1 DEF Placed, Relocations, Loaded, SectionCount
    <3>3. FieldsAreApart(object)
      BY <3>1 DEF FieldsAreApart
    <3>. QED  BY <3>1, <3>2, <3>3 DEF ReferencesReachTheirSymbols, Address
  <2>. QED  BY <2>1, <2>2
<1>. QED
  BY <1>1, <1>2, LayoutInit, LayoutStep, WriteInit, WriteStep, ContentsInit,
     ContentsStep, PTL DEF Spec
===============================================================================
