-------------------------------- MODULE FccLink --------------------------------
(***************************************************************************)
(* The internal linker of fcc_link.c: it runs NASM, reads the COFF object  *)
(* NASM wrote, copies its sections into one text and one data output,      *)
(* gives them addresses, finds main, patches the relocations and writes a  *)
(* PE image, in that order.  Any step may fail; every failure after NASM   *)
(* goes through the same cleanup.                                          *)
(*                                                                         *)
(* A byte is a cell that says where its value comes from.  The sizes of    *)
(* the code (16, 8, 0x1000, 0x200, ...) are constants, so that a checked   *)
(* instance has small ones.                                                *)
(***************************************************************************)
EXTENDS Integers, Sequences, FiniteSets

CONSTANTS
  Objects,            \* the objects NASM may write
  Pad,                \* Pad["text"], Pad["data"]: output alignments, 16 and 8
  SectionAlignment,   \* 0x1000
  FileAlignment,      \* 0x200
  HeadersSize,        \* PE headers with a given number of sections, unaligned
  ResourceSize,       \* the manifest resource
  WordSize,           \* sizeof(int32_t)
  ImageBase,          \* 0x140000000
  MaxRva,             \* UINT32_MAX
  MaxDisplacement,    \* INT32_MAX
  MaxInputSections    \* 32

Kinds == {"text", "data"}

ASSUME SizesAssumption ==
  /\ Pad \in [Kinds -> Nat \ {0}]
  /\ SectionAlignment \in Nat \ {0} /\ FileAlignment \in Nat \ {0}
  /\ HeadersSize \in [2..3 -> Nat \ {0}] /\ ResourceSize \in Nat \ {0}
  /\ WordSize \in Nat \ {0} /\ MaxInputSections \in Nat
  /\ MaxRva \in Nat /\ MaxDisplacement \in Nat /\ ImageBase \in Nat
  /\ \A n \in 2..3 : HeadersSize[n] <= SectionAlignment
  /\ ImageBase > MaxRva

(* What the linker reads in an object.  A relocation names a symbol by its *)
(* index in the symbol table (from 0), auxiliary records included; an      *)
(* auxiliary record occupies a place of the table and may look like        *)
(* anything.                                                               *)
RelocationTypes == {"REL32", "ADDR32", "ADDR32NB", "ADDR64", "unsupported"}

Relocation == [at : Nat, symbol : Nat, type : RelocationTypes, adjustment : 0..5]

InputSection == [contents : {"code", "data", "bss", "other"},
                 raw_size : Nat, raw_offset : Nat, virtual_size : Nat,
                 relocations : Seq(Relocation), relocations_inside : BOOLEAN]

Symbol == [name : {"main", "other", "unreadable"}, section : Int, value : Nat,
           external : BOOLEAN, aux : Nat]

\* words[k] is the integer stored at offset k, as a relocation would read it.
IsObject(o) ==
  /\ o.size \in Nat /\ o.tables_inside \in BOOLEAN
  /\ o.sections \in Seq(InputSection) /\ o.symbols \in Seq(Symbol)
  /\ \A k \in 0..o.size - 1 : o.words[k] \in Int

ASSUME ObjectsAssumption == \A o \in Objects : IsObject(o)

VARIABLES
  stage,            \* what runs next
  ok,               \* the result, once the stage is "done"
  delete_object,    \* request->delete_temporary_files
  object_file,      \* the stage object on disk
  object,           \* what NASM wrote
  input_sections,   \* kind, output_offset and output_rva of every section
  out,              \* text_bytes and data_bytes
  text_rva, data_rva, entry_rva,
  section, item,    \* loop counters: section index, relocation or symbol
  image,            \* the section table of the PE headers
  output            \* the cells written to it; image = << >> until it is opened

linked == <<input_sections, out, text_rva, data_rva, entry_rva>>
vars == <<stage, ok, delete_object, object_file, object, linked, section, item,
          image, output>>

-----------------------------------------------------------------------------
(* Bytes and alignment.                                                     *)

FromObject(k) == [origin |-> "object", value |-> k]
Zero == [origin |-> "zero", value |-> 0]
Patch(v) == [origin |-> "patch", value |-> v]
Fixed(name) == [origin |-> name, value |-> 0]    \* headers and resource

Fill(n, cell) == [k \in 1..n |-> cell]

AlignUp(v, a) == IF v % a = 0 THEN v ELSE v + (a - (v % a))

Largest(x, y) == IF x < y THEN y ELSE x

\* The integer a relocation reads in a field of an output.
Stored(cell) ==
  CASE cell.origin = "object" -> object.words[cell.value]
    [] cell.origin = "patch"  -> cell.value
    [] OTHER -> 0

OutputKind(s) ==
  CASE s.contents = "code" -> "text"
    [] s.contents \in {"data", "bss"} -> "data"
    [] OTHER -> "ignored"

VirtualSize(s) == Largest(s.virtual_size, s.raw_size)

Placed(i) == input_sections[i].output_kind \in Kinds

SectionCount == Len(object.sections)

Primary(next) == stage' = next

Abandon == stage' = "cleanup" /\ ok' = FALSE

-----------------------------------------------------------------------------
NoObject == [size |-> 0, tables_inside |-> FALSE, sections |-> << >>,
             symbols |-> << >>, words |-> [k \in {0} |-> 0]]

Init ==
  /\ stage = "nasm" /\ ok = FALSE
  /\ delete_object \in BOOLEAN
  /\ object_file = "absent" /\ object = NoObject
  /\ input_sections = << >> /\ out = [k \in Kinds |-> << >>]
  /\ text_rva = 0 /\ data_rva = 0 /\ entry_rva = 0
  /\ section = 1 /\ item = 1
  /\ image = << >> /\ output = << >>

\* The object path does not fit its buffer, or NASM cannot be run or fails;
\* a NASM that was killed may have left part of a file.  cleanup_object is
\* not set yet, so this failure deletes nothing.
NasmFails ==
  /\ stage = "nasm"
  /\ stage' = "done" /\ ok' = FALSE
  /\ object_file' \in {"absent", "partial"}
  /\ UNCHANGED <<delete_object, object, linked, section, item, image, output>>

RunNasm ==
  /\ stage = "nasm"
  /\ object' \in Objects
  /\ object_file' = "whole"
  /\ Primary("read")
  /\ UNCHANGED <<ok, delete_object, linked, section, item, image, output>>

\* Reading, parsing the headers, checking that every section lies inside the
\* file.  Every failure, the system's included, abandons the link.
Malformed ==
  \/ ~object.tables_inside
  \/ SectionCount \notin 1..MaxInputSections
  \/ Len(object.symbols) = 0
  \/ \E i \in 1..SectionCount :
       LET s == object.sections[i] IN
         \/ s.raw_size > 0 /\ s.raw_offset + s.raw_size > object.size
         \/ s.relocations # << >> /\ ~s.relocations_inside

InitializeInputSections ==
  /\ stage = "read" /\ ~Malformed
  /\ input_sections' =
       [i \in 1..SectionCount |->
          [output_kind |-> OutputKind(object.sections[i]),
           output_offset |-> 0, output_rva |-> 0]]
  /\ section' = 1
  /\ Primary("place")
  /\ UNCHANGED <<ok, delete_object, object_file, object, out, text_rva,
                 data_rva, entry_rva, item, image, output>>

ReadFails ==
  /\ stage = "read"
  /\ Abandon
  /\ UNCHANGED <<delete_object, object_file, object, linked, section, item,
                 image, output>>

-----------------------------------------------------------------------------
(* build_output_sections.                                                   *)

\* Mistaken form: no padding before a section.
ContributionUnpadded(s, offset) ==
  [k \in 1..s.raw_size |-> FromObject(s.raw_offset + k - 1)]
    \o Fill(VirtualSize(s) - s.raw_size, Zero)

\* The cells a section adds to its output: alignment, raw data, zeros.
Contribution(s, offset) ==
  Fill(AlignUp(offset, Pad[OutputKind(s)]) - offset, Zero)
    \o [k \in 1..s.raw_size |-> FromObject(s.raw_offset + k - 1)]
    \o Fill(VirtualSize(s) - s.raw_size, Zero)

PlaceSection ==
  /\ stage = "place" /\ section <= SectionCount
  /\ section' = section + 1
  /\ \/ /\ ~Placed(section)
        /\ UNCHANGED <<out, input_sections>>
     \/ /\ Placed(section)
        /\ LET s    == object.sections[section]
               kind == input_sections[section].output_kind
               used == Len(out[kind])
           IN  /\ out' = [out EXCEPT ![kind] = @ \o Contribution(s, used)]
               /\ input_sections' =
                    [input_sections EXCEPT ![section].output_offset =
                       AlignUp(used, Pad[kind])]
  /\ UNCHANGED <<stage, ok, delete_object, object_file, object, text_rva,
                 data_rva, entry_rva, item, image, output>>

DataRva ==
  IF out["data"] = << >> THEN 0
  ELSE AlignUp(SectionAlignment + Len(out["text"]), SectionAlignment)

OutputRva(i) ==
  input_sections[i].output_offset
    + (IF input_sections[i].output_kind = "text" THEN SectionAlignment ELSE DataRva)

LayoutOverflows ==
  \/ DataRva > MaxRva
  \/ \E i \in 1..SectionCount : Placed(i) /\ OutputRva(i) > MaxRva

AssignAddresses ==
  /\ stage = "place" /\ section = SectionCount + 1
  /\ out["text"] # << >> /\ ~LayoutOverflows
  /\ text_rva' = SectionAlignment /\ data_rva' = DataRva
  /\ input_sections' =
       [i \in 1..SectionCount |->
          IF Placed(i)
          THEN [input_sections[i] EXCEPT !.output_rva = OutputRva(i)]
          ELSE input_sections[i]]
  /\ item' = 1
  /\ Primary("main")
  /\ UNCHANGED <<ok, delete_object, object_file, object, out, entry_rva,
                 section, image, output>>

\* Out of memory while appending a section; no code at all; or an address
\* beyond 32 bits.
PlaceFails ==
  /\ stage = "place"
  /\ IF section <= SectionCount THEN Placed(section)
     ELSE out["text"] = << >> \/ LayoutOverflows
  /\ Abandon
  /\ UNCHANGED <<delete_object, object_file, object, linked, section, item,
                 image, output>>

-----------------------------------------------------------------------------
(* Symbols.  Resolves(y) says whether resolve_symbol_rva succeeds.          *)

Resolves(index) ==
  /\ index < Len(object.symbols)
  /\ LET y == object.symbols[index + 1] IN
       /\ y.section \in 1..SectionCount
       /\ Placed(y.section)
       /\ y.value <= MaxRva - input_sections[y.section].output_rva

\* Mistaken form: the offset of the symbol in its section is forgotten.
SectionRvaOf(index) ==
  input_sections[object.symbols[index + 1].section].output_rva

SymbolRva(index) ==
  LET y == object.symbols[index + 1]
  IN  input_sections[y.section].output_rva + y.value

\* A candidate for main is an external symbol defined in a section.
Candidate(y) == y.external /\ y.section > 0

\* Mistaken forms: auxiliary records are scanned as symbols; a symbol
\* without auxiliary records is not passed.
AfterRecord(y) == item + 1
StayWithoutAux(y) == IF y.aux = 0 THEN item ELSE item + y.aux + 1

AfterSymbol(y) == item + y.aux + 1

NextSymbol ==
  /\ stage = "main" /\ item <= Len(object.symbols)
  /\ LET y == object.symbols[item] IN
       \/ /\ ~Candidate(y) \/ y.name = "other"
          /\ item' = AfterSymbol(y)
          /\ UNCHANGED <<stage, ok, entry_rva, section>>
       \/ /\ Candidate(y) /\ y.name = "main" /\ Resolves(item - 1)
          /\ entry_rva' = SymbolRva(item - 1)
          /\ section' = 1 /\ item' = 1
          /\ Primary("relocate") /\ UNCHANGED ok
       \/ /\ Candidate(y)
          /\ y.name = "unreadable" \/ (y.name = "main" /\ ~Resolves(item - 1))
          /\ Abandon /\ UNCHANGED <<entry_rva, section, item>>
  /\ UNCHANGED <<delete_object, object_file, object, input_sections, out,
                 text_rva, data_rva, image, output>>

NoMain ==
  /\ stage = "main" /\ item > Len(object.symbols)
  /\ Abandon
  /\ UNCHANGED <<delete_object, object_file, object, linked, section, item,
                 image, output>>

-----------------------------------------------------------------------------
(* apply_relocations.                                                       *)

FieldSize(r) == IF r.type = "ADDR64" THEN 2 * WordSize ELSE WordSize

\* Mistaken form: the offset of the section in its output is forgotten.
PatchOffsetInSection(i, r) == r.at

PatchOffset(i, r) == input_sections[i].output_offset + r.at

Buffer(i) == out[input_sections[i].output_kind]

\* The value a relocation of section i writes over the addend it found.
Value(i, r, addend) ==
  LET target == SymbolRva(r.symbol)
      place  == input_sections[i].output_rva + r.at
  IN  CASE r.type = "REL32" -> target - (place + WordSize + r.adjustment) + addend
        [] r.type = "ADDR32NB" -> target + addend
        [] OTHER -> ImageBase + target + addend

InRange(r, v) ==
  CASE r.type = "REL32" -> -MaxDisplacement - 1 <= v /\ v <= MaxDisplacement
    [] r.type \in {"ADDR32", "ADDR32NB"} -> v <= MaxRva
    [] OTHER -> TRUE

\* A relocation that apply_relocations accepts; the field is checked against
\* the whole output, not against the section the relocation belongs to.
Accepts(i, r) ==
  /\ PatchOffset(i, r) < Len(Buffer(i))
  /\ Resolves(r.symbol)
  /\ r.type # "unsupported"
  /\ PatchOffset(i, r) + FieldSize(r) <= Len(Buffer(i))
  /\ InRange(r, Value(i, r, Stored(Buffer(i)[PatchOffset(i, r) + 1])))

Relocations(i) ==
  IF Placed(i) THEN object.sections[i].relocations ELSE << >>

Patched(i, r) ==
  LET from  == PatchOffset(i, r)
      value == Value(i, r, Stored(Buffer(i)[from + 1]))
  IN  [k \in 1..Len(Buffer(i)) |->
         IF k \in from + 1 .. from + FieldSize(r) THEN Patch(value)
         ELSE Buffer(i)[k]]

ApplyRelocation ==
  /\ stage = "relocate" /\ section <= SectionCount
  /\ item <= Len(Relocations(section))
  /\ LET r == Relocations(section)[item] IN
       \/ /\ Accepts(section, r)
          /\ out' = [out EXCEPT ![input_sections[section].output_kind] =
                       Patched(section, r)]
          /\ item' = item + 1
          /\ UNCHANGED <<stage, ok>>
       \/ /\ ~Accepts(section, r)
          /\ Abandon /\ UNCHANGED <<out, item>>
  /\ UNCHANGED <<delete_object, object_file, object, input_sections, text_rva,
                 data_rva, entry_rva, section, image, output>>

NextSection ==
  /\ stage = "relocate" /\ section <= SectionCount
  /\ item > Len(Relocations(section))
  /\ section' = section + 1 /\ item' = 1
  /\ UNCHANGED <<stage, ok, delete_object, object_file, object, linked, image,
                 output>>

-----------------------------------------------------------------------------
(* write_pe_image.                                                          *)

HasData == out["data"] # << >>

ResourceRva ==
  AlignUp(IF HasData THEN data_rva + Len(out["data"])
                     ELSE text_rva + Len(out["text"]), SectionAlignment)

RawSize(n) == AlignUp(n, FileAlignment)

\* The section table: text, data if there is any, resource.
SectionTable ==
  LET headers == AlignUp(HeadersSize[IF HasData THEN 3 ELSE 2], FileAlignment)
      text    == [rva |-> text_rva, size |-> Len(out["text"]),
                  raw_offset |-> headers, raw_size |-> RawSize(Len(out["text"]))]
      data    == [rva |-> data_rva, size |-> Len(out["data"]),
                  raw_offset |-> headers + text.raw_size,
                  raw_size |-> RawSize(Len(out["data"]))]
      rsrc(o) == [rva |-> ResourceRva, size |-> ResourceSize,
                  raw_offset |-> o, raw_size |-> RawSize(ResourceSize)]
  IN  IF HasData THEN <<text, data, rsrc(data.raw_offset + data.raw_size)>>
      ELSE <<text, rsrc(data.raw_offset)>>

SizeOfImage == AlignUp(ResourceRva + ResourceSize, SectionAlignment)

\* The chunks the writer emits, each one followed by its zero padding.
Chunks ==
  LET padded(cells) == cells \o Fill(RawSize(Len(cells)) - Len(cells), Zero)
      headers == padded(Fill(HeadersSize[IF HasData THEN 3 ELSE 2], Fixed("headers")))
      rsrc    == padded(Fill(ResourceSize, Fixed("resource")))
  IN  IF HasData THEN <<headers, padded(out["text"]), padded(out["data"]), rsrc>>
      ELSE <<headers, padded(out["text"]), rsrc>>

\* The headers are computed, then the output file is truncated by fopen.
OpenImage ==
  /\ stage = "relocate" /\ section = SectionCount + 1
  /\ ResourceRva <= MaxRva /\ SizeOfImage <= MaxRva
  /\ Len(out["data"]) + ResourceSize <= MaxRva
  /\ image' = SectionTable
  /\ output' = << >>
  /\ item' = 1
  /\ Primary("write")
  /\ UNCHANGED <<ok, delete_object, object_file, object, linked, section>>

\* An address or size beyond 32 bits, no memory, or the file cannot be opened.
OpenFails ==
  /\ stage = "relocate" /\ section = SectionCount + 1
  /\ Abandon
  /\ UNCHANGED <<delete_object, object_file, object, linked, section, item,
                 image, output>>

WriteChunk ==
  /\ stage = "write" /\ item <= Len(Chunks)
  /\ output' = output \o Chunks[item]
  /\ item' = item + 1
  /\ UNCHANGED <<stage, ok, delete_object, object_file, object, linked,
                 section, image>>

\* Mistaken form: the result of fclose, which writes what is left, is ignored.
WriteFailureIgnored ==
  /\ stage = "write"
  /\ ok' = TRUE
  /\ Primary("cleanup")
  /\ UNCHANGED <<delete_object, object_file, object, linked, section, item,
                 image, output>>

\* A write or the close fails: the part already written stays on disk.
WriteFails ==
  /\ stage = "write"
  /\ Abandon
  /\ UNCHANGED <<delete_object, object_file, object, linked, section, item,
                 image, output>>

CloseImage ==
  /\ stage = "write" /\ item = Len(Chunks) + 1
  /\ ok' = TRUE
  /\ Primary("cleanup")
  /\ UNCHANGED <<delete_object, object_file, object, linked, section, item,
                 image, output>>

\* The context is disposed and the object deleted if the request says so.
\* DeleteFileW's own failure is ignored by the code and left out here.
Cleanup ==
  /\ stage = "cleanup"
  /\ out' = [k \in Kinds |-> << >>]
  /\ object_file' = IF delete_object THEN "absent" ELSE object_file
  /\ Primary("done")
  /\ UNCHANGED <<ok, delete_object, object, input_sections, text_rva, data_rva,
                 entry_rva, section, item, image, output>>

Next ==
  \/ RunNasm \/ NasmFails
  \/ InitializeInputSections \/ ReadFails
  \/ PlaceSection \/ AssignAddresses \/ PlaceFails
  \/ NextSymbol \/ NoMain
  \/ ApplyRelocation \/ NextSection
  \/ OpenImage \/ OpenFails \/ WriteChunk \/ WriteFails \/ CloseImage
  \/ Cleanup

\* The linker is one sequential function: it keeps taking steps until it
\* returns.
Spec == Init /\ [][Next]_vars /\ WF_vars(Next)

-----------------------------------------------------------------------------
(* What a correct linker does.                                              *)

Cell == [origin : {"object", "zero", "patch", "headers", "resource"},
         value : Int]

\* The variables have their types; every address fits the 32 bits of the
\* image, which the unchecked sums of the layout would break.
TypeOK ==
  /\ stage \in {"nasm", "read", "place", "main", "relocate", "write", "cleanup",
                "done"}
  /\ ok \in BOOLEAN /\ delete_object \in BOOLEAN
  /\ object_file \in {"absent", "partial", "whole"}
  /\ object \in Objects \cup {NoObject}
  /\ input_sections \in Seq([output_kind : Kinds \cup {"ignored"},
                             output_offset : Nat, output_rva : 0..MaxRva])
  /\ out \in [Kinds -> Seq(Cell)]
  /\ text_rva \in 0..MaxRva /\ data_rva \in 0..MaxRva /\ entry_rva \in 0..MaxRva
  /\ section \in 1..SectionCount + 1 /\ item \in Nat
  /\ image \in Seq([rva : Nat, size : Nat, raw_offset : Nat, raw_size : Nat])
  /\ output \in Seq(Cell)

\* The sections that have their place in an output.
PlacedSoFar ==
  IF stage \notin {"place", "main", "relocate", "write"} THEN {}
  ELSE {i \in 1..Len(input_sections) :
          Placed(i) /\ (stage = "place" => i < section)}

Disjoint(from1, size1, from2, size2) ==
  from1 + size1 <= from2 \/ from2 + size2 <= from1

\* The input sections occupy aligned, disjoint parts of their output, whatever
\* the sizes and the padding between them, and never reach beyond it.
InputsDoNotOverlap ==
  \A i \in PlacedSoFar :
    /\ input_sections[i].output_offset % Pad[input_sections[i].output_kind] = 0
    /\ input_sections[i].output_offset + VirtualSize(object.sections[i])
         <= Len(Buffer(i))
    /\ \A j \in PlacedSoFar \ {i} :
         input_sections[i].output_kind = input_sections[j].output_kind =>
           Disjoint(input_sections[i].output_offset,
                    VirtualSize(object.sections[i]),
                    input_sections[j].output_offset,
                    VirtualSize(object.sections[j]))

\* In the section table of the image no two sections share an address or a
\* byte of the file, none lies over the headers, and all are aligned.
ImageSectionsDoNotOverlap ==
  \A a \in 1..Len(image) :
    /\ image[a].rva % SectionAlignment = 0 /\ image[a].rva >= SectionAlignment
    /\ image[a].raw_offset % FileAlignment = 0
    /\ image[a].raw_offset >= HeadersSize[Len(image)]
    /\ image[a].size <= image[a].raw_size
    /\ \A b \in 1..Len(image) \ {a} :
         /\ Disjoint(image[a].rva, image[a].size, image[b].rva, image[b].size)
         /\ Disjoint(image[a].raw_offset, image[a].raw_size,
                     image[b].raw_offset, image[b].raw_size)

\* Every section that has its place can be addressed in 32 bits.
AddressesFit ==
  /\ text_rva <= MaxRva /\ data_rva <= MaxRva
  /\ \A i \in PlacedSoFar : input_sections[i].output_rva <= MaxRva

\* However many sections of whatever sizes and alignments come in, with padding,
\* without data, and with addresses at the limit: neither on the way in nor in
\* the image does one section lie over another, and all can be addressed.
SectionsDoNotOverlap ==
  InputsDoNotOverlap /\ ImageSectionsDoNotOverlap /\ AddressesFit

(* A written image, as a loader maps it.                                    *)

Written == ok /\ stage \in {"cleanup", "done"}

Loaded(rva) ==
  LET s == CHOOSE t \in {image[a] : a \in 1..Len(image)} :
             t.rva <= rva /\ rva < t.rva + t.size
  IN  output[s.raw_offset + (rva - s.rva) + 1]

InField(i, k) ==
  \E n \in 1..Len(Relocations(i)) :
    k \in Relocations(i)[n].at ..
            Relocations(i)[n].at + FieldSize(Relocations(i)[n]) - 1

\* The loaded image holds at the address of each input section exactly the
\* bytes of that section: its raw data, zeros up to its virtual size, and
\* nothing else changed but the fields of its own relocations.
ImageHoldsEverySection ==
  Written =>
    \A i \in 1..SectionCount :
      Placed(i) /\ object.sections[i].contents # "bss" =>
        LET s == object.sections[i] IN
          \A k \in 0..VirtualSize(s) - 1 :
            LET cell == Loaded(input_sections[i].output_rva + k) IN
              IF InField(i, k) THEN cell.origin = "patch"
              ELSE cell = IF k < s.raw_size THEN FromObject(s.raw_offset + k)
                          ELSE Zero

\* The address a loaded field stands for: a REL32 field counts from the end
\* of its instruction.
Address(i, r, v) ==
  CASE r.type = "REL32" ->
         input_sections[i].output_rva + r.at + WordSize + r.adjustment + v
    [] r.type = "ADDR32NB" -> v
    [] OTHER -> v - ImageBase

\* Every relocated field of the loaded image stands for the address its
\* symbol was loaded at, plus the addend the object held in that field.
ReferencesReachTheirSymbols ==
  Written =>
    \A i \in 1..SectionCount : \A n \in 1..Len(Relocations(i)) :
      LET r == Relocations(i)[n]
          y == object.symbols[r.symbol + 1]
      IN  Address(i, r, Loaded(input_sections[i].output_rva + r.at).value)
            = input_sections[y.section].output_rva + y.value
                + object.words[object.sections[i].raw_offset + r.at]

\* A record of the symbol table is a symbol if the first record leads to it,
\* passing over the auxiliary records of every symbol on the way.
IsSymbol(i) ==
  \E passed \in SUBSET (1..i) :
    /\ {1, i} \subseteq passed
    /\ \A j \in passed \ {i} : j + object.symbols[j].aux + 1 \in passed

\* The entry point is the address of an external symbol main, never of an
\* auxiliary record that looks like one.
EntryIsMain ==
  Written =>
    \E i \in 1..Len(object.symbols) :
      /\ IsSymbol(i) /\ Candidate(object.symbols[i])
      /\ object.symbols[i].name = "main"
      /\ entry_rva = SymbolRva(i - 1)

\* Every link ends.
LinkEnds == <>(stage = "done")

FileSize == image[Len(image)].raw_offset + image[Len(image)].raw_size

\* What a caller sees of a link.  The executable is whole once all of it was
\* written and the file was closed.
Promise == INSTANCE LinkPromise WITH
  result     <- IF stage # "done" THEN "pending" ELSE IF ok THEN "linked" ELSE "failed",
  keep       <- ~delete_object,
  temporary  <- object_file,
  executable <- IF image = << >> THEN "kept"
                ELSE IF ok /\ Len(output) = FileSize THEN "whole" ELSE "partial"

\* A link does to the files of its caller only what the driver relies on: the
\* executable is opened after everything else succeeded, the result is true
\* only if it was completed, and the stage object is removed either way.
KeepsLinkPromise == Promise!Spec

\* A section of uninitialized data is zero in the loaded image.  The code
\* copies raw_size bytes from raw_offset, which NASM leaves zero for .bss.
UninitializedDataIsZero ==
  Written =>
    \A i \in 1..SectionCount : object.sections[i].contents = "bss" =>
      \A k \in 0..VirtualSize(object.sections[i]) - 1 :
        Loaded(input_sections[i].output_rva + k) = Zero
=============================================================================
