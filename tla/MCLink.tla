-------------------------------- MODULE MCLink --------------------------------
(* A small instance of FccLink: objects like those NASM writes for FCC's   *)
(* assembly (.text, .rdata, .bss and .data, a comment-like section the      *)
(* linker ignores), plus truncated ones and ones with references that do    *)
(* not resolve.                                                             *)
EXTENDS FccLink

MCPad == [text |-> 2, data |-> 2]
MCHeadersSize == [n \in 2..3 |-> n]

\* The raw data of section i begins at offset 8 * i of the object.
Section(contents, i, raw, virtual, relocations) ==
  [contents |-> contents, raw_size |-> raw,
   raw_offset |-> IF contents = "bss" THEN 0 ELSE 8 * i,
   virtual_size |-> virtual, relocations |-> relocations,
   relocations_inside |-> TRUE]

Reloc(at, symbol, type, adjustment) ==
  [at |-> at, symbol |-> symbol, type |-> type, adjustment |-> adjustment]

Sym(name, sect, value, external, aux) ==
  [name |-> name, section |-> sect, value |-> value, external |-> external,
   aux |-> aux]

\* main is the last symbol; before it a section symbol whose auxiliary record
\* looks like a main of section 2.
Table(defined_in, entry) ==
  <<Sym("other", 1, 0, FALSE, 1), Sym("main", 2, 0, TRUE, 0),
    Sym("other", defined_in, 1, TRUE, 0), Sym(entry, 1, 2, TRUE, 0)>>

TextRelocations ==
  {<< >>, <<Reloc(0, 2, "REL32", 1)>>,
   <<Reloc(1, 2, "REL32", 0), Reloc(3, 3, "ADDR32NB", 0)>>,
   <<Reloc(1, 3, "ADDR32", 0)>>, <<Reloc(1, 2, "ADDR64", 0)>>,
   <<Reloc(4, 2, "REL32", 0)>>}

Middles ==
  {Section("data", 2, 1, 0, << >>), Section("bss", 2, 3, 0, << >>),
   Section("other", 2, 2, 0, << >>), Section("code", 2, 1, 3, << >>)}

Lasts ==
  {Section("data", 3, 3, 0, <<Reloc(1, 3, "ADDR32NB", 0)>>),
   Section("data", 3, 3, 4, << >>)}

WithTables(size, sections, symbols) ==
  [size |-> size, tables_inside |-> TRUE, sections |-> sections,
   symbols |-> symbols, words |-> [k \in 0..27 |-> k % 2]]

Text(relocations) == Section("code", 1, 5, 0, relocations)

MCObjects ==
  {WithTables(28, <<Text(text), middle, last>>, Table(defined_in, "main")) :
     text \in TextRelocations, middle \in Middles, last \in Lasts,
     defined_in \in {0, 2, 3}}
  \cup {WithTables(28, <<Text(text)>>, Table(1, entry)) :
          text \in TextRelocations, entry \in {"main", "unreadable", "other"}}
  \cup {WithTables(28, <<Section("code", 1, 16, size, << >>), last>>, Table(2, "main")) :
          size \in {20, 40}, last \in Lasts \cup {Section("data", 2, 1, 24, << >>)}}
  \cup {WithTables(10, <<Text(<< >>)>>, Table(1, "main")),
        WithTables(28, <<Section("data", 3, 3, 0, << >>)>>, Table(1, "main")),
        WithTables(28, << >>, Table(1, "main"))}

\* One object with a .bss section, for the disagreement about it.
BssObjects ==
  {[size |-> 40, tables_inside |-> TRUE,
    sections |-> <<Section("code", 1, 5, 0, << >>), Section("bss", 2, size, 0, << >>)>>,
    symbols |-> <<Sym("main", 1, at, TRUE, 0)>>, words |-> [k \in 0..40 |-> 0]] :
      size \in 1..3, at \in 0..4}
=============================================================================
