# A TLA+ model of FCC

FCC compiles a subset of C17 to NASM assembly for x86-64 Windows, has NASM
assemble it and links the object with a linker of its own.  It is one
sequential process: what is hard in it is not concurrency but long sequences of
legal steps over shared tables and stacks, failures half-way, limits, and the
assumptions one stage makes about another.

This directory holds specifications of its parts, small instances for TLC,
and proofs for TLAPS.  Paths like `fcc_link.c:708` are relative to `src/src/`.

## 1. The system

| part | state | operations | talks to |
|---|---|---|---|
| driver (`fcc_driver.c`, `main.c`) | options, exit code, `cleanup_asm` | read the command line, run stages, name the files, remove the stage assembly | every stage; NASM |
| diagnostics (`fcc_diag.c`) | `error_count`, `warning_count` | emit | written by all stages, read by driver and preprocessor |
| source files (`fcc_source.c`) | text, line map | load, from buffer, dispose, offset to line and column | all |
| preprocessor (`fcc_preprocessor.c`) | macro table, conditional stack, `#pragma once` paths, include depth | directives, expansion, rescanning, `#if` expressions | sources, diagnostics, output stream |
| lexer, tokens (`fcc_lexer.c`, `fcc_token.c`) | offset | next token | parser, driver (`--lex`) |
| parser (`fcc_parser.c`) | token window, typedef-name stack, recursion depth | recursive descent; decides declaration or expression by typedef names | lexer, AST |
| AST (`fcc_ast.c`) | arena | append, dump | parser, sema, codegen |
| types and layout (`fcc_type.c`, `fcc_layout.c`) | type table | intern, size and alignment, record layout | sema, codegen |
| symbol table (`fcc_symbol.c`) | array of symbols, array of scopes | push/pop scope, define, lookup, lookup in the current scope | sema |
| semantic analysis (`fcc_sema.c`) | symbol table, tag scopes, recorded types, current function, loop and switch depth | declarations, statements, expressions, constant folding | symbols, types, diagnostics |
| code generator (`fcc_codegen.c`) | bindings and their scopes, frame size, label numbers | function prologue, statements, expressions, data sections | sema's result, output stream |
| linker (`fcc_link.c`) | input sections, two output buffers, addresses | run NASM, read, place, address, find `main`, relocate, write | NASM, file system; called by driver |
| signature, version, sysroot, scripts | text | – | – |

Interaction is by direct calls in one order: load, preprocess, parse (which
pulls tokens from the lexer), sema, codegen, NASM, link.  Stages communicate
through the diagnostics counter, through returned flags and through the files
on disk.

What is hard about it:

* **flags and counters that must agree**: a stage may return true after having
  reported errors, or false without having reported any, and the exit code is
  the number of reports;
* **tables cut and regrown**: symbols are truncated and leave stale slots,
  arrays are reallocated in mid-use and allocation may fail;
* **nesting across files**: conditional groups of the preprocessor live on one
  stack for all included files, with a limit of 64;
* **two walks that must agree**: the code generator counts stack space in one
  walk and hands it out in another; parser and sema both keep scopes;
* **addresses**: sections are merged, padded, addressed and patched, and an
  error shows as a wrong byte of the executable;
* **partial failure**: any of the steps may fail with files half written.

The properties each part owes: the symbol table answers like a stack of maps;
the preprocessor processes exactly the selected groups and frees each source
once; the linker's image holds what the object says, at addresses that do not
overlap; the driver's exit code, outputs and stage files tell the same story;
sema and parser agree on what a name means; codegen's frame covers every local;
the type table never holds two equal derived types.  `PROJECT.json` lists the
hazards, each at its line, with the properties that watch it.

## 2. Modules

| module | models | extends / uses |
|---|---|---|
| `ScopedEnvironment` | abstract: a stack of maps from names to bindings | – |
| `FccSymbolTable` | `fcc_symbol.c` | implements `ScopedEnvironment` |
| `FccSymbolTableProofs` | proofs about `FccSymbolTable` | TLAPS |
| `FccPreprocessor` | directives of `fcc_preprocessor.c` | – |
| `FccPreprocessorProofs` | proofs about `FccPreprocessor` | TLAPS |
| `CPreprocessing` | abstract: what C17 makes of directives and text: preprocessing tokens (6.4), replacement (6.10.3), `#define` and `#if` (6.10.1), the tokens and literals of the parser | `Words` |
| `FccMacroExpansion` | macro replacement in a line, `fcc_preprocessor.c` from `emit_expanded_line` down | `CPreprocessing` |
| `FccDirectives` | `#define`, `#undef` and the expression of an `#if`, from their characters | `FccMacroExpansion` |
| `FccStringPool` | the pool of identifiers in `fcc_lexer.c` | – |
| `FccLexer` | the tokens of a line (`fcc_lexer.c`) and the values of its literals (`fcc_parser.c`) | `FccDirectives`, `FccStringPool` |
| `LinkPromise` | abstract: what a link may do to the caller's files, and how it may end | – |
| `FccLink` | `fcc_link.c` | implements `LinkPromise` |
| `FccLinkProofs` | proofs about `FccLink` | TLAPS |
| `FccDriver` | `fcc_driver.c` and the counter of `fcc_diag.c` | `LinkPromise` |
| `FccDriverProofs` | proofs about `FccDriver` | TLAPS |
| `FccStatementTree` | the statements of a function (`ast.h`) and what sema accepts of them (`fcc_sema.c`) | – |
| `FccStatements` | the lowering of statements in `fcc_codegen.c` | `FccStatementTree` |
| `StatementSemantics` | abstract: how C17 (6.8) runs a function body | `FccStatementTree` |
| `FccLoweredFunction` | the emitted code, assembled and run beside its source | `FccStatements`, `StatementSemantics` |
| `FccFrame` | the stack frame and the bindings of `fcc_codegen.c` | `FccStatements` |
| `FccStatementsProofs` | proofs about `FccStatements` and the labels it writes | TLAPS |
| `FccLoweredFunctionProofs` | proofs about `FccLoweredFunction` running | `FccStatementsProofs` |
| `FccFrameProofs` | proofs about `FccFrame` | `FccStatementsProofs` |
| `Words` | integers of a fixed width, C's division | – |
| `ExpressionTree` | the types of expressions with their sizes and values (`fcc_type.c`), bytes of memory, expressions (`ast.h`) | `Words` |
| `FccConstants` | integer constant folding in `fcc_sema.c` | `Words` |
| `FccExpressionTypes` | what `fcc_sema.c` accepts of an expression or an initializer, the types and the constants it records | `ExpressionTree`, `FccConstants` |
| `ExpressionMeaning` | abstract: what C17 (6.3, 6.5, 6.7.9) says an expression or an initializer does | `ExpressionTree` |
| `FccExpressions` | the instructions `fcc_codegen.c` emits for an expression or an initialized local, the data of an initialized global, and a processor | `FccExpressionTypes`, `ExpressionMeaning` |
| `SyntaxTree` | tokens and trees of a translation unit (`ast.h`) | – |
| `FccParser` | the recursive descent of `fcc_parser.c` | `SyntaxTree` |
| `CGrammar` | abstract: the productions of C (C17 6.5 to 6.9) and what a text derives | `SyntaxTree` |
| `FccScopes` | what `fcc_sema.c` makes of declarations, names and tags | `SyntaxTree` |
| `CScopes` | abstract: what C (C17 6.2.1, 6.7) makes of them | `SyntaxTree` |
| `FccTranslationUnit` | the loop over external declarations and the five passes of `analyze_translation_unit` | `FccParser`, `FccScopes`, `CGrammar`, `CScopes` |
| `FccTypes` | the type table `fcc_type.c`, record layout `fcc_layout.c` | – |
| `FccInterningProofs` | proofs about the tables that hold each thing once, `FccTypes` and `FccStringPool`, and about `FccConstants` | TLAPS |
| `MCPreprocessor`, `MCLexer`, `MCLink`, `MCDriver`, `MCStatements`, `MCFrame`, `MCExpressions`, `MCTranslationUnit`, `MCTypes` | small instances for TLC | the module they are named after |

Driver and linker are composed by contract.  `LinkPromise` lets a link end with
one of its `LinkOutcomes` and in no other way; the driver's `Link` action
chooses from the same set; that the linker implements `LinkPromise` is checked
by the run `link` and proved in `FccLinkProofs`.

A definition whose comment starts with "Mistaken form" is a variant of the
definition that follows it.  No specification uses one: each stands for a
plausible bug, and putting it in the place of the right definition makes TLC
refute the property `PROJECT.json` pairs it with.  They show what each property
is able to notice.

### 2.1 FccSymbolTable

`symbols` and `scopes` are the two arrays; the length of the sequence is the
capacity, so an access beyond the allocation is an error of evaluation, and
slots never written hold `Garbage`.  `PopScope` only lowers the two counts, as
the code does, so later steps run over stale slots.  `AllocationFails` is the
early return when `realloc` fails.  `GiveBody` is sema's write through
`lookup_mutable_current_scope`.  The comparison of names by pointer and length
is equality of model values.

`env` maps the arrays to the stack of maps: scope i is the map of its slice,
where a later definition of a name wins.  `ImplementsScopedEnvironment` is the
refinement.

### 2.2 FccPreprocessor

A behaviour is one program: each step is a line the environment chooses.  The
C recursion (`emit_file`, `process_directive`, `process_include`, `emit_file`)
is the stack `files`.  A frame remembers whether the file needed a spliced copy
(`make_spliced_source`), whether an `#include` is in progress, which candidates
are left, and what the local `included_source_file` of `process_include` holds:
`uninitialised`, `empty` after a failed load, or `loaded`.

`conditionals` is the C stack.  `PushConditional` keeps what the code does at
the limit: it reports and does not push, but the directive is accepted.
`IfMalformed` pushes a false condition after its report, and `ElifMalformed`
leaves its branch unprocessed after one.  Fatal errors set
`status` to `unwinding`; `Unwind` is one return of the C stack.

`groups` is a history variable: the groups of the program as the C standard
nests them, independent of the flags of the code.  It follows the program until
the first report, since a malformed program has no nesting to compare with.

What stands in a line is a choice here and is section 2.3: a text line may be
expanded, reported or end in a fatal error, and an `#if` is true, false or
malformed.

### 2.3 FccDirectives, FccMacroExpansion, FccLexer, FccStringPool, CPreprocessing

These follow a program from its characters to what the parser is given.  A
program is a sequence of definitions and what they are for: a line, or the
expression of an `#if`.  A text is a sequence of symbols, each a character.

`FccDirectives` reads one directive per step (`Define`, `Undefine`); one that is
refused is reported and the next is read (`Refuse`).  `Parsed` is the descent
through the levels of `#if` operators (`Ladder`); a result has the value or the
error, and the position behind what was read.

A line is copied into a buffer with its macros replaced, and the buffer copied
again until a copy changes nothing (`emit_expanded_line`); one copy is one
step.  `ExpandText` is the recursion of `expand_text_once`: its argument
`disabled` is the array of macros being replaced.  A buffer is a text with its
unavailable tokens as ranges, kept where `append_range` is used and lost where
`append` is, as in the code.  Two names the code writes side by side become one
name, and `##` can make the name of a macro.

`FccLexer` takes the line that was written and finds one token per step.  A name
is handed to the pool, and the lexer waits until it has its address.
`FccStringPool` is the hash table: the loops of the code are its steps
(doubling a capacity, moving an entry to the larger table, looking at the next
slot), `given` is a history of the names returned.  Behind the lexer
`ParseToken` gives literals the parser's values and joins adjacent strings.

`CPreprocessing` is written from the standard and knows nothing of buffers,
copies or offsets: tokens carry hide sets, arguments are expanded before they
are substituted, an expression has the value its grammar gives it.
`ExpandsAsC`, `ConditionsAsC` and `TokensAsC` compare.  Arithmetic is that of a
word of `WordBits` bits, so that overflow and sign are met by small numbers.

The two agree on the programs of the run `lexer` only because these avoid what
FCC does differently.  Found while the model was written, each by running TLC
with a line or a definition more:

* a call of the macro in its own argument is not replaced: of `ADD(ADD(1, 2),
  3)` the inner call stays in the text, since the argument is substituted as
  written and expanded while `ADD` is disabled (`fcc_preprocessor.c:362`); nor
  is one that only the expansion of the argument makes.  Calls of another macro
  in an argument agree with C unless they lead to one of these; `Unrelated`
  leaves out the tables of macros in which they could;
* an argument that holds an unavailable name loses the mark, and the name is
  replaced once more;
* since the whole line is copied again, `f EMPTY (1)` and `f P` with `P`
  replaced by `(1)` become calls of `f`; in C they do not;
* a comment, `/* */` as well, ends the replacement in its line
  (`fcc_preprocessor.c:250`);
* names inside of a number are replaced: a macro `L` changes `10L`;
* nothing separates what is written side by side: with `NEG` replaced by `-1`,
  `-NEG` is `--1`.

Section 3 lists more, of the directives and of the lexer.

Abstracted: the growth of buffers and failed allocations in replacement, tabs,
the length limit of names, the built-in macros.

### 2.4 FccLink

The stages of `fcc_link_compile_and_link`, one action per loop body or call.
`object` is what NASM wrote.  A byte is a cell with its origin (a byte of the
object, a zero, a patch, headers, resource), so that "the image holds the right
bytes" can be stated.  `Chunks` is `write_pe_image` in the order it writes;
`WriteFails` leaves what was written so far.  All failures after NASM go to
`cleanup`, those of NASM do not, as in the code.

The relocation arithmetic is that of `apply_relocations`: the check against the
whole output, the adjusted REL32 kinds, the addend found in the field.  Limits
and sizes (alignments, `UINT32_MAX`, `INT32_MAX`, header sizes) are constants.
The PE headers' fields other than the section table, and the resource's bytes,
are one cell kind each.

One fact comes from outside the repository: in the objects NASM writes, a
`.bss` section has its size as `SizeOfRawData` and 0 as `PointerToRawData`.

### 2.5 FccDriver

`at` is the stage that runs next.  Each stage is seen through the driver's
eyes: it reports n errors and returns true or false.  `ExpandFails` and
`CodegenFails` may report nothing, as the code of those stages allows; parser
and sema always report before they return false.  Paths are a base name and
extensions, so that `ReplaceExtension` is a real operation and an output may
fall on the source.  `files` says of every path whether it holds the source,
something from an earlier run, a part or the whole of the new output.
`cleanup_asm` is armed after the stage assembly was written, so one whose
writing failed stays behind (`fcc_driver.c:616`).  A stage may fail silently:
`emit_global_variable` (`fcc_codegen.c:4191`) returns false on a failed write
without a diagnostic, and since the exit code is the number of diagnostics the
driver then reports success with a truncated file.  `ReportedSuccessIsComplete`
excludes that by the history variable `silent`.

### 2.6 FccStatements, StatementSemantics, FccLoweredFunction

The question here is whether the code does what the source says.  Three
modules answer it together.  `FccStatements` is the generator: the C recursion
of `fcc_codegen_emit_statement` is the stack `calls`, one action per stretch
between two recursive calls, and `code` grows by labels, jumps, compares and
one opaque `eval` per expression.  `StatementSemantics` is written from the C
standard and not from the code: where control goes after each statement, after
each condition, at a `break`, `continue`, `case` or `goto`.
`FccLoweredFunction` assembles the code (labels must be defined once) and runs
both sides: each runs silently up to its next expression, there both receive
the same value, chosen by TLC.  `RunsAsWritten` compares the two whenever both
stand at an expression or at the end; `EventsAreReached` says that neither
side is ever left waiting.

Abstracted: an expression emits labels of its own and nests deeper than one
level, which only matters to the numbering and to how early the depth limit is
met.  A declaration with an initialiser is an evaluation like an expression
statement, an empty statement or a plain declaration is one without.  The init
statement of a `for` is its first child.  Sema does not compare the constants
of cases; the instance has one constant, so that equal cases occur and both
sides take the first.

### 2.7 FccFrame

The generator sizes the frame of a function in one walk
(`fcc_codegen_count_parameter_stack`, `fcc_codegen_count_statement_locals`) and
hands it out in another, while it emits.  `FccFrame` has both: `CountObject` is
one object of the first walk, the other actions are those of `FccStatements`
joined with what they do to scopes and bindings.  `bindings` and `scopes` are
the two arrays of `FccCodegenFunction`; as in the code a closed scope cuts the
bindings and gives no stack space back.

What a name should mean is written from C's scopes as sema applies them
(`Meaning`): among the declarations seen before the name, the one in the
innermost scope around it.  A body sema would reject, because a name is
declared twice in a scope or not at all, is no initial state.  `homes` and
`operands` are history variables: the place every object was given and what
every emitted name addresses.  `OperandsAreMeant` compares them with `Meaning`.

Abstracted: the growth of the two arrays (failed allocations), the instructions
that copy parameters and initialise locals, and what is in memory.  The
generator keeps a `static` local in the frame like any other; that its value
does not survive a call is visible only in memory, and is not modelled.  Sizes
are 4, 8 and 12 bytes, so that rounding happens.  The parser takes a
declaration for any statement; as the body of a `for` C's grammar forbids it,
and the instances leave it out, because sema checks the update expression
before the body and the generator emits it after: there the two see different
names.

### 2.8 FccExpressionTypes, FccConstants, FccExpressions, ExpressionMeaning

The question of section 2.6 again, one level down: does the code of an
expression compute what C says?  `FccExpressionTypes` is
`fcc_sema_check_expression`: it rejects an expression or notes at every node the
type and whether it is an lvalue.  `EmitExpression` is
`fcc_codegen_emit_expression` and every function below it, one operator per
function; it maps the checked tree to `text`, a sequence of instructions.  The
code generator is a function of the tree here, not a sequence of steps: it has
no state an expression could change but the numbers of labels, and these are
distances in the text.  The steps are those of the processor, one instruction
each, over `registers`, the slots the expression has pushed, and a `memory` of
bytes in which the objects lie with a byte between each and the next.  A
function called answers with its value and leaves garbage in every register,
above its result in `rax`, and in the 32 bytes it owns of its caller's stack.

`ExpressionMeaning` is written from the standard: types by promotion and the
usual conversions, values as integers, and no verdict where behaviour is
undefined (overflow, a shift too far, a division by zero).  Where C leaves the
order of operands open it takes the compiler's.  It shares with the generator
the types and the layout of memory, and nothing else.  `ComputesAsC` compares
the two when the processor has finished.

A byte has `ByteBits` bits, a type the bytes it really has: with two bits,
`char` is -2..1, `int` -128..127 and `long long` 16 bits wide, so that every
rule about widths and signs is met by numbers TLC can hold.

The generator chooses the width of an operation by rules of its own, which are
not C's for all types.  `IsPlain` says which expressions it does in C's types,
with the reason for each exclusion beside it; `PlainIsComputedAsC` is
`ComputesAsC` for these.  What is not plain was found by TLC, one
counterexample at a time:

* a `signed char` or `short` is loaded without its sign (`movzx`,
  `fcc_codegen.c:319`), and stays positive in an operation or a conversion to
  `int`: `i = c` with a `c` of -2 stores 254;
* an operation with an `unsigned char` or `unsigned short` is done unsigned, as
  is one of `unsigned int` and `long long`: the generator asks whether either
  operand is unsigned, without promotion (`fcc_codegen.c:1480`);
* a shift uses the types of both operands, C's only the left one's;
* the operand of unary `+`, `-` and `~` is taken for an `int` by sema, and `~`
  is done in 32 bits;
* `!`, `&&`, `||` and `?:` compare `eax`, whatever the width of their operand;
* compound assignment and `++`, `--` of integers are 32-bit and signed
  (`fcc_codegen.c:1971`, 2171), and the value they have is not narrowed to the
  type of the object;
* the arms of `?:` are not converted to their common type, arguments not to the
  types of the parameters;
* a negative `int` is not widened before it is scaled and added to a pointer or
  used as an index;
* the value of an aggregate assignment that is itself assigned is not an
  address: `rax` holds what the copy left there;
* a cast to `_Bool` keeps the low byte.

`OutermostCallsAreAligned` is about calls with nothing else on the stack.  A
call that is an operand, as in `1 + f()` or `f(g())`, is emitted after a push,
and the pad (`fcc_codegen.c:1198`) does not count it: there `rsp` is off by
eight.

`FccConstants` is the arithmetic of `evaluate_integer_constant`: every operation
has its check, made so that the check itself cannot overflow, and yields no
value where it refuses.  `FccExpressionTypes` folds with it beside the typing,
as sema does in one function.  `FoldsAsC` demands of every plain program that
what is a constant expression with a defined value is folded to that value, and
nothing else is folded.

`FccExpressionTypes` also has sema's `check_initializer` and the completion of
`[]`, `FccExpressions` the data directives of a global and the stores of a
local.  A program is an expression, a local or a global with its initializer;
for a global `PlainIsComputedAsC` compares the bytes of the section, for a
local the memory when the stores are done.

Abstracted: `void`, `enum`, `_Alignof` (as `sizeof`), qualifiers, variadic
calls, aggregates passed or returned by value, constants other than `int`, the
bytes of string literals (opaque), the depth limits inside expressions and
initializers.  Locals are objects at fixed addresses; their frame is section
2.7.

### 2.9 FccParser, FccScopes, FccTranslationUnit, CGrammar, CScopes

Whether a C text means what its author thinks depends on two stages that keep
scopes of their own: the parser has a stack of typedef names, by which alone it
decides between declaration and expression, cast and parentheses, call and
declarator; sema has symbols, tags and a list of typedefs that outlive their
scopes.

`FccParser` is the descent.  `Parse(p, s)` is one function per category; a
parser state `p` is a value, so that the code's copies of it for lookahead
(`fcc_parser.c:2224`) are just names.  Tokens are consumed, the typedef stack is
pushed and cut, the recursion depth counted, as in the code.  `FccScopes` is
sema's walk over the tree: it binds every use of a name or a tag to a
declaration, or ends with an error.  `FccTranslationUnit` has the steps: one
external declaration per step, then one declaration per step in the five passes
over the three lists.

The two references are made in another way.  `CGrammar` is a table of
productions and finds all trees of a text, with no order and no lookahead; a
name is a typedef name in it where C's declarations make it one.
`CScopes` looks at the whole tree and calculates for each use which
declarations are visible at its place.  `ReadsAsC` says the parser builds the
tree of the grammar; `NamesMeanAsC` that every use in an accepted unit is bound
to the declaration C binds it to; `VerdictIsC` that a unit is accepted exactly
if C accepts it.  What FCC does differently is named in operators of `CScopes`
(`HidesTypedefName`, `TakesTypedefForObject`, `Differs`, `RedeclaresObject`) and
listed in section 3; units of which one holds are exempt, and no others.

Abstracted: the values of literals and the joining of adjacent strings (section
2.3), `__declspec`, failed allocation in the parser, whether two declarations
of a function agree, the depth limit of sema, and of types everything but what
decides whether an object of the type may be declared (section 2.8 has the
rest).

### 2.10 FccTypes

A type is its place in `types`; parameters of functions and members of records
lie in two arrays, and a type has a slice of each.  An action is a call of
`fcc_type.c`: it finds the same type again or appends.  Sema is the environment:
types come in any order, a record is completed (`DefineRecord`) after others
have come to name it, and every call may fail where an array would have to grow
(`AllocationFails`).  Layout is that of `fcc_layout.c` with its checks against
`SIZE_MAX`, which is small here, so that they matter; arithmetic wraps.
`RecordsAreLaidOut` compares it with the room the members really take:
`RoomsIn` multiplies the lengths of nested arrays in the integers, so a product
that wrapped in `ArrayExtent` (fcc_type.c:1001) is no way to satisfy it; with
`ArrayExtentWrapping` TLC finds an `int[3][3]` of size 36 that counts as 4.

`origins` and `crashed` are no part of the program: the record that a qualified
copy was made of, and a division by zero.  `NoTypeTwice` is why sema may compare
types by address.  `RecordPointersAreAssignedAsC` is about the exception: a
qualified copy of a record is another record, and what sema compares instead
(tag, place of the members) must tell records apart.  `TypesAreStable` says a
place never changes what it stands for, except that a record is completed.

## 3. Runs

| run | checks | bounds, and why they are enough |
|---|---|---|
| `symbol_table` | bounds of the arrays, scopes as slices of them, refinement of `ScopedEnvironment` | 2 names, 1 type, capacities starting at 1, 3 symbols, 2 scopes: both arrays are reallocated twice, a name is defined twice in a scope and hidden by an inner one, slots go stale and are reused |
| `preprocessor` | conditionals, success, disposal, skipped groups | conditional depth 2 and include depth 2: a push at the limit, a group inside a skipped group, a group opened in one file and closed in another, a file including itself at the limit, a search with a missing, a too long and a marked candidate. The program is unbounded in length |
| `preprocessor_undefined` | violation: `NoUndefinedBehaviour` | as above |
| `lexer` | the text written, the condition and the tokens against C's, the limits of replacement, the pool | programs of definitions and a line or an `#if`: twelve lines under all tables of two macros out of thirteen definitions and one that only `##` can name; six more whose arguments hold calls, whole or completed behind them, under the tables where the argument leads to no call of the macro it is given to; definitions that must be refused; expressions with every pair of operators over three operands, with words of 8 bits; lines of every kind of token and literal; names with colliding hashes. At most 3 copies, 3 macros being replaced, 2 arguments: self-reference, mutual recursion, calls completed in a later copy, one line that needs more copies than there are. The pool starts with 2 slots and grows to 16: it is rehashed more than once, and a chain goes around the end |
| `link` | layout of inputs and outputs, image bytes, relocations, `main`, termination, refinement of `LinkPromise` | objects of 1 to 3 sections of every kind and up to 2 relocations a section, alignments 2, 4 and 8, `MaxRva` 40: padding before and after a section, sections that share an output, addresses beyond the limit, symbols undefined, in ignored sections, auxiliary records that look like `main` |
| `link_bss` | violation: `UninitializedDataIsZero` | objects with `.text` and `.bss` of 1 to 3 bytes |
| `driver` | exit code, outputs, stage files | 2 inputs, 3 outputs, at most 2 errors: an input with the extension of an output, an output that is the source, stage paths that do not fit |
| `statements` | same evaluations in the same order, same result; internal errors; labels; bounds of the target arrays; progress | all bodies of up to 4 statements inside the function's braces: every statement in and next to every other, a switch in a switch in a loop, cases inside ifs and loops; of up to 3 with a label: jumps into and out of each kind of statement, missing and repeated labels; loops, switches and braces nested once more than the limit of 3. Every value of every condition at every pass |
| `frame` | frame layout, agreement of the two walks, names | functions of up to 2 parameters, two statements one of which holds up to two others, 2 names, sizes 4, 8 and 12; one name is also an object of the file. Names are hidden in every kind of scope and used behind it; `MaxOffset` 40 is exceeded; braces and loops are nested up to the limit of 4 and beyond |
| `expressions` | the memory left and the calls made against C's, for plain programs; folded constants against C's values; alignment of calls; sema accepts nothing the generator has no code for | 6,000 programs, the families of `MCExpressions`: every binary operator on every pair of five types and a literal, every unary operator, update and assignment on ten lvalues, pointers with integers and with each other, casts, calls direct and through a pointer, with six arguments, with calls and updates inside; constants of 16 bits next to the limits under every operator; locals and globals of scalar, array, record and pointer type with expressions, lists, nested lists and strings; four memories, with zeros, negative numbers, the largest and smallest values and numbers of which the low half is zero |
| `translation_units` | trees, bindings and verdicts against C's | 5,000 units: all texts of up to four tokens over those that declaration, cast, call and product have in common; any two operators; ifs, elses and loops in each other; every keyword in every place; declarations of one name or tag in every pair of nested scopes, with a use behind. The depth limit of 40 is more than these texts reach |
| `types` | no type twice, layout, records told apart, stable places | up to 4 types over char and int, one tag, at most 2 parameters and 4 members in all, arrays of 0 and 3 elements, `SIZE_MAX` 31: padding before and behind a member, unions, an array of records that does not fit, a record completed after its qualified copy was made |

`CHECK_DEADLOCK FALSE` stands in all runs but that of the symbol table: a
compiler ends, and the type table is full at `MaxTypes`.  The symbol table never
stops.  The constraint of `types`, `OneFeature`, leaves out tables that mix
functions with arrays or records, which share nothing but `NoTypeTwice`; that
property is proved without it.

**Fairness.** The linker is a sequential function that keeps running until it
returns: `WF_vars(Next)`.  A compiled function and its source are sequential
too, so each side's silent steps are fair; the environment's answers are not,
and `EventsAreReached` does not need them.  No other specification states
fairness, and no other has a liveness property: the program a preprocessor
reads and the arguments a driver reads may be of any length.

### What the violations show

* `preprocessor_undefined`: a second `#include` of a file marked `#pragma
  once`, found by its first candidate, makes `process_include` dispose a local
  structure nothing initialised (`fcc_preprocessor.c:1346`, the shortcut at
  1215): `free` of indeterminate pointers.
* `link_bss`: the linker copies `SizeOfRawData` bytes from
  `PointerToRawData` also for `.bss` (`fcc_link.c:708`), so a global without
  initialiser starts with bytes of the object's header, not with zeros.
### What the properties exempt

Some hazards are watched in part only; PROJECT.json says so with each:

* behind a report nothing is said of the flags of the preprocessor: at 64 groups
  the refused push is reported, the matching `#endif` then closes the group
  outside, and what `SuccessMeansBalanced` ensures is that the run fails;
* a failed stage that reported nothing (`silent`, section 2.5) is no
  counterexample to `ReportedSuccessIsComplete`;
* macros called in their own arguments (section 2.3), units for which `Differs`
  holds (2.9), the stale copies of records (2.10), narrow signed reads and calls
  under other operands (2.8): there the code differs from C, as listed here;
* a failed allocation of the symbol table is one step.  In the code nothing is
  assigned before the call that may fail; that `SlicesAreScopes` would notice
  otherwise is shown with `AllocationFailsCounted`, where `define` counts first.

### Known deviations outside the runs

Besides those of sections 2.3, 2.5 and 2.8:

* in `int x; { extern int x; x = 1; }` the generator stores to the local
  (`fcc_codegen.c:955`), since the extern declaration makes no binding that
  would hide it.  Where no outer local has the name and the file declares no
  such object outside of functions, the generator ends with "internal codegen
  binding lookup failed" (`fcc_codegen.c:979`).  The run `frame` has no
  block-scope `extern`;
* conditions and switch values are compared in `eax` (`fcc_codegen.c:2873`,
  2909, 2954, 2989, 3065), while sema accepts a condition of any integer type:
  `if (x)` skips its branch for a `long long` that is a nonzero multiple of
  2^32.  In the run `statements` the values fit in `eax`.

Directives:

* comments are not removed from a directive, although the repository's
  `README.md:192` lists comments as supported: `#if 1 // c`, `#ifdef A // c`,
  `#undef A // c`, `#else // x` and `#endif /* G */` are errors, and `#define A
  1 // c` keeps the comment in the replacement.  Lines inside of a block
  comment that look like directives are processed, other lines there are
  expanded, and what follows a `*/` in its line is not expanded;
* `#define A+1`, `##` at either end of a replacement and a differing
  redefinition are accepted;
* `"a  b"` as the operand of `#` loses a space; a comment without an end in an
  argument list leaves its last character;
* in an `#if` a macro without parameters has the value of the integer literal
  it is replaced by and of anything else 0 (`- 1` is 0), one with parameters is
  0.  There is no `?:`; `0 && 1/0` is an error; `++1` and `1++1` are accepted,
  as are mixed suffixes (`1ulu`).  Unsigned is not distinguished, a literal
  beyond `INT64_MAX` is refused, a shift by 63 or more as well.  `+`, `-` and
  `*` are not checked for overflow, and `INT64_MIN / -1` is divided;
* the expression of an `#if` or `#elif` in a skipped group is evaluated, and
  its errors are reported.

Lexer and literals:

* an octal literal is read as decimal by the parser (`fcc_parser.c:868`): `010`
  is 10.  The preprocessor reads it as 8;
* `0x1e+1` is three tokens (C: one, which is invalid); the suffix `lL` is
  accepted, and `/*/` at the end of a file; `L"x"` is a name and a string;
  floating literals are refused; fourteen keywords of C17 are names;
* an escape that is not known is the letter behind the backslash; `'\x41'` and
  `'\01'` are refused; `"\012"` is three characters, the first of them zero;
  characters above 127 are not sign-extended.

The families of `MCLexer` leave all of these out.

Linker:

* the field of a relocation is checked against the whole output section, not
  against the input section it belongs to (`fcc_link.c:1016`), so that a
  malformed object may patch its neighbour; NASM writes no such object.

Parser and scopes (`CScopes` names the first five):

* a typedef name hidden by another declaration is still parsed as a type, since
  nothing but the end of a scope takes it off the parser's stack; sema, too,
  finds a typedef that another name hides (`find_typedef_object`);
* where no declaration can start, a typedef name is accepted as an operand
  (`fcc_sema.c:1623`);
* an inner `struct S;` refers to the outer `S`; tags and enumerators in a
  parameter list belong to the file's scope;
* at file scope every declaration is visible in every body, also the ones
  behind it, and `struct S { ... } v = ...;` or `enum { A } e = A;` is
  rejected, because its type is made twice;
* a typedef, an object or a function may not be declared twice where C allows
  it (tentative definitions, `extern` and a definition, a repeated typedef);
  an enumeration may be, where C forbids it; `typedef void V;` at file scope is
  rejected;
* no variable length arrays; `sizeof` is no constant in a bound or an
  enumerator;
* the depth limit counts neither chains of unary operators, nor the else
  branches of `?:`, nested initializer braces, nested records or parameter
  lists, though `include/fcc/parser.h:11` promises a limit of syntactic
  nesting;
* more is accepted than C has: declarations as statements of an `if` or a loop,
  a repeated `_Bool`, `{}`, storage classes in type names and parameters,
  `(...)` alone, `++ (T) x`, any conditional on the left of `=`.  A typedef in
  the head of a `for` stays on the parser's stack.

Constants (`IsPlainConstant` names these):

* folding is done in 64 bits whatever the types: `unsigned` does not wrap, an
  overflow of `int` is folded; a cast to a type of one or two bytes masks
  without the sign, so `(signed char)-1` is 255; `(_Bool)2` is 2;
* a shift by 63, a right shift of a negative number, `0 && 1/0` and `1 ? 2 :
  1/0` are no constants, though enumerators know the last one; `sizeof` has
  type `int`;
* enumerators beyond 32 bits are rejected by the generator only.

Initializers:

* a `static` local lies in the frame and is initialized at every call, or not
  at all;
* `int b[3] = a`, `= p` and `= 0` pass sema, and bytes are copied from the
  wrong place; a local `int x = {1}` and an aggregate item in a local list pass
  sema and are errors of the generator, as is a global `char a[3] = 0`;
* `&object` and arrays are no address constants at file scope; a cast of an
  address is none; braces cannot be left out; `char a[3] = {"ab"}` is rejected;
* a string literal has the type `char *`, so `sizeof "abc"` is 8; `_Bool b = 2`
  stores 2.

Types:

* `const struct S` made while `S` is incomplete stays incomplete for ever and is
  then incompatible with `S`, and two incomplete records with one tag share one
  copy (`IsStale` in `FccTypes`);
* `const` of a typedef of an array qualifies the array, not its elements;
* an array of zero-length arrays, as in `int a[3][0]`, divides by zero
  (`fcc_type.c:1000`; `crashed` in `FccTypes`);
* `const void *` converts to `int *`; `&array` is compatible with a pointer to a
  pointer, through decay.

## 4. Proofs

TLC looks at one small instance; the theorems hold for all values of the
constants that satisfy the modules' `ASSUME`s.

**FccSymbolTableProofs**, from `CapacityAssumption` (first capacities are
positive) and `BoundAssumption`.  None of the properties is inductive alone:
that `PopScope` leaves the new innermost scope ending at the new symbol count
needs the slices to be contiguous, that `Define` writes inside the array needs
the counts to be within the capacities, and the depths need both.  The
inductive invariant is their conjunction with the type invariant.  The
refinement has one step per action; the core is a lemma that the map of a slice
depends on its slots only, so that reallocation, stale slots and inner scopes
do not disturb the maps below.

**FccPreprocessorProofs**, from `DepthAssumption`.  `ActiveMeansSelected` is not
inductive: `Elif` and `Else` decide by `branch_taken` and `parent_active`, so
the invariant says that until the first report `branch_taken` of a level is
"some branch so far was true" and `parent_active` is the flag of the level
below.  With it the flags follow the groups at any depth, and skipped groups
are inert as an action property of every step.

*Disposal.*  `EverySourceIsDisposed` counts what the frames of the C stack
still own (`Owned`): each frame but the first its file, and its spliced copy
where it has one.  `live` is that number after every step, on the way down, at
a return and while unwinding.

**FccStatementsProofs**, from `ProgramsAssumption` and `MaxDepthAssumption`.
The code keeps two arrays of `FCC_MAX_CODEGEN_DEPTH` jump targets.  Loops fill
both and switches one, so the bound of each must be checked where it is filled;
for `TargetsNeverOverflow` the invariant adds that both are sequences, and each
action pushes, pops or leaves both alone.

`StatementsFindTheirTargets`, for bodies `SemaAccepts` accepts.  The statements
in progress are nested as in the source (`NestInv`): each call is for a part of
the statement of the call below it.  So a loop or switch around the running
statement is one whose body is being emitted, the targets are as many as those,
and the cases of the innermost switch are in `switch_cases`, those of the outer
ones in what the call of the next inner one has saved.  What sema has found by
looking up the tree, the generator then finds in its tables.

`GeneratedLabelsAreDefined` proves `OnlyUserLabelsFailToAssemble`: a text is
refused by NASM only for labels that the program itself got wrong.  Labels are
written far from the jumps to them, so the invariant `LabelInv` says of every
moment which labels are still owed and by whom: a call in progress owes those
it has allocated and not yet written, a case or `default` that is ahead the
label given to it when its switch was entered, a label statement ahead its
name.  The labels written and those owed are all different and lie below
`next_label_id` (`LabelsKept`), and every jump written, every target on the two
stacks and every case in the tables is one of them (`LabelsAgree`).  What is
ahead is what `InOrder` says (the calls in progress have emitted the source in
order up to where they stand): each statement passes what it owes to its parts
and keeps the rest, and nothing is ahead at the end. A switch needs two things
more.  A case belongs to one switch only, however deep it stands in loops and
braces (`TablesApart`); and the loop that writes the compares goes through all
cases: source order has no ties and is transitive (`BeforeTransitive`), so the
cases have ranks without a gap (`Ranked`), and `NthCase` finds each of them.

**FccLoweredFunctionProofs**, from the same assumptions and
`ValuesAssumption`.  `LoweredBodiesRunAsWritten` proves `RunsAsWritten` for
every body, every sequence of values and any depth: the emitted code evaluates
the expressions that C evaluates, in that order, and returns what C returns.  It
is a statement of partial correctness, as the property is; that neither side
waits for ever is `EventsAreReached`, liveness.  Its hypothesis `ConditionsFit`
says that the values of conditions are below `EaxRange`.  Without it the
theorem is false of this code (section 3, conditions compared in `eax`).

The generator and C speak of places in the tree, the machine of places in a
text, so the proof begins with where each statement is in the text.  A layout
(`LaidOut`) gives every statement the two ends of its text and its labels.  What
is written for a statement itself is cut into pieces (`Piece`): before its
first part, between two parts, behind the last.  Every piece that is complete
stands between the ends of the parts next to it, and the jump targets, the
pending calls and the tables of cases hold the labels of the layout
(`TablesMeant`).  There is such a layout after every step of the generator
(`NextKeepsLayout`): each step writes one piece, or one piece and the next
statement's first, and fixes one end that nothing spoke of yet.

The second part is about a text and no longer about the generator.  The
machine's own steps are determined, and nothing outside sees them, so `Reaches`
(what is in every set that is closed under them), `Leads` and `Goes` (from one
place to another, whatever the registers) and `Tests` (to one of two places, as
the value in `eax` is zero or not) compose.  Jumps arrive because labels are
defined once (`Assembles`).  From the pieces it follows what the text of each
kind of statement does between the ends of its parts: `IfRuns`, `WhileRuns`,
`DoRuns`, `ForRuns`, `CompoundRuns` and the others.  A switch is a row of
compares as long as it has cases.  `RowOfCompares` goes down the row by
induction in the form of a least counterexample, and `SwitchSelects` shows that
the first compare that holds is of the statement which C selects, also where
two cases are equal and where the `default` stands between them.

The third part relates the two.  Each place where control may be in C has one
in the text (`PlaceOf`).  A silent step of C leads to a place that the machine
gets to from the place before (`SilentFollows`); where C evaluates an
expression so does the machine, and for every value both go on alike
(`EventsAsTold`).  The two do not move together, and either may be ahead.  So
the invariant `RunInv` does not say where the machine is, but that it and the
place of C's control both are reached from one state of the machine.  Because
its steps are determined, an event of one side is then the event of the other
(`EventIsSame`).

**FccFrameProofs**, from `ProgramsAssumption` (the tree of a body is closed: a
statement's children are in it) and `MaxDepthAssumption`.

`SecondWalkIsNeverRefused`.  `recursion_depth` counts the compound statements
in progress (`DepthInv`). They are among the statements around the running one,
and the first walk has compared the number of those with the same limit.

`NamesReachTheirObjects` proves `OperandsAreMeant` for every body in which no
declaration has block-scope `extern` and none is the body of a `for`
(`PlainBody`): the first has no binding (section 3), the second C's grammar
forbids.  It uses `DeclarationsAssumption` (a declaration is a statement of its
own with one object).  What a name means is said of positions in the source,
what the generator finds depends on what it has done so far, so the invariant
`NamesInv` relates the two.  The calls in progress have emitted the source in
order up to where they stand (`InOrder`), which splits the body into what is
still to be emitted and what is behind. Every declaration behind has its home
(`EmittedHaveHomes`).  The bindings are the homes of the declarations behind
whose scopes are open, by depth of scope (`BindingsFit`), and `scopes` holds
where each open scope begins among them (`ScopesFit`).  Then the last binding
of a name is the declaration in the innermost scope (`LookupFindsMeaning`).
The case that needs care is the `for`, whose update stands before the body in
the source and behind it in the output.

`FrameIsLargeEnough` proves the `NoInternalError` of `FccFrame` for the same
bodies.  The frame runs out only if the walk that counts and the walk that gives
out homes disagree.  `RoomInv` says that `total_stack_size` is the bytes of the
objects counted and `next_stack_offset` those of the objects with a home; at the
end of the first walk all are counted, no object is given a home twice, and so
there is room for the next.  That a name accepted by sema is found comes from
`NamesInv`, the jumps from `StatementsFindTheirTargets`.

`ObjectsNeverOverlap`, also from `SizesAssumption` (objects have a positive
size) and `MaxOffsetAssumption`.  `HomesAreDisjoint` is not inductive.  The
invariant `FrameInv` says that every home given so far ends at or before
`next_stack_offset`, that this is a multiple of eight within
`total_stack_size`, and that every emit call in progress is for a statement of
the body (`CallsInv`), so that the object it declares has a size.  The one step
that matters is `DefineBinding`: the new object begins where all the others
have ended.

**FccInterningProofs**.  Of `FccTypes`, from its assumptions:  That no type has
two places is not inductive: a record that is completed changes its entry, and
could become equal to another.  `TypesInv` adds that entries have their shape
and slices lie in their arrays (`ShapeInv`), that a qualified record remembers
what it was made of, and only a created one is unqualified (`OriginInv`), that
a complete record has members and agrees with its origin (`RecordInv`), and
that created records have no member in common (`MembersAreApart`).  The last
one tells two completed records with the same tag apart, by the places of their
members; from it follow `NoTypeTwice` when a record is completed, and
`RecordPointersAreAssignedAsC`.  The slices are why finding a type again is not
comparing entries: `MatchingIsSayingTheSame` proves that what
`fcc_type_matches` compares is what a type says.

`RecordsAreLaidOut` needs `SizesInv`: of every entry, what sizes are computed
from (`SizedEntry`: the element of an array is an older type), and of every
complete record that its members have a known extent and lie as the ABI says.
The extent of an array type and the place of a member are defined by recursion.
What they compute is proved by induction in the form of a least counterexample
(`Least`): a set of numbers that is not empty has a least one, which the library
proves from well-foundedness without a predicate as a parameter.  So
`EndsUnfold` and `ExtentsUnfold` show that the recursive functions exist,
`StructIsLaidOut` and `UnionIsLaidOut` what a layout is for members of any
number, `ExtentsAreKnown` that the known ones are sizes and alignments, and
`ExtentsStay` that a type keeps its extent while others are added and records
completed.  `RecordsAreLaidOut` is about the room members really take, another
recursion (`RoomsUnfold`), with products in the integers: `ProductsFit` is the
check of fcc_type.c:1001 (a length not above `SIZE_MAX` divided by the size has
a product that fits), and `KnownExtentsAreRooms` carries it through nested
arrays, so no sum, padding or product has wrapped.
`AlignmentsAssumption` is what the code has powers of two for: of two
alignments the smaller divides the larger.

About `FccConstants`, from `WordBitsAssumption`, for words of any width:
`ConstantsAreExact`, an operation is refused exactly when its exact result does
not exist or is no word (for shifts: or beyond what the code takes), and is
that result otherwise; `ChecksStayInRange`, the checks themselves never
leave the range, so that folding has no overflow of its own.  The core is the
product, where each of the four cases of signs compares with another quotient.

Of `FccStringPool`, from `HashAssumption` and `CapacityAssumption`: interning
is exact (`NamesAreInterned`) because every entry can be reached: no slot
between the one its hash names and its own is empty.  Moving the entries to a
larger table breaks that for the old one and builds it up for the new one, so
the invariant has a clause for each.  That a search ends (`SearchesEnd`) is a
counting argument: at most seven tenths of the slots are in use.

**FccDriverProofs**, from `NoneAssumption` (the null pointer is no path) and
`PathAssumption` (paths are not empty).  `ProgressInv`: before the driver
returns no error has been reported, and `options.stage` is one of those that go
beyond the point it has reached (`Beyond`).  So the file the last stage wrote
is the one asked for; that writing a stage file did not spoil it needs that the
product is never a stage file, whose name is made from the product's with an
extension of another length.

**FccLinkProofs**, from `ObjectsAssumption` (objects have the shape
`fcc_link_parse_object_header` accepts) and `SizesAssumption` (alignments and
header sizes are positive and fit each other).  Objects of any number of
sections, symbols and relocations:

* `SectionsStayApart`.  `LayoutInv` says where the loops are: the sections
  placed so far follow one another, aligned, in their output (`PlacesInv`), the
  addresses given are those of the outputs as they will be written
  (`AddressesInv`), and the section table has no overlap;
* `LinkKeepsPromise`, the refinement, one step of `LinkPromise` or a stutter
  for each action of the linker.  A failure on any step must leave the flags so
  that `cleanup` removes what the promise says;
* `MainIsEntered`.  The walk over the symbol table has visited exactly the
  records that no auxiliary record hides (`MainInv`);
* `SectionsAreLoaded`.  `ContentsInv`: each cell of an output buffer is the
  byte of the object that belongs there, unless it lies in a field already
  applied. `WriteInv`: while the image is written the position in the file is
  what the section table says of the next chunk (`Before`).  The theorem is
  about an object whose fields lie inside of their sections
  (`FieldsStayInside`), which the linker does not check (section 3);
* `ReferencesAreResolved`.  `ReferencesInv`: an applied field holds the address
  meant. This needs the addend to be still the original when a field is
  reached, so the theorem is about objects no two fields of which share a byte
  (`FieldsAreApart`); of two fields that do, the second is relocated by what
  the first left there.

Not provable with the provers at hand, and checked by TLC only:

* `LinkEnds` and `EventsAreReached`, which are liveness;
* what recursive operators compute (replacement, tokens, the instructions of an
  expression and their meaning, the parser and its grammar): all properties of
  `FccLexer`, `FccExpressions` and `FccTranslationUnit`, except the pool's.
   They recur over trees and lists of tokens, and TLAPS has no backend for a
  module that declares such an operator.

## 5. Not modelled

* the line map of `fcc_source.c`;
* of the preprocessor the length limit of names, the built-in macros, and
  failed allocation in replacement;
* `__declspec`, failed allocation in parser and AST, the collector of string
  literals;
* in sema whether two declarations of a function agree, const objects, the depth
  limits of expressions and initializers; in the generator the section headers;
* names of members and `is_variadic` in the type table;
* left out for good, since no decision depends on them: the text of emitted
  instructions and of diagnostics, the AST arena and dumps, headers and resource
  of the PE file, version texts, sysroot and scripts.

## 6. Plan

1. *(done)* symbol table, preprocessor directives, macro replacement, `#define`
   and `#if`, lexer, pool of names and literals, linker, driver, statement
   lowering, stack frame and bindings, expressions, constants, initializers,
   parser, scopes, the translation unit, types.
2. *(done)* proofs: symbol table, preprocessor with disposal, pool, driver,
   linker with its refinement, statement targets, depth, frame, names and
   labels, types and their layout, constants.
3. *(done)* proof: a compiled function runs as written.
4. `FccLineMap`: binary search against a definition.
