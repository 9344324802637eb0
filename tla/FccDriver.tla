------------------------------- MODULE FccDriver -------------------------------
(***************************************************************************)
(* The driver of fcc_driver.c: it reads the command line, runs the stages  *)
(* the command line asks for and turns what happened into an exit code and *)
(* into files.  The stages themselves are seen from outside: each one      *)
(* succeeds or fails and reports errors, and the linker ends with one of   *)
(* the LinkOutcomes of LinkPromise.                                        *)
(*                                                                         *)
(* A path is a base name followed by its extensions.                       *)
(***************************************************************************)
EXTENDS Integers, Sequences

CONSTANTS
  InputPaths, OutputPaths,   \* what a user may give on the command line
  LongPaths,                 \* paths that do not fit FCC_MAX_PATH_LENGTH
  MaxIncludeDirectories,     \* 32
  MaxErrors,                 \* bound: errors reported in one run
  None                       \* NULL

Stages == {"lex_only", "parse_only", "check", "preprocess", "emit_asm",
           "emit_object", "compile_and_link"}

ASSUME PathAssumption ==
  /\ InputPaths \subseteq Seq(STRING) \ {<< >>}
  /\ OutputPaths \subseteq Seq(STRING) \ {<< >>}
  /\ None \notin InputPaths \cup OutputPaths
  /\ MaxIncludeDirectories \in Nat /\ MaxErrors \in Nat \ {0}

Front(s) == SubSeq(s, 1, Len(s) - 1)

\* The last extension, if the path has one, gives way to the new ones.
ReplaceExtension(path, extension) ==
  (IF Len(path) = 1 THEN path ELSE Front(path)) \o extension

Stage == <<"fcc_stage", "s">>
StageObject == <<"fcc_stage", "obj">>

\* The paths of a run that is given input i and output o.
PathsOf(i, o) ==
  LET made == {ReplaceExtension(i, <<e>>) : e \in {"s", "asm", "obj", "exe"}}
                \cup ({o} \ {None})
  IN  {i} \cup made \cup {ReplaceExtension(p, Stage) : p \in made}
          \cup {ReplaceExtension(p, StageObject) : p \in made}

Paths == UNION {PathsOf(i, o) : i \in InputPaths, o \in OutputPaths \cup {None}}

\* NULL is not a path, neither given nor made.
ASSUME NoneAssumption == None \notin Paths

VARIABLES
  at,              \* the stage that runs next; "done" after the return
  options,         \* FccDriverOptions
  files,           \* what the file system holds at each path
  error_count,     \* diagnostics.error_count
  cleanup_asm,     \* the stage assembly is to be removed
  silent,          \* history: a stage failed without reporting an error
  exit_code

vars == <<at, options, files, error_count, cleanup_asm, silent, exit_code>>

Contents == {"absent", "earlier", "source", "partial", "whole"}

Options ==
  [stage : Stages, has_explicit_stage : BOOLEAN,
   input_path : InputPaths \cup {None}, output_path : OutputPaths \cup {None},
   include_directory_count : 0..MaxIncludeDirectories,
   should_dump_tokens : BOOLEAN, should_dump_ast : BOOLEAN,
   should_show_help : BOOLEAN, should_show_version : BOOLEAN,
   should_use_asm_extension : BOOLEAN]

Flags == {"should_dump_tokens", "should_dump_ast", "should_show_help",
          "should_show_version", "should_use_asm_extension"}

-----------------------------------------------------------------------------
\* Before a run every source is there or is not, and other files may be left
\* from earlier runs.
Init ==
  /\ at = "arguments"
  /\ options = [stage |-> "check", has_explicit_stage |-> FALSE,
                input_path |-> None, output_path |-> None,
                include_directory_count |-> 0,
                should_dump_tokens |-> FALSE, should_dump_ast |-> FALSE,
                should_show_help |-> FALSE, should_show_version |-> FALSE,
                should_use_asm_extension |-> FALSE]
  /\ \E here \in {"source", "absent"}, other \in {"earlier", "absent"} :
       files = [p \in Paths |-> IF p \in InputPaths THEN here ELSE other]
  /\ error_count = 0 /\ cleanup_asm = FALSE /\ silent = FALSE
  /\ exit_code = 0

Exit(code) == at' = "done" /\ exit_code' = code

Continue(stage) == at' = stage /\ UNCHANGED exit_code

\* A stage reports n more errors.
Reports(n) == error_count' = error_count + n

Failures == {n \in 1..MaxErrors : error_count + n <= MaxErrors}

-----------------------------------------------------------------------------
(* The command line.  --sysroot and the directory given to -I only reach    *)
(* the preprocessor.                                                        *)

\* --asm-extension=s takes an earlier --asm-extension=asm back.
ReadFlag ==
  \/ \E f \in Flags : options' = [options EXCEPT ![f] = TRUE]
  \/ options' = [options EXCEPT !.should_use_asm_extension = FALSE]

SelectStage ==
  /\ ~options.has_explicit_stage
  /\ \E s \in Stages :
       options' = [options EXCEPT !.stage = s, !.has_explicit_stage = TRUE]

ReadOutput ==
  \E p \in OutputPaths : options' = [options EXCEPT !.output_path = p]

AddIncludeDirectory ==
  /\ options.include_directory_count < MaxIncludeDirectories
  /\ options' = [options EXCEPT !.include_directory_count = @ + 1]

ReadInput ==
  /\ options.input_path = None
  /\ \E p \in InputPaths : options' = [options EXCEPT !.input_path = p]

Argument ==
  /\ at = "arguments"
  /\ ReadFlag \/ SelectStage \/ ReadOutput \/ AddIncludeDirectory \/ ReadInput
  /\ UNCHANGED <<at, files, error_count, cleanup_asm, silent, exit_code>>

\* An unknown option, a missing value, a second stage or input, one include
\* directory too many.
BadArgument ==
  /\ at = "arguments"
  /\ Exit(1)
  /\ UNCHANGED <<options, files, error_count, cleanup_asm, silent>>

Contradictory ==
  \/ /\ options.output_path # None
     /\ options.stage \notin {"preprocess", "emit_asm", "emit_object", "compile_and_link"}
  \/ /\ options.should_use_asm_extension
     /\ options.output_path # None \/ options.stage # "emit_asm"
  \/ options.should_dump_ast /\ options.stage = "lex_only"
  \/ /\ options.stage = "preprocess"
     /\ options.should_dump_tokens \/ options.should_dump_ast

EndOfArguments ==
  /\ at = "arguments"
  /\ IF Contradictory THEN Exit(1)
     ELSE IF options.should_show_help \/ options.should_show_version THEN Exit(0)
     ELSE IF options.input_path = None THEN Exit(1)
     ELSE Continue("load")
  /\ UNCHANGED <<options, files, error_count, cleanup_asm, silent>>

-----------------------------------------------------------------------------
(* The front end.                                                           *)

Load ==
  /\ at = "load"
  /\ files[options.input_path] # "absent"
  /\ Continue(IF options.stage = "preprocess" THEN "preprocess" ELSE "expand")
  /\ UNCHANGED <<options, files, error_count, cleanup_asm, silent>>

\* The file is not there or cannot be read.
LoadFails ==
  /\ at = "load"
  /\ Reports(1)
  /\ Exit(error_count')
  /\ UNCHANGED <<options, files, cleanup_asm, silent>>

Written(path, contents) ==
  IF path = None THEN UNCHANGED files
  ELSE files' = [files EXCEPT ![path] = contents]

\* --preprocess: the output file is opened, and so truncated, first.
Preprocess ==
  /\ at = "preprocess"
  /\ Written(options.output_path, "whole")
  /\ Exit(error_count)
  /\ UNCHANGED <<options, error_count, cleanup_asm, silent>>

PreprocessFails ==
  /\ at = "preprocess"
  /\ \E n \in Failures : Reports(n)
  /\ Written(options.output_path, "partial")
  /\ Exit(error_count')
  /\ UNCHANGED <<options, cleanup_asm, silent>>

\* The output file cannot be opened, or its last bytes cannot be written.
PreprocessOutputFails ==
  /\ at = "preprocess" /\ options.output_path # None
  /\ UNCHANGED files \/ Written(options.output_path, "partial")
  /\ Exit(1)
  /\ UNCHANGED <<options, error_count, cleanup_asm, silent>>

\* Every other stage preprocesses into memory.
Expand ==
  /\ at = "expand"
  /\ Continue(IF options.should_dump_tokens \/ options.stage = "lex_only"
              THEN "lex" ELSE "parse")
  /\ UNCHANGED <<options, files, error_count, cleanup_asm, silent>>

\* The driver takes into account that nothing may have been reported.
ExpandFails ==
  /\ at = "expand"
  /\ \E n \in Failures \cup {0} :
       Reports(n) /\ Exit(IF n = 0 THEN 1 ELSE n) /\ silent' = (n = 0)
  /\ UNCHANGED <<options, files, cleanup_asm>>

Lex ==
  /\ at = "lex"
  /\ \E n \in Failures \cup {0} : Reports(n)
  /\ IF error_count' # 0 \/ options.stage = "lex_only" THEN Exit(error_count')
     ELSE Continue("parse")
  /\ UNCHANGED <<options, files, cleanup_asm, silent>>

\* Mistaken form: reported errors do not stop the driver.
AfterStageRegardless(last, next) ==
  IF options.stage = last THEN Exit(error_count') ELSE Continue(next)

\* Mistaken form: a stage that is the last one asked for has succeeded.
AfterStageIsSuccess(last, next) ==
  IF options.stage = last THEN Exit(0)
  ELSE IF error_count' # 0 THEN Exit(error_count') ELSE Continue(next)

\* What follows a stage that returned true, whether or not it reported errors.
AfterStage(last, next) ==
  IF error_count' # 0 \/ options.stage = last THEN Exit(error_count')
  ELSE Continue(next)

Parse ==
  /\ at = "parse"
  /\ \E n \in Failures \cup {0} : Reports(n)
  /\ AfterStage("parse_only", "sema")
  /\ UNCHANGED <<options, files, cleanup_asm, silent>>

Sema ==
  /\ at = "sema"
  /\ \E n \in Failures \cup {0} : Reports(n)
  /\ AfterStage("check", "emit")
  /\ UNCHANGED <<options, files, cleanup_asm, silent>>

\* The parser or sema returned false, after it reported why.
StageFails ==
  /\ at \in {"parse", "sema"}
  /\ \E n \in Failures : Reports(n)
  /\ Exit(error_count')
  /\ UNCHANGED <<options, files, cleanup_asm, silent>>

-----------------------------------------------------------------------------
(* Code generation.                                                         *)

OutputPath(extension) ==
  IF options.output_path # None THEN options.output_path
  ELSE ReplaceExtension(options.input_path, <<extension>>)

\* The file the user asked for.
Product ==
  CASE options.stage = "emit_asm" ->
         OutputPath(IF options.should_use_asm_extension THEN "asm" ELSE "s")
    [] options.stage = "emit_object"      -> OutputPath("obj")
    [] options.stage = "compile_and_link" -> OutputPath("exe")
    [] options.stage = "preprocess"       -> options.output_path
    [] OTHER -> None

\* The assembly file: the product itself, or a stage file beside it.
Assembly ==
  IF options.stage = "emit_asm" THEN Product ELSE ReplaceExtension(Product, Stage)

PathsFail ==
  /\ at = "emit"
  /\ {Product, Assembly} \cap LongPaths # {}
  /\ Exit(1)
  /\ UNCHANGED <<options, files, error_count, cleanup_asm, silent>>

PathsFit == at = "emit" /\ {Product, Assembly} \cap LongPaths = {}

\* The assembly file cannot be opened, or not closed.
AssemblyFails ==
  /\ PathsFit
  /\ UNCHANGED files \/ Written(Assembly, "partial")
  /\ Reports(1)
  /\ Exit(error_count')
  /\ UNCHANGED <<options, cleanup_asm, silent>>

\* The code generator returns false.  It reports every error in the program,
\* but not a write that fails while it emits the data sections.
CodegenFails ==
  /\ PathsFit
  /\ Written(Assembly, "partial")
  /\ \E n \in Failures \cup {0} : Reports(n) /\ silent' = (n = 0)
  /\ Exit(error_count')
  /\ UNCHANGED <<options, cleanup_asm>>

Emit ==
  /\ PathsFit
  /\ Written(Assembly, "whole")
  /\ IF options.stage = "emit_asm"
     THEN Exit(0) /\ UNCHANGED cleanup_asm
     ELSE Continue("assemble") /\ cleanup_asm' = TRUE
  /\ UNCHANGED <<options, error_count, silent>>

-----------------------------------------------------------------------------
(* Assembling and linking.                                                  *)

\* What the cleanup label removes.
Removed(ok) == {Assembly}

\* NASM may fail without touching the object, or remove it, or leave a piece.
Assemble ==
  /\ at = "assemble" /\ options.stage = "emit_object"
  /\ \E ok \in BOOLEAN :
       /\ \E object \in IF ok THEN {"whole"}
                        ELSE {files[Product], "absent", "partial"} :
            files' = [p \in Paths |->
                        IF p \in Removed(ok) THEN "absent"
                        ELSE IF p = Product THEN object ELSE files[p]]
       /\ Exit(IF ok THEN 0 ELSE 1)
  /\ UNCHANGED <<options, error_count, cleanup_asm, silent>>

LinkExit(o) == IF o.ok THEN 0 ELSE 1

\* The promise at the moment of the call, for its outcomes.
Linker == INSTANCE LinkPromise WITH
  result <- "pending", keep <- FALSE, temporary <- "absent", executable <- "kept"

\* A stage object whose path is too long fails the link before it starts.
Link ==
  /\ at = "assemble" /\ options.stage = "compile_and_link"
  /\ LET object == ReplaceExtension(Product, StageObject) IN
       \E o \in IF object \in LongPaths
                THEN {[ok |-> FALSE, executable |-> "kept", temporary |-> "kept"]}
                ELSE Linker!LinkOutcomes(FALSE) :
         /\ files' = [p \in Paths |->
                        IF p \in Removed(o.ok) THEN "absent"
                        ELSE IF p = object /\ o.temporary # "kept" THEN o.temporary
                        ELSE IF p = Product /\ o.executable # "kept" THEN o.executable
                        ELSE files[p]]
         /\ Exit(LinkExit(o))
  /\ UNCHANGED <<options, error_count, cleanup_asm, silent>>

Next ==
  \/ Argument \/ BadArgument \/ EndOfArguments
  \/ Load \/ LoadFails
  \/ Preprocess \/ PreprocessFails \/ PreprocessOutputFails
  \/ Expand \/ ExpandFails \/ Lex \/ Parse \/ Sema \/ StageFails
  \/ PathsFail \/ AssemblyFails \/ CodegenFails \/ Emit
  \/ Assemble \/ Link

\* The driver is one sequential function; the command line is finite, so it
\* is not read for ever.
Spec == Init /\ [][Next]_vars

-----------------------------------------------------------------------------
\* The run went beyond --help and --version.
Compiled ==
  /\ at = "done" /\ options.input_path # None
  /\ ~options.should_show_help /\ ~options.should_show_version

\* A run that ends with 0 lost the error of no stage on the way and, with every
\* failure reported, wrote all of the file it was asked for.
ReportedSuccessIsComplete ==
  at = "done" /\ exit_code = 0 =>
    /\ error_count = 0
    /\ Compiled /\ ~silent /\ Product # None => files[Product] = "whole"

\* Except by --preprocess, a file is touched only when the whole front end
\* accepted the program, so a program with errors leaves the outputs of an
\* earlier run as they were.
ErrorsTouchNothing ==
  [][files' # files => error_count = 0 \/ options.stage = "preprocess"]_vars
=============================================================================
