---------------------------- MODULE FccDriverProofs ----------------------------
(***************************************************************************)
(* Proofs about the driver, FccDriver: for any paths a user may give and   *)
(* any number of reported errors, an exit code of zero means that the file *)
(* asked for is complete, and a program with errors touches no file.       *)
(***************************************************************************)
EXTENDS FccDriver, SequenceTheorems, TLAPS

IsPath(p) == \E S : p \in Seq(S) /\ Len(p) \in Nat /\ Len(p) >= 1

-----------------------------------------------------------------------------
(***************************************************************************)
(* Paths.                                                                  *)
(***************************************************************************)
\* A stage file lies beside the product, never over it.
LEMMA ReplacedExtension ==
  ASSUME NEW path, IsPath(path), NEW extension, IsPath(extension)
  PROVE  /\ IsPath(ReplaceExtension(path, extension))
         /\ Len(extension) = 2 => ReplaceExtension(path, extension) # path
<1>1. PICK S : path \in Seq(S)
  BY DEF IsPath
<1>2. PICK T : extension \in Seq(T)
  BY DEF IsPath
<1> DEFINE U == S \cup T
<1>3. /\ path \in Seq(U) /\ extension \in Seq(U)
      /\ Len(path) \in Nat /\ Len(path) >= 1
      /\ Len(extension) \in Nat /\ Len(extension) >= 1
  BY <1>1, <1>2 DEF IsPath
<1> HIDE DEF U
<1>4. CASE Len(path) = 1
  <2>1. ReplaceExtension(path, extension) = path \o extension
    BY <1>4 DEF ReplaceExtension
  <2>2. /\ path \o extension \in Seq(U)
        /\ Len(path \o extension) = 1 + Len(extension)
    BY <1>3, <1>4, ConcatProperties
  <2>3. 1 + Len(extension) \in Nat /\ 1 + Len(extension) > 1
    BY <1>3
  <2> QED BY <1>4, <2>1, <2>2, <2>3 DEF IsPath
<1>5. CASE Len(path) # 1
  <2> DEFINE n == Len(path) - 1
  <2>1. n \in Nat /\ n <= Len(path) /\ n + 1 = Len(path)
    BY <1>3
  <2> HIDE DEF n
  <2>2. Front(path) = SubSeq(path, 1, n)
    BY DEF Front, n
  <2>3. Front(path) \in Seq(U) /\ Len(Front(path)) = n
    BY <1>3, <2>1, <2>2, SubSeqProperties
  <2>4. ReplaceExtension(path, extension) = Front(path) \o extension
    BY <1>5 DEF ReplaceExtension
  <2>5. /\ Front(path) \o extension \in Seq(U)
        /\ Len(Front(path) \o extension) = n + Len(extension)
    BY <1>3, <2>3, ConcatProperties
  <2>6. /\ n + Len(extension) \in Nat /\ n + Len(extension) >= 1
        /\ Len(extension) = 2 => n + Len(extension) # Len(path)
    <3> DEFINE m == Len(path)
               k == Len(extension)
    <3>1. n \in Nat /\ n + 1 = m /\ k \in Nat /\ k >= 1
      BY <1>3, <2>1
    <3> HIDE DEF m, k
    <3>2. n + k \in Nat /\ n + k >= 1 /\ (k = 2 => n + k # m)
      BY <3>1
    <3> QED BY <3>2 DEF m, k
  <2> QED BY <2>4, <2>5, <2>6 DEF IsPath
<1> QED BY <1>4, <1>5

LEMMA Extensions ==
  /\ IsPath(Stage) /\ Len(Stage) = 2
  /\ IsPath(StageObject) /\ Len(StageObject) = 2
  /\ \A e : IsPath(<<e>>)
<1>1. ASSUME NEW a, NEW b
      PROVE  IsPath(<<a>>) /\ IsPath(<<a, b>>) /\ Len(<<a, b>>) = 2
  <2>1. /\ <<a>> \in Seq({a, b}) /\ Len(<<a>>) = 1
        /\ <<a, b>> \in Seq({a, b}) /\ Len(<<a, b>>) = 2
    OBVIOUS
  <2>2. 1 \in Nat /\ 2 \in Nat /\ 1 >= 1 /\ 2 >= 1
    OBVIOUS
  <2> QED BY <2>1, <2>2, Zenon DEF IsPath
<1> QED BY <1>1 DEF Stage, StageObject

LEMMA GivenPath ==
  ASSUME NEW p, p \in InputPaths \cup OutputPaths PROVE IsPath(p) /\ p # None
<1>1. p \in Seq(STRING) /\ p # << >>
  BY PathAssumption
<1> QED BY <1>1, PathAssumption DEF IsPath

-----------------------------------------------------------------------------
(***************************************************************************)
(* The inductive invariant.  Before the driver returns no error has been   *)
(* reported, and how far it has come says which stages it was asked for.   *)
(***************************************************************************)
Compiling == {"load", "preprocess", "expand", "lex", "parse", "sema", "emit", "assemble"}

\* The stages that go beyond a point of the driver.
Beyond ==
  [here \in Compiling |->
     CASE here = "load"       -> Stages
       [] here = "preprocess" -> {"preprocess"}
       [] here \in {"expand", "lex"} -> Stages \ {"preprocess"}
       [] here = "parse"    -> Stages \ {"preprocess", "lex_only"}
       [] here = "sema"     -> Stages \ {"preprocess", "lex_only", "parse_only"}
       [] here = "emit"     -> {"emit_asm", "emit_object", "compile_and_link"}
       [] here = "assemble" -> {"emit_object", "compile_and_link"}]

FilesInv == files = [p \in Paths |-> files[p]]

ProgressInv ==
  /\ at \in Compiling \cup {"arguments", "done"}
  /\ options \in Options /\ error_count \in Nat
  /\ at # "done" => error_count = 0 /\ ~silent
  /\ at \in Compiling => options.input_path # None /\ options.stage \in Beyond[at]

DriverInv == ProgressInv /\ FilesInv /\ ReportedSuccessIsComplete

LEMMA PathsOfARun ==
  ASSUME NEW i \in InputPaths, NEW o \in OutputPaths \cup {None}
  PROVE  PathsOf(i, o) \subseteq Paths
<1> DEFINE all == {PathsOf(i0, o0) : i0 \in InputPaths, o0 \in OutputPaths \cup {None}}
<1>1. PathsOf(i, o) \in all
  OBVIOUS
<1>2. Paths = UNION all
  BY DEF Paths
<1> HIDE DEF all
<1> QED BY <1>1, <1>2

LEMMA MadePath ==
  ASSUME NEW i \in InputPaths, NEW e \in {"s", "asm", "obj", "exe"}
  PROVE  /\ ReplaceExtension(i, <<e>>) \in Paths
         /\ IsPath(ReplaceExtension(i, <<e>>))
<1>1. ReplaceExtension(i, <<e>>) \in PathsOf(i, None)
  BY Zenon DEF PathsOf
<1>2. PathsOf(i, None) \subseteq Paths
  BY PathsOfARun
<1> QED BY <1>1, <1>2, ReplacedExtension, Extensions, GivenPath

LEMMA OutputIsAPath ==
  ASSUME options \in Options, options.input_path # None, options.output_path # None
  PROVE  options.output_path \in Paths /\ IsPath(options.output_path)
<1> DEFINE i == options.input_path
           o == options.output_path
<1>1. i \in InputPaths /\ o \in OutputPaths
  BY DEF Options
<1>2. o \in PathsOf(i, o)
  BY Zenon DEF PathsOf
<1>3. PathsOf(i, o) \subseteq Paths
  BY <1>1, PathsOfARun
<1> QED BY <1>1, <1>2, <1>3, GivenPath

-----------------------------------------------------------------------------
(***************************************************************************)
(* Steps.                                                                  *)
(***************************************************************************)
LEMMA InitDriverInv == Init => DriverInv
<1> SUFFICES ASSUME Init PROVE DriverInv
  OBVIOUS
<1>1. options \in Options
  BY PathAssumption DEF Init, Options, Stages
<1>2. ProgressInv
  BY <1>1 DEF Init, ProgressInv, Compiling
<1>3. FilesInv
  BY DEF Init, FilesInv
<1>4. ReportedSuccessIsComplete
  BY DEF Init, ReportedSuccessIsComplete
<1> QED BY <1>2, <1>3, <1>4 DEF DriverInv

LEMMA ArgumentKeepsOptions ==
  ASSUME options \in Options, Argument PROVE options' \in Options
<1>1. CASE ReadFlag
  <2>1. CASE \E f \in Flags : options' = [options EXCEPT ![f] = TRUE]
    BY <2>1 DEF Options, Flags
  <2>2. CASE options' = [options EXCEPT !.should_use_asm_extension = FALSE]
    BY <2>2 DEF Options
  <2> QED BY <1>1, <2>1, <2>2 DEF ReadFlag
<1>2. CASE SelectStage
  BY <1>2 DEF SelectStage, Options
<1>3. CASE ReadOutput
  BY <1>3 DEF ReadOutput, Options
<1>4. CASE AddIncludeDirectory
  BY <1>4, PathAssumption DEF AddIncludeDirectory, Options
<1>5. CASE ReadInput
  BY <1>5 DEF ReadInput, Options
<1> QED BY <1>1, <1>2, <1>3, <1>4, <1>5 DEF Argument

\* A step that goes on, or returns with errors, writes nothing it must answer for.
LEMMA NothingPromised ==
  ASSUME at' # "done" \/ exit_code' # 0 PROVE ReportedSuccessIsComplete'
BY DEF ReportedSuccessIsComplete

LEMMA FrontEndKeepsInv ==
  ASSUME DriverInv,
         \/ Argument \/ BadArgument \/ EndOfArguments \/ Load \/ LoadFails
         \/ Expand \/ ExpandFails \/ Lex \/ Parse \/ Sema \/ StageFails
  PROVE  DriverInv'
<1> USE DEF DriverInv
<1>1. CASE Argument
  <2>1. options' \in Options
    BY <1>1, ArgumentKeepsOptions DEF ProgressInv
  <2>2. ProgressInv'
    BY <1>1, <2>1 DEF Argument, ProgressInv, Compiling
  <2>3. at' # "done" /\ FilesInv'
    BY <1>1 DEF Argument, FilesInv
  <2> QED BY <2>2, <2>3, NothingPromised
<1>2. CASE BadArgument
  <2>1. ProgressInv' /\ FilesInv' /\ exit_code' # 0
    BY <1>2 DEF BadArgument, Exit, ProgressInv, FilesInv, Compiling
  <2> QED BY <2>1, NothingPromised
<1>3. CASE EndOfArguments
  <2>1. ProgressInv'
    BY <1>3 DEF EndOfArguments, Exit, Continue, ProgressInv, Compiling, Beyond, Options
  <2>2. FilesInv'
    BY <1>3 DEF EndOfArguments, FilesInv
  <2>3. ReportedSuccessIsComplete'
    BY <1>3 DEF EndOfArguments, Exit, Continue, ProgressInv,
         ReportedSuccessIsComplete, Compiled
  <2> QED BY <2>1, <2>2, <2>3
<1>4. CASE Load
  <2>1. ProgressInv' /\ at' # "done"
    BY <1>4 DEF Load, Continue, ProgressInv, Compiling, Beyond
  <2>2. FilesInv'
    BY <1>4 DEF Load, FilesInv
  <2> QED BY <2>1, <2>2, NothingPromised
<1>5. CASE LoadFails
  <2>1. ProgressInv' /\ FilesInv' /\ exit_code' # 0
    BY <1>5 DEF LoadFails, Exit, Reports, ProgressInv, FilesInv, Compiling
  <2> QED BY <2>1, NothingPromised
<1>6. CASE Expand
  <2>1. ProgressInv' /\ at' # "done"
    BY <1>6 DEF Expand, Continue, ProgressInv, Compiling, Beyond
  <2>2. FilesInv'
    BY <1>6 DEF Expand, FilesInv
  <2> QED BY <2>1, <2>2, NothingPromised
<1>7. CASE ExpandFails
  <2>1. ProgressInv' /\ FilesInv' /\ exit_code' # 0
    BY <1>7 DEF ExpandFails, Failures, Exit, Reports, ProgressInv, FilesInv, Compiling
  <2> QED BY <2>1, NothingPromised
<1>8. CASE Lex \/ Parse \/ Sema
  <2>1. error_count' \in Nat /\ UNCHANGED <<options, files, silent>>
    BY <1>8 DEF Lex, Parse, Sema, Reports, Failures, ProgressInv
  <2>2. \/ at' = "done" /\ exit_code' = error_count' /\ Product' = None
        \/ at' = "done" /\ exit_code' = error_count' /\ error_count' # 0
        \/ error_count' = 0 /\ at' \in Compiling /\ options.stage \in Beyond[at']
    BY <1>8, <2>1 DEF Lex, Parse, Sema, AfterStage, Exit, Continue, ProgressInv,
         Compiling, Beyond, Product, Stages
  <2>3. ProgressInv' /\ FilesInv'
    BY <1>8, <2>1, <2>2 DEF ProgressInv, FilesInv, Compiling, Lex, Parse, Sema
  <2>4. ReportedSuccessIsComplete'
    BY <2>1, <2>2 DEF ReportedSuccessIsComplete, Compiling
  <2> QED BY <2>3, <2>4
<1>9. CASE StageFails
  <2>1. ProgressInv' /\ FilesInv' /\ exit_code' # 0
    BY <1>9 DEF StageFails, Failures, Exit, Reports, ProgressInv, FilesInv, Compiling
  <2> QED BY <2>1, NothingPromised
<1> QED BY <1>1, <1>2, <1>3, <1>4, <1>5, <1>6, <1>7, <1>8, <1>9

\* What a step writes leaves the other paths as they are.
LEMMA WrittenKeepsFiles ==
  ASSUME FilesInv, NEW path, NEW contents, Written(path, contents)
  PROVE  /\ FilesInv'
         /\ path \in Paths => files'[path] = contents
<1>1. CASE path = None
  BY <1>1, NoneAssumption DEF FilesInv, Written
<1>2. CASE path # None
  <2>1. files' = [files EXCEPT ![path] = contents] /\ files = [p \in Paths |-> files[p]]
    BY <1>2 DEF FilesInv, Written
  <2>2. files' = [p \in Paths |-> IF p = path THEN contents ELSE files[p]]
    BY <2>1
  <2> QED BY <2>2 DEF FilesInv
<1> QED BY <1>1, <1>2

LEMMA SameProduct == ASSUME UNCHANGED options PROVE Product' = Product
BY DEF Product, OutputPath

\* A step that returns, and says it succeeded only if all was written.
LEMMA ReturnKeepsInv ==
  ASSUME DriverInv, at \in Compiling, at' = "done", UNCHANGED options,
         FilesInv', error_count' \in Nat,
         exit_code' = 0 =>
           error_count' = 0 /\ (silent' \/ Product = None \/ files'[Product] = "whole")
  PROVE  DriverInv'
<1>1. ProgressInv'
  BY DEF DriverInv, ProgressInv, Compiling
<1>2. ReportedSuccessIsComplete'
  BY SameProduct DEF ReportedSuccessIsComplete
<1> QED BY <1>1, <1>2 DEF DriverInv

LEMMA PreprocessingKeepsInv ==
  ASSUME DriverInv, Preprocess \/ PreprocessFails \/ PreprocessOutputFails
  PROVE  DriverInv'
<1>1. /\ at = "preprocess" /\ at' = "done" /\ UNCHANGED options
      /\ options.stage = "preprocess" /\ options.output_path = Product
      /\ options.input_path # None /\ options \in Options /\ error_count = 0
      /\ at \in Compiling /\ FilesInv
  BY DEF Preprocess, PreprocessFails, PreprocessOutputFails, Exit, DriverInv,
       ProgressInv, Compiling, Beyond, Product
<1>2. CASE Preprocess
  <2>1. /\ Written(Product, "whole") /\ error_count' = 0
    BY <1>1, <1>2 DEF Preprocess
  <2>2. FilesInv' /\ (Product # None => files'[Product] = "whole")
    BY <1>1, <2>1, WrittenKeepsFiles, OutputIsAPath
  <2> QED BY <1>1, <2>1, <2>2, ReturnKeepsInv
<1>3. CASE PreprocessFails
  <2>1. Written(Product, "partial") /\ exit_code' # 0 /\ error_count' \in Nat
    BY <1>1, <1>3 DEF PreprocessFails, Exit, Reports, Failures
  <2>2. FilesInv'
    BY <1>1, <2>1, WrittenKeepsFiles
  <2> QED BY <1>1, <2>1, <2>2, ReturnKeepsInv
<1>4. CASE PreprocessOutputFails
  <2>1. /\ UNCHANGED files \/ Written(Product, "partial")
        /\ exit_code' # 0 /\ error_count' \in Nat
    BY <1>1, <1>4 DEF PreprocessOutputFails, Exit
  <2>2. FilesInv'
    BY <1>1, <2>1, WrittenKeepsFiles DEF FilesInv
  <2> QED BY <1>1, <2>1, <2>2, ReturnKeepsInv
<1> QED BY <1>2, <1>3, <1>4

\* Beyond the front end there is a product, and it has a path.
LEMMA BackEndHasProduct ==
  ASSUME DriverInv, at \in {"emit", "assemble"}
  PROVE  /\ options \in Options /\ options.input_path # None
         /\ options.stage \in {"emit_asm", "emit_object", "compile_and_link"}
         /\ at = "assemble" => options.stage # "emit_asm"
         /\ error_count = 0 /\ ~silent /\ at \in Compiling /\ FilesInv
         /\ Product \in Paths /\ IsPath(Product)
<1>1. /\ options \in Options /\ options.input_path # None
      /\ options.stage \in {"emit_asm", "emit_object", "compile_and_link"}
      /\ at = "assemble" => options.stage # "emit_asm"
      /\ error_count = 0 /\ ~silent /\ at \in Compiling /\ FilesInv
  BY DEF DriverInv, ProgressInv, Compiling, Beyond
<1>2. \E e \in {"s", "asm", "obj", "exe"} : Product = OutputPath(e)
  BY <1>1 DEF Product
<1>3. PICK e \in {"s", "asm", "obj", "exe"} : Product = OutputPath(e)
  BY <1>2
<1>4. CASE options.output_path # None
  <2>1. Product = options.output_path
    BY <1>3, <1>4 DEF OutputPath
  <2> QED BY <1>1, <1>4, <2>1, OutputIsAPath
<1>5. CASE options.output_path = None
  <2>1. Product = ReplaceExtension(options.input_path, <<e>>)
    BY <1>3, <1>5 DEF OutputPath
  <2> QED BY <1>1, <2>1, MadePath DEF Options
<1> QED BY <1>1, <1>4, <1>5

\* A link that returns true leaves a whole executable.
LEMMA OutcomesAreHonest ==
  ASSUME NEW o \in Linker!LinkOutcomes(FALSE)
  PROVE  o.ok \in BOOLEAN /\ (o.ok => o.executable = "whole")
<1> DEFINE linked == [ok |-> TRUE, executable |-> "whole", temporary |-> "absent"]
           failures == [ok : {FALSE}, executable : {"kept", "partial"},
                        temporary : {"absent", "partial"}]
<1>1. o \in {linked} \cup failures
  BY Zenon DEF Linker!LinkOutcomes
<1>2. CASE o = linked
  BY <1>2
<1>3. CASE o \in failures
  <2>1. o.ok = FALSE
    BY <1>3
  <2> QED BY <2>1
<1> QED BY <1>1, <1>2, <1>3

LEMMA BackEndKeepsInv ==
  ASSUME DriverInv,
         PathsFail \/ AssemblyFails \/ CodegenFails \/ Emit \/ Assemble \/ Link
  PROVE  DriverInv'
<1> USE DEF PathsFit
<1>1. /\ options \in Options /\ options.input_path # None
      /\ options.stage \in {"emit_asm", "emit_object", "compile_and_link"}
      /\ at = "assemble" => options.stage # "emit_asm"
      /\ error_count = 0 /\ ~silent /\ at \in Compiling /\ FilesInv
      /\ Product \in Paths /\ IsPath(Product)
  <2>1. at \in {"emit", "assemble"}
    BY DEF PathsFail, AssemblyFails, CodegenFails, Emit, Assemble, Link
  <2> QED BY <2>1, BackEndHasProduct, Zenon
<1>2. CASE PathsFail
  <2>1. /\ at' = "done" /\ exit_code' = 1 /\ UNCHANGED <<options, files, error_count>>
    BY <1>2 DEF PathsFail, Exit
  <2> QED BY <1>1, <2>1, ReturnKeepsInv DEF FilesInv
<1>3. CASE AssemblyFails
  <2>1. /\ at' = "done" /\ exit_code' = 1 /\ error_count' = 1 /\ UNCHANGED options
        /\ UNCHANGED files \/ Written(Assembly, "partial")
    BY <1>1, <1>3 DEF AssemblyFails, Exit, Reports
  <2>2. FilesInv'
    BY <1>1, <2>1, WrittenKeepsFiles DEF FilesInv
  <2> QED BY <1>1, <2>1, <2>2, ReturnKeepsInv
<1>4. CASE CodegenFails
  <2>1. /\ at' = "done" /\ exit_code' = error_count' /\ UNCHANGED options
        /\ Written(Assembly, "partial") /\ error_count' \in Nat
        /\ silent' \/ error_count' # 0
    <3>1. PICK n \in Failures \cup {0} : Reports(n) /\ silent' = (n = 0)
      BY <1>4 DEF CodegenFails
    <3>2. error_count' = n /\ n \in Nat
      BY <1>1, <3>1 DEF Reports, Failures
    <3>3. silent' \/ n # 0
      BY <3>1, Zenon
    <3> QED BY <1>4, <3>2, <3>3 DEF CodegenFails, Exit
  <2>2. FilesInv'
    BY <1>1, <2>1, WrittenKeepsFiles
  <2> QED BY <1>1, <2>1, <2>2, ReturnKeepsInv
<1>5. CASE Emit
  <2>1. UNCHANGED <<options, error_count, silent>> /\ Written(Assembly, "whole")
    BY <1>5 DEF Emit
  <2>2. FilesInv' /\ (Assembly \in Paths => files'[Assembly] = "whole")
    BY <1>1, <2>1, WrittenKeepsFiles
  <2>3. CASE options.stage = "emit_asm"
    <3>1. Assembly = Product /\ at' = "done"
      BY <1>5, <2>3 DEF Assembly, Emit, Exit
    <3> QED BY <1>1, <2>1, <2>2, <3>1, ReturnKeepsInv
  <2>4. CASE options.stage # "emit_asm"
    <3>1. at' = "assemble"
      BY <1>5, <2>4 DEF Emit, Continue
    <3>2. ProgressInv'
      BY <1>1, <2>1, <2>4, <3>1 DEF ProgressInv, Compiling, Beyond
    <3>3. at' # "done"
      BY <3>1
    <3> QED BY <2>2, <3>2, <3>3, NothingPromised DEF DriverInv
  <2> QED BY <2>3, <2>4
<1>6. CASE Assemble \/ Link
  <2>1. /\ at' = "done" /\ UNCHANGED <<options, error_count, silent>>
        /\ at = "assemble"
    BY <1>6 DEF Assemble, Link, Exit
  <2>2. Assembly # Product /\ ReplaceExtension(Product, StageObject) # Product
    BY <1>1, <2>1, ReplacedExtension, Extensions DEF Assembly
  <2>3. FilesInv' /\ (exit_code' = 0 => files'[Product] = "whole")
    <3>1. CASE Assemble
      <4>1. PICK ok \in BOOLEAN :
              /\ \E object \in IF ok THEN {"whole"}
                               ELSE {files[Product], "absent", "partial"} :
                   files' = [p \in Paths |->
                               IF p \in Removed(ok) THEN "absent"
                               ELSE IF p = Product THEN object ELSE files[p]]
              /\ exit_code' = (IF ok THEN 0 ELSE 1)
        BY <3>1 DEF Assemble, Exit
      <4>2. FilesInv'
        BY <4>1 DEF FilesInv
      <4>3. ASSUME exit_code' = 0 PROVE files'[Product] = "whole"
        <5>1. ok
          BY <4>1, <4>3
        <5>2. files' = [p \in Paths |->
                          IF p \in Removed(ok) THEN "absent"
                          ELSE IF p = Product THEN "whole" ELSE files[p]]
          BY <4>1, <5>1
        <5> QED BY <1>1, <2>2, <5>2 DEF Removed
      <4> QED BY <4>2, <4>3
    <3>2. CASE Link
      <4> DEFINE object == ReplaceExtension(Product, StageObject)
                 failure == [ok |-> FALSE, executable |-> "kept", temporary |-> "kept"]
      <4>1. PICK o \in IF object \in LongPaths THEN {failure}
                       ELSE Linker!LinkOutcomes(FALSE) :
              /\ files' = [p \in Paths |->
                            IF p \in Removed(o.ok) THEN "absent"
                            ELSE IF p = object /\ o.temporary # "kept" THEN o.temporary
                            ELSE IF p = Product /\ o.executable # "kept" THEN o.executable
                            ELSE files[p]]
              /\ exit_code' = LinkExit(o)
        BY <3>2 DEF Link, Exit
      <4>2. FilesInv'
        BY <4>1 DEF FilesInv
      <4>3. o.ok \in BOOLEAN /\ (o.ok => o.executable = "whole")
        <5>1. CASE o = failure
          BY <5>1
        <5>2. CASE o \in Linker!LinkOutcomes(FALSE)
          BY <5>2, OutcomesAreHonest
        <5> HIDE DEF failure
        <5> QED BY <4>1, <5>1, <5>2
      <4>4. ASSUME exit_code' = 0 PROVE files'[Product] = "whole"
        <5>1. o.executable = "whole"
          BY <4>1, <4>3, <4>4 DEF LinkExit
        <5> QED BY <1>1, <2>2, <4>1, <5>1 DEF Removed
      <4> QED BY <4>2, <4>4
    <3> QED BY <1>6, <3>1, <3>2
  <2> QED BY <1>1, <2>1, <2>3, ReturnKeepsInv
<1> QED BY <1>2, <1>3, <1>4, <1>5, <1>6

LEMMA NextKeepsDriverInv == DriverInv /\ [Next]_vars => DriverInv'
<1> SUFFICES ASSUME DriverInv, [Next]_vars PROVE DriverInv'
  OBVIOUS
<1>1. CASE UNCHANGED vars
  BY <1>1 DEF vars, DriverInv, ProgressInv, FilesInv, ReportedSuccessIsComplete,
       Compiled, Product, OutputPath
<1>2. CASE Next
  BY <1>2, FrontEndKeepsInv, PreprocessingKeepsInv, BackEndKeepsInv DEF Next
<1> QED BY <1>1, <1>2

LEMMA Invariance == Spec => []DriverInv
BY InitDriverInv, NextKeepsDriverInv, PTL DEF Spec

-----------------------------------------------------------------------------
\* Whatever the user gives on the command line and whatever fails on the way: an
\* exit code of zero means that no error was reported and, if every failure was,
\* that the file asked for is there and complete (main and the driver's runs of
\* the stages, fcc_driver.c).
THEOREM SuccessIsComplete == Spec => []ReportedSuccessIsComplete
BY Invariance, PTL DEF DriverInv

\* No step changes a file after an error was reported, except --preprocess,
\* which opens its output before it reads the source.
THEOREM ErrorsTouchNothingHolds == Spec => ErrorsTouchNothing
<1>1. DriverInv /\ [Next]_vars =>
        [files' # files => error_count = 0 \/ options.stage = "preprocess"]_vars
  <2> SUFFICES ASSUME DriverInv, Next, files' # files PROVE error_count = 0
    OBVIOUS
  <2>1. at # "done"
    BY DEF Next, Argument, BadArgument, EndOfArguments, Load, LoadFails, Preprocess,
         PreprocessFails, PreprocessOutputFails, Expand, ExpandFails, Lex, Parse,
         Sema, StageFails, PathsFail, PathsFit, AssemblyFails, CodegenFails, Emit,
         Assemble, Link
  <2> QED BY <2>1 DEF DriverInv, ProgressInv
<1> QED BY <1>1, Invariance, PTL DEF Spec, ErrorsTouchNothing
=============================================================================
