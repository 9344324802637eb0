---------------------------- MODULE FccPreprocessor ----------------------------
(***************************************************************************)
(* The directives of fcc_preprocessor.c: conditionals, #include with its   *)
(* search path and #pragma once, and the set of defined macro names.  The  *)
(* text is arbitrary: each step reads a line the environment chooses, so   *)
(* one behaviour stands for one program.  What macro replacement makes of  *)
(* a text line is left out.                                                *)
(*                                                                         *)
(* The C recursion emit_file -> process_directive -> process_include ->    *)
(* emit_file is the stack `files'.  `groups' is a history variable: the    *)
(* conditional groups as the C standard nests them.  It is kept only while *)
(* nothing was reported, since a malformed program has no nesting.         *)
(***************************************************************************)
EXTENDS Integers, Sequences

CONSTANTS
  Macros,                \* macro names
  Builtins,              \* the ones defined before the first line
  Names,                 \* what an #include can name
  Directories,           \* directories of the file system
  SearchPath,            \* -I directories, then the sysroot's
  Existing,              \* the files there are: directory and name
  TooLong,               \* the files whose path overflows its buffer
  Root,                  \* the file the run starts with
  MaxDepth,              \* FCC_MAX_PREPROCESS_DEPTH
  MaxConditionalDepth    \* FCC_MAX_PREPROCESS_CONDITIONAL_DEPTH

File == [directory : Directories, name : Names]

ASSUME FileAssumption ==
  /\ Builtins \subseteq Macros
  /\ Existing \subseteq File /\ TooLong \subseteq File /\ Root \in File
  /\ SearchPath \in Seq(Directories)

ASSUME DepthAssumption == MaxDepth \in Nat \ {0} /\ MaxConditionalDepth \in Nat

VARIABLES
  status,         \* running, unwinding after a fatal error, or how it ended
  reported,       \* error_count has grown since the run began
  files,          \* the files being emitted, the innermost last
  conditionals,   \* conditional_stack, conditional_depth entries of it
  defined,        \* names of the macro table
  once,           \* pragma_once_paths
  live,           \* included source files and spliced copies not disposed yet
  groups          \* history: the open groups of the program

vars == <<status, reported, files, conditionals, defined, once, live, groups>>

Conditional == [parent_active : BOOLEAN, current_active : BOOLEAN,
                branch_taken : BOOLEAN, saw_else : BOOLEAN]

\* included_source_file is a local of process_include.  Nothing initialises
\* it until a candidate is loaded; a failed load leaves it empty.
Slots == {"uninitialised", "empty", "loaded"}

Frame == [file : File, spliced : BOOLEAN, including : BOOLEAN,
          candidates : Seq(File), slot : Slots]

\* A group: did an earlier branch have a true condition, does the current one.
Group == [earlier : BOOLEAN, now : BOOLEAN]

-----------------------------------------------------------------------------
Top(s) == s[Len(s)]
Pop(s) == SubSeq(s, 1, Len(s) - 1)
ReplaceTop(s, x) == [s EXCEPT ![Len(s)] = x]

\* Mistaken form: a group stays active once one of its branches was taken.
ActiveIfTaken == IF conditionals = << >> THEN TRUE ELSE Top(conditionals).branch_taken

\* current_branch_active
Active == IF conditionals = << >> THEN TRUE ELSE Top(conditionals).current_active

\* A line is read when a file is open and no #include is in progress.
Reading == status = "running" /\ files # << >> /\ ~Top(files).including

Report == reported' = TRUE /\ UNCHANGED groups

\* The history follows the program as long as nothing was reported.
Follow(new) == groups' = (IF reported THEN groups ELSE new) /\ UNCHANGED reported

Fatal == status' = "unwinding" /\ Report

Frame0(f, spliced) ==
  [file |-> f, spliced |-> spliced, including |-> FALSE, candidates |-> << >>,
   slot |-> "uninitialised"]

\* Memory may run out before the first line.
Init ==
  /\ \/ /\ status = "running" /\ reported = FALSE
        /\ \E spliced \in BOOLEAN :
             /\ files = <<Frame0(Root, spliced)>>
             /\ live = IF spliced THEN 1 ELSE 0
     \/ /\ status = "unwinding" /\ reported = TRUE
        /\ files = << >> /\ live = 0
  /\ conditionals = << >> /\ groups = << >>
  /\ defined = Builtins /\ once = {}

-----------------------------------------------------------------------------
(* Conditionals.                                                            *)

\* push_conditional: at the limit it reports, yet its caller goes on.
PushConditional(c) ==
  IF Len(conditionals) >= MaxConditionalDepth
  THEN Report /\ UNCHANGED conditionals
  ELSE /\ conditionals' =
            Append(conditionals,
                   [parent_active |-> Active, current_active |-> Active /\ c,
                    branch_taken |-> c, saw_else |-> FALSE])
       /\ Follow(Append(groups, [earlier |-> FALSE, now |-> c]))

other == <<status, files, defined, once, live>>

Ifdef(m, invert) ==
  /\ Reading
  /\ PushConditional((m \in defined) # invert)
  /\ UNCHANGED other

\* An #if whose expression evaluates to c.
If(c) ==
  /\ Reading
  /\ PushConditional(c)
  /\ UNCHANGED other

\* An #if whose expression is malformed counts as false, after a report, and
\* is pushed all the same.
IfMalformed ==
  /\ Reading
  /\ reported' = TRUE /\ UNCHANGED groups
  /\ conditionals' =
       IF Len(conditionals) >= MaxConditionalDepth THEN conditionals
       ELSE Append(conditionals,
                   [parent_active |-> Active, current_active |-> FALSE,
                    branch_taken |-> FALSE, saw_else |-> FALSE])
  /\ UNCHANGED other

\* #ifdef, #else or #endif with missing or extra tokens, #error in an active
\* group, an unknown directive in one: reported and otherwise ignored.
Malformed ==
  /\ Reading
  /\ Report
  /\ UNCHANGED <<other, conditionals>>

\* Mistaken form: a later branch is selected although one was taken.
SelectsAnyTrue(t, c) == t.parent_active /\ c

\* The later branch of a conditional that is processed.
Selects(t, c) == t.parent_active /\ ~t.branch_taken /\ c

Elif(c) ==
  /\ Reading
  /\ IF conditionals = << >> \/ Top(conditionals).saw_else
     THEN Report /\ UNCHANGED conditionals
     ELSE LET t == Top(conditionals) IN
            /\ conditionals' =
                 ReplaceTop(conditionals,
                   [t EXCEPT !.current_active = Selects(t, c),
                             !.branch_taken = t.branch_taken \/ c])
            /\ Follow(ReplaceTop(groups,
                 [earlier |-> Top(groups).earlier \/ Top(groups).now, now |-> c]))
  /\ UNCHANGED other

\* An #elif whose expression is malformed counts as false as well: its branch
\* is not processed, whatever was taken before.
ElifMalformed ==
  /\ Reading /\ conditionals # << >> /\ ~Top(conditionals).saw_else
  /\ Report
  /\ conditionals' =
       ReplaceTop(conditionals, [Top(conditionals) EXCEPT !.current_active = FALSE])
  /\ UNCHANGED other

Else ==
  /\ Reading
  /\ IF conditionals = << >> \/ Top(conditionals).saw_else
     THEN Report /\ UNCHANGED conditionals
     ELSE LET t == Top(conditionals) IN
            /\ conditionals' =
                 ReplaceTop(conditionals,
                   [t EXCEPT !.current_active = Selects(t, TRUE),
                             !.branch_taken = TRUE, !.saw_else = TRUE])
            /\ Follow(ReplaceTop(groups,
                 [earlier |-> Top(groups).earlier \/ Top(groups).now, now |-> TRUE]))
  /\ UNCHANGED other

Endif ==
  /\ Reading
  /\ IF conditionals = << >>
     THEN Report /\ UNCHANGED conditionals
     ELSE conditionals' = Pop(conditionals) /\ Follow(Pop(groups))
  /\ UNCHANGED other

-----------------------------------------------------------------------------
(* Lines that count in active groups only.                                  *)

\* A text line is expanded and written; a macro call may be reported, memory
\* may run out, the write may fail.
TextLine ==
  /\ Reading /\ Active
  /\ \/ UNCHANGED <<status, reported, groups>>
     \/ Report /\ UNCHANGED status
     \/ Fatal
  /\ UNCHANGED <<files, conditionals, defined, once, live>>

Define(m) ==
  /\ Reading /\ Active
  /\ \/ defined' = defined \cup {m} /\ UNCHANGED <<status, reported, groups>>
     \/ Fatal /\ UNCHANGED defined
  /\ UNCHANGED <<files, conditionals, once, live>>

Undef(m) ==
  /\ Reading /\ Active
  /\ defined' = defined \ {m}
  /\ UNCHANGED <<status, reported, files, conditionals, once, live, groups>>

PragmaOnce ==
  /\ Reading /\ Active
  /\ \/ once' = once \cup {Top(files).file} /\ UNCHANGED <<status, reported, groups>>
     \/ Fatal /\ UNCHANGED once
  /\ UNCHANGED <<files, conditionals, defined, live>>

-----------------------------------------------------------------------------
(* #include.                                                                *)

Candidates(name, quoted) ==
  (IF quoted THEN <<[directory |-> Top(files).file.directory, name |-> name]>>
   ELSE << >>)
  \o [i \in 1..Len(SearchPath) |-> [directory |-> SearchPath[i], name |-> name]]

Include(name, quoted) ==
  /\ Reading /\ Active
  /\ files' = ReplaceTop(files,
       [Top(files) EXCEPT !.including = TRUE, !.slot = "uninitialised",
                          !.candidates = Candidates(name, quoted)])
  /\ UNCHANGED <<status, reported, conditionals, defined, once, live, groups>>

Including == status = "running" /\ files # << >> /\ Top(files).including

Candidate == Head(Top(files).candidates)

\* A failed load, which resets the slot; reading a file that exists may fail
\* as well.  A path too long for its buffer is passed over without a load.
NextCandidate ==
  /\ Including /\ Top(files).candidates # << >>
  /\ files' = ReplaceTop(files,
       [Top(files) EXCEPT !.candidates = Tail(@),
                          !.slot = IF Candidate \in TooLong THEN @ ELSE "empty"])
  /\ Candidate \notin TooLong => Candidate \notin once
  /\ UNCHANGED <<status, reported, conditionals, defined, once, live, groups>>

\* emit_file of the candidate.  At the depth limit the error is fatal; the
\* candidate is disposed by try_include_candidate on the way out.
IncludeCandidate(spliced) ==
  /\ Including /\ Top(files).candidates # << >>
  /\ Candidate \in Existing \ (TooLong \cup once)
  /\ IF Len(files) >= MaxDepth
     THEN Fatal /\ UNCHANGED <<files, live>>
     ELSE /\ files' = Append(ReplaceTop(files, [Top(files) EXCEPT !.slot = "loaded"]),
                             Frame0(Candidate, spliced))
          /\ live' = live + (IF spliced THEN 2 ELSE 1)
          /\ UNCHANGED <<status, reported, groups>>
  /\ UNCHANGED <<conditionals, defined, once>>

\* No memory to splice the lines of the candidate: fatal, and the candidate
\* is disposed at once.
SpliceFails ==
  /\ Including /\ Top(files).candidates # << >>
  /\ Candidate \in Existing \ (TooLong \cup once)
  /\ Fatal
  /\ UNCHANGED <<files, live, conditionals, defined, once>>

Included(frame) ==
  [frame EXCEPT !.including = FALSE, !.candidates = << >>, !.slot = "uninitialised"]

\* The candidate was marked with #pragma once: nothing is loaded, and
\* process_include disposes included_source_file.  If no earlier candidate
\* was tried the structure holds whatever the stack held: freeing it may do
\* nothing or may crash.
SkipOnceCandidate ==
  /\ Including /\ Top(files).candidates # << >>
  /\ Candidate \in once \ TooLong
  /\ files' = ReplaceTop(files, Included(Top(files)))
  /\ IF Top(files).slot = "uninitialised" THEN status' \in {"running", "undefined"}
     ELSE UNCHANGED status
  /\ UNCHANGED <<reported, conditionals, defined, once, live, groups>>

NothingIncluded ==
  /\ Including /\ Top(files).candidates = << >>
  /\ files' = ReplaceTop(files, Included(Top(files)))
  /\ Report
  /\ UNCHANGED <<status, conditionals, defined, once, live>>

-----------------------------------------------------------------------------
(* The end of a file and of the run.                                        *)

\* Mistaken form: the splice copy is forgotten.
DisposedFileOnly(frame, included) == IF included THEN 1 ELSE 0

\* A splice copy is disposed by emit_file, the file itself by process_include.
Disposed(frame, included) ==
  (IF frame.spliced THEN 1 ELSE 0) + (IF included THEN 1 ELSE 0)

EndOfFile ==
  /\ Reading
  /\ live' = live - Disposed(Top(files), Len(files) > 1)
  /\ files' = IF Len(files) = 1 THEN << >>
              ELSE ReplaceTop(Pop(files), Included(Top(Pop(files))))
  /\ UNCHANGED <<status, reported, conditionals, defined, once, groups>>

\* After a fatal error every caller returns false, disposing what it owns.
Unwind ==
  /\ status = "unwinding" /\ files # << >>
  /\ live' = live - Disposed(Top(files), Len(files) > 1)
  /\ files' = Pop(files)
  /\ UNCHANGED <<status, reported, conditionals, defined, once, groups>>

\* Mistaken form: conditionals left open at the end are not noticed.
NothingIsOpen == FALSE

LeftOpen == conditionals # << >>

\* run: an open conditional is reported; the result is true only if nothing
\* was reported.  The stream may turn out to have failed.
EndOfRun ==
  /\ status = "running" /\ files = << >>
  /\ IF LeftOpen THEN Report /\ status' = "failed"
     ELSE \/ status' = (IF reported THEN "failed" ELSE "ok")
             /\ UNCHANGED <<reported, groups>>
          \/ status' = "failed" /\ Report
  /\ defined' = {} /\ once' = {}
  /\ UNCHANGED <<files, conditionals, live>>

Fail ==
  /\ status = "unwinding" /\ files = << >>
  /\ status' = "failed"
  /\ defined' = {} /\ once' = {}
  /\ UNCHANGED <<reported, files, conditionals, live, groups>>

Next ==
  \/ \E m \in Macros :
       Define(m) \/ Undef(m) \/ \E invert \in BOOLEAN : Ifdef(m, invert)
  \/ \E c \in BOOLEAN : If(c) \/ Elif(c)
  \/ IfMalformed \/ ElifMalformed \/ Malformed \/ Else \/ Endif
  \/ TextLine \/ PragmaOnce
  \/ \E name \in Names, quoted \in BOOLEAN : Include(name, quoted)
  \/ \E spliced \in BOOLEAN : IncludeCandidate(spliced)
  \/ NextCandidate \/ SkipOnceCandidate \/ SpliceFails \/ NothingIncluded
  \/ EndOfFile \/ Unwind \/ EndOfRun \/ Fail

Spec == Init /\ [][Next]_vars

-----------------------------------------------------------------------------
\* The branch of a group that is processed: the first with a true condition.
Selected(g) == g.now /\ ~g.earlier

\* As long as nothing was reported the conditional stack mirrors the groups
\* of the program, and the flag at each level, set when the level was pushed
\* or its branch began, says that this and every enclosing group is in its
\* selected branch.
ActiveMeansSelected ==
  ~reported =>
    /\ Len(groups) = Len(conditionals)
    /\ \A i \in 1..Len(conditionals) :
         conditionals[i].current_active <=> \A j \in 1..i : Selected(groups[j])

\* A skipped group changes nothing but the nesting: no macro is defined or
\* undefined, no file marked, no include begun, while some enclosing group is
\* not in its selected branch.
SkippedGroupsDoNothing ==
  [][(files # << >> /\ ~reported
        /\ \E i \in 1..Len(groups) : ~Selected(groups[i])) =>
       /\ UNCHANGED <<defined, once>>
       /\ Len(files') <= Len(files)]_vars

\* A run succeeds only on a program whose conditionals are all closed.
SuccessMeansBalanced ==
  status = "ok" => ~reported /\ groups = << >> /\ conditionals = << >>

\* However a run ends, every included file and splice copy is disposed once.
SourcesAreDisposed ==
  status \in {"ok", "failed"} => live = 0

\* No uninitialised storage is read.
NoUndefinedBehaviour == status # "undefined"
=============================================================================
