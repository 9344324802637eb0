------------------------------ MODULE LinkPromise ------------------------------
(***************************************************************************)
(* What the driver relies on when it calls the linker: the executable is   *)
(* left alone until the linker writes it, the call returns with one of the *)
(* LinkOutcomes, and once it has returned nothing changes.                 *)
(***************************************************************************)
VARIABLES
  result,       \* "pending", "linked" or "failed"
  keep,         \* the caller wants the stage object
  temporary,    \* the stage object
  executable

Temporaries == {"absent", "partial", "whole"}

\* The ways a call can end: the returned flag, the executable and the stage
\* object.  "kept" is a file the call did not touch.  A link that succeeds leaves
\* a whole executable; a link that fails leaves the executable alone or
\* incomplete.  The stage object is gone, unless the caller asked to keep it or
\* NASM failed and left a piece of one.
LinkOutcomes(kept) ==
  {[ok |-> TRUE, executable |-> "whole", temporary |-> IF kept THEN "whole" ELSE "absent"]}
    \cup [ok : {FALSE}, executable : {"kept", "partial"},
          temporary : IF kept THEN Temporaries ELSE {"absent", "partial"}]

Init ==
  /\ result = "pending" /\ keep \in BOOLEAN
  /\ temporary = "absent" /\ executable = "kept"

Assemble ==
  /\ result = "pending" /\ executable = "kept"
  /\ temporary' \in Temporaries
  /\ UNCHANGED <<result, keep, executable>>

\* The executable is opened once, which makes it partial, and completed once.
Write ==
  /\ result = "pending"
  /\ \/ executable = "kept" /\ executable' = "partial"
     \/ executable = "partial" /\ executable' = "whole"
  /\ UNCHANGED <<result, keep, temporary>>

Return ==
  /\ result = "pending"
  /\ \E o \in LinkOutcomes(keep) :
       /\ result' = IF o.ok THEN "linked" ELSE "failed"
       /\ executable = o.executable
       /\ temporary' = o.temporary
  /\ UNCHANGED <<keep, executable>>

Next == Assemble \/ Write \/ Return

Spec == Init /\ [][Next]_<<result, keep, temporary, executable>>
=============================================================================
