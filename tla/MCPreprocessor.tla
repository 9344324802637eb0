---------------------------- MODULE MCPreprocessor ----------------------------
(* A small instance of FccPreprocessor: two directories, three files, one   *)
(* path that does not fit its buffer.                                       *)
EXTENDS FccPreprocessor

At(directory, name) == [directory |-> directory, name |-> name]

MCRoot == At("here", "main")
MCSearchPath == <<"inc">>
MCExisting == {At("here", "main"), At("here", "once"), At("inc", "once")}
MCTooLong == {At("here", "deep")}
=============================================================================
