------------------------------- MODULE MCDriver -------------------------------
(* A small instance of FccDriver: an input with the extension of an output,  *)
(* an output without extension, an output that is the source, and stage      *)
(* paths that do not fit their buffers.                                      *)
EXTENDS FccDriver

MCInputPaths == {<<"a", "c">>, <<"a", "s">>}
MCOutputPaths == {<<"o">>, <<"a", "c">>, <<"p", "exe">>}
MCLongPaths == {<<"o", "fcc_stage", "obj">>, <<"p", "fcc_stage", "s">>}
=============================================================================
