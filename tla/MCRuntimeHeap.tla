---------------------------- MODULE MCRuntimeHeap ---------------------------
(***************************************************************************)
(* Small instances of the runtime for TLC.  Word 7 is the address of the   *)
(* first object, so that a slot that holds it and is no child tempts        *)
(* release and the copy to follow it.                                       *)
(***************************************************************************)
EXTENDS RuntimeRefinement, TLC

MCWords == {7}
=============================================================================
