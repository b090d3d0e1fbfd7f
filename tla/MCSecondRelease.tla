--------------------------- MODULE MCSecondRelease --------------------------
(***************************************************************************)
(* A host that keeps released pointers, in the memory of MCRuntimeHeap.     *)
(***************************************************************************)
EXTENDS SecondRelease

MCWords == {7}
=============================================================================
