---------------------------- MODULE MCCudaSession ----------------------------
(***************************************************************************)
(* Small instances of the CUDA session for TLC.                            *)
(***************************************************************************)
EXTENDS CudaRefinement, TLC

\* A kernel that adds its image and the first word of its input to the first
\* word of its output, modulo 2, so that the order of tasks shows in the result.
MCCompute(image, ins, out) ==
    [out EXCEPT ![1] = (@ + image + (IF ins = <<>> THEN 0 ELSE ins[1][1])) % 2]

MCContents == UNION {[1..n -> {0, 1, 7}] : n \in 1..2}
MCInputs == {<<1>>}

Symmetry == Permutations(Names) \cup Permutations(Pointers)
              \cup Permutations(Handles) \cup Permutations(Arrays)
=============================================================================
