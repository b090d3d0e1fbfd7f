--------------------------- MODULE MCRuntimeTrees ---------------------------
(***************************************************************************)
(* Trees with two child slots, for TLC, in memory for six records: a root   *)
(* with two children and the whole of its copy.  What the program may ask   *)
(* for is bounded here and not in RuntimeHeap; alloc, release and the copy  *)
(* are those of RuntimeHeap, and run to their ends.                         *)
(***************************************************************************)
EXTENDS RuntimeRefinement, TLC

CONSTANT Builds   \* how many objects the program builds beside its copies

MCWords == {7}

\* The heap has never held more than `Builds` records.
Small == top <= Base + Builds * (Header + Width)

\* A program builds, matches and reuses records, in new and in freed memory, while its
\* heap is small, and copies and releases them at any time.
TreeProgram ==
    /\ pc = "program"
    /\ \/ \E ptr \in owned : Release(ptr) \/ Copy(ptr)
       \/ /\ Small
          /\ \E ptr \in owned : Match(ptr) \/ \E f \in Fields : Reuse(ptr, f)
       \/ /\ Small
          /\ Cardinality(blocks) < Builds
          /\ \/ \E f \in Fields : NewRecord(f)
             \/ \E ptr \in owned : CopyHeader(ptr)

\* A program may end when it has released everything.
Over == pc = "program" /\ owned = {} /\ UNCHANGED vars

TreeNext == TreeProgram \/ Over \/ Continue \/ Ended
TreeSpec == Init /\ [][TreeNext]_vars /\ Fairness
=============================================================================
