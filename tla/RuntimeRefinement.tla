-------------------------- MODULE RuntimeRefinement -------------------------
(***************************************************************************)
(* What the objects in memory stand for, and the store of values, TreeStore, *)
(* that the code of RuntimeHeap implements for a program's variables.       *)
(***************************************************************************)
EXTENDS RuntimeRow, Sequences

\* The value of an object.
RECURSIVE ValueOf(_)
ValueOf(ptr) ==
    IF IsRecord(ptr)
    THEN <<"tree", [i \in 0..(Width - 1) |->
                      IF i \notin ChildSlots THEN mem[ptr + i]
                      ELSE IF mem[ptr + i] = 0 THEN <<>> ELSE ValueOf(mem[ptr + i])]>>
    ELSE IF IsHeader(ptr) THEN <<"header">>
    ELSE <<"array", [i \in 1..mem[ptr] |-> mem[ptr + i]]>>

Values == INSTANCE TreeStore WITH
             Children <- ChildSlots,
             store <- [ptr \in owned |-> ValueOf(ptr)]

\* A variable's value changes only by the operation on that variable: a copy equals
\* its source and shares nothing with it, and no free block, pending list or copy in
\* progress overwrites a value.
ImplementsStore == Values!Spec

-----------------------------------------------------------------------------
\* Every call of alloc and release, and every copy, returns or traps: the free list,
\* the pending list and the parents of a copy have no cycle, and each loop comes to its
\* end, whatever the shape of the tree released or copied.
CallsEnd == pc # "program" ~> pc \in {"program", "trapped"}
=============================================================================
