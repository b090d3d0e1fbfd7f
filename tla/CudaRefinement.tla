--------------------------- MODULE CudaRefinement ---------------------------
(***************************************************************************)
(* The session of CudaSession implements the store of NamedStore: a name   *)
(* stands for what its buffer will hold when every task queued now has     *)
(* run.                                                                    *)
(***************************************************************************)
EXTENDS CudaSession

\* Names are bound to contents of the size of their buffers.
ASSUME RefinementAssumption ==
    /\ \A data \in Inputs : DOMAIN data = 1..Len(data)
    /\ \A image \in Images, out \in Contents, j \in 0..MaxInputs :
          \A ins \in [1..j -> Contents] :
             DOMAIN Compute(image, ins, out) = DOMAIN out

\* Device memory after the first k queued tasks, and after all of them.
Later[k \in 0..Len(stream)] ==
    IF k = 0 THEN device ELSE After(stream[k], Later[k - 1])
Settled == Later[Len(stream)]

\* What each name stands for.
View ==
    LET mem == Settled
    IN [n \in Names |->
          LET buffer == BufferOf(n)
              module == ModuleOf(n)
          IN IF buffer # Null THEN [kind |-> "buffer", data |-> mem[buffer]]
             ELSE IF module # Null THEN [kind |-> "kernel", image |-> modules[module]]
             ELSE [kind |-> "nothing"]]

\* The contents of buffers that the inputs and outputs of the model lead to.
StoreContents == Inputs \cup {[i \in 1..(n + 1) |-> IF i = 1 THEN n ELSE 0] : n \in Outputs}

Promise == INSTANCE NamedStore WITH
              Contents <- StoreContents,
              store <- View,
              ended <- ~Running

\* Every step of the session is a command of the store taking effect, or is
\* invisible: `read` writes what the commands before it left in the buffer,
\* whatever was still queued, freed or allocated when they were answered.
ImplementsStore == Promise!Spec
=============================================================================
