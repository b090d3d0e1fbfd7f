----------------------------- MODULE NamedStore -----------------------------
(***************************************************************************)
(* What a GPU session promises its client (the header comment of           *)
(* tools/cuda-host.c): a table of named buffers and kernels on which every *)
(* command takes effect at once, in the order the commands are given.      *)
(* Nothing here is asynchronous.  A session may end at any time: "any      *)
(* error ends the process".                                                *)
(***************************************************************************)
EXTENDS Naturals, Sequences

CONSTANTS Names,            \* the names a client uses
          Contents,         \* what a buffer can hold: sequences of words
          Images,           \* the kernels a client loads
          MaxInputs,        \* bound on the inputs of one run
          Compute(_, _, _)  \* what a kernel leaves in its output buffer

VARIABLES store,   \* what each name stands for
          file,    \* the bytes of the last file a `read` wrote
          ended    \* the process has ended

vars == <<store, file, ended>>

Nothing == [kind |-> "nothing"]
Buffer(data) == [kind |-> "buffer", data |-> data]
Kernel(image) == [kind |-> "kernel", image |-> image]

IsBuffer(name) == store[name].kind = "buffer"
IsKernel(name) == store[name].kind = "kernel"

Init == /\ store = [n \in Names |-> Nothing]
        /\ file = <<>>
        /\ ended = FALSE

-----------------------------------------------------------------------------
(* `load`, `words` and `output` give a name its contents. *)
SetBuffer(name, data) ==
    /\ store' = [store EXCEPT ![name] = Buffer(data)]
    /\ UNCHANGED <<file, ended>>

SetKernel(name, image) ==
    /\ store' = [store EXCEPT ![name] = Kernel(image)]
    /\ UNCHANGED <<file, ended>>

Run(kernel, out, ins) ==
    /\ IsKernel(kernel)
    /\ IsBuffer(out)
    /\ \A i \in DOMAIN ins : ins[i] # out /\ IsBuffer(ins[i])
    /\ store' = [store EXCEPT ![out] = Buffer(
                    Compute(store[kernel].image,
                            [i \in DOMAIN ins |-> store[ins[i]].data],
                            store[out].data))]
    /\ UNCHANGED <<file, ended>>

Read(name) ==
    /\ IsBuffer(name)
    /\ file' = store[name].data
    /\ UNCHANGED <<store, ended>>

Free(name) ==
    /\ store[name] # Nothing
    /\ store' = [store EXCEPT ![name] = Nothing]
    /\ UNCHANGED <<file, ended>>

End == /\ ended' = TRUE
       /\ UNCHANGED <<store, file>>

Next == /\ ~ended
        /\ \/ \E n \in Names, d \in Contents : SetBuffer(n, d)
           \/ \E n \in Names, m \in Images : SetKernel(n, m)
           \/ \E k, o \in Names :
                \E j \in 0..MaxInputs : \E ins \in [1..j -> Names] : Run(k, o, ins)
           \/ \E n \in Names : Read(n)
           \/ \E n \in Names : Free(n)
           \/ End

Spec == Init /\ [][Next]_vars
=============================================================================
