----------------------------- MODULE MCGpuHosts -----------------------------
(***************************************************************************)
(* A small instance of the two GPU hosts for TLC.                          *)
(***************************************************************************)
EXTENDS GpuHosts, TLC

\* The kernel adds its image and the first words of its inputs to the first
\* word of its output, modulo 4, and writes no other word.
MCCompute(image, ins, out) ==
    LET first(i) == IF i \in DOMAIN ins THEN ins[i][1] ELSE 0
    IN [out EXCEPT ![1] = (@ + image + first(1) + first(2)) % 4]

MCContents == UNION {[1..n -> 0..3] : n \in 1..2}
MCInputs == {<<1>>, <<0, 1>>}

CudaRun(blocks, out, inputs) ==
    [mode |-> "run", image |-> 1, blocks |-> blocks, output |-> out, inputs |-> inputs]

Size(n) == [kind |-> "size", n |-> n]
U32(items) == [kind |-> "u32", items |-> items]
U64(items) == [kind |-> "u64", items |-> items]
File(items, rest) == [kind |-> "file", items |-> items, rest |-> rest]

\* Outputs given by a size (even, zero and odd) and by their words; no input,
\* one, an empty one, malformed ones, and more than the device has room for; an
\* empty grid.
MCRequests ==
    {[mode |-> "usage"], [mode |-> "info"], [mode |-> "session"],
     CudaRun(1, Size(4), <<>>), CudaRun(1, Size(2), <<U64(<<3>>)>>),
     CudaRun(1, Size(4), <<U32(<<>>)>>),
     CudaRun(1, U32(<<1, 0, 1, 1>>), <<File(<<2, 1>>, 0)>>), CudaRun(1, File(<<>>, 0), <<>>),
     CudaRun(1, Size(0), <<>>), CudaRun(1, Size(3), <<>>),
     CudaRun(0, Size(2), <<U64(<<1>>)>>), CudaRun(1, U64(<<4>>), <<>>),
     CudaRun(1, Size(2), <<U32(<<1>>)>>), CudaRun(1, Size(2), <<U32(<<0, 2>>)>>),
     CudaRun(1, Size(2), <<File(<<1>>, 3)>>), CudaRun(1, [kind |-> "other"], <<>>),
     CudaRun(1, Size(2), <<U64(<<1>>), U64(<<1>>)>>)}

-----------------------------------------------------------------------------

\* The shader adds its image and the last word of its input to the first word of
\* its output, modulo 2, so that the order of tasks shows in the result.
MCWebCompute(image, ins, out) ==
    LET input == IF ins = <<>> THEN 0 ELSE ins[1][Len(ins[1])]
    IN [out EXCEPT ![1] = (@ + image + input) % 2]

WebRun(workgroups, out, inputs) ==
    [mode |-> "run", image |-> 1, workgroups |-> workgroups, output |-> out, inputs |-> inputs]

\* One word; the session's `load` and `words` differ in nothing else.
MCWebSpecs == {U32(<<1>>)}

\* What its buffers hold: inputs, and the initial words of outputs.
MCWebContents == UNION {[1..n -> 0..1] : n \in {1, 2, 6}}

MCWebRequests ==
    {[mode |-> "usage"], [mode |-> "info"], [mode |-> "session"],
     WebRun(1, Size(2), <<>>), WebRun(1, Size(1), <<U64(<<2>>)>>),
     WebRun(0, Size(2), <<File(<<1>>, 0)>>), WebRun(1, U32(<<0, 1>>), <<U32(<<>>)>>),
     WebRun(1, Size(0), <<>>), WebRun(1, U64(<<4>>), <<>>),
     WebRun(1, U32(<<2>>), <<>>), WebRun(1, Size(1), <<File(<<1>>, 3)>>),
     WebRun(1, [kind |-> "other"], <<>>)}
=============================================================================
