------------------------------ MODULE GpuHosts ------------------------------
(***************************************************************************)
(* The two hosts that carry out kernels, tools/cuda-host.c (CudaHost) and  *)
(* tools/webgpu-host.c (WebGpuHost), which take the same command lines and *)
(* serve the same session.  A behaviour is one of the two processes, from  *)
(* its command line to its end; the other waits for a session's first      *)
(* command throughout.                                                     *)
(***************************************************************************)
EXTENDS CudaHost

CONSTANTS WebSpecs,      \* what a client of the WebGPU host loads
          WebOutputs,    \* the N of its `output NAME N`
          WebContents,   \* what its buffers can hold
          Buffers,       \* its buffer handles
          Pipelines,     \* its pipeline handles
          WebRequests,   \* its command lines
          WebInputs,     \* bound of the model: inputs of one `run`
          WebCompute(_, _, _)

VARIABLES program,   \* the process that runs
          webRequest, webPlace, gpu, asked, done, webEntries, held, memory, pipelines,
          queue, lost, readback, output

Web == INSTANCE WebGpuHost WITH
          request <- webRequest, place <- webPlace, entries <- webEntries,
          Specs <- WebSpecs, Outputs <- WebOutputs, Contents <- WebContents,
          Requests <- WebRequests,
          MaxInputs <- WebInputs, Compute <- WebCompute

ASSUME WebAssumption == Web!HostAssumption

webVars == <<webRequest, webPlace, gpu, asked, done, webEntries, held, memory, pipelines,
             queue, lost, readback, output>>
bothVars == <<hostVars, webVars, program>>

CudaIdle ==
    /\ Init
    /\ request = [mode |-> "session"]
    /\ place = "session"
    /\ locals = [module |-> Null, output |-> Null, words |-> <<>>, buffers |-> <<>>]
    /\ printed = <<>>

WebIdle ==
    /\ webRequest = [mode |-> "session"]
    /\ webPlace = "session"
    /\ gpu = {"adapter", "device"}
    /\ Web!Empty

BothInit ==
    \/ program = "cuda" /\ HostInit /\ WebIdle
    \/ program = "webgpu" /\ Web!Init /\ CudaIdle

BothNext ==
    \/ program = "cuda" /\ HostNext /\ UNCHANGED <<webVars, program>>
    \/ program = "webgpu" /\ Web!Next /\ UNCHANGED <<hostVars, program>>

BothSpec == BothInit /\ [][BothNext]_bothVars /\ HostFairness /\ Web!Fairness

-----------------------------------------------------------------------------
(* Properties. *)

\* `run` of either host prints what its launch or dispatch computed from the
\* inputs and the initial output words, though the CUDA host's output array is
\* the source of one queued copy and the target of another, and though one flag
\* tells the WebGPU host of two callbacks.
RunsPrint == RunPrints /\ Web!RunPrints

\* The process that runs is at work: anywhere but between two commands of a
\* session or at its end.
AtWork == IF program = "cuda" THEN Working ELSE Web!Working

\* `info`, `run`, and a session's command end, in an answer or in the end of the
\* process, though a launch fails and stops the CUDA host's stream, or the
\* WebGPU host's device is lost while it waits for a map.
WorksEnd == AtWork ~> ~AtWork

\* Every reference of the WebGPU host has one owner: `free`, which moves the last
\* entry, new_entry, which replaces what a name had, and the release of the
\* readback buffer neither leak a reference nor give one up twice.
WebOneOwner == Web!OneOwner

\* A session of the WebGPU host is a table on which every command takes effect
\* at once, though the host waits for the queue only when it reads.
WebImplementsStore == Web!ImplementsStore
=============================================================================
