------------------------------ MODULE CudaHost ------------------------------
(***************************************************************************)
(* The process of tools/cuda-host.c: it opens the device, and then prints  *)
(* what the device is (`info`), carries out one launch and prints its      *)
(* output (`run`), or serves a session (CudaSession).  `run` queues its    *)
(* copies, its launch and the copy back on one stream, and reads the       *)
(* output after it has synchronized the stream.                            *)
(***************************************************************************)
EXTENDS CudaSession

CONSTANTS Half,       \* 2^32
          Fill,       \* FILL_WORD
          Requests    \* command lines

VARIABLES request,    \* the command line
          place,      \* where the process is: "session", or a point of run
          locals,     \* of run: the module, and what is uploaded so far
          printed     \* the halves run has printed

hostVars == <<vars, request, place, locals, printed>>

HostInit ==
    /\ Init
    /\ request \in Requests
    /\ place = "main"
    /\ locals = [module |-> Null, output |-> Null, words |-> <<>>, buffers |-> <<>>]
    /\ printed = <<>>

-----------------------------------------------------------------------------
(* The buffer specifications of a command line.  A word of 64 bits is two    *)
(* halves, the least significant first.                                     *)

Low(word) == word % Half
High(word) == word \div Half

\* What parse_buffer refuses: an item beyond its width, an odd number of
\* halves, a file that is not whole words.  And the sizes `run` refuses.
Bad(spec) ==
    CASE spec.kind = "size" -> spec.n = 0 \/ spec.n % 2 # 0
      [] spec.kind = "u32" -> Len(spec.items) % 2 # 0 \/ \E i \in DOMAIN spec.items : spec.items[i] >= Half
      [] spec.kind = "u64" -> \E i \in DOMAIN spec.items : spec.items[i] >= Half * Half
      [] spec.kind = "file" -> spec.rest # 0
      [] OTHER -> TRUE

Paired(halves) ==
    [i \in 1..(Len(halves) \div 2) |-> halves[2 * i - 1] + Half * halves[2 * i]]

\* The words of a specification, or one zero word when it has none.
parse_buffer(spec) ==
    LET words == IF spec.kind = "u32" THEN Paired(spec.items) ELSE spec.items
    IN IF words = <<>> THEN <<0>> ELSE words

\* The initial words of the output; a size counts halves.
Initial(spec) ==
    IF spec.kind = "size"
    THEN Paired([i \in 1..spec.n |-> Fill])
    ELSE parse_buffer(spec)

\* No array is empty, and neither what the driver allocates nor what a kernel
\* leaves in its output is anything but contents.
ASSUME RequestsAssumption ==
    /\ \A data \in Contents :
          /\ Len(data) \in Nat \ {0}
          /\ [1..Len(data) -> Junk] \subseteq Contents
    /\ \A r \in Requests :
          /\ r.mode \in {"usage", "info", "session", "run"}
          /\ r.mode = "run" =>
                /\ Len(r.inputs) \in Nat
                /\ ~Bad(r.output) => Initial(r.output) \in Contents
                /\ \A i \in 1..Len(r.inputs) :
                      ~Bad(r.inputs[i]) => parse_buffer(r.inputs[i]) \in Contents
                /\ \A ins \in [1..Len(r.inputs) -> Contents], out \in Contents :
                      Compute(r.image, ins, out) \in Contents

\* What `run` prints of an array of words.
Printed(words) ==
    [i \in 1..(2 * Len(words)) |->
       LET word == words[(i + 1) \div 2] IN IF i % 2 = 1 THEN Low(word) ELSE High(word)]

-----------------------------------------------------------------------------
(* The steps of the process. *)

At(here, there) == Running /\ place = here /\ place' = there

End(status) == pc' = status /\ UNCHANGED <<place, locals, printed>>

\* main, for a command line that names none of the three: usage, and status 2.
Usage ==
    /\ Running /\ place = "main" /\ request.mode = "usage"
    /\ End("failed")
    /\ UNCHANGED <<entries, device, modules, host, stream, fault, cmd, file>>

\* open_device, which each of the three calls first.
open_device ==
    /\ request.mode # "usage"
    /\ At("main", request.mode)
    /\ UNCHANGED <<vars, locals, printed>>

info ==
    /\ Running /\ place = "info"
    /\ End("exited")
    /\ UNCHANGED <<entries, device, modules, host, stream, fault, cmd, file>>

\* run reads the image, loads it, and finds the entry.
LoadImage ==
    /\ At("run", "output")
    /\ \E h \in Handles :
          /\ modules[h] = Null
          /\ modules' = [modules EXCEPT ![h] = request.image]
          /\ locals' = [locals EXCEPT !.module = h]
    /\ UNCHANGED <<entries, device, host, stream, fault, pc, cmd, file, printed>>

MakeOutput ==
    /\ At("output", "upload")
    /\ ~Bad(request.output)
    /\ \E a \in Arrays :
          /\ host[a] = Null
          /\ host' = [host EXCEPT ![a] = Initial(request.output)]
          /\ locals' = [locals EXCEPT !.output = a]
    /\ UNCHANGED <<entries, device, modules, stream, fault, pc, cmd, file, printed>>

RejectOutput ==
    /\ Running /\ place = "output" /\ Bad(request.output)
    /\ End("failed")
    /\ UNCHANGED <<entries, device, modules, host, stream, fault, cmd, file>>

\* upload: a new buffer, and the queued copy of an array's words to it.
upload(a, words) ==
    \E p \in Pointers, junk \in [1..Len(words) -> Junk] :
       /\ device[p] = Null
       /\ device' = [device EXCEPT ![p] = junk]
       /\ stream' = Append(stream, Copy(p, a))
       /\ locals' = [locals EXCEPT !.words = Append(@, a), !.buffers = Append(@, p)]

\* The inputs one by one, and after them the output.
Uploaded == Len(locals.buffers)
InputCount == Len(request.inputs)

UploadInput ==
    /\ At("upload", "upload")
    /\ Uploaded < InputCount
    /\ ~Bad(request.inputs[Uploaded + 1])
    /\ LET words == parse_buffer(request.inputs[Uploaded + 1])
       IN \E a \in Arrays : /\ host[a] = Null
                            /\ host' = [host EXCEPT ![a] = words]
                            /\ upload(a, words)
    /\ UNCHANGED <<entries, modules, fault, pc, cmd, file, printed>>

RejectInput ==
    /\ Running /\ place = "upload" /\ Uploaded < InputCount
    /\ Bad(request.inputs[Uploaded + 1])
    /\ End("failed")
    /\ UNCHANGED <<entries, device, modules, host, stream, fault, cmd, file>>

UploadOutput ==
    /\ At("upload", "launch")
    /\ Uploaded = InputCount
    /\ upload(locals.output, host[locals.output])
    /\ UNCHANGED <<entries, modules, host, fault, pc, cmd, file, printed>>

Buffer(i) == locals.buffers[i]
OutputBuffer == Buffer(InputCount + 1)

\* cuLaunchKernel takes no empty grid.
LaunchOnce ==
    /\ At("launch", "fetch")
    /\ request.blocks > 0
    /\ stream' = Append(stream, Launch(locals.module, OutputBuffer,
                                       [i \in 1..InputCount |-> Buffer(i)]))
    /\ UNCHANGED <<entries, device, modules, host, fault, pc, cmd, file, locals, printed>>

RejectLaunch ==
    /\ Running /\ place = "launch" /\ request.blocks = 0
    /\ End("failed")
    /\ UNCHANGED <<entries, device, modules, host, stream, fault, cmd, file>>

\* The copy back goes to the array that held the initial words.
FetchOutput ==
    /\ At("fetch", "print")
    /\ stream' = Append(stream, Fetch(OutputBuffer, locals.output))
    /\ UNCHANGED <<entries, device, modules, host, fault, pc, cmd, file, locals, printed>>

PrintOutput_early ==
    /\ At("print", "free")
    /\ printed' = Printed(host[locals.output])
    /\ UNCHANGED <<vars, locals>>

PrintOutput ==
    /\ Synchronized
    /\ At("print", "free")
    /\ printed' = Printed(host[locals.output])
    /\ UNCHANGED <<vars, locals>>

\* The buffers, the words, the stream, the module and the output.
FreeAll ==
    /\ Running /\ place = "free"
    /\ device' = [p \in Pointers |->
                    IF \E i \in 1..(InputCount + 1) : Buffer(i) = p THEN Null ELSE device[p]]
    /\ host' = [a \in Arrays |->
                  IF a = locals.output \/ \E i \in 1..InputCount : locals.words[i] = a
                  THEN Null ELSE host[a]]
    /\ modules' = [modules EXCEPT ![locals.module] = Null]
    /\ End("exited")
    /\ UNCHANGED <<entries, stream, fault, cmd, file>>

\* cuMemAlloc or malloc has nothing left to give.
NoMemory ==
    /\ Running /\ place = "upload"
    /\ \/ \A p \in Pointers : device[p] # Null
       \/ Uploaded < InputCount /\ \A a \in Arrays : host[a] # Null
    /\ End("failed")
    /\ UNCHANGED <<entries, device, modules, host, stream, fault, cmd, file>>

LaunchError ==
    /\ Running /\ place = "print" /\ fault
    /\ End("failed")
    /\ UNCHANGED <<entries, device, modules, host, stream, fault, cmd, file>>

Proceed ==
    \/ Usage \/ open_device \/ info
    \/ LoadImage \/ MakeOutput \/ RejectOutput \/ UploadInput \/ RejectInput \/ UploadOutput
    \/ LaunchOnce \/ RejectLaunch \/ FetchOutput \/ PrintOutput \/ FreeAll
    \/ NoMemory \/ LaunchError

ProceedStep == Proceed /\ UNCHANGED request

InSession(Step) == place = "session" /\ Step /\ UNCHANGED <<request, place, locals, printed>>

Background(Step) == Step /\ UNCHANGED <<request, place, locals, printed>>

HostNext ==
    \/ ProceedStep
    \/ InSession(Command)
    \/ InSession(Continue)
    \/ Background(DeviceStep)
    \/ Background(LaunchFault)
    \/ Background(Die)
    \/ Background(Ended)

\* The device goes on with the stream, and the host with what it has begun;
\* the client need not send another command.
HostFairness ==
    /\ WF_hostVars(ProceedStep)
    /\ WF_hostVars(InSession(Continue))
    /\ WF_hostVars(Background(DeviceStep))

HostSpec == HostInit /\ [][HostNext]_hostVars /\ HostFairness

-----------------------------------------------------------------------------
(* Properties. *)

\* What the launch of the command line leaves in its output.
Result == Compute(request.image,
                  [i \in 1..InputCount |-> parse_buffer(request.inputs[i])],
                  Initial(request.output))

\* "The host reads the output after synchronizing that stream": `run` prints
\* what the launch computed from the inputs and the initial output words, never
\* those words or part of the result, and it ends with success only after it
\* has printed and has freed every buffer, array and module.
RunPrints ==
    request.mode = "run" =>
       /\ printed # <<>> => printed = Printed(Result)
       /\ pc = "exited" => /\ printed # <<>>
                           /\ \A p \in Pointers : device[p] = Null
                           /\ \A a \in Arrays : host[a] = Null
                           /\ \A h \in Handles : modules[h] = Null

\* The process is at work: anywhere but between two commands or at its end.
Working == Running /\ (place = "session" => pc # "command")

\* `run` and `info` end, and a command that waits for the stream is answered or
\* ends the process, though a launch may fail and stop the stream.
WorkEnds == Working ~> ~Working
=============================================================================
