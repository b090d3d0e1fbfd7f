----------------------------- MODULE WebGpuHost -----------------------------
(***************************************************************************)
(* The process of tools/webgpu-host.c: it asks for an adapter and a device *)
(* and waits for the callbacks that bring them, and then prints what the   *)
(* adapter is (`info`), carries out one dispatch and prints its output     *)
(* (`run`), or serves a session with a table of named buffers and          *)
(* pipelines.                                                              *)
(*                                                                         *)
(* The queue takes what the host submits in order, while the host goes on. *)
(* Nothing in the host waits for it but the map of a readback buffer,      *)
(* whose callback comes when the queue has done what was submitted before. *)
(* A release gives up the host's reference; a queued task keeps its own    *)
(* references until it has run.                                            *)
(*                                                                         *)
(* A buffer is a sequence of 32-bit words; a 64-bit word is two of them,   *)
(* the least significant first.                                            *)
(***************************************************************************)
EXTENDS Naturals, Sequences, FiniteSets

CONSTANTS Names,             \* names a client gives to buffers and shaders
          Specs,             \* what a client loads with `load` and `words`
          Outputs,           \* the N of `output NAME N`
          Contents,          \* what a buffer can hold: sequences of words
          Images,            \* the shaders a client loads
          Buffers,           \* buffer handles
          Pipelines,         \* pipeline handles
          Null,              \* no handle
          Half,              \* 2^32
          Fill,              \* FILL_WORD
          Requests,          \* command lines
          MaxEntries,        \* MAX_ENTRIES
          MaxInputs,         \* bound of the model: inputs of one `run`
          MaxQueue,          \* bound of the model: tasks queued at once
          Compute(_, _, _)   \* what a shader leaves in its output buffer

VARIABLES request,    \* the command line
          place,      \* where the process is
          gpu,        \* which of the adapter and the device the process has
          asked,      \* the callback the process waits for, or "none"
          done,       \* the flag that callback sets
          entries,    \* entries_[0 .. entryCount_ - 1]
          held,       \* buffers the host has a reference to
          memory,     \* contents of the buffers, Null where there is none
          pipelines,  \* shaders of the pipelines the host has a reference to
          queue,      \* submitted tasks, oldest first
          lost,       \* the device is lost: no task runs any more
          readback,   \* the buffer that is being mapped
          output      \* the words `run` printed, or the last `read` wrote

vars == <<request, place, gpu, asked, done, entries, held, memory, pipelines, queue, lost,
          readback, output>>
opening == <<gpu, asked, done>>
table == <<entries, pipelines>>
device == <<held, memory, queue>>

\* Nothing in the table and nothing on the device.
Empty == /\ asked = "none"
         /\ done = FALSE
         /\ entries = <<>>
         /\ held = {}
         /\ memory = [b \in Buffers |-> Null]
         /\ pipelines = [p \in Pipelines |-> Null]
         /\ queue = <<>>
         /\ lost = FALSE
         /\ readback = Null
         /\ output = <<>>

Init == request \in Requests /\ place = "main" /\ gpu = {} /\ Empty

Running == place \notin {"exited", "failed"}
At(here, there) == place = here /\ place' = there

-----------------------------------------------------------------------------
(* Buffer specifications. *)

\* What parse_input refuses: an item beyond its width, a file that is not whole
\* words.  And the sizes `run` refuses.
Bad(spec) ==
    CASE spec.kind = "size" -> spec.n = 0
      [] spec.kind = "u32" -> \E i \in DOMAIN spec.items : spec.items[i] >= Half
      [] spec.kind = "u64" -> \E i \in DOMAIN spec.items : spec.items[i] >= Half * Half
      [] spec.kind = "file" -> spec.rest # 0
      [] OTHER -> TRUE

Halves(items) ==
    [i \in 1..(2 * Len(items)) |->
       LET item == items[(i + 1) \div 2] IN IF i % 2 = 1 THEN item % Half ELSE item \div Half]

\* The words of a specification, at least one.
parse_input(spec) ==
    LET words == IF spec.kind = "u64" THEN Halves(spec.items) ELSE spec.items
    IN IF words = <<>> THEN <<0>> ELSE words

\* The initial words of the output of `run`.
Initial(spec) ==
    IF spec.kind = "size" THEN [i \in 1..spec.n |-> Fill] ELSE parse_input(spec)

\* The words of `output NAME N`.
OutputWords(n) == Halves(<<n>>) \o [i \in 1..(2 * n) |-> 0]

\* What a new buffer holds.
Zeros(n) == [i \in 1..n |-> 0]

\* Buffers keep what clients send and what shaders compute, and none is empty.
HostAssumption ==
    /\ {MaxEntries, MaxInputs, MaxQueue} \subseteq Nat
    /\ Null \notin Buffers \cup Pipelines \cup Images \cup Contents
    /\ <<>> \notin Contents
    /\ \A spec \in Specs : parse_input(spec) \in Contents
    /\ \A n \in Outputs : OutputWords(n) \in Contents
    /\ \A words \in Contents : Zeros(Len(words)) \in Contents
    /\ \A image \in Images, out \in Contents, j \in 0..MaxInputs :
          \A ins \in [1..j -> Contents] : Compute(image, ins, out) \in Contents
    /\ \A r \in Requests :
          /\ r.mode \in {"usage", "info", "session", "run"}
          /\ r.mode = "run" =>
                /\ r.image \in Images
                /\ Len(r.inputs) \in 0..MaxInputs
                /\ ~Bad(r.output) => Initial(r.output) \in Contents
                /\ \A i \in 1..Len(r.inputs) :
                      ~Bad(r.inputs[i]) => parse_input(r.inputs[i]) \in Contents

-----------------------------------------------------------------------------
(* The queue. *)

Write(buffer, words) == [op |-> "write", buffer |-> buffer, words |-> words]
Dispatch(image, out, ins) == [op |-> "dispatch", image |-> image, buffer |-> out, ins |-> ins]
CopyTo(buffer, from) == [op |-> "copy", buffer |-> buffer, from |-> from]

Uses(t) == {t.buffer} \cup (CASE t.op = "dispatch" -> {t.ins[i] : i \in DOMAIN t.ins}
                              [] t.op = "copy" -> {t.from}
                              [] OTHER -> {})

Queued(tasks) == UNION {Uses(tasks[k]) : k \in DOMAIN tasks}

\* The memory that stays when the host holds `hold` and `tasks` are queued.
Kept(mem, hold, tasks) ==
    [b \in Buffers |-> IF b \in hold \cup Queued(tasks) THEN mem[b] ELSE Null]

After(t, mem) ==
    [mem EXCEPT ![t.buffer] =
        CASE t.op = "write" -> t.words
          [] t.op = "copy" -> mem[t.from]
          [] OTHER -> Compute(t.image, [i \in DOMAIN t.ins |-> mem[t.ins[i]]], @)]

DeviceStep ==
    /\ Running /\ queue # <<>> /\ ~lost
    /\ queue' = Tail(queue)
    /\ memory' = Kept(After(Head(queue), memory), held, Tail(queue))
    /\ UNCHANGED <<request, place, opening, table, held, lost, readback, output>>

DeviceLost ==
    /\ place \in {"run", "session", "map"} /\ ~lost
    /\ lost' = TRUE
    /\ UNCHANGED <<request, place, opening, table, device, readback, output>>

-----------------------------------------------------------------------------
(* open_gpu, and the callbacks. *)

Ask(what) == asked' = what

Usage ==
    /\ request.mode = "usage"
    /\ At("main", "failed")
    /\ UNCHANGED <<request, opening, table, device, lost, readback, output>>

RequestAdapter ==
    /\ request.mode # "usage"
    /\ At("main", "adapter")
    /\ Ask("adapter")
    /\ UNCHANGED <<request, gpu, done, table, device, lost, readback, output>>

\* The two requests share one flag, which is reset in between.
RequestDevice_stale ==
    /\ done
    /\ At("adapter", "device")
    /\ Ask("device")
    /\ UNCHANGED <<request, gpu, done, table, device, lost, readback, output>>

RequestDevice ==
    /\ done
    /\ At("adapter", "device")
    /\ done' = FALSE
    /\ Ask("device")
    /\ UNCHANGED <<request, gpu, table, device, lost, readback, output>>

Opened ==
    /\ done
    /\ At("device", request.mode)
    /\ UNCHANGED <<request, opening, table, device, lost, readback, output>>

\* on_adapter and on_device bring what was asked for; on_map sets the flag of
\* the wait once the queue has done what was submitted before.
Callback ==
    /\ asked # "none"
    /\ asked = "map" => queue = <<>> /\ ~lost
    /\ gpu' = IF asked = "map" THEN gpu ELSE gpu \cup {asked}
    /\ asked' = "none"
    /\ done' = TRUE
    /\ UNCHANGED <<request, place, table, device, lost, readback, output>>

CallbackFails_ignored ==
    /\ Running /\ asked \in {"adapter", "device"}
    /\ place' = "failed"
    /\ UNCHANGED <<request, opening, table, device, lost, readback, output>>

\* They end the process when they are given an error.
CallbackFails ==
    /\ Running
    /\ asked # "none"
    /\ asked = "map" => lost
    /\ place' = "failed"
    /\ UNCHANGED <<request, opening, table, device, lost, readback, output>>

info ==
    /\ At("info", "exited")
    /\ UNCHANGED <<request, opening, table, device, lost, readback, output>>

-----------------------------------------------------------------------------
(* `run`. *)

InputCount == Len(request.inputs)
RunOK == ~Bad(request.output) /\ \A i \in 1..InputCount : ~Bad(request.inputs[i])

RejectRun ==
    /\ place = "run"
    /\ ~RunOK
    /\ place' = "failed"
    /\ UNCHANGED <<request, opening, table, device, lost, readback, output>>

\* What `run` submits: the writes, then the dispatch and the copy back.
Ordered(writes, dispatch, copy) == writes \o dispatch \o copy

\* A buffer for each input, one for the output and one to read it back.
run ==
    /\ place = "run"
    /\ RunOK
    /\ \E bs \in [1..(InputCount + 2) -> Buffers] :
          LET out == bs[InputCount + 1]
              back == bs[InputCount + 2]
              words(i) == IF i <= InputCount THEN parse_input(request.inputs[i])
                          ELSE Initial(request.output)
          IN /\ \A i, j \in DOMAIN bs : bs[i] = bs[j] => i = j
             /\ held' = {bs[i] : i \in DOMAIN bs}
             /\ memory' = [b \in Buffers |->
                    IF b = back THEN Zeros(Len(words(InputCount + 1)))
                    ELSE IF \E i \in DOMAIN bs : bs[i] = b
                    THEN Zeros(Len(words(CHOOSE i \in DOMAIN bs : bs[i] = b)))
                    ELSE Null]
             /\ queue' = Ordered([i \in 1..(InputCount + 1) |-> Write(bs[i], words(i))],
                                 IF request.workgroups = 0 THEN <<>>
                                 ELSE <<Dispatch(request.image, out, [i \in 1..InputCount |-> bs[i]])>>,
                                 <<CopyTo(back, out)>>)
             /\ readback' = back
    /\ place' = "map"
    /\ done' = FALSE
    /\ Ask("map")
    /\ UNCHANGED <<request, gpu, table, lost, output>>

\* `run` prints the mapped words, and ends.
PrintOutput ==
    /\ request.mode = "run"
    /\ done
    /\ At("map", "exited")
    /\ output' = memory[readback]
    /\ UNCHANGED <<request, opening, table, device, lost, readback>>

-----------------------------------------------------------------------------
(* The session's table. *)

find_entry(name) ==
    IF \E i \in DOMAIN entries : entries[i].name = name
    THEN CHOOSE i \in DOMAIN entries : entries[i].name = name
    ELSE 0

Known(name) == find_entry(name) # 0
BufferOf(name) == IF Known(name) THEN entries[find_entry(name)].buffer ELSE Null
PipelineOf(name) == IF Known(name) THEN entries[find_entry(name)].pipeline ELSE Null

Released_leaked(name) == held

\* What new_entry leaves of the host's references: it releases what the name had.
Released(name) == held \ {BufferOf(name)}
PipelinesLeft(name) ==
    [p \in Pipelines |-> IF p = PipelineOf(name) THEN Null ELSE pipelines[p]]

\* new_entry, filled in.
Put(name, buffer, pipeline) ==
    LET new == [name |-> name, buffer |-> buffer, pipeline |-> pipeline]
    IN /\ Known(name) \/ Len(entries) < MaxEntries
       /\ entries' = IF Known(name) THEN [entries EXCEPT ![find_entry(name)] = new]
                     ELSE Append(entries, new)

\* `*buffer = entries_[--entryCount_]`.
Without(i) ==
    LET n == Len(entries)
    IN [k \in 1..(n - 1) |-> IF k = i THEN entries[n] ELSE entries[k]]

-----------------------------------------------------------------------------
(* The session's commands. *)

\* store_buffer: a new buffer, whatever the name had, and the write of its words.
StoreCommand(name, words) ==
    LET hold == Released(name)
        mem == Kept(memory, hold, queue)
    IN \E b \in Buffers :
          /\ place = "session" /\ Len(queue) < MaxQueue
          /\ mem[b] = Null
          /\ Put(name, b, Null)
          /\ pipelines' = PipelinesLeft(name)
          /\ held' = hold \cup {b}
          /\ memory' = [mem EXCEPT ![b] = Zeros(Len(words))]
          /\ queue' = Append(queue, Write(b, words))
          /\ UNCHANGED <<request, place, opening, lost, readback, output>>

ShaderCommand(name, image) ==
    \E p \in Pipelines :
       /\ place = "session"
       /\ PipelinesLeft(name)[p] = Null
       /\ Put(name, Null, p)
       /\ pipelines' = [PipelinesLeft(name) EXCEPT ![p] = image]
       /\ held' = Released(name)
       /\ memory' = Kept(memory, held', queue)
       /\ UNCHANGED <<request, place, opening, queue, lost, readback, output>>

\* `run`: the device refuses an output that is also an input; no workgroups
\* dispatch nothing.
RunCommand(shader, workgroups, out, ins) ==
    /\ place = "session" /\ Len(queue) < MaxQueue
    /\ PipelineOf(shader) # Null
    /\ BufferOf(out) # Null
    /\ \A i \in DOMAIN ins : ins[i] # out /\ BufferOf(ins[i]) # Null
    /\ queue' = IF workgroups = 0 THEN queue
                ELSE Append(queue, Dispatch(pipelines[PipelineOf(shader)], BufferOf(out),
                                            [i \in DOMAIN ins |-> BufferOf(ins[i])]))
    /\ UNCHANGED <<request, place, opening, table, held, memory, lost, readback, output>>

\* `read`: a new buffer, the copy to it, and the wait for its map.
ReadCommand(name) ==
    \E b \in Buffers :
       /\ BufferOf(name) # Null
       /\ At("session", "map") /\ Len(queue) < MaxQueue
       /\ memory[b] = Null
       /\ held' = held \cup {b}
       /\ memory' = [memory EXCEPT ![b] = Zeros(Len(memory[BufferOf(name)]))]
       /\ queue' = Append(queue, CopyTo(b, BufferOf(name)))
       /\ readback' = b
       /\ done' = FALSE
       /\ Ask("map")
       /\ UNCHANGED <<request, gpu, table, lost, output>>

WriteFile_early ==
    /\ request.mode = "session"
    /\ At("map", "session")
    /\ output' = memory[readback]
    /\ held' = held \ {readback}
    /\ memory' = Kept(memory, held', queue)
    /\ readback' = Null
    /\ asked' = "none"
    /\ UNCHANGED <<request, gpu, done, table, queue, lost>>

\* `read` goes on when the buffer is mapped, and releases it.
WriteFile ==
    /\ request.mode = "session"
    /\ done
    /\ At("map", "session")
    /\ output' = memory[readback]
    /\ held' = held \ {readback}
    /\ memory' = Kept(memory, held', queue)
    /\ readback' = Null
    /\ UNCHANGED <<request, opening, table, queue, lost>>

\* `free` takes buffers only.
FreeCommand(name) ==
    /\ place = "session"
    /\ BufferOf(name) # Null
    /\ entries' = Without(find_entry(name))
    /\ held' = Released(name)
    /\ memory' = Kept(memory, held', queue)
    /\ UNCHANGED <<request, place, opening, pipelines, queue, lost, readback, output>>

\* `quit`, or the end of the input: nothing waits for the queue.
QuitCommand ==
    /\ At("session", "exited")
    /\ UNCHANGED <<request, opening, table, device, lost, readback, output>>

Command ==
    \/ \E n \in Names, s \in Specs : StoreCommand(n, parse_input(s))
    \/ \E n \in Names, o \in Outputs : StoreCommand(n, OutputWords(o))
    \/ \E n \in Names, m \in Images : ShaderCommand(n, m)
    \/ \E s, o \in Names, w \in 0..1, j \in 0..MaxInputs :
          \E ins \in [1..j -> Names] : RunCommand(s, w, o, ins)
    \/ \E n \in Names : ReadCommand(n)
    \/ \E n \in Names : FreeCommand(n)
    \/ QuitCommand

\* die, on_error: a command the session rejects, or a call that fails.
Die ==
    /\ Running
    /\ place' = "failed"
    /\ UNCHANGED <<request, opening, table, device, lost, readback, output>>

Proceed ==
    \/ Usage \/ RequestAdapter \/ RequestDevice \/ Opened
    \/ info \/ RejectRun \/ run \/ PrintOutput \/ WriteFile

Events == Running /\ (Callback \/ CallbackFails)

Ended == ~Running /\ UNCHANGED vars

Next == Proceed \/ Events \/ Command \/ DeviceStep \/ DeviceLost \/ Die \/ Ended

\* The host goes on with what it has begun, the device with its queue, and each
\* request is answered; the client need not send another command.
Fairness == WF_vars(Proceed) /\ WF_vars(Events) /\ WF_vars(DeviceStep)

Spec == Init /\ [][Next]_vars /\ Fairness

-----------------------------------------------------------------------------
(* Properties. *)

\* Every reference of the host has one owner: a buffer is held by one entry or by
\* the read in progress, a pipeline by one entry, and an entry holds what it
\* names.  `free`, which moves the last entry, and new_entry, which replaces what
\* a name had, neither leak a reference nor give one up twice.
OneOwner ==
    request.mode = "session" /\ Running =>
       /\ \A b \in Buffers :
             Cardinality({i \in DOMAIN entries : entries[i].buffer = b})
               + (IF readback = b THEN 1 ELSE 0) = (IF b \in held THEN 1 ELSE 0)
       /\ \A p \in Pipelines :
             Cardinality({i \in DOMAIN entries : entries[i].pipeline = p})
               = (IF pipelines[p] # Null THEN 1 ELSE 0)
       /\ \A i, j \in DOMAIN entries : entries[i].name = entries[j].name => i = j

\* The process uses the device only when its callback has brought it, though one
\* flag serves two requests.  `run` prints what the dispatch left in the output,
\* or its initial words when no workgroup ran, and it ends with success only
\* after that.
RunPrints ==
    /\ place \in {"info", "run", "session", "map"} => gpu = {"adapter", "device"}
    /\ request.mode = "run" =>
       /\ output # <<>> =>
             output = IF request.workgroups = 0 THEN Initial(request.output)
                      ELSE Compute(request.image,
                                   [i \in 1..InputCount |-> parse_input(request.inputs[i])],
                                   Initial(request.output))
       /\ place = "exited" => output # <<>>

\* The loops that wait for a callback end: the process is opened, a map is
\* answered, `run` and `info` end, though the device may be lost.
Working == place \notin {"session", "exited", "failed"}
WorkEnds == Working ~> ~Working

\* What each name stands for when every task queued now has run.
Later[k \in 0..Len(queue)] ==
    IF k = 0 THEN memory ELSE After(queue[k], Later[k - 1])
Settled == Later[Len(queue)]

View ==
    LET mem == Settled
    IN [n \in Names |->
          IF BufferOf(n) # Null THEN [kind |-> "buffer", data |-> mem[BufferOf(n)]]
          ELSE IF PipelineOf(n) # Null
          THEN [kind |-> "kernel", image |-> pipelines[PipelineOf(n)]]
          ELSE [kind |-> "nothing"]]

Promise == INSTANCE NamedStore WITH
              Contents <- {parse_input(s) : s \in Specs} \cup {OutputWords(n) : n \in Outputs},
              store <- View,
              file <- IF request.mode = "session" THEN output ELSE <<>>,
              ended <- ~Running

\* A session is a table on which every command takes effect at once: `read`
\* writes what the commands before it left in the buffer, whatever was queued,
\* replaced or freed since.
ImplementsStore == Promise!Spec
=============================================================================
