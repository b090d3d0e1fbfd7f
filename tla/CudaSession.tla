----------------------------- MODULE CudaSession ----------------------------
(***************************************************************************)
(* The session of tools/cuda-host.c: a host process that keeps named       *)
(* buffers and kernels in a table, and queues copies, fills and launches   *)
(* on one CUDA stream.  The device takes the tasks of the stream in order, *)
(* while the host goes on; the host waits for the stream where the code    *)
(* calls cuStreamSynchronize, and nowhere else.                            *)
(*                                                                         *)
(* A buffer is a sequence of 64-bit words.  Device pointers, module        *)
(* handles and host arrays are identities that the driver and malloc give  *)
(* out again after they are freed.                                         *)
(*                                                                         *)
(* A definition whose name ends in _kept, _leaked, _early... is a mutation *)
(* of the definition after it: the bug a property must find.               *)
(***************************************************************************)
EXTENDS Naturals, Sequences

CONSTANTS Names,             \* names a client gives to buffers and kernels
          Inputs,            \* what a client loads with `load` and `words`
          Outputs,           \* the N of `output NAME N`
          Junk,              \* words of memory nothing has written
          Images,            \* the kernel images a client loads
          Pointers,          \* device pointers cuMemAlloc returns
          Handles,           \* module handles cuModuleLoadData returns
          Arrays,            \* host arrays malloc returns
          Contents,          \* what a buffer or a host array can hold
          Null,              \* no pointer, no handle, or not allocated
          MaxEntries,        \* MAX_ENTRIES
          MaxInputs,         \* bound of the model: inputs of one run
          MaxQueue,          \* bound of the model: tasks queued at once
          Compute(_, _, _)   \* what a kernel leaves in its output buffer

\* The sizes of buffers, in words.
Sizes == {Len(data) : data \in Inputs} \cup {n + 1 : n \in Outputs}

\* Contents are closed under what the host and the device do with them.
ASSUME SessionAssumption ==
    /\ MaxEntries \in Nat \ {0}
    /\ MaxInputs \in Nat
    /\ MaxQueue \in Nat
    /\ Outputs \subseteq Nat
    /\ Inputs \subseteq Contents
    /\ \A n \in Sizes : n \in Nat /\ [1..n -> Junk] \subseteq Contents
    /\ \A data \in Contents :
          /\ [i \in DOMAIN data |-> 0] \in Contents
          /\ \A n \in Outputs : [data EXCEPT ![1] = n] \in Contents
    /\ \A image \in Images, out \in Contents, j \in 0..MaxInputs :
          \A ins \in [1..j -> Contents] : Compute(image, ins, out) \in Contents
    /\ Null \notin Pointers \cup Handles \cup Arrays \cup Images \cup Contents

VARIABLES entries,   \* entries_[0 .. entryCount_ - 1]
          device,    \* contents of the device buffers, Null where not allocated
          modules,   \* images of the loaded modules
          host,      \* contents of the host arrays
          stream,    \* tasks queued on the stream, oldest first
          fault,     \* a launch failed; the stream takes no further task
          pc,        \* where the host is
          cmd,       \* the command the host is carrying out
          file       \* the bytes of the last file a `read` wrote

vars == <<entries, device, modules, host, stream, fault, pc, cmd, file>>

Idle == [op |-> "none"]

Init == /\ entries = <<>>
        /\ device = [p \in Pointers |-> Null]
        /\ modules = [h \in Handles |-> Null]
        /\ host = [a \in Arrays |-> Null]
        /\ stream = <<>>
        /\ fault = FALSE
        /\ pc = "command"
        /\ cmd = Idle
        /\ file = <<>>

-----------------------------------------------------------------------------
(* The table. *)

Entry(name, buffer, size, module) ==
    [name |-> name, buffer |-> buffer, size |-> size, module |-> module]

\* find_entry: the index of a name, or 0.
find_entry(name) ==
    IF \E i \in DOMAIN entries : entries[i].name = name
    THEN CHOOSE i \in DOMAIN entries : entries[i].name = name
    ELSE 0

Known(name) == find_entry(name) # 0
BufferOf(name) == IF Known(name) THEN entries[find_entry(name)].buffer ELSE Null
ModuleOf(name) == IF Known(name) THEN entries[find_entry(name)].module ELSE Null
HasSize(name, n) == /\ BufferOf(name) # Null
                    /\ entries[find_entry(name)].size = n

\* The table with an entry in place of what the name held, or after the others
\* (new_entry).
Put(name, buffer, size, module) ==
    LET new == Entry(name, buffer, size, module)
    IN IF Known(name) THEN [entries EXCEPT ![find_entry(name)] = new]
       ELSE Append(entries, new)

Without_kept(i) == [entries EXCEPT ![i] = entries[Len(entries)]]

\* `*entry = entries_[--entryCount_]`: the last entry takes the place of i.
Without(i) ==
    LET n == Len(entries)
    IN [k \in 1..(n - 1) |-> IF k = i THEN entries[n] ELSE entries[k]]

Freed_leaked(name) == device

\* What release leaves of the device buffers and of the modules.
Freed(name) == [p \in Pointers |-> IF p = BufferOf(name) THEN Null ELSE device[p]]
Unloaded(name) == [h \in Handles |-> IF h = ModuleOf(name) THEN Null ELSE modules[h]]

-----------------------------------------------------------------------------
(* The stream. *)

\* cuMemcpyHtoDAsync, cuMemcpyDtoHAsync, cuMemsetD32Async over the buffer, the
\* two cuMemsetD32Async that write its first word, and cuLaunchKernel.
Copy(buffer, array) == [op |-> "copy", buffer |-> buffer, array |-> array]
Fetch(buffer, array) == [op |-> "fetch", buffer |-> buffer, array |-> array]
Zero(buffer) == [op |-> "zero", buffer |-> buffer]
First(buffer, word) == [op |-> "first", buffer |-> buffer, word |-> word]
Launch(module, out, ins) ==
    [op |-> "launch", module |-> module, buffer |-> out, ins |-> ins]

\* What task t leaves in the buffer it writes, given the device memory mem.
Written(t, mem) ==
    CASE t.op = "copy" -> host[t.array]
      [] t.op = "zero" -> [i \in DOMAIN mem[t.buffer] |-> 0]
      [] t.op = "first" -> [mem[t.buffer] EXCEPT ![1] = t.word]
      [] t.op = "launch" -> Compute(modules[t.module],
                                    [i \in DOMAIN t.ins |-> mem[t.ins[i]]],
                                    mem[t.buffer])
      [] OTHER -> mem[t.buffer]

After(t, mem) == [mem EXCEPT ![t.buffer] = Written(t, mem)]

Running == pc \notin {"exited", "failed"}

\* The device takes the oldest task.
DeviceStep ==
    /\ Running
    /\ stream # <<>>
    /\ ~fault
    /\ LET t == Head(stream)
       IN /\ device' = After(t, device)
          /\ host' = IF t.op = "fetch"
                     THEN [host EXCEPT ![t.array] = device[t.buffer]]
                     ELSE host
    /\ stream' = Tail(stream)
    /\ UNCHANGED <<entries, modules, fault, pc, cmd, file>>

\* A launch fails: the error stays with the context, and no later task runs.
LaunchFault ==
    /\ Running
    /\ stream # <<>>
    /\ ~fault
    /\ Head(stream).op = "launch"
    /\ fault' = TRUE
    /\ UNCHANGED <<entries, device, modules, host, stream, pc, cmd, file>>

Synchronized_early == ~fault
Synchronized_unchecked == stream = <<>> \/ fault

\* cuStreamSynchronize returns, and returns no error.
Synchronized == stream = <<>> /\ ~fault

-----------------------------------------------------------------------------
(* The commands.  The host reads a line, and runs until it answers `ok`     *)
(* (it is at "command" again) or waits for the stream: at "release" before   *)
(* it frees what a name held, at "stored" before it frees the words a copy   *)
(* reads, at "reading" before it writes a file, at "quit" before it ends.    *)

Answer == pc' = "command" /\ cmd' = Idle
Wait(place, c) == pc' = place /\ cmd' = c

\* Where a command goes once its buffer holds the size it needs, and what it
\* queues: store_words waits for its copy, `output` answers.
Store(c, buffer) ==
    /\ Len(stream) < MaxQueue
    /\ stream' = Append(stream, Copy(buffer, c.array))
    /\ Wait("stored", c)

Output_reversed(c, buffer) ==
    /\ Len(stream) + 2 <= MaxQueue
    /\ stream' = stream \o <<First(buffer, c.word), Zero(buffer)>>
    /\ Answer

Output(c, buffer) ==
    /\ Len(stream) + 2 <= MaxQueue
    /\ stream' = stream \o <<Zero(buffer), First(buffer, c.word)>>
    /\ Answer

Queue(c, buffer) == IF c.op = "store" THEN Store(c, buffer) ELSE Output(c, buffer)

\* The buffer is there with its size; nothing is freed, so nothing waits.
Reuse(c) ==
    /\ HasSize(c.name, c.size)
    /\ Queue(c, BufferOf(c.name))
    /\ UNCHANGED <<entries, device, modules>>

\* cuMemAlloc after what the name held, if anything, is freed.
Allocate(c) ==
    \E p \in Pointers, junk \in [1..c.size -> Junk] :
       /\ Freed(c.name)[p] = Null
       /\ device' = [Freed(c.name) EXCEPT ![p] = junk]
       /\ modules' = Unloaded(c.name)
       /\ entries' = Put(c.name, p, c.size, Null)
       /\ Queue(c, p)

\* The name is known and what it holds does not fit: release waits.
Replace(c) ==
    /\ Wait("release", c)
    /\ UNCHANGED <<entries, device, modules, stream>>

\* buffer_entry and the tasks queued on the buffer.
BufferCommand(c) ==
    /\ \/ Reuse(c)
       \/ ~Known(c.name) /\ Len(entries) < MaxEntries /\ Allocate(c)
       \/ Known(c.name) /\ ~HasSize(c.name, c.size) /\ Replace(c)
    /\ UNCHANGED <<fault, file>>

\* `load` and `words`: parse_buffer fills a host array, store_words copies it.
StoreCommand(name, data) ==
    \E a \in Arrays :
       /\ pc = "command"
       /\ host[a] = Null
       /\ host' = [host EXCEPT ![a] = data]
       /\ BufferCommand([op |-> "store", name |-> name, size |-> Len(data), array |-> a])

OutputCommand(name, n) ==
    /\ pc = "command"
    /\ BufferCommand([op |-> "output", name |-> name, size |-> n + 1, word |-> n])
    /\ UNCHANGED host

LoadModule_stale(c) ==
    \E h \in Handles :
       /\ Unloaded(c.name)[h] = Null
       /\ modules' = [Unloaded(c.name) EXCEPT ![h] = c.image]
       /\ device' = Freed(c.name)
       /\ entries' = Put(c.name, Null,
                         IF Known(c.name) THEN entries[find_entry(c.name)].size ELSE 0, h)
       /\ Answer
       /\ UNCHANGED stream

\* cuModuleLoadData and cuModuleGetFunction, after what the name held is freed.
LoadModule(c) ==
    \E h \in Handles :
       /\ Unloaded(c.name)[h] = Null
       /\ modules' = [Unloaded(c.name) EXCEPT ![h] = c.image]
       /\ device' = Freed(c.name)
       /\ entries' = Put(c.name, Null, 0, h)
       /\ Answer
       /\ UNCHANGED stream

KernelCommand(name, image) ==
    LET c == [op |-> "kernel", name |-> name, image |-> image]
    IN /\ pc = "command"
       /\ \/ ~Known(name) /\ Len(entries) < MaxEntries /\ LoadModule(c)
          \/ Known(name) /\ Replace(c)
       /\ UNCHANGED <<host, fault, file>>

RunCommand_unchecked(kernel, blocks, out, ins) ==
    /\ pc = "command"
    /\ ModuleOf(kernel) # Null
    /\ \A i \in DOMAIN ins : BufferOf(ins[i]) # Null
    /\ BufferOf(out) # Null
    /\ Len(stream) < MaxQueue
    /\ stream' = Append(stream,
          Launch(ModuleOf(kernel), BufferOf(out), [i \in DOMAIN ins |-> BufferOf(ins[i])]))
    /\ UNCHANGED <<entries, device, modules, host, fault, pc, cmd, file>>

\* `run`: the pointers are those the names have now; 0 blocks launch nothing.
RunCommand(kernel, blocks, out, ins) ==
    /\ pc = "command"
    /\ ModuleOf(kernel) # Null
    /\ \A i \in DOMAIN ins : ins[i] # out /\ BufferOf(ins[i]) # Null
    /\ BufferOf(out) # Null
    /\ IF blocks > 0
       THEN /\ Len(stream) < MaxQueue
            /\ stream' = Append(stream,
                  Launch(ModuleOf(kernel), BufferOf(out),
                         [i \in DOMAIN ins |-> BufferOf(ins[i])]))
       ELSE UNCHANGED stream
    /\ UNCHANGED <<entries, device, modules, host, fault, pc, cmd, file>>

ReadCommand(name) ==
    \E a \in Arrays :
       /\ pc = "command"
       /\ BufferOf(name) # Null
       /\ Len(stream) < MaxQueue
       /\ host[a] = Null
       /\ \E junk \in [1..entries[find_entry(name)].size -> Junk] :
             host' = [host EXCEPT ![a] = junk]
       /\ stream' = Append(stream, Fetch(BufferOf(name), a))
       /\ Wait("reading", [op |-> "read", name |-> name, array |-> a])
       /\ UNCHANGED <<entries, device, modules, fault, file>>

FreeCommand(name) ==
    /\ pc = "command"
    /\ Known(name)
    /\ Replace([op |-> "free", name |-> name])
    /\ UNCHANGED <<host, fault, file>>

\* `quit`, or the end of the input.
QuitCommand ==
    /\ pc = "command"
    /\ Wait("quit", Idle)
    /\ UNCHANGED <<entries, device, modules, host, stream, fault, file>>

Command ==
    \/ \E n \in Names, d \in Inputs : StoreCommand(n, d)
    \/ \E n \in Names, o \in Outputs : OutputCommand(n, o)
    \/ \E n \in Names, m \in Images : KernelCommand(n, m)
    \/ \E k, o \in Names, b \in 0..1, j \in 0..MaxInputs :
         \E ins \in [1..j -> Names] : RunCommand(k, b, o, ins)
    \/ \E n \in Names : ReadCommand(n)
    \/ \E n \in Names : FreeCommand(n)
    \/ QuitCommand

-----------------------------------------------------------------------------
(* The host after the stream is synchronized. *)

\* buffer_entry goes on after release.
Reallocate ==
    /\ pc = "release" /\ Synchronized
    /\ cmd.op \in {"store", "output"}
    /\ Allocate(cmd)
    /\ UNCHANGED <<host, fault, file>>

\* `kernel` goes on after release.
Reload ==
    /\ pc = "release" /\ Synchronized
    /\ cmd.op = "kernel"
    /\ LoadModule(cmd)
    /\ UNCHANGED <<host, fault, file>>

\* `free` goes on after release.
RemoveEntry ==
    /\ pc = "release" /\ Synchronized
    /\ cmd.op = "free"
    /\ device' = Freed(cmd.name)
    /\ modules' = Unloaded(cmd.name)
    /\ entries' = Without(find_entry(cmd.name))
    /\ Answer
    /\ UNCHANGED <<host, stream, fault, file>>

Stored_leaked ==
    /\ pc = "stored" /\ Synchronized
    /\ Answer
    /\ UNCHANGED <<entries, device, modules, host, stream, fault, file>>

\* store_words frees the words.
Stored ==
    /\ pc = "stored" /\ Synchronized
    /\ host' = [host EXCEPT ![cmd.array] = Null]
    /\ Answer
    /\ UNCHANGED <<entries, device, modules, stream, fault, file>>

\* `read` writes the file and frees its array.
ReadBack ==
    /\ pc = "reading" /\ Synchronized
    /\ file' = host[cmd.array]
    /\ host' = [host EXCEPT ![cmd.array] = Null]
    /\ Answer
    /\ UNCHANGED <<entries, device, modules, stream, fault>>

Exit ==
    /\ pc = "quit" /\ Synchronized
    /\ pc' = "exited"
    /\ UNCHANGED <<entries, device, modules, host, stream, fault, cmd, file>>

\* cuMemAlloc or cuModuleLoadData fails after release: nothing is left to give.
OutOfMemory ==
    /\ pc = "release" /\ Synchronized
    /\ \/ cmd.op \in {"store", "output"} /\ \A p \in Pointers : Freed(cmd.name)[p] # Null
       \/ cmd.op = "kernel" /\ \A h \in Handles : Unloaded(cmd.name)[h] # Null
    /\ pc' = "failed"
    /\ UNCHANGED <<entries, device, modules, host, stream, fault, cmd, file>>

SyncError_partial ==
    /\ pc \in {"release", "stored", "reading"}
    /\ fault
    /\ pc' = "failed"
    /\ UNCHANGED <<entries, device, modules, host, stream, fault, cmd, file>>

\* cuStreamSynchronize returns the error of a launch.
SyncError ==
    /\ pc \in {"release", "stored", "reading", "quit"}
    /\ fault
    /\ pc' = "failed"
    /\ UNCHANGED <<entries, device, modules, host, stream, fault, cmd, file>>

\* die, check: a command the session rejects (an unknown name, an output that
\* is also an input, a full table, a bad word or file) or a call that fails.
Die ==
    /\ Running
    /\ pc' = "failed"
    /\ UNCHANGED <<entries, device, modules, host, stream, fault, cmd, file>>

Continue ==
    \/ Reallocate \/ Reload \/ RemoveEntry \/ OutOfMemory
    \/ Stored \/ ReadBack \/ Exit \/ SyncError

Ended == ~Running /\ UNCHANGED vars

Next == Command \/ DeviceStep \/ LaunchFault \/ Continue \/ Die \/ Ended

Spec == Init /\ [][Next]_vars

-----------------------------------------------------------------------------
(* Properties. *)

EntrySet ==
    [name : Names, buffer : Pointers, size : Sizes, module : {Null}]
      \cup [name : Names, buffer : {Null}, size : {0}, module : Handles]

CommandSet ==
    {Idle}
      \cup [op : {"store"}, name : Names, size : Sizes, array : Arrays]
      \cup [op : {"output"}, name : Names, size : Sizes, word : Outputs]
      \cup [op : {"kernel"}, name : Names, image : Images]
      \cup [op : {"read"}, name : Names, array : Arrays]
      \cup [op : {"free"}, name : Names]

TaskSet ==
    [op : {"copy", "fetch"}, buffer : Pointers, array : Arrays]
      \cup [op : {"zero"}, buffer : Pointers]
      \cup [op : {"first"}, buffer : Pointers, word : Outputs]
      \cup [op : {"launch"}, module : Handles, buffer : Pointers,
             ins : UNION {[1..j -> Pointers] : j \in 0..MaxInputs}]

\* The shapes of the variables.
TypeOK ==
    /\ entries \in Seq(EntrySet)
    /\ device \in [Pointers -> Contents \cup {Null}]
    /\ modules \in [Handles -> Images \cup {Null}]
    /\ host \in [Arrays -> Contents \cup {Null}]
    /\ stream \in Seq(TaskSet)
    /\ fault \in BOOLEAN
    /\ pc \in {"command", "release", "stored", "reading", "quit", "exited", "failed"}
    /\ cmd \in CommandSet
    /\ file \in Contents \cup {<<>>}

\* A name has one entry, what an entry holds is allocated, and the entries fit
\* entries_: the table that `free` compacts while its names are in use.
TableOK ==
    /\ Len(entries) <= MaxEntries
    /\ \A i, j \in DOMAIN entries : entries[i].name = entries[j].name => i = j
    /\ \A i \in DOMAIN entries :
          LET e == entries[i]
          IN /\ e.buffer # Null => device[e.buffer] # Null
             /\ e.module # Null => modules[e.module] # Null

\* Each device buffer and each module belongs to exactly one entry: `free` and
\* the replacement of a name leak nothing, and no two names share memory.
OwnedOnce ==
    /\ \A p \in Pointers :
          device[p] # Null => \E i \in DOMAIN entries : entries[i].buffer = p
    /\ \A h \in Handles :
          modules[h] # Null => \E i \in DOMAIN entries : entries[i].module = h
    /\ \A i, j \in DOMAIN entries :
          i # j => /\ entries[i].buffer = entries[j].buffer => entries[i].buffer = Null
                   /\ entries[i].module = entries[j].module => entries[i].module = Null

\* The table and the device's memory stay one to one, through `free`, which moves
\* the last entry while names and queued launches refer to the others, and through
\* every replacement: distinct names, nothing freed in use, nothing leaked.
TableOwns == TableOK /\ OwnedOnce

\* "The session synchronizes the stream before it frees a buffer or unloads a
\* kernel, before it releases host memory that a queued copy reads": no queued
\* task uses freed memory or an unloaded kernel.
QueueLive ==
    \A k \in DOMAIN stream :
       LET t == stream[k]
       IN /\ device[t.buffer] # Null
          /\ t.op \in {"copy", "fetch"} => host[t.array] # Null
          /\ t.op = "launch" => /\ modules[t.module] # Null
                                /\ \A i \in DOMAIN t.ins : device[t.ins[i]] # Null

\* A queued launch never reads the buffer it writes, whatever was freed and
\* allocated since the names were compared.
NoAlias ==
    \A k \in DOMAIN stream :
       stream[k].op = "launch" =>
          \A i \in DOMAIN stream[k].ins : stream[k].ins[i] # stream[k].buffer

\* Between commands no host array is allocated, so none is lost.
HostFreed == pc = "command" => \A a \in Arrays : host[a] = Null

\* "An error of the launch ends the process at the next synchronization":
\* after a launch failed no file is written, and nothing is freed.
FaultStops == [][fault => file' = file /\ \A p \in Pointers :
                                device[p] # Null => device'[p] # Null]_vars

=============================================================================
