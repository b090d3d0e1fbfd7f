# LeanExe in TLA+

LeanExe compiles programs in a dialect of Lean to WebAssembly, C, machine code
and GPU kernels, and proves in Lean that what it emits computes what the program
says.  Those proofs are about one call of pure code.  This project is about what
lies around the calls: memory that outlives them, devices that run beside them,
the host processes that make them and print their results, a long-lived order
book, a controller that talks over a lossy line to equipment with delays.  It
contains TLA+ modules of those parts, TLC configurations that check them on small
instances, and theorems that TLAPS checks for every value of the constants.

Paths below are relative to `src/`.  Definitions keep the names of the source
where they can; `PROJECT.json` maps each one to its lines.

## 1. The system and its parts

| Part | State | Operations | What is hard about it | What makes it correct |
|---|---|---|---|---|
| CUDA host, `tools/cuda-host.c` | a table of names, device buffers, modules, host words, one stream | `info`, `run`; a session's `load`, `words`, `output`, `kernel`, `run`, `read`, `free`, `quit` | the device runs behind the host; memory is freed and handed out again while tasks that use it are queued; a launch fails long after it was answered | a client sees a table on which each command acts at once; nothing queued uses freed memory; a failed launch ends the process before anything is written or printed |
| Runtime allocator, `LeanExe/Runtime`, `LeanExe/ProofKit/FixedArray*.lean` | the words of memory, a bump pointer, a free list, two counters | `alloc`, `release` | lists threaded through the memory they manage; split and merge at boundaries; release of a tree without a stack | blocks tile the heap without overlap; nothing leaks; every call ends |
| Tree memory of compiled code, `Verified/Compile.lean`, `Verified/TreeCopyCode.lean` and neighbours | the variables that own objects | build, match, reuse, copy, release of records; arrays | a copy keeps its stack in the headers of half-made records, and allocates meanwhile | each variable's value changes only by its own operations |
| Energy controller gateway, `Demos/Energy/Gateway.lean`, `Fields.lean` | the recorded state in force, its expiry, the window, the largest clock | one tick a record | commands take effect late, are lost, expire on two clocks; readings are old; records are lost or wrongly dated | the equipment applies only states the last authorization reckoned with; energy and grid power stay within limits |
| Record framing, `LeanExe/Requests/Records.lean` | phase, byte and word counts, the record machine | one UART access a window | a lost byte shifts all that follows; the transmitter has no room | the bytes written encode the outputs for the records read |
| Order book, `Demos/OrderBook` | slots, chains of slots for each price level, a next id | limit, market, cancel, reduce, the query of the top | the chains' links and tails; slots used again; matching that stops half way; a full book; loops on fuel | every command gives the book and the events of two lists in price-time order; no slot is lost |
| Wasmtime host, `tools/wasmtime-host.c` | options, one instance, the arguments placed in its memory, its outcome record, the control output | calls, timed calls, scripts, sessions, WASI runs | three ways for each call to fail, at every place; memory that grows while arguments are built; results read from memory a module wrote; a client that waits for a buffered answer | one record and one status for each way to end; arguments reach the call whole; a result prints whole lines; a session answers |
| Native host, `tools/native-host.c`, `tools/native-bench.c` | the arguments and results of one call | the call and its timing | it repeats the Wasmtime host's code for objects by hand | the same call gives the same lines and status as the Wasmtime host |
| WebGPU host, `tools/webgpu-host.c` | as the CUDA host, with reference-counted handles and the flags its callbacks set | the same, after an adapter and a device have been asked for | one flag for two callbacks; the map that `read` waits for; a device that is lost; replaced buffers that submitted work still uses | as the CUDA host, and one owner for each reference |
| WASI actions, `LeanExe/Wasi` | the bytes of a process's streams | read, write, exit | short transfers, failure after a partial transfer | what was committed is what the trace says |
| Bare-metal startup and reports, `tools/baremetal` | none between calls | single calls | little | left to tests |
| Compiler, encoder, back ends, kernels, libraries, other demonstrations | none | functions | their inputs are programs of any size | proved in Lean; not modelled |

The parts meet as follows.  Compiled code calls `alloc` and `release` and runs
the tree code between the calls.  A host (`wasmtime-host.c`, `native-host.c`)
shares that memory: it allocates arguments, reads results and releases objects
through the same exports; a corpus of calls is run through both hosts and must
agree.  The CUDA and WebGPU hosts launch kernels that the
compiler emitted.  The energy gateway is a compiled step function that the
framing runs once for each record it has received over a UART; what the gateway
answers drives an inverter.

## 2. Plan

The order goes from the shared machinery to the applications.

1. *Done.* `CudaSession`, the abstract `NamedStore`, `CudaRefinement`,
   `CudaSession_proofs`.
2. *Done.* `BlockList` (abstract allocator) and `BlockList_proofs`;
   `RuntimeHeap` (memory), `RuntimeRow` (its blocks) and `RuntimeHeap_proofs`,
   `TreeStore` (abstract values), `RuntimeRefinement`;
   `SecondRelease`.
3. *Done.* `EnergyGateway` and the composition `EnergySite`.
4. *Done.* `HostObjects` (a module's memory as a host sees it), `WasmtimeHost`,
   `WasmtimeScript`, and `NativeHost`, the second host of the same call;
   `WasmtimeHost_proofs`.
5. *Done.* `CudaHost`, the process around the session; `WebGpuHost`, with a
   second implementation of `NamedStore`; `GpuHosts`, the two in one run;
   `WebGpuHost_proofs`, `GpuHosts_proofs`.
6. *Done.* `PriceTime` (the book of two lists), `OrderBook` (the arrays that
   implement it), `OrderBookRefinement` (the map between them) and
   `OrderBook_proofs`.
7. `RecordExchange` (records in, records out) and `RecordFraming`, the four
   phases of `frameTick` against a UART that holds one byte.  Refinement of the
   first by the second where no byte is lost; a count of whole records where one
   is.  Words of two bytes, records of two words.
8. `WasiActions`: transfers that stop short, fail or trap after a part.

Theorems proved: the rows of blocks, and that the memory of `RuntimeHeap`
implements them (section 4); the CUDA session, the WebGPU host, and that both
implement `NamedStore` (section 3); the rules of the energy gateway and the
bounds of its windows (section 5); how the Wasmtime host ends, what it prints and
what a script calls (section 6); the chains of the order book, and that it
implements the book of lists (section 7).  Still to prove: that programs' values
are kept (`ImplementsStore` of `RuntimeRefinement`); that arguments are read back
as they were written (`ArgsIntact`).
Still to model: items 7 and 8.

## 3. The GPU hosts

`CudaSession` has one action for each command of `session` in
`tools/cuda-host.c`.  A command that calls `synchronize` is two steps: it sets
`pc` to what it waits for, and goes on (`Continue`) when the stream is empty or
the launch error is returned.  `entries` is `entries_[0 .. entryCount_ - 1]`,
and `RemoveEntry` moves the last entry over the freed one as `free` does.
`stream` holds queued tasks, and the device, which is not code of the
repository, takes them in order (`DeviceStep`) or fails a launch
(`LaunchFault`), after which it takes no more.  `Pointers`, `Handles` and
`Arrays` are identities that the driver and `malloc` give out again, so a name
can lose a buffer and another name gain the same address while tasks are queued.
`output` queues a fill of all words and one task for the length's two halves.
`Die` ends the process at any error message.

`CudaHost` is the process around the session.  `place` is where `main` is:
`open_device`, `info`, and the steps of `run` from reading its image
(`LoadImage`) over one `UploadInput` for each input, the launch and the copy
back to `PrintOutput` and `FreeAll`.  Command lines are records: an output and
inputs given as a size, as words of 32 or 64 bits, or as a file, which
`parse_buffer` turns into words, refuses, or pads to one word when there are
none.  A 64-bit word is two halves below `Half`, and `run` prints halves.

`NamedStore` is what the header comment of the file promises: commands that act
at once.  `CudaRefinement` maps each name to what its buffer will hold when every
queued task has run.

*Run `cuda_session`.*  Three names, two device buffers, one module, one host
array, a queue of two tasks, kernels with one input.  Three names are an output,
an input and a kernel at once, two buffers make reuse of an address happen, and
a queue of two holds a task and one that overtakes it if the order is wrong.
Names, pointers and handles are symmetric.  Checked: types;
`TableOwns`, the table stays a table and owns each buffer once, through
replacement and compaction; `QueueLive` and `NoAlias`, about tasks that have not
run yet; `HostFreed`; `FaultStops`; `ImplementsStore`.

*Proved* (`CudaSession_proofs`).  For all names, pointers, contents, table sizes
and queue bounds that satisfy `SessionAssumption`: `TypeCorrect`, `QueueSafety`,
`TableSafety` (`TableOwns`), `LaunchSafety`, `FaultSafety`.  The inductive invariant is
`SessionInv`: the five properties together and `CommandOK`, which ties the
waiting command to what it waits for (the entry it replaces, the array a queued
copy still reads).  `QueueLive` alone is not inductive: a step that frees needs
that the stream is empty, and one that launches needs that the entries it looks
up hold live buffers.  The lemmas follow the code: what `new_entry` keeps
(`PutTable`), what `release` frees (`FreedTyped`, `QueueKept`), what a queued
task needs (`Queued`), then one lemma an action.  `ArraysFreed` is `HostFreed`:
an array is live only between the step that takes it and the one that frees it,
so the invariant (`HostHeld`) names the commands that hold one.

*Proved* (`CudaSession_proofs`).  `Implementation`, the session implements
`NamedStore`: `Init` maps to its `Init`, and every step to a step of it or to a
stutter.  `Settled`, what memory will hold when the queue has run, is a recursive
function over the queue, and the proof goes along it by induction (`Along`, from
the well-foundedness of `<` on the naturals): a task put at the end acts on the
settled memory (`MemoryPut`), the device's step does not change it
(`SettledNext`), and memory that no queued task uses and no name has does not
matter (`MemoryAgree`), which is why a released address may come back at once.
The invariant is `RefinementInv`, checked by TLC before it was proved: a buffer
will hold as many words as its entry states (`Sized`), a task that uses a host
array is queued only while its command waits for it (`Queues`), and that array
holds the words to be stored, or the buffer that is read once the last task has
run (`Storing`, `Reading`).  Without `Reading` the step that writes a file could
not be mapped, since the copy it waits for was queued several steps earlier.
`SessionInv` gives the rest.  `RefinementAssumption` adds to `SessionAssumption`
that a kernel's output keeps its size, as a buffer of the device does.

`WebGpuHost` is `tools/webgpu-host.c`.  `RequestAdapter` and `RequestDevice`
ask, `Callback` and `CallbackFails` answer and set the one flag `done`, and
`Opened` goes on.  In a session nothing waits for the queue but `read`, which
submits a copy, asks for a map (place `map`) and writes its file when the
callback comes (`WriteFile`).  The host's references are `held` and `pipelines`;
a queued task keeps the buffers it uses, so `Kept` drops the contents of a
buffer only when neither refers to it, and its handle comes back for another.
`DeviceLost` may happen at any time and stops the queue; the map then fails,
which ends the process.  The queue and the library are external.

*Run `gpu_hosts`.*  `GpuHosts` is either process from its command line to its
end.  Seventeen command lines for the CUDA host and twelve for the WebGPU host
give outputs by a size (even, odd and zero) and by their words, no input, one,
an empty one, malformed ones, more than there is room for, and an empty grid;
words are below 4, two halves below 2.  The sessions have two names, two CUDA
buffers, three WebGPU buffers (two in the table and one that is replaced or read
back) and queues of two tasks.  Checked: `RunsPrint`, what `run` prints in either
host; `WebOneOwner`, one reference for each handle of the table;
`WebImplementsStore`, the refinement of `NamedStore`; `WorksEnd`, that a process
or a session's command ends.  Fairness: the host goes on with what it has begun
(`ProceedStep`, `Continue`, `Proceed`: one thread that is not blocked runs), the
device goes on with its queue (`DeviceStep`), and each request is answered,
perhaps with a failure (`Events`).  No fairness of the client is assumed, and
none of a failing launch or a lost device.

*Proved* (`GpuHosts_proofs`).  `CudaRuns`: what `run` of the CUDA host prints, and
that it has given everything back when it ends with success.  Nothing recursive
is needed here, since `run` queues a fixed row of tasks (`Tasks`): the stream is
what is left of the row (`Stream`), so that the number of tasks taken (`Taken`)
says what each array and buffer holds (`Holding`).  `Allocated` says that no
address serves two purposes, which the allocator's free choice of addresses would
allow if a buffer were lost.  `RequestsAssumption` says that no array is empty and
that what a kernel computes from contents is contents.

*Proved* (`WebGpuHost_proofs`, `GpuHosts_proofs`).  Of the composition with every
set of names, buffers, pipelines, images, contents and command lines that
satisfies `HostAssumption`: `WebOwnership` (`WebOneOwner`), `WebImplementation`
(`WebImplementsStore`), and with `CudaRuns` `BothRun` (`RunsPrint`).
`HostAssumption` says that what clients send, what new buffers hold and what
shaders compute are contents, and that no buffer is empty.  The invariant is
`WorkInv`:

- `Waits`: one flag serves three callbacks, so each place says which request is
  out, whether the flag can be set, and what the callback has brought.  Without
  it nothing rules out that a device is used because the adapter arrived.
- `Unused`: before its work begins the process has no entry, reference or task.
- `TableOK`, of which `Owned` is the table: each reference is in one entry, except
  the one that `read` holds while it waits.  `WebOneOwner` is its consequence for
  the places between commands.
- `Live`: what the host holds or a queued task uses has contents.  A released
  buffer lives on in the queue and its handle must not come back before, which is
  what `run` and `free` of a table with queued dispatches depend on.
- `Printing` and `Reading`: while the host waits for a map, the buffer it reads
  *will* hold what it is to print or store.  The copy was queued steps earlier, and
  clients and the device go on meanwhile.

What memory will hold, `Settled`, is again a recursive function over the queue,
and `Along` gives the induction.  The WebGPU proof needs one thing more than that
of CUDA: `Kept` wipes buffers behind the queue's back, so `MemoryAgrees` and
`MemoryUntouched` show that the settled memory of what is held or queued does not
depend on the rest.  `StepWork` is the step of the invariant and of the
refinement together, one lemma for each action.  `GpuHosts_proofs` instantiates
these lemmas, shows that its copy of the host and theirs have the same
definitions, and draws the theorems of `BothSpec`.

## 4. Allocator and tree memory

Addresses are in 8-byte words.  `RuntimeHeap` models each pass of each loop:
`SearchOn` is the pass of the first-fit search, `TakeWhole` and `TakeUpper`
unlink or split, `Bump` grows the heap, `NoMemory` traps; `TakePending`,
`DropSlot`, `FreeObject`, `FindPlace` and `Insert` are `release`, with its list
of pending objects linked through their count words; `CopyRoot` to `Copied` are
the copy, which keeps parent, source and next slot in the header of the record
being made.  Programs choose freely among building, matching, reusing, copying
and releasing what they own.  `blocks` is a history variable: the objects
allocated and not yet freed.

Two abstract specifications are implemented.  `BlockList` says what the
allocator does with blocks (lowest block that fits, upper part of a split, merge
with both neighbours).  `TreeStore` says what variables hold: whole values that
nothing else changes.  `RuntimeRow` reads the free list and the blocks back from
the words of memory, with the children that records lead to, and
`RuntimeRefinement` the values.

*Run `block_list`.*  The row of blocks itself with sizes 1, 2 and 4 in a memory
of forty words: `BlocksIn`, `Separate`, `Tiled`, `Merged`.

*Run `runtime_heap`.*  Arrays and records with one child slot in two pages of
thirteen words.  The heap crosses a page boundary, so an allocation grows
memory or fails; blocks of two sizes make splits leave a block, leave too little
and fit exactly.  `Counts` is 4, so the counters wrap.  The word programs store
is the address of the first object, so a slot that is not a child and is
followed all the same shows.  Three records are all that fits: the copy of a
record without a child comes to its end, that of a record with one ends in
`NoMemory`.  Checked: `MemoryOK` (the types, and that whatever a step reads or
writes lies in the heap), `ListInOrder`, `OneOwner` (every live object is a
variable's or the child of one slot, and no set of children is held only from
within it, so each is reached from a variable), `Counted`, `OnlyMemoryTraps` and
both refinements.

*Run `runtime_trees`.*  Records with two child slots in one page of 49 words, six
records: room for a root with two children and its whole copy, or for a chain of
three and its copy.  So a copy descends, ascends, goes on with the sibling and
comes to its end, also two levels down, and a release has two objects on its
pending list.  All programs that fit in this memory are too many for TLC, so
`MCRuntimeTrees` bounds what the program asks for: it builds,
matches and reuses records, in new and in freed memory, while its heap has never
held more than three (`Small`), and copies and releases what it owns at any time.
A copy may find too little memory half way, and trap.  Checked: `OneOwner`,
`ImplementsStore`, and `CallsEnd`, that every call comes to its end, under
`Fairness`, `WF(Continue)`: a call that has begun runs on.  The program itself may
stop at any time.  Trees of four records, and children matched out of a tree in a
larger heap, are beyond the bound; the theorems below have none.

*Run `second_release`.*  A host that keeps a pointer after releasing it.  As
long as no object has covered the old header, a second release traps
(`StaleTraps`), whatever merged into the block.

*Run `second_release_reused`, a finding.*  `docs/verified-manual.md:546` says
that a second release of one pointer traps.  Once the memory has been allocated
again the header is that of the new object, and the second release frees it
under its owner.

*Proved* (`BlockList_proofs`).  `BlocksInside`, `NoOverlap`, `NoLostWord` and
`NoFreeNeighbours` for every header size, base, memory size and set of request
sizes.  The invariant is the conjunction of the four: a merge needs `Tiled` and
`Separate` to know that the block above is the neighbour, and `Merged` needs all
of them to know that one merge on each side is enough.

*Proved* (`RuntimeHeap_proofs`).  For every base, page size, number of pages,
width and mask of a record, set of words and of array lengths, and number of
values of a counter that satisfy `HeapAssumption`: `WritesLieInside` (`MemoryOK`),
`RowImplemented` (`ImplementsRow`), `ListAlwaysInOrder` (`ListInOrder`),
`NothingLeaks` (`OneOwner`), `NoOtherTrap` (`OnlyMemoryTraps`),
`CountersCount` (`Counted`) and `WorkListsEnd` (`WorkEnds`).  None of these
holds by the part of the state it speaks of: the list is threaded through the
mask words of free blocks, the pending list of `release` and the parents of a
copy through the counts of live ones, and a wrong child pointer, or two
references to one object, would write into any of them.  The invariant is
`HeapInv`, checked by TLC on both instances before it was proved:

- `ListOK`: from `head` on, the link of each free block leads to the least free
  block above it (`Follows`), where a search or a `findPlace` has got to on the
  way, and that no block it has passed fits.
- `RowInv`: the four properties of `BlockList_proofs`, from which `RowGeometry`
  draws that two objects have no word in common, and so that a write within one
  leaves every other as it was (`Untouched`, `Distinct`).
- `FreshOK`: what `alloc` has returned has the header and the room that the code
  which asked for it goes on to rely on.
- `Ownership`: every object is in one of four places: kept by the program or by a
  tree (`kept`), in the work of a release or a copy (`work`), just allocated
  (`Fresh`), or taken from the pending list (`Falling`).  Each child has one
  holder (`ChildrenOK`), where a record that is half released holds the slots
  not yet passed and one that is half copied those it has reached.  So `release`
  finds every child it drops live, with one reference and not yet pending.
  `kept` and `work` are quantified, not computed: nothing recursive is needed to
  say which objects a tree has.  `NoneLost` says that there is no fifth place, so
  that what `release` and the copy give back is all of it.  The work list is
  reached from its head along the links (`Reached`), or a release that finds the
  list empty would leave some of it behind.  Every set of tree objects has a
  holder outside it (`Grounded`): a new record, a child that is dropped and one
  that a copy ascends from keep it so, because each moves between `kept` and
  `work` together with the slot that holds it.

A write outside the domain of `mem` would change nothing in the model, so that a
bound on the types of its words says nothing of where the code writes.  `WritesInside`
says it of the pointers: those the next step follows (`AtHand`) are null or blocks,
blocks lie between `Base` and `top`, and a slot that is read or filled is within
the capacity.  `ListOK` gives it for the free list, `Ownership` for the rest
(`HandsIn`, `CopyAtHand`, `SlotFits`), and `FreshOK` for what is put into a new
object (`ArgsFit`).

`WorkEnds` is the part of `CallsEnd` that is a safety property, here for trees of
every size: the pending list of `release` and the parents of a copy have no cycle.
The links lead to distinct objects and none to the first (`Linked`), so that on a
finite set they cannot lead back (`NotClosed`, by the pigeonhole principle).  That
the free list ends is `ListAlwaysInOrder`.  TLC found no state of either instance
where `WorkEnds` fails; it is no property of a run, because the runs check `CallsEnd`.

There is one lemma for each action, for its words of memory, its list and its
row (as `WholeWords`, `WholeList`, `WholeRow`, `WholeInv`).  A step that writes only
within live objects leaves list and row (`QuietKeeps`).  `Chain` is a recursive
function, and that it satisfies its equation is shown by the least number for
which it would not (`Least`, `WalkExists`).  The refinement uses the lemmas of
`BlockList_proofs` through an instance, and `SameRow` says that its row is the
one of `ImplementsRow`.  The counters wrap, so that `Counted` is carried as a
whole number of turns (`CountInv`).

The proof found one mistake in the model: `Slots` was a `CASE` whose guards
overlapped, which TLC reads in order and the logic does not, so that the slots
of a record without children were not determined.  It, and the functions of
section 6 written that way, are now nested conditionals.

`ImplementsStore` remains model-checked: it speaks of the values of whole trees,
which are recursive operators.

Not modelled: the release of a null pointer, which returns at once; sizes near
2^32 bytes, which compiled code refuses before it calls `alloc`; tags, array
slots and buffer slots of a record.

## 5. Energy controller

`EnergyGateway` is one tick.  `TickStart` is the state after the clock and
expiry rules, `MustFallBack`, `TakesSnapshot` and `Accepts` the conditions of
`gatewayWith` and `authorizeFlat`, and the four actions its four ends.  Powers
are signed numbers; the code's words are the same numbers plus an offset.  The
sums of the code stay far below 2^64 for clocks, energies and powers in the
ranges it tests, so words do not wrap.  A rejection keeps no reason.

`EnergySite` puts a tick between what the code's plan
(`energy-controller-plan.md`) assumes of the site: records once a second at
most, read-backs and measurements that may be old, clocks that may be wrong,
messages that are applied within `Tau` or lost, an inverter that ends a command
by itself when its revert timeout has passed since it applied it, battery power
that moves anywhere between where it is, zero and the interval of the applied
state, and any efficiency and loss within the profile.  These parts are external:
`tests/baremetal/uart_gateway.py` plays them in the tests, without delay, loss
or age.  `snapshot` and `kept` are history: the last accepted snapshot and
whether its assumptions have held since.

*Run `energy_states`.*  Two regimes.  In the first, commands and one record may
be lost and clocks may be wrong, while readings are fresh: the read-back
protects.  In the second, readings may be up to `Tau` old, and nothing is lost:
only the age of the last change protects.  `Tau` is 2 and `Window` 6, so that a
lost command and an older one that still runs coexist.  Checked:
`AppliesKnownState` (the premise `OperatesIn.states` of the Lean theorems, which
they take from the equipment and the rules), `CommandEndsInWindow`, and
`SnapshotAfterChange`, rule 1 of the plan.  A run lasts 8 or 7 seconds, long
enough for three windows to begin and the first to reach its end; it stops there, so
deadlock is not checked.

*Run `energy_bounds`.*  `WithinOrFallback`, the promise of the authorizer, with
load, PV, battery power, efficiency and loss moving every second, over
consecutive overlapping windows: the arithmetic of drain and gain, the interval
`B`, and the rules of the gateway together.  The start
energies make the floor test and the ceiling test hold with equality, or fail
by one proposal.  Nothing is lost here, since
the promise is conditional on the states of the previous run.

*Run `energy_rule1`, a finding.*  A record with a wrong clock makes the gateway
request fallback, dated at the largest clock seen, which may be a second or more
before the request is sent.  With a reading from before the last command, the
next proposal becomes a snapshot while that request is still under way, against
rule 1 of the plan ("at least τ seconds after" the last change).  When readings
are fresh the read-back prevents it, as `energy_states` shows.

The fallback interval contains zero and efficiency is at most one, as
`ProfileValid` requires.  Rates and bounds are whole numbers in the units of the
code.

*Proved* (`EnergySite_proofs`).  For every profile, `Tau`,
window and set of regimes that satisfy the assumptions of the modules, whatever
their length in seconds:

- `TypeCorrect` and `CommandsEnd` (`CommandEndsInWindow`), by `SiteInv`.  That a
  command ends in its window is not inductive by itself: it needs that a message
  under way is younger than `Tau` and that no command was sent after the last
  change of the record (`UnderWay`), that the gateway's clock is not ahead of time
  (`Dated`), and that the inverter ends a command by its own timeout
  (`Reverting`).
- `KnownStates` (`AppliesKnownState`), by `StatesInv`: what is under way is no
  later than the gateway's last request (`Requests`), the newest message is that
  request where nothing is lost (`Following`), and from a snapshot on every
  command under way asks for the snapshot's own (`Reckoned`).  The hypothesis
  `FreshOrDelivered` says that where readings may be old, no message is lost and
  clocks are right.  It is what the plan's assumption A7 gives, and it is sharp:
  with old readings and lost messages, and readings older than `Tau`, TLC finds a
  run in which the inverter applies a state that no snapshot reckoned with.
- `NoChangeUnderWay` (`SnapshotAfterChange`), where readings are fresh or clocks
  right; the run `energy_rule1` is the case with neither.
- `WithinBounds` (`WithinOrFallback`), under `FreshOrDelivered` as well, by
  `WindowInv`: since the accepted snapshot
  stored energy has moved by no more than the time that has passed times the
  window's extreme powers, losses and efficiency included (`Trajectory`), and the
  authorizer's tests imply the floor and the ceiling at the end of the window and
  so at every second before it (`Authorized`).  The steps are inequalities between
  products; the lemmas divide them into ones with one product each.

## 6. The hosts of compiled modules

`HostObjects` holds the functions that build arguments in a module's memory and
read results back: lists (`chain-u64`), trees, records, arrays, files and byte
strings, each with the object header of the runtime.  Addresses and sizes are in
words; a text is its sequence of tokens, among them the leaf of a tree, a text
that is no number, and an empty text.  They are functions of a machine: the
memory, its size, the values placed so far, and whether the host still runs, so
that a refusal in the middle of an argument leaves what the code leaves.  Object
sizes that wrap at 2^64 bytes wrap at `Wrap` words.

`WasmtimeHost` is the process: options, engine, module, store and instance, the
export's type, the arguments, the call or the timed calls, the results, and
`finish_host`.  A call returns, traps, ends the process through WASI or fails,
and leaves in memory any of the effects of `Touch`, which includes growing it.
`held` and `alive` are the handles of `Runtime` and the objects behind them.
`WasmtimeScript` adds the commands of a client, one action each, and what of the
output has been flushed.  `NativeHost` makes the same call after the first host
has made it.  It differs where its code does: it refuses empty numbers, counts
values and does not look at their types, ends with status 2 when `alloc` or
`reset` traps, keeps two of its values free, and prints the items of a result
while it reads them, so that a malformed result may leave a cut line that the
first host does not begin.

*Run `hosts`.*  50 command lines: every kind of object given and returned, eleven
texts and modules that must be refused, several arguments and results at once,
more than fit, timed calls, WASI with and without its options, and clients of scripts and
sessions that send up to four commands of twenty-three.  The memory has ten words at
first and 26 at most, so that an argument grows it and a large one does not fit;
records have at most eight slots, calls four values, and an `f32` is below 9.  A
module may put 0, 1, 2,
7 or the largest word anywhere in the heap, so that results with a
wrong header, a cycle, a link out of memory or a size that wraps all occur.
Checked: `OutcomeRecorded`, `DisposedOnce`, `WholeLines`, `ArgsIntact`,
`CallsAsSent`, `SameCall` (the two hosts agree on the corpus), and
`SessionAnswers`.  Both hosts read results by the operators of `HostObjects`, because
the two C files have the same walks with the same bounds, which was compared by hand.
So `SameCall` is about what each host does around a walk: the order of its checks,
what it places, saves and prints, and its statuses.  A bound changed in one of the
C files would not show in it.  Fairness: the process starts and carries out a command that it
has read.  The client need not go on, and at rest the model stutters (`Rest`).

*Proved* (`WasmtimeHost_proofs`).  Of `ProcessSpec`, the process with its client,
for every set of command lines and commands, whatever a call leaves in memory
(`Touch`) and returns (`Returned`): `OneOutcome` (`OutcomeRecorded`),
`NothingLeaks` (`DisposedOnce`), `ResultsWhole` (`WholeLines`) and `CallsCounted`
(`CallsAsSent`).  `HostAssumption` says that a command line describes its result
by a form and kinds; `Left` and `Given` keep of `Touch` and `Returned` what
Wasmtime guarantees: memory is words, and values come in the number that the
export's type says.  The inductive invariant `Inv` has, beside the three first
properties:

- `StepOK`: what the last outcome can be at each place of the process.  A trap is
  recorded in the step after it, so that a process between the two must still know
  which kind it was, and the values that are printed must be those of the call.
- `Calm`: before the end nothing is recorded and every line is whole.  It is what
  makes one record the only one.
- `Counted`: a call prints its results at once, after nothing else.
- `Served`: a script's arguments are those it was sent since its last call, where
  a command that has been sent and not read yet counts.

Every end is of one form: `Ends` says that `Finish` was given lines, a status and
a flag that belong together (`EndsWell`), and `EndsWithLines` that each such end
leaves the right record.  `FailureEnds` shows it of every way a call fails.  Every
other step of the host `Goes` on.  What is printed needs no invariant but the types
of the values: a result is printed after it was walked (`CheckedWell`), or its
range was tested.  `ArrayWell` is the case of a size that wraps: times eight and
plus eight it may pass the range test only if it is refused before.  A command of a
script keeps the arguments that others gave (`RanServes`).

`ArgsIntact` and `SameCall` stay with TLC: they are about what the recursive
functions of `HostObjects` compute on every list, tree and record.

Three things were seen that no run is kept for.  A `slots:N` result with a value
that is not an `i64` leaves the first values of its line before the error.  The
native host prints part of a malformed result, though `native-host.c:1` says that
it prints the same lines; `SameCall` states what does agree.  A session's line is
cut after 64 words in both GPU hosts, so that a `run` with more inputs drops the
last ones and answers `ok`.

Not modelled: the six commands of `wasmtime-host.c` that test an allocator
(`release-reuse` to `allocator-grows`), which drive the exports of section 4 with
fixed sequences; times, which only `bench` prints; `tools/leanrun-macos.c`,
process limits around a compiler run; the test vectors of
`data/hashing/siphash/vectors.h`, which are data; `tools/baremetal/libc`, string
and memory functions, and `report.c`.

## 7. The order book

`OrderBook` is `Demos/OrderBook/Program.lean`: five arrays of slots, two arrays
of levels, and one action for a record of a stream.  `repeatWhile` runs on the
fuel the code gives it, so that a loop that needs one round more than it has
stops where it is, as in the code.  `submit` is the whole of an accepted order:
the event, the matching, and the four ends of a remainder.  Books are not
reduced to what is reachable from the levels: a slot that was freed keeps its
account, quantity and link until it is used again.  `PriceTime` is the
specification of the repository, `Spec.lean`, two lists and a function of a
record.  The map, `OrderBookRefinement`, is that of `Abstract.lean`, which walks
the chains.

The repository proves in Lean that the first refines the second for its own
sizes.  The model adds the view of a long sequence of commands at the limits:
every reachable book of a small instance, with every command from each.

*Run `order_book`.*  Three slots, two prices, quantities to 4, two accounts and
four accepted orders.  Three slots give chains with a middle and a full book, and
four orders a sweep of a full book and a slot used again; quantity 4 is more than
a full book of the smallest orders holds.  With these sizes a shorter fuel shows:
one round fewer in the scans of slots, chains and prices, and three fewer in
matching, which has two to spare in the code and in the instance.  `View` leaves the last record and
its events out of the state, since no step reads them; the refinement is checked
on every step all the same.  Checked: `ImplementsLists`, every command gives the
book and the events of the lists; `ChainsHoldSlots`, the invariant of
`Invariant.lean` on chains, tails, slots in use and the count.  The events at the
code's own sizes, and the limit of 2^64 ids, are outside the instance.

*Proved* (`OrderBook_proofs`).  `ChainSafety`, that is `ChainsHoldSlots`, for every
number of slots and prices, every quantity, and every set of records of natural
numbers (`BookAssumption`), and `ListsImplemented`, that is `ImplementsLists`, for
those of at most seven words (`RecordAssumption`: `records` of `Spec.lean` cuts a
stream so).  The invariant `BookInv` says that there are chains,
one for each level, which `ChainsOK` links to the arrays: each slot in use is on the
one of its level, once, behind the slot whose link it is, and the ends are those of
the level.  The chains are quantified, so that what `place` and `unlink` do is said
of sequences (`PlaceChain`, `UnlinkChain`), and `LevelSlots` shows at the end that
reading the arrays with fuel gives these chains.  That needs a bound: a chain has
no more slots than there are (`ShortChain`), which is also why the fuel of
`predecessor` is enough (`PredecessorIs`).  A loop is a function of its rounds
(`LoopExists`), and what it returns is shown along them (`Along`).  An order that
rests needs a free slot: the count is the number of slots in use, so that the test
of the capacity finds one (`FreeSlot`, `SubmitKeeps`).  Ids are never 0, the mark of a free slot.

For the refinement the invariant also has `Ids`: ids grow along each chain and are
less than the next one, so that the chains are in the order of acceptance, and no
order rests at price 0.  `ListOf` says that a sequence lists a set of orders, best
price first and then by id; such a list is unique (`OneList`).  `SideOrdersIs` shows
that the chains of a side, read from the best price, are the list of the orders in
its slots, so that a command is compared with the lists through what it does to that
set: an order leaves it (`CancelAgrees`), changes its quantity in place
(`ReduceAgrees`) or joins it (`PlaceAgrees`).  Matching is compared round by round.
`Follows` says that after k rounds the program is at the last j orders of the other
side, with what `fill` gives for those still to come, or both have stopped; a round
moves a price on, stops, or trades with the first order (`RoundFollows`).  In
`Follows` the rounds done are the prices passed and the orders taken away, which
are together less than the fuel, so that matching never stops for want of it
(`StopsDone`, `FillAgrees`).  The searches of the best price and of an order, and
the quantity at the best price, have the values of the lists (`BestPriceIs`,
`FoundIs`, `BestQtyIs`).  `StepAgrees` and `TopAgrees` have one case for each command and
for the query.

## 8. What stays outside proofs

Liveness under fairness, the refinement of `TreeStore` by `RuntimeHeap`, and of
the hosts of compiled modules `ArgsIntact` and `SameCall` are model-checked on the
instances above.  The mapping to `TreeStore` walks trees by recursive operators.
In the hosts the tree and the records of an argument are built by nested recursion:
the machine that the right subtree starts from is a result of the same function, so
that even its being defined needs an induction over what it computes.  A recursive function over a queue or a list can be reasoned about,
by the well-foundedness of `<`, as `CudaSession_proofs`, `WebGpuHost_proofs`,
`OrderBook_proofs` and `RuntimeHeap_proofs` do.  Each property has a mutation of the
model, written next to the definition it changes, that a plausible bug would make
and that breaks the property; the mutations are listed in `PROJECT.json`.

## 9. Running

`tlc -workers 2 -config EnergyStates.cfg MCEnergySite.tla` and so on; `runs` in
`PROJECT.json` gives the module of each configuration.  `tlapm` checks the
proofs of `CudaSession_proofs`, `WebGpuHost_proofs`, `GpuHosts_proofs`,
`BlockList_proofs`, `RuntimeHeap_proofs`, `EnergySite_proofs`,
`WasmtimeHost_proofs` and `OrderBook_proofs`.
Modules whose name begins with `MC` hold the constants of the instances.
