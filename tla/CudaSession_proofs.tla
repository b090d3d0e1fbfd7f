-------------------------- MODULE CudaSession_proofs --------------------------
(***************************************************************************)
(* The CUDA session is safe, and implements the store of NamedStore, for   *)
(* every table size, queue length and set of names, pointers and handles:  *)
(* a client cannot tell the queue from commands that take effect at once.  *)
(***************************************************************************)
EXTENDS CudaRefinement, SequenceTheorems, WellFoundedInduction, TLAPS

\* Where the host waits, its command is of the kind that waits there.
CommandOK ==
    /\ pc = "release" => /\ cmd.op \in {"store", "output", "kernel", "free"}
                         /\ Known(cmd.name)
    /\ pc = "stored" => cmd.op = "store"
    /\ pc = "reading" => cmd.op = "read"
    /\ pc \in {"release", "stored"} /\ cmd.op = "store" => host[cmd.array] # Null
    /\ pc = "reading" => host[cmd.array] # Null

\* The inductive invariant.
SessionInv ==
    /\ TypeOK
    /\ TableOK
    /\ OwnedOnce
    /\ QueueLive
    /\ NoAlias
    /\ CommandOK

-----------------------------------------------------------------------------
(* The table. *)

\* find_entry finds the entry of a name that is in the table.
LEMMA FindEntry ==
    ASSUME TypeOK, NEW name
    PROVE  /\ find_entry(name) \in Nat
           /\ Known(name) <=> \E i \in DOMAIN entries : entries[i].name = name
           /\ Known(name) => /\ find_entry(name) \in 1..Len(entries)
                             /\ find_entry(name) \in DOMAIN entries
                             /\ entries[find_entry(name)] \in EntrySet
                             /\ entries[find_entry(name)].name = name
<1> entries \in Seq(EntrySet) /\ DOMAIN entries = 1..Len(entries) /\ Len(entries) \in Nat
  BY DEF TypeOK
<1>1. CASE \E i \in DOMAIN entries : entries[i].name = name
  <2> find_entry(name) \in DOMAIN entries /\ entries[find_entry(name)].name = name
    BY <1>1, Zenon DEF find_entry
  <2> QED BY <1>1 DEF Known
<1>2. CASE ~(\E i \in DOMAIN entries : entries[i].name = name)
  BY <1>2, Zenon DEF find_entry, Known
<1> QED BY <1>1, <1>2

\* What a name holds is in its entry, and nothing else is.
LEMMA HeldByName ==
    ASSUME TypeOK, NEW name
    PROVE  /\ BufferOf(name) \in Pointers \cup {Null}
           /\ ModuleOf(name) \in Handles \cup {Null}
           /\ ~Known(name) => BufferOf(name) = Null /\ ModuleOf(name) = Null
           /\ Known(name) => /\ BufferOf(name) = entries[find_entry(name)].buffer
                             /\ ModuleOf(name) = entries[find_entry(name)].module
BY FindEntry DEF BufferOf, ModuleOf, EntrySet

\* The buffer that a name has is live.
LEMMA BufferLive ==
    ASSUME TypeOK, TableOK, NEW name, BufferOf(name) # Null
    PROVE  BufferOf(name) \in Pointers /\ device[BufferOf(name)] # Null
BY FindEntry, HeldByName DEF TableOK

\* The module that a name has is loaded.
LEMMA ModuleLive ==
    ASSUME TypeOK, TableOK, NEW name, ModuleOf(name) # Null
    PROVE  ModuleOf(name) \in Handles /\ modules[ModuleOf(name)] # Null
BY FindEntry, HeldByName DEF TableOK

\* A pointer or a handle that is free once the name's own is freed is in no
\* entry of another name.
LEMMA Fresh ==
    ASSUME TypeOK, TableOK, OwnedOnce, NEW name,
           NEW i \in DOMAIN entries, i # find_entry(name)
    PROVE  /\ entries[i].buffer # Null => Freed(name)[entries[i].buffer] # Null
           /\ entries[i].module # Null => Unloaded(name)[entries[i].module] # Null
<1> entries[i] \in EntrySet
  BY DEF TypeOK
<1> entries[i].buffer \in Pointers \cup {Null} /\ entries[i].module \in Handles \cup {Null}
  BY DEF EntrySet
<1>1. entries[i].buffer # Null => BufferOf(name) # entries[i].buffer
  BY FindEntry, HeldByName DEF OwnedOnce
<1>2. entries[i].module # Null => ModuleOf(name) # entries[i].module
  BY FindEntry, HeldByName DEF OwnedOnce
<1> QED BY <1>1, <1>2 DEF TableOK, Freed, Unloaded

\* An entry is put in the table, and what it replaces is freed.
LEMMA PutTable ==
    ASSUME TypeOK, TableOK, OwnedOnce, SessionAssumption,
           NEW name \in Names,
           NEW p \in Pointers \cup {Null}, NEW size, NEW h \in Handles \cup {Null},
           Entry(name, p, size, h) \in EntrySet,
           Known(name) \/ Len(entries) < MaxEntries,
           p # Null => Freed(name)[p] = Null,
           h # Null => Unloaded(name)[h] = Null,
           entries' = Put(name, p, size, h),
           \A q \in Pointers : device'[q] # Null <=> (q = p \/ Freed(name)[q] # Null),
           \A q \in Handles : modules'[q] # Null <=> (q = h \/ Unloaded(name)[q] # Null)
    PROVE  entries' \in Seq(EntrySet) /\ TableOK' /\ OwnedOnce'
<1> DEFINE new == Entry(name, p, size, h)
           k == find_entry(name)
           at == IF Known(name) THEN k ELSE Len(entries) + 1
<1> entries \in Seq(EntrySet) /\ DOMAIN entries = 1..Len(entries) /\ Len(entries) \in Nat
  BY DEF TypeOK
<1> Null \notin Pointers /\ Null \notin Handles /\ MaxEntries \in Nat
  BY DEF SessionAssumption
<1> new.name = name /\ new.buffer = p /\ new.module = h
  BY DEF Entry
<1> HIDE DEF new
<1>1. /\ entries' \in Seq(EntrySet)
      /\ at \in DOMAIN entries' /\ entries'[at] = new
      /\ DOMAIN entries' = DOMAIN entries \cup {at}
      /\ \A i \in DOMAIN entries' : i # at => i \in DOMAIN entries /\ entries'[i] = entries[i]
      /\ DOMAIN entries' = 1..Len(entries')
      /\ Len(entries') <= MaxEntries
  <2>1. CASE Known(name)
    <3> k \in 1..Len(entries)  BY <2>1, FindEntry
    <3> entries' = [entries EXCEPT ![k] = new]  BY <2>1 DEF Put, new
    <3> Len(entries') = Len(entries) /\ DOMAIN entries' = DOMAIN entries /\ entries' \in Seq(EntrySet)
      BY DEF new
    <3> QED BY <2>1 DEF TableOK
  <2>2. CASE ~Known(name)
    <3> entries' = Append(entries, new)  BY <2>2 DEF Put, new
    <3> entries' \in Seq(EntrySet) /\ Len(entries') = Len(entries) + 1
        /\ DOMAIN entries' = 1..Len(entries')
      BY DEF new
    <3> \A i \in DOMAIN entries : entries'[i] = entries[i]  OBVIOUS
    <3> QED BY <2>2
  <2> QED BY <2>1, <2>2
<1>2. \A i \in DOMAIN entries : i # at => i # find_entry(name)
  BY FindEntry DEF Known
<1>3. \A i \in DOMAIN entries' : i # at =>
         /\ entries[i].name # name
         /\ entries[i].buffer # Null => Freed(name)[entries[i].buffer] # Null
         /\ entries[i].module # Null => Unloaded(name)[entries[i].module] # Null
  <2> TAKE i \in DOMAIN entries'
  <2> HAVE i # at
  <2>1. i \in DOMAIN entries /\ i # find_entry(name)
    BY <1>1, <1>2
  <2>2. entries[i].name # name
    BY <2>1, FindEntry DEF TableOK
  <2> QED BY <2>1, <2>2, Fresh
<1>4. \A i \in DOMAIN entries : entries[i].buffer \in Pointers \cup {Null}
                                /\ entries[i].module \in Handles \cup {Null}
  BY DEF EntrySet
<1>5. TableOK'
  <2>1. \A i, j \in DOMAIN entries' : entries'[i].name = entries'[j].name => i = j
    BY <1>1, <1>3 DEF TableOK
  <2>2. ASSUME NEW i \in DOMAIN entries'
        PROVE  /\ entries'[i].buffer # Null => device'[entries'[i].buffer] # Null
               /\ entries'[i].module # Null => modules'[entries'[i].module] # Null
    <3>1. CASE i = at  BY <3>1, <1>1
    <3>2. CASE i # at  BY <3>2, <1>1, <1>3, <1>4
    <3> QED BY <3>1, <3>2
  <2> QED BY <1>1, <2>1, <2>2 DEF TableOK
<1>6. OwnedOnce'
  <2>1. ASSUME NEW q \in Pointers, device'[q] # Null
        PROVE  \E i \in DOMAIN entries' : entries'[i].buffer = q
    <3>1. CASE q = p  BY <3>1, <1>1
    <3>2. CASE q # p
      <4>1. device[q] # Null /\ q # BufferOf(name)
        BY <3>2, <2>1 DEF Freed
      <4>2. PICK i \in DOMAIN entries : entries[i].buffer = q
        BY <4>1 DEF OwnedOnce
      <4>3. i # at
        BY <4>1, <4>2, HeldByName
      <4> QED BY <4>2, <4>3, <1>1
    <3> QED BY <3>1, <3>2
  <2>2. ASSUME NEW q \in Handles, modules'[q] # Null
        PROVE  \E i \in DOMAIN entries' : entries'[i].module = q
    <3>1. CASE q = h  BY <3>1, <1>1
    <3>2. CASE q # h
      <4>1. modules[q] # Null /\ q # ModuleOf(name)
        BY <3>2, <2>2 DEF Unloaded
      <4>2. PICK i \in DOMAIN entries : entries[i].module = q
        BY <4>1 DEF OwnedOnce
      <4>3. i # at
        BY <4>1, <4>2, HeldByName
      <4> QED BY <4>2, <4>3, <1>1
    <3> QED BY <3>1, <3>2
  <2>3. ASSUME NEW i \in DOMAIN entries', NEW j \in DOMAIN entries', i # j
        PROVE  /\ entries'[i].buffer = entries'[j].buffer => entries'[i].buffer = Null
               /\ entries'[i].module = entries'[j].module => entries'[i].module = Null
    <3>1. CASE i = at  BY <3>1, <2>3, <1>1, <1>3
    <3>2. CASE j = at  BY <3>2, <2>3, <1>1, <1>3
    <3>3. CASE i # at /\ j # at  BY <3>3, <2>3, <1>1 DEF OwnedOnce
    <3> QED BY <3>1, <3>2, <3>3
  <2> QED BY <2>1, <2>2, <2>3 DEF OwnedOnce
<1> QED BY <1>1, <1>5, <1>6

-----------------------------------------------------------------------------
(* What the commands queue. *)

\* release frees only what was live.
LEMMA FreedTyped ==
    ASSUME TypeOK, NEW name
    PROVE  /\ Freed(name) \in [Pointers -> Contents \cup {Null}]
           /\ Unloaded(name) \in [Handles -> Images \cup {Null}]
           /\ \A q \in Pointers : Freed(name)[q] # Null => device[q] # Null
           /\ \A q \in Handles : Unloaded(name)[q] # Null => modules[q] # Null
BY DEF TypeOK, Freed, Unloaded

\* A name without an entry frees nothing.
LEMMA NothingFreed ==
    ASSUME TypeOK, SessionAssumption, NEW name, ~Known(name)
    PROVE  Freed(name) = device /\ Unloaded(name) = modules
BY HeldByName DEF Freed, Unloaded, TypeOK, SessionAssumption

\* The queue stays live when memory that is in use stays allocated.
LEMMA QueueKept ==
    ASSUME TypeOK, QueueLive, NEW k \in DOMAIN stream,
           \A q \in Pointers : device[q] # Null => device'[q] # Null,
           \A q \in Handles : modules[q] # Null => modules'[q] # Null,
           \A a \in Arrays : host[a] # Null => host'[a] # Null
    PROVE  LET t == stream[k]
           IN /\ device'[t.buffer] # Null
              /\ t.op \in {"copy", "fetch"} => host'[t.array] # Null
              /\ t.op = "launch" => /\ modules'[t.module] # Null
                                    /\ \A i \in DOMAIN t.ins : device'[t.ins[i]] # Null
<1> DEFINE t == stream[k]
<1>1. t \in TaskSet
  BY DEF TypeOK
<1>2. /\ t.buffer \in Pointers
      /\ t.op \in {"copy", "fetch"} => t.array \in Arrays
      /\ t.op = "launch" => t.module \in Handles
      /\ t.op = "launch" => \A i \in DOMAIN t.ins : t.ins[i] \in Pointers
  BY <1>1 DEF TaskSet
<1> QED BY <1>2 DEF QueueLive

\* Nothing a queued task uses is freed: nothing is freed, or nothing is queued.
InUseKept ==
    \/ stream = <<>>
    \/ /\ \A q \in Pointers : device[q] # Null => device'[q] # Null
       /\ \A q \in Handles : modules[q] # Null => modules'[q] # Null
       /\ \A a \in Arrays : host[a] # Null => host'[a] # Null

\* What a task uses is allocated after the step that queues it.
Ready(t) ==
    /\ device'[t.buffer] # Null
    /\ t.op \in {"copy", "fetch"} => host'[t.array] # Null
    /\ t.op = "launch" => /\ modules'[t.module] # Null
                          /\ \A i \in DOMAIN t.ins : /\ device'[t.ins[i]] # Null
                                                     /\ t.ins[i] # t.buffer

\* Tasks are added to the queue.
LEMMA Queued ==
    ASSUME TypeOK, QueueLive, NoAlias, InUseKept,
           NEW ts \in Seq(TaskSet),
           stream' = stream \o ts,
           \A k \in DOMAIN ts : Ready(ts[k])
    PROVE  stream' \in Seq(TaskSet) /\ QueueLive' /\ NoAlias'
<1> stream \in Seq(TaskSet)
  BY DEF TypeOK
<1>1. /\ stream' \in Seq(TaskSet)
      /\ \A k \in DOMAIN stream' :
            \/ k \in DOMAIN stream /\ stream'[k] = stream[k]
            \/ (k - Len(stream)) \in DOMAIN ts /\ stream'[k] = ts[k - Len(stream)]
  OBVIOUS
<1>2. QueueLive'
  <2> SUFFICES ASSUME NEW k \in DOMAIN stream'
               PROVE  LET t == stream'[k]
                      IN /\ device'[t.buffer] # Null
                         /\ t.op \in {"copy", "fetch"} => host'[t.array] # Null
                         /\ t.op = "launch" => /\ modules'[t.module] # Null
                                               /\ \A i \in DOMAIN t.ins : device'[t.ins[i]] # Null
    BY DEF QueueLive
  <2>1. CASE (k - Len(stream)) \in DOMAIN ts /\ stream'[k] = ts[k - Len(stream)]
    BY <2>1 DEF Ready
  <2>2. CASE k \in DOMAIN stream /\ stream'[k] = stream[k]
    BY <2>2, QueueKept DEF InUseKept
  <2> QED BY <1>1, <2>1, <2>2
<1>3. NoAlias'
  BY <1>1 DEF NoAlias, Ready
<1> QED BY <1>1, <1>2, <1>3

\* The commands that give a name a buffer.
Buffered(c) == c \in CommandSet /\ c.op \in {"store", "output"}

\* What a command that fills a buffer has.
LEMMA BufferedShape ==
    ASSUME NEW c, Buffered(c)
    PROVE  /\ c.name \in Names /\ c.size \in Sizes
           /\ c.op = "store" => c.array \in Arrays
           /\ c.op = "output" => c.word \in Outputs
BY DEF Buffered, CommandSet, Idle

\* The tasks of a buffer command, put behind the stream, need what stays live.
LEMMA QueueStep ==
    ASSUME TypeOK, QueueLive, NoAlias, InUseKept,
           NEW c, Buffered(c), NEW buffer \in Pointers, device'[buffer] # Null,
           c.op = "store" => host'[c.array] # Null,
           Queue(c, buffer)
    PROVE  /\ stream' \in Seq(TaskSet) /\ QueueLive' /\ NoAlias'
           /\ pc' \in {"command", "stored"} /\ cmd' \in CommandSet
           /\ CommandOK'
<1>1. CASE c.op = "store"
  <2> DEFINE ts == <<Copy(buffer, c.array)>>
  <2>1. stream' = Append(stream, Copy(buffer, c.array)) /\ pc' = "stored" /\ cmd' = c
    BY <1>1 DEF Queue, Store, Wait
  <2>2. Copy(buffer, c.array) \in TaskSet
    BY <1>1, BufferedShape DEF TaskSet, Copy
  <2>3. ts \in Seq(TaskSet) /\ stream' = stream \o ts
    BY <2>1, <2>2 DEF TypeOK
  <2>4. \A k \in DOMAIN ts : Ready(ts[k])
    BY <1>1 DEF Copy, Ready
  <2>5. stream' \in Seq(TaskSet) /\ QueueLive' /\ NoAlias'
    BY <2>3, <2>4, Queued
  <2> QED BY <1>1, <2>1, <2>5 DEF CommandOK, Buffered
<1>2. CASE c.op = "output"
  <2> DEFINE ts == <<Zero(buffer), First(buffer, c.word)>>
  <2>1. stream' = stream \o ts /\ pc' = "command" /\ cmd' = Idle
    BY <1>2 DEF Queue, Output, Answer
  <2>2. ts \in Seq(TaskSet)
    BY <1>2, BufferedShape DEF TaskSet, Zero, First
  <2>3. \A k \in DOMAIN ts : Ready(ts[k])
    BY <1>2 DEF Zero, First, Ready
  <2>4. stream' \in Seq(TaskSet) /\ QueueLive' /\ NoAlias'
    BY <2>1, <2>2, <2>3, Queued
  <2> QED BY <1>2, <2>1, <2>4 DEF CommandOK, CommandSet
<1> QED BY <1>1, <1>2 DEF Buffered

\* cuMemAlloc, for a new name or after release.
LEMMA AllocateStep ==
    ASSUME SessionInv, SessionAssumption, NEW c, Buffered(c),
           \/ ~Known(c.name) /\ Len(entries) < MaxEntries
           \/ Known(c.name) /\ stream = <<>>,
           Allocate(c),
           host' \in [Arrays -> Contents \cup {Null}],
           \A a \in Arrays : host[a] # Null => host'[a] # Null,
           c.op = "store" => host'[c.array] # Null,
           fault' = fault, file' = file
    PROVE  SessionInv'
<1> USE DEF SessionInv
<1>1. PICK p \in Pointers, junk \in [1..c.size -> Junk] :
         /\ Freed(c.name)[p] = Null
         /\ device' = [Freed(c.name) EXCEPT ![p] = junk]
         /\ modules' = Unloaded(c.name)
         /\ entries' = Put(c.name, p, c.size, Null)
         /\ Queue(c, p)
  BY DEF Allocate
<1>2. c.name \in Names /\ c.size \in Sizes /\ junk \in Contents /\ junk # Null /\ Null \notin Handles
  BY BufferedShape DEF SessionAssumption
<1>3. /\ device' \in [Pointers -> Contents \cup {Null}]
      /\ modules' \in [Handles -> Images \cup {Null}]
      /\ \A q \in Pointers : device'[q] # Null <=> (q = p \/ Freed(c.name)[q] # Null)
  BY <1>1, <1>2, FreedTyped
<1>4. Entry(c.name, p, c.size, Null) \in EntrySet
  BY <1>2 DEF Entry, EntrySet
<1>5. entries' \in Seq(EntrySet) /\ TableOK' /\ OwnedOnce'
  BY <1>1, <1>2, <1>3, <1>4, PutTable, SMTT(30)
<1>6. InUseKept
  BY <1>1, <1>3, NothingFreed DEF InUseKept
<1>7. /\ stream' \in Seq(TaskSet) /\ QueueLive' /\ NoAlias'
      /\ pc' \in {"command", "stored"} /\ cmd' \in CommandSet /\ CommandOK'
  BY <1>1, <1>3, <1>6, QueueStep
<1> QED BY <1>3, <1>5, <1>7 DEF TypeOK

\* cuModuleLoadData, for a new name or after release.
LEMMA LoadStep ==
    ASSUME SessionInv, SessionAssumption,
           NEW c, c.name \in Names, c.image \in Images,
           \/ ~Known(c.name) /\ Len(entries) < MaxEntries
           \/ Known(c.name) /\ stream = <<>>,
           LoadModule(c), UNCHANGED <<host, fault, file>>
    PROVE  SessionInv'
<1> USE DEF SessionInv
<1>1. PICK h \in Handles :
         /\ Unloaded(c.name)[h] = Null
         /\ modules' = [Unloaded(c.name) EXCEPT ![h] = c.image]
         /\ device' = Freed(c.name)
         /\ entries' = Put(c.name, Null, 0, h)
         /\ pc' = "command" /\ cmd' = Idle /\ stream' = stream
  BY DEF LoadModule, Answer
<1>2. Null \notin Images /\ Null \notin Pointers
  BY DEF SessionAssumption
<1>3. /\ device' \in [Pointers -> Contents \cup {Null}]
      /\ modules' \in [Handles -> Images \cup {Null}]
      /\ \A q \in Handles : modules'[q] # Null <=> (q = h \/ Unloaded(c.name)[q] # Null)
      /\ \A q \in Pointers : device'[q] # Null <=> (q = Null \/ Freed(c.name)[q] # Null)
  BY <1>1, <1>2, FreedTyped
<1>4. Entry(c.name, Null, 0, h) \in EntrySet
  BY DEF Entry, EntrySet
<1>5. entries' \in Seq(EntrySet) /\ TableOK' /\ OwnedOnce'
  BY <1>1, <1>3, <1>4, PutTable
<1>6. QueueLive' /\ NoAlias'
  <2>1. CASE stream = <<>>
    BY <2>1, <1>1 DEF QueueLive, NoAlias
  <2>2. CASE ~Known(c.name)
    BY <2>2, <1>1, <1>3, NothingFreed, QueueKept DEF QueueLive, NoAlias
  <2> QED BY <2>1, <2>2
<1> QED BY <1>1, <1>3, <1>5, <1>6 DEF TypeOK, CommandSet, CommandOK

\* `free`: the last entry takes the place of the freed one.
LEMMA RemoveStep ==
    ASSUME SessionInv, SessionAssumption, RemoveEntry
    PROVE  SessionInv'
<1> USE DEF SessionInv
<1> DEFINE k == find_entry(cmd.name)
           n == Len(entries)
           from(i) == IF i = k THEN n ELSE i
<1> stream = <<>> /\ stream' = stream /\ UNCHANGED <<host, fault, file>>
    /\ pc' = "command" /\ cmd' = Idle
  BY DEF RemoveEntry, Synchronized, Answer
<1>1. Known(cmd.name) /\ k \in 1..n /\ n \in Nat /\ DOMAIN entries = 1..n
      /\ entries \in Seq(EntrySet)
  BY FindEntry DEF RemoveEntry, CommandOK, TypeOK
<1>2. /\ entries' \in Seq(EntrySet) /\ Len(entries') = n - 1 /\ DOMAIN entries' = 1..(n - 1)
      /\ \A i \in 1..(n - 1) : /\ from(i) \in DOMAIN entries /\ from(i) # k
                               /\ entries'[i] = entries[from(i)]
  BY <1>1 DEF RemoveEntry, Without
<1>3. \A i, j \in 1..(n - 1) : from(i) = from(j) => i = j
  BY <1>1
<1>4. \A j \in DOMAIN entries : j # k => \E i \in 1..(n - 1) : from(i) = j
  <2> SUFFICES ASSUME NEW j \in DOMAIN entries, j # k
               PROVE  \E i \in 1..(n - 1) : from(i) = j
    OBVIOUS
  <2>1. CASE j = n  BY <2>1, <1>1
  <2>2. CASE j # n  BY <2>2, <1>1
  <2> QED BY <2>1, <2>2
<1> HIDE DEF from, n
<1>5. device' = Freed(cmd.name) /\ modules' = Unloaded(cmd.name)
  BY DEF RemoveEntry
<1>6. TableOK'
  <2>1. Len(entries') <= MaxEntries
    BY <1>1, <1>2 DEF TableOK, SessionAssumption, n
  <2>2. \A i, j \in DOMAIN entries' : entries'[i].name = entries'[j].name => i = j
    BY <1>2, <1>3 DEF TableOK
  <2>3. ASSUME NEW i \in DOMAIN entries'
        PROVE  /\ entries'[i].buffer # Null => device'[entries'[i].buffer] # Null
               /\ entries'[i].module # Null => modules'[entries'[i].module] # Null
    BY <1>2, <1>5, Fresh
  <2> QED BY <2>1, <2>2, <2>3 DEF TableOK
<1>7. OwnedOnce'
  <2>1. ASSUME NEW q \in Pointers, device'[q] # Null
        PROVE  \E i \in DOMAIN entries' : entries'[i].buffer = q
    <3>1. device[q] # Null /\ q # BufferOf(cmd.name)
      BY <2>1, <1>5 DEF Freed
    <3>2. PICK j \in DOMAIN entries : entries[j].buffer = q
      BY <3>1 DEF OwnedOnce
    <3>3. j # k
      BY <3>1, <3>2, <1>1, HeldByName
    <3> QED BY <3>2, <3>3, <1>2, <1>4
  <2>2. ASSUME NEW q \in Handles, modules'[q] # Null
        PROVE  \E i \in DOMAIN entries' : entries'[i].module = q
    <3>1. modules[q] # Null /\ q # ModuleOf(cmd.name)
      BY <2>2, <1>5 DEF Unloaded
    <3>2. PICK j \in DOMAIN entries : entries[j].module = q
      BY <3>1 DEF OwnedOnce
    <3>3. j # k
      BY <3>1, <3>2, <1>1, HeldByName
    <3> QED BY <3>2, <3>3, <1>2, <1>4
  <2>3. ASSUME NEW i \in DOMAIN entries', NEW j \in DOMAIN entries', i # j
        PROVE  /\ entries'[i].buffer = entries'[j].buffer => entries'[i].buffer = Null
               /\ entries'[i].module = entries'[j].module => entries'[i].module = Null
    BY <2>3, <1>2, <1>3 DEF OwnedOnce
  <2> QED BY <2>1, <2>2, <2>3 DEF OwnedOnce
<1>8. QueueLive' /\ NoAlias'
  BY DEF QueueLive, NoAlias
<1>9. TypeOK'
  BY <1>2, <1>5, FreedTyped DEF TypeOK, CommandSet
<1> QED BY <1>6, <1>7, <1>8, <1>9 DEF CommandOK

\* The device writes a buffer: what is allocated stays allocated.
LEMMA DeviceKeeps ==
    ASSUME SessionInv, SessionAssumption, DeviceStep
    PROVE  SessionInv'
<1> USE DEF SessionInv
<1> DEFINE t == Head(stream)
<1> stream # <<>> /\ stream \in Seq(TaskSet) /\ stream' = Tail(stream)
    /\ UNCHANGED <<entries, modules, fault, pc, cmd, file>>
  BY DEF DeviceStep, TypeOK
<1>1. t \in TaskSet /\ t = stream[1] /\ 1 \in DOMAIN stream
  OBVIOUS
<1>2. /\ t.buffer \in Pointers
      /\ t.op \in {"copy", "fetch", "zero", "first", "launch"}
      /\ t.op \in {"copy", "fetch"} => t.array \in Arrays
      /\ t.op = "first" => t.word \in Outputs
      /\ t.op = "launch" => /\ t.module \in Handles
                            /\ \E j \in 0..MaxInputs : t.ins \in [1..j -> Pointers]
  BY <1>1 DEF TaskSet
<1>3. device[t.buffer] \in Contents /\ device[t.buffer] # Null
  BY <1>1, <1>2 DEF QueueLive, TypeOK
<1>4. Written(t, device) \in Contents
  <2>1. CASE t.op = "copy"
    BY <2>1, <1>1, <1>2 DEF Written, QueueLive, TypeOK
  <2>2. CASE t.op = "zero"
    BY <2>2, <1>3 DEF Written, SessionAssumption
  <2>3. CASE t.op = "first"
    BY <2>3, <1>2, <1>3 DEF Written, SessionAssumption
  <2>4. CASE t.op = "launch"
    <3>1. PICK j \in 0..MaxInputs : t.ins \in [1..j -> Pointers]
      BY <2>4, <1>2
    <3>2. [i \in DOMAIN t.ins |-> device[t.ins[i]]] \in [1..j -> Contents]
      BY <2>4, <3>1, <1>1 DEF QueueLive, TypeOK
    <3>3. modules[t.module] \in Images
      BY <2>4, <1>1, <1>2 DEF QueueLive, TypeOK
    <3> QED BY <2>4, <3>2, <3>3, <1>3 DEF Written, SessionAssumption
  <2>5. CASE t.op = "fetch"
    BY <2>5, <1>3 DEF Written
  <2> QED BY <1>2, <2>1, <2>2, <2>3, <2>4, <2>5
<1>5. /\ device' = [device EXCEPT ![t.buffer] = Written(t, device)]
      /\ host' = IF t.op = "fetch" THEN [host EXCEPT ![t.array] = device[t.buffer]] ELSE host
  BY DEF DeviceStep, After
<1> HIDE DEF t
<1> Null \notin Contents
  BY DEF SessionAssumption
<1>6. /\ device' \in [Pointers -> Contents \cup {Null}]
      /\ host' \in [Arrays -> Contents \cup {Null}]
      /\ \A q \in Pointers : device'[q] # Null <=> device[q] # Null
      /\ \A a \in Arrays : host[a] # Null => host'[a] # Null
  BY <1>2, <1>3, <1>4, <1>5 DEF TypeOK
<1>7. \A i \in DOMAIN entries : entries[i].buffer \in Pointers \cup {Null}
  BY DEF EntrySet, TypeOK
<1>8. TableOK' /\ OwnedOnce'
  BY <1>6, <1>7 DEF TableOK, OwnedOnce
<1>9. /\ Tail(stream) \in Seq(TaskSet)
      /\ \A k \in DOMAIN stream' : (k + 1) \in DOMAIN stream /\ stream'[k] = stream[k + 1]
  OBVIOUS
<1>10. QueueLive' /\ NoAlias'
  BY <1>6, <1>9, QueueKept DEF QueueLive, NoAlias
<1>11. CommandOK'
  <2>1. Known(cmd.name)' <=> Known(cmd.name)
    BY DEF Known, find_entry
  <2>2. cmd.op \in {"store", "read"} => cmd.array \in Arrays
    BY DEF TypeOK, CommandSet, Idle
  <2> QED BY <1>6, <2>1, <2>2 DEF CommandOK
<1> QED BY <1>6, <1>8, <1>9, <1>10, <1>11 DEF TypeOK

-----------------------------------------------------------------------------
(* The commands. *)

\* A step that leaves the table, the memory and the queue alone.
LEMMA HostMoves ==
    ASSUME SessionInv, UNCHANGED <<entries, device, modules, stream, fault>>,
           host' \in [Arrays -> Contents \cup {Null}], file' \in Contents \cup {<<>>},
           stream = <<>> \/ \A a \in Arrays : host[a] # Null => host'[a] # Null,
           pc' \in {"command", "release", "stored", "reading", "quit", "exited", "failed"},
           cmd' \in CommandSet, CommandOK'
    PROVE  SessionInv'
<1> USE DEF SessionInv
<1>1. TypeOK' /\ TableOK' /\ OwnedOnce' /\ NoAlias'
  BY DEF TypeOK, TableOK, OwnedOnce, NoAlias
<1>2. QueueLive'
  BY QueueKept DEF QueueLive
<1> QED BY <1>1, <1>2

\* A name is known by the table alone.
LEMMA KnownStable ==
    ASSUME NEW name, UNCHANGED entries
    PROVE  Known(name)' <=> Known(name)
BY DEF Known, find_entry

\* A buffer command that waits for nothing keeps the invariant.
LEMMA BufferStep ==
    ASSUME SessionInv, SessionAssumption, NEW c, Buffered(c), pc = "command",
           BufferCommand(c),
           host' \in [Arrays -> Contents \cup {Null}],
           \A a \in Arrays : host[a] # Null => host'[a] # Null,
           c.op = "store" => host'[c.array] # Null
    PROVE  SessionInv'
<1> USE DEF SessionInv
<1> UNCHANGED <<fault, file>>
  BY DEF BufferCommand
<1>1. CASE Reuse(c)
  <2>1. BufferOf(c.name) \in Pointers /\ device[BufferOf(c.name)] # Null
    BY <1>1, BufferLive DEF Reuse, HasSize
  <2>2. UNCHANGED <<entries, device, modules>> /\ Queue(c, BufferOf(c.name))
    BY <1>1 DEF Reuse
  <2>3. InUseKept
    BY <2>2 DEF InUseKept
  <2>4. /\ stream' \in Seq(TaskSet) /\ QueueLive' /\ NoAlias'
        /\ pc' \in {"command", "stored"} /\ cmd' \in CommandSet /\ CommandOK'
    BY <2>1, <2>2, <2>3, QueueStep
  <2>5. TypeOK' /\ TableOK' /\ OwnedOnce'
    BY <2>2, <2>4 DEF TypeOK, TableOK, OwnedOnce
  <2> QED BY <2>4, <2>5
<1>2. CASE ~Known(c.name) /\ Len(entries) < MaxEntries /\ Allocate(c)
  BY <1>2, AllocateStep
<1>3. CASE Known(c.name) /\ Replace(c)
  <2>1. /\ pc' = "release" /\ cmd' = c /\ UNCHANGED <<entries, device, modules, stream>>
    BY <1>3 DEF Replace, Wait
  <2>2. cmd' \in CommandSet /\ CommandOK'
    BY <1>3, <2>1, KnownStable DEF CommandOK, Buffered
  <2>3. file' \in Contents \cup {<<>>}
    BY DEF TypeOK
  <2> QED BY <2>1, <2>2, <2>3, HostMoves
<1> QED BY <1>1, <1>2, <1>3 DEF BufferCommand

\* `store` keeps the invariant.
LEMMA StoreStep ==
    ASSUME SessionInv, SessionAssumption, NEW name \in Names, NEW data \in Inputs,
           StoreCommand(name, data)
    PROVE  SessionInv'
<1>1. PICK a \in Arrays :
         /\ pc = "command" /\ host[a] = Null /\ host' = [host EXCEPT ![a] = data]
         /\ BufferCommand([op |-> "store", name |-> name, size |-> Len(data), array |-> a])
  BY DEF StoreCommand
<1> DEFINE c == [op |-> "store", name |-> name, size |-> Len(data), array |-> a]
<1>2. Len(data) \in Sizes /\ data \in Contents /\ data # Null
  BY DEF Sizes, SessionAssumption
<1>3. Buffered(c)
  BY <1>2 DEF Buffered, CommandSet
<1>4. /\ host' \in [Arrays -> Contents \cup {Null}]
      /\ \A x \in Arrays : host[x] # Null => host'[x] # Null
      /\ host'[c.array] # Null
  BY <1>1, <1>2 DEF SessionInv, TypeOK
<1> HIDE DEF c
<1>5. BufferCommand(c)
  BY <1>1 DEF c
<1> QED BY <1>1, <1>3, <1>4, <1>5, BufferStep

\* `output` keeps the invariant.
LEMMA OutputStep ==
    ASSUME SessionInv, SessionAssumption, NEW name \in Names, NEW n \in Outputs,
           OutputCommand(name, n)
    PROVE  SessionInv'
<1> DEFINE c == [op |-> "output", name |-> name, size |-> n + 1, word |-> n]
<1>1. n + 1 \in Sizes
  BY DEF Sizes
<1>2. Buffered(c) /\ c.op # "store"
  BY <1>1 DEF Buffered, CommandSet
<1>3. pc = "command" /\ BufferCommand(c) /\ host' = host
  BY DEF OutputCommand
<1>4. host' \in [Arrays -> Contents \cup {Null}]
  BY <1>3 DEF SessionInv, TypeOK
<1> HIDE DEF c
<1> QED BY <1>2, <1>3, <1>4, BufferStep

\* `kernel` keeps the invariant.
LEMMA KernelStep ==
    ASSUME SessionInv, SessionAssumption, NEW name \in Names, NEW image \in Images,
           KernelCommand(name, image)
    PROVE  SessionInv'
<1> DEFINE c == [op |-> "kernel", name |-> name, image |-> image]
<1>1. c.name \in Names /\ c.image \in Images /\ c.name = name /\ c.op = "kernel"
      /\ c \in CommandSet
  BY DEF CommandSet
<1>2. /\ UNCHANGED <<host, fault, file>>
      /\ \/ ~Known(name) /\ Len(entries) < MaxEntries /\ LoadModule(c)
         \/ Known(name) /\ Replace(c)
  BY DEF KernelCommand
<1> HIDE DEF c
<1>3. CASE ~Known(name) /\ Len(entries) < MaxEntries /\ LoadModule(c)
  BY <1>1, <1>2, <1>3, LoadStep
<1>4. CASE Known(name) /\ Replace(c)
  <2>1. /\ pc' = "release" /\ cmd' = c /\ UNCHANGED <<entries, device, modules, stream>>
    BY <1>4 DEF Replace, Wait
  <2>2. CommandOK'
    BY <1>1, <1>4, <2>1, KnownStable DEF CommandOK
  <2> QED BY <1>1, <1>2, <2>1, <2>2, HostMoves DEF SessionInv, TypeOK
<1> QED BY <1>2, <1>3, <1>4

\* `run` keeps the invariant: it looks up live buffers only.
LEMMA RunStep ==
    ASSUME SessionInv, SessionAssumption,
           NEW kernel \in Names, NEW blocks, NEW out \in Names,
           NEW j \in 0..MaxInputs, NEW ins \in [1..j -> Names],
           RunCommand(kernel, blocks, out, ins)
    PROVE  SessionInv'
<1> USE DEF SessionInv
<1> DEFINE pointers == [i \in DOMAIN ins |-> BufferOf(ins[i])]
           t == Launch(ModuleOf(kernel), BufferOf(out), pointers)
           ts == <<t>>
<1>1. /\ ModuleOf(kernel) # Null /\ BufferOf(out) # Null
      /\ \A i \in DOMAIN ins : ins[i] # out /\ BufferOf(ins[i]) # Null
      /\ UNCHANGED <<entries, device, modules, host, fault, pc, cmd, file>>
  BY DEF RunCommand
<1>2. /\ ModuleOf(kernel) \in Handles /\ modules[ModuleOf(kernel)] # Null
      /\ BufferOf(out) \in Pointers /\ device[BufferOf(out)] # Null
      /\ \A i \in 1..j : BufferOf(ins[i]) \in Pointers /\ device[BufferOf(ins[i])] # Null
  BY <1>1, BufferLive, ModuleLive
<1>3. \A i \in 1..j : BufferOf(ins[i]) # BufferOf(out)
  <2> SUFFICES ASSUME NEW i \in 1..j, BufferOf(ins[i]) = BufferOf(out)
               PROVE  FALSE
    OBVIOUS
  <2>1. Known(ins[i]) /\ Known(out) /\ ins[i] # out
    BY <1>1, HeldByName
  <2>2. find_entry(ins[i]) # find_entry(out)
    BY <2>1, FindEntry
  <2> QED BY <1>1, <2>1, <2>2, FindEntry, HeldByName DEF OwnedOnce
<1>4. t \in TaskSet
  <2>1. pointers \in [1..j -> Pointers]
    BY <1>2
  <2> HIDE DEF pointers
  <2>2. pointers \in UNION {[1..m -> Pointers] : m \in 0..MaxInputs}
    BY <2>1
  <2> QED BY <1>2, <2>2 DEF TaskSet, Launch
<1>5. Ready(t)
  BY <1>1, <1>2, <1>3 DEF Ready, Launch
<1>6. TableOK' /\ OwnedOnce' /\ CommandOK' /\ InUseKept
  BY <1>1, KnownStable DEF TableOK, OwnedOnce, CommandOK, InUseKept
<1>7. CASE stream' = Append(stream, t)
  <2> HIDE DEF t
  <2>1. ts \in Seq(TaskSet) /\ stream' = stream \o ts /\ \A k \in DOMAIN ts : Ready(ts[k])
    BY <1>4, <1>5, <1>7 DEF TypeOK
  <2>2. stream' \in Seq(TaskSet) /\ QueueLive' /\ NoAlias'
    BY <2>1, <1>6, Queued
  <2> QED BY <1>1, <1>6, <2>2 DEF TypeOK
<1>8. CASE UNCHANGED stream
  BY <1>1, <1>6, <1>8 DEF TypeOK, QueueLive, NoAlias
<1> QED BY <1>7, <1>8 DEF RunCommand

\* `read` keeps the invariant.
LEMMA ReadStep ==
    ASSUME SessionInv, SessionAssumption, NEW name \in Names, ReadCommand(name)
    PROVE  SessionInv'
<1> USE DEF SessionInv
<1> DEFINE size == entries[find_entry(name)].size
<1>1. PICK a \in Arrays, junk \in [1..size -> Junk] :
         /\ BufferOf(name) # Null /\ host[a] = Null
         /\ host' = [host EXCEPT ![a] = junk]
         /\ stream' = Append(stream, Fetch(BufferOf(name), a))
         /\ pc' = "reading" /\ cmd' = [op |-> "read", name |-> name, array |-> a]
         /\ UNCHANGED <<entries, device, modules, fault, file>>
  BY DEF ReadCommand, Wait
<1>2. BufferOf(name) \in Pointers /\ device[BufferOf(name)] # Null
  BY <1>1, BufferLive
<1>3. size \in Sizes
  <2>1. Known(name) /\ entries[find_entry(name)].buffer # Null
    BY <1>1, HeldByName
  <2> QED BY <2>1, FindEntry DEF EntrySet
<1>4. junk \in Contents /\ junk # Null
  BY <1>3 DEF SessionAssumption
<1>5. /\ host' \in [Arrays -> Contents \cup {Null}] /\ host'[a] # Null
      /\ \A x \in Arrays : host[x] # Null => host'[x] # Null
  BY <1>1, <1>4 DEF TypeOK
<1> DEFINE t == Fetch(BufferOf(name), a)
           ts == <<t>>
<1>6. t \in TaskSet /\ Ready(t)
  BY <1>1, <1>2, <1>5 DEF TaskSet, Fetch, Ready
<1>7. TableOK' /\ OwnedOnce' /\ CommandOK' /\ InUseKept /\ cmd' \in CommandSet
  BY <1>1, <1>5 DEF TableOK, OwnedOnce, CommandOK, InUseKept, CommandSet
<1>8. stream' \in Seq(TaskSet) /\ QueueLive' /\ NoAlias'
  <2>1. stream' = Append(stream, t)
    BY <1>1
  <2> stream \in Seq(TaskSet)
    BY DEF TypeOK
  <2> HIDE DEF t
  <2>2. ts \in Seq(TaskSet) /\ stream' = stream \o ts /\ \A k \in DOMAIN ts : Ready(ts[k])
    BY <1>6, <2>1
  <2> QED BY <2>2, <1>7, Queued
<1> QED BY <1>1, <1>5, <1>7, <1>8 DEF TypeOK

\* `free` keeps the invariant.
LEMMA FreeStep ==
    ASSUME SessionInv, SessionAssumption, NEW name \in Names, FreeCommand(name)
    PROVE  SessionInv'
<1> DEFINE c == [op |-> "free", name |-> name]
<1>1. /\ UNCHANGED <<entries, device, modules, stream, host, fault, file>>
      /\ pc' = "release" /\ cmd' = c /\ Known(name)
  BY DEF FreeCommand, Replace, Wait
<1>2. c \in CommandSet
  BY DEF CommandSet
<1>3. CommandOK'
  BY <1>1, KnownStable DEF CommandOK
<1> QED BY <1>1, <1>2, <1>3, HostMoves DEF SessionInv, TypeOK

-----------------------------------------------------------------------------
(* The host after the stream is synchronized. *)

\* What a command does once the stream is empty keeps the invariant.
LEMMA ContinueStep ==
    ASSUME SessionInv, SessionAssumption, Continue
    PROVE  SessionInv'
<1> USE DEF SessionInv
<1>1. CASE Reallocate
  <2>1. Buffered(cmd) /\ Known(cmd.name) /\ stream = <<>> /\ Allocate(cmd)
    BY <1>1 DEF Reallocate, Buffered, CommandOK, Synchronized, TypeOK
  <2>2. UNCHANGED <<host, fault, file>> /\ (cmd.op = "store" => host[cmd.array] # Null)
    BY <1>1 DEF Reallocate, CommandOK
  <2>3. host' \in [Arrays -> Contents \cup {Null}]
    BY <2>2 DEF TypeOK
  <2> QED BY <2>1, <2>2, <2>3, AllocateStep
<1>2. CASE Reload
  <2>1. cmd.name \in Names /\ cmd.image \in Images
    BY <1>2 DEF Reload, TypeOK, CommandSet, Idle
  <2>2. Known(cmd.name) /\ stream = <<>> /\ LoadModule(cmd) /\ UNCHANGED <<host, fault, file>>
    BY <1>2 DEF Reload, CommandOK, Synchronized
  <2> QED BY <2>1, <2>2, LoadStep
<1>3. CASE RemoveEntry
  BY <1>3, RemoveStep
<1>4. CASE Stored \/ ReadBack
  <2>1. cmd.array \in Arrays /\ stream = <<>>
    BY <1>4 DEF Stored, ReadBack, CommandOK, TypeOK, CommandSet, Idle, Synchronized
  <2>2. host' \in [Arrays -> Contents \cup {Null}] /\ file' \in Contents \cup {<<>>}
    BY <1>4, <2>1 DEF Stored, ReadBack, TypeOK, CommandOK
  <2>3. pc' = "command" /\ cmd' = Idle /\ UNCHANGED <<entries, device, modules, stream, fault>>
    BY <1>4 DEF Stored, ReadBack, Answer
  <2> QED BY <2>1, <2>2, <2>3, HostMoves DEF CommandSet, CommandOK
<1>5. CASE Exit \/ SyncError \/ OutOfMemory
  <2>1. /\ pc' \in {"exited", "failed"}
        /\ UNCHANGED <<entries, device, modules, host, stream, fault, cmd, file>>
    BY <1>5 DEF Exit, SyncError, OutOfMemory
  <2> QED BY <2>1, HostMoves DEF CommandOK, TypeOK
<1> QED BY <1>1, <1>2, <1>3, <1>4, <1>5 DEF Continue

-----------------------------------------------------------------------------

\* A session begins with the invariant.
LEMMA Initially == Init /\ SessionAssumption => SessionInv
<1> SUFFICES ASSUME Init, SessionAssumption PROVE SessionInv
  OBVIOUS
<1>1. TypeOK
  <2>1. cmd \in CommandSet /\ fault \in BOOLEAN /\ file \in Contents \cup {<<>>}
    BY DEF Init, CommandSet
  <2>2. entries \in Seq(EntrySet) /\ stream \in Seq(TaskSet)
    BY DEF Init
  <2>3. /\ device \in [Pointers -> Contents \cup {Null}]
        /\ modules \in [Handles -> Images \cup {Null}]
        /\ host \in [Arrays -> Contents \cup {Null}]
    BY DEF Init
  <2>4. pc = "command"
    BY DEF Init
  <2> QED BY <2>1, <2>2, <2>3, <2>4 DEF TypeOK
<1>2. TableOK /\ OwnedOnce /\ QueueLive /\ NoAlias
  BY DEF Init, TableOK, OwnedOnce, QueueLive, NoAlias, SessionAssumption
<1> QED BY <1>1, <1>2 DEF SessionInv, CommandOK, Init

\* Every step of the session keeps the invariant.
LEMMA Stepwise == SessionInv /\ SessionAssumption /\ [Next]_vars => SessionInv'
<1> SUFFICES ASSUME SessionInv, SessionAssumption, [Next]_vars PROVE SessionInv'
  OBVIOUS
<1>1. CASE Command
  <2>1. ASSUME NEW n \in Names, NEW d \in Inputs, StoreCommand(n, d) PROVE SessionInv'
    BY <2>1, StoreStep
  <2>2. ASSUME NEW n \in Names, NEW o \in Outputs, OutputCommand(n, o) PROVE SessionInv'
    BY <2>2, OutputStep
  <2>3. ASSUME NEW n \in Names, NEW m \in Images, KernelCommand(n, m) PROVE SessionInv'
    BY <2>3, KernelStep
  <2>4. ASSUME NEW k \in Names, NEW o \in Names, NEW b \in 0..1, NEW j \in 0..MaxInputs,
               NEW ins \in [1..j -> Names], RunCommand(k, b, o, ins)
        PROVE  SessionInv'
    BY <2>4, RunStep
  <2>5. ASSUME NEW n \in Names, ReadCommand(n) PROVE SessionInv'
    BY <2>5, ReadStep
  <2>6. ASSUME NEW n \in Names, FreeCommand(n) PROVE SessionInv'
    BY <2>6, FreeStep
  <2>7. CASE QuitCommand
    <3>1. /\ UNCHANGED <<entries, device, modules, host, stream, fault, file>>
          /\ pc' = "quit" /\ cmd' = Idle
      BY <2>7 DEF QuitCommand, Wait
    <3> QED BY <3>1, HostMoves DEF SessionInv, TypeOK, CommandSet, CommandOK
  <2> QED BY <1>1, <2>1, <2>2, <2>3, <2>4, <2>5, <2>6, <2>7 DEF Command
<1>2. CASE DeviceStep
  BY <1>2, DeviceKeeps
<1>3. CASE LaunchFault
  <2>1. fault' = TRUE /\ UNCHANGED <<entries, device, modules, host, stream, pc, cmd, file>>
    BY <1>3 DEF LaunchFault
  <2> QED BY <2>1, KnownStable DEF SessionInv, TypeOK, TableOK, OwnedOnce, QueueLive, NoAlias, CommandOK
<1>4. CASE Continue
  BY <1>4, ContinueStep
<1>5. CASE Die
  <2>1. pc' = "failed" /\ UNCHANGED <<entries, device, modules, host, stream, fault, cmd, file>>
    BY <1>5 DEF Die
  <2> QED BY <2>1, HostMoves DEF SessionInv, TypeOK, CommandOK
<1>6. CASE Ended \/ UNCHANGED vars
  <2>1. UNCHANGED vars
    BY <1>6 DEF Ended
  <2> QED BY <2>1, KnownStable
          DEF vars, SessionInv, TypeOK, TableOK, OwnedOnce, QueueLive, NoAlias, CommandOK
<1> QED BY <1>1, <1>2, <1>3, <1>4, <1>5, <1>6 DEF Next

\* The inductive invariant of the session holds.
LEMMA Invariance == Spec => []SessionInv
<1>1. Init => SessionInv
  BY Initially, SessionAssumption
<1>2. SessionInv /\ [Next]_vars => SessionInv'
  BY Stepwise, SessionAssumption
<1> QED BY <1>1, <1>2, PTL DEF Spec

\* The variables keep their shapes.
THEOREM TypeCorrect == Spec => []TypeOK
BY Invariance, PTL DEF SessionInv

\* No queued task ever uses a freed buffer, a freed host array or an unloaded
\* kernel: the synchronizations of release and store_words are enough.
THEOREM QueueSafety == Spec => []QueueLive
BY Invariance, PTL DEF SessionInv

\* Every allocation belongs to exactly one name: `free` and replacement, and the
\* compaction of entries_, lose no buffer and share none.
THEOREM TableSafety == Spec => []TableOwns
<1>1. SessionInv => TableOwns
  BY DEF SessionInv, TableOwns
<1> QED BY <1>1, Invariance, PTL

\* A launch never writes a buffer it reads: comparing names in `run` is enough.
THEOREM LaunchSafety == Spec => []NoAlias
BY Invariance, PTL DEF SessionInv

\* After a launch failed nothing is freed and no file is written, until the
\* process ends at its next synchronization.
THEOREM FaultSafety == Spec => FaultStops
<1> DEFINE Stops == fault => file' = file /\ \A p \in Pointers :
                                device[p] # Null => device'[p] # Null
<1>1. SessionInv /\ SessionAssumption /\ [Next]_vars => [Stops]_vars
  <2> SUFFICES ASSUME SessionInv, SessionAssumption, Next, fault PROVE Stops
    BY DEF vars
  <2> USE DEF SessionInv
  <2>1. ~Synchronized /\ ~DeviceStep /\ ~LaunchFault
    BY DEF Synchronized, DeviceStep, LaunchFault
  <2>2. ASSUME NEW c, Buffered(c), BufferCommand(c) PROVE Stops
    <3>1. file' = file
      BY <2>2 DEF BufferCommand
    <3>2. CASE ~Known(c.name) /\ Allocate(c)
      <4>1. PICK p \in Pointers, junk \in [1..c.size -> Junk] :
               device' = [Freed(c.name) EXCEPT ![p] = junk]
        BY <3>2 DEF Allocate
      <4>2. junk # Null
        BY <2>2, BufferedShape DEF SessionAssumption
      <4>3. Freed(c.name) = device
        BY <3>2, NothingFreed
      <4> QED BY <3>1, <4>1, <4>2, <4>3 DEF TypeOK
    <3>3. CASE Reuse(c) \/ Replace(c)
      BY <3>1, <3>3 DEF Reuse, Replace
    <3> QED BY <2>2, <3>2, <3>3 DEF BufferCommand
  <2>3. ASSUME NEW n \in Names, NEW d \in Inputs, StoreCommand(n, d) PROVE Stops
    <3>1. PICK a \in Arrays :
             BufferCommand([op |-> "store", name |-> n, size |-> Len(d), array |-> a])
      BY <2>3 DEF StoreCommand
    <3>2. Buffered([op |-> "store", name |-> n, size |-> Len(d), array |-> a])
      BY DEF Buffered, CommandSet, Sizes
    <3> QED BY <2>2, <3>1, <3>2
  <2>4. ASSUME NEW n \in Names, NEW o \in Outputs, OutputCommand(n, o) PROVE Stops
    <3>1. Buffered([op |-> "output", name |-> n, size |-> o + 1, word |-> o])
      BY DEF Buffered, CommandSet, Sizes
    <3> QED BY <2>2, <2>4, <3>1 DEF OutputCommand
  <2>5. ASSUME NEW n \in Names, NEW m \in Images, KernelCommand(n, m) PROVE Stops
    BY <2>5, NothingFreed DEF KernelCommand, LoadModule, Replace
  <2>6. CASE \/ \E k, o \in Names, b \in 0..1, j \in 0..MaxInputs :
                  \E ins \in [1..j -> Names] : RunCommand(k, b, o, ins)
             \/ \E n \in Names : ReadCommand(n)
             \/ \E n \in Names : FreeCommand(n)
             \/ QuitCommand
    <3>1. UNCHANGED <<device, file>>
      BY <2>6 DEF RunCommand, ReadCommand, FreeCommand, Replace, QuitCommand
    <3> QED BY <3>1
  <2>7. CASE Continue \/ Die \/ Ended
    <3>1. UNCHANGED <<device, file>>
      BY <2>1, <2>7 DEF Continue, Reallocate, Reload, RemoveEntry, OutOfMemory, Stored,
                        ReadBack, Exit, SyncError, Die, Ended, vars
    <3> QED BY <3>1
  <2> QED BY <2>1, <2>3, <2>4, <2>5, <2>6, <2>7 DEF Next, Command
<1>2. SessionInv /\ [Next]_vars => [Stops]_vars
  BY <1>1, SessionAssumption
<1> QED BY <1>2, Invariance, PTL DEF Spec, FaultStops

-----------------------------------------------------------------------------
(* The host arrays. *)

\* A running host holds an array only for the command that waits, and that
\* command frees it.
HostHeld ==
    Running =>
        \A a \in Arrays :
            host[a] # Null => /\ pc \in {"release", "stored", "reading"}
                              /\ cmd.op \in {"store", "read"} /\ cmd.array = a

\* No array is live where no command holds one.
LEMMA NoneHeld ==
    ASSUME HostHeld, pc = "command" \/ (pc = "release" /\ cmd.op \notin {"store", "read"})
    PROVE  \A a \in Arrays : host[a] = Null
BY DEF HostHeld, Running

\* A command that gives a name a buffer keeps the array it allocated until its
\* words are stored.
LEMMA BufferHeld ==
    ASSUME NEW c, Buffered(c), Reuse(c) \/ Allocate(c) \/ Replace(c),
           \A a \in Arrays : host'[a] # Null => c.op = "store" /\ c.array = a
    PROVE  HostHeld'
<1>1. \/ \E buffer : Queue(c, buffer)
      \/ pc' = "release" /\ cmd' = c
  BY DEF Reuse, Allocate, Replace, Wait
<1>2. CASE c.op = "store"
  <2>1. pc' \in {"stored", "release"} /\ cmd' = c
    BY <1>1, <1>2 DEF Queue, Store, Wait
  <2> QED BY <1>2, <2>1 DEF HostHeld
<1>3. CASE c.op # "store"
  BY <1>3 DEF HostHeld
<1> QED BY <1>2, <1>3

\* A command takes an array only to hold it.
LEMMA CommandHeld ==
    ASSUME TypeOK, HostHeld, SessionAssumption, Command PROVE HostHeld'
<1>1. pc = "command" /\ \A a \in Arrays : host[a] = Null
  <2>1. pc = "command"
    BY DEF Command, StoreCommand, OutputCommand, KernelCommand, RunCommand, ReadCommand,
           FreeCommand, QuitCommand
  <2> QED BY <2>1, NoneHeld
<1>2. ASSUME NEW n \in Names, NEW d \in Inputs, StoreCommand(n, d) PROVE HostHeld'
  <2>1. PICK a \in Arrays :
           /\ host' = [host EXCEPT ![a] = d]
           /\ BufferCommand([op |-> "store", name |-> n, size |-> Len(d), array |-> a])
    BY <1>2 DEF StoreCommand
  <2> DEFINE c == [op |-> "store", name |-> n, size |-> Len(d), array |-> a]
  <2>2. Buffered(c) /\ c.op = "store" /\ c.array = a
    BY DEF Buffered, CommandSet, Sizes
  <2>3. \A x \in Arrays : host'[x] # Null => x = a
    BY <1>1, <2>1 DEF TypeOK
  <2> HIDE DEF c
  <2>4. Reuse(c) \/ Allocate(c) \/ Replace(c)
    BY <2>1 DEF BufferCommand, c
  <2> QED BY <2>2, <2>3, <2>4, BufferHeld
<1>3. ASSUME NEW n \in Names, NEW o \in Outputs, OutputCommand(n, o) PROVE HostHeld'
  BY <1>1, <1>3 DEF OutputCommand, HostHeld
<1>4. ASSUME NEW n \in Names, ReadCommand(n) PROVE HostHeld'
  <2>1. PICK a \in Arrays :
           /\ \E junk : host' = [host EXCEPT ![a] = junk]
           /\ pc' = "reading" /\ cmd' = [op |-> "read", name |-> n, array |-> a]
    BY <1>4 DEF ReadCommand, Wait
  <2>2. \A x \in Arrays : host'[x] # Null => x = a
    BY <1>1, <2>1 DEF TypeOK
  <2> QED BY <2>1, <2>2 DEF HostHeld
<1>5. CASE host' = host
  BY <1>1, <1>5 DEF HostHeld
<1> QED BY <1>2, <1>3, <1>4, <1>5
        DEF Command, KernelCommand, RunCommand, FreeCommand, QuitCommand

\* A command that goes on frees the array it holds.
LEMMA ContinueHeld ==
    ASSUME SessionInv, HostHeld, Continue PROVE HostHeld'
<1>1. CASE Reallocate
  <2>1. Buffered(cmd) /\ Allocate(cmd) /\ host' = host /\ pc = "release"
    BY <1>1 DEF Reallocate, Buffered, SessionInv, TypeOK
  <2>2. \A a \in Arrays : host'[a] # Null => cmd.op = "store" /\ cmd.array = a
    BY <1>1, <2>1 DEF HostHeld, Running, Reallocate
  <2> QED BY <2>1, <2>2, BufferHeld
<1>2. CASE Reload \/ RemoveEntry
  <2>1. host' = host /\ \A a \in Arrays : host[a] = Null
    BY <1>2, NoneHeld DEF Reload, RemoveEntry
  <2> QED BY <2>1 DEF HostHeld
<1>3. CASE Stored \/ ReadBack
  <2>1. host' = [host EXCEPT ![cmd.array] = Null] /\ pc \in {"stored", "reading"}
    BY <1>3 DEF Stored, ReadBack
  <2>2. \A a \in Arrays : host'[a] = Null
    BY <2>1 DEF HostHeld, Running, SessionInv, TypeOK
  <2> QED BY <2>2 DEF HostHeld
<1>4. CASE Exit \/ SyncError \/ OutOfMemory
  BY <1>4 DEF Exit, SyncError, OutOfMemory, HostHeld, Running
<1> QED BY <1>1, <1>2, <1>3, <1>4 DEF Continue

\* The device takes and frees no array.
LEMMA DeviceHeld ==
    ASSUME SessionInv, HostHeld, DeviceStep PROVE HostHeld'
<1> DEFINE t == Head(stream)
<1>1. t = stream[1] /\ 1 \in DOMAIN stream /\ UNCHANGED <<pc, cmd>>
  BY DEF DeviceStep, SessionInv, TypeOK
<1>2. host' = IF t.op = "fetch" THEN [host EXCEPT ![t.array] = device[t.buffer]] ELSE host
  BY DEF DeviceStep
<1>3. t.op = "fetch" => host[t.array] # Null
  BY <1>1 DEF SessionInv, QueueLive
<1> HIDE DEF t
<1>4. \A a \in Arrays : host'[a] # Null => host[a] # Null
  BY <1>2, <1>3 DEF SessionInv, TypeOK
<1> QED BY <1>1, <1>4 DEF HostHeld, Running

\* Between commands no host array is allocated, so none is lost, whatever was
\* loaded, replaced or read: store_words and `read` free what they fill.
THEOREM ArraysFreed == Spec => []HostFreed
<1>1. Init => HostHeld
  BY DEF Init, HostHeld
<1>2. SessionInv /\ HostHeld /\ [Next]_vars => HostHeld'
  <2> SUFFICES ASSUME SessionInv, HostHeld, [Next]_vars PROVE HostHeld'
    OBVIOUS
  <2>1. CASE Command
    BY <2>1, CommandHeld, SessionAssumption DEF SessionInv
  <2>2. CASE Continue
    BY <2>2, ContinueHeld
  <2>3. CASE DeviceStep
    BY <2>3, DeviceHeld
  <2>4. CASE Die \/ LaunchFault \/ Ended \/ UNCHANGED vars
    BY <2>4 DEF Die, LaunchFault, Ended, vars, HostHeld, Running
  <2> QED BY <2>1, <2>2, <2>3, <2>4 DEF Next
<1>3. HostHeld => HostFreed
  BY NoneHeld DEF HostFreed
<1> QED BY <1>1, <1>2, <1>3, Invariance, PTL DEF Spec

-----------------------------------------------------------------------------
(* Induction along a queue. *)

Below == {ss \in Nat \X Nat : ss[1] < ss[2]}

\* The order of the naturals is well founded.
LEMMA BelowWellFounded == IsWellFoundedOn(Below, Nat)
BY NatLessThanWellFounded DEF OpToRel, Below

\* Induction along the places of a queue.
LEMMA Along ==
    ASSUME NEW n \in Nat, NEW S, 0 \in S, \A k \in 1..n : k - 1 \in S => k \in S
    PROVE  0..n \subseteq S
<1> DEFINE T == (0..n) \ S
<1> SUFFICES ASSUME T # {} PROVE FALSE
  OBVIOUS
<1>1. PICK x \in T : \A y \in T : ~(<<y, x>> \in Below)
  <2>1. T \subseteq Nat
    OBVIOUS
  <2> HIDE DEF T
  <2> QED BY <2>1, BelowWellFounded, WFMin, Zenon
<1>2. x \in 1..n /\ x - 1 \in 0..n
  OBVIOUS
<1>3. <<x - 1, x>> \in Below
  BY <1>2 DEF Below
<1>4. x - 1 \notin T
  BY <1>1, <1>3
<1> QED BY <1>2, <1>4

-----------------------------------------------------------------------------
(* Device memory after the queued tasks, as a function of the memory now,  *)
(* the queue, the host arrays and the loaded modules.                      *)

Effect(t, mem, h, m) ==
    [mem EXCEPT ![t.buffer] =
        CASE t.op = "copy" -> h[t.array]
          [] t.op = "zero" -> [i \in DOMAIN mem[t.buffer] |-> 0]
          [] t.op = "first" -> [mem[t.buffer] EXCEPT ![1] = t.word]
          [] t.op = "launch" -> Compute(m[t.module],
                                        [i \in DOMAIN t.ins |-> mem[t.ins[i]]],
                                        mem[t.buffer])
          [] OTHER -> mem[t.buffer]]

\* The memory after each task.
Course(f, d, s, h, m) ==
    f = [k \in 0..Len(s) |-> IF k = 0 THEN d ELSE Effect(s[k], f[k - 1], h, m)]

Memory(d, s, h, m) == (CHOOSE f : Course(f, d, s, h, m))[Len(s)]

\* Effect is what a task of the session does.
LEMMA EffectIs ==
    \A t, mem : After(t, mem) = Effect(t, mem, host, modules)
BY DEF After, Written, Effect

\* Settled is the memory after the stream.
LEMMA SettledIs == Settled = Memory(device, stream, host, modules)
<1>1. Later = CHOOSE f : f = [k \in 0..Len(stream) |->
                                IF k = 0 THEN device ELSE After(stream[k], f[k - 1])]
  BY DEF Later
<1>2. \A f : Course(f, device, stream, host, modules) <=>
                f = [k \in 0..Len(stream) |->
                        IF k = 0 THEN device ELSE After(stream[k], f[k - 1])]
  BY EffectIs, Zenon DEF Course
<1>3. Later = CHOOSE f : Course(f, device, stream, host, modules)
  BY <1>1, <1>2, Zenon
<1> QED BY <1>3 DEF Settled, Memory

\* A queue has a course, from one memory to the next.
LEMMA CourseExists ==
    ASSUME NEW d, NEW s, Len(s) \in Nat, NEW h, NEW m
    PROVE  \E f : Course(f, d, s, h, m)
<1> DEFINE Upto(f, n) == f = [k \in 0..n |-> IF k = 0 THEN d ELSE Effect(s[k], f[k - 1], h, m)]
           S == {n \in 0..Len(s) : \E f : Upto(f, n)}
<1>1. 0 \in S
  <2>1. Upto([k \in 0..0 |-> d], 0) /\ 0 \in 0..Len(s)
    OBVIOUS
  <2> QED BY <2>1, Zenon
<1>2. ASSUME NEW n \in 1..Len(s), n - 1 \in S PROVE n \in S
  <2>1. PICK f : Upto(f, n - 1)
    BY <1>2
  <2> DEFINE g == [k \in 0..n |-> IF k = n THEN Effect(s[n], f[n - 1], h, m) ELSE f[k]]
  <2>2. \A k \in 0..n - 1 : g[k] = f[k]
    OBVIOUS
  <2>3. ASSUME NEW k \in 0..n
        PROVE  g[k] = IF k = 0 THEN d ELSE Effect(s[k], g[k - 1], h, m)
    <3>1. CASE k = 0
      BY <2>1, <3>1
    <3>2. CASE k = n
      <4>1. n - 1 \in 0..n - 1 /\ k # 0
        BY <3>2
      <4>2. g[k] = Effect(s[n], f[n - 1], h, m)
        BY <3>2
      <4> HIDE DEF g
      <4> QED BY <2>2, <3>2, <4>1, <4>2
    <3>3. CASE k \in 1..n - 1
      <4>1. k - 1 \in 0..n - 1 /\ k # 0 /\ k \in 0..n - 1
        BY <3>3
      <4>2. f[k] = Effect(s[k], f[k - 1], h, m)
        BY <2>1, <4>1
      <4> HIDE DEF g
      <4> QED BY <2>2, <4>1, <4>2
    <3> QED BY <3>1, <3>2, <3>3
  <2>4. g = [k \in 0..n |-> g[k]]
    OBVIOUS
  <2> HIDE DEF g
  <2>5. Upto(g, n)
    BY <2>3, <2>4, Zenon
  <2>6. n \in 0..Len(s)
    OBVIOUS
  <2> QED BY <2>5, <2>6, Zenon
<1> HIDE DEF S
<1>3. 0..Len(s) \subseteq S
  BY <1>1, <1>2, Along
<1>4. Len(s) \in S
  BY <1>3
<1> QED BY <1>4 DEF S, Course

\* A queue has one course.
LEMMA CourseUnique ==
    ASSUME NEW d, NEW s, Len(s) \in Nat, NEW h, NEW m,
           NEW f, NEW g, Course(f, d, s, h, m), Course(g, d, s, h, m)
    PROVE  f[Len(s)] = g[Len(s)]
<1> DEFINE S == {k \in 0..Len(s) : f[k] = g[k]}
<1>1. 0 \in S
  BY DEF Course
<1>2. ASSUME NEW k \in 1..Len(s), k - 1 \in S PROVE k \in S
  <2>1. /\ f[k] = Effect(s[k], f[k - 1], h, m)
        /\ g[k] = Effect(s[k], g[k - 1], h, m)
    BY SMTT(30) DEF Course
  <2> QED BY <1>2, <2>1
<1> HIDE DEF S
<1>3. 0..Len(s) \subseteq S
  BY <1>1, <1>2, Along
<1>4. Len(s) \in S
  BY <1>3
<1> QED BY <1>4 DEF S

\* The recursive function is the end of the course.
LEMMA MemoryIs ==
    ASSUME NEW d, NEW s, Len(s) \in Nat, NEW h, NEW m, NEW f, Course(f, d, s, h, m)
    PROVE  Memory(d, s, h, m) = f[Len(s)]
<1>1. Course(CHOOSE g : Course(g, d, s, h, m), d, s, h, m)
  BY Zenon
<1>2. (CHOOSE g : Course(g, d, s, h, m))[Len(s)] = f[Len(s)]
  BY <1>1, CourseUnique
<1> QED BY <1>2 DEF Memory

\* A function that takes the steps of a course is one.
LEMMA CourseSteps ==
    ASSUME NEW d, NEW s, Len(s) \in Nat, NEW h, NEW m,
           NEW f, f = [k \in 0..Len(s) |-> f[k]], f[0] = d,
           \A k \in 1..Len(s) : f[k] = Effect(s[k], f[k - 1], h, m)
    PROVE  Course(f, d, s, h, m)
<1>1. \A k \in 0..Len(s) : f[k] = IF k = 0 THEN d ELSE Effect(s[k], f[k - 1], h, m)
  OBVIOUS
<1> QED BY <1>1, Zenon DEF Course

\* A course begins with the memory and follows the tasks.
LEMMA CourseTakes ==
    ASSUME NEW d, NEW s, Len(s) \in Nat, NEW h, NEW m, NEW f, Course(f, d, s, h, m)
    PROVE  /\ f[0] = d
           /\ \A k \in 1..Len(s) : f[k] = Effect(s[k], f[k - 1], h, m)
BY DEF Course

\* An empty queue leaves memory as it is.
LEMMA MemoryEmpty ==
    ASSUME NEW d, NEW h, NEW m PROVE Memory(d, <<>>, h, m) = d
<1>1. Len(<<>>) = 0 /\ Len(<<>>) \in Nat
  OBVIOUS
<1>2. PICK f : Course(f, d, <<>>, h, m)
  BY <1>1, CourseExists
<1>3. f[0] = d
  BY <1>1, <1>2 DEF Course
<1>4. Memory(d, <<>>, h, m) = f[Len(<<>>)]
  BY <1>1, <1>2, MemoryIs, Zenon
<1> QED BY <1>1, <1>3, <1>4, Zenon

\* A task that is queued takes effect after those before it.
LEMMA MemoryAppend ==
    ASSUME NEW X, NEW s \in Seq(X), NEW t \in X, NEW d, NEW h, NEW m
    PROVE  Memory(d, Append(s, t), h, m) = Effect(t, Memory(d, s, h, m), h, m)
<1> DEFINE a == Append(s, t)
           n == Len(s)
<1>1. /\ n \in Nat /\ Len(a) = n + 1 /\ Len(a) \in Nat /\ a[n + 1] = t
      /\ \A k \in 1..n : a[k] = s[k]
  OBVIOUS
<1> HIDE DEF a, n
<1>2. PICK g : Course(g, d, a, h, m)
  BY <1>1, CourseExists
<1>3. g[0] = d /\ \A k \in 1..n + 1 : g[k] = Effect(a[k], g[k - 1], h, m)
  BY <1>1, <1>2, CourseTakes
<1> DEFINE f == [k \in 0..n |-> g[k]]
<1>4. Course(f, d, s, h, m)
  <2>1. f[0] = d /\ f = [k \in 0..n |-> f[k]]
    BY <1>1, <1>3
  <2>2. \A k \in 1..n : f[k] = Effect(s[k], f[k - 1], h, m)
    <3> SUFFICES ASSUME NEW k \in 1..n PROVE f[k] = Effect(s[k], f[k - 1], h, m)
      OBVIOUS
    <3>1. f[k] = g[k] /\ f[k - 1] = g[k - 1] /\ k \in 1..n + 1
      BY <1>1
    <3> HIDE DEF f
    <3> QED BY <1>1, <1>3, <3>1
  <2> HIDE DEF f
  <2> QED BY <1>1, <2>1, <2>2, CourseSteps DEF n
<1>5. Memory(d, s, h, m) = g[n]
  <2>1. f[n] = g[n]
    BY <1>1
  <2> HIDE DEF f
  <2> QED BY <1>1, <1>4, <2>1, MemoryIs DEF n
<1>6. Memory(d, a, h, m) = g[n + 1]
  BY <1>1, <1>2, MemoryIs
<1>7. g[n + 1] = Effect(t, g[n], h, m)
  BY <1>1, <1>3
<1> QED BY <1>5, <1>6, <1>7 DEF a

\* The device takes the oldest task: the memory after all of them is the same.
LEMMA MemoryHead ==
    ASSUME NEW X, NEW s \in Seq(X), s # <<>>, NEW d, NEW h, NEW m
    PROVE  Memory(Effect(Head(s), d, h, m), Tail(s), h, m) = Memory(d, s, h, m)
<1> DEFINE r == Tail(s)
           n == Len(s)
<1>1. /\ n \in Nat /\ 0 < n /\ Len(r) = n - 1 /\ Len(r) \in Nat /\ Head(s) = s[1]
      /\ \A k \in 1..n - 1 : r[k] = s[k + 1]
  OBVIOUS
<1> HIDE DEF r, n
<1>2. PICK g : Course(g, d, s, h, m)
  BY <1>1, CourseExists DEF n
<1>3. g[0] = d /\ \A k \in 1..n : g[k] = Effect(s[k], g[k - 1], h, m)
  BY <1>1, <1>2, CourseTakes DEF n
<1> DEFINE f == [k \in 0..n - 1 |-> g[k + 1]]
<1>4. Course(f, Effect(Head(s), d, h, m), r, h, m)
  <2>1. f[0] = g[1] /\ f = [k \in 0..n - 1 |-> f[k]]
    BY <1>1
  <2>2. g[1] = Effect(Head(s), d, h, m)
    BY <1>1, <1>3
  <2>3. \A k \in 1..n - 1 : f[k] = Effect(r[k], f[k - 1], h, m)
    <3> SUFFICES ASSUME NEW k \in 1..n - 1 PROVE f[k] = Effect(r[k], f[k - 1], h, m)
      OBVIOUS
    <3>1. f[k] = g[k + 1] /\ f[k - 1] = g[k] /\ k + 1 \in 1..n /\ (k + 1) - 1 = k
      BY <1>1
    <3> HIDE DEF f
    <3> QED BY <1>1, <1>3, <3>1
  <2> HIDE DEF f
  <2> QED BY <1>1, <2>1, <2>2, <2>3, CourseSteps
<1>5. f[n - 1] = g[n]
  BY <1>1
<1> HIDE DEF f
<1>6. Memory(Effect(Head(s), d, h, m), r, h, m) = f[n - 1]
  BY <1>1, <1>4, MemoryIs
<1>7. Memory(d, s, h, m) = g[n]
  BY <1>1, <1>2, MemoryIs DEF n
<1> QED BY <1>5, <1>6, <1>7 DEF r

\* Host arrays and modules that no queued task uses may change.
SameEffects(s, h, m, h2, m2) ==
    \A k \in 1..Len(s) : \A mem : Effect(s[k], mem, h, m) = Effect(s[k], mem, h2, m2)

\* A queue whose tasks have the same effects gives the same memory.
LEMMA MemorySame ==
    ASSUME NEW s, Len(s) \in Nat, NEW d, NEW h, NEW m, NEW h2, NEW m2,
           SameEffects(s, h, m, h2, m2)
    PROVE  Memory(d, s, h2, m2) = Memory(d, s, h, m)
<1>1. PICK f : Course(f, d, s, h, m)
  BY CourseExists
<1>2. Course(f, d, s, h2, m2)
  <2>1. f[0] = d /\ \A k \in 1..Len(s) : f[k] = Effect(s[k], f[k - 1], h2, m2)
    <3>1. f[0] = d /\ \A k \in 1..Len(s) : f[k] = Effect(s[k], f[k - 1], h, m)
      BY <1>1 DEF Course
    <3> QED BY <3>1, Zenon DEF SameEffects
  <2>2. f = [k \in 0..Len(s) |-> f[k]]
    BY <1>1 DEF Course
  <2> QED BY <2>1, <2>2, CourseSteps
<1> QED BY <1>1, <1>2, MemoryIs

-----------------------------------------------------------------------------
(* The memory the queue leads to is as the memory now: the same pointers   *)
(* are allocated, and what they hold are contents.                         *)

Memories == [Pointers -> Contents \cup {Null}]

\* The same pointers are allocated.
Alike(d, e) == \A q \in Pointers : e[q] # Null <=> d[q] # Null

\* What a task uses is allocated.
Usable(t, d, h, m) ==
    /\ d[t.buffer] # Null
    /\ t.op \in {"copy", "fetch"} => h[t.array] # Null
    /\ t.op = "launch" => /\ m[t.module] # Null
                          /\ \A i \in DOMAIN t.ins : d[t.ins[i]] # Null

\* What a queued task has.
LEMMA TaskShape ==
    ASSUME NEW t \in TaskSet
    PROVE  /\ t.buffer \in Pointers
           /\ t.op \in {"copy", "fetch", "zero", "first", "launch"}
           /\ t.op \in {"copy", "fetch"} => t.array \in Arrays
           /\ t.op = "first" => t.word \in Outputs
           /\ t.op = "launch" => /\ t.module \in Handles
                                 /\ \E j \in 0..MaxInputs : t.ins \in [1..j -> Pointers]
BY DEF TaskSet

\* A task that finds what it uses gives memory of the same buffers.
LEMMA EffectTyped ==
    ASSUME SessionAssumption, NEW t \in TaskSet, NEW d \in Memories,
           NEW h \in [Arrays -> Contents \cup {Null}],
           NEW m \in [Handles -> Images \cup {Null}], Usable(t, d, h, m)
    PROVE  Effect(t, d, h, m) \in Memories /\ Alike(d, Effect(t, d, h, m))
<1>1. /\ t.buffer \in Pointers
      /\ t.op \in {"copy", "fetch", "zero", "first", "launch"}
      /\ t.op \in {"copy", "fetch"} => t.array \in Arrays
      /\ t.op = "first" => t.word \in Outputs
      /\ t.op = "launch" => /\ t.module \in Handles
                            /\ \E j \in 0..MaxInputs : t.ins \in [1..j -> Pointers]
  BY TaskShape
<1>2. d[t.buffer] \in Contents
  BY <1>1 DEF Usable, Memories
<1> DEFINE w == CASE t.op = "copy" -> h[t.array]
                  [] t.op = "zero" -> [i \in DOMAIN d[t.buffer] |-> 0]
                  [] t.op = "first" -> [d[t.buffer] EXCEPT ![1] = t.word]
                  [] t.op = "launch" -> Compute(m[t.module],
                                                [i \in DOMAIN t.ins |-> d[t.ins[i]]],
                                                d[t.buffer])
                  [] OTHER -> d[t.buffer]
<1>3. w \in Contents
  <2>1. CASE t.op = "copy"
    BY <2>1, <1>1 DEF Usable
  <2>2. CASE t.op = "zero"
    BY <2>2, <1>2 DEF SessionAssumption
  <2>3. CASE t.op = "first"
    BY <2>3, <1>1, <1>2 DEF SessionAssumption
  <2>4. CASE t.op = "launch"
    <3>1. PICK j \in 0..MaxInputs : t.ins \in [1..j -> Pointers]
      BY <2>4, <1>1
    <3>2. [i \in DOMAIN t.ins |-> d[t.ins[i]]] \in [1..j -> Contents]
      BY <2>4, <3>1 DEF Usable, Memories
    <3>3. m[t.module] \in Images
      BY <2>4, <1>1 DEF Usable
    <3> QED BY <2>4, <3>2, <3>3, <1>2 DEF SessionAssumption
  <2>5. CASE t.op = "fetch"
    BY <2>5, <1>2
  <2> QED BY <1>1, <2>1, <2>2, <2>3, <2>4, <2>5
<1>4. Effect(t, d, h, m) = [d EXCEPT ![t.buffer] = w]
  BY DEF Effect
<1> HIDE DEF w
<1> QED BY <1>1, <1>2, <1>3, <1>4 DEF Memories, Alike, SessionAssumption

\* Every memory of a course has the same buffers.
LEMMA CourseTyped ==
    ASSUME SessionAssumption, NEW s \in Seq(TaskSet), NEW d \in Memories,
           NEW h \in [Arrays -> Contents \cup {Null}],
           NEW m \in [Handles -> Images \cup {Null}],
           \A k \in 1..Len(s) : Usable(s[k], d, h, m),
           NEW f, Course(f, d, s, h, m)
    PROVE  \A k \in 0..Len(s) : f[k] \in Memories /\ Alike(d, f[k])
<1> DEFINE S == {k \in 0..Len(s) : f[k] \in Memories /\ Alike(d, f[k])}
<1>1. Len(s) \in Nat /\ \A k \in 1..Len(s) : s[k] \in TaskSet
  OBVIOUS
<1>2. f[0] = d /\ \A k \in 1..Len(s) : f[k] = Effect(s[k], f[k - 1], h, m)
  BY <1>1, CourseTakes
<1>3. 0 \in S
  BY <1>1, <1>2 DEF Alike
<1>4. ASSUME NEW k \in 1..Len(s), k - 1 \in S PROVE k \in S
  <2>1. f[k - 1] \in Memories /\ Alike(d, f[k - 1])
    BY <1>4
  <2>2. Usable(s[k], f[k - 1], h, m)
    <3>1. /\ s[k].buffer \in Pointers
          /\ s[k].op = "launch" => \A i \in DOMAIN s[k].ins : s[k].ins[i] \in Pointers
      BY <1>1, TaskShape, SMTT(30)
    <3>2. Usable(s[k], d, h, m)
      OBVIOUS
    <3> QED BY <2>1, <3>1, <3>2 DEF Usable, Alike
  <2>3. Effect(s[k], f[k - 1], h, m) \in Memories /\ Alike(f[k - 1], Effect(s[k], f[k - 1], h, m))
    BY <1>1, <2>1, <2>2, EffectTyped
  <2>4. Alike(d, f[k])
    BY <1>2, <2>1, <2>3 DEF Alike
  <2> QED BY <1>2, <2>3, <2>4
<1> HIDE DEF S
<1>5. 0..Len(s) \subseteq S
  BY <1>1, <1>3, <1>4, Along
<1> QED BY <1>5 DEF S

\* A queue that finds what it uses gives memory of the same buffers.
LEMMA MemoryTyped ==
    ASSUME SessionAssumption, NEW s \in Seq(TaskSet), NEW d \in Memories,
           NEW h \in [Arrays -> Contents \cup {Null}],
           NEW m \in [Handles -> Images \cup {Null}],
           \A k \in 1..Len(s) : Usable(s[k], d, h, m)
    PROVE  Memory(d, s, h, m) \in Memories /\ Alike(d, Memory(d, s, h, m))
<1>1. Len(s) \in Nat /\ Len(s) \in 0..Len(s)
  OBVIOUS
<1>2. PICK f : Course(f, d, s, h, m)
  BY <1>1, CourseExists
<1>3. Memory(d, s, h, m) = f[Len(s)]
  BY <1>1, <1>2, MemoryIs
<1> QED BY <1>1, <1>2, <1>3, CourseTyped

\* The memories differ at one buffer.
Apart(d, d2, p, x) == d2 = [d EXCEPT ![p] = x]

\* A buffer that no queued task uses may be allocated.
LEMMA MemoryElsewhere ==
    ASSUME SessionAssumption, NEW s \in Seq(TaskSet), NEW d \in Memories,
           NEW h \in [Arrays -> Contents \cup {Null}],
           NEW m \in [Handles -> Images \cup {Null}],
           \A k \in 1..Len(s) : Usable(s[k], d, h, m),
           NEW p \in Pointers, d[p] = Null, NEW x, NEW d2, Apart(d, d2, p, x)
    PROVE  Apart(Memory(d, s, h, m), Memory(d2, s, h, m), p, x)
<1>1. Len(s) \in Nat /\ \A k \in 1..Len(s) : s[k] \in TaskSet
  OBVIOUS
<1>2. PICK f : Course(f, d, s, h, m)
  BY <1>1, CourseExists
<1>3. f[0] = d /\ \A k \in 1..Len(s) : f[k] = Effect(s[k], f[k - 1], h, m)
  BY <1>1, <1>2, CourseTakes
<1>4. \A k \in 0..Len(s) : f[k] \in Memories
  BY <1>2, CourseTyped
<1> DEFINE g == [k \in 0..Len(s) |-> [f[k] EXCEPT ![p] = x]]
<1>5. ASSUME NEW k \in 1..Len(s), NEW mem \in Memories
      PROVE  Effect(s[k], [mem EXCEPT ![p] = x], h, m) =
               [Effect(s[k], mem, h, m) EXCEPT ![p] = x]
  <2>1. /\ s[k].buffer \in Pointers
        /\ s[k].op = "launch" => \E j \in 0..MaxInputs : s[k].ins \in [1..j -> Pointers]
    BY <1>1, TaskShape
  <2>2. /\ s[k].buffer # p
        /\ s[k].op = "launch" => \A i \in DOMAIN s[k].ins : s[k].ins[i] # p
    <3>1. Usable(s[k], d, h, m)
      OBVIOUS
    <3> QED BY <3>1 DEF Usable
  <2> DEFINE e == [mem EXCEPT ![p] = x]
  <2>3. e[s[k].buffer] = mem[s[k].buffer]
    BY <2>1, <2>2 DEF Memories
  <2>4. s[k].op = "launch" => [i \in DOMAIN s[k].ins |-> e[s[k].ins[i]]] =
                              [i \in DOMAIN s[k].ins |-> mem[s[k].ins[i]]]
    <3>1. s[k].op = "launch" => \A i \in DOMAIN s[k].ins : e[s[k].ins[i]] = mem[s[k].ins[i]]
      BY <2>1, <2>2 DEF Memories
    <3> HIDE DEF e
    <3> QED BY <3>1
  <2> HIDE DEF e
  <2>5. PICK w : /\ Effect(s[k], e, h, m) = [e EXCEPT ![s[k].buffer] = w]
                 /\ Effect(s[k], mem, h, m) = [mem EXCEPT ![s[k].buffer] = w]
    <3>1. CASE s[k].op = "launch"
      BY <2>3, <2>4, <3>1, Zenon DEF Effect
    <3>2. CASE s[k].op # "launch"
      BY <2>3, <3>2 DEF Effect
    <3> QED BY <3>1, <3>2
  <2>6. [e EXCEPT ![s[k].buffer] = w] = [[mem EXCEPT ![s[k].buffer] = w] EXCEPT ![p] = x]
    BY <2>1, <2>2 DEF e, Memories
  <2> QED BY <2>5, <2>6 DEF e
<1>6. Course(g, d2, s, h, m)
  <2>1. g[0] = d2 /\ g = [k \in 0..Len(s) |-> g[k]]
    <3>1. 0 \in 0..Len(s)
      BY <1>1
    <3>2. g[0] = [f[0] EXCEPT ![p] = x] /\ g = [k \in 0..Len(s) |-> g[k]]
      BY <3>1, Zenon
    <3> HIDE DEF g
    <3> QED BY <1>3, <3>2, Zenon DEF Apart
  <2>2. ASSUME NEW k \in 1..Len(s) PROVE g[k] = Effect(s[k], g[k - 1], h, m)
    <3>1. k \in 0..Len(s) /\ k - 1 \in 0..Len(s)
      BY <1>1
    <3>2. g[k] = [f[k] EXCEPT ![p] = x] /\ g[k - 1] = [f[k - 1] EXCEPT ![p] = x]
      BY <3>1
    <3> HIDE DEF g
    <3>3. f[k - 1] \in Memories /\ f[k] = Effect(s[k], f[k - 1], h, m)
      BY <1>3, <1>4, <3>1
    <3>4. Effect(s[k], [f[k - 1] EXCEPT ![p] = x], h, m) =
            [Effect(s[k], f[k - 1], h, m) EXCEPT ![p] = x]
      BY <1>5, <3>3
    <3> QED BY <3>2, <3>3, <3>4, Zenon
  <2> HIDE DEF g
  <2> QED BY <1>1, <2>1, <2>2, CourseSteps
<1>7. g[Len(s)] = [f[Len(s)] EXCEPT ![p] = x]
  BY <1>1
<1> HIDE DEF g
<1>8. /\ Memory(d, s, h, m) = f[Len(s)]
      /\ Memory(d2, s, h, m) = g[Len(s)]
  BY <1>1, <1>2, <1>6, MemoryIs
<1> QED BY <1>7, <1>8 DEF Apart

-----------------------------------------------------------------------------
(* The invariant of the refinement. *)

\* What a buffer will hold has the size of its entry.
Sized ==
    \A i \in DOMAIN entries :
        entries[i].buffer # Null =>
            DOMAIN Settled[entries[i].buffer] = 1..entries[i].size

\* A copy is queued only while its command waits for it, and so is the fetch of
\* a `read`, which is the last task: host arrays may change meanwhile.
Queues ==
    Running => \A k \in 1..Len(stream) :
        /\ stream[k].op = "copy" => pc = "stored"
        /\ stream[k].op = "fetch" => pc = "reading" /\ k = Len(stream)

\* The command that waits for release still has the words it will store.
Storing ==
    pc = "release" =>
        /\ cmd.op = "store" => host[cmd.array] \in Inputs /\ cmd.size = Len(host[cmd.array])
        /\ cmd.op = "output" => cmd.size = cmd.word + 1

\* The array a `read` waits for holds its buffer, or the last task fetches it.
Reading ==
    pc = "reading" =>
        /\ BufferOf(cmd.name) # Null
        /\ IF stream = <<>> THEN host[cmd.array] = device[BufferOf(cmd.name)]
           ELSE stream[Len(stream)] = Fetch(BufferOf(cmd.name), cmd.array)

RefinementInv == Sized /\ Queues /\ Storing /\ Reading

-----------------------------------------------------------------------------
(* What a name holds. *)

SettledMemory == Settled = Memory(device, stream, host, modules)

\* What Settled is after a step.
LEMMA SettledNext == Settled' = Memory(device', stream', host', modules')
<1>1. SettledMemory
  BY SettledIs DEF SettledMemory
<1>2. SettledMemory'
  BY <1>1, PTL
<1> QED BY <1>2 DEF SettledMemory

\* A name holds what its entry says, and nothing without an entry.
Lookup ==
    TypeOK /\ TableOK =>
        \A n : /\ \A i \in DOMAIN entries : entries[i].name = n =>
                     /\ Known(n) /\ find_entry(n) = i
                     /\ BufferOf(n) = entries[i].buffer
                     /\ ModuleOf(n) = entries[i].module
               /\ (\A i \in DOMAIN entries : entries[i].name # n) =>
                     ~Known(n) /\ BufferOf(n) = Null /\ ModuleOf(n) = Null

\* What a name has is what its entry says.
LEMMA LookupHolds == Lookup
<1> SUFFICES ASSUME TypeOK, TableOK, NEW n
             PROVE  /\ \A i \in DOMAIN entries : entries[i].name = n =>
                          /\ Known(n) /\ find_entry(n) = i
                          /\ BufferOf(n) = entries[i].buffer
                          /\ ModuleOf(n) = entries[i].module
                    /\ (\A i \in DOMAIN entries : entries[i].name # n) =>
                          ~Known(n) /\ BufferOf(n) = Null /\ ModuleOf(n) = Null
  BY DEF Lookup
<1>1. ASSUME NEW i \in DOMAIN entries, entries[i].name = n
      PROVE  /\ Known(n) /\ find_entry(n) = i
             /\ BufferOf(n) = entries[i].buffer
             /\ ModuleOf(n) = entries[i].module
  <2>1. Known(n) /\ find_entry(n) \in DOMAIN entries /\ entries[find_entry(n)].name = n
    BY <1>1, FindEntry
  <2>2. find_entry(n) = i
    BY <1>1, <2>1 DEF TableOK
  <2> QED BY <2>1, <2>2, HeldByName
<1>2. (\A i \in DOMAIN entries : entries[i].name # n) =>
          ~Known(n) /\ BufferOf(n) = Null /\ ModuleOf(n) = Null
  BY FindEntry, HeldByName
<1> QED BY <1>1, <1>2

\* After a step too, what a name has is what its entry says.
LEMMA LookupNext == Lookup'
BY LookupHolds, PTL

\* No two names hold the same buffer or the same module.
Distinct ==
    TypeOK /\ TableOK /\ OwnedOnce =>
        \A n, o : n # o => /\ BufferOf(n) = BufferOf(o) => BufferOf(n) = Null
                           /\ ModuleOf(n) = ModuleOf(o) => ModuleOf(n) = Null

\* No buffer is in two entries.
LEMMA DistinctHolds == Distinct
<1> SUFFICES ASSUME TypeOK, TableOK, OwnedOnce, NEW n, NEW o, n # o
             PROVE  /\ BufferOf(n) = BufferOf(o) => BufferOf(n) = Null
                    /\ ModuleOf(n) = ModuleOf(o) => ModuleOf(n) = Null
  BY DEF Distinct
<1>1. CASE Known(n) /\ Known(o)
  <2>1. /\ find_entry(n) \in DOMAIN entries /\ entries[find_entry(n)].name = n
        /\ find_entry(o) \in DOMAIN entries /\ entries[find_entry(o)].name = o
    BY <1>1, FindEntry
  <2> QED BY <1>1, <2>1, HeldByName DEF OwnedOnce
<1>2. CASE ~Known(n) \/ ~Known(o)
  BY <1>2, HeldByName
<1> QED BY <1>1, <1>2

\* After a step too, no buffer is in two entries.
LEMMA DistinctNext == Distinct'
BY DistinctHolds, PTL

\* The table changes at one name only.
Kept(name) ==
    /\ \A i \in DOMAIN entries' : entries'[i].name # name =>
          \E j \in DOMAIN entries : entries[j] = entries'[i]
    /\ \A j \in DOMAIN entries : entries[j].name # name =>
          \E i \in DOMAIN entries' : entries'[i] = entries[j]

\* A change of one entry leaves the other names what they have.
LEMMA OthersHeld ==
    ASSUME TypeOK, TableOK, TypeOK', TableOK', NEW name, Kept(name), NEW n, n # name
    PROVE  BufferOf(n)' = BufferOf(n) /\ ModuleOf(n)' = ModuleOf(n)
<1>1. CASE \E i \in DOMAIN entries : entries[i].name = n
  <2>1. PICK i \in DOMAIN entries : entries[i].name = n
    BY <1>1
  <2>2. PICK j \in DOMAIN entries' : entries'[j] = entries[i]
    BY <2>1 DEF Kept
  <2>3. BufferOf(n) = entries[i].buffer /\ ModuleOf(n) = entries[i].module
    BY <2>1, LookupHolds DEF Lookup
  <2>4. BufferOf(n)' = entries'[j].buffer /\ ModuleOf(n)' = entries'[j].module
    BY <2>1, <2>2, LookupNext DEF Lookup
  <2> QED BY <2>2, <2>3, <2>4
<1>2. CASE \A i \in DOMAIN entries : entries[i].name # n
  <2>1. \A i \in DOMAIN entries' : entries'[i].name # n
    BY <1>2 DEF Kept
  <2>2. BufferOf(n) = Null /\ ModuleOf(n) = Null
    BY <1>2, LookupHolds DEF Lookup
  <2>3. BufferOf(n)' = Null /\ ModuleOf(n)' = Null
    BY <2>1, LookupNext DEF Lookup
  <2> QED BY <2>2, <2>3
<1> QED BY <1>1, <1>2

\* Putting an entry changes one name.
LEMMA PutKept ==
    ASSUME TypeOK, TableOK, TypeOK', TableOK', NEW name, NEW p, NEW size, NEW h,
           entries' = Put(name, p, size, h)
    PROVE  /\ Kept(name)
           /\ BufferOf(name)' = p /\ ModuleOf(name)' = h
           /\ \A i \in DOMAIN entries' : entries'[i].name = name =>
                 entries'[i] = Entry(name, p, size, h)
<1> DEFINE new == Entry(name, p, size, h)
           at == IF Known(name) THEN find_entry(name) ELSE Len(entries) + 1
<1>0. /\ entries \in Seq(EntrySet) /\ DOMAIN entries = 1..Len(entries) /\ Len(entries) \in Nat
      /\ new.name = name /\ new.buffer = p /\ new.module = h
  BY DEF TypeOK, Entry
<1> HIDE DEF new
<1>1. /\ at \in DOMAIN entries' /\ entries'[at] = new
      /\ \A i \in DOMAIN entries' : i # at => i \in DOMAIN entries /\ entries'[i] = entries[i]
      /\ \A j \in DOMAIN entries : j # at => j \in DOMAIN entries' /\ entries'[j] = entries[j]
  <2>1. CASE Known(name)
    <3>1. find_entry(name) \in DOMAIN entries
      BY <2>1, FindEntry
    <3>2. entries' = [entries EXCEPT ![find_entry(name)] = new]
      BY <2>1 DEF Put, new
    <3> QED BY <2>1, <3>1, <3>2
  <2>2. CASE ~Known(name)
    <3>1. entries' = Append(entries, new)
      BY <2>2 DEF Put, new
    <3>2. DOMAIN entries' = 1..Len(entries) + 1
      BY <3>1, <1>0
    <3>3. entries'[Len(entries) + 1] = new /\ \A i \in 1..Len(entries) : entries'[i] = entries[i]
      BY <3>1, <1>0
    <3>4. at = Len(entries) + 1
      BY <2>2
    <3> HIDE DEF at
    <3> QED BY <1>0, <3>2, <3>3, <3>4
  <2> QED BY <2>1, <2>2
<1>2. \A j \in DOMAIN entries : entries[j].name # name => j # at
  BY <1>0, FindEntry
<1> HIDE DEF at
<1>3. Kept(name)
  BY <1>0, <1>1, <1>2 DEF Kept
<1>4. BufferOf(name)' = p /\ ModuleOf(name)' = h
  BY <1>0, <1>1, LookupNext DEF Lookup
<1>5. \A i \in DOMAIN entries' : entries'[i].name = name => entries'[i] = new
  BY <1>0, <1>1 DEF TableOK
<1> QED BY <1>3, <1>4, <1>5 DEF new

\* Removing an entry, and moving the last over it, changes one name.
LEMMA WithoutKept ==
    ASSUME TypeOK, TableOK, TypeOK', TableOK', NEW name, Known(name),
           entries' = Without(find_entry(name))
    PROVE  /\ Kept(name)
           /\ BufferOf(name)' = Null /\ ModuleOf(name)' = Null
           /\ \A i \in DOMAIN entries' : entries'[i].name # name
<1> DEFINE k == find_entry(name)
           n == Len(entries)
           from(i) == IF i = k THEN n ELSE i
<1>1. /\ k \in 1..n /\ n \in Nat /\ DOMAIN entries = 1..n /\ entries[k].name = name
      /\ DOMAIN entries' = 1..n - 1
      /\ \A i \in 1..n - 1 : from(i) \in 1..n /\ from(i) # k /\ entries'[i] = entries[from(i)]
  BY FindEntry DEF TypeOK, Without
<1>2. \A j \in 1..n : j # k => \E i \in 1..n - 1 : from(i) = j
  <2> SUFFICES ASSUME NEW j \in 1..n, j # k
               PROVE  \E i \in 1..n - 1 : from(i) = j
    OBVIOUS
  <2>1. CASE j = n  BY <2>1, <1>1
  <2>2. CASE j # n
    <3>1. from(j) = j
      BY <2>2
    <3>2. j \in 1..n - 1
      <4> HIDE DEF n, from, k
      <4> QED BY <2>2, <1>1
    <3> QED BY <3>1, <3>2
  <2> QED BY <2>1, <2>2
<1> HIDE DEF k, n, from
<1>3. Kept(name)
  BY <1>1, <1>2, SMTT(30) DEF Kept
<1>4. \A i \in DOMAIN entries' : entries'[i].name # name
  <2>1. \A j \in DOMAIN entries : entries[j].name = name => j = k
    BY <1>1 DEF TableOK
  <2> QED BY <1>1, <2>1
<1>5. BufferOf(name)' = Null /\ ModuleOf(name)' = Null
  BY <1>4, LookupNext DEF Lookup
<1> QED BY <1>3, <1>4, <1>5

-----------------------------------------------------------------------------
(* The memory the queue leads to, after a step. *)

\* The settled memory has the buffers of the device.
LEMMA SettledTyped ==
    ASSUME SessionAssumption, TypeOK, QueueLive
    PROVE  Settled \in Memories /\ Alike(device, Settled)
<1>1. \A k \in 1..Len(stream) : Usable(stream[k], device, host, modules)
  BY DEF QueueLive, Usable, TypeOK
<1>2. /\ stream \in Seq(TaskSet) /\ device \in Memories
      /\ host \in [Arrays -> Contents \cup {Null}]
      /\ modules \in [Handles -> Images \cup {Null}]
  BY DEF TypeOK, Memories
<1> QED BY <1>1, <1>2, MemoryTyped, SettledIs

\* Modules that are loaded and, but for copies, host arrays that are written,
\* make no difference to the tasks that are queued.
LEMMA EffectsSame ==
    ASSUME TypeOK, QueueLive, NEW h, NEW m,
           \A q \in Handles : modules[q] # Null => m[q] = modules[q],
           h = host \/ \A k \in 1..Len(stream) : stream[k].op # "copy"
    PROVE  SameEffects(stream, h, m, host, modules)
<1> SUFFICES ASSUME NEW k \in 1..Len(stream), NEW mem
             PROVE  Effect(stream[k], mem, h, m) = Effect(stream[k], mem, host, modules)
  BY DEF SameEffects
<1> DEFINE t == stream[k]
<1>1. t \in TaskSet /\ k \in DOMAIN stream
  BY DEF TypeOK
<1>2. t.op = "launch" => m[t.module] = modules[t.module]
  BY <1>1, TaskShape DEF QueueLive
<1>3. t.op = "copy" => h[t.array] = host[t.array]
  OBVIOUS
<1> HIDE DEF t
<1>4. CASE t.op = "copy"
  BY <1>4, <1>3, Zenon DEF Effect, t
<1>5. CASE t.op = "launch"
  BY <1>5, <1>2, Zenon DEF Effect, t
<1>6. CASE t.op # "copy" /\ t.op # "launch"
  BY <1>6 DEF Effect, t
<1> QED BY <1>4, <1>5, <1>6

\* What no queued task uses does not matter to the settled memory.
LEMMA QuietMemory ==
    ASSUME TypeOK, QueueLive, NEW d, NEW h, NEW m,
           \A q \in Handles : modules[q] # Null => m[q] = modules[q],
           h = host \/ \A k \in 1..Len(stream) : stream[k].op # "copy"
    PROVE  Memory(d, stream, h, m) = Memory(d, stream, host, modules)
<1>1. Len(stream) \in Nat
  BY DEF TypeOK
<1>2. SameEffects(stream, h, m, host, modules)
  BY EffectsSame
<1> QED BY <1>1, <1>2, MemorySame

\* Nor to that of the rest of the queue.
LEMMA QuietTail ==
    ASSUME TypeOK, QueueLive, stream # <<>>, NEW d, NEW h, NEW m,
           \A q \in Handles : modules[q] # Null => m[q] = modules[q],
           h = host \/ \A k \in 1..Len(stream) : stream[k].op # "copy"
    PROVE  Memory(d, Tail(stream), h, m) = Memory(d, Tail(stream), host, modules)
<1>1. SameEffects(stream, h, m, host, modules)
  BY EffectsSame
<1>2. PICK s : s = Tail(stream)
  OBVIOUS
<1>3. /\ Len(s) \in Nat
      /\ \A k \in 1..Len(s) : k + 1 \in 1..Len(stream) /\ s[k] = stream[k + 1]
  BY <1>2 DEF TypeOK
<1>4. SameEffects(s, h, m, host, modules)
  BY <1>1, <1>3, Zenon DEF SameEffects
<1> QED BY <1>2, <1>3, <1>4, MemorySame

\* Nothing is queued, freed or overwritten.
LEMMA Undisturbed ==
    ASSUME TypeOK, QueueLive, device' = device, stream' = stream,
           \A q \in Handles : modules[q] # Null => modules'[q] = modules[q],
           host' = host \/ \A k \in 1..Len(stream) : stream[k].op # "copy"
    PROVE  Settled' = Settled
BY QuietMemory, SettledIs, SettledNext

\* A buffer is allocated while tasks are queued.
LEMMA AllocatedApart ==
    ASSUME SessionAssumption, TypeOK, QueueLive,
           NEW p \in Pointers, device[p] = Null, NEW x
    PROVE  Memory([device EXCEPT ![p] = x], stream, host, modules) =
             [Settled EXCEPT ![p] = x]
<1>1. \A k \in 1..Len(stream) : Usable(stream[k], device, host, modules)
  BY DEF QueueLive, Usable, TypeOK
<1>2. PICK s, d, h, m : s = stream /\ d = device /\ h = host /\ m = modules
  OBVIOUS
<1>3. /\ s \in Seq(TaskSet) /\ d \in Memories
      /\ h \in [Arrays -> Contents \cup {Null}]
      /\ m \in [Handles -> Images \cup {Null}]
      /\ \A k \in 1..Len(s) : Usable(s[k], d, h, m)
      /\ d[p] = Null
  BY <1>1, <1>2 DEF TypeOK, Memories
<1>4. PICK e : Apart(d, e, p, x)
  BY DEF Apart
<1>5. Apart(Memory(d, s, h, m), Memory(e, s, h, m), p, x)
  BY <1>3, <1>4, MemoryElsewhere
<1> QED BY <1>2, <1>4, <1>5, SettledIs DEF Apart

\* A task is queued.
LEMMA OneMore ==
    ASSUME TypeOK, NEW t \in TaskSet, stream' = Append(stream, t)
    PROVE  Settled' = Effect(t, Memory(device', stream, host', modules'), host', modules')
<1>1. stream \in Seq(TaskSet)
  BY DEF TypeOK
<1>2. Memory(device', Append(stream, t), host', modules') =
        Effect(t, Memory(device', stream, host', modules'), host', modules')
  BY <1>1, MemoryAppend
<1> QED BY <1>2, SettledNext

\* What a command of a buffer gives its name.
Given(c, h) ==
    IF c.op = "store" THEN h[c.array]
    ELSE [i \in 1..(c.word + 1) |-> IF i = 1 THEN c.word ELSE 0]

\* The tasks of a buffer command give the buffer what the command was given.
LEMMA QueueEffect ==
    ASSUME TypeOK, SessionAssumption, NEW c, Buffered(c), NEW p \in Pointers, Queue(c, p),
           NEW mem \in Memories, mem = Memory(device', stream, host', modules'),
           c.op = "output" => DOMAIN mem[p] = 1..(c.word + 1)
    PROVE  Settled' = [mem EXCEPT ![p] = Given(c, host')]
<1>0. stream \in Seq(TaskSet)
  BY DEF TypeOK
<1>1. CASE c.op = "store"
  <2>1. stream' = Append(stream, Copy(p, c.array))
    BY <1>1 DEF Queue, Store
  <2>2. Copy(p, c.array) \in TaskSet
    BY <1>1, BufferedShape DEF TaskSet, Copy
  <2>3. Settled' = Effect(Copy(p, c.array), mem, host', modules')
    BY <2>1, <2>2, OneMore
  <2>4. Effect(Copy(p, c.array), mem, host', modules') = [mem EXCEPT ![p] = host'[c.array]]
    BY DEF Effect, Copy
  <2> QED BY <1>1, <2>3, <2>4 DEF Given
<1>2. CASE c.op = "output"
  <2> DEFINE w == c.word
             zero == Zero(p)
             first == First(p, w)
             blank == [mem EXCEPT ![p] = [i \in 1..(w + 1) |-> 0]]
  <2>1. zero \in TaskSet /\ first \in TaskSet /\ w \in Nat
    BY <1>2, BufferedShape DEF TaskSet, Zero, First, SessionAssumption
  <2>2. stream' = stream \o <<zero, first>>
    BY <1>2 DEF Queue, Output
  <2>3. zero.op = "zero" /\ zero.buffer = p /\ first.op = "first" /\ first.buffer = p
        /\ first.word = w
    BY DEF Zero, First
  <2>4. DOMAIN mem[p] = 1..(w + 1)
    BY <1>2
  <2> HIDE DEF zero, first, w
  <2>5. stream' = Append(Append(stream, zero), first) /\ Append(stream, zero) \in Seq(TaskSet)
    BY <1>0, <2>1, <2>2
  <2>6. Memory(device', Append(stream, zero), host', modules') =
          Effect(zero, mem, host', modules')
    BY <1>0, <2>1, MemoryAppend
  <2>7. Memory(device', Append(Append(stream, zero), first), host', modules') =
          Effect(first, Memory(device', Append(stream, zero), host', modules'),
                 host', modules')
    <3> DEFINE one == Append(stream, zero)
    <3>1. one \in Seq(TaskSet)
      BY <2>5
    <3> HIDE DEF one
    <3>2. Memory(device', Append(one, first), host', modules') =
            Effect(first, Memory(device', one, host', modules'), host', modules')
      BY <2>1, <3>1, MemoryAppend
    <3> QED BY <3>2 DEF one
  <2>8. Effect(zero, mem, host', modules') = blank
    BY <2>3, <2>4 DEF Effect
  <2>9. Effect(first, blank, host', modules') =
          [blank EXCEPT ![p] = [blank[p] EXCEPT ![1] = w]]
    <3> HIDE DEF blank
    <3> QED BY <2>3 DEF Effect
  <2>10. blank[p] = [i \in 1..(w + 1) |-> 0]
    BY DEF Memories
  <2>11. [blank[p] EXCEPT ![1] = w] = [i \in 1..(w + 1) |-> IF i = 1 THEN w ELSE 0]
    BY <2>1, <2>10
  <2>12. [blank EXCEPT ![p] = [i \in 1..(w + 1) |-> IF i = 1 THEN w ELSE 0]] =
           [mem EXCEPT ![p] = [i \in 1..(w + 1) |-> IF i = 1 THEN w ELSE 0]]
    BY DEF Memories
  <2> HIDE DEF blank
  <2>13. Given(c, host') = [i \in 1..(w + 1) |-> IF i = 1 THEN w ELSE 0]
    BY <1>2 DEF Given, w
  <2> QED BY <2>5, <2>6, <2>7, <2>8, <2>9, <2>11, <2>12, <2>13, SettledNext
<1> QED BY <1>1, <1>2 DEF Buffered

-----------------------------------------------------------------------------
(* What the names stand for, after a step. *)

Sight(buffer, module, mem, mods) ==
    IF buffer # Null THEN [kind |-> "buffer", data |-> mem[buffer]]
    ELSE IF module # Null THEN [kind |-> "kernel", image |-> mods[module]]
    ELSE [kind |-> "nothing"]

\* The refinement mapping, name by name.
LEMMA ViewIs ==
    /\ View = [n \in Names |-> Sight(BufferOf(n), ModuleOf(n), Settled, modules)]
    /\ View' = [n \in Names |-> Sight(BufferOf(n)', ModuleOf(n)', Settled', modules')]
BY DEF View, Sight

\* One name changes what it holds, or what its buffer holds.
LEMMA ViewMoves ==
    ASSUME SessionInv, SessionInv', NEW name \in Names,
           \A n \in Names : n # name => BufferOf(n)' = BufferOf(n) /\ ModuleOf(n)' = ModuleOf(n),
           \A q \in Pointers :
              device[q] # Null /\ q # BufferOf(name) /\ q # BufferOf(name)'
                 => Settled'[q] = Settled[q],
           \A q \in Handles :
              modules[q] # Null /\ q # ModuleOf(name) => modules'[q] = modules[q]
    PROVE  View' = [View EXCEPT ![name] =
                       Sight(BufferOf(name)', ModuleOf(name)', Settled', modules')]
<1>1. ASSUME NEW n \in Names, n # name
      PROVE  Sight(BufferOf(n)', ModuleOf(n)', Settled', modules') =
             Sight(BufferOf(n), ModuleOf(n), Settled, modules)
  <2>1. BufferOf(n)' = BufferOf(n) /\ ModuleOf(n)' = ModuleOf(n)
    BY <1>1
  <2>2. BufferOf(n) # Null => /\ BufferOf(n) \in Pointers /\ device[BufferOf(n)] # Null
                              /\ BufferOf(n) # BufferOf(name)
                              /\ BufferOf(n)' # BufferOf(name)'
    BY <1>1, <2>1, BufferLive, DistinctHolds, DistinctNext DEF Distinct, SessionInv
  <2>3. ModuleOf(n) # Null => /\ ModuleOf(n) \in Handles /\ modules[ModuleOf(n)] # Null
                              /\ ModuleOf(n) # ModuleOf(name)
    BY <1>1, ModuleLive, DistinctHolds DEF Distinct, SessionInv
  <2>4. BufferOf(n) # Null => Settled'[BufferOf(n)] = Settled[BufferOf(n)]
    BY <2>1, <2>2
  <2>5. ModuleOf(n) # Null => modules'[ModuleOf(n)] = modules[ModuleOf(n)]
    BY <2>3
  <2> QED BY <2>1, <2>4, <2>5 DEF Sight
<1>2. \A n \in Names : View'[n] = Sight(BufferOf(n)', ModuleOf(n)', Settled', modules')
                    /\ View[n] = Sight(BufferOf(n), ModuleOf(n), Settled, modules)
  BY ViewIs
<1>3. View = [n \in Names |-> View[n]] /\ View' = [n \in Names |-> View'[n]]
  BY ViewIs
<1>4. \A n \in Names : n # name => View'[n] = View[n]
  BY <1>1, <1>2
<1> QED BY <1>2, <1>3, <1>4

\* No name changes what it holds.
LEMMA ViewStays ==
    ASSUME SessionInv, entries' = entries,
           \A q \in Pointers : device[q] # Null => Settled'[q] = Settled[q],
           \A q \in Handles : modules[q] # Null => modules'[q] = modules[q]
    PROVE  View' = View
<1>1. ASSUME NEW n \in Names
      PROVE  Sight(BufferOf(n)', ModuleOf(n)', Settled', modules') =
             Sight(BufferOf(n), ModuleOf(n), Settled, modules)
  <2>1. BufferOf(n)' = BufferOf(n) /\ ModuleOf(n)' = ModuleOf(n)
    BY DEF BufferOf, ModuleOf, Known, find_entry
  <2>2. BufferOf(n) # Null => Settled'[BufferOf(n)] = Settled[BufferOf(n)]
    BY BufferLive DEF SessionInv
  <2>3. ModuleOf(n) # Null => modules'[ModuleOf(n)] = modules[ModuleOf(n)]
    BY ModuleLive DEF SessionInv
  <2> QED BY <2>1, <2>2, <2>3 DEF Sight
<1> QED BY <1>1, ViewIs, Zenon

-----------------------------------------------------------------------------
(* Steps of the store. *)

\* A step that no name shows is a stutter of NamedStore.
LEMMA Invisible ==
    ASSUME View' = View, file' = file, Running' <=> Running
    PROVE  [Promise!Next]_(Promise!vars)
BY DEF Promise!vars

\* A step that ends the process is one of NamedStore.
LEMMA Ends ==
    ASSUME View' = View, file' = file, Running, ~Running'
    PROVE  [Promise!Next]_(Promise!vars)
BY DEF Promise!Next, Promise!End

\* A step that gives one name new contents is one of NamedStore.
LEMMA Sets ==
    ASSUME NEW name \in Names, NEW data \in StoreContents,
           View' = [View EXCEPT ![name] = [kind |-> "buffer", data |-> data]],
           file' = file, Running, Running'
    PROVE  [Promise!Next]_(Promise!vars)
BY DEF Promise!Next, Promise!SetBuffer, Promise!Buffer

\* The sizes follow the table when one name changes.
LEMMA SizedMoves ==
    ASSUME SessionInv, SessionInv', Sized, NEW name, Kept(name),
           \A q \in Pointers :
              device[q] # Null /\ q # BufferOf(name) /\ q # BufferOf(name)'
                 => Settled'[q] = Settled[q],
           \A i \in DOMAIN entries' :
              entries'[i].name = name /\ entries'[i].buffer # Null
                 => DOMAIN Settled'[entries'[i].buffer] = 1..entries'[i].size
    PROVE  Sized'
<1> SUFFICES ASSUME NEW i \in DOMAIN entries', entries'[i].buffer # Null,
                    entries'[i].name # name
             PROVE  DOMAIN Settled'[entries'[i].buffer] = 1..entries'[i].size
  BY DEF Sized
<1>1. PICK j \in DOMAIN entries : entries[j] = entries'[i]
  BY DEF Kept
<1> PICK n, q : n = entries[j].name /\ q = entries[j].buffer
  OBVIOUS
<1>2. BufferOf(n) = q /\ BufferOf(n)' = q
  BY <1>1, LookupHolds, LookupNext DEF Lookup, SessionInv
<1>3. q \in Pointers /\ device[q] # Null
  BY <1>1, <1>2, BufferLive DEF SessionInv
<1>4. q # BufferOf(name) /\ q # BufferOf(name)'
  BY <1>1, <1>2, DistinctHolds, DistinctNext DEF Distinct, SessionInv
<1>5. DOMAIN Settled[q] = 1..entries[j].size
  BY <1>1 DEF Sized
<1> QED BY <1>1, <1>3, <1>4, <1>5

\* Entries keep their sizes where settled buffers keep theirs.
LEMMA SizedStays ==
    ASSUME SessionInv, Sized, entries' = entries,
           \A q \in Pointers : device[q] # Null => DOMAIN Settled'[q] = DOMAIN Settled[q]
    PROVE  Sized'
<1> SUFFICES ASSUME NEW i \in DOMAIN entries, entries[i].buffer # Null
             PROVE  DOMAIN Settled'[entries[i].buffer] = 1..entries[i].size
  BY DEF Sized
<1>1. entries[i].buffer \in Pointers /\ device[entries[i].buffer] # Null
  BY DEF SessionInv, TypeOK, TableOK, EntrySet
<1> QED BY <1>1 DEF Sized

\* Between commands, and while one waits for release, nothing queued reads or
\* writes a host array.
LEMMA HostIdle ==
    ASSUME Queues, pc \in {"command", "release", "quit"}
    PROVE  \A k \in 1..Len(stream) : stream[k].op # "copy" /\ stream[k].op # "fetch"
BY DEF Queues, Running

\* A buffer command leaves no command waiting for an array it does not use.
LEMMA QueueQueues ==
    ASSUME TypeOK, Queues, pc \in {"command", "release"},
           NEW c, Buffered(c), NEW p, Queue(c, p)
    PROVE  Queues' /\ Storing' /\ Reading' /\ Running /\ Running'
<1>0. stream \in Seq(TaskSet) /\ Len(stream) \in Nat
  BY DEF TypeOK
<1>1. \A k \in 1..Len(stream) : stream[k].op # "copy" /\ stream[k].op # "fetch"
  BY HostIdle
<1>2. CASE c.op = "store"
  <2>1. stream' = Append(stream, Copy(p, c.array)) /\ pc' = "stored"
    BY <1>2 DEF Queue, Store, Wait
  <2>2. Copy(p, c.array).op = "copy"
    BY DEF Copy
  <2>3. \A k \in 1..Len(stream') : stream'[k].op # "fetch"
    BY <1>0, <1>1, <2>1, <2>2
  <2> QED BY <2>1, <2>3 DEF Queues, Storing, Reading, Running
<1>3. CASE c.op = "output"
  <2> DEFINE zero == Zero(p)
             first == First(p, c.word)
  <2>1. stream' = stream \o <<zero, first>> /\ pc' = "command"
    BY <1>3 DEF Queue, Output, Answer
  <2>2. zero.op = "zero" /\ first.op = "first"
    BY DEF Zero, First
  <2> HIDE DEF zero, first
  <2>3. /\ Len(stream') = Len(stream) + 2
        /\ \A k \in 1..Len(stream) : stream'[k] = stream[k]
        /\ stream'[Len(stream) + 1] = zero /\ stream'[Len(stream) + 2] = first
    BY <1>0, <2>1
  <2>4. \A k \in 1..Len(stream') : stream'[k].op # "copy" /\ stream'[k].op # "fetch"
    <3> SUFFICES ASSUME NEW k \in 1..Len(stream')
                 PROVE  stream'[k].op # "copy" /\ stream'[k].op # "fetch"
      OBVIOUS
    <3>1. k \in 1..Len(stream) \/ k = Len(stream) + 1 \/ k = Len(stream) + 2
      BY <1>0, <2>3
    <3> QED BY <1>1, <2>2, <2>3, <3>1
  <2> QED BY <2>1, <2>4 DEF Queues, Storing, Reading, Running
<1>4. Running
  BY DEF Running
<1> QED BY <1>2, <1>3, <1>4 DEF Buffered

\* A command that gives a name a buffer takes effect when it queues its tasks.
LEMMA BufferEffect ==
    ASSUME SessionInv, SessionInv', SessionAssumption, Sized, Queues,
           pc \in {"command", "release"},
           NEW c, Buffered(c), NEW p \in Pointers, Queue(c, p), file' = file,
           Given(c, host') \in StoreContents, DOMAIN Given(c, host') = 1..c.size,
           c.op = "output" => c.size = c.word + 1,
           NEW mem \in Memories, mem = Memory(device', stream, host', modules'),
           DOMAIN mem[p] = 1..c.size,
           BufferOf(c.name)' = p, Kept(c.name),
           \A i \in DOMAIN entries' : entries'[i].name = c.name => entries'[i].size = c.size,
           \A q \in Pointers :
              device[q] # Null /\ q # BufferOf(c.name) /\ q # p => mem[q] = Settled[q],
           \A q \in Handles :
              modules[q] # Null /\ q # ModuleOf(c.name) => modules'[q] = modules[q]
    PROVE  RefinementInv' /\ [Promise!Next]_(Promise!vars)
<1>1. Settled' = [mem EXCEPT ![p] = Given(c, host')]
  BY QueueEffect DEF SessionInv
<1>2. /\ Settled'[p] = Given(c, host')
      /\ \A q \in Pointers :
            device[q] # Null /\ q # BufferOf(c.name) /\ q # BufferOf(c.name)'
               => Settled'[q] = Settled[q]
  BY <1>1 DEF Memories
<1>3. Queues' /\ Storing' /\ Reading' /\ Running /\ Running'
  BY QueueQueues DEF SessionInv
<1>4. \A i \in DOMAIN entries' : entries'[i].name = c.name => entries'[i].buffer = p
  BY LookupNext DEF Lookup, SessionInv
<1>5. Sized'
  <2>1. \A i \in DOMAIN entries' :
           entries'[i].name = c.name /\ entries'[i].buffer # Null
              => DOMAIN Settled'[entries'[i].buffer] = 1..entries'[i].size
    BY <1>2, <1>4
  <2> QED BY <1>2, <2>1, SizedMoves
<1>6. c.name \in Names /\ p # Null
  BY BufferedShape DEF SessionAssumption
<1>7. \A n \in Names : n # c.name => BufferOf(n)' = BufferOf(n) /\ ModuleOf(n)' = ModuleOf(n)
  BY OthersHeld DEF SessionInv
<1>8. View' = [View EXCEPT ![c.name] =
                  Sight(BufferOf(c.name)', ModuleOf(c.name)', Settled', modules')]
  BY <1>2, <1>6, <1>7, ViewMoves
<1>9. Sight(BufferOf(c.name)', ModuleOf(c.name)', Settled', modules') =
         [kind |-> "buffer", data |-> Given(c, host')]
  BY <1>2, <1>6 DEF Sight
<1>10. [Promise!Next]_(Promise!vars)
  BY <1>3, <1>6, <1>8, <1>9, Sets
<1> QED BY <1>3, <1>5, <1>10 DEF RefinementInv

-----------------------------------------------------------------------------
(* The commands that give a name a buffer. *)

\* The command has what it will store.
Stocked(c, h) ==
    /\ Buffered(c)
    /\ c.op = "store" => h[c.array] \in Inputs /\ c.size = Len(h[c.array])
    /\ c.op = "output" => c.size = c.word + 1

\* What a buffer command gives is contents of its size.
LEMMA GivenShape ==
    ASSUME SessionAssumption, RefinementAssumption, NEW c, NEW h, Stocked(c, h)
    PROVE  Given(c, h) \in StoreContents /\ DOMAIN Given(c, h) = 1..c.size
<1>1. CASE c.op = "store"
  BY <1>1 DEF Given, Stocked, StoreContents, RefinementAssumption
<1>2. CASE c.op = "output"
  <2>1. c.word \in Outputs
    BY <1>2, BufferedShape DEF Stocked
  <2> QED BY <1>2, <2>1 DEF Given, Stocked, StoreContents
<1> QED BY <1>1, <1>2 DEF Stocked, Buffered

\* A new buffer is given its contents, whatever its address held before.
LEMMA AllocateEffect ==
    ASSUME SessionInv, SessionInv', SessionAssumption, RefinementAssumption, Sized, Queues,
           NEW c, Stocked(c, host'), Allocate(c), file' = file,
           \/ ~Known(c.name) /\ pc = "command"
           \/ pc = "release" /\ stream = <<>>
    PROVE  RefinementInv' /\ [Promise!Next]_(Promise!vars)
<1>1. PICK p \in Pointers, junk \in [1..c.size -> Junk] :
         /\ Freed(c.name)[p] = Null
         /\ device' = [Freed(c.name) EXCEPT ![p] = junk]
         /\ modules' = Unloaded(c.name)
         /\ entries' = Put(c.name, p, c.size, Null)
         /\ Queue(c, p)
  BY DEF Allocate
<1>2. Buffered(c) /\ c.name \in Names /\ c.size \in Sizes
  BY BufferedShape DEF Stocked
<1>3. junk \in Contents /\ DOMAIN junk = 1..c.size
  BY <1>2 DEF SessionAssumption
<1>4. /\ Kept(c.name) /\ BufferOf(c.name)' = p
      /\ \A i \in DOMAIN entries' : entries'[i].name = c.name => entries'[i].size = c.size
  <2>1. entries' = Put(c.name, p, c.size, Null)
    BY <1>1
  <2>2. /\ Kept(c.name) /\ BufferOf(c.name)' = p
        /\ \A i \in DOMAIN entries' : entries'[i].name = c.name =>
              entries'[i] = Entry(c.name, p, c.size, Null)
    BY <2>1, PutKept, Zenon DEF SessionInv
  <2> QED BY <2>2 DEF Entry
<1>5. \A q \in Handles : modules[q] # Null /\ q # ModuleOf(c.name) => modules'[q] = modules[q]
  BY <1>1 DEF Unloaded
<1>6. Settled \in Memories
  BY SettledTyped DEF SessionInv
<1> DEFINE mem == Memory(device', stream, host', modules')
<1>7. /\ mem \in Memories
      /\ mem[p] = junk
      /\ \A q \in Pointers :
            device[q] # Null /\ q # BufferOf(c.name) /\ q # p => mem[q] = Settled[q]
  <2>1. CASE ~Known(c.name) /\ pc = "command"
    <3>1. Freed(c.name) = device /\ Unloaded(c.name) = modules
      BY <2>1, NothingFreed DEF SessionInv
    <3>2. device[p] = Null /\ device' = [device EXCEPT ![p] = junk] /\ modules' = modules
      BY <1>1, <3>1
    <3>3. \A k \in 1..Len(stream) : stream[k].op # "copy"
      BY <2>1, HostIdle
    <3>4. mem = Memory(device', stream, host, modules)
      BY <3>2, <3>3, QuietMemory DEF SessionInv
    <3>5. Memory([device EXCEPT ![p] = junk], stream, host, modules) =
            [Settled EXCEPT ![p] = junk]
      BY <3>2, AllocatedApart DEF SessionInv
    <3>6. mem = [Settled EXCEPT ![p] = junk]
      BY <3>2, <3>4, <3>5
    <3> HIDE DEF mem
    <3> QED BY <1>3, <1>6, <3>6 DEF Memories
  <2>2. CASE pc = "release" /\ stream = <<>>
    <3>1. mem = device' /\ Settled = device
      BY <2>2, MemoryEmpty, SettledIs
    <3>2. Freed(c.name) \in Memories
      BY FreedTyped DEF SessionInv, Memories
    <3>3. \A q \in Pointers : q # BufferOf(c.name) => Freed(c.name)[q] = device[q]
      BY DEF Freed
    <3> HIDE DEF mem
    <3> QED BY <1>1, <1>3, <3>1, <3>2, <3>3 DEF Memories
  <2> QED BY <2>1, <2>2
<1>8. Given(c, host') \in StoreContents /\ DOMAIN Given(c, host') = 1..c.size
  BY GivenShape
<1>9. c.op = "output" => c.size = c.word + 1
  BY DEF Stocked
<1>10. pc \in {"command", "release"}
  OBVIOUS
<1>11. PICK m : m = mem
  OBVIOUS
<1>12. m \in Memories /\ m = Memory(device', stream, host', modules') /\ DOMAIN m[p] = 1..c.size
  BY <1>3, <1>7, <1>11
<1>13. \A q \in Pointers :
          device[q] # Null /\ q # BufferOf(c.name) /\ q # p => m[q] = Settled[q]
  BY <1>7, <1>11
<1> HIDE DEF mem
<1>14. Queue(c, p)
  BY <1>1
<1> QED
  BY <1>2, <1>4, <1>5, <1>8, <1>9, <1>10, <1>12, <1>13, <1>14, BufferEffect

\* A buffer of the right size is given new contents behind the tasks that use it.
LEMMA ReuseEffect ==
    ASSUME SessionInv, SessionInv', SessionAssumption, RefinementAssumption, Sized, Queues,
           NEW c, Stocked(c, host'), Reuse(c), file' = file, pc = "command"
    PROVE  RefinementInv' /\ [Promise!Next]_(Promise!vars)
<1>1. /\ BufferOf(c.name) # Null /\ entries[find_entry(c.name)].size = c.size
      /\ UNCHANGED <<entries, device, modules>>
  BY DEF Reuse, HasSize
<1>2. PICK p \in Pointers : p = BufferOf(c.name)
  BY <1>1, BufferLive DEF SessionInv
<1>3. Queue(c, p)
  BY <1>2 DEF Reuse
<1>4. Settled \in Memories
  BY SettledTyped DEF SessionInv
<1>5. Settled = Memory(device', stream, host', modules')
  <2>1. \A k \in 1..Len(stream) : stream[k].op # "copy"
    BY HostIdle
  <2> QED BY <1>1, <2>1, QuietMemory, SettledIs DEF SessionInv
<1>6. Known(c.name)
  BY <1>1, HeldByName DEF SessionInv
<1>7. /\ find_entry(c.name) \in DOMAIN entries
      /\ entries[find_entry(c.name)].name = c.name
      /\ entries[find_entry(c.name)].buffer = p
  BY <1>2, <1>6, FindEntry, HeldByName DEF SessionInv
<1>8. DOMAIN Settled[p] = 1..c.size
  BY <1>1, <1>7, <1>2 DEF Sized
<1>9. \A i \in DOMAIN entries' : entries'[i].name = c.name => entries'[i].size = c.size
  BY <1>1, LookupHolds DEF Lookup, SessionInv
<1>10. Kept(c.name)
  BY <1>1 DEF Kept
<1>11. BufferOf(c.name)' = p
  <2>1. PICK i \in DOMAIN entries : entries[i].name = c.name /\ entries[i].buffer = p
    BY <1>7
  <2>2. PICK n : n = c.name
    OBVIOUS
  <2>3. BufferOf(n)' = entries'[i].buffer
    BY <1>1, <2>1, <2>2, LookupNext DEF Lookup, SessionInv
  <2> QED BY <1>1, <2>1, <2>2, <2>3
<1>12. Given(c, host') \in StoreContents /\ DOMAIN Given(c, host') = 1..c.size
  BY GivenShape
<1>13. Buffered(c) /\ (c.op = "output" => c.size = c.word + 1)
  BY DEF Stocked
<1>14. pc \in {"command", "release"}
  OBVIOUS
<1>15. \A q \in Handles : modules[q] # Null /\ q # ModuleOf(c.name) => modules'[q] = modules[q]
  BY <1>1
<1>16. PICK m : m = Settled
  OBVIOUS
<1>17. m \in Memories /\ m = Memory(device', stream, host', modules') /\ DOMAIN m[p] = 1..c.size
  BY <1>4, <1>5, <1>8, <1>16
<1>18. \A q \in Pointers :
          device[q] # Null /\ q # BufferOf(c.name) /\ q # p => m[q] = Settled[q]
  BY <1>16
<1> QED BY <1>3, <1>9, <1>10, <1>11, <1>12, <1>13, <1>14, <1>15, <1>17, <1>18, BufferEffect

\* A command that has to release what its name holds changes nothing yet.
LEMMA ReplaceEffect ==
    ASSUME SessionInv, Sized, Queues, NEW c, Replace(c), pc = "command", file' = file,
           c.op \in {"store", "output"} => Stocked(c, host')
    PROVE  RefinementInv' /\ [Promise!Next]_(Promise!vars)
<1>1. pc' = "release" /\ cmd' = c /\ UNCHANGED <<entries, device, modules, stream>>
  BY DEF Replace, Wait
<1>2. \A k \in 1..Len(stream) : stream[k].op # "copy" /\ stream[k].op # "fetch"
  BY HostIdle
<1>3. Settled' = Settled
  BY <1>1, <1>2, Undisturbed DEF SessionInv
<1>4. View' = View /\ Sized'
  BY <1>1, <1>3, ViewStays, SizedStays
<1>5. Running /\ Running'
  BY <1>1 DEF Running
<1>6. Queues' /\ Reading'
  BY <1>1, <1>2 DEF Queues, Reading
<1>7. Storing'
  BY <1>1 DEF Storing, Stocked
<1> QED BY <1>4, <1>5, <1>6, <1>7, Invisible DEF RefinementInv

\* A buffer command gives its name the contents at once.
LEMMA BufferCommandEffect ==
    ASSUME SessionInv, SessionInv', SessionAssumption, RefinementAssumption, Sized, Queues,
           NEW c, Stocked(c, host'), BufferCommand(c), pc = "command"
    PROVE  RefinementInv' /\ [Promise!Next]_(Promise!vars)
<1>1. file' = file
  BY DEF BufferCommand
<1>2. CASE Reuse(c)
  BY <1>1, <1>2, ReuseEffect
<1>3. CASE ~Known(c.name) /\ Allocate(c)
  BY <1>1, <1>3, AllocateEffect
<1>4. CASE Replace(c)
  BY <1>1, <1>4, ReplaceEffect
<1> QED BY <1>2, <1>3, <1>4 DEF BufferCommand

\* `store` is NamedStore's.
LEMMA StoreEffect ==
    ASSUME SessionInv, SessionInv', SessionAssumption, RefinementAssumption, Sized, Queues,
           NEW name \in Names, NEW data \in Inputs, StoreCommand(name, data)
    PROVE  RefinementInv' /\ [Promise!Next]_(Promise!vars)
<1>1. PICK a \in Arrays :
         /\ pc = "command" /\ host' = [host EXCEPT ![a] = data]
         /\ BufferCommand([op |-> "store", name |-> name, size |-> Len(data), array |-> a])
  BY DEF StoreCommand
<1>2. PICK c : c = [op |-> "store", name |-> name, size |-> Len(data), array |-> a]
  OBVIOUS
<1>3. Buffered(c)
  BY <1>2 DEF Buffered, CommandSet, Sizes
<1>4. host'[a] = data
  BY <1>1 DEF SessionInv, TypeOK
<1>5. Stocked(c, host')
  BY <1>2, <1>3, <1>4 DEF Stocked
<1>6. BufferCommand(c)
  BY <1>1, <1>2
<1> QED BY <1>1, <1>5, <1>6, BufferCommandEffect

\* `output` is NamedStore's.
LEMMA OutputEffect ==
    ASSUME SessionInv, SessionInv', SessionAssumption, RefinementAssumption, Sized, Queues,
           NEW name \in Names, NEW n \in Outputs, OutputCommand(name, n)
    PROVE  RefinementInv' /\ [Promise!Next]_(Promise!vars)
<1>1. PICK c : c = [op |-> "output", name |-> name, size |-> n + 1, word |-> n]
  OBVIOUS
<1>2. n + 1 \in Sizes
  BY DEF Sizes
<1>3. Buffered(c)
  BY <1>1, <1>2 DEF Buffered, CommandSet
<1>4. Stocked(c, host')
  BY <1>1, <1>3 DEF Stocked
<1>5. BufferCommand(c) /\ pc = "command"
  BY <1>1 DEF OutputCommand
<1> QED BY <1>4, <1>5, BufferCommandEffect

-----------------------------------------------------------------------------
(* The other commands. *)

\* A loaded module changes one name.
LEMMA LoadEffect ==
    ASSUME SessionInv, SessionInv', SessionAssumption, Sized, Queues,
           NEW c, c.name \in Names, c.image \in Images,
           LoadModule(c), UNCHANGED <<host, file>>,
           \/ ~Known(c.name) /\ pc = "command"
           \/ pc = "release" /\ stream = <<>>
    PROVE  RefinementInv' /\ [Promise!Next]_(Promise!vars)
<1>1. PICK h \in Handles :
         /\ Unloaded(c.name)[h] = Null
         /\ modules' = [Unloaded(c.name) EXCEPT ![h] = c.image]
         /\ device' = Freed(c.name)
         /\ entries' = Put(c.name, Null, 0, h)
         /\ pc' = "command" /\ stream' = stream
  BY DEF LoadModule, Answer
<1>2. /\ Kept(c.name) /\ BufferOf(c.name)' = Null /\ ModuleOf(c.name)' = h
      /\ \A i \in DOMAIN entries' : entries'[i].name = c.name => entries'[i].buffer = Null
  <2>1. entries' = Put(c.name, Null, 0, h)
    BY <1>1
  <2>2. /\ Kept(c.name) /\ BufferOf(c.name)' = Null /\ ModuleOf(c.name)' = h
        /\ \A i \in DOMAIN entries' : entries'[i].name = c.name =>
              entries'[i] = Entry(c.name, Null, 0, h)
    BY <2>1, PutKept, Zenon DEF SessionInv
  <2> QED BY <2>2 DEF Entry
<1>3. /\ modules'[h] = c.image
      /\ \A q \in Handles : modules[q] # Null /\ q # ModuleOf(c.name) => modules'[q] = modules[q]
  BY <1>1 DEF Unloaded
<1>4. \A q \in Pointers : q # BufferOf(c.name) => Settled'[q] = Settled[q]
  <2>1. CASE ~Known(c.name) /\ pc = "command"
    <3>1. Freed(c.name) = device /\ Unloaded(c.name) = modules
      BY <2>1, NothingFreed DEF SessionInv
    <3>2. device' = device /\ \A q \in Handles : modules[q] # Null => modules'[q] = modules[q]
      BY <1>1, <3>1 DEF SessionInv, TypeOK
    <3> QED BY <1>1, <3>2, Undisturbed DEF SessionInv
  <2>2. CASE pc = "release" /\ stream = <<>>
    <3>1. Settled' = device' /\ Settled = device
      BY <1>1, <2>2, MemoryEmpty, SettledIs, SettledNext
    <3> QED BY <1>1, <3>1 DEF Freed
  <2> QED BY <2>1, <2>2
<1>5. Sized'
  BY <1>2, <1>4, SizedMoves
<1>6. Queues' /\ Storing' /\ Reading'
  <2>1. \A k \in 1..Len(stream) : stream[k].op # "copy" /\ stream[k].op # "fetch"
    BY HostIdle
  <2> QED BY <1>1, <2>1 DEF Queues, Storing, Reading
<1>7. Running /\ Running'
  BY <1>1 DEF Running
<1>8. \A n \in Names : n # c.name => BufferOf(n)' = BufferOf(n) /\ ModuleOf(n)' = ModuleOf(n)
  BY <1>2, OthersHeld DEF SessionInv
<1>9. View' = [View EXCEPT ![c.name] =
                  Sight(BufferOf(c.name)', ModuleOf(c.name)', Settled', modules')]
  BY <1>3, <1>4, <1>8, ViewMoves
<1>10. h # Null
  BY DEF SessionAssumption
<1>11. Sight(BufferOf(c.name)', ModuleOf(c.name)', Settled', modules') =
          [kind |-> "kernel", image |-> c.image]
  BY <1>2, <1>3, <1>10 DEF Sight
<1>12. Promise!SetKernel(c.name, c.image)
  BY <1>7, <1>9, <1>11 DEF Promise!SetKernel, Promise!Kernel
<1>13. Promise!Next
  BY <1>7, <1>12 DEF Promise!Next
<1> QED BY <1>5, <1>6, <1>13 DEF RefinementInv

\* `kernel` is NamedStore's.
LEMMA KernelEffect ==
    ASSUME SessionInv, SessionInv', SessionAssumption, Sized, Queues,
           NEW name \in Names, NEW image \in Images, KernelCommand(name, image)
    PROVE  RefinementInv' /\ [Promise!Next]_(Promise!vars)
<1>1. PICK c : c = [op |-> "kernel", name |-> name, image |-> image]
  OBVIOUS
<1>2. c.op = "kernel" /\ c.name \in Names /\ c.image \in Images
  BY <1>1
<1>3. /\ pc = "command" /\ UNCHANGED <<host, file>>
      /\ \/ ~Known(c.name) /\ LoadModule(c)
         \/ Replace(c)
  BY <1>1 DEF KernelCommand
<1>4. CASE ~Known(c.name) /\ LoadModule(c)
  BY <1>2, <1>3, <1>4, LoadEffect
<1>5. CASE Replace(c)
  BY <1>2, <1>3, <1>5, ReplaceEffect
<1> QED BY <1>3, <1>4, <1>5

\* A launch takes effect when it is queued: its output is none of its inputs.
LEMMA RunEffect ==
    ASSUME SessionInv, SessionInv', SessionAssumption, RefinementAssumption, RefinementInv,
           NEW kernel \in Names, NEW blocks, NEW out \in Names,
           NEW j \in 0..MaxInputs, NEW ins \in [1..j -> Names],
           RunCommand(kernel, blocks, out, ins)
    PROVE  RefinementInv' /\ [Promise!Next]_(Promise!vars)
<1>1. /\ pc = "command" /\ ModuleOf(kernel) # Null /\ BufferOf(out) # Null
      /\ \A i \in DOMAIN ins : ins[i] # out /\ BufferOf(ins[i]) # Null
      /\ UNCHANGED <<entries, device, modules, host, fault, pc, cmd, file>>
  BY DEF RunCommand
<1>2. /\ Running /\ Running' /\ Storing' /\ Reading'
  BY <1>1 DEF Running, Storing, Reading
<1>3. \A k \in 1..Len(stream) : stream[k].op # "copy" /\ stream[k].op # "fetch"
  BY <1>1, HostIdle DEF RefinementInv
<1>4. Settled \in Memories
  BY SettledTyped DEF SessionInv
<1>5. Sized
  BY DEF RefinementInv
<1>6. CASE UNCHANGED stream
  <2>1. Settled' = Settled
    BY <1>1, <1>6, Undisturbed DEF SessionInv
  <2>2. View' = View /\ Sized'
    BY <1>1, <1>5, <2>1, ViewStays, SizedStays
  <2>3. Queues'
    BY <1>3, <1>6 DEF Queues
  <2> QED BY <1>1, <1>2, <2>2, <2>3, Invisible DEF RefinementInv
<1>7. CASE stream' = Append(stream, Launch(ModuleOf(kernel), BufferOf(out),
                                           [i \in DOMAIN ins |-> BufferOf(ins[i])]))
  <2>1. PICK p, h, from : /\ p = BufferOf(out) /\ h = ModuleOf(kernel)
                          /\ from = [i \in DOMAIN ins |-> BufferOf(ins[i])]
    OBVIOUS
  <2>2. /\ p \in Pointers /\ device[p] # Null /\ h \in Handles /\ modules[h] # Null
    BY <1>1, <2>1, BufferLive, ModuleLive DEF SessionInv
  <2>3. \A i \in DOMAIN ins : BufferOf(ins[i]) \in Pointers /\ device[BufferOf(ins[i])] # Null
    BY <1>1, BufferLive DEF SessionInv
  <2>4. DOMAIN ins = 1..j /\ from \in [1..j -> Pointers] /\ DOMAIN from = 1..j
        /\ \A i \in 1..j : from[i] = BufferOf(ins[i]) /\ device[from[i]] # Null
    BY <2>1, <2>3
  <2> DEFINE t == Launch(h, p, from)
             read == [i \in 1..j |-> Settled[from[i]]]
             made == Compute(modules[h], read, Settled[p])
  <2>5. /\ t.op = "launch" /\ t.buffer = p /\ t.module = h /\ t.ins = from
        /\ stream' = Append(stream, t)
    BY <1>7, <2>1 DEF Launch
  <2>6. t \in TaskSet
    BY <2>2, <2>4 DEF TaskSet, Launch
  <2> HIDE DEF t
  <2>7. Settled' = Effect(t, Settled, host, modules)
    BY <1>1, <2>5, <2>6, OneMore, SettledIs DEF SessionInv
  <2>8. Settled' = [Settled EXCEPT ![p] = made]
    <3>1. [i \in DOMAIN t.ins |-> Settled[t.ins[i]]] = read
      BY <2>4, <2>5
    <3> HIDE DEF read
    <3> QED BY <2>5, <2>7, <3>1, Zenon DEF Effect
  <2>9. /\ read \in [1..j -> Contents] /\ Settled[p] \in Contents /\ modules[h] \in Images
    <3>1. Alike(device, Settled)
      BY SettledTyped DEF SessionInv
    <3> QED BY <1>4, <2>2, <2>4, <3>1 DEF Alike, Memories, SessionInv, TypeOK
  <2>10. DOMAIN made = DOMAIN Settled[p]
    <3> HIDE DEF read
    <3> QED BY <2>9 DEF RefinementAssumption
  <2> HIDE DEF made
  <2>11. Settled'[p] = made /\ \A q \in Pointers : q # p => Settled'[q] = Settled[q]
    BY <1>4, <2>2, <2>8 DEF Memories
  <2>12. Sized'
    BY <1>1, <1>5, <2>10, <2>11, SizedStays
  <2>13. Queues'
    <3>1. stream \in Seq(TaskSet) /\ Len(stream) \in Nat
      BY DEF SessionInv, TypeOK
    <3>2. \A k \in 1..Len(stream') : stream'[k].op # "copy" /\ stream'[k].op # "fetch"
      BY <1>3, <2>5, <3>1
    <3> QED BY <3>2 DEF Queues
  <2>14. \A n \in Names : BufferOf(n)' = BufferOf(n) /\ ModuleOf(n)' = ModuleOf(n)
    BY <1>1 DEF BufferOf, ModuleOf, Known, find_entry
  <2>15. View' = [View EXCEPT ![out] =
                     Sight(BufferOf(out)', ModuleOf(out)', Settled', modules')]
    <3>1. \A q \in Pointers :
             device[q] # Null /\ q # BufferOf(out) /\ q # BufferOf(out)'
                => Settled'[q] = Settled[q]
      BY <2>1, <2>11
    <3>2. \A q \in Handles :
             modules[q] # Null /\ q # ModuleOf(out) => modules'[q] = modules[q]
      BY <1>1
    <3> QED BY <2>14, <3>1, <3>2, ViewMoves
  <2>16. Sight(BufferOf(out)', ModuleOf(out)', Settled', modules') =
            [kind |-> "buffer", data |-> made]
    BY <1>1, <2>1, <2>11, <2>14 DEF Sight
  <2>17. /\ View[out] = [kind |-> "buffer", data |-> Settled[p]]
         /\ \A i \in 1..j : View[ins[i]] = [kind |-> "buffer", data |-> Settled[from[i]]]
         /\ View[kernel] = [kind |-> "kernel", image |-> modules[h]]
    <3>1. \A n \in Names : View[n] = Sight(BufferOf(n), ModuleOf(n), Settled, modules)
      BY ViewIs
    <3>2. BufferOf(kernel) = Null
      <4>1. Known(kernel)
        BY <1>1, HeldByName DEF SessionInv
      <4>2. entries[find_entry(kernel)] \in EntrySet
        BY <4>1, FindEntry DEF SessionInv
      <4>3. BufferOf(kernel) = entries[find_entry(kernel)].buffer
            /\ ModuleOf(kernel) = entries[find_entry(kernel)].module
        BY <4>1, HeldByName DEF SessionInv
      <4> QED BY <1>1, <4>2, <4>3 DEF EntrySet
    <3> QED BY <1>1, <2>1, <2>4, <3>1, <3>2 DEF Sight
  <2>18. /\ \A i \in 1..j : View[ins[i]].data = Settled[from[i]]
         /\ \A i \in 1..j : View[ins[i]].kind = "buffer"
         /\ View[out].data = Settled[p] /\ View[kernel].image = modules[h]
    <3>1. ASSUME NEW i \in 1..j
          PROVE  View[ins[i]].data = Settled[from[i]] /\ View[ins[i]].kind = "buffer"
      <4>1. View[ins[i]] = [kind |-> "buffer", data |-> Settled[from[i]]]
        BY <2>17
      <4> QED BY <4>1
    <3>2. View[out].data = Settled[p] /\ View[kernel].image = modules[h]
      BY <2>17
    <3> QED BY <3>1, <3>2
  <2>19. Promise!Run(kernel, out, ins)
    <3>1. Promise!IsKernel(kernel) /\ Promise!IsBuffer(out)
      BY <2>17 DEF Promise!IsKernel, Promise!IsBuffer
    <3>2. \A i \in DOMAIN ins : ins[i] # out /\ Promise!IsBuffer(ins[i])
      BY <1>1, <2>4, <2>18, Zenon DEF Promise!IsBuffer
    <3>3. made = Compute(View[kernel].image, [i \in DOMAIN ins |-> View[ins[i]].data],
                         View[out].data)
      <4>1. [i \in DOMAIN ins |-> View[ins[i]].data] = read
        BY <2>4, <2>18, Zenon
      <4> HIDE DEF read
      <4> QED BY <2>18, <4>1, Zenon DEF made
    <3>4. View' = [View EXCEPT ![out] = Promise!Buffer(
                      Compute(View[kernel].image, [i \in DOMAIN ins |-> View[ins[i]].data],
                              View[out].data))]
      <4> HIDE DEF read
      <4> QED BY <2>15, <2>16, <3>3, Zenon DEF Promise!Buffer
    <3> QED BY <1>1, <1>2, <3>1, <3>2, <3>4, Zenon DEF Promise!Run
  <2>20. Promise!Next
    BY <1>2, <2>19 DEF Promise!Next
  <2> QED BY <1>2, <2>12, <2>13, <2>20 DEF RefinementInv
<1> QED BY <1>6, <1>7 DEF RunCommand

\* `read` queues a copy, which no name shows.
LEMMA ReadEffect ==
    ASSUME SessionInv, SessionInv', SessionAssumption, RefinementInv,
           NEW name \in Names, ReadCommand(name)
    PROVE  RefinementInv' /\ [Promise!Next]_(Promise!vars)
<1> PICK p : p = BufferOf(name)
  OBVIOUS
<1>1. PICK a \in Arrays :
         /\ p # Null
         /\ stream' = Append(stream, Fetch(p, a))
         /\ cmd' = [op |-> "read", name |-> name, array |-> a] /\ pc' = "reading"
         /\ pc = "command" /\ UNCHANGED <<entries, device, modules, file>>
  BY DEF ReadCommand, Wait
<1>2. \A k \in 1..Len(stream) : stream[k].op # "copy" /\ stream[k].op # "fetch"
  BY <1>1, HostIdle DEF RefinementInv
<1>3. p \in Pointers
  BY <1>1, BufferLive DEF SessionInv
<1>4. PICK t : t = Fetch(p, a)
  OBVIOUS
<1>5. t \in TaskSet /\ t.op = "fetch" /\ t.buffer = p /\ stream' = Append(stream, t)
  BY <1>1, <1>3, <1>4 DEF TaskSet, Fetch
<1>6. Settled = Memory(device', stream, host', modules')
  BY <1>1, <1>2, QuietMemory, SettledIs DEF SessionInv
<1>7. Settled' = Effect(t, Settled, host', modules')
  BY <1>5, <1>6, OneMore DEF SessionInv
<1>8. Settled' = Settled
  <2>1. Settled \in Memories
    BY SettledTyped DEF SessionInv
  <2> QED BY <1>3, <1>5, <1>7, <2>1 DEF Effect, Memories
<1>9. View' = View /\ Sized'
  BY <1>1, <1>8, ViewStays, SizedStays DEF RefinementInv
<1>10. Running /\ Running' /\ Storing'
  BY <1>1 DEF Running, Storing
<1>11. /\ Len(stream) \in Nat /\ Len(stream') = Len(stream) + 1 /\ stream' # <<>>
       /\ stream'[Len(stream')] = t
       /\ \A k \in 1..Len(stream) : stream'[k] = stream[k]
  BY <1>5 DEF SessionInv, TypeOK
<1>12. Queues'
  <2>1. \A k \in 1..Len(stream') : k # Len(stream') => k \in 1..Len(stream)
    BY <1>11
  <2> QED BY <1>1, <1>2, <1>5, <1>11, <2>1 DEF Queues
<1>13. Reading'
  <2>1. BufferOf(name)' = p
    BY <1>1 DEF BufferOf, Known, find_entry
  <2>2. cmd'.name = name /\ cmd'.array = a
    BY <1>1
  <2>3. BufferOf(cmd.name)' = p
    BY <2>1, <2>2 DEF BufferOf, Known, find_entry
  <2> QED BY <1>1, <1>4, <1>11, <2>2, <2>3 DEF Reading
<1> QED BY <1>1, <1>9, <1>10, <1>12, <1>13, Invisible DEF RefinementInv

\* `free` is NamedStore's, or waits.
LEMMA FreeEffect ==
    ASSUME SessionInv, SessionInv', RefinementInv, NEW name \in Names, FreeCommand(name)
    PROVE  RefinementInv' /\ [Promise!Next]_(Promise!vars)
<1>1. PICK c : c = [op |-> "free", name |-> name]
  OBVIOUS
<1>2. c.op = "free" /\ Replace(c) /\ pc = "command" /\ file' = file
  BY <1>1 DEF FreeCommand
<1> QED BY <1>2, ReplaceEffect DEF RefinementInv

\* The host goes on, or a launch fails: nothing else changes.
LEMMA QuietEffect ==
    ASSUME SessionInv, RefinementInv,
           UNCHANGED <<entries, device, modules, host, stream, file>>,
           \/ UNCHANGED <<pc, cmd>>
           \/ pc = "command" /\ pc' = "quit"
           \/ Running /\ ~Running'
    PROVE  RefinementInv' /\ [Promise!Next]_(Promise!vars)
<1>1. Settled' = Settled
  BY Undisturbed DEF SessionInv
<1>2. View' = View /\ Sized'
  BY <1>1, ViewStays, SizedStays DEF RefinementInv
<1>3. CASE UNCHANGED <<pc, cmd>>
  <2>1. Running' <=> Running
    BY <1>3 DEF Running
  <2>2. Queues' /\ Storing' /\ Reading'
    BY <1>3, <2>1 DEF RefinementInv, Queues, Storing, Reading, BufferOf, Known, find_entry
  <2> QED BY <1>2, <2>1, <2>2, Invisible DEF RefinementInv
<1>4. CASE pc = "command" /\ pc' = "quit"
  <2>1. Running /\ Running' /\ Storing' /\ Reading'
    BY <1>4 DEF Running, Storing, Reading
  <2>2. \A k \in 1..Len(stream) : stream[k].op # "copy" /\ stream[k].op # "fetch"
    BY <1>4, HostIdle DEF RefinementInv
  <2>3. Queues'
    BY <2>2 DEF Queues
  <2> QED BY <1>2, <2>1, <2>3, Invisible DEF RefinementInv
<1>5. CASE Running /\ ~Running'
  <2>1. Queues' /\ Storing' /\ Reading'
    BY <1>5 DEF Queues, Storing, Reading, Running
  <2> QED BY <1>2, <1>5, <2>1, Ends DEF RefinementInv
<1> QED BY <1>3, <1>4, <1>5

-----------------------------------------------------------------------------
(* The device, and the host after the stream is synchronized. *)

\* The device takes a task: what the queue leads to stays what it was.
LEMMA DeviceEffect ==
    ASSUME SessionInv, SessionInv', SessionAssumption, RefinementInv, DeviceStep
    PROVE  RefinementInv' /\ [Promise!Next]_(Promise!vars)
<1>1. PICK t : t = Head(stream)
  OBVIOUS
<1>2. /\ Running /\ stream # <<>> /\ stream' = Tail(stream)
      /\ device' = After(t, device)
      /\ host' = IF t.op = "fetch" THEN [host EXCEPT ![t.array] = device[t.buffer]] ELSE host
      /\ UNCHANGED <<entries, modules, fault, pc, cmd, file>>
  BY <1>1 DEF DeviceStep
<1>3. /\ stream \in Seq(TaskSet) /\ t \in TaskSet /\ t = stream[1]
      /\ Len(stream) \in Nat \ {0} /\ Len(stream') = Len(stream) - 1
      /\ Len(stream') \in Nat
      /\ \A k \in 1..Len(stream') : k + 1 \in 1..Len(stream) /\ stream'[k] = stream[k + 1]
  BY <1>1, <1>2 DEF SessionInv, TypeOK
<1>4. device' = Effect(t, device, host, modules)
  BY <1>2, EffectIs
<1>5. host' = host \/ \A k \in 1..Len(stream) : stream[k].op # "copy"
  <2>1. CASE t.op = "fetch"
    <3>1. pc = "reading"
      BY <1>2, <1>3, <2>1 DEF RefinementInv, Queues
    <3> QED BY <1>2, <3>1 DEF RefinementInv, Queues
  <2>2. CASE t.op # "fetch"
    BY <1>2, <2>2
  <2> QED BY <2>1, <2>2
<1>6. \A q \in Handles : modules[q] # Null => modules'[q] = modules[q]
  BY <1>2
<1>7. Memory(device', stream', host', modules') = Memory(device', stream', host, modules)
  BY <1>2, <1>5, <1>6, QuietTail DEF SessionInv
<1>8. Memory(Effect(Head(stream), device, host, modules), Tail(stream), host, modules) =
        Memory(device, stream, host, modules)
  BY <1>2, <1>3, MemoryHead
<1>9. Settled' = Settled
  BY <1>1, <1>2, <1>4, <1>7, <1>8, SettledIs, SettledNext
<1>10. View' = View /\ Sized'
  BY <1>2, <1>9, ViewStays, SizedStays DEF RefinementInv
<1>11. Running'
  BY <1>2 DEF Running
<1>12. Queues'
  BY <1>2, <1>3 DEF RefinementInv, Queues
<1>13. Storing'
  <2>1. pc = "release" => t.op # "fetch"
    BY <1>2, <1>3 DEF RefinementInv, Queues
  <2> QED BY <1>2, <2>1 DEF RefinementInv, Storing
<1>14. Reading'
  <2> SUFFICES ASSUME pc = "reading"
               PROVE  /\ BufferOf(cmd.name)' # Null
                      /\ IF stream' = <<>> THEN host'[cmd.array] = device'[BufferOf(cmd.name)']
                         ELSE stream'[Len(stream')] = Fetch(BufferOf(cmd.name)', cmd.array)
    BY <1>2 DEF Reading
  <2>1. PICK p : p = BufferOf(cmd.name)
    OBVIOUS
  <2>2. BufferOf(cmd.name)' = p
    BY <1>2, <2>1 DEF BufferOf, Known, find_entry
  <2>3. p # Null /\ stream[Len(stream)] = Fetch(p, cmd.array)
    BY <1>2, <2>1 DEF RefinementInv, Reading
  <2>4. CASE Len(stream) = 1
    <3>1. stream' = <<>>
      BY <1>3, <1>2, <2>4
    <3>2. t.op = "fetch" /\ t.buffer = p /\ t.array = cmd.array
      BY <1>3, <2>3, <2>4 DEF Fetch
    <3>3. device' = [device EXCEPT ![p] = device[p]]
      BY <1>4, <3>2 DEF Effect
    <3>4. p \in Pointers /\ cmd.array \in Arrays
      BY <1>3, <3>2, TaskShape
    <3>5. host'[cmd.array] = device'[p]
      BY <1>2, <3>2, <3>3, <3>4 DEF SessionInv, TypeOK
    <3> QED BY <2>2, <2>3, <3>1, <3>5
  <2>5. CASE Len(stream) # 1
    <3>1. stream' # <<>> /\ stream'[Len(stream')] = stream[Len(stream)]
      BY <1>3, <2>5
    <3> QED BY <2>2, <2>3, <3>1
  <2> QED BY <2>4, <2>5
<1> QED BY <1>2, <1>10, <1>11, <1>12, <1>13, <1>14, Invisible DEF RefinementInv

\* `free` takes effect when the stream is synchronized.
LEMMA RemoveEffect ==
    ASSUME SessionInv, SessionInv', SessionAssumption, RefinementInv, RemoveEntry
    PROVE  RefinementInv' /\ [Promise!Next]_(Promise!vars)
<1>1. PICK name : name = cmd.name
  OBVIOUS
<1>2. /\ pc = "release" /\ stream = <<>> /\ stream' = <<>> /\ pc' = "command"
      /\ device' = Freed(name) /\ modules' = Unloaded(name)
      /\ entries' = Without(find_entry(name)) /\ UNCHANGED <<host, file>>
  BY <1>1 DEF RemoveEntry, Synchronized, Answer
<1>3. Known(name) /\ name \in Names
  <2>1. cmd.op = "free"
    BY DEF RemoveEntry
  <2> QED BY <1>1, <1>2, <2>1 DEF SessionInv, CommandOK, TypeOK, CommandSet, Idle
<1>4. /\ Kept(name) /\ BufferOf(name)' = Null /\ ModuleOf(name)' = Null
      /\ \A i \in DOMAIN entries' : entries'[i].name # name
  BY <1>2, <1>3, WithoutKept DEF SessionInv
<1>5. Settled' = device' /\ Settled = device
  BY <1>2, MemoryEmpty, SettledIs, SettledNext
<1>6. \A q \in Pointers : q # BufferOf(name) => Settled'[q] = Settled[q]
  BY <1>2, <1>5 DEF Freed
<1>7. \A q \in Handles : modules[q] # Null /\ q # ModuleOf(name) => modules'[q] = modules[q]
  BY <1>2 DEF Unloaded
<1>8. Sized'
  BY <1>4, <1>6, SizedMoves DEF RefinementInv
<1>9. Queues' /\ Storing' /\ Reading' /\ Running /\ Running'
  BY <1>2 DEF Queues, Storing, Reading, Running
<1>10. \A n \in Names : n # name => BufferOf(n)' = BufferOf(n) /\ ModuleOf(n)' = ModuleOf(n)
  BY <1>4, OthersHeld DEF SessionInv
<1>11. View' = [View EXCEPT ![name] =
                  Sight(BufferOf(name)', ModuleOf(name)', Settled', modules')]
  BY <1>3, <1>6, <1>7, <1>10, ViewMoves
<1>12. Sight(BufferOf(name)', ModuleOf(name)', Settled', modules') = Promise!Nothing
  BY <1>4 DEF Sight, Promise!Nothing
<1>13. View[name] # Promise!Nothing
  <2>1. View[name] = Sight(BufferOf(name), ModuleOf(name), Settled, modules)
    BY <1>3, ViewIs
  <2>2. BufferOf(name) # Null \/ ModuleOf(name) # Null
    <3>1. entries[find_entry(name)] \in EntrySet
      BY <1>3, FindEntry DEF SessionInv
    <3>2. BufferOf(name) = entries[find_entry(name)].buffer
          /\ ModuleOf(name) = entries[find_entry(name)].module
      BY <1>3, HeldByName DEF SessionInv
    <3> QED BY <3>1, <3>2 DEF EntrySet, SessionAssumption
  <2>3. \A b, m, mem, mods : b # Null \/ m # Null => Sight(b, m, mem, mods).kind # "nothing"
    BY DEF Sight
  <2> QED BY <2>1, <2>2, <2>3 DEF Promise!Nothing
<1>14. Promise!Free(name)
  BY <1>2, <1>9, <1>11, <1>12, <1>13 DEF Promise!Free
<1>15. Promise!Next
  BY <1>3, <1>9, <1>14 DEF Promise!Next
<1> QED BY <1>8, <1>9, <1>15 DEF RefinementInv

\* The stream is synchronized, so an array may be freed.
LEMMA SyncedEffect ==
    ASSUME SessionInv, RefinementInv, stream = <<>>, Running, pc' = "command",
           UNCHANGED <<entries, device, modules, stream>>
    PROVE  RefinementInv' /\ View' = View /\ Running'
<1>1. Len(stream) = 0
  OBVIOUS
<1>2. \A k \in 1..Len(stream) : stream[k].op # "copy"
  BY <1>1
<1>3. Settled' = Settled
  BY <1>2, Undisturbed DEF SessionInv
<1>4. View' = View /\ Sized'
  BY <1>3, ViewStays, SizedStays DEF RefinementInv
<1>5. Queues' /\ Storing' /\ Reading' /\ Running'
  BY <1>1 DEF Queues, Storing, Reading, Running
<1> QED BY <1>4, <1>5 DEF RefinementInv

\* A file gets the contents that its name had when it was read.
LEMMA StoredEffect ==
    ASSUME SessionInv, RefinementInv, Stored
    PROVE  RefinementInv' /\ [Promise!Next]_(Promise!vars)
<1>1. /\ stream = <<>> /\ Running /\ pc' = "command"
      /\ UNCHANGED <<entries, device, modules, stream, file>>
  BY DEF Stored, Synchronized, Running, Answer
<1>2. RefinementInv' /\ View' = View /\ Running'
  BY <1>1, SyncedEffect
<1> QED BY <1>1, <1>2, Invisible

\* `read` writes what the name stands for.
LEMMA ReadBackEffect ==
    ASSUME SessionInv, RefinementInv, ReadBack
    PROVE  RefinementInv' /\ [Promise!Next]_(Promise!vars)
<1>1. /\ stream = <<>> /\ Running /\ pc = "reading" /\ pc' = "command"
      /\ file' = host[cmd.array]
      /\ UNCHANGED <<entries, device, modules, stream>>
  BY DEF ReadBack, Synchronized, Running, Answer
<1>2. RefinementInv' /\ View' = View /\ Running'
  BY <1>1, SyncedEffect
<1>3. PICK name : name = cmd.name
  OBVIOUS
<1>4. BufferOf(name) # Null /\ file' = device[BufferOf(name)]
  BY <1>1, <1>3 DEF RefinementInv, Reading
<1>5. Settled = device
  BY <1>1, MemoryEmpty, SettledIs
<1>6. name \in Names
  BY <1>1, <1>3 DEF SessionInv, CommandOK, TypeOK, CommandSet, Idle
<1>7. View[name] = [kind |-> "buffer", data |-> device[BufferOf(name)]]
  BY <1>4, <1>5, <1>6, ViewIs DEF Sight
<1>8. Promise!Read(name)
  BY <1>1, <1>2, <1>4, <1>7 DEF Promise!Read, Promise!IsBuffer
<1>9. Promise!Next
  BY <1>1, <1>6, <1>8 DEF Promise!Next
<1> QED BY <1>2, <1>9

\* A buffer replaced after the wait is given its contents.
LEMMA ReallocateEffect ==
    ASSUME SessionInv, SessionInv', SessionAssumption, RefinementAssumption, RefinementInv,
           Reallocate
    PROVE  RefinementInv' /\ [Promise!Next]_(Promise!vars)
<1>1. PICK c : c = cmd
  OBVIOUS
<1>2. /\ pc = "release" /\ stream = <<>> /\ c.op \in {"store", "output"}
      /\ Allocate(c) /\ UNCHANGED <<host, file>>
  BY <1>1 DEF Reallocate, Synchronized
<1>3. Stocked(c, host')
  BY <1>1, <1>2 DEF Stocked, Buffered, RefinementInv, Storing, SessionInv, TypeOK
<1> QED BY <1>2, <1>3, AllocateEffect DEF RefinementInv

\* A module loaded after the wait takes its name.
LEMMA ReloadEffect ==
    ASSUME SessionInv, SessionInv', SessionAssumption, RefinementInv, Reload
    PROVE  RefinementInv' /\ [Promise!Next]_(Promise!vars)
<1>1. PICK c : c = cmd
  OBVIOUS
<1>2. /\ pc = "release" /\ stream = <<>> /\ c.op = "kernel"
      /\ LoadModule(c) /\ UNCHANGED <<host, file>>
  BY <1>1 DEF Reload, Synchronized
<1>3. c.name \in Names /\ c.image \in Images
  BY <1>1, <1>2 DEF SessionInv, TypeOK, CommandSet, Idle
<1> QED BY <1>2, <1>3, LoadEffect DEF RefinementInv

\* What a command does once the stream is empty is a step of NamedStore.
LEMMA ContinueEffect ==
    ASSUME SessionInv, SessionInv', SessionAssumption, RefinementAssumption, RefinementInv,
           Continue
    PROVE  RefinementInv' /\ [Promise!Next]_(Promise!vars)
<1>1. CASE OutOfMemory \/ Exit \/ SyncError
  <2>1. Running /\ ~Running' /\ UNCHANGED <<entries, device, modules, host, stream, file>>
    BY <1>1 DEF OutOfMemory, Exit, SyncError, Running
  <2> QED BY <2>1, QuietEffect
<1>2. CASE Reallocate
  BY <1>2, ReallocateEffect
<1>3. CASE Reload
  BY <1>3, ReloadEffect
<1>4. CASE RemoveEntry
  BY <1>4, RemoveEffect
<1>5. CASE Stored
  BY <1>5, StoredEffect
<1>6. CASE ReadBack
  BY <1>6, ReadBackEffect
<1> QED BY <1>1, <1>2, <1>3, <1>4, <1>5, <1>6 DEF Continue

\* Every command is a step of NamedStore.
LEMMA CommandEffect ==
    ASSUME SessionInv, SessionInv', SessionAssumption, RefinementAssumption, RefinementInv,
           Command
    PROVE  RefinementInv' /\ [Promise!Next]_(Promise!vars)
<1> USE DEF RefinementInv
<1>1. CASE \E n \in Names, d \in Inputs : StoreCommand(n, d)
  BY <1>1, StoreEffect
<1>2. CASE \E n \in Names, o \in Outputs : OutputCommand(n, o)
  BY <1>2, OutputEffect
<1>3. CASE \E n \in Names, m \in Images : KernelCommand(n, m)
  BY <1>3, KernelEffect
<1>4. CASE \E k, o \in Names, b \in 0..1, j \in 0..MaxInputs :
              \E ins \in [1..j -> Names] : RunCommand(k, b, o, ins)
  BY <1>4, RunEffect
<1>5. CASE \E n \in Names : ReadCommand(n)
  BY <1>5, ReadEffect
<1>6. CASE \E n \in Names : FreeCommand(n)
  BY <1>6, FreeEffect
<1>7. CASE QuitCommand
  <2>1. /\ pc = "command" /\ pc' = "quit"
        /\ UNCHANGED <<entries, device, modules, host, stream, file>>
    BY <1>7 DEF QuitCommand, Wait
  <2> QED BY <2>1, QuietEffect
<1> QED BY <1>1, <1>2, <1>3, <1>4, <1>5, <1>6, <1>7 DEF Command

\* Every step of the session is a step of the store, or is invisible.
LEMMA StepEffect ==
    ASSUME SessionInv, SessionInv', SessionAssumption, RefinementAssumption, RefinementInv,
           [Next]_vars
    PROVE  RefinementInv' /\ [Promise!Next]_(Promise!vars)
<1>1. CASE Command
  BY <1>1, CommandEffect
<1>2. CASE DeviceStep
  BY <1>2, DeviceEffect
<1>3. CASE Continue
  BY <1>3, ContinueEffect
<1>4. CASE LaunchFault \/ Ended \/ UNCHANGED vars
  <2>1. UNCHANGED <<entries, device, modules, host, stream, file, pc, cmd>>
    BY <1>4 DEF LaunchFault, Ended, vars
  <2> QED BY <2>1, QuietEffect
<1>5. CASE Die
  <2>1. Running /\ ~Running' /\ UNCHANGED <<entries, device, modules, host, stream, file>>
    BY <1>5 DEF Die, Running
  <2> QED BY <2>1, QuietEffect
<1> QED BY <1>1, <1>2, <1>3, <1>4, <1>5 DEF Next

\* A session begins as NamedStore does.
LEMMA StartsEmpty ==
    ASSUME Init, SessionAssumption PROVE RefinementInv /\ Promise!Init
<1>1. Running /\ Len(stream) = 0 /\ DOMAIN entries = {}
  BY DEF Init, Running
<1>2. RefinementInv
  BY <1>1 DEF Init, RefinementInv, Sized, Queues, Storing, Reading
<1>3. \A n \in Names : BufferOf(n) = Null /\ ModuleOf(n) = Null
  BY <1>1 DEF BufferOf, ModuleOf, Known, find_entry
<1>4. View = [n \in Names |-> Promise!Nothing]
  BY <1>3, ViewIs DEF Sight, Promise!Nothing
<1>5. Promise!Init
  BY <1>1, <1>4 DEF Promise!Init, Init
<1> QED BY <1>2, <1>5

\* The session keeps the promise of the store: to its client every command takes
\* effect at once and in order, for every table, queue, memory and set of kernels,
\* though the device runs behind the host and buffers are freed and given out again.
THEOREM Implementation == Spec => ImplementsStore
<1>1. Init => RefinementInv /\ Promise!Init
  BY StartsEmpty, SessionAssumption
<1>2. SessionInv /\ SessionInv' /\ RefinementInv /\ [Next]_vars
         => RefinementInv' /\ [Promise!Next]_(Promise!vars)
  BY StepEffect, SessionAssumption, RefinementAssumption
<1>3. Spec => []SessionInv
  BY Invariance
<1> QED BY <1>1, <1>2, <1>3, PTL DEF Spec, ImplementsStore, Promise!Spec
=============================================================================
