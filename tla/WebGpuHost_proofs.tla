--------------------------- MODULE WebGpuHost_proofs ---------------------------
(***************************************************************************)
(* The WebGPU host, for every number of names, handles, shaders and queued *)
(* tasks: its references have one owner, its session is a table on which   *)
(* commands take effect at once, and `run` prints what it computed.        *)
(***************************************************************************)
EXTENDS WebGpuHost, FiniteSetTheorems, WellFoundedInduction, TLAPS

-----------------------------------------------------------------------------
(* Induction along a queue. *)

Below == {ss \in Nat \X Nat : ss[1] < ss[2]}

\* The order of the naturals is well founded.
LEMMA BelowWellFounded == IsWellFoundedOn(Below, Nat)
BY NatLessThanWellFounded DEF OpToRel, Below

\* Induction along the places of a queue.
LEMMA Along ==
    ASSUME NEW n \in Nat, NEW S, 0 \in S, \A k \in 1..n : k - 1 \in S => k \in S
    PROVE  0..n \subseteq S
<1> DEFINE T == (0..n) \ S
<1> SUFFICES ASSUME T # {} PROVE FALSE
  OBVIOUS
<1>1. PICK x \in T : \A y \in T : ~(<<y, x>> \in Below)
  <2>1. T \subseteq Nat
    OBVIOUS
  <2> HIDE DEF T
  <2> QED BY <2>1, BelowWellFounded, WFMin, Zenon
<1>2. x \in 1..n /\ x - 1 \in 0..n
  OBVIOUS
<1>3. <<x - 1, x>> \in Below
  BY <1>2 DEF Below
<1>4. x - 1 \notin T
  BY <1>1, <1>3
<1> QED BY <1>2, <1>4

-----------------------------------------------------------------------------
(* Memory after the queued tasks, as a function of the memory now and the  *)
(* queue.                                                                  *)

\* The memory after each task.
Course(f, d, s) == f = [k \in 0..Len(s) |-> IF k = 0 THEN d ELSE After(s[k], f[k - 1])]

Memory(d, s) == (CHOOSE f : Course(f, d, s))[Len(s)]

\* Settled is the memory after the queue.
LEMMA SettledIs == Settled = Memory(memory, queue)
<1>1. Later = CHOOSE f : Course(f, memory, queue)
  BY Zenon DEF Later, Course
<1> QED BY <1>1 DEF Settled, Memory

\* A queue has a course, from one memory to the next.
LEMMA CourseExists ==
    ASSUME NEW d, NEW s, Len(s) \in Nat
    PROVE  \E f : Course(f, d, s)
<1> DEFINE Upto(f, n) == f = [k \in 0..n |-> IF k = 0 THEN d ELSE After(s[k], f[k - 1])]
           S == {n \in 0..Len(s) : \E f : Upto(f, n)}
<1>1. 0 \in S
  <2>1. Upto([k \in 0..0 |-> d], 0) /\ 0 \in 0..Len(s)
    OBVIOUS
  <2> QED BY <2>1, Zenon
<1>2. ASSUME NEW n \in 1..Len(s), n - 1 \in S PROVE n \in S
  <2>1. PICK f : Upto(f, n - 1)
    BY <1>2
  <2> DEFINE g == [k \in 0..n |-> IF k = n THEN After(s[n], f[n - 1]) ELSE f[k]]
  <2>2. \A k \in 0..n - 1 : g[k] = f[k]
    OBVIOUS
  <2>3. ASSUME NEW k \in 0..n
        PROVE  g[k] = IF k = 0 THEN d ELSE After(s[k], g[k - 1])
    <3>1. CASE k = 0
      BY <2>1, <3>1
    <3>2. CASE k = n
      <4>1. n - 1 \in 0..n - 1 /\ k # 0
        BY <3>2
      <4>2. g[k] = After(s[n], f[n - 1])
        BY <3>2
      <4> HIDE DEF g
      <4> QED BY <2>2, <3>2, <4>1, <4>2
    <3>3. CASE k \in 1..n - 1
      <4>1. k - 1 \in 0..n - 1 /\ k # 0 /\ k \in 0..n - 1
        BY <3>3
      <4>2. f[k] = After(s[k], f[k - 1])
        BY <2>1, <4>1
      <4> HIDE DEF g
      <4> QED BY <2>2, <4>1, <4>2
    <3> QED BY <3>1, <3>2, <3>3
  <2>4. g = [k \in 0..n |-> g[k]]
    OBVIOUS
  <2> HIDE DEF g
  <2>5. Upto(g, n)
    BY <2>3, <2>4, Zenon
  <2>6. n \in 0..Len(s)
    OBVIOUS
  <2> QED BY <2>5, <2>6, Zenon
<1> HIDE DEF S
<1>3. 0..Len(s) \subseteq S
  BY <1>1, <1>2, Along
<1>4. Len(s) \in S
  BY <1>3
<1> QED BY <1>4 DEF S, Course

\* A queue has one course.
LEMMA CourseUnique ==
    ASSUME NEW d, NEW s, Len(s) \in Nat,
           NEW f, NEW g, Course(f, d, s), Course(g, d, s)
    PROVE  f[Len(s)] = g[Len(s)]
<1> DEFINE S == {k \in 0..Len(s) : f[k] = g[k]}
<1>1. 0 \in S
  BY DEF Course
<1>2. ASSUME NEW k \in 1..Len(s), k - 1 \in S PROVE k \in S
  <2>1. /\ f[k] = After(s[k], f[k - 1])
        /\ g[k] = After(s[k], g[k - 1])
    BY SMTT(30) DEF Course
  <2> QED BY <1>2, <2>1
<1> HIDE DEF S
<1>3. 0..Len(s) \subseteq S
  BY <1>1, <1>2, Along
<1>4. Len(s) \in S
  BY <1>3
<1> QED BY <1>4 DEF S

\* The recursive function is the end of the course.
LEMMA MemoryIs ==
    ASSUME NEW d, NEW s, Len(s) \in Nat, NEW f, Course(f, d, s)
    PROVE  Memory(d, s) = f[Len(s)]
<1>1. Course(CHOOSE g : Course(g, d, s), d, s)
  BY Zenon
<1>2. (CHOOSE g : Course(g, d, s))[Len(s)] = f[Len(s)]
  BY <1>1, CourseUnique
<1> QED BY <1>2 DEF Memory

\* A function that takes the steps of a course is one.
LEMMA CourseSteps ==
    ASSUME NEW d, NEW s, Len(s) \in Nat,
           NEW f, f = [k \in 0..Len(s) |-> f[k]], f[0] = d,
           \A k \in 1..Len(s) : f[k] = After(s[k], f[k - 1])
    PROVE  Course(f, d, s)
<1>1. \A k \in 0..Len(s) : f[k] = IF k = 0 THEN d ELSE After(s[k], f[k - 1])
  OBVIOUS
<1> QED BY <1>1, Zenon DEF Course

\* A course begins with the memory and follows the tasks.
LEMMA CourseTakes ==
    ASSUME NEW d, NEW s, Len(s) \in Nat, NEW f, Course(f, d, s)
    PROVE  /\ f[0] = d
           /\ \A k \in 1..Len(s) : f[k] = After(s[k], f[k - 1])
BY DEF Course

\* An empty queue leaves memory as it is.
LEMMA MemoryEmpty ==
    ASSUME NEW d PROVE Memory(d, <<>>) = d
<1>1. Len(<<>>) = 0 /\ Len(<<>>) \in Nat
  OBVIOUS
<1>2. PICK f : Course(f, d, <<>>)
  BY <1>1, CourseExists
<1>3. f[0] = d
  BY <1>1, <1>2 DEF Course
<1>4. Memory(d, <<>>) = f[Len(<<>>)]
  BY <1>1, <1>2, MemoryIs, Zenon
<1> QED BY <1>1, <1>3, <1>4, Zenon

\* A task that is queued takes effect after those before it.
LEMMA MemoryAppend ==
    ASSUME NEW X, NEW s \in Seq(X), NEW t \in X, NEW d
    PROVE  Memory(d, Append(s, t)) = After(t, Memory(d, s))
<1> DEFINE a == Append(s, t)
           n == Len(s)
<1>1. /\ n \in Nat /\ Len(a) = n + 1 /\ Len(a) \in Nat /\ a[n + 1] = t
      /\ \A k \in 1..n : a[k] = s[k]
  OBVIOUS
<1> HIDE DEF a, n
<1>2. PICK g : Course(g, d, a)
  BY <1>1, CourseExists
<1>3. g[0] = d /\ \A k \in 1..n + 1 : g[k] = After(a[k], g[k - 1])
  BY <1>1, <1>2, CourseTakes
<1> DEFINE f == [k \in 0..n |-> g[k]]
<1>4. Course(f, d, s)
  <2>1. f[0] = d /\ f = [k \in 0..n |-> f[k]]
    BY <1>1, <1>3
  <2>2. \A k \in 1..n : f[k] = After(s[k], f[k - 1])
    <3> SUFFICES ASSUME NEW k \in 1..n PROVE f[k] = After(s[k], f[k - 1])
      OBVIOUS
    <3>1. f[k] = g[k] /\ f[k - 1] = g[k - 1] /\ k \in 1..n + 1
      BY <1>1
    <3> HIDE DEF f
    <3> QED BY <1>1, <1>3, <3>1
  <2> HIDE DEF f
  <2> QED BY <1>1, <2>1, <2>2, CourseSteps DEF n
<1>5. Memory(d, s) = g[n]
  <2>1. f[n] = g[n]
    BY <1>1
  <2> HIDE DEF f
  <2> QED BY <1>1, <1>4, <2>1, MemoryIs DEF n
<1>6. Memory(d, a) = g[n + 1]
  BY <1>1, <1>2, MemoryIs
<1>7. g[n + 1] = After(t, g[n])
  BY <1>1, <1>3
<1> QED BY <1>5, <1>6, <1>7 DEF a

\* The device takes the oldest task: the memory after all of them is the same.
LEMMA MemoryHead ==
    ASSUME NEW X, NEW s \in Seq(X), s # <<>>, NEW d
    PROVE  Memory(After(Head(s), d), Tail(s)) = Memory(d, s)
<1> DEFINE r == Tail(s)
           n == Len(s)
<1>1. /\ n \in Nat /\ 0 < n /\ Len(r) = n - 1 /\ Len(r) \in Nat /\ Head(s) = s[1]
      /\ \A k \in 1..n - 1 : r[k] = s[k + 1]
  OBVIOUS
<1> HIDE DEF r, n
<1>2. PICK g : Course(g, d, s)
  BY <1>1, CourseExists DEF n
<1>3. g[0] = d /\ \A k \in 1..n : g[k] = After(s[k], g[k - 1])
  BY <1>1, <1>2, CourseTakes DEF n
<1> DEFINE f == [k \in 0..n - 1 |-> g[k + 1]]
<1>4. Course(f, After(Head(s), d), r)
  <2>1. f[0] = g[1] /\ f = [k \in 0..n - 1 |-> f[k]]
    BY <1>1
  <2>2. g[1] = After(Head(s), d)
    BY <1>1, <1>3
  <2>3. \A k \in 1..n - 1 : f[k] = After(r[k], f[k - 1])
    <3> SUFFICES ASSUME NEW k \in 1..n - 1 PROVE f[k] = After(r[k], f[k - 1])
      OBVIOUS
    <3>1. f[k] = g[k + 1] /\ f[k - 1] = g[k] /\ k + 1 \in 1..n /\ (k + 1) - 1 = k
      BY <1>1
    <3> HIDE DEF f
    <3> QED BY <1>1, <1>3, <3>1
  <2> HIDE DEF f
  <2> QED BY <1>1, <2>1, <2>2, <2>3, CourseSteps
<1>5. f[n - 1] = g[n]
  BY <1>1
<1> HIDE DEF f
<1>6. Memory(After(Head(s), d), r) = f[n - 1]
  BY <1>1, <1>4, MemoryIs
<1>7. Memory(d, s) = g[n]
  BY <1>1, <1>2, MemoryIs DEF n
<1> QED BY <1>5, <1>6, <1>7 DEF r

-----------------------------------------------------------------------------
(* The invariant. *)

Served == Requests \cup {[mode |-> "session"]}

Places == {"main", "adapter", "device", "info", "run", "session", "map", "exited", "failed"}

\* An entry is a buffer or a pipeline.
EntrySet ==
    {e \in [name : Names, buffer : Buffers \cup {Null}, pipeline : Pipelines \cup {Null}] :
       e.buffer = Null <=> e.pipeline # Null}

InputLists == UNION {[1..j -> Buffers] : j \in 0..MaxInputs}
TaskSet == [op : {"write"}, buffer : Buffers, words : Contents]
           \cup [op : {"copy"}, buffer : Buffers, from : Buffers]
           \cup [op : {"dispatch"}, image : Images, buffer : Buffers, ins : InputLists]

Typed ==
    /\ request \in Served
    /\ place \in Places
    /\ entries \in Seq(EntrySet)
    /\ held \subseteq Buffers
    /\ memory \in [Buffers -> Contents \cup {Null}]
    /\ pipelines \in [Pipelines -> Images \cup {Null}]
    /\ queue \in Seq(TaskSet)
    /\ readback \in Buffers \cup {Null}

\* One flag tells of three callbacks: where the process waits for one, the flag
\* is set by none of the others, and what it brings is there once it is set.
Waits ==
    /\ place = "main" => asked = "none" /\ done = FALSE /\ gpu = {}
    /\ place = "adapter" => \/ asked = "adapter" /\ done = FALSE /\ gpu = {}
                            \/ asked = "none" /\ done = TRUE /\ gpu = {"adapter"}
    /\ place = "device" => \/ asked = "device" /\ done = FALSE /\ gpu = {"adapter"}
                           \/ asked = "none" /\ done = TRUE /\ gpu = {"adapter", "device"}
    /\ place \in {"adapter", "device"} => request.mode # "usage"
    /\ place \in {"info", "run", "session"} =>
          asked = "none" /\ gpu = {"adapter", "device"} /\ place = request.mode
    /\ place = "map" =>
          /\ gpu = {"adapter", "device"} /\ request.mode \in {"run", "session"}
          /\ \/ asked = "map" /\ done = FALSE
             \/ asked = "none" /\ done = TRUE /\ queue = <<>>

\* Before its work begins the process has nothing on the device, and a table
\* only in a session.
Unused ==
    /\ place \in {"main", "adapter", "device", "info", "run"} =>
          /\ entries = <<>> /\ held = {} /\ queue = <<>> /\ readback = Null
          /\ \A p \in Pipelines : pipelines[p] = Null
          /\ output = <<>>
    /\ request.mode # "session" => entries = <<>>

\* The entries `es` have references to the buffers `hold` and the pipelines of
\* `pipes`, each reference in one entry.
Owned(es, hold, pipes) ==
    /\ \A i, j \in DOMAIN es : es[i].name = es[j].name => i = j
    /\ \A i, j \in DOMAIN es :
          i # j => /\ es[i].buffer = es[j].buffer => es[i].buffer = Null
                   /\ es[i].pipeline = es[j].pipeline => es[i].pipeline = Null
    /\ \A i \in DOMAIN es :
          /\ es[i].buffer # Null => es[i].buffer \in hold
          /\ es[i].pipeline # Null => pipes[es[i].pipeline] # Null
    /\ \A b \in hold : \E i \in DOMAIN es : es[i].buffer = b
    /\ \A p \in Pipelines : pipes[p] # Null => \E i \in DOMAIN es : es[i].pipeline = p

TableOK ==
    request.mode = "session" =>
        /\ Owned(entries, held \ {readback}, pipelines)
        /\ readback # Null => readback \in held
        /\ place = "session" => readback = Null
        /\ place = "map" => readback # Null

\* What the host holds and what queued tasks use has contents.
Live == \A b \in held \cup Queued(queue) : memory[b] # Null

HostInv == Typed /\ Waits /\ Unused /\ TableOK /\ Live

\* What `run` prints.
Expected ==
    IF request.workgroups = 0 THEN Initial(request.output)
    ELSE Compute(request.image, [i \in 1..InputCount |-> parse_input(request.inputs[i])],
                 Initial(request.output))

\* While `run` waits for its map, the buffer it reads will hold that.
Printing ==
    request.mode = "run" =>
        /\ place = "map" => /\ RunOK
                            /\ readback \in held
                            /\ Settled[readback] = Expected
        /\ output # <<>> => output = Expected
        /\ place = "exited" => output # <<>>

\* While a `read` waits, the buffer it reads will hold what the name's will.
Reading ==
    request.mode = "session" /\ place = "map" =>
        \E n \in Names : BufferOf(n) # Null /\ Settled[readback] = Settled[BufferOf(n)]

WorkInv == HostInv /\ Printing /\ Reading

-----------------------------------------------------------------------------
(* Memories and tasks. *)

\* What a queued task has.
LEMMA TaskShape ==
    ASSUME NEW t \in TaskSet
    PROVE  /\ t.op \in {"write", "copy", "dispatch"} /\ t.buffer \in Buffers
           /\ t.op = "write" => t.words \in Contents
           /\ t.op = "copy" => t.from \in Buffers
           /\ t.op = "dispatch" => /\ t.image \in Images
                                   /\ \E j \in 0..MaxInputs : t.ins \in [1..j -> Buffers]
<1>1. CASE t \in [op : {"write"}, buffer : Buffers, words : Contents]
  BY <1>1
<1>2. CASE t \in [op : {"copy"}, buffer : Buffers, from : Buffers]
  BY <1>2
<1>3. CASE t \in [op : {"dispatch"}, image : Images, buffer : Buffers, ins : InputLists]
  BY <1>3 DEF InputLists
<1> QED BY <1>1, <1>2, <1>3 DEF TaskSet

\* The buffers that a task uses.
LEMMA UsesShape ==
    ASSUME NEW t \in TaskSet
    PROVE  /\ Uses(t) \subseteq Buffers /\ t.buffer \in Uses(t)
           /\ t.op = "copy" => t.from \in Uses(t)
           /\ t.op = "dispatch" => \A i \in DOMAIN t.ins : t.ins[i] \in Uses(t)
           /\ \A b \in Uses(t) : \/ b = t.buffer
                                 \/ t.op = "copy" /\ b = t.from
                                 \/ t.op = "dispatch" /\ \E i \in DOMAIN t.ins : b = t.ins[i]
<1>1. /\ t.op \in {"write", "copy", "dispatch"} /\ t.buffer \in Buffers
      /\ t.op = "copy" => t.from \in Buffers
      /\ t.op = "dispatch" => \A i \in DOMAIN t.ins : t.ins[i] \in Buffers
  BY TaskShape
<1>2. CASE t.op = "write"
  BY <1>1, <1>2 DEF Uses
<1>3. CASE t.op = "copy"
  BY <1>1, <1>3 DEF Uses
<1>4. CASE t.op = "dispatch"
  BY <1>1, <1>4 DEF Uses
<1> QED BY <1>1, <1>2, <1>3, <1>4

\* The buffers that a queue uses are those of its tasks.
LEMMA QueuedShape ==
    ASSUME NEW s \in Seq(TaskSet)
    PROVE  /\ Queued(s) \subseteq Buffers
           /\ \A k \in 1..Len(s) : Uses(s[k]) \subseteq Queued(s)
           /\ s # <<>> => /\ Head(s) \in TaskSet /\ Tail(s) \in Seq(TaskSet)
                          /\ Uses(Head(s)) \subseteq Queued(s)
                          /\ Queued(Tail(s)) \subseteq Queued(s)
<1>1. DOMAIN s = 1..Len(s) /\ Len(s) \in Nat /\ \A k \in 1..Len(s) : s[k] \in TaskSet
  OBVIOUS
<1>2. Queued(s) \subseteq Buffers
  BY <1>1, UsesShape DEF Queued
<1>3. \A k \in 1..Len(s) : Uses(s[k]) \subseteq Queued(s)
  BY <1>1 DEF Queued
<1>4. ASSUME s # <<>>
      PROVE  /\ Head(s) \in TaskSet /\ Tail(s) \in Seq(TaskSet)
             /\ Uses(Head(s)) \subseteq Queued(s)
             /\ Queued(Tail(s)) \subseteq Queued(s)
  <2> DEFINE r == Tail(s)
  <2>1. /\ 1 \in 1..Len(s) /\ Head(s) = s[1] /\ r \in Seq(TaskSet)
        /\ DOMAIN r = 1..Len(s) - 1
        /\ \A k \in DOMAIN r : k + 1 \in 1..Len(s) /\ r[k] = s[k + 1]
    BY <1>4
  <2> HIDE DEF r
  <2>2. Queued(r) \subseteq Queued(s)
    BY <2>1, <1>3 DEF Queued
  <2> QED BY <1>1, <1>3, <2>1, <2>2 DEF r
<1> QED BY <1>2, <1>3, <1>4

\* A task put behind a queue adds the buffers it uses.
LEMMA QueuedAppend ==
    ASSUME NEW s \in Seq(TaskSet), NEW t \in TaskSet
    PROVE  /\ Append(s, t) \in Seq(TaskSet)
           /\ Queued(Append(s, t)) = Queued(s) \cup Uses(t)
<1> DEFINE a == Append(s, t)
<1>1. /\ a \in Seq(TaskSet) /\ DOMAIN a = 1..Len(s) + 1 /\ DOMAIN s = 1..Len(s) /\ Len(s) \in Nat
      /\ a[Len(s) + 1] = t /\ \A k \in 1..Len(s) : a[k] = s[k]
  OBVIOUS
<1> HIDE DEF a
<1>2. Queued(s) \cup Uses(t) \subseteq Queued(a)
  BY <1>1 DEF Queued
<1>3. Queued(a) \subseteq Queued(s) \cup Uses(t)
  <2> SUFFICES ASSUME NEW k \in 1..Len(s) + 1 PROVE Uses(a[k]) \subseteq Queued(s) \cup Uses(t)
    BY <1>1 DEF Queued
  <2>1. CASE k = Len(s) + 1
    BY <1>1, <2>1
  <2>2. CASE k \in 1..Len(s)
    BY <1>1, <2>2 DEF Queued
  <2> QED BY <1>1, <2>1, <2>2
<1> QED BY <1>1, <1>2, <1>3 DEF a

\* A function of the buffers.
Plain(d) == d = [b \in Buffers |-> d[b]]

Agree(d, e, S) == \A b \in S : d[b] = e[b]

\* A task changes one buffer.
LEMMA AfterPlain ==
    ASSUME NEW t, NEW d, Plain(d)
    PROVE  Plain(After(t, d)) /\ \A b \in Buffers : b # t.buffer => After(t, d)[b] = d[b]
<1>1. PICK w : After(t, d) = [d EXCEPT ![t.buffer] = w]
  BY DEF After
<1>2. DOMAIN d = Buffers
  BY DEF Plain
<1>3. After(t, d) = [b \in Buffers |-> IF b = t.buffer THEN w ELSE d[b]]
  BY <1>1, <1>2, Zenon
<1> HIDE DEF Plain
<1>4. \A b \in Buffers : After(t, d)[b] = IF b = t.buffer THEN w ELSE d[b]
  BY <1>3
<1> QED BY <1>3, <1>4 DEF Plain

\* What a task leaves in its buffer depends on what it uses.
LEMMA AfterAgrees ==
    ASSUME NEW t \in TaskSet, NEW d, NEW e, Plain(d), Plain(e), Agree(d, e, Uses(t))
    PROVE  After(t, d)[t.buffer] = After(t, e)[t.buffer]
<1>1. /\ t.buffer \in Buffers /\ t.op \in {"write", "copy", "dispatch"}
      /\ d[t.buffer] = e[t.buffer]
      /\ t.op = "copy" => d[t.from] = e[t.from]
      /\ t.op = "dispatch" => \A i \in DOMAIN t.ins : d[t.ins[i]] = e[t.ins[i]]
  BY TaskShape, UsesShape DEF Agree
<1>2. DOMAIN d = Buffers /\ DOMAIN e = Buffers
  BY DEF Plain
<1>3. CASE t.op = "write"
  BY <1>1, <1>2, <1>3 DEF After
<1>4. CASE t.op = "copy"
  BY <1>1, <1>2, <1>4 DEF After
<1>5. CASE t.op = "dispatch"
  <2>1. [i \in DOMAIN t.ins |-> d[t.ins[i]]] = [i \in DOMAIN t.ins |-> e[t.ins[i]]]
    BY <1>1, <1>5
  <2>2. PICK w : /\ After(t, d) = [d EXCEPT ![t.buffer] = w]
                 /\ After(t, e) = [e EXCEPT ![t.buffer] = w]
    <3>1. t.op # "write" /\ t.op # "copy"
      BY <1>5
    <3>2. After(t, d) = [d EXCEPT ![t.buffer] =
             Compute(t.image, [i \in DOMAIN t.ins |-> d[t.ins[i]]], d[t.buffer])]
      BY <3>1, Zenon DEF After
    <3>3. After(t, e) = [e EXCEPT ![t.buffer] =
             Compute(t.image, [i \in DOMAIN t.ins |-> e[t.ins[i]]], e[t.buffer])]
      BY <3>1, Zenon DEF After
    <3> QED BY <1>1, <2>1, <3>2, <3>3, Zenon
  <2> QED BY <1>1, <1>2, <2>2
<1> QED BY <1>1, <1>3, <1>4, <1>5

\* Every memory of a course is a function from buffers.
LEMMA CoursePlain ==
    ASSUME NEW s, Len(s) \in Nat, NEW d, Plain(d), NEW f, Course(f, d, s)
    PROVE  \A k \in 0..Len(s) : Plain(f[k])
<1> DEFINE S == {k \in 0..Len(s) : Plain(f[k])}
<1>1. f[0] = d /\ \A k \in 1..Len(s) : f[k] = After(s[k], f[k - 1])
  BY CourseTakes
<1>2. 0 \in S
  BY <1>1
<1>3. ASSUME NEW k \in 1..Len(s), k - 1 \in S PROVE k \in S
  <2>1. Plain(After(s[k], f[k - 1]))
    BY <1>3, AfterPlain
  <2> QED BY <1>1, <2>1
<1> HIDE DEF S
<1>4. 0..Len(s) \subseteq S
  BY <1>2, <1>3, Along
<1> QED BY <1>4 DEF S

\* Memory after a queue is a function from buffers.
LEMMA MemoryPlain ==
    ASSUME NEW s, Len(s) \in Nat, NEW d, Plain(d)
    PROVE  Plain(Memory(d, s))
<1>1. PICK f : Course(f, d, s)
  BY CourseExists
<1>2. Memory(d, s) = f[Len(s)] /\ Len(s) \in 0..Len(s)
  BY <1>1, MemoryIs
<1> QED BY <1>1, <1>2, CoursePlain

\* Memories that agree on all that queued tasks use, agree after them.
LEMMA MemoryAgrees ==
    ASSUME NEW s \in Seq(TaskSet), NEW S \in SUBSET Buffers, Queued(s) \subseteq S,
           NEW d, NEW e, Plain(d), Plain(e), Agree(d, e, S)
    PROVE  Agree(Memory(d, s), Memory(e, s), S)
<1>1. Len(s) \in Nat /\ \A k \in 1..Len(s) : s[k] \in TaskSet /\ Uses(s[k]) \subseteq S
  BY QueuedShape
<1>2. PICK f : Course(f, d, s)
  BY <1>1, CourseExists
<1>3. PICK g : Course(g, e, s)
  BY <1>1, CourseExists
<1>4. /\ f[0] = d /\ \A k \in 1..Len(s) : f[k] = After(s[k], f[k - 1])
      /\ g[0] = e /\ \A k \in 1..Len(s) : g[k] = After(s[k], g[k - 1])
      /\ \A k \in 0..Len(s) : Plain(f[k]) /\ Plain(g[k])
  <2>1. f[0] = d /\ \A k \in 1..Len(s) : f[k] = After(s[k], f[k - 1])
    BY <1>1, <1>2, CourseTakes
  <2>2. g[0] = e /\ \A k \in 1..Len(s) : g[k] = After(s[k], g[k - 1])
    BY <1>1, <1>3, CourseTakes
  <2>3. \A k \in 0..Len(s) : Plain(f[k])
    BY <1>1, <1>2, CoursePlain
  <2>4. \A k \in 0..Len(s) : Plain(g[k])
    BY <1>1, <1>3, CoursePlain
  <2> QED BY <2>1, <2>2, <2>3, <2>4
<1> DEFINE T == {k \in 0..Len(s) : Agree(f[k], g[k], S)}
<1>5. 0 \in T
  BY <1>1, <1>4
<1>6. ASSUME NEW k \in 1..Len(s), k - 1 \in T PROVE k \in T
  <2>1. /\ Plain(f[k - 1]) /\ Plain(g[k - 1]) /\ Agree(f[k - 1], g[k - 1], S)
        /\ f[k] = After(s[k], f[k - 1]) /\ g[k] = After(s[k], g[k - 1])
    BY <1>4, <1>6
  <2>2. PICK m, n : m = f[k - 1] /\ n = g[k - 1]
    OBVIOUS
  <2>3. Agree(m, n, Uses(s[k]))
    BY <1>1, <2>1, <2>2 DEF Agree
  <2>4. After(s[k], m)[s[k].buffer] = After(s[k], n)[s[k].buffer]
    BY <1>1, <2>1, <2>2, <2>3, AfterAgrees
  <2>5. \A b \in S : b # s[k].buffer => /\ After(s[k], m)[b] = m[b]
                                        /\ After(s[k], n)[b] = n[b]
    BY <2>1, <2>2, AfterPlain
  <2>6. Agree(After(s[k], m), After(s[k], n), S)
    BY <2>1, <2>2, <2>4, <2>5 DEF Agree
  <2>7. k \in 0..Len(s)
    OBVIOUS
  <2> QED BY <2>1, <2>2, <2>6, <2>7
<1> HIDE DEF T
<1>7. 0..Len(s) \subseteq T
  BY <1>1, <1>5, <1>6, Along
<1>8. Agree(f[Len(s)], g[Len(s)], S)
  BY <1>1, <1>7 DEF T
<1> QED BY <1>1, <1>2, <1>3, <1>8, MemoryIs

\* A buffer that no queued task uses keeps what it holds.
LEMMA MemoryUntouched ==
    ASSUME NEW s \in Seq(TaskSet), NEW d, Plain(d), NEW b \in Buffers \ Queued(s)
    PROVE  Memory(d, s)[b] = d[b]
<1>1. Len(s) \in Nat /\ \A k \in 1..Len(s) : s[k] \in TaskSet /\ Uses(s[k]) \subseteq Queued(s)
  BY QueuedShape
<1>2. PICK f : Course(f, d, s)
  BY <1>1, CourseExists
<1>3. /\ f[0] = d /\ \A k \in 1..Len(s) : f[k] = After(s[k], f[k - 1])
      /\ \A k \in 0..Len(s) : Plain(f[k])
  BY <1>1, <1>2, CourseTakes, CoursePlain
<1> DEFINE T == {k \in 0..Len(s) : f[k][b] = d[b]}
<1>4. 0 \in T
  BY <1>1, <1>3
<1>5. ASSUME NEW k \in 1..Len(s), k - 1 \in T PROVE k \in T
  <2>1. b # s[k].buffer
    BY <1>1, UsesShape
  <2>2. After(s[k], f[k - 1])[b] = f[k - 1][b]
    BY <1>3, <2>1, AfterPlain
  <2> QED BY <1>3, <1>5, <2>2
<1> HIDE DEF T
<1>6. 0..Len(s) \subseteq T
  BY <1>1, <1>4, <1>5, Along
<1>7. f[Len(s)][b] = d[b]
  BY <1>1, <1>6 DEF T
<1> QED BY <1>1, <1>2, <1>7, MemoryIs

-----------------------------------------------------------------------------
(* The table. *)

\* find_entry finds the entry of a name that is in the table.
LEMMA FindEntry ==
    ASSUME Typed, NEW name
    PROVE  /\ Known(name) <=> \E i \in DOMAIN entries : entries[i].name = name
           /\ Known(name) => /\ find_entry(name) \in 1..Len(entries)
                             /\ find_entry(name) \in DOMAIN entries
                             /\ entries[find_entry(name)] \in EntrySet
                             /\ entries[find_entry(name)].name = name
<1> entries \in Seq(EntrySet) /\ DOMAIN entries = 1..Len(entries) /\ Len(entries) \in Nat
  BY DEF Typed
<1>1. CASE \E i \in DOMAIN entries : entries[i].name = name
  <2> find_entry(name) \in DOMAIN entries /\ entries[find_entry(name)].name = name
    BY <1>1, Zenon DEF find_entry
  <2> QED BY <1>1 DEF Known
<1>2. CASE ~(\E i \in DOMAIN entries : entries[i].name = name)
  BY <1>2, Zenon DEF find_entry, Known
<1> QED BY <1>1, <1>2

\* What a name holds is in its entry, and nothing else is.
LEMMA HeldByName ==
    ASSUME Typed, NEW name
    PROVE  /\ BufferOf(name) \in Buffers \cup {Null}
           /\ PipelineOf(name) \in Pipelines \cup {Null}
           /\ ~Known(name) => BufferOf(name) = Null /\ PipelineOf(name) = Null
           /\ Known(name) => /\ BufferOf(name) = entries[find_entry(name)].buffer
                             /\ PipelineOf(name) = entries[find_entry(name)].pipeline
BY FindEntry DEF BufferOf, PipelineOf, EntrySet

\* What a name has, the host has a reference to.
LEMMA NameHolds ==
    ASSUME Typed, NEW hold, Owned(entries, hold, pipelines), NEW name
    PROVE  /\ BufferOf(name) # Null => BufferOf(name) \in Buffers /\ BufferOf(name) \in hold
           /\ PipelineOf(name) # Null => /\ PipelineOf(name) \in Pipelines
                                         /\ pipelines[PipelineOf(name)] # Null
BY FindEntry, HeldByName DEF Owned

\* What the other entries hold stays when a name's reference is released.
LEMMA OthersHold ==
    ASSUME Typed, NEW hold, Owned(entries, hold, pipelines), NEW name,
           NEW i \in DOMAIN entries, ~Known(name) \/ i # find_entry(name)
    PROVE  /\ entries[i].name # name
           /\ entries[i].buffer # Null =>
                 entries[i].buffer \in hold /\ entries[i].buffer # BufferOf(name)
           /\ entries[i].pipeline # Null =>
                 /\ PipelinesLeft(name)[entries[i].pipeline] # Null
                 /\ entries[i].pipeline # PipelineOf(name)
<1>1. entries[i] \in EntrySet
  BY DEF Typed
<1>2. entries[i].buffer \in Buffers \cup {Null} /\ entries[i].pipeline \in Pipelines \cup {Null}
  BY <1>1 DEF EntrySet
<1>3. /\ entries[i].name # name
      /\ entries[i].buffer # Null => entries[i].buffer # BufferOf(name)
      /\ entries[i].pipeline # Null => entries[i].pipeline # PipelineOf(name)
  <2>1. CASE Known(name)
    <3>1. /\ find_entry(name) \in DOMAIN entries /\ entries[find_entry(name)].name = name
          /\ BufferOf(name) = entries[find_entry(name)].buffer
          /\ PipelineOf(name) = entries[find_entry(name)].pipeline
          /\ i # find_entry(name)
      BY <2>1, FindEntry, HeldByName
    <3> QED BY <3>1 DEF Owned
  <2>2. CASE ~Known(name)
    BY <2>2, FindEntry, HeldByName
  <2> QED BY <2>1, <2>2
<1> QED BY <1>2, <1>3 DEF Owned, PipelinesLeft

\* `pipes` has what is left of the pipelines, and `p`.
LeftWith(pipes, name, p) ==
    \A q \in Pipelines : pipes[q] # Null <=> (q = p \/ PipelinesLeft(name)[q] # Null)

\* new_entry, filled in, with a reference that no entry has once the name's own
\* is released.
LEMMA PutOwned ==
    ASSUME Typed, Null \notin Buffers, Null \notin Pipelines,
           NEW hold \in SUBSET Buffers, Owned(entries, hold, pipelines),
           NEW name \in Names, NEW b \in Buffers \cup {Null}, NEW p \in Pipelines \cup {Null},
           b = Null <=> p # Null, Put(name, b, p),
           b \notin hold \ {BufferOf(name)},
           p # Null => PipelinesLeft(name)[p] = Null,
           NEW h, h = (hold \ {BufferOf(name)}) \cup ({b} \ {Null}),
           NEW m, LeftWith(m, name, p)
    PROVE  entries' \in Seq(EntrySet) /\ Owned(entries', h, m)
<1> USE DEF LeftWith
<1> DEFINE new == [name |-> name, buffer |-> b, pipeline |-> p]
           at == IF Known(name) THEN find_entry(name) ELSE Len(entries) + 1
<1>1. /\ entries \in Seq(EntrySet) /\ DOMAIN entries = 1..Len(entries) /\ Len(entries) \in Nat
      /\ new \in EntrySet /\ new.name = name /\ new.buffer = b /\ new.pipeline = p
  BY DEF Typed, EntrySet
<1> HIDE DEF new
<1>2. /\ entries' \in Seq(EntrySet)
      /\ at \in DOMAIN entries' /\ entries'[at] = new
      /\ \A i \in DOMAIN entries' : i # at => i \in DOMAIN entries /\ entries'[i] = entries[i]
      /\ \A i \in DOMAIN entries : i # at => i \in DOMAIN entries' /\ entries'[i] = entries[i]
      /\ \A i \in DOMAIN entries : i # at => ~Known(name) \/ i # find_entry(name)
  <2>1. CASE Known(name)
    <3>1. find_entry(name) \in 1..Len(entries) /\ at = find_entry(name)
      BY <2>1, FindEntry
    <3>2. entries' = [entries EXCEPT ![at] = new]
      BY <2>1 DEF Put, new
    <3> HIDE DEF at
    <3> QED BY <1>1, <3>1, <3>2
  <2>2. CASE ~Known(name)
    <3>1. entries' = Append(entries, new) /\ at = Len(entries) + 1
      BY <2>2 DEF Put, new
    <3>2. /\ entries' \in Seq(EntrySet) /\ DOMAIN entries' = 1..Len(entries) + 1
          /\ entries'[Len(entries) + 1] = new
          /\ \A i \in 1..Len(entries) : entries'[i] = entries[i]
      BY <1>1, <3>1
    <3> HIDE DEF at
    <3> QED BY <1>1, <2>2, <3>1, <3>2
  <2> QED BY <2>1, <2>2
<1>3. \A i \in DOMAIN entries :
         i = at \/ /\ entries[i].name # name
                   /\ entries[i].buffer # Null =>
                         entries[i].buffer \in hold /\ entries[i].buffer # BufferOf(name)
                   /\ entries[i].pipeline # Null =>
                         /\ PipelinesLeft(name)[entries[i].pipeline] # Null
                         /\ entries[i].pipeline # PipelineOf(name)
  BY <1>2, OthersHold
<1>4. /\ Known(name) => /\ at \in DOMAIN entries
                        /\ entries[at].buffer = BufferOf(name)
                        /\ entries[at].pipeline = PipelineOf(name)
      /\ ~Known(name) => BufferOf(name) = Null /\ PipelineOf(name) = Null
      /\ ~Known(name) => at \notin DOMAIN entries
  BY <1>1, FindEntry, HeldByName
<1> HIDE DEF at
<1>5. \A i \in DOMAIN entries : entries[i].buffer \in Buffers \cup {Null}
                                /\ entries[i].pipeline \in Pipelines \cup {Null}
  BY <1>1 DEF EntrySet
<1>6. \A i, j \in DOMAIN entries' : entries'[i].name = entries'[j].name => i = j
  BY <1>1, <1>2, <1>3 DEF Owned
<1>7. ASSUME NEW i \in DOMAIN entries'
      PROVE  /\ entries'[i].buffer # Null => entries'[i].buffer \in h
             /\ entries'[i].pipeline # Null => m[entries'[i].pipeline] # Null
  <2>1. CASE i = at
    BY <1>1, <1>2, <2>1
  <2>2. CASE i # at
    BY <1>2, <1>3, <1>5, <2>2
  <2> QED BY <2>1, <2>2
<1>8. ASSUME NEW i \in DOMAIN entries', NEW j \in DOMAIN entries', i # j
      PROVE  /\ entries'[i].buffer = entries'[j].buffer => entries'[i].buffer = Null
             /\ entries'[i].pipeline = entries'[j].pipeline => entries'[i].pipeline = Null
  <2>1. CASE i = at
    BY <1>1, <1>2, <1>3, <1>8, <2>1
  <2>2. CASE j = at
    BY <1>1, <1>2, <1>3, <1>8, <2>2
  <2>3. CASE i # at /\ j # at
    BY <1>2, <1>8, <2>3 DEF Owned
  <2> QED BY <2>1, <2>2, <2>3
<1>9. ASSUME NEW q \in h PROVE \E i \in DOMAIN entries' : entries'[i].buffer = q
  <2>1. CASE q = b
    BY <1>1, <1>2, <2>1
  <2>2. CASE q # b
    <3>1. q \in hold /\ q # BufferOf(name)
      BY <1>9, <2>2
    <3>2. PICK i \in DOMAIN entries : entries[i].buffer = q
      BY <3>1 DEF Owned
    <3>3. i # at
      BY <1>4, <3>1, <3>2
    <3> QED BY <1>2, <3>2, <3>3
  <2> QED BY <2>1, <2>2
<1>10. ASSUME NEW q \in Pipelines, m[q] # Null
       PROVE  \E i \in DOMAIN entries' : entries'[i].pipeline = q
  <2>1. CASE q = p
    BY <1>1, <1>2, <2>1
  <2>2. CASE q # p
    <3>1. pipelines[q] # Null /\ q # PipelineOf(name)
      BY <1>10, <2>2 DEF PipelinesLeft
    <3>2. PICK i \in DOMAIN entries : entries[i].pipeline = q
      BY <3>1 DEF Owned
    <3>3. i # at
      BY <1>4, <3>1, <3>2
    <3> QED BY <1>2, <3>2, <3>3
  <2> QED BY <2>1, <2>2
<1>11. Owned(entries', h, m)
  BY <1>6, <1>7, <1>8, <1>9, <1>10, Zenon DEF Owned
<1> QED BY <1>2, <1>11

\* `free`: the last entry moves over the freed one.
LEMMA WithoutOwned ==
    ASSUME Typed, Null \notin Pipelines, NEW hold \in SUBSET Buffers,
           Owned(entries, hold, pipelines),
           NEW name, BufferOf(name) # Null, entries' = Without(find_entry(name))
    PROVE  entries' \in Seq(EntrySet) /\ Owned(entries', hold \ {BufferOf(name)}, pipelines)
<1> DEFINE k == find_entry(name)
           n == Len(entries)
           from(i) == IF i = k THEN n ELSE i
<1>1. Known(name)
  BY HeldByName
<1>2. /\ entries \in Seq(EntrySet) /\ n \in Nat /\ DOMAIN entries = 1..n /\ k \in 1..n
      /\ entries[k].name = name /\ entries[k].buffer = BufferOf(name)
  BY <1>1, FindEntry, HeldByName DEF Typed
<1>3. entries' = [i \in 1..n - 1 |-> entries[from(i)]]
  BY DEF Without
<1>4. /\ DOMAIN entries' = 1..n - 1
      /\ \A i \in 1..n - 1 : from(i) \in 1..n /\ from(i) # k /\ entries'[i] = entries[from(i)]
      /\ \A i, j \in 1..n - 1 : from(i) = from(j) => i = j
  BY <1>2, <1>3
<1>5. \A j \in 1..n : j # k => \E i \in 1..n - 1 : from(i) = j
  <2> SUFFICES ASSUME NEW j \in 1..n, j # k PROVE \E i \in 1..n - 1 : from(i) = j
    OBVIOUS
  <2>1. CASE j = n
    BY <2>1, <1>2
  <2>2. CASE j # n
    <3>1. from(j) = j
      OBVIOUS
    <3>2. j \in 1..n - 1
      <4> HIDE DEF n, from, k
      <4> QED BY <2>2, <1>2
    <3> QED BY <3>1, <3>2
  <2> QED BY <2>1, <2>2
<1> HIDE DEF k, from
<1>6. entries' \in Seq(EntrySet)
  <2>1. \A i \in 1..n - 1 : entries[from(i)] \in EntrySet
    BY <1>2, <1>4
  <2>2. n - 1 \in Nat
    BY <1>2
  <2> HIDE DEF n
  <2> QED BY <1>3, <2>1, <2>2
<1> HIDE DEF n
<1>7. \A j \in 1..n : j # k => entries[j].name # name
                           /\ (entries[j].buffer # Null => entries[j].buffer # BufferOf(name))
  BY <1>2 DEF Owned
<1>8. entries[k].pipeline = Null
  <2>1. entries[k] \in EntrySet
    BY <1>2
  <2> QED BY <1>2, <2>1 DEF EntrySet
<1>9. \A i, j \in DOMAIN entries' : entries'[i].name = entries'[j].name => i = j
  BY <1>2, <1>4 DEF Owned
<1>10. \A i, j \in DOMAIN entries' :
          i # j => /\ entries'[i].buffer = entries'[j].buffer => entries'[i].buffer = Null
                   /\ entries'[i].pipeline = entries'[j].pipeline => entries'[i].pipeline = Null
  <2> SUFFICES ASSUME NEW i \in 1..n - 1, NEW j \in 1..n - 1, i # j
               PROVE  /\ entries'[i].buffer = entries'[j].buffer => entries'[i].buffer = Null
                      /\ entries'[i].pipeline = entries'[j].pipeline => entries'[i].pipeline = Null
    BY <1>4
  <2>1. from(i) # from(j) /\ from(i) \in DOMAIN entries /\ from(j) \in DOMAIN entries
    BY <1>2, <1>4
  <2> QED BY <1>4, <2>1 DEF Owned
<1>11. \A i \in DOMAIN entries' :
          /\ entries'[i].buffer # Null => entries'[i].buffer \in hold \ {BufferOf(name)}
          /\ entries'[i].pipeline # Null => pipelines[entries'[i].pipeline] # Null
  <2> SUFFICES ASSUME NEW i \in 1..n - 1
               PROVE  /\ entries'[i].buffer # Null => entries'[i].buffer \in hold \ {BufferOf(name)}
                      /\ entries'[i].pipeline # Null => pipelines[entries'[i].pipeline] # Null
    BY <1>4
  <2>1. from(i) \in DOMAIN entries /\ from(i) # k /\ entries'[i] = entries[from(i)]
    BY <1>2, <1>4
  <2> QED BY <1>2, <1>7, <2>1 DEF Owned
<1>12. ASSUME NEW b \in hold, b # BufferOf(name)
       PROVE  \E i \in DOMAIN entries' : entries'[i].buffer = b
  <2>1. PICK j \in 1..n : entries[j].buffer = b
    BY <1>2 DEF Owned
  <2>2. j # k
    BY <1>2, <1>12, <2>1
  <2> QED BY <1>4, <1>5, <2>1, <2>2
<1>13. ASSUME NEW p \in Pipelines, pipelines[p] # Null
       PROVE  \E i \in DOMAIN entries' : entries'[i].pipeline = p
  <2>1. PICK j \in 1..n : entries[j].pipeline = p
    BY <1>2, <1>13 DEF Owned
  <2>2. j # k
    BY <1>8, <1>13, <2>1
  <2> QED BY <1>4, <1>5, <2>1, <2>2
<1>14. \A b \in hold \ {BufferOf(name)} : \E i \in DOMAIN entries' : entries'[i].buffer = b
  BY <1>12
<1> QED BY <1>6, <1>9, <1>10, <1>11, <1>13, <1>14, Zenon DEF Owned

-----------------------------------------------------------------------------
(* The invariant of the host: steps that leave the table and the device.   *)

Memories == [Buffers -> Contents \cup {Null}]

\* The modes of a command line.
LEMMA Modes ==
    ASSUME HostAssumption, Typed
    PROVE  request.mode \in {"usage", "info", "session", "run"}
BY DEF HostAssumption, Typed, Served

\* The reserved values are not among the others.
LEMMA Constants ==
    ASSUME HostAssumption
    PROVE  /\ Null \notin Buffers /\ Null \notin Pipelines /\ Null \notin Images
           /\ Null \notin Contents /\ <<>> \notin Contents
           /\ MaxInputs \in Nat /\ MaxQueue \in Nat /\ MaxEntries \in Nat
BY DEF HostAssumption

\* A step that changes only where the process is, and what it waits for, keeps
\* the invariant.
LEMMA QuietInv ==
    ASSUME HostInv, Waits', place' \in Places,
           UNCHANGED <<request, table, held, memory, queue, readback>>,
           place' \in {"main", "adapter", "device", "info", "run"} =>
              place \in {"main", "adapter", "device"} /\ output' = output,
           place' = "session" => place \in {"device", "session"},
           place' = "map" => place = "map"
    PROVE  HostInv'
<1>1. Typed'
  BY DEF HostInv, Typed, table
<1>2. Unused'
  BY DEF HostInv, Unused, table
<1>3. TableOK'
  <2>1. request.mode = "session" => Owned(entries, held \ {readback}, pipelines)'
    BY DEF HostInv, TableOK, Owned, table
  <2>2. place' = "session" => readback' = Null
    BY DEF HostInv, TableOK, Unused, Waits
  <2> QED BY <2>1, <2>2 DEF HostInv, TableOK
<1>4. Live'
  BY DEF HostInv, Live, Queued, Uses
<1> QED BY <1>1, <1>2, <1>3, <1>4 DEF HostInv

\* A step that leaves the place as well.
LEMMA QuietPlace ==
    ASSUME HostInv, Waits', place' = place,
           UNCHANGED <<request, table, held, memory, queue, readback, output>>
    PROVE  HostInv'
<1>1. Typed' /\ Unused' /\ Live'
  BY DEF HostInv, Typed, Unused, Live, Queued, Uses, table
<1>2. TableOK'
  BY DEF HostInv, TableOK, Owned, table
<1> QED BY <1>1, <1>2 DEF HostInv

\* The steps that open a device or end a process keep the invariant.
LEMMA OpeningInv ==
    ASSUME HostAssumption, HostInv,
           Usage \/ RequestAdapter \/ RequestDevice \/ Opened \/ info \/ RejectRun \/ PrintOutput
    PROVE  HostInv'
<1>1. request.mode \in {"usage", "info", "session", "run"}
  BY Modes DEF HostInv
<1>2. Waits
  BY DEF HostInv
<1>3. CASE Usage
  <2>1. Waits' /\ place' = "failed"
    BY <1>3 DEF Usage, At, Waits
  <2> QED BY <1>3, <2>1, QuietInv DEF Usage, Places, table, device
<1>4. CASE RequestAdapter
  <2>1. Waits' /\ place' = "adapter" /\ place = "main"
    BY <1>2, <1>4 DEF RequestAdapter, At, Ask, Waits
  <2> QED BY <1>4, <2>1, QuietInv DEF RequestAdapter, Places, table, device
<1>5. CASE RequestDevice
  <2>1. Waits' /\ place' = "device" /\ place = "adapter"
    BY <1>2, <1>5 DEF RequestDevice, At, Ask, Waits
  <2> QED BY <1>5, <2>1, QuietInv DEF RequestDevice, Places, table, device
<1>6. CASE Opened
  <2>1. place = "device" /\ place' = request.mode /\ request.mode # "usage"
        /\ UNCHANGED <<request, gpu, asked, done>>
    BY <1>2, <1>6 DEF Opened, At, Waits, opening
  <2>2. Waits'
    BY <1>1, <1>2, <1>6, <2>1 DEF Opened, Waits
  <2> QED BY <1>1, <1>6, <2>1, <2>2, QuietInv DEF Opened, Places, table, device
<1>7. CASE info
  <2>1. Waits' /\ place' = "exited"
    BY <1>7 DEF info, At, Waits
  <2> QED BY <1>7, <2>1, QuietInv DEF info, Places, table, device
<1>8. CASE RejectRun
  <2>1. Waits' /\ place' = "failed"
    BY <1>8 DEF RejectRun, Waits
  <2> QED BY <1>8, <2>1, QuietInv DEF RejectRun, Places, table, device
<1>9. CASE PrintOutput
  <2>1. Waits' /\ place' = "exited"
    BY <1>9 DEF PrintOutput, At, Waits
  <2> QED BY <1>9, <2>1, QuietInv DEF PrintOutput, Places, table, device
<1> QED BY <1>3, <1>4, <1>5, <1>6, <1>7, <1>8, <1>9

\* The answer to a request, a failure or a lost device keeps the invariant.
LEMMA EventInv ==
    ASSUME HostInv, Running, Callback \/ CallbackFails \/ DeviceLost \/ Die
    PROVE  HostInv'
<1>1. Waits /\ place \in Places
  BY DEF HostInv, Typed
<1>2. CASE Callback
  <2>1. place' = place /\ UNCHANGED <<request, table, held, memory, queue, readback, output>>
    BY <1>2 DEF Callback, device
  <2>2. Waits'
    BY <1>1, <1>2 DEF Callback, Waits, device, Running, Places
  <2> QED BY <1>1, <2>1, <2>2, QuietPlace
<1>3. CASE CallbackFails
  <2>1. Waits' /\ place' = "failed"
    BY <1>3 DEF CallbackFails, Waits
  <2> QED BY <1>3, <2>1, QuietInv DEF CallbackFails, Places, table, device
<1>4. CASE DeviceLost
  <2>1. /\ place' = place /\ place \in {"run", "session", "map"}
        /\ UNCHANGED <<request, opening, table, held, memory, queue, readback, output>>
    BY <1>4 DEF DeviceLost, device
  <2>2. Waits'
    BY <1>1, <2>1 DEF Waits, opening
  <2> QED BY <1>1, <2>1, <2>2, QuietPlace
<1>5. CASE Die
  <2>1. Waits' /\ place' = "failed"
    BY <1>5 DEF Die, Waits
  <2> QED BY <1>5, <2>1, QuietInv DEF Die, Places, table, device
<1> QED BY <1>2, <1>3, <1>4, <1>5

-----------------------------------------------------------------------------
(* The invariant of the host: the device.                                  *)

\* What Kept leaves of a memory.
LEMMA KeptTyped ==
    ASSUME NEW d \in Memories, NEW hold, NEW s
    PROVE  /\ Kept(d, hold, s) \in Memories
           /\ \A b \in Buffers : Kept(d, hold, s)[b] =
                 IF b \in hold \cup Queued(s) THEN d[b] ELSE Null
           /\ Plain(d) /\ Plain(Kept(d, hold, s))
<1>1. /\ DOMAIN d = Buffers /\ d = [b \in Buffers |-> d[b]]
      /\ \A b \in Buffers : d[b] \in Contents \cup {Null}
  BY DEF Memories
<1>2. Kept(d, hold, s) = [b \in Buffers |-> IF b \in hold \cup Queued(s) THEN d[b] ELSE Null]
  BY DEF Kept
<1>3. \A b \in Buffers : Kept(d, hold, s)[b] = IF b \in hold \cup Queued(s) THEN d[b] ELSE Null
  BY <1>2
<1>4. Kept(d, hold, s) \in Memories
  BY <1>1, <1>2 DEF Memories
<1>5. Plain(Kept(d, hold, s))
  BY <1>2, <1>3 DEF Plain
<1> QED BY <1>1, <1>3, <1>4, <1>5 DEF Plain

\* What a task leaves in its buffer is words when what it uses is.
LEMMA AfterTyped ==
    ASSUME HostAssumption, NEW t \in TaskSet, NEW d \in Memories,
           \A b \in Uses(t) : d[b] # Null
    PROVE  /\ After(t, d) \in Memories
           /\ After(t, d)[t.buffer] \in Contents
           /\ \A b \in Buffers : b # t.buffer => After(t, d)[b] = d[b]
<1>1. DOMAIN d = Buffers /\ Plain(d) /\ \A b \in Buffers : d[b] \in Contents \cup {Null}
  BY DEF Memories, Plain
<1>2. /\ t.op \in {"write", "copy", "dispatch"} /\ t.buffer \in Buffers
      /\ Uses(t) \subseteq Buffers
      /\ d[t.buffer] \in Contents
      /\ t.op = "write" => t.words \in Contents
      /\ t.op = "copy" => d[t.from] \in Contents
      /\ t.op = "dispatch" => /\ t.image \in Images
                              /\ \E j \in 0..MaxInputs : t.ins \in [1..j -> Buffers]
                              /\ \A i \in DOMAIN t.ins : d[t.ins[i]] \in Contents
  BY <1>1, TaskShape, UsesShape
<1>3. Plain(After(t, d)) /\ \A b \in Buffers : b # t.buffer => After(t, d)[b] = d[b]
  BY <1>1, AfterPlain
<1>4. After(t, d)[t.buffer] \in Contents
  <2>1. CASE t.op = "write"
    BY <1>1, <1>2, <2>1 DEF After
  <2>2. CASE t.op = "copy"
    BY <1>1, <1>2, <2>2 DEF After
  <2>3. CASE t.op = "dispatch"
    <3>1. PICK j \in 0..MaxInputs : t.ins \in [1..j -> Buffers]
      BY <1>2, <2>3
    <3>2. [i \in DOMAIN t.ins |-> d[t.ins[i]]] \in [1..j -> Contents]
      BY <1>2, <2>3, <3>1
    <3>3. Compute(t.image, [i \in DOMAIN t.ins |-> d[t.ins[i]]], d[t.buffer]) \in Contents
      BY <1>2, <2>3, <3>2 DEF HostAssumption
    <3>4. t.op # "write" /\ t.op # "copy"
      BY <2>3
    <3>5. After(t, d) = [d EXCEPT ![t.buffer] =
             Compute(t.image, [i \in DOMAIN t.ins |-> d[t.ins[i]]], d[t.buffer])]
      BY <3>4, Zenon DEF After
    <3> QED BY <1>1, <1>2, <3>3, <3>5
  <2> QED BY <1>2, <2>1, <2>2, <2>3
<1>5. After(t, d) \in Memories
  <2>1. \A b \in Buffers : After(t, d)[b] \in Contents \cup {Null}
    BY <1>1, <1>3, <1>4
  <2> QED BY <1>3, <2>1 DEF Plain, Memories
<1> QED BY <1>3, <1>4, <1>5

\* The device's step keeps the invariant.
LEMMA DeviceInv ==
    ASSUME HostAssumption, HostInv, DeviceStep
    PROVE  HostInv'
<1> DEFINE t == Head(queue)
           mem == After(t, memory)
<1>1. /\ queue # <<>> /\ queue' = Tail(queue)
      /\ memory' = Kept(mem, held, Tail(queue))
      /\ UNCHANGED <<request, place, opening, table, held, lost, readback, output>>
  BY DEF DeviceStep
<1>2. /\ queue \in Seq(TaskSet) /\ memory \in Memories /\ held \subseteq Buffers
      /\ Null \notin Contents
  BY Constants DEF HostInv, Typed, Memories
<1>3. /\ t \in TaskSet /\ Tail(queue) \in Seq(TaskSet) /\ Uses(t) \subseteq Queued(queue)
      /\ Queued(Tail(queue)) \subseteq Queued(queue) /\ Queued(queue) \subseteq Buffers
  BY <1>1, <1>2, QueuedShape
<1>4. \A b \in held \cup Queued(queue) : memory[b] # Null
  BY DEF HostInv, Live
<1> HIDE DEF t
<1>5. /\ mem \in Memories /\ mem[t.buffer] \in Contents
      /\ \A b \in Buffers : b # t.buffer => mem[b] = memory[b]
  BY <1>2, <1>3, <1>4, AfterTyped
<1> HIDE DEF mem
<1>6. /\ memory' \in Memories
      /\ \A b \in Buffers : memory'[b] = IF b \in held \cup Queued(Tail(queue)) THEN mem[b] ELSE Null
  BY <1>1, <1>5, KeptTyped
<1>7. Typed'
  BY <1>1, <1>3, <1>6 DEF HostInv, Typed, table, Memories
<1>8. Waits'
  BY <1>1 DEF HostInv, Waits, opening
<1>9. Unused'
  BY <1>1 DEF HostInv, Unused, table
<1>10. TableOK'
  BY <1>1 DEF HostInv, TableOK, Owned, table
<1>11. Live'
  <2> SUFFICES ASSUME NEW b \in held \cup Queued(Tail(queue)) PROVE memory'[b] # Null
    BY <1>1 DEF Live
  <2>1. b \in Buffers /\ memory'[b] = mem[b] /\ memory[b] # Null
    BY <1>2, <1>3, <1>4, <1>6
  <2> QED BY <1>2, <1>5, <2>1
<1> QED BY <1>7, <1>8, <1>9, <1>10, <1>11 DEF HostInv

-----------------------------------------------------------------------------
(* The invariant of the host: the commands of a session.                   *)

\* What holds between the commands of a session.
LEMMA InSession ==
    ASSUME HostAssumption, HostInv, place = "session"
    PROVE  /\ request.mode = "session" /\ readback = Null
           /\ Owned(entries, held, pipelines)
           /\ held \subseteq Buffers
           /\ asked = "none" /\ gpu = {"adapter", "device"}
           /\ memory \in Memories /\ queue \in Seq(TaskSet) /\ Queued(queue) \subseteq Buffers
           /\ \A b \in held \cup Queued(queue) : memory[b] # Null
<1>1. request.mode = "session" /\ asked = "none" /\ gpu = {"adapter", "device"}
  BY DEF HostInv, Waits
<1>2. readback = Null /\ held \subseteq Buffers /\ Null \notin Buffers
  BY <1>1, Constants DEF HostInv, TableOK, Typed
<1>3. held \ {readback} = held
  BY <1>2
<1>4. Owned(entries, held, pipelines)
  BY <1>1, <1>3 DEF HostInv, TableOK
<1>5. memory \in Memories /\ queue \in Seq(TaskSet)
  BY DEF HostInv, Typed, Memories
<1> QED BY <1>1, <1>2, <1>4, <1>5, QueuedShape DEF HostInv, Live

\* Releasing a name's pipeline leaves the others.
LEMMA PipelinesLeftTyped ==
    ASSUME Typed, NEW name
    PROVE  /\ PipelinesLeft(name) \in [Pipelines -> Images \cup {Null}]
           /\ \A p \in Pipelines : PipelinesLeft(name)[p] =
                 IF p = PipelineOf(name) THEN Null ELSE pipelines[p]
BY DEF Typed, PipelinesLeft

\* A step of a session that stays in it.
LEMMA SessionInv ==
    ASSUME HostAssumption, HostInv, place = "session",
           UNCHANGED <<request, place, opening, readback>>,
           entries' \in Seq(EntrySet), held' \subseteq Buffers, memory' \in Memories,
           pipelines' \in [Pipelines -> Images \cup {Null}], queue' \in Seq(TaskSet),
           Owned(entries', held', pipelines'),
           \A b \in held' \cup Queued(queue') : memory'[b] # Null
    PROVE  HostInv'
<1>1. request.mode = "session" /\ readback = Null /\ Null \notin Buffers
  BY InSession, Constants
<1>2. Typed'
  BY DEF HostInv, Typed, Memories
<1>3. Waits'
  BY DEF HostInv, Waits, opening
<1>4. Unused'
  BY <1>1 DEF Unused
<1>5. TableOK'
  <2>1. held' \ {readback'} = held'
    BY <1>1
  <2>2. Owned(entries, held \ {readback}, pipelines)'
    BY <2>1 DEF Owned
  <2> QED BY <1>1, <2>2 DEF TableOK
<1>6. Live'
  BY DEF Live
<1> QED BY <1>2, <1>3, <1>4, <1>5, <1>6 DEF HostInv

\* `store` and `output` keep the invariant.
LEMMA StoreInv ==
    ASSUME HostAssumption, HostInv, NEW name \in Names, NEW words \in Contents,
           StoreCommand(name, words)
    PROVE  HostInv'
<1> DEFINE hold == Released(name)
           mem == Kept(memory, hold, queue)
<1>1. PICK b \in Buffers :
         /\ place = "session" /\ mem[b] = Null
         /\ Put(name, b, Null)
         /\ pipelines' = PipelinesLeft(name)
         /\ held' = hold \cup {b}
         /\ memory' = [mem EXCEPT ![b] = Zeros(Len(words))]
         /\ queue' = Append(queue, Write(b, words))
         /\ UNCHANGED <<request, place, opening, lost, readback, output>>
  BY Zenon DEF StoreCommand
<1>2. /\ Owned(entries, held, pipelines) /\ held \subseteq Buffers
      /\ memory \in Memories /\ queue \in Seq(TaskSet) /\ Queued(queue) \subseteq Buffers
      /\ \A q \in held \cup Queued(queue) : memory[q] # Null
  BY <1>1, InSession
<1>3. /\ Null \notin Buffers /\ Null \notin Pipelines /\ Null \notin Contents
      /\ Zeros(Len(words)) \in Contents /\ Typed
  BY Constants DEF HostAssumption, HostInv
<1>4. hold = held \ {BufferOf(name)}
  BY DEF Released
<1> HIDE DEF hold
<1>5. /\ mem \in Memories
      /\ \A q \in Buffers : mem[q] = IF q \in hold \cup Queued(queue) THEN memory[q] ELSE Null
  BY <1>2, KeptTyped
<1> HIDE DEF mem
<1>6. b \notin hold \cup Queued(queue)
  BY <1>1, <1>2, <1>4, <1>5
<1>7. /\ memory' \in Memories /\ memory'[b] \in Contents
      /\ \A q \in Buffers : q # b => memory'[q] = mem[q]
  BY <1>1, <1>3, <1>5 DEF Memories
<1>8. /\ pipelines' \in [Pipelines -> Images \cup {Null}]
      /\ LeftWith(pipelines', name, Null)
  BY <1>1, <1>3, PipelinesLeftTyped DEF LeftWith
<1>9. entries' \in Seq(EntrySet) /\ Owned(entries', held', pipelines')
  <2>1. held' = (held \ {BufferOf(name)}) \cup ({b} \ {Null}) /\ b # Null
    BY <1>1, <1>3, <1>4
  <2>2. b \notin held \ {BufferOf(name)} /\ Null \in Pipelines \cup {Null} /\ Null = Null
    BY <1>4, <1>6
  <2>3. PICK h, m : h = held' /\ m = pipelines'
    OBVIOUS
  <2> QED BY <1>1, <1>2, <1>3, <1>8, <2>1, <2>2, <2>3, PutOwned
<1>10. Write(b, words) \in TaskSet /\ Uses(Write(b, words)) = {b}
  <2>1. Write(b, words) \in TaskSet
    BY DEF Write, TaskSet
  <2>2. Write(b, words).op = "write" /\ Write(b, words).buffer = b
    BY DEF Write
  <2> QED BY <2>1, <2>2, UsesShape
<1>11. queue' \in Seq(TaskSet) /\ Queued(queue') = Queued(queue) \cup {b}
  BY <1>1, <1>2, <1>10, QueuedAppend
<1>12. ASSUME NEW q \in held' \cup Queued(queue') PROVE memory'[q] # Null
  <2>1. CASE q = b
    BY <1>3, <1>7, <2>1
  <2>2. CASE q # b
    <3>1. q \in hold \cup Queued(queue) /\ q \in Buffers /\ q \in held \cup Queued(queue)
      BY <1>1, <1>2, <1>4, <1>11, <2>2
    <3> QED BY <1>2, <1>5, <1>7, <2>2, <3>1
  <2> QED BY <2>1, <2>2
<1>13. held' \subseteq Buffers
  BY <1>1, <1>2, <1>4
<1> QED BY <1>1, <1>7, <1>8, <1>9, <1>11, <1>12, <1>13, SessionInv

\* `shader` keeps the invariant.
LEMMA ShaderInv ==
    ASSUME HostAssumption, HostInv, NEW name \in Names, NEW image \in Images,
           ShaderCommand(name, image)
    PROVE  HostInv'
<1>1. PICK p \in Pipelines :
         /\ place = "session"
         /\ PipelinesLeft(name)[p] = Null
         /\ Put(name, Null, p)
         /\ pipelines' = [PipelinesLeft(name) EXCEPT ![p] = image]
         /\ held' = Released(name)
         /\ memory' = Kept(memory, held', queue)
         /\ UNCHANGED <<request, place, opening, queue, lost, readback, output>>
  BY Zenon DEF ShaderCommand
<1>2. /\ Owned(entries, held, pipelines) /\ held \subseteq Buffers
      /\ memory \in Memories /\ queue \in Seq(TaskSet) /\ Queued(queue) \subseteq Buffers
      /\ \A q \in held \cup Queued(queue) : memory[q] # Null
  BY <1>1, InSession
<1>3. /\ Null \notin Buffers /\ Null \notin Pipelines /\ Null \notin Images /\ Typed
  BY Constants DEF HostInv
<1>4. held' = held \ {BufferOf(name)}
  BY <1>1 DEF Released
<1>5. /\ memory' \in Memories
      /\ \A q \in Buffers : memory'[q] = IF q \in held' \cup Queued(queue) THEN memory[q] ELSE Null
  <2>1. PICK h : h = held'
    OBVIOUS
  <2> QED BY <1>1, <1>2, <2>1, KeptTyped
<1>6. /\ pipelines' \in [Pipelines -> Images \cup {Null}]
      /\ LeftWith(pipelines', name, p)
  <2>1. PipelinesLeft(name) \in [Pipelines -> Images \cup {Null}]
    BY <1>3, PipelinesLeftTyped
  <2> QED BY <1>1, <1>3, <2>1 DEF LeftWith
<1>7. entries' \in Seq(EntrySet) /\ Owned(entries', held', pipelines')
  <2>1. held' = (held \ {BufferOf(name)}) \cup ({Null} \ {Null}) /\ p # Null
        /\ Null \notin held \ {BufferOf(name)}
    BY <1>1, <1>2, <1>3, <1>4
  <2>2. PICK h, m : h = held' /\ m = pipelines'
    OBVIOUS
  <2> QED BY <1>1, <1>2, <1>3, <1>6, <2>1, <2>2, PutOwned
<1>8. ASSUME NEW q \in held' \cup Queued(queue') PROVE memory'[q] # Null
  <2>1. q \in held' \cup Queued(queue) /\ q \in Buffers /\ q \in held \cup Queued(queue)
    BY <1>1, <1>2, <1>4
  <2> QED BY <1>2, <1>5, <2>1
<1>9. held' \subseteq Buffers /\ queue' \in Seq(TaskSet)
  BY <1>1, <1>2, <1>4
<1> QED BY <1>1, <1>5, <1>6, <1>7, <1>8, <1>9, SessionInv

\* The dispatch of `run`, for names that have what it needs.
RunTask(shader, out, ins) ==
    Dispatch(pipelines[PipelineOf(shader)], BufferOf(out), [i \in DOMAIN ins |-> BufferOf(ins[i])])

\* The dispatch of a `run` uses buffers that the host has.
LEMMA RunTaskShape ==
    ASSUME HostAssumption, HostInv, place = "session",
           NEW shader \in Names, NEW out \in Names, NEW j \in 0..MaxInputs, NEW ins \in [1..j -> Names],
           PipelineOf(shader) # Null, BufferOf(out) # Null,
           \A i \in DOMAIN ins : BufferOf(ins[i]) # Null
    PROVE  /\ RunTask(shader, out, ins) \in TaskSet
           /\ Uses(RunTask(shader, out, ins)) \subseteq held
<1> DEFINE bs == [i \in DOMAIN ins |-> BufferOf(ins[i])]
           t == RunTask(shader, out, ins)
<1>1. Owned(entries, held, pipelines) /\ held \subseteq Buffers /\ Typed
  BY InSession DEF HostInv
<1>2. /\ BufferOf(out) \in held
      /\ \A i \in DOMAIN ins : BufferOf(ins[i]) \in held
      /\ PipelineOf(shader) \in Pipelines /\ pipelines[PipelineOf(shader)] \in Images
  BY <1>1, NameHolds DEF Typed
<1>3. bs \in [1..j -> Buffers] /\ DOMAIN bs = 1..j /\ \A i \in 1..j : bs[i] \in held
  BY <1>1, <1>2
<1> HIDE DEF bs
<1>4. bs \in InputLists
  BY <1>3 DEF InputLists
<1>5. /\ t.op = "dispatch" /\ t.buffer = BufferOf(out) /\ t.ins = bs
      /\ t \in [op : {"dispatch"}, image : Images, buffer : Buffers, ins : InputLists]
  BY <1>1, <1>2, <1>4 DEF RunTask, Dispatch, bs
<1> HIDE DEF t
<1>6. t \in TaskSet
  BY <1>5 DEF TaskSet
<1>7. Uses(t) \subseteq held
  BY <1>2, <1>3, <1>5, <1>6, UsesShape
<1> QED BY <1>6, <1>7 DEF t

\* `run` in a session keeps the invariant.
LEMMA RunInv ==
    ASSUME HostAssumption, HostInv,
           NEW shader \in Names, NEW workgroups, NEW out \in Names,
           NEW j \in 0..MaxInputs, NEW ins \in [1..j -> Names],
           RunCommand(shader, workgroups, out, ins)
    PROVE  HostInv'
<1>1. /\ place = "session"
      /\ PipelineOf(shader) # Null /\ BufferOf(out) # Null
      /\ \A i \in DOMAIN ins : BufferOf(ins[i]) # Null
      /\ queue' = IF workgroups = 0 THEN queue ELSE Append(queue, RunTask(shader, out, ins))
      /\ UNCHANGED <<request, place, opening, entries, pipelines, held, memory, readback>>
  BY DEF RunCommand, RunTask, table
<1>2. /\ Owned(entries, held, pipelines) /\ held \subseteq Buffers
      /\ memory \in Memories /\ queue \in Seq(TaskSet) /\ Queued(queue) \subseteq Buffers
      /\ \A q \in held \cup Queued(queue) : memory[q] # Null
  BY <1>1, InSession
<1>3. RunTask(shader, out, ins) \in TaskSet /\ Uses(RunTask(shader, out, ins)) \subseteq held
  BY <1>1, RunTaskShape
<1>4. queue' \in Seq(TaskSet) /\ Queued(queue') \subseteq held \cup Queued(queue)
  <2>1. PICK t : t = RunTask(shader, out, ins)
    OBVIOUS
  <2>2. /\ Append(queue, t) \in Seq(TaskSet)
        /\ Queued(Append(queue, t)) = Queued(queue) \cup Uses(t)
    BY <1>2, <1>3, <2>1, QueuedAppend
  <2>3. CASE workgroups = 0
    <3>1. queue' = queue
      BY <1>1, <2>3
    <3> QED BY <1>2, <3>1
  <2>4. CASE workgroups # 0
    <3>1. queue' = Append(queue, t)
      BY <1>1, <2>1, <2>4
    <3> QED BY <1>3, <2>1, <2>2, <3>1
  <2> QED BY <2>3, <2>4
<1>5. \A q \in held' \cup Queued(queue') : memory'[q] # Null
  BY <1>1, <1>2, <1>4
<1>6. /\ entries' \in Seq(EntrySet) /\ held' \subseteq Buffers /\ memory' \in Memories
      /\ pipelines' \in [Pipelines -> Images \cup {Null}]
      /\ Owned(entries', held', pipelines')
  BY <1>1, <1>2 DEF HostInv, Typed
<1> QED BY <1>1, <1>4, <1>5, <1>6, SessionInv

\* `free` keeps the invariant.
LEMMA FreeInv ==
    ASSUME HostAssumption, HostInv, NEW name \in Names, FreeCommand(name)
    PROVE  HostInv'
<1>1. /\ place = "session" /\ BufferOf(name) # Null
      /\ entries' = Without(find_entry(name))
      /\ held' = held \ {BufferOf(name)}
      /\ memory' = Kept(memory, held', queue)
      /\ UNCHANGED <<request, place, opening, pipelines, queue, readback>>
  BY DEF FreeCommand, Released
<1>2. /\ Owned(entries, held, pipelines) /\ held \subseteq Buffers
      /\ memory \in Memories /\ queue \in Seq(TaskSet) /\ Queued(queue) \subseteq Buffers
      /\ \A q \in held \cup Queued(queue) : memory[q] # Null
      /\ Null \notin Pipelines /\ Typed
  BY <1>1, InSession, Constants DEF HostInv
<1>3. entries' \in Seq(EntrySet) /\ Owned(entries', held', pipelines')
  BY <1>1, <1>2, WithoutOwned
<1>4. /\ memory' \in Memories
      /\ \A q \in Buffers : memory'[q] = IF q \in held' \cup Queued(queue) THEN memory[q] ELSE Null
  <2>1. PICK h : h = held'
    OBVIOUS
  <2> QED BY <1>1, <1>2, <2>1, KeptTyped
<1>5. /\ held' \subseteq Buffers /\ queue' \in Seq(TaskSet)
      /\ pipelines' \in [Pipelines -> Images \cup {Null}]
  BY <1>1, <1>2 DEF Typed
<1>6. ASSUME NEW q \in held' \cup Queued(queue') PROVE memory'[q] # Null
  <2>1. q \in held' \cup Queued(queue) /\ q \in Buffers /\ q \in held \cup Queued(queue)
    BY <1>1, <1>2
  <2> QED BY <1>2, <1>4, <2>1
<1> QED BY <1>1, <1>3, <1>4, <1>5, <1>6, SessionInv

\* `read` keeps the invariant: it takes a buffer that nothing else has.
LEMMA ReadInv ==
    ASSUME HostAssumption, HostInv, NEW name \in Names, ReadCommand(name)
    PROVE  HostInv'
<1>1. PICK b \in Buffers :
         /\ BufferOf(name) # Null
         /\ place = "session" /\ place' = "map"
         /\ memory[b] = Null
         /\ held' = held \cup {b}
         /\ memory' = [memory EXCEPT ![b] = Zeros(Len(memory[BufferOf(name)]))]
         /\ queue' = Append(queue, CopyTo(b, BufferOf(name)))
         /\ readback' = b /\ done' = FALSE /\ asked' = "map"
         /\ UNCHANGED <<request, gpu, entries, pipelines>>
  BY Zenon DEF ReadCommand, At, Ask, table
<1>2. /\ request.mode = "session" /\ readback = Null /\ gpu = {"adapter", "device"}
      /\ Owned(entries, held, pipelines) /\ held \subseteq Buffers
      /\ memory \in Memories /\ queue \in Seq(TaskSet) /\ Queued(queue) \subseteq Buffers
      /\ \A q \in held \cup Queued(queue) : memory[q] # Null
      /\ Null \notin Buffers /\ Null \notin Contents /\ Typed
  BY <1>1, InSession, Constants DEF HostInv
<1>3. BufferOf(name) \in held /\ memory[BufferOf(name)] \in Contents
  BY <1>1, <1>2, NameHolds DEF Memories
<1>4. Zeros(Len(memory[BufferOf(name)])) \in Contents
  BY <1>3 DEF HostAssumption
<1>5. /\ memory' \in Memories /\ memory'[b] \in Contents
      /\ \A q \in Buffers : q # b => memory'[q] = memory[q]
  BY <1>1, <1>2, <1>4 DEF Memories
<1>6. b \notin held \cup Queued(queue)
  BY <1>1, <1>2
<1>7. /\ CopyTo(b, BufferOf(name)) \in TaskSet
      /\ Uses(CopyTo(b, BufferOf(name))) = {b, BufferOf(name)}
  <2>1. BufferOf(name) \in Buffers
    BY <1>2, <1>3
  <2>2. CopyTo(b, BufferOf(name)) \in [op : {"copy"}, buffer : Buffers, from : Buffers]
    BY <2>1 DEF CopyTo
  <2>3. CopyTo(b, BufferOf(name)) \in TaskSet
    BY <2>2 DEF TaskSet
  <2>4. /\ CopyTo(b, BufferOf(name)).op = "copy"
        /\ CopyTo(b, BufferOf(name)).buffer = b
        /\ CopyTo(b, BufferOf(name)).from = BufferOf(name)
    BY DEF CopyTo
  <2> QED BY <2>3, <2>4, UsesShape
<1>8. queue' \in Seq(TaskSet) /\ Queued(queue') = Queued(queue) \cup {b, BufferOf(name)}
  <2>1. PICK t : t = CopyTo(b, BufferOf(name))
    OBVIOUS
  <2> QED BY <1>1, <1>2, <1>7, <2>1, QueuedAppend
<1>9. Typed'
  BY <1>1, <1>2, <1>5, <1>8, Zenon DEF Typed, Memories, Places
<1>10. Waits'
  BY <1>1, <1>2 DEF Waits
<1>11. Unused'
  BY <1>1, <1>2 DEF Unused
<1>12. TableOK'
  <2>1. held' \ {readback'} = held
    BY <1>1, <1>6
  <2>2. Owned(entries, held \ {readback}, pipelines)'
    BY <1>1, <1>2, <2>1 DEF Owned
  <2>3. readback' \in held' /\ readback' # Null /\ place' # "session"
    BY <1>1, <1>2
  <2> QED BY <2>2, <2>3 DEF TableOK
<1>13. Live'
  <2> SUFFICES ASSUME NEW q \in held' \cup Queued(queue') PROVE memory'[q] # Null
    BY DEF Live
  <2>1. q = b \/ (q \in held \cup Queued(queue) /\ q \in Buffers)
    BY <1>1, <1>2, <1>3, <1>8
  <2> QED BY <1>2, <1>5, <2>1
<1> QED BY <1>9, <1>10, <1>11, <1>12, <1>13 DEF HostInv

\* Writing the file gives the buffer of the read back.
LEMMA WriteFileInv ==
    ASSUME HostAssumption, HostInv, WriteFile
    PROVE  HostInv'
<1>1. /\ request.mode = "session" /\ done /\ place = "map" /\ place' = "session"
      /\ held' = held \ {readback} /\ memory' = Kept(memory, held', queue)
      /\ readback' = Null
      /\ UNCHANGED <<request, gpu, asked, done, entries, pipelines, queue>>
  BY DEF WriteFile, At, opening, table
<1>2. /\ held \subseteq Buffers /\ memory \in Memories
      /\ queue \in Seq(TaskSet) /\ Queued(queue) \subseteq Buffers
      /\ \A q \in held \cup Queued(queue) : memory[q] # Null
      /\ Owned(entries, held \ {readback}, pipelines)
      /\ Null \notin Buffers
  <2>1. queue \in Seq(TaskSet)
    BY DEF HostInv, Typed
  <2> QED BY <1>1, <2>1, QueuedShape, Constants DEF HostInv, Typed, TableOK, Live, Memories
<1>3. /\ memory' \in Memories
      /\ \A q \in Buffers : memory'[q] = IF q \in held' \cup Queued(queue) THEN memory[q] ELSE Null
  <2>1. PICK h : h = held'
    OBVIOUS
  <2> QED BY <1>1, <1>2, <2>1, KeptTyped
<1>4. Typed'
  BY <1>1, <1>2, <1>3 DEF HostInv, Typed, Memories, Places
<1>5. Waits'
  BY <1>1 DEF HostInv, Waits
<1>6. Unused'
  BY <1>1 DEF Unused
<1>7. TableOK'
  <2>1. held' \ {readback'} = held'
    BY <1>1, <1>2
  <2>2. Owned(entries, held \ {readback}, pipelines)'
    BY <1>1, <1>2, <2>1 DEF Owned
  <2> QED BY <1>1, <2>2 DEF TableOK
<1>8. Live'
  <2> SUFFICES ASSUME NEW q \in held' \cup Queued(queue') PROVE memory'[q] # Null
    BY DEF Live
  <2>1. q \in held' \cup Queued(queue) /\ q \in Buffers /\ q \in held \cup Queued(queue)
    BY <1>1, <1>2
  <2> QED BY <1>2, <1>3, <2>1
<1> QED BY <1>4, <1>5, <1>6, <1>7, <1>8 DEF HostInv

\* The end of a session keeps the invariant.
LEMMA QuitInv ==
    ASSUME HostInv, QuitCommand
    PROVE  HostInv'
<1>1. Waits' /\ place' = "exited"
  BY DEF QuitCommand, At, Waits
<1> QED BY <1>1, QuietInv DEF QuitCommand, At, Places, table, device

-----------------------------------------------------------------------------
(* `run`.                                                                  *)

\* What the input buffers and the output buffer are written.
RunWords == [i \in 1..InputCount + 1 |->
               IF i <= InputCount THEN parse_input(request.inputs[i]) ELSE Initial(request.output)]

RunWrites(bs) == [i \in 1..InputCount + 1 |-> Write(bs[i], RunWords[i])]

RunDispatch(bs) ==
    Dispatch(request.image, bs[InputCount + 1], [i \in 1..InputCount |-> bs[i]])

RunCopy(bs) == CopyTo(bs[InputCount + 2], bs[InputCount + 1])

RunTasks(bs) ==
    IF request.workgroups = 0 THEN Append(RunWrites(bs), RunCopy(bs))
    ELSE Append(Append(RunWrites(bs), RunDispatch(bs)), RunCopy(bs))

\* A buffer for each input, one for the output and one to read it back.
RunBuffers(bs) ==
    /\ bs \in [1..InputCount + 2 -> Buffers]
    /\ \A i, j \in 1..InputCount + 2 : bs[i] = bs[j] => i = j

\* What a `run` from the command line has been given.
LEMMA RunShape ==
    ASSUME HostAssumption, HostInv, place = "run" \/ request.mode = "run", RunOK
    PROVE  /\ request.mode = "run" /\ request.image \in Images
           /\ InputCount \in 0..MaxInputs /\ InputCount \in Nat
           /\ RunWords \in [1..InputCount + 1 -> Contents]
<1>1. request.mode = "run" /\ request \in Served
  BY DEF HostInv, Waits, Typed
<1>2. request \in Requests
  BY <1>1 DEF Served
<1>3. /\ request.image \in Images /\ InputCount \in 0..MaxInputs
      /\ Initial(request.output) \in Contents
      /\ \A i \in 1..InputCount : parse_input(request.inputs[i]) \in Contents
  BY <1>1, <1>2 DEF HostAssumption, RunOK, InputCount
<1>4. InputCount \in Nat
  BY <1>3, Constants
<1>5. \A i \in 1..InputCount + 1 : i <= InputCount => i \in 1..InputCount
  BY <1>4
<1> QED BY <1>1, <1>3, <1>4, <1>5 DEF RunWords

\* The tasks of a `run` from the command line.
LEMMA RunTasksShape ==
    ASSUME HostAssumption, HostInv, place = "run", RunOK, NEW bs, RunBuffers(bs)
    PROVE  /\ RunWrites(bs) \in Seq(TaskSet)
           /\ RunDispatch(bs) \in TaskSet /\ RunCopy(bs) \in TaskSet
           /\ RunTasks(bs) \in Seq(TaskSet)
           /\ Queued(RunTasks(bs)) \subseteq {bs[i] : i \in DOMAIN bs}
<1> DEFINE n == InputCount
           H == {bs[i] : i \in DOMAIN bs}
<1>1. /\ n \in Nat /\ n \in 0..MaxInputs /\ request.image \in Images
      /\ RunWords \in [1..n + 1 -> Contents]
      /\ bs \in [1..n + 2 -> Buffers]
  BY RunShape DEF RunBuffers
<1>2. RunWrites(bs) = [i \in 1..n + 1 |-> Write(bs[i], RunWords[i])]
  BY DEF RunWrites
<1>3. /\ n + 1 \in 1..n + 2 /\ n + 2 \in 1..n + 2 /\ n + 1 \in Nat
      /\ \A i \in 1..n + 1 : i \in 1..n + 2
      /\ \A i \in 1..n : i \in 1..n + 2
  BY <1>1
<1> HIDE DEF n
<1>4. \A i \in 1..n + 2 : bs[i] \in H /\ bs[i] \in Buffers
  BY <1>1
<1> HIDE DEF H
<1>5. \A i \in 1..n + 1 : /\ Write(bs[i], RunWords[i]) \in TaskSet
                          /\ Uses(Write(bs[i], RunWords[i])) \subseteq H
  <2> SUFFICES ASSUME NEW i \in 1..n + 1
               PROVE  /\ Write(bs[i], RunWords[i]) \in TaskSet
                      /\ Uses(Write(bs[i], RunWords[i])) \subseteq H
    OBVIOUS
  <2>1. bs[i] \in H /\ bs[i] \in Buffers /\ RunWords[i] \in Contents
    BY <1>1, <1>3, <1>4
  <2>2. Write(bs[i], RunWords[i]) \in TaskSet
    BY <2>1 DEF Write, TaskSet
  <2>3. Write(bs[i], RunWords[i]).op = "write" /\ Write(bs[i], RunWords[i]).buffer = bs[i]
    BY DEF Write
  <2> QED BY <2>1, <2>2, <2>3, UsesShape
<1>6. /\ RunWrites(bs) \in Seq(TaskSet) /\ Queued(RunWrites(bs)) \subseteq H
      /\ Len(RunWrites(bs)) = n + 1
  <2>1. PICK W : W = RunWrites(bs)
    OBVIOUS
  <2>2. DOMAIN W = 1..n + 1 /\ \A i \in 1..n + 1 : W[i] \in TaskSet /\ Uses(W[i]) \subseteq H
    BY <1>2, <1>5, <2>1
  <2>3. W = [i \in 1..n + 1 |-> W[i]]
    BY <1>2, <2>1
  <2>4. W \in Seq(TaskSet) /\ Len(W) = n + 1
    BY <1>3, <2>2, <2>3
  <2>5. Queued(W) \subseteq H
    BY <2>2 DEF Queued
  <2> QED BY <2>1, <2>4, <2>5
<1>7. RunDispatch(bs) \in TaskSet /\ Uses(RunDispatch(bs)) \subseteq H
  <2> DEFINE ins == [i \in 1..n |-> bs[i]]
             t == RunDispatch(bs)
  <2>1. ins \in [1..n -> Buffers] /\ \A i \in 1..n : ins[i] \in H
    BY <1>3, <1>4
  <2>2. ins \in InputLists
    BY <1>1, <2>1 DEF InputLists
  <2>3. /\ t.op = "dispatch" /\ t.buffer = bs[n + 1] /\ t.ins = ins
        /\ t = [op |-> "dispatch", image |-> request.image, buffer |-> bs[n + 1], ins |-> ins]
    BY DEF RunDispatch, Dispatch, n
  <2> HIDE DEF ins, t
  <2>4. t \in TaskSet
    BY <1>1, <1>3, <1>4, <2>2, <2>3 DEF TaskSet
  <2>5. DOMAIN t.ins = 1..n
    BY <2>1, <2>3
  <2>6. Uses(t) \subseteq H
    BY <1>3, <1>4, <2>1, <2>3, <2>4, <2>5, UsesShape
  <2> QED BY <2>4, <2>6 DEF t
<1>8. RunCopy(bs) \in TaskSet /\ Uses(RunCopy(bs)) \subseteq H
  <2> DEFINE t == RunCopy(bs)
  <2>1. t = [op |-> "copy", buffer |-> bs[n + 2], from |-> bs[n + 1]]
    BY DEF RunCopy, CopyTo, n
  <2> HIDE DEF t
  <2>2. t \in TaskSet
    BY <1>3, <1>4, <2>1 DEF TaskSet
  <2>3. t.op = "copy" /\ t.buffer = bs[n + 2] /\ t.from = bs[n + 1]
    BY <2>1
  <2>4. Uses(t) \subseteq H
    BY <1>3, <1>4, <2>2, <2>3, UsesShape
  <2> QED BY <2>2, <2>4 DEF t
<1>9. PICK W, d, c : W = RunWrites(bs) /\ d = RunDispatch(bs) /\ c = RunCopy(bs)
  OBVIOUS
<1>10. /\ Append(W, c) \in Seq(TaskSet) /\ Queued(Append(W, c)) \subseteq H
       /\ Append(W, d) \in Seq(TaskSet) /\ Queued(Append(W, d)) \subseteq H
  BY <1>6, <1>7, <1>8, <1>9, QueuedAppend
<1>11. Append(Append(W, d), c) \in Seq(TaskSet) /\ Queued(Append(Append(W, d), c)) \subseteq H
  BY <1>7, <1>8, <1>9, <1>10, QueuedAppend
<1>12. RunTasks(bs) = Append(W, c) \/ RunTasks(bs) = Append(Append(W, d), c)
  BY <1>9, Zenon DEF RunTasks
<1>13. RunTasks(bs) \in Seq(TaskSet) /\ Queued(RunTasks(bs)) \subseteq H
  BY <1>10, <1>11, <1>12, Zenon
<1> QED BY <1>6, <1>7, <1>8, <1>13 DEF H

\* A `run` takes new buffers for its inputs, its output and its copy.
LEMMA RunTakes ==
    ASSUME HostAssumption, HostInv, run
    PROVE  \E bs : /\ RunBuffers(bs)
                   /\ held' = {bs[i] : i \in DOMAIN bs}
                   /\ memory' \in Memories
                   /\ \A i \in DOMAIN bs : memory'[bs[i]] \in Contents
                   /\ queue' = RunTasks(bs)
                   /\ readback' = bs[InputCount + 2]
<1> DEFINE n == InputCount
           words(i) == IF i <= n THEN parse_input(request.inputs[i]) ELSE Initial(request.output)
<1>1. PICK bs \in [1..n + 2 -> Buffers] :
         /\ \A i, j \in DOMAIN bs : bs[i] = bs[j] => i = j
         /\ held' = {bs[i] : i \in DOMAIN bs}
         /\ memory' = [b \in Buffers |->
                IF b = bs[n + 2] THEN Zeros(Len(words(n + 1)))
                ELSE IF \E i \in DOMAIN bs : bs[i] = b
                THEN Zeros(Len(words(CHOOSE i \in DOMAIN bs : bs[i] = b)))
                ELSE Null]
         /\ queue' = Ordered([i \in 1..(n + 1) |-> Write(bs[i], words(i))],
                             IF request.workgroups = 0 THEN <<>>
                             ELSE <<Dispatch(request.image, bs[n + 1], [i \in 1..n |-> bs[i]])>>,
                             <<CopyTo(bs[n + 2], bs[n + 1])>>)
         /\ readback' = bs[n + 2]
  BY Zenon DEF run
<1>2. /\ n \in Nat /\ RunWords \in [1..n + 1 -> Contents]
      /\ \A i \in 1..n + 1 : words(i) = RunWords[i]
  <2>1. place = "run" /\ RunOK
    BY DEF run
  <2>2. n \in Nat /\ RunWords \in [1..n + 1 -> Contents]
    BY <2>1, RunShape
  <2> QED BY <2>2 DEF RunWords
<1>3. RunBuffers(bs)
  BY <1>1, <1>2 DEF RunBuffers
<1>4. queue' = RunTasks(bs)
  <2>1. [i \in 1..n + 1 |-> Write(bs[i], words(i))] = RunWrites(bs)
    BY <1>2 DEF RunWrites
  <2>2. place = "run" /\ RunOK
    BY DEF run
  <2>3. RunWrites(bs) \in Seq(TaskSet)
    BY <1>3, <2>2, RunTasksShape
  <2>4. queue' = Ordered(RunWrites(bs),
                         IF request.workgroups = 0 THEN <<>> ELSE <<RunDispatch(bs)>>,
                         <<RunCopy(bs)>>)
    BY <1>1, <2>1 DEF RunDispatch, RunCopy
  <2> HIDE DEF words
  <2>5. PICK W, d, c : W = RunWrites(bs) /\ d = RunDispatch(bs) /\ c = RunCopy(bs)
    OBVIOUS
  <2>6. /\ W \o <<>> \o <<c>> = Append(W, c)
        /\ W \o <<d>> \o <<c>> = Append(Append(W, d), c)
    BY <2>3, <2>5
  <2> QED BY <2>4, <2>5, <2>6, Zenon DEF Ordered, RunTasks
<1>5. \A i \in 1..n + 1 : Zeros(Len(words(i))) \in Contents
  BY <1>2 DEF HostAssumption
<1>6. \A b \in Buffers : /\ memory'[b] \in Contents \cup {Null}
                         /\ (\E i \in DOMAIN bs : bs[i] = b) => memory'[b] \in Contents
  <2> SUFFICES ASSUME NEW b \in Buffers
               PROVE  /\ memory'[b] \in Contents \cup {Null}
                      /\ (\E i \in DOMAIN bs : bs[i] = b) => memory'[b] \in Contents
    OBVIOUS
  <2>1. CASE b = bs[n + 2]
    <3>1. memory'[b] = Zeros(Len(words(n + 1))) /\ n + 1 \in 1..n + 1
      BY <1>1, <1>2, <2>1
    <3> HIDE DEF words
    <3> QED BY <1>5, <3>1
  <2>2. CASE b # bs[n + 2] /\ \E i \in DOMAIN bs : bs[i] = b
    <3>1. PICK i \in DOMAIN bs : i = CHOOSE k \in DOMAIN bs : bs[k] = b
      BY <2>2, Zenon
    <3>2. bs[i] = b
      BY <2>2, <3>1, Zenon
    <3>3. memory'[b] = Zeros(Len(words(i)))
      <4> HIDE DEF words
      <4> QED BY <1>1, <2>2, <3>1
    <3>4. i \in 1..n + 1
      BY <1>1, <1>2, <2>2, <3>2
    <3> HIDE DEF words
    <3> QED BY <1>5, <3>3, <3>4
  <2>3. CASE b # bs[n + 2] /\ ~(\E i \in DOMAIN bs : bs[i] = b)
    <3> HIDE DEF words
    <3> QED BY <1>1, <2>3
  <2> QED BY <2>1, <2>2, <2>3
<1>7. memory' \in Memories
  <2>1. DOMAIN memory' = Buffers /\ memory' = [b \in Buffers |-> memory'[b]]
    <3> HIDE DEF words
    <3> QED BY <1>1
  <2> QED BY <1>6, <2>1 DEF Memories
<1>8. \A i \in DOMAIN bs : memory'[bs[i]] \in Contents
  <2> HIDE DEF words
  <2>1. \A i \in DOMAIN bs : bs[i] \in Buffers
    OBVIOUS
  <2> QED BY <1>6, <2>1
<1> HIDE DEF words
<1> QED BY <1>1, <1>3, <1>4, <1>7, <1>8

\* A `run` from the command line keeps the invariant.
LEMMA RunStartInv ==
    ASSUME HostAssumption, HostInv, run
    PROVE  HostInv'
<1>1. /\ place = "run" /\ RunOK /\ place' = "map" /\ done' = FALSE /\ asked' = "map"
      /\ UNCHANGED <<request, gpu, entries, pipelines, output>>
  BY DEF run, Ask, table
<1>2. PICK bs : /\ RunBuffers(bs)
                /\ held' = {bs[i] : i \in DOMAIN bs}
                /\ memory' \in Memories
                /\ \A i \in DOMAIN bs : memory'[bs[i]] \in Contents
                /\ queue' = RunTasks(bs)
                /\ readback' = bs[InputCount + 2]
  BY RunTakes
<1>3. /\ request.mode = "run" /\ InputCount \in Nat /\ gpu = {"adapter", "device"}
      /\ entries = <<>> /\ Null \notin Contents
  <2>1. gpu = {"adapter", "device"} /\ entries = <<>>
    BY <1>1 DEF HostInv, Waits, Unused
  <2> QED BY <1>1, <2>1, RunShape, Constants
<1>4. bs \in [1..InputCount + 2 -> Buffers] /\ InputCount + 2 \in 1..InputCount + 2
  BY <1>2, <1>3 DEF RunBuffers
<1>5. queue' \in Seq(TaskSet) /\ Queued(queue') \subseteq held'
  BY <1>1, <1>2, RunTasksShape
<1>6. held' \subseteq Buffers /\ readback' \in Buffers
  BY <1>2, <1>4
<1>7. Typed'
  BY <1>1, <1>2, <1>5, <1>6, Zenon DEF HostInv, Typed, Memories, Places
<1>8. Waits'
  BY <1>1, <1>3 DEF Waits
<1>9. Unused'
  BY <1>1, <1>3 DEF Unused
<1>10. TableOK'
  BY <1>1, <1>3 DEF TableOK
<1>11. Live'
  <2> SUFFICES ASSUME NEW b \in held' PROVE memory'[b] # Null
    BY <1>5 DEF Live
  <2>1. PICK i \in DOMAIN bs : b = bs[i]
    BY <1>2
  <2> QED BY <1>2, <1>3, <2>1
<1> QED BY <1>7, <1>8, <1>9, <1>10, <1>11 DEF HostInv

-----------------------------------------------------------------------------
(* The invariant of the host.                                              *)

\* Both processes of the composition start in it: the command line, and a
\* session before its first command.
Starts ==
    /\ Empty
    /\ \/ request \in Requests /\ place = "main" /\ gpu = {}
       \/ request = [mode |-> "session"] /\ place = "session" /\ gpu = {"adapter", "device"}

\* A process begins with the invariant.
LEMMA StartsInv ==
    ASSUME HostAssumption, Starts
    PROVE  HostInv
<1>1. /\ asked = "none" /\ done = FALSE /\ entries = <<>> /\ held = {} /\ queue = <<>>
      /\ memory = [b \in Buffers |-> Null] /\ pipelines = [p \in Pipelines |-> Null]
      /\ readback = Null /\ output = <<>>
  BY DEF Starts, Empty
<1>2. Typed
  <2>1. entries \in Seq(EntrySet) /\ queue \in Seq(TaskSet) /\ held \subseteq Buffers
    BY <1>1
  <2>2. /\ memory \in [Buffers -> Contents \cup {Null}]
        /\ pipelines \in [Pipelines -> Images \cup {Null}]
    BY <1>1
  <2> QED BY <1>1, <2>1, <2>2 DEF Typed, Starts, Served, Places
<1>3. Waits
  BY <1>1 DEF Starts, Waits
<1>4. Unused
  BY <1>1 DEF Unused
<1>5. TableOK
  <2>1. held \ {readback} = {} /\ DOMAIN entries = {}
    BY <1>1
  <2>2. Owned(entries, held \ {readback}, pipelines)
    BY <1>1, <2>1 DEF Owned
  <2>3. place # "map"
    BY DEF Starts
  <2> QED BY <1>1, <2>2, <2>3 DEF TableOK
<1>6. Live
  BY <1>1 DEF Live, Queued
<1> QED BY <1>2, <1>3, <1>4, <1>5, <1>6 DEF HostInv

\* What command lines give is contents.
LEMMA SpecContents ==
    ASSUME HostAssumption
    PROVE  /\ \A s \in Specs : parse_input(s) \in Contents
           /\ \A n \in Outputs : OutputWords(n) \in Contents
BY DEF HostAssumption

\* Every command of a session keeps the invariant.
LEMMA CommandInv ==
    ASSUME HostAssumption, HostInv, Command
    PROVE  HostInv'
<1>1. ASSUME NEW n \in Names, NEW s \in Specs, StoreCommand(n, parse_input(s)) PROVE HostInv'
  <2>1. PICK w \in Contents : w = parse_input(s)
    BY SpecContents
  <2>2. StoreCommand(n, w)
    BY <1>1, <2>1
  <2> QED BY <2>2, StoreInv
<1>2. ASSUME NEW n \in Names, NEW o \in Outputs, StoreCommand(n, OutputWords(o)) PROVE HostInv'
  <2>1. PICK w \in Contents : w = OutputWords(o)
    BY SpecContents
  <2>2. StoreCommand(n, w)
    BY <1>2, <2>1
  <2> QED BY <2>2, StoreInv
<1>3. ASSUME NEW n \in Names, NEW m \in Images, ShaderCommand(n, m) PROVE HostInv'
  BY <1>3, ShaderInv
<1>4. ASSUME NEW s \in Names, NEW o \in Names, NEW w \in 0..1, NEW j \in 0..MaxInputs,
             NEW ins \in [1..j -> Names], RunCommand(s, w, o, ins)
      PROVE  HostInv'
  BY <1>4, RunInv
<1>5. ASSUME NEW n \in Names, ReadCommand(n) PROVE HostInv'
  BY <1>5, ReadInv
<1>6. ASSUME NEW n \in Names, FreeCommand(n) PROVE HostInv'
  BY <1>6, FreeInv
<1>7. CASE QuitCommand
  BY <1>7, QuitInv
<1> QED BY <1>1, <1>2, <1>3, <1>4, <1>5, <1>6, <1>7 DEF Command

\* Every step keeps the invariant.
LEMMA StepInv ==
    ASSUME HostAssumption, HostInv, [Next]_vars
    PROVE  HostInv'
<1>1. CASE Proceed
  BY <1>1, OpeningInv, RunStartInv, WriteFileInv DEF Proceed
<1>2. CASE Events
  BY <1>2, EventInv DEF Events
<1>3. CASE Command
  BY <1>3, CommandInv
<1>4. CASE DeviceStep
  BY <1>4, DeviceInv
<1>5. CASE DeviceLost
  <2>1. Running
    BY <1>5 DEF DeviceLost, Running
  <2> QED BY <1>5, <2>1, EventInv
<1>6. CASE Die
  <2>1. Running
    BY <1>6 DEF Die
  <2> QED BY <1>6, <2>1, EventInv
<1>7. CASE UNCHANGED vars
  <2>1. Waits' /\ place' = place
    BY <1>7 DEF HostInv, Waits, vars
  <2> QED BY <1>7, <2>1, QuietPlace DEF vars, table
<1> QED BY <1>1, <1>2, <1>3, <1>4, <1>5, <1>6, <1>7 DEF Next, Ended

\* A set without two members has none or one.
LEMMA AtMostOne ==
    ASSUME NEW S, \A i, j \in S : i = j
    PROVE  Cardinality(S) = IF S = {} THEN 0 ELSE 1
<1>1. CASE S = {}
  BY <1>1, FS_EmptySet
<1>2. CASE S # {}
  <2>1. PICK i : S = {i}
    <3>1. PICK i \in S : TRUE
      BY <1>2
    <3> QED BY <3>1
  <2> QED BY <1>2, <2>1, FS_Singleton
<1> QED BY <1>1, <1>2

\* The invariant implies that each reference has one owner.
LEMMA InvOneOwner ==
    ASSUME HostAssumption, HostInv
    PROVE  OneOwner
<1> SUFFICES ASSUME request.mode = "session" PROVE OneOwner
  BY DEF OneOwner
<1> DEFINE hold == held \ {readback}
<1>1. /\ Owned(entries, hold, pipelines)
      /\ readback # Null => readback \in held
      /\ held \subseteq Buffers
      /\ Null \notin Buffers /\ Null \notin Pipelines
  BY Constants DEF HostInv, TableOK, Typed
<1>2. \A i, j \in DOMAIN entries : entries[i].name = entries[j].name => i = j
  BY <1>1 DEF Owned
<1>3. ASSUME NEW b \in Buffers
      PROVE  Cardinality({i \in DOMAIN entries : entries[i].buffer = b})
               + (IF readback = b THEN 1 ELSE 0) = (IF b \in held THEN 1 ELSE 0)
  <2> DEFINE S == {i \in DOMAIN entries : entries[i].buffer = b}
  <2>1. \A i, j \in S : i = j
    BY <1>1 DEF Owned
  <2>2. S # {} <=> b \in hold
    BY <1>1 DEF Owned
  <2> HIDE DEF S
  <2>3. Cardinality(S) = IF b \in hold THEN 1 ELSE 0
    BY <2>1, <2>2, AtMostOne
  <2>4. Cardinality(S) + (IF readback = b THEN 1 ELSE 0) = (IF b \in held THEN 1 ELSE 0)
    BY <1>1, <2>3
  <2> QED BY <2>4 DEF S
<1>4. ASSUME NEW p \in Pipelines
      PROVE  Cardinality({i \in DOMAIN entries : entries[i].pipeline = p})
               = (IF pipelines[p] # Null THEN 1 ELSE 0)
  <2> DEFINE S == {i \in DOMAIN entries : entries[i].pipeline = p}
  <2>1. \A i, j \in S : i = j
    BY <1>1 DEF Owned
  <2>2. S # {} <=> pipelines[p] # Null
    BY <1>1 DEF Owned
  <2> HIDE DEF S
  <2>3. Cardinality(S) = IF pipelines[p] # Null THEN 1 ELSE 0
    BY <2>1, <2>2, AtMostOne
  <2> QED BY <2>3 DEF S
<1> QED BY <1>2, <1>3, <1>4 DEF OneOwner

-----------------------------------------------------------------------------
(* The memory the queue leads to, after a step. *)

SettledMemory == Settled = Memory(memory, queue)

\* What Settled is after a step.
LEMMA SettledNext == Settled' = Memory(memory', queue')
<1>1. SettledMemory
  BY SettledIs DEF SettledMemory
<1>2. SettledMemory'
  BY <1>1, PTL
<1> QED BY <1>2 DEF SettledMemory

\* The device's step changes nothing of what held buffers will hold.
LEMMA DeviceSettles ==
    ASSUME HostAssumption, HostInv, DeviceStep
    PROVE  \A b \in held : Settled'[b] = Settled[b]
<1>1. PICK t, s, d, e : /\ t = Head(queue) /\ s = Tail(queue)
                        /\ d = After(t, memory) /\ e = Kept(d, held, s)
  OBVIOUS
<1>2. queue # <<>> /\ queue' = s /\ memory' = e
  BY <1>1 DEF DeviceStep
<1>3. /\ queue \in Seq(TaskSet) /\ memory \in Memories /\ held \subseteq Buffers
      /\ \A b \in held \cup Queued(queue) : memory[b] # Null
  BY DEF HostInv, Typed, Memories, Live
<1>4. /\ t \in TaskSet /\ s \in Seq(TaskSet) /\ Uses(t) \subseteq Queued(queue)
      /\ Queued(s) \subseteq Buffers
  BY <1>1, <1>2, <1>3, QueuedShape
<1>5. d \in Memories
  BY <1>1, <1>3, <1>4, AfterTyped
<1>6. /\ Plain(d) /\ Plain(e)
      /\ \A b \in Buffers : e[b] = IF b \in held \cup Queued(s) THEN d[b] ELSE Null
  BY <1>1, <1>5, KeptTyped
<1>7. held \cup Queued(s) \in SUBSET Buffers /\ Agree(e, d, held \cup Queued(s))
  BY <1>3, <1>4, <1>6 DEF Agree
<1>8. Agree(Memory(e, s), Memory(d, s), held \cup Queued(s))
  BY <1>4, <1>6, <1>7, MemoryAgrees
<1>9. Memory(d, s) = Memory(memory, queue)
  BY <1>1, <1>2, <1>3, MemoryHead
<1>10. Settled' = Memory(e, s) /\ Settled = Memory(memory, queue)
  BY <1>2, SettledIs, SettledNext
<1> QED BY <1>8, <1>9, <1>10 DEF Agree

\* A task is queued, and memory stays where the host or the queue uses it.
LEMMA AppendSettles ==
    ASSUME HostInv, NEW t \in TaskSet, queue' = Append(queue, t), memory' \in Memories,
           NEW hold \in SUBSET Buffers, Agree(memory', memory, hold \cup Queued(queue))
    PROVE  \E d : /\ Plain(d) /\ Settled' = After(t, d)
                  /\ Agree(d, Settled, hold \cup Queued(queue))
                  /\ \A b \in Buffers \ Queued(queue) : d[b] = memory'[b]
<1>1. PICK s, e, d : s = queue /\ e = memory' /\ d = Memory(e, s)
  OBVIOUS
<1>2. s \in Seq(TaskSet) /\ memory \in Memories /\ Queued(s) \subseteq Buffers
  <2>1. s \in Seq(TaskSet) /\ memory \in Memories
    BY <1>1 DEF HostInv, Typed, Memories
  <2> QED BY <2>1, QueuedShape
<1>3. Plain(e) /\ Plain(memory) /\ Len(s) \in Nat
  BY <1>1, <1>2, KeptTyped
<1>4. hold \cup Queued(s) \in SUBSET Buffers /\ Agree(e, memory, hold \cup Queued(s))
  BY <1>1, <1>2
<1>5. Agree(d, Memory(memory, s), hold \cup Queued(s))
  BY <1>1, <1>2, <1>3, <1>4, MemoryAgrees
<1>6. Plain(d)
  BY <1>1, <1>3, MemoryPlain
<1>7. Settled' = After(t, d)
  <2>1. Memory(e, Append(s, t)) = After(t, Memory(e, s))
    BY <1>2, MemoryAppend
  <2> QED BY <1>1, <2>1, SettledNext
<1>8. \A b \in Buffers \ Queued(s) : d[b] = e[b]
  BY <1>1, <1>2, <1>3, MemoryUntouched
<1> QED BY <1>1, <1>5, <1>6, <1>7, <1>8, SettledIs

\* A step that leaves memory and queue leaves what memory will hold.
LEMMA QuietSettles ==
    ASSUME UNCHANGED <<memory, queue>>
    PROVE  Settled' = Settled
BY SettledIs, SettledNext

\* With an empty queue memory is settled.
LEMMA IdleSettles ==
    /\ queue = <<>> => Settled = memory
    /\ queue' = <<>> => Settled' = memory'
BY SettledIs, SettledNext, MemoryEmpty

-----------------------------------------------------------------------------
(* What `run` prints. *)

\* What a `run` computes is contents.
LEMMA ExpectedIsContents ==
    ASSUME HostAssumption, HostInv, request.mode = "run", RunOK
    PROVE  Expected \in Contents /\ Expected # <<>>
<1>1. /\ request.image \in Images /\ InputCount \in 0..MaxInputs /\ InputCount \in Nat
      /\ RunWords \in [1..InputCount + 1 -> Contents]
  BY RunShape
<1>2. /\ Initial(request.output) = RunWords[InputCount + 1]
      /\ \A i \in 1..InputCount : parse_input(request.inputs[i]) = RunWords[i]
      /\ InputCount + 1 \in 1..InputCount + 1
      /\ \A i \in 1..InputCount : i \in 1..InputCount + 1
  BY <1>1 DEF RunWords
<1> DEFINE ins == [i \in 1..InputCount |-> parse_input(request.inputs[i])]
<1>3. ins \in [1..InputCount -> Contents] /\ Initial(request.output) \in Contents
  BY <1>1, <1>2
<1>4. Compute(request.image, ins, Initial(request.output)) \in Contents
  <2> HIDE DEF ins
  <2> QED BY <1>1, <1>3 DEF HostAssumption
<1> HIDE DEF ins
<1>5. Expected \in Contents
  BY <1>3, <1>4, Zenon DEF Expected, ins
<1> QED BY <1>5, Constants

\* The buffers hold what was written once the writes have run.
LEMMA WritesSettle ==
    ASSUME HostAssumption, HostInv, place = "run", RunOK, NEW bs, RunBuffers(bs),
           NEW e, Plain(e)
    PROVE  /\ Plain(Memory(e, RunWrites(bs)))
           /\ \A i \in 1..InputCount + 1 : Memory(e, RunWrites(bs))[bs[i]] = RunWords[i]
<1> DEFINE n == InputCount
<1>1. PICK W : W = RunWrites(bs)
  OBVIOUS
<1>2. /\ n \in Nat /\ bs \in [1..n + 2 -> Buffers]
      /\ \A i, j \in 1..n + 2 : bs[i] = bs[j] => i = j
  BY RunShape DEF RunBuffers
<1>3. W = [i \in 1..n + 1 |-> Write(bs[i], RunWords[i])] /\ W \in Seq(TaskSet)
  BY <1>1, RunTasksShape DEF RunWrites
<1> HIDE DEF n
<1>4. n + 1 \in Nat /\ Len(W) = n + 1 /\ Len(W) \in Nat
  BY <1>2, <1>3
<1>5. PICK f : Course(f, e, W)
  BY <1>4, CourseExists
<1>6. /\ f[0] = e /\ \A k \in 1..n + 1 : f[k] = After(W[k], f[k - 1])
      /\ \A k \in 0..n + 1 : Plain(f[k])
  BY <1>4, <1>5, CourseTakes, CoursePlain
<1> DEFINE S == {k \in 0..n + 1 : \A i \in 1..k : f[k][bs[i]] = RunWords[i]}
<1>7. 0 \in S
  BY <1>4
<1>8. ASSUME NEW k \in 1..n + 1, k - 1 \in S PROVE k \in S
  <2>1. PICK g, t : g = f[k - 1] /\ t = W[k]
    OBVIOUS
  <2>2. /\ t = Write(bs[k], RunWords[k]) /\ f[k] = After(t, g) /\ Plain(g)
        /\ k \in 1..n + 2 /\ bs[k] \in Buffers
    BY <1>2, <1>3, <1>4, <1>6, <2>1
  <2>3. t.op = "write" /\ t.buffer = bs[k] /\ t.words = RunWords[k]
    BY <2>2 DEF Write
  <2>4. \A b \in Buffers : b # bs[k] => f[k][b] = g[b]
    BY <2>2, <2>3, AfterPlain
  <2>5. f[k][bs[k]] = RunWords[k]
    <3>1. After(t, g) = [g EXCEPT ![t.buffer] = t.words]
      BY <2>3 DEF After
    <3>2. DOMAIN g = Buffers
      BY <2>2 DEF Plain
    <3> QED BY <2>2, <2>3, <3>1, <3>2
  <2>6. ASSUME NEW i \in 1..k PROVE f[k][bs[i]] = RunWords[i]
    <3>1. CASE i = k
      BY <2>5, <3>1
    <3>2. CASE i # k
      <4>1. i \in 1..k - 1 /\ i \in 1..n + 2
        BY <1>2, <3>2
      <4>2. bs[i] \in Buffers /\ bs[i] # bs[k]
        BY <1>2, <2>2, <3>2, <4>1
      <4>3. g[bs[i]] = RunWords[i]
        BY <1>8, <2>1, <4>1
      <4> QED BY <2>4, <4>2, <4>3
    <3> QED BY <3>1, <3>2
  <2> QED BY <2>6
<1> HIDE DEF S
<1>9. 0..n + 1 \subseteq S
  BY <1>4, <1>7, <1>8, Along
<1>10. n + 1 \in 0..n + 1
  BY <1>4
<1>11. Memory(e, W) = f[n + 1]
  BY <1>4, <1>5, MemoryIs
<1>12. \A i \in 1..n + 1 : f[n + 1][bs[i]] = RunWords[i]
  BY <1>9, <1>10 DEF S
<1> QED BY <1>1, <1>6, <1>10, <1>11, <1>12 DEF n

\* The buffer that is read back will hold what the dispatch leaves in the output.
LEMMA RunSettles ==
    ASSUME HostAssumption, HostInv, run
    PROVE  readback' \in held' /\ Settled'[readback'] = Expected
<1> DEFINE n == InputCount
<1>1. PICK bs : /\ RunBuffers(bs)
                /\ held' = {bs[i] : i \in DOMAIN bs}
                /\ memory' \in Memories
                /\ queue' = RunTasks(bs)
                /\ readback' = bs[n + 2]
  BY RunTakes
<1>2. place = "run" /\ RunOK
  BY DEF run
<1>3. PICK e, W, d, c : /\ e = memory' /\ W = RunWrites(bs)
                        /\ d = RunDispatch(bs) /\ c = RunCopy(bs)
  OBVIOUS
<1>4. /\ n \in Nat /\ bs \in [1..n + 2 -> Buffers]
      /\ \A i, j \in 1..n + 2 : bs[i] = bs[j] => i = j
  BY <1>1, <1>2, RunShape DEF RunBuffers
<1>5. /\ W \in Seq(TaskSet) /\ d \in TaskSet /\ c \in TaskSet
      /\ Append(W, d) \in Seq(TaskSet)
  BY <1>1, <1>2, <1>3, RunTasksShape, QueuedAppend
<1>6. /\ n + 1 \in 1..n + 1 /\ n + 1 \in 1..n + 2 /\ n + 2 \in 1..n + 2
      /\ \A i \in 1..n : i \in 1..n + 1 /\ i \in 1..n + 2
  BY <1>4
<1>7. /\ RunWords[n + 1] = Initial(request.output)
      /\ \A i \in 1..n : RunWords[i] = parse_input(request.inputs[i])
  BY <1>4, <1>6 DEF RunWords
<1>8. PICK m : m = Memory(e, W)
  OBVIOUS
<1>9. Plain(m) /\ \A i \in 1..n + 1 : m[bs[i]] = RunWords[i]
  <2>1. Plain(e)
    BY <1>1, <1>3, KeptTyped
  <2> QED BY <1>1, <1>2, <1>3, <1>8, <2>1, WritesSettle
<1>10. readback' \in held' /\ bs[n + 1] \in Buffers /\ bs[n + 2] \in Buffers
  BY <1>1, <1>4, <1>6
<1>11. /\ c.op = "copy" /\ c.buffer = bs[n + 2] /\ c.from = bs[n + 1]
       /\ d.op = "dispatch" /\ d.image = request.image /\ d.buffer = bs[n + 1]
       /\ d.ins = [i \in 1..n |-> bs[i]]
  BY <1>3 DEF RunCopy, CopyTo, RunDispatch, Dispatch
<1> HIDE DEF n
<1>12. ASSUME NEW g, Plain(g) PROVE After(c, g)[bs[n + 2]] = g[bs[n + 1]]
  <2>1. After(c, g) = [g EXCEPT ![bs[n + 2]] = g[bs[n + 1]]]
    BY <1>11 DEF After
  <2>2. DOMAIN g = Buffers
    BY <1>12 DEF Plain
  <2> QED BY <1>10, <2>1, <2>2
<1>13. CASE request.workgroups = 0
  <2>1. Settled' = After(c, m)
    <3>1. queue' = Append(W, c)
      BY <1>1, <1>3, <1>13 DEF RunTasks
    <3>2. Memory(e, Append(W, c)) = After(c, m)
      BY <1>5, <1>8, MemoryAppend
    <3> QED BY <1>3, <3>1, <3>2, SettledNext
  <2>2. Settled'[bs[n + 2]] = RunWords[n + 1]
    BY <1>6, <1>9, <1>12, <2>1
  <2>3. Expected = RunWords[n + 1]
    BY <1>7, <1>13 DEF Expected
  <2> QED BY <1>1, <1>10, <2>2, <2>3 DEF n
<1>14. CASE request.workgroups # 0
  <2>1. PICK g : g = After(d, m)
    OBVIOUS
  <2>2. Settled' = After(c, g)
    <3>1. queue' = Append(Append(W, d), c)
      BY <1>1, <1>3, <1>14 DEF RunTasks
    <3>2. Memory(e, Append(W, d)) = g
      BY <1>5, <1>8, <2>1, MemoryAppend
    <3>3. Memory(e, Append(Append(W, d), c)) = After(c, Memory(e, Append(W, d)))
      BY <1>5, MemoryAppend
    <3> QED BY <1>3, <3>1, <3>2, <3>3, SettledNext
  <2>3. Plain(g)
    BY <1>9, <2>1, AfterPlain
  <2>4. Settled'[bs[n + 2]] = g[bs[n + 1]]
    BY <1>12, <2>2, <2>3
  <2>5. g[bs[n + 1]] = Compute(request.image, [i \in 1..n |-> parse_input(request.inputs[i])],
                               Initial(request.output))
    <3>1. [i \in DOMAIN d.ins |-> m[d.ins[i]]] = [i \in 1..n |-> parse_input(request.inputs[i])]
      BY <1>6, <1>7, <1>9, <1>11
    <3>2. m[bs[n + 1]] = Initial(request.output) /\ DOMAIN m = Buffers
      BY <1>6, <1>7, <1>9 DEF Plain
    <3>3. d.op # "write" /\ d.op # "copy"
      BY <1>11
    <3>4. g = [m EXCEPT ![bs[n + 1]] =
                 Compute(request.image, [i \in DOMAIN d.ins |-> m[d.ins[i]]], m[bs[n + 1]])]
      BY <1>11, <2>1, <3>3, Zenon DEF After
    <3> QED BY <1>10, <3>1, <3>2, <3>4
  <2>6. Expected = g[bs[n + 1]]
    BY <1>14, <2>5 DEF Expected, n
  <2> QED BY <1>1, <1>10, <2>4, <2>6 DEF n
<1> QED BY <1>13, <1>14

\* Every step keeps what the mapped buffer will hold.
LEMMA PrintingStep ==
    ASSUME HostAssumption, HostInv, Printing, [Next]_vars
    PROVE  Printing'
<1> SUFFICES ASSUME request'.mode = "run" PROVE Printing'
  BY DEF Printing
<1>1. request' = request
  BY DEF Next, Proceed, Events, Command, Usage, RequestAdapter, RequestDevice, Opened, info,
         RejectRun, run, PrintOutput, WriteFile, Callback, CallbackFails, StoreCommand,
         ShaderCommand, RunCommand, ReadCommand, FreeCommand, QuitCommand, DeviceStep,
         DeviceLost, Die, Ended, vars
<1>2. /\ request.mode = "run" /\ place # "session" /\ place # "info"
      /\ Expected' = Expected /\ RunOK' = RunOK
      /\ place = "map" => RunOK /\ readback \in held /\ Settled[readback] = Expected
      /\ output # <<>> => output = Expected
      /\ place = "exited" => output # <<>>
  BY <1>1 DEF HostInv, Waits, Printing, Expected, RunOK, InputCount
<1>3. CASE run
  <2>1. place = "run" /\ RunOK /\ place' = "map" /\ output' = output
    BY <1>3 DEF run
  <2>2. readback' \in held' /\ Settled'[readback'] = Expected
    BY <1>3, RunSettles
  <2> QED BY <1>1, <1>2, <2>1, <2>2 DEF Printing
<1>4. CASE PrintOutput
  <2>1. /\ done /\ place = "map" /\ place' = "exited" /\ output' = memory[readback]
    BY <1>4 DEF PrintOutput, At
  <2>2. queue = <<>>
    BY <2>1 DEF HostInv, Waits
  <2>3. output' = Expected
    BY <1>2, <2>1, <2>2, IdleSettles
  <2>4. output' # <<>>
    BY <1>2, <2>1, <2>3, ExpectedIsContents
  <2> QED BY <1>1, <1>2, <2>1, <2>3, <2>4 DEF Printing
<1>5. CASE DeviceStep
  <2>1. place' = place /\ held' = held /\ readback' = readback /\ output' = output
    BY <1>5 DEF DeviceStep
  <2>2. \A b \in held : Settled'[b] = Settled[b]
    BY <1>5, DeviceSettles
  <2> QED BY <1>1, <1>2, <2>1, <2>2 DEF Printing
<1>6. CASE /\ UNCHANGED <<held, memory, queue, readback, output>>
           /\ place' = place \/ place' \in {"failed", "adapter", "device", "run", "info"}
  <2>1. Settled' = Settled
    BY <1>6, QuietSettles
  <2> QED BY <1>1, <1>2, <1>6, <2>1 DEF Printing
<1>7. \/ run
      \/ PrintOutput
      \/ DeviceStep
      \/ /\ UNCHANGED <<held, memory, queue, readback, output>>
         /\ place' = place \/ place' \in {"failed", "adapter", "device", "run", "info"}
  <2>1. CASE Usage \/ RequestAdapter \/ RequestDevice \/ Opened \/ RejectRun
    BY <1>2, <2>1 DEF Usage, RequestAdapter, RequestDevice, Opened, RejectRun, At, device
  <2>2. CASE Callback \/ CallbackFails \/ DeviceLost \/ Die \/ UNCHANGED vars
    BY <2>2 DEF Callback, CallbackFails, DeviceLost, Die, vars, device
  <2>3. ~info /\ ~WriteFile /\ ~Command
    BY <1>2 DEF info, WriteFile, Command, StoreCommand, ShaderCommand, RunCommand,
                ReadCommand, FreeCommand, QuitCommand, At
  <2> QED BY <2>1, <2>2, <2>3 DEF Next, Proceed, Events, Ended
<1> QED BY <1>3, <1>4, <1>5, <1>6, <1>7

\* The invariant says what a `run` prints.
LEMMA InvRunPrints ==
    ASSUME HostInv, Printing
    PROVE  RunPrints
<1>1. place \in {"info", "run", "session", "map"} => gpu = {"adapter", "device"}
  BY DEF HostInv, Waits
<1>2. request.mode = "run" =>
         (output # <<>> => output = Expected) /\ (place = "exited" => output # <<>>)
  BY DEF Printing
<1> QED BY <1>1, <1>2 DEF RunPrints, Expected

-----------------------------------------------------------------------------
(* What a name holds. *)

Table == Typed /\ Owned(entries, held \ {readback}, pipelines)

\* The invariant implies that the table is one.
LEMMA InvTable ==
    ASSUME HostInv, request.mode = "session" PROVE Table
BY DEF Table, HostInv, TableOK

\* A name holds what its entry says, and nothing without an entry.
Lookup ==
    Table =>
        \A n : /\ \A i \in DOMAIN entries : entries[i].name = n =>
                     /\ Known(n) /\ find_entry(n) = i
                     /\ BufferOf(n) = entries[i].buffer
                     /\ PipelineOf(n) = entries[i].pipeline
               /\ (\A i \in DOMAIN entries : entries[i].name # n) =>
                     ~Known(n) /\ BufferOf(n) = Null /\ PipelineOf(n) = Null

\* What a name has is what its entry says.
LEMMA LookupHolds == Lookup
<1> SUFFICES ASSUME Table, NEW n
             PROVE  /\ \A i \in DOMAIN entries : entries[i].name = n =>
                          /\ Known(n) /\ find_entry(n) = i
                          /\ BufferOf(n) = entries[i].buffer
                          /\ PipelineOf(n) = entries[i].pipeline
                    /\ (\A i \in DOMAIN entries : entries[i].name # n) =>
                          ~Known(n) /\ BufferOf(n) = Null /\ PipelineOf(n) = Null
  BY DEF Lookup
<1>0. Typed /\ \A i, j \in DOMAIN entries : entries[i].name = entries[j].name => i = j
  BY DEF Table, Owned
<1>1. ASSUME NEW i \in DOMAIN entries, entries[i].name = n
      PROVE  /\ Known(n) /\ find_entry(n) = i
             /\ BufferOf(n) = entries[i].buffer
             /\ PipelineOf(n) = entries[i].pipeline
  <2>1. Known(n) /\ find_entry(n) \in DOMAIN entries /\ entries[find_entry(n)].name = n
    BY <1>0, <1>1, FindEntry
  <2>2. find_entry(n) = i
    BY <1>0, <1>1, <2>1
  <2> QED BY <1>0, <2>1, <2>2, HeldByName
<1>2. (\A i \in DOMAIN entries : entries[i].name # n) =>
          ~Known(n) /\ BufferOf(n) = Null /\ PipelineOf(n) = Null
  BY <1>0, FindEntry, HeldByName
<1> QED BY <1>1, <1>2

\* After a step too, what a name has is what its entry says.
LEMMA LookupNext == Lookup'
BY LookupHolds, PTL

\* What a name holds, no other name does, and it is a reference of the host.
Distinct ==
    Table =>
        /\ \A n, o : n # o => /\ BufferOf(n) = BufferOf(o) => BufferOf(n) = Null
                              /\ PipelineOf(n) = PipelineOf(o) => PipelineOf(n) = Null
        /\ \A n : /\ BufferOf(n) # Null =>
                        /\ BufferOf(n) \in Buffers /\ BufferOf(n) \in held
                        /\ BufferOf(n) # readback /\ PipelineOf(n) = Null
                  /\ PipelineOf(n) # Null =>
                        PipelineOf(n) \in Pipelines /\ pipelines[PipelineOf(n)] # Null

\* No buffer is in two entries.
LEMMA DistinctHolds == Distinct
<1> SUFFICES ASSUME Table PROVE Distinct
  BY DEF Distinct
<1>0. Typed /\ Owned(entries, held \ {readback}, pipelines)
  BY DEF Table
<1>1. ASSUME NEW n, NEW o, n # o
      PROVE  /\ BufferOf(n) = BufferOf(o) => BufferOf(n) = Null
             /\ PipelineOf(n) = PipelineOf(o) => PipelineOf(n) = Null
  <2>1. CASE Known(n) /\ Known(o)
    <3>1. /\ find_entry(n) \in DOMAIN entries /\ entries[find_entry(n)].name = n
          /\ find_entry(o) \in DOMAIN entries /\ entries[find_entry(o)].name = o
      BY <1>0, <2>1, FindEntry
    <3> QED BY <1>0, <1>1, <2>1, <3>1, HeldByName DEF Owned
  <2>2. CASE ~Known(n) \/ ~Known(o)
    BY <1>0, <2>2, HeldByName
  <2> QED BY <2>1, <2>2
<1>2. ASSUME NEW n
      PROVE  /\ BufferOf(n) # Null =>
                   /\ BufferOf(n) \in Buffers /\ BufferOf(n) \in held
                   /\ BufferOf(n) # readback /\ PipelineOf(n) = Null
             /\ PipelineOf(n) # Null =>
                   PipelineOf(n) \in Pipelines /\ pipelines[PipelineOf(n)] # Null
  <2>1. /\ BufferOf(n) # Null => BufferOf(n) \in Buffers /\ BufferOf(n) \in held \ {readback}
        /\ PipelineOf(n) # Null =>
              PipelineOf(n) \in Pipelines /\ pipelines[PipelineOf(n)] # Null
    BY <1>0, NameHolds
  <2>2. BufferOf(n) # Null => PipelineOf(n) = Null
    <3>1. Known(n) => /\ entries[find_entry(n)] \in EntrySet
                      /\ BufferOf(n) = entries[find_entry(n)].buffer
                      /\ PipelineOf(n) = entries[find_entry(n)].pipeline
      BY <1>0, FindEntry, HeldByName
    <3>2. ~Known(n) => BufferOf(n) = Null
      BY <1>0, HeldByName
    <3> QED BY <3>1, <3>2 DEF EntrySet
  <2> QED BY <2>1, <2>2
<1> QED BY <1>1, <1>2, Zenon DEF Distinct

\* After a step too, no buffer is in two entries.
LEMMA DistinctNext == Distinct'
BY DistinctHolds, PTL

\* The table changes at one name only.
ChangesAt(name) ==
    /\ \A i \in DOMAIN entries' : entries'[i].name # name =>
          \E j \in DOMAIN entries : entries[j] = entries'[i]
    /\ \A j \in DOMAIN entries : entries[j].name # name =>
          \E i \in DOMAIN entries' : entries'[i] = entries[j]

\* A change of one entry leaves the other names what they have.
LEMMA OthersSame ==
    ASSUME Table, Table', NEW name, ChangesAt(name), NEW n, n # name
    PROVE  BufferOf(n)' = BufferOf(n) /\ PipelineOf(n)' = PipelineOf(n)
<1>1. CASE \E i \in DOMAIN entries : entries[i].name = n
  <2>1. PICK i \in DOMAIN entries : entries[i].name = n
    BY <1>1
  <2>2. PICK j \in DOMAIN entries' : entries'[j] = entries[i]
    BY <2>1 DEF ChangesAt
  <2>3. BufferOf(n) = entries[i].buffer /\ PipelineOf(n) = entries[i].pipeline
    BY <2>1, LookupHolds DEF Lookup
  <2>4. BufferOf(n)' = entries'[j].buffer /\ PipelineOf(n)' = entries'[j].pipeline
    BY <2>1, <2>2, LookupNext DEF Lookup
  <2> QED BY <2>2, <2>3, <2>4
<1>2. CASE \A i \in DOMAIN entries : entries[i].name # n
  <2>1. \A i \in DOMAIN entries' : entries'[i].name # n
    BY <1>2 DEF ChangesAt
  <2>2. BufferOf(n) = Null /\ PipelineOf(n) = Null
    BY <1>2, LookupHolds DEF Lookup
  <2>3. BufferOf(n)' = Null /\ PipelineOf(n)' = Null
    BY <2>1, LookupNext DEF Lookup
  <2> QED BY <2>2, <2>3
<1> QED BY <1>1, <1>2

\* Putting an entry changes one name.
LEMMA PutChanges ==
    ASSUME Table, Table', NEW name, NEW b, NEW p, Put(name, b, p)
    PROVE  ChangesAt(name) /\ BufferOf(name)' = b /\ PipelineOf(name)' = p
<1> DEFINE new == [name |-> name, buffer |-> b, pipeline |-> p]
           at == IF Known(name) THEN find_entry(name) ELSE Len(entries) + 1
<1>0. /\ Typed /\ entries \in Seq(EntrySet) /\ DOMAIN entries = 1..Len(entries)
      /\ Len(entries) \in Nat
      /\ new.name = name /\ new.buffer = b /\ new.pipeline = p
  BY DEF Table, Typed
<1> HIDE DEF new
<1>1. /\ at \in DOMAIN entries' /\ entries'[at] = new
      /\ \A i \in DOMAIN entries' : i # at => i \in DOMAIN entries /\ entries'[i] = entries[i]
      /\ \A j \in DOMAIN entries : j # at => j \in DOMAIN entries' /\ entries'[j] = entries[j]
  <2>1. CASE Known(name)
    <3>1. find_entry(name) \in DOMAIN entries
      BY <1>0, <2>1, FindEntry
    <3>2. entries' = [entries EXCEPT ![find_entry(name)] = new]
      BY <2>1 DEF Put, new
    <3> QED BY <2>1, <3>1, <3>2
  <2>2. CASE ~Known(name)
    <3>1. entries' = Append(entries, new)
      BY <2>2 DEF Put, new
    <3>2. DOMAIN entries' = 1..Len(entries) + 1
      BY <3>1, <1>0
    <3>3. entries'[Len(entries) + 1] = new /\ \A i \in 1..Len(entries) : entries'[i] = entries[i]
      BY <3>1, <1>0
    <3>4. at = Len(entries) + 1
      BY <2>2
    <3> HIDE DEF at
    <3> QED BY <1>0, <3>2, <3>3, <3>4
  <2> QED BY <2>1, <2>2
<1>2. \A j \in DOMAIN entries : entries[j].name # name => j # at
  BY <1>0, FindEntry
<1> HIDE DEF at
<1>3. ChangesAt(name)
  BY <1>0, <1>1, <1>2 DEF ChangesAt
<1>4. BufferOf(name)' = b /\ PipelineOf(name)' = p
  BY <1>0, <1>1, LookupNext DEF Lookup
<1> QED BY <1>3, <1>4

\* Removing an entry, and moving the last over it, changes one name.
LEMMA WithoutChanges ==
    ASSUME Table, Table', NEW name, Known(name), entries' = Without(find_entry(name))
    PROVE  /\ ChangesAt(name)
           /\ BufferOf(name)' = Null /\ PipelineOf(name)' = Null
<1> DEFINE k == find_entry(name)
           n == Len(entries)
           from(i) == IF i = k THEN n ELSE i
<1>0. Typed /\ \A i, j \in DOMAIN entries : entries[i].name = entries[j].name => i = j
  BY DEF Table, Owned
<1>1. /\ k \in 1..n /\ n \in Nat /\ DOMAIN entries = 1..n /\ entries[k].name = name
      /\ DOMAIN entries' = 1..n - 1
      /\ \A i \in 1..n - 1 : from(i) \in 1..n /\ from(i) # k /\ entries'[i] = entries[from(i)]
  BY <1>0, FindEntry DEF Typed, Without
<1>2. \A j \in 1..n : j # k => \E i \in 1..n - 1 : from(i) = j
  <2> SUFFICES ASSUME NEW j \in 1..n, j # k PROVE \E i \in 1..n - 1 : from(i) = j
    OBVIOUS
  <2>1. CASE j = n
    BY <2>1, <1>1
  <2>2. CASE j # n
    <3>1. from(j) = j
      BY <2>2
    <3>2. j \in 1..n - 1
      <4> HIDE DEF n, from, k
      <4> QED BY <2>2, <1>1
    <3> QED BY <3>1, <3>2
  <2> QED BY <2>1, <2>2
<1> HIDE DEF k, n, from
<1>3. ChangesAt(name)
  <2>1. \A i \in DOMAIN entries' : \E j \in DOMAIN entries : entries[j] = entries'[i]
    BY <1>1
  <2>2. ASSUME NEW j \in DOMAIN entries, entries[j].name # name
        PROVE  \E i \in DOMAIN entries' : entries'[i] = entries[j]
    <3>1. PICK i \in 1..n - 1 : from(i) = j
      BY <1>1, <1>2, <2>2
    <3> QED BY <1>1, <3>1
  <2> QED BY <2>1, <2>2 DEF ChangesAt
<1>4. \A i \in DOMAIN entries' : entries'[i].name # name
  <2>1. \A j \in DOMAIN entries : entries[j].name = name => j = k
    BY <1>0, <1>1
  <2> QED BY <1>1, <2>1
<1>5. BufferOf(name)' = Null /\ PipelineOf(name)' = Null
  BY <1>4, LookupNext DEF Lookup
<1> QED BY <1>3, <1>5

\* A table that stays.
LEMMA HeldSame ==
    ASSUME entries' = entries, NEW n
    PROVE  BufferOf(n)' = BufferOf(n) /\ PipelineOf(n)' = PipelineOf(n)
BY DEF BufferOf, PipelineOf, Known, find_entry

-----------------------------------------------------------------------------
(* What each name stands for, after a step. *)

Sight(buffer, pipeline, mem, pipes) ==
    IF buffer # Null THEN [kind |-> "buffer", data |-> mem[buffer]]
    ELSE IF pipeline # Null THEN [kind |-> "kernel", image |-> pipes[pipeline]]
    ELSE [kind |-> "nothing"]

\* The refinement mapping, name by name.
LEMMA ViewIs ==
    /\ View = [n \in Names |-> Sight(BufferOf(n), PipelineOf(n), Settled, pipelines)]
    /\ View' = [n \in Names |-> Sight(BufferOf(n)', PipelineOf(n)', Settled', pipelines')]
BY DEF View, Sight

\* One name changes what it holds, or what its buffer holds.
LEMMA ViewMoves ==
    ASSUME Table, NEW name \in Names,
           \A n \in Names : n # name => BufferOf(n)' = BufferOf(n) /\ PipelineOf(n)' = PipelineOf(n),
           \A q \in held : q # BufferOf(name) => Settled'[q] = Settled[q],
           \A q \in Pipelines :
              pipelines[q] # Null /\ q # PipelineOf(name) => pipelines'[q] = pipelines[q]
    PROVE  View' = [View EXCEPT ![name] =
                       Sight(BufferOf(name)', PipelineOf(name)', Settled', pipelines')]
<1>1. ASSUME NEW n \in Names, n # name
      PROVE  Sight(BufferOf(n)', PipelineOf(n)', Settled', pipelines') =
             Sight(BufferOf(n), PipelineOf(n), Settled, pipelines)
  <2>1. BufferOf(n)' = BufferOf(n) /\ PipelineOf(n)' = PipelineOf(n)
    BY <1>1
  <2>2. /\ BufferOf(n) # Null => BufferOf(n) \in held /\ BufferOf(n) # BufferOf(name)
        /\ PipelineOf(n) # Null => /\ PipelineOf(n) \in Pipelines
                                   /\ pipelines[PipelineOf(n)] # Null
                                   /\ PipelineOf(n) # PipelineOf(name)
    BY <1>1, DistinctHolds DEF Distinct
  <2>3. BufferOf(n) # Null => Settled'[BufferOf(n)] = Settled[BufferOf(n)]
    BY <2>2
  <2>4. PipelineOf(n) # Null => pipelines'[PipelineOf(n)] = pipelines[PipelineOf(n)]
    BY <2>2
  <2> QED BY <2>1, <2>3, <2>4 DEF Sight
<1>2. \A n \in Names : /\ View'[n] = Sight(BufferOf(n)', PipelineOf(n)', Settled', pipelines')
                       /\ View[n] = Sight(BufferOf(n), PipelineOf(n), Settled, pipelines)
  BY ViewIs
<1>3. View = [n \in Names |-> View[n]] /\ View' = [n \in Names |-> View'[n]]
  BY ViewIs
<1>4. \A n \in Names : n # name => View'[n] = View[n]
  BY <1>1, <1>2
<1> QED BY <1>2, <1>3, <1>4

\* No name changes what it holds.
LEMMA ViewStays ==
    ASSUME Table, entries' = entries, pipelines' = pipelines,
           \A n \in Names : BufferOf(n) # Null => Settled'[BufferOf(n)] = Settled[BufferOf(n)]
    PROVE  View' = View
<1>1. ASSUME NEW n \in Names
      PROVE  Sight(BufferOf(n)', PipelineOf(n)', Settled', pipelines') =
             Sight(BufferOf(n), PipelineOf(n), Settled, pipelines)
  <2>1. BufferOf(n)' = BufferOf(n) /\ PipelineOf(n)' = PipelineOf(n)
    BY HeldSame
  <2>2. BufferOf(n) # Null => Settled'[BufferOf(n)] = Settled[BufferOf(n)]
    OBVIOUS
  <2> QED BY <2>1, <2>2 DEF Sight
<1> QED BY <1>1, ViewIs, Zenon

\* Without a table no name stands for anything.
LEMMA ViewEmpty ==
    /\ entries = <<>> => View = [n \in Names |-> [kind |-> "nothing"]]
    /\ entries' = <<>> => View' = [n \in Names |-> [kind |-> "nothing"]]
<1>1. ASSUME entries = <<>> PROVE View = [n \in Names |-> [kind |-> "nothing"]]
  <2>1. \A n : BufferOf(n) = Null /\ PipelineOf(n) = Null
    BY <1>1 DEF BufferOf, PipelineOf, Known, find_entry
  <2> QED BY <2>1, ViewIs DEF Sight
<1>2. ASSUME entries' = <<>> PROVE View' = [n \in Names |-> [kind |-> "nothing"]]
  <2>1. \A n : BufferOf(n)' = Null /\ PipelineOf(n)' = Null
    BY <1>2 DEF BufferOf, PipelineOf, Known, find_entry
  <2> QED BY <2>1, ViewIs DEF Sight
<1> QED BY <1>1, <1>2

-----------------------------------------------------------------------------
(* Steps of the store. *)

\* What the last `read` of a session wrote.
File == IF request.mode = "session" THEN output ELSE <<>>

\* A step that no name shows is a stutter of NamedStore.
LEMMA Invisible ==
    ASSUME View' = View, File' = File, Running' <=> Running
    PROVE  [Promise!Next]_(Promise!vars)
BY DEF Promise!vars, File

\* A step that ends the process is one of NamedStore.
LEMMA Ends ==
    ASSUME View' = View, File' = File, Running, ~Running'
    PROVE  [Promise!Next]_(Promise!vars)
BY DEF Promise!Next, Promise!End, File

Given == {parse_input(s) : s \in Specs} \cup {OutputWords(n) : n \in Outputs}

\* A step that gives one name new contents is one of NamedStore.
LEMMA Sets ==
    ASSUME NEW name \in Names, NEW data \in Given,
           View' = [View EXCEPT ![name] = [kind |-> "buffer", data |-> data]],
           File' = File, Running, Running'
    PROVE  [Promise!Next]_(Promise!vars)
BY DEF Promise!Next, Promise!SetBuffer, Promise!Buffer, File, Given

\* Contents stay on the device where the host has a reference or the queue uses
\* them.
LEMMA KeptAgrees ==
    ASSUME NEW d \in Memories, NEW hold \in SUBSET Buffers, NEW s, Queued(s) \subseteq Buffers
    PROVE  Agree(Kept(d, hold, s), d, hold \cup Queued(s))
BY KeptTyped DEF Agree

\* `store` and `output` are NamedStore's.
LEMMA StoreEffect ==
    ASSUME HostAssumption, HostInv, HostInv', NEW name \in Names, NEW words \in Given,
           words \in Contents, StoreCommand(name, words)
    PROVE  Reading' /\ [Promise!Next]_(Promise!vars)
<1>1. PICK hold, kept : hold = Released(name) /\ kept = Kept(memory, hold, queue)
  OBVIOUS
<1>2. PICK b \in Buffers :
         /\ place = "session" /\ kept[b] = Null
         /\ Put(name, b, Null)
         /\ pipelines' = PipelinesLeft(name)
         /\ memory' = [kept EXCEPT ![b] = Zeros(Len(words))]
         /\ queue' = Append(queue, Write(b, words))
         /\ UNCHANGED <<request, place, output>>
  BY <1>1, Zenon DEF StoreCommand
<1>3. /\ request.mode = "session" /\ readback = Null
      /\ held \subseteq Buffers /\ memory \in Memories /\ Queued(queue) \subseteq Buffers
      /\ queue \in Seq(TaskSet)
      /\ \A q \in held \cup Queued(queue) : memory[q] # Null
      /\ Null \notin Contents /\ Null \notin Buffers
  BY <1>2, InSession, Constants
<1>4. hold = held \ {BufferOf(name)} /\ hold \in SUBSET Buffers
  BY <1>1, <1>3 DEF Released
<1>5. kept \in Memories /\ Agree(kept, memory, hold \cup Queued(queue))
  BY <1>1, <1>3, <1>4, KeptTyped, KeptAgrees
<1>6. b \notin hold \cup Queued(queue)
  BY <1>2, <1>3, <1>4, <1>5 DEF Agree
<1>7. /\ memory' \in Memories
      /\ Agree(memory', memory, hold \cup Queued(queue))
  <2>1. \A q \in Buffers : q # b => memory'[q] = kept[q]
    BY <1>2, <1>5 DEF Memories
  <2>2. memory' \in Memories
    BY DEF HostInv, Typed, Memories
  <2>3. \A q \in hold \cup Queued(queue) : q \in Buffers /\ q # b
    BY <1>3, <1>4, <1>6
  <2> QED BY <1>5, <2>1, <2>2, <2>3 DEF Agree
<1>8. PICK t : t = Write(b, words)
  OBVIOUS
<1>9. t \in TaskSet /\ t.op = "write" /\ t.buffer = b /\ t.words = words
  BY <1>8 DEF Write, TaskSet
<1>10. PICK d : /\ Plain(d) /\ Settled' = After(t, d)
                /\ Agree(d, Settled, hold \cup Queued(queue))
  BY <1>2, <1>4, <1>7, <1>8, <1>9, AppendSettles
<1>11. Settled'[b] = words /\ \A q \in hold : Settled'[q] = Settled[q]
  <2>1. \A q \in Buffers : q # b => Settled'[q] = d[q]
    BY <1>9, <1>10, AfterPlain
  <2>2. Settled'[b] = words
    <3>1. After(t, d) = [d EXCEPT ![t.buffer] = t.words]
      BY <1>9 DEF After
    <3> QED BY <1>9, <1>10, <3>1 DEF Plain
  <2>3. \A q \in hold : q \in Buffers /\ q # b
    BY <1>4, <1>6
  <2> QED BY <1>10, <2>1, <2>2, <2>3 DEF Agree
<1>12. Table /\ Table'
  <2>1. request'.mode = "session"
    BY <1>2, <1>3
  <2> QED BY <1>3, <2>1, InvTable DEF Table, HostInv, TableOK
<1>13. /\ ChangesAt(name)
       /\ BufferOf(name)' = b /\ PipelineOf(name)' = Null
  <2>1. PICK c : c = b
    OBVIOUS
  <2> QED BY <1>2, <1>12, <2>1, PutChanges
<1>14. \A n \in Names : n # name =>
          BufferOf(n)' = BufferOf(n) /\ PipelineOf(n)' = PipelineOf(n)
  BY <1>12, <1>13, OthersSame
<1>15. \A q \in held : q # BufferOf(name) => Settled'[q] = Settled[q]
  BY <1>4, <1>11
<1>16. \A q \in Pipelines :
          pipelines[q] # Null /\ q # PipelineOf(name) => pipelines'[q] = pipelines[q]
  BY <1>2 DEF PipelinesLeft
<1>17. View' = [View EXCEPT ![name] =
                   Sight(BufferOf(name)', PipelineOf(name)', Settled', pipelines')]
  BY <1>12, <1>14, <1>15, <1>16, ViewMoves
<1>18. Sight(BufferOf(name)', PipelineOf(name)', Settled', pipelines') =
          [kind |-> "buffer", data |-> words]
  BY <1>3, <1>11, <1>13 DEF Sight
<1>19. File' = File /\ Running /\ Running' /\ Reading'
  BY <1>2 DEF File, Running, Reading
<1>20. View' = [View EXCEPT ![name] = [kind |-> "buffer", data |-> words]]
  BY <1>17, <1>18
<1> QED BY <1>19, <1>20, Sets

\* `shader` is NamedStore's.
LEMMA ShaderEffect ==
    ASSUME HostAssumption, HostInv, HostInv', NEW name \in Names, NEW image \in Images,
           ShaderCommand(name, image)
    PROVE  Reading' /\ [Promise!Next]_(Promise!vars)
<1>1. PICK p \in Pipelines :
         /\ place = "session" /\ PipelinesLeft(name)[p] = Null
         /\ Put(name, Null, p)
         /\ pipelines' = [PipelinesLeft(name) EXCEPT ![p] = image]
         /\ held' = Released(name)
         /\ memory' = Kept(memory, held', queue)
         /\ UNCHANGED <<request, place, queue, output>>
  BY Zenon DEF ShaderCommand
<1>2. /\ request.mode = "session" /\ readback = Null
      /\ held \subseteq Buffers /\ memory \in Memories /\ Queued(queue) \subseteq Buffers
      /\ queue \in Seq(TaskSet) /\ Null \notin Pipelines
  BY <1>1, InSession, Constants
<1>3. PICK hold, e : hold = held' /\ e = memory'
  OBVIOUS
<1>4. hold = held \ {BufferOf(name)} /\ hold \in SUBSET Buffers
  BY <1>1, <1>2, <1>3 DEF Released
<1>5. e \in Memories /\ Agree(e, memory, hold \cup Queued(queue))
  BY <1>1, <1>2, <1>3, <1>4, KeptTyped, KeptAgrees
<1>6. \A q \in hold : Settled'[q] = Settled[q]
  <2>1. Plain(e) /\ Plain(memory) /\ hold \cup Queued(queue) \in SUBSET Buffers
    BY <1>2, <1>4, <1>5, KeptTyped
  <2>2. Agree(Memory(e, queue), Memory(memory, queue), hold \cup Queued(queue))
    BY <1>2, <1>5, <2>1, MemoryAgrees
  <2>3. Settled' = Memory(e, queue)
    BY <1>1, <1>3, SettledNext
  <2> QED BY <2>2, <2>3, SettledIs DEF Agree
<1>7. Table /\ Table'
  <2>1. request'.mode = "session"
    BY <1>1, <1>2
  <2> QED BY <1>2, <2>1, InvTable DEF Table, HostInv, TableOK
<1>8. ChangesAt(name) /\ BufferOf(name)' = Null /\ PipelineOf(name)' = p
  <2>1. PICK c : c = p
    OBVIOUS
  <2> QED BY <1>1, <1>7, <2>1, PutChanges
<1>9. \A n \in Names : n # name =>
          BufferOf(n)' = BufferOf(n) /\ PipelineOf(n)' = PipelineOf(n)
  BY <1>7, <1>8, OthersSame
<1>10. \A q \in held : q # BufferOf(name) => Settled'[q] = Settled[q]
  BY <1>4, <1>6
<1>11. /\ pipelines'[p] = image
       /\ \A q \in Pipelines :
             pipelines[q] # Null /\ q # PipelineOf(name) => pipelines'[q] = pipelines[q]
  <2>1. /\ PipelinesLeft(name) \in [Pipelines -> Images \cup {Null}]
        /\ \A q \in Pipelines : PipelinesLeft(name)[q] =
              IF q = PipelineOf(name) THEN Null ELSE pipelines[q]
    BY <1>7, PipelinesLeftTyped DEF Table
  <2> QED BY <1>1, <2>1
<1>12. View' = [View EXCEPT ![name] =
                   Sight(BufferOf(name)', PipelineOf(name)', Settled', pipelines')]
  BY <1>7, <1>9, <1>10, <1>11, ViewMoves
<1>13. Sight(BufferOf(name)', PipelineOf(name)', Settled', pipelines') =
          [kind |-> "kernel", image |-> image]
  BY <1>2, <1>8, <1>11 DEF Sight
<1>14. File' = File /\ Running /\ Running' /\ Reading'
  BY <1>1 DEF File, Running, Reading
<1>15. View' = [View EXCEPT ![name] = [kind |-> "kernel", image |-> image]]
  BY <1>12, <1>13
<1>16. Promise!SetKernel(name, image)
  BY <1>14, <1>15 DEF Promise!SetKernel, Promise!Kernel, File
<1> QED BY <1>14, <1>16 DEF Promise!Next

\* A dispatch takes effect when it is queued: its output is none of its inputs.
LEMMA DispatchEffect ==
    ASSUME HostAssumption, HostInv, NEW shader \in Names, NEW out \in Names,
           NEW j \in 0..MaxInputs, NEW ins \in [1..j -> Names],
           place = "session", PipelineOf(shader) # Null, BufferOf(out) # Null,
           \A i \in DOMAIN ins : ins[i] # out /\ BufferOf(ins[i]) # Null,
           queue' = Append(queue, RunTask(shader, out, ins)),
           UNCHANGED <<request, place, entries, pipelines, memory, output>>
    PROVE  Promise!Run(shader, out, ins)
<1>1. PICK p, h, from : /\ p = BufferOf(out) /\ h = PipelineOf(shader)
                        /\ from = [i \in DOMAIN ins |-> BufferOf(ins[i])]
  OBVIOUS
<1>2. /\ request.mode = "session" /\ held \subseteq Buffers
      /\ memory \in Memories /\ queue \in Seq(TaskSet)
  BY InSession
<1>3. Table
  BY <1>2, InvTable
<1>4. /\ p \in held /\ p \in Buffers
      /\ PipelineOf(shader) \in Pipelines /\ BufferOf(shader) = Null
      /\ DOMAIN ins = 1..j /\ DOMAIN from = 1..j
      /\ \A i \in 1..j : from[i] = BufferOf(ins[i]) /\ from[i] \in held
  BY <1>1, <1>3, DistinctHolds DEF Distinct
<1>5. PICK t : t = RunTask(shader, out, ins)
  OBVIOUS
<1>6. /\ t \in TaskSet /\ t.op = "dispatch" /\ t.buffer = p /\ t.image = pipelines[h]
      /\ t.ins = from
  BY <1>1, <1>5, RunTaskShape DEF RunTask, Dispatch
<1>7. PICK mem : mem = Settled
  OBVIOUS
<1>8. Plain(mem) /\ Settled' = After(t, mem)
  <2>1. Plain(memory) /\ Len(queue) \in Nat
    BY <1>2, KeptTyped
  <2>2. Memory(memory, Append(queue, t)) = After(t, Memory(memory, queue))
    BY <1>2, <1>6, MemoryAppend
  <2> QED BY <1>5, <1>7, <2>1, <2>2, MemoryPlain, SettledIs, SettledNext
<1> DEFINE read == [i \in 1..j |-> mem[from[i]]]
           made == Compute(pipelines[h], read, mem[p])
<1>9. Settled' = [mem EXCEPT ![p] = made]
  <2>1. [i \in DOMAIN t.ins |-> mem[t.ins[i]]] = read
    BY <1>4, <1>6
  <2>2. t.op # "write" /\ t.op # "copy"
    BY <1>6
  <2> HIDE DEF read
  <2> QED BY <1>6, <1>8, <2>1, <2>2, Zenon DEF After
<1> HIDE DEF made
<1>10. Settled'[p] = made /\ \A q \in Buffers : q # p => Settled'[q] = mem[q]
  BY <1>4, <1>8, <1>9 DEF Plain
<1>11. \A n \in Names : BufferOf(n)' = BufferOf(n) /\ PipelineOf(n)' = PipelineOf(n)
  BY HeldSame
<1>12. View' = [View EXCEPT ![out] =
                   Sight(BufferOf(out)', PipelineOf(out)', Settled', pipelines')]
  <2>1. \A q \in held : q # BufferOf(out) => Settled'[q] = Settled[q]
    BY <1>1, <1>2, <1>7, <1>10
  <2> QED BY <1>3, <1>11, <2>1, ViewMoves
<1>13. Sight(BufferOf(out)', PipelineOf(out)', Settled', pipelines') =
          [kind |-> "buffer", data |-> made]
  BY <1>1, <1>10, <1>11 DEF Sight
<1>14. /\ View[out] = [kind |-> "buffer", data |-> mem[p]]
       /\ \A i \in 1..j : View[ins[i]] = [kind |-> "buffer", data |-> mem[from[i]]]
       /\ View[shader] = [kind |-> "kernel", image |-> pipelines[h]]
  <2>1. \A n \in Names : View[n] = Sight(BufferOf(n), PipelineOf(n), Settled, pipelines)
    BY ViewIs
  <2> QED BY <1>1, <1>4, <1>7, <2>1 DEF Sight
<1>15. /\ \A i \in 1..j : View[ins[i]].data = mem[from[i]] /\ View[ins[i]].kind = "buffer"
       /\ View[out].data = mem[p] /\ View[shader].image = pipelines[h]
       /\ View[out].kind = "buffer" /\ View[shader].kind = "kernel"
  <2>1. ASSUME NEW i \in 1..j
        PROVE  View[ins[i]].data = mem[from[i]] /\ View[ins[i]].kind = "buffer"
    <3>1. View[ins[i]] = [kind |-> "buffer", data |-> mem[from[i]]]
      BY <1>14
    <3> QED BY <3>1
  <2>2. /\ View[out].data = mem[p] /\ View[shader].image = pipelines[h]
        /\ View[out].kind = "buffer" /\ View[shader].kind = "kernel"
    BY <1>14
  <2> QED BY <2>1, <2>2
<1>16. Promise!IsKernel(shader) /\ Promise!IsBuffer(out)
  BY <1>15 DEF Promise!IsKernel, Promise!IsBuffer
<1>17. \A i \in DOMAIN ins : ins[i] # out /\ Promise!IsBuffer(ins[i])
  BY <1>4, <1>15, Zenon DEF Promise!IsBuffer
<1>18. [i \in DOMAIN ins |-> View[ins[i]].data] = read
  BY <1>4, <1>15, Zenon
<1> HIDE DEF read
<1>19. made = Compute(View[shader].image, [i \in DOMAIN ins |-> View[ins[i]].data], View[out].data)
  BY <1>15, <1>18, Zenon DEF made
<1>20. View' = [View EXCEPT ![out] = Promise!Buffer(
                  Compute(View[shader].image, [i \in DOMAIN ins |-> View[ins[i]].data],
                          View[out].data))]
  BY <1>12, <1>13, <1>19, Zenon DEF Promise!Buffer
<1>21. File' = File /\ Running' = Running
  BY DEF File, Running
<1> QED BY <1>16, <1>17, <1>20, <1>21, Zenon DEF Promise!Run, File

\* `run` gives its output's name what the shader will compute.
LEMMA RunEffect ==
    ASSUME HostAssumption, HostInv, NEW shader \in Names, NEW workgroups, NEW out \in Names,
           NEW j \in 0..MaxInputs, NEW ins \in [1..j -> Names],
           RunCommand(shader, workgroups, out, ins)
    PROVE  Reading' /\ [Promise!Next]_(Promise!vars)
<1>1. /\ place = "session" /\ PipelineOf(shader) # Null /\ BufferOf(out) # Null
      /\ \A i \in DOMAIN ins : ins[i] # out /\ BufferOf(ins[i]) # Null
      /\ UNCHANGED <<request, place, entries, pipelines, memory, output>>
  BY DEF RunCommand, table
<1>2. Reading' /\ Running /\ Running' /\ File' = File
  BY <1>1 DEF Reading, Running, File
<1>3. CASE workgroups = 0
  <2>1. queue' = queue
    BY <1>3 DEF RunCommand
  <2>2. Settled' = Settled
    BY <1>1, <2>1, QuietSettles
  <2>3. Table
    BY <1>1, InSession, InvTable
  <2>4. View' = View
    BY <1>1, <2>2, <2>3, ViewStays
  <2> QED BY <1>2, <2>4, Invisible
<1>4. CASE workgroups # 0
  <2>1. queue' = Append(queue, RunTask(shader, out, ins))
    BY <1>4 DEF RunCommand, RunTask
  <2>2. Promise!Run(shader, out, ins)
    BY <1>1, <2>1, DispatchEffect
  <2>3. Promise!Next
    BY <1>2, <2>2 DEF Promise!Next
  <2> QED BY <1>2, <2>3
<1> QED BY <1>3, <1>4

\* The readback buffer will hold what the name's buffer will.
LEMMA ReadEffect ==
    ASSUME HostAssumption, HostInv, HostInv', NEW name \in Names, ReadCommand(name)
    PROVE  Reading' /\ [Promise!Next]_(Promise!vars)
<1>1. PICK p : p = BufferOf(name)
  OBVIOUS
<1>2. PICK b \in Buffers :
         /\ p # Null /\ place = "session" /\ place' = "map"
         /\ memory[b] = Null
         /\ memory' = [memory EXCEPT ![b] = Zeros(Len(memory[p]))]
         /\ queue' = Append(queue, CopyTo(b, p))
         /\ readback' = b
         /\ UNCHANGED <<request, entries, pipelines, output>>
  BY <1>1, Zenon DEF ReadCommand, At, table
<1>3. /\ request.mode = "session" /\ held \in SUBSET Buffers
      /\ memory \in Memories /\ queue \in Seq(TaskSet) /\ Queued(queue) \subseteq Buffers
      /\ \A q \in held \cup Queued(queue) : memory[q] # Null
  BY <1>2, InSession
<1>4. Table
  BY <1>3, InvTable
<1>5. p \in held /\ p \in Buffers /\ b \notin held \cup Queued(queue) /\ b # p
  BY <1>1, <1>2, <1>3, <1>4, DistinctHolds DEF Distinct
<1>6. memory' \in Memories /\ Agree(memory', memory, held \cup Queued(queue))
  <2>1. \A q \in Buffers : q # b => memory'[q] = memory[q]
    BY <1>2, <1>3 DEF Memories
  <2>2. \A q \in held \cup Queued(queue) : q \in Buffers /\ q # b
    BY <1>3, <1>5
  <2>3. memory' \in Memories
    BY DEF HostInv, Typed, Memories
  <2> QED BY <2>1, <2>2, <2>3 DEF Agree
<1>7. PICK t : t = CopyTo(b, p)
  OBVIOUS
<1>8. t \in TaskSet /\ t.op = "copy" /\ t.buffer = b /\ t.from = p
  <2>1. t = [op |-> "copy", buffer |-> b, from |-> p]
    BY <1>7 DEF CopyTo
  <2>2. t \in [op : {"copy"}, buffer : Buffers, from : Buffers]
    BY <1>5, <2>1
  <2> QED BY <2>1, <2>2 DEF TaskSet
<1>9. PICK d : /\ Plain(d) /\ Settled' = After(t, d)
               /\ Agree(d, Settled, held \cup Queued(queue))
  BY <1>2, <1>3, <1>6, <1>7, <1>8, AppendSettles
<1>10. Settled'[b] = d[p] /\ \A q \in held : Settled'[q] = d[q] /\ d[q] = Settled[q]
  <2>1. \A q \in Buffers : q # b => Settled'[q] = d[q]
    BY <1>8, <1>9, AfterPlain
  <2>2. Settled'[b] = d[p]
    <3>1. After(t, d) = [d EXCEPT ![t.buffer] = d[t.from]]
      BY <1>8 DEF After
    <3> QED BY <1>8, <1>9, <3>1 DEF Plain
  <2>3. \A q \in held : q \in Buffers /\ q # b
    BY <1>3, <1>5
  <2> QED BY <1>9, <2>1, <2>2, <2>3 DEF Agree
<1>11. View' = View
  <2>1. \A n \in Names : BufferOf(n) # Null => Settled'[BufferOf(n)] = Settled[BufferOf(n)]
    BY <1>4, <1>10, DistinctHolds DEF Distinct
  <2> QED BY <1>2, <1>4, <2>1, ViewStays
<1>12. Reading'
  <2>1. BufferOf(name)' = p
    BY <1>1, <1>2, HeldSame
  <2>2. Settled'[b] = Settled'[p]
    BY <1>5, <1>10
  <2> QED BY <1>2, <2>1, <2>2 DEF Reading
<1>13. File' = File /\ Running /\ Running'
  BY <1>2 DEF File, Running
<1> QED BY <1>11, <1>12, <1>13, Invisible

\* `read` writes what the name's buffer held when the command was given.
LEMMA WriteFileEffect ==
    ASSUME HostAssumption, HostInv, Reading, WriteFile
    PROVE  Reading' /\ [Promise!Next]_(Promise!vars)
<1>1. /\ request.mode = "session" /\ done /\ place = "map" /\ place' = "session"
      /\ output' = memory[readback]
      /\ held' = held \ {readback} /\ memory' = Kept(memory, held', queue)
      /\ UNCHANGED <<request, entries, pipelines, queue>>
  BY DEF WriteFile, At, table
<1>2. queue = <<>> /\ Table /\ held \subseteq Buffers /\ memory \in Memories
  BY <1>1, InvTable DEF HostInv, Waits, Typed, Memories
<1>3. Settled = memory /\ Settled' = memory'
  BY <1>1, <1>2, IdleSettles
<1>4. PICK n \in Names : BufferOf(n) # Null /\ Settled[readback] = Settled[BufferOf(n)]
  BY <1>1 DEF Reading
<1>5. \A q \in held : q # readback => Settled'[q] = Settled[q]
  <2>1. PICK h : h = held'
    OBVIOUS
  <2>2. \A q \in Buffers : memory'[q] = IF q \in held' \cup Queued(queue) THEN memory[q] ELSE Null
    BY <1>1, <1>2, <2>1, KeptTyped
  <2>3. \A q \in held : q # readback => q \in Buffers /\ q \in held'
    BY <1>1, <1>2
  <2> QED BY <1>3, <2>2, <2>3
<1>6. View' = View
  <2>1. \A m \in Names : BufferOf(m) # Null => Settled'[BufferOf(m)] = Settled[BufferOf(m)]
    BY <1>2, <1>5, DistinctHolds DEF Distinct
  <2> QED BY <1>1, <1>2, <2>1, ViewStays
<1>7. File' = Settled[BufferOf(n)]
  BY <1>1, <1>3, <1>4 DEF File
<1>8. View[n] = [kind |-> "buffer", data |-> Settled[BufferOf(n)]]
  BY <1>4, ViewIs DEF Sight
<1>9. Running /\ Running' /\ Reading'
  BY <1>1 DEF Running, Reading
<1>10. Promise!Read(n)
  BY <1>6, <1>7, <1>8, <1>9 DEF Promise!Read, Promise!IsBuffer, File
<1> QED BY <1>9, <1>10 DEF Promise!Next

\* `free` is NamedStore's, with tasks that use the buffer still queued.
LEMMA FreeEffect ==
    ASSUME HostAssumption, HostInv, HostInv', NEW name \in Names, FreeCommand(name)
    PROVE  Reading' /\ [Promise!Next]_(Promise!vars)
<1>1. /\ place = "session" /\ BufferOf(name) # Null
      /\ entries' = Without(find_entry(name))
      /\ held' = held \ {BufferOf(name)}
      /\ memory' = Kept(memory, held', queue)
      /\ UNCHANGED <<request, place, pipelines, queue, output>>
  BY DEF FreeCommand, Released
<1>2. /\ request.mode = "session" /\ held \subseteq Buffers
      /\ memory \in Memories /\ queue \in Seq(TaskSet) /\ Queued(queue) \subseteq Buffers
  BY <1>1, InSession
<1>3. Table /\ Table'
  <2>1. request'.mode = "session"
    BY <1>1, <1>2
  <2> QED BY <1>2, <2>1, InvTable DEF Table, HostInv, TableOK
<1>4. Known(name)
  BY <1>1, <1>3, HeldByName DEF Table
<1>5. ChangesAt(name) /\ BufferOf(name)' = Null /\ PipelineOf(name)' = Null
  BY <1>1, <1>3, <1>4, WithoutChanges
<1>6. PICK hold, e : hold = held' /\ e = memory'
  OBVIOUS
<1>7. \A q \in held : q # BufferOf(name) => Settled'[q] = Settled[q]
  <2>1. hold \in SUBSET Buffers /\ hold = held \ {BufferOf(name)}
    BY <1>1, <1>2, <1>6
  <2>2. e \in Memories /\ Agree(e, memory, hold \cup Queued(queue))
    BY <1>1, <1>2, <1>6, <2>1, KeptTyped, KeptAgrees
  <2>3. Plain(e) /\ Plain(memory) /\ hold \cup Queued(queue) \in SUBSET Buffers
    BY <1>2, <2>1, <2>2, KeptTyped
  <2>4. Agree(Memory(e, queue), Memory(memory, queue), hold \cup Queued(queue))
    BY <1>2, <2>2, <2>3, MemoryAgrees
  <2>5. Settled' = Memory(e, queue)
    BY <1>1, <1>6, SettledNext
  <2> QED BY <2>1, <2>4, <2>5, SettledIs DEF Agree
<1>8. \A n \in Names : n # name =>
         BufferOf(n)' = BufferOf(n) /\ PipelineOf(n)' = PipelineOf(n)
  BY <1>3, <1>5, OthersSame
<1>9. View' = [View EXCEPT ![name] =
                  Sight(BufferOf(name)', PipelineOf(name)', Settled', pipelines')]
  BY <1>1, <1>3, <1>7, <1>8, ViewMoves
<1>10. View' = [View EXCEPT ![name] = Promise!Nothing]
  BY <1>5, <1>9 DEF Sight, Promise!Nothing
<1>11. View[name] # Promise!Nothing
  <2>1. View[name] = [kind |-> "buffer", data |-> Settled[BufferOf(name)]]
    BY <1>1, ViewIs DEF Sight
  <2>2. View[name].kind = "buffer" /\ Promise!Nothing.kind = "nothing"
    BY <2>1 DEF Promise!Nothing
  <2> QED BY <2>2
<1>12. File' = File /\ Running /\ Running' /\ Reading'
  BY <1>1 DEF File, Running, Reading
<1>13. Promise!Free(name)
  BY <1>10, <1>11, <1>12 DEF Promise!Free, File
<1> QED BY <1>12, <1>13 DEF Promise!Next

\* The device takes a task: what the queue leads to stays what it was.
LEMMA DeviceEffect ==
    ASSUME HostAssumption, HostInv, Reading, request.mode = "session", DeviceStep
    PROVE  Reading' /\ [Promise!Next]_(Promise!vars)
<1>1. UNCHANGED <<request, place, entries, pipelines, held, readback, output>>
  BY DEF DeviceStep, table
<1>2. \A q \in held : Settled'[q] = Settled[q]
  BY DeviceSettles
<1>3. Table
  BY InvTable
<1>4. \A n \in Names : BufferOf(n) # Null => Settled'[BufferOf(n)] = Settled[BufferOf(n)]
  BY <1>2, <1>3, DistinctHolds DEF Distinct
<1>5. View' = View
  BY <1>1, <1>3, <1>4, ViewStays
<1>6. Reading'
  <2> SUFFICES ASSUME place = "map" PROVE Reading'
    BY <1>1 DEF Reading
  <2>1. PICK n \in Names : BufferOf(n) # Null /\ Settled[readback] = Settled[BufferOf(n)]
    BY DEF Reading
  <2>2. readback \in held
    BY DEF HostInv, TableOK
  <2>3. BufferOf(n)' = BufferOf(n)
    BY <1>1, HeldSame
  <2>4. BufferOf(n)' # Null /\ Settled'[readback'] = Settled'[BufferOf(n)']
    BY <1>1, <1>2, <1>4, <2>1, <2>2, <2>3
  <2> QED BY <2>4 DEF Reading
<1>7. File' = File /\ Running' = Running
  BY <1>1 DEF File, Running
<1> QED BY <1>5, <1>6, <1>7, Invisible

\* Steps that leave the table and the device.
LEMMA QuietEffect ==
    ASSUME HostInv, Reading, request.mode = "session",
           UNCHANGED <<request, entries, pipelines, memory, queue, readback, output>>,
           \/ place' = place
           \/ Running /\ place' # "map"
    PROVE  Reading' /\ [Promise!Next]_(Promise!vars)
<1>1. Settled' = Settled
  BY QuietSettles
<1>2. View' = View
  BY <1>1, InvTable, ViewStays
<1>3. Reading'
  <2>1. CASE place' # "map"
    BY <2>1 DEF Reading
  <2>2. CASE place' = "map"
    <3>1. place = "map"
      BY <2>2
    <3>2. PICK n \in Names : BufferOf(n) # Null /\ Settled[readback] = Settled[BufferOf(n)]
      BY <3>1 DEF Reading
    <3>3. BufferOf(n)' = BufferOf(n)
      BY HeldSame
    <3>4. BufferOf(n)' # Null /\ Settled'[readback'] = Settled'[BufferOf(n)']
      BY <1>1, <3>2, <3>3
    <3> QED BY <3>4 DEF Reading
  <2> QED BY <2>1, <2>2
<1>4. File' = File
  BY DEF File
<1>5. CASE Running' <=> Running
  BY <1>2, <1>3, <1>4, <1>5, Invisible
<1>6. CASE ~(Running' <=> Running)
  <2>1. Running /\ ~Running'
    BY <1>6 DEF Running
  <2> QED BY <1>2, <1>3, <1>4, <2>1, Ends
<1> QED BY <1>5, <1>6

\* A process that serves no session never has a table.
LEMMA OtherEffect ==
    ASSUME HostInv, HostInv', request.mode # "session", request' = request,
           Running' => Running
    PROVE  Reading' /\ [Promise!Next]_(Promise!vars)
<1>1. entries = <<>> /\ entries' = <<>>
  BY DEF HostInv, Unused
<1>2. View' = View
  BY <1>1, ViewEmpty
<1>3. File' = File /\ Reading'
  BY DEF File, Reading
<1> QED BY <1>2, <1>3, Invisible, Ends

\* Every command is a step of NamedStore.
LEMMA CommandEffect ==
    ASSUME HostAssumption, HostInv, HostInv', Reading, Command
    PROVE  Reading' /\ [Promise!Next]_(Promise!vars)
<1>1. ASSUME NEW n \in Names, NEW s \in Specs, StoreCommand(n, parse_input(s))
      PROVE  Reading' /\ [Promise!Next]_(Promise!vars)
  <2>1. PICK w : w = parse_input(s)
    OBVIOUS
  <2>2. w \in Given /\ w \in Contents /\ StoreCommand(n, w)
    BY <1>1, <2>1, SpecContents DEF Given
  <2> QED BY <2>2, StoreEffect
<1>2. ASSUME NEW n \in Names, NEW o \in Outputs, StoreCommand(n, OutputWords(o))
      PROVE  Reading' /\ [Promise!Next]_(Promise!vars)
  <2>1. PICK w : w = OutputWords(o)
    OBVIOUS
  <2>2. w \in Given /\ w \in Contents /\ StoreCommand(n, w)
    BY <1>2, <2>1, SpecContents DEF Given
  <2> QED BY <2>2, StoreEffect
<1>3. ASSUME NEW n \in Names, NEW m \in Images, ShaderCommand(n, m)
      PROVE  Reading' /\ [Promise!Next]_(Promise!vars)
  BY <1>3, ShaderEffect
<1>4. ASSUME NEW s \in Names, NEW o \in Names, NEW w \in 0..1, NEW j \in 0..MaxInputs,
             NEW ins \in [1..j -> Names], RunCommand(s, w, o, ins)
      PROVE  Reading' /\ [Promise!Next]_(Promise!vars)
  BY <1>4, RunEffect
<1>5. ASSUME NEW n \in Names, ReadCommand(n)
      PROVE  Reading' /\ [Promise!Next]_(Promise!vars)
  BY <1>5, ReadEffect
<1>6. ASSUME NEW n \in Names, FreeCommand(n)
      PROVE  Reading' /\ [Promise!Next]_(Promise!vars)
  BY <1>6, FreeEffect
<1>7. CASE QuitCommand
  <2>1. /\ request.mode = "session" /\ Running /\ place' # "map"
        /\ UNCHANGED <<request, entries, pipelines, memory, queue, readback, output>>
    BY <1>7, InSession DEF QuitCommand, At, Running, table, device
  <2> QED BY <2>1, QuietEffect
<1> QED BY <1>1, <1>2, <1>3, <1>4, <1>5, <1>6, <1>7 DEF Command

\* Every step of the process is a step of the store, or is invisible.
LEMMA StepEffect ==
    ASSUME HostAssumption, HostInv, HostInv', Reading, [Next]_vars
    PROVE  Reading' /\ [Promise!Next]_(Promise!vars)
<1>1. request' = request /\ (Running' => Running)
  <2>1. CASE Proceed
    BY <2>1 DEF Proceed, Usage, RequestAdapter, RequestDevice, Opened, info, RejectRun, run,
                PrintOutput, WriteFile, At, Running
  <2>2. CASE Events \/ DeviceStep \/ DeviceLost \/ Die \/ UNCHANGED vars
    BY <2>2 DEF Events, Callback, CallbackFails, DeviceStep, DeviceLost, Die, vars, Running
  <2>3. CASE Command
    BY <2>3 DEF Command, StoreCommand, ShaderCommand, RunCommand, ReadCommand, FreeCommand,
                QuitCommand, At, Running
  <2> QED BY <2>1, <2>2, <2>3 DEF Next, Ended
<1>2. CASE request.mode # "session"
  BY <1>1, <1>2, OtherEffect
<1>3. CASE request.mode = "session"
  <2> USE <1>3
  <2>1. CASE Command
    BY <2>1, CommandEffect
  <2>2. CASE DeviceStep
    BY <2>2, DeviceEffect
  <2>3. CASE WriteFile
    BY <2>3, WriteFileEffect
  <2>4. CASE Usage \/ RequestAdapter \/ RequestDevice \/ Opened \/ info \/ RejectRun
    <3>1. /\ Running /\ place' # "map"
          /\ UNCHANGED <<request, entries, pipelines, memory, queue, readback, output>>
      BY <2>4 DEF Usage, RequestAdapter, RequestDevice, Opened, info, RejectRun, At,
                  Running, table, device
    <3> QED BY <3>1, QuietEffect
  <2>5. CASE Events \/ DeviceLost \/ Die \/ UNCHANGED vars
    <3>1. /\ UNCHANGED <<request, entries, pipelines, memory, queue, readback, output>>
          /\ place' = place \/ (Running /\ place' # "map")
      BY <2>5 DEF Events, Callback, CallbackFails, DeviceLost, Die, vars, table, device
    <3> QED BY <3>1, QuietEffect
  <2>6. ~run /\ ~PrintOutput
    BY DEF run, PrintOutput, HostInv, Waits
  <2> QED BY <2>1, <2>2, <2>3, <2>4, <2>5, <2>6 DEF Next, Proceed, Ended
<1> QED BY <1>2, <1>3

\* A process begins with the invariant and as NamedStore does.
LEMMA StartsWork ==
    ASSUME HostAssumption, Starts
    PROVE  WorkInv /\ Promise!Init
<1>1. /\ HostInv /\ place # "map" /\ place # "exited" /\ Running
      /\ output = <<>> /\ entries = <<>>
  BY StartsInv DEF Starts, Empty, Running
<1>2. Printing /\ Reading
  BY <1>1 DEF Printing, Reading
<1>3. Promise!Init
  BY <1>1, ViewEmpty DEF Promise!Init, Promise!Nothing
<1> QED BY <1>1, <1>2, <1>3 DEF WorkInv

\* The invariant of every process, and what follows from it.
LEMMA StepWork ==
    ASSUME HostAssumption, WorkInv, [Next]_vars
    PROVE  WorkInv' /\ [Promise!Next]_(Promise!vars)
<1>1. HostInv'
  BY StepInv DEF WorkInv
<1> QED BY <1>1, PrintingStep, StepEffect DEF WorkInv

\* The invariant implies the properties of a state.
LEMMA InvWorks ==
    ASSUME HostAssumption, WorkInv
    PROVE  OneOwner /\ RunPrints
BY InvOneOwner, InvRunPrints DEF WorkInv

\* An initial state is the start of a process.
LEMMA InitStarts == Init => Starts
BY DEF Init, Starts

=============================================================================
