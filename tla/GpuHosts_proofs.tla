---------------------------- MODULE GpuHosts_proofs ----------------------------
(***************************************************************************)
(* The two GPU hosts.  `run` of the CUDA host prints what its launch       *)
(* computed, for every command line, size of memory and number of arrays   *)
(* and handles.  What WebGpuHost_proofs shows of the WebGPU host holds of  *)
(* the composition: its lemmas are instantiated as the composition does it *)
(* with its module, and the two copies of a definition say the same.       *)
(***************************************************************************)
EXTENDS GpuHosts, SequenceTheorems, TLAPS

RunPlaces == {"main", "run", "output", "upload", "launch", "fetch", "print", "free"}

\* The places at which the output's words are allocated, and those at which every
\* input and the output have their buffer.
Filled == {"upload", "launch", "fetch", "print", "free"}
Uploads == {"launch", "fetch", "print", "free"}

\* What input i is, and what the output is at first and at last.
InputWords(i) == parse_buffer(request.inputs[i])
Words0 == Initial(request.output)

\* The tasks of `run` in the order in which it queues them, and how many it has
\* queued so far.
Tasks ==
    [i \in Nat |->
       CASE i <= InputCount + 1 -> Copy(Buffer(i), locals.words[i])
         [] i = InputCount + 2 -> Launch(locals.module, OutputBuffer,
                                         [j \in 1..InputCount |-> Buffer(j)])
         [] OTHER -> Fetch(OutputBuffer, locals.output)]

Issued == CASE place = "upload" -> Uploaded
            [] place = "launch" -> InputCount + 1
            [] place = "fetch" -> InputCount + 2
            [] OTHER -> InputCount + 3

\* The tasks the device has taken.
Taken == Issued - Len(stream)

\* The variables of `run`.
RunTyped ==
    /\ place \in RunPlaces
    /\ pc \in {"command", "exited", "failed"}
    /\ device \in [Pointers -> Contents \cup {Null}]
    /\ host \in [Arrays -> Contents \cup {Null}]
    /\ modules \in [Handles -> {Null, request.image}]
    /\ fault \in BOOLEAN
    /\ locals \in [module : Handles \cup {Null}, output : Arrays \cup {Null},
                   words : Seq(Arrays), buffers : Seq(Pointers)]

\* Before its output is allocated, `run` has nothing but its module.
Starting ==
    /\ place \notin Filled =>
          /\ \A p \in Pointers : device[p] = Null
          /\ \A a \in Arrays : host[a] = Null
          /\ stream = <<>>
          /\ locals.buffers = <<>> /\ locals.words = <<>>
          /\ pc # "exited"
    /\ place \in {"main", "run"} => \A h \in Handles : modules[h] = Null
    /\ place = "output" => /\ locals.module \in Handles
                           /\ modules[locals.module] = request.image
                           /\ \A h \in Handles : modules[h] # Null => h = locals.module
    /\ place # "free" => printed = <<>> /\ pc # "exited"

\* What `run` has allocated, each piece for one purpose.
Allocated ==
    /\ locals.module \in Handles
    /\ modules[locals.module] = request.image
    /\ \A h \in Handles : modules[h] # Null => h = locals.module
    /\ locals.output \in Arrays
    /\ Len(locals.words) = Uploaded
    /\ Uploaded <= InputCount + 1
    /\ place = "upload" => Uploaded <= InputCount
    /\ place \in Uploads => Uploaded = InputCount + 1
    /\ \A i, j \in 1..Uploaded : Buffer(i) = Buffer(j) => i = j
    /\ \A i, j \in 1..Uploaded : locals.words[i] = locals.words[j] => i = j
    /\ \A i \in 1..Uploaded : locals.words[i] = locals.output <=> i = InputCount + 1
    /\ \A p \in Pointers : device[p] # Null <=> \E i \in 1..Uploaded : Buffer(i) = p
    /\ \A a \in Arrays :
          host[a] # Null <=> a = locals.output \/ \E i \in 1..Uploaded : locals.words[i] = a

\* The stream is what is left of the tasks.
Left(s, n, tasks) ==
    /\ Len(s) \in 0..n
    /\ s = [k \in 1..Len(s) |-> tasks[(n - Len(s)) + k]]

Stream == Left(stream, Issued, Tasks)

\* What the arrays and the buffers hold, by the tasks the device has taken.
Holding ==
    /\ ~Bad(request.output)
    /\ \A i \in 1..Uploaded : i <= InputCount =>
          /\ ~Bad(request.inputs[i])
          /\ host[locals.words[i]] = InputWords(i)
          /\ i <= Taken => device[Buffer(i)] = InputWords(i)
    /\ host[locals.output] = IF Taken = InputCount + 3 THEN Result ELSE Words0
    /\ Taken = InputCount + 1 => device[OutputBuffer] = Words0
    /\ Taken >= InputCount + 2 => device[OutputBuffer] = Result

\* `run` has printed what its launch computed, and given everything back.
Finished ==
    /\ printed = Printed(Result)
    /\ Result \in Contents
    /\ pc = "exited" => /\ \A p \in Pointers : device[p] = Null
                        /\ \A a \in Arrays : host[a] = Null
                        /\ \A h \in Handles : modules[h] = Null

RunInv ==
    /\ request \in Requests \cup {[mode |-> "session"]}
    /\ request.mode = "run" =>
          /\ RunTyped
          /\ Starting
          /\ place \in Filled /\ pc # "exited" => Allocated /\ Stream /\ Holding
          /\ place = "free" => Finished

-----------------------------------------------------------------------------
(* The command line does not change. *)

\* From the output's allocation to the end.
Holds == place \in Filled /\ pc # "exited"

\* What a `run` has been given.
LEMMA Shape ==
    ASSUME SessionAssumption, RequestsAssumption, RunInv, request.mode = "run"
    PROVE  /\ request \in Requests
           /\ InputCount \in Nat
           /\ ~Bad(request.output) => Words0 \in Contents
           /\ \A i \in 1..InputCount :
                 ~Bad(request.inputs[i]) => InputWords(i) \in Contents
           /\ Null \notin Contents /\ Null \notin Pointers /\ Null \notin Arrays
<1>1. request \in Requests
  BY DEF RunInv
<1> QED BY <1>1 DEF RequestsAssumption, SessionAssumption, InputCount, Words0, InputWords

\* The values of a command line stay while it does.
LEMMA SameRequest ==
    ASSUME request' = request
    PROVE  /\ InputCount' = InputCount
           /\ Words0' = Words0
           /\ Result' = Result
           /\ \A i : InputWords(i)' = InputWords(i)
BY DEF InputCount, Words0, Result, InputWords

\* What the kernel computes is contents.
LEMMA ResultIs ==
    ASSUME SessionAssumption, RequestsAssumption, RunInv, request.mode = "run",
           ~Bad(request.output), \A i \in 1..InputCount : ~Bad(request.inputs[i])
    PROVE  Result \in Contents
<1> DEFINE ins == [i \in 1..InputCount |-> InputWords(i)]
<1>1. ins \in [1..Len(request.inputs) -> Contents]
  BY Shape DEF InputCount
<1>2. Compute(request.image, ins, Words0) \in Contents
  BY <1>1, Shape DEF RequestsAssumption
<1>3. Result = Compute(request.image, ins, Words0)
  BY DEF Result, InputWords, Words0
<1> QED BY <1>2, <1>3

-----------------------------------------------------------------------------
(* Steps that leave everything but where the host is. *)

Rest == UNCHANGED <<device, modules, host, stream, fault, request, place, locals, printed>>

\* A step that changes only where the process is keeps the invariant.
LEMMA Rests ==
    ASSUME RunInv, Rest, pc' = pc \/ (pc' = "failed" /\ Running)
    PROVE  RunInv'
<1> SUFFICES ASSUME request.mode = "run"
             PROVE  RunInv'
  BY DEF RunInv, Rest
<1> USE DEF Rest
<1>1. RunTyped' /\ Starting'
  BY DEF RunInv, RunTyped, Starting
<1>2. (place = "free" => Finished)'
  BY SameRequest DEF RunInv, Finished
<1>3. CASE Holds
  <2>1. Allocated /\ Stream /\ Holding
    BY <1>3 DEF RunInv, Holds
  <2>2. Allocated'
    BY <2>1 DEF Allocated, Uploaded, InputCount, Buffer
  <2>3. /\ Taken' = Taken /\ Issued' = Issued /\ Uploaded' = Uploaded
        /\ Tasks' = Tasks
        /\ \A i : Buffer(i)' = Buffer(i)
        /\ OutputBuffer' = OutputBuffer
    BY DEF Taken, Issued, Uploaded, Tasks, InputCount, Buffer, OutputBuffer, Copy, Launch, Fetch
  <2>4. Stream'
    BY <2>1, <2>3 DEF Stream
  <2>5. Holding'
    BY <2>1, <2>3, SameRequest DEF Holding
  <2> QED BY <1>1, <1>2, <2>2, <2>4, <2>5 DEF RunInv
<1>4. CASE ~Holds
  <2>1. ~Holds'
    BY <1>4 DEF Running, Holds
  <2> QED BY <1>1, <1>2, <2>1 DEF RunInv, Holds
<1> QED BY <1>3, <1>4

-----------------------------------------------------------------------------
(* The steps of `run`. *)

\* Opening the device keeps the invariant.
LEMMA OpenStep ==
    ASSUME RunInv, request.mode = "run", open_device, request' = request
    PROVE  RunInv'
<1> USE DEF open_device, At, vars
<1>1. RunTyped' /\ Starting'
  BY DEF RunInv, RunTyped, Starting, RunPlaces, Filled
<1>2. place' = "run"
  OBVIOUS
<1> QED BY <1>1, <1>2 DEF RunInv, Filled

\* Loading the image keeps the invariant.
LEMMA LoadStep ==
    ASSUME SessionAssumption, RunInv, request.mode = "run", LoadImage, request' = request
    PROVE  RunInv'
<1> USE DEF LoadImage, At
<1>1. place = "run" /\ place' = "output"
  OBVIOUS
<1>2. PICK h \in Handles : /\ modules' = [modules EXCEPT ![h] = request.image]
                           /\ locals' = [locals EXCEPT !.module = h]
  OBVIOUS
<1>3. RunTyped /\ Starting
  BY DEF RunInv
<1>4. RunTyped'
  BY <1>1, <1>2, <1>3 DEF RunTyped, RunPlaces
<1>5. locals' = [locals EXCEPT !.module = h]
  BY <1>2
<1>6. Starting'
  BY <1>1, <1>2, <1>3, <1>5 DEF Starting, RunTyped, Filled
<1> QED BY <1>1, <1>4, <1>6 DEF RunInv, Filled

\* The output's buffer is new, and its fill is the first task.
LEMMA MakeStep ==
    ASSUME SessionAssumption, RequestsAssumption, RunInv, request.mode = "run", MakeOutput,
           request' = request
    PROVE  RunInv'
<1> USE DEF MakeOutput, At
<1>1. /\ place = "output" /\ place' = "upload" /\ pc' = pc /\ stream' = stream
      /\ device' = device /\ modules' = modules /\ printed' = printed /\ fault' = fault
      /\ ~Bad(request.output)
  OBVIOUS
<1>2. PICK a \in Arrays : /\ host[a] = Null
                          /\ host' = [host EXCEPT ![a] = Words0]
                          /\ locals' = [locals EXCEPT !.output = a]
  BY DEF Words0
<1>3. RunTyped /\ Starting
  BY DEF RunInv
<1>4. RunTyped'
  BY <1>1, <1>2, <1>3, Shape DEF RunTyped, RunPlaces
<1>5. Starting'
  BY <1>1, <1>3 DEF Starting, Filled
<1>6. /\ locals'.output = a /\ locals'.module = locals.module
      /\ locals'.buffers = <<>> /\ locals'.words = <<>>
  BY <1>1, <1>2, <1>3 DEF Starting, Filled, RunTyped
<1>7. Uploaded' = 0 /\ stream' = <<>> /\ Issued' = 0 /\ Taken' = 0
  BY <1>1, <1>3, <1>6 DEF Uploaded, Starting, Filled, Issued, Taken
<1>11. InputCount' = InputCount /\ InputCount \in Nat /\ Words0' = Words0
       /\ Words0 \in Contents /\ Null \notin Contents
  BY <1>1, Shape, SameRequest
<1>12. /\ 1..Uploaded' = {}
       /\ \A p \in Pointers : device[p] = Null
       /\ \A b \in Arrays : host'[b] # Null <=> b = a
  BY <1>1, <1>2, <1>3, <1>7, <1>11 DEF RunTyped, Starting, Filled
<1>13. /\ locals.module \in Handles
       /\ modules[locals.module] = request.image
       /\ \A h \in Handles : modules[h] # Null => h = locals.module
  BY <1>1, <1>3 DEF Starting
<1>8. Allocated'
  BY <1>1, <1>2, <1>6, <1>7, <1>11, <1>12, <1>13 DEF Allocated, Uploads
<1>9. Stream'
  <2>1. Left(<<>>, 0, Tasks')
    BY DEF Left
  <2> QED BY <1>7, <2>1 DEF Stream
<1>14. host'[a] = Words0
  BY <1>2, <1>3 DEF RunTyped
<1>10. Holding'
  BY <1>1, <1>6, <1>7, <1>11, <1>12, <1>14, SameRequest DEF Holding
<1> QED BY <1>1, <1>4, <1>5, <1>8, <1>9, <1>10 DEF RunInv, Filled

\* The tasks one by one.
TaskList ==
    InputCount \in Nat =>
        /\ \A i \in 1..InputCount + 1 : Tasks[i] = Copy(Buffer(i), locals.words[i])
        /\ Tasks[InputCount + 2] = Launch(locals.module, OutputBuffer,
                                          [j \in 1..InputCount |-> Buffer(j)])
        /\ Tasks[InputCount + 3] = Fetch(OutputBuffer, locals.output)

\* The stream is what is left of the row of tasks.
LEMMA ListsTasks == TaskList
<1> SUFFICES ASSUME InputCount \in Nat
             PROVE  TaskList
  BY DEF TaskList
<1>1. \A i \in 1..InputCount + 1 : Tasks[i] = Copy(Buffer(i), locals.words[i])
  BY DEF Tasks
<1>2. Tasks[InputCount + 2] = Launch(locals.module, OutputBuffer,
                                     [j \in 1..InputCount |-> Buffer(j)])
  BY DEF Tasks
<1>3. Tasks[InputCount + 3] = Fetch(OutputBuffer, locals.output)
  BY DEF Tasks
<1> QED BY <1>1, <1>2, <1>3 DEF TaskList

\* After a step too, the stream is what is left of the row of tasks.
LEMMA ListsNext == TaskList'
BY ListsTasks, PTL

\* The numbers of tasks.
LEMMA Numbers ==
    ASSUME SessionAssumption, RequestsAssumption, RunInv, request.mode = "run", Holds
    PROVE  /\ RunTyped /\ Allocated /\ Stream /\ Holding
           /\ InputCount \in Nat /\ Uploaded \in Nat /\ Issued \in Nat
           /\ Len(stream) \in Nat /\ Taken \in Nat /\ Taken <= Issued
<1>1. RunTyped /\ Allocated /\ Stream /\ Holding
  BY DEF RunInv, Holds
<1>2. InputCount \in Nat
  BY Shape
<1>3. Uploaded \in Nat
  BY <1>1 DEF RunTyped, Uploaded
<1>4. Issued \in Nat
  BY <1>2, <1>3 DEF Issued
<1>5. Len(stream) \in Nat /\ Len(stream) <= Issued
  BY <1>1, <1>4 DEF Stream, Left
<1> QED BY <1>1, <1>2, <1>3, <1>4, <1>5 DEF Taken

\* `run` queues its next task, or the device takes one.
SameTo(n, f, g) == \A i \in 1..n : g[i] = f[i]

\* A task put behind the stream is the next of the row.
LEMMA Queues ==
    ASSUME NEW s, NEW n \in Nat, NEW f, NEW g, NEW t,
           Left(s, n, f), SameTo(n, f, g), t = g[n + 1]
    PROVE  Left(Append(s, t), n + 1, g) /\ (n + 1) - Len(Append(s, t)) = n - Len(s)
<1> USE DEF SameTo
<1>1. Len(s) \in Nat /\ s = [k \in 1..Len(s) |-> f[(n - Len(s)) + k]]
  BY DEF Left
<1> DEFINE z == Append(s, t)
<1>2. /\ Len(z) = Len(s) + 1 /\ DOMAIN z = 1..Len(s) + 1
      /\ z = [k \in 1..Len(s) + 1 |-> IF k = Len(s) + 1 THEN t ELSE s[k]]
  <2>1. s \in Seq({s[k] : k \in 1..Len(s)} \cup {t})
    BY <1>1
  <2> QED BY <2>1
<1>3. \A k \in 1..Len(s) + 1 :
         (IF k = Len(s) + 1 THEN t ELSE s[k]) = g[((n + 1) - Len(z)) + k]
  <2> TAKE k \in 1..Len(s) + 1
  <2>1. (n + 1) - Len(z) = n - Len(s) /\ n - Len(s) \in Nat
    BY <1>1, <1>2 DEF Left
  <2>2. CASE k = Len(s) + 1
    BY <1>1, <2>1, <2>2
  <2>3. CASE k # Len(s) + 1
    <3>1. k \in 1..Len(s) /\ (n - Len(s)) + k \in 1..n
      BY <1>1, <2>1, <2>3 DEF Left
    <3>2. s[k] = f[(n - Len(s)) + k]
      BY <1>1, <3>1
    <3> QED BY <2>1, <2>3, <3>1, <3>2
  <2> QED BY <2>2, <2>3
<1>4. z = [k \in 1..Len(z) |-> g[((n + 1) - Len(z)) + k]]
  BY <1>2, <1>3
<1>5. Len(z) \in 0..n + 1 /\ (n + 1) - Len(z) = n - Len(s)
  BY <1>1, <1>2 DEF Left
<1> QED BY <1>4, <1>5 DEF Left

\* A sequence is the function of its items.
LEMMA ByItems ==
    ASSUME NEW S, NEW s \in Seq(S)
    PROVE  s = [k \in 1..Len(s) |-> s[k]]
OBVIOUS

\* The first task of the stream is the first not taken.
LEMMA Takes ==
    ASSUME NEW s, NEW n \in Nat, NEW f, Left(s, n, f), s # <<>>
    PROVE  /\ Head(s) = f[(n - Len(s)) + 1] /\ (n - Len(s)) + 1 \in 1..n
           /\ Left(Tail(s), n, f) /\ n - Len(Tail(s)) = (n - Len(s)) + 1
<1>1. Len(s) \in Nat /\ Len(s) <= n /\ s = [k \in 1..Len(s) |-> f[(n - Len(s)) + k]]
  BY DEF Left
<1> DEFINE S == {s[k] : k \in 1..Len(s)}
<1>2. s \in Seq(S)
  BY <1>1
<1> HIDE DEF S
<1>3. Len(s) > 0 /\ Head(s) = s[1] /\ Len(Tail(s)) = Len(s) - 1
  BY <1>1, <1>2
<1>4. Tail(s) = [k \in 1..Len(s) - 1 |-> s[k + 1]]
  <2>1. Tail(s) \in Seq(S) /\ \A k \in 1..Len(Tail(s)) : Tail(s)[k] = s[k + 1]
    BY <1>2, HeadTailProperties
  <2>2. Tail(s) = [k \in 1..Len(Tail(s)) |-> Tail(s)[k]]
    BY <2>1, ByItems
  <2>3. \A k \in 1..Len(s) - 1 : Tail(s)[k] = s[k + 1]
    BY <1>3, <2>1
  <2> QED BY <1>3, <2>2, <2>3, Zenon
<1>5. \A k \in 1..Len(s) - 1 : s[k + 1] = f[(n - Len(Tail(s))) + k]
  <2> TAKE k \in 1..Len(s) - 1
  <2>1. k + 1 \in 1..Len(s) /\ (n - Len(s)) + (k + 1) = (n - Len(Tail(s))) + k
    BY <1>1, <1>3
  <2>2. s[k + 1] = f[(n - Len(s)) + (k + 1)]
    BY <1>1, <2>1
  <2> QED BY <2>1, <2>2
<1>6. Tail(s) = [k \in 1..Len(Tail(s)) |-> f[(n - Len(Tail(s))) + k]]
  BY <1>3, <1>4, <1>5
<1>7. Len(Tail(s)) \in 0..n /\ n - Len(Tail(s)) = (n - Len(s)) + 1
  BY <1>1, <1>3
<1>8. s[1] = f[(n - Len(s)) + 1]
  BY <1>1, <1>3
<1> QED BY <1>1, <1>3, <1>6, <1>7, <1>8 DEF Left

\* An upload of array a, which holds the next input's words or the output's.
LEMMA UploadStep ==
    ASSUME SessionAssumption, RequestsAssumption, RunInv, request.mode = "run", Running,
           place = "upload", NEW a \in Arrays, upload(a, host'[a]),
           request' = request, pc' = pc, modules' = modules, fault' = fault, printed' = printed,
           \/ /\ place' = "upload" /\ Uploaded < InputCount
              /\ ~Bad(request.inputs[Uploaded + 1])
              /\ host[a] = Null /\ host' = [host EXCEPT ![a] = InputWords(Uploaded + 1)]
           \/ /\ place' = "launch" /\ Uploaded = InputCount
              /\ a = locals.output /\ host' = host
    PROVE  RunInv'
<1>1. Holds
  BY DEF Holds, Filled, Running
<1>2. /\ RunTyped /\ Allocated /\ Stream /\ Holding /\ Starting
      /\ InputCount \in Nat /\ Uploaded \in Nat /\ Issued = Uploaded
      /\ Len(stream) \in Nat /\ Taken \in Nat /\ Taken <= Issued
  BY <1>1, Numbers DEF Issued, RunInv
<1>3. /\ Words0 \in Contents /\ Null \notin Contents
      /\ InputCount' = InputCount /\ Words0' = Words0 /\ Result' = Result
      /\ \A i \in 1..InputCount : ~Bad(request.inputs[i]) => InputWords(i) \in Contents
      /\ \A i : InputWords(i)' = InputWords(i)
  BY <1>2, Shape, SameRequest DEF Holding
<1>4. PICK u \in Nat : u = Uploaded
  BY <1>2
<1>5. host'[a] \in Contents /\ host' \in [Arrays -> Contents \cup {Null}]
  <2>1. CASE u < InputCount
    <3>1. u + 1 \in 1..InputCount
      BY <1>2, <2>1
    <3>2. InputWords(u + 1) \in Contents
      BY <1>2, <1>3, <1>4, <2>1, <3>1
    <3>3. host' = [host EXCEPT ![a] = InputWords(u + 1)]
      BY <1>2, <1>4, <2>1
    <3>4. host \in [Arrays -> Contents \cup {Null}]
      BY <1>2 DEF RunTyped
    <3> QED BY <3>2, <3>3, <3>4
  <2>2. CASE ~(u < InputCount)
    <3>1. u = InputCount /\ a = locals.output /\ host' = host
      BY <1>2, <1>4, <2>2
    <3>2. Taken # InputCount + 3
      BY <1>2, <1>4, <3>1
    <3> QED BY <1>2, <1>3, <3>1, <3>2 DEF RunTyped, Holding
  <2> QED BY <2>1, <2>2
<1>6. PICK p \in Pointers, junk \in [1..Len(host'[a]) -> Junk] :
        /\ device[p] = Null
        /\ device' = [device EXCEPT ![p] = junk]
        /\ stream' = Append(stream, Copy(p, a))
        /\ locals' = [locals EXCEPT !.words = Append(@, a), !.buffers = Append(@, p)]
  BY DEF upload
<1>7. junk \in Contents
  BY <1>5 DEF RequestsAssumption
<1>8. device' \in [Pointers -> Contents \cup {Null}]
  BY <1>2, <1>6, <1>7 DEF RunTyped
<1>9. locals' \in [module : Handles \cup {Null}, output : Arrays \cup {Null},
                   words : Seq(Arrays), buffers : Seq(Pointers)]
  <2> DEFINE L == [module : Handles \cup {Null}, output : Arrays \cup {Null},
                   words : Seq(Arrays), buffers : Seq(Pointers)]
  <2>1. locals \in L
    BY <1>2 DEF RunTyped
  <2>2. Append(locals.words, a) \in Seq(Arrays) /\ Append(locals.buffers, p) \in Seq(Pointers)
    BY <2>1
  <2> QED BY <1>6, <2>1, <2>2
<1>10. RunTyped'
  BY <1>2, <1>5, <1>8, <1>9 DEF RunTyped, RunPlaces
<1>11. Starting'
  BY <1>2 DEF Starting, Filled
<1>12. /\ Len(locals.buffers) = u /\ Len(locals.words) = u
       /\ locals.buffers \in Seq(Pointers) /\ locals.words \in Seq(Arrays)
  BY <1>2, <1>4 DEF Allocated, Uploaded, RunTyped
<1>13. /\ locals'.module = locals.module /\ locals'.output = locals.output
       /\ locals'.buffers = Append(locals.buffers, p)
       /\ locals'.words = Append(locals.words, a)
  BY <1>2, <1>6 DEF RunTyped
<1>14. /\ Uploaded' = u + 1 /\ Len(locals'.words) = u + 1
       /\ locals'.buffers[u + 1] = p /\ locals'.words[u + 1] = a
       /\ \A i \in 1..u : locals'.buffers[i] = locals.buffers[i]
       /\ \A i \in 1..u : locals'.words[i] = locals.words[i]
  BY <1>12, <1>13 DEF Uploaded
<1>15. /\ Issued' = u + 1
       /\ u <= InputCount
  BY <1>2, <1>3, <1>4, <1>14 DEF Issued, Allocated
<1>16. \A i \in 1..u : locals.words[i] # a /\ locals.buffers[i] # p
  <2>1. \A i \in 1..u : locals.words[i] = locals.output <=> i = InputCount + 1
    BY <1>2, <1>4 DEF Allocated
  <2>2. \A i \in 1..u : device[locals.buffers[i]] # Null
    BY <1>2, <1>4, <1>12 DEF Allocated, Buffer
  <2>3. \A i \in 1..u : host[locals.words[i]] # Null
    BY <1>2, <1>4, <1>12 DEF Allocated
  <2> QED BY <1>4, <1>6, <1>15, <2>1, <2>2, <2>3
<1>17. Allocated'
  <2>1. \A i, j \in 1..u + 1 : /\ locals'.buffers[i] = locals'.buffers[j] => i = j
                               /\ locals'.words[i] = locals'.words[j] => i = j
    <3>1. \A i, j \in 1..u : /\ locals.buffers[i] = locals.buffers[j] => i = j
                             /\ locals.words[i] = locals.words[j] => i = j
      BY <1>2, <1>4 DEF Allocated, Buffer
    <3>2. \A i \in 1..u + 1 : i \in 1..u \/ i = u + 1
      BY <1>4
    <3> SUFFICES ASSUME NEW i \in 1..u + 1, NEW j \in 1..u + 1
                 PROVE  /\ locals'.buffers[i] = locals'.buffers[j] => i = j
                        /\ locals'.words[i] = locals'.words[j] => i = j
      OBVIOUS
    <3>3. CASE i \in 1..u /\ j \in 1..u
      BY <1>14, <3>1, <3>3
    <3>4. CASE i = u + 1 /\ j \in 1..u
      BY <1>14, <1>16, <3>4
    <3>5. CASE j = u + 1 /\ i \in 1..u
      BY <1>14, <1>16, <3>5
    <3>6. CASE i = u + 1 /\ j = u + 1
      BY <3>6
    <3> QED BY <3>2, <3>3, <3>4, <3>5, <3>6
  <2>2. \A i \in 1..u + 1 : locals'.words[i] = locals'.output <=> i = InputCount' + 1
    <3>1. \A i \in 1..u : locals.words[i] = locals.output <=> i = InputCount + 1
      BY <1>2, <1>4 DEF Allocated
    <3>2. a = locals.output <=> u = InputCount
      BY <1>2, <1>4 DEF Allocated
    <3>3. u + 1 = InputCount + 1 <=> u = InputCount
      BY <1>2, <1>4
    <3>4. \A i \in 1..u + 1 : i \in 1..u \/ i = u + 1
      BY <1>4
    <3> QED BY <1>3, <1>13, <1>14, <3>1, <3>2, <3>3, <3>4
  <2>3. \A q \in Pointers : device'[q] # Null <=> \E i \in 1..u + 1 : locals'.buffers[i] = q
    <3>1. \A q \in Pointers : device[q] # Null <=> \E i \in 1..u : locals.buffers[i] = q
      BY <1>2, <1>4 DEF Allocated, Buffer
    <3>2. \A q \in Pointers : device'[q] = IF q = p THEN junk ELSE device[q]
      BY <1>2, <1>6 DEF RunTyped
    <3>3. junk # Null /\ 1..u + 1 = (1..u) \cup {u + 1}
      BY <1>3, <1>4, <1>7
    <3> SUFFICES ASSUME NEW q \in Pointers
                 PROVE  device'[q] # Null <=> \E i \in 1..u + 1 : locals'.buffers[i] = q
      OBVIOUS
    <3>4. (\E i \in 1..u + 1 : locals'.buffers[i] = q)
             <=> (\E i \in 1..u : locals.buffers[i] = q) \/ p = q
      BY <1>14, <3>3
    <3> QED BY <3>1, <3>2, <3>3, <3>4
  <2>4. \A b \in Arrays : host'[b] # Null
          <=> b = locals'.output \/ \E i \in 1..u + 1 : locals'.words[i] = b
    <3>1. \A b \in Arrays : host[b] # Null <=> b = locals.output \/ \E i \in 1..u : locals.words[i] = b
      BY <1>2, <1>4 DEF Allocated
    <3>2. \A b \in Arrays : b # a => host'[b] = host[b]
      BY <1>2 DEF RunTyped
    <3>3. host'[a] # Null /\ 1..u + 1 = (1..u) \cup {u + 1}
      BY <1>3, <1>4, <1>5
    <3> QED BY <1>13, <1>14, <3>1, <3>2, <3>3
  <2>5. /\ locals'.module \in Handles /\ locals'.output \in Arrays
        /\ modules'[locals'.module] = request'.image
        /\ \A h \in Handles : modules'[h] # Null => h = locals'.module
    BY <1>2, <1>13 DEF Allocated
  <2>6. /\ u + 1 <= InputCount' + 1
        /\ place' = "upload" => u + 1 <= InputCount'
        /\ place' \in Uploads => u + 1 = InputCount' + 1
    BY <1>2, <1>3, <1>4 DEF Uploads
  <2> QED BY <1>14, <2>1, <2>2, <2>3, <2>4, <2>5, <2>6 DEF Allocated, Buffer
<1>18. Stream' /\ Taken' = Taken
  <2>5. \A i \in 1..InputCount + 1 : /\ Tasks[i] = Copy(locals.buffers[i], locals.words[i])
                                     /\ Tasks'[i] = Copy(locals'.buffers[i], locals'.words[i])
    BY <1>2, <1>3, ListsTasks, ListsNext DEF TaskList, Buffer, Copy
  <2>6. \A i \in 1..u : i \in 1..InputCount + 1
    BY <1>2, <1>4, <1>15
  <2>1. \A i \in 1..u : Tasks'[i] = Tasks[i]
    BY <1>14, <2>5, <2>6
  <2>2. Tasks'[u + 1] = Copy(p, a)
    <3>1. u + 1 \in 1..InputCount + 1
      BY <1>2, <1>4, <1>15
    <3> QED BY <1>14, <2>5, <3>1
  <2>3. Left(stream, u, Tasks)
    BY <1>2, <1>4 DEF Stream
  <2>4. /\ Left(stream', u + 1, Tasks')
        /\ (u + 1) - Len(stream') = u - Len(stream)
    <3>1. PICK t : t = Copy(p, a)
      OBVIOUS
    <3>2. PICK s, f, g : s = stream /\ f = Tasks /\ g = Tasks'
      OBVIOUS
    <3>3. t = g[u + 1] /\ stream' = Append(s, t) /\ SameTo(u, f, g) /\ Left(s, u, f)
      BY <1>6, <2>1, <2>2, <2>3, <3>1, <3>2 DEF SameTo
    <3>4. Left(Append(s, t), u + 1, g) /\ (u + 1) - Len(Append(s, t)) = u - Len(s)
      <4>1. u \in Nat
        BY <1>4
      <4>2. /\ Left(Append(s, g[u + 1]), u + 1, g)
            /\ (u + 1) - Len(Append(s, g[u + 1])) = u - Len(s)
        BY <3>3, <4>1, Queues
      <4> QED BY <3>3, <4>2
    <3> QED BY <3>2, <3>3, <3>4
  <2> QED BY <1>2, <1>4, <1>15, <2>4 DEF Stream, Taken
<1>19. Holding'
  <2>1. Taken \in 0..u
    BY <1>2, <1>4
  <2>2. \A i \in 1..u : i <= InputCount =>
          /\ ~Bad(request.inputs[i])
          /\ host[locals.words[i]] = InputWords(i)
          /\ i <= Taken => device[locals.buffers[i]] = InputWords(i)
    BY <1>2, <1>4 DEF Holding, Buffer
  <2>3. \A i \in 1..u : /\ locals'.words[i] = locals.words[i] /\ locals.words[i] # a
                        /\ locals'.buffers[i] = locals.buffers[i] /\ locals.buffers[i] # p
                        /\ locals.words[i] \in Arrays /\ locals.buffers[i] \in Pointers
    BY <1>12, <1>14, <1>16
  <2>4. /\ \A b \in Arrays : b # a => host'[b] = host[b]
        /\ \A q \in Pointers : q # p => device'[q] = device[q]
    BY <1>2, <1>6 DEF RunTyped
  <2>5. \A i \in 1..u : i <= InputCount =>
          /\ ~Bad(request.inputs[i])
          /\ host'[locals'.words[i]] = InputWords(i)
          /\ i <= Taken => device'[locals'.buffers[i]] = InputWords(i)
    BY <2>2, <2>3, <2>4
  <2>6. u + 1 <= InputCount => /\ ~Bad(request.inputs[u + 1])
                               /\ host'[a] = InputWords(u + 1)
    <3> HAVE u + 1 <= InputCount
    <3>1. ~(Uploaded = InputCount)
      BY <1>2, <1>4
    <3>2. host' = [host EXCEPT ![a] = InputWords(u + 1)] /\ ~Bad(request.inputs[u + 1])
      BY <1>4, <3>1
    <3> QED BY <1>2, <3>2 DEF RunTyped
  <2>7. host'[locals'.output] = Words0
    <3>1. Taken # InputCount + 3 /\ locals.output \in Arrays
      BY <1>2, <1>15, <2>1 DEF Allocated
    <3>2. host[locals.output] = Words0
      BY <1>2, <3>1 DEF Holding
    <3>3. host[a] = Null \/ host' = host
      OBVIOUS
    <3>4. host'[locals.output] = host[locals.output]
      BY <1>3, <2>4, <3>1, <3>2, <3>3
    <3> QED BY <1>13, <3>2, <3>4
  <2>8. 1..u + 1 = (1..u) \cup {u + 1} /\ ~(u + 1 <= Taken)
    BY <1>4, <2>1
  <2>9. \A i \in 1..u + 1 : i <= InputCount =>
          /\ ~Bad(request.inputs[i])
          /\ host'[locals'.words[i]] = InputWords(i)
          /\ i <= Taken => device'[locals'.buffers[i]] = InputWords(i)
    BY <1>14, <2>5, <2>6, <2>8
  <2>10. ~(Taken >= InputCount + 1)
    BY <1>2, <1>15, <2>1
  <2>11. Taken' = Taken /\ ~(Taken = InputCount + 3) /\ ~(Taken >= InputCount + 2)
         /\ ~(Taken = InputCount + 1) /\ ~Bad(request.output)
    BY <1>2, <1>18, <2>1, <2>10 DEF Holding
  <2> QED BY <1>3, <1>14, <2>7, <2>9, <2>11 DEF Holding, Buffer
<1>20. place' # "free"
  OBVIOUS
<1> QED BY <1>10, <1>11, <1>17, <1>18, <1>19, <1>20 DEF RunInv

\* The launch and the copy back are queued.
LEMMA QueueStep ==
    ASSUME SessionAssumption, RequestsAssumption, RunInv, request.mode = "run", Running,
           \/ place = "launch" /\ LaunchOnce
           \/ place = "fetch" /\ FetchOutput,
           request' = request
    PROVE  RunInv'
<1>1. Holds
  BY DEF Holds, Filled, Running
<1>2. /\ RunTyped /\ Allocated /\ Stream /\ Holding /\ Starting
      /\ InputCount \in Nat /\ Uploaded = InputCount + 1 /\ Issued \in Nat
      /\ Len(stream) \in Nat /\ Taken \in Nat /\ Taken <= Issued
  BY <1>1, Numbers DEF RunInv, Allocated, Uploads
<1>3. /\ UNCHANGED <<device, modules, host, fault, pc, locals, printed, request>>
      /\ \/ place = "launch" /\ place' = "fetch"
         \/ place = "fetch" /\ place' = "print"
  BY DEF LaunchOnce, FetchOutput, At
<1>4. /\ InputCount' = InputCount /\ Words0' = Words0 /\ Result' = Result
      /\ \A i : InputWords(i)' = InputWords(i)
  BY <1>3, SameRequest
<1>5. RunTyped' /\ Starting'
  BY <1>2, <1>3 DEF RunTyped, Starting, RunPlaces, Filled
<1>6. Allocated'
  BY <1>2, <1>3, <1>4 DEF Allocated, Uploaded, Buffer, Uploads
<1>7. Tasks' = Tasks
  BY <1>3, <1>4 DEF Tasks, Copy, Launch, Fetch, Buffer, OutputBuffer
<1>8. Issued' = Issued + 1 /\ stream' = Append(stream, Tasks[Issued + 1])
  <2>1. CASE place = "launch"
    <3>1. Issued = InputCount + 1 /\ Issued' = InputCount + 2
      BY <1>3, <1>4, <2>1 DEF Issued
    <3> QED BY <1>2, <2>1, <3>1, ListsTasks DEF LaunchOnce, TaskList, FetchOutput, At
  <2>2. CASE place = "fetch"
    <3>1. Issued = InputCount + 2 /\ Issued' = InputCount + 3
      BY <1>3, <1>4, <2>2 DEF Issued
    <3> QED BY <1>2, <2>2, <3>1, ListsTasks DEF LaunchOnce, TaskList, FetchOutput, At
  <2> QED BY <2>1, <2>2
<1>9. Stream' /\ Taken' = Taken
  <2>1. PICK s, f, n : s = stream /\ f = Tasks /\ n = Issued
    OBVIOUS
  <2>2. n \in Nat /\ Left(s, n, f) /\ SameTo(n, f, f)
    BY <1>2, <2>1 DEF Stream, SameTo
  <2>3. Left(Append(s, f[n + 1]), n + 1, f) /\ (n + 1) - Len(Append(s, f[n + 1])) = n - Len(s)
    BY <2>2, Queues
  <2>4. stream' = Append(s, f[n + 1]) /\ Tasks' = f /\ Issued' = n + 1
    BY <1>7, <1>8, <2>1
  <2> QED BY <2>1, <2>3, <2>4 DEF Stream, Taken
<1>10. Holding'
  BY <1>2, <1>3, <1>4, <1>9 DEF Holding, Uploaded, Buffer, OutputBuffer
<1> QED BY <1>3, <1>5, <1>6, <1>9, <1>10 DEF RunInv

\* What is printed is what the kernel computed.
LEMMA PrintStep ==
    ASSUME SessionAssumption, RequestsAssumption, RunInv, request.mode = "run", PrintOutput,
           request' = request
    PROVE  RunInv'
<1>1. /\ UNCHANGED <<device, modules, host, stream, fault, pc, locals, request>>
      /\ place = "print" /\ place' = "free" /\ Running /\ stream = <<>>
      /\ printed' = Printed(host[locals.output])
  BY DEF PrintOutput, At, vars, Synchronized
<1>2. Holds
  BY <1>1 DEF Holds, Filled, Running
<1>3. /\ RunTyped /\ Allocated /\ Stream /\ Holding /\ Starting
      /\ InputCount \in Nat /\ Uploaded = InputCount + 1 /\ Issued \in Nat
  BY <1>1, <1>2, Numbers DEF RunInv, Allocated, Uploads
<1>4. /\ InputCount' = InputCount /\ Words0' = Words0 /\ Result' = Result
      /\ \A i : InputWords(i)' = InputWords(i)
  BY <1>1, SameRequest
<1>5. RunTyped' /\ Starting'
  BY <1>1, <1>3 DEF RunTyped, Starting, RunPlaces, Filled
<1>6. Allocated'
  BY <1>1, <1>3, <1>4 DEF Allocated, Uploaded, Buffer, Uploads
<1>7. Tasks' = Tasks
  BY <1>1, <1>4 DEF Tasks, Copy, Launch, Fetch, Buffer, OutputBuffer
<1>8. Issued = InputCount + 3 /\ Issued' = Issued
  BY <1>1, <1>4 DEF Issued
<1>9. Stream' /\ Taken' = Taken /\ Taken = InputCount + 3
  BY <1>1, <1>3, <1>7, <1>8 DEF Stream, Taken
<1>10. Holding'
  BY <1>1, <1>3, <1>4, <1>9 DEF Holding, Uploaded, Buffer, OutputBuffer
<1>11. printed' = Printed(Result)
  BY <1>1, <1>3, <1>9 DEF Holding
<1>12. Result \in Contents
  <2>1. ~Bad(request.output) /\ \A i \in 1..InputCount : ~Bad(request.inputs[i])
    BY <1>3 DEF Holding
  <2> QED BY <2>1, ResultIs
<1>13. Printed(Result)' = Printed(Result) /\ printed' = Printed(Result)'
  BY <1>4, <1>11 DEF Printed, Low, High
<1>14. pc' # "exited"
  BY <1>1 DEF Running
<1> QED BY <1>1, <1>4, <1>5, <1>6, <1>9, <1>10, <1>12, <1>13, <1>14 DEF RunInv, Finished

\* `FreeAll` gives back everything that was taken.
LEMMA FreeStep ==
    ASSUME SessionAssumption, RequestsAssumption, RunInv, request.mode = "run", FreeAll,
           request' = request
    PROVE  RunInv'
<1>1. /\ UNCHANGED <<stream, fault, place, locals, printed, request>>
      /\ place = "free" /\ Running /\ pc' = "exited"
      /\ device' = [p \in Pointers |->
                      IF \E i \in 1..(InputCount + 1) : Buffer(i) = p THEN Null ELSE device[p]]
      /\ host' = [a \in Arrays |->
                    IF a = locals.output \/ \E i \in 1..InputCount : locals.words[i] = a
                    THEN Null ELSE host[a]]
      /\ modules' = [modules EXCEPT ![locals.module] = Null]
  BY DEF FreeAll, End
<1>2. Holds
  BY <1>1 DEF Holds, Filled, Running
<1>3. /\ RunTyped /\ Allocated /\ Starting /\ Finished
      /\ InputCount \in Nat /\ Uploaded = InputCount + 1
  BY <1>1, <1>2, Numbers DEF RunInv, Allocated, Uploads
<1>4. \A p \in Pointers : device'[p] = Null
  BY <1>1, <1>3 DEF Allocated
<1>5. \A a \in Arrays : host'[a] = Null
  BY <1>1, <1>3 DEF Allocated
<1>6. \A h \in Handles : modules'[h] = Null
  BY <1>1, <1>3 DEF Allocated, RunTyped
<1>7. RunTyped'
  BY <1>1, <1>3, <1>4, <1>5 DEF RunTyped
<1>8. Starting'
  BY <1>1, <1>3 DEF Starting, Filled
<1>9. Finished'
  BY <1>1, <1>3, <1>4, <1>5, <1>6, SameRequest DEF Finished, Printed, Low, High
<1> QED BY <1>1, <1>7, <1>8, <1>9 DEF RunInv

\* What the device does with task i of `run`.
LEMMA TaskStep ==
    ASSUME SessionAssumption, RequestsAssumption, RunInv, request.mode = "run", Holds,
           NEW i \in 1..Issued, i = Taken + 1, NEW t, t = Tasks[i],
           device' = After(t, device),
           host' = IF t.op = "fetch" THEN [host EXCEPT ![t.array] = device[t.buffer]] ELSE host
    PROVE  \/ /\ i \in 1..InputCount + 1 /\ i <= Uploaded /\ host' = host
              /\ device' = [device EXCEPT ![Buffer(i)] = host[locals.words[i]]]
           \/ /\ i = InputCount + 2 /\ host' = host /\ Uploaded = InputCount + 1
              /\ device' = [device EXCEPT ![OutputBuffer] = Result]
           \/ /\ i = InputCount + 3 /\ device' = device /\ Uploaded = InputCount + 1
              /\ host' = [host EXCEPT ![locals.output] = device[OutputBuffer]]
<1>1. /\ RunTyped /\ Allocated /\ Stream /\ Holding
      /\ InputCount \in Nat /\ Uploaded \in Nat /\ Issued \in Nat
      /\ Taken \in Nat
  BY Numbers
<1>2. /\ Issued <= InputCount + 3
      /\ i <= InputCount + 1 => i <= Uploaded
      /\ i > InputCount + 1 => Uploaded = InputCount + 1
  <2>1. CASE place = "upload"
    BY <1>1, <2>1 DEF Issued, Allocated
  <2>2. CASE place # "upload"
    <3>1. Uploaded = InputCount + 1
      BY <1>1, <2>2 DEF Allocated, Uploads, Holds, Filled
    <3>2. Issued <= InputCount + 3
      BY <1>1, <2>2 DEF Issued
    <3> QED BY <1>1, <3>1, <3>2
  <2> QED BY <2>1, <2>2
<1>3. CASE i <= InputCount + 1
  <2>1. t = Copy(Buffer(i), locals.words[i])
    BY <1>1, <1>3, ListsTasks DEF TaskList
  <2>2. t.op = "copy" /\ t.buffer = Buffer(i) /\ t.array = locals.words[i]
    BY <2>1 DEF Copy
  <2>3. device' = [device EXCEPT ![Buffer(i)] = host[locals.words[i]]] /\ host' = host
    BY <2>2 DEF After, Written
  <2> QED BY <1>1, <1>2, <1>3, <2>3
<1>4. CASE i = InputCount + 2
  <2> DEFINE bs == [j \in 1..InputCount |-> Buffer(j)]
  <2>1. t = Launch(locals.module, OutputBuffer, bs)
    BY <1>1, <1>4, ListsTasks DEF TaskList
  <2>2. /\ t.op = "launch" /\ t.buffer = OutputBuffer
        /\ t.module = locals.module /\ t.ins = bs
    BY <2>1 DEF Launch
  <2> DEFINE ins == [j \in DOMAIN bs |-> device[bs[j]]]
  <2>3. device' = [device EXCEPT ![OutputBuffer] =
                     Compute(modules[locals.module], ins, device[OutputBuffer])]
        /\ host' = host
    BY <2>2 DEF After, Written
  <2>4. Uploaded = InputCount + 1 /\ Taken = InputCount + 1
    BY <1>1, <1>2, <1>4
  <2>5. ins = [j \in 1..InputCount |-> parse_buffer(request.inputs[j])]
    <3>1. \A j \in 1..InputCount : device[Buffer(j)] = InputWords(j)
      BY <1>1, <2>4 DEF Holding
    <3> QED BY <3>1 DEF InputWords
  <2>6. device[OutputBuffer] = Words0 /\ modules[locals.module] = request.image
    BY <1>1, <2>4 DEF Holding, Allocated
  <2>7. Compute(modules[locals.module], ins, device[OutputBuffer]) = Result
    BY <2>5, <2>6 DEF Result, Words0
  <2> QED BY <1>4, <2>3, <2>4, <2>7
<1>5. CASE i = InputCount + 3
  <2>1. t = Fetch(OutputBuffer, locals.output)
    BY <1>1, <1>5, ListsTasks DEF TaskList
  <2>2. t.op = "fetch" /\ t.buffer = OutputBuffer /\ t.array = locals.output
    BY <2>1 DEF Fetch
  <2>3. /\ device' = [device EXCEPT ![OutputBuffer] = device[OutputBuffer]]
        /\ host' = [host EXCEPT ![locals.output] = device[OutputBuffer]]
    BY <2>2 DEF After, Written
  <2>4. device' = device
    BY <1>1, <2>3 DEF RunTyped
  <2>5. Uploaded = InputCount + 1
    BY <1>1, <1>2, <1>5
  <2> QED BY <1>5, <2>3, <2>4, <2>5
<1> QED BY <1>1, <1>2, <1>3, <1>4, <1>5

\* The device's step carries out the next task of the row.
LEMMA DeviceRun ==
    ASSUME SessionAssumption, RequestsAssumption, RunInv, request.mode = "run",
           DeviceStep, UNCHANGED <<request, place, locals, printed>>
    PROVE  RunInv'
<1>1. /\ UNCHANGED <<modules, fault, pc, request, place, locals, printed>>
      /\ Running /\ stream # <<>> /\ stream' = Tail(stream)
  BY DEF DeviceStep
<1>2. Holds
  BY <1>1 DEF Holds, Running, RunInv, Starting
<1>3. /\ RunTyped /\ Allocated /\ Stream /\ Holding /\ Starting
      /\ InputCount \in Nat /\ Uploaded \in Nat /\ Issued \in Nat
      /\ Len(stream) \in Nat /\ Taken \in Nat
      /\ place = "free" => Finished
  BY <1>2, Numbers DEF RunInv
<1>4. /\ InputCount' = InputCount /\ Words0' = Words0 /\ Result' = Result
      /\ \A i : InputWords(i)' = InputWords(i)
  BY <1>1, SameRequest
<1>5. Tasks' = Tasks /\ Issued' = Issued /\ Uploaded' = Uploaded
  BY <1>1, <1>4 DEF Tasks, Copy, Launch, Fetch, Buffer, OutputBuffer, Issued, Uploaded
<1>6. /\ Stream' /\ Taken' = Taken + 1 /\ Taken + 1 \in 1..Issued
      /\ Head(stream) = Tasks[Taken + 1]
  <2>1. PICK s, f, n : s = stream /\ f = Tasks /\ n = Issued
    OBVIOUS
  <2>2. n \in Nat /\ Left(s, n, f) /\ s # <<>>
    BY <1>1, <1>3, <2>1 DEF Stream
  <2>3. /\ Head(s) = f[(n - Len(s)) + 1] /\ (n - Len(s)) + 1 \in 1..n
        /\ Left(Tail(s), n, f) /\ n - Len(Tail(s)) = (n - Len(s)) + 1
    BY <2>2, Takes
  <2>4. stream' = Tail(s) /\ Tasks' = f /\ Issued' = n
    BY <1>1, <1>5, <2>1
  <2> QED BY <2>1, <2>3, <2>4 DEF Stream, Taken
<1>7. PICK i \in 1..Issued : i = Taken + 1
  BY <1>6
<1>8. PICK t : t = Tasks[i]
  OBVIOUS
<1>9. /\ device' = After(t, device)
      /\ host' = IF t.op = "fetch" THEN [host EXCEPT ![t.array] = device[t.buffer]] ELSE host
  BY <1>6, <1>7, <1>8 DEF DeviceStep
<1>10. \/ /\ i \in 1..InputCount + 1 /\ i <= Uploaded /\ host' = host
          /\ device' = [device EXCEPT ![Buffer(i)] = host[locals.words[i]]]
       \/ /\ i = InputCount + 2 /\ host' = host /\ Uploaded = InputCount + 1
          /\ device' = [device EXCEPT ![OutputBuffer] = Result]
       \/ /\ i = InputCount + 3 /\ device' = device /\ Uploaded = InputCount + 1
          /\ host' = [host EXCEPT ![locals.output] = device[OutputBuffer]]
  BY <1>2, <1>7, <1>8, <1>9, TaskStep
<1>11. /\ Words0 \in Contents /\ Null \notin Contents
       /\ \A j \in 1..InputCount : ~Bad(request.inputs[j]) => InputWords(j) \in Contents
  BY <1>3, Shape DEF Holding
<1>12. /\ \A j \in 1..Uploaded : Buffer(j) \in Pointers /\ locals.words[j] \in Arrays
       /\ locals.output \in Arrays
  BY <1>3 DEF Allocated, RunTyped, Uploaded, Buffer
<1>13. \A j \in 1..Uploaded : /\ locals.words[j] \in Arrays /\ Buffer(j) \in Pointers
                              /\ host[locals.words[j]] \in Contents
                              /\ device[Buffer(j)] \in Contents
  <2>1. \A a \in Arrays : host[a] # Null => host[a] \in Contents
    BY <1>3 DEF RunTyped
  <2>2. \A p \in Pointers : device[p] # Null => device[p] \in Contents
    BY <1>3 DEF RunTyped
  <2> QED BY <1>3, <1>12, <2>1, <2>2 DEF Allocated
<1>14. Uploaded = InputCount + 1 =>
         /\ Result \in Contents
         /\ OutputBuffer \in Pointers /\ OutputBuffer = Buffer(InputCount + 1)
         /\ InputCount + 1 \in 1..Uploaded
  <2> HAVE Uploaded = InputCount + 1
  <2>1. ~Bad(request.output) /\ \A j \in 1..InputCount : ~Bad(request.inputs[j])
    BY <1>3 DEF Holding
  <2>2. InputCount + 1 \in 1..Uploaded
    BY <1>3
  <2> QED BY <1>12, <2>1, <2>2, ResultIs DEF OutputBuffer
<1>15. /\ device' \in [Pointers -> Contents \cup {Null}]
       /\ \A p \in Pointers : device'[p] # Null <=> device[p] # Null
       /\ host' \in [Arrays -> Contents \cup {Null}]
       /\ \A a \in Arrays : host'[a] # Null <=> host[a] # Null
  <2>1. device \in [Pointers -> Contents \cup {Null}] /\ host \in [Arrays -> Contents \cup {Null}]
    BY <1>3 DEF RunTyped
  <2>2. host[locals.output] # Null
    BY <1>3, <1>12 DEF Allocated
  <2>3. CASE i \in 1..InputCount + 1 /\ i <= Uploaded /\ host' = host
             /\ device' = [device EXCEPT ![Buffer(i)] = host[locals.words[i]]]
    <3>1. i \in 1..Uploaded
      BY <1>3, <2>3
    <3> QED BY <1>11, <1>13, <2>1, <2>3, <3>1
  <2>4. CASE /\ i = InputCount + 2 /\ host' = host /\ Uploaded = InputCount + 1
             /\ device' = [device EXCEPT ![OutputBuffer] = Result]
    BY <1>11, <1>13, <1>14, <2>1, <2>4
  <2>5. CASE /\ i = InputCount + 3 /\ device' = device /\ Uploaded = InputCount + 1
             /\ host' = [host EXCEPT ![locals.output] = device[OutputBuffer]]
    BY <1>11, <1>12, <1>13, <1>14, <2>1, <2>2, <2>5
  <2> QED BY <1>10, <2>3, <2>4, <2>5
<1>16. RunTyped'
  BY <1>1, <1>3, <1>15 DEF RunTyped
<1>17. Starting'
  BY <1>1, <1>2, <1>3 DEF Starting, Holds, Filled
<1>18. Allocated'
  BY <1>1, <1>3, <1>4, <1>5, <1>15 DEF Allocated, Buffer
<1>19. /\ \A j \in 1..Uploaded : Buffer(j)' = Buffer(j)
       /\ OutputBuffer' = OutputBuffer
  BY <1>1, <1>4 DEF Buffer, OutputBuffer
<1>20. \A j \in 1..Uploaded : j <= InputCount =>
          /\ host'[locals.words[j]] = InputWords(j)
          /\ j <= Taken + 1 => device'[Buffer(j)] = InputWords(j)
  <2> SUFFICES ASSUME NEW j \in 1..Uploaded, j <= InputCount
               PROVE  /\ host'[locals.words[j]] = InputWords(j)
                      /\ j <= Taken + 1 => device'[Buffer(j)] = InputWords(j)
    OBVIOUS
  <2>1. /\ host[locals.words[j]] = InputWords(j)
        /\ j <= Taken => device[Buffer(j)] = InputWords(j)
    BY <1>3 DEF Holding
  <2>2. locals.words[j] # locals.output
    BY <1>3 DEF Allocated
  <2>3. host'[locals.words[j]] = InputWords(j)
    BY <1>10, <1>13, <2>1, <2>2, <1>3 DEF RunTyped
  <2>4. ASSUME j <= Taken + 1
        PROVE  device'[Buffer(j)] = InputWords(j)
    <3>1. CASE j = i
      <4>1. device' = [device EXCEPT ![Buffer(i)] = host[locals.words[i]]]
        BY <1>3, <1>10, <3>1
      <4> QED BY <1>3, <1>13, <2>1, <3>1, <4>1 DEF RunTyped
    <3>2. CASE j # i
      <4>1. j <= Taken
        BY <1>3, <1>7, <2>4, <3>2
      <4>2. i \in 1..Uploaded => Buffer(i) # Buffer(j)
        BY <1>3, <3>2 DEF Allocated
      <4>3. Uploaded = InputCount + 1 => OutputBuffer # Buffer(j)
        BY <1>3, <1>14 DEF Allocated
      <4>4. i \in 1..InputCount + 1 /\ i <= Uploaded => i \in 1..Uploaded
        BY <1>3
      <4> QED BY <1>3, <1>10, <1>13, <2>1, <4>1, <4>2, <4>3, <4>4 DEF RunTyped
    <3> QED BY <3>1, <3>2
  <2> QED BY <2>3, <2>4
<1>21. host'[locals.output] = IF Taken + 1 = InputCount + 3 THEN Result ELSE Words0
  <2>1. CASE i = InputCount + 3
    <3>1. /\ host' = [host EXCEPT ![locals.output] = device[OutputBuffer]]
      BY <1>3, <1>10, <2>1
    <3>2. device[OutputBuffer] = Result
      BY <1>3, <1>7, <2>1 DEF Holding
    <3> QED BY <1>3, <1>7, <1>12, <2>1, <3>1, <3>2 DEF RunTyped
  <2>2. CASE i # InputCount + 3
    <3>1. host' = host
      BY <1>10, <2>2
    <3>2. Taken # InputCount + 3
      <4>1. Issued <= InputCount + 3
        BY <1>3 DEF Issued, Allocated
      <4> QED BY <1>3, <1>6, <4>1
    <3> QED BY <1>3, <1>7, <2>2, <3>1, <3>2 DEF Holding
  <2> QED BY <2>1, <2>2
<1>22. /\ Taken + 1 = InputCount + 1 => device'[OutputBuffer] = Words0
       /\ Taken + 1 >= InputCount + 2 => device'[OutputBuffer] = Result
  <2>1. CASE i = InputCount + 1
    <3>1. /\ i \in 1..Uploaded /\ Uploaded = InputCount + 1
          /\ device' = [device EXCEPT ![Buffer(i)] = host[locals.words[i]]]
      BY <1>3, <1>10, <2>1 DEF Allocated
    <3>2. locals.words[i] = locals.output
      BY <1>3, <2>1, <3>1 DEF Allocated
    <3>3. host[locals.output] = Words0
      <4>1. Taken # InputCount + 3
        BY <1>3, <1>7, <2>1
      <4> QED BY <1>3, <4>1 DEF Holding
    <3>4. device'[OutputBuffer] = Words0
      BY <1>3, <1>14, <2>1, <3>1, <3>2, <3>3 DEF RunTyped
    <3> QED BY <1>3, <1>7, <2>1, <3>4
  <2>2. CASE i = InputCount + 2
    <3>1. /\ Uploaded = InputCount + 1
          /\ device' = [device EXCEPT ![OutputBuffer] = Result]
      BY <1>3, <1>10, <2>2
    <3> QED BY <1>3, <1>7, <1>14, <2>2, <3>1 DEF RunTyped
  <2>3. CASE i # InputCount + 1 /\ i # InputCount + 2
    <3>1. CASE i = InputCount + 3
      <4>1. device' = device
        BY <1>3, <1>10, <3>1
      <4> QED BY <1>3, <1>7, <3>1, <4>1 DEF Holding
    <3>2. CASE i # InputCount + 3
      <4>1. i <= InputCount
        BY <1>3, <1>10, <2>3, <3>2
      <4> QED BY <1>3, <1>7, <4>1
    <3> QED BY <3>1, <3>2
  <2> QED BY <2>1, <2>2, <2>3
<1>23. Holding'
  BY <1>1, <1>3, <1>4, <1>5, <1>6, <1>19, <1>20, <1>21, <1>22 DEF Holding
<1>24. place' = "free" => Finished'
  <2> HAVE place' = "free"
  <2>1. Finished /\ pc' # "exited"
    BY <1>1, <1>3 DEF Running
  <2> QED BY <1>1, <1>4, <2>1 DEF Finished, Printed, Low, High
<1> QED BY <1>1, <1>6, <1>16, <1>17, <1>18, <1>23, <1>24 DEF RunInv

\* A launch that fails keeps the invariant.
LEMMA FaultRun ==
    ASSUME SessionAssumption, RequestsAssumption, RunInv, request.mode = "run",
           LaunchFault, UNCHANGED <<request, place, locals, printed>>
    PROVE  RunInv'
<1>1. /\ UNCHANGED <<device, modules, host, stream, pc, request, place, locals, printed>>
      /\ fault' = TRUE
  BY DEF LaunchFault
<1>2. RunTyped' /\ Starting'
  BY <1>1 DEF RunInv, RunTyped, Starting
<1>3. (place = "free" => Finished)'
  BY <1>1, SameRequest DEF RunInv, Finished, Printed, Low, High
<1>4. ASSUME Holds
      PROVE  Allocated' /\ Stream' /\ Holding'
  <2>1. Allocated /\ Stream /\ Holding
    BY <1>4 DEF RunInv, Holds
  <2>2. Allocated'
    BY <1>1, <2>1 DEF Allocated, Uploaded, InputCount, Buffer
  <2>3. /\ Taken' = Taken /\ Issued' = Issued /\ Uploaded' = Uploaded
        /\ Tasks' = Tasks
        /\ \A i : Buffer(i)' = Buffer(i)
        /\ OutputBuffer' = OutputBuffer
    BY <1>1 DEF Taken, Issued, Uploaded, Tasks, InputCount, Buffer, OutputBuffer, Copy, Launch, Fetch
  <2>4. Stream'
    BY <1>1, <2>1, <2>3 DEF Stream
  <2>5. Holding'
    BY <1>1, <2>1, <2>3, SameRequest DEF Holding
  <2> QED BY <2>2, <2>4, <2>5
<1> QED BY <1>1, <1>2, <1>3, <1>4 DEF RunInv, Holds

-----------------------------------------------------------------------------
(* The theorem. *)

\* A process begins with the invariant.
LEMMA HostStarts == HostInit => RunInv
<1> SUFFICES ASSUME HostInit
             PROVE  RunInv
  OBVIOUS
<1>1. RunTyped
  <2>1. locals \in [module : Handles \cup {Null}, output : Arrays \cup {Null},
                    words : Seq(Arrays), buffers : Seq(Pointers)]
    BY DEF HostInit
  <2>2. /\ device \in [Pointers -> Contents \cup {Null}]
        /\ host \in [Arrays -> Contents \cup {Null}]
        /\ modules \in [Handles -> {Null, request.image}]
    BY DEF HostInit, Init
  <2> QED BY <2>1, <2>2 DEF HostInit, Init, RunTyped, RunPlaces
<1>2. Starting
  BY DEF HostInit, Init, Starting, Filled
<1> QED BY <1>1, <1>2 DEF HostInit, RunInv, Filled

\* Every step of `run` keeps the invariant.
LEMMA ProceedKeeps ==
    ASSUME SessionAssumption, RequestsAssumption, RunInv, request.mode = "run",
           Proceed, request' = request
    PROVE  RunInv'
<1> USE DEF Running
<1>1. CASE Usage
  BY <1>1 DEF Usage
<1>2. CASE open_device
  BY <1>2, OpenStep
<1>3. CASE info
  <2>1. place # "info"
    BY DEF RunInv, RunTyped, RunPlaces
  <2> QED BY <1>3, <2>1 DEF info
<1>4. CASE LoadImage
  BY <1>4, LoadStep
<1>5. CASE MakeOutput
  BY <1>5, MakeStep
<1>6. CASE RejectOutput \/ RejectInput \/ RejectLaunch \/ NoMemory \/ LaunchError
  <2>1. Running /\ pc' = "failed" /\ Rest
    BY <1>6 DEF RejectOutput, RejectInput, RejectLaunch, NoMemory, LaunchError, End, Rest
  <2> QED BY <2>1, Rests
<1>7. CASE UploadInput
  <2>1. Uploaded + 1 \in Nat
    BY DEF RunInv, RunTyped, Uploaded
  <2>2. PICK a \in Arrays :
          /\ host[a] = Null
          /\ host' = [host EXCEPT ![a] = InputWords(Uploaded + 1)]
          /\ upload(a, InputWords(Uploaded + 1))
    BY <1>7 DEF UploadInput, InputWords
  <2>3. host'[a] = InputWords(Uploaded + 1)
    BY <2>2 DEF RunInv, RunTyped
  <2>4. upload(a, host'[a])
    BY <2>2, <2>3 DEF upload
  <2> QED BY <1>7, <2>2, <2>4, UploadStep DEF UploadInput, At
<1>8. CASE UploadOutput
  <2>1. Holds /\ host' = host
    BY <1>8 DEF UploadOutput, At, Holds, Filled
  <2>2. locals.output \in Arrays
    BY <2>1, Numbers DEF Allocated
  <2>3. upload(locals.output, host'[locals.output])
    BY <1>8, <2>1 DEF UploadOutput
  <2>4. PICK a \in Arrays : a = locals.output
    BY <2>2
  <2>5. upload(a, host'[a])
    BY <2>3, <2>4 DEF upload
  <2> QED BY <1>8, <2>1, <2>4, <2>5, UploadStep DEF UploadOutput, At
<1>9. CASE LaunchOnce
  BY <1>9, QueueStep DEF LaunchOnce, At
<1>10. CASE FetchOutput
  BY <1>10, QueueStep DEF FetchOutput, At
<1>11. CASE PrintOutput
  BY <1>11, PrintStep
<1>12. CASE FreeAll
  BY <1>12, FreeStep
<1> QED BY <1>1, <1>2, <1>3, <1>4, <1>5, <1>6, <1>7, <1>8, <1>9, <1>10, <1>11, <1>12
        DEF Proceed

\* Every step of the process keeps the invariant.
LEMMA HostKeeps ==
    ASSUME SessionAssumption, RequestsAssumption, RunInv, [HostNext]_hostVars
    PROVE  RunInv'
<1>1. request' = request
  BY DEF HostNext, ProceedStep, InSession, Background, hostVars
<1>2. CASE request.mode # "run"
  BY <1>1, <1>2 DEF RunInv
<1>3. CASE request.mode = "run"
  <2>1. place # "session"
    BY <1>3 DEF RunInv, RunTyped, RunPlaces
  <2>2. CASE ProceedStep
    BY <1>3, <2>2, ProceedKeeps DEF ProceedStep
  <2>3. CASE InSession(Command) \/ InSession(Continue)
    BY <2>1, <2>3 DEF InSession
  <2>4. CASE Background(DeviceStep)
    BY <1>3, <2>4, DeviceRun DEF Background
  <2>5. CASE Background(LaunchFault)
    BY <1>3, <2>5, FaultRun DEF Background
  <2>6. CASE Background(Die)
    BY <2>6, Rests DEF Background, Die, Rest
  <2>7. CASE Background(Ended)
    <3>1. pc' = pc /\ Rest
      BY <1>1, <2>7 DEF Background, Ended, Rest, vars
    <3> QED BY <3>1, Rests
  <2>8. CASE UNCHANGED hostVars
    <3>1. pc' = pc /\ Rest
      BY <2>8 DEF hostVars, Rest, vars
    <3> QED BY <3>1, Rests
  <2> QED BY <2>2, <2>3, <2>4, <2>5, <2>6, <2>7, <2>8 DEF HostNext
<1> QED BY <1>2, <1>3

\* The invariant says what is printed.
LEMMA HostPrints ==
    ASSUME SessionAssumption, RequestsAssumption, RunInv
    PROVE  RunPrints
<1> SUFFICES ASSUME request.mode = "run"
             PROVE  /\ printed # <<>> => printed = Printed(Result)
                    /\ pc = "exited" => /\ printed # <<>>
                                        /\ \A p \in Pointers : device[p] = Null
                                        /\ \A a \in Arrays : host[a] = Null
                                        /\ \A h \in Handles : modules[h] = Null
  BY DEF RunPrints
<1>1. /\ place # "free" => printed = <<>> /\ pc # "exited"
      /\ place = "free" => Finished
  BY DEF RunInv, Starting
<1>2. ASSUME Finished
      PROVE  printed # <<>>
  <2>1. Len(Result) \in Nat \ {0}
    BY <1>2 DEF Finished, RequestsAssumption
  <2>2. 1 \in DOMAIN Printed(Result)
    BY <2>1 DEF Printed
  <2> QED BY <1>2, <2>2 DEF Finished
<1> QED BY <1>1, <1>2 DEF Finished

\* `run` of the CUDA host prints what its launch computed from its inputs and the
\* initial words of its output, and gives every buffer, array and module back
\* before it ends with success, whatever it allocates where and however far the
\* device is behind.
THEOREM CudaRuns == HostSpec => []RunPrints
<1>1. HostInit => RunInv
  BY HostStarts
<1>2. RunInv /\ [HostNext]_hostVars => RunInv'
  BY HostKeeps, SessionAssumption, RequestsAssumption
<1>3. RunInv => RunPrints
  BY HostPrints, SessionAssumption, RequestsAssumption
<1> QED BY <1>1, <1>2, <1>3, PTL DEF HostSpec

-----------------------------------------------------------------------------
(* The WebGPU host, as the composition instantiates it. *)

WP == INSTANCE WebGpuHost_proofs WITH
         request <- webRequest, place <- webPlace, entries <- webEntries,
         Specs <- WebSpecs, Outputs <- WebOutputs, Contents <- WebContents,
         Requests <- WebRequests,
         MaxInputs <- WebInputs, Compute <- WebCompute

-----------------------------------------------------------------------------
(* The two copies of the WebGPU host. *)

\* The two copies of the host assume the same.
LEMMA SameAssumption == Web!HostAssumption <=> WP!HostAssumption
BY DEF
       Web!HostAssumption, WP!HostAssumption, Web!Bad, WP!Bad, Web!Halves, WP!Halves,
       Web!parse_input, WP!parse_input, Web!Initial, WP!Initial, Web!OutputWords,
       WP!OutputWords, Web!Zeros, WP!Zeros

\* The two copies of the host begin alike.
LEMMA SameInit == (Web!Init <=> WP!Init) /\ (Web!Empty <=> WP!Empty)
BY DEF
       Web!Init, WP!Init, Web!Empty, WP!Empty

\* The two copies of the host have the same commands.
LEMMA SameCommand == Web!Command <=> WP!Command
BY DEF
       Web!StoreCommand, WP!StoreCommand, Web!ShaderCommand, WP!ShaderCommand,
       Web!RunCommand, WP!RunCommand, Web!ReadCommand, WP!ReadCommand, Web!FreeCommand,
       WP!FreeCommand, Web!QuitCommand, WP!QuitCommand, Web!Command, WP!Command,
       Web!find_entry, WP!find_entry, Web!Known, WP!Known, Web!BufferOf, WP!BufferOf,
       Web!PipelineOf, WP!PipelineOf, Web!Released, WP!Released, Web!PipelinesLeft,
       WP!PipelinesLeft, Web!Put, WP!Put, Web!Without, WP!Without, Web!Write, WP!Write,
       Web!Dispatch, WP!Dispatch, Web!CopyTo, WP!CopyTo, Web!Uses, WP!Uses, Web!Queued,
       WP!Queued, Web!Kept, WP!Kept, Web!After, WP!After, Web!Bad, WP!Bad, Web!Halves,
       WP!Halves, Web!parse_input, WP!parse_input, Web!Initial, WP!Initial, Web!OutputWords,
       WP!OutputWords, Web!Zeros, WP!Zeros, Web!At, WP!At, Web!Ask, WP!Ask, Web!opening,
       WP!opening, Web!table, WP!table, Web!device, WP!device

\* The two copies of the host have the same steps.
LEMMA SameNext == Web!Next <=> WP!Next
<1>1. Web!Command <=> WP!Command
  BY SameCommand
<1>2. Web!Proceed <=> WP!Proceed
  BY DEF
         Web!Usage, WP!Usage, Web!RequestAdapter, WP!RequestAdapter, Web!RequestDevice,
         WP!RequestDevice, Web!Opened, WP!Opened, Web!info, WP!info, Web!RejectRun,
         WP!RejectRun, Web!run, WP!run, Web!PrintOutput, WP!PrintOutput, Web!WriteFile,
         WP!WriteFile, Web!Proceed, WP!Proceed, Web!At, WP!At, Web!Ask, WP!Ask, Web!RunOK,
         WP!RunOK, Web!InputCount, WP!InputCount, Web!Ordered, WP!Ordered, Web!Write,
         WP!Write, Web!Dispatch, WP!Dispatch, Web!CopyTo, WP!CopyTo, Web!Uses, WP!Uses,
         Web!Queued, WP!Queued, Web!Kept, WP!Kept, Web!After, WP!After, Web!Bad, WP!Bad,
         Web!Halves, WP!Halves, Web!parse_input, WP!parse_input, Web!Initial, WP!Initial,
         Web!OutputWords, WP!OutputWords, Web!Zeros, WP!Zeros, Web!opening, WP!opening,
         Web!table, WP!table, Web!device, WP!device
<1>3. /\ Web!Events <=> WP!Events
      /\ Web!DeviceStep <=> WP!DeviceStep
      /\ Web!DeviceLost <=> WP!DeviceLost
      /\ Web!Die <=> WP!Die
      /\ Web!Ended <=> WP!Ended
  BY DEF
         Web!Events, WP!Events, Web!Callback, WP!Callback, Web!CallbackFails,
         WP!CallbackFails, Web!DeviceStep, WP!DeviceStep, Web!DeviceLost, WP!DeviceLost,
         Web!Die, WP!Die, Web!Ended, WP!Ended, Web!Running, WP!Running, Web!Write, WP!Write,
         Web!Dispatch, WP!Dispatch, Web!CopyTo, WP!CopyTo, Web!Uses, WP!Uses, Web!Queued,
         WP!Queued, Web!Kept, WP!Kept, Web!After, WP!After, Web!opening, WP!opening,
         Web!table, WP!table, Web!device, WP!device, Web!vars, WP!vars
<1> QED BY <1>1, <1>2, <1>3 DEF Web!Next, WP!Next

\* The two copies of the host have the same properties.
LEMMA SameProperties ==
    /\ Web!OneOwner <=> WP!OneOwner
    /\ Web!RunPrints <=> WP!RunPrints
<1>1. Web!OneOwner <=> WP!OneOwner
  BY DEF
         Web!OneOwner, WP!OneOwner, Web!Running, WP!Running, Web!Cardinality, WP!Cardinality
<1>2. Web!RunPrints <=> WP!RunPrints
  BY DEF
         Web!RunPrints, WP!RunPrints, Web!InputCount, WP!InputCount, Web!Bad, WP!Bad,
         Web!Halves, WP!Halves, Web!parse_input, WP!parse_input, Web!Initial, WP!Initial,
         Web!OutputWords, WP!OutputWords, Web!Zeros, WP!Zeros
<1> QED BY <1>1, <1>2

Alike == Web!View = WP!View

\* The two copies show names the same.
LEMMA SameView == Alike
BY DEF Alike,
       Web!View, WP!View, Web!Settled, WP!Settled, Web!Later, WP!Later, Web!BufferOf,
       WP!BufferOf, Web!PipelineOf, WP!PipelineOf, Web!Known, WP!Known, Web!find_entry,
       WP!find_entry, Web!After, WP!After

\* The two copies show names the same after a step.
LEMMA SameViewNext == Alike'
BY SameView, PTL

\* The two copies promise the same store.
LEMMA SamePromise ==
    /\ Web!Promise!Init <=> WP!Promise!Init
    /\ [Web!Promise!Next]_(Web!Promise!vars) <=> [WP!Promise!Next]_(WP!Promise!vars)
<1>1. Web!Promise!Init <=> WP!Promise!Init
  BY SameView DEF Alike,
         Web!Promise!Init, WP!Promise!Init, Web!Promise!Nothing, WP!Promise!Nothing,
         Web!Running, WP!Running
<1>2. Web!Promise!Next <=> WP!Promise!Next
  BY SameView, SameViewNext DEF Alike,
         Web!Promise!Next, WP!Promise!Next, Web!Promise!Nothing, WP!Promise!Nothing,
         Web!Promise!Buffer, WP!Promise!Buffer, Web!Promise!Kernel, WP!Promise!Kernel,
         Web!Promise!IsBuffer, WP!Promise!IsBuffer, Web!Promise!IsKernel,
         WP!Promise!IsKernel, Web!Promise!SetBuffer, WP!Promise!SetBuffer,
         Web!Promise!SetKernel, WP!Promise!SetKernel, Web!Promise!Run, WP!Promise!Run,
         Web!Promise!Read, WP!Promise!Read, Web!Promise!Free, WP!Promise!Free,
         Web!Promise!End, WP!Promise!End, Web!Running, WP!Running, Web!Bad, WP!Bad,
         Web!Halves, WP!Halves, Web!parse_input, WP!parse_input, Web!Initial, WP!Initial,
         Web!OutputWords, WP!OutputWords, Web!Zeros, WP!Zeros
<1>3. UNCHANGED Web!Promise!vars <=> UNCHANGED WP!Promise!vars
  BY SameView, SameViewNext DEF Alike,
         Web!Promise!vars, WP!Promise!vars, Web!Running, WP!Running
<1> QED BY <1>1, <1>2, <1>3

-----------------------------------------------------------------------------
(* The theorems. *)

\* The WebGPU host begins with its invariant.
LEMMA WebStarts == BothInit => WP!WorkInv /\ WP!Promise!Init
<1> SUFFICES ASSUME BothInit PROVE WP!WorkInv /\ WP!Promise!Init
  OBVIOUS
<1>1. WP!HostAssumption
  BY WebAssumption, SameAssumption
<1>2. WP!Starts
  <2>1. CASE WebIdle
    BY <2>1, SameInit DEF WebIdle, WP!Starts
  <2>2. CASE Web!Init
    BY <2>2, SameInit, WP!InitStarts
  <2> QED BY <2>1, <2>2 DEF BothInit
<1> QED BY <1>1, <1>2, WP!StartsWork

\* Every step of the composition keeps the WebGPU host's invariant and store.
LEMMA WebSteps ==
    WP!WorkInv /\ [BothNext]_bothVars => WP!WorkInv' /\ [WP!Promise!Next]_(WP!Promise!vars)
<1> SUFFICES ASSUME WP!WorkInv, [BothNext]_bothVars
             PROVE  WP!WorkInv' /\ [WP!Promise!Next]_(WP!Promise!vars)
  OBVIOUS
<1>1. WP!HostAssumption
  BY WebAssumption, SameAssumption
<1>2. [WP!Next]_(WP!vars)
  <2>1. CASE Web!Next
    BY <2>1, SameNext
  <2>2. CASE UNCHANGED webVars
    BY <2>2 DEF webVars, WP!vars
  <2> QED BY <2>1, <2>2 DEF BothNext, bothVars
<1> QED BY <1>1, <1>2, WP!StepWork

\* The WebGPU host's invariant holds in the composition.
LEMMA WebInvariance == BothSpec => []WP!WorkInv
BY WebStarts, WebSteps, PTL DEF BothSpec

\* Every reference of the WebGPU host has one owner, for every number of names,
\* buffers, pipelines and table entries: `free`, new_entry and the release of the
\* readback buffer neither leak a reference nor give one up twice.
THEOREM WebOwnership == BothSpec => []WebOneOwner
<1>1. WP!WorkInv => WebOneOwner
  BY WebAssumption, SameAssumption, SameProperties, WP!InvWorks DEF WebOneOwner
<1> QED BY <1>1, WebInvariance, PTL

\* The CUDA host begins with its invariant.
LEMMA CudaStarts == BothInit => RunInv
<1> SUFFICES ASSUME BothInit
             PROVE  RunInv
  OBVIOUS
<1>1. CASE HostInit
  BY <1>1, HostStarts
<1>2. CASE CudaIdle
  BY <1>2 DEF CudaIdle, RunInv
<1> QED BY <1>1, <1>2 DEF BothInit

\* Every step of the composition keeps the CUDA host's invariant.
LEMMA CudaSteps == RunInv /\ [BothNext]_bothVars => RunInv'
<1> SUFFICES ASSUME RunInv, [BothNext]_bothVars
             PROVE  RunInv'
  OBVIOUS
<1>1. [HostNext]_hostVars
  BY DEF BothNext, bothVars
<1> QED BY <1>1, HostKeeps, SessionAssumption, RequestsAssumption

\* `run` of either host prints what its launch or dispatch computed from the inputs
\* and the initial words of its output (those words when no workgroup ran), and
\* ends with success only after that: in the CUDA host every allocation is then
\* given back, in the WebGPU host the device is used only once its callback has
\* brought it.
THEOREM BothRun == BothSpec => []RunsPrint
<1>1. WP!WorkInv => Web!RunPrints
  BY WebAssumption, SameAssumption, SameProperties, WP!InvWorks
<1>2. RunInv => RunPrints
  BY HostPrints, SessionAssumption, RequestsAssumption
<1>3. BothSpec => []RunInv
  BY CudaStarts, CudaSteps, PTL DEF BothSpec
<1>4. WP!WorkInv /\ RunInv => RunsPrint
  BY <1>1, <1>2 DEF RunsPrint
<1> QED BY <1>3, <1>4, WebInvariance, PTL

\* A session of the WebGPU host keeps the promise of the store: to its client every
\* command takes effect at once and in order, for every table, queue and set of
\* shaders, though the host waits for the queue only when it reads, and buffers
\* are freed and replaced while queued tasks use them.
THEOREM WebImplementation == BothSpec => WebImplementsStore
<1>1. BothInit => Web!Promise!Init
  BY WebStarts, SamePromise
<1>2. WP!WorkInv /\ [BothNext]_bothVars => [Web!Promise!Next]_(Web!Promise!vars)
  BY WebSteps, SamePromise
<1> QED BY <1>1, <1>2, WebInvariance, PTL
        DEF BothSpec, WebImplementsStore, Web!ImplementsStore, Web!Promise!Spec
=============================================================================
