--------------------------- MODULE WasmtimeScript ---------------------------
(***************************************************************************)
(* `script` and `session` of tools/wasmtime-host.c: the commands of a      *)
(* client that builds objects, calls exports and reads memory, one line    *)
(* each.  The client of a session waits for the answer of a command before *)
(* it sends the next, and it sees what the host has flushed.               *)
(***************************************************************************)
EXTENDS WasmtimeHost

CONSTANTS Commands,     \* what a client sends
          IdLimit,      \* 4096: allocation and variable ids
          MaxCommands   \* bound of the model: commands of one script

VARIABLES input,    \* the line the host has not read yet
          ids,      \* addresses by allocation id
          words,    \* words by variable id
          called,   \* an export was called
          given,    \* arguments the client has sent since its last call
          sent,     \* commands sent
          owed,     \* lines the client waits for
          visible   \* lines flushed to the client

scriptVars == <<input, ids, words, called, given, sent, owed, visible>>
allVars == <<hostVars, scriptVars>>

NoInput == [op |-> "none"]
EndOfInput == [op |-> "end"]
IsSession == line.mode = "session"

ScriptInit ==
    /\ input = NoInput
    /\ ids = [i \in 0..(IdLimit - 1) |-> 0]
    /\ words = [i \in 0..(IdLimit - 1) |-> 0]
    /\ called = FALSE
    /\ given = 0 /\ sent = 0 /\ owed = 0 /\ visible = 0

-----------------------------------------------------------------------------
(* The client. *)

ArgCommands == {"arg-u64", "arg-ptr", "arg-f64"}
Answering == {"call", "read-u64", "read-memory", "save-u64", "stats", "memory-size"}

Send(c) ==
    /\ IsScript /\ ~Ended
    /\ input = NoInput
    /\ IsSession => visible >= owed
    /\ IF c = EndOfInput THEN sent' = sent ELSE sent < MaxCommands /\ sent' = sent + 1
    /\ input' = c
    /\ owed' = owed + (IF c.op \in Answering THEN 1 ELSE 0)
    /\ given' = given + (IF c.op \in ArgCommands THEN 1 ELSE 0)
    /\ UNCHANGED <<hostVars, ids, words, called, visible>>

-----------------------------------------------------------------------------
(* The host.  What a command leaves: the machine, the tables and the lines. *)

\* A value: a word, a result of the last call, or a variable.
Resolves(v) == CASE v.src = "result" -> v.n < Len(results)
                 [] v.src = "u64" -> v.n < IdLimit
                 [] OTHER -> v.n # Bad
resolve_script_value(v) == CASE v.src = "result" -> results[v.n + 1].bits
                             [] v.src = "u64" -> words[v.n]
                             [] OTHER -> v.n

\* checked_add_u64: a sum that wraps ends the process, as any address outside
\* memory does.
Address(c) == ids[c.id] + c.offset

Stay == [m |-> machine, ids |-> ids, words |-> words, lines |-> <<>>, saved |-> saved]
After(m) == [Stay EXCEPT !.m = m]
Rejected == After(Require(machine, FALSE))
Keeping(id, m) == IF Runs(m) THEN [After(m) EXCEPT !.ids[id] = m.ptr] ELSE After(m)
Answered(what, tokens) == [Stay EXCEPT !.lines = <<Line(what, tokens, TRUE)>>]
Passing(value) == IF Len(machine.args) < MaxArgs
                  THEN After([machine EXCEPT !.args = Append(@, value)]) ELSE Rejected

ReadWord(c, a) ==
    IF called /\ Within(machine, a)
    THEN [Answered("u64", <<c.id, machine.mem[a]>>) EXCEPT !.words[c.id] = machine.mem[a]]
    ELSE Rejected

ReadRange(p, len) ==
    IF called /\ InRange(machine, p, len)
    THEN Answered("memory", <<p, len>> \o WalkWords(machine, p, len).out) ELSE Rejected

SaveArray(p) ==
    IF ArrayInRange(machine, p)
    THEN [Answered("saved", <<machine.mem[p]>>) EXCEPT !.saved = save_u64_array(machine, p)]
    ELSE Rejected

\* The commands that call no export of the client's.
Ran(c) ==
    IF \/ "id" \in DOMAIN c /\ c.id >= IdLimit
       \/ "value" \in DOMAIN c /\ ~Resolves(c.value)
       \/ "text" \in DOMAIN c /\ Bad \in Sq!ToSet(c.text)
    THEN Rejected
    ELSE CASE c.op = "alloc" -> Keeping(c.id, call_alloc(machine, c.size))
           [] c.op \in {"bytes", "bytes-file"} -> Keeping(c.id, alloc_bytes(machine, c.text))
           [] c.op = "file-u64" -> Keeping(c.id, alloc_u64_file(machine, c.text))
           [] c.op = "keep" -> [Stay EXCEPT !.ids[c.id] = resolve_script_value(c.value)]
           [] c.op = "write-u64" -> After(write_u64_at(machine, Address(c), c.word))
           [] c.op = "write-ptr" -> After(write_u64_at(machine, Address(c), ids[c.to]))
           [] c.op = "write-bytes" ->
                After(WriteAll(Require(machine, InRange(machine, Address(c), Len(c.text))),
                               Address(c), c.text))
           [] c.op = "arg-u64" -> Passing(Value("i64", resolve_script_value(c.value)))
           [] c.op = "arg-ptr" -> Passing(Value("i64", ids[c.id]))
           [] c.op = "arg-f64" -> Passing(Value("f64", c.word))
           [] c.op = "read-u64" -> ReadWord(c, resolve_script_value(c.value) + c.offset)
           [] c.op = "read-memory" -> ReadRange(resolve_script_value(c.value), c.size)
           [] c.op = "save-u64" -> SaveArray(resolve_script_value(c.value))
           [] c.op = "stats" -> Answered("stats", <<>>)
           [] c.op = "memory-size" -> Answered("memory-size", <<machine.size>>)
           [] OTHER -> Rejected

flush_missing == visible' = visible

\* A session flushes after each command.
flush == visible' = IF IsSession THEN Len(control') ELSE visible

Reading(op) == IsScript /\ step = "script" /\ input.op = op

\* A command may also end the process where the module has no counters for
\* `stats`, or a session cannot flush.
Execute ==
    /\ IsScript /\ step = "script"
    /\ input.op \notin {"none", "end", "call", "done"}
    /\ input' = NoInput
    /\ LET e == Ran(input)
       IN \/ /\ Runs(e.m)
             /\ machine' = e.m /\ ids' = e.ids /\ words' = e.words /\ saved' = e.saved
             /\ control' = control \o e.lines
             /\ flush
             /\ UNCHANGED <<line, step, outcome, results, process, timed, called>>
          \/ /\ e.m.fate = "died" \/ input.op = "stats" \/ IsSession
             /\ die
             /\ UNCHANGED <<ids, words, called, visible>>
          \/ /\ e.m.fate = "trapped" /\ check_outcome([kind |-> "trap"], 1)
             /\ UNCHANGED <<ids, words, called, visible>>
    /\ UNCHANGED <<given, sent, owed>>

\* `call`, which a script does once.  The results must all be i64.
MayCall_unguarded == TRUE
MayCall == ~called \/ IsSession

CallCommand ==
    /\ Reading("call")
    /\ MayCall /\ input.count <= MaxResults
    /\ [i \in DOMAIN machine.args |-> machine.args[i].kind] = line.takes
    /\ Len(line.gives) = input.count
    /\ \/ /\ \A i \in DOMAIN line.gives : line.gives[i] = "i64"
          /\ results' \in Given(machine)
          /\ \E m \in Left(machine) : machine' = [m EXCEPT !.args = <<>>]
          /\ called' = TRUE
          /\ control' = Append(control,
                Line("results", [i \in DOMAIN results' |-> results'[i].bits], TRUE))
          /\ flush
          /\ UNCHANGED <<line, step, outcome, process, timed, saved>>
       \/ (\E o \in Failures : check_outcome(o, 2)) /\ UNCHANGED <<called, visible>>
    /\ input' = NoInput
    /\ given' = 0
    /\ UNCHANGED <<ids, words, sent, owed>>

\* A call that is refused: a second one of a script, an unknown export, another
\* type or number of results, or a result that is no i64.
CallRefused ==
    /\ Reading("call")
    /\ die
    /\ input' = NoInput
    /\ UNCHANGED <<ids, words, called, given, sent, owed, visible>>

\* `done` or the end of the input, which come after a call.
EndScript ==
    /\ Reading("done") \/ Reading("end")
    /\ Finish(IF called THEN 0 ELSE 1, <<>>, recorded)
    /\ input' = NoInput
    /\ UNCHANGED <<ids, words, called, given, sent, owed, visible>>

ScriptStep == Execute \/ CallCommand \/ CallRefused \/ EndScript

Client == \E c \in Commands \cup {EndOfInput} : Send(c)

\* The process with its client.
ProcessNext == (HostNext /\ UNCHANGED scriptVars) \/ Client \/ ScriptStep
ProcessSpec == HostInit /\ ScriptInit /\ [][ProcessNext]_allVars

-----------------------------------------------------------------------------
(* Properties. *)

Called == {i \in DOMAIN control : control[i].what = "results"}

\* A script calls once, and only a guest that exits ends it well before that; a call is given the
\* arguments sent since the one before it, neither more nor fewer.
CallsAsSent ==
    /\ IsScript /\ Ended /\ status = 0 /\ OutcomeLines = {} => Called # {}
    /\ line.mode = "script" => Cardinality(Called) <= 1
    /\ Reading("call") => Len(machine.args) = given

\* A client that waits for an answer before it sends more is answered, or the
\* session ends: the answer does not stay in a buffer.
SessionAnswers == (IsSession /\ visible < owed) ~> (Ended \/ visible >= owed)
=============================================================================
