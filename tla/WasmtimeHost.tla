----------------------------- MODULE WasmtimeHost ----------------------------
(***************************************************************************)
(* The process of tools/wasmtime-host.c: it checks its options, makes an   *)
(* engine, a module, a store and an instance, places the arguments of a    *)
(* call in the module's memory, calls the export once or, to measure it,   *)
(* several times, and prints the results.  Every failure ends the process  *)
(* through finish_host, which deletes what Wasmtime gave, and closes the   *)
(* control output.  The commands of `script` and `session` are in          *)
(* WasmtimeScript; those that test an allocator are left out.              *)
(*                                                                         *)
(* Wasmtime and the module are external: a call returns, traps, ends the   *)
(* process through WASI or fails, and leaves any of the effects Touch      *)
(* allows in memory.                                                       *)
(***************************************************************************)
EXTENDS HostObjects, FiniteSets

CONSTANTS Lines,          \* the command lines
          MaxArgs,        \* 256: the size of args in call_export
          MaxResults,     \* 128: the size of results
          MaxTimed,       \* bound of the model: timed calls of `bench`
          Exits,          \* the statuses a module ends with through WASI
          Returned(_, _), \* the values an export returns: its type, the machine
          Touch(_, _)     \* the machines a call can leave: the command line, the machine

\* A command line describes its result, and the module the values it gives; a
\* result of one kind has one.
ASSUME HostAssumption ==
    \A l \in Lines :
       /\ l.result.form \in {"single", "slots", "list"}
       /\ l.result.kinds \in Seq(STRING) /\ l.gives \in Seq(STRING)
       /\ l.result.form = "single" => Len(l.result.kinds) = 1

VARIABLES line,      \* the command line
          step,      \* where the process is
          machine,   \* the module's memory and the values passed
          outcome,   \* how the call ended: None before it
          results,   \* the values the last call returned
          control,   \* the lines of the control output
          recorded,  \* outcome_recorded
          lost,      \* writing the control output failed
          status,    \* the exit status, or Running
          held,      \* the handles in Runtime that are not NULL
          alive,     \* the objects Wasmtime has made and not deleted
          timed,     \* the timed calls of `bench` so far
          saved      \* the words a `file-u64` result wrote

process == <<recorded, lost, status, held, alive>>
hostVars == <<line, step, machine, outcome, results, control, process, timed, saved>>

Running == -1
Ended == step \in {"exited", "rejected"}

IsCommand == line.mode = "run"
IsScript == line.mode \in {"script", "session"}
Wasi == line.wasi \/ IsCommand
control_records == ~IsCommand \/ line.control

\* A line of the control output; one that is not whole was cut by a failure.
Line(what, words, whole) == [what |-> what, words |-> words, whole |-> whole]
Outcome(what) == Line(what, <<>>, TRUE)

None == [kind |-> "none"]
Return == [kind |-> "return"]

HostInit ==
    /\ line \in Lines
    /\ step = "options"
    /\ machine = Machine(line.alloc, TRUE)
    /\ outcome = None
    /\ results = <<>>
    /\ control = <<>>
    /\ recorded = FALSE
    /\ lost = FALSE
    /\ status = Running
    /\ held = {} /\ alive = {}
    /\ timed = 0
    /\ saved = <<>>

-----------------------------------------------------------------------------
(* The end of the process: "exited", or "rejected" before there is a control *)
(* output.                                                                  *)

Go(place) == step' = place

ErrorLine(code, rec) ==
    IF code # 0 /\ ~rec /\ step # "options" /\ Wasi /\ control_records
    THEN <<Outcome("error")>> ELSE <<>>

\* dispose_runtime deletes what the handles hold; finish_host adds the record of
\* an error, and fails when the output could not be written.
Finish(code, lines, rec) ==
    /\ Go(IF step = "options" THEN "rejected" ELSE "exited")
    /\ control' = control \o lines \o ErrorLine(code, rec)
    /\ recorded' = rec
    /\ lost' \in BOOLEAN
    /\ status' = IF lost' THEN 1 ELSE code
    /\ alive' = alive \ held
    /\ held' = {}
    /\ UNCHANGED <<line, machine, outcome, results, timed, saved>>

die == Finish(1, <<>>, recorded)

\* How a call into Wasmtime fails.  Only a module with WASI can ask for an exit.
Failures == {[kind |-> "trap"], [kind |-> "error"]}
              \cup (IF Wasi THEN [kind : {"exit"}, code : Exits] ELSE {})

check_outcome_unrecorded(o, trapStatus) ==
    CASE o.kind = "exit" ->
           Finish(o.code % 256,
                  IF control_records THEN <<Line("wasi-exit", <<o.code>>, TRUE)>> ELSE <<>>, FALSE)
      [] o.kind = "error" -> die
      [] OTHER -> Finish(trapStatus,
                         IF trapStatus = 2 /\ Wasi /\ control_records
                         THEN <<Outcome("trap")>> ELSE <<>>,
                         trapStatus = 2 /\ Wasi /\ control_records)

\* A failed call: an exit through WASI, an error, or a trap, which is recorded
\* when it is that of the export the client asked for (trapStatus 2).
check_outcome(o, trapStatus) ==
    CASE o.kind = "exit" ->
           Finish(o.code % 256,
                  IF control_records THEN <<Line("wasi-exit", <<o.code>>, TRUE)>> ELSE <<>>, TRUE)
      [] o.kind = "error" -> die
      [] OTHER -> Finish(trapStatus,
                         IF trapStatus = 2 /\ Wasi /\ control_records
                         THEN <<Outcome("trap")>> ELSE <<>>,
                         trapStatus = 2 /\ Wasi /\ control_records)

OnlyGo(place) ==
    Go(place) /\ UNCHANGED <<line, machine, outcome, results, control, process, timed, saved>>

-----------------------------------------------------------------------------
(* Start. *)

\* The options that are rejected.
parse_options ==
    \/ ~Wasi /\ (line.stdin \/ line.stdout)
    \/ Wasi /\ ~IsCommand /\ ~line.control /\ ~line.stdout
    \/ Wasi /\ ~line.stdin /\ IsScript

\* The control file, if any, is opened last.
ParseOptions ==
    /\ step = "options"
    /\ \/ ~parse_options /\ OnlyGo("dispatch")
       \/ (parse_options \/ line.control) /\ die

Modes == {"run", "call", "call-stats", "bench", "script", "session", "test"}

\* usage: an unknown mode, or the wrong number of arguments.
Dispatch ==
    /\ step = "dispatch"
    /\ IF line.mode \in Modes THEN OnlyGo("engine") ELSE die

\* A call to Wasmtime gives an object, or NULL or an error.
Make(object, next) ==
    \/ /\ held' = held \cup {object}
       /\ alive' = alive \cup {object}
       /\ Go(next)
       /\ UNCHANGED <<line, machine, outcome, results, control, recorded, lost, status,
                      timed, saved>>
    \/ die

NewEngine == step = "engine" /\ Make("engine", "module")
NewModule == step = "module" /\ Make("module", "store")
NewStore == step = "store" /\ Make("store", "streams")

\* A guest stream or the linker cannot be had.
configure_wasi ==
    /\ step = "streams"
    /\ \/ OnlyGo("instance")
       \/ Wasi /\ die

DropModule_dangling == alive' = alive \ {"module"} /\ held' = held
DropModule == alive' = alive \ {"module"} /\ held' = held \ {"module"}

\* The module is deleted before the outcome of its instantiation is looked at.
Instantiate ==
    /\ step = "instance"
    /\ DropModule
    /\ outcome' \in Failures \cup {None}
    /\ Go(IF outcome' = None THEN "exports" ELSE "unstarted")
    /\ UNCHANGED <<line, machine, results, control, recorded, lost, status, timed, saved>>

NotInstantiated == step = "unstarted" /\ check_outcome(outcome, 1)

Begin == IF IsScript THEN "script" ELSE IF line.mode = "test" THEN "test" ELSE "place"

\* An export of the wrong kind ends the process.
BindExports ==
    /\ step = "exports"
    /\ \/ OnlyGo(IF IsCommand THEN "start" ELSE "reset")
       \/ die

\* The rest of init_runtime: the heap of the module is reset.
ResetHeap ==
    /\ step = "reset"
    /\ \/ OnlyGo(Begin)
       \/ \E o \in Failures : check_outcome(o, 1)

\* `run`: `_start` is called once, if it is there.
RunProgram ==
    /\ step = "start"
    /\ \/ Finish(0, IF control_records THEN <<Outcome("return")>> ELSE <<>>, recorded)
       \/ \E o \in Failures : check_outcome(o, 2)
       \/ die

init_runtime == NewEngine \/ NewModule \/ NewStore \/ configure_wasi \/ Instantiate
                  \/ NotInstantiated \/ BindExports \/ ResetHeap

-----------------------------------------------------------------------------
(* A call: `call`, `call-stats` and `bench`. *)

\* The arguments are placed one after the other, and at most MaxArgs values.
place_args(m) ==
    Sq!FoldLeft(LAMBDA n, arg : LET full == Require(n, Len(n.args) < MaxArgs)
                                    next == parse_arg(full, arg)
                                IN Require(next, Len(next.args) <= MaxArgs),
                [m EXCEPT !.args = <<>>], line.args)

Width(kind) == IF kind = "bytes" THEN 2 ELSE 1
WidthOf(kinds) == Len(kinds) + Cardinality({i \in DOMAIN kinds : kinds[i] = "bytes"})
ObjectKinds == {"bytes", "array-u64", "chain-u64", "tree-u64", "records-u64", "file-u64"}

\* A result is one kind, `slots:N` or a list.  Only its count is looked at before
\* the call; an unknown kind in a list is not noticed.
KnownResult(r) == /\ r.form = "single" => r.kinds[1] \in WordKinds \cup ObjectKinds
                  /\ WidthOf(r.kinds) <= MaxResults

\* call_export and bench_export up to the call; the export may be missing.
PlaceArgs ==
    /\ step = "place"
    /\ LET n == place_args(machine)
       IN \/ /\ Runs(n) /\ KnownResult(line.result)
             /\ machine' = n
             /\ outcome' = None
             /\ Go("call")
             /\ UNCHANGED <<line, results, control, process, timed, saved>>
          \/ n.fate = "trapped" /\ check_outcome([kind |-> "trap"], 1)
          \/ die

\* The module runs.  Wasmtime fails a call that does not have the export's type.
WellTyped(args, kinds) ==
    /\ [i \in DOMAIN args |-> args[i].kind] = line.takes
    /\ Len(line.gives) = WidthOf(kinds)

\* It leaves words in memory, and returns values of its type.
Left(m) == {n \in Touch(line, m) : n \in Machines}
Given(m) == {v \in Returned(line.gives, m) : v \in Seq(Values) /\ Len(v) = Len(line.gives)}

CallExport ==
    /\ step = "call"
    /\ \/ /\ WellTyped(machine.args, line.result.kinds)
          /\ outcome' = Return
          /\ machine' \in Left(machine)
          /\ results' \in Given(machine)
       \/ /\ WellTyped(machine.args, line.result.kinds)
          /\ outcome' \in Failures
          /\ UNCHANGED <<machine, results>>
       \/ /\ ~WellTyped(machine.args, line.result.kinds)
          /\ outcome' = [kind |-> "error"]
          /\ UNCHANGED <<machine, results>>
    /\ Go("called")
    /\ UNCHANGED <<line, control, process, timed, saved>>

PlaceAgain_skipped ==
    /\ machine' = machine
    /\ Go("call")
    /\ timed' = timed + 1
    /\ UNCHANGED <<line, outcome, results, control, process, saved>>

\* `bench` places the arguments again before each timed call, for the call may
\* have consumed them.
PlaceAgain ==
    LET n == place_args(machine)
    IN \/ /\ Runs(n)
          /\ machine' = n
          /\ Go("call")
          /\ timed' = timed + 1
          /\ UNCHANGED <<line, outcome, results, control, process, saved>>
       \/ n.fate = "trapped" /\ check_outcome([kind |-> "trap"], 1)

\* A call is printed; `bench` may go on before the time is over.
AfterCall ==
    /\ step = "called"
    /\ \/ outcome = Return /\ OnlyGo("print")
       \/ outcome = Return /\ line.mode = "bench" /\ timed < MaxTimed /\ PlaceAgain
       \/ outcome # Return /\ check_outcome(outcome, 2)

-----------------------------------------------------------------------------
(* Results. *)

Printed(lines, ok) == [lines |-> lines, ok |-> ok]
Nothing == Printed(<<>>, FALSE)

\* A walk that is written as it goes, and one that is checked before.
Direct(w) == Printed(<<Line("result", w.out, w.ok)>>, w.ok)
Checked(w) == IF w.ok THEN Direct(w) ELSE Nothing

print_bytes(m, p, len) == IF InRange(m, p, len) THEN Direct(WalkWords(m, p, len)) ELSE Nothing
PrintArray(m, p) ==
    IF ArrayInRange(m, p) THEN Direct(WalkWords(m, p + 1, m.mem[p])) ELSE Nothing
print_u64_chain_unchecked(m, p) == Direct(walk_u64_chain(m, p))
print_u64_chain(m, p) == Checked(walk_u64_chain(m, p))
print_u64_tree(m, p) == Checked(walk_u64_tree(m, p))
print_records(m, p) == Checked(walk_records(m, p))

\* An object at p (and, for a byte string, its length).
PrintObject(m, kind, p, len) ==
    CASE kind = "bytes" -> print_bytes(m, p, len)
      [] kind = "array-u64" -> PrintArray(m, p)
      [] kind = "chain-u64" -> print_u64_chain(m, p)
      [] kind = "tree-u64" -> print_u64_tree(m, p)
      [] kind = "records-u64" -> print_records(m, p)
      [] OTHER -> Nothing

PrintItem(m, kind, values) ==
    IF kind \in WordKinds THEN Printed(<<Line("result", <<values[1].bits>>, TRUE)>>, TRUE)
    ELSE PrintObject(m, kind, values[1].bits, values[Len(values)].bits)

\* How many of 1..n are good before the first that is not.
Leading(n, good) == CHOOSE k \in 0..n : 1..k \subseteq good /\ (k = n \/ k + 1 \notin good)

\* The values of the i-th item of a list.
ItemValues(kinds, values, i) ==
    LET before == WidthOf(SubSeq(kinds, 1, i - 1))
    IN SubSeq(values, before + 1, before + Width(kinds[i]))

\* A line for each item, until one is malformed.
Listed(item) ==
    LET n == Leading(Len(item), {i \in DOMAIN item : item[i].ok})
    IN Printed([i \in 1..n |-> item[i].lines[1]]
                 \o (IF n = Len(item) THEN <<>> ELSE item[n + 1].lines),
               n = Len(item))

PrintList(m, kinds, values) ==
    Listed([i \in 1..Len(kinds) |-> PrintItem(m, kinds[i], ItemValues(kinds, values, i))])

\* `i64` and `slots:N`: one line, cut at a value that is no i64.
PrintSlots(values) ==
    LET n == Leading(Len(values), {i \in DOMAIN values : values[i].kind = "i64"})
        words == [i \in 1..n |-> values[i].bits]
    IN IF n = 0 /\ values # <<>> THEN Nothing ELSE Direct(Walk(n = Len(values), words, 0))

IsFloat(r) == r.form = "single" /\ r.kinds[1] \in {"f64", "f32"}

print_call_results(m, r, values) ==
    IF r.form = "list" THEN PrintList(m, r.kinds, values)
    ELSE IF r.form = "slots" \/ r.kinds = <<"i64">> THEN PrintSlots(values)
    ELSE IF IsFloat(r) THEN (IF values[1].kind = r.kinds[1] THEN PrintItem(m, "f64", values) ELSE Nothing)
    ELSE IF r.kinds = <<"file-u64">> THEN Printed(<<>>, ArrayInRange(m, values[1].bits))
    ELSE PrintItem(m, r.kinds[1], values)

\* The words save_u64_array writes.
save_u64_array(m, p) == WalkWords(m, p + 1, m.mem[p]).out

\* What the mode prints after the results.  A module may lack its counters.
Trailer ==
    CASE line.mode = "call-stats" -> <<Outcome("stats")>>
      [] line.mode = "bench" -> <<Line("bench", <<timed>>, TRUE), Outcome("init")>>
      [] OTHER -> <<>>

SavesFile == line.result.form = "single" /\ line.result.kinds = <<"file-u64">>

PrintResults ==
    /\ step = "print"
    /\ LET p == print_call_results(machine, line.result, results)
       IN \/ /\ p.ok
             /\ control' = control \o p.lines
             /\ saved' = IF SavesFile THEN save_u64_array(machine, results[1].bits) ELSE saved
             /\ Go("finish")
             /\ UNCHANGED <<line, machine, outcome, results, process, timed>>
          \/ ~p.ok /\ Finish(1, p.lines, recorded)
          \/ SavesFile /\ die

FinishCall ==
    /\ step = "finish"
    /\ \/ Finish(0, Trailer, recorded)
       \/ line.mode = "call-stats" /\ die

CallMode == PlaceArgs \/ CallExport \/ AfterCall \/ PrintResults \/ FinishCall

HostNext == ParseOptions \/ Dispatch \/ init_runtime \/ RunProgram \/ CallMode

-----------------------------------------------------------------------------
(* Properties. *)

Outcomes == {"error", "trap", "wasi-exit", "return"}
OutcomeLines == {i \in DOMAIN control : control[i].what \in Outcomes}

StatusOf(o) == CASE o.what = "error" -> 1
                 [] o.what = "trap" -> 2
                 [] o.what = "wasi-exit" -> o.words[1] % 256
                 [] o.what = "return" -> 0

\* "the control output of a failed run ends with `wasi-exit N`, `trap`, or
\* `error`": with WASI and control records, whatever fails and wherever, there is
\* one record of it, it is the last line, and the exit status is the one it
\* stands for; without a record the status is 0.
OutcomeRecorded ==
    step = "exited" =>
       LET expected == IF OutcomeLines = {} THEN 0 ELSE StatusOf(control[Len(control)])
       IN /\ OutcomeLines \subseteq {Len(control)}
          /\ Wasi /\ control_records => status = IF lost THEN 1 ELSE expected
          /\ ~(Wasi /\ control_records) => OutcomeLines = {}
          /\ status = 0 => \A i \in DOMAIN control : control[i].whole

\* Everything Wasmtime made is deleted exactly once, whichever call failed: the
\* handles are those of the objects that are alive.
DisposedOnce == held = alive /\ (Ended => alive = {})

\* A malformed result prints nothing of itself: every line of a result is whole,
\* and they are those of the first items of a list.  A value of `slots:N` that is
\* no i64 is the exception.
WholeLines ==
    /\ \A i \in DOMAIN control : control[i].whole \/ line.result.form = "slots"
    /\ Ended /\ status = 0 /\ outcome = Return /\ ~IsScript /\ ~IsCommand =>
          Cardinality({i \in DOMAIN control : control[i].what = "result"})
             = IF SavesFile THEN 0 ELSE IF line.result.form = "list" THEN Len(line.result.kinds) ELSE 1

\* What the value at k (and the next, for a byte string) of a machine's values
\* stands for, read back.
Described(m, arg, k) ==
    LET p == m.args[k].bits
        numbers == [i \in DOMAIN arg.text |-> Number(arg.text[i])]
        Is(w, tokens) == w.ok /\ w.out = tokens
    IN CASE arg.spec \in WordKinds -> m.args[k] = Value(arg.spec, numbers[1])
         [] arg.spec = "bytes" -> /\ m.args[k + 1].bits = Len(arg.text)
                                  /\ InRange(m, p, Len(arg.text))
                                  /\ Is(WalkWords(m, p, Len(arg.text)), arg.text)
         [] arg.spec \in {"array-u64", "file-u64"} ->
                 ArrayInRange(m, p) /\ Is(WalkWords(m, p + 1, m.mem[p]), numbers)
         [] arg.spec = "chain-u64" -> Is(walk_u64_chain(m, p), numbers)
         [] arg.spec = "tree-u64" -> Is(walk_u64_tree(m, p), arg.text)
         [] arg.spec = "records-u64" -> Is(walk_records(m, p), arg.text)

ValuesBefore(args) == WidthOf([i \in DOMAIN args |-> args[i].spec])

\* Every call, the timed ones of `bench` too, is given the objects its arguments
\* describe, whatever was allocated and however the memory grew after each was
\* written, and whatever an earlier call left of them.  Numbers and bytes fail to
\* be placed only where a text is no number, or an f32 has more than 32 bits.
ArgsIntact ==
    /\ step = "call" =>
          \A i \in DOMAIN line.args :
             Described(machine, line.args[i], 1 + ValuesBefore(SubSeq(line.args, 1, i - 1)))
    /\ step = "place" /\ place_args(machine).fate = "died" =>
          \/ line.alloc # "bump"
          \/ WidthOf([i \in DOMAIN line.args |-> line.args[i].spec]) > MaxArgs
          \/ \E i \in DOMAIN line.args : \/ line.args[i].spec \notin ObjectKinds \cup WordKinds
                                         \/ Bad \in Sq!ToSet(line.args[i].text)
                                         \/ line.args[i].spec \in {"tree-u64", "records-u64"}
                                         \/ /\ line.args[i].spec = "f32"
                                            /\ line.args[i].text[1] >= FloatLimit
=============================================================================
