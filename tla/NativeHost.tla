----------------------------- MODULE NativeHost -----------------------------
(***************************************************************************)
(* tools/native-host.c, the host of a module translated to C, after        *)
(* tools/wasmtime-host.c has made the same call: it "prints the same       *)
(* lines".  Its functions repeat those of HostObjects; what differs is     *)
(* here: an empty number is no number, a trap of any export ends the       *)
(* process with status 2, the call is checked against the export's type by *)
(* counting, and results are printed as they are read.  `bench` is that of *)
(* tools/native-bench.c.                                                   *)
(*                                                                         *)
(* The module does the same in both: where the first host saw a call       *)
(* return or trap, so does this one.                                       *)
(***************************************************************************)
EXTENDS WasmtimeScript

VARIABLES nstep,     \* where the process is
          nmachine,  \* the module's memory and the values passed
          nresults,  \* the values of the last call
          nout,      \* lines of standard output
          nstatus,   \* exit status
          ntimed,    \* timed calls of `bench`
          nsaved     \* words a `file-u64` result wrote

nativeVars == <<nstep, nmachine, nresults, nout, nstatus, ntimed, nsaved>>

NativeInit ==
    /\ nstep = "waiting"
    /\ nmachine = Machine(line.alloc, FALSE)
    /\ nresults = <<>>
    /\ nout = <<>>
    /\ nstatus = Running
    /\ ntimed = 0
    /\ nsaved = <<>>

\* The process ends with `code`, its output as it stands.
exit(code, lines) ==
    /\ nstep' = "exited"
    /\ nstatus' = code
    /\ nout' = nout \o lines
    /\ UNCHANGED <<nmachine, nresults, nsaved>>

NativeGo(place) ==
    nstep' = place /\ UNCHANGED <<nmachine, nresults, nout, nstatus, nsaved>>

\* The other host's call of the export trapped, or it did not come to one.
Trapped == outcome.kind = "trap" /\ status = 2
NotCalled == outcome # Return /\ ~Trapped

NativeModes == {"call", "call-stats", "bench"}

-----------------------------------------------------------------------------
(* Start and arguments. *)

\* A command other than these is a usage error.
NativeMain ==
    /\ nstep = "waiting" /\ Ended /\ ~Wasi
    /\ IF line.mode \in NativeModes THEN NativeGo("start") ELSE exit(2, <<>>)

\* lx_init and `reset`: neither fails where the Wasmtime host got further.
host_start ==
    /\ nstep = "start"
    /\ \/ NativeGo("place")
       \/ NotCalled /\ exit(1, <<>>)
       \/ NotCalled /\ exit(2, <<>>)

\* Two values are kept free for a byte string.
PlaceValue(m, arg) == parse_arg(Require(m, Len(m.args) + 2 <= MaxArgs), arg)
PlaceValues(m) == Sq!FoldLeft(PlaceValue, [m EXCEPT !.args = <<>>], line.args)

MatchesType(m) ==
    Len(m.args) = Len(line.takes) /\ WidthOf(line.result.kinds) = Len(line.gives)

host_place_args ==
    LET n == PlaceValues(nmachine)
        accepted == KnownResult(line.result) /\ MatchesType(n)
    IN \/ /\ Runs(n) /\ accepted
          /\ nmachine' = n
          /\ nstep' = "call"
          /\ UNCHANGED <<nresults, nout, nstatus, nsaved>>
       \/ n.fate = "trapped" /\ exit(2, <<>>)
       \/ n.fate = "died" /\ exit(1, <<>>)
       \/ Runs(n) /\ ~accepted /\ exit(1, <<>>)

\* The export may be missing, if the other host did not find it either.
NativePlace ==
    /\ nstep = "place"
    /\ \/ host_place_args
       \/ NotCalled /\ exit(1, <<>>)

-----------------------------------------------------------------------------
(* The call. *)

Known == outcome = Return /\ line.mode # "bench"

\* host_invoke: the module does what it did for the other host, if it got there.
\* Where it did not, what it does to memory is left out: nothing is compared.
Touched == IF Known THEN {machine}
           ELSE IF line.mode = "bench" THEN Left(nmachine) ELSE {nmachine}

host_invoke ==
    /\ nstep = "call"
    /\ \/ /\ nmachine' \in Touched
          /\ nresults' \in (IF Known THEN {results} ELSE Given(nmachine))
          /\ ~Trapped
          /\ nstep' = "called"
          /\ UNCHANGED <<nout, nstatus, nsaved>>
       \/ ~Known /\ exit(2, <<>>)

\* call_export prints; `bench` may place the arguments and call again.
NativeCalled ==
    /\ nstep = "called"
    /\ \/ NativeGo("print") /\ UNCHANGED ntimed
       \/ /\ line.mode = "bench" /\ ntimed < MaxTimed
          /\ host_place_args
          /\ ntimed' = ntimed + 1

-----------------------------------------------------------------------------
(* Results: written as they are read. *)

native_u64_chain(m, p) == Direct(walk_u64_chain(m, p))

\* Without a bracket before them, a tree or records may fail with nothing written.
WrittenTree(w) == IF w.out = <<>> THEN Nothing ELSE Direct(w)
native_u64_tree(m, p) == WrittenTree(walk_u64_tree(m, p))
native_records(m, p) == WrittenTree(walk_records(m, p))

print_result(m, kind, value) ==
    CASE kind \in WordKinds -> Printed(<<Line("result", <<value>>, TRUE)>>, TRUE)
      [] kind = "array-u64" -> PrintArray(m, value)
      [] kind = "chain-u64" -> native_u64_chain(m, value)
      [] kind = "tree-u64" -> native_u64_tree(m, value)
      [] kind = "records-u64" -> native_records(m, value)
      [] OTHER -> Nothing

NativeItem_first(m, kind, values) ==
    IF kind = "bytes" THEN print_bytes(m, values[1].bits, values[1].bits)
    ELSE print_result(m, kind, values[1].bits)

NativeItem(m, kind, values) ==
    IF kind = "bytes" THEN print_bytes(m, values[1].bits, values[2].bits)
    ELSE print_result(m, kind, values[1].bits)

NativeList(m, kinds, values) ==
    Listed([i \in 1..Len(kinds) |-> NativeItem(m, kinds[i], ItemValues(kinds, values, i))])

\* The kinds of the values are not looked at.
host_print_results(m, r, values) ==
    IF r.form = "list" THEN NativeList(m, r.kinds, values)
    ELSE IF r.form = "slots" \/ r.kinds = <<"i64">> THEN
            Direct(Walk(TRUE, [i \in DOMAIN values |-> values[i].bits], 0))
    ELSE IF r.kinds = <<"file-u64">> THEN Printed(<<>>, ArrayInRange(m, values[1].bits))
    ELSE NativeItem(m, r.kinds[1], values)

\* A file or a counter that the other host could not have, this one cannot.
Unsaved == SavesFile /\ status = 1
NoStats == line.mode = "call-stats" /\ status = 1

NativePrint ==
    /\ nstep = "print"
    /\ LET p == host_print_results(nmachine, line.result, nresults)
       IN \/ /\ p.ok /\ ~Unsaved
             /\ nout' = nout \o p.lines
             /\ nsaved' = IF SavesFile THEN save_u64_array(nmachine, nresults[1].bits) ELSE nsaved
             /\ nstep' = "finish"
             /\ UNCHANGED <<nmachine, nresults, nstatus>>
          \/ ~p.ok /\ exit(1, p.lines)
          \/ p.ok /\ Unsaved /\ exit(1, <<>>)

NativeTrailer ==
    CASE line.mode = "call-stats" -> <<Outcome("stats")>>
      [] line.mode = "bench" -> <<Line("bench", <<ntimed>>, TRUE)>>
      [] OTHER -> <<>>

NativeFinish ==
    /\ nstep = "finish"
    /\ IF NoStats THEN exit(1, <<>>) ELSE exit(0, NativeTrailer)

NativeNext ==
    \/ /\ \/ NativeMain \/ host_start \/ NativePlace
          \/ host_invoke \/ NativePrint \/ NativeFinish
       /\ UNCHANGED ntimed
    \/ NativeCalled

-----------------------------------------------------------------------------
(* Properties. *)

Whole(lines) == SelectSeq(lines, LAMBDA l : l.whole)

\* The command line is one of the corpus: its numbers are not empty, its values
\* leave room for two more, and its result describes the export's type.
ResultKind(kind) == IF kind \in {"f64", "f32"} THEN kind ELSE "i64"
InCorpus ==
    /\ \A i \in DOMAIN line.args : Empty \notin Sq!ToSet(line.args[i].text)
    /\ WidthOf([i \in DOMAIN line.args |-> line.args[i].spec]) + 2 <= MaxArgs
    /\ \A i \in DOMAIN line.gives : "bytes" \notin Sq!ToSet(line.result.kinds) =>
          line.gives[i] = ResultKind(line.result.kinds[i])

GivenArgs ==
    nstep = "call" =>
       \A i \in DOMAIN line.args :
          Described(nmachine, line.args[i], 1 + ValuesBefore(SubSeq(line.args, 1, i - 1)))

Comparable ==
    /\ nstep = "exited" /\ step = "exited" /\ ~lost
    /\ line.mode \in {"call", "call-stats"} /\ InCorpus /\ ~NotCalled

\* "prints the same lines, so that the corpus of tests/verified runs unchanged":
\* each call is given the objects its arguments describe; and where the call
\* returned or trapped in the Wasmtime host, this one ends with the same status
\* and the same whole lines, and saves the same words.  Of a malformed result it
\* may leave a line that the other does not begin.  The walks of a result are the
\* operators of HostObjects in both, so this is about what surrounds them.
SameCall ==
    /\ GivenArgs
    /\ Comparable => /\ nstatus = status
                     /\ nsaved = saved
                     /\ Whole(nout) = Whole(control)
                     /\ status # 1 => nout = control
=============================================================================
