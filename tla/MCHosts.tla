------------------------------- MODULE MCHosts -------------------------------
(***************************************************************************)
(* The two hosts on small command lines.                                   *)
(***************************************************************************)
EXTENDS NativeHost

vars == <<allVars, nativeVars>>

Init == HostInit /\ ScriptInit /\ NativeInit

\* Both processes have ended, or the host waits for a client's command.
Rest == /\ \/ Ended /\ nstep \in {"waiting", "exited"}
           \/ step = "script" /\ input = NoInput
        /\ UNCHANGED vars

Next ==
    \/ ProcessNext /\ UNCHANGED nativeVars
    \/ NativeNext /\ UNCHANGED allVars
    \/ Rest

\* The host starts, and goes on with the command it has read: what it calls
\* returns.  The client need not send another command.
Fairness == WF_vars((ParseOptions \/ Dispatch \/ init_runtime) /\ UNCHANGED <<scriptVars, nativeVars>>)
              /\ WF_vars(ScriptStep /\ UNCHANGED nativeVars)

Spec == Init /\ [][Next]_vars /\ Fairness

-----------------------------------------------------------------------------
(* The model: the module may change a word or grow the memory, and returns      *)
(* numbers, the pointers it was given and one outside memory.                   *)

Scraps == {0, 1, 2, 7, Wrap - 1}

MCTouch(l, m) ==
    {m, [m EXCEPT !.size = MemoryLimit]}
      \cup {[m EXCEPT !.mem[a] = v] :
              a \in IF l.touch = "any" THEN HeapBase..(m.size - 1) ELSE {HeapBase + 6},
              v \in IF l.touch = "any" THEN Scraps ELSE {0}}

Words(m) == {0, 2, Wrap - 1} \cup {m.args[i].bits : i \in DOMAIN m.args}

RECURSIVE MCReturned(_, _)
MCReturned(gives, m) ==
    IF gives = <<>> THEN {<<>>}
    ELSE {<<Value(Head(gives), b)>> \o rest :
            b \in IF Head(gives) = "i64" THEN Words(m) ELSE {1}, rest \in MCReturned(Tail(gives), m)}

Arg(spec, text) == [spec |-> spec, text |-> text]
Single(kind) == [form |-> "single", kinds |-> <<kind>>]
List(kinds) == [form |-> "list", kinds |-> kinds]
Slots(n) == [form |-> "slots", kinds |-> [i \in 1..n |-> "i64"]]

Plain == [mode |-> "call", wasi |-> FALSE, stdin |-> FALSE, stdout |-> FALSE,
          control |-> FALSE, alloc |-> "bump", touch |-> "some",
          args |-> <<>>, takes |-> <<>>, result |-> Single("i64"), gives |-> <<"i64">>]

Call(args, takes, result, gives) ==
    [Plain EXCEPT !.args = args, !.takes = takes, !.result = result, !.gives = gives]
Object(spec, text) == Call(<<Arg(spec, text)>>, <<"i64">>, Single(spec), <<"i64">>)
Rewritten(l) == [l EXCEPT !.touch = "any"]
InMode(mode, l) == [l EXCEPT !.mode = mode]

\* Each kind of object, given and returned.
Objects ==
    {Rewritten(Object("chain-u64", <<4, 5>>)), Rewritten(Object("chain-u64", <<Empty>>)),
     Rewritten(Object("tree-u64", <<4, Dot, 5, Dot, Dot>>)),
     Rewritten(Object("records-u64", <<2, 1, 1, 0, 4, 5>>)),
     Rewritten(Object("array-u64", <<4, 5>>)), Object("file-u64", <<4, 5>>),
     Object("array-u64", <<>>), Object("array-u64", <<4, Empty>>),
     Call(<<Arg("bytes", <<4, 5>>)>>, <<"i64", "i64">>, Single("bytes"), <<"i64", "i64">>)}

\* Texts that are no argument, and modules that cannot take one.
BadCalls ==
    {Object("chain-u64", <<4, Bad>>), Object("tree-u64", <<4, Dot>>),
     Object("tree-u64", <<4, Dot, Dot, 5>>), Object("records-u64", <<2, 9, 4, 5>>),
     Object("records-u64", <<1, Bad>>), Object("file-u64", <<Bad>>), Object("pair", <<4>>),
     [Object("bytes", <<4>>) EXCEPT !.alloc = "outside"],
     [Object("chain-u64", <<4>>) EXCEPT !.alloc = "outside"],
     [Object("array-u64", <<4>>) EXCEPT !.alloc = "missing"],
     Object("array-u64", <<1, 2, 3, 4, 5, 6, 7, 8, 9, 1, 2, 3, 4, 5, 6, 7, 8, 9, 1, 2, 3, 4>>)}

Mixed ==
    {Rewritten(Call(<<Arg("bytes", <<4, 5, 4, 5>>), Arg("chain-u64", <<4>>)>>, <<"i64", "i64", "i64">>,
              List(<<"i64", "chain-u64">>), <<"i64", "i64">>)),
     Call(<<Arg("i64", <<4>>), Arg("f64", <<5>>)>>, <<"i64", "f64">>,
          List(<<"f64", "bytes", "tree-u64">>), <<"f64", "i64", "i64", "i64">>),
     Call(<<Arg("i64", <<4>>), Arg("i64", <<4>>), Arg("bytes", <<4>>)>>,
          <<"i64", "i64", "i64", "i64">>, Slots(2), <<"i64", "i64">>),
     Call(<<Arg("i64", <<4>>), Arg("i64", <<4>>), Arg("i64", <<4>>), Arg("bytes", <<4>>)>>,
          <<"i64", "i64", "i64", "i64", "i64">>, Slots(2), <<"i64", "i64">>),
     Call(<<Arg("i64", <<Empty>>)>>, <<"f64">>, Single("i64"), <<"i64">>),
     Call(<<Arg("f32", <<FloatLimit - 1>>), Arg("f32", <<Empty>>)>>, <<"f32", "f32">>,
          Single("f32"), <<"f32">>),
     Call(<<Arg("i64", <<FloatLimit>>), Arg("f32", <<FloatLimit>>)>>, <<"i64", "f32">>,
          Single("i64"), <<"i64">>),
     Call(<<>>, <<>>, Slots(2), <<"i64", "f64">>), Call(<<>>, <<>>, Slots(5), <<"i64">>),
     Call(<<>>, <<>>, Single("f64"), <<"f64">>), Call(<<>>, <<>>, Single("f64"), <<"i64">>),
     Call(<<>>, <<>>, Single("pair"), <<"i64">>), Call(<<>>, <<>>, List(<<"i64", "pair">>), <<"i64", "i64">>),
     InMode("call-stats", Object("array-u64", <<4>>)),
     InMode("bench", Object("chain-u64", <<4>>)), InMode("bench", Object("array-u64", <<4, 5, 4, 5, 4>>))}

Guest(l) == [l EXCEPT !.wasi = TRUE]
WithFiles(l) == [l EXCEPT !.wasi = TRUE, !.control = TRUE, !.stdin = TRUE]

Processes ==
    {InMode("run", Plain), [InMode("run", Plain) EXCEPT !.control = TRUE],
     [InMode("run", Plain) EXCEPT !.stdout = TRUE], InMode("help", Plain),
     [InMode("help", Plain) EXCEPT !.wasi = TRUE, !.control = TRUE],
     Guest(Plain), [Guest(Plain) EXCEPT !.stdout = TRUE], [Plain EXCEPT !.stdin = TRUE],
     WithFiles(Object("chain-u64", <<4>>)), WithFiles(InMode("call-stats", Plain)),
     [Guest(InMode("session", Plain)) EXCEPT !.control = TRUE]}

\* A script calls an export of one argument, or of none.
Function == Call(<<>>, <<"i64">>, Single("i64"), <<"i64">>)
Scripts == {InMode("session", Function), InMode("script", WithFiles(Function)),
            InMode("script", Plain)}

MCLines == Objects \cup BadCalls \cup Mixed \cup Processes \cup Scripts

Word(n) == [src |-> "word", n |-> n]
Result(n) == [src |-> "result", n |-> n]
Variable(n) == [src |-> "u64", n |-> n]

MCCommands ==
    {[op |-> "alloc", id |-> 0, size |-> 2], [op |-> "alloc", id |-> 2, size |-> 2],
     [op |-> "alloc", id |-> 1, size |-> 20],
     [op |-> "bytes", id |-> 1, text |-> <<4>>], [op |-> "bytes-file", id |-> 1, text |-> <<Bad>>],
     [op |-> "file-u64", id |-> 0, text |-> <<4>>],
     [op |-> "keep", id |-> 1, value |-> Result(0)],
     [op |-> "write-u64", id |-> 0, offset |-> 0, word |-> 1],
     [op |-> "write-ptr", id |-> 1, offset |-> 1, to |-> 0],
     [op |-> "write-bytes", id |-> 0, offset |-> 1, text |-> <<4, 4>>],
     [op |-> "arg-u64", value |-> Word(7)], [op |-> "arg-u64", value |-> Variable(0)],
     [op |-> "arg-ptr", id |-> 0], [op |-> "arg-f64", word |-> 1],
     [op |-> "call", count |-> 1], [op |-> "call", count |-> 9],
     [op |-> "read-u64", id |-> 0, value |-> Result(0), offset |-> 0],
     [op |-> "read-memory", value |-> Result(0), size |-> 2],
     [op |-> "save-u64", value |-> Word(7)],
     [op |-> "stats"], [op |-> "memory-size"], [op |-> "done"], [op |-> "jump"]}
=============================================================================
