-------------------------- MODULE WasmtimeHost_proofs -------------------------
(***************************************************************************)
(* The process of the Wasmtime host with its client, for every set of      *)
(* command lines and commands and whatever the module leaves and returns:  *)
(* one record of every failure and one status, everything deleted once,    *)
(* results whole or not at all, and the calls of a script.                 *)
(***************************************************************************)
EXTENDS WasmtimeScript, FiniteSetTheorems, SequenceTheorems, WellFoundedInduction, TLAPS

-----------------------------------------------------------------------------
(* Sequences of anything. *)

IsSeq(s) == \E S : s \in Seq(S)

\* What a sequence of anything is.
LEMMA SeqOfAny ==
    ASSUME NEW s, IsSeq(s)
    PROVE  Len(s) \in Nat /\ DOMAIN s = 1..Len(s)
BY DEF IsSeq

\* The sequences that the process writes at once.
LEMMA ShortSeqs ==
    /\ IsSeq(<<>>) /\ Len(<<>>) = 0 /\ DOMAIN <<>> = {}
    /\ \A x : IsSeq(<<x>>) /\ Len(<<x>>) = 1 /\ DOMAIN <<x>> = {1} /\ <<x>>[1] = x
<1>1. <<>> \in Seq({})
  OBVIOUS
<1>2. ASSUME NEW x PROVE <<x>> \in Seq({x}) /\ Len(<<x>>) = 1 /\ DOMAIN <<x>> = {1} /\ <<x>>[1] = x
  OBVIOUS
<1>3. IsSeq(<<>>)
  BY <1>1 DEF IsSeq
<1>4. ASSUME NEW x PROVE IsSeq(<<x>>)
  BY <1>2 DEF IsSeq
<1> QED BY <1>2, <1>3, <1>4

\* u is s and then t.
Joins(u, s, t) ==
    /\ IsSeq(u) /\ Len(u) = Len(s) + Len(t) /\ DOMAIN u = 1..(Len(s) + Len(t))
    /\ \A i \in 1..Len(s) : u[i] = s[i]
    /\ \A i \in 1..Len(t) : u[Len(s) + i] = t[i]
    /\ \A i \in 1..(Len(s) + Len(t)) :
          i \in 1..Len(s) \/ (i - Len(s) \in 1..Len(t) /\ u[i] = t[i - Len(s)])

\* One sequence after the other.
LEMMA Joined ==
    ASSUME NEW s, NEW t, IsSeq(s), IsSeq(t)
    PROVE  Joins(s \o t, s, t)
<1>1. PICK S : s \in Seq(S)
  BY DEF IsSeq
<1>2. PICK T : t \in Seq(T)
  BY DEF IsSeq
<1>3. s \in Seq(S \cup T) /\ t \in Seq(S \cup T)
  BY <1>1, <1>2, SeqMonotonic
<1>4. Len(s) \in Nat /\ Len(t) \in Nat
  BY <1>1, <1>2
<1>5. /\ s \o t \in Seq(S \cup T) /\ Len(s \o t) = Len(s) + Len(t)
      /\ \A i \in 1..(Len(s) + Len(t)) :
            (s \o t)[i] = IF i <= Len(s) THEN s[i] ELSE t[i - Len(s)]
  BY <1>3, ConcatProperties
<1>6. IsSeq(s \o t) /\ DOMAIN (s \o t) = 1..(Len(s) + Len(t))
  BY <1>5 DEF IsSeq
<1>7. \A i \in 1..Len(s) : (s \o t)[i] = s[i]
  BY <1>4, <1>5
<1>8. \A i \in 1..Len(t) : (s \o t)[Len(s) + i] = t[i]
  <2> SUFFICES ASSUME NEW i \in 1..Len(t) PROVE (s \o t)[Len(s) + i] = t[i]
    OBVIOUS
  <2>1. Len(s) + i \in 1..(Len(s) + Len(t)) /\ ~(Len(s) + i <= Len(s)) /\ Len(s) + i - Len(s) = i
    BY <1>4
  <2> QED BY <1>5, <2>1
<1>9. \A i \in 1..(Len(s) + Len(t)) :
         i \in 1..Len(s) \/ (i - Len(s) \in 1..Len(t) /\ (s \o t)[i] = t[i - Len(s)])
  <2> SUFFICES ASSUME NEW i \in 1..(Len(s) + Len(t)), i \notin 1..Len(s)
               PROVE  i - Len(s) \in 1..Len(t) /\ (s \o t)[i] = t[i - Len(s)]
    OBVIOUS
  <2>1. ~(i <= Len(s)) /\ i - Len(s) \in 1..Len(t)
    BY <1>4
  <2> QED BY <1>5, <2>1
<1> QED BY <1>5, <1>6, <1>7, <1>8, <1>9 DEF Joins

\* The lines of a kind.
Marked(s, W) == {i \in DOMAIN s : s[i].what \in W}

\* Lines of another kind add none.
LEMMA MarkedKept ==
    ASSUME NEW s, NEW t, NEW W, IsSeq(s), IsSeq(t), Marked(t, W) = {}
    PROVE  Marked(s \o t, W) = Marked(s, W)
<1>1. DOMAIN s = 1..Len(s) /\ DOMAIN t = 1..Len(t) /\ Len(s) \in Nat /\ Len(t) \in Nat
  BY SeqOfAny
<1>2. \A i \in 1..Len(t) : t[i].what \notin W
  BY <1>1 DEF Marked
<1>3. ASSUME NEW i \in Marked(s \o t, W) PROVE i \in Marked(s, W)
  <2>1. i \in 1..(Len(s) + Len(t)) /\ (s \o t)[i].what \in W
    BY <1>3, Joined DEF Marked, Joins
  <2>2. CASE i \in 1..Len(s)
    BY <1>1, <2>1, <2>2, Joined DEF Marked, Joins
  <2>3. CASE i - Len(s) \in 1..Len(t) /\ (s \o t)[i] = t[i - Len(s)]
    BY <1>2, <2>1, <2>3
  <2> QED BY <2>1, <2>2, <2>3, Joined DEF Joins
<1>4. ASSUME NEW i \in Marked(s, W) PROVE i \in Marked(s \o t, W)
  <2>1. i \in 1..Len(s) /\ s[i].what \in W
    BY <1>1, <1>4 DEF Marked
  <2>2. i \in DOMAIN (s \o t) /\ (s \o t)[i] = s[i]
    BY <1>1, <2>1, Joined DEF Joins
  <2> QED BY <2>1, <2>2 DEF Marked
<1> QED BY <1>3, <1>4

\* One line of the kind adds its place.
LEMMA MarkedOne ==
    ASSUME NEW s, NEW l, NEW W, IsSeq(s), l.what \in W
    PROVE  /\ Marked(s \o <<l>>, W) = Marked(s, W) \cup {Len(s) + 1}
           /\ Len(s \o <<l>>) = Len(s) + 1 /\ (s \o <<l>>)[Len(s) + 1] = l
<1> DEFINE t == <<l>>
<1>1. IsSeq(t) /\ Len(t) = 1 /\ DOMAIN t = {1} /\ t[1] = l
  BY ShortSeqs
<1>2. DOMAIN s = 1..Len(s) /\ Len(s) \in Nat
  BY SeqOfAny
<1> HIDE DEF t
<1>3. /\ DOMAIN (s \o t) = 1..(Len(s) + 1) /\ Len(s \o t) = Len(s) + 1
      /\ \A i \in 1..Len(s) : (s \o t)[i] = s[i]
      /\ (s \o t)[Len(s) + 1] = l
  <2>1. 1 \in 1..Len(t) /\ Len(t) = 1
    BY <1>1
  <2>2. /\ DOMAIN (s \o t) = 1..(Len(s) + Len(t)) /\ Len(s \o t) = Len(s) + Len(t)
        /\ \A i \in 1..Len(s) : (s \o t)[i] = s[i]
        /\ \A i \in 1..Len(t) : (s \o t)[Len(s) + i] = t[i]
    <3>1. IsSeq(t)
      BY <1>1
    <3>2. Joins(s \o t, s, t)
      BY <3>1, Joined
    <3> QED BY <3>2 DEF Joins
  <2>3. (s \o t)[Len(s) + 1] = t[1]
    BY <2>1, <2>2
  <2> QED BY <1>1, <2>1, <2>2, <2>3
<1>4. Marked(s \o t, W) = Marked(s, W) \cup {Len(s) + 1}
  <2>1. ASSUME NEW i \in Marked(s \o t, W) PROVE i \in Marked(s, W) \cup {Len(s) + 1}
    <3>1. i \in 1..Len(s) \/ i = Len(s) + 1
      BY <1>2, <1>3, <2>1 DEF Marked
    <3> QED BY <1>2, <1>3, <2>1, <3>1 DEF Marked
  <2>2. ASSUME NEW i \in Marked(s, W) PROVE i \in Marked(s \o t, W)
    <3>1. i \in 1..Len(s) /\ i \in 1..(Len(s) + 1)
      BY <1>2, <2>2 DEF Marked
    <3> QED BY <1>3, <2>2, <3>1 DEF Marked
  <2>3. Len(s) + 1 \in Marked(s \o t, W)
    BY <1>2, <1>3 DEF Marked
  <2> QED BY <2>1, <2>2, <2>3
<1> QED BY <1>3, <1>4 DEF t

-----------------------------------------------------------------------------
(* How the process ends. *)

Recording == Wasi /\ control_records

\* An end that leaves the right record: of an error nothing is written yet; a
\* record stands for the status; without records nothing is written; and a
\* success leaves no record.
EndsWell(code, lines, rec) ==
    /\ IsSeq(lines) /\ Marked(lines, {"results"}) = {}
    /\ (\A i \in DOMAIN lines : lines[i].whole) \/ (line.result.form = "slots" /\ code # 0)
    /\ \/ code = 1 /\ ~rec /\ Marked(lines, Outcomes) = {}
       \/ /\ Recording /\ (rec \/ code = 0)
          /\ \E l : lines = <<l>> /\ l.what \in Outcomes /\ StatusOf(l) = code
       \/ ~Recording /\ lines = <<>>
       \/ code = 0 /\ Marked(lines, Outcomes) = {}
    /\ code = 0 /\ outcome = Return /\ ~IsScript =>
          step = "finish" /\ Marked(lines, {"result"}) = {}
    /\ code = 0 /\ IsScript => called \/ Marked(lines, Outcomes) # {}

Ends == \E code, lines, rec : Finish(code, lines, rec) /\ EndsWell(code, lines, rec)

\* What is written at once, of one line or none.
LEMMA OneLine ==
    /\ \A W : Marked(<<>>, W) = {}
    /\ \A l, W : l.what \notin W => Marked(<<l>>, W) = {}
    /\ \A l, W : l.what \in W => Marked(<<l>>, W) # {}
    /\ \A i \in DOMAIN <<>> : FALSE
    /\ \A l : l.whole => \A i \in DOMAIN <<l>> : <<l>>[i].whole
<1>1. \A W : Marked(<<>>, W) = {}
  BY ShortSeqs DEF Marked
<1>2. ASSUME NEW l, NEW W, l.what \notin W PROVE Marked(<<l>>, W) = {}
  BY <1>2, ShortSeqs DEF Marked
<1>3. ASSUME NEW l, NEW W, l.what \in W PROVE Marked(<<l>>, W) # {}
  <2>1. 1 \in Marked(<<l>>, W)
    BY <1>3, ShortSeqs DEF Marked
  <2> QED BY <2>1
<1>4. ASSUME NEW l, l.whole PROVE \A i \in DOMAIN <<l>> : <<l>>[i].whole
  BY <1>4, ShortSeqs
<1> QED BY <1>1, <1>2, <1>3, <1>4, ShortSeqs

\* How a call fails.
LEMMA FailureKinds ==
    ASSUME NEW o \in Failures
    PROVE  \/ o.kind = "trap" \/ o.kind = "error"
           \/ o.kind = "exit" /\ Wasi
BY DEF Failures

\* die: an error of which nothing is written.
LEMMA DieEnds ==
    ASSUME ~recorded, die PROVE Ends
<1>1. EndsWell(1, <<>>, recorded)
  BY OneLine, ShortSeqs DEF EndsWell
<1>2. Finish(1, <<>>, recorded)
  BY DEF die
<1> QED BY <1>1, <1>2 DEF Ends

\* A failed call, which is not the one the export returned from.
LEMMA FailureEnds ==
    ASSUME ~recorded, NEW o \in Failures, NEW ts \in {1, 2}, check_outcome(o, ts),
           outcome # Return \/ o.kind # "exit"
    PROVE  Ends
<1>1. CASE o.kind = "error"
  <2>1. die
    BY <1>1 DEF check_outcome
  <2> QED BY <2>1, DieEnds
<1>2. CASE o.kind = "exit" /\ Wasi
  <2>1. CASE control_records
    <3>1. PICK l : l = Line("wasi-exit", <<o.code>>, TRUE)
      OBVIOUS
    <3>2. Finish(o.code % 256, <<l>>, TRUE)
      BY <1>2, <2>1, <3>1 DEF check_outcome
    <3>3. l.what = "wasi-exit" /\ l.words = <<o.code>> /\ l.whole
      BY <3>1 DEF Line
    <3>4. StatusOf(l) = o.code % 256
      BY <3>3 DEF StatusOf
    <3>5. l.what \in Outcomes /\ Recording /\ l.what \notin {"results"}
      BY <1>2, <2>1, <3>3 DEF Outcomes, Recording
    <3>6. /\ IsSeq(<<l>>) /\ Marked(<<l>>, {"results"}) = {} /\ Marked(<<l>>, Outcomes) # {}
          /\ \A i \in DOMAIN <<l>> : <<l>>[i].whole
      BY <3>3, <3>5, OneLine, ShortSeqs
    <3>7. EndsWell(o.code % 256, <<l>>, TRUE)
      BY <1>2, <3>4, <3>5, <3>6 DEF EndsWell
    <3> QED BY <3>2, <3>7 DEF Ends
  <2>2. CASE ~control_records
    <3>1. Finish(o.code % 256, <<>>, TRUE)
      BY <1>2, <2>2 DEF check_outcome
    <3>2. ~Recording /\ ~IsScript
      BY <2>2 DEF Recording, control_records, IsScript, IsCommand
    <3>3. EndsWell(o.code % 256, <<>>, TRUE)
      BY <1>2, <3>2, OneLine, ShortSeqs DEF EndsWell
    <3> QED BY <3>1, <3>3 DEF Ends
  <2> QED BY <2>1, <2>2
<1>3. CASE o.kind = "trap"
  <2>1. CASE ts = 2 /\ Recording
    <3>1. PICK l : l = Line("trap", <<>>, TRUE)
      OBVIOUS
    <3>2. Finish(2, <<l>>, TRUE)
      BY <1>3, <2>1, <3>1 DEF check_outcome, Recording, Outcome
    <3>3. l.what = "trap" /\ l.whole
      BY <3>1 DEF Line
    <3>4. StatusOf(l) = 2 /\ l.what \in Outcomes
      BY <3>3 DEF StatusOf, Outcomes
    <3>5. /\ IsSeq(<<l>>) /\ Marked(<<l>>, {"results"}) = {}
          /\ \A i \in DOMAIN <<l>> : <<l>>[i].whole
      BY <3>3, OneLine, ShortSeqs
    <3>6. EndsWell(2, <<l>>, TRUE)
      BY <2>1, <3>4, <3>5 DEF EndsWell
    <3> QED BY <3>2, <3>6 DEF Ends
  <2>2. CASE ~(ts = 2 /\ Recording)
    <3>1. Finish(ts, <<>>, FALSE)
      BY <1>3, <2>2 DEF check_outcome, Recording
    <3>2. EndsWell(ts, <<>>, FALSE)
      BY <2>2, OneLine, ShortSeqs DEF EndsWell
    <3> QED BY <3>1, <3>2 DEF Ends
  <2> QED BY <2>1, <2>2
<1> QED BY <1>1, <1>2, <1>3, FailureKinds

-----------------------------------------------------------------------------
(* What a call prints. *)

Below == {ss \in Nat \X Nat : ss[1] < ss[2]}

\* Induction along 0..n.
LEMMA Along ==
    ASSUME NEW n \in Nat, NEW S, 0 \in S, \A k \in 1..n : k - 1 \in S => k \in S
    PROVE  0..n \subseteq S
<1>1. IsWellFoundedOn(Below, Nat)
  BY NatLessThanWellFounded DEF OpToRel, Below
<1> DEFINE T == (0..n) \ S
<1> SUFFICES ASSUME T # {} PROVE FALSE
  OBVIOUS
<1>2. PICK x \in T : \A y \in T : ~(<<y, x>> \in Below)
  <2>1. T \subseteq Nat
    OBVIOUS
  <2> HIDE DEF T
  <2> QED BY <1>1, <2>1, WFMin, Zenon
<1>3. x \in 1..n /\ x - 1 \in 0..n
  OBVIOUS
<1>4. <<x - 1, x>> \in Below
  BY <1>3 DEF Below
<1>5. x - 1 \notin T
  BY <1>2, <1>4
<1> QED BY <1>3, <1>5

\* Leading counts what its comment says.
LEMMA LeadingIs ==
    ASSUME NEW n \in Nat, NEW good, NEW k, k = Leading(n, good)
    PROVE  k \in 0..n /\ 1..k \subseteq good /\ (k = n \/ k + 1 \notin good)
<1> DEFINE Fits(j) == 1..j \subseteq good /\ (j = n \/ j + 1 \notin good)
           S == {j \in 0..n : 1..j \subseteq good}
<1>1. \E j \in 0..n : Fits(j)
  <2> SUFFICES ASSUME \A j \in 0..n : ~Fits(j) PROVE FALSE
    OBVIOUS
  <2>1. 0 \in S
    OBVIOUS
  <2>2. ASSUME NEW j \in 1..n, j - 1 \in S PROVE j \in S
    <3>1. j - 1 \in 0..n /\ 1..(j - 1) \subseteq good /\ j - 1 # n /\ j - 1 + 1 = j /\ j \in 0..n
      BY <2>2
    <3>2. j \in good
      BY <3>1
    <3>3. \A i \in 1..j : i = j \/ i \in 1..(j - 1)
      OBVIOUS
    <3> QED BY <3>1, <3>2, <3>3
  <2>3. 0..n \subseteq S
    <3> HIDE DEF S
    <3> QED BY <2>1, <2>2, Along
  <2>4. n \in 0..n
    OBVIOUS
  <2>5. 1..n \subseteq good
    BY <2>3, <2>4
  <2> QED BY <2>4, <2>5
<1>2. k = CHOOSE j \in 0..n : Fits(j)
  BY DEF Leading
<1> HIDE DEF Fits
<1>3. k \in 0..n /\ Fits(k)
  BY <1>1, <1>2
<1> QED BY <1>3 DEF Fits

\* An item prints one line, which is whole; of a malformed one nothing.
ItemWell(p) ==
    /\ IsSeq(p.lines)
    /\ \A i \in DOMAIN p.lines : p.lines[i].what = "result" /\ p.lines[i].whole
    /\ p.ok => Len(p.lines) = 1

\* Of what is malformed nothing is printed.
LEMMA NothingWell == ItemWell(Nothing) /\ ~Nothing.ok
BY ShortSeqs DEF ItemWell, Nothing, Printed

\* A walk that reached its end is one whole line.
LEMMA DirectWell ==
    ASSUME NEW w, w.ok PROVE ItemWell(Direct(w))
<1>1. PICK l : l = Line("result", w.out, w.ok)
  OBVIOUS
<1>2. l.what = "result" /\ l.whole
  BY <1>1 DEF Line
<1>3. Direct(w).lines = <<l>>
  BY <1>1 DEF Direct, Printed
<1> QED BY <1>2, <1>3, ShortSeqs DEF ItemWell

\* A walk that is checked before it is printed.
LEMMA CheckedWell ==
    ASSUME NEW w PROVE ItemWell(Checked(w))
<1>1. CASE w.ok
  BY <1>1, DirectWell DEF Checked
<1>2. CASE ~w.ok
  BY <1>2, NothingWell DEF Checked
<1> QED BY <1>1, <1>2

\* Words that are all in memory.
LEMMA WordsWell ==
    ASSUME NEW m \in Machines, NEW p \in Int, NEW len \in Int, p + len <= m.size
    PROVE  WalkWords(m, p, len).ok
BY DEF WalkWords, Walk

\* A byte string that is in memory is one whole line.
LEMMA BytesWell ==
    ASSUME NEW m \in Machines, NEW p \in Int, NEW len \in Int
    PROVE  ItemWell(print_bytes(m, p, len))
<1>1. CASE InRange(m, p, len)
  <2>1. m.size \in Int
    BY ObjectAssumption DEF Machines
  <2>2. p + len <= m.size
    BY <1>1, <2>1 DEF InRange
  <2>3. WalkWords(m, p, len).ok
    BY <2>2, WordsWell
  <2> QED BY <1>1, <2>3, DirectWell DEF print_bytes
<1>2. CASE ~InRange(m, p, len)
  BY <1>2, NothingWell DEF print_bytes
<1> QED BY <1>1, <1>2

\* An array in memory: its size in bytes does not wrap.
LEMMA ArrayWell ==
    ASSUME NEW m \in Machines, NEW p \in Int
    PROVE  ItemWell(PrintArray(m, p))
<1>1. CASE ArrayInRange(m, p)
  <2>1. m.size \in 0..MemoryLimit /\ m.mem \in [0..(MemoryLimit - 1) -> Int]
    BY DEF Machines
  <2>2. p >= 0 /\ p < m.size /\ m.mem[p] <= Wrap - 2 /\ (1 + m.mem[p]) % Wrap <= m.size - p
    BY <1>1 DEF ArrayInRange, Within, InRange
  <2>3. MemoryLimit \in Nat /\ Wrap \in Int /\ Wrap > MemoryLimit
    BY ObjectAssumption
  <2>4. m.mem[p] \in Int
    BY <2>1, <2>2, <2>3
  <2>5. PICK w \in Int, size \in Int : w = m.mem[p] /\ size = m.size
    BY <2>1, <2>3, <2>4
  <2>6. p + 1 + m.mem[p] <= m.size
    <3>1. p < size /\ w <= Wrap - 2 /\ (1 + w) % Wrap <= size - p
      BY <2>2, <2>5
    <3>2. w >= 0 => (1 + w) % Wrap = 1 + w
      BY <2>3, <3>1
    <3>3. p + 1 + w <= size
      BY <3>1, <3>2
    <3> QED BY <2>5, <3>3
  <2>7. WalkWords(m, p + 1, m.mem[p]).ok
    BY <2>4, <2>6, WordsWell
  <2> QED BY <1>1, <2>7, DirectWell DEF PrintArray
<1>2. CASE ~ArrayInRange(m, p)
  BY <1>2, NothingWell DEF PrintArray
<1> QED BY <1>1, <1>2

\* An object of any kind.
LEMMA ObjectWell ==
    ASSUME NEW m \in Machines, NEW kind, NEW p \in Int, NEW len \in Int
    PROVE  ItemWell(PrintObject(m, kind, p, len))
<1>1. CASE kind = "bytes"
  BY <1>1, BytesWell DEF PrintObject
<1>2. CASE kind = "array-u64"
  BY <1>2, ArrayWell DEF PrintObject
<1>3. CASE kind = "chain-u64"
  BY <1>3, CheckedWell DEF PrintObject, print_u64_chain
<1>4. CASE kind = "tree-u64"
  BY <1>4, CheckedWell DEF PrintObject, print_u64_tree
<1>5. CASE kind = "records-u64"
  BY <1>5, CheckedWell DEF PrintObject, print_records
<1>6. CASE kind \notin {"bytes", "array-u64", "chain-u64", "tree-u64", "records-u64"}
  BY <1>6, NothingWell DEF PrintObject
<1> QED BY <1>1, <1>2, <1>3, <1>4, <1>5, <1>6

\* One item and its values, which for a byte string are two.
LEMMA ItemPrints ==
    ASSUME NEW m \in Machines, NEW kind, NEW values \in Seq(Values), values # <<>>
    PROVE  ItemWell(PrintItem(m, kind, values))
<1>1. Len(values) \in 1..Len(values) /\ 1 \in 1..Len(values)
  OBVIOUS
<1>2. values[1] \in Values /\ values[Len(values)] \in Values
  BY <1>1
<1>3. values[1].bits \in Int /\ values[Len(values)].bits \in Int
  BY <1>2 DEF Values
<1>4. CASE kind \in WordKinds
  <2>1. PICK l : l = Line("result", <<values[1].bits>>, TRUE)
    OBVIOUS
  <2>2. l.what = "result" /\ l.whole
    BY <2>1 DEF Line
  <2>3. PrintItem(m, kind, values).lines = <<l>>
    BY <1>4, <2>1 DEF PrintItem, Printed
  <2> QED BY <2>2, <2>3, ShortSeqs DEF ItemWell
<1>5. CASE kind \notin WordKinds
  BY <1>3, <1>5, ObjectWell DEF PrintItem
<1> QED BY <1>4, <1>5

\* The kinds of byte strings among some items.
Strings(kinds) == {i \in DOMAIN kinds : kinds[i] = "bytes"}

\* How many values some kinds have.
LEMMA WidthIs ==
    ASSUME NEW kinds \in Seq(STRING)
    PROVE  /\ IsFiniteSet(Strings(kinds)) /\ Cardinality(Strings(kinds)) \in Nat
           /\ WidthOf(kinds) = Len(kinds) + Cardinality(Strings(kinds))
<1>1. DOMAIN kinds = 1..Len(kinds) /\ Len(kinds) \in Nat
  OBVIOUS
<1>2. IsFiniteSet(1..Len(kinds))
  BY <1>1, FS_Interval
<1>3. Strings(kinds) \subseteq 1..Len(kinds)
  BY <1>1 DEF Strings
<1>4. IsFiniteSet(Strings(kinds))
  BY <1>2, <1>3, FS_Subset
<1>5. Cardinality(Strings(kinds)) \in Nat
  BY <1>4, FS_CardinalityType
<1> QED BY <1>4, <1>5 DEF WidthOf, Strings

\* The values of an item are among those of the call.
LEMMA ItemValuesWell ==
    ASSUME NEW kinds \in Seq(STRING), NEW values \in Seq(Values), Len(values) = WidthOf(kinds),
           NEW i \in 1..Len(kinds)
    PROVE  ItemValues(kinds, values, i) \in Seq(Values) /\ ItemValues(kinds, values, i) # <<>>
<1> DEFINE front == SubSeq(kinds, 1, i - 1)
           before == WidthOf(front)
           n == Width(kinds[i])
<1>1. Len(kinds) \in Nat /\ i \in Nat /\ i >= 1 /\ i <= Len(kinds) /\ i - 1 \in Int
  OBVIOUS
<1>2. /\ front \in Seq(STRING) /\ Len(front) = i - 1
      /\ \A j \in 1..(i - 1) : front[j] = kinds[j]
  <2>1. \A j \in 1..(i - 1) : kinds[j] \in STRING
    BY <1>1
  <2>2. /\ SubSeq(kinds, 1, i - 1) \in Seq(STRING)
        /\ Len(SubSeq(kinds, 1, i - 1)) = IF 1 <= i - 1 THEN i - 1 - 1 + 1 ELSE 0
        /\ \A j \in 1..(i - 1 - 1 + 1) : SubSeq(kinds, 1, i - 1)[j] = kinds[1 + j - 1]
    BY <1>1, <2>1, SubSeqProperties
  <2>3. \A j \in 1..(i - 1) : j \in 1..(i - 1 - 1 + 1) /\ 1 + j - 1 = j
    BY <1>1
  <2> QED BY <1>1, <2>2, <2>3
<1> HIDE DEF front
<1>3. before = i - 1 + Cardinality(Strings(front)) /\ Cardinality(Strings(front)) \in Nat
  BY <1>2, WidthIs
<1>4. WidthOf(kinds) = Len(kinds) + Cardinality(Strings(kinds)) /\ IsFiniteSet(Strings(kinds))
      /\ Cardinality(Strings(kinds)) \in Nat
  BY WidthIs
<1>5. Strings(front) \subseteq Strings(kinds) /\ \A j \in Strings(front) : j # i
  <2>1. DOMAIN front = 1..(i - 1) /\ DOMAIN kinds = 1..Len(kinds)
    BY <1>2
  <2>2. ASSUME NEW j \in Strings(front) PROVE j \in Strings(kinds) /\ j # i
    <3>1. j \in 1..(i - 1) /\ front[j] = "bytes"
      BY <2>1, <2>2 DEF Strings
    <3>2. j \in 1..Len(kinds) /\ j # i
      BY <1>1, <3>1
    <3>3. kinds[j] = "bytes"
      BY <1>2, <3>1
    <3> QED BY <2>1, <3>2, <3>3 DEF Strings
  <2> QED BY <2>2
<1>6. before + n <= WidthOf(kinds) /\ n \in {1, 2} /\ before \in Nat
  <2>1. CASE kinds[i] = "bytes"
    <3>1. n = 2
      BY <2>1 DEF Width
    <3>2. i \in Strings(kinds)
      BY <2>1 DEF Strings
    <3>3. IsFiniteSet(Strings(front))
      BY <1>4, <1>5, FS_Subset
    <3>4. Cardinality(Strings(front) \cup {i}) = Cardinality(Strings(front)) + 1
      BY <1>5, <3>3, FS_AddElement
    <3>5. Strings(front) \cup {i} \subseteq Strings(kinds)
      BY <1>5, <3>2
    <3>6. Cardinality(Strings(front)) + 1 <= Cardinality(Strings(kinds))
      BY <1>4, <3>4, <3>5, FS_Subset
    <3> HIDE DEF before, n
    <3> QED BY <1>1, <1>3, <1>4, <3>1, <3>6
  <2>2. CASE kinds[i] # "bytes"
    <3>1. n = 1
      BY <2>2 DEF Width
    <3>2. Cardinality(Strings(front)) <= Cardinality(Strings(kinds))
      BY <1>4, <1>5, FS_Subset
    <3> HIDE DEF before, n
    <3> QED BY <1>1, <1>3, <1>4, <3>1, <3>2
  <2> QED BY <2>1, <2>2
<1>7. ItemValues(kinds, values, i) = SubSeq(values, before + 1, before + n)
  BY DEF ItemValues, front
<1> HIDE DEF before, n
<1>8. before + 1 \in Int /\ before + n \in Int /\ before + 1 <= before + n
  BY <1>6
<1>9. \A j \in (before + 1)..(before + n) : values[j] \in Values
  <2>1. WidthOf(kinds) \in Nat
    BY <1>1, <1>4
  <2>2. \A j \in (before + 1)..(before + n) : j \in 1..Len(values)
    BY <1>6, <2>1
  <2> QED BY <2>2
<1>10. PICK lo \in Int, hi \in Int : lo = before + 1 /\ hi = before + n
  BY <1>8
<1>11. lo <= hi /\ hi - lo + 1 # 0 /\ \A j \in lo..hi : values[j] \in Values
  BY <1>8, <1>9, <1>10
<1>12. /\ SubSeq(values, lo, hi) \in Seq(Values)
       /\ Len(SubSeq(values, lo, hi)) = IF lo <= hi THEN hi - lo + 1 ELSE 0
  BY <1>11, SubSeqProperties
<1>13. SubSeq(values, lo, hi) # <<>>
  BY <1>11, <1>12
<1> QED BY <1>7, <1>10, <1>12, <1>13

\* What a call prints of its results: lines that are whole unless they are the
\* slots of one line; and, if nothing was malformed, one for each item.
PrintsWell(p, r) ==
    /\ IsSeq(p.lines)
    /\ \A i \in DOMAIN p.lines : p.lines[i].what = "result"
    /\ r.form = "slots" \/ \A i \in DOMAIN p.lines : p.lines[i].whole
    /\ p.ok => \A i \in DOMAIN p.lines : p.lines[i].whole
    /\ p.ok => Len(p.lines) = IF r.form = "single" /\ r.kinds = <<"file-u64">> THEN 0
                              ELSE IF r.form = "list" THEN Len(r.kinds) ELSE 1

\* The lines of a list of items.
LEMMA ListedWell ==
    ASSUME NEW n \in Nat, NEW item, item = [i \in 1..n |-> item[i]],
           \A i \in 1..n : ItemWell(item[i])
    PROVE  LET p == Listed(item)
           IN /\ IsSeq(p.lines)
              /\ \A i \in DOMAIN p.lines : p.lines[i].what = "result" /\ p.lines[i].whole
              /\ p.ok => Len(p.lines) = n
<1> DEFINE good == {i \in DOMAIN item : item[i].ok}
           front(k) == [i \in 1..k |-> item[i].lines[1]]
           back(k) == IF k = n THEN <<>> ELSE item[k + 1].lines
<1>1. Len(item) = n /\ DOMAIN item = 1..n
  <2>1. DOMAIN item = 1..n
    OBVIOUS
  <2>2. item \in Seq({item[i] : i \in 1..n})
    OBVIOUS
  <2> QED BY <2>1, <2>2
<1>2. PICK k : k = Leading(n, good)
  OBVIOUS
<1>3. k \in 0..n /\ 1..k \subseteq good /\ (k = n \/ k + 1 \notin good)
  <2> HIDE DEF good
  <2> QED BY <1>2, LeadingIs
<1>4. Listed(item).lines = front(k) \o back(k) /\ (Listed(item).ok <=> k = n)
  BY <1>1, <1>2 DEF Listed, Printed
<1>5. \A i \in 1..k : /\ item[i].lines[1].what = "result" /\ item[i].lines[1].whole
  <2> SUFFICES ASSUME NEW i \in 1..k
               PROVE  item[i].lines[1].what = "result" /\ item[i].lines[1].whole
    OBVIOUS
  <2>1. i \in 1..n /\ item[i].ok
    BY <1>1, <1>3
  <2>2. IsSeq(item[i].lines) /\ Len(item[i].lines) = 1
    BY <2>1 DEF ItemWell
  <2>3. 1 \in DOMAIN item[i].lines
    BY <2>2, SeqOfAny
  <2> QED BY <2>1, <2>3 DEF ItemWell
<1>6. /\ IsSeq(front(k)) /\ Len(front(k)) = k
      /\ \A i \in 1..k : front(k)[i].what = "result" /\ front(k)[i].whole
  <2>1. \A i \in 1..k : front(k)[i] = item[i].lines[1]
    OBVIOUS
  <2>2. PICK S : S = {item[i].lines[1] : i \in 1..k}
    OBVIOUS
  <2>3. front(k) \in [1..k -> S] /\ k \in Nat
    BY <1>3, <2>2
  <2> HIDE DEF front
  <2>4. front(k) \in Seq(S) /\ Len(front(k)) = k
    BY <2>3
  <2>5. IsSeq(front(k))
    BY <2>4 DEF IsSeq
  <2> QED BY <1>5, <2>1, <2>4, <2>5
<1>7. /\ IsSeq(back(k)) /\ Len(back(k)) \in Nat
      /\ \A i \in 1..Len(back(k)) : back(k)[i].what = "result" /\ back(k)[i].whole
      /\ k = n => Len(back(k)) = 0
  <2>1. CASE k = n
    BY <2>1, ShortSeqs
  <2>2. CASE k # n
    <3>1. k + 1 \in 1..n
      BY <1>3, <2>2
    <3>2. ItemWell(item[k + 1])
      BY <3>1
    <3> QED BY <2>2, <3>2, SeqOfAny DEF ItemWell
  <2> QED BY <2>1, <2>2
<1> HIDE DEF front, back
<1>8. Joins(front(k) \o back(k), front(k), back(k))
  BY <1>6, <1>7, Joined
<1>9. \A i \in DOMAIN (front(k) \o back(k)) :
         /\ (front(k) \o back(k))[i].what = "result" /\ (front(k) \o back(k))[i].whole
  BY <1>6, <1>7, <1>8 DEF Joins
<1>10. IsSeq(front(k) \o back(k)) /\ (k = n => Len(front(k) \o back(k)) = n)
  BY <1>3, <1>6, <1>7, <1>8 DEF Joins
<1> QED BY <1>4, <1>9, <1>10

\* The lines of a list, which is printed item by item.
LEMMA ListPrints ==
    ASSUME NEW m \in Machines, NEW kinds \in Seq(STRING), NEW values \in Seq(Values),
           Len(values) = WidthOf(kinds)
    PROVE  LET p == PrintList(m, kinds, values)
           IN /\ IsSeq(p.lines)
              /\ \A i \in DOMAIN p.lines : p.lines[i].what = "result" /\ p.lines[i].whole
              /\ p.ok => Len(p.lines) = Len(kinds)
<1>1. PICK n \in Nat : n = Len(kinds)
  OBVIOUS
<1>2. PICK item : item = [i \in 1..n |-> PrintItem(m, kinds[i], ItemValues(kinds, values, i))]
  OBVIOUS
<1>3. item = [i \in 1..n |-> item[i]]
  BY <1>2
<1>4. \A i \in 1..n : ItemWell(item[i])
  BY <1>1, <1>2, ItemValuesWell, ItemPrints
<1>5. PrintList(m, kinds, values) = Listed(item)
  BY <1>1, <1>2 DEF PrintList
<1>6. PICK p : p = Listed(item)
  OBVIOUS
<1>7. /\ IsSeq(p.lines)
      /\ \A i \in DOMAIN p.lines : p.lines[i].what = "result" /\ p.lines[i].whole
      /\ p.ok => Len(p.lines) = n
  BY <1>3, <1>4, <1>6, ListedWell
<1>8. PrintList(m, kinds, values) = p
  BY <1>5, <1>6
<1> QED BY <1>1, <1>7, <1>8

\* The line of `i64` and `slots:N`.
LEMMA SlotsPrint ==
    ASSUME NEW values \in Seq(Values)
    PROVE  LET p == PrintSlots(values)
           IN /\ IsSeq(p.lines)
              /\ \A i \in DOMAIN p.lines : p.lines[i].what = "result"
              /\ Len(values) = 1 => \A i \in DOMAIN p.lines : p.lines[i].whole
              /\ p.ok => Len(p.lines) = 1 /\ \A i \in DOMAIN p.lines : p.lines[i].whole
<1>1. PICK size \in Nat : size = Len(values)
  OBVIOUS
<1>2. PICK n : n = Leading(size, {i \in DOMAIN values : values[i].kind = "i64"})
  OBVIOUS
<1>3. n \in 0..size
  BY <1>2, LeadingIs
<1>4. CASE n = 0 /\ values # <<>>
  <2>1. PrintSlots(values) = Nothing
    BY <1>1, <1>2, <1>4 DEF PrintSlots
  <2> QED BY <2>1, NothingWell DEF ItemWell
<1>5. CASE ~(n = 0 /\ values # <<>>)
  <2>1. PICK read : read = [i \in 1..n |-> values[i].bits]
    OBVIOUS
  <2>2. PICK all \in BOOLEAN : all = (n = size)
    OBVIOUS
  <2>3. PICK l : l = Line("result", read, all)
    OBVIOUS
  <2>4. PICK w : w = Walk(all, read, 0)
    OBVIOUS
  <2>5. w.ok = all /\ w.out = read
    BY <2>4 DEF Walk
  <2>6. PrintSlots(values) = Direct(w)
    BY <1>1, <1>2, <1>5, <2>1, <2>2, <2>4 DEF PrintSlots
  <2>7. PrintSlots(values).lines = <<l>> /\ PrintSlots(values).ok = all
    BY <2>3, <2>5, <2>6 DEF Direct, Printed
  <2>8. l.what = "result" /\ l.whole = all
    BY <2>3 DEF Line
  <2>9. size = 1 => all
    <3>1. size = 1 => values # <<>>
      <4>1. Len(<<>>) = 0
        BY ShortSeqs
      <4>2. values = <<>> => Len(values) = 0
        BY <4>1, Zenon
      <4> QED BY <1>1, <4>2
    <3>2. size = 1 => n = size
      BY <1>3, <1>5, <3>1
    <3> QED BY <2>2, <3>2, Zenon
  <2> QED BY <1>1, <2>7, <2>8, <2>9, ShortSeqs
<1> QED BY <1>4, <1>5

\* print_call_results: what it prints of values that have the types of the result.
LEMMA Prints ==
    ASSUME NEW l \in Lines, NEW m \in Machines, NEW values \in Seq(Values),
           Len(values) = WidthOf(l.result.kinds)
    PROVE  PrintsWell(print_call_results(m, l.result, values), l.result)
<1> DEFINE r == l.result
           p == print_call_results(m, r, values)
<1>1. /\ r.form \in {"single", "slots", "list"} /\ r.kinds \in Seq(STRING)
      /\ r.form = "single" => Len(r.kinds) = 1
  BY HostAssumption
<1> HIDE DEF r
<1>2. CASE r.form = "list"
  <2>1. p = PrintList(m, r.kinds, values)
    BY <1>2 DEF print_call_results
  <2>2. Len(values) = WidthOf(r.kinds)
    BY DEF r
  <2> HIDE DEF p
  <2>3. /\ IsSeq(p.lines)
        /\ \A i \in DOMAIN p.lines : p.lines[i].what = "result" /\ p.lines[i].whole
        /\ p.ok => Len(p.lines) = Len(r.kinds)
    BY <1>1, <2>1, <2>2, ListPrints
  <2>4. PrintsWell(p, r)
    BY <1>2, <2>3 DEF PrintsWell
  <2> QED BY <2>4 DEF p, r
<1>3. CASE r.form = "slots"
  <2>1. p = PrintSlots(values)
    BY <1>3 DEF print_call_results
  <2> HIDE DEF p
  <2>2. /\ IsSeq(p.lines)
        /\ \A i \in DOMAIN p.lines : p.lines[i].what = "result"
        /\ p.ok => Len(p.lines) = 1 /\ \A i \in DOMAIN p.lines : p.lines[i].whole
    BY <2>1, SlotsPrint
  <2>3. PrintsWell(p, r)
    BY <1>3, <2>2 DEF PrintsWell
  <2> QED BY <2>3 DEF p, r
<1>4. CASE r.form = "single"
  <2>1. PICK k : r.kinds = <<k>>
    <3>1. r.kinds = <<r.kinds[1]>>
      BY <1>1, <1>4
    <3> QED BY <3>1
  <2>2. values # <<>>
    <3>1. Len(values) >= 1
      <4>1. Len(values) = WidthOf(r.kinds)
        BY DEF r
      <4>2. PICK n \in Nat : n = Cardinality(Strings(r.kinds)) /\ WidthOf(r.kinds) = Len(r.kinds) + n
        BY <1>1, WidthIs
      <4>3. Len(r.kinds) = 1
        BY <1>1, <1>4
      <4> QED BY <4>1, <4>2, <4>3
    <3> QED BY <3>1
  <2>3. CASE k = "i64"
    <3>1. p = PrintSlots(values)
      BY <1>4, <2>1, <2>3 DEF print_call_results
    <3>2. Len(values) = 1
      <4>1. DOMAIN <<k>> = {1} /\ <<k>>[1] = k /\ Len(<<k>>) = 1
        BY ShortSeqs
      <4>2. Strings(r.kinds) = {}
        BY <2>1, <2>3, <4>1 DEF Strings
      <4>3. WidthOf(r.kinds) = 1 + 0
        BY <1>1, <1>4, <4>2, WidthIs, FS_EmptySet
      <4> QED BY <4>3 DEF r
    <3> HIDE DEF p
    <3>3. /\ IsSeq(p.lines)
          /\ \A i \in DOMAIN p.lines : p.lines[i].what = "result" /\ p.lines[i].whole
          /\ p.ok => Len(p.lines) = 1
      BY <3>1, <3>2, SlotsPrint
    <3>4. PrintsWell(p, r)
      BY <1>4, <2>1, <2>3, <3>3 DEF PrintsWell
    <3> QED BY <3>4 DEF p, r
  <2>4. CASE k # "i64" /\ k # "file-u64"
    <3>1. ItemWell(p)
      <4>1. CASE IsFloat(r)
        <5>1. p = PrintItem(m, "f64", values) \/ p = Nothing
          BY <1>4, <2>1, <2>4, <4>1 DEF print_call_results
        <5> HIDE DEF p
        <5> QED BY <2>2, <5>1, ItemPrints, NothingWell
      <4>2. CASE ~IsFloat(r)
        <5>1. p = PrintItem(m, r.kinds[1], values)
          BY <1>4, <2>1, <2>4, <4>2 DEF print_call_results
        <5> HIDE DEF p
        <5> QED BY <2>2, <5>1, ItemPrints
      <4> QED BY <4>1, <4>2
    <3> HIDE DEF p
    <3>2. PrintsWell(p, r)
      BY <1>4, <2>1, <2>4, <3>1 DEF PrintsWell, ItemWell
    <3> QED BY <3>2 DEF p, r
  <2>5. CASE k = "file-u64"
    <3>1. ~IsFloat(r)
      BY <2>1, <2>5 DEF IsFloat
    <3>2. p.lines = <<>>
      BY <1>4, <2>1, <2>5, <3>1 DEF print_call_results, Printed
    <3> HIDE DEF p
    <3>3. PrintsWell(p, r)
      BY <1>4, <2>1, <2>5, <3>2, ShortSeqs DEF PrintsWell
    <3> QED BY <3>3 DEF p, r
  <2> QED BY <2>3, <2>4, <2>5
<1> QED BY <1>1, <1>2, <1>3, <1>4

-----------------------------------------------------------------------------
(* The invariant. *)

Calling == {"place", "call", "called", "print", "finish"}
Over == {"exited", "rejected"}

\* Where the process may be, and what the last outcome is there.
At(st, oc) ==
    /\ st = "start" => IsCommand
    /\ st = "reset" => ~IsCommand
    /\ st = "unstarted" => oc \in Failures
    /\ st = "called" => oc \in Failures \cup {Return}
    /\ st \in Calling => ~IsScript /\ ~IsCommand
    /\ st = "script" => IsScript
    /\ oc = Return /\ st \notin Over => st \in Calling

\* What is printed has the types of the export.
Returns(m, r) == m \in Machines /\ r \in Seq(Values) /\ Len(r) = WidthOf(line.result.kinds)

StepOK ==
    /\ line \in Lines
    /\ At(step, outcome)
    /\ step = "print" \/ (step = "called" /\ outcome = Return) => Returns(machine, results)

\* Until the process ends, nothing is recorded and every line is whole.
Calm ==
    /\ IsSeq(control)
    /\ step \notin Over =>
         ~recorded /\ Marked(control, Outcomes) = {} /\ \A i \in DOMAIN control : control[i].whole

\* A step of the host that does not end the process.
Goes ==
    /\ line' = line /\ recorded' = recorded
    /\ step' \notin Over /\ At(step', outcome')
    /\ held = alive => held' = alive'
    /\ IsScript => machine' = machine
    /\ step' = "called" /\ outcome' = Return => Returns(machine', results')
    /\ step' = "print" => step = "called" /\ outcome = Return /\ UNCHANGED <<machine, results>>
    /\ step' # "finish" => control' = control
    /\ step' = "finish" =>
         LET p == print_call_results(machine, line.result, results)
         IN step = "print" /\ p.ok /\ control' = control \o p.lines

\* A step to a place before the call.
LEMMA GoesOn ==
    ASSUME NEW place, OnlyGo(place), At(place, outcome),
           place \notin Over \cup {"called", "print", "finish"}
    PROVE  Goes
BY DEF OnlyGo, Go, Goes, process

\* parse_options.
LEMMA OptionsStep ==
    ASSUME StepOK, Calm, ParseOptions PROVE Ends \/ Goes
<1>1. step = "options"
  BY DEF ParseOptions
<1>2. ~recorded /\ outcome # Return
  BY <1>1 DEF StepOK, Calm, At, Over, Calling
<1>3. CASE die
  BY <1>2, <1>3, DieEnds
<1>4. CASE OnlyGo("dispatch")
  <2>1. At("dispatch", outcome)
    BY <1>2 DEF At, Calling
  <2> QED BY <1>4, <2>1, GoesOn DEF Over
<1> QED BY <1>3, <1>4 DEF ParseOptions

\* The choice of a mode.
LEMMA DispatchStep ==
    ASSUME StepOK, Calm, Dispatch PROVE Ends \/ Goes
<1>1. step = "dispatch"
  BY DEF Dispatch
<1>2. ~recorded /\ outcome # Return
  BY <1>1 DEF StepOK, Calm, At, Over, Calling
<1>3. CASE die
  BY <1>2, <1>3, DieEnds
<1>4. CASE OnlyGo("engine")
  <2>1. At("engine", outcome)
    BY <1>2 DEF At, Calling
  <2> QED BY <1>4, <2>1, GoesOn DEF Over
<1> QED BY <1>3, <1>4 DEF Dispatch

\* Wasmtime gives an object, or fails.
LEMMA MakeStep ==
    ASSUME StepOK, Calm, NEW object, NEW next, Make(object, next),
           step \notin Over \cup Calling, next \in {"module", "store", "streams"}
    PROVE  Ends \/ Goes
<1>1. ~recorded /\ outcome # Return
  BY DEF StepOK, Calm, At
<1>2. CASE die
  BY <1>1, <1>2, DieEnds
<1>3. CASE /\ held' = held \cup {object} /\ alive' = alive \cup {object} /\ Go(next)
           /\ UNCHANGED <<line, machine, outcome, results, control, recorded, lost, status,
                          timed, saved>>
  <2>1. At(next, outcome)
    BY <1>1 DEF At, Calling
  <2> QED BY <1>3, <2>1 DEF Goes, Go, Over
<1> QED BY <1>2, <1>3 DEF Make

\* The instantiation, whose outcome is looked at in the next step.
LEMMA InstantiateStep ==
    ASSUME StepOK, Calm, Instantiate PROVE Goes
<1>1. \/ step' = "exports" /\ outcome' = None
      \/ step' = "unstarted" /\ outcome' \in Failures
  <2>1. outcome' \in Failures \cup {None} /\ step' = (IF outcome' = None THEN "exports" ELSE "unstarted")
    BY DEF Instantiate, Go
  <2> QED BY <2>1
<1>2. None # Return
  BY DEF None, Return
<1>3. \A o \in Failures : o # Return
  BY FailureKinds DEF Return
<1>4. At(step', outcome')
  BY <1>1, <1>2, <1>3 DEF At, Calling
<1>5. held = alive => held' = alive'
  BY DEF Instantiate, DropModule
<1> QED BY <1>1, <1>4, <1>5 DEF Instantiate, Goes, Over

\* init_runtime.
LEMMA StartSteps ==
    ASSUME StepOK, Calm, init_runtime PROVE Ends \/ Goes
<1>1. CASE NewEngine
  BY <1>1, MakeStep DEF NewEngine, Over, Calling
<1>2. CASE NewModule
  BY <1>2, MakeStep DEF NewModule, Over, Calling
<1>3. CASE NewStore
  BY <1>3, MakeStep DEF NewStore, Over, Calling
<1>4. CASE configure_wasi
  <2>1. step = "streams" /\ ~recorded /\ outcome # Return
    BY <1>4 DEF configure_wasi, StepOK, Calm, At, Over, Calling
  <2>2. At("instance", outcome)
    BY <2>1 DEF At, Calling
  <2> QED BY <1>4, <2>1, <2>2, GoesOn, DieEnds DEF configure_wasi, Over
<1>5. CASE Instantiate
  BY <1>5, InstantiateStep
<1>6. CASE NotInstantiated
  <2>1. step = "unstarted" /\ ~recorded /\ outcome # Return /\ outcome \in Failures
    BY <1>6 DEF NotInstantiated, StepOK, Calm, At, Over, Calling
  <2> QED BY <1>6, <2>1, FailureEnds DEF NotInstantiated
<1>7. CASE BindExports
  <2>1. step = "exports" /\ ~recorded /\ outcome # Return
    BY <1>7 DEF BindExports, StepOK, Calm, At, Over, Calling
  <2>2. IF IsCommand THEN At("start", outcome) ELSE At("reset", outcome)
    BY <2>1 DEF At, Calling
  <2> QED BY <1>7, <2>1, <2>2, GoesOn, DieEnds DEF BindExports, Over
<1>8. CASE ResetHeap
  <2>1. step = "reset" /\ ~recorded /\ outcome # Return
    BY <1>8 DEF ResetHeap, StepOK, Calm, At, Over, Calling
  <2>2. CASE OnlyGo(Begin)
    <3>1. At(Begin, outcome) /\ Begin \notin Over \cup {"called", "print", "finish"}
      <4>1. ~IsCommand
        BY <2>1 DEF StepOK, At
      <4> QED BY <2>1, <4>1 DEF At, Begin, Calling, Over
    <3> HIDE DEF Begin
    <3> QED BY <2>2, <3>1, GoesOn
  <2>3. CASE \E o \in Failures : check_outcome(o, 1)
    BY <2>1, <2>3, FailureEnds
  <2> QED BY <1>8, <2>2, <2>3 DEF ResetHeap
<1> QED BY <1>1, <1>2, <1>3, <1>4, <1>5, <1>6, <1>7, <1>8 DEF init_runtime

\* `run`, whose `_start` is the only call.
LEMMA RunStep ==
    ASSUME StepOK, Calm, RunProgram PROVE Ends
<1>1. step = "start" /\ ~recorded /\ outcome # Return /\ IsCommand
  BY DEF RunProgram, StepOK, Calm, At, Over, Calling
<1>2. ~IsScript /\ Wasi
  BY <1>1 DEF IsScript, IsCommand, Wasi
<1>3. CASE die
  BY <1>1, <1>3, DieEnds
<1>4. CASE \E o \in Failures : check_outcome(o, 2)
  BY <1>1, <1>4, FailureEnds
<1>5. CASE Finish(0, IF control_records THEN <<Outcome("return")>> ELSE <<>>, recorded)
  <2>1. CASE control_records
    <3>1. PICK l : l = Line("return", <<>>, TRUE)
      OBVIOUS
    <3>2. Finish(0, <<l>>, recorded)
      BY <1>5, <2>1, <3>1 DEF Outcome
    <3>3. l.what = "return" /\ l.whole
      BY <3>1 DEF Line
    <3>4. StatusOf(l) = 0 /\ l.what \in Outcomes
      BY <3>3 DEF StatusOf, Outcomes
    <3>5. /\ IsSeq(<<l>>) /\ Marked(<<l>>, {"results"}) = {}
          /\ \A i \in DOMAIN <<l>> : <<l>>[i].whole
      BY <3>3, OneLine, ShortSeqs
    <3>6. EndsWell(0, <<l>>, recorded)
      BY <1>1, <1>2, <2>1, <3>4, <3>5 DEF EndsWell, Recording
    <3> QED BY <3>2, <3>6 DEF Ends
  <2>2. CASE ~control_records
    <3>1. Finish(0, <<>>, recorded)
      BY <1>5, <2>2
    <3>2. EndsWell(0, <<>>, recorded)
      BY <1>1, <1>2, <2>2, OneLine, ShortSeqs DEF EndsWell, Recording
    <3> QED BY <3>1, <3>2 DEF Ends
  <2> QED BY <2>1, <2>2
<1> QED BY <1>3, <1>4, <1>5 DEF RunProgram

\* The trap of the module's allocator.
LEMMA AllocatorTraps ==
    ASSUME ~recorded, check_outcome([kind |-> "trap"], 1) PROVE Ends
<1>1. PICK o : o = [kind |-> "trap"]
  OBVIOUS
<1>2. o \in Failures /\ o.kind # "exit"
  BY <1>1 DEF Failures
<1>3. check_outcome(o, 1)
  BY <1>1
<1> QED BY <1>2, <1>3, FailureEnds

\* The arguments are placed.
LEMMA PlaceStep ==
    ASSUME StepOK, Calm, PlaceArgs PROVE Ends \/ Goes
<1>1. step = "place" /\ ~recorded /\ ~IsScript /\ ~IsCommand
  BY DEF PlaceArgs, StepOK, Calm, At, Over, Calling
<1>2. \/ /\ outcome' = None /\ Go("call")
         /\ UNCHANGED <<line, results, control, process, timed, saved>>
      \/ check_outcome([kind |-> "trap"], 1)
      \/ die
  BY DEF PlaceArgs
<1>3. CASE die
  BY <1>1, <1>3, DieEnds
<1>4. CASE check_outcome([kind |-> "trap"], 1)
  BY <1>1, <1>4, AllocatorTraps
<1>5. CASE /\ outcome' = None /\ Go("call")
           /\ UNCHANGED <<line, results, control, process, timed, saved>>
  <2>1. At(step', outcome')
    BY <1>1, <1>5 DEF At, Go, Calling, None, Return
  <2> QED BY <1>1, <1>5, <2>1 DEF Goes, Go, Over, process
<1> QED BY <1>2, <1>3, <1>4, <1>5

\* The export is called.
LEMMA CallStep ==
    ASSUME StepOK, Calm, CallExport PROVE Goes
<1>1. step = "call" /\ ~recorded /\ ~IsScript /\ ~IsCommand
  BY DEF CallExport, StepOK, Calm, At, Over, Calling
<1>2. /\ step' = "called"
      /\ UNCHANGED <<line, control, process, timed, saved>>
  BY DEF CallExport, Go
<1>3. outcome' = Return => Returns(machine', results')
  <2>1. CASE /\ WellTyped(machine.args, line.result.kinds)
             /\ machine' \in Left(machine) /\ results' \in Given(machine)
    <3>1. machine' \in Machines
      BY <2>1 DEF Left
    <3>2. results' \in Seq(Values) /\ Len(results') = Len(line.gives)
      BY <2>1 DEF Given
    <3>3. Len(line.gives) = WidthOf(line.result.kinds)
      BY <2>1 DEF WellTyped
    <3> QED BY <3>1, <3>2, <3>3 DEF Returns
  <2>2. CASE outcome' \in Failures
    BY <2>2, FailureKinds DEF Return
  <2>3. CASE outcome' = [kind |-> "error"]
    BY <2>3 DEF Return
  <2> QED BY <2>1, <2>2, <2>3 DEF CallExport
<1>4. outcome' \in Failures \cup {Return}
  BY DEF CallExport, Failures
<1>5. At(step', outcome')
  BY <1>1, <1>2, <1>4 DEF At, Calling
<1> QED BY <1>1, <1>2, <1>3, <1>5 DEF Goes, Over, process

\* What follows a call: its results, another call of `bench`, or its failure.
LEMMA AfterStep ==
    ASSUME StepOK, Calm, AfterCall PROVE Ends \/ Goes
<1>1. step = "called" /\ ~recorded /\ ~IsScript /\ ~IsCommand /\ outcome \in Failures \cup {Return}
  BY DEF AfterCall, StepOK, Calm, At, Over, Calling
<1>2. CASE outcome = Return /\ OnlyGo("print")
  <2>1. At("print", outcome)
    BY <1>1 DEF At, Calling
  <2> QED BY <1>1, <1>2, <2>1 DEF OnlyGo, Go, Goes, Over, process
<1>3. CASE outcome = Return /\ PlaceAgain
  <2>1. \/ /\ Go("call") /\ UNCHANGED <<line, outcome, results, control, process, saved>>
        \/ check_outcome([kind |-> "trap"], 1)
    BY <1>3 DEF PlaceAgain
  <2>2. At("call", outcome)
    BY <1>1 DEF At, Calling
  <2> QED BY <1>1, <2>1, <2>2, AllocatorTraps DEF Go, Goes, Over, process
<1>4. CASE outcome # Return /\ check_outcome(outcome, 2)
  BY <1>1, <1>4, FailureEnds
<1> QED BY <1>2, <1>3, <1>4 DEF AfterCall

\* The results are printed, or one of them is malformed.
LEMMA PrintStep ==
    ASSUME StepOK, Calm, PrintResults PROVE Ends \/ Goes
<1>1. step = "print" /\ ~recorded /\ ~IsScript /\ ~IsCommand
  BY DEF PrintResults, StepOK, Calm, At, Over, Calling
<1>2. PICK p : p = print_call_results(machine, line.result, results)
  OBVIOUS
<1>3. PrintsWell(p, line.result)
  BY <1>1, <1>2, Prints DEF StepOK, Returns
<1>4. \/ /\ p.ok /\ control' = control \o p.lines /\ Go("finish")
         /\ UNCHANGED <<line, machine, outcome, results, process, timed>>
      \/ Finish(1, p.lines, recorded)
      \/ die
  BY <1>2 DEF PrintResults
<1>5. CASE /\ p.ok /\ control' = control \o p.lines /\ Go("finish")
           /\ UNCHANGED <<line, machine, outcome, results, process, timed>>
  <2>1. At("finish", outcome)
    BY <1>1 DEF At, Calling
  <2> QED BY <1>1, <1>2, <1>5, <2>1 DEF Go, Goes, Over, process
<1>6. CASE Finish(1, p.lines, recorded)
  <2>1. Marked(p.lines, {"results"}) = {} /\ Marked(p.lines, Outcomes) = {}
    BY <1>3 DEF PrintsWell, Marked, Outcomes
  <2>2. EndsWell(1, p.lines, recorded)
    BY <1>1, <1>3, <2>1 DEF EndsWell, PrintsWell
  <2> QED BY <1>6, <2>2 DEF Ends
<1>7. CASE die
  BY <1>1, <1>7, DieEnds
<1> QED BY <1>4, <1>5, <1>6, <1>7

\* What a mode prints after the results.
LEMMA TrailerLines ==
    /\ IsSeq(Trailer)
    /\ \A i \in DOMAIN Trailer : /\ Trailer[i].whole
                                 /\ Trailer[i].what \in {"stats", "bench", "init"}
<1>1. CASE line.mode = "call-stats"
  <2>1. PICK l : l = Line("stats", <<>>, TRUE)
    OBVIOUS
  <2>2. Trailer = <<l>>
    BY <1>1, <2>1 DEF Trailer, Outcome
  <2>3. l.what = "stats" /\ l.whole
    BY <2>1 DEF Line
  <2> QED BY <2>2, <2>3, ShortSeqs
<1>2. CASE line.mode = "bench"
  <2>1. PICK l : l = Line("bench", <<timed>>, TRUE)
    OBVIOUS
  <2>2. PICK k : k = Line("init", <<>>, TRUE)
    OBVIOUS
  <2>3. Trailer = <<l, k>>
    BY <1>2, <2>1, <2>2 DEF Trailer, Outcome
  <2>4. l.what = "bench" /\ l.whole /\ k.what = "init" /\ k.whole
    BY <2>1, <2>2 DEF Line
  <2>5. <<l, k>> \in Seq({l, k}) /\ DOMAIN <<l, k>> = {1, 2} /\ <<l, k>>[1] = l /\ <<l, k>>[2] = k
    OBVIOUS
  <2>6. IsSeq(<<l, k>>)
    BY <2>5 DEF IsSeq
  <2> QED BY <2>3, <2>4, <2>5, <2>6
<1>3. CASE line.mode \notin {"call-stats", "bench"}
  BY <1>3, ShortSeqs DEF Trailer
<1> QED BY <1>1, <1>2, <1>3

\* The trailer of a mode ends the process.
LEMMA FinishStep ==
    ASSUME StepOK, Calm, FinishCall PROVE Ends
<1>1. step = "finish" /\ ~recorded /\ ~IsScript /\ ~IsCommand
  BY DEF FinishCall, StepOK, Calm, At, Over, Calling
<1>2. CASE die
  BY <1>1, <1>2, DieEnds
<1>3. CASE Finish(0, Trailer, recorded)
  <2>1. /\ Marked(Trailer, {"results"}) = {} /\ Marked(Trailer, Outcomes) = {}
        /\ Marked(Trailer, {"result"}) = {}
    BY TrailerLines DEF Marked, Outcomes
  <2>2. EndsWell(0, Trailer, recorded)
    BY <1>1, <2>1, TrailerLines DEF EndsWell
  <2> QED BY <1>3, <2>2 DEF Ends
<1> QED BY <1>2, <1>3 DEF FinishCall

\* A step of the host ends it well or goes on.
LEMMA HostSteps ==
    ASSUME StepOK, Calm, HostNext PROVE Ends \/ Goes
BY OptionsStep, DispatchStep, StartSteps, RunStep, PlaceStep, CallStep, AfterStep, PrintStep,
   FinishStep DEF HostNext, CallMode

-----------------------------------------------------------------------------
(* What the process leaves at its end. *)

\* Nothing after a sequence.
LEMMA JoinedNothing ==
    ASSUME NEW s, IsSeq(s) PROVE s \o <<>> = s
<1>1. PICK S : s \in Seq(S)
  BY DEF IsSeq
<1> QED BY <1>1

\* A line after others.
LEMMA AppendIs ==
    ASSUME NEW s, NEW x, IsSeq(s) PROVE Append(s, x) = s \o <<x>>
<1>1. PICK S : s \in Seq(S)
  BY DEF IsSeq
<1>2. s \in Seq(S \cup {x}) /\ x \in S \cup {x}
  BY <1>1, SeqMonotonic
<1> QED BY <1>2

\* Lines that are all whole, one after the other.
LEMMA WholeKept ==
    ASSUME NEW s, NEW t, IsSeq(s), IsSeq(t),
           \A i \in DOMAIN s : s[i].whole, \A i \in DOMAIN t : t[i].whole
    PROVE  \A i \in DOMAIN (s \o t) : (s \o t)[i].whole
<1>1. DOMAIN s = 1..Len(s) /\ DOMAIN t = 1..Len(t)
  BY SeqOfAny
<1>2. Joins(s \o t, s, t)
  BY Joined
<1> QED BY <1>1, <1>2 DEF Joins

\* The lines at the end: u is what was there, what is written at the end, and
\* the record of an error.
EndLines(u, s, lines, code) ==
    /\ IsSeq(u)
    /\ (\A i \in DOMAIN u : u[i].whole) \/ (line.result.form = "slots" /\ code # 0)
    /\ Marked(u, {"results"}) = Marked(s, {"results"})
    /\ Marked(lines, Outcomes) # {} => Marked(u, Outcomes) # {}
    /\ step # "options" =>
         \/ Marked(u, Outcomes) = {} /\ (Recording => code = 0)
         \/ Marked(u, Outcomes) = {Len(u)} /\ Recording /\ StatusOf(u[Len(u)]) = code
    /\ code = 0 /\ Marked(lines, {"result"}) = {} => Marked(u, {"result"}) = Marked(s, {"result"})

\* An end that leaves the right record leaves these lines.
LEMMA EndsWithLines ==
    ASSUME NEW s, IsSeq(s), Marked(s, Outcomes) = {}, \A i \in DOMAIN s : s[i].whole,
           NEW code, NEW lines, NEW rec, EndsWell(code, lines, rec),
           NEW u, u = s \o lines \o ErrorLine(code, rec)
    PROVE  EndLines(u, s, lines, code)
<1>1. PICK t : t = s \o lines
  OBVIOUS
<1>2. IsSeq(lines) /\ Marked(lines, {"results"}) = {}
  BY DEF EndsWell
<1>3. IsSeq(t) /\ Marked(t, {"results"}) = Marked(s, {"results"})
  BY <1>1, <1>2, Joined, MarkedKept DEF Joins
<1>4. (\A i \in DOMAIN t : t[i].whole) \/ (line.result.form = "slots" /\ code # 0)
  <2>1. (\A i \in DOMAIN lines : lines[i].whole) \/ (line.result.form = "slots" /\ code # 0)
    BY DEF EndsWell
  <2> QED BY <1>1, <1>2, <2>1, WholeKept
<1>5. Marked(lines, {"result"}) = {} => Marked(t, {"result"}) = Marked(s, {"result"})
  BY <1>1, <1>2, MarkedKept
<1>6. Marked(lines, Outcomes) = {} => Marked(t, Outcomes) = {}
  BY <1>1, <1>2, MarkedKept
<1>7. ErrorLine(code, rec) = <<>> => u = t
  BY <1>1, <1>3, JoinedNothing
<1>8. CASE code = 1 /\ ~rec /\ Marked(lines, Outcomes) = {} /\ Recording /\ step # "options"
  <2>1. PICK l : l = Line("error", <<>>, TRUE)
    OBVIOUS
  <2>2. l.what = "error" /\ l.whole
    BY <2>1 DEF Line
  <2>3. ErrorLine(code, rec) = <<l>>
    <3>1. code # 0
      BY <1>8
    <3>2. ErrorLine(code, rec) = <<Outcome("error")>>
      BY <1>8, <3>1, Zenon DEF ErrorLine, Recording
    <3> QED BY <2>1, <3>2 DEF Outcome
  <2>4. u = t \o <<l>>
    BY <1>1, <2>3
  <2>5. /\ Marked(u, Outcomes) = Marked(t, Outcomes) \cup {Len(t) + 1}
        /\ Len(u) = Len(t) + 1 /\ u[Len(t) + 1] = l
    <3>1. l.what \in Outcomes
      BY <2>2 DEF Outcomes
    <3> QED BY <1>3, <2>4, <3>1, MarkedOne
  <2>6. StatusOf(l) = 1
    BY <2>2 DEF StatusOf
  <2>7. IsSeq(<<l>>) /\ Marked(<<l>>, {"results"}) = {} /\ \A i \in DOMAIN <<l>> : <<l>>[i].whole
    BY <2>2, OneLine, ShortSeqs
  <2>8. IsSeq(u) /\ Marked(u, {"results"}) = Marked(t, {"results"})
    BY <1>3, <2>4, <2>7, Joined, MarkedKept DEF Joins
  <2>9. (\A i \in DOMAIN u : u[i].whole) \/ (line.result.form = "slots" /\ code # 0)
    BY <1>3, <1>4, <2>4, <2>7, WholeKept
  <2>10. Marked(u, Outcomes) = {Len(u)} /\ StatusOf(u[Len(u)]) = code
    BY <1>6, <1>8, <2>5, <2>6
  <2>11. Marked(u, {"results"}) = Marked(s, {"results"}) /\ code # 0
    BY <1>3, <1>8, <2>8
  <2> QED BY <1>8, <2>8, <2>9, <2>10, <2>11, Zenon DEF EndLines
<1>9. CASE code = 1 /\ ~rec /\ Marked(lines, Outcomes) = {} /\ ~(Recording /\ step # "options")
  <2>1. ErrorLine(code, rec) = <<>>
    BY <1>9 DEF ErrorLine, Recording
  <2>2. /\ IsSeq(u) /\ Marked(u, {"results"}) = Marked(s, {"results"})
        /\ (\A i \in DOMAIN u : u[i].whole) \/ (line.result.form = "slots" /\ code # 0)
        /\ Marked(u, Outcomes) = {} /\ code # 0
    <3>1. u = t
      BY <1>7, <2>1
    <3>2. code # 0
      BY <1>9
    <3> QED BY <1>3, <1>4, <1>6, <1>9, <3>1, <3>2, Zenon
  <2> QED BY <1>9, <2>2, Zenon DEF EndLines
<1>10. CASE /\ Recording /\ (rec \/ code = 0)
            /\ \E l : lines = <<l>> /\ l.what \in Outcomes /\ StatusOf(l) = code
  <2>1. PICK l : lines = <<l>> /\ l.what \in Outcomes /\ StatusOf(l) = code
    BY <1>10
  <2>2. ErrorLine(code, rec) = <<>>
    BY <1>10 DEF ErrorLine
  <2>3. /\ Marked(t, Outcomes) = Marked(s, Outcomes) \cup {Len(s) + 1}
        /\ Len(t) = Len(s) + 1 /\ t[Len(s) + 1] = l
    BY <1>1, <2>1, MarkedOne
  <2>4. Marked(t, Outcomes) = {Len(t)} /\ StatusOf(t[Len(t)]) = code
    BY <2>1, <2>3
  <2> QED BY <1>3, <1>4, <1>5, <1>7, <1>10, <2>2, <2>4 DEF EndLines
<1>11. CASE ~Recording /\ lines = <<>>
  <2>1. ErrorLine(code, rec) = <<>>
    BY <1>11 DEF ErrorLine, Recording
  <2>2. Marked(lines, Outcomes) = {}
    BY <1>11, OneLine
  <2> QED BY <1>3, <1>4, <1>5, <1>6, <1>7, <1>11, <2>1, <2>2 DEF EndLines
<1>12. CASE code = 0 /\ Marked(lines, Outcomes) = {}
  <2>1. ErrorLine(code, rec) = <<>>
    BY <1>12 DEF ErrorLine
  <2> QED BY <1>3, <1>4, <1>5, <1>6, <1>7, <1>12, <2>1 DEF EndLines
<1> QED BY <1>8, <1>9, <1>10, <1>11, <1>12 DEF EndsWell

-----------------------------------------------------------------------------
(* The inductive invariant. *)

\* How many lines a call prints of its results.
Expected == IF SavesFile THEN 0 ELSE IF line.result.form = "list" THEN Len(line.result.kinds) ELSE 1

\* A call prints its results at once, after nothing else.
Counted ==
    /\ ~IsScript /\ step \notin Over \cup {"finish"} => control = <<>>
    /\ step = "finish" => Marked(control, {"result"}) = DOMAIN control /\ Len(control) = Expected

\* As much of a machine's type as the commands of a script keep.
IsMachine(m) == IsSeq(m.args) /\ m = [f \in DOMAIN Machine("bump", TRUE) |-> m[f]]

\* What a script was sent and did.  A command that gives an argument is counted
\* when it is sent, before the host reads it.
Served ==
    /\ line.mode = "script" => IF called THEN \E i : Called = {i} ELSE Called = {}
    /\ IsScript /\ called => Called # {}
    /\ IsScript /\ Ended /\ status = 0 /\ OutcomeLines = {} => Called # {}
    /\ IsScript /\ step \notin Over =>
         /\ IsMachine(machine)
         /\ given = Len(machine.args) + (IF input.op \in ArgCommands THEN 1 ELSE 0)

Inv == /\ StepOK /\ Calm /\ Counted
       /\ DisposedOnce /\ OutcomeRecorded /\ WholeLines /\ Served

\* The marked lines that the properties speak of.
LEMMA MarkedNames ==
    /\ OutcomeLines = Marked(control, Outcomes)
    /\ Called = Marked(control, {"results"})
BY DEF OutcomeLines, Called, Marked

\* The first part of the inductive step: an end of the process keeps all of it.
LEMMA EndsKeep ==
    ASSUME Inv, step \notin Over, Ends, called' = called
    PROVE  Inv'
<1>1. PICK code, lines, rec : Finish(code, lines, rec) /\ EndsWell(code, lines, rec)
  BY DEF Ends
<1>2. PICK u : u = control \o lines \o ErrorLine(code, rec)
  OBVIOUS
<1>3. /\ control' = u /\ line' = line /\ outcome' = outcome /\ lost' \in BOOLEAN
      /\ status' = (IF lost' THEN 1 ELSE code)
      /\ held' = {} /\ alive' = alive \ held
      /\ step' = (IF step = "options" THEN "rejected" ELSE "exited")
  BY <1>1, <1>2 DEF Finish, Go
<1>4. step' \in Over
  BY <1>3 DEF Over
<1>5. IsSeq(control) /\ Marked(control, Outcomes) = {} /\ \A i \in DOMAIN control : control[i].whole
  BY DEF Inv, Calm
<1>6. EndLines(u, control, lines, code)
  BY <1>1, <1>2, <1>5, EndsWithLines
<1>7. status' = 0 => code = 0
  BY <1>3
<1>8. OutcomeLines' = Marked(u, Outcomes) /\ Called' = Marked(u, {"results"})
  BY <1>3 DEF OutcomeLines, Called, Marked, Outcomes
<1>9. StepOK'
  <2>1. step' \notin Calling \cup {"start", "reset", "unstarted", "called", "script", "print"}
    BY <1>4 DEF Over, Calling
  <2> QED BY <1>3, <1>4, <2>1 DEF Inv, StepOK, At
<1>10. Calm'
  BY <1>3, <1>4, <1>6 DEF Calm, EndLines
<1>11. Counted'
  BY <1>4 DEF Counted, Over
<1>12. DisposedOnce'
  BY <1>3 DEF Inv, DisposedOnce
<1>13. OutcomeRecorded'
  <2> SUFFICES ASSUME step # "options" PROVE OutcomeRecorded'
    BY <1>3 DEF OutcomeRecorded
  <2>1. (Wasi /\ control_records)' <=> Recording
    BY <1>3 DEF Recording, Wasi, control_records, IsCommand
  <2>2. status' = 0 => \A i \in DOMAIN u : u[i].whole
    BY <1>6, <1>7 DEF EndLines
  <2>3. CASE Marked(u, Outcomes) = {} /\ (Recording => code = 0)
    BY <1>3, <1>8, <2>1, <2>2, <2>3 DEF OutcomeRecorded
  <2>4. CASE Marked(u, Outcomes) = {Len(u)} /\ Recording /\ StatusOf(u[Len(u)]) = code
    <3>1. StatusOf(control[Len(control)])' = code
      BY <1>3, <2>4 DEF StatusOf
    <3> QED BY <1>3, <1>8, <2>1, <2>2, <2>4, <3>1 DEF OutcomeRecorded
  <2> QED BY <1>6, <2>3, <2>4 DEF EndLines
<1>14. WholeLines'
  <2>1. \A i \in DOMAIN u : u[i].whole \/ line.result.form = "slots"
    BY <1>6 DEF EndLines
  <2>2. ASSUME status' = 0, outcome = Return, ~IsScript
        PROVE  Marked(u, {"result"}) = 1..Expected /\ Expected \in Nat
    <3>1. code = 0
      BY <1>7, <2>2
    <3>2. step = "finish" /\ Marked(lines, {"result"}) = {}
      BY <1>1, <2>2, <3>1 DEF EndsWell
    <3>3. Marked(u, {"result"}) = Marked(control, {"result"})
      BY <1>6, <3>1, <3>2 DEF EndLines
    <3>4. Marked(control, {"result"}) = DOMAIN control /\ Len(control) = Expected
      BY <3>2 DEF Inv, Counted
    <3> QED BY <1>5, <3>3, <3>4, SeqOfAny
  <2>3. (Cardinality({i \in DOMAIN control : control[i].what = "result"}))'
           = Cardinality(Marked(u, {"result"}))
    <3>1. {i \in DOMAIN u : u[i].what = "result"} = Marked(u, {"result"})
      BY DEF Marked
    <3> QED BY <1>3, <3>1
  <2>4. \A n \in Nat : Cardinality(1..n) = n
    BY FS_Interval
  <2>5. status' = 0 /\ outcome = Return /\ ~IsScript => Cardinality(Marked(u, {"result"})) = Expected
    BY <2>2, <2>4
  <2> QED BY <1>3, <2>1, <2>3, <2>5 DEF WholeLines, IsScript, SavesFile, Expected
<1>15. Served'
  <2>1. Called' = Called
    BY <1>6, <1>8, MarkedNames DEF EndLines
  <2>2. IsScript /\ status' = 0 /\ Marked(u, Outcomes) = {} => called
    BY <1>1, <1>6, <1>7 DEF EndsWell, EndLines
  <2>3. IsScript /\ status' = 0 /\ Marked(u, Outcomes) = {} => Called # {}
    BY <2>2 DEF Inv, Served
  <2> QED BY <1>3, <1>4, <1>8, <2>1, <2>3 DEF Inv, Served, IsScript
<1> QED BY <1>9, <1>10, <1>11, <1>12, <1>13, <1>14, <1>15 DEF Inv

\* A step of the host that does not end the process keeps it too.
LEMMA GoesKeep ==
    ASSUME Inv, step \notin Over, step # "finish", Goes, UNCHANGED scriptVars
    PROVE  Inv'
<1>1. /\ line' = line /\ step' \notin Over /\ At(step', outcome') /\ recorded' = recorded
      /\ called' = called /\ given' = given /\ input' = input
  BY DEF Goes, scriptVars
<1>2. /\ IsSeq(control) /\ Marked(control, Outcomes) = {} /\ ~recorded
      /\ \A i \in DOMAIN control : control[i].whole
  BY DEF Inv, Calm
<1>3. line \in Lines
  BY DEF Inv, StepOK
<1>4. CASE step' = "finish"
  <2>1. PICK p : p = print_call_results(machine, line.result, results)
    OBVIOUS
  <2>2. step = "print" /\ p.ok /\ control' = control \o p.lines
    BY <1>4, <2>1 DEF Goes
  <2>3. ~IsScript /\ Returns(machine, results)
    BY <2>2 DEF Inv, StepOK, At, Calling
  <2>4. PrintsWell(p, line.result)
    BY <1>3, <2>1, <2>3, Prints DEF Returns
  <2>5. control = <<>>
    BY <2>2, <2>3 DEF Inv, Counted, Over
  <2>6. PICK lines : lines = p.lines
    OBVIOUS
  <2>7. /\ IsSeq(lines) /\ \A i \in DOMAIN lines : lines[i].what = "result" /\ lines[i].whole
        /\ Len(lines) = Expected
    BY <2>2, <2>4, <2>6 DEF PrintsWell, Expected, SavesFile
  <2>8. control' = lines
    <3>1. PICK S : lines \in Seq(S)
      BY <2>7 DEF IsSeq
    <3>2. <<>> \o lines = lines
      BY <3>1
    <3> QED BY <2>2, <2>5, <2>6, <3>2
  <2>9. Marked(lines, Outcomes) = {} /\ Marked(lines, {"result"}) = DOMAIN lines
    BY <2>7 DEF Marked, Outcomes
  <2>10. Calm'
    BY <1>1, <1>2, <2>7, <2>8, <2>9 DEF Calm, Marked, Outcomes
  <2>11. Counted'
    <3>1. Expected' = Expected
      BY <1>1 DEF Expected, SavesFile
    <3> QED BY <1>4, <2>7, <2>8, <2>9, <3>1 DEF Counted, Marked
  <2>12. Served'
    <3>1. ~IsScript' /\ line'.mode # "script"
      BY <1>1, <2>3 DEF IsScript
    <3> QED BY <3>1 DEF Served
  <2>13. StepOK'
    BY <1>1, <1>3, <1>4 DEF StepOK, At, IsScript, IsCommand, Failures, Wasi
  <2>14. WholeLines'
    BY <1>1, <2>7, <2>8 DEF WholeLines, Ended, Over
  <2>15. DisposedOnce' /\ OutcomeRecorded'
    BY <1>1 DEF Inv, DisposedOnce, OutcomeRecorded, Goes, Ended, Over
  <2> QED BY <2>10, <2>11, <2>12, <2>13, <2>14, <2>15 DEF Inv
<1>5. CASE step' # "finish"
  <2>1. control' = control
    BY <1>5 DEF Goes
  <2>2. Calm'
    BY <1>1, <1>2, <2>1 DEF Calm, Marked, Outcomes
  <2>3. Counted'
    <3>1. ~IsScript /\ step \notin Over \cup {"finish"} => control = <<>>
      BY DEF Inv, Counted
    <3> QED BY <1>1, <1>5, <2>1, <3>1 DEF Counted, IsScript
  <2>4. StepOK'
    <3>1. step' = "called" /\ outcome' = Return => Returns(machine', results')
      BY DEF Goes
    <3>2. step' = "print" => Returns(machine, results) /\ UNCHANGED <<machine, results>>
      BY DEF Goes, Inv, StepOK
    <3> QED BY <1>1, <1>3, <3>1, <3>2
         DEF StepOK, At, IsScript, IsCommand, Failures, Wasi, Returns
  <2>5. Served'
    <3>1. IsScript => machine' = machine
      BY DEF Goes
    <3> QED BY <1>1, <2>1, <3>1 DEF Inv, Served, IsScript, Called, Ended, Over, IsMachine
  <2>6. WholeLines'
    BY <1>1, <1>2, <2>1 DEF WholeLines, Ended, Over
  <2>7. DisposedOnce' /\ OutcomeRecorded'
    BY <1>1 DEF Inv, DisposedOnce, OutcomeRecorded, Goes, Ended, Over
  <2> QED BY <2>2, <2>3, <2>4, <2>5, <2>6, <2>7 DEF Inv
<1> QED BY <1>4, <1>5

\* A step of the host keeps it.
LEMMA HostKeeps ==
    ASSUME Inv, HostNext, UNCHANGED scriptVars
    PROVE  Inv'
<1>1. step \notin Over
  BY DEF HostNext, ParseOptions, Dispatch, init_runtime, NewEngine, NewModule, NewStore,
         configure_wasi, Instantiate, NotInstantiated, BindExports, ResetHeap, RunProgram,
         CallMode, PlaceArgs, CallExport, AfterCall, PrintResults, FinishCall, Over
<1>2. CASE step = "finish"
  <2>1. FinishCall
    BY <1>2 DEF HostNext, ParseOptions, Dispatch, init_runtime, NewEngine, NewModule, NewStore,
         configure_wasi, Instantiate, NotInstantiated, BindExports, ResetHeap, RunProgram,
         CallMode, PlaceArgs, CallExport, AfterCall, PrintResults
  <2>2. Ends
    BY <2>1, FinishStep DEF Inv
  <2> QED BY <1>1, <2>2, EndsKeep DEF scriptVars
<1>3. CASE step # "finish"
  <2>1. Ends \/ Goes
    BY HostSteps DEF Inv
  <2> QED BY <1>1, <1>3, <2>1, EndsKeep, GoesKeep DEF scriptVars
<1> QED BY <1>2, <1>3

-----------------------------------------------------------------------------
(* The commands of a script. *)

\* Nothing that writes memory touches the arguments.
Keeps(n, m) == IsMachine(n) /\ n.args = m.args

\* A change of another part of a machine.
LEMMA ChangeKeeps ==
    ASSUME NEW m, IsMachine(m), NEW g, g # "args", NEW v
    PROVE  Keeps([m EXCEPT ![g] = v], m)
<1>1. PICK D : D = DOMAIN Machine("bump", TRUE)
  OBVIOUS
<1>2. m = [f \in D |-> m[f]] /\ IsSeq(m.args) /\ "args" \in D
  BY <1>1 DEF IsMachine, Machine
<1>3. PICK n : n = [m EXCEPT ![g] = v]
  OBVIOUS
<1>4. n = [f \in D |-> n[f]] /\ n.args = m.args
  BY <1>2, <1>3
<1>5. Keeps(n, m)
  BY <1>1, <1>2, <1>4, Zenon DEF Keeps, IsMachine
<1> QED BY <1>3, <1>5

\* A check.
LEMMA RequireKeeps ==
    ASSUME NEW m, IsMachine(m), NEW ok PROVE Keeps(Require(m, ok), m)
<1>1. CASE Runs(m) /\ ~ok
  BY <1>1, ChangeKeeps DEF Require
<1>2. CASE ~(Runs(m) /\ ~ok)
  BY <1>2 DEF Require, Keeps, IsMachine
<1> QED BY <1>1, <1>2

\* A word.
LEMMA WriteKeeps ==
    ASSUME NEW m, IsMachine(m), NEW a, NEW v PROVE Keeps(write_u64_at(m, a, v), m)
<1>1. CASE ~Runs(m)
  BY <1>1 DEF write_u64_at, Keeps, IsMachine
<1>2. CASE Runs(m) /\ Within(m, a)
  <2>1. PICK mem : mem = [m.mem EXCEPT ![a] = v]
    OBVIOUS
  <2>2. write_u64_at(m, a, v) = [m EXCEPT !.mem = mem]
    BY <1>2, <2>1 DEF write_u64_at
  <2> QED BY <2>2, ChangeKeeps
<1>3. CASE Runs(m) /\ ~Within(m, a)
  BY <1>3, RequireKeeps DEF write_u64_at
<1> QED BY <1>1, <1>2, <1>3

\* Words.
LEMMA WriteAllKeeps ==
    ASSUME NEW m, IsMachine(m), NEW a, NEW s PROVE Keeps(WriteAll(m, a, s), m)
<1> DEFINE inside == s = <<>> \/ (Within(m, a) /\ Within(m, a + Len(s) - 1))
<1>1. CASE Runs(m) /\ inside
  <2>1. PICK mem : mem = [x \in a..(a + Len(s) - 1) |-> s[x - a + 1]] @@ m.mem
    OBVIOUS
  <2>2. WriteAll(m, a, s) = [m EXCEPT !.mem = mem]
    BY <1>1, <2>1 DEF WriteAll
  <2> QED BY <2>2, ChangeKeeps
<1>2. CASE ~(Runs(m) /\ inside)
  <2>1. WriteAll(m, a, s) = Require(m, FALSE)
    BY <1>2 DEF WriteAll
  <2> QED BY <2>1, RequireKeeps
<1> QED BY <1>1, <1>2

\* Changes one after the other.
LEMMA KeepsOn ==
    ASSUME NEW m, NEW n, NEW o, Keeps(n, m), Keeps(o, n) PROVE Keeps(o, m)
BY DEF Keeps

\* The module's allocator.
LEMMA AllocKeeps ==
    ASSUME NEW m, IsMachine(m), NEW need PROVE Keeps(call_alloc(m, need), m)
<1>1. CASE ~Runs(m)
  BY <1>1 DEF call_alloc, Keeps, IsMachine
<1>2. CASE Runs(m) /\ m.alloc = "missing"
  BY <1>2, RequireKeeps DEF call_alloc
<1>3. CASE Runs(m) /\ m.alloc = "outside"
  <2>1. PICK far : far = Wrap - 1
    OBVIOUS
  <2>2. call_alloc(m, need) = [m EXCEPT !.ptr = far]
    BY <1>3, <2>1 DEF call_alloc
  <2> QED BY <2>2, ChangeKeeps
<1>4. CASE Runs(m) /\ m.alloc \notin {"missing", "outside"}
  <2>1. PICK n : n = Bumped(m, need)
    OBVIOUS
  <2>2. Keeps(n, m)
    <3>1. PICK D : D = DOMAIN Machine("bump", TRUE)
      OBVIOUS
    <3>2. m = [f \in D |-> m[f]] /\ IsSeq(m.args) /\ "args" \in D
      BY <3>1 DEF IsMachine, Machine
    <3>3. n = [f \in D |-> n[f]] /\ n.args = m.args
      BY <2>1, <3>2 DEF Bumped
    <3> QED BY <3>1, <3>2, <3>3, Zenon DEF Keeps, IsMachine
  <2>3. call_alloc(m, need) \in {n, [m EXCEPT !.fate = "trapped"]}
    BY <1>4, <2>1 DEF call_alloc
  <2> QED BY <2>2, <2>3, ChangeKeeps
<1> QED BY <1>1, <1>2, <1>3, <1>4

\* A byte string.
LEMMA BytesKeep ==
    ASSUME NEW m, IsMachine(m), NEW s PROVE Keeps(alloc_bytes(m, s), m)
<1>1. PICK n : n = call_alloc(m, Len(s))
  OBVIOUS
<1>2. PICK o : o = Require(n, n.ptr <= n.size /\ Len(s) <= n.size - n.ptr)
  OBVIOUS
<1>3. Keeps(n, m) /\ IsMachine(n)
  BY <1>1, AllocKeeps DEF Keeps
<1>4. Keeps(o, n) /\ IsMachine(o)
  BY <1>2, <1>3, RequireKeeps DEF Keeps
<1>5. Keeps(WriteAll(o, n.ptr, s), o)
  BY <1>4, WriteAllKeeps
<1>6. alloc_bytes(m, s) = WriteAll(o, n.ptr, s)
  BY <1>1, <1>2 DEF alloc_bytes
<1> QED BY <1>3, <1>4, <1>5, <1>6, KeepsOn

\* A file of words.
LEMMA FileKeeps ==
    ASSUME NEW m, IsMachine(m), NEW s PROVE Keeps(alloc_u64_file(m, s), m)
<1>1. PICK n : n = call_alloc(m, 1 + Len(s))
  OBVIOUS
<1>2. PICK o : o = write_u64_at(n, n.ptr, Len(s))
  OBVIOUS
<1>3. PICK q : q = Require(o, n.ptr <= n.size /\ 1 + Len(s) <= n.size - n.ptr)
  OBVIOUS
<1>4. Keeps(n, m) /\ IsMachine(n)
  BY <1>1, AllocKeeps DEF Keeps
<1>5. Keeps(o, n) /\ IsMachine(o)
  BY <1>2, <1>4, WriteKeeps DEF Keeps
<1>6. Keeps(q, o) /\ IsMachine(q)
  BY <1>3, <1>5, RequireKeeps DEF Keeps
<1>7. Keeps(WriteAll(q, n.ptr + 1, s), q)
  BY <1>6, WriteAllKeeps
<1>8. alloc_u64_file(m, s) = WriteAll(q, n.ptr + 1, s)
  BY <1>1, <1>2, <1>3 DEF alloc_u64_file
<1> QED BY <1>4, <1>5, <1>6, <1>7, <1>8, KeepsOn

\* What a command answers: nothing or one line, which is no outcome of the process.
Answers == {"u64", "memory", "saved", "stats", "memory-size"}
Short(lines) == lines = <<>> \/ \E l : lines = <<l>> /\ l.whole /\ l.what \in Answers

\* A command that the host carries out gives n arguments.
Serves(e, n) ==
    /\ Short(e.lines)
    /\ Runs(e.m) => IsMachine(e.m) /\ Len(e.m.args) = Len(machine.args) + n

\* A command that is not carried out.
LEMMA RejectedServes ==
    ASSUME IsMachine(machine), NEW n PROVE Serves(Rejected, n)
<1>1. ~Runs(Require(machine, FALSE)) \/ Require(machine, FALSE) = machine
  BY DEF Require, Runs
<1>2. ~Runs(Require(machine, FALSE))
  <2>1. CASE Runs(machine)
    <3>1. Require(machine, FALSE) = [machine EXCEPT !.fate = "died"]
      BY <2>1 DEF Require
    <3>2. [machine EXCEPT !.fate = "died"].fate # "runs"
      BY DEF IsMachine, Machine
    <3> QED BY <3>1, <3>2 DEF Runs
  <2>2. CASE ~Runs(machine)
    BY <2>2 DEF Require
  <2> QED BY <2>1, <2>2
<1>3. Rejected.m = Require(machine, FALSE) /\ Rejected.lines = <<>>
  BY DEF Rejected, After, Stay
<1> QED BY <1>2, <1>3 DEF Serves, Short

\* A command that leaves another machine with the same arguments.
LEMMA AfterServes ==
    ASSUME NEW m, Keeps(m, machine), IsMachine(machine) PROVE Serves(After(m), 0)
<1>1. After(m).m = m /\ After(m).lines = <<>>
  BY DEF After, Stay
<1>2. Len(m.args) = Len(machine.args) + 0
  <2>1. m.args = machine.args /\ IsSeq(machine.args)
    BY DEF Keeps, IsMachine
  <2>2. Len(machine.args) \in Nat
    BY <2>1, SeqOfAny
  <2> QED BY <2>1, <2>2
<1> QED BY <1>1, <1>2 DEF Serves, Short, Keeps

\* The same, and it keeps an address.
LEMMA KeepingServes ==
    ASSUME NEW id, NEW m, Keeps(m, machine), IsMachine(machine) PROVE Serves(Keeping(id, m), 0)
<1>1. CASE Runs(m)
  <2>1. Keeping(id, m).m = m /\ Keeping(id, m).lines = <<>>
    BY <1>1 DEF Keeping, After, Stay
  <2>2. After(m).m = m /\ After(m).lines = <<>>
    BY DEF After, Stay
  <2> QED BY <2>1, <2>2, AfterServes DEF Serves
<1>2. CASE ~Runs(m)
  BY <1>2, AfterServes DEF Keeping
<1> QED BY <1>1, <1>2

\* A command that leaves the machine as it is.
LEMMA StaysServes ==
    ASSUME NEW e, e.m = machine, Short(e.lines), IsMachine(machine) PROVE Serves(e, 0)
<1>1. Len(machine.args) = Len(machine.args) + 0
  BY SeqOfAny DEF IsMachine
<1> QED BY <1>1 DEF Serves

\* A line of answer.
LEMMA AnsweredServes ==
    ASSUME NEW what \in Answers, NEW tokens
    PROVE  Answered(what, tokens).m = machine /\ Short(Answered(what, tokens).lines)
<1>1. PICK l : l = Line(what, tokens, TRUE)
  OBVIOUS
<1>2. l.what \in Answers /\ l.whole
  BY <1>1 DEF Line
<1>3. Answered(what, tokens).lines = <<l>> /\ Answered(what, tokens).m = machine
  BY <1>1 DEF Answered, Stay
<1> QED BY <1>2, <1>3 DEF Short

\* An argument.
LEMMA PassingServes ==
    ASSUME IsMachine(machine), NEW value PROVE Serves(Passing(value), 1)
<1>1. CASE Len(machine.args) < MaxArgs
  <2>1. PICK D : D = DOMAIN Machine("bump", TRUE)
    OBVIOUS
  <2>2. machine = [f \in D |-> machine[f]] /\ IsSeq(machine.args) /\ "args" \in D
    BY <2>1 DEF IsMachine, Machine
  <2>3. PICK args : args = machine.args \o <<value>>
    OBVIOUS
  <2>4. IsSeq(args) /\ Len(args) = Len(machine.args) + 1
    BY <2>2, <2>3, ShortSeqs, Joined DEF Joins
  <2>5. Append(machine.args, value) = args
    BY <2>2, <2>3, AppendIs
  <2>6. PICK n : n = [machine EXCEPT !.args = args]
    OBVIOUS
  <2>7. n = [f \in D |-> n[f]] /\ n.args = args
    BY <2>2, <2>6
  <2>8. Passing(value) = After(n)
    BY <1>1, <2>5, <2>6 DEF Passing
  <2>9. Passing(value).m = n /\ Passing(value).lines = <<>>
    BY <2>8 DEF After, Stay
  <2>10. IsMachine(n) /\ Len(n.args) = Len(machine.args) + 1
    BY <2>1, <2>4, <2>7, Zenon DEF IsMachine
  <2> QED BY <2>9, <2>10 DEF Serves, Short
<1>2. CASE ~(Len(machine.args) < MaxArgs)
  BY <1>2, RejectedServes DEF Passing
<1> QED BY <1>1, <1>2

\* A word that is read, and kept in a variable.
LEMMA ReadWordServes ==
    ASSUME IsMachine(machine), NEW c, NEW a PROVE Serves(ReadWord(c, a), 0)
<1>1. CASE called /\ Within(machine, a)
  <2>1. PICK e : e = Answered("u64", <<c.id, machine.mem[a]>>)
    OBVIOUS
  <2>2. e.m = machine /\ Short(e.lines)
    BY <2>1, AnsweredServes DEF Answers
  <2>3. PICK o : o = [e EXCEPT !.words[c.id] = machine.mem[a]]
    OBVIOUS
  <2>4. o.m = machine /\ o.lines = e.lines
    BY <2>1, <2>2, <2>3 DEF Answered, Stay
  <2>5. ReadWord(c, a) = o
    BY <1>1, <2>1, <2>3 DEF ReadWord
  <2> QED BY <2>2, <2>4, <2>5, StaysServes
<1>2. CASE ~(called /\ Within(machine, a))
  <2>1. ReadWord(c, a) = Rejected
    BY <1>2 DEF ReadWord
  <2> QED BY <2>1, RejectedServes
<1> QED BY <1>1, <1>2

\* A range that is read.
LEMMA ReadRangeServes ==
    ASSUME IsMachine(machine), NEW p, NEW len PROVE Serves(ReadRange(p, len), 0)
<1>1. CASE called /\ InRange(machine, p, len)
  <2>1. PICK e : e = Answered("memory", <<p, len>> \o WalkWords(machine, p, len).out)
    OBVIOUS
  <2>2. e.m = machine /\ Short(e.lines)
    BY <2>1, AnsweredServes DEF Answers
  <2>3. ReadRange(p, len) = e
    BY <1>1, <2>1 DEF ReadRange
  <2> QED BY <2>2, <2>3, StaysServes
<1>2. CASE ~(called /\ InRange(machine, p, len))
  <2>1. ReadRange(p, len) = Rejected
    BY <1>2 DEF ReadRange
  <2> QED BY <2>1, RejectedServes
<1> QED BY <1>1, <1>2

\* An array that is saved.
LEMMA SaveArrayServes ==
    ASSUME IsMachine(machine), NEW p PROVE Serves(SaveArray(p), 0)
<1>1. CASE ArrayInRange(machine, p)
  <2>1. PICK e : e = Answered("saved", <<machine.mem[p]>>)
    OBVIOUS
  <2>2. e.m = machine /\ Short(e.lines)
    BY <2>1, AnsweredServes DEF Answers
  <2>3. PICK written : written = save_u64_array(machine, p)
    OBVIOUS
  <2>4. PICK o : o = [e EXCEPT !.saved = written]
    OBVIOUS
  <2>5. o.m = machine /\ o.lines = e.lines
    BY <2>1, <2>2, <2>4 DEF Answered, Stay
  <2>6. SaveArray(p) = o
    BY <1>1, <2>1, <2>3, <2>4 DEF SaveArray
  <2> QED BY <2>2, <2>5, <2>6, StaysServes
<1>2. CASE ~ArrayInRange(machine, p)
  <2>1. SaveArray(p) = Rejected
    BY <1>2 DEF SaveArray
  <2> QED BY <2>1, RejectedServes
<1> QED BY <1>1, <1>2

\* How many arguments a command gives.
Gives(op) == IF op \in ArgCommands THEN 1 ELSE 0

\* Every command.
LEMMA RanServes ==
    ASSUME IsMachine(machine), NEW c PROVE Serves(Ran(c), Gives(c.op))
<1> DEFINE bad == \/ "id" \in DOMAIN c /\ c.id >= IdLimit
                  \/ "value" \in DOMAIN c /\ ~Resolves(c.value)
                  \/ "text" \in DOMAIN c /\ Bad \in Sq!ToSet(c.text)
<1>1. CASE bad
  <2>1. Ran(c) = Rejected
    BY <1>1 DEF Ran
  <2> QED BY <2>1, RejectedServes
<1>2. CASE ~bad /\ c.op = "alloc"
  <2>1. Ran(c) = Keeping(c.id, call_alloc(machine, c.size))
    BY <1>2 DEF Ran
  <2>2. PICK m : m = call_alloc(machine, c.size)
    OBVIOUS
  <2>3. Serves(Keeping(c.id, m), 0)
    BY <2>2, AllocKeeps, KeepingServes
  <2> QED BY <1>2, <2>1, <2>2, <2>3 DEF Gives, ArgCommands
<1>3. CASE ~bad /\ c.op \in {"bytes", "bytes-file"}
  <2>1. Ran(c) = Keeping(c.id, alloc_bytes(machine, c.text))
    BY <1>3 DEF Ran
  <2>2. PICK m : m = alloc_bytes(machine, c.text)
    OBVIOUS
  <2>3. Serves(Keeping(c.id, m), 0)
    BY <2>2, BytesKeep, KeepingServes
  <2> QED BY <1>3, <2>1, <2>2, <2>3 DEF Gives, ArgCommands
<1>4. CASE ~bad /\ c.op = "file-u64"
  <2>1. Ran(c) = Keeping(c.id, alloc_u64_file(machine, c.text))
    BY <1>4 DEF Ran
  <2>2. PICK m : m = alloc_u64_file(machine, c.text)
    OBVIOUS
  <2>3. Serves(Keeping(c.id, m), 0)
    BY <2>2, FileKeeps, KeepingServes
  <2> QED BY <1>4, <2>1, <2>2, <2>3 DEF Gives, ArgCommands
<1>5. CASE ~bad /\ c.op = "keep"
  <2>1. PICK e : e = [Stay EXCEPT !.ids[c.id] = resolve_script_value(c.value)]
    OBVIOUS
  <2>2. Ran(c) = e
    BY <1>5, <2>1 DEF Ran
  <2>3. e.m = machine /\ e.lines = <<>>
    BY <2>1 DEF Stay
  <2> QED BY <1>5, <2>2, <2>3, StaysServes DEF Gives, ArgCommands, Short
<1>6. CASE ~bad /\ c.op = "write-u64"
  <2>1. Ran(c) = After(write_u64_at(machine, Address(c), c.word))
    BY <1>6 DEF Ran
  <2>2. PICK m : m = write_u64_at(machine, Address(c), c.word)
    OBVIOUS
  <2>3. Serves(After(m), 0)
    BY <2>2, WriteKeeps, AfterServes
  <2> QED BY <1>6, <2>1, <2>2, <2>3 DEF Gives, ArgCommands
<1>7. CASE ~bad /\ c.op = "write-ptr"
  <2>1. Ran(c) = After(write_u64_at(machine, Address(c), ids[c.to]))
    BY <1>7 DEF Ran
  <2>2. PICK m : m = write_u64_at(machine, Address(c), ids[c.to])
    OBVIOUS
  <2>3. Serves(After(m), 0)
    BY <2>2, WriteKeeps, AfterServes
  <2> QED BY <1>7, <2>1, <2>2, <2>3 DEF Gives, ArgCommands
<1>8. CASE ~bad /\ c.op = "write-bytes"
  <2>1. PICK n : n = Require(machine, InRange(machine, Address(c), Len(c.text)))
    OBVIOUS
  <2>2. PICK m : m = WriteAll(n, Address(c), c.text)
    OBVIOUS
  <2>3. Ran(c) = After(m)
    BY <1>8, <2>1, <2>2 DEF Ran
  <2>4. Keeps(n, machine) /\ IsMachine(n)
    BY <2>1, RequireKeeps DEF Keeps
  <2>5. Keeps(m, n)
    BY <2>2, <2>4, WriteAllKeeps
  <2>6. Keeps(m, machine)
    BY <2>4, <2>5, KeepsOn
  <2>7. Serves(After(m), 0)
    BY <2>6, AfterServes
  <2> QED BY <1>8, <2>3, <2>7 DEF Gives, ArgCommands
<1>9. CASE ~bad /\ c.op \in ArgCommands
  <2>1. \/ Ran(c) = Passing(Value("i64", resolve_script_value(c.value)))
        \/ Ran(c) = Passing(Value("i64", ids[c.id]))
        \/ Ran(c) = Passing(Value("f64", c.word))
    BY <1>9 DEF Ran, ArgCommands
  <2> QED BY <1>9, <2>1, PassingServes DEF Gives
<1>10. CASE ~bad /\ c.op = "read-u64"
  <2>1. Ran(c) = ReadWord(c, resolve_script_value(c.value) + c.offset)
    BY <1>10 DEF Ran
  <2> QED BY <1>10, <2>1, ReadWordServes DEF Gives, ArgCommands
<1>11. CASE ~bad /\ c.op = "read-memory"
  <2>1. Ran(c) = ReadRange(resolve_script_value(c.value), c.size)
    BY <1>11 DEF Ran
  <2> QED BY <1>11, <2>1, ReadRangeServes DEF Gives, ArgCommands
<1>12. CASE ~bad /\ c.op = "save-u64"
  <2>1. Ran(c) = SaveArray(resolve_script_value(c.value))
    BY <1>12 DEF Ran
  <2> QED BY <1>12, <2>1, SaveArrayServes DEF Gives, ArgCommands
<1>13. CASE ~bad /\ c.op \in {"stats", "memory-size"}
  <2>1. Ran(c) = Answered("stats", <<>>) \/ Ran(c) = Answered("memory-size", <<machine.size>>)
    BY <1>13 DEF Ran
  <2>2. Ran(c).m = machine /\ Short(Ran(c).lines)
    <3>1. PICK e : e = Ran(c)
      OBVIOUS
    <3> QED BY <2>1, AnsweredServes DEF Answers
  <2>3. Serves(Ran(c), 0)
    BY <2>2, StaysServes
  <2> QED BY <1>13, <2>3 DEF Gives, ArgCommands
<1>14. CASE /\ ~bad
            /\ c.op \notin ArgCommands \cup
                 {"alloc", "bytes", "bytes-file", "file-u64", "keep", "write-u64", "write-ptr",
                  "write-bytes", "read-u64", "read-memory", "save-u64", "stats", "memory-size"}
  <2>1. Ran(c) = Rejected
    BY <1>14 DEF Ran, ArgCommands
  <2> QED BY <2>1, RejectedServes
<1> HIDE DEF bad
<1> QED BY <1>1, <1>2, <1>3, <1>4, <1>5, <1>6, <1>7, <1>8, <1>9, <1>10, <1>11, <1>12, <1>13, <1>14

\* A command after which the process goes on: it adds lines that are no outcome.
LEMMA AnswersKeep ==
    ASSUME Inv, IsScript, step = "script", NEW lines, IsSeq(lines), Marked(lines, Outcomes) = {},
           \A i \in DOMAIN lines : lines[i].whole,
           control' = control \o lines, UNCHANGED <<line, step, outcome, process>>, Served'
    PROVE  Inv'
<1>1. /\ line' = line /\ step' = step /\ outcome' = outcome
      /\ recorded' = recorded /\ held' = held /\ alive' = alive
  BY DEF process
<1>2. PICK u : u = control \o lines
  OBVIOUS
<1>3. /\ IsSeq(control) /\ Marked(control, Outcomes) = {} /\ ~recorded
      /\ \A i \in DOMAIN control : control[i].whole
  BY DEF Inv, Calm, Over
<1>4. IsSeq(u) /\ Marked(u, Outcomes) = {} /\ \A i \in DOMAIN u : u[i].whole
  <2>1. IsSeq(u)
    BY <1>2, <1>3, Joined DEF Joins
  <2>2. Marked(u, Outcomes) = {}
    BY <1>2, <1>3, MarkedKept
  <2>3. \A i \in DOMAIN u : u[i].whole
    BY <1>2, <1>3, WholeKept
  <2> QED BY <2>1, <2>2, <2>3
<1>5. control' = u
  BY <1>2
<1>6. Calm'
  BY <1>1, <1>3, <1>4, <1>5 DEF Calm, Marked, Outcomes
<1>7. StepOK'
  BY <1>1 DEF Inv, StepOK, At, Calling, Over, IsScript, IsCommand, Failures, Wasi
<1>8. Counted'
  BY <1>1 DEF Counted, IsScript
<1>9. DisposedOnce'
  BY <1>1 DEF Inv, DisposedOnce, Ended
<1>10. OutcomeRecorded'
  BY <1>1 DEF OutcomeRecorded
<1>11. WholeLines'
  BY <1>1, <1>4, <1>5 DEF WholeLines, Ended
<1> QED BY <1>6, <1>7, <1>8, <1>9, <1>10, <1>11 DEF Inv

\* A command that calls no export of the client's.
LEMMA ExecuteKeeps ==
    ASSUME Inv, Execute PROVE Inv'
<1>1. PICK e : e = Ran(input)
  OBVIOUS
<1>2. IsScript /\ step = "script" /\ step \notin Over /\ input' = NoInput /\ given' = given
  BY DEF Execute, Over
<1>3. ~recorded /\ outcome # Return
  BY <1>2 DEF Inv, Calm, StepOK, At, Calling, Over
<1>4. CASE /\ Runs(e.m) /\ machine' = e.m /\ control' = control \o e.lines
           /\ UNCHANGED <<line, step, outcome, results, process, timed, called>>
  <2>1. /\ IsMachine(machine)
        /\ given = Len(machine.args) + (IF input.op \in ArgCommands THEN 1 ELSE 0)
    BY <1>2 DEF Inv, Served
  <2>2. Serves(e, Gives(input.op))
    BY <1>1, <2>1, RanServes
  <2>3. PICK lines : lines = e.lines
    OBVIOUS
  <2>4. /\ IsSeq(lines) /\ Marked(lines, Outcomes) = {} /\ Marked(lines, {"results"}) = {}
        /\ \A i \in DOMAIN lines : lines[i].whole
    <3>1. CASE lines = <<>>
      BY <3>1, OneLine, ShortSeqs
    <3>2. CASE \E l : lines = <<l>> /\ l.whole /\ l.what \in Answers
      BY <3>2, OneLine, ShortSeqs DEF Answers, Outcomes
    <3> QED BY <2>2, <2>3, <3>1, <3>2 DEF Serves, Short
  <2>5. Called' = Called
    <3>1. IsSeq(control)
      BY DEF Inv, Calm
    <3>2. PICK u : u = control \o lines
      OBVIOUS
    <3>3. Marked(u, {"results"}) = Marked(control, {"results"})
      BY <2>4, <3>1, <3>2, MarkedKept
    <3>4. control' = u
      BY <1>4, <2>3, <3>2
    <3> QED BY <3>3, <3>4 DEF Called, Marked
  <2>6. IsMachine(e.m) /\ given = Len(e.m.args) + 0
    <3>1. IsMachine(e.m) /\ Len(e.m.args) = Len(machine.args) + Gives(input.op)
      BY <1>4, <2>2 DEF Serves
    <3>2. Len(e.m.args) \in Nat
      BY <3>1, SeqOfAny DEF IsMachine
    <3> QED BY <2>1, <3>1, <3>2 DEF Gives
  <2>7. NoInput.op \notin ArgCommands
    BY DEF NoInput, ArgCommands
  <2>8. Served'
    <3>1. line' = line /\ step' = step /\ called' = called /\ step \notin {"exited", "rejected"}
      BY <1>2, <1>4
    <3>2. IsMachine(machine)' /\ given' = Len(machine'.args) + 0
      BY <1>2, <1>4, <2>6 DEF IsMachine
    <3> QED BY <1>2, <2>5, <2>7, <3>1, <3>2 DEF Inv, Served, IsScript, Ended
  <2> QED BY <1>2, <1>4, <2>3, <2>4, <2>8, AnswersKeep
<1>5. CASE die /\ called' = called
  BY <1>2, <1>3, <1>5, DieEnds, EndsKeep
<1>6. CASE check_outcome([kind |-> "trap"], 1) /\ called' = called
  BY <1>2, <1>3, <1>6, AllocatorTraps, EndsKeep
<1> QED BY <1>1, <1>4, <1>5, <1>6 DEF Execute

\* A call of an export, which a script makes once.
LEMMA CallKeeps ==
    ASSUME Inv, CallCommand PROVE Inv'
<1>1. /\ IsScript /\ step = "script" /\ step \notin Over /\ input' = NoInput /\ given' = 0
      /\ ~called \/ IsSession
  BY DEF CallCommand, Reading, Over, MayCall
<1>2. ~recorded /\ outcome # Return
  BY <1>1 DEF Inv, Calm, StepOK, At, Calling, Over
<1>3. CASE /\ \E m \in Left(machine) : machine' = [m EXCEPT !.args = <<>>]
           /\ called' = TRUE
           /\ control' = Append(control,
                 Line("results", [i \in DOMAIN results' |-> results'[i].bits], TRUE))
           /\ UNCHANGED <<line, step, outcome, process, timed, saved>>
  <2>1. PICK l : l = Line("results", [i \in DOMAIN results' |-> results'[i].bits], TRUE)
    OBVIOUS
  <2>2. l.what = "results" /\ l.whole
    BY <2>1 DEF Line
  <2>3. PICK lines : lines = <<l>>
    OBVIOUS
  <2>4. IsSeq(control)
    BY DEF Inv, Calm
  <2>5. control' = control \o lines
    BY <1>3, <2>1, <2>3, <2>4, AppendIs
  <2>6. /\ IsSeq(lines) /\ Marked(lines, Outcomes) = {}
        /\ \A i \in DOMAIN lines : lines[i].whole
    BY <2>2, <2>3, OneLine, ShortSeqs DEF Outcomes
  <2>7. Called' = Called \cup {Len(control) + 1}
    <3>1. PICK u : u = control \o lines
      OBVIOUS
    <3>2. l.what \in {"results"}
      BY <2>2
    <3>3. Marked(u, {"results"}) = Marked(control, {"results"}) \cup {Len(control) + 1}
      BY <2>3, <2>4, <3>1, <3>2, MarkedOne
    <3>4. control' = u
      BY <2>5, <3>1
    <3> QED BY <3>3, <3>4 DEF Called, Marked
  <2>8. IsMachine(machine)' /\ machine'.args = <<>>
    <3>1. PICK m \in Left(machine) : machine' = [m EXCEPT !.args = <<>>]
      BY <1>3
    <3>2. m \in Machines
      BY DEF Left
    <3>3. PICK D : D = DOMAIN Machine("bump", TRUE)
      OBVIOUS
    <3>4. PICK n : n = [m EXCEPT !.args = <<>>]
      OBVIOUS
    <3>5. m = [f \in D |-> m[f]] /\ "args" \in D
      BY <3>2, <3>3 DEF Machines, Machine
    <3>6. n = [f \in D |-> n[f]] /\ n.args = <<>>
      BY <3>4, <3>5
    <3>7. IsMachine(n)
      BY <3>3, <3>6, ShortSeqs, Zenon DEF IsMachine
    <3>8. machine' = n
      BY <3>1, <3>4
    <3> QED BY <3>6, <3>7, <3>8 DEF IsMachine
  <2>9. Len(machine'.args) = 0 /\ NoInput.op \notin ArgCommands
    BY <2>8, ShortSeqs DEF NoInput, ArgCommands
  <2>10. Served'
    <3>1. line' = line /\ step' = step /\ called' /\ ~Ended'
      BY <1>1, <1>3 DEF Ended
    <3>2. line.mode = "script" => Called = {}
      <4>1. line.mode = "script" => ~called
        BY <1>1 DEF IsSession
      <4> QED BY <4>1 DEF Inv, Served
    <3>3. line.mode = "script" => Called' = {Len(control) + 1}
      BY <2>7, <3>2
    <3>4. given' = Len(machine'.args) + (IF input'.op \in ArgCommands THEN 1 ELSE 0)
      BY <1>1, <2>9
    <3> QED BY <1>1, <2>7, <2>8, <3>1, <3>3, <3>4 DEF Served, IsScript
  <2> QED BY <1>1, <1>3, <2>5, <2>6, <2>10, AnswersKeep
<1>4. CASE (\E o \in Failures : check_outcome(o, 2)) /\ called' = called
  BY <1>1, <1>2, <1>4, FailureEnds, EndsKeep
<1> QED BY <1>3, <1>4 DEF CallCommand

\* A call that is refused, and the end of the script.
LEMMA ScriptEndsKeep ==
    ASSUME Inv, CallRefused \/ EndScript PROVE Inv'
<1>1. IsScript /\ step = "script" /\ step \notin Over /\ called' = called
  BY DEF CallRefused, EndScript, Reading, Over
<1>2. ~recorded /\ outcome # Return
  BY <1>1 DEF Inv, Calm, StepOK, At, Calling, Over
<1>3. CASE CallRefused
  BY <1>1, <1>2, <1>3, DieEnds, EndsKeep DEF CallRefused
<1>4. CASE EndScript
  <2>1. PICK code : code = IF called THEN 0 ELSE 1
    OBVIOUS
  <2>2. Finish(code, <<>>, recorded)
    BY <1>4, <2>1 DEF EndScript
  <2>3. (code = 0 /\ called) \/ code = 1
    BY <2>1
  <2>4. EndsWell(code, <<>>, recorded)
    BY <1>1, <1>2, <2>3, OneLine, ShortSeqs DEF EndsWell
  <2> QED BY <1>1, <2>2, <2>4, EndsKeep DEF Ends
<1> QED BY <1>3, <1>4

\* The client sends a command, and the argument it gives is counted.
LEMMA SendKeeps ==
    ASSUME Inv, Client PROVE Inv'
<1>1. PICK c \in Commands \cup {EndOfInput} : Send(c)
  BY DEF Client
<1>2. /\ IsScript /\ ~Ended /\ input = NoInput /\ input' = c /\ called' = called
      /\ given' = given + (IF c.op \in ArgCommands THEN 1 ELSE 0)
      /\ UNCHANGED hostVars
  BY <1>1 DEF Send
<1>3. /\ line' = line /\ step' = step /\ machine' = machine /\ outcome' = outcome
      /\ results' = results /\ control' = control /\ recorded' = recorded /\ lost' = lost
      /\ status' = status /\ held' = held /\ alive' = alive
  BY <1>2 DEF hostVars, process
<1>4. StepOK' /\ Calm' /\ Counted' /\ DisposedOnce' /\ OutcomeRecorded' /\ WholeLines'
  <2>1. StepOK' /\ Calm'
    BY <1>3 DEF Inv, StepOK, Calm, At, Returns, IsScript, IsCommand, Failures, Wasi, Marked
  <2>2. Counted' /\ DisposedOnce'
    BY <1>3 DEF Inv, Counted, DisposedOnce, IsScript, Marked, Expected, SavesFile, Ended
  <2>3. OutcomeRecorded' /\ WholeLines'
    <3>1. ~Ended'
      BY <1>2, <1>3 DEF Ended
    <3> QED BY <1>3, <3>1 DEF Inv, OutcomeRecorded, WholeLines, Ended
  <2> QED BY <2>1, <2>2, <2>3
<1>5. Served'
  <2>1. Called' = Called /\ ~Ended' /\ IsMachine(machine)' = IsMachine(machine)
    BY <1>2, <1>3 DEF Called, Ended, IsMachine
  <2>2. /\ IsMachine(machine) /\ given = Len(machine.args)
    <3>1. NoInput.op \notin ArgCommands /\ step \notin Over
      BY <1>2 DEF NoInput, ArgCommands, Ended, Over
    <3>2. /\ IsMachine(machine)
          /\ given = Len(machine.args) + (IF NoInput.op \in ArgCommands THEN 1 ELSE 0)
      BY <1>2, <3>1 DEF Inv, Served
    <3>3. Len(machine.args) \in Nat
      BY <3>2, SeqOfAny DEF IsMachine
    <3> QED BY <3>1, <3>2, <3>3
  <2> QED BY <1>2, <1>3, <2>1, <2>2 DEF Inv, Served, IsScript
<1> QED BY <1>4, <1>5 DEF Inv

-----------------------------------------------------------------------------
(* The theorems. *)

\* It holds at the start.
LEMMA InvStarts ==
    ASSUME HostInit, ScriptInit PROVE Inv
<1>1. /\ line \in Lines /\ step = "options" /\ outcome = None /\ control = <<>>
      /\ ~recorded /\ held = {} /\ alive = {} /\ ~called /\ given = 0 /\ input = NoInput
      /\ machine = Machine(line.alloc, TRUE)
  BY DEF HostInit, ScriptInit
<1>2. None # Return
  BY DEF None, Return
<1>3. StepOK
  BY <1>1, <1>2 DEF StepOK, At, Calling
<1>4. Calm
  BY <1>1, OneLine, ShortSeqs DEF Calm
<1>5. Counted /\ DisposedOnce /\ OutcomeRecorded
  BY <1>1 DEF Counted, DisposedOnce, OutcomeRecorded, Ended
<1>6. WholeLines
  BY <1>1, OneLine DEF WholeLines, Ended
<1>7. Served
  <2>1. IsMachine(machine) /\ machine.args = <<>>
    <3>1. PICK a : a = line.alloc
      OBVIOUS
    <3>2. PICK m : m = Machine(a, TRUE)
      OBVIOUS
    <3>3. PICK D : D = DOMAIN Machine("bump", TRUE)
      OBVIOUS
    <3>4. m = [f \in D |-> m[f]] /\ m.args = <<>>
      BY <3>2, <3>3 DEF Machine
    <3>5. IsMachine(m)
      BY <3>3, <3>4, ShortSeqs, Zenon DEF IsMachine
    <3> QED BY <1>1, <3>1, <3>2, <3>4, <3>5
  <2>2. Len(machine.args) = 0 /\ NoInput.op \notin ArgCommands
    BY <2>1, ShortSeqs DEF NoInput, ArgCommands
  <2>3. Called = {}
    BY <1>1, OneLine, MarkedNames
  <2>4. ~Ended /\ given = Len(machine.args) + 0 /\ input.op \notin ArgCommands
    <3>1. ~Ended
      BY <1>1 DEF Ended
    <3>2. given = Len(machine.args) + 0
      <4>1. given = 0
        BY <1>1
      <4> QED BY <2>2, <4>1
    <3>3. input.op \notin ArgCommands
      BY <1>1, <2>2, Zenon
    <3> QED BY <3>1, <3>2, <3>3
  <2>5. given = Len(machine.args) + (IF input.op \in ArgCommands THEN 1 ELSE 0)
    BY <2>4
  <2> QED BY <1>1, <2>1, <2>3, <2>4, <2>5, Zenon DEF Served
<1> QED BY <1>3, <1>4, <1>5, <1>6, <1>7 DEF Inv

\* Nothing it speaks of changes in a step that changes nothing.
LEMMA InvStutters ==
    ASSUME Inv, UNCHANGED allVars PROVE Inv'
<1>1. /\ line' = line /\ step' = step /\ machine' = machine /\ outcome' = outcome
      /\ results' = results /\ control' = control /\ recorded' = recorded /\ lost' = lost
      /\ status' = status /\ held' = held /\ alive' = alive
      /\ called' = called /\ given' = given /\ input' = input
  BY DEF allVars, hostVars, process, scriptVars
<1>2. StepOK' /\ Calm'
  BY <1>1 DEF Inv, StepOK, Calm, At, Returns, IsScript, IsCommand, Failures, Wasi, Marked
<1>3. Counted' /\ DisposedOnce'
  BY <1>1 DEF Inv, Counted, DisposedOnce, IsScript, Marked, Expected, SavesFile, Ended
<1>4. OutcomeRecorded' = OutcomeRecorded
  BY <1>1 DEF OutcomeRecorded, OutcomeLines, Wasi, control_records, IsCommand, StatusOf
<1>5. WholeLines' = WholeLines
  BY <1>1 DEF WholeLines, Ended, IsScript, IsCommand, SavesFile
<1>6. Served' = Served
  BY <1>1 DEF Served, Called, Ended, IsScript, IsMachine, OutcomeLines
<1> QED BY <1>2, <1>3, <1>4, <1>5, <1>6 DEF Inv

\* The inductive invariant of the process and its client.
THEOREM ProcessInvariant == ProcessSpec => []Inv
<1>1. HostInit /\ ScriptInit => Inv
  BY InvStarts
<1>2. Inv /\ [ProcessNext]_allVars => Inv'
  <2> SUFFICES ASSUME Inv, [ProcessNext]_allVars PROVE Inv'
    OBVIOUS
  <2>1. CASE HostNext /\ UNCHANGED scriptVars
    BY <2>1, HostKeeps
  <2>2. CASE Client
    BY <2>2, SendKeeps
  <2>3. CASE ScriptStep
    BY <2>3, ExecuteKeeps, CallKeeps, ScriptEndsKeep DEF ScriptStep
  <2>4. CASE UNCHANGED allVars
    BY <2>4, InvStutters
  <2> QED BY <2>1, <2>2, <2>3, <2>4 DEF ProcessNext
<1> QED BY <1>1, <1>2, PTL DEF ProcessSpec

\* check_outcome and finish_host: with WASI and control records a process leaves
\* one record of its outcome, as its last line, and the status it stands for.
THEOREM OneOutcome == ProcessSpec => []OutcomeRecorded
<1>1. Inv => OutcomeRecorded
  BY DEF Inv
<1> QED BY <1>1, ProcessInvariant, PTL

\* dispose_runtime: the handles are those of the objects that are alive, and
\* none is left when the process ends, whatever failed.
THEOREM NothingLeaks == ProcessSpec => []DisposedOnce
<1>1. Inv => DisposedOnce
  BY DEF Inv
<1> QED BY <1>1, ProcessInvariant, PTL

\* print_call_results: every line is whole but those of `slots:N`, and a call that
\* succeeds has printed a line for each item.
THEOREM ResultsWhole == ProcessSpec => []WholeLines
<1>1. Inv => WholeLines
  BY DEF Inv
<1> QED BY <1>1, ProcessInvariant, PTL

\* run_script: a script calls once, succeeds only if it called, and a call has the
\* arguments sent since the one before.
THEOREM CallsCounted == ProcessSpec => []CallsAsSent
<1>1. Inv => CallsAsSent
  <2> SUFFICES ASSUME Inv PROVE CallsAsSent
    OBVIOUS
  <2>1. Served
    BY DEF Inv
  <2>2. line.mode = "script" => Cardinality(Called) <= 1
    <3> SUFFICES ASSUME line.mode = "script" PROVE Cardinality(Called) <= 1
      OBVIOUS
    <3>1. Called = {} \/ \E i : Called = {i}
      BY <2>1 DEF Served
    <3>2. Called = {} => Cardinality(Called) = 0
      BY FS_EmptySet
    <3>3. (\E i : Called = {i}) => Cardinality(Called) = 1
      BY FS_Singleton
    <3> QED BY <3>1, <3>2, <3>3
  <2>3. Reading("call") => Len(machine.args) = given
    <3> SUFFICES ASSUME Reading("call") PROVE Len(machine.args) = given
      OBVIOUS
    <3>1. IsScript /\ step \notin Over /\ input.op \notin ArgCommands
      BY DEF Reading, Over, ArgCommands
    <3>2. IsMachine(machine) /\ given = Len(machine.args) + 0
      BY <2>1, <3>1 DEF Served
    <3>3. Len(machine.args) \in Nat
      BY <3>2, SeqOfAny DEF IsMachine
    <3> QED BY <3>2, <3>3
  <2> QED BY <2>1, <2>2, <2>3 DEF Served, CallsAsSent
<1> QED BY <1>1, ProcessInvariant, PTL
=============================================================================
