----------------------------- MODULE HostObjects ----------------------------
(***************************************************************************)
(* The objects that tools/wasmtime-host.c builds in a module's memory for  *)
(* the arguments of a call, and reads back for its results.  The host of   *)
(* translated modules, tools/native-host.c, repeats these functions        *)
(* (NativeHost).                                                           *)
(*                                                                         *)
(* Addresses and sizes are in words of 8 bytes; byte strings and files     *)
(* have whole words.  An address below 0 stands for one that wrapped: no   *)
(* memory is that large.  The text of an argument is its sequence of       *)
(* tokens, and so is a printed line; the separators are left out.          *)
(*                                                                         *)
(* A machine is the memory with what the host has computed so far.  `fate` *)
(* says whether the host still runs; every operator leaves a machine       *)
(* alone that does not.                                                    *)
(***************************************************************************)
EXTENDS Integers, Sequences, TLC

Sq == INSTANCE SequencesExt

CONSTANTS HeapBase,     \* where the allocator of the module begins
          FirstSize,    \* the size of the module's memory at first
          MemoryLimit,  \* what it can grow to
          Wrap,         \* 2^64 bytes, in words: 2^61
          FloatLimit,   \* 2^32: the bits of an f32 are below it
          MaxWidth,     \* 64: the slots of the widest record
          Magic         \* OBJECT_MAGIC

ASSUME ObjectAssumption ==
    /\ HeapBase \in Nat \ {0} /\ FirstSize \in Nat /\ MemoryLimit \in Nat
    /\ HeapBase <= FirstSize /\ FirstSize <= MemoryLimit /\ MemoryLimit < Wrap
    /\ Wrap \in Nat /\ FloatLimit \in Nat /\ MaxWidth \in Nat /\ Magic \in Nat

\* A value of the call: its WebAssembly type and its bits.
Value(kind, bits) == [kind |-> kind, bits |-> bits]

\* Tokens that are no number: the leaf `.`, a text strtoull does not read to
\* its end (or a file that cannot be read), and no text at all.
Dot == -1
Bad == -2
Empty == -3

HeaderWords == 6
TestMask(mask, i) == (mask \div 2^i) % 2 = 1

\* alloc: what the export `alloc` does: "bump", "outside" (it returns an address
\* that is not in memory) or "missing".  lenient: whether an empty number is 0.
Machine(alloc, lenient) ==
    [mem |-> [a \in 0..(MemoryLimit - 1) |-> 0], size |-> FirstSize, top |-> HeapBase,
     fate |-> "runs", text |-> <<>>, token |-> Empty, ptr |-> 0, args |-> <<>>,
     alloc |-> alloc, lenient |-> lenient]

\* A value's bits, like a word of memory, are a number.
Values == [kind : STRING, bits : Int]
Machines ==
    [mem : [0..(MemoryLimit - 1) -> Int], size : 0..MemoryLimit, top : Nat,
     fate : {"runs", "died", "trapped"}, text : Seq(Int), token : Int, ptr : Int,
     args : Seq(Values), alloc : STRING, lenient : BOOLEAN]

Runs(m) == m.fate = "runs"
Require(m, ok) == IF Runs(m) /\ ~ok THEN [m EXCEPT !.fate = "died"] ELSE m
Within(m, a) == a >= 0 /\ a < m.size

-----------------------------------------------------------------------------
(* Memory. *)

write_u64_at(m, a, v) ==
    IF ~Runs(m) THEN m
    ELSE IF Within(m, a) THEN [m EXCEPT !.mem[a] = v] ELSE Require(m, FALSE)

\* The words of s from address a on.  A write outside memory ends the process, and
\* nothing reads the words that were written before it.
WriteAll(m, a, s) ==
    LET inside == s = <<>> \/ (Within(m, a) /\ Within(m, a + Len(s) - 1))
    IN IF Runs(m) /\ inside
       THEN [m EXCEPT !.mem = [x \in a..(a + Len(s) - 1) |-> s[x - a + 1]] @@ @]
       ELSE Require(m, FALSE)

\* `alloc` puts a header before the object and grows the memory when it must.
Bumped(m, need) ==
    LET root == m.top + HeaderWords
        end == root + need
    IN [m EXCEPT !.mem[m.top] = Magic, !.mem[m.top + 1] = 1, !.ptr = root, !.top = end,
                 !.size = IF end > @ THEN end ELSE @]

call_alloc(m, need) ==
    IF ~Runs(m) THEN m
    ELSE IF m.alloc = "missing" THEN Require(m, FALSE)
    ELSE IF m.alloc = "outside" THEN [m EXCEPT !.ptr = Wrap - 1]
    ELSE IF m.top + HeaderWords + need > MemoryLimit THEN [m EXCEPT !.fate = "trapped"]
    ELSE Bumped(m, need)

-----------------------------------------------------------------------------
(* Arguments. *)

Parses(m, token) == token >= 0 \/ (token = Empty /\ m.lenient)
Number(token) == IF token = Empty THEN 0 ELSE token

\* The size is read after the call, which may have grown the memory.
alloc_bytes(m, words) ==
    LET n == call_alloc(m, Len(words))
        checked == Require(n, n.ptr <= n.size /\ Len(words) <= n.size - n.ptr)
    IN WriteAll(checked, n.ptr, words)

alloc_u64_array(m, items) ==
    LET n == call_alloc(m, 1 + Len(items))
    IN WriteAll(n, n.ptr, <<Len(items)>> \o items)

\* A record of the given slots: kind 1, its width and the mask of its pointers.
AllocRecord(m, mask, slots) ==
    LET n == call_alloc(m, Len(slots))
        described == WriteAll(n, n.ptr - 3, <<1, Len(slots), mask>>)
    IN WriteAll(described, n.ptr, slots)

\* Built from its last element, so that each record is given its successor.
alloc_u64_chain(m, items) ==
    Sq!FoldRight(LAMBDA item, n : AllocRecord(n, 2, <<item, n.ptr>>), items, [m EXCEPT !.ptr = 0])

read_token(m) ==
    IF ~Runs(m) THEN m
    ELSE IF m.text = <<>> \/ Head(m.text) = Empty THEN Require(m, FALSE)
         ELSE [m EXCEPT !.token = Head(m.text), !.text = Tail(m.text)]

ReadNumber(m) ==
    LET n == read_token(m)
    IN Require(n, ~Runs(n) \/ Parses(n, n.token))

IsLeaf(m) == Runs(m) /\ m.token = Dot

alloc_u64_tree(m) ==
    LET tree[n \in Machines] ==
          LET key == read_token(n)
              left == tree[key]
              right == tree[left]
          IN IF ~Runs(key) THEN key
             ELSE IF IsLeaf(key) THEN [key EXCEPT !.ptr = 0]
             ELSE IF ~Parses(key, key.token) THEN Require(key, FALSE)
             ELSE AllocRecord(right, 5, <<left.ptr, key.token, right.ptr>>)
    IN tree[m]

record_header_valid(width, mask) ==
    width >= 1 /\ width <= MaxWidth /\ mask < 2^width

\* records[n, width, mask, slots]: the record whose first slots are given, or, of
\* width 0, a record from its header on.
alloc_records(m) ==
    LET records[n \in Machines, width \in 0..MaxWidth, mask \in Nat, slots \in Seq(Int)] ==
          LET first == read_token(n)
              second == ReadNumber(first)
              pointer == TestMask(mask, Len(slots))
              next == IF pointer THEN records[n, 0, 0, <<>>] ELSE ReadNumber(n)
              slot == IF pointer THEN next.ptr ELSE next.token
          IN IF width # 0 THEN
                IF ~Runs(n) \/ Len(slots) = width THEN AllocRecord(n, mask, slots)
                ELSE records[next, width, mask, Append(slots, slot)]
             ELSE IF ~Runs(first) THEN first
             ELSE IF IsLeaf(first) THEN [first EXCEPT !.ptr = 0]
             ELSE IF ~Parses(first, first.token) THEN Require(first, FALSE)
             ELSE IF ~Runs(second) THEN second
             ELSE IF ~record_header_valid(first.token, second.token) THEN Require(second, FALSE)
             ELSE records[second, first.token, second.token, <<>>]
    IN records[m, 0, 0, <<>>]

\* The file's words, or Bad for a file that cannot be read or has no whole words.
alloc_u64_file(m, words) ==
    LET n == call_alloc(m, 1 + Len(words))
        counted == write_u64_at(n, n.ptr, Len(words))
        checked == Require(counted, n.ptr <= n.size /\ 1 + Len(words) <= n.size - n.ptr)
    IN WriteAll(checked, n.ptr + 1, words)

WordKinds == {"i64", "f64", "f32"}

\* One argument: a scalar of the given type, or an object's pointer (a byte
\* string's pointer and length).
parse_arg(m, arg) ==
    LET text == arg.text
        numbers == [i \in DOMAIN text |-> Number(text[i])]
        readable == Require(m, \A i \in DOMAIN text : text[i] # Bad)
        parsed == Require(m, \A i \in DOMAIN text : Parses(m, text[i]))
        tree == [m EXCEPT !.text = text]
        narrow == Require(parsed, arg.spec = "f32" => numbers[1] < FloatLimit)
        Passed(n) == [n EXCEPT !.args = Append(@, Value("i64", n.ptr))]
        Finished(n) == Passed(Require(n, n.text = <<>>))
    IN CASE arg.spec \in WordKinds ->
              [narrow EXCEPT !.args = Append(@, Value(arg.spec, numbers[1]))]
         [] arg.spec = "bytes" ->
              LET n == alloc_bytes(readable, text)
              IN [Passed(n) EXCEPT !.args = Append(@, Value("i64", Len(text)))]
         [] arg.spec = "file-u64" -> Passed(alloc_u64_file(readable, text))
         [] arg.spec = "array-u64" -> Passed(alloc_u64_array(parsed, numbers))
         [] arg.spec = "chain-u64" -> Passed(alloc_u64_chain(parsed, numbers))
         [] arg.spec = "tree-u64" -> Finished(alloc_u64_tree(tree))
         [] arg.spec = "records-u64" -> Finished(alloc_records(tree))
         [] OTHER -> Require(m, FALSE)

-----------------------------------------------------------------------------
(* Results: what a walk over an object writes, and whether it reaches the   *)
(* end.  `count` is the number of records it has visited.                   *)

Walk(ok, out, count) == [ok |-> ok, out |-> out, count |-> count]
Prepend(tokens, w) == [w EXCEPT !.out = tokens \o @]

HasHeader(m, p) ==
    /\ p >= HeaderWords
    /\ Within(m, p - 1)
    /\ m.mem[p - 6] = Magic
    /\ m.mem[p - 5] = 1
    /\ m.mem[p - 3] = 1

IsRecord(m, p, width, mask) ==
    HasHeader(m, p) /\ m.mem[p - 2] = width /\ m.mem[p - 1] = mask

\* walk[p, k]: from the record at p on, the k-th.
walk_u64_chain(m, head) ==
    LET walk[p \in Int, k \in Nat] ==
          IF p = 0 THEN Walk(TRUE, <<>>, k)
          ELSE IF k > m.size \div 2 THEN Walk(FALSE, <<>>, k)
          ELSE IF ~IsRecord(m, p, 2, 2) \/ ~Within(m, p) THEN Walk(FALSE, <<>>, k)
          ELSE IF ~Within(m, p + 1) THEN Walk(FALSE, <<m.mem[p]>>, k)
          ELSE Prepend(<<m.mem[p]>>, walk[m.mem[p + 1], k + 1])
    IN walk[head, 0]

\* walk[p, k]: the tree at p, after k records.
walk_u64_tree(m, root) ==
    LET walk[p \in Int, k \in Nat] ==
          LET key == <<m.mem[p + 1]>>
              left == walk[m.mem[p], k + 1]
          IN IF p = 0 THEN Walk(TRUE, <<Dot>>, k)
             ELSE IF k + 1 > m.size \div 9 THEN Walk(FALSE, <<>>, k + 1)
             ELSE IF ~IsRecord(m, p, 3, 5) \/ ~Within(m, p + 1) THEN Walk(FALSE, <<>>, k + 1)
             ELSE IF ~left.ok THEN Prepend(key, left)
             ELSE IF ~Within(m, p + 2) THEN Walk(FALSE, key \o left.out, left.count)
             ELSE Prepend(key \o left.out, walk[m.mem[p + 2], left.count])
    IN walk[root, 0]

\* walk[p, i, k]: the slots of the record at p from the i-th on, after k records;
\* the record itself when i is -1.
walk_records(m, root) ==
    LET walk[p \in Int, i \in -1..MaxWidth, k \in Nat] ==
          LET width == m.mem[p - 2]
              mask == m.mem[p - 1]
              slot == IF TestMask(mask, i) THEN walk[m.mem[p + i], -1, k]
                      ELSE Walk(TRUE, <<m.mem[p + i]>>, k)
          IN IF i >= 0 THEN
                IF i = width THEN Walk(TRUE, <<>>, k)
                ELSE IF ~Within(m, p + i) THEN Walk(FALSE, <<>>, k)
                ELSE IF ~slot.ok THEN slot
                ELSE Prepend(slot.out, walk[p, i + 1, slot.count])
             ELSE IF p = 0 THEN Walk(TRUE, <<Dot>>, k)
             ELSE IF k + 1 > m.size \div 7 \/ ~HasHeader(m, p) THEN Walk(FALSE, <<>>, k + 1)
             ELSE IF ~record_header_valid(width, mask) THEN Walk(FALSE, <<>>, k + 1)
             ELSE Prepend(<<width, mask>>, walk[p, 0, k + 1])
    IN walk[root, -1, 0]

\* Words at p read one by one: as many as memory has.
WalkWords(m, p, len) ==
    LET n == IF p + len <= m.size THEN len ELSE m.size - p
    IN Walk(n = len, [i \in 1..n |-> m.mem[p + i - 1]], 0)

\* The range of len words at p is in memory: of a byte string, and of an array,
\* whose size in bytes must not wrap.
InRange(m, p, len) == p >= 0 /\ p <= m.size /\ len <= m.size - p
ArrayInRange(m, p) ==
    Within(m, p) /\ m.mem[p] <= Wrap - 2 /\ InRange(m, p, (1 + m.mem[p]) % Wrap)
=============================================================================
