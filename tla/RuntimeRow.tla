----------------------------- MODULE RuntimeRow -----------------------------
(***************************************************************************)
(* What the words of memory stand for as blocks, live and free, and the    *)
(* row of blocks, BlockList, that alloc and release implement.             *)
(***************************************************************************)
EXTENDS RuntimeHeap, FiniteSets

Limit == MaxPages * PageWords

\* As many blocks as memory has room for.
MaxBlocks == (Limit - Base) \div (Header + 1)

\* The block after ptr in the free list of memory m, and the list from ptr on, as a
\* function from positions; 0 is its end.
After(m, ptr) == IF ptr = 0 THEN 0 ELSE m[LinkAt(ptr)]
Chain(m, ptr) ==
    LET at[k \in 0..MaxBlocks] == IF k = 0 THEN ptr ELSE After(m, at[k - 1])
    IN at

FreeAt == Chain(mem, head)
FreeBlocks == {FreeAt[k] : k \in 0..MaxBlocks} \ {0}

RowOf(ptrs) == {[root |-> ptr, cap |-> Capacity(ptr)] : ptr \in ptrs}

Row == INSTANCE BlockList WITH
          Needs <- {allocSize(8 * (n + 1)) : n \in Lengths} \cup {Width},
          free <- RowOf(FreeBlocks),
          live <- RowOf(blocks)

-----------------------------------------------------------------------------
\* Search loops, unlinking, splitting, headers and joins are steps of the row of
\* blocks: an allocation takes the lowest block that fits, and grows the heap only
\* when none fits; a freed block merges with both neighbours.
ImplementsRow == Row!Spec

\* The free list ends, is in address order, and no two of its blocks are neighbours.
ListInOrder ==
    /\ FreeAt[MaxBlocks] = 0
    /\ \A k \in 1..MaxBlocks :
          FreeAt[k] # 0 => FreeAt[k - 1] + Capacity(FreeAt[k - 1]) + Header < FreeAt[k]

\* The counters a host reads, which wrap, count the objects that are live.
Counted ==
    (allocs - frees - Cardinality(blocks) + (IF pc = "place" THEN 1 ELSE 0)) % Counts = 0

\* A program that releases only what it owns never traps there: it traps only where
\* an allocation finds no memory.
OnlyMemoryTraps == [][pc' = "trapped" => pc = "search"]_vars

-----------------------------------------------------------------------------
\* The header of ptr and at least one word of its payload lie in the heap.
InHeap(ptr) ==
    /\ Base <= MagicAt(ptr)
    /\ 1 <= Capacity(ptr) /\ ptr + Capacity(ptr) <= top

\* The pointers through which the next step reads or writes memory.
AtHand ==
    CASE pc = "search" -> {alloc.previous, alloc.current}
      [] pc \in {"array", "record", "header", "copyRoot", "copyChild"} -> {alloc.root}
      [] pc = "copy" -> {copy.current, mem[KindAt(copy.current)], Parent}
      [] pc = "pending" -> {release.pending}
      [] pc = "drop" -> {release.object} \cup
                        (IF release.slot < Slots(release.object)
                         THEN {Child(release.object, release.slot)} ELSE {})
      [] pc = "place" -> {release.object, release.previous, release.current}
      [] OTHER -> owned

\* No step reads or writes a word outside the heap: each pointer it follows, unless
\* null, is that of an object or a free block, which lie in the heap with their headers
\* (and the heap in the pages, by TypeOK), and the slots it reads or fills are within the
\* capacity.
WritesInside ==
    /\ \A ptr \in blocks \cup FreeBlocks : InHeap(ptr)
    /\ AtHand \ {0} \subseteq blocks \cup FreeBlocks
    /\ pc \in {"array", "record"} => DOMAIN args \subseteq 0..(Capacity(alloc.root) - 1)
    /\ pc = "drop" /\ release.slot < Slots(release.object) =>
          release.slot < Capacity(release.object)
    /\ pc = "copy" => /\ NextSlot(copy.current) <= Width /\ Width <= Capacity(copy.current)
                      /\ Parent # 0 => NextSlot(Parent) < Width /\ Width <= Capacity(Parent)
    /\ pc = "program" => \A ptr \in Records \cup Headers : Width <= Capacity(ptr)

\* The variables have their shapes, the heap lies within the pages that memory has, and
\* alloc, release and the operations on trees stay within the heap.
MemoryOK == TypeOK /\ WritesInside

\* The links through the counts from `first` on come to the null pointer: out of every
\* set of objects that `first` is in, one leads to another object or to null.
LinksEnd(first) ==
    \A S \in SUBSET blocks :
        first \in S => \E p \in S : mem[CountAt(p)] \in (blocks \cup {0}) \ S

\* The pending list of release and the parents of the record that a copy is at have no
\* cycle, and lead through objects to the null pointer.
WorkEnds ==
    /\ release.pending # 0 => release.pending \in blocks /\ LinksEnd(release.pending)
    /\ pc = "copy" => copy.current \in blocks /\ LinksEnd(copy.current)

-----------------------------------------------------------------------------
\* Slot i of record ptr leads to a child.
HasChild(ptr, i) == IsRecord(ptr) /\ mem[ptr + i] # 0

\* Between calls, every object allocated and not freed is a variable's or the child
\* of one slot of one object, and no set of objects is held from within only:
\* nothing leaks, nothing is shared, and no tree has a cycle.
OneOwner ==
    pc = "program" =>
        /\ \A p \in blocks : \A i \in ChildSlots :
              HasChild(p, i) => mem[p + i] \in blocks \ owned
        /\ \A p, q \in blocks : \A i, j \in ChildSlots :
              HasChild(p, i) /\ HasChild(q, j) /\ mem[p + i] = mem[q + j] => p = q /\ i = j
        /\ \A S \in SUBSET (blocks \ owned) :
              S # {} => \E p \in blocks \ S : \E i \in ChildSlots :
                           HasChild(p, i) /\ mem[p + i] \in S
=============================================================================
