----------------------------- MODULE RuntimeHeap ----------------------------
(***************************************************************************)
(* The memory of a compiled module: `alloc` and `release`, which every      *)
(* module contains (LeanExe/Runtime/Defs.lean), and the code the compiler   *)
(* emits around them to build, match, reuse, copy and release a value of a  *)
(* recursive type (Verified/Compile.lean, Verified/TreeCopyCode.lean).  A   *)
(* step is one pass of a loop, or the code between two loops.               *)
(*                                                                         *)
(* Memory is a function from addresses to words, with addresses and sizes   *)
(* in 8-byte words.  An object is a payload at `ptr` after a header of six  *)
(* words; a free block keeps its capacity and, in the place of the mask,    *)
(* its link; an object on the pending list of `release` keeps its link in   *)
(* the count, and a record being copied the state of the copy in the count  *)
(* (parent), the kind (source) and the mask (next slot).                    *)
(*                                                                         *)
(* A definition named after another, as in Splits_early, is a mutation of   *)
(* it: a bug that a property must find.                                     *)
(***************************************************************************)
EXTENDS Integers

CONSTANTS Base,       \* the first address of the heap: 512
          PageWords,  \* the words of a page: 8192
          MaxPages,   \* the pages a module declares: 65535
          Magic,      \* the magic number
          Counts,     \* the values of a counter: 2^64
          Width,      \* the slots of a record of the recursive type
          Mask,       \* the slots that hold children: bit i for slot i
          Words,      \* what a program puts in the other slots and in arrays
          Lengths     \* the lengths of the arrays a program allocates

ASSUME HeapAssumption ==
    /\ Base \in Nat \ {0} /\ PageWords \in Nat \ {0} /\ MaxPages \in Nat
    /\ Base <= MaxPages * PageWords
    /\ Magic \in Nat
    /\ Counts \in Nat \ {0}
    /\ Width \in 1..64 /\ Mask \in 1..(2 ^ Width - 1)
    /\ Words \subseteq Nat /\ Lengths \subseteq Nat

VARIABLES mem,       \* memory
          pages,     \* memory.size
          top,       \* global 0: the bump pointer
          head,      \* global 1: the free list
          allocs,    \* global 2
          frees,     \* global 3
          pc,        \* where the program is
          alloc,     \* locals of alloc, and where it returns to
          release,   \* locals of release
          copy,      \* locals of a copy
          args,      \* the values evaluated for the object to build
          owned,     \* the objects the program's variables own
          blocks     \* history: the objects allocated and not freed

globals == <<pages, top, head, allocs, frees>>
vars == <<mem, globals, pc, alloc, release, copy, args, owned, blocks>>

Header == 6
Addresses == 0..(MaxPages * PageWords - 1)

\* The header words of an object.
MagicAt(ptr) == ptr - 6
CountAt(ptr) == ptr - 5
CapacityAt(ptr) == ptr - 4
KindAt(ptr) == ptr - 3
WidthAt(ptr) == ptr - 2
MaskAt(ptr) == ptr - 1
LinkAt(ptr) == ptr - 1

NoAlloc == [need |-> 0, previous |-> 0, current |-> 0, root |-> 0, then |-> "program"]
NoRelease == [pending |-> 0, object |-> 0, slot |-> 0, previous |-> 0, current |-> 0]
NoCopy == [source |-> 0, result |-> 0, current |-> 0]

Init == /\ mem = [a \in Addresses |-> 0]
        /\ pages = (Base - 1) \div PageWords + 1
        /\ top = Base
        /\ head = 0
        /\ allocs = 0
        /\ frees = 0
        /\ pc = "program"
        /\ alloc = NoAlloc
        /\ release = NoRelease
        /\ copy = NoCopy
        /\ args = <<>>
        /\ owned = {}
        /\ blocks = {}

Trap == /\ pc' = "trapped"
        /\ UNCHANGED <<mem, globals, alloc, release, copy, args, owned, blocks>>

Write(m, addr, word) == [m EXCEPT ![addr] = word]

Max2(a, b) == IF a >= b THEN a ELSE b

-----------------------------------------------------------------------------
(* alloc *)

\* The payload of `bytes` bytes: whole words, and at least one.
allocSize(bytes) == Max2((bytes + 7) \div 8, 1)

\* A call of alloc, which returns to `then`.
CallAlloc(need, then) ==
    /\ pc' = "search"
    /\ alloc' = [NoAlloc EXCEPT !.need = need, !.current = head, !.then = then]

\* FixedArrayHeader.program: an array of one-word elements without children.
HeaderWritten(m, ptr, capacity) ==
    [m EXCEPT ![MagicAt(ptr)] = Magic, ![CountAt(ptr)] = 1,
              ![CapacityAt(ptr)] = capacity, ![KindAt(ptr)] = 2,
              ![WidthAt(ptr)] = 1, ![MaskAt(ptr)] = 0]

\* alloc returns root.
ReturnRoot(root) ==
    /\ allocs' = (allocs + 1) % Counts
    /\ blocks' = blocks \cup {root}
    /\ pc' = alloc.then
    /\ alloc' = [NoAlloc EXCEPT !.root = root]
    /\ UNCHANGED <<frees, release, copy, args, owned>>

Capacity(ptr) == mem[CapacityAt(ptr)]
Link(ptr) == mem[LinkAt(ptr)]

Searching == pc = "search" /\ alloc.current # 0
Fits == Capacity(alloc.current) >= alloc.need

\* At least 56 bytes would remain.
Splits_early == Capacity(alloc.current) - alloc.need >= Header
Splits == Capacity(alloc.current) - alloc.need >= Header + 1

SearchOn ==
    /\ Searching
    /\ ~Fits
    /\ alloc' = [alloc EXCEPT !.previous = alloc.current, !.current = Link(alloc.current)]
    /\ UNCHANGED <<mem, globals, pc, release, copy, args, owned, blocks>>

\* unlinkProgram: the memory and the head of the list without the current block.
Unlinked == IF alloc.previous = 0 THEN mem
            ELSE Write(mem, LinkAt(alloc.previous), Link(alloc.current))
HeadAfter == IF alloc.previous = 0 THEN Link(alloc.current) ELSE head

TakeWhole ==
    /\ Searching
    /\ Fits
    /\ ~Splits
    /\ mem' = HeaderWritten(Unlinked, alloc.current, Capacity(alloc.current))
    /\ head' = HeadAfter
    /\ ReturnRoot(alloc.current)
    /\ UNCHANGED <<pages, top>>

\* splitProgram: the object takes the upper end of the block.
TakeUpper ==
    /\ Searching
    /\ Fits
    /\ Splits
    /\ LET lower == Capacity(alloc.current) - alloc.need - Header
           root == alloc.current + Capacity(alloc.current) - alloc.need
       IN /\ mem' = HeaderWritten(Write(mem, CapacityAt(alloc.current), lower), root, alloc.need)
          /\ ReturnRoot(root)
    /\ UNCHANGED <<pages, top, head>>

NewTop == top + Header + alloc.need
RequiredPages_short == NewTop \div PageWords
RequiredPages == (NewTop - 1) \div PageWords + 1

\* FixedArrayBump.program: no free block fits, and memory has or gets the pages.
Bump ==
    /\ pc = "search"
    /\ alloc.current = 0
    /\ RequiredPages <= MaxPages
    /\ pages' = Max2(pages, RequiredPages)
    /\ top' = NewTop
    /\ mem' = HeaderWritten(mem, top + Header, alloc.need)
    /\ ReturnRoot(top + Header)
    /\ UNCHANGED head

\* memory.grow returns -1.
NoMemory ==
    /\ pc = "search"
    /\ alloc.current = 0
    /\ RequiredPages > MaxPages
    /\ Trap

-----------------------------------------------------------------------------
(* release *)

Held_unchecked(m, ptr) == m[MagicAt(ptr)] = Magic

\* The object has its magic number and one reference.
Held(m, ptr) == m[MagicAt(ptr)] = Magic /\ m[CountAt(ptr)] = 1

\* dropReference: the object goes onto the pending list.
Dropped(ptr) == Write(mem, CountAt(ptr), release.pending)

\* releaseBody up to its loop.  The program's variables then own `left`.
CallRelease(ptr, left) ==
    /\ pc = "program"
    /\ IF Held(mem, ptr)
       THEN /\ mem' = Dropped(ptr)
            /\ release' = [release EXCEPT !.pending = ptr]
            /\ pc' = "pending"
            /\ owned' = left
            /\ UNCHANGED <<globals, alloc, copy, args, blocks>>
       ELSE Trap

\* A program releases what it owns.
Release(ptr) == ptr \in owned /\ CallRelease(ptr, owned \ {ptr})

TakePending_kept ==
    /\ pc = "pending"
    /\ release.pending # 0
    /\ release' = [release EXCEPT !.object = release.pending, !.slot = 0]
    /\ pc' = "drop"
    /\ UNCHANGED <<mem, globals, alloc, copy, args, owned, blocks>>

TakePending ==
    /\ pc = "pending"
    /\ release.pending # 0
    /\ release' = [release EXCEPT !.object = release.pending,
                                  !.pending = mem[CountAt(release.pending)],
                                  !.slot = 0]
    /\ pc' = "drop"
    /\ UNCHANGED <<mem, globals, alloc, copy, args, owned, blocks>>

Released ==
    /\ pc = "pending"
    /\ release.pending = 0
    /\ release' = NoRelease
    /\ pc' = "program"
    /\ UNCHANGED <<mem, globals, alloc, copy, args, owned, blocks>>

Slots_short(ptr) ==
    IF mem[MaskAt(ptr)] = 0 THEN 0 ELSE mem[WidthAt(ptr)] - 1

\* dropChildren: the slots of a record, or those of every element of an array.
Slots(ptr) ==
    LET width == mem[WidthAt(ptr)]
    IN IF mem[MaskAt(ptr)] = 0 THEN 0
       ELSE CASE mem[KindAt(ptr)] = 1 -> width
              [] mem[KindAt(ptr)] = 2 -> mem[ptr] * width
              [] OTHER -> 0

SlotAddress(ptr, i) == IF mem[KindAt(ptr)] = 1 THEN ptr + i ELSE ptr + 1 + i
Bit(mask, i) == (mask \div 2 ^ i) % 2 = 1
Child(ptr, i) == IF Bit(mem[MaskAt(ptr)], i % mem[WidthAt(ptr)])
                 THEN mem[SlotAddress(ptr, i)] ELSE 0

\* dropMaskedSlot
DropSlot ==
    /\ pc = "drop"
    /\ release.slot < Slots(release.object)
    /\ LET child == Child(release.object, release.slot)
       IN \/ /\ child = 0
             /\ release' = [release EXCEPT !.slot = @ + 1]
             /\ UNCHANGED <<mem, globals, pc, alloc, copy, args, owned, blocks>>
          \/ /\ child # 0
             /\ IF Held(mem, child)
                THEN /\ mem' = Dropped(child)
                     /\ release' = [release EXCEPT !.pending = child, !.slot = @ + 1]
                     /\ UNCHANGED <<globals, pc, alloc, copy, args, owned, blocks>>
                ELSE Trap

FreeObject_uncounted ==
    /\ pc = "drop"
    /\ release.slot = Slots(release.object)
    /\ mem' = Write(mem, CountAt(release.object), 0)
    /\ release' = [release EXCEPT !.previous = 0, !.current = head]
    /\ pc' = "place"
    /\ UNCHANGED <<globals, alloc, copy, args, owned, blocks>>

\* freeObject, up to the loop of findPlace.
FreeObject ==
    /\ pc = "drop"
    /\ release.slot = Slots(release.object)
    /\ frees' = (frees + 1) % Counts
    /\ mem' = Write(mem, CountAt(release.object), 0)
    /\ release' = [release EXCEPT !.previous = 0, !.current = head]
    /\ pc' = "place"
    /\ UNCHANGED <<pages, top, head, allocs, alloc, copy, args, owned, blocks>>

\* The first free block above the object, if any.
Placed == release.current = 0 \/ release.object < release.current

FindPlace ==
    /\ pc = "place"
    /\ ~Placed
    /\ release' = [release EXCEPT !.previous = release.current,
                                  !.current = Link(release.current)]
    /\ UNCHANGED <<mem, globals, pc, alloc, copy, args, owned, blocks>>

Join_apart(m, ptr, next) == Write(m, LinkAt(ptr), next)

\* joinProgram: ptr takes the block after it when they are neighbours.
Join(m, ptr, next) ==
    IF ptr + m[CapacityAt(ptr)] + Header = next
    THEN [m EXCEPT ![CapacityAt(ptr)] = @ + Header + m[CapacityAt(next)],
                   ![LinkAt(ptr)] = m[LinkAt(next)]]
    ELSE Write(m, LinkAt(ptr), next)

Insert ==
    /\ pc = "place"
    /\ Placed
    /\ LET joined == Join(mem, release.object, release.current)
       IN IF release.previous = 0
          THEN mem' = joined /\ head' = release.object
          ELSE mem' = Join(joined, release.previous, release.object) /\ UNCHANGED head
    /\ blocks' = blocks \ {release.object}
    /\ pc' = "pending"
    /\ UNCHANGED <<pages, top, allocs, frees, alloc, release, copy, args, owned>>

-----------------------------------------------------------------------------
(* The program. *)

IsRecord(ptr) == mem[KindAt(ptr)] = 1 /\ mem[MaskAt(ptr)] # 0
IsHeader(ptr) == mem[KindAt(ptr)] = 1 /\ mem[MaskAt(ptr)] = 0

Records == {ptr \in owned : IsRecord(ptr)}
Headers == {ptr \in owned : IsHeader(ptr)}
ChildSlots == {i \in 0..(Width - 1) : Bit(Mask, i)}

\* The slots of a record the program can build: each child has no other owner.
Fields == {f \in [0..(Width - 1) -> Words \cup Records \cup {0}] :
              /\ \A i \in 0..(Width - 1) :
                    f[i] \in IF i \in ChildSlots THEN Records \cup {0} ELSE Words
              /\ \A i, j \in ChildSlots : f[i] = f[j] /\ f[i] # 0 => i = j}
ChildrenOf(f) == {f[i] : i \in ChildSlots} \ {0}

NewArray(length, word) ==
    /\ pc = "program"
    /\ CallAlloc(allocSize(8 * (length + 1)), "array")
    /\ args' = [i \in 0..length |-> IF i = 0 THEN length ELSE word]
    /\ UNCHANGED <<mem, globals, release, copy, owned, blocks>>

\* The payload of the object at ptr, from its first word on.
Stored(m, ptr, words) ==
    [a \in DOMAIN m |-> IF a - ptr \in DOMAIN words THEN words[a - ptr] ELSE m[a]]

\* A call of alloc has returned, and the program goes on with the object.
Return == /\ pc' = "program"
          /\ alloc' = NoAlloc
          /\ args' = <<>>
          /\ UNCHANGED <<globals, release, copy, blocks>>

FillArray ==
    /\ pc = "array"
    /\ mem' = Stored(mem, alloc.root, args)
    /\ owned' = owned \cup {alloc.root}
    /\ Return

NewRecord(f) ==
    /\ pc = "program"
    /\ CallAlloc(Width, "record")
    /\ args' = f
    /\ UNCHANGED <<mem, globals, release, copy, owned, blocks>>

\* sealRecordCode
Sealed(m, ptr) == [m EXCEPT ![KindAt(ptr)] = 1, ![WidthAt(ptr)] = Width, ![MaskAt(ptr)] = Mask]

\* The slots, then the header words, of a record at ptr.
Record(m, ptr, f) == Sealed(Stored(m, ptr, f), ptr)

FillRecord ==
    /\ pc = "record"
    /\ mem' = Record(mem, alloc.root, args)
    /\ owned' = (owned \ ChildrenOf(args)) \cup {alloc.root}
    /\ Return

\* The record is built in the block of a matched one, which has no other use.
Reuse(ptr, f) ==
    /\ pc = "program"
    /\ ptr \in Headers
    /\ mem' = Record(mem, ptr, f)
    /\ owned' = owned \ ChildrenOf(f)
    /\ UNCHANGED <<globals, pc, alloc, release, copy, args, blocks>>

Match_held(ptr) ==
    /\ pc = "program"
    /\ ptr \in Records
    /\ owned' = owned \cup ChildrenOf([i \in 0..(Width - 1) |-> mem[ptr + i]])
    /\ UNCHANGED <<mem, globals, pc, alloc, release, copy, args, blocks>>

\* treeCase of an owned record: its children become variables, and the record a
\* header, which no longer holds them.
Match(ptr) ==
    /\ pc = "program"
    /\ ptr \in Records
    /\ mem' = Write(mem, MaskAt(ptr), 0)
    /\ owned' = owned \cup ChildrenOf([i \in 0..(Width - 1) |-> mem[ptr + i]])
    /\ UNCHANGED <<globals, pc, alloc, release, copy, args, blocks>>

\* treeHeaderCopyCode
CopyHeader(ptr) ==
    /\ pc = "program"
    /\ ptr \in Headers
    /\ CallAlloc(Width, "header")
    /\ UNCHANGED <<mem, globals, release, copy, args, owned, blocks>>

FillHeader ==
    /\ pc = "header"
    /\ mem' = [mem EXCEPT ![KindAt(alloc.root)] = 1, ![WidthAt(alloc.root)] = Width]
    /\ owned' = owned \cup {alloc.root}
    /\ Return

-----------------------------------------------------------------------------
(* treeCopyCode: a copy keeps no stack.  A record being copied holds, in its *)
(* own header, the record it is a child of, its source and the next slot.    *)

Copy(ptr) ==
    /\ pc = "program"
    /\ ptr \in Records
    /\ CallAlloc(Width, "copyRoot")
    /\ copy' = [NoCopy EXCEPT !.source = ptr]
    /\ UNCHANGED <<mem, globals, release, args, owned, blocks>>

\* treeCopyBegin
Begun(ptr, source, parent) ==
    [mem EXCEPT ![CountAt(ptr)] = parent, ![KindAt(ptr)] = source, ![MaskAt(ptr)] = 0]

CopyRoot ==
    /\ pc = "copyRoot"
    /\ mem' = Begun(alloc.root, copy.source, 0)
    /\ copy' = [copy EXCEPT !.result = alloc.root, !.current = alloc.root]
    /\ alloc' = NoAlloc
    /\ pc' = "copy"
    /\ UNCHANGED <<globals, release, args, owned, blocks>>

CopyChild_orphan ==
    /\ pc = "copyChild"
    /\ mem' = Begun(alloc.root, copy.source, 0)
    /\ copy' = [copy EXCEPT !.current = alloc.root]
    /\ alloc' = NoAlloc
    /\ pc' = "copy"
    /\ UNCHANGED <<globals, release, args, owned, blocks>>

CopyChild ==
    /\ pc = "copyChild"
    /\ mem' = Begun(alloc.root, copy.source, copy.current)
    /\ copy' = [copy EXCEPT !.current = alloc.root]
    /\ alloc' = NoAlloc
    /\ pc' = "copy"
    /\ UNCHANGED <<globals, release, args, owned, blocks>>

\* The slot to copy and its value in the source.
NextSlot(ptr) == mem[MaskAt(ptr)]
Value == mem[mem[KindAt(copy.current)] + NextSlot(copy.current)]
Descends_first == NextSlot(copy.current) = 0 /\ Value # 0
Descends == Bit(Mask, NextSlot(copy.current)) /\ Value # 0

Advanced_stuck(m, ptr, word) == [m EXCEPT ![ptr + m[MaskAt(ptr)]] = word]

\* The next slot of ptr is word, and the copy advances.
Advanced(m, ptr, word) ==
    [m EXCEPT ![ptr + m[MaskAt(ptr)]] = word, ![MaskAt(ptr)] = @ + 1]

CopyWord ==
    /\ pc = "copy"
    /\ NextSlot(copy.current) < Width
    /\ ~Descends
    /\ mem' = Advanced(mem, copy.current, Value)
    /\ UNCHANGED <<globals, pc, alloc, release, copy, args, owned, blocks>>

Descend ==
    /\ pc = "copy"
    /\ NextSlot(copy.current) < Width
    /\ Descends
    /\ CallAlloc(Width, "copyChild")
    /\ copy' = [copy EXCEPT !.source = Value]
    /\ UNCHANGED <<mem, globals, release, args, owned, blocks>>

Parent == mem[CountAt(copy.current)]

Restored_linked(ptr) == Sealed(mem, ptr)

\* restoreRecordCode
Restored(ptr) == Sealed(Write(mem, CountAt(ptr), 1), ptr)

\* treeCopyFinish, below the root and at it.
Ascend ==
    /\ pc = "copy"
    /\ NextSlot(copy.current) >= Width
    /\ Parent # 0
    /\ mem' = Advanced(Restored(copy.current), Parent, copy.current)
    /\ copy' = [copy EXCEPT !.current = Parent]
    /\ UNCHANGED <<globals, pc, alloc, release, args, owned, blocks>>

Copied ==
    /\ pc = "copy"
    /\ NextSlot(copy.current) >= Width
    /\ Parent = 0
    /\ mem' = Restored(copy.current)
    /\ owned' = owned \cup {copy.result}
    /\ copy' = NoCopy
    /\ pc' = "program"
    /\ UNCHANGED <<globals, alloc, release, args, blocks>>

-----------------------------------------------------------------------------
\* A trap ends the program.
Ended == pc = "trapped" /\ UNCHANGED vars

Allocating == SearchOn \/ TakeWhole \/ TakeUpper \/ Bump \/ NoMemory
Releasing == TakePending \/ Released \/ DropSlot \/ FreeObject \/ FindPlace \/ Insert
Copying == CopyRoot \/ CopyChild \/ CopyWord \/ Descend \/ Ascend \/ Copied
Filling == FillArray \/ FillRecord \/ FillHeader
Continue == Allocating \/ Releasing \/ Copying \/ Filling

Program ==
    /\ pc = "program"
    /\ \/ \E length \in Lengths, word \in Words : NewArray(length, word)
       \/ \E f \in Fields : NewRecord(f)
       \/ \E ptr \in owned : \/ Release(ptr) \/ Match(ptr) \/ Copy(ptr) \/ CopyHeader(ptr)
                             \/ \E f \in Fields : Reuse(ptr, f)

Next == Program \/ Continue \/ Ended

Spec == Init /\ [][Next]_vars

\* What a program has called goes on until it returns or traps.
Fairness == WF_vars(Continue)

-----------------------------------------------------------------------------
\* The variables have their shapes, and the heap lies within memory.
TypeOK ==
    /\ mem \in [Addresses -> Nat]
    /\ pages \in 0..MaxPages
    /\ top \in Base..(pages * PageWords)
    /\ head \in Addresses
    /\ allocs \in 0..(Counts - 1) /\ frees \in 0..(Counts - 1)
    /\ pc \in {"program", "search", "array", "record", "header", "copyRoot", "copyChild",
               "copy", "pending", "drop", "place", "trapped"}
    /\ alloc \in [need : Nat, previous : Addresses, current : Addresses, root : Addresses,
                  then : {"program", "array", "record", "header", "copyRoot", "copyChild"}]
    /\ release \in [pending : Addresses, object : Addresses, slot : Nat,
                    previous : Addresses, current : Addresses]
    /\ copy \in [source : Addresses, result : Addresses, current : Addresses]
    /\ \A i \in DOMAIN args : args[i] \in Nat
    /\ owned \subseteq blocks
    /\ blocks \subseteq Addresses \ {0}
=============================================================================
