------------------------------ MODULE BlockList -----------------------------
(***************************************************************************)
(* What the runtime allocator of a compiled module promises: the memory     *)
(* from the heap's base to `top` is a row of blocks, each live or free, an *)
(* allocation takes the lowest free block that fits, and a freed block      *)
(* merges with its free neighbours.  The lists, headers and loops that do   *)
(* so are in RuntimeHeap.                                                   *)
(*                                                                         *)
(* Addresses and sizes are in 8-byte words.  A block is named by its        *)
(* payload, `root`; its header is the Header words before it.              *)
(***************************************************************************)
EXTENDS Integers

CONSTANTS Header,   \* words of an object's header: 6
          Base,     \* the first address of the heap: 4096 bytes
          Limit,    \* the words of the largest memory
          Needs     \* the sizes that are asked for

ASSUME BlockAssumption ==
    /\ Header \in Nat \ {0}
    /\ Base \in Nat
    /\ Limit \in Nat /\ Base <= Limit
    /\ Needs \subseteq Nat \ {0}

VARIABLES top,    \* where the memory that was never allocated begins
          free,   \* the free blocks
          live    \* the blocks of objects

vars == <<top, free, live>>

Block(root, cap) == [root |-> root, cap |-> cap]
Start(b) == b.root - Header
End(b) == b.root + b.cap

Init == /\ top = Base
        /\ free = {}
        /\ live = {}

Fitting(need) == {b \in free : need <= b.cap}

\* takeFirstFit: the free list is in address order.
IsFirstFit(b, need) == /\ b \in Fitting(need)
                       /\ \A c \in Fitting(need) : b.root <= c.root

Splits_early(b, need) == b.cap - need >= Header

\* Enough would remain for a block of one word.
Splits(b, need) == b.cap - need >= Header + 1

AllocateWhole(b, need) ==
    /\ IsFirstFit(b, need)
    /\ ~Splits(b, need)
    /\ free' = free \ {b}
    /\ live' = live \cup {b}
    /\ UNCHANGED top

AllocateUpper_whole(b, need) ==
    /\ IsFirstFit(b, need)
    /\ Splits(b, need)
    /\ free' = free
    /\ live' = live \cup {Block(b.root + b.cap - need, need)}
    /\ UNCHANGED top

AllocateUpper_gap(b, need) ==
    /\ IsFirstFit(b, need)
    /\ Splits(b, need)
    /\ free' = free \ {b}
    /\ live' = live \cup {Block(b.root + b.cap - need, need)}
    /\ UNCHANGED top

\* The object takes the upper end of the block (shrinkFirstFit).
AllocateUpper(b, need) ==
    /\ IsFirstFit(b, need)
    /\ Splits(b, need)
    /\ free' = (free \ {b}) \cup {Block(b.root, b.cap - need - Header)}
    /\ live' = live \cup {Block(b.root + b.cap - need, need)}
    /\ UNCHANGED top

AllocateTop(need) ==
    /\ Fitting(need) = {}
    /\ top + Header + need <= Limit
    /\ top' = top + Header + need
    /\ live' = live \cup {Block(top + Header, need)}
    /\ UNCHANGED free

Below(b) == {c \in free : End(c) = Start(b)}
Above_missed(b) == {}
Above(b) == {c \in free : Start(c) = End(b)}
First(b) == IF Below(b) = {} THEN b ELSE CHOOSE c \in Below(b) : TRUE
Last(b) == IF Above(b) = {} THEN b ELSE CHOOSE c \in Above(b) : TRUE

\* insertFree, with the two joinNodes.
Free(b) ==
    /\ b \in live
    /\ live' = live \ {b}
    /\ free' = (free \ (Below(b) \cup Above(b)))
                  \cup {Block(First(b).root, End(Last(b)) - First(b).root)}
    /\ UNCHANGED top

Next == \/ \E need \in Needs : \/ AllocateTop(need)
                               \/ \E b \in free : AllocateWhole(b, need) \/ AllocateUpper(b, need)
        \/ \E b \in live : Free(b)

Spec == Init /\ [][Next]_vars

-----------------------------------------------------------------------------
Blocks == free \cup live

\* Blocks have a header and at least a word, and lie between the base and top.
BlocksIn ==
    /\ top \in Base..Limit
    /\ \A b \in Blocks : /\ b = Block(b.root, b.cap)
                         /\ b.root \in Nat /\ b.cap \in Nat \ {0}
                         /\ Base <= Start(b) /\ End(b) <= top

Apart(b, c) == End(b) <= Start(c) \/ End(c) <= Start(b)

\* No two blocks share a word, live or free: an object is never overwritten
\* by another, or by the free list.  Also no block is both live and free.
Separate == /\ free \cap live = {}
            /\ \A b, c \in Blocks : b # c => Apart(b, c)

\* Every word up to top is in a block: neither split nor merge loses memory.
Tiled == \A a \in Base..(top - 1) : \E b \in Blocks : Start(b) <= a /\ a < End(b)

\* No two free blocks are neighbours, so fragmentation is by live objects only.
Merged == \A b, c \in free : End(b) # Start(c)
=============================================================================
