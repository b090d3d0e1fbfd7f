-------------------------- MODULE RuntimeHeap_proofs --------------------------
(***************************************************************************)
(* The memory-level code of alloc, release and the compiled operations on  *)
(* trees implements the row of blocks, for every size of memory, record and *)
(* array, and never traps but for want of memory.                          *)
(***************************************************************************)
EXTENDS RuntimeRow, FiniteSetTheorems, WellFoundedInduction, TLAPS

RP == INSTANCE BlockList_proofs WITH
         Needs <- {allocSize(8 * (n + 1)) : n \in Lengths} \cup {Width},
         free <- RowOf(FreeBlocks),
         live <- RowOf(blocks)

-----------------------------------------------------------------------------
(* The free list. *)

\* y is the least member of S above x, or 0 when there is none.
Follows(S, x, y) ==
    \/ y = 0 /\ \A p \in S : p <= x
    \/ y \in S /\ x < y /\ \A p \in S : p <= x \/ y <= p

\* The list from h on in memory m is the set S in address order.
IsChain(m, h, S) ==
    /\ Follows(S, 0, h)
    /\ \A p \in S : Follows(S, p, m[LinkAt(p)])

\* A walk of the free list: `previous` is where it has been and `current` is next.
Walks(previous, current) ==
    /\ previous \in FreeBlocks \cup {0}
    /\ Follows(FreeBlocks, previous, current)

ListOK ==
    /\ IsChain(mem, head, FreeBlocks)
    /\ pc = "search" => /\ Walks(alloc.previous, alloc.current)
                        /\ \A p \in FreeBlocks : p <= alloc.previous => Capacity(p) < alloc.need
    /\ pc = "place" => /\ Walks(release.previous, release.current)
                       /\ release.previous < release.object

-----------------------------------------------------------------------------
(* Objects and who holds them. *)

\* What a call of alloc is for, from the call until the program has its object.
Stage == IF pc = "search" THEN alloc.then ELSE pc

InRelease == pc \in {"pending", "drop", "place"}
InCopy == Stage \in {"copy", "copyChild"}

\* The object that alloc has returned, and the one that release has at hand.
Fresh == IF pc \in {"array", "record", "header", "copyRoot", "copyChild"}
         THEN {alloc.root} ELSE {}
Falling == IF pc \in {"drop", "place"} THEN {release.object} ELSE {}

\* A header or record of the recursive type, or an array of words.
Shaped(p) ==
    \/ mem[KindAt(p)] = 2 /\ mem[MaskAt(p)] = 0
    \/ /\ mem[KindAt(p)] = 1 /\ mem[WidthAt(p)] = Width /\ mem[MaskAt(p)] \in {0, Mask}
       /\ Width <= Capacity(p)

\* An object that release accepts.
Whole(p) == mem[MagicAt(p)] = Magic /\ mem[CountAt(p)] = 1 /\ Shaped(p)

\* An object that the program or one of its trees has: a tree's are records.
Kept(p) == Whole(p) /\ (p \in owned \/ IsRecord(p))

\* The links of the work list through the counts lead to distinct objects of the
\* list, and none leads to its first.
Linked(work, first) ==
    /\ \A p \in work : mem[CountAt(p)] = 0 \/ mem[CountAt(p)] \in work \ {first}
    /\ \A p, q \in work : mem[CountAt(p)] = mem[CountAt(q)] /\ mem[CountAt(p)] # 0 => p = q

\* Slot i of p holds a child: in a kept record, in a record that release has not
\* come to or has passed up to slot i, and in a copy that has reached beyond it.
Holds(kept, work, p, i) ==
    /\ i \in ChildSlots
    /\ mem[p + i] # 0
    /\ \/ p \in kept /\ IsRecord(p)
       \/ p \in work /\ InRelease /\ IsRecord(p)
       \/ p \in work /\ InCopy /\ i < NextSlot(p)
       \/ pc = "drop" /\ p = release.object /\ IsRecord(p) /\ release.slot <= i

\* The sets are disjoint; the program owns kept objects; kept objects are whole.
PartsOK(kept, work) ==
    /\ kept \subseteq blocks /\ work \subseteq blocks
    /\ Fresh \cup Falling \subseteq blocks \ (kept \cup work)
    /\ kept \cap work = {}
    /\ owned \subseteq kept
    /\ \A p \in kept : Kept(p)

\* Each child is a kept object that has no other holder.
ChildrenOK(kept, work) ==
    /\ \A p \in blocks : \A i \in ChildSlots :
          Holds(kept, work, p, i) => mem[p + i] \in kept \ owned
    /\ \A p, q \in blocks : \A i, j \in ChildSlots :
          Holds(kept, work, p, i) /\ Holds(kept, work, q, j) /\ mem[p + i] = mem[q + j]
             => p = q /\ i = j

\* The room that alloc will give, or has given.
Room == IF pc = "search" THEN alloc.need ELSE Capacity(alloc.root)

\* A new object is an array of words with room for what is to be put in it.
FreshOK ==
    /\ \A p \in Fresh : /\ mem[MagicAt(p)] = Magic /\ mem[CountAt(p)] = 1
                        /\ mem[KindAt(p)] = 2 /\ mem[MaskAt(p)] = 0
    /\ pc = "search" => /\ alloc.need \in {allocSize(8 * (n + 1)) : n \in Lengths} \cup {Width}
                        /\ alloc.then # "program"
    /\ Stage = "array" => \E n \in Lengths : args \in [0..n -> Nat] /\ n + 1 <= Room
    /\ Stage = "record" => args \in Fields
    /\ Stage \in {"record", "header", "copyRoot", "copyChild"} => Width <= Room

\* Release has a list of shaped objects.
ReleaseOK(work) ==
    /\ InRelease => /\ release.pending \in work \cup {0}
                    /\ Linked(work, release.pending)
                    /\ \A p \in work : Shaped(p)
    /\ pc = "drop" => Shaped(release.object)
    /\ ~InRelease => release.pending = 0
    /\ ~InRelease /\ ~InCopy => work = {}

\* A tree that the program, or one of its trees, has.
Source(kept, p) == p \in kept /\ IsRecord(p)

\* A record being copied has a source and the slots before its next one.
Begins(kept, p) ==
    /\ mem[MagicAt(p)] = Magic
    /\ Source(kept, mem[KindAt(p)])
    /\ Width <= Capacity(p)
    /\ NextSlot(p) <= Width

CopyOK(kept, work) ==
    /\ Stage \in {"copyRoot", "copyChild"} => Source(kept, copy.source)
    /\ InCopy => /\ copy.current \in work
                 /\ Linked(work, copy.current)
                 /\ \A p \in work : /\ Begins(kept, p)
                                    /\ p # copy.current => NextSlot(p) \in ChildSlots
                                    /\ mem[CountAt(p)] = 0 => p = copy.result
    /\ Stage = "copyChild" => NextSlot(copy.current) \in ChildSlots

\* Every set of objects that trees have is held from outside the set.
Grounded(kept, work) ==
    \A S \in SUBSET (kept \ owned) :
        S # {} => \E p \in blocks \ S : \E i \in ChildSlots :
                     Holds(kept, work, p, i) /\ mem[p + i] \in S

\* The links of the work list lead from its first object to all of it.
Reached(m, work, first) ==
    \A S \in SUBSET work :
        S # {} /\ first \notin S => \E q \in work \ S : m[CountAt(q)] \in S

\* No object is lost: each is in its place, and release and copy will come to it.
NoneLost(kept, work) ==
    pc # "trapped" =>
        /\ blocks \subseteq kept \cup work \cup Fresh \cup Falling
        /\ Grounded(kept, work)
        /\ InRelease => Reached(mem, work, release.pending)
        /\ InCopy => Reached(mem, work, copy.current)

Ownership(kept, work) ==
    /\ PartsOK(kept, work)
    /\ ChildrenOK(kept, work)
    /\ ReleaseOK(work)
    /\ CopyOK(kept, work)
    /\ NoneLost(kept, work)

RowInv == Row!BlocksIn /\ Row!Separate /\ Row!Tiled /\ Row!Merged

\* The inductive invariant.
HeapInv ==
    /\ TypeOK
    /\ RowInv
    /\ ListOK
    /\ FreshOK
    /\ \E kept \in SUBSET blocks : \E work \in SUBSET blocks : Ownership(kept, work)

-----------------------------------------------------------------------------
(* The free list as a set. *)

\* A set of naturals that has a member has a least one.
LEMMA Least ==
  ASSUME NEW T, T \subseteq Nat, T # {}
  PROVE  \E x \in T : \A y \in T : x <= y
<1> DEFINE Segments == {0..x : x \in T}
           R == StrictSubsetOrdering(Nat)
<1>1. IsWellFoundedOn(R, FiniteSubsetsOf(Nat))
  BY FS_StrictSubsetOrderingWellFounded
<1>2. Segments \subseteq FiniteSubsetsOf(Nat) /\ Segments # {}
  <2>1. \A x \in T : IsFiniteSet(0..x) /\ 0..x \subseteq Nat
    BY FS_Interval
  <2> QED BY <2>1 DEF FiniteSubsetsOf
<1>3. PICK s \in Segments : \A t \in Segments : <<t, s>> \notin R
  <2> HIDE DEF R, Segments
  <2> QED BY <1>1, <1>2, WFMin
<1>4. PICK x \in T : s = 0..x
  OBVIOUS
<1>5. ASSUME NEW y \in T, y < x PROVE FALSE
  <2>1. x \in Nat /\ y \in Nat
    OBVIOUS
  <2>2. 0..y \subseteq 0..x /\ x \in 0..x /\ x \notin 0..y
    BY <1>5, <2>1
  <2>3. 0..y \in Segments /\ 0..y # 0..x
    BY <2>2
  <2>4. <<0..y, s>> \in R
    BY <1>2, <1>4, <2>2, <2>3 DEF StrictSubsetOrdering
  <2> QED BY <1>3, <2>3, <2>4
<1> QED BY <1>5

\* The bound on the length of a chain is a number, and no more blocks than that
\* fit between the bottom of the heap and its limit.
LEMMA MaxBlocksNat ==
    /\ Limit \in Nat /\ MaxBlocks \in Nat
    /\ \A k \in Nat : Base + 6 + 7 * k + 1 <= Limit => k + 1 <= MaxBlocks
<1>1. MaxPages * PageWords \in Nat /\ Limit \in Nat /\ Base \in Nat /\ Base <= Limit
  BY HeapAssumption DEF Limit
<1>2. MaxBlocks = (Limit - Base) \div 7
  BY DEF MaxBlocks, Header
<1> QED BY <1>1, <1>2

\* The defining equation of Chain up to position n.
IsWalk(m, ptr, n, f) ==
    f = [k \in 0..n |-> IF k = 0 THEN ptr ELSE After(m, f[k - 1])]

\* The links can be followed any number of steps: a counterexample would have a
\* least one.
LEMMA WalkExists ==
  ASSUME NEW m, NEW ptr
  PROVE  \A n \in Nat : \E f : IsWalk(m, ptr, n, f)
<1> DEFINE T == {n \in Nat : ~\E f : IsWalk(m, ptr, n, f)}
<1> SUFFICES ASSUME T # {} PROVE FALSE
  OBVIOUS
<1>1. PICK n \in T : \A k \in T : n <= k
  <2>1. T \subseteq Nat
    OBVIOUS
  <2> HIDE DEF T
  <2> QED BY <2>1, Least
<1>2. CASE n = 0
  <2>1. IsWalk(m, ptr, 0, [k \in 0..0 |-> ptr])
    BY DEF IsWalk
  <2> QED BY <1>2, <2>1
<1>3. CASE n # 0
  <2>1. n - 1 \in Nat /\ n - 1 \notin T
    BY <1>1, <1>3
  <2>2. PICK f : IsWalk(m, ptr, n - 1, f)
    BY <2>1
  <2>3. IsWalk(m, ptr, n, [k \in 0..n |-> IF k < n THEN f[k] ELSE After(m, f[n - 1])])
    BY <1>3, <2>1, <2>2 DEF IsWalk
  <2> QED BY <2>3
<1> QED BY <1>2, <1>3

\* The recursive function Chain satisfies its own equation.
LEMMA ChainStep ==
  ASSUME NEW m, NEW ptr
  PROVE  /\ Chain(m, ptr)[0] = ptr
         /\ \A k \in 1..MaxBlocks : Chain(m, ptr)[k] = After(m, Chain(m, ptr)[k - 1])
<1>1. \E f : IsWalk(m, ptr, MaxBlocks, f)
  BY WalkExists, MaxBlocksNat
<1>2. IsWalk(m, ptr, MaxBlocks, Chain(m, ptr))
  BY <1>1 DEF IsWalk, Chain
<1>3. MaxBlocks \in Nat
  BY MaxBlocksNat
<1> HIDE DEF MaxBlocks
<1> QED BY <1>2, <1>3 DEF IsWalk

\* Roots with room between them for a header and a word.
Spaced(S) ==
    /\ S \subseteq Nat
    /\ \A p \in S : Base + 6 <= p /\ p + 1 <= Limit
    /\ \A p, q \in S : p < q => p + 7 <= q

\* The walk of a list that is in address order meets its members, and ends.
LEMMA ChainIs ==
  ASSUME NEW m, NEW h, NEW S, Spaced(S), IsChain(m, h, S)
  PROVE  /\ {Chain(m, h)[k] : k \in 0..MaxBlocks} \ {0} = S
         /\ Chain(m, h)[MaxBlocks] = 0
         /\ \A k \in 1..MaxBlocks :
               Chain(m, h)[k] # 0 => /\ Chain(m, h)[k - 1] \in S
                                    /\ Chain(m, h)[k] \in S
                                    /\ Follows(S, Chain(m, h)[k - 1], Chain(m, h)[k])
<1> DEFINE at == Chain(m, h)
<1> HIDE DEF at
<1>1. MaxBlocks \in Nat /\ Limit \in Nat /\ Base \in Nat \ {0}
  BY MaxBlocksNat, HeapAssumption
<1>2. at[0] = h /\ \A k \in 1..MaxBlocks : at[k] = After(m, at[k - 1])
  BY ChainStep DEF at
<1>3. S \subseteq Nat /\ 0 \notin S /\ \A p \in S : Base + 6 <= p
  BY <1>1 DEF Spaced
<1>4. \A k \in 1..MaxBlocks :
         /\ at[k - 1] = 0 => at[k] = 0
         /\ at[k - 1] \in S => Follows(S, at[k - 1], at[k])
  BY <1>2, <1>3 DEF IsChain, After
<1>5. \A k \in 0..MaxBlocks : at[k] = 0 \/ (at[k] \in S /\ Base + 6 + 7 * k <= at[k])
  <2> DEFINE T == {k \in 0..MaxBlocks : ~(at[k] = 0 \/ (at[k] \in S /\ Base + 6 + 7 * k <= at[k]))}
  <2> SUFFICES ASSUME T # {} PROVE FALSE
    OBVIOUS
  <2>1. PICK k \in T : \A j \in T : k <= j
    <3>1. T \subseteq Nat
      BY <1>1
    <3> HIDE DEF T
    <3> QED BY <3>1, Least
  <2>2. CASE k = 0
    <3>1. at[0] = 0 \/ at[0] \in S
      BY <1>2 DEF IsChain, Follows
    <3>2. at[0] = 0 \/ Base + 6 <= at[0]
      BY <1>3, <3>1
    <3>3. Base + 6 + 7 * 0 = Base + 6
      BY <1>1
    <3> QED BY <2>1, <2>2, <3>1, <3>2, <3>3
  <2>3. CASE k # 0
    <3>1. k \in 1..MaxBlocks /\ k - 1 \in 0..MaxBlocks /\ k - 1 \notin T
      BY <1>1, <2>1, <2>3
    <3>2. CASE at[k - 1] = 0
      BY <1>4, <2>1, <3>1, <3>2
    <3>3. CASE at[k - 1] # 0
      <4>1. at[k - 1] \in S /\ Base + 6 + 7 * (k - 1) <= at[k - 1]
        BY <3>1, <3>3
      <4>2. at[k] = 0 \/ (at[k] \in S /\ at[k - 1] < at[k])
        BY <1>4, <3>1, <4>1 DEF Follows
      <4>3. at[k] = 0 \/ at[k - 1] + 7 <= at[k]
        BY <4>1, <4>2 DEF Spaced
      <4>4. k \in Nat /\ at[k - 1] \in Nat /\ (at[k] = 0 \/ at[k] \in Nat)
        <5>1. k \in Nat
          BY <1>1, <2>1
        <5> QED BY <1>3, <4>1, <4>2, <5>1
      <4> QED BY <1>1, <2>1, <4>1, <4>2, <4>3, <4>4
    <3> QED BY <3>2, <3>3
  <2> QED BY <2>2, <2>3
<1>6. at[MaxBlocks] = 0
  <2> SUFFICES ASSUME at[MaxBlocks] # 0 PROVE FALSE
    OBVIOUS
  <2>1. at[MaxBlocks] \in S /\ Base + 6 + 7 * MaxBlocks <= at[MaxBlocks]
    BY <1>1, <1>5
  <2>2. at[MaxBlocks] + 1 <= Limit /\ at[MaxBlocks] \in Nat
    BY <2>1 DEF Spaced
  <2> QED BY <1>1, <2>1, <2>2, MaxBlocksNat
<1>7. ASSUME NEW p \in S PROVE \E k \in 0..MaxBlocks : at[k] = p
  <2> DEFINE T == {k \in 0..MaxBlocks : at[k] = 0 \/ p <= at[k]}
  <2>1. PICK k \in T : \A j \in T : k <= j
    <3>1. T \subseteq Nat /\ T # {}
      BY <1>1, <1>6
    <3> HIDE DEF T
    <3> QED BY <3>1, Least
  <2>2. p \in Nat /\ p > 0
    BY <1>1, <1>3
  <2>3. CASE k = 0
    <3>1. /\ at[0] = 0 \/ p <= at[0]
          /\ Follows(S, 0, at[0])
      BY <1>2, <2>1, <2>3 DEF IsChain
    <3>2. at[0] = 0 \/ at[0] \in Nat
      BY <1>3, <3>1 DEF Follows
    <3>3. at[0] = p
      BY <2>2, <3>1, <3>2 DEF Follows
    <3> QED BY <1>1, <3>3
  <2>4. CASE k # 0
    <3>1. k \in 1..MaxBlocks /\ k - 1 \in 0..MaxBlocks /\ k - 1 \notin T
      BY <1>1, <2>1, <2>4
    <3>2. at[k - 1] # 0 /\ ~(p <= at[k - 1])
      BY <3>1
    <3>3. at[k - 1] \in S /\ at[k - 1] \in Nat
      BY <1>3, <1>5, <3>1, <3>2
    <3>4. Follows(S, at[k - 1], at[k])
      BY <1>4, <3>1, <3>3
    <3>5. at[k] = 0 \/ (at[k] \in Nat /\ p <= at[k])
      BY <1>3, <2>1, <3>4 DEF Follows
    <3>6. at[k] = p
      BY <2>2, <3>2, <3>3, <3>4, <3>5 DEF Follows
    <3> QED BY <2>1, <3>6
  <2> QED BY <2>3, <2>4
<1>8. {at[k] : k \in 0..MaxBlocks} \ {0} = S
  BY <1>3, <1>5, <1>7
<1>9. ASSUME NEW k \in 1..MaxBlocks, at[k] # 0
      PROVE  at[k - 1] \in S /\ at[k] \in S /\ Follows(S, at[k - 1], at[k])
  <2>1. k - 1 \in 0..MaxBlocks /\ k \in 0..MaxBlocks
    BY <1>1
  <2>2. at[k - 1] \in S /\ at[k] \in S
    BY <1>4, <1>5, <1>9, <2>1
  <2> QED BY <1>4, <2>2
<1> QED BY <1>6, <1>8, <1>9 DEF at

\* What follows a place is one member, or none.
LEMMA FollowsOne ==
  ASSUME NEW S, S \subseteq Nat \ {0}, NEW x \in Nat, NEW y, NEW z,
         Follows(S, x, y), Follows(S, x, z)
  PROVE  y = z
<1>1. (y = 0 \/ y \in Nat) /\ (z = 0 \/ z \in Nat)
  BY DEF Follows
<1> QED BY <1>1 DEF Follows

\* What follows is 0 or a member above.
LEMMA FollowsType ==
  ASSUME NEW S, S \subseteq Nat \ {0}, NEW x, NEW y, Follows(S, x, y)
  PROVE  y \in Nat /\ (y = 0 \/ (y \in S /\ x < y))
<1>1. y = 0 \/ (y \in S /\ x < y)
  BY DEF Follows
<1>2. CASE y = 0
  BY <1>2
<1>3. CASE y \in S /\ x < y
  BY <1>3
<1> QED BY <1>1, <1>2, <1>3

\* A member follows one place.
LEMMA FollowedBy ==
  ASSUME NEW S, S \subseteq Nat \ {0}, NEW p \in S \cup {0}, NEW q \in S \cup {0}, NEW x \in S,
         Follows(S, p, x), Follows(S, q, x)
  PROVE  p = q
<1>1. p \in Nat /\ q \in Nat /\ x \in Nat /\ x # 0
  OBVIOUS
<1>2. p < x /\ q < x
  BY <1>1 DEF Follows
<1>3. (p \in S => p <= q) /\ (q \in S => q <= p)
  BY <1>1, <1>2 DEF Follows
<1> QED BY <1>1, <1>3

\* Memory n has the links of memory m, but for that of `prev`.
LinksPast(m, n, S, prev, x) ==
    \A p \in S \ {x} : n[LinkAt(p)] = (IF p = prev THEN m[LinkAt(x)] ELSE m[LinkAt(p)])
LinksTo(m, n, S, prev, x) ==
    \A p \in S : n[LinkAt(p)] = (IF p = prev THEN x ELSE m[LinkAt(p)])

\* A list in which only the place before x is redirected, past x.
LEMMA ChainWithout ==
  ASSUME NEW S, S \subseteq Nat \ {0}, NEW m, NEW h, IsChain(m, h, S),
         NEW prev \in S \cup {0}, NEW x \in S, Follows(S, prev, x),
         NEW n, NEW g,
         g = (IF prev = 0 THEN m[LinkAt(x)] ELSE h),
         LinksPast(m, n, S, prev, x)
  PROVE  /\ IsChain(n, g, S \ {x})
         /\ Follows(S \ {x}, prev, m[LinkAt(x)])
<1> DEFINE y == m[LinkAt(x)]
<1>1. Follows(S, x, y)
  BY DEF IsChain
<1>2. y \in Nat /\ x \in Nat /\ prev \in Nat
  <2>1. y \in Nat
    BY <1>1, FollowsType, Zenon
  <2> QED BY <2>1
<1>3. prev < x
  BY <1>2 DEF Follows
<1>4. Follows(S \ {x}, prev, y)
  <2> HIDE DEF y
  <2> QED BY <1>1, <1>2, <1>3 DEF Follows
<1>5. ASSUME NEW p \in S \cup {0}, p # prev, p # x, NEW z, Follows(S, p, z)
      PROVE  Follows(S \ {x}, p, z)
  <2>1. ~Follows(S, p, x)
    BY <1>5, FollowedBy, Zenon
  <2>2. z # x
    BY <1>5, <2>1, Zenon
  <2> QED BY <1>5, <2>2 DEF Follows
<1>6. prev # x
  BY <1>2, <1>3
<1>7. Follows(S \ {x}, 0, g)
  BY <1>4, <1>5, <1>2 DEF IsChain
<1>8. ASSUME NEW p \in S \ {x} PROVE Follows(S \ {x}, p, n[LinkAt(p)])
  <2>1. CASE p = prev
    BY <1>4, <2>1 DEF LinksPast
  <2>2. CASE p # prev
    <3>1. Follows(S, p, m[LinkAt(p)]) /\ n[LinkAt(p)] = m[LinkAt(p)]
      BY <2>2 DEF IsChain, LinksPast
    <3> QED BY <1>5, <2>2, <3>1
  <2> QED BY <2>1, <2>2
<1> QED BY <1>4, <1>7, <1>8 DEF IsChain

\* A list in which x comes in between `prev` and `next`.
LEMMA ChainWith ==
  ASSUME NEW S, S \subseteq Nat \ {0}, NEW m, NEW h, IsChain(m, h, S),
         NEW prev \in S \cup {0}, NEW next, Follows(S, prev, next),
         NEW x \in Nat \ S, prev < x, next = 0 \/ x < next,
         NEW n, NEW g,
         g = (IF prev = 0 THEN x ELSE h),
         n[LinkAt(x)] = next,
         LinksTo(m, n, S, prev, x)
  PROVE  IsChain(n, g, S \cup {x})
<1>1. prev \in Nat /\ (next = 0 \/ (next \in S /\ next \in Nat))
  <2>1. next \in Nat /\ (next = 0 \/ next \in S)
    BY FollowsType
  <2> QED BY <2>1
<1>2. Follows(S \cup {x}, prev, x)
  BY <1>1 DEF Follows
<1>3. Follows(S \cup {x}, x, next)
  BY <1>1 DEF Follows
<1>4. ASSUME NEW p \in S \cup {0}, p # prev, NEW z, Follows(S, p, z)
      PROVE  Follows(S \cup {x}, p, z)
  <2>1. p \in Nat /\ (z = 0 \/ (z \in S /\ z \in Nat))
    <3>1. z \in Nat /\ (z = 0 \/ z \in S)
      BY <1>4, FollowsType
    <3> QED BY <3>1
  <2>2. CASE p < prev
    <3>1. prev \in S /\ z \in S /\ z <= prev
      BY <1>1, <1>4, <2>1, <2>2 DEF Follows
    <3> QED BY <1>1, <1>4, <2>1, <3>1 DEF Follows
  <2>3. CASE prev < p
    <3>1. p \in S
      BY <1>1, <2>1, <2>3
    <3>2. next \in S /\ next <= p
      BY <1>1, <2>1, <2>3, <3>1 DEF Follows
    <3>3. x < p
      BY <1>1, <2>1, <3>2
    <3> QED BY <1>4, <2>1, <3>3 DEF Follows
  <2> QED BY <1>1, <1>4, <2>1, <2>2, <2>3
<1>5. Follows(S \cup {x}, 0, g)
  BY <1>2, <1>4 DEF IsChain
<1>6. ASSUME NEW p \in S PROVE Follows(S \cup {x}, p, n[LinkAt(p)])
  <2>1. CASE p = prev
    BY <1>2, <2>1 DEF LinksTo
  <2>2. CASE p # prev
    <3>1. Follows(S, p, m[LinkAt(p)]) /\ n[LinkAt(p)] = m[LinkAt(p)]
      BY <2>2 DEF IsChain, LinksTo
    <3> QED BY <1>4, <2>2, <3>1
  <2> QED BY <2>1, <2>2
<1> QED BY <1>3, <1>5, <1>6 DEF IsChain

\* A list whose links are as they were is as it was.
LEMMA ChainSame ==
  ASSUME NEW S, NEW m, NEW h, IsChain(m, h, S),
         NEW n, \A p \in S : n[LinkAt(p)] = m[LinkAt(p)]
  PROVE  IsChain(n, h, S)
BY DEF IsChain

-----------------------------------------------------------------------------
(* Sizes and addresses. *)

\* The types of the constants and of what is computed from them.
LEMMA Sizes ==
    /\ Base \in Nat \ {0} /\ Limit \in Nat /\ Base <= Limit
    /\ Addresses = 0..(Limit - 1)
    /\ Magic \in Nat /\ Width \in Nat \ {0} /\ Mask \in Nat \ {0}
    /\ Counts \in Nat \ {0} /\ Words \subseteq Nat /\ Lengths \subseteq Nat
    /\ ChildSlots \subseteq 0..(Width - 1)
<1>1. MaxPages * PageWords \in Nat
  BY HeapAssumption
<1>2. Width \in Nat \ {0} /\ Mask \in Nat \ {0}
  BY HeapAssumption
<1>3. ChildSlots \subseteq 0..(Width - 1)
  BY DEF ChildSlots
<1> QED BY <1>1, <1>2, <1>3, HeapAssumption DEF Limit, Addresses

\* An array of n elements and its length takes n + 1 words.
LEMMA AllocSizeIs == \A n \in Nat : allocSize(8 * (n + 1)) = n + 1
BY DEF allocSize, Max2

\* What alloc is asked for.
Needs == {allocSize(8 * (n + 1)) : n \in Lengths} \cup {Width}

\* alloc is asked for at least one word.
LEMMA NeedsPositive == Needs \subseteq Nat \ {0}
BY AllocSizeIs, Sizes DEF Needs

\* The pages that hold w words.
LEMMA PagesHold ==
  ASSUME NEW w \in Nat \ {0}
  PROVE  LET pgs == (w - 1) \div PageWords + 1
         IN /\ pgs \in Nat
            /\ w <= pgs * PageWords
            /\ \A n \in Nat : w <= n * PageWords <=> pgs <= n
<1>1. PageWords \in Nat \ {0}
  BY HeapAssumption
<1> DEFINE q == (w - 1) \div PageWords
<1>2. q \in Nat /\ q * PageWords <= w - 1 /\ w - 1 < (q + 1) * PageWords
  BY <1>1
<1>3. ASSUME NEW n \in Nat PROVE w <= n * PageWords <=> q + 1 <= n
  <2> HIDE DEF q
  <2>1. CASE q + 1 <= n
    <3>1. (q + 1) * PageWords <= n * PageWords
      BY <1>1, <1>2, <2>1
    <3> QED BY <1>1, <1>2, <2>1, <3>1
  <2>2. CASE n <= q
    <3>1. n * PageWords <= q * PageWords
      BY <1>1, <1>2, <2>2
    <3> QED BY <1>1, <1>2, <2>2, <3>1
  <2> QED BY <1>2, <2>1, <2>2
<1> QED BY <1>2, <1>3

-----------------------------------------------------------------------------
(* Writes to memory. *)

Memories == [Addresses -> Nat]

\* A write changes one word.
LEMMA WriteIs ==
  ASSUME NEW m \in Memories, NEW a, NEW w \in Nat
  PROVE  /\ Write(m, a, w) \in Memories
         /\ \A b \in Addresses : Write(m, a, w)[b] = IF b = a THEN w ELSE m[b]
BY DEF Memories, Write

\* A header is six writes, each to a word of its own.
LEMMA HeaderIs ==
  ASSUME NEW m \in Memories, NEW p \in Nat, NEW c \in Nat
  PROVE  /\ HeaderWritten(m, p, c) \in Memories
         /\ \A a \in Addresses :
               /\ a = p - 6 => HeaderWritten(m, p, c)[a] = Magic
               /\ a = p - 5 => HeaderWritten(m, p, c)[a] = 1
               /\ a = p - 4 => HeaderWritten(m, p, c)[a] = c
               /\ a = p - 3 => HeaderWritten(m, p, c)[a] = 2
               /\ a = p - 1 => HeaderWritten(m, p, c)[a] = 0
               /\ a < p - 6 \/ p <= a => HeaderWritten(m, p, c)[a] = m[a]
<1> DEFINE m1 == [m EXCEPT ![p - 6] = Magic]
           m2 == [m1 EXCEPT ![p - 5] = 1]
           m3 == [m2 EXCEPT ![p - 4] = c]
           m4 == [m3 EXCEPT ![p - 3] = 2]
           m5 == [m4 EXCEPT ![p - 2] = 1]
           m6 == [m5 EXCEPT ![p - 1] = 0]
<1>1. HeaderWritten(m, p, c) = m6
  BY DEF HeaderWritten, MagicAt, CountAt, CapacityAt, KindAt, WidthAt, MaskAt
<1>2. m1 \in Memories /\ \A a \in Addresses : m1[a] = IF a = p - 6 THEN Magic ELSE m[a]
  BY Sizes DEF Memories
<1>3. m2 \in Memories /\ \A a \in Addresses : m2[a] = IF a = p - 5 THEN 1 ELSE m1[a]
  <2> HIDE DEF m1
  <2> QED BY <1>2 DEF Memories
<1>4. m3 \in Memories /\ \A a \in Addresses : m3[a] = IF a = p - 4 THEN c ELSE m2[a]
  <2> HIDE DEF m2
  <2> QED BY <1>3 DEF Memories
<1>5. m4 \in Memories /\ \A a \in Addresses : m4[a] = IF a = p - 3 THEN 2 ELSE m3[a]
  <2> HIDE DEF m3
  <2> QED BY <1>4 DEF Memories
<1>6. m5 \in Memories /\ \A a \in Addresses : m5[a] = IF a = p - 2 THEN 1 ELSE m4[a]
  <2> HIDE DEF m4
  <2> QED BY <1>5 DEF Memories
<1>7. m6 \in Memories /\ \A a \in Addresses : m6[a] = IF a = p - 1 THEN 0 ELSE m5[a]
  <2> HIDE DEF m5
  <2> QED BY <1>6 DEF Memories
<1>8. Addresses \subseteq Nat
  BY Sizes
<1> HIDE DEF m1, m2, m3, m4, m5, m6
<1> QED BY <1>1, <1>2, <1>3, <1>4, <1>5, <1>6, <1>7, <1>8

HeaderAt(m, p, c) ==
    /\ HeaderWritten(m, p, c) \in Memories
    /\ \A a \in Addresses :
          /\ a = p - 6 => HeaderWritten(m, p, c)[a] = Magic
          /\ a = p - 5 => HeaderWritten(m, p, c)[a] = 1
          /\ a = p - 4 => HeaderWritten(m, p, c)[a] = c
          /\ a = p - 3 => HeaderWritten(m, p, c)[a] = 2
          /\ a = p - 1 => HeaderWritten(m, p, c)[a] = 0
          /\ a < p - 6 \/ p <= a => HeaderWritten(m, p, c)[a] = m[a]

\* Storing an array changes its words and no others.
LEMMA StoredIs ==
  ASSUME NEW m \in Memories, NEW p \in Nat, NEW n \in Nat, NEW f \in [0..n -> Nat]
  PROVE  /\ Stored(m, p, f) \in Memories
         /\ \A a \in Addresses :
               Stored(m, p, f)[a] = IF p <= a /\ a <= p + n THEN f[a - p] ELSE m[a]
<1> Addresses \subseteq Nat
  BY Sizes
<1>1. DOMAIN f = 0..n /\ DOMAIN m = Addresses
  BY DEF Memories
<1>2. \A a \in Addresses : (a - p \in DOMAIN f) <=> p <= a /\ a <= p + n
  BY <1>1
<1> QED BY <1>1, <1>2 DEF Memories, Stored

\* Sealing a record changes its kind, width and mask and no other word.
LEMMA SealedIs ==
  ASSUME NEW m \in Memories, NEW p \in Nat
  PROVE  /\ Sealed(m, p) \in Memories
         /\ \A a \in Addresses :
               /\ a = p - 3 => Sealed(m, p)[a] = 1
               /\ a = p - 2 => Sealed(m, p)[a] = Width
               /\ a = p - 1 => Sealed(m, p)[a] = Mask
               /\ a < p - 3 \/ p <= a => Sealed(m, p)[a] = m[a]
<1> DEFINE m1 == [m EXCEPT ![p - 3] = 1]
           m2 == [m1 EXCEPT ![p - 2] = Width]
           m3 == [m2 EXCEPT ![p - 1] = Mask]
<1>1. Sealed(m, p) = m3
  BY DEF Sealed, KindAt, WidthAt, MaskAt
<1>2. m1 \in Memories /\ \A a \in Addresses : m1[a] = IF a = p - 3 THEN 1 ELSE m[a]
  BY DEF Memories
<1>3. m2 \in Memories /\ \A a \in Addresses : m2[a] = IF a = p - 2 THEN Width ELSE m1[a]
  <2> HIDE DEF m1
  <2> QED BY <1>2, Sizes DEF Memories
<1>4. m3 \in Memories /\ \A a \in Addresses : m3[a] = IF a = p - 1 THEN Mask ELSE m2[a]
  <2> HIDE DEF m2
  <2> QED BY <1>3, Sizes DEF Memories
<1>5. Addresses \subseteq Nat
  BY Sizes
<1> HIDE DEF m1, m2, m3
<1> QED BY <1>1, <1>2, <1>3, <1>4, <1>5

\* Storing and sealing a record changes its slots, kind, width and mask and no
\* other word.
LEMMA RecordIs ==
  ASSUME NEW m \in Memories, NEW p \in Nat, NEW f \in [0..(Width - 1) -> Nat]
  PROVE  /\ Record(m, p, f) \in Memories
         /\ \A a \in Addresses :
               /\ a = p - 3 => Record(m, p, f)[a] = 1
               /\ a = p - 2 => Record(m, p, f)[a] = Width
               /\ a = p - 1 => Record(m, p, f)[a] = Mask
               /\ p <= a /\ a < p + Width => Record(m, p, f)[a] = f[a - p]
               /\ a < p - 3 \/ p + Width <= a => Record(m, p, f)[a] = m[a]
<1>1. Width - 1 \in Nat /\ Width \in Nat /\ Addresses \subseteq Nat
  BY Sizes
<1>2. /\ Stored(m, p, f) \in Memories
      /\ \A a \in Addresses :
            Stored(m, p, f)[a] = IF p <= a /\ a <= p + (Width - 1) THEN f[a - p] ELSE m[a]
  BY <1>1, StoredIs
<1>3. /\ Record(m, p, f) \in Memories
      /\ \A a \in Addresses :
            /\ a = p - 3 => Record(m, p, f)[a] = 1
            /\ a = p - 2 => Record(m, p, f)[a] = Width
            /\ a = p - 1 => Record(m, p, f)[a] = Mask
            /\ a < p - 3 \/ p <= a => Record(m, p, f)[a] = Stored(m, p, f)[a]
  BY <1>2, SealedIs DEF Record
<1> QED BY <1>1, <1>2, <1>3

-----------------------------------------------------------------------------
(* Objects do not overlap. *)

Objects == FreeBlocks \cup blocks

\* The row of blocks, said of pointers.
Geometry ==
    /\ top \in Base..Limit
    /\ \A p \in Objects : /\ p \in Nat /\ Capacity(p) \in Nat \ {0}
                          /\ Base + 6 <= p /\ p + Capacity(p) <= top
    /\ \A p, q \in Objects : p # q => p + Capacity(p) + 6 <= q \/ q + Capacity(q) + 6 <= p
    /\ FreeBlocks \cap blocks = {}

\* In a row that is in order the objects lie in the heap, apart.
LEMMA RowGeometry == RowInv => Geometry
<1> SUFFICES ASSUME RowInv PROVE Geometry
  OBVIOUS
<1> DEFINE b(p) == [root |-> p, cap |-> Capacity(p)]
<1>1. /\ \A p \in FreeBlocks : b(p) \in RowOf(FreeBlocks)
      /\ \A p \in blocks : b(p) \in RowOf(blocks)
  BY DEF RowOf
<1>2. \A p \in Objects : b(p) \in Row!Blocks
  BY <1>1 DEF Row!Blocks, Objects
<1>3. top \in Base..Limit
  BY DEF RowInv, Row!BlocksIn
<1>4. \A p \in Objects : /\ b(p).root = p /\ b(p).cap = Capacity(p)
                         /\ Row!Start(b(p)) = p - 6 /\ Row!End(b(p)) = p + Capacity(p)
  BY DEF Row!Start, Row!End, Header
<1>5. ASSUME NEW p \in Objects
      PROVE  /\ p \in Nat /\ Capacity(p) \in Nat \ {0}
             /\ Base + 6 <= p /\ p + Capacity(p) <= top
  <2>1. /\ b(p).root \in Nat /\ b(p).cap \in Nat \ {0}
        /\ Base <= Row!Start(b(p)) /\ Row!End(b(p)) <= top
    BY <1>2 DEF RowInv, Row!BlocksIn
  <2>2. p \in Nat /\ Capacity(p) \in Nat \ {0} /\ Base <= p - 6 /\ p + Capacity(p) <= top
    BY <1>4, <2>1
  <2> QED BY <2>2, Sizes
<1>6. ASSUME NEW p \in Objects, NEW q \in Objects, p # q
      PROVE  p + Capacity(p) + 6 <= q \/ q + Capacity(q) + 6 <= p
  <2>1. b(p) # b(q)
    BY <1>4, <1>6
  <2>2. Row!Apart(b(p), b(q))
    BY <1>2, <2>1 DEF RowInv, Row!Separate
  <2>3. p + Capacity(p) <= q - 6 \/ q + Capacity(q) <= p - 6
    BY <1>4, <2>2 DEF Row!Apart
  <2> QED BY <1>5, <2>3
<1>7. FreeBlocks \cap blocks = {}
  BY <1>1 DEF RowInv, Row!Separate
<1> HIDE DEF b
<1> QED BY <1>3, <1>5, <1>6, <1>7 DEF Geometry

\* The words of an object are in memory.
LEMMA InMemory ==
  ASSUME TypeOK, Geometry, NEW p \in Objects
  PROVE  /\ p \in Nat \ {0} /\ Capacity(p) \in Nat \ {0} /\ Base + 6 <= p
         /\ p + Capacity(p) <= top /\ top <= Limit /\ top \in Nat
         /\ p \in Addresses
         /\ \A a \in (p - 6)..(p + Capacity(p) - 1) : a \in Addresses /\ mem[a] \in Nat
<1>1. p \in Nat /\ Capacity(p) \in Nat \ {0} /\ Base + 6 <= p /\ p + Capacity(p) <= top
  BY DEF Geometry
<1>2. top \in Nat /\ top <= Limit
  BY Sizes DEF Geometry
<1>3. mem \in [Addresses -> Nat]
  BY DEF TypeOK
<1> QED BY <1>1, <1>2, <1>3, Sizes

\* A step leaves every word of an object as it is.
Untouched(p) == \A a \in (p - 6)..(p + Capacity(p) - 1) : mem'[a] = mem[a]

\* An object whose words a step leaves alone has the fields and slots it had.
LEMMA UntouchedIs ==
  ASSUME TypeOK, Geometry, NEW p \in Objects, Untouched(p)
  PROVE  /\ Capacity(p)' = Capacity(p) /\ Link(p)' = Link(p) /\ NextSlot(p)' = NextSlot(p)
         /\ mem'[MagicAt(p)] = mem[MagicAt(p)] /\ mem'[CountAt(p)] = mem[CountAt(p)]
         /\ mem'[KindAt(p)] = mem[KindAt(p)] /\ mem'[WidthAt(p)] = mem[WidthAt(p)]
         /\ mem'[MaskAt(p)] = mem[MaskAt(p)] /\ mem'[LinkAt(p)] = mem[LinkAt(p)]
         /\ \A i \in Nat : i < Capacity(p) => mem'[p + i] = mem[p + i]
<1>1. p \in Nat /\ Capacity(p) \in Nat \ {0}
  BY DEF Geometry
<1>2. \A a \in {p - 6, p - 5, p - 4, p - 3, p - 2, p - 1} : mem'[a] = mem[a]
  <2>1. \A a \in {p - 6, p - 5, p - 4, p - 3, p - 2, p - 1} : a \in (p - 6)..(p + Capacity(p) - 1)
    BY <1>1
  <2> QED BY <2>1 DEF Untouched
<1>3. \A i \in Nat : i < Capacity(p) => p + i \in (p - 6)..(p + Capacity(p) - 1)
  BY <1>1
<1>4. \A i \in Nat : i < Capacity(p) => mem'[p + i] = mem[p + i]
  BY <1>3 DEF Untouched
<1>5. /\ mem'[p - 6] = mem[p - 6] /\ mem'[p - 5] = mem[p - 5] /\ mem'[p - 4] = mem[p - 4]
      /\ mem'[p - 3] = mem[p - 3] /\ mem'[p - 2] = mem[p - 2] /\ mem'[p - 1] = mem[p - 1]
  BY <1>2
<1> QED BY <1>4, <1>5 DEF Capacity, Link, NextSlot, MagicAt, CountAt, CapacityAt, KindAt, WidthAt, MaskAt, LinkAt

\* An object whose words a step leaves alone is of the kind it was.
LEMMA UntouchedKeeps ==
  ASSUME TypeOK, Geometry, NEW p \in Objects, Untouched(p)
  PROVE  /\ IsRecord(p)' <=> IsRecord(p)
         /\ IsHeader(p)' <=> IsHeader(p)
         /\ Shaped(p)' <=> Shaped(p)
         /\ Whole(p)' <=> Whole(p)
BY UntouchedIs DEF IsRecord, IsHeader, Shaped, Whole

\* An object whose words a step leaves alone is kept as it was.
LEMMA KeptKeeps ==
  ASSUME TypeOK, Geometry, NEW p \in Objects, Untouched(p), Kept(p), p \in owned => p \in owned'
  PROVE  Kept(p)'
<1>1. Whole(p)' /\ (IsRecord(p)' <=> IsRecord(p))
  BY UntouchedKeeps DEF Kept
<1> QED BY <1>1 DEF Kept

-----------------------------------------------------------------------------
(* What a step that leaves the objects alone keeps. *)

\* The header of a shaped record.
LEMMA ShapedRecord ==
  ASSUME NEW p, Shaped(p), IsRecord(p)
  PROVE  /\ mem[KindAt(p)] = 1 /\ mem[WidthAt(p)] = Width /\ mem[MaskAt(p)] = Mask
         /\ Width <= Capacity(p)
BY DEF Shaped, IsRecord

\* Which slots hold children is fixed.
LEMMA ChildSlotsSame == ChildSlots' = ChildSlots
BY DEF ChildSlots, Bit

\* Children stay where no slot holds what it did not hold, and no child is lost.
LEMMA ChildrenKeep ==
  ASSUME NEW kept, NEW work, NEW kept2, NEW work2, ChildrenOK(kept, work),
         \A p \in blocks' : \A i \in ChildSlots :
            Holds(kept2, work2, p, i)' =>
               /\ p \in blocks /\ Holds(kept, work, p, i)
               /\ mem'[p + i] = mem[p + i] /\ mem[p + i] \in kept2 \ owned'
  PROVE  ChildrenOK(kept2, work2)'
<1>1. \A p \in blocks' : \A i \in ChildSlots :
         Holds(kept2, work2, p, i)' => mem'[p + i] \in kept2 \ owned'
  OBVIOUS
<1>2. ASSUME NEW p \in blocks', NEW q \in blocks', NEW i \in ChildSlots, NEW j \in ChildSlots,
             Holds(kept2, work2, p, i)', Holds(kept2, work2, q, j)', mem'[p + i] = mem'[q + j]
      PROVE  p = q /\ i = j
  <2>1. /\ p \in blocks /\ Holds(kept, work, p, i) /\ mem'[p + i] = mem[p + i]
        /\ q \in blocks /\ Holds(kept, work, q, j) /\ mem'[q + j] = mem[q + j]
    BY <1>2
  <2>2. mem[p + i] = mem[q + j]
    BY <1>2, <2>1
  <2> QED BY <2>1, <2>2 DEF ChildrenOK
<1>3. ChildSlots' = ChildSlots
  BY ChildSlotsSame
<1> QED BY <1>1, <1>2, <1>3 DEF ChildrenOK

\* The slots a program may put in a record are those of the owned records.
LEMMA FieldsKeep ==
  ASSUME TypeOK, Geometry, owned' = owned, owned \subseteq blocks,
         \A p \in owned : Untouched(p)
  PROVE  Fields' = Fields
<1>1. \A p \in owned : p \in Objects
  BY DEF Objects
<1>2. \A p \in owned : IsRecord(p)' <=> IsRecord(p)
  BY <1>1, UntouchedKeeps
<1>3. Records' = Records
  BY <1>2 DEF Records
<1>4. ChildSlots' = ChildSlots
  BY ChildSlotsSame
<1> QED BY <1>3, <1>4 DEF Fields

-----------------------------------------------------------------------------
(* No object is lost. *)

\* A step leaves every slot that leads to one of `children`.
SlotsStay(kept, work, kept2, work2, children) ==
    \A p \in blocks : \A i \in ChildSlots :
        Holds(kept, work, p, i) /\ mem[p + i] \in children =>
            p \in blocks' /\ Holds(kept2, work2, p, i)' /\ mem'[p + i] = mem[p + i]

\* Objects stay held from outside where a step leaves the slots that lead to them.
LEMMA GroundedStays ==
  ASSUME NEW kept, NEW work, NEW kept2, NEW work2, Grounded(kept, work),
         NEW own, own = owned', kept2 \ own \subseteq kept \ owned,
         SlotsStay(kept, work, kept2, work2, kept2 \ own)
  PROVE  Grounded(kept2, work2)'
<1>1. ChildSlots' = ChildSlots
  BY ChildSlotsSame
<1>2. ASSUME NEW S \in SUBSET (kept2 \ own), S # {}
      PROVE  \E p \in blocks' \ S : \E i \in ChildSlots : Holds(kept2, work2, p, i)' /\ mem'[p + i] \in S
  <2>1. PICK p \in blocks \ S, i \in ChildSlots : Holds(kept, work, p, i) /\ mem[p + i] \in S
    BY <1>2 DEF Grounded
  <2>2. p \in blocks' /\ Holds(kept2, work2, p, i)' /\ mem'[p + i] = mem[p + i]
    BY <2>1 DEF SlotsStay
  <2> QED BY <2>1, <2>2
<1> QED BY <1>1, <1>2 DEF Grounded

\* Each of `new` is a child of h.
Holder(kept, work, h, new) ==
    \A c \in new : \E i \in ChildSlots : Holds(kept, work, h, i) /\ mem[h + i] = c

\* And new children may be held by one more object.
LEMMA GroundedMore ==
  ASSUME NEW kept, NEW work, NEW kept2, NEW work2, Grounded(kept, work),
         NEW own, own = owned', NEW new, kept2 \ own \subseteq (kept \ owned) \cup new,
         SlotsStay(kept, work, kept2, work2, (kept2 \ own) \ new),
         NEW h \in blocks', h \notin kept2 \ own,
         Holder(kept2, work2, h, new)'
  PROVE  Grounded(kept2, work2)'
<1>1. ChildSlots' = ChildSlots
  BY ChildSlotsSame
<1>2. ASSUME NEW S \in SUBSET (kept2 \ own), S # {}
      PROVE  \E p \in blocks' \ S : \E i \in ChildSlots : Holds(kept2, work2, p, i)' /\ mem'[p + i] \in S
  <2>1. CASE S \cap new # {}
    <3>1. PICK c \in S : c \in new
      BY <2>1
    <3>2. PICK i \in ChildSlots : Holds(kept2, work2, h, i)' /\ mem'[h + i] = c
      BY <1>1, <3>1 DEF Holder
    <3> QED BY <3>1, <3>2
  <2>2. CASE S \cap new = {}
    <3>1. S \in SUBSET (kept \ owned)
      BY <2>2
    <3>2. PICK p \in blocks \ S, i \in ChildSlots : Holds(kept, work, p, i) /\ mem[p + i] \in S
      BY <1>2, <3>1 DEF Grounded
    <3>3. mem[p + i] \in (kept2 \ own) \ new
      BY <2>2, <3>2
    <3>4. p \in blocks' /\ Holds(kept2, work2, p, i)' /\ mem'[p + i] = mem[p + i]
      BY <3>2, <3>3 DEF SlotsStay
    <3> QED BY <3>2, <3>4
  <2> QED BY <2>1, <2>2
<1> QED BY <1>1, <1>2 DEF Grounded

\* A slot that holds a child lies within its object, and keeps the child where the
\* object is left alone.
LEMMA HoldsStays ==
  ASSUME TypeOK, Geometry, NEW kept, NEW work, PartsOK(kept, work), ReleaseOK(work),
         CopyOK(kept, work), NEW p \in blocks, NEW i, Holds(kept, work, p, i), Untouched(p)
  PROVE  /\ i \in ChildSlots /\ i \in Nat /\ i < Width
         /\ mem'[p + i] = mem[p + i] /\ mem'[p + i] # 0
         /\ IsRecord(p)' <=> IsRecord(p)
         /\ NextSlot(p)' = NextSlot(p)
<1>1. i \in ChildSlots /\ i \in Nat /\ i < Width /\ mem[p + i] # 0
  BY Sizes DEF Holds
<1>2. p \in Objects /\ Capacity(p) \in Nat \ {0} /\ Width \in Nat
  BY Sizes DEF Geometry, Objects
<1>3. Width <= Capacity(p)
  <2>1. CASE p \in kept /\ IsRecord(p)
    BY <2>1, ShapedRecord DEF PartsOK, Kept, Whole
  <2>2. CASE p \in work /\ InRelease /\ IsRecord(p)
    BY <2>2, ShapedRecord DEF ReleaseOK
  <2>3. CASE p \in work /\ InCopy
    BY <2>3 DEF CopyOK, Begins
  <2>4. CASE pc = "drop" /\ p = release.object /\ IsRecord(p)
    BY <2>4, ShapedRecord DEF ReleaseOK
  <2> QED BY <2>1, <2>2, <2>3, <2>4 DEF Holds
<1>4. i < Capacity(p)
  BY <1>1, <1>2, <1>3
<1>5. mem'[p + i] = mem[p + i] /\ NextSlot(p)' = NextSlot(p)
  BY <1>1, <1>2, <1>4, UntouchedIs
<1>6. IsRecord(p)' <=> IsRecord(p)
  BY <1>2, UntouchedKeeps
<1> QED BY <1>1, <1>5, <1>6

\* A work list that keeps its links is reached as before.
LEMMA ReachedSame ==
  ASSUME NEW m, NEW m2, NEW work, NEW first, Reached(m, work, first),
         \A q \in work : m2[CountAt(q)] = m[CountAt(q)]
  PROVE  Reached(m2, work, first)
BY DEF Reached

\* One more object at the head of the list.
LEMMA ReachedPut ==
  ASSUME NEW m, NEW m2, NEW work, NEW first, Reached(m, work, first),
         NEW c, c \notin work, m2[CountAt(c)] = first,
         \A q \in work : m2[CountAt(q)] = m[CountAt(q)]
  PROVE  Reached(m2, work \cup {c}, c)
<1> SUFFICES ASSUME NEW S \in SUBSET (work \cup {c}), S # {}, c \notin S
             PROVE  \E q \in (work \cup {c}) \ S : m2[CountAt(q)] \in S
  BY DEF Reached
<1>1. S \in SUBSET work
  OBVIOUS
<1>2. CASE first \in S
  BY <1>2
<1>3. CASE first \notin S
  <2>1. PICK q \in work \ S : m[CountAt(q)] \in S
    BY <1>1, <1>3 DEF Reached
  <2> QED BY <2>1
<1> QED BY <1>2, <1>3

\* The list without its head.
LEMMA ReachedTake ==
  ASSUME NEW m, NEW m2, NEW work, NEW first, Reached(m, work, first),
         \A q \in work \ {first} : m2[CountAt(q)] = m[CountAt(q)]
  PROVE  Reached(m2, work \ {first}, m[CountAt(first)])
<1> SUFFICES ASSUME NEW S \in SUBSET (work \ {first}), S # {}, m[CountAt(first)] \notin S
             PROVE  \E q \in (work \ {first}) \ S : m2[CountAt(q)] \in S
  BY DEF Reached
<1>1. S \in SUBSET work /\ first \notin S
  OBVIOUS
<1>2. PICK q \in work \ S : m[CountAt(q)] \in S
  BY <1>1 DEF Reached
<1>3. q # first
  BY <1>2
<1> QED BY <1>2, <1>3

\* The list ends where its head is 0.
LEMMA ReachedNone ==
  ASSUME NEW m, NEW work, Reached(m, work, 0), 0 \notin work
  PROVE  work = {}
BY DEF Reached

\* A head without a link is the whole list.
LEMMA ReachedOne ==
  ASSUME NEW m, NEW work, NEW first, Reached(m, work, first), m[CountAt(first)] = 0,
         0 \notin work, first \in work
  PROVE  work = {first}
<1>1. Reached(m, work \ {first}, 0)
  BY ReachedTake
<1> QED BY <1>1, ReachedNone

\* A block that is taken for a new object, with the header that alloc writes.
NewObject(p) ==
    /\ p \in Addresses \ {0} /\ p \notin blocks
    /\ mem'[MagicAt(p)] = Magic /\ mem'[CountAt(p)] = 1
    /\ mem'[KindAt(p)] = 2 /\ mem'[MaskAt(p)] = 0
    /\ mem'[CapacityAt(p)] \in Nat /\ alloc.need <= mem'[CapacityAt(p)]

\* A return of alloc changes nothing of the other objects.
LEMMA ReturnKeeps ==
  ASSUME HeapInv, pc = "search", NEW r, NewObject(r), ReturnRoot(r),
         \A p \in blocks : Untouched(p)
  PROVE  /\ FreshOK'
         /\ \E kept \in SUBSET blocks' : \E work \in SUBSET blocks' : Ownership(kept, work)'
<1>0. TypeOK /\ Geometry /\ FreshOK
  BY RowGeometry DEF HeapInv
<1>1. PICK kept \in SUBSET blocks, work \in SUBSET blocks : Ownership(kept, work)
  BY DEF HeapInv
<1>2. PartsOK(kept, work) /\ ChildrenOK(kept, work) /\ ReleaseOK(work) /\ CopyOK(kept, work)
  BY <1>1 DEF Ownership
<1>3. /\ pc' = alloc.then /\ alloc'.root = r /\ blocks' = blocks \cup {r}
      /\ UNCHANGED <<release, copy, args, owned>>
  BY DEF ReturnRoot, NoAlloc
<1>4. alloc.then \in {"array", "record", "header", "copyRoot", "copyChild"}
  BY <1>0 DEF FreshOK, TypeOK
<1>5. /\ Stage' = Stage /\ Stage = alloc.then /\ (InCopy' <=> InCopy)
      /\ ~InRelease /\ ~InRelease' /\ Fresh' = {r} /\ Falling' = {}
  BY <1>3, <1>4 DEF Stage, InCopy, InRelease, Fresh, Falling
<1>6. /\ \A p \in blocks : p \in Objects /\ Untouched(p)
      /\ \A p \in kept : p \in blocks
      /\ \A p \in work : p \in blocks
  BY <1>2 DEF PartsOK, Objects
<1>7. owned \subseteq blocks /\ owned \subseteq kept
  BY <1>2 DEF PartsOK
<1>8. FreshOK'
  <2>1. Room' = mem'[CapacityAt(r)] /\ Room = alloc.need
    BY <1>3, <1>4 DEF Room, Capacity
  <2>2. Fields' = Fields
    BY <1>0, <1>3, <1>6, <1>7, FieldsKeep
  <2>3. /\ Room \in Nat /\ Room' \in Int
        /\ Room <= Room'
    BY <1>0, <2>1 DEF NewObject, TypeOK
  <2>4. pc' # "search"
    BY <1>3, <1>4
  <2>5. \A p \in Fresh' : /\ mem'[MagicAt(p)] = Magic /\ mem'[CountAt(p)] = 1
                          /\ mem'[KindAt(p)] = 2 /\ mem'[MaskAt(p)] = 0
    BY <1>5 DEF NewObject
  <2>6. Stage' = "array" => \E n \in Lengths : args' \in [0..n -> Nat] /\ n + 1 <= Room'
    BY <1>0, <1>3, <1>5, <2>3, Sizes DEF FreshOK
  <2>7. /\ Stage' = "record" => args' \in Fields'
        /\ Stage' \in {"record", "header", "copyRoot", "copyChild"} => Width <= Room'
    BY <1>0, <1>3, <1>5, <2>2, <2>3, Sizes DEF FreshOK
  <2> QED BY <2>4, <2>5, <2>6, <2>7 DEF FreshOK
<1>9. PartsOK(kept, work)'
  <2>1. \A p \in kept : Kept(p)'
    <3> SUFFICES ASSUME NEW p \in kept PROVE Kept(p)'
      OBVIOUS
    <3>1. p \in Objects /\ Untouched(p) /\ Kept(p) /\ (p \in owned => p \in owned')
      BY <1>2, <1>6, <1>3 DEF PartsOK
    <3> QED BY <1>0, <3>1, KeptKeeps
  <2>2. r \notin kept /\ r \notin work /\ r \in blocks'
    BY <1>3 DEF NewObject
  <2> QED BY <1>2, <1>3, <1>5, <2>1, <2>2 DEF PartsOK
<1>10. ChildrenOK(kept, work)'
  <2>1. ASSUME NEW p \in blocks', NEW i \in ChildSlots, Holds(kept, work, p, i)'
        PROVE  /\ p \in blocks /\ Holds(kept, work, p, i)
               /\ mem'[p + i] = mem[p + i] /\ mem[p + i] \in kept \ owned'
    <3>1. p \in kept \/ p \in work
      BY <1>3, <1>4, <1>5, <2>1 DEF Holds
    <3>2. p \in blocks /\ p \in Objects /\ Untouched(p)
      BY <1>6, <3>1
    <3>3. /\ IsRecord(p)' <=> IsRecord(p)
          /\ NextSlot(p)' = NextSlot(p)
      BY <1>0, <3>2, UntouchedKeeps, UntouchedIs
    <3>4. i \in Nat /\ i < Width
      BY Sizes
    <3>5. Width <= Capacity(p)
      <4>1. CASE p \in kept /\ IsRecord(p)
        BY <1>2, <4>1, ShapedRecord DEF PartsOK, Kept, Whole
      <4>2. CASE p \in work /\ InCopy
        BY <1>2, <4>2 DEF CopyOK, Begins
      <4> QED BY <1>3, <1>4, <1>5, <2>1, <3>1, <3>3, <4>1, <4>2 DEF Holds
    <3>6. mem'[p + i] = mem[p + i]
      <4>1. i < Capacity(p)
        BY <1>0, <3>2, <3>4, <3>5, Sizes DEF Geometry
      <4> QED BY <1>0, <3>2, <3>4, <4>1, UntouchedIs
    <3>7. Holds(kept, work, p, i)
      BY <1>3, <1>4, <1>5, <2>1, <3>3, <3>6 DEF Holds
    <3> QED BY <1>2, <1>3, <3>2, <3>6, <3>7 DEF ChildrenOK
  <2> QED BY <1>2, <2>1, ChildrenKeep
<1>11. ReleaseOK(work)'
  BY <1>2, <1>3, <1>4, <1>5 DEF ReleaseOK
<1>12. CopyOK(kept, work)'
  <2>1. \A p : Source(kept, p) => Source(kept, p)'
    BY <1>0, <1>6, UntouchedKeeps DEF Source
  <2>2. \A p \in work : /\ mem'[CountAt(p)] = mem[CountAt(p)]
                        /\ NextSlot(p)' = NextSlot(p)
                        /\ Begins(kept, p) => Begins(kept, p)'
    BY <1>0, <1>6, <2>1, UntouchedIs DEF Begins
  <2>3. InCopy => Linked(work, copy.current)'
    BY <1>2, <1>3, <2>2 DEF CopyOK, Linked
  <2>4. Stage \in {"copyRoot", "copyChild"} => Source(kept, copy.source)'
    BY <1>2, <1>3, <2>1 DEF CopyOK, Source
  <2>5. Stage = "copyChild" => NextSlot(copy.current)' \in ChildSlots
    <3>1. Stage = "copyChild" => copy.current \in work /\ NextSlot(copy.current) \in ChildSlots
      BY <1>2 DEF CopyOK, InCopy
    <3> QED BY <1>3, <2>2, <3>1 DEF NextSlot
  <2>6. InCopy => /\ copy'.current \in work
                  /\ \A p \in work : /\ Begins(kept, p)'
                                     /\ p # copy'.current => NextSlot(p)' \in ChildSlots
                                     /\ mem'[CountAt(p)] = 0 => p = copy'.result
    BY <1>2, <1>3, <2>2 DEF CopyOK
  <2> QED BY <1>3, <1>5, <2>3, <2>4, <2>5, <2>6, ChildSlotsSame DEF CopyOK
<1>13. kept \in SUBSET blocks' /\ work \in SUBSET blocks'
  BY <1>3
<1>14. pc # "trapped" /\ NoneLost(kept, work)
  BY <1>1 DEF Ownership
<1>15. NoneLost(kept, work)'
  <2>1. PICK own : own = owned' /\ own = owned
    BY <1>3
  <2>2. SlotsStay(kept, work, kept, work, kept \ own)
    <3> SUFFICES ASSUME NEW p \in blocks, NEW i \in ChildSlots, Holds(kept, work, p, i)
                 PROVE  p \in blocks' /\ Holds(kept, work, p, i)' /\ mem'[p + i] = mem[p + i]
      BY DEF SlotsStay
    <3>1. /\ mem'[p + i] = mem[p + i] /\ mem'[p + i] # 0
          /\ IsRecord(p)' <=> IsRecord(p)
          /\ NextSlot(p)' = NextSlot(p)
      BY <1>0, <1>2, <1>6, HoldsStays
    <3>2. i \in ChildSlots'
      BY ChildSlotsSame
    <3> QED BY <1>3, <1>5, <3>1, <3>2 DEF Holds
  <2>3. Grounded(kept, work)'
    BY <1>14, <2>1, <2>2, GroundedStays DEF NoneLost
  <2>4. \A q \in work : mem'[CountAt(q)] = mem[CountAt(q)]
    BY <1>0, <1>6, UntouchedIs
  <2>5. InCopy => Reached(mem', work, copy.current)
    BY <1>14, <2>4, ReachedSame DEF NoneLost
  <2>6. blocks' \subseteq kept \cup work \cup Fresh' \cup Falling'
    <3>1. Fresh = {} /\ Falling = {}
      BY DEF Fresh, Falling
    <3> QED BY <1>3, <1>5, <1>14, <3>1 DEF NoneLost
  <2> QED BY <1>3, <1>5, <2>3, <2>5, <2>6 DEF NoneLost
<1> QED BY <1>8, <1>9, <1>10, <1>11, <1>12, <1>13, <1>15 DEF Ownership

-----------------------------------------------------------------------------
(* alloc: what the search finds, and the list and the row after it. *)

\* The words of two objects are distinct.
LEMMA Distinct ==
  ASSUME Geometry, NEW p \in Objects, NEW q \in Objects, p # q,
         NEW a \in (p - 6)..(p + Capacity(p) - 1)
  PROVE  a < q - 6 \/ q + Capacity(q) <= a
<1>1. /\ p \in Nat /\ Capacity(p) \in Nat \ {0} /\ q \in Nat /\ Capacity(q) \in Nat \ {0}
      /\ p + Capacity(p) + 6 <= q \/ q + Capacity(q) + 6 <= p
  BY DEF Geometry
<1> QED BY <1>1

\* Two objects are at least a header and a word apart.
LEMMA ObjectsSpaced == Geometry => Spaced(Objects)
<1> SUFFICES ASSUME Geometry PROVE Spaced(Objects)
  OBVIOUS
<1>1. \A p \in Objects : /\ p \in Nat /\ Capacity(p) \in Nat \ {0}
                         /\ Base + 6 <= p /\ p + Capacity(p) <= top
  BY DEF Geometry
<1>2. top \in Nat /\ top <= Limit /\ Limit \in Nat
  BY Sizes DEF Geometry
<1>3. \A p \in Objects : p + 1 <= Limit
  BY <1>1, <1>2
<1>4. ASSUME NEW p \in Objects, NEW q \in Objects, p < q PROVE p + 7 <= q
  <2>1. p + Capacity(p) + 6 <= q \/ q + Capacity(q) + 6 <= p
    BY <1>1, <1>4 DEF Geometry
  <2> QED BY <1>1, <1>4, <2>1
<1> QED BY <1>1, <1>3, <1>4 DEF Spaced

\* The free blocks after a step that makes a list of some of the objects.
LEMMA ListAfter ==
  ASSUME Geometry, NEW S, S \subseteq Objects, IsChain(mem', head', S)
  PROVE  FreeBlocks' = S /\ IsChain(mem', head', FreeBlocks')
<1>1. Spaced(S)
  BY ObjectsSpaced DEF Spaced
<1>2. FreeBlocks' = S
  BY <1>1, ChainIs DEF FreeBlocks, FreeAt
<1> QED BY <1>2

\* What the invariant says of a search that has come to a block.
LEMMA FirstFit ==
  ASSUME HeapInv, pc = "search", alloc.current # 0, Fits
  PROVE  /\ alloc.current \in FreeBlocks
         /\ alloc.need \in Needs
         /\ Row!IsFirstFit([root |-> alloc.current, cap |-> Capacity(alloc.current)], alloc.need)
<1> DEFINE cur == alloc.current
           b == [root |-> cur, cap |-> Capacity(cur)]
<1>1. /\ Walks(alloc.previous, cur)
      /\ \A p \in FreeBlocks : p <= alloc.previous => Capacity(p) < alloc.need
  BY DEF HeapInv, ListOK
<1>2. Geometry
  BY RowGeometry DEF HeapInv
<1>3. /\ cur \in FreeBlocks
      /\ \A p \in FreeBlocks : p <= alloc.previous \/ cur <= p
  BY <1>1 DEF Walks, Follows
<1>4. alloc.need \in Needs /\ alloc.need \in Nat
  BY DEF HeapInv, FreshOK, TypeOK, Needs
<1>5. b \in RowOf(FreeBlocks)
  BY <1>3 DEF RowOf
<1>6. alloc.need <= b.cap
  BY <1>2, <1>3, <1>4 DEF Fits, Geometry, Objects
<1>7. ASSUME NEW c \in RowOf(FreeBlocks), alloc.need <= c.cap PROVE b.root <= c.root
  <2>1. PICK p \in FreeBlocks : c = [root |-> p, cap |-> Capacity(p)]
    BY DEF RowOf
  <2>2. Capacity(p) \in Nat /\ p \in Nat
    BY <1>2 DEF Geometry, Objects
  <2>3. ~(Capacity(p) < alloc.need)
    BY <1>4, <1>7, <2>1, <2>2
  <2> QED BY <1>1, <1>3, <2>1, <2>3
<1> HIDE DEF b
<1>8. Row!IsFirstFit(b, alloc.need)
  BY <1>5, <1>6, <1>7 DEF Row!IsFirstFit, Row!Fitting
<1> QED BY <1>3, <1>4, <1>8 DEF b

\* A search that takes a whole block writes its header and the link before it.
LEMMA WholeWords ==
  ASSUME HeapInv, TakeWhole
  PROVE  /\ mem' \in Memories
         /\ \A p \in Objects \ {alloc.current, alloc.previous} : Untouched(p)
         /\ \A p \in FreeBlocks \ {alloc.current} :
               /\ Capacity(p)' = Capacity(p)
               /\ mem'[LinkAt(p)] = IF p = alloc.previous THEN Link(alloc.current)
                                                         ELSE mem[LinkAt(p)]
         /\ alloc.current \in FreeBlocks /\ NewObject(alloc.current)
         /\ mem'[CapacityAt(alloc.current)] = Capacity(alloc.current)
<1> DEFINE cur == alloc.current
           prev == alloc.previous
<1>1. TypeOK /\ Geometry /\ mem \in Memories
  BY RowGeometry DEF HeapInv, TypeOK, Memories
<1>2. /\ pc = "search" /\ cur # 0 /\ Fits
      /\ mem' = HeaderWritten(Unlinked, cur, Capacity(cur))
  BY DEF TakeWhole, Searching
<1>3. cur \in FreeBlocks /\ cur \in Objects
  BY <1>2, FirstFit DEF Objects
<1>4. /\ cur \in Nat \ {0} /\ Capacity(cur) \in Nat \ {0} /\ cur \in Addresses
      /\ \A a \in (cur - 6)..(cur + Capacity(cur) - 1) : a \in Addresses
  BY <1>1, <1>3, InMemory
<1>5. Walks(prev, cur)
  BY <1>2 DEF HeapInv, ListOK
<1>6. prev # cur /\ (prev = 0 \/ (prev \in FreeBlocks /\ prev \in Objects))
  <2>1. prev < cur /\ (prev = 0 \/ prev \in FreeBlocks)
    BY <1>4, <1>5 DEF Walks, Follows
  <2>2. prev \in Nat
    BY <1>1, <2>1 DEF Geometry, Objects
  <2> QED BY <1>4, <2>1, <2>2 DEF Objects
<1>7. Link(cur) \in Nat
  BY <1>1, <1>4, Sizes DEF Link, LinkAt, Memories
<1>8. /\ Unlinked \in Memories
      /\ \A a \in Addresses : Unlinked[a] = IF prev # 0 /\ a = prev - 1 THEN Link(cur) ELSE mem[a]
  <2>1. CASE prev = 0
    BY <1>1, <2>1 DEF Unlinked
  <2>2. CASE prev # 0
    <3>1. Unlinked = Write(mem, prev - 1, Link(cur))
      BY <2>2 DEF Unlinked, LinkAt
    <3> QED BY <1>1, <1>7, <2>2, <3>1, WriteIs
  <2> QED BY <2>1, <2>2
<1>9. /\ mem' \in Memories
      /\ \A a \in Addresses :
            /\ a = cur - 6 => mem'[a] = Magic
            /\ a = cur - 5 => mem'[a] = 1
            /\ a = cur - 4 => mem'[a] = Capacity(cur)
            /\ a = cur - 3 => mem'[a] = 2
            /\ a = cur - 1 => mem'[a] = 0
            /\ a < cur - 6 \/ cur <= a => mem'[a] = Unlinked[a]
  <2>1. cur \in Nat /\ Capacity(cur) \in Nat
    BY <1>4
  <2> HIDE DEF cur, prev
  <2>2. \A m, p, c : m \in Memories /\ p \in Nat /\ c \in Nat => HeaderAt(m, p, c)
    BY HeaderIs DEF HeaderAt
  <2>3. HeaderAt(Unlinked, cur, Capacity(cur))
    BY <1>8, <2>1, <2>2, Zenon
  <2> QED BY <1>2, <2>3 DEF HeaderAt
<1>10. ASSUME NEW p \in Objects \ {cur}, NEW a \in (p - 6)..(p + Capacity(p) - 1)
       PROVE  mem'[a] = IF prev # 0 /\ a = prev - 1 THEN Link(cur) ELSE mem[a]
  <2>1. a \in Addresses
    BY <1>1, InMemory
  <2>2. a < cur - 6 \/ cur + Capacity(cur) <= a
    BY <1>1, <1>3, Distinct
  <2>3. a < cur - 6 \/ cur <= a
    BY <1>4, <2>1, <2>2, Sizes
  <2> QED BY <1>8, <1>9, <2>1, <2>3
<1>11. ASSUME NEW p \in Objects \ {cur, prev} PROVE Untouched(p)
  <2> SUFFICES ASSUME NEW a \in (p - 6)..(p + Capacity(p) - 1) PROVE mem'[a] = mem[a]
    BY DEF Untouched
  <2>1. ASSUME prev # 0 PROVE a # prev - 1
    <3>1. a < prev - 6 \/ prev + Capacity(prev) <= a
      BY <1>1, <1>6, <2>1, Distinct
    <3>2. prev \in Nat /\ Capacity(prev) \in Nat
      BY <1>1, <1>6, <2>1, InMemory
    <3> QED BY <3>1, <3>2
  <2> QED BY <1>10, <2>1
<1>12. ASSUME NEW p \in FreeBlocks \ {cur}
       PROVE  /\ Capacity(p)' = Capacity(p)
              /\ mem'[LinkAt(p)] = IF p = prev THEN Link(cur) ELSE mem[LinkAt(p)]
  <2>1. p \in Objects /\ p \in Nat \ {0} /\ Capacity(p) \in Nat \ {0}
    BY <1>1, InMemory DEF Objects
  <2>2. p - 4 \in (p - 6)..(p + Capacity(p) - 1) /\ p - 1 \in (p - 6)..(p + Capacity(p) - 1)
    BY <2>1
  <2>3. CASE p = prev
    <3>1. p - 4 # prev - 1
      BY <2>1, <2>3
    <3> QED BY <1>10, <2>1, <2>2, <2>3, <3>1 DEF Capacity, CapacityAt, LinkAt
  <2>4. CASE p # prev
    <3>1. Untouched(p)
      BY <1>11, <2>1, <2>4
    <3> QED BY <1>1, <2>1, <2>4, <3>1, UntouchedIs
  <2> QED BY <2>3, <2>4
<1>13. /\ mem'[MagicAt(cur)] = Magic /\ mem'[CountAt(cur)] = 1
       /\ mem'[KindAt(cur)] = 2 /\ mem'[MaskAt(cur)] = 0
       /\ mem'[CapacityAt(cur)] = Capacity(cur)
  <2>1. \A a \in {cur - 6, cur - 5, cur - 4, cur - 3, cur - 1} : a \in Addresses
    <3>1. \A a \in {cur - 6, cur - 5, cur - 4, cur - 3, cur - 1} :
             a \in (cur - 6)..(cur + Capacity(cur) - 1)
      BY <1>4
    <3> QED BY <1>4, <3>1
  <2> QED BY <1>9, <2>1 DEF MagicAt, CountAt, KindAt, MaskAt, CapacityAt
<1>14. cur \notin blocks
  BY <1>1, <1>3 DEF Geometry
<1>15. NewObject(cur)
  <2>1. alloc.need <= Capacity(cur)
    BY <1>1, <1>2, <1>4 DEF Fits, TypeOK
  <2> QED BY <1>4, <1>13, <1>14, <2>1 DEF NewObject
<1> QED BY <1>3, <1>9, <1>11, <1>12, <1>13, <1>15

\* A block taken whole leaves the list, which stays a chain.
LEMMA WholeList ==
  ASSUME HeapInv, TakeWhole
  PROVE  /\ FreeBlocks' = FreeBlocks \ {alloc.current}
         /\ IsChain(mem', head', FreeBlocks')
<1> DEFINE cur == alloc.current
           prev == alloc.previous
<1>1. Geometry /\ IsChain(mem, head, FreeBlocks)
  BY RowGeometry DEF HeapInv, ListOK
<1>2. pc = "search" /\ head' = (IF prev = 0 THEN mem[LinkAt(cur)] ELSE head)
  BY DEF TakeWhole, Searching, HeadAfter, Link
<1>3. prev \in FreeBlocks \cup {0} /\ Follows(FreeBlocks, prev, cur)
  BY <1>2 DEF HeapInv, ListOK, Walks
<1>4. cur \in FreeBlocks /\ FreeBlocks \subseteq Objects
  BY WholeWords DEF Objects
<1>5. FreeBlocks \subseteq Nat \ {0}
  BY <1>1, Sizes DEF Geometry, Objects
<1>6. LinksPast(mem, mem', FreeBlocks, prev, cur)
  BY WholeWords DEF Link, LinksPast
<1>7. IsChain(mem', head', FreeBlocks \ {cur})
  BY <1>1, <1>2, <1>3, <1>4, <1>5, <1>6, ChainWithout
<1> QED BY <1>1, <1>4, <1>7, ListAfter

\* The row's step is that the lowest block that fits is taken whole.
LEMMA WholeRow ==
  ASSUME HeapInv, TakeWhole
  PROVE  Row!Next
<1> DEFINE cur == alloc.current
           b == [root |-> cur, cap |-> Capacity(cur)]
<1>1. cur \in FreeBlocks /\ alloc.need \in Needs /\ Row!IsFirstFit(b, alloc.need)
  BY FirstFit DEF TakeWhole, Searching
<1>2. ~Row!Splits(b, alloc.need)
  BY DEF TakeWhole, Splits, Row!Splits, Header
<1>3. top' = top /\ blocks' = blocks \cup {cur}
  BY DEF TakeWhole, ReturnRoot
<1>4. FreeBlocks' = FreeBlocks \ {cur} /\ Geometry /\ TypeOK
  BY WholeList, RowGeometry DEF HeapInv
<1>5. \A p \in Objects : Capacity(p)' = Capacity(p)
  <2> SUFFICES ASSUME NEW p \in Objects PROVE Capacity(p)' = Capacity(p)
    OBVIOUS
  <2>1. CASE p \in FreeBlocks
    <3>1. CASE p = cur
      BY <3>1, WholeWords DEF Capacity
    <3>2. CASE p # cur
      BY <2>1, <3>2, WholeWords
    <3> QED BY <3>1, <3>2
  <2>2. CASE p \notin FreeBlocks
    <3>1. p # cur /\ p # alloc.previous
      <4>1. alloc.previous \in FreeBlocks \cup {0}
        BY DEF HeapInv, ListOK, Walks, TakeWhole, Searching
      <4>2. p # 0
        BY <1>4, InMemory
      <4> QED BY <1>1, <2>2, <4>1, <4>2
    <3> QED BY <1>4, <3>1, WholeWords, UntouchedIs
  <2> QED BY <2>1, <2>2
<1>6. RowOf(FreeBlocks)' = RowOf(FreeBlocks) \ {b}
  BY <1>4, <1>5 DEF RowOf, Objects
<1>7. RowOf(blocks)' = RowOf(blocks) \cup {b}
  BY <1>1, <1>3, <1>5 DEF RowOf, Objects
<1>8. b \in RowOf(FreeBlocks)
  BY <1>1 DEF RowOf
<1> HIDE DEF b
<1> QED BY <1>1, <1>2, <1>3, <1>6, <1>7, <1>8 DEF Row!Next, Row!AllocateWhole, Needs

\* A split writes the capacity of what stays free and a header above it.
LEMMA UpperWords ==
  ASSUME HeapInv, TakeUpper
  PROVE  LET cur == alloc.current
             lower == Capacity(cur) - alloc.need - 6
             root == cur + Capacity(cur) - alloc.need
         IN /\ mem' \in Memories
            /\ \A p \in Objects \ {cur} : Untouched(p)
            /\ cur \in FreeBlocks /\ lower \in Nat \ {0}
            /\ mem'[CapacityAt(cur)] = lower /\ mem'[LinkAt(cur)] = mem[LinkAt(cur)]
            /\ NewObject(root) /\ mem'[CapacityAt(root)] = alloc.need
            /\ root # cur
<1> DEFINE cur == alloc.current
           need == alloc.need
           lower == Capacity(cur) - need - 6
           root == cur + Capacity(cur) - need
           m == Write(mem, cur - 4, lower)
<1>1. TypeOK /\ Geometry /\ mem \in Memories
  BY RowGeometry DEF HeapInv, TypeOK, Memories
<1>2. /\ pc = "search" /\ cur # 0 /\ Fits /\ Splits
      /\ mem' = HeaderWritten(m, root, need)
  BY DEF TakeUpper, Searching, Header, CapacityAt
<1>3. cur \in FreeBlocks /\ cur \in Objects /\ need \in Needs /\ need \in Nat \ {0}
  BY <1>2, FirstFit, NeedsPositive DEF Objects
<1>4. /\ cur \in Nat \ {0} /\ Capacity(cur) \in Nat \ {0} /\ cur \in Addresses
      /\ \A a \in (cur - 6)..(cur + Capacity(cur) - 1) : a \in Addresses
  BY <1>1, <1>3, InMemory
<1>5. /\ lower \in Nat \ {0} /\ root \in Nat /\ cur + lower + 6 = root
      /\ root + need = cur + Capacity(cur)
  BY <1>2, <1>3, <1>4 DEF Splits, Header
<1>6. m \in Memories /\ \A a \in Addresses : m[a] = IF a = cur - 4 THEN lower ELSE mem[a]
  <2>1. lower \in Nat
    BY <1>5
  <2> HIDE DEF lower
  <2> QED BY <1>1, <2>1, WriteIs
<1>7. /\ mem' \in Memories
      /\ \A a \in Addresses :
            /\ a = root - 6 => mem'[a] = Magic
            /\ a = root - 5 => mem'[a] = 1
            /\ a = root - 4 => mem'[a] = need
            /\ a = root - 3 => mem'[a] = 2
            /\ a = root - 1 => mem'[a] = 0
            /\ a < root - 6 \/ root <= a => mem'[a] = m[a]
  <2>1. need \in Nat /\ root \in Nat
    BY <1>3, <1>5
  <2> HIDE DEF m, root, need
  <2>2. \A x, p, c : x \in Memories /\ p \in Nat /\ c \in Nat => HeaderAt(x, p, c)
    BY HeaderIs DEF HeaderAt
  <2>3. HeaderAt(m, root, need)
    BY <1>6, <2>1, <2>2, Zenon
  <2> QED BY <1>2, <2>3 DEF HeaderAt
<1>8. ASSUME NEW p \in Objects \ {cur} PROVE Untouched(p)
  <2> SUFFICES ASSUME NEW a \in (p - 6)..(p + Capacity(p) - 1) PROVE mem'[a] = mem[a]
    BY DEF Untouched
  <2>1. a \in Addresses /\ a \in Int
    BY <1>1, InMemory, Sizes
  <2>2. a < cur - 6 \/ cur + Capacity(cur) <= a
    BY <1>1, <1>3, Distinct
  <2> HIDE DEF cur, need, lower, root, m
  <2>3. (a < root - 6 \/ root <= a) /\ a # cur - 4
    BY <1>3, <1>4, <1>5, <2>1, <2>2
  <2> QED BY <1>6, <1>7, <2>1, <2>3
<1>9. mem'[cur - 4] = lower /\ mem'[cur - 1] = mem[cur - 1]
  <2> HIDE DEF cur, need, lower, root, m
  <2>1. cur - 4 \in Addresses /\ cur - 1 \in Addresses
    BY <1>4
  <2>2. cur - 4 < root - 6 /\ cur - 1 < root - 6
    BY <1>4, <1>5
  <2> QED BY <1>4, <1>6, <1>7, <2>1, <2>2
<1>10. /\ root \in Addresses \ {0}
       /\ mem'[root - 6] = Magic /\ mem'[root - 5] = 1 /\ mem'[root - 4] = need
       /\ mem'[root - 3] = 2 /\ mem'[root - 1] = 0
  <2> HIDE DEF cur, need, lower, root, m
  <2>1. \A a \in {root - 6, root - 5, root - 4, root - 3, root - 1, root} : a \in Addresses
    <3>1. \A a \in {root - 6, root - 5, root - 4, root - 3, root - 1, root} :
             a \in (cur - 6)..(cur + Capacity(cur) - 1)
      BY <1>3, <1>4, <1>5
    <3> QED BY <1>4, <3>1
  <2>2. root # 0
    BY <1>4, <1>5
  <2> QED BY <1>7, <2>1, <2>2
<1>11. root \notin blocks /\ root # cur
  <2> HIDE DEF need, lower, root, m
  <2>1. root # cur
    <3> HIDE DEF cur
    <3> QED BY <1>4, <1>5
  <2>2. ASSUME root \in Objects PROVE FALSE
    <3>1. root \in (root - 6)..(root + Capacity(root) - 1)
      BY <1>1, <2>2, InMemory
    <3>2. root < cur - 6 \/ cur + Capacity(cur) <= root
      BY <1>1, <1>3, <2>1, <2>2, <3>1, Distinct
    <3> HIDE DEF cur
    <3> QED BY <1>3, <1>4, <1>5, <3>2
  <2> QED BY <2>1, <2>2 DEF Objects
<1>12. NewObject(root)
  <2> HIDE DEF cur, root, lower, m
  <2> QED BY <1>3, <1>10, <1>11
          DEF NewObject, MagicAt, CountAt, KindAt, MaskAt, CapacityAt
<1> QED BY <1>3, <1>5, <1>7, <1>8, <1>9, <1>10, <1>11, <1>12 DEF CapacityAt, LinkAt

\* A block whose upper end is taken stays on the list.
LEMMA UpperList ==
  ASSUME HeapInv, TakeUpper
  PROVE  FreeBlocks' = FreeBlocks /\ IsChain(mem', head', FreeBlocks')
<1>1. Geometry /\ TypeOK /\ IsChain(mem, head, FreeBlocks)
  BY RowGeometry DEF HeapInv, ListOK
<1>2. \A p \in FreeBlocks : mem'[LinkAt(p)] = mem[LinkAt(p)]
  <2> SUFFICES ASSUME NEW p \in FreeBlocks PROVE mem'[LinkAt(p)] = mem[LinkAt(p)]
    OBVIOUS
  <2>1. p \in Objects
    BY DEF Objects
  <2>2. CASE p = alloc.current
    BY <2>2, UpperWords
  <2>3. CASE p # alloc.current
    BY <1>1, <2>1, <2>3, UpperWords, UntouchedIs
  <2> QED BY <2>2, <2>3
<1>3. IsChain(mem', head', FreeBlocks)
  BY <1>1, <1>2, ChainSame DEF TakeUpper
<1>4. FreeBlocks \subseteq Objects
  BY DEF Objects
<1> QED BY <1>1, <1>3, <1>4, ListAfter

\* The row's step is that the object takes the upper end of the lowest block that fits.
LEMMA UpperRow ==
  ASSUME HeapInv, TakeUpper
  PROVE  Row!Next
<1> DEFINE cur == alloc.current
           need == alloc.need
           lower == Capacity(cur) - need - 6
           root == cur + Capacity(cur) - need
           b == [root |-> cur, cap |-> Capacity(cur)]
           lo == [root |-> cur, cap |-> lower]
           hi == [root |-> root, cap |-> need]
<1>1. cur \in FreeBlocks /\ need \in Needs /\ Row!IsFirstFit(b, need)
  BY FirstFit DEF TakeUpper, Searching
<1>2. Row!Splits(b, need)
  BY DEF TakeUpper, Splits, Row!Splits, Header
<1>3. top' = top /\ blocks' = blocks \cup {root}
  BY DEF TakeUpper, ReturnRoot
<1>4. FreeBlocks' = FreeBlocks /\ Geometry /\ TypeOK
  BY UpperList, RowGeometry DEF HeapInv
<1>5. /\ \A p \in Objects \ {cur} : mem'[CapacityAt(p)] = mem[CapacityAt(p)]
      /\ mem'[CapacityAt(cur)] = lower /\ mem'[CapacityAt(root)] = need
      /\ cur \notin blocks /\ root # cur
  <2>1. \A p \in Objects \ {cur} : mem'[CapacityAt(p)] = mem[CapacityAt(p)]
    BY <1>4, UpperWords, UntouchedIs DEF Capacity
  <2>2. cur \notin blocks
    BY <1>1, <1>4 DEF Geometry
  <2> QED BY <2>1, <2>2, UpperWords
<1>6. RowOf(FreeBlocks)' = (RowOf(FreeBlocks) \ {b}) \cup {lo}
  <2> HIDE DEF root, lower, need
  <2>1. RowOf(FreeBlocks)' = {[root |-> p, cap |-> mem'[CapacityAt(p)]] : p \in FreeBlocks}
    BY <1>4 DEF RowOf, Capacity
  <2> QED BY <1>1, <1>5, <2>1 DEF RowOf, Capacity, Objects
<1>7. RowOf(blocks)' = RowOf(blocks) \cup {hi}
  <2> HIDE DEF root, lower, need
  <2>1. RowOf(blocks)' = {[root |-> p, cap |-> mem'[CapacityAt(p)]] : p \in blocks \cup {root}}
    BY <1>3 DEF RowOf, Capacity
  <2> QED BY <1>1, <1>5, <2>1 DEF RowOf, Capacity, Objects
<1>8. b \in RowOf(FreeBlocks)
  BY <1>1 DEF RowOf
<1>9. lo = Row!Block(b.root, b.cap - need - Header) /\ hi = Row!Block(b.root + b.cap - need, need)
  BY DEF Row!Block, Header
<1> HIDE DEF b, lo, hi
<1> QED BY <1>1, <1>2, <1>3, <1>6, <1>7, <1>8, <1>9 DEF Row!Next, Row!AllocateUpper, Needs

\* The required pages are within the declared ones exactly when memory has room.
LEMMA Room4New ==
  ASSUME TypeOK, NEW need \in Nat \ {0}, alloc.need = need
  PROVE  /\ NewTop \in Nat /\ NewTop = top + 6 + need /\ RequiredPages \in Nat
         /\ RequiredPages <= MaxPages <=> NewTop <= Limit
         /\ NewTop <= RequiredPages * PageWords
<1>1. top \in Nat /\ MaxPages \in Nat /\ PageWords \in Nat \ {0} /\ pages \in Nat
  BY HeapAssumption DEF TypeOK
<1>2. NewTop \in Nat \ {0} /\ NewTop = top + 6 + need
  <2>1. NewTop = top + 6 + need
    BY DEF NewTop, Header
  <2> QED BY <1>1, <2>1
<1>3. RequiredPages = (NewTop - 1) \div PageWords + 1
  BY DEF RequiredPages
<1>4. /\ RequiredPages \in Nat /\ NewTop <= RequiredPages * PageWords
      /\ NewTop <= MaxPages * PageWords <=> RequiredPages <= MaxPages
  BY <1>1, <1>2, <1>3, PagesHold
<1> QED BY <1>2, <1>4 DEF Limit

\* A block at the top is written above every object.
LEMMA BumpWords ==
  ASSUME HeapInv, Bump
  PROVE  /\ mem' \in Memories
         /\ \A p \in Objects : Untouched(p)
         /\ NewObject(top + 6) /\ mem'[CapacityAt(top + 6)] = alloc.need
         /\ top + 6 \notin Objects
         /\ alloc.need \in Needs /\ alloc.need \in Nat \ {0}
         /\ NewTop = top + 6 + alloc.need /\ NewTop <= Limit
<1> DEFINE need == alloc.need
           root == top + 6
<1>1. TypeOK /\ Geometry /\ mem \in Memories
  BY RowGeometry DEF HeapInv, TypeOK, Memories
<1>2. pc = "search" /\ RequiredPages <= MaxPages /\ mem' = HeaderWritten(mem, root, need)
  BY DEF Bump, Header
<1>3. need \in Needs /\ need \in Nat \ {0}
  <2>1. need \in Needs
    BY <1>2 DEF HeapInv, FreshOK, Needs
  <2> QED BY <2>1, NeedsPositive
<1>4. NewTop = root + need /\ NewTop <= Limit
  BY <1>1, <1>2, <1>3, Room4New
<1>5. top \in Nat /\ Base <= top /\ root \in Nat
  BY <1>1, Sizes DEF Geometry
<1>6. /\ mem' \in Memories
      /\ \A a \in Addresses :
            /\ a = root - 6 => mem'[a] = Magic
            /\ a = root - 5 => mem'[a] = 1
            /\ a = root - 4 => mem'[a] = need
            /\ a = root - 3 => mem'[a] = 2
            /\ a = root - 1 => mem'[a] = 0
            /\ a < root - 6 \/ root <= a => mem'[a] = mem[a]
  <2>1. need \in Nat /\ root \in Nat
    BY <1>3, <1>5
  <2> HIDE DEF root, need
  <2>2. \A x, p, c : x \in Memories /\ p \in Nat /\ c \in Nat => HeaderAt(x, p, c)
    BY HeaderIs DEF HeaderAt
  <2>3. HeaderAt(mem, root, need)
    BY <1>1, <2>1, <2>2, Zenon
  <2> QED BY <1>2, <2>3 DEF HeaderAt
<1>7. ASSUME NEW p \in Objects PROVE Untouched(p)
  <2> SUFFICES ASSUME NEW a \in (p - 6)..(p + Capacity(p) - 1) PROVE mem'[a] = mem[a]
    BY DEF Untouched
  <2>1. a \in Addresses /\ p + Capacity(p) <= top /\ p \in Nat /\ Capacity(p) \in Nat
    BY <1>1, InMemory
  <2>2. a < root - 6
    BY <1>5, <2>1, Sizes
  <2> QED BY <1>6, <2>1, <2>2
<1>8. /\ root \in Addresses \ {0}
      /\ mem'[root - 6] = Magic /\ mem'[root - 5] = 1 /\ mem'[root - 4] = need
      /\ mem'[root - 3] = 2 /\ mem'[root - 1] = 0
  <2>1. \A a \in {root - 6, root - 5, root - 4, root - 3, root - 1, root} : a \in Addresses
    BY <1>3, <1>4, <1>5, Sizes
  <2>2. root # 0
    BY <1>5
  <2> HIDE DEF root, need
  <2> QED BY <1>6, <2>1, <2>2
<1>9. root \notin Objects
  <2> SUFFICES ASSUME root \in Objects PROVE FALSE
    OBVIOUS
  <2>1. root + Capacity(root) <= top /\ Capacity(root) \in Nat
    BY <1>1, InMemory
  <2> QED BY <1>5, <2>1
<1>10. NewObject(root)
  <2> HIDE DEF root
  <2> QED BY <1>3, <1>8, <1>9
          DEF NewObject, Objects, MagicAt, CountAt, KindAt, MaskAt, CapacityAt
<1> QED BY <1>3, <1>4, <1>6, <1>7, <1>8, <1>9, <1>10 DEF CapacityAt

\* A block at the top leaves the list as it was.
LEMMA BumpList ==
  ASSUME HeapInv, Bump
  PROVE  FreeBlocks' = FreeBlocks /\ IsChain(mem', head', FreeBlocks')
<1>1. Geometry /\ TypeOK /\ IsChain(mem, head, FreeBlocks)
  BY RowGeometry DEF HeapInv, ListOK
<1>2. FreeBlocks \subseteq Objects
  BY DEF Objects
<1>3. \A p \in FreeBlocks : mem'[LinkAt(p)] = mem[LinkAt(p)]
  BY <1>1, <1>2, BumpWords, UntouchedIs
<1>4. IsChain(mem', head', FreeBlocks)
  BY <1>1, <1>3, ChainSame DEF Bump
<1> QED BY <1>1, <1>2, <1>4, ListAfter

\* The row grows, and only when no free block fits.
LEMMA BumpRow ==
  ASSUME HeapInv, Bump
  PROVE  Row!Next
<1> DEFINE need == alloc.need
           root == top + 6
           hi == [root |-> root, cap |-> need]
<1>1. /\ top' = NewTop /\ blocks' = blocks \cup {root} /\ pc = "search" /\ alloc.current = 0
  BY DEF Bump, ReturnRoot, Header
<1>2. FreeBlocks' = FreeBlocks /\ Geometry /\ TypeOK
  BY BumpList, RowGeometry DEF HeapInv
<1>3. /\ \A p \in Objects : mem'[CapacityAt(p)] = mem[CapacityAt(p)]
      /\ mem'[CapacityAt(root)] = need
      /\ root \notin blocks
  BY <1>2, BumpWords, UntouchedIs DEF Capacity, Objects
<1>4. RowOf(FreeBlocks)' = RowOf(FreeBlocks)
  BY <1>2, <1>3 DEF RowOf, Capacity, Objects
<1>5. RowOf(blocks)' = RowOf(blocks) \cup {hi}
  <2> HIDE DEF root, need
  <2>1. RowOf(blocks)' = {[root |-> p, cap |-> mem'[CapacityAt(p)]] : p \in blocks \cup {root}}
    BY <1>1 DEF RowOf, Capacity
  <2> QED BY <1>3, <2>1 DEF RowOf, Capacity, Objects
<1>6. ASSUME NEW c \in RowOf(FreeBlocks), need <= c.cap PROVE FALSE
  <2>1. PICK p \in FreeBlocks : c = [root |-> p, cap |-> Capacity(p)]
    BY DEF RowOf
  <2>2. p \in Nat /\ p # 0 /\ Capacity(p) \in Nat
    BY <1>2, InMemory DEF Objects
  <2>3. /\ Follows(FreeBlocks, alloc.previous, 0)
        /\ \A q \in FreeBlocks : q <= alloc.previous => Capacity(q) < need
    BY <1>1 DEF HeapInv, ListOK, Walks
  <2>4. 0 \notin FreeBlocks
    BY <1>2, InMemory DEF Objects
  <2>5. p <= alloc.previous
    BY <2>3, <2>4 DEF Follows
  <2>6. Capacity(p) < need /\ need \in Nat
    BY <2>3, <2>5, BumpWords
  <2> QED BY <1>6, <2>1, <2>2, <2>6
<1>7. Row!Fitting(need) = {}
  <2> HIDE DEF need
  <2> QED BY <1>6 DEF Row!Fitting
<1>8. hi = Row!Block(top + Header, need)
  BY DEF Row!Block, Header
<1>9. /\ need \in Needs /\ top + Header + need <= Limit
      /\ top' = top + Header + need
  BY <1>1, BumpWords DEF Header
<1> HIDE DEF hi, need
<1> QED BY <1>4, <1>5, <1>7, <1>8, <1>9
        DEF Row!Next, Row!AllocateTop, Needs, Limit

-----------------------------------------------------------------------------
(* The row keeps what BlockList_proofs shows of it. *)

\* The row's constants satisfy what BlockList assumes of them.
LEMMA RowAssumption == RP!BlockAssumption
<1>1. Needs \subseteq Nat \ {0}
  BY NeedsPositive
<1> QED BY <1>1, Sizes DEF RP!BlockAssumption, Needs, Header

\* The row here is the row that BlockList_proofs is about.
LEMMA SameRow ==
    /\ RP!Inv <=> RowInv
    /\ [RP!Next]_(RP!vars) <=> [Row!Next]_(Row!vars)
    /\ RP!Init <=> Row!Init
<1>1. RP!Inv <=> RowInv
  BY DEF RowInv, RP!Inv, RP!BlocksIn, Row!BlocksIn, RP!Separate, Row!Separate,
         RP!Tiled, Row!Tiled, RP!Merged, Row!Merged, RP!Blocks, Row!Blocks,
         RP!Apart, Row!Apart, RP!Start, Row!Start, RP!End, Row!End, RP!Block, Row!Block
<1>2. RP!Next <=> Row!Next
  BY DEF RP!Next, Row!Next, RP!AllocateTop, Row!AllocateTop, RP!AllocateWhole,
         Row!AllocateWhole, RP!AllocateUpper, Row!AllocateUpper, RP!Free, Row!Free,
         RP!IsFirstFit, Row!IsFirstFit, RP!Fitting, Row!Fitting, RP!Splits, Row!Splits,
         RP!Below, Row!Below, RP!Above, Row!Above, RP!First, Row!First, RP!Last, Row!Last,
         RP!Start, Row!Start, RP!End, Row!End, RP!Block, Row!Block
<1>3. RP!vars = Row!vars /\ (UNCHANGED RP!vars <=> UNCHANGED Row!vars)
  BY DEF RP!vars, Row!vars
<1>4. RP!Init <=> Row!Init
  BY DEF RP!Init, Row!Init
<1> QED BY <1>1, <1>2, <1>3, <1>4

\* A step of the row keeps the row in order.
LEMMA RowKept ==
  ASSUME RowInv, [Row!Next]_(Row!vars)
  PROVE  RowInv'
<1>1. RP!Inv /\ [RP!Next]_(RP!vars)
  BY SameRow
<1>2. RP!Inv'
  BY <1>1, RowAssumption, RP!StepInv
<1>3. RP!Inv' <=> RowInv'
  BY DEF RowInv, RP!Inv, RP!BlocksIn, Row!BlocksIn, RP!Separate, Row!Separate,
         RP!Tiled, Row!Tiled, RP!Merged, Row!Merged, RP!Blocks, Row!Blocks,
         RP!Apart, Row!Apart, RP!Start, Row!Start, RP!End, Row!End, RP!Block, Row!Block
<1> QED BY <1>2, <1>3

\* A step that leaves the list, the objects' capacities and the top leaves the row.
LEMMA RowStays ==
  ASSUME top' = top, FreeBlocks' = FreeBlocks, blocks' = blocks,
         \A p \in Objects : mem'[CapacityAt(p)] = mem[CapacityAt(p)]
  PROVE  UNCHANGED Row!vars
<1>1. RowOf(FreeBlocks)' = RowOf(FreeBlocks)
  BY DEF RowOf, Capacity, Objects
<1>2. RowOf(blocks)' = RowOf(blocks)
  BY DEF RowOf, Capacity, Objects
<1> QED BY <1>1, <1>2 DEF Row!vars

-----------------------------------------------------------------------------
(* alloc: its steps keep the invariant. *)

\* The list's links stay in memory.
LEMMA ListIn ==
  ASSUME TypeOK, Geometry, ListOK
  PROVE  /\ FreeBlocks \subseteq Addresses /\ FreeBlocks \subseteq Nat \ {0} /\ 0 \in Addresses
         /\ head \in Addresses
         /\ \A p \in FreeBlocks : Link(p) \in Addresses /\ Follows(FreeBlocks, p, Link(p))
<1>1. FreeBlocks \subseteq Addresses /\ FreeBlocks \subseteq Nat \ {0}
  BY InMemory DEF Objects
<1>2. 0 \in Addresses /\ head \in Addresses
  BY Sizes DEF TypeOK
<1>3. ASSUME NEW p \in FreeBlocks PROVE Link(p) \in Addresses /\ Follows(FreeBlocks, p, Link(p))
  <2>1. Follows(FreeBlocks, p, Link(p))
    BY DEF ListOK, IsChain, Link
  <2>2. Link(p) = 0 \/ Link(p) \in FreeBlocks
    BY <2>1 DEF Follows
  <2> QED BY <1>1, <1>2, <2>1, <2>2
<1> QED BY <1>1, <1>2, <1>3

\* A return of alloc with a list and a row that are in order.
LEMMA ReturnInv ==
  ASSUME HeapInv, pc = "search", NEW r, NewObject(r), ReturnRoot(r),
         \A p \in blocks : Untouched(p),
         mem' \in Memories, pages' \in 0..MaxPages, top' \in Base..(pages' * PageWords),
         head' \in Addresses, IsChain(mem', head', FreeBlocks'), Row!Next
  PROVE  HeapInv'
<1>1. TypeOK /\ FreshOK
  BY DEF HeapInv
<1>2. /\ pc' = alloc.then /\ alloc' = [NoAlloc EXCEPT !.root = r] /\ blocks' = blocks \cup {r}
      /\ allocs' = (allocs + 1) % Counts
      /\ UNCHANGED <<frees, release, copy, args, owned>>
  BY DEF ReturnRoot
<1>3. alloc.then \in {"array", "record", "header", "copyRoot", "copyChild"}
  BY <1>1 DEF FreshOK, TypeOK
<1>4. TypeOK'
  <2>1. allocs' \in 0..(Counts - 1)
    <3>1. Counts \in Nat \ {0} /\ allocs + 1 \in Nat
      BY <1>1, Sizes DEF TypeOK
    <3>2. \A a \in Nat, c \in Nat \ {0} : a % c \in 0..(c - 1)
      OBVIOUS
    <3> QED BY <1>2, <3>1, <3>2
  <2>2. 0 \in Addresses
    BY Sizes
  <2>3. r \in Addresses \ {0}
    BY DEF NewObject
  <2>4. alloc' \in [need : Nat, previous : Addresses, current : Addresses, root : Addresses,
                    then : {"program", "array", "record", "header", "copyRoot", "copyChild"}]
    BY <1>2, <2>2, <2>3 DEF NoAlloc
  <2>5. mem' \in [Addresses -> Nat]
    BY DEF Memories
  <2>6. owned' \subseteq blocks' /\ blocks' \subseteq Addresses \ {0}
    BY <1>1, <1>2, <2>3 DEF TypeOK
  <2>7. /\ frees' \in 0..(Counts - 1)
        /\ release' \in [pending : Addresses, object : Addresses, slot : Nat,
                         previous : Addresses, current : Addresses]
        /\ copy' \in [source : Addresses, result : Addresses, current : Addresses]
        /\ \A i \in DOMAIN args' : args'[i] \in Nat
    BY <1>1, <1>2 DEF TypeOK
  <2> QED BY <1>2, <1>3, <2>1, <2>4, <2>5, <2>6, <2>7 DEF TypeOK
<1>5. RowInv'
  BY RowKept DEF HeapInv
<1>6. ListOK'
  BY <1>2, <1>3 DEF ListOK
<1> QED BY <1>4, <1>5, <1>6, ReturnKeeps DEF HeapInv

\* Taking a block whole keeps the invariant and is a step of the row.
LEMMA WholeInv == HeapInv /\ TakeWhole => HeapInv' /\ Row!Next
<1> SUFFICES ASSUME HeapInv, TakeWhole PROVE HeapInv' /\ Row!Next
  OBVIOUS
<1>1. TypeOK /\ Geometry /\ ListOK
  BY RowGeometry DEF HeapInv
<1>2. pc = "search" /\ ReturnRoot(alloc.current) /\ pages' = pages /\ top' = top
  BY DEF TakeWhole, Searching
<1>3. \A p \in blocks : Untouched(p)
  <2> SUFFICES ASSUME NEW p \in blocks PROVE Untouched(p)
    OBVIOUS
  <2>1. p \in Objects /\ p \notin FreeBlocks /\ p # 0
    BY <1>1 DEF Objects, Geometry, TypeOK
  <2>2. alloc.previous \in FreeBlocks \cup {0} /\ alloc.current \in FreeBlocks
    BY <1>1, <1>2, WholeWords DEF ListOK, Walks
  <2> QED BY <2>1, <2>2, WholeWords
<1>4. head' \in Addresses
  BY <1>1, WholeWords, ListIn DEF TakeWhole, HeadAfter
<1>5. pages' \in 0..MaxPages /\ top' \in Base..(pages' * PageWords)
  BY <1>1, <1>2 DEF TypeOK
<1> QED BY <1>2, <1>3, <1>4, <1>5, WholeWords, WholeList, WholeRow, ReturnInv

\* Taking a block's upper end keeps the invariant and is a step of the row.
LEMMA UpperInv == HeapInv /\ TakeUpper => HeapInv' /\ Row!Next
<1> SUFFICES ASSUME HeapInv, TakeUpper PROVE HeapInv' /\ Row!Next
  OBVIOUS
<1>1. TypeOK /\ Geometry /\ ListOK
  BY RowGeometry DEF HeapInv
<1>2. PICK r : r = alloc.current + Capacity(alloc.current) - alloc.need
  OBVIOUS
<1>3. /\ pc = "search" /\ ReturnRoot(r) /\ pages' = pages /\ top' = top /\ head' = head
  BY <1>2 DEF TakeUpper, Searching
<1>4. \A p \in blocks : Untouched(p)
  BY <1>1, UpperWords DEF Objects, Geometry
<1>5. NewObject(r) /\ mem' \in Memories
  BY <1>2, UpperWords
<1>6. /\ pages' \in 0..MaxPages /\ top' \in Base..(pages' * PageWords)
      /\ head' \in Addresses
  BY <1>1, <1>3 DEF TypeOK
<1> QED BY <1>3, <1>4, <1>5, <1>6, UpperList, UpperRow, ReturnInv

\* Growing the heap keeps the invariant and is a step of the row.
LEMMA BumpInv == HeapInv /\ Bump => HeapInv' /\ Row!Next
<1> SUFFICES ASSUME HeapInv, Bump PROVE HeapInv' /\ Row!Next
  OBVIOUS
<1>1. TypeOK /\ Geometry
  BY RowGeometry DEF HeapInv
<1>2. PICK r : r = top + 6
  OBVIOUS
<1>3. /\ pc = "search" /\ ReturnRoot(r) /\ head' = head /\ top' = NewTop
      /\ pages' = Max2(pages, RequiredPages) /\ RequiredPages <= MaxPages
  BY <1>2 DEF Bump, Header
<1>4. /\ \A p \in blocks : Untouched(p)
      /\ NewObject(r) /\ mem' \in Memories
  BY <1>2, BumpWords DEF Objects
<1>5. PICK need : need = alloc.need /\ need \in Nat \ {0}
  BY BumpWords
<1>6. NewTop \in Nat /\ NewTop = top + 6 + need /\ RequiredPages \in Nat
      /\ NewTop <= RequiredPages * PageWords
  BY <1>1, <1>5, Room4New
<1>7. /\ pages' \in 0..MaxPages /\ pages' \in Nat /\ RequiredPages <= pages'
  BY <1>1, <1>3, <1>6, HeapAssumption DEF TypeOK, Max2
<1>8. PageWords \in Nat /\ top \in Nat /\ Base \in Nat /\ Base <= top
  BY <1>1, HeapAssumption DEF TypeOK
<1>9. RequiredPages * PageWords <= pages' * PageWords
  <2>1. \A a, b, c \in Nat : a <= b => a * c <= b * c
    OBVIOUS
  <2> QED BY <1>6, <1>7, <1>8, <2>1
<1>10. top' \in Base..(pages' * PageWords)
  <2>1. pages' * PageWords \in Nat /\ RequiredPages * PageWords \in Nat
    <3>1. \A a, b \in Nat : a * b \in Nat
      OBVIOUS
    <3> QED BY <1>6, <1>7, <1>8, <3>1
  <2> QED BY <1>3, <1>5, <1>6, <1>8, <1>9, <2>1
<1>11. head' \in Addresses
  BY <1>1, <1>3 DEF TypeOK
<1> QED BY <1>3, <1>4, <1>7, <1>10, <1>11, BumpList, BumpRow, ReturnInv

-----------------------------------------------------------------------------
(* A step that leaves the list and the row alone. *)

\* A step writes only within the block at x.
OnlyIn(x) == \A a \in Addresses : a \notin (x - 6)..(x + Capacity(x) - 1) => mem'[a] = mem[a]

\* A step that writes within one object leaves the others alone.
LEMMA OthersUntouched ==
  ASSUME TypeOK, Geometry, NEW x \in Objects, OnlyIn(x)
  PROVE  \A p \in Objects \ {x} : Untouched(p)
<1> SUFFICES ASSUME NEW p \in Objects \ {x}, NEW a \in (p - 6)..(p + Capacity(p) - 1)
             PROVE  mem'[a] = mem[a]
  BY DEF Untouched
<1>1. a \in Addresses
  BY InMemory
<1>2. a < x - 6 \/ x + Capacity(x) <= a
  BY Distinct
<1>3. x \in Nat /\ Capacity(x) \in Nat /\ a \in Nat
  BY <1>1, InMemory, Sizes
<1>4. a \notin (x - 6)..(x + Capacity(x) - 1)
  BY <1>2, <1>3
<1> QED BY <1>1, <1>4 DEF OnlyIn

\* A step writes only within the objects X, and no capacity.
Quiet(X) ==
    /\ X \subseteq blocks
    /\ mem' \in Memories
    /\ \A p \in Objects \ X : Untouched(p)
    /\ \A p \in X : mem'[CapacityAt(p)] = mem[CapacityAt(p)]
    /\ UNCHANGED <<pages, top, head, blocks>>

\* A step that writes within objects of the program leaves the list and the row.
LEMMA QuietKeeps ==
  ASSUME HeapInv, NEW X, Quiet(X)
  PROVE  /\ FreeBlocks' = FreeBlocks /\ IsChain(mem', head', FreeBlocks')
         /\ RowInv' /\ UNCHANGED Row!vars /\ [Row!Next]_(Row!vars)
         /\ \A p \in Objects : Capacity(p)' = Capacity(p)
<1>1. TypeOK /\ Geometry /\ ListOK /\ RowInv
  BY RowGeometry DEF HeapInv
<1>2. FreeBlocks \subseteq Objects /\ blocks \subseteq Objects /\ FreeBlocks \cap blocks = {}
  BY <1>1 DEF Objects, Geometry
<1>3. \A p \in FreeBlocks : mem'[LinkAt(p)] = mem[LinkAt(p)]
  BY <1>1, <1>2, UntouchedIs DEF Quiet
<1>4. IsChain(mem', head', FreeBlocks)
  BY <1>1, <1>3, ChainSame DEF Quiet, ListOK
<1>5. FreeBlocks' = FreeBlocks /\ IsChain(mem', head', FreeBlocks')
  BY <1>1, <1>2, <1>4, ListAfter
<1>6. ASSUME NEW p \in Objects PROVE mem'[CapacityAt(p)] = mem[CapacityAt(p)]
  <2>1. CASE p \in X
    BY <2>1 DEF Quiet
  <2>2. CASE p \notin X
    <3>1. Untouched(p)
      BY <2>2 DEF Quiet
    <3> QED BY <1>1, <3>1, UntouchedIs DEF Capacity
  <2> QED BY <2>1, <2>2
<1>7. UNCHANGED Row!vars
  BY <1>5, <1>6, RowStays DEF Quiet
<1>8. [Row!Next]_(Row!vars)
  BY <1>7
<1>9. RowInv'
  BY <1>1, <1>8, RowKept
<1> QED BY <1>5, <1>6, <1>7, <1>8, <1>9 DEF Capacity

\* A step that writes nothing is quiet.
LEMMA QuietStutter ==
  ASSUME HeapInv, UNCHANGED <<mem, pages, top, head, blocks>>
  PROVE  Quiet({})
BY DEF Quiet, Untouched, HeapInv, TypeOK, Memories

\* The search goes on to the next block, which is the next above.
LEMMA SearchInv == HeapInv /\ SearchOn => HeapInv' /\ [Row!Next]_(Row!vars)
<1> SUFFICES ASSUME HeapInv, SearchOn PROVE HeapInv' /\ [Row!Next]_(Row!vars)
  OBVIOUS
<1>1. TypeOK /\ Geometry /\ ListOK /\ FreshOK
  BY RowGeometry DEF HeapInv
<1>2. PICK cur, nxt : cur = alloc.current /\ nxt = Link(cur)
  OBVIOUS
<1>3. /\ pc = "search" /\ cur # 0 /\ ~(Capacity(cur) >= alloc.need)
      /\ alloc' = [alloc EXCEPT !.previous = cur, !.current = nxt]
      /\ UNCHANGED <<mem, globals, pc, release, copy, args, owned, blocks>>
  BY <1>2 DEF SearchOn, Searching, Fits
<1>4. Quiet({})
  BY <1>3, QuietStutter DEF globals
<1>5. FreeBlocks' = FreeBlocks /\ IsChain(mem', head', FreeBlocks') /\ RowInv'
      /\ [Row!Next]_(Row!vars)
  BY <1>4, QuietKeeps
<1>6. cur \in FreeBlocks /\ Follows(FreeBlocks, alloc.previous, cur)
      /\ \A p \in FreeBlocks : p <= alloc.previous => Capacity(p) < alloc.need
  BY <1>1, <1>2, <1>3 DEF ListOK, Walks, Follows
<1>7. cur \in Addresses /\ nxt \in Addresses /\ Follows(FreeBlocks, cur, nxt)
  BY <1>1, <1>2, <1>6, ListIn
<1>8. /\ alloc'.previous = cur /\ alloc'.current = nxt
      /\ alloc'.need = alloc.need /\ alloc'.then = alloc.then
      /\ alloc' \in [need : Nat, previous : Addresses, current : Addresses, root : Addresses,
                     then : {"program", "array", "record", "header", "copyRoot", "copyChild"}]
  BY <1>1, <1>3, <1>7 DEF TypeOK
<1>9. TypeOK'
  BY <1>1, <1>3, <1>8 DEF TypeOK, globals
<1>10. ListOK'
  <2>1. ASSUME NEW p \in FreeBlocks, p <= cur PROVE Capacity(p) < alloc.need
    <3>1. p \in Nat /\ cur \in Nat /\ Capacity(p) \in Nat /\ Capacity(cur) \in Nat /\ alloc.need \in Nat
      BY <1>1, <1>6, InMemory DEF Objects, TypeOK
    <3>2. CASE p = cur
      BY <1>3, <3>1, <3>2
    <3>3. CASE p # cur
      <4>1. p <= alloc.previous
        BY <1>6, <2>1, <3>1, <3>3 DEF Follows
      <4> QED BY <1>6, <4>1
    <3> QED BY <3>2, <3>3
  <2>2. \A p \in FreeBlocks' : p <= alloc'.previous => Capacity(p)' < alloc'.need
    BY <1>3, <1>5, <1>8, <2>1 DEF Capacity
  <2>3. Walks(alloc.previous, alloc.current)'
    BY <1>5, <1>6, <1>7, <1>8 DEF Walks
  <2> QED BY <1>3, <1>5, <2>2, <2>3 DEF ListOK
<1>11. /\ Stage' = Stage /\ Fresh' = Fresh /\ Falling' = Falling /\ Room' = Room
       /\ (InRelease' <=> InRelease) /\ (InCopy' <=> InCopy)
  BY <1>3, <1>8 DEF Stage, Fresh, Falling, InRelease, InCopy, Room
<1>12. FreshOK'
  <2>1. Fields' = Fields
    BY <1>3 DEF Fields, Records, IsRecord, ChildSlots, Bit
  <2> QED BY <1>1, <1>3, <1>8, <1>11, <2>1 DEF FreshOK
<1>13. PICK kept \in SUBSET blocks, work \in SUBSET blocks : Ownership(kept, work)
  BY DEF HeapInv
<1>14. PartsOK(kept, work)'
  BY <1>3, <1>11, <1>13 DEF Ownership, PartsOK, Kept, Whole, Shaped, Capacity, IsRecord
<1>15. ChildrenOK(kept, work)'
  BY <1>3, <1>11, <1>13 DEF Ownership, ChildrenOK, Holds, IsRecord, NextSlot, ChildSlots, Bit
<1>16. ReleaseOK(work)'
  BY <1>3, <1>11, <1>13 DEF Ownership, ReleaseOK, Shaped, Capacity, Linked
<1>17. CopyOK(kept, work)'
  BY <1>3, <1>11, <1>13, ChildSlotsSame
     DEF Ownership, CopyOK, Source, Begins, IsRecord, Capacity, NextSlot, Linked
<1>18. NoneLost(kept, work)'
  <2>1. NoneLost(kept, work) /\ pc # "trapped"
    BY <1>3, <1>13 DEF Ownership
  <2>2. ChildSlots' = ChildSlots /\ \A p, i : Holds(kept, work, p, i) => Holds(kept, work, p, i)'
    BY <1>3, <1>11 DEF Holds, IsRecord, NextSlot, ChildSlots, Bit
  <2>3. Grounded(kept, work)'
    BY <1>3, <2>1, <2>2 DEF NoneLost, Grounded
  <2> QED BY <1>3, <1>11, <2>1, <2>3 DEF NoneLost
<1> QED BY <1>3, <1>5, <1>9, <1>10, <1>12, <1>13, <1>14, <1>15, <1>16, <1>17, <1>18 DEF HeapInv, Ownership

\* A trap ends what the program had under way.
LEMMA NoMemoryInv == HeapInv /\ NoMemory => HeapInv' /\ [Row!Next]_(Row!vars)
<1> SUFFICES ASSUME HeapInv, NoMemory PROVE HeapInv' /\ [Row!Next]_(Row!vars)
  OBVIOUS
<1>1. TypeOK /\ Geometry /\ ListOK /\ FreshOK
  BY RowGeometry DEF HeapInv
<1>2. /\ pc = "search" /\ pc' = "trapped"
      /\ UNCHANGED <<mem, globals, alloc, release, copy, args, owned, blocks>>
  BY DEF NoMemory, Trap
<1>3. Quiet({})
  BY <1>2, QuietStutter DEF globals
<1>4. FreeBlocks' = FreeBlocks /\ IsChain(mem', head', FreeBlocks') /\ RowInv'
      /\ [Row!Next]_(Row!vars)
  BY <1>3, QuietKeeps
<1>5. TypeOK'
  BY <1>1, <1>2 DEF TypeOK, globals
<1>6. ListOK'
  BY <1>2, <1>4 DEF ListOK
<1>7. /\ Stage' = "trapped" /\ Fresh' = {} /\ Falling' = {} /\ ~InRelease' /\ ~InCopy' /\ ~InRelease
  BY <1>2 DEF Stage, Fresh, Falling, InRelease, InCopy
<1>8. FreshOK'
  BY <1>2, <1>7 DEF FreshOK
<1>9. PICK kept \in SUBSET blocks, work \in SUBSET blocks : Ownership(kept, work)
  BY DEF HeapInv
<1>10. PartsOK(kept, {})'
  BY <1>2, <1>7, <1>9 DEF Ownership, PartsOK, Kept, Whole, Shaped, Capacity, IsRecord
<1>11. ChildrenOK(kept, {})'
  <2>1. \A p, i : Holds(kept, {}, p, i)' => Holds(kept, work, p, i)
    BY <1>2, <1>7 DEF Holds, IsRecord, ChildSlots, Bit
  <2> QED BY <1>2, <1>9, <2>1 DEF Ownership, ChildrenOK, ChildSlots, Bit
<1>12. ReleaseOK({})'
  BY <1>2, <1>7, <1>9 DEF Ownership, ReleaseOK
<1>13. CopyOK(kept, {})'
  BY <1>7 DEF CopyOK
<1>14. NoneLost(kept, {})'
  BY <1>2 DEF NoneLost
<1> QED BY <1>2, <1>4, <1>5, <1>6, <1>8, <1>9, <1>10, <1>11, <1>12, <1>13, <1>14 DEF HeapInv, Ownership

-----------------------------------------------------------------------------
(* release: its steps up to the free list keep the invariant. *)

\* A write of an object's count.
LEMMA CountWritten ==
  ASSUME HeapInv, NEW x \in blocks, NEW w \in Nat, mem' = Write(mem, CountAt(x), w),
         UNCHANGED <<pages, top, head, blocks>>
  PROVE  /\ Quiet({x}) /\ mem'[CountAt(x)] = w
         /\ mem'[MagicAt(x)] = mem[MagicAt(x)] /\ mem'[KindAt(x)] = mem[KindAt(x)]
         /\ mem'[WidthAt(x)] = mem[WidthAt(x)] /\ mem'[MaskAt(x)] = mem[MaskAt(x)]
         /\ \A i \in Nat : i < Capacity(x) => mem'[x + i] = mem[x + i]
         /\ IsRecord(x)' <=> IsRecord(x)
         /\ Shaped(x)' <=> Shaped(x)
<1>1. TypeOK /\ Geometry /\ x \in Objects
  BY RowGeometry DEF HeapInv, Objects
<1>2. /\ x \in Nat \ {0} /\ Capacity(x) \in Nat \ {0}
      /\ \A a \in (x - 6)..(x + Capacity(x) - 1) : a \in Addresses
  BY <1>1, InMemory
<1>3. mem' \in Memories /\ \A a \in Addresses : mem'[a] = IF a = x - 5 THEN w ELSE mem[a]
  BY <1>1, WriteIs DEF TypeOK, Memories, CountAt
<1>4. OnlyIn(x)
  <2>1. x - 5 \in (x - 6)..(x + Capacity(x) - 1)
    BY <1>2
  <2> QED BY <1>3, <2>1 DEF OnlyIn
<1>5. \A a \in {x - 6, x - 5, x - 4, x - 3, x - 2, x - 1} : a \in Addresses
  <2>1. \A a \in {x - 6, x - 5, x - 4, x - 3, x - 2, x - 1} : a \in (x - 6)..(x + Capacity(x) - 1)
    BY <1>2
  <2> QED BY <1>2, <2>1
<1>6. /\ mem'[x - 5] = w /\ mem'[x - 6] = mem[x - 6] /\ mem'[x - 4] = mem[x - 4]
      /\ mem'[x - 3] = mem[x - 3] /\ mem'[x - 2] = mem[x - 2] /\ mem'[x - 1] = mem[x - 1]
  BY <1>2, <1>3, <1>5
<1>7. Quiet({x})
  BY <1>1, <1>3, <1>4, <1>6, OthersUntouched DEF Quiet, CapacityAt
<1>8. ASSUME NEW i \in Nat, i < Capacity(x) PROVE mem'[x + i] = mem[x + i]
  <2>1. x + i \in (x - 6)..(x + Capacity(x) - 1) /\ x + i # x - 5
    BY <1>2, <1>8
  <2> QED BY <1>2, <1>3, <2>1
<1>9. /\ IsRecord(x)' <=> IsRecord(x)
      /\ Shaped(x)' <=> Shaped(x)
  BY <1>6 DEF IsRecord, Shaped, Capacity, CapacityAt, KindAt, WidthAt, MaskAt
<1> QED BY <1>6, <1>7, <1>8, <1>9 DEF MagicAt, CountAt, KindAt, WidthAt, MaskAt

\* A child's slot is the number of a slot.
LEMMA SlotTypes == \A i \in ChildSlots : i \in Nat /\ i < Width /\ i \in Int
BY Sizes

\* A program's release is never refused: what it owns is whole.
LEMMA ReleaseInv ==
  ASSUME HeapInv, NEW ptr \in owned, Release(ptr)
  PROVE  HeapInv' /\ [Row!Next]_(Row!vars) /\ pc' # "trapped"
<1>1. TypeOK /\ Geometry /\ ListOK /\ FreshOK
  BY RowGeometry DEF HeapInv
<1>2. PICK kept \in SUBSET blocks, work \in SUBSET blocks : Ownership(kept, work)
  BY DEF HeapInv
<1>3. PartsOK(kept, work) /\ ChildrenOK(kept, work) /\ ReleaseOK(work) /\ CopyOK(kept, work)
  BY <1>2 DEF Ownership
<1>4. pc = "program" /\ Stage = "program" /\ ~InRelease /\ ~InCopy
  BY DEF Release, CallRelease, Stage, InRelease, InCopy
<1>5. ptr \in kept /\ ptr \in blocks /\ Whole(ptr) /\ release.pending = 0
  BY <1>3, <1>4 DEF PartsOK, Kept, ReleaseOK
<1>6. /\ mem' = Write(mem, CountAt(ptr), 0)
      /\ release' = [release EXCEPT !.pending = ptr]
      /\ pc' = "pending"
      /\ owned' = owned \ {ptr}
      /\ UNCHANGED <<globals, alloc, copy, args, blocks>>
  <2>1. Held(mem, ptr)
    BY <1>5 DEF Whole, Held
  <2> QED BY <1>5, <2>1 DEF Release, CallRelease, Dropped
<1>7. /\ Quiet({ptr}) /\ mem'[CountAt(ptr)] = 0
      /\ \A i \in Nat : i < Capacity(ptr) => mem'[ptr + i] = mem[ptr + i]
      /\ IsRecord(ptr)' <=> IsRecord(ptr)
      /\ Shaped(ptr)' <=> Shaped(ptr)
  <2>1. UNCHANGED <<pages, top, head, blocks>> /\ 0 \in Nat
    BY <1>6 DEF globals
  <2> QED BY <1>5, <1>6, <2>1, CountWritten
<1>8. FreeBlocks' = FreeBlocks /\ IsChain(mem', head', FreeBlocks') /\ RowInv'
      /\ [Row!Next]_(Row!vars)
  BY <1>7, QuietKeeps
<1>9. \A p \in blocks \ {ptr} : p \in Objects /\ Untouched(p)
  BY <1>7 DEF Quiet, Objects
<1>10. TypeOK'
  <2>1. release' \in [pending : Addresses, object : Addresses, slot : Nat,
                      previous : Addresses, current : Addresses]
    BY <1>1, <1>5, <1>6 DEF TypeOK
  <2> QED BY <1>1, <1>6, <1>7, <2>1 DEF TypeOK, globals, Quiet, Memories
<1>11. ListOK'
  BY <1>6, <1>8 DEF ListOK
<1>12. /\ Stage' = "pending" /\ Fresh' = {} /\ Falling' = {} /\ InRelease' /\ ~InCopy'
  BY <1>6 DEF Stage, Fresh, Falling, InRelease, InCopy
<1>13. FreshOK'
  BY <1>6, <1>12 DEF FreshOK
<1> DEFINE kept2 == kept \ {ptr}
<1>14. PartsOK(kept2, {ptr})'
  <2>1. \A p \in kept2 : Kept(p)'
    <3> SUFFICES ASSUME NEW p \in kept2 PROVE Kept(p)'
      OBVIOUS
    <3>1. p \in Objects /\ Untouched(p) /\ Kept(p) /\ (p \in owned => p \in owned')
      BY <1>3, <1>9, <1>6 DEF PartsOK
    <3> QED BY <1>1, <3>1, KeptKeeps
  <2> QED BY <1>3, <1>5, <1>6, <1>12, <2>1 DEF PartsOK
<1>15. ChildrenOK(kept2, {ptr})'
  <2>1. ASSUME NEW p \in blocks', NEW i \in ChildSlots, Holds(kept2, {ptr}, p, i)'
        PROVE  /\ p \in blocks /\ Holds(kept, work, p, i)
               /\ mem'[p + i] = mem[p + i] /\ mem[p + i] \in kept2 \ owned'
    <3>1. p \in kept /\ p \in blocks
      BY <1>5, <1>6, <1>12, <2>1 DEF Holds
    <3>2. IsRecord(p)' /\ (IsRecord(p)' <=> IsRecord(p))
      <4>1. IsRecord(p)'
        BY <1>6, <1>12, <2>1 DEF Holds
      <4> QED BY <1>1, <1>7, <1>9, <3>1, <4>1, UntouchedKeeps
    <3>3. i \in Nat /\ i < Width /\ Width <= Capacity(p)
      BY <1>3, <3>1, <3>2, ShapedRecord, SlotTypes DEF PartsOK, Kept, Whole
    <3>4. i < Capacity(p)
      BY <1>1, <3>1, <3>3, Sizes DEF Geometry, Objects
    <3>5. mem'[p + i] = mem[p + i]
      BY <1>1, <1>7, <1>9, <3>1, <3>3, <3>4, UntouchedIs
    <3>6. Holds(kept, work, p, i)
      BY <2>1, <3>1, <3>2, <3>5 DEF Holds
    <3>7. mem[p + i] \in kept \ owned
      BY <1>3, <3>1, <3>6 DEF ChildrenOK
    <3> QED BY <1>6, <3>1, <3>5, <3>6, <3>7
  <2> HIDE DEF kept2
  <2> QED BY <1>3, <2>1, ChildrenKeep
<1>16. ReleaseOK({ptr})'
  BY <1>5, <1>6, <1>7, <1>12 DEF ReleaseOK, Linked, Whole
<1>17. CopyOK(kept2, {ptr})'
  BY <1>12 DEF CopyOK
<1>18. blocks' = blocks /\ kept2 \in SUBSET blocks /\ {ptr} \in SUBSET blocks
  BY <1>5, <1>6
<1>19. NoneLost(kept2, {ptr})'
  <2>1. /\ NoneLost(kept, work) /\ pc # "trapped" /\ pc # "drop"
        /\ work = {} /\ Fresh = {} /\ Falling = {}
    BY <1>2, <1>3, <1>4 DEF Ownership, ReleaseOK, Fresh, Falling
  <2>2. PICK own : own = owned' /\ own = owned \ {ptr}
    BY <1>6
  <2>3. SlotsStay(kept, work, kept2, {ptr}, kept2 \ own)
    <3> SUFFICES ASSUME NEW p \in blocks, NEW i \in ChildSlots, Holds(kept, work, p, i)
                 PROVE  p \in blocks' /\ Holds(kept2, {ptr}, p, i)' /\ mem'[p + i] = mem[p + i]
      BY DEF SlotsStay
    <3>1. p \in kept /\ IsRecord(p) /\ mem[p + i] # 0
      BY <2>1 DEF Holds
    <3>2. i \in Nat /\ i < Width /\ Width <= Capacity(p)
      BY <1>3, <3>1, ShapedRecord, SlotTypes DEF PartsOK, Kept, Whole
    <3>3. i < Capacity(p)
      BY <1>1, <3>2, Sizes DEF Geometry, Objects
    <3>4. mem'[p + i] = mem[p + i] /\ IsRecord(p)'
      BY <1>1, <1>7, <1>9, <3>1, <3>2, <3>3, UntouchedIs, UntouchedKeeps
    <3> QED BY <1>6, <1>12, <3>1, <3>4, ChildSlotsSame DEF Holds
  <2>4. kept2 \ own \subseteq kept \ owned
    BY <2>2
  <2>5. Reached(mem', {ptr}, ptr)
    BY DEF Reached
  <2>6. blocks' \subseteq kept2 \cup {ptr}
    BY <1>6, <2>1 DEF NoneLost
  <2>7. release'.pending = ptr
    BY <1>1, <1>6 DEF TypeOK
  <2> HIDE DEF kept2
  <2>8. Grounded(kept2, {ptr})'
    BY <2>1, <2>2, <2>3, <2>4, GroundedStays DEF NoneLost
  <2> QED BY <1>12, <2>5, <2>6, <2>7, <2>8 DEF NoneLost
<1> HIDE DEF kept2
<1> QED BY <1>6, <1>8, <1>10, <1>11, <1>13, <1>14, <1>15, <1>16, <1>17, <1>18, <1>19 DEF HeapInv, Ownership


\* The next object of the list is taken from it.
LEMMA TakeInv == HeapInv /\ TakePending => HeapInv' /\ [Row!Next]_(Row!vars)
<1> SUFFICES ASSUME HeapInv, TakePending PROVE HeapInv' /\ [Row!Next]_(Row!vars)
  OBVIOUS
<1>1. TypeOK /\ Geometry /\ ListOK /\ FreshOK
  BY RowGeometry DEF HeapInv
<1>2. PICK kept \in SUBSET blocks, work \in SUBSET blocks : Ownership(kept, work)
  BY DEF HeapInv
<1>3. PartsOK(kept, work) /\ ChildrenOK(kept, work) /\ ReleaseOK(work) /\ CopyOK(kept, work)
  BY <1>2 DEF Ownership
<1>4. PICK p0, p1 : p0 = release.pending /\ p1 = mem[CountAt(p0)]
  OBVIOUS
<1>5. /\ pc = "pending" /\ p0 # 0 /\ pc' = "drop"
      /\ release' = [release EXCEPT !.object = p0, !.pending = p1, !.slot = 0]
      /\ UNCHANGED <<mem, globals, alloc, copy, args, owned, blocks>>
  BY <1>4 DEF TakePending
<1>6. /\ InRelease /\ ~InCopy /\ Stage' = "drop" /\ Fresh' = {} /\ Falling' = {release'.object}
      /\ InRelease' /\ ~InCopy'
  BY <1>5 DEF Stage, Fresh, Falling, InRelease, InCopy
<1>7. p0 \in work /\ Linked(work, p0) /\ p0 \in blocks /\ p0 \notin kept /\ Shaped(p0)
  BY <1>3, <1>4, <1>5, <1>6 DEF ReleaseOK, PartsOK
<1>8. p1 = 0 \/ p1 \in work \ {p0}
  BY <1>4, <1>7 DEF Linked
<1>9. 0 \in Addresses /\ p0 \in Addresses /\ p1 \in Addresses
  <2>1. 0 \in Addresses /\ p0 \in Addresses
    BY <1>1, <1>7, Sizes DEF TypeOK
  <2> QED BY <1>1, <1>8, <2>1 DEF TypeOK
<1>10. /\ release'.object = p0 /\ release'.pending = p1 /\ release'.slot = 0
       /\ release' \in [pending : Addresses, object : Addresses, slot : Nat,
                        previous : Addresses, current : Addresses]
  BY <1>1, <1>5, <1>9 DEF TypeOK
<1>11. Quiet({})
  BY <1>5, QuietStutter DEF globals
<1>12. FreeBlocks' = FreeBlocks /\ IsChain(mem', head', FreeBlocks') /\ RowInv'
       /\ [Row!Next]_(Row!vars)
  BY <1>11, QuietKeeps
<1>13. TypeOK'
  BY <1>1, <1>5, <1>10 DEF TypeOK, globals
<1>14. ListOK'
  BY <1>5, <1>12 DEF ListOK
<1>15. FreshOK'
  BY <1>5, <1>6 DEF FreshOK
<1> DEFINE work2 == work \ {p0}
<1>16. PartsOK(kept, work2)'
  BY <1>3, <1>5, <1>6, <1>7, <1>10 DEF PartsOK, Kept, Whole, Shaped, Capacity, IsRecord
<1>17. ChildrenOK(kept, work2)'
  <2>1. \A p \in blocks' : \A i \in ChildSlots : Holds(kept, work2, p, i)' => Holds(kept, work, p, i)
    BY <1>5, <1>6, <1>7, <1>10 DEF Holds, IsRecord
  <2> HIDE DEF work2
  <2>2. \A p \in blocks' : \A i \in ChildSlots :
            Holds(kept, work2, p, i)' =>
               /\ p \in blocks /\ Holds(kept, work, p, i)
               /\ mem'[p + i] = mem[p + i] /\ mem[p + i] \in kept \ owned'
    BY <1>3, <1>5, <2>1 DEF ChildrenOK
  <2> QED BY <1>3, <2>2, ChildrenKeep
<1>18. ReleaseOK(work2)'
  <2>1. Linked(work2, p1)'
    BY <1>4, <1>5, <1>7, <1>10 DEF Linked
  <2>2. \A p \in work : Shaped(p)'
    BY <1>3, <1>5, <1>6 DEF ReleaseOK, Shaped, Capacity
  <2>3. Shaped(release.object)'
    BY <1>7, <1>10, <2>2 DEF Shaped, Capacity
  <2>4. Linked(work2, release.pending)'
    BY <2>1, <1>10 DEF Linked
  <2> QED BY <1>5, <1>6, <1>8, <1>10, <2>2, <2>3, <2>4 DEF ReleaseOK
<1>19. CopyOK(kept, work2)'
  BY <1>6 DEF CopyOK
<1>20. blocks' = blocks /\ work2 \in SUBSET blocks
  BY <1>5
<1>21. NoneLost(kept, work2)'
  <2>1. NoneLost(kept, work) /\ pc # "trapped" /\ Fresh = {} /\ Falling = {}
    BY <1>2, <1>5 DEF Ownership, Fresh, Falling
  <2>2. PICK own : own = owned' /\ own = owned
    BY <1>5
  <2>3. SlotsStay(kept, work, kept, work2, kept \ own)
    <3> SUFFICES ASSUME NEW p \in blocks, NEW i \in ChildSlots, Holds(kept, work, p, i)
                 PROVE  p \in blocks' /\ Holds(kept, work2, p, i)' /\ mem'[p + i] = mem[p + i]
      BY DEF SlotsStay
    <3>1. IsRecord(p) /\ (p \in kept \/ p \in work2 \/ p = p0) /\ mem[p + i] # 0
      BY <1>5, <1>6 DEF Holds
    <3>2. IsRecord(p)' /\ mem'[p + i] = mem[p + i] /\ 0 <= i
      BY <1>5, <3>1, SlotTypes DEF IsRecord
    <3> QED BY <1>5, <1>6, <1>10, <3>1, <3>2, ChildSlotsSame DEF Holds
  <2>4. Reached(mem, work, p0)
    BY <1>4, <1>6, <2>1 DEF NoneLost
  <2>5. Reached(mem', work2, p1)
    BY <1>4, <1>5, <2>4, ReachedTake
  <2>6. blocks' \subseteq kept \cup work2 \cup {p0}
    BY <1>5, <2>1 DEF NoneLost
  <2> HIDE DEF work2
  <2>7. Grounded(kept, work2)'
    BY <2>1, <2>2, <2>3, GroundedStays DEF NoneLost
  <2> QED BY <1>6, <1>10, <2>5, <2>6, <2>7 DEF NoneLost
<1> HIDE DEF work2
<1> QED BY <1>2, <1>12, <1>13, <1>14, <1>15, <1>16, <1>17, <1>18, <1>19, <1>20, <1>21 DEF HeapInv, Ownership

\* The list is empty, and the program goes on.
LEMMA ReleasedInv == HeapInv /\ Released => HeapInv' /\ [Row!Next]_(Row!vars)
<1> SUFFICES ASSUME HeapInv, Released PROVE HeapInv' /\ [Row!Next]_(Row!vars)
  OBVIOUS
<1>1. TypeOK /\ Geometry /\ ListOK /\ FreshOK
  BY RowGeometry DEF HeapInv
<1>2. PICK kept \in SUBSET blocks, work \in SUBSET blocks : Ownership(kept, work)
  BY DEF HeapInv
<1>3. PartsOK(kept, work) /\ ChildrenOK(kept, work)
  BY <1>2 DEF Ownership
<1>4. /\ pc = "pending" /\ pc' = "program" /\ release' = NoRelease
      /\ UNCHANGED <<mem, globals, alloc, copy, args, owned, blocks>>
  BY DEF Released
<1>5. Stage' = "program" /\ Fresh' = {} /\ Falling' = {} /\ ~InRelease' /\ ~InCopy'
  BY <1>4 DEF Stage, Fresh, Falling, InRelease, InCopy
<1>6. Quiet({})
  BY <1>4, QuietStutter DEF globals
<1>7. FreeBlocks' = FreeBlocks /\ IsChain(mem', head', FreeBlocks') /\ RowInv'
      /\ [Row!Next]_(Row!vars)
  BY <1>6, QuietKeeps
<1>8. TypeOK'
  <2>1. 0 \in Addresses
    BY Sizes
  <2>2. release' \in [pending : Addresses, object : Addresses, slot : Nat,
                      previous : Addresses, current : Addresses]
    BY <1>4, <2>1 DEF NoRelease
  <2> QED BY <1>1, <1>4, <2>2 DEF TypeOK, globals
<1>9. ListOK' /\ FreshOK'
  BY <1>4, <1>5, <1>7 DEF ListOK, FreshOK
<1>10. PartsOK(kept, {})'
  BY <1>3, <1>4, <1>5 DEF PartsOK, Kept, Whole, Shaped, Capacity, IsRecord
<1>11. ChildrenOK(kept, {})'
  <2>1. \A p, i : Holds(kept, {}, p, i)' => Holds(kept, work, p, i)
    BY <1>4, <1>5 DEF Holds, IsRecord, ChildSlots, Bit
  <2> QED BY <1>3, <1>4, <2>1 DEF ChildrenOK, ChildSlots, Bit
<1>12. ReleaseOK({})' /\ CopyOK(kept, {})'
  BY <1>4, <1>5 DEF ReleaseOK, CopyOK, NoRelease
<1>13. blocks' = blocks
  BY <1>4
<1>14. NoneLost(kept, {})'
  <2>1. /\ NoneLost(kept, work) /\ pc # "trapped" /\ InRelease /\ ~InCopy
        /\ Fresh = {} /\ Falling = {} /\ release.pending = 0
    BY <1>2, <1>4 DEF Ownership, Fresh, Falling, InRelease, InCopy, Stage, Released
  <2>2. 0 \notin work
    BY <1>1 DEF TypeOK
  <2>3. work = {}
    BY <2>1, <2>2, ReachedNone DEF NoneLost
  <2>4. \A p, i : Holds(kept, work, p, i) => Holds(kept, {}, p, i)'
    BY <1>4, <2>1, <2>3, ChildSlotsSame DEF Holds, IsRecord
  <2>5. Grounded(kept, {})'
    BY <1>4, <2>1, <2>4, ChildSlotsSame DEF NoneLost, Grounded
  <2> QED BY <1>4, <1>5, <2>1, <2>3, <2>5 DEF NoneLost
<1> QED BY <1>2, <1>7, <1>8, <1>9, <1>10, <1>11, <1>12, <1>13, <1>14 DEF HeapInv, Ownership


\* What release reads as a child of a shaped record.
LEMMA ChildIs ==
  ASSUME NEW p, Shaped(p), IsRecord(p), NEW i \in ChildSlots
  PROVE  Slots(p) = Width /\ Child(p, i) = mem[p + i]
<1>1. mem[KindAt(p)] = 1 /\ mem[WidthAt(p)] = Width /\ mem[MaskAt(p)] = Mask /\ mem[MaskAt(p)] # 0
  BY DEF Shaped, IsRecord
<1>2. Width \in Nat \ {0} /\ i \in Nat /\ i < Width /\ Bit(Mask, i)
  BY Sizes DEF ChildSlots
<1>3. i % Width = i
  BY <1>2
<1> QED BY <1>1, <1>2, <1>3 DEF Slots, Child, SlotAddress

\* A slot of an object being released: its child has no other holder, and is whole.
LEMMA DropWhat ==
  ASSUME HeapInv, NEW kept \in SUBSET blocks, NEW work \in SUBSET blocks,
         Ownership(kept, work), pc = "drop",
         release.slot < Slots(release.object),
         NEW child, child = Child(release.object, release.slot), child # 0
  PROVE  /\ release.slot \in ChildSlots
         /\ child = mem[release.object + release.slot]
         /\ child \in kept \ owned
         /\ Held(mem, child)
         /\ Holds(kept, work, release.object, release.slot)
<1> DEFINE obj == release.object
           i == release.slot
<1>1. TypeOK
  BY DEF HeapInv
<1>2. PartsOK(kept, work) /\ ChildrenOK(kept, work) /\ ReleaseOK(work)
  BY DEF Ownership
<1>3. obj \in blocks /\ Shaped(obj) /\ i \in Nat
  BY <1>1, <1>2 DEF PartsOK, Falling, ReleaseOK, TypeOK
<1>4. mem[MaskAt(obj)] # 0
  <2>1. ASSUME mem[MaskAt(obj)] = 0 PROVE Slots(obj) = 0
    BY <2>1 DEF Slots
  <2>2. ~(i < 0)
    BY <1>3
  <2> QED BY <2>1, <2>2
<1>5. mem[KindAt(obj)] = 1 /\ mem[MaskAt(obj)] = Mask /\ mem[WidthAt(obj)] = Width /\ IsRecord(obj)
  BY <1>3, <1>4 DEF Shaped, IsRecord
<1>6. i < Width
  BY <1>4, <1>5 DEF Slots
<1>7. Width \in Nat \ {0} /\ i % Width = i
  <2>1. Width \in Nat \ {0}
    BY Sizes
  <2>2. \A a \in Nat, b \in Nat \ {0} : a < b => a % b = a
    OBVIOUS
  <2> QED BY <1>3, <1>6, <2>1, <2>2
<1>8. Bit(Mask, i) /\ child = mem[obj + i]
  BY <1>5, <1>7 DEF Child, SlotAddress
<1>9. i \in ChildSlots
  BY <1>3, <1>6, <1>7, <1>8 DEF ChildSlots
<1>10. i <= i
  BY <1>3
<1>11. Holds(kept, work, obj, i)
  BY <1>5, <1>8, <1>9, <1>10 DEF Holds
<1>12. child \in kept \ owned
  BY <1>2, <1>3, <1>8, <1>9, <1>11 DEF ChildrenOK
<1>13. Held(mem, child)
  BY <1>2, <1>12 DEF PartsOK, Kept, Whole, Held
<1> QED BY <1>8, <1>9, <1>11, <1>12, <1>13

\* The child joins the list; release never meets one it refuses.
LEMMA DropInv == HeapInv /\ DropSlot => HeapInv' /\ [Row!Next]_(Row!vars) /\ pc' # "trapped"
<1> SUFFICES ASSUME HeapInv, DropSlot PROVE HeapInv' /\ [Row!Next]_(Row!vars) /\ pc' # "trapped"
  OBVIOUS
<1>1. TypeOK /\ Geometry /\ ListOK /\ FreshOK
  BY RowGeometry DEF HeapInv
<1>2. PICK kept \in SUBSET blocks, work \in SUBSET blocks : Ownership(kept, work)
  BY DEF HeapInv
<1>3. PartsOK(kept, work) /\ ChildrenOK(kept, work) /\ ReleaseOK(work) /\ CopyOK(kept, work)
  BY <1>2 DEF Ownership
<1>4. PICK child, obj, i, first : child = Child(obj, i) /\ obj = release.object /\ i = release.slot
                                  /\ first = release.pending
  OBVIOUS
<1>5. pc = "drop" /\ i < Slots(obj) /\ i \in Nat /\ i + 1 \in Nat
  BY <1>1, <1>4 DEF DropSlot, TypeOK
<1>6. InRelease /\ ~InCopy /\ Stage = "drop" /\ Fresh = {} /\ Falling = {obj}
      /\ obj \in blocks \ (kept \cup work)
  BY <1>3, <1>4, <1>5 DEF Stage, Fresh, Falling, InRelease, InCopy, PartsOK
<1>7. CASE child = 0
  <2>1. /\ release' = [release EXCEPT !.slot = i + 1]
        /\ UNCHANGED <<mem, globals, pc, alloc, copy, args, owned, blocks>>
    BY <1>4, <1>7 DEF DropSlot
  <2>2. /\ release'.object = obj /\ release'.slot = i + 1 /\ release'.pending = first
        /\ release' \in [pending : Addresses, object : Addresses, slot : Nat,
                         previous : Addresses, current : Addresses]
    BY <1>1, <1>4, <1>5, <2>1 DEF TypeOK
  <2>3. /\ Stage' = Stage /\ Fresh' = {} /\ Falling' = {obj} /\ InRelease' /\ ~InCopy'
    BY <1>5, <2>1, <2>2 DEF Stage, Fresh, Falling, InRelease, InCopy
  <2>4. Quiet({})
    BY <2>1, QuietStutter DEF globals
  <2>5. FreeBlocks' = FreeBlocks /\ IsChain(mem', head', FreeBlocks') /\ RowInv'
        /\ [Row!Next]_(Row!vars)
    BY <2>4, QuietKeeps
  <2>6. TypeOK'
    BY <1>1, <2>1, <2>2 DEF TypeOK, globals
  <2>7. ListOK'
    BY <1>5, <2>1, <2>5 DEF ListOK
  <2>8. FreshOK'
    BY <1>5, <1>6, <2>1, <2>3 DEF FreshOK
  <2>9. PartsOK(kept, work)'
    BY <1>3, <1>6, <2>1, <2>3 DEF PartsOK, Kept, Whole, Shaped, Capacity, IsRecord
  <2>10. ChildrenOK(kept, work)'
    <3>1. ASSUME NEW p \in blocks', NEW j \in ChildSlots, Holds(kept, work, p, j)'
          PROVE  Holds(kept, work, p, j)
      <4>1. i + 1 <= j => i <= j
        BY <1>5, SlotTypes
      <4> QED BY <1>4, <1>5, <1>6, <2>1, <2>2, <2>3, <3>1, <4>1 DEF Holds, IsRecord
    <3>2. \A p \in blocks' : \A j \in ChildSlots :
            Holds(kept, work, p, j)' =>
               /\ p \in blocks /\ Holds(kept, work, p, j)
               /\ mem'[p + j] = mem[p + j] /\ mem[p + j] \in kept \ owned'
      BY <1>3, <2>1, <3>1 DEF ChildrenOK
    <3> QED BY <1>3, <3>2, ChildrenKeep
  <2>11. ReleaseOK(work)'
    BY <1>3, <1>4, <1>5, <2>1, <2>2 DEF ReleaseOK, Shaped, Capacity, Linked, InRelease, InCopy, Stage
  <2>12. CopyOK(kept, work)'
    BY <1>6, <2>3 DEF CopyOK
  <2>13. blocks' = blocks /\ pc' # "trapped"
    BY <1>5, <2>1
  <2>14. NoneLost(kept, work)'
    <3>1. NoneLost(kept, work) /\ pc # "trapped"
      BY <1>2, <1>5 DEF Ownership
    <3>2. \A p \in blocks : \A j \in ChildSlots : Holds(kept, work, p, j) => Holds(kept, work, p, j)'
      <4> SUFFICES ASSUME NEW p \in blocks, NEW j \in ChildSlots, Holds(kept, work, p, j)
                   PROVE  Holds(kept, work, p, j)'
        OBVIOUS
      <4>1. p = obj /\ IsRecord(p) /\ i <= j => i + 1 <= j
        <5> SUFFICES ASSUME p = obj, IsRecord(p), i <= j PROVE i # j
          BY <1>5, SlotTypes
        <5>1. Shaped(p)
          BY <1>3, <1>4, <1>5 DEF ReleaseOK
        <5>2. Child(p, j) # 0
          BY <5>1, ChildIs DEF Holds
        <5> QED BY <1>4, <1>7, <5>2
      <4> QED BY <1>4, <1>5, <1>6, <2>1, <2>2, <2>3, <4>1, ChildSlotsSame DEF Holds, IsRecord
    <3>3. Grounded(kept, work)'
      BY <2>1, <3>1, <3>2, ChildSlotsSame DEF NoneLost, Grounded
    <3> QED BY <1>4, <1>6, <2>1, <2>2, <2>3, <3>1, <3>3 DEF NoneLost
  <2> QED BY <1>2, <2>5, <2>6, <2>7, <2>8, <2>9, <2>10, <2>11, <2>12, <2>13, <2>14 DEF HeapInv, Ownership
<1>8. CASE child # 0
  <2>1. /\ i \in ChildSlots /\ child = mem[obj + i] /\ child \in kept \ owned
        /\ Held(mem, child) /\ Holds(kept, work, obj, i)
    BY <1>2, <1>4, <1>5, <1>8, DropWhat
  <2>2. /\ mem' = Write(mem, CountAt(child), first)
        /\ release' = [release EXCEPT !.pending = child, !.slot = i + 1]
        /\ UNCHANGED <<globals, pc, alloc, copy, args, owned, blocks>>
    BY <1>4, <1>8, <2>1 DEF DropSlot, Dropped
  <2>3. child \in blocks /\ Whole(child) /\ first \in Nat
    BY <1>1, <1>3, <1>4, <2>1, Sizes DEF PartsOK, Kept, TypeOK
  <2>4. /\ release'.object = obj /\ release'.slot = i + 1 /\ release'.pending = child
        /\ release' \in [pending : Addresses, object : Addresses, slot : Nat,
                         previous : Addresses, current : Addresses]
    BY <1>1, <1>4, <1>5, <2>2, <2>3 DEF TypeOK
  <2>5. /\ Stage' = Stage /\ Fresh' = {} /\ Falling' = {obj} /\ InRelease' /\ ~InCopy'
    BY <1>5, <2>2, <2>4 DEF Stage, Fresh, Falling, InRelease, InCopy
  <2>6. /\ Quiet({child}) /\ mem'[CountAt(child)] = first
        /\ \A j \in Nat : j < Capacity(child) => mem'[child + j] = mem[child + j]
        /\ IsRecord(child)' <=> IsRecord(child)
        /\ Shaped(child)' <=> Shaped(child)
    <3>1. UNCHANGED <<pages, top, head, blocks>>
      BY <2>2 DEF globals
    <3> QED BY <2>2, <2>3, <3>1, CountWritten
  <2>7. FreeBlocks' = FreeBlocks /\ IsChain(mem', head', FreeBlocks') /\ RowInv'
        /\ [Row!Next]_(Row!vars)
    BY <2>6, QuietKeeps
  <2>8. \A p \in blocks \ {child} : p \in Objects /\ Untouched(p)
    BY <2>6 DEF Quiet, Objects
  <2>9. TypeOK'
    BY <1>1, <2>2, <2>4, <2>6 DEF TypeOK, globals, Quiet, Memories
  <2>10. ListOK'
    BY <1>5, <2>2, <2>7 DEF ListOK
  <2>11. FreshOK'
    BY <1>5, <1>6, <2>2, <2>5 DEF FreshOK
  <2> DEFINE kept2 == kept \ {child}
             work2 == work \cup {child}
  <2>12. PartsOK(kept2, work2)'
    <3>1. \A p \in kept2 : Kept(p)'
      <4> SUFFICES ASSUME NEW p \in kept2 PROVE Kept(p)'
        OBVIOUS
      <4>1. p \in Objects /\ Untouched(p) /\ Kept(p) /\ (p \in owned => p \in owned')
        BY <1>3, <2>8, <2>2 DEF PartsOK
      <4> QED BY <1>1, <4>1, KeptKeeps
    <3> QED BY <1>3, <1>6, <2>1, <2>2, <2>3, <2>5, <3>1 DEF PartsOK
  <2>13. ASSUME NEW p \in blocks', NEW j \in ChildSlots, Holds(kept2, work2, p, j)'
         PROVE  /\ p \in blocks /\ Holds(kept, work, p, j)
                /\ mem'[p + j] = mem[p + j] /\ mem[p + j] \in kept2 \ owned'
    <3>1. /\ p \in blocks /\ IsRecord(p)'
          /\ \/ p \in kept2
             \/ p \in work2
             \/ p = obj /\ i + 1 <= j
      BY <1>5, <2>2, <2>4, <2>5, <2>13 DEF Holds
    <3>2. IsRecord(p)
      BY <1>1, <2>6, <2>8, <3>1, UntouchedKeeps
    <3>3. Shaped(p)
      <4>1. p \in kept \/ p \in work => Shaped(p)
        BY <1>3, <1>6 DEF PartsOK, Kept, Whole, ReleaseOK
      <4>2. Shaped(obj)
        BY <1>3, <1>4, <1>5 DEF ReleaseOK
      <4> QED BY <2>1, <3>1, <4>1, <4>2
    <3>4. j \in Nat /\ j < Width /\ Width <= Capacity(p) /\ Capacity(p) \in Nat /\ Width \in Nat
      BY <1>1, <3>1, <3>2, <3>3, ShapedRecord, SlotTypes, Sizes DEF Geometry, Objects
    <3>5. mem'[p + j] = mem[p + j]
      <4>1. j < Capacity(p)
        BY <3>4
      <4> QED BY <1>1, <2>6, <2>8, <3>1, <3>4, <4>1, UntouchedIs
    <3>6. i + 1 <= j => i <= j /\ i # j
      BY <1>5, <3>4
    <3>7. Holds(kept, work, p, j)
      BY <1>4, <1>5, <1>6, <2>1, <2>13, <3>1, <3>2, <3>5, <3>6 DEF Holds
    <3>8. mem[p + j] \in kept \ owned
      BY <1>3, <3>1, <3>7 DEF ChildrenOK
    <3>9. ~(p = obj /\ j = i)
      BY <1>6, <2>1, <3>1, <3>6
    <3>10. mem[p + j] # child
      BY <1>3, <1>6, <2>1, <3>1, <3>7, <3>9 DEF ChildrenOK
    <3> QED BY <2>2, <3>1, <3>5, <3>7, <3>8, <3>10
  <2>14. ChildrenOK(kept2, work2)'
    <3> HIDE DEF kept2, work2
    <3> QED BY <1>3, <2>13, ChildrenKeep
  <2>15. ReleaseOK(work2)'
    <3>1. child \notin work /\ child # obj
      BY <1>3, <1>6, <2>1 DEF PartsOK
    <3>2. \A p \in work : mem'[CountAt(p)] = mem[CountAt(p)]
      BY <1>1, <2>8, <3>1, UntouchedIs
    <3>3. Linked(work, first) /\ first \in work \cup {0}
      BY <1>3, <1>4, <1>6 DEF ReleaseOK
    <3>4. ASSUME NEW p \in work2
          PROVE  mem'[CountAt(p)] = 0 \/ mem'[CountAt(p)] \in work2 \ {child}
      BY <2>6, <3>1, <3>2, <3>3 DEF Linked
    <3>5. ASSUME NEW p \in work2, NEW q \in work2,
                 mem'[CountAt(p)] = mem'[CountAt(q)], mem'[CountAt(p)] # 0
          PROVE  p = q
      BY <2>6, <3>1, <3>2, <3>3, <3>5 DEF Linked
    <3>6. Linked(work2, release.pending)'
      BY <2>4, <3>4, <3>5 DEF Linked
    <3>7. \A p \in work2 : Shaped(p)'
      BY <1>1, <1>3, <1>6, <2>3, <2>6, <2>8, UntouchedKeeps DEF ReleaseOK, Whole
    <3>8. Shaped(obj)'
      BY <1>1, <1>3, <1>4, <1>5, <1>6, <2>8, <3>1, UntouchedKeeps DEF ReleaseOK
    <3>9. Shaped(release.object)'
      BY <2>4, <3>8 DEF Shaped, Capacity
    <3> QED BY <2>4, <2>5, <3>6, <3>7, <3>9 DEF ReleaseOK
  <2>16. CopyOK(kept2, work2)'
    BY <1>6, <2>5 DEF CopyOK
  <2>17. blocks' = blocks /\ kept2 \in SUBSET blocks /\ work2 \in SUBSET blocks /\ pc' # "trapped"
    BY <1>5, <2>2, <2>3
  <2>18. NoneLost(kept2, work2)'
    <3>1. NoneLost(kept, work) /\ pc # "trapped" /\ child # obj /\ child \notin work
      BY <1>2, <1>3, <1>5, <1>6, <2>1 DEF Ownership, PartsOK
    <3>2. PICK own : own = owned' /\ own = owned
      BY <2>2
    <3>3. SlotsStay(kept, work, kept2, work2, kept2 \ own)
      <4> SUFFICES ASSUME NEW p \in blocks, NEW j \in ChildSlots, Holds(kept, work, p, j),
                          mem[p + j] \in kept2
                   PROVE  p \in blocks' /\ Holds(kept2, work2, p, j)' /\ mem'[p + j] = mem[p + j]
        BY DEF SlotsStay
      <4>1. /\ IsRecord(p) /\ mem[p + j] # 0
            /\ \/ p \in kept
               \/ p \in work
               \/ p = obj /\ i <= j
        BY <1>4, <1>6 DEF Holds
      <4>2. Shaped(p)
        BY <1>3, <1>4, <1>5, <1>6, <4>1 DEF PartsOK, Kept, Whole, ReleaseOK
      <4>3. j \in Nat /\ j < Width /\ Width <= Capacity(p) /\ Capacity(p) \in Nat /\ Width \in Nat
        BY <1>1, <4>1, <4>2, ShapedRecord, SlotTypes, Sizes DEF Geometry, Objects
      <4>4. j < Capacity(p)
        BY <4>3
      <4>5. mem'[p + j] = mem[p + j] /\ IsRecord(p)'
        BY <1>1, <2>6, <2>8, <4>1, <4>3, <4>4, UntouchedIs, UntouchedKeeps
      <4>6. p = obj => i # j
        BY <2>1
      <4>7. p = obj /\ i <= j => i + 1 <= j
        BY <1>5, <4>3, <4>6
      <4>8. p \in kept2 \/ p \in work2 \/ (p = obj /\ i + 1 <= j)
        BY <4>1, <4>7
      <4> QED BY <1>5, <2>2, <2>4, <2>5, <4>1, <4>5, <4>8, ChildSlotsSame DEF Holds
    <3>4. Reached(mem, work, first)
      BY <1>4, <1>6, <3>1 DEF NoneLost
    <3>5. \A q \in work : mem'[CountAt(q)] = mem[CountAt(q)]
      BY <1>1, <2>8, <3>1, UntouchedIs
    <3>6. Reached(mem', work2, child)
      BY <2>6, <3>1, <3>4, <3>5, ReachedPut
    <3>7. blocks' \subseteq kept2 \cup work2 \cup {obj}
      BY <1>6, <2>2, <3>1 DEF NoneLost
    <3>8. kept2 \ own \subseteq kept \ owned
      BY <3>2
    <3> HIDE DEF kept2, work2
    <3>9. Grounded(kept2, work2)'
      BY <3>1, <3>2, <3>3, <3>8, GroundedStays DEF NoneLost
    <3> QED BY <2>4, <2>5, <3>6, <3>7, <3>9 DEF NoneLost
  <2> HIDE DEF kept2, work2
  <2> QED BY <2>7, <2>9, <2>10, <2>11, <2>12, <2>14, <2>15, <2>16, <2>17, <2>18 DEF HeapInv, Ownership
<1> QED BY <1>7, <1>8


-----------------------------------------------------------------------------
(* release: the free list. *)

\* An object whose slots are done is to be put in the list, from its head on.
LEMMA FreeObjectInv == HeapInv /\ FreeObject => HeapInv' /\ [Row!Next]_(Row!vars)
<1> SUFFICES ASSUME HeapInv, FreeObject PROVE HeapInv' /\ [Row!Next]_(Row!vars)
  OBVIOUS
<1>1. TypeOK /\ Geometry /\ ListOK /\ FreshOK
  BY RowGeometry DEF HeapInv
<1>2. PICK kept \in SUBSET blocks, work \in SUBSET blocks : Ownership(kept, work)
  BY DEF HeapInv
<1>3. PartsOK(kept, work) /\ ChildrenOK(kept, work) /\ ReleaseOK(work) /\ CopyOK(kept, work)
  BY <1>2 DEF Ownership
<1>4. PICK obj : obj = release.object
  OBVIOUS
<1>5. /\ pc = "drop" /\ pc' = "place"
      /\ frees' = (frees + 1) % Counts
      /\ mem' = Write(mem, CountAt(obj), 0)
      /\ release' = [release EXCEPT !.previous = 0, !.current = head]
      /\ UNCHANGED <<pages, top, head, allocs, alloc, copy, args, owned, blocks>>
  BY <1>4 DEF FreeObject
<1>6. InRelease /\ ~InCopy /\ Fresh = {} /\ Falling = {obj} /\ obj \in blocks \ (kept \cup work)
  BY <1>3, <1>4, <1>5 DEF Stage, Fresh, Falling, InRelease, InCopy, PartsOK
<1>7. 0 \in Addresses /\ head \in Addresses /\ 0 \in Nat
  BY <1>1, ListIn
<1>8. /\ release'.object = obj /\ release'.pending = release.pending
      /\ release'.previous = 0 /\ release'.current = head
      /\ release' \in [pending : Addresses, object : Addresses, slot : Nat,
                       previous : Addresses, current : Addresses]
  BY <1>1, <1>4, <1>5, <1>7 DEF TypeOK
<1>9. Quiet({obj})
  <2>1. UNCHANGED <<pages, top, head, blocks>> /\ obj \in blocks
    BY <1>5, <1>6
  <2> QED BY <1>5, <1>7, <2>1, CountWritten
<1>10. FreeBlocks' = FreeBlocks /\ IsChain(mem', head', FreeBlocks') /\ RowInv'
       /\ [Row!Next]_(Row!vars)
  BY <1>9, QuietKeeps
<1>11. \A p \in blocks \ {obj} : p \in Objects /\ Untouched(p)
  BY <1>9 DEF Quiet, Objects
<1>12. TypeOK'
  <2>1. frees' \in 0..(Counts - 1)
    <3>1. Counts \in Nat \ {0} /\ frees + 1 \in Nat
      BY <1>1, Sizes DEF TypeOK
    <3>2. \A a \in Nat, c \in Nat \ {0} : a % c \in 0..(c - 1)
      OBVIOUS
    <3> QED BY <1>5, <3>1, <3>2
  <2> QED BY <1>1, <1>5, <1>8, <1>9, <2>1 DEF TypeOK, Quiet, Memories
<1>13. ListOK'
  <2>1. obj \in Nat \ {0} /\ 0 < obj
    BY <1>1, <1>6, InMemory DEF Objects
  <2>2. Follows(FreeBlocks, 0, head)
    BY <1>1 DEF ListOK, IsChain
  <2>3. Walks(release.previous, release.current)'
    BY <1>8, <1>10, <2>2 DEF Walks
  <2> QED BY <1>5, <1>8, <1>10, <2>1, <2>3 DEF ListOK
<1>14. Stage' = "place" /\ Fresh' = {} /\ Falling' = {obj} /\ InRelease' /\ ~InCopy'
  BY <1>5, <1>8 DEF Stage, Fresh, Falling, InRelease, InCopy
<1>15. FreshOK'
  BY <1>5, <1>14 DEF FreshOK
<1>16. PartsOK(kept, work)'
  <2>1. \A p \in kept : Kept(p)'
    <3> SUFFICES ASSUME NEW p \in kept PROVE Kept(p)'
      OBVIOUS
    <3>1. p \in Objects /\ Untouched(p) /\ Kept(p) /\ (p \in owned => p \in owned')
      BY <1>3, <1>6, <1>11, <1>5 DEF PartsOK
    <3> QED BY <1>1, <3>1, KeptKeeps
  <2> QED BY <1>3, <1>5, <1>6, <1>14, <2>1 DEF PartsOK
<1>17. ASSUME NEW p \in blocks', NEW i \in ChildSlots, Holds(kept, work, p, i)'
       PROVE  /\ p \in blocks /\ Holds(kept, work, p, i)
              /\ mem'[p + i] = mem[p + i] /\ mem[p + i] \in kept \ owned'
  <2>1. (p \in kept \/ p \in work) /\ IsRecord(p)' /\ p \in blocks \ {obj}
    BY <1>3, <1>5, <1>6, <1>14, <1>17 DEF Holds
  <2>2. IsRecord(p) /\ Shaped(p)
    BY <1>1, <1>3, <1>6, <1>11, <2>1, UntouchedKeeps DEF PartsOK, Kept, Whole, ReleaseOK
  <2>3. i \in Nat /\ i < Width /\ Width <= Capacity(p) /\ Capacity(p) \in Nat /\ Width \in Nat
    BY <1>1, <1>11, <2>1, <2>2, ShapedRecord, SlotTypes, Sizes DEF Geometry
  <2>4. i < Capacity(p)
    BY <2>3
  <2>5. mem'[p + i] = mem[p + i]
    BY <1>1, <1>11, <2>1, <2>3, <2>4, UntouchedIs
  <2>6. Holds(kept, work, p, i)
    BY <1>6, <1>17, <2>1, <2>2, <2>5 DEF Holds
  <2>7. mem[p + i] \in kept \ owned
    BY <1>3, <2>1, <2>6 DEF ChildrenOK
  <2> QED BY <1>5, <2>1, <2>5, <2>6, <2>7
<1>18. ChildrenOK(kept, work)'
  BY <1>3, <1>17, ChildrenKeep
<1>19. ReleaseOK(work)'
  <2>1. \A p \in work : mem'[CountAt(p)] = mem[CountAt(p)] /\ Shaped(p)'
    BY <1>1, <1>3, <1>6, <1>11, UntouchedIs, UntouchedKeeps DEF ReleaseOK
  <2>2. Linked(work, release.pending)'
    BY <1>3, <1>6, <1>8, <2>1 DEF ReleaseOK, Linked
  <2> QED BY <1>3, <1>5, <1>6, <1>8, <1>14, <2>1, <2>2 DEF ReleaseOK
<1>20. CopyOK(kept, work)'
  BY <1>14 DEF CopyOK
<1>21. blocks' = blocks
  BY <1>5
<1>22. NoneLost(kept, work)'
  <2>1. NoneLost(kept, work) /\ pc # "trapped"
    BY <1>2, <1>5 DEF Ownership
  <2>2. PICK own : own = owned' /\ own = owned
    BY <1>5
  <2>3. SlotsStay(kept, work, kept, work, kept \ own)
    <3> SUFFICES ASSUME NEW p \in blocks, NEW i \in ChildSlots, Holds(kept, work, p, i)
                 PROVE  p \in blocks' /\ Holds(kept, work, p, i)' /\ mem'[p + i] = mem[p + i]
      BY DEF SlotsStay
    <3>1. p # obj
      <4> SUFFICES ASSUME p = obj PROVE FALSE
        OBVIOUS
      <4>1. IsRecord(p) /\ release.slot <= i /\ Shaped(p) /\ release.slot = Slots(p)
        BY <1>3, <1>4, <1>5, <1>6 DEF Holds, ReleaseOK, FreeObject
      <4>2. release.slot = Width /\ i < Width /\ i \in Nat /\ Width \in Nat
        BY <4>1, ChildIs, SlotTypes, Sizes
      <4> QED BY <4>1, <4>2
    <3>2. /\ mem'[p + i] = mem[p + i] /\ mem'[p + i] # 0
          /\ IsRecord(p)' <=> IsRecord(p)
      BY <1>1, <1>3, <1>11, <3>1, HoldsStays
    <3> QED BY <1>4, <1>5, <1>6, <1>14, <3>1, <3>2, ChildSlotsSame DEF Holds
  <2>4. Grounded(kept, work)'
    BY <2>1, <2>2, <2>3, GroundedStays DEF NoneLost
  <2>5. \A q \in work : mem'[CountAt(q)] = mem[CountAt(q)]
    BY <1>1, <1>6, <1>11, UntouchedIs
  <2>6. Reached(mem', work, release.pending)
    BY <1>6, <2>1, <2>5, ReachedSame DEF NoneLost
  <2> QED BY <1>5, <1>6, <1>8, <1>14, <2>1, <2>4, <2>6 DEF NoneLost
<1> QED BY <1>2, <1>10, <1>12, <1>13, <1>15, <1>16, <1>18, <1>19, <1>20, <1>21, <1>22
        DEF HeapInv, Ownership

\* The walk for a place goes on to the next block, below the object.
LEMMA FindInv == HeapInv /\ FindPlace => HeapInv' /\ [Row!Next]_(Row!vars)
<1> SUFFICES ASSUME HeapInv, FindPlace PROVE HeapInv' /\ [Row!Next]_(Row!vars)
  OBVIOUS
<1>1. TypeOK /\ Geometry /\ ListOK /\ FreshOK
  BY RowGeometry DEF HeapInv
<1>2. PICK kept \in SUBSET blocks, work \in SUBSET blocks : Ownership(kept, work)
  BY DEF HeapInv
<1>3. PartsOK(kept, work) /\ ChildrenOK(kept, work) /\ ReleaseOK(work) /\ CopyOK(kept, work)
  BY <1>2 DEF Ownership
<1>4. PICK obj, cur, nxt : obj = release.object /\ cur = release.current /\ nxt = Link(cur)
  OBVIOUS
<1>5. /\ pc = "place" /\ cur # 0 /\ ~(obj < cur)
      /\ release' = [release EXCEPT !.previous = cur, !.current = nxt]
      /\ UNCHANGED <<mem, globals, pc, alloc, copy, args, owned, blocks>>
  BY <1>4 DEF FindPlace, Placed
<1>6. cur \in FreeBlocks /\ cur \in Addresses /\ nxt \in Addresses /\ Follows(FreeBlocks, cur, nxt)
  <2>1. cur \in FreeBlocks
    BY <1>1, <1>4, <1>5 DEF ListOK, Walks, Follows
  <2> QED BY <1>1, <1>4, <2>1, ListIn
<1>7. /\ release'.object = obj /\ release'.pending = release.pending
      /\ release'.previous = cur /\ release'.current = nxt
      /\ release' \in [pending : Addresses, object : Addresses, slot : Nat,
                       previous : Addresses, current : Addresses]
  BY <1>1, <1>4, <1>5, <1>6 DEF TypeOK
<1>8. Quiet({})
  BY <1>5, QuietStutter DEF globals
<1>9. FreeBlocks' = FreeBlocks /\ IsChain(mem', head', FreeBlocks') /\ RowInv'
      /\ [Row!Next]_(Row!vars)
  BY <1>8, QuietKeeps
<1>10. TypeOK'
  BY <1>1, <1>5, <1>7 DEF TypeOK, globals
<1>11. /\ Stage' = Stage /\ Fresh' = Fresh /\ Falling' = Falling /\ Falling = {obj}
       /\ InRelease' /\ InRelease /\ ~InCopy' /\ ~InCopy
  BY <1>4, <1>5, <1>7 DEF Stage, Fresh, Falling, InRelease, InCopy
<1>12. ListOK'
  <2>1. obj \in blocks
    BY <1>3, <1>11 DEF PartsOK
  <2>2. cur < obj
    <3>1. obj \in Nat /\ cur \in Nat /\ obj # cur
      BY <1>1, <1>6, <2>1 DEF Geometry, Objects
    <3> QED BY <1>5, <3>1
  <2>3. Walks(release.previous, release.current)'
    BY <1>6, <1>7, <1>9 DEF Walks
  <2> QED BY <1>5, <1>7, <1>9, <2>2, <2>3 DEF ListOK
<1>13. FreshOK'
  BY <1>5, <1>11 DEF FreshOK, Fresh, Stage
<1>14. PartsOK(kept, work)'
  BY <1>3, <1>5, <1>11 DEF PartsOK, Kept, Whole, Shaped, Capacity, IsRecord
<1>15. ChildrenOK(kept, work)'
  <2>1. \A p, i : Holds(kept, work, p, i)' => Holds(kept, work, p, i)
    BY <1>5, <1>11 DEF Holds, IsRecord, ChildSlots, Bit
  <2> QED BY <1>3, <1>5, <2>1 DEF ChildrenOK, ChildSlots, Bit
<1>16. ReleaseOK(work)'
  BY <1>3, <1>5, <1>7, <1>11 DEF ReleaseOK, Shaped, Capacity, Linked
<1>17. CopyOK(kept, work)'
  BY <1>5, <1>11 DEF CopyOK, Stage
<1>18. blocks' = blocks
  BY <1>5
<1>19. NoneLost(kept, work)'
  <2>1. NoneLost(kept, work) /\ pc # "trapped"
    BY <1>2, <1>5 DEF Ownership
  <2>2. \A p, i : Holds(kept, work, p, i) => Holds(kept, work, p, i)'
    BY <1>5, <1>11, ChildSlotsSame DEF Holds, IsRecord
  <2>3. Grounded(kept, work)'
    BY <1>5, <2>1, <2>2, ChildSlotsSame DEF NoneLost, Grounded
  <2> QED BY <1>5, <1>7, <1>11, <2>1, <2>3 DEF NoneLost
<1> QED BY <1>2, <1>9, <1>10, <1>12, <1>13, <1>14, <1>15, <1>16, <1>17, <1>18, <1>19
        DEF HeapInv, Ownership


\* The free block above the object at hand begins where it ends, or the one below ends
\* where it begins.
JoinsUp == release.current # 0 /\ release.object + Capacity(release.object) + 6 = release.current
JoinsDown == release.previous # 0 /\ release.previous + Capacity(release.previous) + 6 = release.object

\* What the object's block is when it has taken the block above it.
UpCapacity == IF JoinsUp THEN Capacity(release.object) + 6 + Capacity(release.current)
              ELSE Capacity(release.object)
UpLink == IF JoinsUp THEN Link(release.current) ELSE release.current

\* What p's words of capacity and link are after a join with the block at next.
Joins(m, p, next, c, l) ==
    IF p + m[p - 4] + 6 = next
    THEN c = m[p - 4] + 6 + m[next - 4] /\ l = m[next - 1]
    ELSE c = m[p - 4] /\ l = next

\* A join is two writes at most.
LEMMA JoinIs ==
  ASSUME NEW m \in Memories, NEW p \in Nat, NEW next \in Nat, NEW c \in Nat, NEW l \in Nat,
         Joins(m, p, next, c, l), p - 4 \in Addresses
  PROVE  /\ Join(m, p, next) \in Memories
         /\ \A a \in Addresses :
               Join(m, p, next)[a] = IF a = p - 4 THEN c ELSE IF a = p - 1 THEN l ELSE m[a]
<1>1. p - 4 # p - 1
  OBVIOUS
<1>2. CASE p + m[p - 4] + 6 = next
  <2>1. c = m[p - 4] + 6 + m[next - 4] /\ l = m[next - 1]
    BY <1>2 DEF Joins
  <2>2. Join(m, p, next) = [[m EXCEPT ![p - 4] = c] EXCEPT ![p - 1] = l]
    BY <1>2, <2>1 DEF Join, CapacityAt, LinkAt, Header, Memories
  <2>3. PICK n : n = [m EXCEPT ![p - 4] = c]
    OBVIOUS
  <2>4. n \in Memories /\ \A a \in Addresses : n[a] = IF a = p - 4 THEN c ELSE m[a]
    BY <2>3 DEF Memories
  <2>5. Join(m, p, next) = [n EXCEPT ![p - 1] = l]
    BY <2>2, <2>3
  <2> QED BY <1>1, <2>4, <2>5 DEF Memories
<1>3. CASE p + m[p - 4] + 6 # next
  <2>1. Join(m, p, next) = [m EXCEPT ![p - 1] = l] /\ c = m[p - 4]
    BY <1>3 DEF Joins, Join, CapacityAt, LinkAt, Header, Write
  <2> QED BY <1>1, <2>1 DEF Memories
<1> QED BY <1>2, <1>3

\* What the walk has found when a place is found.
LEMMA PlaceIs ==
  ASSUME HeapInv, pc = "place", Placed
  PROVE  LET x == release.object
             prev == release.previous
             next == release.current
         IN /\ x \in blocks /\ x \in Objects /\ x \in Nat \ {0} /\ Capacity(x) \in Nat \ {0}
            /\ prev = 0 \/ (prev \in FreeBlocks /\ Capacity(prev) \in Nat \ {0})
            /\ next = 0 \/ (next \in FreeBlocks /\ Capacity(next) \in Nat \ {0} /\ Link(next) \in Nat)
            /\ prev \in Nat /\ next \in Nat
            /\ prev < x /\ (next = 0 \/ x < next)
            /\ Follows(FreeBlocks, prev, next)
            /\ UpCapacity \in Nat \ {0} /\ UpLink \in Nat
<1> DEFINE x == release.object
           prev == release.previous
           next == release.current
<1>1. TypeOK /\ Geometry /\ ListOK
  BY RowGeometry DEF HeapInv
<1>2. x \in blocks /\ x \in Objects
  <2>1. PICK kept \in SUBSET blocks, work \in SUBSET blocks : Ownership(kept, work)
    BY DEF HeapInv
  <2>2. x \in blocks
    BY <2>1 DEF Ownership, PartsOK, Falling
  <2> QED BY <2>2 DEF Objects
<1>3. x \in Nat \ {0} /\ Capacity(x) \in Nat \ {0}
  BY <1>1, <1>2, InMemory
<1>4. /\ prev \in FreeBlocks \cup {0} /\ prev < x /\ Follows(FreeBlocks, prev, next)
      /\ next = 0 \/ x < next
  BY <1>1 DEF ListOK, Walks, Placed
<1>5. next = 0 \/ next \in FreeBlocks
  BY <1>4 DEF Follows
<1>6. \A p \in FreeBlocks : p \in Nat \ {0} /\ Capacity(p) \in Nat \ {0} /\ Link(p) \in Nat
  BY <1>1, ListIn, InMemory, Sizes DEF Objects
<1>7. prev \in Nat /\ next \in Nat
  BY <1>1, Sizes DEF TypeOK
<1>8. UpCapacity \in Nat \ {0}
  <2>1. JoinsUp => next \in FreeBlocks
    BY <1>5 DEF JoinsUp
  <2>2. JoinsUp => Capacity(next) \in Nat
    BY <1>6, <2>1
  <2> QED BY <1>3, <2>2 DEF UpCapacity
<1>9. UpLink \in Nat
  BY <1>5, <1>6, <1>7 DEF UpLink, JoinsUp
<1> HIDE DEF x, prev, next
<1>10. /\ prev = 0 \/ (prev \in FreeBlocks /\ Capacity(prev) \in Nat \ {0})
       /\ next = 0 \/ (next \in FreeBlocks /\ Capacity(next) \in Nat \ {0} /\ Link(next) \in Nat)
  BY <1>4, <1>5, <1>6
<1> QED BY <1>2, <1>3, <1>4, <1>7, <1>8, <1>9, <1>10 DEF x, prev, next

\* The words that an insertion writes.
LEMMA InsertWords ==
  ASSUME HeapInv, Insert
  PROVE  LET x == release.object
             prev == release.previous
         IN /\ mem' \in Memories
            /\ \A p \in Objects \ {x, prev} : Untouched(p)
            /\ mem'[CapacityAt(x)] = UpCapacity /\ mem'[LinkAt(x)] = UpLink
            /\ prev # 0 =>
                  /\ mem'[CapacityAt(prev)] = IF JoinsDown THEN Capacity(prev) + 6 + UpCapacity
                                              ELSE Capacity(prev)
                  /\ mem'[LinkAt(prev)] = IF JoinsDown THEN UpLink ELSE x
            /\ head' = IF prev = 0 THEN x ELSE head
<1>1. TypeOK /\ Geometry /\ mem \in Memories /\ pc = "place" /\ Placed
  BY RowGeometry DEF HeapInv, TypeOK, Memories, Insert
<1>2. PICK x, prev, next : x = release.object /\ prev = release.previous /\ next = release.current
  OBVIOUS
<1>3. PICK c, l : c = UpCapacity /\ l = UpLink
  OBVIOUS
<1>4. PICK joined : joined = Join(mem, x, next)
  OBVIOUS
<1>5. /\ x \in Objects /\ x \in Nat \ {0} /\ Capacity(x) \in Nat \ {0}
      /\ prev = 0 \/ (prev \in FreeBlocks /\ prev \in Objects /\ Capacity(prev) \in Nat \ {0})
      /\ prev \in Nat /\ next \in Nat /\ prev < x /\ c \in Nat /\ l \in Nat /\ x # prev
  BY <1>1, <1>2, <1>3, PlaceIs DEF Objects
<1>6. \A p \in Objects : p \in Nat \ {0} /\ p - 4 \in Addresses /\ p - 1 \in Addresses
  <2> SUFFICES ASSUME NEW p \in Objects
               PROVE  p \in Nat \ {0} /\ p - 4 \in Addresses /\ p - 1 \in Addresses
    OBVIOUS
  <2>1. /\ p \in Nat \ {0} /\ Capacity(p) \in Nat \ {0}
        /\ \A a \in (p - 6)..(p + Capacity(p) - 1) : a \in Addresses
    BY <1>1, InMemory
  <2>2. p - 4 \in (p - 6)..(p + Capacity(p) - 1) /\ p - 1 \in (p - 6)..(p + Capacity(p) - 1)
    BY <2>1
  <2> QED BY <2>1, <2>2
<1>7. /\ joined \in Memories
      /\ \A a \in Addresses : joined[a] = IF a = x - 4 THEN c ELSE IF a = x - 1 THEN l ELSE mem[a]
  <2>1. PICK d : d = mem[x - 4]
    OBVIOUS
  <2>2. JoinsUp <=> x + d + 6 = next
    <3>1. d = Capacity(x)
      BY <2>1 DEF Capacity, CapacityAt
    <3>2. x + d + 6 # 0
      BY <1>5, <3>1
    <3> QED BY <1>2, <3>1, <3>2 DEF JoinsUp
  <2>3. Joins(mem, x, next, c, l)
    <3>1. /\ c = (IF x + d + 6 = next THEN d + 6 + mem[next - 4] ELSE d)
          /\ l = (IF x + d + 6 = next THEN mem[next - 1] ELSE next)
      BY <1>2, <1>3, <2>1, <2>2 DEF UpCapacity, UpLink, Capacity, CapacityAt, Link, LinkAt
    <3> QED BY <2>1, <3>1 DEF Joins
  <2>4. x \in Nat /\ x - 4 \in Addresses /\ next \in Nat /\ c \in Nat /\ l \in Nat /\ mem \in Memories
    BY <1>1, <1>5, <1>6
  <2>5. /\ Join(mem, x, next) \in Memories
        /\ \A a \in Addresses :
              Join(mem, x, next)[a] = IF a = x - 4 THEN c ELSE IF a = x - 1 THEN l ELSE mem[a]
    BY <2>3, <2>4, JoinIs
  <2> QED BY <1>4, <2>5
<1>8. CASE prev = 0
  <2>1. mem' = joined /\ head' = x
    BY <1>2, <1>4, <1>8 DEF Insert
  <2>2. ASSUME NEW p \in Objects \ {x} PROVE Untouched(p)
    <3> SUFFICES ASSUME NEW a \in (p - 6)..(p + Capacity(p) - 1) PROVE mem'[a] = mem[a]
      BY DEF Untouched
    <3>1. a \in Addresses /\ (a < x - 6 \/ x + Capacity(x) <= a) /\ a \in Nat
      BY <1>1, <1>5, InMemory, Distinct, Sizes
    <3>2. a # x - 4 /\ a # x - 1
      BY <1>5, <3>1
    <3> QED BY <1>7, <2>1, <3>1, <3>2
  <2>3. mem'[x - 4] = c /\ mem'[x - 1] = l
    <3>1. x - 4 # x - 1
      BY <1>5
    <3> QED BY <1>5, <1>6, <1>7, <2>1, <3>1
  <2> QED BY <1>2, <1>3, <1>7, <1>8, <2>1, <2>2, <2>3 DEF CapacityAt, LinkAt
<1>9. CASE prev # 0
  <2>1. mem' = Join(joined, prev, x) /\ head' = head
    BY <1>2, <1>4, <1>9 DEF Insert
  <2>2. prev \in Objects /\ prev \in FreeBlocks /\ Capacity(prev) \in Nat \ {0}
    BY <1>5, <1>9
  <2>3. prev + Capacity(prev) + 6 <= x
    BY <1>1, <1>5, <2>2 DEF Geometry
  <2>4. PICK d, c2, l2 : /\ d = joined[prev - 4]
                         /\ c2 = (IF JoinsDown THEN d + 6 + c ELSE d)
                         /\ l2 = (IF JoinsDown THEN l ELSE x)
    OBVIOUS
  <2>5. d = Capacity(prev) /\ d \in Nat
    <3>1. prev - 4 # x - 4 /\ prev - 4 # x - 1
      BY <1>5, <2>2, <2>3
    <3> QED BY <1>6, <1>7, <2>2, <2>4, <3>1 DEF Capacity, CapacityAt
  <2>6. JoinsDown <=> prev + d + 6 = x
    BY <1>2, <1>9, <2>5 DEF JoinsDown
  <2>7. joined[x - 4] = c /\ joined[x - 1] = l
    <3>1. x - 4 # x - 1
      BY <1>5
    <3> QED BY <1>5, <1>6, <1>7, <3>1
  <2>8. c2 \in Nat /\ l2 \in Nat
    BY <1>5, <2>4, <2>5
  <2>9. /\ mem' \in Memories
        /\ \A a \in Addresses :
              mem'[a] = IF a = prev - 4 THEN c2 ELSE IF a = prev - 1 THEN l2 ELSE joined[a]
    <3>1. /\ c2 = (IF prev + d + 6 = x THEN d + 6 + joined[x - 4] ELSE d)
          /\ l2 = (IF prev + d + 6 = x THEN joined[x - 1] ELSE x)
      BY <2>4, <2>6, <2>7
    <3>2. prev \in Nat /\ x \in Nat /\ prev - 4 \in Addresses
      BY <1>5, <1>6, <2>2
    <3>3. Joins(joined, prev, x, c2, l2)
      BY <2>4, <3>1 DEF Joins
    <3> QED BY <1>7, <2>1, <2>8, <3>2, <3>3, JoinIs
  <2>10. ASSUME NEW p \in Objects \ {x, prev} PROVE Untouched(p)
    <3> SUFFICES ASSUME NEW a \in (p - 6)..(p + Capacity(p) - 1) PROVE mem'[a] = mem[a]
      BY DEF Untouched
    <3>1. a \in Addresses /\ (a < x - 6 \/ x + Capacity(x) <= a) /\ a \in Nat
      BY <1>1, <1>5, InMemory, Distinct, Sizes
    <3>2. a < prev - 6 \/ prev + Capacity(prev) <= a
      BY <1>1, <2>2, Distinct
    <3>3. a # x - 4 /\ a # x - 1
      BY <1>5, <3>1
    <3>4. a # prev - 4 /\ a # prev - 1
      BY <1>5, <2>2, <3>1, <3>2
    <3> QED BY <1>7, <2>9, <3>1, <3>3, <3>4
  <2>11. mem'[x - 4] = c /\ mem'[x - 1] = l
    <3>1. x - 4 # prev - 4 /\ x - 4 # prev - 1 /\ x - 1 # prev - 4 /\ x - 1 # prev - 1
      BY <1>5, <2>2, <2>3
    <3> QED BY <1>5, <1>6, <2>7, <2>9, <3>1
  <2>12. mem'[prev - 4] = c2 /\ mem'[prev - 1] = l2
    <3>1. prev - 4 # prev - 1
      BY <1>5
    <3> QED BY <1>6, <2>2, <2>9, <3>1
  <2> QED BY <1>2, <1>3, <1>9, <2>1, <2>4, <2>5, <2>9, <2>10, <2>11, <2>12 DEF CapacityAt, LinkAt
<1> QED BY <1>8, <1>9


\* The list after the block above has been taken into the object's, and before the
\* object is in it.
LEMMA UpList ==
  ASSUME HeapInv, Insert
  PROVE  LET prev == release.previous
             S == IF JoinsUp THEN FreeBlocks \ {release.current} ELSE FreeBlocks
         IN /\ S \subseteq FreeBlocks /\ prev \in S \cup {0}
            /\ Follows(S, prev, UpLink)
            /\ UpLink = 0 \/ release.object < UpLink
            /\ \E m, h : /\ IsChain(m, h, S)
                         /\ prev # 0 => h = head
                         /\ \A p \in S : m[LinkAt(p)] = IF p = prev THEN UpLink ELSE mem[LinkAt(p)]
<1>1. TypeOK /\ Geometry /\ ListOK /\ pc = "place" /\ Placed
  BY RowGeometry DEF HeapInv, Insert
<1>2. PICK x, prev, next : x = release.object /\ prev = release.previous /\ next = release.current
  OBVIOUS
<1>3. /\ prev = 0 \/ prev \in FreeBlocks
      /\ next = 0 \/ (next \in FreeBlocks /\ next # prev /\ Link(next) \in Nat)
      /\ prev \in Nat /\ next \in Nat /\ x \in Nat
      /\ prev < x /\ (next = 0 \/ x < next)
      /\ Follows(FreeBlocks, prev, next)
  BY <1>1, <1>2, PlaceIs
<1>4. FreeBlocks \subseteq Nat \ {0} /\ IsChain(mem, head, FreeBlocks)
  BY <1>1, ListIn DEF ListOK
<1>5. CASE ~JoinsUp
  <2>1. UpLink = next
    BY <1>2, <1>5 DEF UpLink
  <2>2. \A p \in FreeBlocks : mem[LinkAt(p)] = IF p = prev THEN next ELSE mem[LinkAt(p)]
    <3> SUFFICES ASSUME NEW p \in FreeBlocks, p = prev PROVE mem[LinkAt(p)] = next
      OBVIOUS
    <3>1. Follows(FreeBlocks, prev, mem[LinkAt(p)])
      BY <1>4 DEF IsChain
    <3> QED BY <1>3, <1>4, <3>1, FollowsOne
  <2> QED BY <1>2, <1>3, <1>4, <1>5, <2>1, <2>2
<1>6. CASE JoinsUp
  <2>1. UpLink = Link(next) /\ next # 0 /\ next \in FreeBlocks /\ Link(next) = mem[LinkAt(next)]
    BY <1>2, <1>3, <1>6 DEF UpLink, JoinsUp, Link
  <2>2. PICK m, h : /\ m = [a \in {LinkAt(p) : p \in FreeBlocks} |->
                               IF prev # 0 /\ a = LinkAt(prev) THEN Link(next) ELSE mem[a]]
                    /\ h = (IF prev = 0 THEN mem[LinkAt(next)] ELSE head)
    OBVIOUS
  <2>3. \A p \in FreeBlocks : m[LinkAt(p)] = IF p = prev THEN Link(next) ELSE mem[LinkAt(p)]
    <3>1. \A p \in FreeBlocks : LinkAt(p) = LinkAt(prev) /\ prev # 0 <=> p = prev
      BY <1>3, <1>4 DEF LinkAt
    <3> QED BY <2>2, <3>1
  <2>4. LinksPast(mem, m, FreeBlocks, prev, next)
    BY <2>1, <2>3 DEF LinksPast
  <2>5. prev \in FreeBlocks \cup {0}
    BY <1>3
  <2>6. IsChain(m, h, FreeBlocks \ {next}) /\ Follows(FreeBlocks \ {next}, prev, Link(next))
    <3>1. h = (IF prev = 0 THEN mem[LinkAt(next)] ELSE head)
      BY <2>2
    <3>2. /\ IsChain(m, h, FreeBlocks \ {next})
          /\ Follows(FreeBlocks \ {next}, prev, mem[LinkAt(next)])
      BY <1>3, <1>4, <2>1, <2>4, <2>5, <3>1, ChainWithout
    <3> QED BY <2>1, <3>2
  <2>7. Link(next) = 0 \/ x < Link(next)
    <3>1. Follows(FreeBlocks, next, Link(next))
      BY <1>4, <2>1 DEF IsChain
    <3>2. Link(next) = 0 \/ next < Link(next)
      BY <3>1 DEF Follows
    <3> QED BY <1>3, <2>1, <3>2
  <2>8. prev \in (FreeBlocks \ {next}) \cup {0}
    BY <1>3, <2>1
  <2>9. prev # 0 => h = head
    BY <2>2
  <2>10. \A p \in FreeBlocks \ {next} : m[LinkAt(p)] = IF p = prev THEN UpLink ELSE mem[LinkAt(p)]
    BY <2>1, <2>3
  <2>11. \E n, g : /\ IsChain(n, g, FreeBlocks \ {next})
                   /\ prev # 0 => g = head
                   /\ \A p \in FreeBlocks \ {next} :
                         n[LinkAt(p)] = IF p = prev THEN UpLink ELSE mem[LinkAt(p)]
    BY <2>6, <2>9, <2>10
  <2> QED BY <1>2, <1>6, <2>1, <2>6, <2>7, <2>8, <2>11
<1> QED BY <1>5, <1>6

\* The list after an insertion.
LEMMA InsertList ==
  ASSUME HeapInv, Insert
  PROVE  LET S == IF JoinsUp THEN FreeBlocks \ {release.current} ELSE FreeBlocks
         IN /\ FreeBlocks' = IF JoinsDown THEN S ELSE S \cup {release.object}
            /\ IsChain(mem', head', FreeBlocks')
<1>1. TypeOK /\ Geometry /\ ListOK /\ pc = "place" /\ Placed
  BY RowGeometry DEF HeapInv, Insert
<1>2. PICK x, prev, l : x = release.object /\ prev = release.previous /\ l = UpLink
  OBVIOUS
<1>3. PICK S : S = IF JoinsUp THEN FreeBlocks \ {release.current} ELSE FreeBlocks
  OBVIOUS
<1>4. /\ S \subseteq FreeBlocks /\ prev \in S \cup {0}
      /\ Follows(S, prev, l) /\ (l = 0 \/ x < l)
      /\ \E m, h : /\ IsChain(m, h, S)
                   /\ prev # 0 => h = head
                   /\ \A p \in S : m[LinkAt(p)] = IF p = prev THEN l ELSE mem[LinkAt(p)]
  BY <1>2, <1>3, UpList
<1>5. PICK m, h : /\ IsChain(m, h, S)
                  /\ prev # 0 => h = head
                  /\ \A p \in S : m[LinkAt(p)] = IF p = prev THEN l ELSE mem[LinkAt(p)]
  BY <1>4
<1>6. x \in blocks /\ x \in Nat \ {0} /\ x \in Objects /\ prev < x /\ x \notin FreeBlocks
  BY <1>1, <1>2, PlaceIs DEF Geometry
<1>7. S \subseteq Objects /\ S \subseteq Nat \ {0}
  BY <1>1, <1>4, ListIn DEF Objects
<1>8. /\ mem'[LinkAt(x)] = l
      /\ prev # 0 => mem'[LinkAt(prev)] = IF JoinsDown THEN l ELSE x
      /\ head' = IF prev = 0 THEN x ELSE head
      /\ \A p \in Objects \ {x, prev} : Untouched(p)
  BY <1>2, InsertWords
<1>9. \A p \in S : p # prev => mem'[LinkAt(p)] = mem[LinkAt(p)]
  <2> SUFFICES ASSUME NEW p \in S, p # prev PROVE mem'[LinkAt(p)] = mem[LinkAt(p)]
    OBVIOUS
  <2>1. p \in Objects /\ p # x
    BY <1>4, <1>6, <1>7
  <2> QED BY <1>1, <1>8, <2>1, UntouchedIs
<1>10. CASE JoinsDown
  <2>1. prev # 0
    BY <1>2, <1>10 DEF JoinsDown
  <2>2. \A p \in S : mem'[LinkAt(p)] = m[LinkAt(p)]
    BY <1>5, <1>8, <1>9, <1>10, <2>1
  <2>3. IsChain(mem', head', S)
    BY <1>5, <1>8, <2>1, <2>2, ChainSame
  <2>4. FreeBlocks' = S /\ IsChain(mem', head', FreeBlocks')
    BY <1>1, <1>7, <2>3, ListAfter
  <2> QED BY <1>3, <1>10, <2>4
<1>11. CASE ~JoinsDown
  <2>1. LinksTo(m, mem', S, prev, x)
    <3> SUFFICES ASSUME NEW p \in S
                 PROVE  mem'[LinkAt(p)] = IF p = prev THEN x ELSE m[LinkAt(p)]
      BY DEF LinksTo
    <3>1. p # 0
      BY <1>7
    <3> QED BY <1>5, <1>8, <1>9, <1>11, <3>1
  <2>2. PICK g : g = head'
    OBVIOUS
  <2>3. g = IF prev = 0 THEN x ELSE h
    BY <1>5, <1>8, <2>2
  <2>4. x \in Nat \ S
    BY <1>4, <1>6
  <2>5. IsChain(mem', g, S \cup {x})
    BY <1>4, <1>5, <1>6, <1>7, <1>8, <2>1, <2>3, <2>4, ChainWith
  <2>6. S \cup {x} \subseteq Objects
    BY <1>6, <1>7
  <2>7. FreeBlocks' = S \cup {x} /\ IsChain(mem', head', FreeBlocks')
    BY <1>1, <2>2, <2>5, <2>6, ListAfter
  <2> QED BY <1>2, <1>3, <1>11, <2>7
<1> QED BY <1>10, <1>11


\* The free neighbours of the object's block, if any, are those that the walk has found.
LEMMA NeighboursAre ==
  ASSUME HeapInv, Insert,
         NEW b, b = [root |-> release.object, cap |-> Capacity(release.object)]
  PROVE  /\ Row!Below(b) = IF JoinsDown
                           THEN {[root |-> release.previous, cap |-> Capacity(release.previous)]}
                           ELSE {}
         /\ Row!Above(b) = IF JoinsUp
                           THEN {[root |-> release.current, cap |-> Capacity(release.current)]}
                           ELSE {}
<1>1. TypeOK /\ Geometry /\ pc = "place" /\ Placed
  BY RowGeometry DEF HeapInv, Insert
<1>2. PICK x, prev, next : x = release.object /\ prev = release.previous /\ next = release.current
  OBVIOUS
<1>3. /\ x \in Objects /\ x \in Nat \ {0} /\ Capacity(x) \in Nat \ {0} /\ x \notin FreeBlocks
      /\ prev = 0 \/ (prev \in FreeBlocks /\ Capacity(prev) \in Nat \ {0})
      /\ next = 0 \/ (next \in FreeBlocks /\ Capacity(next) \in Nat \ {0})
      /\ prev \in Nat /\ next \in Nat
      /\ prev < x /\ (next = 0 \/ x < next)
      /\ Follows(FreeBlocks, prev, next)
  BY <1>1, <1>2, PlaceIs DEF Geometry
<1>4. \A p \in FreeBlocks : p \in Objects /\ p \in Nat \ {0} /\ Capacity(p) \in Nat \ {0}
  BY <1>1, InMemory DEF Objects
<1>5. Row!Start(b) = x - 6 /\ Row!End(b) = x + Capacity(x)
  BY <1>2 DEF Row!Start, Row!End, Header
<1>6. \A p : LET c == [root |-> p, cap |-> Capacity(p)]
             IN Row!Start(c) = p - 6 /\ Row!End(c) = p + Capacity(p)
  BY DEF Row!Start, Row!End, Header
<1>7. ASSUME NEW p \in FreeBlocks, p + Capacity(p) = x - 6 PROVE p = prev /\ prev # 0
  <2>1. p < x
    BY <1>3, <1>4, <1>7
  <2>2. p <= prev
    <3>1. p <= prev \/ next = 0 \/ next <= p
      BY <1>3 DEF Follows
    <3>2. next = 0 => p <= prev
      BY <1>3, <1>4 DEF Follows
    <3> QED BY <1>3, <1>4, <2>1, <3>1, <3>2
  <2>3. ASSUME p # prev PROVE FALSE
    <3>1. prev # 0 /\ prev \in FreeBlocks /\ prev \in Objects
      BY <1>3, <1>4, <2>2
    <3>2. p + Capacity(p) + 6 <= prev \/ prev + Capacity(prev) + 6 <= p
      BY <1>1, <1>4, <2>3, <3>1 DEF Geometry
    <3> QED BY <1>3, <1>4, <1>7, <2>2, <3>1, <3>2
  <2> QED BY <1>4, <2>3
<1>8. ASSUME NEW p \in FreeBlocks, p - 6 = x + Capacity(x) PROVE p = next /\ next # 0
  <2>1. x < p
    BY <1>3, <1>4, <1>8
  <2>2. next # 0 /\ next <= p
    <3>1. ~(p <= prev)
      BY <1>3, <1>4, <2>1
    <3> QED BY <1>3, <3>1 DEF Follows
  <2>3. ASSUME p # next PROVE FALSE
    <3>1. next \in FreeBlocks /\ next \in Objects
      BY <1>3, <1>4, <2>2
    <3>2. x + Capacity(x) + 6 <= next \/ next + Capacity(next) + 6 <= x
      BY <1>1, <1>3, <3>1 DEF Geometry
    <3> QED BY <1>3, <1>4, <1>8, <2>2, <2>3, <3>1, <3>2
  <2> QED BY <2>2, <2>3
<1>9. Row!Below(b) = {c \in RowOf(FreeBlocks) : Row!End(c) = x - 6}
  BY <1>5 DEF Row!Below
<1>10. Row!Above(b) = {c \in RowOf(FreeBlocks) : Row!Start(c) = x + Capacity(x)}
  BY <1>5 DEF Row!Above
<1>11. ASSUME JoinsDown PROVE Row!Below(b) = {[root |-> prev, cap |-> Capacity(prev)]}
  <2>1. prev \in FreeBlocks /\ prev + Capacity(prev) = x - 6
    BY <1>2, <1>3, <1>11 DEF JoinsDown
  <2> QED BY <1>6, <1>7, <1>9, <2>1 DEF RowOf
<1>12. ASSUME ~JoinsDown PROVE Row!Below(b) = {}
  <2>1. ASSUME NEW p \in FreeBlocks, p + Capacity(p) = x - 6 PROVE FALSE
    <3>1. p = prev /\ prev # 0
      BY <1>7, <2>1
    <3> QED BY <1>2, <1>3, <1>4, <1>12, <2>1, <3>1 DEF JoinsDown
  <2> QED BY <1>6, <1>9, <2>1 DEF RowOf
<1>13. ASSUME JoinsUp PROVE Row!Above(b) = {[root |-> next, cap |-> Capacity(next)]}
  <2>1. next \in FreeBlocks /\ next - 6 = x + Capacity(x)
    BY <1>2, <1>3, <1>13 DEF JoinsUp
  <2> QED BY <1>6, <1>8, <1>10, <2>1 DEF RowOf
<1>14. ASSUME ~JoinsUp PROVE Row!Above(b) = {}
  <2>1. ASSUME NEW p \in FreeBlocks, p - 6 = x + Capacity(x) PROVE FALSE
    <3>1. p = next /\ next # 0
      BY <1>8, <2>1
    <3> QED BY <1>2, <1>3, <1>4, <1>14, <2>1, <3>1 DEF JoinsUp
  <2> QED BY <1>6, <1>10, <2>1 DEF RowOf
<1> QED BY <1>2, <1>11, <1>12, <1>13, <1>14

\* The block of a freed object merges with both its free neighbours.
LEMMA InsertRow ==
  ASSUME HeapInv, Insert
  PROVE  Row!Next
<1>1. TypeOK /\ Geometry /\ pc = "place" /\ Placed
  BY RowGeometry DEF HeapInv, Insert
<1>2. PICK x, prev, next : x = release.object /\ prev = release.previous /\ next = release.current
  OBVIOUS
<1>3. PICK b, bp, bn : /\ b = [root |-> x, cap |-> Capacity(x)]
                       /\ bp = [root |-> prev, cap |-> Capacity(prev)]
                       /\ bn = [root |-> next, cap |-> Capacity(next)]
  OBVIOUS
<1>4. /\ x \in blocks /\ x \in Nat \ {0} /\ Capacity(x) \in Nat \ {0} /\ x \notin FreeBlocks
      /\ prev = 0 \/ (prev \in FreeBlocks /\ Capacity(prev) \in Nat \ {0})
      /\ next = 0 \/ (next \in FreeBlocks /\ Capacity(next) \in Nat \ {0})
      /\ prev \in Nat /\ next \in Nat /\ UpCapacity \in Nat /\ prev < x
      /\ next = 0 \/ x < next
  BY <1>1, <1>2, PlaceIs DEF Geometry
<1>5. /\ Row!Below(b) = IF JoinsDown THEN {bp} ELSE {}
      /\ Row!Above(b) = IF JoinsUp THEN {bn} ELSE {}
  BY <1>2, <1>3, NeighboursAre
<1>6. PICK h, c : /\ h = (IF JoinsDown THEN prev ELSE x)
                  /\ c = (IF JoinsDown THEN Capacity(prev) + 6 + UpCapacity ELSE UpCapacity)
  OBVIOUS
<1>7. Row!First(b).root = h
  <2>1. CASE JoinsDown
    <3>1. Row!First(b) = bp
      BY <1>5, <2>1 DEF Row!First
    <3> QED BY <1>3, <1>6, <2>1, <3>1
  <2>2. CASE ~JoinsDown
    <3>1. Row!First(b) = b
      BY <1>5, <2>2 DEF Row!First
    <3> QED BY <1>3, <1>6, <2>2, <3>1
  <2> QED BY <2>1, <2>2
<1>8. Row!End(Row!Last(b)) = x + UpCapacity
  <2>1. CASE JoinsUp
    <3>1. Row!Last(b) = bn
      BY <1>5, <2>1 DEF Row!Last
    <3>2. Row!End(bn) = next + Capacity(next)
      BY <1>3 DEF Row!End
    <3>3. next # 0 /\ x + Capacity(x) + 6 = next /\ UpCapacity = Capacity(x) + 6 + Capacity(next)
      BY <1>2, <2>1 DEF JoinsUp, UpCapacity
    <3> QED BY <1>4, <3>1, <3>2, <3>3
  <2>2. CASE ~JoinsUp
    <3>1. Row!Last(b) = b
      BY <1>5, <2>2 DEF Row!Last
    <3>2. Row!End(b) = x + Capacity(x)
      BY <1>3 DEF Row!End
    <3> QED BY <1>2, <2>2, <3>1, <3>2 DEF UpCapacity
  <2> QED BY <2>1, <2>2
<1>9. Row!End(Row!Last(b)) - Row!First(b).root = c
  <2>1. CASE JoinsDown
    <3>1. prev # 0 /\ prev + Capacity(prev) + 6 = x
      BY <1>2, <2>1 DEF JoinsDown
    <3> QED BY <1>4, <1>6, <1>7, <1>8, <2>1, <3>1
  <2>2. CASE ~JoinsDown
    BY <1>4, <1>6, <1>7, <1>8, <2>2
  <2> QED BY <2>1, <2>2
<1>10. PICK S : S = IF JoinsUp THEN FreeBlocks \ {next} ELSE FreeBlocks
  OBVIOUS
<1>11. PICK R : R = IF JoinsDown THEN S \ {prev} ELSE S
  OBVIOUS
<1>12. FreeBlocks' = R \cup {h} /\ h \notin R
  <2>1. FreeBlocks' = IF JoinsDown THEN S ELSE S \cup {x}
    BY <1>2, <1>10, InsertList
  <2>2. JoinsDown => prev \in S
    <3>1. prev # next \/ prev = 0
      BY <1>4
    <3> QED BY <1>2, <1>4, <1>10, <3>1 DEF JoinsDown
  <2>3. x \notin S
    BY <1>4, <1>10
  <2> QED BY <1>6, <1>11, <2>1, <2>2, <2>3
<1>13. mem'[CapacityAt(h)] = c
  <2>1. JoinsDown => prev # 0
    BY <1>2 DEF JoinsDown
  <2> QED BY <1>2, <1>6, <2>1, InsertWords
<1>14. \A p \in Objects \ {x} : p # h => mem'[CapacityAt(p)] = mem[CapacityAt(p)]
  <2> SUFFICES ASSUME NEW p \in Objects \ {x}, p # h
               PROVE  mem'[CapacityAt(p)] = mem[CapacityAt(p)]
    OBVIOUS
  <2>1. CASE p = prev
    <3>1. ~JoinsDown /\ prev # 0
      BY <1>1, <1>6, <2>1, InMemory
    <3> QED BY <1>2, <2>1, <3>1, InsertWords DEF Capacity
  <2>2. CASE p # prev
    <3>1. Untouched(p)
      BY <1>2, <2>2, InsertWords
    <3> QED BY <1>1, <3>1, UntouchedIs DEF Capacity
  <2> QED BY <2>1, <2>2
<1>15. RowOf(FreeBlocks)' = RowOf(R) \cup {[root |-> h, cap |-> c]}
  <2>1. RowOf(FreeBlocks)' = {[root |-> p, cap |-> mem'[CapacityAt(p)]] : p \in R \cup {h}}
    BY <1>12 DEF RowOf, Capacity
  <2>2. R \subseteq Objects \ {x}
    BY <1>4, <1>10, <1>11 DEF Objects
  <2>3. \A p \in R : mem'[CapacityAt(p)] = mem[CapacityAt(p)]
    BY <1>12, <1>14, <2>2
  <2> QED BY <1>13, <2>1, <2>3 DEF RowOf, Capacity
<1>16. RowOf(R) = RowOf(FreeBlocks) \ (Row!Below(b) \cup Row!Above(b))
  <2>1. \A p : [root |-> p, cap |-> Capacity(p)] = bp <=> p = prev
    BY <1>3
  <2>2. \A p : [root |-> p, cap |-> Capacity(p)] = bn <=> p = next
    BY <1>3
  <2>3. R = {p \in FreeBlocks : (JoinsDown => p # prev) /\ (JoinsUp => p # next)}
    BY <1>10, <1>11
  <2> QED BY <1>5, <2>1, <2>2, <2>3 DEF RowOf
<1>17. RowOf(blocks)' = RowOf(blocks) \ {b}
  <2>1. blocks' = blocks \ {x}
    BY <1>2 DEF Insert
  <2>2. \A p \in blocks \ {x} : mem'[CapacityAt(p)] = mem[CapacityAt(p)]
    <3>1. \A p \in blocks \ {x} : p \in Objects \ {x} /\ p # h
      <4>1. h = x \/ h \in FreeBlocks
        BY <1>2, <1>4, <1>6 DEF JoinsDown
      <4> QED BY <1>1, <4>1 DEF Objects, Geometry
    <3> QED BY <1>14, <3>1
  <2>3. RowOf(blocks)' = {[root |-> p, cap |-> mem'[CapacityAt(p)]] : p \in blocks \ {x}}
    BY <2>1 DEF RowOf, Capacity
  <2>4. \A p : [root |-> p, cap |-> Capacity(p)] = b <=> p = x
    BY <1>3
  <2> QED BY <2>2, <2>3, <2>4 DEF RowOf, Capacity
<1>18. b \in RowOf(blocks)
  BY <1>3, <1>4 DEF RowOf
<1>19. top' = top
  BY DEF Insert
<1>20. Row!Block(Row!First(b).root, Row!End(Row!Last(b)) - Row!First(b).root)
          = [root |-> h, cap |-> c]
  BY <1>7, <1>9 DEF Row!Block
<1>21. Row!Free(b)
  BY <1>15, <1>16, <1>17, <1>18, <1>19, <1>20 DEF Row!Free
<1> QED BY <1>18, <1>21 DEF Row!Next

\* Putting a block back keeps the invariant and is the row's Free.
LEMMA InsertInv == HeapInv /\ Insert => HeapInv' /\ Row!Next
<1> SUFFICES ASSUME HeapInv, Insert PROVE HeapInv' /\ Row!Next
  OBVIOUS
<1>1. TypeOK /\ Geometry /\ ListOK /\ FreshOK /\ Placed
  BY RowGeometry DEF HeapInv, Insert
<1>2. PICK kept \in SUBSET blocks, work \in SUBSET blocks : Ownership(kept, work)
  BY DEF HeapInv
<1>3. PartsOK(kept, work) /\ ChildrenOK(kept, work) /\ ReleaseOK(work) /\ CopyOK(kept, work)
  BY <1>2 DEF Ownership
<1>4. PICK x : x = release.object
  OBVIOUS
<1>5. /\ pc = "place" /\ pc' = "pending" /\ blocks' = blocks \ {x}
      /\ UNCHANGED <<pages, top, allocs, frees, alloc, release, copy, args, owned>>
  BY <1>4 DEF Insert
<1>6. InRelease /\ ~InCopy /\ Falling = {x} /\ x \in blocks \ (kept \cup work)
  BY <1>3, <1>4, <1>5 DEF Stage, Falling, InRelease, InCopy, PartsOK
<1>7. Stage' = "pending" /\ Fresh' = {} /\ Falling' = {} /\ InRelease' /\ ~InCopy'
  BY <1>5 DEF Stage, Fresh, Falling, InRelease, InCopy
<1>8. \A p \in blocks' : p \in blocks /\ p \in Objects /\ Untouched(p)
  <2> SUFFICES ASSUME NEW p \in blocks' PROVE p \in blocks /\ p \in Objects /\ Untouched(p)
    OBVIOUS
  <2>1. p \in blocks /\ p \in Objects /\ p # x /\ p \notin FreeBlocks /\ p # 0
    BY <1>1, <1>5, InMemory DEF Objects, Geometry
  <2>2. release.previous = 0 \/ release.previous \in FreeBlocks
    BY <1>1, <1>5 DEF ListOK, Walks
  <2> QED BY <1>4, <2>1, <2>2, InsertWords
<1>9. TypeOK'
  <2>1. mem' \in [Addresses -> Nat] /\ head' \in Addresses
    <3>1. x \in Addresses
      BY <1>1, <1>6 DEF TypeOK
    <3> QED BY <1>1, <1>4, <3>1, InsertWords DEF Memories, TypeOK
  <2>2. owned' \subseteq blocks' /\ blocks' \subseteq Addresses \ {0}
    BY <1>1, <1>3, <1>5, <1>6 DEF TypeOK, PartsOK
  <2> QED BY <1>1, <1>5, <2>1, <2>2 DEF TypeOK
<1>10. RowInv'
  BY InsertRow, RowKept DEF HeapInv
<1>11. ListOK'
  BY <1>5, InsertList DEF ListOK
<1>12. FreshOK'
  BY <1>5, <1>7 DEF FreshOK
<1>13. kept \subseteq blocks' /\ work \subseteq blocks'
  BY <1>5, <1>6
<1>14. PartsOK(kept, work)'
  <2>1. \A p \in kept : Kept(p)'
    <3> SUFFICES ASSUME NEW p \in kept PROVE Kept(p)'
      OBVIOUS
    <3>1. p \in Objects /\ Untouched(p) /\ Kept(p) /\ (p \in owned => p \in owned')
      BY <1>3, <1>8, <1>13, <1>5 DEF PartsOK
    <3> QED BY <1>1, <3>1, KeptKeeps
  <2> QED BY <1>3, <1>5, <1>7, <1>13, <2>1 DEF PartsOK
<1>15. ASSUME NEW p \in blocks', NEW i \in ChildSlots, Holds(kept, work, p, i)'
       PROVE  /\ p \in blocks /\ Holds(kept, work, p, i)
              /\ mem'[p + i] = mem[p + i] /\ mem[p + i] \in kept \ owned'
  <2>1. (p \in kept \/ p \in work) /\ IsRecord(p)'
    BY <1>5, <1>7, <1>15 DEF Holds
  <2>2. IsRecord(p) /\ Shaped(p)
    BY <1>1, <1>3, <1>6, <1>8, <2>1, UntouchedKeeps DEF PartsOK, Kept, Whole, ReleaseOK
  <2>3. i \in Nat /\ i < Width /\ Width <= Capacity(p) /\ Capacity(p) \in Nat /\ Width \in Nat
    BY <1>1, <1>8, <2>2, ShapedRecord, SlotTypes, Sizes DEF Geometry
  <2>4. i < Capacity(p)
    BY <2>3
  <2>5. mem'[p + i] = mem[p + i]
    BY <1>1, <1>8, <2>3, <2>4, UntouchedIs
  <2>6. Holds(kept, work, p, i)
    BY <1>6, <1>15, <2>1, <2>2, <2>5 DEF Holds
  <2>7. mem[p + i] \in kept \ owned
    BY <1>3, <1>8, <2>6 DEF ChildrenOK
  <2> QED BY <1>5, <1>8, <2>5, <2>6, <2>7
<1>16. ChildrenOK(kept, work)'
  BY <1>3, <1>15, ChildrenKeep
<1>17. ReleaseOK(work)'
  <2>1. \A p \in work : mem'[CountAt(p)] = mem[CountAt(p)] /\ Shaped(p)'
    BY <1>1, <1>3, <1>6, <1>8, <1>13, UntouchedIs, UntouchedKeeps DEF ReleaseOK
  <2>2. Linked(work, release.pending)'
    BY <1>3, <1>5, <1>6, <2>1 DEF ReleaseOK, Linked
  <2> QED BY <1>3, <1>5, <1>6, <1>7, <2>1, <2>2 DEF ReleaseOK
<1>18. CopyOK(kept, work)'
  BY <1>7 DEF CopyOK
<1>19. kept \in SUBSET blocks' /\ work \in SUBSET blocks'
  BY <1>13
<1>20. NoneLost(kept, work)'
  <2>1. NoneLost(kept, work) /\ pc # "trapped" /\ Fresh = {}
    BY <1>2, <1>5 DEF Ownership, Fresh
  <2>2. PICK own : own = owned' /\ own = owned
    BY <1>5
  <2>3. SlotsStay(kept, work, kept, work, kept \ own)
    <3> SUFFICES ASSUME NEW p \in blocks, NEW i \in ChildSlots, Holds(kept, work, p, i)
                 PROVE  p \in blocks' /\ Holds(kept, work, p, i)' /\ mem'[p + i] = mem[p + i]
      BY DEF SlotsStay
    <3>1. IsRecord(p) /\ (p \in kept \/ p \in work) /\ p \in blocks'
      BY <1>5, <1>6, <1>13 DEF Holds
    <3>2. /\ mem'[p + i] = mem[p + i] /\ mem'[p + i] # 0
          /\ IsRecord(p)' <=> IsRecord(p)
      BY <1>1, <1>3, <1>8, <3>1, HoldsStays
    <3> QED BY <1>5, <1>7, <3>1, <3>2, ChildSlotsSame DEF Holds
  <2>4. Grounded(kept, work)'
    BY <2>1, <2>2, <2>3, GroundedStays DEF NoneLost
  <2>5. \A q \in work : mem'[CountAt(q)] = mem[CountAt(q)]
    BY <1>1, <1>8, <1>13, UntouchedIs
  <2>6. Reached(mem', work, release.pending)
    BY <1>6, <2>1, <2>5, ReachedSame DEF NoneLost
  <2>7. blocks' \subseteq kept \cup work
    BY <1>5, <1>6, <2>1 DEF NoneLost
  <2> QED BY <1>5, <1>7, <2>4, <2>6, <2>7 DEF NoneLost
<1> QED BY <1>9, <1>10, <1>11, <1>12, <1>14, <1>16, <1>17, <1>18, <1>19, <1>20, InsertRow
        DEF HeapInv, Ownership


-----------------------------------------------------------------------------
(* The program: calls of alloc. *)

\* A program's call of alloc, for values it may have.
LEMMA CallKeeps ==
  ASSUME HeapInv, pc = "program", NEW need \in Needs,
         NEW then \in {"array", "record", "header", "copyRoot"},
         CallAlloc(need, then), UNCHANGED <<mem, globals, release, owned, blocks>>,
         \A i \in DOMAIN args' : args'[i] \in Nat,
         copy' \in [source : Addresses, result : Addresses, current : Addresses],
         then = "array" => \E n \in Lengths : args' \in [0..n -> Nat] /\ n + 1 <= need,
         then = "record" => args' \in Fields,
         then # "array" => Width <= need,
         then = "copyRoot" => copy'.source \in Records
  PROVE  HeapInv' /\ [Row!Next]_(Row!vars)
<1>1. TypeOK /\ Geometry /\ ListOK /\ FreshOK
  BY RowGeometry DEF HeapInv
<1>2. PICK kept \in SUBSET blocks, work \in SUBSET blocks : Ownership(kept, work)
  BY DEF HeapInv
<1>3. PartsOK(kept, work) /\ ChildrenOK(kept, work) /\ ReleaseOK(work) /\ CopyOK(kept, work)
  BY <1>2 DEF Ownership
<1>4. /\ pc' = "search" /\ alloc' = [NoAlloc EXCEPT !.need = need, !.current = head, !.then = then]
      /\ UNCHANGED <<mem, globals, release, owned, blocks>>
  BY DEF CallAlloc
<1>5. need \in Nat /\ 0 \in Addresses /\ head \in Addresses
  BY <1>1, NeedsPositive, ListIn
<1>6. /\ alloc'.need = need /\ alloc'.previous = 0 /\ alloc'.current = head /\ alloc'.then = then
      /\ alloc' \in [need : Nat, previous : Addresses, current : Addresses, root : Addresses,
                     then : {"program", "array", "record", "header", "copyRoot", "copyChild"}]
  BY <1>4, <1>5 DEF NoAlloc
<1>7. /\ Stage' = then /\ Stage = "program" /\ Fresh' = {} /\ Falling' = {}
      /\ ~InRelease' /\ ~InCopy' /\ ~InRelease /\ ~InCopy /\ Room' = need
  BY <1>4, <1>6 DEF Stage, Fresh, Falling, InRelease, InCopy, Room
<1>8. Quiet({})
  BY <1>4, QuietStutter DEF globals
<1>9. FreeBlocks' = FreeBlocks /\ IsChain(mem', head', FreeBlocks') /\ RowInv'
      /\ [Row!Next]_(Row!vars)
  BY <1>8, QuietKeeps
<1>10. TypeOK'
  BY <1>1, <1>4, <1>6 DEF TypeOK, globals
<1>11. ListOK'
  <2>1. Follows(FreeBlocks, 0, head)
    BY <1>1 DEF ListOK, IsChain
  <2>2. Walks(alloc.previous, alloc.current)'
    BY <1>6, <1>9, <2>1 DEF Walks
  <2>3. \A p \in FreeBlocks' : ~(p <= alloc'.previous)
    <3>1. \A p \in FreeBlocks : p \in Nat \ {0}
      BY <1>1, ListIn
    <3> QED BY <1>6, <1>9, <3>1
  <2> QED BY <1>4, <1>9, <2>2, <2>3 DEF ListOK
<1>12. Fields' = Fields
  BY <1>4 DEF Fields, Records, IsRecord, ChildSlots, Bit
<1>13. FreshOK'
  <2>1. need \in {allocSize(8 * (n + 1)) : n \in Lengths} \cup {Width}
    BY DEF Needs
  <2> QED BY <1>4, <1>6, <1>7, <1>12, <2>1 DEF FreshOK
<1>14. work = {}
  BY <1>3, <1>7 DEF ReleaseOK
<1>15. PartsOK(kept, work)'
  BY <1>3, <1>4, <1>7 DEF PartsOK, Kept, Whole, Shaped, Capacity, IsRecord
<1>16. ChildrenOK(kept, work)'
  <2>1. \A p, i : Holds(kept, work, p, i)' => Holds(kept, work, p, i)
    BY <1>4, <1>7 DEF Holds, IsRecord, ChildSlots, Bit
  <2> QED BY <1>3, <1>4, <2>1 DEF ChildrenOK, ChildSlots, Bit
<1>17. ReleaseOK(work)'
  BY <1>3, <1>4, <1>7, <1>14 DEF ReleaseOK
<1>18. CopyOK(kept, work)'
  <2>1. then = "copyRoot" => Source(kept, copy.source)'
    BY <1>3, <1>4 DEF PartsOK, Records, Source, IsRecord
  <2> QED BY <1>7, <2>1 DEF CopyOK
<1>19. blocks' = blocks
  BY <1>4
<1>20. NoneLost(kept, work)'
  <2>1. NoneLost(kept, work) /\ Fresh = {} /\ Falling = {}
    BY <1>2 DEF Ownership, Fresh, Falling
  <2>2. \A p, i : Holds(kept, work, p, i) => Holds(kept, work, p, i)'
    BY <1>4, <1>14, ChildSlotsSame DEF Holds, IsRecord
  <2>3. Grounded(kept, work)'
    BY <1>4, <2>1, <2>2, ChildSlotsSame DEF NoneLost, Grounded
  <2> QED BY <1>4, <1>7, <2>1, <2>3 DEF NoneLost
<1> QED BY <1>2, <1>9, <1>10, <1>11, <1>13, <1>15, <1>16, <1>17, <1>18, <1>19, <1>20
        DEF HeapInv, Ownership

\* What a program puts in a record are words.
LEMMA FieldsAre ==
  ASSUME TypeOK, NEW f \in Fields
  PROVE  /\ f \in [0..(Width - 1) -> Nat] /\ DOMAIN f = 0..(Width - 1)
         /\ \A i \in ChildSlots : f[i] \in Records \cup {0}
         /\ \A i, j \in ChildSlots : f[i] = f[j] /\ f[i] # 0 => i = j
         /\ ChildrenOf(f) \subseteq Records
<1>1. f \in [0..(Width - 1) -> Words \cup Records \cup {0}]
  BY DEF Fields
<1>2. Words \cup Records \cup {0} \subseteq Nat
  <2>1. Words \subseteq Nat
    BY Sizes
  <2>2. Addresses \subseteq Nat
    BY Sizes
  <2>3. Records \subseteq Addresses
    BY DEF TypeOK, Records
  <2> QED BY <2>1, <2>2, <2>3
<1>3. f \in [0..(Width - 1) -> Nat] /\ DOMAIN f = 0..(Width - 1)
  BY <1>1, <1>2
<1>4. ASSUME NEW i \in ChildSlots PROVE f[i] \in Records \cup {0}
  <2>1. i \in 0..(Width - 1)
    BY Sizes
  <2> QED BY <2>1 DEF Fields
<1>5. \A i, j \in ChildSlots : f[i] = f[j] /\ f[i] # 0 => i = j
  BY DEF Fields
<1>6. ChildrenOf(f) \subseteq Records
  BY <1>4 DEF ChildrenOf
<1> QED BY <1>3, <1>4, <1>5, <1>6

\* Asking for an array keeps the invariant.
LEMMA NewArrayInv ==
  ASSUME HeapInv, NEW length \in Lengths, NEW word \in Words, NewArray(length, word)
  PROVE  HeapInv' /\ [Row!Next]_(Row!vars)
<1>1. TypeOK
  BY DEF HeapInv
<1>2. PICK need : need = allocSize(8 * (length + 1))
  OBVIOUS
<1>3. length \in Nat /\ word \in Nat
  BY Sizes
<1>4. need \in Needs /\ need = length + 1
  BY <1>2, <1>3, AllocSizeIs DEF Needs
<1>5. /\ pc = "program" /\ CallAlloc(need, "array")
      /\ args' = [i \in 0..length |-> IF i = 0 THEN length ELSE word]
      /\ UNCHANGED <<mem, globals, release, copy, owned, blocks>>
  BY <1>2 DEF NewArray
<1>6. args' \in [0..length -> Nat] /\ DOMAIN args' = 0..length
  BY <1>3, <1>5
<1>7. \A i \in DOMAIN args' : args'[i] \in Nat
  BY <1>6
<1>8. length + 1 <= need
  BY <1>3, <1>4
<1>9. copy' \in [source : Addresses, result : Addresses, current : Addresses]
  BY <1>1, <1>5 DEF TypeOK
<1>10. \E n \in Lengths : args' \in [0..n -> Nat] /\ n + 1 <= need
  BY <1>6, <1>8
<1> QED BY <1>4, <1>5, <1>7, <1>9, <1>10, CallKeeps

\* Asking for a record keeps the invariant.
LEMMA NewRecordInv ==
  ASSUME HeapInv, NEW f \in Fields, NewRecord(f)
  PROVE  HeapInv' /\ [Row!Next]_(Row!vars)
<1>1. TypeOK
  BY DEF HeapInv
<1>2. Width \in Needs /\ Width <= Width
  BY Sizes DEF Needs
<1>3. /\ pc = "program" /\ CallAlloc(Width, "record") /\ args' = f
      /\ UNCHANGED <<mem, globals, release, copy, owned, blocks>>
  BY DEF NewRecord
<1>4. \A i \in DOMAIN args' : args'[i] \in Nat
  BY <1>1, <1>3, FieldsAre
<1>5. copy' \in [source : Addresses, result : Addresses, current : Addresses]
  BY <1>1, <1>3 DEF TypeOK
<1> QED BY <1>2, <1>3, <1>4, <1>5, CallKeeps

\* Asking for a header's copy keeps the invariant.
LEMMA CopyHeaderInv ==
  ASSUME HeapInv, NEW ptr \in owned, CopyHeader(ptr)
  PROVE  HeapInv' /\ [Row!Next]_(Row!vars)
<1>1. TypeOK
  BY DEF HeapInv
<1>2. Width \in Needs /\ Width <= Width
  BY Sizes DEF Needs
<1>3. /\ pc = "program" /\ CallAlloc(Width, "header")
      /\ UNCHANGED <<mem, globals, release, copy, args, owned, blocks>>
  BY DEF CopyHeader
<1>4. \A i \in DOMAIN args' : args'[i] \in Nat
  BY <1>1, <1>3 DEF TypeOK
<1>5. copy' \in [source : Addresses, result : Addresses, current : Addresses]
  BY <1>1, <1>3 DEF TypeOK
<1> QED BY <1>2, <1>3, <1>4, <1>5, CallKeeps

\* Asking for a copy's first record keeps the invariant.
LEMMA CopyInv ==
  ASSUME HeapInv, NEW ptr \in owned, Copy(ptr)
  PROVE  HeapInv' /\ [Row!Next]_(Row!vars)
<1>1. TypeOK
  BY DEF HeapInv
<1>2. Width \in Needs /\ Width <= Width
  BY Sizes DEF Needs
<1>3. /\ pc = "program" /\ CallAlloc(Width, "copyRoot") /\ ptr \in Records
      /\ copy' = [NoCopy EXCEPT !.source = ptr]
      /\ UNCHANGED <<mem, globals, release, args, owned, blocks>>
  BY DEF Copy
<1>4. \A i \in DOMAIN args' : args'[i] \in Nat
  BY <1>1, <1>3 DEF TypeOK
<1>5. copy' \in [source : Addresses, result : Addresses, current : Addresses] /\ copy'.source = ptr
  <2>1. 0 \in Addresses /\ ptr \in Addresses
    BY <1>1, Sizes DEF TypeOK
  <2> QED BY <1>3, <2>1 DEF NoCopy
<1> QED BY <1>2, <1>3, <1>4, <1>5, CallKeeps


-----------------------------------------------------------------------------
(* The program: what it does with an object that alloc has returned. *)

\* A step that writes within one object, and not its capacity.
LEMMA WritesIn ==
  ASSUME HeapInv, NEW x \in blocks, mem' \in Memories, OnlyIn(x),
         mem'[CapacityAt(x)] = mem[CapacityAt(x)], UNCHANGED <<globals, blocks>>
  PROVE  /\ FreeBlocks' = FreeBlocks /\ IsChain(mem', head', FreeBlocks') /\ RowInv'
         /\ [Row!Next]_(Row!vars)
         /\ Capacity(x)' = Capacity(x)
         /\ \A p \in blocks \ {x} : p \in Objects /\ Untouched(p)
<1>1. TypeOK /\ Geometry /\ x \in Objects
  BY RowGeometry DEF HeapInv, Objects
<1>2. \A p \in Objects \ {x} : Untouched(p)
  BY <1>1, OthersUntouched
<1>3. Quiet({x})
  BY <1>2 DEF Quiet, globals
<1> QED BY <1>1, <1>2, <1>3, QuietKeeps DEF Objects

\* A new header or array belongs to the program.
LEMMA FilledKeeps ==
  ASSUME HeapInv, NEW x \in Fresh, pc \in {"array", "header"},
         mem' \in Memories, OnlyIn(x), mem'[CapacityAt(x)] = mem[CapacityAt(x)],
         Whole(x)', ~IsRecord(x)', owned' = owned \cup {x}, Return
  PROVE  HeapInv' /\ [Row!Next]_(Row!vars)
<1>1. TypeOK /\ Geometry
  BY RowGeometry DEF HeapInv
<1>2. PICK kept \in SUBSET blocks, work \in SUBSET blocks : Ownership(kept, work)
  BY DEF HeapInv
<1>3. PartsOK(kept, work) /\ ChildrenOK(kept, work) /\ ReleaseOK(work) /\ CopyOK(kept, work)
  BY <1>2 DEF Ownership
<1>4. /\ pc' = "program" /\ alloc' = NoAlloc /\ args' = <<>>
      /\ UNCHANGED <<globals, release, copy, blocks>>
  BY DEF Return
<1>5. /\ ~InRelease /\ ~InCopy /\ ~InRelease' /\ ~InCopy' /\ pc # "drop" /\ pc' # "drop"
      /\ Stage' = "program" /\ Fresh' = {} /\ Falling' = {}
  BY <1>4 DEF Stage, InRelease, InCopy, Fresh, Falling
<1>6. x \in blocks /\ x \notin kept /\ work = {}
  BY <1>3, <1>5 DEF PartsOK, ReleaseOK
<1>7. /\ FreeBlocks' = FreeBlocks /\ IsChain(mem', head', FreeBlocks') /\ RowInv'
      /\ [Row!Next]_(Row!vars)
      /\ \A p \in blocks \ {x} : p \in Objects /\ Untouched(p)
  BY <1>4, <1>6, WritesIn
<1>8. TypeOK'
  <2>1. 0 \in Addresses
    BY <1>1, <1>6, Sizes DEF TypeOK
  <2>2. alloc' \in [need : Nat, previous : Addresses, current : Addresses, root : Addresses,
                    then : {"program", "array", "record", "header", "copyRoot", "copyChild"}]
    BY <1>4, <2>1 DEF NoAlloc
  <2>3. \A i \in DOMAIN args' : args'[i] \in Nat
    BY <1>4
  <2> QED BY <1>1, <1>4, <1>6, <2>2, <2>3 DEF TypeOK, globals, Memories
<1>9. ListOK'
  BY <1>4, <1>7 DEF ListOK
<1>10. FreshOK'
  BY <1>4, <1>5 DEF FreshOK
<1> DEFINE kept2 == kept \cup {x}
<1>11. PartsOK(kept2, work)'
  <2>1. \A p \in kept : Kept(p)'
    <3> SUFFICES ASSUME NEW p \in kept PROVE Kept(p)'
      OBVIOUS
    <3>1. p \in Objects /\ Untouched(p) /\ Kept(p) /\ (p \in owned => p \in owned')
      BY <1>3, <1>6, <1>7 DEF PartsOK
    <3> QED BY <1>1, <3>1, KeptKeeps
  <2>2. Kept(x)'
    BY DEF Kept
  <2> QED BY <1>3, <1>4, <1>5, <1>6, <2>1, <2>2 DEF PartsOK
<1>12. ChildrenOK(kept2, work)'
  <2>1. ASSUME NEW p \in blocks', NEW i \in ChildSlots, Holds(kept2, work, p, i)'
        PROVE  /\ p \in blocks /\ Holds(kept, work, p, i)
               /\ mem'[p + i] = mem[p + i] /\ mem[p + i] \in kept2 \ owned'
    <3>1. p \in kept /\ p \in blocks /\ p # x /\ IsRecord(p)'
      BY <1>4, <1>5, <1>6, <2>1 DEF Holds
    <3>2. Untouched(p) /\ p \in Objects
      BY <1>7, <3>1
    <3>3. IsRecord(p)
      BY <1>1, <3>1, <3>2, UntouchedKeeps
    <3>4. i \in Nat /\ i < Width /\ Width <= Capacity(p)
      BY <1>3, <3>1, <3>3, ShapedRecord, SlotTypes DEF PartsOK, Kept, Whole
    <3>5. i < Capacity(p)
      BY <1>1, <3>2, <3>4, Sizes DEF Geometry
    <3>6. mem'[p + i] = mem[p + i]
      BY <1>1, <3>2, <3>4, <3>5, UntouchedIs
    <3>7. Holds(kept, work, p, i)
      BY <2>1, <3>1, <3>3, <3>6 DEF Holds
    <3>8. mem[p + i] \in kept \ owned
      BY <1>3, <3>1, <3>7 DEF ChildrenOK
    <3>9. mem[p + i] # x
      BY <1>6, <3>8
    <3> QED BY <3>1, <3>6, <3>7, <3>8, <3>9
  <2> HIDE DEF kept2
  <2> QED BY <1>3, <2>1, ChildrenKeep
<1>13. ReleaseOK(work)'
  BY <1>3, <1>4, <1>5, <1>6 DEF ReleaseOK
<1>14. CopyOK(kept2, work)'
  BY <1>5 DEF CopyOK
<1>15. blocks' = blocks /\ kept2 \in SUBSET blocks
  BY <1>4, <1>6
<1>16. NoneLost(kept2, work)'
  <2>1. NoneLost(kept, work) /\ pc # "trapped" /\ Fresh = {x} /\ Falling = {}
    BY <1>2 DEF Ownership, Fresh, Falling
  <2>2. PICK own : own = owned' /\ own = owned \cup {x}
    OBVIOUS
  <2>3. SlotsStay(kept, work, kept2, work, kept2 \ own)
    <3> SUFFICES ASSUME NEW p \in blocks, NEW i \in ChildSlots, Holds(kept, work, p, i)
                 PROVE  p \in blocks' /\ Holds(kept2, work, p, i)' /\ mem'[p + i] = mem[p + i]
      BY DEF SlotsStay
    <3>1. p \in kept /\ IsRecord(p) /\ p # x
      BY <1>5, <1>6 DEF Holds
    <3>2. /\ mem'[p + i] = mem[p + i] /\ mem'[p + i] # 0
          /\ IsRecord(p)' <=> IsRecord(p)
      BY <1>1, <1>3, <1>7, <3>1, HoldsStays
    <3> QED BY <1>4, <3>1, <3>2, ChildSlotsSame DEF Holds
  <2>4. kept2 \ own \subseteq kept \ owned
    BY <2>2
  <2>5. blocks' \subseteq kept2 \cup work
    BY <1>4, <2>1 DEF NoneLost
  <2> HIDE DEF kept2
  <2>6. Grounded(kept2, work)'
    BY <2>1, <2>2, <2>3, <2>4, GroundedStays DEF NoneLost
  <2> QED BY <1>5, <2>5, <2>6 DEF NoneLost
<1> HIDE DEF kept2
<1> QED BY <1>7, <1>8, <1>9, <1>10, <1>11, <1>12, <1>13, <1>14, <1>15, <1>16 DEF HeapInv, Ownership

\* The words of an array are written into its payload.
LEMMA FillArrayInv == HeapInv /\ FillArray => HeapInv' /\ [Row!Next]_(Row!vars)
<1> SUFFICES ASSUME HeapInv, FillArray PROVE HeapInv' /\ [Row!Next]_(Row!vars)
  OBVIOUS
<1>1. TypeOK /\ Geometry /\ FreshOK
  BY RowGeometry DEF HeapInv
<1>2. PICK x : x = alloc.root
  OBVIOUS
<1>3. /\ pc = "array" /\ mem' = Stored(mem, x, args) /\ owned' = owned \cup {x} /\ Return
  BY <1>2 DEF FillArray
<1>4. Fresh = {x} /\ Stage = "array" /\ Room = Capacity(x)
  BY <1>2, <1>3 DEF Fresh, Stage, Room
<1>5. x \in blocks /\ x \in Objects
  BY <1>4 DEF HeapInv, Ownership, PartsOK, Objects
<1>6. PICK n \in Lengths : args \in [0..n -> Nat] /\ n + 1 <= Capacity(x)
  BY <1>1, <1>4 DEF FreshOK
<1>7. /\ n \in Nat /\ x \in Nat \ {0} /\ Capacity(x) \in Nat \ {0}
      /\ \A a \in (x - 6)..(x + Capacity(x) - 1) : a \in Addresses
  BY <1>1, <1>5, Sizes, InMemory
<1>8. mem \in Memories
  BY <1>1 DEF TypeOK, Memories
<1>9. /\ mem' \in Memories
      /\ \A a \in Addresses : mem'[a] = IF x <= a /\ a <= x + n THEN args[a - x] ELSE mem[a]
  <2>1. x \in Nat /\ n \in Nat /\ args \in [0..n -> Nat]
    BY <1>6, <1>7
  <2>2. /\ Stored(mem, x, args) \in Memories
        /\ \A a \in Addresses :
              Stored(mem, x, args)[a] = IF x <= a /\ a <= x + n THEN args[a - x] ELSE mem[a]
    BY <1>8, <2>1, StoredIs
  <2> QED BY <1>3, <2>2
<1>10. Addresses \subseteq Nat
  BY Sizes
<1>11. OnlyIn(x)
  <2>1. \A a \in Addresses : x <= a /\ a <= x + n => a \in (x - 6)..(x + Capacity(x) - 1)
    BY <1>6, <1>7, <1>10
  <2> QED BY <1>9, <2>1 DEF OnlyIn
<1>12. \A a \in {x - 6, x - 5, x - 4, x - 3, x - 1} : mem'[a] = mem[a]
  <2>1. \A a \in {x - 6, x - 5, x - 4, x - 3, x - 1} : a \in Addresses /\ ~(x <= a)
    <3>1. \A a \in {x - 6, x - 5, x - 4, x - 3, x - 1} : a \in (x - 6)..(x + Capacity(x) - 1)
      BY <1>7
    <3>2. \A a \in {x - 6, x - 5, x - 4, x - 3, x - 1} : ~(x <= a)
      BY <1>7
    <3> QED BY <1>7, <3>1, <3>2
  <2> QED BY <1>9, <2>1
<1>13. /\ mem'[MagicAt(x)] = Magic /\ mem'[CountAt(x)] = 1 /\ mem'[KindAt(x)] = 2
       /\ mem'[MaskAt(x)] = 0 /\ mem'[CapacityAt(x)] = mem[CapacityAt(x)]
  BY <1>1, <1>4, <1>12 DEF FreshOK, MagicAt, CountAt, CapacityAt, KindAt, MaskAt
<1>14. Whole(x)' /\ ~IsRecord(x)'
  BY <1>13 DEF Whole, Shaped, IsRecord
<1> QED BY <1>3, <1>4, <1>9, <1>11, <1>13, <1>14, FilledKeeps

\* The copy of a header has no children.
LEMMA FillHeaderInv == HeapInv /\ FillHeader => HeapInv' /\ [Row!Next]_(Row!vars)
<1> SUFFICES ASSUME HeapInv, FillHeader PROVE HeapInv' /\ [Row!Next]_(Row!vars)
  OBVIOUS
<1>1. TypeOK /\ Geometry /\ FreshOK
  BY RowGeometry DEF HeapInv
<1>2. PICK x : x = alloc.root
  OBVIOUS
<1>3. /\ pc = "header" /\ owned' = owned \cup {x} /\ Return
      /\ mem' = [mem EXCEPT ![x - 3] = 1, ![x - 2] = Width]
  BY <1>2 DEF FillHeader, KindAt, WidthAt
<1>4. Fresh = {x} /\ Stage = "header" /\ Room = Capacity(x)
  BY <1>2, <1>3 DEF Fresh, Stage, Room
<1>5. x \in blocks /\ x \in Objects /\ Width <= Capacity(x)
  BY <1>1, <1>4 DEF HeapInv, Ownership, PartsOK, Objects, FreshOK
<1>6. /\ x \in Nat \ {0} /\ Capacity(x) \in Nat \ {0}
      /\ \A a \in (x - 6)..(x + Capacity(x) - 1) : a \in Addresses
  BY <1>1, <1>5, InMemory
<1> DEFINE m1 == [mem EXCEPT ![x - 3] = 1]
           m2 == [m1 EXCEPT ![x - 2] = Width]
<1>7. m1 \in Memories /\ \A a \in Addresses : m1[a] = IF a = x - 3 THEN 1 ELSE mem[a]
  BY <1>1 DEF TypeOK, Memories
<1>8. m2 \in Memories /\ \A a \in Addresses : m2[a] = IF a = x - 2 THEN Width ELSE m1[a]
  <2> HIDE DEF m1
  <2> QED BY <1>7, Sizes DEF Memories
<1>9. mem' = m2
  BY <1>3
<1> HIDE DEF m1, m2
<1>10. \A a \in {x - 6, x - 5, x - 4, x - 3, x - 2, x - 1} :
          a \in Addresses /\ a \in (x - 6)..(x + Capacity(x) - 1)
  <2>1. \A a \in {x - 6, x - 5, x - 4, x - 3, x - 2, x - 1} : a \in (x - 6)..(x + Capacity(x) - 1)
    BY <1>6
  <2> QED BY <1>6, <2>1
<1>11. OnlyIn(x)
  BY <1>7, <1>8, <1>9, <1>10 DEF OnlyIn
<1>12. /\ mem'[x - 6] = mem[x - 6] /\ mem'[x - 5] = mem[x - 5] /\ mem'[x - 4] = mem[x - 4]
       /\ mem'[x - 3] = 1 /\ mem'[x - 2] = Width /\ mem'[x - 1] = mem[x - 1]
  BY <1>6, <1>7, <1>8, <1>9, <1>10
<1>13. /\ mem'[MagicAt(x)] = Magic /\ mem'[CountAt(x)] = 1 /\ mem'[KindAt(x)] = 1
       /\ mem'[MaskAt(x)] = 0 /\ mem'[WidthAt(x)] = Width
       /\ mem'[CapacityAt(x)] = mem[CapacityAt(x)]
  BY <1>1, <1>4, <1>12 DEF FreshOK, MagicAt, CountAt, CapacityAt, KindAt, WidthAt, MaskAt
<1>14. Whole(x)' /\ ~IsRecord(x)'
  BY <1>5, <1>13 DEF Whole, Shaped, IsRecord, Capacity
<1>15. mem' \in Memories
  BY <1>8, <1>9
<1> QED BY <1>3, <1>4, <1>11, <1>13, <1>14, <1>15, FilledKeeps


\* Only the slots N of x have new children, which no slot held.
Gains(kept, work, kept2, work2, x, N) ==
    \A p \in blocks' : \A i \in ChildSlots :
        Holds(kept2, work2, p, i)' =>
            /\ mem'[p + i] \in kept2 \ owned'
            /\ \/ /\ p \in blocks /\ Holds(kept, work, p, i) /\ mem'[p + i] = mem[p + i]
               \/ p = x /\ i \in N /\ mem'[p + i] \notin kept \ owned

\* Children have one holder where those gained are different.
LEMMA ChildrenGain ==
  ASSUME NEW kept, NEW work, NEW kept2, NEW work2, ChildrenOK(kept, work), NEW x, NEW N,
         Gains(kept, work, kept2, work2, x, N),
         \A i, j \in N : mem'[x + i] = mem'[x + j] => i = j
  PROVE  ChildrenOK(kept2, work2)'
<1>1. \A p \in blocks' : \A i \in ChildSlots :
         Holds(kept2, work2, p, i)' => mem'[p + i] \in kept2 \ owned'
  BY DEF Gains
<1>2. ASSUME NEW p \in blocks', NEW q \in blocks', NEW i \in ChildSlots, NEW j \in ChildSlots,
             Holds(kept2, work2, p, i)', Holds(kept2, work2, q, j)', mem'[p + i] = mem'[q + j]
      PROVE  p = q /\ i = j
  <2>1. CASE mem'[p + i] \in kept \ owned
    <3>1. /\ p \in blocks /\ Holds(kept, work, p, i) /\ mem'[p + i] = mem[p + i]
          /\ q \in blocks /\ Holds(kept, work, q, j) /\ mem'[q + j] = mem[q + j]
      BY <1>2, <2>1 DEF Gains
    <3>2. mem[p + i] = mem[q + j]
      BY <1>2, <3>1
    <3> QED BY <3>1, <3>2 DEF ChildrenOK
  <2>2. CASE mem'[p + i] \notin kept \ owned
    <3>1. Holds(kept, work, p, i) /\ p \in blocks => mem[p + i] \in kept \ owned
      BY DEF ChildrenOK
    <3>2. Holds(kept, work, q, j) /\ q \in blocks => mem[q + j] \in kept \ owned
      BY DEF ChildrenOK
    <3>3. p = x /\ q = x /\ i \in N /\ j \in N
      BY <1>2, <2>2, <3>1, <3>2 DEF Gains
    <3> QED BY <1>2, <3>3
  <2> QED BY <2>1, <2>2
<1>3. ChildSlots' = ChildSlots
  BY ChildSlotsSame
<1> QED BY <1>1, <1>2, <1>3 DEF ChildrenOK

\* What the words of a record are after it is built.
LEMMA RecordWords ==
  ASSUME HeapInv, NEW x \in blocks, NEW f \in Fields, mem' = Record(mem, x, f),
         Width <= Capacity(x), mem[MagicAt(x)] = Magic, mem[CountAt(x)] = 1
  PROVE  /\ mem' \in Memories /\ OnlyIn(x) /\ mem'[CapacityAt(x)] = mem[CapacityAt(x)]
         /\ Whole(x)' /\ IsRecord(x)'
         /\ \A i \in ChildSlots : mem'[x + i] = f[i]
<1>1. TypeOK /\ Geometry /\ x \in Objects
  BY RowGeometry DEF HeapInv, Objects
<1>2. /\ x \in Nat \ {0} /\ Capacity(x) \in Nat \ {0}
      /\ \A a \in (x - 6)..(x + Capacity(x) - 1) : a \in Addresses
  BY <1>1, InMemory
<1>3. f \in [0..(Width - 1) -> Nat]
  BY <1>1, FieldsAre
<1>4. mem \in Memories
  BY <1>1 DEF TypeOK, Memories
<1>5. /\ mem' \in Memories
      /\ \A a \in Addresses :
            /\ a = x - 3 => mem'[a] = 1
            /\ a = x - 2 => mem'[a] = Width
            /\ a = x - 1 => mem'[a] = Mask
            /\ x <= a /\ a < x + Width => mem'[a] = f[a - x]
            /\ a < x - 3 \/ x + Width <= a => mem'[a] = mem[a]
  BY <1>2, <1>3, <1>4, RecordIs
<1>6. Addresses \subseteq Nat /\ Width \in Nat
  BY Sizes
<1>7. OnlyIn(x)
  <2> SUFFICES ASSUME NEW a \in Addresses, a \notin (x - 6)..(x + Capacity(x) - 1)
               PROVE  mem'[a] = mem[a]
    BY DEF OnlyIn
  <2>1. a < x - 3 \/ x + Width <= a
    BY <1>2, <1>6
  <2> QED BY <1>5, <2>1
<1>8. \A a \in {x - 6, x - 5, x - 4, x - 3, x - 2, x - 1} : a \in Addresses
  <2>1. \A a \in {x - 6, x - 5, x - 4, x - 3, x - 2, x - 1} : a \in (x - 6)..(x + Capacity(x) - 1)
    BY <1>2
  <2> QED BY <1>2, <2>1
<1>9. \A a \in {x - 6, x - 5, x - 4} : mem'[a] = mem[a]
  <2>1. \A a \in {x - 6, x - 5, x - 4} : a < x - 3 /\ a \in Addresses
    BY <1>2, <1>8
  <2> QED BY <1>5, <2>1
<1>10. mem'[x - 3] = 1 /\ mem'[x - 2] = Width /\ mem'[x - 1] = Mask
  BY <1>5, <1>8
<1>11. /\ mem'[MagicAt(x)] = Magic /\ mem'[CountAt(x)] = 1
       /\ mem'[CapacityAt(x)] = mem[CapacityAt(x)]
       /\ mem'[KindAt(x)] = 1 /\ mem'[WidthAt(x)] = Width /\ mem'[MaskAt(x)] = Mask
  BY <1>9, <1>10 DEF MagicAt, CountAt, CapacityAt, KindAt, WidthAt, MaskAt
<1>12. Whole(x)' /\ IsRecord(x)'
  BY <1>11, Sizes DEF Whole, Shaped, IsRecord, Capacity
<1>13. ASSUME NEW i \in ChildSlots PROVE mem'[x + i] = f[i]
  <2>1. i \in Nat /\ i < Width
    BY SlotTypes
  <2>2. x + i \in (x - 6)..(x + Capacity(x) - 1) /\ (x + i) - x = i /\ x <= x + i /\ x + i < x + Width
    BY <1>2, <1>6, <2>1
  <2>3. mem'[x + i] = f[(x + i) - x]
    BY <1>2, <1>5, <2>2
  <2> QED BY <2>2, <2>3
<1> QED BY <1>5, <1>7, <1>11, <1>12, <1>13

\* A record is built in a block that holds no children: they become its own.
LEMMA BuiltKeeps ==
  ASSUME HeapInv, NEW x, (x \in Headers /\ pc = "program") \/ (x \in Fresh /\ pc = "record"),
         Width <= Capacity(x), mem[MagicAt(x)] = Magic, mem[CountAt(x)] = 1, ~IsRecord(x),
         NEW f \in Fields, mem' = Record(mem, x, f), owned' = (owned \ ChildrenOf(f)) \cup {x},
         pc' = "program", UNCHANGED <<globals, release, copy, blocks>>,
         alloc' \in {alloc, NoAlloc}, args' = args \/ args' = <<>>
  PROVE  HeapInv' /\ [Row!Next]_(Row!vars)
<1>1. TypeOK /\ Geometry
  BY RowGeometry DEF HeapInv
<1>2. PICK kept \in SUBSET blocks, work \in SUBSET blocks : Ownership(kept, work)
  BY DEF HeapInv
<1>3. PartsOK(kept, work) /\ ChildrenOK(kept, work) /\ ReleaseOK(work) /\ CopyOK(kept, work)
  BY <1>2 DEF Ownership
<1>4. /\ ~InRelease /\ ~InCopy /\ ~InRelease' /\ ~InCopy' /\ pc # "drop" /\ pc' # "drop"
      /\ Stage' = "program" /\ Fresh' = {} /\ Falling' = {}
  BY DEF Stage, InRelease, InCopy, Fresh, Falling
<1>5. x \in blocks /\ x \notin kept \ owned /\ work = {}
  <2>1. x \in Headers => x \in owned /\ owned \subseteq blocks
    BY <1>1 DEF Headers, TypeOK
  <2> QED BY <1>3, <1>4, <2>1 DEF PartsOK, ReleaseOK
<1>6. /\ mem' \in Memories /\ OnlyIn(x) /\ mem'[CapacityAt(x)] = mem[CapacityAt(x)]
      /\ Whole(x)' /\ IsRecord(x)'
      /\ \A i \in ChildSlots : mem'[x + i] = f[i]
  BY <1>5, RecordWords
<1>7. /\ FreeBlocks' = FreeBlocks /\ IsChain(mem', head', FreeBlocks') /\ RowInv'
      /\ [Row!Next]_(Row!vars)
      /\ \A p \in blocks \ {x} : p \in Objects /\ Untouched(p)
  BY <1>5, <1>6, WritesIn
<1>8. /\ \A i \in ChildSlots : f[i] \in Records \cup {0}
      /\ \A i, j \in ChildSlots : f[i] = f[j] /\ f[i] # 0 => i = j
      /\ ChildrenOf(f) \subseteq Records
      /\ \A i \in ChildSlots : f[i] # 0 => f[i] \in ChildrenOf(f)
  BY <1>1, FieldsAre DEF ChildrenOf
<1>9. x \notin ChildrenOf(f) /\ ChildrenOf(f) \subseteq owned
  BY <1>8 DEF Records
<1>10. TypeOK'
  <2>1. 0 \in Addresses
    BY <1>1, <1>5, Sizes DEF TypeOK
  <2>2. alloc' \in [need : Nat, previous : Addresses, current : Addresses, root : Addresses,
                    then : {"program", "array", "record", "header", "copyRoot", "copyChild"}]
    <3>1. CASE alloc' = alloc
      BY <1>1, <3>1 DEF TypeOK
    <3>2. CASE alloc' = NoAlloc
      BY <2>1, <3>2 DEF NoAlloc
    <3> QED BY <3>1, <3>2
  <2>3. \A i \in DOMAIN args' : args'[i] \in Nat
    BY <1>1 DEF TypeOK
  <2>4. owned' \subseteq blocks'
    BY <1>1, <1>5 DEF TypeOK
  <2> QED BY <1>1, <1>6, <2>2, <2>3, <2>4 DEF TypeOK, globals, Memories
<1>11. ListOK'
  BY <1>7 DEF ListOK
<1>12. FreshOK'
  BY <1>4 DEF FreshOK
<1> DEFINE kept2 == kept \cup {x}
<1>13. PartsOK(kept2, work)'
  <2>1. ASSUME NEW p \in kept, p # x PROVE Kept(p)'
    <3>1. p \in Objects /\ Untouched(p) /\ Kept(p)
      BY <1>3, <1>7, <2>1 DEF PartsOK
    <3>2. Whole(p)' /\ (IsRecord(p)' <=> IsRecord(p))
      BY <1>1, <3>1, UntouchedKeeps DEF Kept
    <3>3. p \in owned' \/ IsRecord(p)
      BY <1>8, <3>1 DEF Kept, Records
    <3> QED BY <3>2, <3>3 DEF Kept
  <2>2. Kept(x)'
    BY <1>6 DEF Kept
  <2> QED BY <1>3, <1>4, <1>5, <2>1, <2>2 DEF PartsOK
<1>14. ChildrenOK(kept2, work)'
  <2> DEFINE N == {i \in ChildSlots : f[i] # 0}
  <2>1. ASSUME NEW p \in blocks', NEW i \in ChildSlots, Holds(kept2, work, p, i)'
        PROVE  /\ mem'[p + i] \in kept2 \ owned'
               /\ \/ /\ p \in blocks /\ Holds(kept, work, p, i) /\ mem'[p + i] = mem[p + i]
                  \/ p = x /\ i \in N /\ mem'[p + i] \notin kept \ owned
    <3>1. CASE p = x
      <4>1. mem'[p + i] = f[i] /\ mem'[p + i] # 0
        BY <1>6, <2>1, <3>1 DEF Holds
      <4>2. f[i] \in ChildrenOf(f) /\ f[i] \in owned /\ f[i] # x /\ i \in N
        BY <1>8, <1>9, <4>1
      <4> QED BY <1>3, <1>5, <1>9, <3>1, <4>1, <4>2 DEF PartsOK
    <3>2. CASE p # x
      <4>1. p \in kept /\ p \in blocks /\ IsRecord(p)'
        BY <1>4, <1>5, <2>1, <3>2 DEF Holds
      <4>2. Untouched(p) /\ p \in Objects
        BY <1>7, <3>2, <4>1
      <4>3. IsRecord(p)
        BY <1>1, <4>1, <4>2, UntouchedKeeps
      <4>4. i \in Nat /\ i < Width /\ Width <= Capacity(p)
        BY <1>3, <4>1, <4>3, ShapedRecord, SlotTypes DEF PartsOK, Kept, Whole
      <4>5. i < Capacity(p)
        BY <1>1, <4>2, <4>4, Sizes DEF Geometry
      <4>6. mem'[p + i] = mem[p + i]
        BY <1>1, <4>2, <4>4, <4>5, UntouchedIs
      <4>7. Holds(kept, work, p, i)
        BY <2>1, <4>1, <4>3, <4>6 DEF Holds
      <4>8. mem[p + i] \in kept \ owned
        BY <1>3, <4>1, <4>7 DEF ChildrenOK
      <4>9. mem[p + i] # x
        BY <1>5, <4>8
      <4> QED BY <4>1, <4>6, <4>7, <4>8, <4>9
    <3> QED BY <3>1, <3>2
  <2>2. \A i, j \in N : mem'[x + i] = mem'[x + j] => i = j
    BY <1>6, <1>8
  <2> HIDE DEF kept2, N
  <2>3. Gains(kept, work, kept2, work, x, N)
    BY <2>1 DEF Gains
  <2> QED BY <1>3, <2>2, <2>3, ChildrenGain
<1>15. ReleaseOK(work)'
  BY <1>3, <1>4, <1>5 DEF ReleaseOK
<1>16. CopyOK(kept2, work)'
  BY <1>4 DEF CopyOK
<1>17. blocks' = blocks /\ kept2 \in SUBSET blocks
  BY <1>5
<1>18. NoneLost(kept2, work)'
  <2>1. NoneLost(kept, work) /\ pc # "trapped" /\ Fresh \subseteq {x} /\ Falling = {}
    BY <1>2 DEF Ownership, Fresh, Falling
  <2>2. PICK own, new : own = owned' /\ own = (owned \ new) \cup {x} /\ new = ChildrenOf(f)
    OBVIOUS
  <2>3. SlotsStay(kept, work, kept2, work, (kept2 \ own) \ new)
    <3> SUFFICES ASSUME NEW p \in blocks, NEW i \in ChildSlots, Holds(kept, work, p, i)
                 PROVE  p \in blocks' /\ Holds(kept2, work, p, i)' /\ mem'[p + i] = mem[p + i]
      BY DEF SlotsStay
    <3>1. p \in kept /\ IsRecord(p) /\ p # x
      BY <1>4, <1>5 DEF Holds
    <3>2. /\ mem'[p + i] = mem[p + i] /\ mem'[p + i] # 0
          /\ IsRecord(p)' <=> IsRecord(p)
      BY <1>1, <1>3, <1>7, <3>1, HoldsStays
    <3> QED BY <1>17, <3>1, <3>2, ChildSlotsSame DEF Holds
  <2>4. kept2 \ own \subseteq (kept \ owned) \cup new
    BY <2>2
  <2>5. Holder(kept2, work, x, new)'
    <3>1. ASSUME NEW c \in new
          PROVE  \E i \in ChildSlots : Holds(kept2, work, x, i)' /\ mem'[x + i] = c
      <4>1. PICK i \in ChildSlots : f[i] = c /\ c # 0
        BY <2>2 DEF ChildrenOf
      <4> QED BY <1>6, <4>1, ChildSlotsSame DEF Holds
    <3> QED BY <3>1, ChildSlotsSame DEF Holder
  <2>6. x \in blocks' /\ x \notin kept2 \ own
    BY <1>5, <1>17, <2>2
  <2>7. blocks' \subseteq kept2 \cup work
    BY <1>17, <2>1 DEF NoneLost
  <2> HIDE DEF kept2
  <2>8. Grounded(kept2, work)'
    BY <2>1, <2>2, <2>3, <2>4, <2>5, <2>6, GroundedMore DEF NoneLost
  <2> QED BY <1>4, <2>7, <2>8 DEF NoneLost
<1> HIDE DEF kept2
<1> QED BY <1>7, <1>10, <1>11, <1>12, <1>13, <1>14, <1>15, <1>16, <1>17, <1>18 DEF HeapInv, Ownership

\* A new record has the children that the program gave up for it.
LEMMA FillRecordInv == HeapInv /\ FillRecord => HeapInv' /\ [Row!Next]_(Row!vars)
<1> SUFFICES ASSUME HeapInv, FillRecord PROVE HeapInv' /\ [Row!Next]_(Row!vars)
  OBVIOUS
<1>1. FreshOK
  BY DEF HeapInv
<1>2. PICK x, f : x = alloc.root /\ f = args
  OBVIOUS
<1>3. /\ pc = "record" /\ mem' = Record(mem, x, f) /\ owned' = (owned \ ChildrenOf(f)) \cup {x}
      /\ pc' = "program" /\ alloc' = NoAlloc /\ args' = <<>>
      /\ UNCHANGED <<globals, release, copy, blocks>>
  BY <1>2 DEF FillRecord, Return
<1>4. Fresh = {x} /\ Stage = "record" /\ Room = Capacity(x)
  BY <1>2, <1>3 DEF Fresh, Stage, Room
<1>5. /\ mem[MagicAt(x)] = Magic /\ mem[CountAt(x)] = 1 /\ ~IsRecord(x)
      /\ Width <= Capacity(x) /\ f \in Fields
  BY <1>1, <1>2, <1>4 DEF FreshOK, IsRecord
<1>6. x \in Fresh
  BY <1>4
<1> QED BY <1>3, <1>5, <1>6, BuiltKeeps

\* The block of a matched record is built anew.
LEMMA ReuseInv ==
  ASSUME HeapInv, NEW ptr \in owned, NEW f \in Fields, Reuse(ptr, f)
  PROVE  HeapInv' /\ [Row!Next]_(Row!vars)
<1>1. /\ pc = "program" /\ ptr \in Headers /\ mem' = Record(mem, ptr, f)
      /\ owned' = owned \ ChildrenOf(f) /\ pc' = "program" /\ alloc' = alloc /\ args' = args
      /\ UNCHANGED <<globals, release, copy, blocks>>
  BY DEF Reuse
<1>2. Whole(ptr)
  BY DEF HeapInv, Ownership, PartsOK, Kept
<1>3. IsHeader(ptr)
  BY <1>1 DEF Headers
<1>4. /\ mem[MagicAt(ptr)] = Magic /\ mem[CountAt(ptr)] = 1 /\ ~IsRecord(ptr)
      /\ Width <= Capacity(ptr)
  BY <1>2, <1>3 DEF Whole, Shaped, IsHeader, IsRecord
<1>5. ChildrenOf(f) \subseteq Records
  BY FieldsAre DEF HeapInv
<1>6. owned' = (owned \ ChildrenOf(f)) \cup {ptr}
  BY <1>1, <1>4, <1>5 DEF Records
<1> QED BY <1>1, <1>4, <1>6, BuiltKeeps

\* A matched record gives its children to the program.
LEMMA MatchInv ==
  ASSUME HeapInv, NEW ptr \in owned, Match(ptr)
  PROVE  HeapInv' /\ [Row!Next]_(Row!vars)
<1>1. TypeOK /\ Geometry
  BY RowGeometry DEF HeapInv
<1>2. PICK kept \in SUBSET blocks, work \in SUBSET blocks : Ownership(kept, work)
  BY DEF HeapInv
<1>3. PartsOK(kept, work) /\ ChildrenOK(kept, work) /\ ReleaseOK(work) /\ CopyOK(kept, work)
  BY <1>2 DEF Ownership
<1> DEFINE children == {mem[ptr + i] : i \in ChildSlots} \ {0}
<1>4. /\ pc = "program" /\ ptr \in Records /\ mem' = Write(mem, ptr - 1, 0)
      /\ UNCHANGED <<globals, pc, alloc, release, copy, args, blocks>>
  BY DEF Match, MaskAt
<1>5. owned' = owned \cup children
  <2>1. ChildrenOf([i \in 0..(Width - 1) |-> mem[ptr + i]]) = children
    BY Sizes DEF ChildrenOf
  <2> QED BY <2>1 DEF Match
<1>6. /\ ~InRelease /\ ~InCopy /\ ~InRelease' /\ ~InCopy' /\ pc # "drop" /\ pc' # "drop"
      /\ Stage' = "program" /\ Fresh' = {} /\ Falling' = {}
  BY <1>4 DEF Stage, InRelease, InCopy, Fresh, Falling
<1>7. ptr \in kept /\ ptr \in blocks /\ ptr \in Objects /\ Whole(ptr) /\ IsRecord(ptr) /\ work = {}
  BY <1>3, <1>4, <1>6 DEF PartsOK, Kept, Objects, ReleaseOK, Records
<1>8. children \subseteq kept \ owned
  <2>1. ASSUME NEW i \in ChildSlots, mem[ptr + i] # 0 PROVE mem[ptr + i] \in kept \ owned
    <3>1. Holds(kept, work, ptr, i)
      BY <1>7, <2>1 DEF Holds
    <3> QED BY <1>3, <1>7, <3>1 DEF ChildrenOK
  <2> QED BY <2>1
<1>9. /\ ptr \in Nat \ {0} /\ Capacity(ptr) \in Nat \ {0}
      /\ \A a \in (ptr - 6)..(ptr + Capacity(ptr) - 1) : a \in Addresses
  BY <1>1, <1>7, InMemory
<1>10. mem' \in Memories /\ \A a \in Addresses : mem'[a] = IF a = ptr - 1 THEN 0 ELSE mem[a]
  BY <1>1, <1>4, WriteIs DEF TypeOK, Memories
<1>11. OnlyIn(ptr)
  <2>1. ptr - 1 \in (ptr - 6)..(ptr + Capacity(ptr) - 1)
    BY <1>9
  <2> QED BY <1>10, <2>1 DEF OnlyIn
<1>12. \A a \in {ptr - 6, ptr - 5, ptr - 4, ptr - 3, ptr - 2, ptr - 1} : a \in Addresses
  <2>1. \A a \in {ptr - 6, ptr - 5, ptr - 4, ptr - 3, ptr - 2, ptr - 1} :
           a \in (ptr - 6)..(ptr + Capacity(ptr) - 1)
    BY <1>9
  <2> QED BY <1>9, <2>1
<1>13. /\ mem'[ptr - 6] = mem[ptr - 6] /\ mem'[ptr - 5] = mem[ptr - 5]
       /\ mem'[ptr - 4] = mem[ptr - 4] /\ mem'[ptr - 3] = mem[ptr - 3]
       /\ mem'[ptr - 2] = mem[ptr - 2] /\ mem'[ptr - 1] = 0
  BY <1>9, <1>10, <1>12
<1>14. mem'[CapacityAt(ptr)] = mem[CapacityAt(ptr)]
  BY <1>13 DEF CapacityAt
<1>15. Whole(ptr)' /\ ~IsRecord(ptr)'
  BY <1>7, <1>13 DEF Whole, Shaped, IsRecord, Capacity, MagicAt, CountAt, CapacityAt, KindAt, WidthAt, MaskAt
<1>16. /\ FreeBlocks' = FreeBlocks /\ IsChain(mem', head', FreeBlocks') /\ RowInv'
       /\ [Row!Next]_(Row!vars)
       /\ \A p \in blocks \ {ptr} : p \in Objects /\ Untouched(p)
  BY <1>4, <1>7, <1>10, <1>11, <1>14, WritesIn
<1>17. TypeOK'
  <2>1. owned' \subseteq blocks'
    BY <1>1, <1>4, <1>5, <1>8, <1>3 DEF TypeOK, PartsOK
  <2> QED BY <1>1, <1>4, <1>10, <2>1 DEF TypeOK, globals, Memories
<1>18. ListOK'
  BY <1>4, <1>16 DEF ListOK
<1>19. FreshOK'
  BY <1>4, <1>6 DEF FreshOK
<1>20. PartsOK(kept, work)'
  <2>1. ASSUME NEW p \in kept, p # ptr PROVE Kept(p)'
    <3>1. p \in Objects /\ Untouched(p) /\ Kept(p) /\ (p \in owned => p \in owned')
      BY <1>3, <1>5, <1>16, <2>1 DEF PartsOK
    <3> QED BY <1>1, <3>1, KeptKeeps
  <2>2. Kept(ptr)'
    BY <1>5, <1>15 DEF Kept
  <2>3. owned' \subseteq kept
    BY <1>3, <1>5, <1>8 DEF PartsOK
  <2> HIDE DEF children
  <2> QED BY <1>3, <1>4, <1>6, <2>1, <2>2, <2>3 DEF PartsOK
<1>21. ChildrenOK(kept, work)'
  <2>1. ASSUME NEW p \in blocks', NEW i \in ChildSlots, Holds(kept, work, p, i)'
        PROVE  /\ p \in blocks /\ Holds(kept, work, p, i)
               /\ mem'[p + i] = mem[p + i] /\ mem[p + i] \in kept \ owned'
    <3>1. p \in kept /\ p \in blocks /\ IsRecord(p)' /\ p # ptr
      BY <1>6, <1>7, <1>15, <2>1 DEF Holds
    <3>2. Untouched(p) /\ p \in Objects
      BY <1>16, <3>1
    <3>3. IsRecord(p)
      BY <1>1, <3>1, <3>2, UntouchedKeeps
    <3>4. i \in Nat /\ i < Width /\ Width <= Capacity(p)
      BY <1>3, <3>1, <3>3, ShapedRecord, SlotTypes DEF PartsOK, Kept, Whole
    <3>5. i < Capacity(p)
      BY <1>1, <3>2, <3>4, Sizes DEF Geometry
    <3>6. mem'[p + i] = mem[p + i]
      BY <1>1, <3>2, <3>4, <3>5, UntouchedIs
    <3>7. Holds(kept, work, p, i)
      BY <2>1, <3>1, <3>3, <3>6 DEF Holds
    <3>8. mem[p + i] \in kept \ owned
      BY <1>3, <3>1, <3>7 DEF ChildrenOK
    <3>9. ASSUME NEW j \in ChildSlots, mem[ptr + j] # 0 PROVE mem[p + i] # mem[ptr + j]
      <4>1. Holds(kept, work, ptr, j)
        BY <1>7, <3>9 DEF Holds
      <4> QED BY <1>3, <1>7, <3>1, <3>7, <4>1 DEF ChildrenOK
    <3>10. mem[p + i] \notin children
      BY <3>9
    <3> HIDE DEF children
    <3> QED BY <1>5, <3>1, <3>6, <3>7, <3>8, <3>10
  <2> HIDE DEF children
  <2> QED BY <1>3, <2>1, ChildrenKeep
<1>22. ReleaseOK(work)'
  BY <1>3, <1>4, <1>6, <1>7 DEF ReleaseOK
<1>23. CopyOK(kept, work)'
  BY <1>6 DEF CopyOK
<1>24. blocks' = blocks
  BY <1>4
<1>25. NoneLost(kept, work)'
  <2>1. NoneLost(kept, work) /\ pc # "trapped" /\ Fresh = {} /\ Falling = {}
    BY <1>2, <1>4 DEF Ownership, Fresh, Falling
  <2>2. PICK own : own = owned' /\ own = owned \cup children
    BY <1>5
  <2>3. SlotsStay(kept, work, kept, work, kept \ own)
    <3> SUFFICES ASSUME NEW p \in blocks, NEW i \in ChildSlots, Holds(kept, work, p, i),
                        mem[p + i] \notin own
                 PROVE  p \in blocks' /\ Holds(kept, work, p, i)' /\ mem'[p + i] = mem[p + i]
      BY DEF SlotsStay
    <3>1. p \in kept /\ IsRecord(p) /\ mem[p + i] # 0
      BY <1>6, <1>7 DEF Holds
    <3>2. p # ptr
      BY <2>2, <3>1
    <3>3. /\ mem'[p + i] = mem[p + i] /\ mem'[p + i] # 0
          /\ IsRecord(p)' <=> IsRecord(p)
      BY <1>1, <1>3, <1>16, <3>2, HoldsStays
    <3> QED BY <1>24, <3>1, <3>3, ChildSlotsSame DEF Holds
  <2>4. kept \ own \subseteq kept \ owned
    BY <2>2
  <2>5. Grounded(kept, work)'
    BY <2>1, <2>2, <2>3, <2>4, GroundedStays DEF NoneLost
  <2> QED BY <1>6, <1>24, <2>1, <2>5 DEF NoneLost
<1> HIDE DEF children
<1> QED BY <1>2, <1>16, <1>17, <1>18, <1>19, <1>20, <1>21, <1>22, <1>23, <1>24, <1>25
        DEF HeapInv, Ownership


-----------------------------------------------------------------------------
(* The copy of a tree. *)

\* A new object joins the records being copied: its source is a record of a tree,
\* and it has no slots yet.
LEMMA BegunKeeps ==
  ASSUME HeapInv, NEW x, x = alloc.root, pc \in {"copyRoot", "copyChild"},
         NEW parent, parent = (IF pc = "copyRoot" THEN 0 ELSE copy.current),
         mem' = Begun(x, copy.source, parent),
         copy' = [copy EXCEPT !.result = IF pc = "copyRoot" THEN x ELSE @, !.current = x],
         alloc' = NoAlloc, pc' = "copy", UNCHANGED <<globals, release, args, owned, blocks>>
  PROVE  HeapInv' /\ [Row!Next]_(Row!vars)
<1>1. TypeOK /\ Geometry /\ FreshOK
  BY RowGeometry DEF HeapInv
<1>2. PICK kept \in SUBSET blocks, work \in SUBSET blocks : Ownership(kept, work)
  BY DEF HeapInv
<1>3. PartsOK(kept, work) /\ ChildrenOK(kept, work) /\ ReleaseOK(work) /\ CopyOK(kept, work)
  BY <1>2 DEF Ownership
<1>4. PICK s, cur, res : s = copy.source /\ cur = copy.current /\ res = copy.result
  OBVIOUS
<1>5. /\ Stage = pc /\ Stage' = "copy" /\ Fresh = {x} /\ Fresh' = {} /\ Falling' = {}
      /\ ~InRelease /\ ~InRelease' /\ InCopy' /\ pc # "drop" /\ pc' # "drop"
      /\ Room = Capacity(x)
      /\ InCopy <=> pc = "copyChild"
  BY DEF Stage, InRelease, InCopy, Fresh, Falling, Room
<1>6. /\ x \in blocks /\ x \notin kept /\ x \notin work /\ x \in Objects
      /\ Width <= Capacity(x) /\ mem[MagicAt(x)] = Magic
      /\ Source(kept, s) /\ s \in blocks /\ s # x
  BY <1>1, <1>3, <1>4, <1>5 DEF PartsOK, Objects, FreshOK, CopyOK, Source
<1>7. /\ pc = "copyRoot" => work = {} /\ parent = 0
      /\ pc = "copyChild" => cur \in work /\ parent = cur /\ cur # 0
  BY <1>1, <1>3, <1>4, <1>5 DEF ReleaseOK, CopyOK, TypeOK
<1>8. s \in Nat /\ parent \in Nat
  <2>1. Addresses \subseteq Nat /\ 0 \in Nat
    BY Sizes
  <2>2. s \in Addresses /\ cur \in Addresses
    BY <1>1, <1>4 DEF TypeOK
  <2> QED BY <1>4, <2>1, <2>2
<1>9. /\ x \in Nat \ {0} /\ Capacity(x) \in Nat \ {0}
      /\ \A a \in (x - 6)..(x + Capacity(x) - 1) : a \in Addresses
  BY <1>1, <1>6, InMemory
<1> DEFINE m1 == [mem EXCEPT ![x - 5] = parent]
           m2 == [m1 EXCEPT ![x - 3] = s]
           m3 == [m2 EXCEPT ![x - 1] = 0]
<1>10. mem' = m3
  BY <1>4 DEF Begun, CountAt, KindAt, MaskAt
<1>11. m1 \in Memories /\ \A a \in Addresses : m1[a] = IF a = x - 5 THEN parent ELSE mem[a]
  BY <1>1, <1>8 DEF TypeOK, Memories
<1>12. m2 \in Memories /\ \A a \in Addresses : m2[a] = IF a = x - 3 THEN s ELSE m1[a]
  <2> HIDE DEF m1
  <2> QED BY <1>8, <1>11 DEF Memories
<1>13. m3 \in Memories /\ \A a \in Addresses : m3[a] = IF a = x - 1 THEN 0 ELSE m2[a]
  <2> HIDE DEF m2
  <2> QED BY <1>12 DEF Memories
<1> HIDE DEF m1, m2, m3
<1>14. \A a \in {x - 6, x - 5, x - 4, x - 3, x - 1} :
          a \in Addresses /\ a \in (x - 6)..(x + Capacity(x) - 1)
  <2>1. \A a \in {x - 6, x - 5, x - 4, x - 3, x - 1} : a \in (x - 6)..(x + Capacity(x) - 1)
    BY <1>9
  <2> QED BY <1>9, <2>1
<1>15. OnlyIn(x)
  BY <1>10, <1>11, <1>12, <1>13, <1>14 DEF OnlyIn
<1>16. /\ mem'[x - 6] = mem[x - 6] /\ mem'[x - 5] = parent /\ mem'[x - 4] = mem[x - 4]
       /\ mem'[x - 3] = s /\ mem'[x - 1] = 0
  BY <1>9, <1>10, <1>11, <1>12, <1>13, <1>14
<1>17. /\ mem'[MagicAt(x)] = Magic /\ mem'[CountAt(x)] = parent /\ mem'[KindAt(x)] = s
       /\ mem'[MaskAt(x)] = 0 /\ mem'[CapacityAt(x)] = mem[CapacityAt(x)]
  BY <1>6, <1>16 DEF MagicAt, CountAt, CapacityAt, KindAt, MaskAt
<1>18. mem' \in Memories
  BY <1>10, <1>13
<1>19. /\ FreeBlocks' = FreeBlocks /\ IsChain(mem', head', FreeBlocks') /\ RowInv'
       /\ [Row!Next]_(Row!vars) /\ Capacity(x)' = Capacity(x)
       /\ \A p \in blocks \ {x} : p \in Objects /\ Untouched(p)
  BY <1>6, <1>15, <1>17, <1>18, WritesIn
<1>20. /\ copy'.source = s /\ copy'.current = x /\ copy'.result = (IF pc = "copyRoot" THEN x ELSE res)
       /\ copy' \in [source : Addresses, result : Addresses, current : Addresses]
       /\ copy' = [source |-> s, result |-> (IF pc = "copyRoot" THEN x ELSE res), current |-> x]
  <2>1. x \in Addresses
    BY <1>1, <1>6 DEF TypeOK
  <2>2. copy \in [source : Addresses, result : Addresses, current : Addresses]
    BY <1>1 DEF TypeOK
  <2> QED BY <1>4, <2>1, <2>2
<1>21. TypeOK'
  <2>1. 0 \in Addresses
    <3>1. x \in Addresses
      BY <1>1, <1>6 DEF TypeOK
    <3> QED BY <3>1, Sizes
  <2>2. alloc' \in [need : Nat, previous : Addresses, current : Addresses, root : Addresses,
                    then : {"program", "array", "record", "header", "copyRoot", "copyChild"}]
    BY <2>1 DEF NoAlloc
  <2> QED BY <1>1, <1>18, <1>20, <2>2 DEF TypeOK, globals, Memories
<1>22. ListOK'
  BY <1>19 DEF ListOK
<1>23. FreshOK'
  BY <1>5 DEF FreshOK
<1> DEFINE work2 == work \cup {x}
<1>24. \A p \in blocks \ {x} :
          /\ IsRecord(p)' <=> IsRecord(p)
          /\ NextSlot(p)' = NextSlot(p) /\ Capacity(p)' = Capacity(p)
          /\ mem'[CountAt(p)] = mem[CountAt(p)] /\ mem'[KindAt(p)] = mem[KindAt(p)]
          /\ mem'[MagicAt(p)] = mem[MagicAt(p)]
          /\ \A i \in Nat : i < Capacity(p) => mem'[p + i] = mem[p + i]
  BY <1>1, <1>19, UntouchedIs, UntouchedKeeps
<1>25. \A p : Source(kept, p) => Source(kept, p)'
  BY <1>6, <1>24 DEF Source
<1>26. PartsOK(kept, work2)'
  <2>1. \A p \in kept : Kept(p)'
    <3> SUFFICES ASSUME NEW p \in kept PROVE Kept(p)'
      OBVIOUS
    <3>1. p \in Objects /\ Untouched(p) /\ Kept(p) /\ (p \in owned => p \in owned')
      BY <1>3, <1>6, <1>19 DEF PartsOK
    <3> QED BY <1>1, <3>1, KeptKeeps
  <2> QED BY <1>3, <1>5, <1>6, <2>1 DEF PartsOK
<1>27. NextSlot(x)' = 0
  BY <1>17 DEF NextSlot
<1>28. ChildrenOK(kept, work2)'
  <2>1. ASSUME NEW p \in blocks', NEW i \in ChildSlots, Holds(kept, work2, p, i)'
        PROVE  /\ p \in blocks /\ Holds(kept, work, p, i)
               /\ mem'[p + i] = mem[p + i] /\ mem[p + i] \in kept \ owned'
    <3>1. i \in Nat /\ i < Width /\ ~(i < 0)
      BY SlotTypes
    <3>2. p \in blocks /\ p # x
      BY <1>5, <1>6, <1>27, <2>1, <3>1 DEF Holds
    <3>3. \/ p \in kept /\ IsRecord(p)
          \/ p \in work /\ InCopy /\ i < NextSlot(p)
      BY <1>5, <1>7, <1>24, <2>1, <3>2 DEF Holds
    <3>4. Width <= Capacity(p)
      BY <1>3, <3>3, ShapedRecord DEF PartsOK, Kept, Whole, CopyOK, Begins
    <3>5. i < Capacity(p)
      BY <1>1, <3>1, <3>2, <3>4, Sizes DEF Geometry, Objects
    <3>6. mem'[p + i] = mem[p + i]
      BY <1>24, <3>1, <3>2, <3>5
    <3>7. Holds(kept, work, p, i)
      BY <2>1, <3>3, <3>6 DEF Holds
    <3> QED BY <1>3, <3>2, <3>6, <3>7 DEF ChildrenOK
  <2> HIDE DEF work2
  <2> QED BY <1>3, <2>1, ChildrenKeep
<1>29. ReleaseOK(work2)'
  BY <1>3, <1>5 DEF ReleaseOK
<1>30. CopyOK(kept, work2)'
  <2>1. Begins(kept, x)'
    BY <1>6, <1>17, <1>19, <1>25, <1>27, Sizes DEF Begins
  <2>2. \A p \in work : Begins(kept, p)'
    <3> SUFFICES ASSUME NEW p \in work PROVE Begins(kept, p)'
      OBVIOUS
    <3>1. p \in blocks \ {x} /\ Begins(kept, p)
      BY <1>3, <1>5, <1>6, <1>7 DEF CopyOK
    <3>2. PICK q : q = mem[KindAt(p)]
      OBVIOUS
    <3>3. Source(kept, q)' /\ mem'[KindAt(p)] = q
      BY <1>24, <1>25, <3>1, <3>2 DEF Begins
    <3> QED BY <1>24, <3>1, <3>3 DEF Begins, Source, IsRecord
  <2>3. Linked(work2, x)'
    <3>1. CASE pc = "copyRoot"
      BY <1>7, <1>17, <3>1 DEF Linked
    <3>2. CASE pc = "copyChild"
      <4>1. Linked(work, cur)
        BY <1>3, <1>4, <1>5, <3>2 DEF CopyOK
      <4>2. \A p \in work : p # x /\ mem'[CountAt(p)] = mem[CountAt(p)]
        BY <1>6, <1>24
      <4>3. mem'[CountAt(x)] = cur /\ cur \in work /\ cur # x
        BY <1>6, <1>7, <1>17, <3>2
      <4>4. \A p \in work2 : mem'[CountAt(p)] = 0 \/ mem'[CountAt(p)] \in work2 \ {x}
        BY <4>1, <4>2, <4>3 DEF Linked
      <4>5. \A p, q \in work2 : mem'[CountAt(p)] = mem'[CountAt(q)] /\ mem'[CountAt(p)] # 0 => p = q
        BY <4>1, <4>2, <4>3 DEF Linked
      <4> QED BY <4>4, <4>5 DEF Linked
    <3> QED BY <3>1, <3>2
  <2>4. \A p \in work : /\ NextSlot(p)' \in ChildSlots
                        /\ mem'[CountAt(p)] = 0 => p = res /\ pc = "copyChild"
    <3> SUFFICES ASSUME NEW p \in work
                 PROVE  /\ NextSlot(p)' \in ChildSlots
                        /\ mem'[CountAt(p)] = 0 => p = res /\ pc = "copyChild"
      OBVIOUS
    <3>1. pc = "copyChild" /\ InCopy /\ p \in blocks \ {x}
      BY <1>5, <1>6, <1>7
    <3>2. NextSlot(p) \in ChildSlots
      BY <1>3, <1>4, <1>5, <3>1 DEF CopyOK
    <3>3. mem[CountAt(p)] = 0 => p = res
      BY <1>3, <1>4, <3>1 DEF CopyOK
    <3> QED BY <1>24, <3>1, <3>2, <3>3
  <2>5. mem'[CountAt(x)] = 0 => x = copy'.result
    BY <1>7, <1>17, <1>20
  <2>6. \A p \in work2 : /\ Begins(kept, p)'
                         /\ p # copy'.current => NextSlot(p)' \in ChildSlots
                         /\ mem'[CountAt(p)] = 0 => p = copy'.result
    <3> SUFFICES ASSUME NEW p \in work2
                 PROVE  /\ Begins(kept, p)'
                        /\ p # copy'.current => NextSlot(p)' \in ChildSlots
                        /\ mem'[CountAt(p)] = 0 => p = copy'.result
      OBVIOUS
    <3>1. CASE p = x
      BY <1>20, <2>1, <2>5, <3>1
    <3>2. CASE p # x
      BY <1>20, <2>2, <2>4, <3>2
    <3> QED BY <3>1, <3>2
  <2>7. Linked(work2, copy.current)'
    BY <1>20, <2>3 DEF Linked
  <2> HIDE DEF work2
  <2> QED BY <1>5, <1>20, <2>6, <2>7, ChildSlotsSame DEF CopyOK, work2
<1>31. blocks' = blocks /\ work2 \in SUBSET blocks
  BY <1>6
<1>32. NoneLost(kept, work2)'
  <2>1. NoneLost(kept, work) /\ pc # "trapped" /\ Falling = {}
    BY <1>2 DEF Ownership, Falling
  <2>2. PICK own : own = owned' /\ own = owned
    OBVIOUS
  <2>3. SlotsStay(kept, work, kept, work2, kept \ own)
    <3> SUFFICES ASSUME NEW p \in blocks, NEW i \in ChildSlots, Holds(kept, work, p, i)
                 PROVE  p \in blocks' /\ Holds(kept, work2, p, i)' /\ mem'[p + i] = mem[p + i]
      BY DEF SlotsStay
    <3>1. p # x
      BY <1>5, <1>6 DEF Holds
    <3>2. /\ mem'[p + i] = mem[p + i] /\ mem'[p + i] # 0
          /\ IsRecord(p)' <=> IsRecord(p)
          /\ NextSlot(p)' = NextSlot(p)
      BY <1>1, <1>3, <1>19, <3>1, HoldsStays
    <3> QED BY <1>5, <1>31, <3>2, ChildSlotsSame DEF Holds
  <2>4. Reached(mem', work2, x)
    <3>1. CASE pc = "copyRoot"
      BY <1>7, <3>1 DEF Reached
    <3>2. CASE pc = "copyChild"
      <4>1. Reached(mem, work, cur) /\ mem'[CountAt(x)] = cur
        BY <1>4, <1>5, <1>7, <1>17, <2>1, <3>2 DEF NoneLost
      <4>2. \A q \in work : mem'[CountAt(q)] = mem[CountAt(q)]
        BY <1>6, <1>24
      <4> QED BY <1>6, <4>1, <4>2, ReachedPut
    <3> QED BY <3>1, <3>2
  <2>5. blocks' \subseteq kept \cup work2
    BY <1>5, <1>31, <2>1 DEF NoneLost
  <2> HIDE DEF work2
  <2>6. Grounded(kept, work2)'
    BY <2>1, <2>2, <2>3, GroundedStays DEF NoneLost
  <2> QED BY <1>5, <1>20, <2>4, <2>5, <2>6 DEF NoneLost
<1> HIDE DEF work2
<1> QED BY <1>2, <1>19, <1>21, <1>22, <1>23, <1>26, <1>28, <1>29, <1>30, <1>31, <1>32
        DEF HeapInv, Ownership

\* The root of a copy.
LEMMA CopyRootInv == HeapInv /\ CopyRoot => HeapInv' /\ [Row!Next]_(Row!vars)
<1> SUFFICES ASSUME HeapInv, CopyRoot PROVE HeapInv' /\ [Row!Next]_(Row!vars)
  OBVIOUS
<1>1. PICK x, parent : x = alloc.root /\ parent = 0
  OBVIOUS
<1>2. /\ pc = "copyRoot" /\ mem' = Begun(x, copy.source, parent)
      /\ copy' = [copy EXCEPT !.result = x, !.current = x]
      /\ alloc' = NoAlloc /\ pc' = "copy" /\ UNCHANGED <<globals, release, args, owned, blocks>>
  BY <1>1 DEF CopyRoot
<1>3. copy' = [copy EXCEPT !.result = IF pc = "copyRoot" THEN x ELSE @, !.current = x]
  BY <1>2
<1>4. /\ pc \in {"copyRoot", "copyChild"}
      /\ parent = (IF pc = "copyRoot" THEN 0 ELSE copy.current)
  BY <1>1, <1>2
<1> QED BY <1>1, <1>2, <1>3, <1>4, BegunKeeps

\* The child of a record being copied.
LEMMA CopyChildInv == HeapInv /\ CopyChild => HeapInv' /\ [Row!Next]_(Row!vars)
<1> SUFFICES ASSUME HeapInv, CopyChild PROVE HeapInv' /\ [Row!Next]_(Row!vars)
  OBVIOUS
<1>1. PICK x, parent : x = alloc.root /\ parent = copy.current
  OBVIOUS
<1>2. /\ pc = "copyChild" /\ mem' = Begun(x, copy.source, parent)
      /\ copy' = [copy EXCEPT !.current = x]
      /\ alloc' = NoAlloc /\ pc' = "copy" /\ UNCHANGED <<globals, release, args, owned, blocks>>
  BY <1>1 DEF CopyChild
<1>3. copy' = [copy EXCEPT !.result = IF pc = "copyRoot" THEN x ELSE @, !.current = x]
  <2>1. copy \in [source : Addresses, result : Addresses, current : Addresses]
    BY DEF HeapInv, TypeOK
  <2> QED BY <1>2, <2>1
<1>4. /\ pc \in {"copyRoot", "copyChild"}
      /\ parent = (IF pc = "copyRoot" THEN 0 ELSE copy.current)
  BY <1>1, <1>2
<1> QED BY <1>1, <1>2, <1>3, <1>4, BegunKeeps


\* The record being copied and the slot that comes next.
LEMMA CopyWhat ==
  ASSUME HeapInv, pc = "copy", NextSlot(copy.current) < Width,
         NEW kept \in SUBSET blocks, NEW work \in SUBSET blocks, Ownership(kept, work)
  PROVE  LET cur == copy.current
             s == mem[KindAt(cur)]
             k == NextSlot(cur)
         IN /\ InCopy /\ ~InRelease
            /\ cur \in work /\ cur \notin kept /\ cur \in blocks /\ Begins(kept, cur)
            /\ k \in Nat /\ k < Width /\ Width <= Capacity(cur)
            /\ s \in kept /\ s \in blocks /\ IsRecord(s) /\ Width <= Capacity(s)
            /\ Value = mem[s + k] /\ Value \in Nat
<1>1. TypeOK /\ Geometry
  BY RowGeometry DEF HeapInv
<1>2. PartsOK(kept, work) /\ CopyOK(kept, work)
  BY DEF Ownership
<1>3. InCopy /\ ~InRelease
  BY DEF InCopy, InRelease, Stage
<1>4. PICK cur, s, k : cur = copy.current /\ s = mem[KindAt(cur)] /\ k = NextSlot(cur)
  OBVIOUS
<1>5. cur \in work /\ Begins(kept, cur) /\ cur \in blocks /\ cur \notin kept
  BY <1>2, <1>3, <1>4 DEF CopyOK, PartsOK
<1>6. s \in kept /\ IsRecord(s) /\ Width <= Capacity(cur) /\ s \in blocks
  BY <1>2, <1>4, <1>5 DEF Begins, Source, PartsOK
<1>7. Width <= Capacity(s)
  BY <1>2, <1>6, ShapedRecord DEF PartsOK, Kept, Whole
<1>8. cur \in Objects /\ s \in Objects
  BY <1>5, <1>6 DEF Objects
<1>9. cur - 1 \in (cur - 6)..(cur + Capacity(cur) - 1) /\ k = mem[cur - 1]
  <2>1. cur \in Nat /\ Capacity(cur) \in Nat
    BY <1>1, <1>8, InMemory
  <2> QED BY <1>4, <2>1 DEF NextSlot, MaskAt
<1>10. k \in Nat
  BY <1>1, <1>8, <1>9, InMemory
<1>11. k < Width
  BY <1>4
<1>12. s + k \in (s - 6)..(s + Capacity(s) - 1)
  <2>1. s \in Nat /\ Capacity(s) \in Nat
    BY <1>1, <1>8, InMemory
  <2> QED BY <1>7, <1>10, <1>11, <2>1, Sizes
<1>13. mem[s + k] \in Nat
  BY <1>1, <1>8, <1>12, InMemory
<1>14. Value = mem[s + k]
  BY <1>4 DEF Value
<1> QED BY <1>3, <1>4, <1>5, <1>6, <1>7, <1>10, <1>11, <1>13, <1>14

\* A slot is written and the next slot advances.
LEMMA AdvancedIs ==
  ASSUME NEW m \in Memories, NEW p \in Nat, NEW k \in Nat, p - 1 \in Addresses,
         p + k \in Addresses, m[p - 1] = k, NEW w \in Nat
  PROVE  /\ Advanced(m, p, w) \in Memories
         /\ \A a \in Addresses :
               Advanced(m, p, w)[a] = IF a = p - 1 THEN k + 1
                                      ELSE IF a = p + k THEN w ELSE m[a]
<1> DEFINE m1 == [m EXCEPT ![p + k] = w]
           m2 == [m1 EXCEPT ![p - 1] = k + 1]
<1>1. m1 \in Memories /\ \A a \in Addresses : m1[a] = IF a = p + k THEN w ELSE m[a]
  BY DEF Memories
<1>2. p + k # p - 1 /\ m1[p - 1] = k
  BY <1>1
<1>3. m2 \in Memories /\ \A a \in Addresses : m2[a] = IF a = p - 1 THEN k + 1 ELSE m1[a]
  <2> HIDE DEF m1
  <2> QED BY <1>1 DEF Memories
<1>4. Advanced(m, p, w) = m2
  <2>1. Advanced(m, p, w) = [m EXCEPT ![p + m[p - 1]] = w, ![p - 1] = m[p - 1] + 1]
    BY DEF Advanced, MaskAt
  <2>2. m[p - 1] = k
    OBVIOUS
  <2> HIDE DEF m1
  <2> QED BY <2>1, <2>2 DEF m1
<1> HIDE DEF m1, m2
<1> QED BY <1>1, <1>3, <1>4

\* A word of the source that is not a child is copied.
LEMMA CopyWordInv == HeapInv /\ CopyWord => HeapInv' /\ [Row!Next]_(Row!vars)
<1> SUFFICES ASSUME HeapInv, CopyWord PROVE HeapInv' /\ [Row!Next]_(Row!vars)
  OBVIOUS
<1>1. TypeOK /\ Geometry /\ FreshOK
  BY RowGeometry DEF HeapInv
<1>2. PICK kept \in SUBSET blocks, work \in SUBSET blocks : Ownership(kept, work)
  BY DEF HeapInv
<1>3. PartsOK(kept, work) /\ ChildrenOK(kept, work) /\ ReleaseOK(work) /\ CopyOK(kept, work)
  BY <1>2 DEF Ownership
<1>4. PICK cur, k, v : cur = copy.current /\ k = NextSlot(cur) /\ v = Value
  OBVIOUS
<1>5. /\ pc = "copy" /\ NextSlot(copy.current) < Width /\ mem' = Advanced(mem, cur, v)
      /\ ~(Bit(Mask, k) /\ v # 0)
      /\ UNCHANGED <<globals, pc, alloc, release, copy, args, owned, blocks>>
  BY <1>4 DEF CopyWord, Descends
<1>6. /\ InCopy /\ ~InRelease
      /\ cur \in work /\ cur \notin kept /\ cur \in blocks /\ Begins(kept, cur)
      /\ k \in Nat /\ k < Width /\ Width <= Capacity(cur) /\ v \in Nat
  BY <1>2, <1>4, <1>5, CopyWhat
<1>7. /\ Stage' = Stage /\ InCopy' /\ ~InRelease' /\ Fresh' = {} /\ Falling' = {} /\ Stage = "copy"
  BY <1>5 DEF Stage, InCopy, InRelease, Fresh, Falling
<1>8. cur \in Objects
  BY <1>6 DEF Objects
<1>9. /\ cur \in Nat \ {0} /\ Capacity(cur) \in Nat \ {0}
      /\ \A a \in (cur - 6)..(cur + Capacity(cur) - 1) : a \in Addresses
  BY <1>1, <1>8, InMemory
<1>10. /\ \A a \in {cur - 6, cur - 5, cur - 4, cur - 3, cur - 1, cur + k} :
             a \in Addresses /\ a \in (cur - 6)..(cur + Capacity(cur) - 1)
  <2>1. \A a \in {cur - 6, cur - 5, cur - 4, cur - 3, cur - 1, cur + k} :
           a \in (cur - 6)..(cur + Capacity(cur) - 1)
    BY <1>6, <1>9, Sizes
  <2> QED BY <1>9, <2>1
<1>11. mem[cur - 1] = k /\ mem \in Memories
  BY <1>1, <1>4 DEF NextSlot, MaskAt, TypeOK, Memories
<1>12. /\ mem' \in Memories
       /\ \A a \in Addresses : mem'[a] = IF a = cur - 1 THEN k + 1
                                         ELSE IF a = cur + k THEN v ELSE mem[a]
  <2>1. cur \in Nat /\ cur - 1 \in Addresses /\ cur + k \in Addresses
    BY <1>9, <1>10
  <2> QED BY <1>5, <1>6, <1>11, <2>1, AdvancedIs
<1>13. OnlyIn(cur)
  BY <1>10, <1>12 DEF OnlyIn
<1>14. /\ mem'[cur - 6] = mem[cur - 6] /\ mem'[cur - 5] = mem[cur - 5]
       /\ mem'[cur - 4] = mem[cur - 4] /\ mem'[cur - 3] = mem[cur - 3]
       /\ mem'[cur - 1] = k + 1 /\ mem'[cur + k] = v
  BY <1>6, <1>9, <1>10, <1>12
<1>15. /\ mem'[MagicAt(cur)] = mem[MagicAt(cur)] /\ mem'[CountAt(cur)] = mem[CountAt(cur)]
       /\ mem'[CapacityAt(cur)] = mem[CapacityAt(cur)] /\ mem'[KindAt(cur)] = mem[KindAt(cur)]
       /\ NextSlot(cur)' = k + 1
  BY <1>14 DEF MagicAt, CountAt, CapacityAt, KindAt, MaskAt, NextSlot
<1>16. \A i \in Nat : i < k => mem'[cur + i] = mem[cur + i]
  <2> SUFFICES ASSUME NEW i \in Nat, i < k PROVE mem'[cur + i] = mem[cur + i]
    OBVIOUS
  <2>1. cur + i \in (cur - 6)..(cur + Capacity(cur) - 1) /\ cur + i # cur + k /\ cur + i # cur - 1
    BY <1>6, <1>9, Sizes
  <2> QED BY <1>9, <1>12, <2>1
<1>17. /\ FreeBlocks' = FreeBlocks /\ IsChain(mem', head', FreeBlocks') /\ RowInv'
       /\ [Row!Next]_(Row!vars) /\ Capacity(cur)' = Capacity(cur)
       /\ \A p \in blocks \ {cur} : p \in Objects /\ Untouched(p)
  BY <1>5, <1>6, <1>12, <1>13, <1>15, WritesIn
<1>18. TypeOK'
  BY <1>1, <1>5, <1>12 DEF TypeOK, globals, Memories
<1>19. ListOK'
  BY <1>5, <1>17 DEF ListOK
<1>20. FreshOK'
  BY <1>5, <1>7 DEF FreshOK
<1>21. \A p \in blocks \ {cur} :
          /\ IsRecord(p)' <=> IsRecord(p)
          /\ NextSlot(p)' = NextSlot(p) /\ Capacity(p)' = Capacity(p)
          /\ mem'[CountAt(p)] = mem[CountAt(p)] /\ mem'[KindAt(p)] = mem[KindAt(p)]
          /\ mem'[MagicAt(p)] = mem[MagicAt(p)]
          /\ \A i \in Nat : i < Capacity(p) => mem'[p + i] = mem[p + i]
  BY <1>1, <1>17, UntouchedIs, UntouchedKeeps
<1>22. \A p : Source(kept, p) => Source(kept, p)'
  BY <1>6, <1>21 DEF Source
<1>23. PartsOK(kept, work)'
  <2>1. \A p \in kept : Kept(p)'
    <3> SUFFICES ASSUME NEW p \in kept PROVE Kept(p)'
      OBVIOUS
    <3>1. p \in Objects /\ Untouched(p) /\ Kept(p) /\ (p \in owned => p \in owned')
      BY <1>3, <1>5, <1>6, <1>17 DEF PartsOK
    <3> QED BY <1>1, <3>1, KeptKeeps
  <2> QED BY <1>3, <1>5, <1>7, <2>1 DEF PartsOK
<1>24. ChildrenOK(kept, work)'
  <2>1. ASSUME NEW p \in blocks', NEW i \in ChildSlots, Holds(kept, work, p, i)'
        PROVE  /\ p \in blocks /\ Holds(kept, work, p, i)
               /\ mem'[p + i] = mem[p + i] /\ mem[p + i] \in kept \ owned'
    <3>1. i \in Nat /\ i < Width /\ p \in blocks /\ Bit(Mask, i)
      BY <1>5, SlotTypes DEF ChildSlots
    <3>2. CASE p = cur
      <4>1. i < k + 1 /\ mem'[cur + i] # 0
        BY <1>5, <1>6, <1>7, <1>15, <2>1, <3>2 DEF Holds
      <4>2. i # k
        BY <1>5, <1>14, <3>1, <4>1
      <4>3. i < k
        BY <1>6, <3>1, <4>1, <4>2
      <4>4. mem'[p + i] = mem[p + i]
        BY <1>16, <3>1, <3>2, <4>3
      <4>5. Holds(kept, work, p, i)
        BY <1>4, <1>6, <2>1, <3>2, <4>3, <4>4 DEF Holds
      <4> QED BY <1>3, <1>5, <3>1, <4>4, <4>5 DEF ChildrenOK
    <3>3. CASE p # cur
      <4>1. \/ p \in kept /\ IsRecord(p)
            \/ p \in work /\ InCopy /\ i < NextSlot(p)
        BY <1>5, <1>6, <1>7, <1>21, <2>1, <3>1, <3>3 DEF Holds
      <4>2. Width <= Capacity(p)
        BY <1>3, <4>1, ShapedRecord DEF PartsOK, Kept, Whole, CopyOK, Begins
      <4>3. i < Capacity(p)
        BY <1>1, <3>1, <4>2, Sizes DEF Geometry, Objects
      <4>4. mem'[p + i] = mem[p + i]
        BY <1>21, <3>1, <3>3, <4>3
      <4>5. Holds(kept, work, p, i)
        BY <2>1, <4>1, <4>4 DEF Holds
      <4> QED BY <1>3, <1>5, <3>1, <4>4, <4>5 DEF ChildrenOK
    <3> QED BY <3>2, <3>3
  <2> QED BY <1>3, <2>1, ChildrenKeep
<1>25. ReleaseOK(work)'
  BY <1>3, <1>5, <1>6, <1>7 DEF ReleaseOK
<1>26. CopyOK(kept, work)'
  <2>1. Begins(kept, cur)'
    <3>1. PICK q : q = mem[KindAt(cur)]
      OBVIOUS
    <3>2. Source(kept, q)' /\ mem'[KindAt(cur)] = q
      BY <1>6, <1>15, <1>22, <3>1 DEF Begins
    <3>3. k + 1 <= Width
      BY <1>6, Sizes
    <3> QED BY <1>6, <1>15, <1>17, <3>2, <3>3 DEF Begins, Source, IsRecord
  <2>2. ASSUME NEW p \in work, p # cur PROVE Begins(kept, p)'
    <3>1. p \in blocks \ {cur} /\ Begins(kept, p)
      BY <1>3, <1>6, <2>2 DEF CopyOK
    <3>2. PICK q : q = mem[KindAt(p)]
      OBVIOUS
    <3>3. Source(kept, q)' /\ mem'[KindAt(p)] = q
      BY <1>21, <1>22, <3>1, <3>2 DEF Begins
    <3> QED BY <1>21, <3>1, <3>3 DEF Begins, Source, IsRecord
  <2>3. \A p \in work : mem'[CountAt(p)] = mem[CountAt(p)]
    BY <1>15, <1>21
  <2>4. Linked(work, copy.current)'
    BY <1>3, <1>5, <1>6, <2>3 DEF CopyOK, Linked
  <2>5. \A p \in work : p # cur => NextSlot(p)' \in ChildSlots
    <3> SUFFICES ASSUME NEW p \in work, p # cur PROVE NextSlot(p)' \in ChildSlots
      OBVIOUS
    <3>1. NextSlot(p) \in ChildSlots
      BY <1>3, <1>4, <1>6 DEF CopyOK
    <3> QED BY <1>21, <3>1
  <2>6. \A p \in work : mem'[CountAt(p)] = 0 => p = copy'.result
    BY <1>3, <1>5, <1>6, <2>3 DEF CopyOK
  <2>7. \A p \in work : Begins(kept, p)'
    BY <2>1, <2>2
  <2>8. Stage' = "copy" /\ copy' = copy /\ copy'.current = cur
    BY <1>4, <1>5, <1>7
  <2> QED BY <1>6, <1>7, <2>4, <2>5, <2>6, <2>7, <2>8, ChildSlotsSame DEF CopyOK
<1>27. blocks' = blocks
  BY <1>5
<1>28. NoneLost(kept, work)'
  <2>1. NoneLost(kept, work) /\ pc # "trapped" /\ pc # "drop" /\ Fresh = {} /\ Falling = {}
    BY <1>2, <1>5 DEF Ownership, Fresh, Falling
  <2>2. PICK own : own = owned' /\ own = owned
    BY <1>5
  <2>3. SlotsStay(kept, work, kept, work, kept \ own)
    <3> SUFFICES ASSUME NEW p \in blocks, NEW i \in ChildSlots, Holds(kept, work, p, i)
                 PROVE  p \in blocks' /\ Holds(kept, work, p, i)' /\ mem'[p + i] = mem[p + i]
      BY DEF SlotsStay
    <3>1. CASE p = cur
      <4>1. i \in Nat /\ i < k /\ mem[p + i] # 0
        BY <1>4, <1>6, <2>1, <3>1, SlotTypes DEF Holds
      <4>2. mem'[p + i] = mem[p + i] /\ i < NextSlot(p)'
        BY <1>6, <1>15, <1>16, <3>1, <4>1
      <4> QED BY <1>6, <1>7, <1>27, <3>1, <4>1, <4>2, ChildSlotsSame DEF Holds
    <3>2. CASE p # cur
      <4>1. /\ mem'[p + i] = mem[p + i] /\ mem'[p + i] # 0
            /\ IsRecord(p)' <=> IsRecord(p)
            /\ NextSlot(p)' = NextSlot(p)
        BY <1>1, <1>3, <1>17, <3>2, HoldsStays
      <4> QED BY <1>6, <1>7, <1>27, <2>1, <4>1, ChildSlotsSame DEF Holds
    <3> QED BY <3>1, <3>2
  <2>4. Grounded(kept, work)'
    BY <2>1, <2>2, <2>3, GroundedStays DEF NoneLost
  <2>5. \A q \in work : mem'[CountAt(q)] = mem[CountAt(q)]
    BY <1>15, <1>21
  <2>6. Reached(mem', work, cur)
    BY <1>4, <1>6, <2>1, <2>5, ReachedSame DEF NoneLost
  <2>7. copy'.current = cur /\ blocks' \subseteq kept \cup work
    BY <1>4, <1>5, <2>1 DEF NoneLost
  <2> QED BY <1>7, <2>4, <2>6, <2>7 DEF NoneLost
<1> QED BY <1>2, <1>17, <1>18, <1>19, <1>20, <1>23, <1>24, <1>25, <1>26, <1>27, <1>28
        DEF HeapInv, Ownership


\* A child of the source is a record, which is copied first.
LEMMA DescendInv == HeapInv /\ Descend => HeapInv' /\ [Row!Next]_(Row!vars)
<1> SUFFICES ASSUME HeapInv, Descend PROVE HeapInv' /\ [Row!Next]_(Row!vars)
  OBVIOUS
<1>1. TypeOK /\ Geometry /\ ListOK /\ FreshOK
  BY RowGeometry DEF HeapInv
<1>2. PICK kept \in SUBSET blocks, work \in SUBSET blocks : Ownership(kept, work)
  BY DEF HeapInv
<1>3. PartsOK(kept, work) /\ ChildrenOK(kept, work) /\ ReleaseOK(work) /\ CopyOK(kept, work)
  BY <1>2 DEF Ownership
<1>4. PICK cur, s, k, v : cur = copy.current /\ s = mem[KindAt(cur)] /\ k = NextSlot(cur) /\ v = Value
  OBVIOUS
<1>5. /\ pc = "copy" /\ NextSlot(copy.current) < Width /\ Bit(Mask, k) /\ v # 0
      /\ pc' = "search" /\ alloc' = [NoAlloc EXCEPT !.need = Width, !.current = head, !.then = "copyChild"]
      /\ copy' = [copy EXCEPT !.source = v]
      /\ UNCHANGED <<mem, globals, release, args, owned, blocks>>
  BY <1>4 DEF Descend, Descends, CallAlloc
<1>6. /\ InCopy /\ ~InRelease /\ cur \in work
      /\ k \in Nat /\ k < Width
      /\ s \in kept /\ s \in blocks /\ IsRecord(s) /\ v = mem[s + k]
  BY <1>2, <1>4, <1>5, CopyWhat
<1>7. k \in ChildSlots
  BY <1>5, <1>6, Sizes DEF ChildSlots
<1>8. v \in kept \ owned /\ v \in blocks
  <2>1. Holds(kept, work, s, k)
    BY <1>5, <1>6, <1>7 DEF Holds
  <2> QED BY <1>3, <1>6, <1>7, <2>1 DEF ChildrenOK
<1>9. Source(kept, v)
  BY <1>3, <1>8 DEF PartsOK, Kept, Source
<1>10. 0 \in Addresses /\ head \in Addresses /\ v \in Addresses /\ Width \in Nat
  <2>1. 0 \in Addresses /\ head \in Addresses
    BY <1>1, ListIn
  <2> QED BY <1>1, <1>8, <2>1, Sizes DEF TypeOK
<1>11. /\ alloc'.need = Width /\ alloc'.previous = 0 /\ alloc'.current = head
       /\ alloc'.then = "copyChild"
       /\ alloc' \in [need : Nat, previous : Addresses, current : Addresses, root : Addresses,
                      then : {"program", "array", "record", "header", "copyRoot", "copyChild"}]
  BY <1>5, <1>10 DEF NoAlloc
<1>12. /\ copy'.source = v /\ copy'.current = copy.current /\ copy'.result = copy.result
       /\ copy' \in [source : Addresses, result : Addresses, current : Addresses]
  BY <1>1, <1>5, <1>10 DEF TypeOK
<1>13. /\ Stage' = "copyChild" /\ Fresh' = {} /\ Falling' = {} /\ ~InRelease' /\ InCopy'
       /\ Room' = Width
  BY <1>5, <1>11 DEF Stage, Fresh, Falling, InRelease, InCopy, Room
<1>14. Quiet({})
  BY <1>5, QuietStutter DEF globals
<1>15. FreeBlocks' = FreeBlocks /\ IsChain(mem', head', FreeBlocks') /\ RowInv'
       /\ [Row!Next]_(Row!vars)
  BY <1>14, QuietKeeps
<1>16. TypeOK'
  BY <1>1, <1>5, <1>11, <1>12 DEF TypeOK, globals
<1>17. ListOK'
  <2>1. Follows(FreeBlocks, 0, head)
    BY <1>1 DEF ListOK, IsChain
  <2>2. Walks(alloc.previous, alloc.current)'
    BY <1>11, <1>15, <2>1 DEF Walks
  <2>3. \A p \in FreeBlocks' : ~(p <= alloc'.previous)
    <3>1. \A p \in FreeBlocks : p \in Nat \ {0}
      BY <1>1, ListIn
    <3> QED BY <1>11, <1>15, <3>1
  <2> QED BY <1>5, <1>15, <2>2, <2>3 DEF ListOK
<1>18. FreshOK'
  BY <1>10, <1>11, <1>13 DEF FreshOK
<1>19. PartsOK(kept, work)'
  BY <1>3, <1>5, <1>13 DEF PartsOK, Kept, Whole, Shaped, Capacity, IsRecord
<1>20. ChildrenOK(kept, work)'
  <2>1. pc # "drop" /\ pc' # "drop"
    BY <1>5
  <2>2. \A p, i : Holds(kept, work, p, i)' => Holds(kept, work, p, i)
    BY <1>5, <1>6, <1>13, <2>1 DEF Holds, IsRecord, ChildSlots, Bit, NextSlot
  <2> QED BY <1>3, <1>5, <2>2 DEF ChildrenOK, ChildSlots, Bit
<1>21. ReleaseOK(work)'
  BY <1>3, <1>5, <1>6, <1>13 DEF ReleaseOK
<1>22. CopyOK(kept, work)'
  <2>1. Source(kept, copy.source)'
    BY <1>5, <1>9, <1>12 DEF Source, IsRecord
  <2>2. Linked(work, copy.current)'
    BY <1>3, <1>5, <1>6, <1>12 DEF CopyOK, Linked
  <2>3. \A p \in work : /\ Begins(kept, p)'
                        /\ p # copy'.current => NextSlot(p)' \in ChildSlots
                        /\ mem'[CountAt(p)] = 0 => p = copy'.result
    BY <1>3, <1>5, <1>6, <1>12 DEF CopyOK, Begins, Source, IsRecord, NextSlot, Capacity
  <2>4. NextSlot(copy.current)' \in ChildSlots
    BY <1>4, <1>5, <1>7, <1>12 DEF NextSlot
  <2>5. copy'.current \in work
    BY <1>4, <1>6, <1>12
  <2> QED BY <1>13, <2>1, <2>2, <2>3, <2>4, <2>5, ChildSlotsSame DEF CopyOK
<1>23. blocks' = blocks
  BY <1>5
<1>24. NoneLost(kept, work)'
  <2>1. NoneLost(kept, work) /\ pc # "trapped" /\ pc # "drop" /\ Fresh = {} /\ Falling = {}
    BY <1>2, <1>5 DEF Ownership, Fresh, Falling
  <2>2. \A p, i : Holds(kept, work, p, i) => Holds(kept, work, p, i)'
    BY <1>5, <1>6, <1>13, <2>1, ChildSlotsSame DEF Holds, IsRecord, NextSlot
  <2>3. Grounded(kept, work)'
    BY <1>5, <2>1, <2>2, ChildSlotsSame DEF NoneLost, Grounded
  <2> QED BY <1>5, <1>6, <1>12, <1>13, <2>1, <2>3 DEF NoneLost
<1> QED BY <1>2, <1>15, <1>16, <1>17, <1>18, <1>19, <1>20, <1>21, <1>22, <1>23, <1>24
        DEF HeapInv, Ownership

\* A record that is sealed again has a reference count of one.
LEMMA RestoredIs ==
  ASSUME mem \in Memories, NEW x \in Nat
  PROVE  /\ Restored(x) \in Memories
         /\ \A a \in Addresses :
               /\ a = x - 5 => Restored(x)[a] = 1
               /\ a = x - 3 => Restored(x)[a] = 1
               /\ a = x - 2 => Restored(x)[a] = Width
               /\ a = x - 1 => Restored(x)[a] = Mask
               /\ a < x - 5 \/ a = x - 4 \/ x <= a => Restored(x)[a] = mem[a]
<1> DEFINE m1 == Write(mem, x - 5, 1)
<1>1. m1 \in Memories /\ \A a \in Addresses : m1[a] = IF a = x - 5 THEN 1 ELSE mem[a]
  BY WriteIs
<1>2. Restored(x) = Sealed(m1, x)
  BY DEF Restored, CountAt
<1>3. Addresses \subseteq Nat
  BY Sizes
<1> HIDE DEF m1
<1>4. /\ Sealed(m1, x) \in Memories
      /\ \A a \in Addresses :
            /\ a = x - 3 => Sealed(m1, x)[a] = 1
            /\ a = x - 2 => Sealed(m1, x)[a] = Width
            /\ a = x - 1 => Sealed(m1, x)[a] = Mask
            /\ a < x - 3 \/ x <= a => Sealed(m1, x)[a] = m1[a]
  BY <1>1, SealedIs
<1> QED BY <1>1, <1>2, <1>3, <1>4

\* What the record is that a copy has come to the end of.
LEMMA CopyEnds ==
  ASSUME HeapInv, pc = "copy", NextSlot(copy.current) >= Width,
         NEW kept \in SUBSET blocks, NEW work \in SUBSET blocks, Ownership(kept, work)
  PROVE  LET cur == copy.current
         IN /\ InCopy /\ ~InRelease
            /\ cur \in work /\ cur \notin kept /\ cur \in blocks /\ cur \notin owned
            /\ mem[MagicAt(cur)] = Magic /\ NextSlot(cur) = Width /\ Width <= Capacity(cur)
            /\ Parent = mem[CountAt(cur)] /\ (Parent = 0 \/ Parent \in work \ {cur})
            /\ Parent = 0 => cur = copy.result
<1>1. TypeOK /\ Geometry
  BY RowGeometry DEF HeapInv
<1>2. PartsOK(kept, work) /\ CopyOK(kept, work)
  BY DEF Ownership
<1>3. InCopy /\ ~InRelease
  BY DEF InCopy, InRelease, Stage
<1>4. PICK cur, k : cur = copy.current /\ k = NextSlot(cur)
  OBVIOUS
<1>5. /\ cur \in work /\ Begins(kept, cur) /\ cur \in blocks /\ cur \notin kept /\ cur \notin owned
      /\ Linked(work, cur)
  BY <1>2, <1>3, <1>4 DEF CopyOK, PartsOK
<1>6. cur - 1 \in (cur - 6)..(cur + Capacity(cur) - 1) /\ k = mem[cur - 1] /\ cur \in Objects
  <2>1. cur \in Objects
    BY <1>5 DEF Objects
  <2>2. cur \in Nat /\ Capacity(cur) \in Nat
    BY <1>1, <2>1, InMemory
  <2> QED BY <1>4, <2>1, <2>2 DEF NextSlot, MaskAt
<1>7. k \in Nat
  BY <1>1, <1>6, InMemory
<1>8. k = Width
  BY <1>4, <1>5, <1>7, Sizes DEF Begins
<1>9. mem[MagicAt(cur)] = Magic /\ Width <= Capacity(cur)
  BY <1>5 DEF Begins
<1>10. Parent = mem[CountAt(cur)] /\ (Parent = 0 \/ Parent \in work \ {cur})
  BY <1>4, <1>5 DEF Parent, Linked
<1>11. Parent = 0 => cur = copy.result
  BY <1>2, <1>3, <1>4, <1>5, <1>10 DEF CopyOK
<1> QED BY <1>3, <1>4, <1>5, <1>8, <1>9, <1>10, <1>11

\* The end of a copy: its root belongs to the program.
LEMMA CopiedInv == HeapInv /\ Copied => HeapInv' /\ [Row!Next]_(Row!vars)
<1> SUFFICES ASSUME HeapInv, Copied PROVE HeapInv' /\ [Row!Next]_(Row!vars)
  OBVIOUS
<1>1. TypeOK /\ Geometry /\ FreshOK
  BY RowGeometry DEF HeapInv
<1>2. PICK kept \in SUBSET blocks, work \in SUBSET blocks : Ownership(kept, work)
  BY DEF HeapInv
<1>3. PartsOK(kept, work) /\ ChildrenOK(kept, work) /\ ReleaseOK(work) /\ CopyOK(kept, work)
  BY <1>2 DEF Ownership
<1>4. PICK x : x = copy.current
  OBVIOUS
<1>5. /\ pc = "copy" /\ NextSlot(copy.current) >= Width /\ Parent = 0
      /\ mem' = Restored(x) /\ owned' = owned \cup {copy.result}
      /\ copy' = NoCopy /\ pc' = "program" /\ UNCHANGED <<globals, alloc, release, args, blocks>>
  BY <1>4 DEF Copied
<1>6. /\ InCopy /\ ~InRelease /\ x \in work /\ x \notin kept /\ x \in blocks
      /\ mem[MagicAt(x)] = Magic /\ NextSlot(x) = Width /\ Width <= Capacity(x)
      /\ owned' = owned \cup {x}
  BY <1>2, <1>4, <1>5, CopyEnds
<1>7. /\ Stage' = "program" /\ Fresh' = {} /\ Falling' = {} /\ ~InRelease' /\ ~InCopy'
      /\ pc # "drop" /\ pc' # "drop"
  BY <1>5 DEF Stage, Fresh, Falling, InRelease, InCopy
<1>8. x \in Objects
  BY <1>6 DEF Objects
<1>9. /\ x \in Nat \ {0} /\ Capacity(x) \in Nat \ {0}
      /\ \A a \in (x - 6)..(x + Capacity(x) - 1) : a \in Addresses
  BY <1>1, <1>8, InMemory
<1>10. /\ mem' \in Memories
       /\ \A a \in Addresses :
             /\ a = x - 5 => mem'[a] = 1
             /\ a = x - 3 => mem'[a] = 1
             /\ a = x - 2 => mem'[a] = Width
             /\ a = x - 1 => mem'[a] = Mask
             /\ a < x - 5 \/ a = x - 4 \/ x <= a => mem'[a] = mem[a]
  <2>1. mem \in Memories
    BY <1>1 DEF TypeOK, Memories
  <2> QED BY <1>5, <1>9, <2>1, RestoredIs
<1>11. OnlyIn(x)
  <2> SUFFICES ASSUME NEW a \in Addresses, a \notin (x - 6)..(x + Capacity(x) - 1)
               PROVE  mem'[a] = mem[a]
    BY DEF OnlyIn
  <2>1. a < x - 5 \/ x <= a
    BY <1>9, Sizes
  <2> QED BY <1>10, <2>1
<1>12. \A a \in {x - 6, x - 5, x - 4, x - 3, x - 2, x - 1} : a \in Addresses
  <2>1. \A a \in {x - 6, x - 5, x - 4, x - 3, x - 2, x - 1} : a \in (x - 6)..(x + Capacity(x) - 1)
    BY <1>9
  <2> QED BY <1>9, <2>1
<1>13. x - 6 < x - 5
  BY <1>9
<1>14. /\ mem'[x - 6] = mem[x - 6] /\ mem'[x - 5] = 1 /\ mem'[x - 4] = mem[x - 4]
       /\ mem'[x - 3] = 1 /\ mem'[x - 2] = Width /\ mem'[x - 1] = Mask
  BY <1>10, <1>12, <1>13
<1>15. mem'[CapacityAt(x)] = mem[CapacityAt(x)]
  BY <1>14 DEF CapacityAt
<1>16. Whole(x)' /\ IsRecord(x)'
  BY <1>6, <1>14, Sizes DEF Whole, Shaped, IsRecord, Capacity, MagicAt, CountAt, CapacityAt, KindAt, WidthAt, MaskAt
<1>17. /\ FreeBlocks' = FreeBlocks /\ IsChain(mem', head', FreeBlocks') /\ RowInv'
       /\ [Row!Next]_(Row!vars)
       /\ \A p \in blocks \ {x} : p \in Objects /\ Untouched(p)
  BY <1>5, <1>6, <1>10, <1>11, <1>15, WritesIn
<1>18. \A i \in Nat : i < Width => mem'[x + i] = mem[x + i]
  <2> SUFFICES ASSUME NEW i \in Nat, i < Width PROVE mem'[x + i] = mem[x + i]
    OBVIOUS
  <2>1. x + i \in (x - 6)..(x + Capacity(x) - 1) /\ x <= x + i
    BY <1>6, <1>9, Sizes
  <2> QED BY <1>9, <1>10, <2>1
<1>19. TypeOK'
  <2>1. 0 \in Addresses
    <3>1. x \in Addresses
      BY <1>1, <1>6 DEF TypeOK
    <3> QED BY <3>1, Sizes
  <2>2. copy' \in [source : Addresses, result : Addresses, current : Addresses]
    BY <1>5, <2>1 DEF NoCopy
  <2> QED BY <1>1, <1>5, <1>6, <1>10, <2>2 DEF TypeOK, globals, Memories
<1>20. ListOK'
  BY <1>5, <1>17 DEF ListOK
<1>21. FreshOK'
  BY <1>5, <1>7 DEF FreshOK
<1> DEFINE kept2 == kept \cup {x}
<1>22. PartsOK(kept2, {})'
  <2>1. \A p \in kept : Kept(p)'
    <3> SUFFICES ASSUME NEW p \in kept PROVE Kept(p)'
      OBVIOUS
    <3>1. p \in Objects /\ Untouched(p) /\ Kept(p) /\ (p \in owned => p \in owned')
      BY <1>3, <1>6, <1>17 DEF PartsOK
    <3> QED BY <1>1, <3>1, KeptKeeps
  <2>2. Kept(x)'
    BY <1>16 DEF Kept
  <2> QED BY <1>3, <1>5, <1>6, <1>7, <2>1, <2>2 DEF PartsOK
<1>23. ChildrenOK(kept2, {})'
  <2>1. ASSUME NEW p \in blocks', NEW i \in ChildSlots, Holds(kept2, {}, p, i)'
        PROVE  /\ p \in blocks /\ Holds(kept, work, p, i)
               /\ mem'[p + i] = mem[p + i] /\ mem[p + i] \in kept2 \ owned'
    <3>1. i \in Nat /\ i < Width /\ p \in kept2 /\ p \in blocks /\ IsRecord(p)' /\ mem'[p + i] # 0
      BY <1>5, <1>7, <2>1, SlotTypes DEF Holds
    <3>2. mem'[p + i] = mem[p + i] /\ Holds(kept, work, p, i)
      <4>1. CASE p = x
        BY <1>6, <1>18, <3>1, <4>1 DEF Holds
      <4>2. CASE p # x
        <5>1. p \in kept /\ p \in Objects /\ Untouched(p)
          BY <1>17, <3>1, <4>2
        <5>2. IsRecord(p)
          BY <1>1, <3>1, <5>1, UntouchedKeeps
        <5>3. Width <= Capacity(p)
          BY <1>3, <5>1, <5>2, ShapedRecord DEF PartsOK, Kept, Whole
        <5>4. i < Capacity(p)
          BY <1>1, <3>1, <5>1, <5>3, Sizes DEF Geometry
        <5>5. mem'[p + i] = mem[p + i]
          BY <1>1, <3>1, <5>1, <5>4, UntouchedIs
        <5> QED BY <3>1, <5>1, <5>2, <5>5 DEF Holds
      <4> QED BY <4>1, <4>2
    <3>3. mem[p + i] \in kept \ owned
      BY <1>3, <3>1, <3>2 DEF ChildrenOK
    <3>4. mem[p + i] # x
      BY <1>6, <3>3
    <3> QED BY <1>6, <3>1, <3>2, <3>3, <3>4
  <2> HIDE DEF kept2
  <2> QED BY <1>3, <2>1, ChildrenKeep
<1>24. ReleaseOK({})'
  BY <1>3, <1>5, <1>6, <1>7 DEF ReleaseOK
<1>25. CopyOK(kept2, {})'
  BY <1>7 DEF CopyOK
<1>26. blocks' = blocks /\ kept2 \in SUBSET blocks /\ {} \in SUBSET blocks
  BY <1>5, <1>6
<1>27. NoneLost(kept2, {})'
  <2>1. NoneLost(kept, work) /\ pc # "trapped" /\ pc # "drop" /\ Fresh = {} /\ Falling = {}
    BY <1>2, <1>5 DEF Ownership, Fresh, Falling
  <2>2. work = {x}
    <3>1. mem[CountAt(x)] = 0
      BY <1>4, <1>5 DEF Parent
    <3>2. 0 \notin work
      BY <1>1 DEF TypeOK
    <3>3. Reached(mem, work, x)
      BY <1>4, <1>6, <2>1 DEF NoneLost
    <3> QED BY <1>6, <3>1, <3>2, <3>3, ReachedOne
  <2>3. PICK own : own = owned' /\ own = owned \cup {x}
    BY <1>6
  <2>4. SlotsStay(kept, work, kept2, {}, kept2 \ own)
    <3> SUFFICES ASSUME NEW p \in blocks, NEW i \in ChildSlots, Holds(kept, work, p, i)
                 PROVE  p \in blocks' /\ Holds(kept2, {}, p, i)' /\ mem'[p + i] = mem[p + i]
      BY DEF SlotsStay
    <3>1. CASE p = x
      <4>1. mem[p + i] # 0 /\ i \in Nat /\ i < Width
        BY SlotTypes DEF Holds
      <4> QED BY <1>16, <1>18, <1>26, <3>1, <4>1, ChildSlotsSame DEF Holds
    <3>2. CASE p # x
      <4>1. p \in kept /\ IsRecord(p)
        BY <2>1, <2>2, <3>2 DEF Holds
      <4>2. /\ mem'[p + i] = mem[p + i] /\ mem'[p + i] # 0
            /\ IsRecord(p)' <=> IsRecord(p)
        BY <1>1, <1>3, <1>17, <3>2, HoldsStays
      <4> QED BY <1>26, <4>1, <4>2, ChildSlotsSame DEF Holds
    <3> QED BY <3>1, <3>2
  <2>5. kept2 \ own \subseteq kept \ owned
    BY <2>3
  <2>6. blocks' \subseteq kept2
    BY <1>26, <2>1, <2>2 DEF NoneLost
  <2> HIDE DEF kept2
  <2>7. Grounded(kept2, {})'
    BY <2>1, <2>3, <2>4, <2>5, GroundedStays DEF NoneLost
  <2> QED BY <1>7, <2>6, <2>7 DEF NoneLost
<1> HIDE DEF kept2
<1> QED BY <1>17, <1>19, <1>20, <1>21, <1>22, <1>23, <1>24, <1>25, <1>26, <1>27
        DEF HeapInv, Ownership


\* The words of a copied record and of the record it becomes a child of.
LEMMA AscendWords ==
  ASSUME TypeOK, Geometry, NEW x \in Objects, NEW y \in Objects, x # y,
         NEW j \in Nat, j = NextSlot(y), j < Width, Width <= Capacity(x), Width <= Capacity(y),
         mem' = Advanced(Restored(x), y, x)
  PROVE  /\ mem' \in Memories
         /\ \A p \in Objects \ {x, y} : Untouched(p)
         /\ mem'[MagicAt(x)] = mem[MagicAt(x)] /\ mem'[CountAt(x)] = 1
         /\ mem'[CapacityAt(x)] = mem[CapacityAt(x)] /\ mem'[KindAt(x)] = 1
         /\ mem'[WidthAt(x)] = Width /\ mem'[MaskAt(x)] = Mask
         /\ \A i \in Nat : i < Width => mem'[x + i] = mem[x + i]
         /\ mem'[MagicAt(y)] = mem[MagicAt(y)] /\ mem'[CountAt(y)] = mem[CountAt(y)]
         /\ mem'[CapacityAt(y)] = mem[CapacityAt(y)] /\ mem'[KindAt(y)] = mem[KindAt(y)]
         /\ mem'[MaskAt(y)] = j + 1 /\ mem'[y + j] = x
         /\ \A i \in Nat : i < Width /\ i # j => mem'[y + i] = mem[y + i]
<1> DEFINE m == Restored(x)
<1>1. /\ x \in Nat \ {0} /\ Capacity(x) \in Nat \ {0}
      /\ \A a \in (x - 6)..(x + Capacity(x) - 1) : a \in Addresses
  BY InMemory
<1>2. /\ y \in Nat \ {0} /\ Capacity(y) \in Nat \ {0}
      /\ \A a \in (y - 6)..(y + Capacity(y) - 1) : a \in Addresses
  BY InMemory
<1>3. x + Capacity(x) + 6 <= y \/ y + Capacity(y) + 6 <= x
  BY DEF Geometry
<1>4. Addresses \subseteq Nat /\ Width \in Nat
  BY Sizes
<1>5. /\ m \in Memories
      /\ \A a \in Addresses :
            /\ a = x - 5 => m[a] = 1
            /\ a = x - 3 => m[a] = 1
            /\ a = x - 2 => m[a] = Width
            /\ a = x - 1 => m[a] = Mask
            /\ a < x - 5 \/ a = x - 4 \/ x <= a => m[a] = mem[a]
  <2>1. mem \in Memories
    BY DEF TypeOK, Memories
  <2> QED BY <1>1, <2>1, RestoredIs
<1> HIDE DEF m
<1>6. \A a \in {y - 6, y - 5, y - 4, y - 3, y - 2, y - 1, y + j} : a \in (y - 6)..(y + Capacity(y) - 1)
  BY <1>2, <1>4
<1>7. \A a \in (y - 6)..(y + Capacity(y) - 1) : a \in Addresses /\ m[a] = mem[a]
  <2> SUFFICES ASSUME NEW a \in (y - 6)..(y + Capacity(y) - 1)
               PROVE  a \in Addresses /\ m[a] = mem[a]
    OBVIOUS
  <2>1. a \in Addresses
    BY <1>2
  <2>2. a < x - 6 \/ x + Capacity(x) <= a
    BY <1>1, <1>2, <1>3
  <2>3. a < x - 5 \/ x <= a
    BY <1>1, <1>4, <2>1, <2>2
  <2> QED BY <1>5, <2>1, <2>3
<1>8. y - 1 \in Addresses /\ y + j \in Addresses /\ m[y - 1] = j
  BY <1>6, <1>7 DEF NextSlot, MaskAt
<1>9. /\ mem' \in Memories
      /\ \A a \in Addresses : mem'[a] = IF a = y - 1 THEN j + 1 ELSE IF a = y + j THEN x ELSE m[a]
  <2>1. mem' = Advanced(m, y, x)
    BY DEF m
  <2> QED BY <1>1, <1>2, <1>5, <1>8, <2>1, AdvancedIs
<1>10. \A a \in Addresses : a \notin (y - 6)..(y + Capacity(y) - 1) => mem'[a] = m[a]
  BY <1>6, <1>9
<1>11. ASSUME NEW p \in Objects \ {x, y} PROVE Untouched(p)
  <2> SUFFICES ASSUME NEW a \in (p - 6)..(p + Capacity(p) - 1) PROVE mem'[a] = mem[a]
    BY DEF Untouched
  <2>1. a \in Addresses
    BY InMemory
  <2>2. (a < x - 6 \/ x + Capacity(x) <= a) /\ (a < y - 6 \/ y + Capacity(y) <= a)
    BY Distinct
  <2>3. a < x - 5 \/ x <= a
    BY <1>1, <1>4, <2>1, <2>2
  <2>4. a \notin (y - 6)..(y + Capacity(y) - 1)
    BY <1>2, <1>4, <2>1, <2>2
  <2> QED BY <1>5, <1>10, <2>1, <2>3, <2>4
<1>12. \A a \in (x - 6)..(x + Capacity(x) - 1) : a \in Addresses /\ mem'[a] = m[a]
  <2> SUFFICES ASSUME NEW a \in (x - 6)..(x + Capacity(x) - 1)
               PROVE  a \in Addresses /\ mem'[a] = m[a]
    OBVIOUS
  <2>1. a \in Addresses
    BY <1>1
  <2>2. a \notin (y - 6)..(y + Capacity(y) - 1)
    BY <1>1, <1>2, <1>3
  <2> QED BY <1>10, <2>1, <2>2
<1>13. \A a \in {x - 6, x - 5, x - 4, x - 3, x - 2, x - 1} : a \in Addresses /\ mem'[a] = m[a]
  <2>1. \A a \in {x - 6, x - 5, x - 4, x - 3, x - 2, x - 1} : a \in (x - 6)..(x + Capacity(x) - 1)
    BY <1>1
  <2> QED BY <1>12, <2>1
<1>14. x - 6 < x - 5
  BY <1>1
<1>15. /\ mem'[x - 6] = mem[x - 6] /\ mem'[x - 5] = 1 /\ mem'[x - 4] = mem[x - 4]
       /\ mem'[x - 3] = 1 /\ mem'[x - 2] = Width /\ mem'[x - 1] = Mask
  BY <1>5, <1>13, <1>14
<1>16. ASSUME NEW i \in Nat, i < Width PROVE mem'[x + i] = mem[x + i]
  <2>1. x + i \in (x - 6)..(x + Capacity(x) - 1) /\ x <= x + i
    BY <1>1, <1>4, <1>16
  <2> QED BY <1>5, <1>12, <2>1
<1>17. \A a \in {y - 6, y - 5, y - 4, y - 3} : a \in Addresses /\ m[a] = mem[a] /\ a # y - 1 /\ a # y + j
  <2>1. \A a \in {y - 6, y - 5, y - 4, y - 3} : a # y - 1 /\ a # y + j
    BY <1>2
  <2> QED BY <1>6, <1>7, <2>1
<1>18. /\ mem'[y - 6] = mem[y - 6] /\ mem'[y - 5] = mem[y - 5] /\ mem'[y - 4] = mem[y - 4]
       /\ mem'[y - 3] = mem[y - 3]
  BY <1>9, <1>17
<1>19. mem'[y - 1] = j + 1 /\ mem'[y + j] = x
  <2>1. y + j # y - 1
    BY <1>2
  <2> QED BY <1>8, <1>9, <2>1
<1>20. ASSUME NEW i \in Nat, i < Width, i # j PROVE mem'[y + i] = mem[y + i]
  <2>1. y + i \in (y - 6)..(y + Capacity(y) - 1) /\ y + i # y - 1 /\ y + i # y + j
    BY <1>2, <1>4, <1>20
  <2> QED BY <1>7, <1>9, <2>1
<1> QED BY <1>9, <1>11, <1>15, <1>16, <1>18, <1>19, <1>20 DEF MagicAt, CountAt, CapacityAt, KindAt, WidthAt, MaskAt

\* A copied record is sealed and becomes a child of the record that waits for it.
LEMMA AscendInv == HeapInv /\ Ascend => HeapInv' /\ [Row!Next]_(Row!vars)
<1> SUFFICES ASSUME HeapInv, Ascend PROVE HeapInv' /\ [Row!Next]_(Row!vars)
  OBVIOUS
<1>1. TypeOK /\ Geometry /\ FreshOK
  BY RowGeometry DEF HeapInv
<1>2. PICK kept \in SUBSET blocks, work \in SUBSET blocks : Ownership(kept, work)
  BY DEF HeapInv
<1>3. PartsOK(kept, work) /\ ChildrenOK(kept, work) /\ ReleaseOK(work) /\ CopyOK(kept, work)
  BY <1>2 DEF Ownership
<1>4. PICK x, y, j : x = copy.current /\ y = Parent /\ j = NextSlot(y)
  OBVIOUS
<1>5. /\ pc = "copy" /\ NextSlot(copy.current) >= Width /\ Parent # 0
      /\ mem' = Advanced(Restored(x), y, x) /\ copy' = [copy EXCEPT !.current = y]
      /\ UNCHANGED <<globals, pc, alloc, release, args, owned, blocks>>
  BY <1>4 DEF Ascend
<1>6. /\ InCopy /\ ~InRelease /\ x \in work /\ x \notin kept /\ x \in blocks /\ x \notin owned
      /\ mem[MagicAt(x)] = Magic /\ NextSlot(x) = Width /\ Width <= Capacity(x)
      /\ y = mem[CountAt(x)] /\ y \in work \ {x} /\ y # 0
  BY <1>2, <1>4, <1>5, CopyEnds
<1>7. /\ Stage = "copy" /\ Stage' = "copy" /\ Fresh' = {} /\ Falling' = {} /\ ~InRelease' /\ InCopy'
      /\ pc # "drop" /\ pc' # "drop"
  BY <1>5 DEF Stage, Fresh, Falling, InRelease, InCopy
<1>8. /\ Begins(kept, y) /\ j \in ChildSlots /\ j < Width /\ y \in blocks /\ y \notin kept /\ y \notin owned
      /\ Linked(work, x)
  BY <1>3, <1>4, <1>6, SlotTypes DEF CopyOK, PartsOK
<1>9. x \in Objects /\ y \in Objects /\ x # y /\ Width <= Capacity(y)
  BY <1>6, <1>8 DEF Objects, Begins
<1>10. j \in Nat
  <2>1. y \in Nat /\ Capacity(y) \in Nat /\ \A a \in (y - 6)..(y + Capacity(y) - 1) : mem[a] \in Nat
    BY <1>1, <1>9, InMemory
  <2>2. y - 1 \in (y - 6)..(y + Capacity(y) - 1)
    BY <2>1
  <2> QED BY <1>4, <2>1, <2>2 DEF NextSlot, MaskAt
<1>11. /\ mem' \in Memories
       /\ \A p \in Objects \ {x, y} : Untouched(p)
       /\ mem'[MagicAt(x)] = mem[MagicAt(x)] /\ mem'[CountAt(x)] = 1
       /\ mem'[CapacityAt(x)] = mem[CapacityAt(x)] /\ mem'[KindAt(x)] = 1
       /\ mem'[WidthAt(x)] = Width /\ mem'[MaskAt(x)] = Mask
       /\ \A i \in Nat : i < Width => mem'[x + i] = mem[x + i]
       /\ mem'[MagicAt(y)] = mem[MagicAt(y)] /\ mem'[CountAt(y)] = mem[CountAt(y)]
       /\ mem'[CapacityAt(y)] = mem[CapacityAt(y)] /\ mem'[KindAt(y)] = mem[KindAt(y)]
       /\ mem'[MaskAt(y)] = j + 1 /\ mem'[y + j] = x
       /\ \A i \in Nat : i < Width /\ i # j => mem'[y + i] = mem[y + i]
  BY <1>1, <1>4, <1>5, <1>6, <1>8, <1>9, <1>10, AscendWords
<1>12. Quiet({x, y})
  BY <1>5, <1>6, <1>8, <1>11 DEF Quiet, globals
<1>13. /\ FreeBlocks' = FreeBlocks /\ IsChain(mem', head', FreeBlocks') /\ RowInv'
       /\ [Row!Next]_(Row!vars)
       /\ \A p \in Objects : Capacity(p)' = Capacity(p)
  BY <1>12, QuietKeeps
<1>14. \A p \in blocks \ {x, y} : p \in Objects /\ Untouched(p)
  BY <1>11 DEF Objects
<1>15. Whole(x)' /\ IsRecord(x)'
  BY <1>6, <1>9, <1>11, <1>13, Sizes DEF Whole, Shaped, IsRecord
<1>16. /\ copy'.current = y /\ copy'.result = copy.result
       /\ copy' \in [source : Addresses, result : Addresses, current : Addresses]
  <2>1. y \in Addresses
    BY <1>1, <1>8 DEF TypeOK
  <2> QED BY <1>1, <1>5, <2>1 DEF TypeOK
<1>17. TypeOK'
  BY <1>1, <1>5, <1>11, <1>16 DEF TypeOK, globals, Memories
<1>18. ListOK'
  BY <1>5, <1>13 DEF ListOK
<1>19. FreshOK'
  BY <1>5, <1>7 DEF FreshOK
<1> DEFINE kept2 == kept \cup {x}
           work2 == work \ {x}
<1>20. \A p \in blocks \ {x, y} :
          /\ IsRecord(p)' <=> IsRecord(p)
          /\ NextSlot(p)' = NextSlot(p) /\ Capacity(p)' = Capacity(p)
          /\ mem'[CountAt(p)] = mem[CountAt(p)] /\ mem'[KindAt(p)] = mem[KindAt(p)]
          /\ mem'[MagicAt(p)] = mem[MagicAt(p)]
          /\ \A i \in Nat : i < Capacity(p) => mem'[p + i] = mem[p + i]
  BY <1>1, <1>14, UntouchedIs, UntouchedKeeps
<1>21. \A p : Source(kept, p) => Source(kept2, p)'
  BY <1>6, <1>8, <1>20 DEF Source
<1>22. PartsOK(kept2, work2)'
  <2>1. \A p \in kept : Kept(p)'
    <3> SUFFICES ASSUME NEW p \in kept PROVE Kept(p)'
      OBVIOUS
    <3>1. p \in Objects /\ Untouched(p) /\ Kept(p) /\ (p \in owned => p \in owned')
      BY <1>3, <1>5, <1>6, <1>8, <1>14 DEF PartsOK
    <3> QED BY <1>1, <3>1, KeptKeeps
  <2>2. Kept(x)'
    BY <1>15 DEF Kept
  <2> QED BY <1>3, <1>5, <1>6, <1>7, <2>1, <2>2 DEF PartsOK
<1>23. NextSlot(y)' = j + 1
  BY <1>11 DEF NextSlot
<1>24. ChildrenOK(kept2, work2)'
  <2> DEFINE N == {j}
  <2>1. ASSUME NEW p \in blocks', NEW i \in ChildSlots, Holds(kept2, work2, p, i)'
        PROVE  /\ mem'[p + i] \in kept2 \ owned'
               /\ \/ /\ p \in blocks /\ Holds(kept, work, p, i) /\ mem'[p + i] = mem[p + i]
                  \/ p = y /\ i \in N /\ mem'[p + i] \notin kept \ owned
    <3>1. i \in Nat /\ i < Width /\ p \in blocks /\ mem'[p + i] # 0
      BY <1>5, <2>1, SlotTypes DEF Holds
    <3>2. CASE p = y /\ i = j
      BY <1>5, <1>6, <1>11, <3>2
    <3>3. CASE ~(p = y /\ i = j)
      <4>1. mem'[p + i] = mem[p + i] /\ Holds(kept, work, p, i)
        <5>1. CASE p = x
          BY <1>6, <1>11, <3>1, <5>1 DEF Holds
        <5>2. CASE p = y
          <6>1. i < j + 1
            BY <1>6, <1>7, <1>8, <1>9, <1>23, <2>1, <5>2 DEF Holds
          <6>2. i < j
            BY <1>10, <3>1, <3>3, <5>2, <6>1
          <6>3. mem'[p + i] = mem[p + i]
            BY <1>11, <3>1, <3>3, <5>2
          <6> QED BY <1>4, <1>6, <3>1, <5>2, <6>2, <6>3 DEF Holds
        <5>3. CASE p # x /\ p # y
          <6>1. \/ p \in kept /\ IsRecord(p)
                \/ p \in work /\ InCopy /\ i < NextSlot(p)
            BY <1>7, <1>6, <1>20, <2>1, <3>1, <5>3 DEF Holds
          <6>2. Width <= Capacity(p)
            BY <1>3, <6>1, ShapedRecord DEF PartsOK, Kept, Whole, CopyOK, Begins
          <6>3. i < Capacity(p)
            BY <1>1, <3>1, <6>2, Sizes DEF Geometry, Objects
          <6>4. mem'[p + i] = mem[p + i]
            BY <1>20, <3>1, <5>3, <6>3
          <6> QED BY <3>1, <6>1, <6>4 DEF Holds
        <5> QED BY <5>1, <5>2, <5>3
      <4>2. mem[p + i] \in kept \ owned
        BY <1>3, <3>1, <4>1 DEF ChildrenOK
      <4> QED BY <1>5, <1>6, <3>1, <4>1, <4>2
    <3> QED BY <3>2, <3>3
  <2>2. \A h, i \in N : mem'[y + h] = mem'[y + i] => h = i
    OBVIOUS
  <2> HIDE DEF kept2, work2, N
  <2>3. Gains(kept, work, kept2, work2, y, N)
    BY <2>1 DEF Gains
  <2> QED BY <1>3, <2>2, <2>3, ChildrenGain
<1>25. ReleaseOK(work2)'
  BY <1>3, <1>5, <1>6, <1>7 DEF ReleaseOK
<1>26. CopyOK(kept2, work2)'
  <2>1. Begins(kept2, y)'
    <3>1. PICK q : q = mem[KindAt(y)]
      OBVIOUS
    <3>2. Source(kept2, q)' /\ mem'[KindAt(y)] = q
      BY <1>8, <1>11, <1>21, <3>1 DEF Begins
    <3>3. j + 1 <= Width
      BY <1>8, <1>10, Sizes
    <3>4. mem'[MagicAt(y)] = Magic /\ Width <= Capacity(y)'
      BY <1>8, <1>9, <1>11, <1>13 DEF Begins
    <3> HIDE DEF kept2
    <3> QED BY <1>23, <3>2, <3>3, <3>4 DEF Begins, Source, IsRecord
  <2>2. ASSUME NEW p \in work2, p # y PROVE Begins(kept2, p)'
    <3>1. p \in blocks \ {x, y} /\ Begins(kept, p)
      BY <1>3, <1>6, <2>2 DEF CopyOK
    <3>2. PICK q : q = mem[KindAt(p)]
      OBVIOUS
    <3>3. Source(kept2, q)' /\ mem'[KindAt(p)] = q
      BY <1>20, <1>21, <3>1, <3>2 DEF Begins
    <3> HIDE DEF kept2
    <3> QED BY <1>20, <3>1, <3>3 DEF Begins, Source, IsRecord
  <2>3. \A p \in work2 : mem'[CountAt(p)] = mem[CountAt(p)]
    BY <1>11, <1>20
  <2>4. Linked(work2, y)'
    <3>1. \A p \in work2 : mem[CountAt(p)] = 0 \/ mem[CountAt(p)] \in work2 \ {y}
      <4> SUFFICES ASSUME NEW p \in work2, mem[CountAt(p)] # 0
                   PROVE  mem[CountAt(p)] \in work2 \ {y}
        OBVIOUS
      <4>1. mem[CountAt(p)] \in work \ {x} /\ p # x /\ p \in work
        BY <1>8 DEF Linked
      <4>2. mem[CountAt(p)] # mem[CountAt(x)]
        BY <1>6, <1>8, <4>1 DEF Linked
      <4> QED BY <1>6, <4>1, <4>2
    <3> HIDE DEF work2
    <3>2. \A p, q \in work2 : mem[CountAt(p)] = mem[CountAt(q)] /\ mem[CountAt(p)] # 0 => p = q
      BY <1>8 DEF Linked, work2
    <3>3. \A p \in work2 : mem'[CountAt(p)] = 0 \/ mem'[CountAt(p)] \in work2 \ {y}
      BY <2>3, <3>1
    <3>4. \A p, q \in work2 : mem'[CountAt(p)] = mem'[CountAt(q)] /\ mem'[CountAt(p)] # 0 => p = q
      BY <2>3, <3>2
    <3> QED BY <3>3, <3>4 DEF Linked
  <2>5. \A p \in work2 : p # y => NextSlot(p)' \in ChildSlots
    <3> SUFFICES ASSUME NEW p \in work2, p # y PROVE NextSlot(p)' \in ChildSlots
      OBVIOUS
    <3>1. NextSlot(p) \in ChildSlots
      BY <1>3, <1>4, <1>6 DEF CopyOK
    <3> QED BY <1>20, <3>1
  <2>6. \A p \in work2 : mem'[CountAt(p)] = 0 => p = copy'.result
    BY <1>3, <1>6, <1>16, <2>3 DEF CopyOK
  <2>7. \A p \in work2 : Begins(kept2, p)'
    BY <2>1, <2>2
  <2>8. Linked(work2, copy.current)' /\ copy'.current \in work2
    BY <1>6, <1>16, <2>4 DEF Linked
  <2> HIDE DEF kept2, work2
  <2> QED BY <1>7, <1>16, <2>5, <2>6, <2>7, <2>8, ChildSlotsSame DEF CopyOK
<1>27. blocks' = blocks /\ kept2 \in SUBSET blocks /\ work2 \in SUBSET blocks
  BY <1>5, <1>6
<1>28. NoneLost(kept2, work2)'
  <2>1. NoneLost(kept, work) /\ pc # "trapped" /\ pc # "drop" /\ Fresh = {} /\ Falling = {}
    BY <1>2, <1>5 DEF Ownership, Fresh, Falling
  <2>2. PICK own, new : own = owned' /\ own = owned /\ new = {x}
    BY <1>5
  <2>3. SlotsStay(kept, work, kept2, work2, (kept2 \ own) \ new)
    <3> SUFFICES ASSUME NEW p \in blocks, NEW i \in ChildSlots, Holds(kept, work, p, i)
                 PROVE  p \in blocks' /\ Holds(kept2, work2, p, i)' /\ mem'[p + i] = mem[p + i]
      BY DEF SlotsStay
    <3>1. mem[p + i] # 0 /\ i \in Nat /\ i < Width
      BY SlotTypes DEF Holds
    <3>2. CASE p = x
      BY <1>11, <1>15, <1>27, <3>1, <3>2, ChildSlotsSame DEF Holds
    <3>3. CASE p = y
      <4>1. i < j
        BY <1>4, <1>6, <1>8, <2>1, <3>3 DEF Holds
      <4>2. mem'[p + i] = mem[p + i] /\ i < NextSlot(p)'
        BY <1>10, <1>11, <1>23, <3>1, <3>3, <4>1
      <4> QED BY <1>6, <1>7, <1>27, <3>1, <3>3, <4>2, ChildSlotsSame DEF Holds
    <3>4. CASE p # x /\ p # y
      <4>1. /\ mem'[p + i] = mem[p + i]
            /\ IsRecord(p)' <=> IsRecord(p)
            /\ NextSlot(p)' = NextSlot(p)
        BY <1>1, <1>3, <1>14, <3>4, HoldsStays
      <4> QED BY <1>6, <1>7, <1>27, <2>1, <3>1, <3>4, <4>1, ChildSlotsSame DEF Holds
    <3> QED BY <3>2, <3>3, <3>4
  <2>4. kept2 \ own \subseteq (kept \ owned) \cup new
    BY <2>2
  <2>5. Holder(kept2, work2, y, new)'
    <3>1. x # 0 /\ j < NextSlot(y)'
      BY <1>1, <1>6, <1>10, <1>23 DEF TypeOK
    <3>2. Holds(kept2, work2, y, j)' /\ mem'[y + j] = x
      BY <1>6, <1>7, <1>8, <1>11, <3>1, ChildSlotsSame DEF Holds
    <3> HIDE DEF kept2, work2
    <3> QED BY <1>8, <2>2, <3>2, ChildSlotsSame DEF Holder
  <2>6. y \in blocks' /\ y \notin kept2 \ own
    BY <1>6, <1>8, <1>27
  <2>7. Reached(mem', work2, y)
    <3>1. Reached(mem, work, x)
      BY <1>4, <1>6, <2>1 DEF NoneLost
    <3>2. \A q \in work \ {x} : mem'[CountAt(q)] = mem[CountAt(q)]
      BY <1>11, <1>20
    <3> QED BY <1>6, <3>1, <3>2, ReachedTake
  <2>8. blocks' \subseteq kept2 \cup work2
    BY <1>27, <2>1 DEF NoneLost
  <2> HIDE DEF kept2, work2
  <2>9. Grounded(kept2, work2)'
    BY <2>1, <2>2, <2>3, <2>4, <2>5, <2>6, GroundedMore DEF NoneLost
  <2> QED BY <1>7, <1>16, <2>7, <2>8, <2>9 DEF NoneLost
<1> HIDE DEF kept2, work2
<1> QED BY <1>13, <1>17, <1>18, <1>19, <1>22, <1>24, <1>25, <1>26, <1>27, <1>28
        DEF HeapInv, Ownership


-----------------------------------------------------------------------------
(* Every step keeps the invariant. *)

\* An empty heap is in order.
LEMMA InitInv == Init => HeapInv /\ Row!Init
<1> SUFFICES ASSUME Init PROVE HeapInv /\ Row!Init
  OBVIOUS
<1>1. /\ mem = [a \in Addresses |-> 0] /\ pages = (Base - 1) \div PageWords + 1 /\ top = Base
      /\ head = 0 /\ allocs = 0 /\ frees = 0 /\ pc = "program" /\ alloc = NoAlloc
      /\ release = NoRelease /\ copy = NoCopy /\ args = <<>> /\ owned = {} /\ blocks = {}
  BY DEF Init
<1>2. FreeBlocks = {} /\ IsChain(mem, head, {})
  <2>1. Spaced({}) /\ IsChain(mem, head, {})
    BY <1>1 DEF Spaced, IsChain, Follows
  <2> QED BY <2>1, ChainIs DEF FreeBlocks, FreeAt
<1>3. RowOf(FreeBlocks) = {} /\ RowOf(blocks) = {}
  BY <1>1, <1>2 DEF RowOf
<1>4. Row!Init
  BY <1>1, <1>3 DEF Row!Init
<1>5. RowInv
  <2>1. RP!Inv
    BY <1>4, SameRow, RowAssumption, RP!InitInv
  <2> QED BY <2>1, SameRow
<1>6. 0 \in Addresses /\ 0 \in Nat
  BY Sizes
<1>7. pages \in 0..MaxPages /\ top \in Base..(pages * PageWords)
  <2>1. PICK pgs : pgs = (Base - 1) \div PageWords + 1
    OBVIOUS
  <2>2. /\ pgs \in Nat /\ Base <= pgs * PageWords
        /\ \A n \in Nat : Base <= n * PageWords <=> pgs <= n
    BY <2>1, PagesHold, Sizes
  <2>3. MaxPages \in Nat /\ Base <= MaxPages * PageWords /\ PageWords \in Nat /\ Base \in Nat
    BY HeapAssumption
  <2>4. pgs <= MaxPages
    BY <2>2, <2>3
  <2>5. pgs * PageWords \in Nat
    <3>1. \A a, b \in Nat : a * b \in Nat
      OBVIOUS
    <3> QED BY <2>2, <2>3, <3>1
  <2> QED BY <1>1, <2>1, <2>2, <2>3, <2>4, <2>5
<1>8. TypeOK
  <2>1. /\ mem \in [Addresses -> Nat] /\ head \in Addresses
        /\ allocs \in 0..(Counts - 1) /\ frees \in 0..(Counts - 1)
    BY <1>1, <1>6, Sizes
  <2>2. /\ alloc \in [need : Nat, previous : Addresses, current : Addresses, root : Addresses,
                      then : {"program", "array", "record", "header", "copyRoot", "copyChild"}]
        /\ release \in [pending : Addresses, object : Addresses, slot : Nat,
                        previous : Addresses, current : Addresses]
        /\ copy \in [source : Addresses, result : Addresses, current : Addresses]
    BY <1>1, <1>6 DEF NoAlloc, NoRelease, NoCopy
  <2>3. \A i \in DOMAIN args : args[i] \in Nat
    BY <1>1
  <2> QED BY <1>1, <1>7, <2>1, <2>2, <2>3 DEF TypeOK
<1>9. ListOK
  BY <1>1, <1>2 DEF ListOK
<1>10. /\ Stage = "program" /\ Fresh = {} /\ Falling = {} /\ ~InRelease /\ ~InCopy
       /\ release.pending = 0
  BY <1>1 DEF Stage, Fresh, Falling, InRelease, InCopy, NoRelease
<1>11. FreshOK
  BY <1>1, <1>10 DEF FreshOK
<1>12. PartsOK({}, {}) /\ ChildrenOK({}, {}) /\ ReleaseOK({}) /\ CopyOK({}, {})
  BY <1>1, <1>10 DEF PartsOK, ChildrenOK, ReleaseOK, CopyOK
<1>13. NoneLost({}, {})
  BY <1>1, <1>10 DEF NoneLost, Grounded
<1>14. {} \in SUBSET blocks
  OBVIOUS
<1> QED BY <1>4, <1>5, <1>8, <1>9, <1>11, <1>12, <1>13, <1>14 DEF HeapInv, Ownership

\* Nothing changes, as after a trap.
LEMMA StutterInv == HeapInv /\ UNCHANGED vars => HeapInv' /\ [Row!Next]_(Row!vars)
<1> SUFFICES ASSUME HeapInv, UNCHANGED vars PROVE HeapInv' /\ [Row!Next]_(Row!vars)
  OBVIOUS
<1>1. TypeOK /\ ListOK /\ FreshOK
  BY DEF HeapInv
<1>2. /\ UNCHANGED <<mem, globals, pages, top, head, allocs, frees, pc, alloc>>
      /\ UNCHANGED <<release, copy, args, owned, blocks>>
  BY DEF vars, globals
<1>3. Quiet({})
  BY <1>2, QuietStutter
<1>4. FreeBlocks' = FreeBlocks /\ IsChain(mem', head', FreeBlocks') /\ RowInv'
      /\ [Row!Next]_(Row!vars) /\ \A p \in Objects : Capacity(p)' = Capacity(p)
  BY <1>3, QuietKeeps
<1>5. TypeOK'
  BY <1>1, <1>2 DEF TypeOK
<1>6. ListOK'
  BY <1>1, <1>2, <1>4 DEF ListOK, Walks, Capacity
<1>7. /\ Stage' = Stage /\ Fresh' = Fresh /\ Falling' = Falling /\ (InRelease' <=> InRelease)
      /\ (InCopy' <=> InCopy) /\ Room' = Room
  BY <1>2 DEF Stage, Fresh, Falling, InRelease, InCopy, Room, Capacity
<1>8. Fields' = Fields
  BY <1>2 DEF Fields, Records, IsRecord, ChildSlots, Bit
<1>9. FreshOK'
  BY <1>1, <1>2, <1>7, <1>8 DEF FreshOK
<1>10. PICK kept \in SUBSET blocks, work \in SUBSET blocks : Ownership(kept, work)
  BY DEF HeapInv
<1>11. PartsOK(kept, work) /\ ChildrenOK(kept, work) /\ ReleaseOK(work) /\ CopyOK(kept, work)
  BY <1>10 DEF Ownership
<1>12. PartsOK(kept, work)'
  BY <1>2, <1>7, <1>11 DEF PartsOK, Kept, Whole, Shaped, Capacity, IsRecord
<1>13. ChildrenOK(kept, work)'
  <2>1. \A p, i : Holds(kept, work, p, i)' => Holds(kept, work, p, i)
    BY <1>2, <1>7 DEF Holds, IsRecord, ChildSlots, Bit, NextSlot
  <2> QED BY <1>2, <1>11, <2>1 DEF ChildrenOK, ChildSlots, Bit
<1>14. ReleaseOK(work)'
  BY <1>2, <1>7, <1>11 DEF ReleaseOK, Linked, Shaped, Capacity
<1>15. CopyOK(kept, work)'
  BY <1>2, <1>7, <1>11, ChildSlotsSame DEF CopyOK, Linked, Begins, Source, IsRecord, NextSlot, Capacity
<1>16. NoneLost(kept, work)'
  <2>1. NoneLost(kept, work)
    BY <1>10 DEF Ownership
  <2>2. \A p, i : Holds(kept, work, p, i) => Holds(kept, work, p, i)'
    BY <1>2, <1>7, ChildSlotsSame DEF Holds, IsRecord, NextSlot
  <2>3. pc # "trapped" => Grounded(kept, work)'
    BY <1>2, <2>1, <2>2, ChildSlotsSame DEF NoneLost, Grounded
  <2> QED BY <1>2, <1>7, <2>1, <2>3 DEF NoneLost
<1> QED BY <1>2, <1>4, <1>5, <1>6, <1>9, <1>12, <1>13, <1>14, <1>15, <1>16
        DEF HeapInv, Ownership

\* What the program does keeps the invariant.
LEMMA ProgramInv == HeapInv /\ Program => HeapInv' /\ [Row!Next]_(Row!vars)
<1> SUFFICES ASSUME HeapInv, Program PROVE HeapInv' /\ [Row!Next]_(Row!vars)
  OBVIOUS
<1>1. ASSUME NEW length \in Lengths, NEW word \in Words, NewArray(length, word)
      PROVE  HeapInv' /\ [Row!Next]_(Row!vars)
  BY <1>1, NewArrayInv
<1>2. ASSUME NEW f \in Fields, NewRecord(f) PROVE HeapInv' /\ [Row!Next]_(Row!vars)
  BY <1>2, NewRecordInv
<1>3. ASSUME NEW ptr \in owned, Release(ptr) PROVE HeapInv' /\ [Row!Next]_(Row!vars)
  BY <1>3, ReleaseInv
<1>4. ASSUME NEW ptr \in owned, Match(ptr) PROVE HeapInv' /\ [Row!Next]_(Row!vars)
  BY <1>4, MatchInv
<1>5. ASSUME NEW ptr \in owned, Copy(ptr) PROVE HeapInv' /\ [Row!Next]_(Row!vars)
  BY <1>5, CopyInv
<1>6. ASSUME NEW ptr \in owned, CopyHeader(ptr) PROVE HeapInv' /\ [Row!Next]_(Row!vars)
  BY <1>6, CopyHeaderInv
<1>7. ASSUME NEW ptr \in owned, NEW f \in Fields, Reuse(ptr, f)
      PROVE  HeapInv' /\ [Row!Next]_(Row!vars)
  BY <1>7, ReuseInv
<1> QED BY <1>1, <1>2, <1>3, <1>4, <1>5, <1>6, <1>7 DEF Program

\* And so does the code of alloc, release and a copy.
LEMMA ContinueInv == HeapInv /\ Continue => HeapInv' /\ [Row!Next]_(Row!vars)
<1>1. HeapInv /\ Allocating => HeapInv' /\ [Row!Next]_(Row!vars)
  BY SearchInv, WholeInv, UpperInv, BumpInv, NoMemoryInv DEF Allocating
<1>2. HeapInv /\ Releasing => HeapInv' /\ [Row!Next]_(Row!vars)
  BY TakeInv, ReleasedInv, DropInv, FreeObjectInv, FindInv, InsertInv DEF Releasing
<1>3. HeapInv /\ Copying => HeapInv' /\ [Row!Next]_(Row!vars)
  BY CopyRootInv, CopyChildInv, CopyWordInv, DescendInv, AscendInv, CopiedInv DEF Copying
<1>4. HeapInv /\ Filling => HeapInv' /\ [Row!Next]_(Row!vars)
  BY FillArrayInv, FillRecordInv, FillHeaderInv DEF Filling
<1> QED BY <1>1, <1>2, <1>3, <1>4 DEF Continue

\* Each step keeps the invariant, and is a step of the row of blocks or none.
LEMMA StepInv == HeapInv /\ [Next]_vars => HeapInv' /\ [Row!Next]_(Row!vars)
BY ProgramInv, ContinueInv, StutterInv DEF Next, Ended

\* The invariant holds throughout.
LEMMA HeapIsInv == Spec => []HeapInv
<1>1. Init => HeapInv
  BY InitInv
<1>2. HeapInv /\ [Next]_vars => HeapInv'
  BY StepInv
<1> QED BY <1>1, <1>2, PTL DEF Spec

-----------------------------------------------------------------------------
(* What follows from the invariant. *)

\* A working record of a copy and the one it is a child of.
LEMMA CopyAtHand ==
  ASSUME HeapInv, pc = "copy",
         NEW kept \in SUBSET blocks, NEW work \in SUBSET blocks, Ownership(kept, work)
  PROVE  /\ copy.current \in work /\ mem[KindAt(copy.current)] \in kept
         /\ NextSlot(copy.current) <= Width /\ Width <= Capacity(copy.current)
         /\ Parent \in work \cup {0}
         /\ Parent # 0 => NextSlot(Parent) < Width /\ Width <= Capacity(Parent)
<1>1. CopyOK(kept, work) /\ InCopy
  BY DEF Ownership, InCopy, Stage
<1>2. /\ copy.current \in work
      /\ Linked(work, copy.current)
      /\ \A p \in work : Begins(kept, p)
      /\ \A p \in work : p # copy.current => NextSlot(p) \in ChildSlots
  BY <1>1 DEF CopyOK
<1>3. /\ mem[KindAt(copy.current)] \in kept
      /\ NextSlot(copy.current) <= Width /\ Width <= Capacity(copy.current)
  BY <1>2 DEF Begins, Source
<1>4. Parent = 0 \/ Parent \in work \ {copy.current}
  BY <1>2 DEF Parent, Linked
<1>5. ASSUME Parent # 0 PROVE NextSlot(Parent) < Width /\ Width <= Capacity(Parent)
  <2>1. Parent \in work /\ NextSlot(Parent) \in ChildSlots
    BY <1>2, <1>4, <1>5
  <2>2. NextSlot(Parent) < Width
    BY <2>1, SlotTypes
  <2> QED BY <1>2, <2>1, <2>2 DEF Begins
<1> QED BY <1>2, <1>3, <1>4, <1>5

\* Each pointer that the next step follows is that of an object or a free block.
LEMMA HandsIn == HeapInv => AtHand \ {0} \subseteq blocks \cup FreeBlocks
<1> SUFFICES ASSUME HeapInv PROVE AtHand \ {0} \subseteq blocks \cup FreeBlocks
  OBVIOUS
<1>1. PICK kept \in SUBSET blocks, work \in SUBSET blocks : Ownership(kept, work)
  BY DEF HeapInv
<1>2. PartsOK(kept, work) /\ ReleaseOK(work) /\ ListOK
  BY <1>1 DEF Ownership, HeapInv
<1>3. \A x, y : Follows(FreeBlocks, x, y) => y \in FreeBlocks \cup {0}
  BY DEF Follows
<1>4. CASE pc = "search"
  <2>1. alloc.previous \in FreeBlocks \cup {0} /\ alloc.current \in FreeBlocks \cup {0}
    BY <1>2, <1>3, <1>4 DEF ListOK, Walks
  <2>2. AtHand = {alloc.previous, alloc.current}
    BY <1>4 DEF AtHand
  <2> QED BY <2>1, <2>2
<1>5. CASE pc \in {"array", "record", "header", "copyRoot", "copyChild"}
  <2>1. alloc.root \in blocks
    BY <1>2, <1>5 DEF PartsOK, Fresh
  <2>2. AtHand = {alloc.root}
    BY <1>5 DEF AtHand
  <2> QED BY <2>1, <2>2
<1>6. CASE pc = "copy"
  <2>1. copy.current \in blocks /\ mem[KindAt(copy.current)] \in blocks /\ Parent \in blocks \cup {0}
    BY <1>1, <1>6, CopyAtHand
  <2>2. AtHand = {copy.current, mem[KindAt(copy.current)], Parent}
    BY <1>6 DEF AtHand
  <2> QED BY <2>1, <2>2
<1>7. CASE pc = "pending"
  <2>1. release.pending \in blocks \cup {0}
    BY <1>2, <1>7 DEF ReleaseOK, InRelease
  <2>2. AtHand = {release.pending}
    BY <1>7 DEF AtHand
  <2> QED BY <2>1, <2>2
<1>8. CASE pc = "drop"
  <2>1. release.object \in blocks
    BY <1>2, <1>8 DEF PartsOK, Falling
  <2>2. ASSUME release.slot < Slots(release.object)
        PROVE  Child(release.object, release.slot) \in blocks \cup {0}
    <3>1. PICK child : child = Child(release.object, release.slot)
      OBVIOUS
    <3>2. ASSUME child # 0 PROVE child \in kept \ owned
      BY <1>1, <1>8, <2>2, <3>1, <3>2, DropWhat
    <3> QED BY <3>1, <3>2
  <2>3. AtHand = {release.object} \cup (IF release.slot < Slots(release.object)
                                        THEN {Child(release.object, release.slot)} ELSE {})
    BY <1>8 DEF AtHand
  <2> QED BY <2>1, <2>2, <2>3
<1>9. CASE pc = "place"
  <2>1. /\ release.previous \in FreeBlocks \cup {0} /\ release.current \in FreeBlocks \cup {0}
        /\ release.object \in blocks
    BY <1>2, <1>3, <1>9 DEF ListOK, Walks, PartsOK, Falling
  <2>2. AtHand = {release.object, release.previous, release.current}
    BY <1>9 DEF AtHand
  <2> QED BY <2>1, <2>2
<1>10. CASE pc \notin {"search", "array", "record", "header", "copyRoot", "copyChild",
                       "copy", "pending", "drop", "place"}
  <2>1. AtHand = owned
    BY <1>10 DEF AtHand
  <2> QED BY <1>2, <2>1 DEF PartsOK
<1> QED BY <1>4, <1>5, <1>6, <1>7, <1>8, <1>9, <1>10

\* What a program puts into a new object has room there.
LEMMA ArgsFit ==
  HeapInv /\ pc \in {"array", "record"} => DOMAIN args \subseteq 0..(Capacity(alloc.root) - 1)
<1> SUFFICES ASSUME HeapInv, pc \in {"array", "record"}
             PROVE  DOMAIN args \subseteq 0..(Capacity(alloc.root) - 1)
  OBVIOUS
<1>1. TypeOK /\ Geometry /\ FreshOK
  BY RowGeometry DEF HeapInv
<1>2. alloc.root \in blocks
  BY DEF HeapInv, Ownership, PartsOK, Fresh
<1>3. Room = Capacity(alloc.root) /\ Capacity(alloc.root) \in Nat
  BY <1>1, <1>2 DEF Room, Geometry, Objects
<1>4. CASE pc = "array"
  <2>1. PICK n \in Lengths : args \in [0..n -> Nat] /\ n + 1 <= Capacity(alloc.root)
    BY <1>1, <1>3, <1>4 DEF FreshOK, Stage
  <2>2. n \in Nat /\ DOMAIN args = 0..n
    BY <2>1, Sizes
  <2> QED BY <1>3, <2>1, <2>2
<1>5. CASE pc = "record"
  <2>1. args \in Fields /\ Width <= Capacity(alloc.root)
    BY <1>1, <1>3, <1>5 DEF FreshOK, Stage
  <2>2. DOMAIN args = 0..(Width - 1)
    BY <1>1, <2>1, FieldsAre
  <2> QED BY <1>3, <2>1, <2>2, Sizes
<1> QED BY <1>4, <1>5

\* The slot that release is at lies within the object.
LEMMA SlotFits ==
  HeapInv /\ pc = "drop" /\ release.slot < Slots(release.object)
     => release.slot < Capacity(release.object)
<1> SUFFICES ASSUME HeapInv, pc = "drop", release.slot < Slots(release.object)
             PROVE  release.slot < Capacity(release.object)
  OBVIOUS
<1>1. TypeOK /\ Geometry
  BY RowGeometry DEF HeapInv
<1>2. release.object \in blocks /\ Shaped(release.object)
  BY DEF HeapInv, Ownership, PartsOK, Falling, ReleaseOK
<1>3. release.slot \in Nat /\ Capacity(release.object) \in Nat
  BY <1>1, <1>2 DEF TypeOK, Geometry, Objects
<1>4. mem[MaskAt(release.object)] # 0
  <2>1. ASSUME mem[MaskAt(release.object)] = 0 PROVE Slots(release.object) = 0
    BY <2>1 DEF Slots
  <2> QED BY <1>3, <2>1
<1>5. /\ mem[KindAt(release.object)] = 1 /\ mem[WidthAt(release.object)] = Width
      /\ Width <= Capacity(release.object)
  BY <1>2, <1>4 DEF Shaped
<1>6. Slots(release.object) = Width
  BY <1>4, <1>5 DEF Slots
<1> QED BY <1>3, <1>5, <1>6, Sizes

\* No step of alloc, release or an operation on trees reads or writes outside the heap,
\* which lies within the pages that memory has: each block has its header and payload
\* there, each pointer a step follows is that of a block, and each slot it reads or
\* fills is in the payload.
THEOREM WritesLieInside == Spec => []MemoryOK
<1>1. HeapInv => MemoryOK
  <2> SUFFICES ASSUME HeapInv PROVE MemoryOK
    OBVIOUS
  <2>1. TypeOK /\ Geometry
    BY RowGeometry DEF HeapInv
  <2>2. PICK kept \in SUBSET blocks, work \in SUBSET blocks : Ownership(kept, work)
    BY DEF HeapInv
  <2>3. ASSUME NEW p \in blocks \cup FreeBlocks PROVE InHeap(p)
    <3>1. /\ p \in Nat /\ Capacity(p) \in Nat \ {0}
          /\ Base + 6 <= p /\ p + Capacity(p) <= top
      BY <2>1 DEF Geometry, Objects
    <3> QED BY <3>1, Sizes DEF InHeap, MagicAt
  <2>4. pc = "copy" =>
           /\ NextSlot(copy.current) <= Width /\ Width <= Capacity(copy.current)
           /\ Parent # 0 => NextSlot(Parent) < Width /\ Width <= Capacity(Parent)
    BY <2>2, CopyAtHand
  <2>5. \A p \in Records \cup Headers : Width <= Capacity(p)
    <3>1. \A p \in owned : Shaped(p)
      BY <2>2 DEF Ownership, PartsOK, Kept, Whole
    <3> QED BY <3>1 DEF Records, Headers, IsRecord, IsHeader, Shaped
  <2> QED BY <2>1, <2>3, <2>4, <2>5, HandsIn, ArgsFit, SlotFits DEF MemoryOK, WritesInside
<1> QED BY <1>1, HeapIsInv, PTL

\* Between calls nothing leaks and nothing is shared: whatever the program built,
\* copied and released, and in whatever order, each object that release has not freed
\* is a variable's or the child of one slot of one object, and each set of children
\* is held from outside the set.
THEOREM NothingLeaks == Spec => []OneOwner
<1>1. HeapInv => OneOwner
  <2> SUFFICES ASSUME HeapInv, pc = "program" PROVE OneOwner
    BY DEF OneOwner
  <2>1. PICK kept \in SUBSET blocks, work \in SUBSET blocks : Ownership(kept, work)
    BY DEF HeapInv
  <2>2. ~InRelease /\ ~InCopy /\ Fresh = {} /\ Falling = {}
    BY DEF InRelease, InCopy, Stage, Fresh, Falling
  <2>3. work = {}
    BY <2>1, <2>2 DEF Ownership, ReleaseOK
  <2>4. kept = blocks
    BY <2>1, <2>2, <2>3 DEF Ownership, NoneLost
  <2>5. \A p \in blocks : \A i \in ChildSlots : HasChild(p, i) <=> Holds(kept, work, p, i)
    BY <2>2, <2>3, <2>4 DEF HasChild, Holds
  <2>6. ChildrenOK(blocks, work) /\ Grounded(blocks, work)
    BY <2>1, <2>4 DEF Ownership, NoneLost
  <2>7. \A p \in blocks : \A i \in ChildSlots :
           HasChild(p, i) => mem[p + i] \in blocks \ owned
    BY <2>4, <2>5, <2>6 DEF ChildrenOK
  <2>8. \A p, q \in blocks : \A i, j \in ChildSlots :
           HasChild(p, i) /\ HasChild(q, j) /\ mem[p + i] = mem[q + j] => p = q /\ i = j
    BY <2>4, <2>5, <2>6 DEF ChildrenOK
  <2>9. \A S \in SUBSET (blocks \ owned) :
           S # {} => \E p \in blocks \ S : \E i \in ChildSlots :
                        HasChild(p, i) /\ mem[p + i] \in S
    BY <2>4, <2>5, <2>6 DEF Grounded
  <2> QED BY <2>7, <2>8, <2>9 DEF OneOwner
<1> QED BY <1>1, HeapIsInv, PTL

\* Search loops, unlinking, splitting, header writes and joins implement the row of
\* blocks: first fit, no memory lost, freed neighbours merged.
THEOREM RowImplemented == Spec => ImplementsRow
<1>1. Init => Row!Init
  BY InitInv
<1>2. HeapInv /\ [Next]_vars => [Row!Next]_(Row!vars)
  BY StepInv
<1> QED BY <1>1, <1>2, HeapIsInv, PTL DEF Spec, ImplementsRow, Row!Spec

\* The free list ends, is in address order, and no two of its blocks are neighbours.
THEOREM ListAlwaysInOrder == Spec => []ListInOrder
<1>1. HeapInv => ListInOrder
  <2> SUFFICES ASSUME HeapInv PROVE ListInOrder
    OBVIOUS
  <2>1. Geometry /\ IsChain(mem, head, FreeBlocks)
    BY RowGeometry DEF HeapInv, ListOK
  <2>2. Spaced(FreeBlocks)
    BY <2>1, ObjectsSpaced DEF Spaced, Objects
  <2>3. /\ FreeAt[MaxBlocks] = 0
        /\ \A k \in 1..MaxBlocks :
              FreeAt[k] # 0 => /\ FreeAt[k - 1] \in FreeBlocks /\ FreeAt[k] \in FreeBlocks
                               /\ Follows(FreeBlocks, FreeAt[k - 1], FreeAt[k])
    BY <2>1, <2>2, ChainIs DEF FreeAt
  <2>4. ASSUME NEW p \in FreeBlocks, NEW q \in FreeBlocks, Follows(FreeBlocks, p, q)
        PROVE  p + Capacity(p) + 6 < q
    <3>1. /\ p \in Nat /\ q \in Nat \ {0} /\ Capacity(p) \in Nat \ {0} /\ Capacity(q) \in Nat \ {0}
      BY <2>1, Sizes DEF Geometry, Objects
    <3>2. p < q
      BY <2>4, <3>1 DEF Follows
    <3>3. p + Capacity(p) + 6 <= q
      <4>1. p + Capacity(p) + 6 <= q \/ q + Capacity(q) + 6 <= p
        BY <2>1, <3>1, <3>2 DEF Geometry, Objects
      <4> QED BY <3>1, <3>2, <4>1
    <3>4. p + Capacity(p) # q - 6
      <4> DEFINE b(x) == [root |-> x, cap |-> Capacity(x)]
      <4>1. b(p) \in RowOf(FreeBlocks) /\ b(q) \in RowOf(FreeBlocks)
        BY DEF RowOf
      <4>2. Row!End(b(p)) # Row!Start(b(q))
        BY <4>1 DEF HeapInv, RowInv, Row!Merged
      <4>3. Row!End(b(p)) = p + Capacity(p) /\ Row!Start(b(q)) = q - 6
        BY DEF Row!End, Row!Start, Header
      <4> QED BY <4>2, <4>3
    <3> QED BY <3>1, <3>3, <3>4
  <2>5. ASSUME NEW k \in 1..MaxBlocks, FreeAt[k] # 0
        PROVE  FreeAt[k - 1] + Capacity(FreeAt[k - 1]) + Header < FreeAt[k]
    BY <2>3, <2>4, <2>5 DEF Header
  <2> QED BY <2>3, <2>5 DEF ListInOrder
<1> QED BY <1>1, HeapIsInv, PTL

\* No step but that of a search that finds no memory traps.
LEMMA StepTraps == HeapInv /\ [Next]_vars => pc' # "trapped" \/ pc = "search" \/ UNCHANGED vars
<1> SUFFICES ASSUME HeapInv, [Next]_vars PROVE pc' # "trapped" \/ pc = "search" \/ UNCHANGED vars
  OBVIOUS
<1>1. CASE UNCHANGED vars \/ Ended
  BY <1>1 DEF Ended
<1>2. CASE Program
  BY <1>2, ReleaseInv DEF Program, NewArray, NewRecord, Match, Copy, CopyHeader, Reuse, CallAlloc
<1>3. CASE Allocating
  BY <1>3 DEF Allocating, SearchOn, TakeWhole, TakeUpper, Bump, NoMemory, Searching
<1>4. CASE Releasing
  BY <1>4, DropInv DEF Releasing, TakePending, Released, FreeObject, FindPlace, Insert
<1>5. CASE Copying
  BY <1>5 DEF Copying, CopyRoot, CopyChild, CopyWord, Descend, Ascend, Copied, CallAlloc
<1>6. CASE Filling
  BY <1>6 DEF Filling, FillArray, FillRecord, FillHeader, Return
<1> QED BY <1>1, <1>2, <1>3, <1>4, <1>5, <1>6 DEF Next, Continue

\* A program that releases only what it owns traps only where an allocation finds no
\* memory: the magic number and count of what it releases, and of every child below,
\* are those of a live object with one owner.
THEOREM NoOtherTrap == Spec => OnlyMemoryTraps
<1>1. HeapInv /\ [Next]_vars => [pc' = "trapped" => pc = "search"]_vars
  BY StepTraps
<1> QED BY <1>1, HeapIsInv, PTL DEF Spec, OnlyMemoryTraps


-----------------------------------------------------------------------------
(* The counters. *)

\* The counters differ from the number of objects by whole turns.
Late == IF pc = "place" THEN 1 ELSE 0
Turns(n) == \E q \in Int : n = q * Counts
CountInv == IsFiniteSet(blocks) /\ Turns(allocs - frees - Cardinality(blocks) + Late)

\* A counter that is stepped keeps its difference up to a turn.
LEMMA TurnUp ==
  ASSUME NEW a \in 0..(Counts - 1), NEW n \in Int, Turns(a - n)
  PROVE  Turns(((a + 1) % Counts) - (n + 1))
<1>1. Counts \in Nat \ {0} /\ a \in Nat /\ a < Counts
  BY Sizes
<1>2. PICK q \in Int : a - n = q * Counts
  BY DEF Turns
<1>3. CASE a + 1 < Counts
  <2>1. (a + 1) % Counts = a + 1
    BY <1>1, <1>3
  <2>2. ((a + 1) % Counts) - (n + 1) = q * Counts
    BY <1>1, <1>2, <2>1
  <2> QED BY <2>2 DEF Turns
<1>4. CASE a + 1 = Counts
  <2>1. (a + 1) % Counts = 0
    BY <1>1, <1>4
  <2>2. ((a + 1) % Counts) - (n + 1) = (q - 1) * Counts
    BY <1>1, <1>2, <1>4, <2>1
  <2> QED BY <2>2 DEF Turns
<1> QED BY <1>1, <1>3, <1>4

\* Whole turns leave no remainder.
LEMMA TurnsEven == ASSUME NEW n \in Int, Turns(n) PROVE n % Counts = 0
<1>1. Counts \in Nat \ {0}
  BY Sizes
<1>2. PICK q \in Int : n = q * Counts
  BY DEF Turns
<1>3. \A c \in Nat \ {0} : \A x \in Int : (x * c) % c = 0
  OBVIOUS
<1> QED BY <1>1, <1>2, <1>3


\* The turns of a difference are those of its opposite.
LEMMA TurnBack == ASSUME NEW n \in Int, Turns(n) PROVE Turns(-n)
<1>1. Counts \in Nat \ {0}
  BY Sizes
<1>2. PICK q \in Int : n = q * Counts
  BY DEF Turns
<1>3. -n = (-q) * Counts /\ -q \in Int
  BY <1>1, <1>2
<1> QED BY <1>3 DEF Turns

\* The objects are finitely many.
LEMMA BlocksFinite == TypeOK => IsFiniteSet(blocks) /\ Cardinality(blocks) \in Nat
<1> SUFFICES ASSUME TypeOK PROVE IsFiniteSet(blocks) /\ Cardinality(blocks) \in Nat
  OBVIOUS
<1>1. 0 \in Int /\ Limit - 1 \in Int
  BY Sizes
<1>2. IsFiniteSet(Addresses)
  BY <1>1, Sizes, FS_Interval
<1>3. blocks \subseteq Addresses
  BY DEF TypeOK
<1>4. IsFiniteSet(blocks)
  BY <1>2, <1>3, FS_Subset
<1> QED BY <1>4, FS_CardinalityType

\* alloc returns an object that was none, and counts it.
LEMMA CountReturn ==
  ASSUME HeapInv, CountInv, pc = "search", NEW r, NewObject(r), ReturnRoot(r)
  PROVE  CountInv'
<1>1. TypeOK /\ FreshOK
  BY DEF HeapInv
<1>2. /\ allocs' = (allocs + 1) % Counts /\ frees' = frees /\ blocks' = blocks \cup {r}
      /\ pc' = alloc.then
  BY DEF ReturnRoot
<1>3. Late = 0 /\ Late' = 0
  BY <1>1, <1>2 DEF Late, TypeOK
<1>4. IsFiniteSet(blocks) /\ r \notin blocks
  BY DEF CountInv, NewObject
<1>5. IsFiniteSet(blocks') /\ Cardinality(blocks') = Cardinality(blocks) + 1
  BY <1>2, <1>4, FS_AddElement
<1>6. PICK n \in Int : n = frees + Cardinality(blocks)
  <2>1. frees \in Nat /\ Cardinality(blocks) \in Nat
    BY <1>1, BlocksFinite DEF TypeOK
  <2> QED BY <2>1
<1>7. allocs \in 0..(Counts - 1) /\ allocs \in Nat /\ frees \in Nat /\ Cardinality(blocks) \in Nat
  BY <1>1, BlocksFinite DEF TypeOK
<1>8. allocs - frees - Cardinality(blocks) + Late = allocs - n
  BY <1>3, <1>6, <1>7
<1>9. Turns(allocs - n)
  BY <1>8 DEF CountInv
<1>10. Turns(((allocs + 1) % Counts) - (n + 1))
  BY <1>7, <1>9, TurnUp
<1>11. allocs' \in Int
  BY <1>2, <1>7, Sizes
<1>12. allocs' - frees' - Cardinality(blocks') + Late' = ((allocs + 1) % Counts) - (n + 1)
  <2>1. allocs' - frees' - Cardinality(blocks') + Late' = allocs' - (n + 1)
    BY <1>2, <1>3, <1>5, <1>6, <1>7, <1>11
  <2> QED BY <1>2, <2>1
<1> QED BY <1>5, <1>10, <1>12 DEF CountInv, Turns

\* An object is counted when it is freed, just before it leaves the objects.
LEMMA CountFree == HeapInv /\ CountInv /\ FreeObject => CountInv'
<1> SUFFICES ASSUME HeapInv, CountInv, FreeObject PROVE CountInv'
  OBVIOUS
<1>1. TypeOK
  BY DEF HeapInv
<1>2. /\ frees' = (frees + 1) % Counts /\ allocs' = allocs /\ blocks' = blocks
      /\ pc = "drop" /\ pc' = "place"
  BY DEF FreeObject
<1>3. Late = 0 /\ Late' = 1
  BY <1>2 DEF Late
<1>4. frees \in 0..(Counts - 1) /\ allocs \in Nat /\ frees \in Nat /\ Cardinality(blocks) \in Nat
  BY <1>1, BlocksFinite DEF TypeOK
<1>5. PICK n \in Int : n = allocs - Cardinality(blocks)
  BY <1>4
<1>6. -(allocs - frees - Cardinality(blocks) + Late) = frees - n
      /\ allocs - frees - Cardinality(blocks) + Late \in Int
  BY <1>3, <1>4, <1>5
<1>7. Turns(frees - n)
  <2>1. Turns(allocs - frees - Cardinality(blocks) + Late)
    BY DEF CountInv
  <2>2. Turns(-(allocs - frees - Cardinality(blocks) + Late))
    BY <1>6, <2>1, TurnBack
  <2> QED BY <1>6, <2>2
<1>8. Turns(((frees + 1) % Counts) - (n + 1))
  BY <1>4, <1>7, TurnUp
<1>9. frees' \in Int
  BY <1>2, <1>4, Sizes
<1>10. PICK d \in Int : d = ((frees + 1) % Counts) - (n + 1)
  BY <1>2, <1>9
<1>11. Turns(-d)
  BY <1>8, <1>10, TurnBack
<1>12. allocs' - frees' - Cardinality(blocks') + Late' = -d
  <2>1. d = frees' - (n + 1)
    BY <1>2, <1>10
  <2> QED BY <1>2, <1>3, <1>4, <1>5, <1>9, <2>1
<1>13. IsFiniteSet(blocks')
  BY <1>2 DEF CountInv
<1> QED BY <1>11, <1>12, <1>13 DEF CountInv, Turns

\* The object that is freed was one of the objects.
LEMMA CountInsert == HeapInv /\ CountInv /\ Insert => CountInv'
<1> SUFFICES ASSUME HeapInv, CountInv, Insert PROVE CountInv'
  OBVIOUS
<1>1. TypeOK
  BY DEF HeapInv
<1>2. PICK x : x = release.object
  OBVIOUS
<1>3. /\ blocks' = blocks \ {x} /\ frees' = frees /\ allocs' = allocs
      /\ pc = "place" /\ pc' = "pending"
  BY <1>2 DEF Insert
<1>4. Late = 1 /\ Late' = 0 /\ Falling = {x}
  BY <1>2, <1>3 DEF Late, Falling
<1>5. x \in blocks
  BY <1>4 DEF HeapInv, Ownership, PartsOK
<1>6. IsFiniteSet(blocks)
  BY DEF CountInv
<1>7. IsFiniteSet(blocks') /\ Cardinality(blocks') = Cardinality(blocks) - 1
  BY <1>3, <1>5, <1>6, FS_RemoveElement
<1>8. allocs \in Nat /\ frees \in Nat /\ Cardinality(blocks) \in Nat
  BY <1>1, BlocksFinite DEF TypeOK
<1>9. allocs' - frees' - Cardinality(blocks') + Late' = allocs - frees - Cardinality(blocks) + Late
  BY <1>3, <1>4, <1>7, <1>8
<1> QED BY <1>7, <1>9 DEF CountInv, Turns

\* Every step keeps the counters in step with the objects.
LEMMA CountStep == HeapInv /\ CountInv /\ [Next]_vars => CountInv'
<1> SUFFICES ASSUME HeapInv, CountInv, [Next]_vars PROVE CountInv'
  OBVIOUS
<1> DEFINE Still == /\ UNCHANGED <<allocs, frees, blocks>>
                    /\ pc = "place" <=> pc' = "place"
<1>1. ASSUME Still PROVE CountInv'
  <2>1. Late' = Late
    BY <1>1 DEF Late
  <2> QED BY <1>1, <2>1 DEF CountInv, Turns
<1>2. CASE UNCHANGED vars \/ Ended
  BY <1>1, <1>2 DEF Ended, vars, globals
<1>3. CASE Program
  <2>1. pc = "program" /\ pc' # "place" /\ UNCHANGED <<allocs, frees, blocks>>
    BY <1>3 DEF Program, NewArray, NewRecord, Match, Copy, CopyHeader, Reuse, CallAlloc, Release,
                CallRelease, Trap, globals
  <2> QED BY <1>1, <2>1
<1>4. CASE Allocating
  <2>1. TakeWhole => CountInv'
    BY CountReturn, WholeWords DEF TakeWhole, Searching
  <2>2. TakeUpper => CountInv'
    BY CountReturn, UpperWords DEF TakeUpper, Searching
  <2>3. Bump => CountInv'
    <3> SUFFICES ASSUME Bump PROVE CountInv'
      OBVIOUS
    <3>1. PICK r : r = top + 6
      OBVIOUS
    <3>2. NewObject(r) /\ ReturnRoot(r) /\ pc = "search"
      BY <3>1, BumpWords DEF Bump, Header
    <3> QED BY <3>2, CountReturn
  <2>4. SearchOn \/ NoMemory => Still
    BY DEF SearchOn, NoMemory, Searching, Trap, globals
  <2> QED BY <1>1, <1>4, <2>1, <2>2, <2>3, <2>4 DEF Allocating
<1>5. CASE Releasing
  <2>1. TakePending \/ Released \/ DropSlot \/ FindPlace => Still
    BY DEF TakePending, Released, DropSlot, FindPlace, Trap, globals
  <2> QED BY <1>1, <1>5, <2>1, CountFree, CountInsert DEF Releasing
<1>6. CASE Copying
  <2>1. Still
    BY <1>6 DEF Copying, CopyRoot, CopyChild, CopyWord, Descend, Ascend, Copied, CallAlloc, globals
  <2> QED BY <1>1, <2>1
<1>7. CASE Filling
  <2>1. Still
    BY <1>7 DEF Filling, FillArray, FillRecord, FillHeader, Return, globals
  <2> QED BY <1>1, <2>1
<1> QED BY <1>2, <1>3, <1>4, <1>5, <1>6, <1>7 DEF Next, Continue

\* The counters that a host reads, which wrap, count the objects that are live, but
\* for one that release has counted and not yet put in the free list.
THEOREM CountersCount == Spec => []Counted
<1>1. Init => CountInv
  <2> SUFFICES ASSUME Init PROVE CountInv
    OBVIOUS
  <2>1. allocs = 0 /\ frees = 0 /\ blocks = {} /\ Late = 0
    BY DEF Init, Late
  <2>2. IsFiniteSet(blocks) /\ Cardinality(blocks) = 0
    BY <2>1, FS_EmptySet
  <2>3. allocs - frees - Cardinality(blocks) + Late = 0 * Counts
    BY <2>1, <2>2, Sizes
  <2> QED BY <2>2, <2>3 DEF CountInv, Turns
<1>2. HeapInv /\ CountInv /\ [Next]_vars => CountInv'
  BY CountStep
<1>3. HeapInv /\ CountInv => Counted
  <2> SUFFICES ASSUME HeapInv, CountInv PROVE Counted
    OBVIOUS
  <2>1. allocs \in Nat /\ frees \in Nat /\ Cardinality(blocks) \in Nat /\ Late \in Nat
    BY BlocksFinite DEF HeapInv, TypeOK, Late
  <2>2. allocs - frees - Cardinality(blocks) + Late \in Int
    BY <2>1
  <2>3. (allocs - frees - Cardinality(blocks) + Late) % Counts = 0
    BY <2>2, TurnsEven DEF CountInv
  <2> QED BY <2>3 DEF Counted, Late
<1> QED BY <1>1, <1>2, <1>3, HeapIsInv, PTL DEF Spec

-----------------------------------------------------------------------------
(* The work lists end. *)

\* Links that lead to distinct members of a finite set, and none to the first, lead
\* out of every set that the first is in.
LEMMA NotClosed ==
  ASSUME NEW S, IsFiniteSet(S), NEW first \in S, NEW f \in [S -> S \ {first}],
         \A p, q \in S : f[p] = f[q] => p = q
  PROVE  FALSE
<1>1. /\ IsFiniteSet(S \ {first})
      /\ Cardinality(S \ {first}) = Cardinality(S) - 1
  BY FS_RemoveElement
<1>2. Cardinality(S) \in Nat
  BY FS_CardinalityType
<1>3. Cardinality(S \ {first}) < Cardinality(S)
  BY <1>1, <1>2
<1>4. \E p, q \in S : p # q /\ f[p] = f[q]
  BY <1>1, <1>3, FS_PigeonHole
<1> QED BY <1>4

\* A list whose links lead to distinct objects of it, and none to its first, ends.
LEMMA LinkedEnds ==
  ASSUME TypeOK, NEW work \in SUBSET blocks, NEW first \in work, Linked(work, first)
  PROVE  LinksEnd(first)
<1> SUFFICES ASSUME NEW S \in SUBSET blocks, first \in S,
                    \A p \in S : mem[CountAt(p)] \notin (blocks \cup {0}) \ S
             PROVE  FALSE
  BY DEF LinksEnd
<1> DEFINE T == S \cap work
           f == [p \in T |-> mem[CountAt(p)]]
<1>1. IsFiniteSet(T) /\ first \in T
  <2>1. IsFiniteSet(blocks)
    BY BlocksFinite
  <2> QED BY <2>1, FS_Subset
<1>2. 0 \notin S
  BY DEF TypeOK
<1>3. ASSUME NEW p \in T PROVE mem[CountAt(p)] \in T \ {first}
  <2>1. mem[CountAt(p)] = 0 \/ mem[CountAt(p)] \in work \ {first}
    BY DEF Linked
  <2>2. mem[CountAt(p)] \in S
    BY <2>1
  <2> QED BY <1>2, <2>1, <2>2
<1>4. f \in [T -> T \ {first}]
  BY <1>3
<1>5. ASSUME NEW p \in T, NEW q \in T, f[p] = f[q] PROVE p = q
  <2>1. mem[CountAt(p)] = mem[CountAt(q)] /\ mem[CountAt(p)] # 0
    BY <1>2, <1>3, <1>5
  <2> QED BY <2>1 DEF Linked
<1> HIDE DEF T, f
<1> QED BY <1>1, <1>4, <1>5, NotClosed

\* The pending list of release, and the parents of the record that a copy is at, never
\* have a cycle: whatever tree is released or copied, and whatever of it is pending or
\* half copied, the links lead from object to object and end at the null pointer.
THEOREM WorkListsEnd == Spec => []WorkEnds
<1>1. HeapInv => WorkEnds
  <2> SUFFICES ASSUME HeapInv PROVE WorkEnds
    OBVIOUS
  <2>1. PICK kept \in SUBSET blocks, work \in SUBSET blocks : Ownership(kept, work)
    BY DEF HeapInv
  <2>2. TypeOK /\ ReleaseOK(work) /\ CopyOK(kept, work)
    BY <2>1 DEF HeapInv, Ownership
  <2>3. ASSUME release.pending # 0
        PROVE  release.pending \in blocks /\ LinksEnd(release.pending)
    <3>1. release.pending \in work /\ Linked(work, release.pending)
      BY <2>2, <2>3 DEF ReleaseOK
    <3> QED BY <2>2, <3>1, LinkedEnds
  <2>4. ASSUME pc = "copy" PROVE copy.current \in blocks /\ LinksEnd(copy.current)
    <3>1. copy.current \in work /\ Linked(work, copy.current)
      BY <2>2, <2>4 DEF CopyOK, InCopy, Stage
    <3> QED BY <2>2, <3>1, LinkedEnds
  <2> QED BY <2>3, <2>4 DEF WorkEnds
<1> QED BY <1>1, HeapIsInv, PTL
=============================================================================
