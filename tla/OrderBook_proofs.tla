--------------------------- MODULE OrderBook_proofs --------------------------
(***************************************************************************)
(* The chains of the compiled order book hold its slots, and the book      *)
(* implements the book of lists, for every number of slots and prices and  *)
(* every set of commands.  The loops of the program stop with their fuel;  *)
(* what each of them returns is shown from the function of its rounds.     *)
(***************************************************************************)
EXTENDS OrderBookRefinement, FiniteSetTheorems, SequenceTheorems, WellFoundedInduction, TLAPS

\* The values of the arrays.
BookSet ==
    [oid : [Slots -> Nat], acct : [Slots -> Nat], qty : [Slots -> Nat],
     lvl : [Slots -> Levels], nxt : [Slots -> Slots],
     head : [Levels -> Slots], tail : [Levels -> Slots], nextId : Nat, count : Nat]

\* Slot 0 holds no order.
Places == 1..slots
InUse(b) == {s \in Places : b.oid[s] # 0}

\* The slots of q are the chain of level l.
Linked(b, l, q) ==
    /\ \A i \in 1..Len(q) : b.oid[q[i]] # 0 /\ b.lvl[q[i]] = l
    /\ \A i, j \in 1..Len(q) : q[i] = q[j] => i = j
    /\ b.head[l] = IF Len(q) = 0 THEN 0 ELSE q[1]
    /\ b.tail[l] = IF Len(q) = 0 THEN 0 ELSE q[Len(q)]
    /\ \A i \in 1..Len(q) : b.nxt[q[i]] = IF i = Len(q) THEN 0 ELSE q[i + 1]

On(q, s) == \E i \in 1..Len(q) : q[i] = s

\* The chains of all levels, which leave no slot out.
Chains == [Levels -> Seq(Places)]
ChainsOK(b, c) ==
    /\ \A l \in Levels : Linked(b, l, c[l])
    /\ \A s \in InUse(b) : On(c[b.lvl[s]], s)

BookOK(b) ==
    /\ b \in BookSet
    /\ \E c \in Chains : ChainsOK(b, c)
    /\ b.count = Cardinality(InUse(b))

\* The inductive invariant.
BookInv == BookOK(book) /\ book.nextId # 0

-----------------------------------------------------------------------------
(* Loops. *)

Below == {ss \in Nat \X Nat : ss[1] < ss[2]}

\* Induction along the rounds of a loop.
LEMMA Along ==
    ASSUME NEW n \in Nat, NEW S, 0 \in S, \A k \in 1..n : k - 1 \in S => k \in S
    PROVE  0..n \subseteq S
<1>1. IsWellFoundedOn(Below, Nat)
  BY NatLessThanWellFounded DEF OpToRel, Below
<1> DEFINE T == (0..n) \ S
<1> SUFFICES ASSUME T # {} PROVE FALSE
  OBVIOUS
<1>2. PICK x \in T : \A y \in T : ~(<<y, x>> \in Below)
  <2>1. T \subseteq Nat
    OBVIOUS
  <2> HIDE DEF T
  <2> QED BY <1>1, <2>1, WFMin, Zenon
<1>3. x \in 1..n /\ x - 1 \in 0..n
  OBVIOUS
<1>4. <<x - 1, x>> \in Below
  BY <1>3 DEF Below
<1>5. x - 1 \notin T
  BY <1>2, <1>4
<1> QED BY <1>3, <1>5

\* Round k of a loop that begins with x and whose round is G.
IsLoop(f, n, x, G) ==
    f = [k \in 0..n |-> IF k = 0 THEN x ELSE G[f[k - 1]]]

\* A loop can be run for any number of rounds, and stays where its rounds stay.
LEMMA LoopExists ==
    ASSUME NEW N \in Nat, NEW S, NEW x \in S, NEW G \in [S -> S]
    PROVE  \E f \in [0..N -> S] : IsLoop(f, N, x, G)
<1> DEFINE T == {n \in 0..N : \E f \in [0..n -> S] : IsLoop(f, n, x, G)}
<1>1. 0 \in T
  <2>1. IsLoop([k \in 0..0 |-> x], 0, x, G) /\ [k \in 0..0 |-> x] \in [0..0 -> S]
    BY DEF IsLoop
  <2> QED BY <2>1
<1>2. ASSUME NEW n \in 1..N, n - 1 \in T PROVE n \in T
  <2>1. PICK f \in [0..(n - 1) -> S] : IsLoop(f, n - 1, x, G)
    BY <1>2
  <2> DEFINE g == [k \in 0..n |-> IF k < n THEN f[k] ELSE G[f[n - 1]]]
  <2>2. g \in [0..n -> S]
    BY <2>1
  <2>3. IsLoop(g, n, x, G)
    BY <2>1 DEF IsLoop
  <2> HIDE DEF g
  <2> QED BY <2>2, <2>3
<1>3. 0..N \subseteq T
  <2> HIDE DEF T
  <2> QED BY <1>1, <1>2, Along
<1> QED BY <1>3

-----------------------------------------------------------------------------
(* Chains. *)

\* Constants and bounds.
LEMMA Bounds ==
    /\ slots \in Nat /\ maxPrice \in Nat
    /\ Slots = 0..slots /\ Places \subseteq Slots /\ 0 \notin Places
    /\ \A side \in {0, 1}, price \in 0..maxPrice : level(side, price) \in Levels
BY BookAssumption DEF Slots, Levels, level, Places

\* The slots in use are finitely many.
LEMMA UseFinite ==
    ASSUME NEW b
    PROVE  /\ IsFiniteSet(InUse(b)) /\ Cardinality(InUse(b)) \in Nat
           /\ Cardinality(InUse(b)) <= slots
           /\ Cardinality(InUse(b)) = slots => InUse(b) = Places
<1>1. IsFiniteSet(Places) /\ Cardinality(Places) = slots
  BY FS_Interval, Bounds DEF Places
<1>2. InUse(b) \in SUBSET Places
  BY DEF InUse
<1>3. IsFiniteSet(InUse(b))
  BY <1>1, <1>2, FS_Subset
<1>4. Cardinality(InUse(b)) \in Nat
  BY <1>3, FS_CardinalityType
<1> QED BY <1>1, <1>2, <1>3, <1>4, FS_Subset

\* A chain is no longer than the number of slots.
LEMMA ShortChain ==
    ASSUME NEW b, NEW l, NEW q \in Seq(Places), Linked(b, l, q)
    PROVE  Len(q) \in Nat /\ Len(q) <= slots
<1>1. Len(q) \in Nat /\ q \in [1..Len(q) -> Places]
  OBVIOUS
<1>2. q \in Injection(1..Len(q), Places)
  BY <1>1 DEF Linked, Injection, IsInjective
<1>3. IsFiniteSet(Places) /\ Cardinality(Places) = slots
  BY FS_Interval, Bounds DEF Places
<1>4. Cardinality(1..Len(q)) <= Cardinality(Places)
  BY <1>2, <1>3, FS_Injection
<1>5. Cardinality(1..Len(q)) = Len(q)
  <2>1. \A n \in Nat : Cardinality(1..n) = n
    BY FS_Interval
  <2> QED BY <1>1, <2>1
<1> QED BY <1>1, <1>3, <1>4, <1>5

\* b2 has the chains c of b at the levels other than lv, and the other slots it
\* uses are those of q.
OthersKept(b2, b, c, lv, q) ==
    /\ \A l \in Levels : l # lv => Linked(b2, l, c[l])
    /\ \A s \in InUse(b2) : \/ On(q, s)
                            \/ s \in InUse(b) /\ b.lvl[s] = b2.lvl[s] /\ b2.lvl[s] # lv

\* One level has a new chain, and the others keep theirs.
LEMMA Relinked ==
    ASSUME NEW b, NEW b2 \in BookSet, NEW c \in Chains, ChainsOK(b, c),
           NEW lv \in Levels, NEW q \in Seq(Places), Linked(b2, lv, q),
           OthersKept(b2, b, c, lv, q)
    PROVE  \E d \in Chains : ChainsOK(b2, d)
<1> DEFINE d == [c EXCEPT ![lv] = q]
<1>1. d \in Chains /\ d[lv] = q /\ \A l \in Levels : l # lv => d[l] = c[l]
  BY DEF Chains
<1> HIDE DEF d
<1>2. \A l \in Levels : Linked(b2, l, d[l])
  <2> SUFFICES ASSUME NEW l \in Levels PROVE Linked(b2, l, d[l])
    OBVIOUS
  <2>1. CASE l = lv
    BY <1>1, <2>1
  <2>2. CASE l # lv
    BY <1>1, <2>2 DEF OthersKept
  <2> QED BY <2>1, <2>2
<1>3. ASSUME NEW s \in InUse(b2) PROVE On(d[b2.lvl[s]], s)
  <2>1. b2.lvl[s] \in Levels
    BY Bounds DEF InUse, BookSet
  <2>2. CASE On(q, s)
    <3>1. b2.lvl[s] = lv
      BY <2>2 DEF On, Linked
    <3> QED BY <1>1, <2>2, <3>1
  <2>3. CASE s \in InUse(b) /\ b.lvl[s] = b2.lvl[s] /\ b2.lvl[s] # lv
    <3>1. On(c[b.lvl[s]], s)
      BY <2>3 DEF ChainsOK
    <3> QED BY <1>1, <2>1, <2>3, <3>1
  <2> QED BY <2>2, <2>3 DEF OthersKept
<1> QED BY <1>1, <1>2, <1>3 DEF ChainsOK

\* What unlink does to each array.
Unlinked(b2, b, lv, pr, s) ==
    /\ b2 \in BookSet
    /\ b2.oid = [b.oid EXCEPT ![s] = 0]
    /\ b2.lvl = b.lvl /\ b2.nextId = b.nextId
    /\ b2.nxt = IF pr = 0 THEN b.nxt ELSE [b.nxt EXCEPT ![pr] = b.nxt[s]]
    /\ b2.head = [b.head EXCEPT ![lv] = IF pr = 0 THEN b.nxt[s] ELSE @]
    /\ b2.tail = [b.tail EXCEPT ![lv] = IF @ = s THEN pr ELSE @]
    /\ b2.count = b.count - 1

\* unlink changes the arrays so.
LEMMA UnlinkFields ==
    ASSUME NEW b \in BookSet, NEW lv \in Levels, NEW pr \in Slots, NEW s \in Places,
           b.count # 0, NEW b2, b2 = unlink(b, lv, pr, s)
    PROVE  Unlinked(b2, b, lv, pr, s)
<1>1. s \in Slots
  BY Bounds
<1>2. b2 = [b EXCEPT !.oid = [b.oid EXCEPT ![s] = 0],
                     !.nxt = IF pr = 0 THEN b.nxt ELSE [b.nxt EXCEPT ![pr] = b.nxt[s]],
                     !.head = [b.head EXCEPT ![lv] = IF pr = 0 THEN b.nxt[s] ELSE @],
                     !.tail = [b.tail EXCEPT ![lv] = IF @ = s THEN pr ELSE @],
                     !.count = b.count - 1]
  BY DEF unlink, BookSet
<1>3. b.oid \in [Slots -> Nat] /\ b.nxt \in [Slots -> Slots] /\ b.head \in [Levels -> Slots]
      /\ b.tail \in [Levels -> Slots] /\ b.count \in Nat
  BY DEF BookSet
<1>4. [b.oid EXCEPT ![s] = 0] \in [Slots -> Nat] /\ b.count - 1 \in Nat
  <2>1. \A k \in Nat : k # 0 => k - 1 \in Nat
    OBVIOUS
  <2> QED BY <1>1, <1>3, <2>1
<1>5. (IF pr = 0 THEN b.nxt ELSE [b.nxt EXCEPT ![pr] = b.nxt[s]]) \in [Slots -> Slots]
  BY <1>1, <1>3
<1>6. /\ [b.head EXCEPT ![lv] = IF pr = 0 THEN b.nxt[s] ELSE @] \in [Levels -> Slots]
      /\ [b.tail EXCEPT ![lv] = IF @ = s THEN pr ELSE @] \in [Levels -> Slots]
  BY <1>1, <1>3
<1>7. b2 \in BookSet
  <2>1. b.acct \in [Slots -> Nat] /\ b.qty \in [Slots -> Nat] /\ b.lvl \in [Slots -> Levels]
        /\ b.nextId \in Nat
    BY DEF BookSet
  <2>2. b2 = [oid |-> [b.oid EXCEPT ![s] = 0], acct |-> b.acct, qty |-> b.qty, lvl |-> b.lvl,
              nxt |-> IF pr = 0 THEN b.nxt ELSE [b.nxt EXCEPT ![pr] = b.nxt[s]],
              head |-> [b.head EXCEPT ![lv] = IF pr = 0 THEN b.nxt[s] ELSE @],
              tail |-> [b.tail EXCEPT ![lv] = IF @ = s THEN pr ELSE @],
              nextId |-> b.nextId, count |-> b.count - 1]
    BY <1>2 DEF BookSet
  <2> QED BY <1>4, <1>5, <1>6, <2>1, <2>2 DEF BookSet
<1> QED BY <1>2, <1>7 DEF BookSet, Unlinked

\* The chain without its i-th slot.
Without(q, i) == [k \in 1..(Len(q) - 1) |-> IF k < i THEN q[k] ELSE q[k + 1]]

\* The slot before the i-th of a chain, or 0.
Prior(q, i) == IF i = 1 THEN 0 ELSE q[i - 1]

\* unlink takes the i-th slot out of the chain of its level.
LEMMA UnlinkChain ==
    ASSUME NEW b \in BookSet, NEW lv \in Levels, NEW q \in Seq(Places), Linked(b, lv, q),
           NEW i \in 1..Len(q), b.count # 0,
           NEW b2, b2 = unlink(b, lv, Prior(q, i), q[i])
    PROVE  Linked(b2, lv, Without(q, i)) /\ Without(q, i) \in Seq(Places)
<1> DEFINE n == Len(q)
           s == q[i]
           pr == Prior(q, i)
           d == Without(q, i)
<1>1. n \in Nat /\ i \in Nat /\ 1 <= i /\ i <= n /\ \A k \in 1..n : q[k] \in Places /\ q[k] \in Slots
  <2>1. Len(q) \in Nat /\ q \in [1..Len(q) -> Places]
    OBVIOUS
  <2>2. Places \subseteq Slots
    BY Bounds
  <2> QED BY <2>1, <2>2
<1>2. pr \in Slots /\ s \in Places /\ (pr = 0 <=> i = 1)
  BY <1>1, Bounds DEF Prior
<1>3. /\ b2.oid = [b.oid EXCEPT ![s] = 0]
      /\ b2.lvl = b.lvl
      /\ b2.nxt = IF pr = 0 THEN b.nxt ELSE [b.nxt EXCEPT ![pr] = b.nxt[s]]
      /\ b2.head = [b.head EXCEPT ![lv] = IF pr = 0 THEN b.nxt[s] ELSE @]
      /\ b2.tail = [b.tail EXCEPT ![lv] = IF @ = s THEN pr ELSE @]
  <2>1. Unlinked(b2, b, lv, pr, s)
    BY <1>2, UnlinkFields
  <2> QED BY <2>1 DEF Unlinked
<1>4. b.oid \in [Slots -> Nat] /\ b.nxt \in [Slots -> Slots] /\ b.head \in [Levels -> Slots]
      /\ b.tail \in [Levels -> Slots]
  BY DEF BookSet
<1>5. /\ d \in Seq(Places) /\ Len(d) = n - 1
      /\ \A k \in 1..(n - 1) : d[k] = q[IF k < i THEN k ELSE k + 1]
  BY <1>1 DEF Without
<1>6. /\ \A k \in 1..n : b.oid[q[k]] # 0 /\ b.lvl[q[k]] = lv
      /\ \A j, k \in 1..n : q[j] = q[k] => j = k
      /\ b.head[lv] = IF n = 0 THEN 0 ELSE q[1]
      /\ b.tail[lv] = IF n = 0 THEN 0 ELSE q[n]
      /\ \A k \in 1..n : b.nxt[q[k]] = IF k = n THEN 0 ELSE q[k + 1]
  BY DEF Linked
<1>7. i # 1 => pr = q[i - 1]
  BY DEF Prior
<1> HIDE DEF n, s, pr, d
<1>8. \A k \in 1..(n - 1) : b2.oid[d[k]] # 0 /\ b2.lvl[d[k]] = lv
  <2> SUFFICES ASSUME NEW k \in 1..(n - 1) PROVE b2.oid[d[k]] # 0 /\ b2.lvl[d[k]] = lv
    OBVIOUS
  <2>1. PICK j \in 1..n : d[k] = q[j] /\ j # i
    BY <1>1, <1>5
  <2>2. q[j] # s
    BY <1>1, <1>6, <2>1 DEF s
  <2> QED BY <1>1, <1>3, <1>4, <1>6, <2>1, <2>2
<1>9. \A j, k \in 1..(n - 1) : d[j] = d[k] => j = k
  <2> DEFINE at(k) == IF k < i THEN k ELSE k + 1
  <2>1. \A k \in 1..(n - 1) : at(k) \in 1..n /\ d[k] = q[at(k)]
    BY <1>1, <1>5
  <2>2. \A j, k \in 1..(n - 1) : at(j) = at(k) => j = k
    BY <1>1
  <2> HIDE DEF at
  <2> QED BY <1>6, <2>1, <2>2
<1>10. b2.head[lv] = IF n - 1 = 0 THEN 0 ELSE d[1]
  <2>1. CASE i = 1
    <3>1. b2.head[lv] = b.nxt[q[1]]
      BY <1>2, <1>3, <1>4, <2>1 DEF s
    <3> QED BY <1>1, <1>5, <1>6, <2>1, <3>1
  <2>2. CASE i # 1
    <3>1. b2.head[lv] = b.head[lv]
      BY <1>2, <1>3, <1>4, <2>2
    <3> QED BY <1>1, <1>5, <1>6, <2>2, <3>1
  <2> QED BY <2>1, <2>2
<1>11. b2.tail[lv] = IF n - 1 = 0 THEN 0 ELSE d[n - 1]
  <2>1. CASE i = n
    <3>1. b2.tail[lv] = pr
      BY <1>1, <1>3, <1>4, <1>6, <2>1 DEF s
    <3> QED BY <1>1, <1>2, <1>5, <1>7, <2>1, <3>1
  <2>2. CASE i # n
    <3>1. q[n] # s
      BY <1>1, <1>6, <2>2 DEF s
    <3>2. b2.tail[lv] = q[n]
      BY <1>1, <1>3, <1>4, <1>6, <3>1
    <3> QED BY <1>1, <1>5, <2>2, <3>2
  <2> QED BY <2>1, <2>2
<1>12. \A k \in 1..(n - 1) : b2.nxt[d[k]] = IF k = n - 1 THEN 0 ELSE d[k + 1]
  <2> SUFFICES ASSUME NEW k \in 1..(n - 1)
               PROVE  b2.nxt[d[k]] = IF k = n - 1 THEN 0 ELSE d[k + 1]
    OBVIOUS
  <2>1. CASE k = i - 1
    <3>1. i # 1 /\ d[k] = pr /\ pr # 0
      BY <1>1, <1>2, <1>5, <1>7, <2>1
    <3>2. b2.nxt[d[k]] = b.nxt[s]
      BY <1>2, <1>3, <1>4, <3>1
    <3>3. b.nxt[s] = IF i = n THEN 0 ELSE q[i + 1]
      BY <1>1, <1>6 DEF s
    <3> QED BY <1>1, <1>5, <2>1, <3>2, <3>3
  <2>2. CASE k # i - 1
    <3> DEFINE j == IF k < i THEN k ELSE k + 1
    <3>1. j \in 1..n /\ d[k] = q[j]
      BY <1>1, <1>5
    <3>2. pr = 0 \/ q[j] # pr
      BY <1>1, <1>2, <1>6, <1>7, <2>2, <3>1
    <3>3. b2.nxt[d[k]] = b.nxt[q[j]]
      BY <1>3, <1>4, <3>1, <3>2
    <3>4. b.nxt[q[j]] = IF j = n THEN 0 ELSE q[j + 1]
      BY <1>6, <3>1
    <3> QED BY <1>1, <1>5, <2>2, <3>1, <3>3, <3>4
  <2> QED BY <2>1, <2>2
<1>13. Linked(b2, lv, d)
  BY <1>5, <1>8, <1>9, <1>10, <1>11, <1>12 DEF Linked
<1> QED BY <1>5, <1>13 DEF d

\* A chain none of whose slots and ends changed is still one.
LEMMA LinkedFrame ==
    ASSUME NEW b, NEW b2, NEW l, NEW q, Linked(b, l, q),
           \A k \in 1..Len(q) : /\ b2.oid[q[k]] # 0
                                /\ b2.lvl[q[k]] = b.lvl[q[k]]
                                /\ b2.nxt[q[k]] = b.nxt[q[k]],
           b2.head[l] = b.head[l], b2.tail[l] = b.tail[l]
    PROVE  Linked(b2, l, q)
BY DEF Linked

\* An order leaves the chain of its level.
LEMMA UnlinkKeeps ==
    ASSUME NEW b \in BookSet, NEW c \in Chains, ChainsOK(b, c), b.count = Cardinality(InUse(b)),
           NEW lv \in Levels, NEW i \in 1..Len(c[lv]),
           NEW b2, b2 = unlink(b, lv, Prior(c[lv], i), c[lv][i])
    PROVE  BookOK(b2) /\ b2.nextId = b.nextId
<1> DEFINE q == c[lv]
           s == q[i]
           pr == Prior(q, i)
           d == Without(q, i)
<1>1. q \in Seq(Places) /\ Linked(b, lv, q) /\ i \in 1..Len(q)
  BY DEF Chains, ChainsOK
<1>2. /\ Len(q) \in Nat /\ s \in Places /\ s \in Slots
      /\ \A k \in 1..Len(q) : q[k] \in Places /\ q[k] \in Slots
      /\ pr \in Slots /\ (pr = 0 \/ \E k \in 1..Len(q) : pr = q[k])
  <2>1. Len(q) \in Nat /\ q \in [1..Len(q) -> Places]
    BY <1>1
  <2>2. Places \subseteq Slots /\ 0 \in Slots
    BY Bounds
  <2>3. i = 1 \/ i - 1 \in 1..Len(q)
    BY <1>1, <2>1
  <2> HIDE DEF q
  <2> QED BY <1>1, <2>1, <2>2, <2>3 DEF Prior
<1>3. b.oid[s] # 0 /\ b.lvl[s] = lv
  BY <1>1 DEF Linked
<1>4. s \in InUse(b)
  BY <1>2, <1>3 DEF InUse
<1>5. b.count # 0 /\ IsFiniteSet(InUse(b))
  BY <1>4, UseFinite, FS_EmptySet
<1>6. Unlinked(b2, b, lv, pr, s)
  BY <1>2, <1>5, UnlinkFields
<1>7. Linked(b2, lv, d) /\ d \in Seq(Places)
  BY <1>1, <1>5, UnlinkChain
<1>8. b.oid \in [Slots -> Nat] /\ b.nxt \in [Slots -> Slots] /\ b.head \in [Levels -> Slots]
      /\ b.tail \in [Levels -> Slots]
  BY DEF BookSet
<1>9. \A t \in Slots : t # s => b2.oid[t] = b.oid[t]
  BY <1>6, <1>8 DEF Unlinked
<1>10. InUse(b2) = InUse(b) \ {s}
  <2>1. b2.oid[s] = 0
    BY <1>2, <1>6, <1>8 DEF Unlinked
  <2> QED BY <1>2, <1>9, <2>1, Bounds DEF InUse
<1>11. b2.count = Cardinality(InUse(b2))
  BY <1>4, <1>5, <1>6, <1>10, FS_RemoveElement DEF Unlinked
<1> HIDE DEF q, s, pr, d
<1>12. ASSUME NEW l \in Levels, l # lv PROVE Linked(b2, l, c[l])
  <2>1. Linked(b, l, c[l]) /\ c[l] \in Seq(Places)
    BY DEF Chains, ChainsOK
  <2>2. ASSUME NEW k \in 1..Len(c[l])
        PROVE  c[l][k] \in Slots /\ c[l][k] # s /\ (pr = 0 \/ c[l][k] # pr)
    <3>1. c[l][k] \in Places
      BY <2>1
    <3>2. b.lvl[c[l][k]] = l
      BY <2>1 DEF Linked
    <3>3. pr = 0 \/ b.lvl[pr] = lv
      BY <1>1, <1>2 DEF Linked
    <3> QED BY <1>3, <1>12, <3>1, <3>2, <3>3, Bounds
  <2>3. ASSUME NEW k \in 1..Len(c[l])
        PROVE  /\ b2.oid[c[l][k]] # 0
               /\ b2.lvl[c[l][k]] = b.lvl[c[l][k]]
               /\ b2.nxt[c[l][k]] = b.nxt[c[l][k]]
    <3>1. b2.oid[c[l][k]] # 0
      BY <1>9, <2>1, <2>2 DEF Linked
    <3>2. b2.nxt[c[l][k]] = b.nxt[c[l][k]]
      BY <1>6, <1>8, <2>2 DEF Unlinked
    <3> QED BY <1>6, <3>1, <3>2 DEF Unlinked
  <2>4. b2.head[l] = b.head[l] /\ b2.tail[l] = b.tail[l]
    BY <1>6, <1>8, <1>12 DEF Unlinked
  <2> QED BY <2>1, <2>3, <2>4, LinkedFrame
<1>13. ASSUME NEW t \in InUse(b2)
       PROVE  On(d, t) \/ (t \in InUse(b) /\ b.lvl[t] = b2.lvl[t] /\ b2.lvl[t] # lv)
  <2>1. t \in InUse(b) /\ t # s /\ b2.lvl[t] = b.lvl[t]
    BY <1>6, <1>10, <1>13 DEF Unlinked
  <2>2. CASE b.lvl[t] = lv
    <3>1. PICK j \in 1..Len(q) : q[j] = t
      BY <2>1, <2>2 DEF ChainsOK, On, q
    <3>2. j # i
      BY <2>1, <3>1 DEF s
    <3>3. /\ Len(d) = Len(q) - 1
          /\ \A k \in 1..(Len(q) - 1) : d[k] = q[IF k < i THEN k ELSE k + 1]
      BY <1>1, <1>2 DEF Without, d
    <3>4. j < i => j \in 1..(Len(q) - 1) /\ d[j] = t
      BY <1>1, <1>2, <3>1, <3>3
    <3>5. ~(j < i) => j - 1 \in 1..(Len(q) - 1) /\ d[j - 1] = t
      BY <1>1, <1>2, <3>1, <3>2, <3>3
    <3> QED BY <3>3, <3>4, <3>5 DEF On
  <2> QED BY <2>1, <2>2
<1>14. b2 \in BookSet /\ b2.nextId = b.nextId
  BY <1>6 DEF Unlinked
<1>15. \E e \in Chains : ChainsOK(b2, e)
  <2>1. OthersKept(b2, b, c, lv, d)
    BY <1>12, <1>13 DEF OthersKept
  <2>2. b2 \in BookSet
    BY <1>14
  <2> QED BY <1>7, <2>1, <2>2, Relinked
<1> QED BY <1>11, <1>14, <1>15 DEF BookOK

-----------------------------------------------------------------------------
(* Searches. *)

FindRound(oid, id) == [t \in Nat |-> IF t <= slots /\ oid[t] # id THEN t + 1 ELSE t]
FreeRound(oid) == [t \in Nat |-> IF oid[t] # 0 THEN t + 1 ELSE t]

\* findSlot finds a slot that holds the order, or 0 if there is none.
LEMMA FindSlot ==
    ASSUME NEW oid, NEW id
    PROVE  LET s == findSlot(oid, id)
           IN /\ s # 0 => s \in Places /\ oid[s] = id /\ id # 0
              /\ s = 0 => id = 0 \/ \A t \in Places : oid[t] # id
<1> SUFFICES ASSUME id # 0
             PROVE  /\ findSlot(oid, id) # 0 =>
                          findSlot(oid, id) \in Places /\ oid[findSlot(oid, id)] = id
                    /\ \A t \in Places : oid[t] = id => findSlot(oid, id) # 0
  BY DEF findSlot
<1> DEFINE G == FindRound(oid, id)
           Loop(f) == f = [n \in 0..slots |->
                             IF n = 0 THEN 1
                             ELSE IF f[n - 1] <= slots /\ oid[f[n - 1]] # id THEN f[n - 1] + 1
                             ELSE f[n - 1]]
<1>1. slots \in Nat /\ slotFuel = slots
  BY Bounds DEF slotFuel
<1>2. \E f : Loop(f)
  <2>1. G \in [Nat -> Nat]
    BY DEF FindRound
  <2>2. PICK f \in [0..slots -> Nat] : IsLoop(f, slots, 1, G)
    BY <1>1, <2>1, LoopExists
  <2>3. \A n \in 1..slots : n - 1 \in 0..slots /\ f[n - 1] \in Nat
    BY <1>1, <2>2
  <2>4. \A n \in 0..slots : f[n] = IF n = 0 THEN 1 ELSE G[f[n - 1]]
    <3> HIDE DEF G
    <3> QED BY <2>2 DEF IsLoop
  <2>5. \A n \in 0..slots :
           f[n] = IF n = 0 THEN 1
                  ELSE IF f[n - 1] <= slots /\ oid[f[n - 1]] # id THEN f[n - 1] + 1
                  ELSE f[n - 1]
    <3>1. \A t \in Nat : G[t] = IF t <= slots /\ oid[t] # id THEN t + 1 ELSE t
      BY DEF FindRound
    <3>2. \A n \in 0..slots : n = 0 \/ n \in 1..slots
      BY <1>1
    <3> HIDE DEF G
    <3> QED BY <2>3, <2>4, <3>1, <3>2
  <2>6. Loop(f)
    BY <2>2, <2>5
  <2> QED BY <2>6
<1>3. PICK f : Loop(f) /\ findSlot(oid, id) = IF f[slots] <= slots THEN f[slots] ELSE 0
  BY <1>1, <1>2 DEF findSlot, repeatWhile
<1> DEFINE S == {n \in 0..slots : f[n] \in 1..(n + 1) /\ (f[n] <= n => oid[f[n]] = id)}
<1>4. 0..slots \subseteq S
  <2>1. 0 \in S
    BY <1>1, <1>3
  <2>2. ASSUME NEW n \in 1..slots, n - 1 \in S PROVE n \in S
    <3>1. f[n] = IF f[n - 1] <= slots /\ oid[f[n - 1]] # id THEN f[n - 1] + 1 ELSE f[n - 1]
      BY <1>1, <1>3
    <3>2. n \in Nat /\ f[n - 1] \in 1..n /\ (f[n - 1] <= n - 1 => oid[f[n - 1]] = id)
      BY <1>1, <2>2
    <3> QED BY <1>1, <3>1, <3>2
  <2> HIDE DEF S
  <2> QED BY <1>1, <2>1, <2>2, Along
<1>5. ASSUME findSlot(oid, id) # 0
      PROVE  findSlot(oid, id) \in Places /\ oid[findSlot(oid, id)] = id
  <2>1. f[slots] <= slots /\ f[slots] \in 1..(slots + 1) /\ findSlot(oid, id) = f[slots]
    BY <1>1, <1>3, <1>4, <1>5
  <2> QED BY <1>1, <1>4, <2>1 DEF Places
<1>6. ASSUME NEW t \in Places, oid[t] = id PROVE findSlot(oid, id) # 0
  <2>1. t \in 1..slots
    BY DEF Places
  <2> DEFINE R == {n \in 0..slots : f[n] \in 1..t}
  <2>2. 0 \in R
    BY <1>1, <1>3, <2>1
  <2>3. ASSUME NEW n \in 1..slots, n - 1 \in R PROVE n \in R
    <3>1. f[n] = IF f[n - 1] <= slots /\ oid[f[n - 1]] # id THEN f[n - 1] + 1 ELSE f[n - 1]
      BY <1>1, <1>3
    <3>2. n \in 0..slots /\ f[n - 1] \in 1..t
      BY <1>1, <2>3
    <3> QED BY <1>1, <1>6, <2>1, <3>1, <3>2
  <2>4. 0..slots \subseteq R
    <3> HIDE DEF R
    <3> QED BY <1>1, <2>2, <2>3, Along
  <2>5. f[slots] \in 1..t
    BY <1>1, <2>4
  <2> QED BY <1>1, <1>3, <2>1, <2>5
<1> QED BY <1>5, <1>6

\* freeSlot finds a free slot, if there is one.
LEMMA FreeSlot ==
    ASSUME NEW oid, NEW free \in Places, oid[free] = 0
    PROVE  freeSlot(oid) \in Places /\ oid[freeSlot(oid)] = 0
<1> DEFINE G == FreeRound(oid)
           Loop(f) == f = [n \in 0..slots |->
                             IF n = 0 THEN 1
                             ELSE IF oid[f[n - 1]] # 0 THEN f[n - 1] + 1 ELSE f[n - 1]]
<1>1. slots \in Nat /\ slotFuel = slots /\ free \in 1..slots
  BY Bounds DEF slotFuel, Places
<1>2. \E f : Loop(f)
  <2>1. G \in [Nat -> Nat]
    BY DEF FreeRound
  <2>2. PICK f \in [0..slots -> Nat] : IsLoop(f, slots, 1, G)
    BY <1>1, <2>1, LoopExists
  <2>3. \A n \in 1..slots : n - 1 \in 0..slots /\ f[n - 1] \in Nat
    BY <1>1, <2>2
  <2>4. \A n \in 0..slots : f[n] = IF n = 0 THEN 1 ELSE G[f[n - 1]]
    <3> HIDE DEF G
    <3> QED BY <2>2 DEF IsLoop
  <2>5. \A n \in 0..slots :
           f[n] = IF n = 0 THEN 1 ELSE IF oid[f[n - 1]] # 0 THEN f[n - 1] + 1 ELSE f[n - 1]
    <3>1. \A t \in Nat : G[t] = IF oid[t] # 0 THEN t + 1 ELSE t
      BY DEF FreeRound
    <3>2. \A n \in 0..slots : n = 0 \/ n \in 1..slots
      BY <1>1
    <3> HIDE DEF G
    <3> QED BY <2>3, <2>4, <3>1, <3>2
  <2>6. Loop(f)
    BY <2>2, <2>5
  <2> QED BY <2>6
<1>3. PICK f : Loop(f) /\ freeSlot(oid) = f[slots]
  BY <1>1, <1>2 DEF freeSlot, repeatWhile
<1> DEFINE S == {n \in 0..slots : f[n] \in 1..free /\ (oid[f[n]] = 0 \/ f[n] = n + 1)}
<1>4. 0..slots \subseteq S
  <2>1. 0 \in S
    BY <1>1, <1>3
  <2>2. ASSUME NEW n \in 1..slots, n - 1 \in S PROVE n \in S
    <3>1. f[n] = IF oid[f[n - 1]] # 0 THEN f[n - 1] + 1 ELSE f[n - 1]
      BY <1>1, <1>3
    <3>2. n \in Nat /\ f[n - 1] \in 1..free /\ (oid[f[n - 1]] = 0 \/ f[n - 1] = n)
      BY <1>1, <2>2
    <3> QED BY <1>1, <3>1, <3>2
  <2> HIDE DEF S
  <2> QED BY <1>1, <2>1, <2>2, Along
<1>5. slots \in S
  BY <1>1, <1>4
<1> QED BY <1>1, <1>3, <1>5 DEF Places

\* predecessor finds the slot before a slot in its chain.
LEMMA PredecessorIs ==
    ASSUME NEW b \in BookSet, NEW lv \in Levels, NEW q \in Seq(Places), Linked(b, lv, q),
           NEW i \in 1..Len(q)
    PROVE  predecessor(b, lv, q[i]) = Prior(q, i)
<1>1. Len(q) \in Nat /\ Len(q) <= slots /\ slots \in Nat /\ chainFuel = slots
  BY ShortChain, Bounds DEF chainFuel
<1>2. /\ \A j, k \in 1..Len(q) : q[j] = q[k] => j = k
      /\ b.head[lv] = q[1]
      /\ \A k \in 1..Len(q) : b.nxt[q[k]] = IF k = Len(q) THEN 0 ELSE q[k + 1]
      /\ \A k \in 1..Len(q) : q[k] \in Places /\ q[k] # 0
  <2>1. \A k \in 1..Len(q) : q[k] \in Places
    OBVIOUS
  <2> QED BY <1>1, <2>1, Bounds DEF Linked
<1>3. CASE i = 1
  BY <1>2, <1>3 DEF predecessor, Prior
<1>4. CASE i # 1
  <2>1. b.head[lv] # q[i] /\ i \in 2..Len(q)
    BY <1>1, <1>2, <1>4
  <2> DEFINE G == [t \in Slots |-> IF t # 0 /\ b.nxt[t] # q[i] THEN b.nxt[t] ELSE t]
             Loop(f) == f = [n \in 0..slots |->
                               IF n = 0 THEN b.head[lv]
                               ELSE IF f[n - 1] # 0 /\ b.nxt[f[n - 1]] # q[i] THEN b.nxt[f[n - 1]]
                               ELSE f[n - 1]]
  <2>2. \E f : Loop(f)
    <3>1. G \in [Slots -> Slots] /\ b.head[lv] \in Slots
      BY DEF BookSet
    <3>2. PICK f \in [0..slots -> Slots] : IsLoop(f, slots, b.head[lv], G)
      <4> HIDE DEF G
      <4> QED BY <1>1, <3>1, LoopExists
    <3>3. \A n \in 1..slots : n - 1 \in 0..slots /\ f[n - 1] \in Slots
      BY <1>1, <3>2
    <3>4. \A n \in 0..slots : f[n] = IF n = 0 THEN b.head[lv] ELSE G[f[n - 1]]
      <4> HIDE DEF G
      <4> QED BY <3>2 DEF IsLoop
    <3>5. \A n \in 0..slots :
             f[n] = IF n = 0 THEN b.head[lv]
                    ELSE IF f[n - 1] # 0 /\ b.nxt[f[n - 1]] # q[i] THEN b.nxt[f[n - 1]]
                    ELSE f[n - 1]
      <4>1. \A t \in Slots : G[t] = IF t # 0 /\ b.nxt[t] # q[i] THEN b.nxt[t] ELSE t
        OBVIOUS
      <4>2. \A n \in 0..slots : n = 0 \/ n \in 1..slots
        BY <1>1
      <4> HIDE DEF G
      <4> QED BY <3>3, <3>4, <4>1, <4>2
    <3>6. Loop(f)
      BY <3>2, <3>5
    <3> QED BY <3>6
  <2>3. PICK f : Loop(f) /\ predecessor(b, lv, q[i]) = f[slots]
    BY <1>1, <2>1, <2>2 DEF predecessor, repeatWhile
  <2> DEFINE S == {n \in 0..slots : f[n] = q[IF n + 1 < i - 1 THEN n + 1 ELSE i - 1]}
  <2>4. 0..slots \subseteq S
    <3>1. 0 \in S
      BY <1>1, <1>2, <2>1, <2>3
    <3>2. ASSUME NEW n \in 1..slots, n - 1 \in S PROVE n \in S
      <4>1. f[n] = IF f[n - 1] # 0 /\ b.nxt[f[n - 1]] # q[i] THEN b.nxt[f[n - 1]] ELSE f[n - 1]
        BY <1>1, <2>3
      <4>2. f[n - 1] = q[IF n < i - 1 THEN n ELSE i - 1] /\ n \in Nat
        BY <1>1, <3>2
      <4>3. CASE n < i - 1
        <5>1. n \in 1..Len(q) /\ n + 1 \in 1..Len(q) /\ n + 1 # i /\ n # Len(q)
          BY <1>1, <2>1, <4>2, <4>3
        <5>2. f[n - 1] = q[n] /\ q[n] # 0 /\ b.nxt[q[n]] = q[n + 1] /\ q[n + 1] # q[i]
          BY <1>2, <4>2, <4>3, <5>1
        <5>3. f[n] = q[n + 1]
          BY <4>1, <5>2
        <5>4. (IF n + 1 < i - 1 THEN n + 1 ELSE i - 1) = n + 1
          BY <1>1, <2>1, <4>2, <4>3
        <5> QED BY <5>3, <5>4
      <4>4. CASE ~(n < i - 1)
        <5>1. i - 1 \in 1..Len(q) /\ i - 1 # Len(q) /\ (i - 1) + 1 = i
          BY <1>1, <2>1
        <5>2. f[n - 1] = q[i - 1] /\ b.nxt[q[i - 1]] = q[i]
          BY <1>2, <4>2, <4>4, <5>1
        <5>3. f[n] = q[i - 1] /\ ~(n + 1 < i - 1)
          BY <1>1, <2>1, <4>1, <4>2, <4>4, <5>2
        <5> QED BY <5>3
      <4> QED BY <4>3, <4>4
    <3> HIDE DEF S
    <3> QED BY <1>1, <3>1, <3>2, Along
  <2>5. slots \in S
    BY <1>1, <2>4
  <2>6. f[slots] = q[i - 1]
    BY <1>1, <2>1, <2>5
  <2> QED BY <1>4, <2>3, <2>6 DEF Prior
<1> QED BY <1>3, <1>4

-----------------------------------------------------------------------------
(* Orders that rest or change. *)

\* What place does to each array, s being the free slot it takes.
Placed(b2, b, lv, s, id) ==
    /\ b2 \in BookSet
    /\ b2.oid = [b.oid EXCEPT ![s] = id]
    /\ b2.lvl = [b.lvl EXCEPT ![s] = lv] /\ b2.nextId = b.nextId
    /\ b2.nxt = [IF b.head[lv] = 0 THEN b.nxt ELSE [b.nxt EXCEPT ![b.tail[lv]] = s]
                    EXCEPT ![s] = 0]
    /\ b2.head = [b.head EXCEPT ![lv] = IF b.head[lv] = 0 THEN s ELSE b.head[lv]]
    /\ b2.tail = [b.tail EXCEPT ![lv] = s]
    /\ b2.count = b.count + 1

\* place changes the arrays so.
LEMMA PlaceFields ==
    ASSUME NEW b \in BookSet, NEW side \in {0, 1}, NEW price \in 0..maxPrice,
           NEW id \in Nat, NEW account \in Nat, NEW qty \in Nat,
           NEW s \in Places, s = freeSlot(b.oid),
           NEW b2, b2 = place(b, side, price, id, account, qty)
    PROVE  Placed(b2, b, level(side, price), s, id)
<1> DEFINE lv == level(side, price)
           linked == IF b.head[lv] = 0 THEN b.nxt ELSE [b.nxt EXCEPT ![b.tail[lv]] = s]
<1>1. s \in Slots /\ lv \in Levels /\ 0 \in Slots
  BY Bounds
<1> HIDE DEF lv
<1>2. b.oid \in [Slots -> Nat] /\ b.acct \in [Slots -> Nat] /\ b.qty \in [Slots -> Nat]
      /\ b.lvl \in [Slots -> Levels] /\ b.nxt \in [Slots -> Slots]
      /\ b.head \in [Levels -> Slots] /\ b.tail \in [Levels -> Slots]
      /\ b.nextId \in Nat /\ b.count \in Nat
  BY DEF BookSet
<1>3. b2 = [oid |-> [b.oid EXCEPT ![s] = id], acct |-> [b.acct EXCEPT ![s] = account],
            qty |-> [b.qty EXCEPT ![s] = qty], lvl |-> [b.lvl EXCEPT ![s] = lv],
            nxt |-> [linked EXCEPT ![s] = 0],
            head |-> [b.head EXCEPT ![lv] = IF b.head[lv] = 0 THEN s ELSE b.head[lv]],
            tail |-> [b.tail EXCEPT ![lv] = s],
            nextId |-> b.nextId, count |-> b.count + 1]
  BY DEF place, BookSet, lv
<1>4. linked \in [Slots -> Slots]
  BY <1>1, <1>2
<1>5. [linked EXCEPT ![s] = 0] \in [Slots -> Slots]
  <2> HIDE DEF linked
  <2> QED BY <1>1, <1>4
<1>6. /\ [b.oid EXCEPT ![s] = id] \in [Slots -> Nat]
      /\ [b.acct EXCEPT ![s] = account] \in [Slots -> Nat]
      /\ [b.qty EXCEPT ![s] = qty] \in [Slots -> Nat]
      /\ [b.lvl EXCEPT ![s] = lv] \in [Slots -> Levels]
      /\ [b.head EXCEPT ![lv] = IF b.head[lv] = 0 THEN s ELSE b.head[lv]] \in [Levels -> Slots]
      /\ [b.tail EXCEPT ![lv] = s] \in [Levels -> Slots]
      /\ b.count + 1 \in Nat
  BY <1>1, <1>2
<1>7. b2 \in BookSet
  <2> HIDE DEF linked
  <2> QED BY <1>2, <1>3, <1>5, <1>6 DEF BookSet
<1> QED BY <1>3, <1>7 DEF Placed, lv

\* place puts the order at the end of the chain of its level.
LEMMA PlaceChain ==
    ASSUME NEW b \in BookSet, NEW lv \in Levels, NEW q \in Seq(Places), Linked(b, lv, q),
           NEW s \in Places, b.oid[s] = 0, NEW id \in Nat, id # 0,
           NEW b2, Placed(b2, b, lv, s, id)
    PROVE  Linked(b2, lv, Append(q, s)) /\ Append(q, s) \in Seq(Places)
<1> DEFINE n == Len(q)
           d == Append(q, s)
<1>1. /\ n \in Nat /\ d \in Seq(Places) /\ Len(d) = n + 1 /\ d[n + 1] = s
      /\ \A k \in 1..n : d[k] = q[k] /\ q[k] \in Places
  OBVIOUS
<1>2. /\ \A k \in 1..n : b.oid[q[k]] # 0 /\ b.lvl[q[k]] = lv
      /\ \A j, k \in 1..n : q[j] = q[k] => j = k
      /\ b.head[lv] = IF n = 0 THEN 0 ELSE q[1]
      /\ b.tail[lv] = IF n = 0 THEN 0 ELSE q[n]
      /\ \A k \in 1..n : b.nxt[q[k]] = IF k = n THEN 0 ELSE q[k + 1]
  BY DEF Linked
<1>3. b.oid \in [Slots -> Nat] /\ b.nxt \in [Slots -> Slots] /\ b.head \in [Levels -> Slots]
      /\ b.tail \in [Levels -> Slots] /\ b.lvl \in [Slots -> Levels]
  BY DEF BookSet
<1> HIDE DEF n, d
<1>4. /\ \A k \in 1..n : q[k] \in Slots /\ q[k] # 0 /\ q[k] # s
      /\ s \in Slots /\ s # 0
  BY <1>1, <1>2, Bounds
<1>5. \A k \in 1..n : /\ b2.oid[q[k]] = b.oid[q[k]]
                      /\ b2.lvl[q[k]] = b.lvl[q[k]]
  BY <1>3, <1>4 DEF Placed
<1>6. b2.oid[s] = id /\ b2.lvl[s] = lv /\ b2.nxt[s] = 0
  <2> DEFINE linked == IF b.head[lv] = 0 THEN b.nxt ELSE [b.nxt EXCEPT ![b.tail[lv]] = s]
  <2>1. linked \in [Slots -> Slots] /\ b2.nxt = [linked EXCEPT ![s] = 0]
    BY <1>3, <1>4 DEF Placed
  <2> HIDE DEF linked
  <2>2. b2.nxt[s] = 0
    BY <1>4, <2>1
  <2> QED BY <1>3, <1>4, <2>2 DEF Placed
<1>7. \A k \in 1..n : b2.nxt[q[k]] = IF k = n THEN s ELSE q[k + 1]
  <2> SUFFICES ASSUME NEW k \in 1..n
               PROVE  b2.nxt[q[k]] = IF k = n THEN s ELSE q[k + 1]
    OBVIOUS
  <2>1. n # 0 /\ n \in 1..n /\ 1 \in 1..n
    BY <1>1
  <2>2. b.head[lv] # 0 /\ b.tail[lv] = q[n]
    BY <1>2, <1>4, <2>1
  <2>3. b2.nxt = [[b.nxt EXCEPT ![q[n]] = s] EXCEPT ![s] = 0]
    BY <2>2 DEF Placed
  <2>4. b2.nxt[q[k]] = IF q[k] = q[n] THEN s ELSE b.nxt[q[k]]
    BY <1>3, <1>4, <2>3
  <2> QED BY <1>2, <2>1, <2>4
<1>8. \A k \in 1..(n + 1) : b2.oid[d[k]] # 0 /\ b2.lvl[d[k]] = lv
  <2>1. \A k \in 1..(n + 1) : k \in 1..n \/ k = n + 1
    BY <1>1
  <2>2. ASSUME NEW k \in 1..n PROVE b2.oid[d[k]] # 0 /\ b2.lvl[d[k]] = lv
    <3>1. d[k] = q[k]
      BY <1>1
    <3>2. b.oid[q[k]] # 0 /\ b.lvl[q[k]] = lv
      BY <1>2
    <3>3. b2.oid[q[k]] = b.oid[q[k]] /\ b2.lvl[q[k]] = b.lvl[q[k]]
      BY <1>5
    <3> QED BY <3>1, <3>2, <3>3
  <2>3. b2.oid[d[n + 1]] # 0 /\ b2.lvl[d[n + 1]] = lv
    BY <1>1, <1>6
  <2> QED BY <2>1, <2>2, <2>3
<1>9. \A j, k \in 1..(n + 1) : d[j] = d[k] => j = k
  <2>1. \A k \in 1..(n + 1) : k \in 1..n \/ k = n + 1
    BY <1>1
  <2> QED BY <1>1, <1>2, <1>4, <2>1
<1>10. b2.head[lv] = d[1]
  <2>1. b2.head[lv] = IF b.head[lv] = 0 THEN s ELSE b.head[lv]
    BY <1>3 DEF Placed
  <2>2. CASE n = 0
    BY <1>1, <1>2, <2>1, <2>2
  <2>3. CASE n # 0
    <3>1. 1 \in 1..n
      BY <1>1, <2>3
    <3> QED BY <1>1, <1>2, <1>4, <2>1, <2>3, <3>1
  <2> QED BY <2>2, <2>3
<1>11. b2.tail[lv] = s
  BY <1>3 DEF Placed
<1>12. \A k \in 1..(n + 1) : b2.nxt[d[k]] = IF k = n + 1 THEN 0 ELSE d[k + 1]
  <2>1. \A k \in 1..n : k # n + 1 /\ (k = n \/ k + 1 \in 1..n) /\ (k = n => k + 1 = n + 1)
    BY <1>1
  <2>2. \A k \in 1..(n + 1) : k \in 1..n \/ k = n + 1
    BY <1>1
  <2> QED BY <1>1, <1>6, <1>7, <2>1, <2>2
<1>13. Linked(b2, lv, d)
  <2>1. n + 1 # 0
    BY <1>1
  <2> QED BY <1>1, <1>8, <1>9, <1>10, <1>11, <1>12, <2>1 DEF Linked
<1> QED BY <1>1, <1>13 DEF d

\* A book that is not full takes an order.
LEMMA PlaceKeeps ==
    ASSUME NEW b, BookOK(b), b.count < capacity,
           NEW side \in {0, 1}, NEW price \in 0..maxPrice,
           NEW id \in Nat, id # 0, NEW account \in Nat, NEW qty \in Nat,
           NEW b2, b2 = place(b, side, price, id, account, qty)
    PROVE  BookOK(b2) /\ b2.nextId = b.nextId
<1> DEFINE lv == level(side, price)
           s == freeSlot(b.oid)
<1>1. PICK c \in Chains : ChainsOK(b, c)
  BY DEF BookOK
<1>2. b \in BookSet /\ b.count = Cardinality(InUse(b)) /\ lv \in Levels
  BY Bounds DEF BookOK
<1>3. s \in Places /\ b.oid[s] = 0
  <2>1. Cardinality(InUse(b)) # slots
    BY <1>2, UseFinite, Bounds DEF capacity
  <2>2. Cardinality(Places) = slots
    BY FS_Interval, Bounds DEF Places
  <2>3. InUse(b) # Places
    BY <2>1, <2>2
  <2>4. PICK free \in Places : b.oid[free] = 0
    BY <2>3 DEF InUse
  <2> QED BY <2>4, FreeSlot
<1> HIDE DEF s
<1>4. Placed(b2, b, lv, s, id)
  BY <1>2, <1>3, PlaceFields DEF s
<1> HIDE DEF lv
<1> DEFINE d == Append(c[lv], s)
<1>5. c[lv] \in Seq(Places) /\ Linked(b, lv, c[lv])
  BY <1>1, <1>2 DEF Chains, ChainsOK
<1>6. Linked(b2, lv, d) /\ d \in Seq(Places)
  BY <1>2, <1>3, <1>4, <1>5, PlaceChain
<1>7. b.oid \in [Slots -> Nat] /\ b.nxt \in [Slots -> Slots] /\ b.head \in [Levels -> Slots]
      /\ b.tail \in [Levels -> Slots] /\ b.lvl \in [Slots -> Levels]
  BY <1>2 DEF BookSet
<1>8. /\ s \in Slots
      /\ \A t \in Slots : t # s => b2.oid[t] = b.oid[t] /\ b2.lvl[t] = b.lvl[t]
      /\ b2.oid[s] = id
  BY <1>3, <1>4, <1>7, Bounds DEF Placed
<1>9. InUse(b2) = InUse(b) \cup {s} /\ s \notin InUse(b)
  BY <1>3, <1>8, Bounds DEF InUse
<1>10. b2.count = Cardinality(InUse(b2))
  <2>1. b2.count = b.count + 1
    BY <1>4 DEF Placed
  <2>2. IsFiniteSet(InUse(b))
    BY UseFinite
  <2>3. Cardinality(InUse(b) \cup {s}) = Cardinality(InUse(b)) + 1
    BY <1>9, <2>2, FS_AddElement
  <2> QED BY <1>2, <1>9, <2>1, <2>3
<1>11. ASSUME NEW l \in Levels, l # lv PROVE Linked(b2, l, c[l])
  <2>1. Linked(b, l, c[l]) /\ c[l] \in Seq(Places)
    BY <1>1 DEF Chains, ChainsOK
  <2>2. b.head[lv] = 0 \/ (b.tail[lv] \in Places /\ b.lvl[b.tail[lv]] = lv)
    <3>1. Len(c[lv]) \in Nat
      BY <1>5
    <3>2. CASE Len(c[lv]) = 0
      BY <1>5, <3>2 DEF Linked
    <3>3. CASE Len(c[lv]) # 0
      <4>1. Len(c[lv]) \in 1..Len(c[lv])
        BY <3>1, <3>3
      <4>2. b.tail[lv] = c[lv][Len(c[lv])]
        BY <1>5, <3>3 DEF Linked
      <4>3. c[lv][Len(c[lv])] \in Places
        BY <1>5, <4>1
      <4> QED BY <1>5, <4>1, <4>2, <4>3 DEF Linked
    <3> QED BY <3>2, <3>3
  <2>3. ASSUME NEW k \in 1..Len(c[l])
        PROVE  /\ c[l][k] \in Slots /\ c[l][k] # s /\ b.oid[c[l][k]] # 0
               /\ b.head[lv] = 0 \/ c[l][k] # b.tail[lv]
    <3>1. c[l][k] \in Places
      BY <2>1
    <3>2. b.lvl[c[l][k]] = l /\ b.oid[c[l][k]] # 0
      BY <2>1 DEF Linked
    <3> QED BY <1>3, <1>11, <2>2, <3>1, <3>2, Bounds
  <2>4. ASSUME NEW k \in 1..Len(c[l])
        PROVE  /\ b2.oid[c[l][k]] # 0
               /\ b2.lvl[c[l][k]] = b.lvl[c[l][k]]
               /\ b2.nxt[c[l][k]] = b.nxt[c[l][k]]
    <3>1. b2.oid[c[l][k]] # 0 /\ b2.lvl[c[l][k]] = b.lvl[c[l][k]]
      BY <1>8, <2>3
    <3> DEFINE linked == IF b.head[lv] = 0 THEN b.nxt ELSE [b.nxt EXCEPT ![b.tail[lv]] = s]
    <3>2. linked \in [Slots -> Slots] /\ linked[c[l][k]] = b.nxt[c[l][k]]
      BY <1>7, <1>8, <2>3
    <3>3. b2.nxt = [linked EXCEPT ![s] = 0]
      BY <1>4 DEF Placed
    <3> HIDE DEF linked
    <3>4. b2.nxt[c[l][k]] = b.nxt[c[l][k]]
      BY <2>3, <3>2, <3>3
    <3> QED BY <3>1, <3>4
  <2>5. b2.head[l] = b.head[l] /\ b2.tail[l] = b.tail[l]
    BY <1>4, <1>7, <1>11 DEF Placed
  <2> QED BY <2>1, <2>4, <2>5, LinkedFrame
<1>12. ASSUME NEW t \in InUse(b2)
       PROVE  On(d, t) \/ (t \in InUse(b) /\ b.lvl[t] = b2.lvl[t] /\ b2.lvl[t] # lv)
  <2>1. /\ Len(c[lv]) \in Nat /\ Len(d) = Len(c[lv]) + 1 /\ d[Len(c[lv]) + 1] = s
        /\ \A k \in 1..Len(c[lv]) : d[k] = c[lv][k]
    BY <1>3, <1>5
  <2> HIDE DEF d
  <2>2. CASE t = s
    <3>1. Len(c[lv]) + 1 \in 1..Len(d)
      BY <2>1
    <3> QED BY <2>1, <2>2, <3>1 DEF On
  <2>3. CASE t # s
    <3>1. t \in InUse(b) /\ b2.lvl[t] = b.lvl[t]
      BY <1>8, <1>9, <2>3, Bounds DEF InUse
    <3>2. CASE b.lvl[t] = lv
      <4>1. PICK k \in 1..Len(c[lv]) : c[lv][k] = t
        BY <1>1, <3>1, <3>2 DEF ChainsOK, On
      <4>2. k \in 1..Len(d) /\ d[k] = t
        BY <2>1, <4>1
      <4> QED BY <4>2 DEF On
    <3> QED BY <3>1, <3>2
  <2> QED BY <2>2, <2>3
<1>13. b2 \in BookSet /\ b2.nextId = b.nextId
  BY <1>4 DEF Placed
<1> HIDE DEF d
<1>14. \E e \in Chains : ChainsOK(b2, e)
  <2>1. b2 \in BookSet
    BY <1>13
  <2>2. lv \in Levels
    BY <1>2
  <2>3. OthersKept(b2, b, c, lv, d)
    BY <1>11, <1>12 DEF OthersKept
  <2> QED BY <1>1, <1>6, <2>1, <2>2, <2>3, Relinked
<1> QED BY <1>10, <1>13, <1>14 DEF BookOK

\* A book whose chains are those of a correct book is correct.
LEMMA SameChains ==
    ASSUME NEW b, BookOK(b), NEW b2 \in BookSet,
           b2.oid = b.oid, b2.lvl = b.lvl, b2.nxt = b.nxt, b2.head = b.head, b2.tail = b.tail,
           b2.count = b.count
    PROVE  BookOK(b2)
<1>1. PICK c \in Chains : ChainsOK(b, c)
  BY DEF BookOK
<1>2. InUse(b2) = InUse(b)
  BY DEF InUse
<1>3. ChainsOK(b2, c)
  BY <1>1, <1>2 DEF ChainsOK, Linked
<1> QED BY <1>2, <1>3 DEF BookOK

Requantified(b, s, x) == [b EXCEPT !.qty[s] = x]

\* So is a book with another quantity, or another next id.
LEMMA QuantityKeeps ==
    ASSUME NEW b, BookOK(b), NEW s, NEW x \in Nat, NEW b2, b2 = Requantified(b, s, x)
    PROVE  BookOK(b2) /\ b2.nextId = b.nextId
<1>1. b \in BookSet
  BY DEF BookOK
<1>2. [b.qty EXCEPT ![s] = x] \in [Slots -> Nat]
  BY <1>1 DEF BookSet
<1>3. b2 = [b EXCEPT !.qty = [b.qty EXCEPT ![s] = x]]
  BY <1>1 DEF BookSet, Requantified
<1>4. b2 \in BookSet
  BY <1>1, <1>2, <1>3 DEF BookSet
<1>5. /\ b2.oid = b.oid /\ b2.lvl = b.lvl /\ b2.nxt = b.nxt /\ b2.head = b.head
      /\ b2.tail = b.tail /\ b2.count = b.count /\ b2.nextId = b.nextId
  BY <1>1, <1>3 DEF BookSet
<1> QED BY <1>4, <1>5, SameChains

LEMMA NextIdKeeps ==
    ASSUME NEW b, BookOK(b), NEW id \in Nat, NEW b2, b2 = [b EXCEPT !.nextId = id]
    PROVE  BookOK(b2) /\ b2.nextId = id
<1>1. b \in BookSet
  BY DEF BookOK
<1>2. b2 \in BookSet
  BY <1>1 DEF BookSet
<1>3. /\ b2.oid = b.oid /\ b2.lvl = b.lvl /\ b2.nxt = b.nxt /\ b2.head = b.head
      /\ b2.tail = b.tail /\ b2.count = b.count /\ b2.nextId = id
  BY <1>1 DEF BookSet
<1> QED BY <1>2, <1>3, SameChains

-----------------------------------------------------------------------------
(* Matching. *)

\* The states of matching, with a correct book; a sell goes down from the edge of
\* the band.
GoodBooks(id) == {b \in BookSet : BookOK(b) /\ b.nextId = id}
Matchings(side, id) ==
    {m \in [book : GoodBooks(id), out : Seq(Seq(Nat)), price : Nat, rem : Nat,
            selfTrade : BOOLEAN] : side = 1 => m.price <= maxPrice}

More(m, side, limit) == m.rem # 0 /\ ~m.selfTrade /\ acceptable(side, limit, m.price)

\* A limit that a side can have.
Limits(side) == IF side = 0 THEN 0..maxPrice ELSE {p \in Nat : p # 0}

\* A round of matching keeps the chains.
LEMMA MatchKeeps ==
    ASSUME NEW side \in {0, 1}, NEW limit \in Limits(side), NEW id, NEW taker \in Nat,
           NEW account, NEW m \in Matchings(side, id), More(m, side, limit)
    PROVE  matchStep(taker, account, side, m) \in Matchings(side, id)
<1> DEFINE b == m.book
           lv == level(1 - side, m.price)
           s == b.head[lv]
           mq == b.qty[s]
           q == IF m.rem <= mq THEN m.rem ELSE mq
<1>1. /\ b \in BookSet /\ BookOK(b) /\ b.nextId = id
      /\ m.out \in Seq(Seq(Nat)) /\ m.price \in Nat /\ m.rem \in Nat
      /\ m.selfTrade \in BOOLEAN /\ (side = 1 => m.price <= maxPrice)
      /\ m = [book |-> m.book, out |-> m.out, price |-> m.price, rem |-> m.rem,
              selfTrade |-> m.selfTrade]
  BY DEF Matchings, GoodBooks
<1>2. maxPrice \in Nat /\ m.price \in 0..maxPrice /\ (side = 1 => m.price # 0)
  BY <1>1, Bounds DEF More, acceptable, Limits
<1>3. lv \in Levels
  BY <1>2, Bounds
<1>4. /\ b.oid \in [Slots -> Nat] /\ b.acct \in [Slots -> Nat] /\ b.qty \in [Slots -> Nat]
      /\ b.head \in [Levels -> Slots]
  BY <1>1 DEF BookSet
<1>5. s \in Slots /\ mq \in Nat
  BY <1>3, <1>4
<1>6. q \in Nat /\ m.rem - q \in Nat /\ mq - q \in Nat
  BY <1>1, <1>5
<1> HIDE DEF lv, mq, q, s
<1>7. CASE s = 0
  <2> DEFINE p == IF side = 0 THEN m.price + 1 ELSE m.price - 1
  <2>1. p \in Nat /\ (side = 1 => p <= maxPrice)
    BY <1>1, <1>2
  <2>2. matchStep(taker, account, side, m)
          = [book |-> m.book, out |-> m.out, price |-> p, rem |-> m.rem,
             selfTrade |-> m.selfTrade]
    BY <1>1, <1>7 DEF matchStep, s, lv
  <2> HIDE DEF p
  <2> QED BY <1>1, <2>1, <2>2 DEF Matchings, GoodBooks
<1>8. CASE s # 0 /\ b.acct[s] = account
  <2>1. matchStep(taker, account, side, m)
          = [book |-> m.book, out |-> m.out, price |-> m.price, rem |-> m.rem,
             selfTrade |-> TRUE]
    BY <1>1, <1>8 DEF matchStep, s, lv
  <2> QED BY <1>1, <2>1 DEF Matchings, GoodBooks
<1>9. CASE s # 0 /\ b.acct[s] # account
  <2> DEFINE nb == IF q = mq THEN unlink(b, lv, 0, s) ELSE [b EXCEPT !.qty[s] = mq - q]
             event == <<3, b.oid[s], taker, m.price, q, b.acct[s], mq - q>>
  <2>1. matchStep(taker, account, side, m)
          = [book |-> nb, out |-> Append(m.out, event), price |-> m.price, rem |-> m.rem - q,
             selfTrade |-> m.selfTrade]
    BY <1>1, <1>9 DEF matchStep, s, lv, q, mq
  <2>2. event \in Seq(Nat)
    BY <1>1, <1>4, <1>5, <1>6
  <2>3. Append(m.out, event) \in Seq(Seq(Nat))
    <3> HIDE DEF event
    <3> QED BY <1>1, <2>2
  <2>4. BookOK(nb) /\ nb.nextId = id
    <3>1. CASE q = mq
      <4>1. PICK c \in Chains : ChainsOK(b, c)
        BY <1>1 DEF BookOK
      <4>2. c[lv] \in Seq(Places) /\ Linked(b, lv, c[lv])
        BY <1>3, <4>1 DEF Chains, ChainsOK
      <4>3. 1 \in 1..Len(c[lv]) /\ c[lv][1] = s
        <5>1. Len(c[lv]) \in Nat /\ b.head[lv] = IF Len(c[lv]) = 0 THEN 0 ELSE c[lv][1]
          BY <4>2 DEF Linked
        <5> QED BY <1>9, <5>1 DEF s
      <4>4. Prior(c[lv], 1) = 0 /\ b.count = Cardinality(InUse(b))
        BY <1>1 DEF Prior, BookOK
      <4>5. nb = unlink(b, lv, Prior(c[lv], 1), c[lv][1])
        BY <3>1, <4>3, <4>4
      <4> HIDE DEF nb, b
      <4> QED BY <1>1, <1>3, <4>1, <4>3, <4>4, <4>5, UnlinkKeeps
    <3>2. CASE q # mq
      <4>1. nb = Requantified(b, s, mq - q)
        BY <3>2 DEF Requantified
      <4> HIDE DEF nb, b
      <4> QED BY <1>1, <1>6, <4>1, QuantityKeeps
    <3> QED BY <3>1, <3>2
  <2>5. nb \in BookSet
    BY <2>4 DEF BookOK
  <2> HIDE DEF nb, event
  <2> QED BY <1>1, <1>6, <2>1, <2>3, <2>4, <2>5 DEF Matchings, GoodBooks
<1> QED BY <1>7, <1>8, <1>9

\* Matching keeps the chains, whenever its fuel is spent.
LEMMA FillKeeps ==
    ASSUME NEW side \in {0, 1}, NEW limit \in Limits(side), NEW id, NEW taker \in Nat,
           NEW account, NEW b \in GoodBooks(id), NEW events \in Seq(Seq(Nat)), NEW q \in Nat
    PROVE  fill(b, events, taker, account, side, limit, q) \in Matchings(side, id)
<1> DEFINE S == Matchings(side, id)
           x == [book |-> b, out |-> events, price |-> IF side = 0 THEN 1 ELSE maxPrice,
                 rem |-> q, selfTrade |-> FALSE]
           G == [m \in S |-> IF More(m, side, limit) THEN matchStep(taker, account, side, m)
                             ELSE m]
           Loop(f) == f = [n \in 0..matchFuel |->
                             IF n = 0 THEN x
                             ELSE IF More(f[n - 1], side, limit)
                             THEN matchStep(taker, account, side, f[n - 1]) ELSE f[n - 1]]
<1>1. matchFuel \in Nat
  BY Bounds DEF matchFuel
<1>2. x \in S
  BY Bounds DEF Matchings
<1>3. \A m \in S : More(m, side, limit) => matchStep(taker, account, side, m) \in S
  BY MatchKeeps
<1>4. G \in [S -> S]
  <2> HIDE DEF S
  <2> QED BY <1>3
<1>5. \A m \in S : G[m] = IF More(m, side, limit) THEN matchStep(taker, account, side, m) ELSE m
  OBVIOUS
<1> HIDE DEF G, S, x
<1>6. \E f : Loop(f)
  <2>1. PICK f \in [0..matchFuel -> S] : IsLoop(f, matchFuel, x, G)
    BY <1>1, <1>2, <1>4, LoopExists
  <2>2. \A n \in 0..matchFuel : n = 0 \/ (n - 1 \in 0..matchFuel /\ f[n - 1] \in S)
    BY <1>1, <2>1
  <2>3. \A n \in 0..matchFuel : f[n] = IF n = 0 THEN x ELSE G[f[n - 1]]
    BY <2>1 DEF IsLoop
  <2>4. \A n \in 0..matchFuel :
           f[n] = IF n = 0 THEN x
                  ELSE IF More(f[n - 1], side, limit)
                  THEN matchStep(taker, account, side, f[n - 1]) ELSE f[n - 1]
    BY <1>5, <2>2, <2>3
  <2>5. Loop(f)
    BY <2>1, <2>4
  <2> QED BY <2>5
<1>7. PICK f : Loop(f) /\ fill(b, events, taker, account, side, limit, q) = f[matchFuel]
  BY <1>6 DEF fill, repeatWhile, More, x
<1> DEFINE T == {n \in 0..matchFuel : f[n] \in S}
<1>8. 0..matchFuel \subseteq T
  <2>1. 0 \in T
    BY <1>1, <1>2, <1>7
  <2>2. ASSUME NEW n \in 1..matchFuel, n - 1 \in T PROVE n \in T
    <3>1. n \in 0..matchFuel /\ n # 0 /\ f[n - 1] \in S
      BY <1>1, <2>2
    <3>2. f[n] = IF More(f[n - 1], side, limit)
                 THEN matchStep(taker, account, side, f[n - 1]) ELSE f[n - 1]
      BY <1>7, <3>1
    <3> QED BY <1>3, <3>1, <3>2
  <2> HIDE DEF T
  <2> QED BY <1>1, <2>1, <2>2, Along
<1> QED BY <1>1, <1>7, <1>8 DEF S

-----------------------------------------------------------------------------
(* Commands. *)

\* The book is correct at first.
LEMMA BookStarts == Init => BookInv
<1> SUFFICES ASSUME Init PROVE BookInv
  OBVIOUS
<1>1. book = init /\ slots \in Nat /\ 0 \in Slots /\ 0 \in Levels
  BY Bounds, BookAssumption DEF Init, Levels
<1>2. book \in BookSet /\ book.nextId # 0
  BY <1>1 DEF init, BookSet
<1> DEFINE c == [l \in Levels |-> <<>>]
<1>3. c \in Chains
  BY DEF Chains
<1>4. InUse(book) = {}
  BY <1>1, Bounds DEF InUse, init
<1>5. \A l \in Levels : Linked(book, l, <<>>)
  BY <1>1 DEF Linked, init
<1>6. ChainsOK(book, c)
  BY <1>4, <1>5 DEF ChainsOK
<1>7. book.count = Cardinality(InUse(book))
  BY <1>1, <1>4, FS_EmptySet DEF init
<1> QED BY <1>2, <1>3, <1>6, <1>7 DEF BookInv, BookOK

\* An accepted order keeps the chains.
LEMMA SubmitKeeps ==
    ASSUME BookInv, NEW side \in {0, 1}, NEW limit \in Limits(side), NEW q \in Nat,
           NEW account \in Nat, NEW tag \in Nat, NEW tif,
           tif # 1 => limit \in 0..maxPrice,
           submit(side, limit, q, account, tag, tif)
    PROVE  BookOK(book') /\ (book').nextId # 0
<1> DEFINE id == book.nextId
           b0 == [book EXCEPT !.nextId = id + 1]
           events == <<<<1, id, tag, 0, 0, 0, 0>>>>
           m == fill(b0, events, id, account, side, limit, q)
<1>1. BookOK(book) /\ book \in BookSet /\ id \in Nat /\ id # 0
  BY DEF BookInv, BookOK, BookSet
<1>2. b0 \in GoodBooks(id + 1)
  <2>1. BookOK(b0) /\ b0.nextId = id + 1
    BY <1>1, NextIdKeeps
  <2> QED BY <2>1 DEF GoodBooks, BookOK
<1>3. events \in Seq(Seq(Nat))
  <2>1. <<1, id, tag, 0, 0, 0, 0>> \in Seq(Nat)
    BY <1>1
  <2> QED BY <2>1
<1> HIDE DEF b0, events
<1>4. m \in Matchings(side, id + 1)
  <2> HIDE DEF id
  <2> QED BY <1>1, <1>2, <1>3, FillKeeps
<1>5. \/ book' = m.book
      \/ /\ m.book.count < capacity /\ tif # 1
         /\ book' = place(m.book, side, limit, id, account, m.rem)
  BY DEF submit, Becomes, id, b0, events
<1> HIDE DEF m
<1>6. BookOK(m.book) /\ m.book.nextId = id + 1 /\ m.rem \in Nat
  BY <1>4 DEF Matchings, GoodBooks
<1>7. CASE book' = m.book
  BY <1>1, <1>6, <1>7
<1>8. CASE /\ m.book.count < capacity /\ tif # 1
           /\ book' = place(m.book, side, limit, id, account, m.rem)
  <2>1. PICK mb : mb = m.book
    OBVIOUS
  <2>2. PICK rem : rem = m.rem
    OBVIOUS
  <2>3. PICK nb : nb = place(mb, side, limit, id, account, rem)
    OBVIOUS
  <2>4. BookOK(mb) /\ mb.count < capacity /\ rem \in Nat /\ limit \in 0..maxPrice
    BY <1>6, <1>8, <2>1, <2>2
  <2>5. BookOK(nb) /\ nb.nextId = mb.nextId
    <3> HIDE DEF id
    <3> QED BY <1>1, <2>3, <2>4, PlaceKeeps
  <2>6. book' = nb
    BY <1>8, <2>1, <2>2, <2>3
  <2> QED BY <1>1, <1>6, <2>1, <2>5, <2>6
<1> QED BY <1>5, <1>7, <1>8

\* A cancelled order leaves its chain.
LEMMA CancelKeeps ==
    ASSUME BookInv, NEW id, NEW s \in Places, book.oid[s] # 0, cancel(id, s)
    PROVE  BookOK(book') /\ (book').nextId # 0
<1>1. book \in BookSet /\ book.nextId # 0 /\ book.count = Cardinality(InUse(book))
  BY DEF BookInv, BookOK
<1>2. PICK c \in Chains : ChainsOK(book, c)
  BY DEF BookInv, BookOK
<1>3. PICK lv : lv = book.lvl[s]
  OBVIOUS
<1>4. lv \in Levels /\ s \in InUse(book)
  BY <1>1, <1>3, Bounds DEF BookSet, InUse
<1>5. PICK i \in 1..Len(c[lv]) : c[lv][i] = s
  BY <1>2, <1>3, <1>4 DEF ChainsOK, On
<1>6. c[lv] \in Seq(Places) /\ Linked(book, lv, c[lv])
  BY <1>2, <1>4 DEF Chains, ChainsOK
<1>7. predecessor(book, lv, s) = Prior(c[lv], i)
  <2>1. PICK q : q = c[lv]
    OBVIOUS
  <2>2. predecessor(book, lv, q[i]) = Prior(q, i)
    BY <1>1, <1>4, <1>5, <1>6, <2>1, PredecessorIs
  <2> QED BY <1>5, <2>1, <2>2
<1>8. book' = unlink(book, lv, Prior(c[lv], i), c[lv][i])
  BY <1>3, <1>5, <1>7 DEF cancel, Becomes
<1>9. BookOK(book') /\ (book').nextId = book.nextId
  <2>1. PICK nb : nb = unlink(book, lv, Prior(c[lv], i), c[lv][i])
    OBVIOUS
  <2>2. BookOK(nb) /\ nb.nextId = book.nextId
    BY <1>1, <1>2, <1>4, <1>5, <2>1, UnlinkKeeps
  <2> QED BY <1>8, <2>1, <2>2
<1> QED BY <1>1, <1>9

\* Every command keeps the chains.
LEMMA StepKeeps ==
    ASSUME BookInv, NEW r \in Commands, step(r)
    PROVE  BookOK(book') /\ (book').nextId # 0
<1>1. r \in Seq(Nat) /\ BookOK(book) /\ book.nextId # 0 /\ book \in BookSet
  BY BookAssumption DEF BookInv, BookOK
<1>2. CASE book' = book
  BY <1>1, <1>2
<1>3. CASE Len(r) < 7
  BY <1>2, <1>3 DEF step, reject, Becomes
<1>4. CASE ~(Len(r) < 7)
  <2>1. \A i \in 1..7 : r[i] \in Nat
    BY <1>1, <1>4
  <2>2. CASE LimitCommand(r)
    <3>1. \/ book' = book
          \/ /\ ~(r[2] > 1) /\ inRange(1, maxPrice, r[3])
             /\ submit(r[2], r[3], r[4], r[5], r[6], r[7])
      BY <2>2 DEF LimitCommand, reject, Becomes
    <3>2. CASE /\ ~(r[2] > 1) /\ inRange(1, maxPrice, r[3])
               /\ submit(r[2], r[3], r[4], r[5], r[6], r[7])
      <4>1. r[2] \in {0, 1} /\ r[3] \in Limits(r[2]) /\ r[3] \in 0..maxPrice
        <5>1. r[2] \in Nat /\ r[3] \in Nat /\ maxPrice \in Nat
          BY <2>1, Bounds
        <5>2. r[2] \in {0, 1}
          BY <3>2, <5>1
        <5>3. r[3] \in 1..maxPrice
          BY <3>2, <5>1 DEF inRange
        <5> QED BY <5>1, <5>2, <5>3 DEF Limits
      <4>2. r[4] \in Nat /\ r[5] \in Nat /\ r[6] \in Nat
        BY <2>1
      <4> QED BY <3>2, <4>1, <4>2, SubmitKeeps
    <3> QED BY <1>2, <3>1, <3>2
  <2>3. CASE MarketCommand(r)
    <3> DEFINE limit == IF r[2] = 0 THEN maxPrice ELSE 1
    <3>1. \/ book' = book
          \/ ~(r[2] > 1) /\ submit(r[2], limit, r[3], r[4], r[5], 1)
      BY <2>3 DEF MarketCommand, reject, Becomes
    <3>2. CASE ~(r[2] > 1) /\ submit(r[2], limit, r[3], r[4], r[5], 1)
      <4>1. r[2] \in {0, 1} /\ limit \in Limits(r[2])
        BY <2>1, <3>2, Bounds DEF Limits
      <4>2. r[3] \in Nat /\ r[4] \in Nat /\ r[5] \in Nat
        BY <2>1
      <4> HIDE DEF limit
      <4> QED BY <3>2, <4>1, <4>2, SubmitKeeps
    <3> QED BY <1>2, <3>1, <3>2
  <2>4. CASE CancelCommand(r)
    <3> DEFINE s == findSlot(book.oid, r[2])
    <3>1. book' = book \/ (s # 0 /\ cancel(r[2], s))
      BY <2>4 DEF CancelCommand, reject, Becomes
    <3>2. CASE s # 0 /\ cancel(r[2], s)
      <4>1. s \in Places /\ book.oid[s] # 0
        BY <3>2, FindSlot
      <4> HIDE DEF s
      <4> QED BY <3>2, <4>1, CancelKeeps
    <3> QED BY <1>2, <3>1, <3>2
  <2>5. CASE ReduceCommand(r)
    <3> DEFINE s == findSlot(book.oid, r[2])
    <3>1. book' = book \/ reduce(r[2], s, r[4])
      BY <2>5 DEF ReduceCommand, reject, Becomes
    <3>2. CASE reduce(r[2], s, r[4])
      <4>1. PICK b : b = book
        OBVIOUS
      <4>2. PICK nb : nb = Requantified(b, s, r[4])
        OBVIOUS
      <4>3. book' = nb
        BY <3>2, <4>1, <4>2 DEF reduce, Becomes, Requantified
      <4>4. BookOK(nb) /\ nb.nextId = b.nextId
        <5>1. BookOK(b)
          BY <1>1, <4>1
        <5>2. r[4] \in Nat
          BY <2>1
        <5> HIDE DEF s
        <5> QED BY <4>2, <5>1, <5>2, QuantityKeeps
      <4> QED BY <1>1, <4>1, <4>3, <4>4
    <3> QED BY <1>2, <3>1, <3>2
  <2>6. \/ LimitCommand(r) \/ MarketCommand(r) \/ CancelCommand(r) \/ ReduceCommand(r)
        \/ book' = book
    BY <1>4 DEF step, reject, Becomes
  <2> QED BY <1>2, <2>2, <2>3, <2>4, <2>5, <2>6
<1> QED BY <1>3, <1>4

\* Every step keeps the chains.
LEMMA BookKeeps == BookInv /\ [Next]_vars => BookInv'
<1> SUFFICES ASSUME BookInv, [Next]_vars PROVE BookInv'
  OBVIOUS
<1>1. BookOK(book) /\ book.nextId # 0
  BY DEF BookInv
<1>2. CASE book' = book
  BY <1>1, <1>2 DEF BookInv
<1>3. ASSUME NEW r \in Commands, step(r) PROVE BookInv'
  <2>1. BookOK(book') /\ (book').nextId # 0
    BY <1>3, StepKeeps
  <2> QED BY <2>1 DEF BookInv
<1> QED BY <1>2, <1>3 DEF Next, vars, top

-----------------------------------------------------------------------------
(* The chains as the program's readers see them. *)

\* Reading a chain for more slots than there are gives the chain.
LEMMA LevelSlots ==
    ASSUME NEW b \in BookSet, NEW l \in Levels, NEW q \in Seq(Places), Linked(b, l, q)
    PROVE  levelSlots(b, l) = q
<1> DEFINE n == Len(q)
           G == [g \in [Slots -> Seq(Slots)] |->
                   [t \in Slots |-> IF t = 0 THEN <<>> ELSE <<t>> \o g[b.nxt[t]]]]
           x == [t \in Slots |-> <<>>]
           Loop(f) == f = [k \in 0..(slots + 1) |->
                             [t \in Slots |-> IF k = 0 \/ t = 0 THEN <<>>
                                              ELSE <<t>> \o f[k - 1][b.nxt[t]]]]
           Rest(i) == SubSeq(q, i, n)
<1>1. n \in Nat /\ n <= slots /\ slots \in Nat
  BY ShortChain, Bounds
<1>2. b.nxt \in [Slots -> Slots] /\ Places \subseteq Slots /\ 0 \in Slots
  <2>1. b.nxt \in [Slots -> Slots]
    BY DEF BookSet
  <2>2. Places \subseteq Slots /\ 0 \in Slots
    BY <1>1 DEF Places, Slots
  <2> QED BY <2>1, <2>2
<1>3. \E f : Loop(f)
  <2>1. x \in [Slots -> Seq(Slots)]
    OBVIOUS
  <2>2. ASSUME NEW g \in [Slots -> Seq(Slots)], NEW t \in Slots
        PROVE  <<t>> \o g[b.nxt[t]] \in Seq(Slots)
    <3>1. g[b.nxt[t]] \in Seq(Slots) /\ <<t>> \in Seq(Slots)
      BY <1>2
    <3> QED BY <3>1
  <2>3. G \in [[Slots -> Seq(Slots)] -> [Slots -> Seq(Slots)]]
    BY <2>2
  <2>4. \A g \in [Slots -> Seq(Slots)] :
           G[g] = [t \in Slots |-> IF t = 0 THEN <<>> ELSE <<t>> \o g[b.nxt[t]]]
    OBVIOUS
  <2>5. PICK f \in [0..(slots + 1) -> [Slots -> Seq(Slots)]] : IsLoop(f, slots + 1, x, G)
    <3> DEFINE A == [Slots -> Seq(Slots)]
    <3>1. slots + 1 \in Nat /\ x \in A /\ G \in [A -> A]
      BY <1>1, <2>1, <2>3
    <3> HIDE DEF G, x, A
    <3>2. \E f \in [0..(slots + 1) -> A] : IsLoop(f, slots + 1, x, G)
      BY <3>1, LoopExists, Zenon
    <3> QED BY <3>2 DEF A
  <2>6. \A k \in 0..(slots + 1) : f[k] = IF k = 0 THEN x ELSE G[f[k - 1]]
    <3> HIDE DEF G, x
    <3> QED BY <2>5 DEF IsLoop
  <2>7. \A k \in 0..(slots + 1) : k = 0 \/ f[k - 1] \in [Slots -> Seq(Slots)]
    BY <1>1, <2>5
  <2>8. \A k \in 0..(slots + 1) :
           f[k] = [t \in Slots |-> IF k = 0 \/ t = 0 THEN <<>>
                                   ELSE <<t>> \o f[k - 1][b.nxt[t]]]
    <3> SUFFICES ASSUME NEW k \in 0..(slots + 1)
                 PROVE  f[k] = [t \in Slots |-> IF k = 0 \/ t = 0 THEN <<>>
                                                ELSE <<t>> \o f[k - 1][b.nxt[t]]]
      OBVIOUS
    <3>1. CASE k = 0
      <4>1. f[k] = x
        BY <2>6, <3>1
      <4> QED BY <3>1, <4>1
    <3>2. CASE k # 0
      <4>1. f[k] = [t \in Slots |-> IF t = 0 THEN <<>> ELSE <<t>> \o f[k - 1][b.nxt[t]]]
        <5> HIDE DEF G, x
        <5> QED BY <2>4, <2>6, <2>7, <3>2
      <4> QED BY <3>2, <4>1
    <3> QED BY <3>1, <3>2
  <2>9. Loop(f)
    BY <2>5, <2>8
  <2> QED BY <2>9
<1>4. PICK f : Loop(f) /\ levelSlots(b, l) = f[slots + 1][b.head[l]]
  BY <1>3 DEF levelSlots, slotsFrom
<1>5. /\ \A k \in 1..n : b.nxt[q[k]] = IF k = n THEN 0 ELSE q[k + 1]
      /\ b.head[l] = IF n = 0 THEN 0 ELSE q[1]
      /\ \A k \in 1..n : q[k] \in Slots /\ q[k] # 0
  <2>1. \A k \in 1..n : q[k] \in Places
    OBVIOUS
  <2> QED BY <2>1, Bounds DEF Linked
<1> HIDE DEF n
<1>6. \A k \in 0..(slots + 1) : f[k][0] = <<>>
  BY <1>2, <1>4
\* T: after k rounds the last k - 1 slots of the chain are read.
<1> DEFINE T == {k \in 0..(slots + 1) :
                   \A i \in 1..n : n - i < k => f[k][q[i]] = Rest(i)}
<1>7. 0..(slots + 1) \subseteq T
  <2>1. 0 \in T
    BY <1>1
  <2>2. ASSUME NEW k \in 1..(slots + 1), k - 1 \in T PROVE k \in T
    <3>1. k \in 0..(slots + 1) /\ k # 0 /\ k - 1 \in 0..(slots + 1)
      BY <1>1
    <3>2. ASSUME NEW i \in 1..n, n - i < k PROVE f[k][q[i]] = Rest(i)
      <4>1. f[k][q[i]] = <<q[i]>> \o f[k - 1][b.nxt[q[i]]]
        <5>1. f[k] = [t \in Slots |-> IF k = 0 \/ t = 0 THEN <<>>
                                      ELSE <<t>> \o f[k - 1][b.nxt[t]]]
          <6>1. f = [j \in 0..(slots + 1) |->
                       [t \in Slots |-> IF j = 0 \/ t = 0 THEN <<>>
                                        ELSE <<t>> \o f[j - 1][b.nxt[t]]]]
            BY <1>4
          <6> QED BY <3>1, <6>1
        <5>2. q[i] \in Slots /\ q[i] # 0
          BY <1>5
        <5> QED BY <3>1, <5>1, <5>2
      <4>2. CASE i = n
        <5>1. b.nxt[q[i]] = 0 /\ f[k - 1][0] = <<>>
          BY <1>5, <1>6, <3>1, <4>2
        <5>2. <<q[i]>> \o <<>> = <<q[i]>>
          OBVIOUS
        <5>3. Rest(i) = <<q[i]>>
          <6>1. n \in 1..Len(q) /\ Rest(i) = SubSeq(q, n, n)
            BY <1>1, <4>2 DEF n
          <6>2. SubSeq(q, n, n) = <<q[n]>> \o SubSeq(q, n + 1, n)
            BY <1>1, <6>1, SubSeqRecursiveFirst
          <6>3. SubSeq(q, n + 1, n) = <<>>
            BY <1>1, SubSeqEmpty
          <6>4. <<q[n]>> \o <<>> = <<q[n]>>
            OBVIOUS
          <6> QED BY <4>2, <6>1, <6>2, <6>3, <6>4
        <5> QED BY <4>1, <5>1, <5>2, <5>3
      <4>3. CASE i # n
        <5>1. i + 1 \in 1..n /\ n - (i + 1) < k - 1
          BY <1>1, <3>1, <3>2, <4>3
        <5>2. f[k - 1][q[i + 1]] = Rest(i + 1) /\ b.nxt[q[i]] = q[i + 1]
          BY <1>5, <2>2, <4>3, <5>1
        <5>3. f[k][q[i]] = <<q[i]>> \o Rest(i + 1)
          BY <4>1, <5>2
        <5>4. <<q[i]>> \o Rest(i + 1) = Rest(i)
          BY <1>1, <5>1 DEF n
        <5> QED BY <5>3, <5>4
      <4> QED BY <4>2, <4>3
    <3> QED BY <3>1, <3>2
  <2>3. slots + 1 \in Nat
    BY <1>1
  <2> HIDE DEF T
  <2> QED BY <2>1, <2>2, <2>3, Along
<1>8. slots + 1 \in T
  BY <1>1, <1>7
<1>9. CASE n = 0
  <2>1. levelSlots(b, l) = <<>>
    <3>1. slots + 1 \in 0..(slots + 1) /\ b.head[l] = 0
      BY <1>1, <1>5, <1>9
    <3> QED BY <1>4, <1>6, <3>1
  <2> QED BY <1>9, <2>1 DEF n
<1>10. CASE n # 0
  <2>1. 1 \in 1..n /\ n - 1 < slots + 1 /\ b.head[l] = q[1]
    BY <1>1, <1>5, <1>10
  <2>2. levelSlots(b, l) = Rest(1)
    BY <1>4, <1>8, <2>1
  <2>3. Rest(1) = q
    BY <1>1 DEF n
  <2> QED BY <2>2, <2>3
<1> QED BY <1>9, <1>10

\* The chains of a correct book hold its slots.
LEMMA BookHolds == BookInv => ChainsHoldSlots
<1> SUFFICES ASSUME BookInv PROVE ChainsHoldSlots
  OBVIOUS
<1>1. book \in BookSet /\ book.count = Cardinality(InUse(book))
  BY DEF BookInv, BookOK
<1>2. PICK c \in Chains : ChainsOK(book, c)
  BY DEF BookInv, BookOK
<1> DEFINE chain == [l \in Levels |-> levelSlots(book, l)]
           used == {s \in 1..slots : book.oid[s] # 0}
           on == [l \in Levels |-> ToSet(chain[l])]
<1>3. \A l \in Levels : c[l] \in Seq(Places) /\ Linked(book, l, c[l])
  BY <1>2 DEF Chains, ChainsOK
<1>4. \A l \in Levels : chain[l] = c[l]
  BY <1>1, <1>3, LevelSlots
<1>5. used = InUse(book)
  BY DEF InUse, Places
<1>6. \A l \in Levels : on[l] = {c[l][k] : k \in 1..Len(c[l])}
  <2> SUFFICES ASSUME NEW l \in Levels PROVE on[l] = {c[l][k] : k \in 1..Len(c[l])}
    OBVIOUS
  <2>1. on[l] = ToSet(c[l])
    BY <1>4
  <2>2. DOMAIN c[l] = 1..Len(c[l])
    BY <1>3
  <2> QED BY <2>1, <2>2 DEF ToSet
<1> HIDE DEF chain, used, on
<1>7. ASSUME NEW l \in Levels
      PROVE  /\ IsInjective(chain[l])
             /\ \A s \in on[l] : book.lvl[s] = l
             /\ book.tail[l] = (IF chain[l] = <<>> THEN 0 ELSE Last(chain[l]))
  <2>1. c[l] \in Seq(Places) /\ Linked(book, l, c[l])
    BY <1>3
  <2>2. IsInjective(c[l])
    <3>1. DOMAIN c[l] = 1..Len(c[l])
      BY <2>1
    <3>2. \A i, j \in 1..Len(c[l]) : c[l][i] = c[l][j] => i = j
      BY <2>1 DEF Linked
    <3> QED BY <3>1, <3>2 DEF IsInjective
  <2>3. \A s \in on[l] : book.lvl[s] = l
    BY <1>6, <2>1 DEF Linked
  <2>4. book.tail[l] = (IF c[l] = <<>> THEN 0 ELSE Last(c[l]))
    BY <2>1 DEF Linked, Last
  <2> QED BY <1>4, <2>2, <2>3, <2>4
<1>8. used = UNION {on[l] : l \in Levels}
  <2>1. ASSUME NEW s \in used PROVE s \in UNION {on[l] : l \in Levels}
    <3>1. book.lvl[s] \in Levels
      BY <1>1, <1>5, Bounds DEF InUse, BookSet
    <3>2. PICK l \in Levels : l = book.lvl[s]
      BY <3>1
    <3>3. s \in on[l]
      BY <1>2, <1>5, <1>6, <3>2 DEF ChainsOK, On
    <3> QED BY <3>3
  <2>2. ASSUME NEW l \in Levels, NEW s \in on[l] PROVE s \in used
    <3>1. PICK k \in 1..Len(c[l]) : s = c[l][k]
      BY <1>6
    <3>2. c[l][k] \in Places /\ book.oid[c[l][k]] # 0
      BY <1>3 DEF Linked
    <3> QED BY <1>5, <3>1, <3>2 DEF InUse
  <2> QED BY <2>1, <2>2
<1> QED BY <1>1, <1>5, <1>7, <1>8 DEF ChainsHoldSlots, chain, used, on

\* What Invariant.lean requires of the arrays holds in every run of the order
\* book, whatever the numbers of slots, prices and orders and whatever commands
\* come: each chain is a list of distinct slots of its level that ends at the
\* level's tail, and the slots in use are those of the chains.
THEOREM ChainSafety == Spec => []ChainsHoldSlots
<1>1. Init => BookInv
  BY BookStarts
<1>2. BookInv /\ [Next]_vars => BookInv'
  BY BookKeeps
<1>3. BookInv => ChainsHoldSlots
  BY BookHolds
<1> QED BY <1>1, <1>2, <1>3, PTL DEF Spec


-----------------------------------------------------------------------------
(* Lists in priority order. *)

OrderSet == [id : Nat, account : Nat, side : {0, 1}, price : Nat, qty : Nat]

\* x comes before y on a side: its price is better, or it was accepted earlier.
Before(side, x, y) ==
    \/ IF side = 0 THEN y.price < x.price ELSE x.price < y.price
    \/ x.price = y.price /\ x.id < y.id

\* os lists the orders S of a side in priority order.
ListOf(os, side, S) ==
    /\ os \in Seq(OrderSet)
    /\ \A i, j \in 1..Len(os) : i < j => Before(side, os[i], os[j])
    /\ \A i \in 1..Len(os) : os[i] \in S
    /\ \A o \in S : \E i \in 1..Len(os) : os[i] = o

\* Priority is a strict order.
LEMMA BeforeOrder ==
    ASSUME NEW side, NEW x \in OrderSet, NEW y \in OrderSet, NEW z \in OrderSet
    PROVE  /\ ~Before(side, x, x)
           /\ Before(side, x, y) => ~Before(side, y, x)
           /\ Before(side, x, y) /\ Before(side, y, z) => Before(side, x, z)
BY DEF OrderSet, Before

\* A list in priority order begins another one which has orders that come later,
\* or the same orders.
LEMMA ListAgrees ==
    ASSUME NEW side, NEW S, NEW T, NEW os, NEW ps, ListOf(os, side, S), ListOf(ps, side, T),
           S \subseteq T, \A x \in S, y \in T \ S : Before(side, x, y)
    PROVE  \A k \in 1..Len(os) : k \in 1..Len(ps) /\ os[k] = ps[k]
<1>1. /\ Len(os) \in Nat /\ Len(ps) \in Nat
      /\ \A k \in 1..Len(os) : os[k] \in OrderSet
      /\ \A k \in 1..Len(ps) : ps[k] \in OrderSet
  BY DEF ListOf
<1>2. /\ \A i, j \in 1..Len(os) : i < j => Before(side, os[i], os[j])
      /\ \A i, j \in 1..Len(ps) : i < j => Before(side, ps[i], ps[j])
      /\ \A i \in 1..Len(os) : \E j \in 1..Len(ps) : ps[j] = os[i]
      /\ \A i \in 1..Len(ps) : ps[i] \in S => \E j \in 1..Len(os) : os[j] = ps[i]
      /\ \A i \in 1..Len(os) : os[i] \in S
      /\ \A i \in 1..Len(ps) : ps[i] \in T
  BY DEF ListOf
<1> DEFINE U == {n \in 0..Len(os) : \A k \in 1..n : k \in 1..Len(ps) /\ os[k] = ps[k]}
<1>3. 0 \in U
  BY <1>1
<1>4. ASSUME NEW n \in 1..Len(os), n - 1 \in U PROVE n \in U
  <2>1. \A k \in 1..(n - 1) : k \in 1..Len(ps) /\ os[k] = ps[k]
    BY <1>4
  <2>2. PICK j \in 1..Len(ps) : ps[j] = os[n]
    BY <1>2
  <2>3. ~(j < n)
    <3>1. SUFFICES ASSUME j < n PROVE FALSE
      OBVIOUS
    <3>2. j \in 1..(n - 1) /\ j \in 1..Len(os)
      BY <1>1, <3>1
    <3>3. os[j] = os[n] /\ Before(side, os[j], os[n])
      BY <1>2, <2>1, <2>2, <3>1, <3>2
    <3> QED BY <1>1, <3>3, BeforeOrder
  <2>4. n \in 1..Len(ps)
    BY <1>1, <2>3
  <2>9. ps[n] \in S
    <3>1. SUFFICES ASSUME ps[n] \notin S PROVE FALSE
      OBVIOUS
    <3>2. os[n] \in S /\ ps[n] \in T
      BY <1>2, <2>4
    <3>3. Before(side, os[n], ps[n]) /\ j # n
      BY <2>2, <3>1, <3>2
    <3>4. Before(side, ps[n], ps[j])
      BY <1>1, <1>2, <2>2, <2>3, <2>4, <3>3
    <3> QED BY <1>1, <2>2, <2>4, <3>3, <3>4, BeforeOrder
  <2>5. PICK i \in 1..Len(os) : os[i] = ps[n]
    BY <1>2, <2>4, <2>9
  <2>6. ~(i < n)
    <3>1. SUFFICES ASSUME i < n PROVE FALSE
      OBVIOUS
    <3>2. i \in 1..(n - 1) /\ i \in 1..Len(ps)
      BY <1>1, <2>1, <3>1
    <3>3. ps[i] = ps[n] /\ Before(side, ps[i], ps[n])
      BY <1>2, <2>1, <2>4, <2>5, <3>1, <3>2
    <3> QED BY <1>1, <2>4, <3>3, BeforeOrder
  <2>7. os[n] = ps[n]
    <3>1. SUFFICES ASSUME os[n] # ps[n] PROVE FALSE
      OBVIOUS
    <3>2. n < j /\ n < i
      BY <1>1, <2>2, <2>3, <2>5, <2>6, <3>1
    <3>3. Before(side, os[n], ps[n]) /\ Before(side, ps[n], os[n])
      BY <1>2, <2>2, <2>4, <2>5, <3>2
    <3> QED BY <1>1, <2>4, <3>3, BeforeOrder
  <2>8. \A k \in 1..n : k \in 1..(n - 1) \/ k = n
    BY <1>1
  <2> QED BY <1>1, <2>1, <2>4, <2>7, <2>8
<1>5. 0..Len(os) \subseteq U
  <2> HIDE DEF U
  <2> QED BY <1>1, <1>3, <1>4, Along
<1> QED BY <1>1, <1>5

\* Orders have one list in priority order.
LEMMA OneList ==
    ASSUME NEW side, NEW S, NEW os, NEW ps, ListOf(os, side, S), ListOf(ps, side, S)
    PROVE  os = ps
<1>1. os \in Seq(OrderSet) /\ ps \in Seq(OrderSet)
  BY DEF ListOf
<1>2. \A k \in 1..Len(os) : k \in 1..Len(ps) /\ os[k] = ps[k]
  BY ListAgrees
<1>3. \A k \in 1..Len(ps) : k \in 1..Len(os) /\ ps[k] = os[k]
  BY ListAgrees
<1>4. Len(os) \in Nat /\ Len(ps) \in Nat
  BY <1>1
<1>5. Len(os) <= Len(ps)
  BY <1>2, <1>4
<1>6. Len(ps) <= Len(os)
  BY <1>3, <1>4
<1> QED BY <1>1, <1>2, <1>4, <1>5, <1>6, SeqEqual

\* An order is on a list once.
LEMMA ListOnce ==
    ASSUME NEW side, NEW S, NEW os, ListOf(os, side, S), NEW i \in 1..Len(os),
           NEW j \in 1..Len(os), os[i] = os[j]
    PROVE  i = j
<1>1. Len(os) \in Nat /\ os[i] \in OrderSet /\ os[j] \in OrderSet
  BY DEF ListOf
<1>2. /\ i < j => Before(side, os[i], os[j])
      /\ j < i => Before(side, os[j], os[i])
  BY DEF ListOf
<1>3. ~Before(side, os[i], os[i])
  BY <1>1, BeforeOrder
<1> QED BY <1>1, <1>2, <1>3

\* The orders of one list all come before those of another.
LEMMA ListConcat ==
    ASSUME NEW side, NEW S, NEW T, NEW os, NEW ps, ListOf(os, side, S), ListOf(ps, side, T),
           \A x \in S, y \in T : Before(side, x, y)
    PROVE  ListOf(os \o ps, side, S \cup T)
<1> DEFINE r == os \o ps
           m == Len(os)
           n == Len(ps)
<1>1. os \in Seq(OrderSet) /\ ps \in Seq(OrderSet) /\ m \in Nat /\ n \in Nat
  BY DEF ListOf
<1>2. /\ r \in Seq(OrderSet) /\ Len(r) = m + n
      /\ \A k \in 1..(m + n) : r[k] = IF k <= m THEN os[k] ELSE ps[k - m]
  BY <1>1
<1>3. /\ \A i, j \in 1..m : i < j => Before(side, os[i], os[j])
      /\ \A i, j \in 1..n : i < j => Before(side, ps[i], ps[j])
      /\ \A i \in 1..m : os[i] \in S
      /\ \A i \in 1..n : ps[i] \in T
      /\ \A o \in S : \E i \in 1..m : os[i] = o
      /\ \A o \in T : \E i \in 1..n : ps[i] = o
  BY DEF ListOf
<1> HIDE DEF r, m, n
<1>4. ASSUME NEW i \in 1..(m + n), NEW j \in 1..(m + n), i < j
      PROVE  Before(side, r[i], r[j])
  <2>1. CASE j <= m
    <3>1. i \in 1..m /\ j \in 1..m /\ r[i] = os[i] /\ r[j] = os[j]
      BY <1>1, <1>2, <1>4, <2>1
    <3> QED BY <1>3, <1>4, <3>1
  <2>2. CASE ~(i <= m)
    <3>1. i - m \in 1..n /\ j - m \in 1..n /\ r[i] = ps[i - m] /\ r[j] = ps[j - m] /\ i - m < j - m
      BY <1>1, <1>2, <1>4, <2>2
    <3> QED BY <1>3, <3>1
  <2>3. CASE i <= m /\ ~(j <= m)
    <3>1. i \in 1..m /\ j - m \in 1..n /\ r[i] = os[i] /\ r[j] = ps[j - m]
      BY <1>1, <1>2, <1>4, <2>3
    <3> QED BY <1>3, <3>1
  <2> QED BY <1>1, <1>4, <2>1, <2>2, <2>3
<1>5. ASSUME NEW i \in 1..(m + n) PROVE r[i] \in S \cup T
  <2>1. CASE i <= m
    BY <1>1, <1>2, <1>3, <2>1
  <2>2. CASE ~(i <= m)
    <3>1. i - m \in 1..n /\ r[i] = ps[i - m]
      BY <1>1, <1>2, <2>2
    <3> QED BY <1>3, <3>1
  <2> QED BY <2>1, <2>2
<1>6. ASSUME NEW o \in S \cup T PROVE \E i \in 1..(m + n) : r[i] = o
  <2>1. CASE o \in S
    <3>1. PICK i \in 1..m : os[i] = o
      BY <1>3, <2>1
    <3>2. i \in 1..(m + n) /\ r[i] = o
      BY <1>1, <1>2, <3>1
    <3> QED BY <3>2
  <2>2. CASE o \in T
    <3>1. PICK i \in 1..n : ps[i] = o
      BY <1>3, <2>2
    <3>2. i + m \in 1..(m + n) /\ ~(i + m <= m) /\ (i + m) - m = i
      BY <1>1
    <3>3. r[i + m] = o
      BY <1>2, <3>1, <3>2
    <3> QED BY <3>2, <3>3
  <2> QED BY <2>1, <2>2
<1>7. ListOf(r, side, S \cup T)
  BY <1>2, <1>4, <1>5, <1>6 DEF ListOf
<1> QED BY <1>7 DEF r

-----------------------------------------------------------------------------
(* Lists that an operation makes. *)

\* A loop whose round k is G[k].
IsLoopAt(f, n, x, G) ==
    f = [k \in 0..n |-> IF k = 0 THEN x ELSE G[k][f[k - 1]]]

\* Such a loop can be run for as many rounds as it has.
LEMMA LoopAt ==
    ASSUME NEW N \in Nat, NEW S, NEW x \in S, NEW G \in [1..N -> [S -> S]]
    PROVE  \E f \in [0..N -> S] : IsLoopAt(f, N, x, G)
<1> DEFINE T == {n \in 0..N : \E f \in [0..n -> S] : IsLoopAt(f, n, x, G)}
<1>1. 0 \in T
  <2>1. IsLoopAt([k \in 0..0 |-> x], 0, x, G) /\ [k \in 0..0 |-> x] \in [0..0 -> S]
    BY DEF IsLoopAt
  <2> QED BY <2>1
<1>2. ASSUME NEW n \in 1..N, n - 1 \in T PROVE n \in T
  <2>1. PICK f \in [0..(n - 1) -> S] : IsLoopAt(f, n - 1, x, G)
    BY <1>2
  <2> DEFINE g == [k \in 0..n |-> IF k < n THEN f[k] ELSE G[n][f[n - 1]]]
  <2>2. f[n - 1] \in S
    OBVIOUS
  <2>3. G[n][f[n - 1]] \in S
    BY <2>2
  <2>4. g \in [0..n -> S]
    BY <2>3
  <2>5. IsLoopAt(g, n, x, G)
    <3>1. \A k \in 0..(n - 1) : f[k] = IF k = 0 THEN x ELSE G[k][f[k - 1]]
      BY <2>1 DEF IsLoopAt
    <3>2. ASSUME NEW k \in 0..n PROVE g[k] = IF k = 0 THEN x ELSE G[k][g[k - 1]]
      <4>1. CASE k = 0
        <5>1. g[0] = f[0] /\ 0 \in 0..(n - 1)
          OBVIOUS
        <5> QED BY <3>1, <4>1, <5>1
      <4>2. CASE k # 0
        <5>1. k - 1 \in 0..n /\ k - 1 < n
          BY <4>2
        <5>2. g[k - 1] = f[k - 1]
          BY <5>1
        <5>3. CASE k < n
          <6>1. g[k] = f[k] /\ k \in 0..(n - 1)
            BY <5>3
          <6> QED BY <3>1, <4>2, <5>2, <6>1
        <5>4. CASE k = n
          BY <4>2, <5>2, <5>4
        <5> QED BY <5>3, <5>4
      <4> QED BY <4>1, <4>2
    <3>3. DOMAIN g = 0..n
      OBVIOUS
    <3>4. g = [k \in 0..n |-> g[k]]
      BY <2>4
    <3> HIDE DEF g
    <3> QED BY <3>2, <3>4 DEF IsLoopAt
  <2> HIDE DEF g
  <2> QED BY <2>4, <2>5
<1>3. 0..N \subseteq T
  <2> HIDE DEF T
  <2> QED BY <1>1, <1>2, Along
<1> QED BY <1>3

\* A list of one order.
LEMMA ListSingle ==
    ASSUME NEW side, NEW o \in OrderSet
    PROVE  ListOf(<<o>>, side, {o})
<1>1. <<o>> \in Seq(OrderSet) /\ Len(<<o>>) = 1 /\ <<o>>[1] = o
  OBVIOUS
<1>2. \A i, j \in 1..1 : ~(i < j)
  OBVIOUS
<1>3. \A i \in 1..1 : i = 1
  OBVIOUS
<1>4. 1 \in 1..1
  OBVIOUS
<1> QED BY <1>1, <1>2, <1>3, <1>4 DEF ListOf

\* Nothing is listed.
LEMMA ListNone == ASSUME NEW side PROVE ListOf(<<>>, side, {})
BY DEF ListOf

\* Removing an id from a list takes the order that has it, and no other.
LEMMA ListRemove ==
    ASSUME NEW side, NEW S, NEW os, ListOf(os, side, S), NEW id
    PROVE  ListOf(Lists!remove(os, id), side, {o \in S : o.id # id})
<1> DEFINE N == Len(os)
           G == [k \in 1..N |-> [v \in Seq(OrderSet) |->
                   IF os[k].id = id THEN v ELSE Append(v, os[k])]]
           Loop(f) == f = [n \in 0..N |->
                             IF n = 0 THEN <<>>
                             ELSE IF os[n].id = id THEN f[n - 1] ELSE Append(f[n - 1], os[n])]
           Kept(n) == {os[i] : i \in {k \in 1..n : os[k].id # id}}
<1>1. N \in Nat /\ \A k \in 1..N : os[k] \in OrderSet
  BY DEF ListOf
<1>2. \E f : Loop(f)
  <2>1. G \in [1..N -> [Seq(OrderSet) -> Seq(OrderSet)]]
    <3>1. ASSUME NEW k \in 1..N, NEW v \in Seq(OrderSet)
          PROVE  (IF os[k].id = id THEN v ELSE Append(v, os[k])) \in Seq(OrderSet)
      <4>1. Append(v, os[k]) \in Seq(OrderSet)
        BY <1>1
      <4> QED BY <4>1
    <3> QED BY <3>1
  <2>2. <<>> \in Seq(OrderSet)
    OBVIOUS
  <2>3. PICK f \in [0..N -> Seq(OrderSet)] : IsLoopAt(f, N, <<>>, G)
    <3> HIDE DEF G, N
    <3> QED BY <1>1, <2>1, <2>2, LoopAt
  <2>4. \A k \in 1..N : \A v \in Seq(OrderSet) :
           G[k][v] = IF os[k].id = id THEN v ELSE Append(v, os[k])
    OBVIOUS
  <2>5. \A k \in 0..N : f[k] = IF k = 0 THEN <<>> ELSE G[k][f[k - 1]]
    <3> HIDE DEF G
    <3> QED BY <2>3 DEF IsLoopAt
  <2>6. \A k \in 0..N : k = 0 \/ (k \in 1..N /\ f[k - 1] \in Seq(OrderSet))
    BY <1>1
  <2>7. \A k \in 0..N :
           f[k] = IF k = 0 THEN <<>>
                  ELSE IF os[k].id = id THEN f[k - 1] ELSE Append(f[k - 1], os[k])
    <3> HIDE DEF G
    <3> QED BY <2>4, <2>5, <2>6
  <2>8. Loop(f)
    BY <2>3, <2>7 DEF IsLoopAt
  <2> QED BY <2>8
<1>3. PICK f : Loop(f) /\ Lists!remove(os, id) = f[N]
  BY <1>2 DEF Lists!remove
<1>10. 0 \in 0..N /\ N \in 0..N
  <2> HIDE DEF N
  <2> QED BY <1>1
<1>4. f[0] = <<>>
  <2> HIDE DEF N
  <2> QED BY <1>3, <1>10
<1>5. \A n \in 1..N : f[n] = IF os[n].id = id THEN f[n - 1] ELSE Append(f[n - 1], os[n])
  <2>1. \A n \in 1..N : n \in 0..N /\ n # 0
    BY <1>1
  <2> HIDE DEF N
  <2> QED BY <1>3, <2>1
<1> DEFINE T == {n \in 0..N : ListOf(f[n], side, Kept(n))}
<1>6. 0 \in T
  <2>1. Kept(0) = {}
    OBVIOUS
  <2> HIDE DEF N, Kept
  <2> QED BY <1>4, <1>10, <2>1, ListNone
<1>7. ASSUME NEW n \in 1..N, n - 1 \in T PROVE n \in T
  <2>1. n \in 0..N /\ ListOf(f[n - 1], side, Kept(n - 1))
    BY <1>1, <1>7
  <2>2. CASE os[n].id = id
    <3>1. Kept(n) = Kept(n - 1)
      <4>1. {k \in 1..n : os[k].id # id} = {k \in 1..(n - 1) : os[k].id # id}
        BY <2>2
      <4> QED BY <4>1
    <3>2. f[n] = f[n - 1]
      BY <1>5, <2>2
    <3> HIDE DEF Kept
    <3> QED BY <2>1, <3>1, <3>2
  <2>3. CASE os[n].id # id
    <3>1. Kept(n) = Kept(n - 1) \cup {os[n]}
      <4>1. {k \in 1..n : os[k].id # id} = {k \in 1..(n - 1) : os[k].id # id} \cup {n}
        BY <2>3
      <4> QED BY <4>1
    <3>2. f[n] = f[n - 1] \o <<os[n]>>
      <4>1. f[n - 1] \in Seq(OrderSet) /\ os[n] \in OrderSet
        BY <1>1, <2>1 DEF ListOf
      <4> QED BY <1>5, <2>3, <4>1, AppendIsConcat
    <3>3. \A x \in Kept(n - 1), y \in {os[n]} : Before(side, x, y)
      <4> SUFFICES ASSUME NEW k \in 1..(n - 1) PROVE Before(side, os[k], os[n])
        OBVIOUS
      <4>1. k \in 1..Len(os) /\ n \in 1..Len(os) /\ k < n
        BY <1>1
      <4> QED BY <4>1 DEF ListOf
    <3>4. ListOf(<<os[n]>>, side, {os[n]})
      BY <1>1, ListSingle
    <3> HIDE DEF Kept
    <3>5. ListOf(f[n - 1] \o <<os[n]>>, side, Kept(n - 1) \cup {os[n]})
      BY <2>1, <3>3, <3>4, ListConcat
    <3> QED BY <2>1, <3>1, <3>2, <3>5
  <2> QED BY <2>2, <2>3
<1>8. N \in T
  <2>1. 0..N \subseteq T
    <3> HIDE DEF T
    <3> QED BY <1>1, <1>6, <1>7, Along
  <2> HIDE DEF T
  <2> QED BY <1>10, <2>1
<1>9. Kept(N) = {o \in S : o.id # id}
  BY DEF ListOf
<1> QED BY <1>3, <1>8, <1>9

\* Changing the quantity of an order leaves it where it is.
LEMMA ListSetQty ==
    ASSUME NEW side, NEW S, NEW os, ListOf(os, side, S), NEW id, NEW x \in Nat
    PROVE  ListOf(Lists!setQty(os, id, x), side,
                  {IF o.id = id THEN [o EXCEPT !.qty = x] ELSE o : o \in S})
<1> DEFINE g(o) == IF o.id = id THEN [o EXCEPT !.qty = x] ELSE o
           ps == Lists!setQty(os, id, x)
<1>1. Len(os) \in Nat /\ DOMAIN os = 1..Len(os) /\ \A k \in 1..Len(os) : os[k] \in OrderSet
  BY DEF ListOf
<1>2. \A o \in OrderSet : g(o) \in OrderSet /\ g(o).price = o.price /\ g(o).id = o.id
  BY DEF OrderSet
<1>3. ps = [k \in 1..Len(os) |-> g(os[k])]
  BY <1>1 DEF Lists!setQty
<1> HIDE DEF g, ps
<1>4. ps \in Seq(OrderSet) /\ Len(ps) = Len(os) /\ \A k \in 1..Len(os) : ps[k] = g(os[k])
  <2>1. \A k \in 1..Len(os) : g(os[k]) \in OrderSet
    BY <1>1, <1>2
  <2>2. ps \in Seq(OrderSet)
    BY <1>1, <1>3, <2>1
  <2>3. Len(ps) = Len(os)
    BY <1>1, <1>3, <2>2
  <2> QED BY <1>3, <2>2, <2>3
<1>5. ASSUME NEW i \in 1..Len(os), NEW j \in 1..Len(os), i < j
      PROVE  Before(side, ps[i], ps[j])
  <2>1. Before(side, os[i], os[j])
    BY <1>5 DEF ListOf
  <2>2. /\ ps[i].price = os[i].price /\ ps[i].id = os[i].id
        /\ ps[j].price = os[j].price /\ ps[j].id = os[j].id
    BY <1>1, <1>2, <1>4
  <2> QED BY <2>1, <2>2 DEF Before
<1>6. ListOf(ps, side, {g(o) : o \in S})
  <2>1. \A k \in 1..Len(os) : os[k] \in S
    BY DEF ListOf
  <2>2. \A o \in S : \E k \in 1..Len(os) : os[k] = o
    BY DEF ListOf
  <2>3. \A k \in 1..Len(ps) : ps[k] \in {g(o) : o \in S}
    BY <1>4, <2>1
  <2>4. \A y \in {g(o) : o \in S} : \E k \in 1..Len(ps) : ps[k] = y
    BY <1>4, <2>2
  <2> QED BY <1>4, <1>5, <2>3, <2>4 DEF ListOf
<1> QED BY <1>6 DEF g, ps

\* The least of some numbers.
LEMMA LeastNat ==
    ASSUME NEW T \in SUBSET Nat, T # {}
    PROVE  \E k \in T : \A j \in T : k <= j
<1>1. IsWellFoundedOn(Below, Nat)
  BY NatLessThanWellFounded DEF OpToRel, Below
<1>2. PICK k \in T : \A j \in T : ~(<<j, k>> \in Below)
  BY <1>1, WFMin, Zenon
<1>3. ASSUME NEW j \in T PROVE k <= j
  <2>1. j \in Nat /\ k \in Nat /\ ~(<<j, k>> \in Below)
    BY <1>2
  <2> QED BY <2>1 DEF Below
<1> QED BY <1>3

\* A new order has its place behind the orders at its price.
LEMMA ListPlace ==
    ASSUME NEW side \in {0, 1}, NEW S, NEW os, ListOf(os, side, S),
           NEW o \in OrderSet, o.side = side, \A r \in S : r.id < o.id
    PROVE  ListOf(Lists!place(o, os), side, S \cup {o})
<1> DEFINE n == Len(os)
           worse == {k \in 1..n : ~Lists!asGood(o.side, os[k].price, o.price)}
           least(k) == k \in worse \cup {n + 1} /\ \A j \in worse \cup {n + 1} : k <= j
           at == CHOOSE k \in worse \cup {n + 1} : \A j \in worse \cup {n + 1} : k <= j
           ps == Lists!place(o, os)
<1>1. n \in Nat /\ \A k \in 1..n : os[k] \in OrderSet
  BY DEF ListOf
<1>2. \E k \in worse \cup {n + 1} : \A j \in worse \cup {n + 1} : k <= j
  <2>1. worse \cup {n + 1} \in SUBSET Nat /\ worse \cup {n + 1} # {}
    BY <1>1
  <2> HIDE DEF worse, n
  <2> QED BY <2>1, LeastNat
<1>3. least(at)
  <2> HIDE DEF worse, n
  <2> QED BY <1>2
<1>4. ps = [k \in 1..(n + 1) |-> IF k < at THEN os[k] ELSE IF k = at THEN o ELSE os[k - 1]]
  BY DEF Lists!place
<1>5. \A p, q \in Nat : Lists!asGood(side, p, q) <=> IF side = 0 THEN q <= p ELSE p <= q
  BY DEF Lists!asGood, Lists!Buy
<1>6. /\ \A i, j \in 1..n : i < j => Before(side, os[i], os[j])
      /\ \A k \in 1..n : os[k] \in S
      /\ \A r \in S : \E k \in 1..n : os[k] = r
  BY DEF ListOf
<1> HIDE DEF at, ps, n
<1>7. at \in 1..(n + 1)
  BY <1>1, <1>3
<1>8. \A k \in 1..n : k < at => Before(side, os[k], o)
  <2> SUFFICES ASSUME NEW k \in 1..n, k < at PROVE Before(side, os[k], o)
    OBVIOUS
  <2>1. k \notin worse
    BY <1>1, <1>3, <1>7
  <2>2. Lists!asGood(side, os[k].price, o.price)
    BY <2>1
  <2>3. os[k].price \in Nat /\ o.price \in Nat /\ os[k].id < o.id
    BY <1>1, <1>6 DEF OrderSet
  <2> QED BY <1>5, <2>2, <2>3 DEF Before
<1>9. \A k \in 1..n : ~(k < at) => Before(side, o, os[k])
  <2>1. ASSUME NEW k \in worse PROVE Before(side, o, os[k])
    <3>1. ~Lists!asGood(side, os[k].price, o.price)
      OBVIOUS
    <3>2. os[k].price \in Nat /\ o.price \in Nat
      BY <1>1 DEF OrderSet
    <3> QED BY <1>5, <3>1, <3>2 DEF Before
  <2> SUFFICES ASSUME NEW k \in 1..n, ~(k < at) PROVE Before(side, o, os[k])
    OBVIOUS
  <2>2. at \in worse /\ at \in 1..n
    BY <1>1, <1>3, <1>7
  <2>3. Before(side, o, os[at])
    BY <2>1, <2>2
  <2>4. CASE k = at
    BY <2>3, <2>4
  <2>5. CASE k # at
    <3>1. Before(side, os[at], os[k])
      BY <1>1, <1>6, <2>2, <2>5
    <3> QED BY <1>1, <2>2, <2>3, <3>1, BeforeOrder
  <2> QED BY <2>4, <2>5
<1> HIDE DEF worse, least
<1>10. /\ ps \in Seq(OrderSet) /\ Len(ps) = n + 1
       /\ \A k \in 1..(n + 1) : ps[k] = IF k < at THEN os[k] ELSE IF k = at THEN o ELSE os[k - 1]
  <2>1. \A k \in 1..(n + 1) :
           (IF k < at THEN os[k] ELSE IF k = at THEN o ELSE os[k - 1]) \in OrderSet
    BY <1>1, <1>7
  <2>2. ps \in [1..(n + 1) -> OrderSet]
    BY <1>4, <2>1
  <2>3. n + 1 \in Nat
    BY <1>1
  <2> QED BY <1>4, <2>2, <2>3
<1>11. ASSUME NEW i \in 1..(n + 1), NEW j \in 1..(n + 1), i < j
       PROVE  Before(side, ps[i], ps[j])
  <2>1. CASE j < at
    <3>1. i \in 1..n /\ j \in 1..n /\ ps[i] = os[i] /\ ps[j] = os[j]
      BY <1>1, <1>7, <1>10, <1>11, <2>1
    <3> QED BY <1>6, <1>11, <3>1
  <2>2. CASE j = at
    <3>1. i \in 1..n /\ i < at /\ ps[i] = os[i] /\ ps[j] = o
      BY <1>1, <1>7, <1>10, <1>11, <2>2
    <3> QED BY <1>8, <3>1
  <2>3. CASE at < j
    <3>1. j - 1 \in 1..n /\ ~(j - 1 < at) /\ ps[j] = os[j - 1]
      BY <1>1, <1>7, <1>10, <1>11, <2>3
    <3>2. CASE i < at
      <4>1. i \in 1..n /\ ps[i] = os[i]
        BY <1>1, <1>7, <1>10, <3>2
      <4>2. i < j - 1
        BY <1>7, <3>1, <3>2
      <4> QED BY <1>6, <3>1, <4>1, <4>2
    <3>3. CASE i = at
      BY <1>9, <1>10, <3>1, <3>3
    <3>4. CASE at < i
      <4>1. i - 1 \in 1..n /\ ps[i] = os[i - 1] /\ i - 1 < j - 1
        BY <1>1, <1>7, <1>10, <1>11, <3>4
      <4> QED BY <1>6, <3>1, <4>1
    <3> QED BY <1>7, <3>2, <3>3, <3>4
  <2> QED BY <1>7, <2>1, <2>2, <2>3
<1>12. ASSUME NEW k \in 1..(n + 1) PROVE ps[k] \in S \cup {o}
  <2>1. k < at => k \in 1..n
    BY <1>1, <1>7
  <2>2. ~(k < at) /\ k # at => k - 1 \in 1..n
    BY <1>1, <1>7
  <2> QED BY <1>6, <1>10, <2>1, <2>2
<1>13. ASSUME NEW r \in S \cup {o} PROVE \E k \in 1..(n + 1) : ps[k] = r
  <2>1. CASE r = o
    BY <1>7, <1>10, <2>1
  <2>2. CASE r \in S
    <3>1. PICK k \in 1..n : os[k] = r
      BY <1>6, <2>2
    <3>2. CASE k < at
      <4>1. k \in 1..(n + 1)
        BY <1>1
      <4> QED BY <1>10, <3>1, <3>2, <4>1
    <3>3. CASE ~(k < at)
      <4>1. k + 1 \in 1..(n + 1) /\ ~(k + 1 < at) /\ k + 1 # at /\ (k + 1) - 1 = k
        BY <1>1, <1>7, <3>3
      <4>2. ps[k + 1] = os[k]
        BY <1>10, <4>1
      <4> QED BY <3>1, <4>1, <4>2
    <3> QED BY <3>2, <3>3
  <2> QED BY <2>1, <2>2
<1>14. ListOf(ps, side, S \cup {o})
  BY <1>10, <1>11, <1>12, <1>13 DEF ListOf
<1> QED BY <1>14 DEF ps

\* The first order of a list is the one before all others.
LEMMA ListHead ==
    ASSUME NEW side, NEW S, NEW os, ListOf(os, side, S), NEW o \in S,
           \A r \in S : r # o => Before(side, o, r)
    PROVE  os # <<>> /\ Head(os) = o
<1>1. os \in Seq(OrderSet) /\ Len(os) \in Nat /\ \A k \in 1..Len(os) : os[k] \in OrderSet
  BY DEF ListOf
<1>2. PICK k \in 1..Len(os) : os[k] = o
  BY DEF ListOf
<1>3. 1 \in 1..Len(os) /\ os # <<>> /\ Head(os) = os[1]
  BY <1>1, <1>2
<1>4. k = 1
  <2>1. SUFFICES ASSUME k # 1 PROVE FALSE
    OBVIOUS
  <2>2. 1 < k /\ os[1] \in S
    BY <1>1, <1>2, <1>3, <2>1 DEF ListOf
  <2>3. Before(side, os[1], o)
    BY <1>2, <1>3, <2>2 DEF ListOf
  <2>4. os[1] # o
    BY <1>1, <1>3, <2>3, BeforeOrder
  <2>5. Before(side, o, os[1])
    BY <2>2, <2>4
  <2> QED BY <1>1, <1>2, <1>3, <2>3, <2>5, BeforeOrder
<1> QED BY <1>2, <1>3, <1>4

\* Conversely it is before all others, which the rest of the list has.
LEMMA ListTail ==
    ASSUME NEW side, NEW S, NEW os, ListOf(os, side, S), os # <<>>
    PROVE  /\ Head(os) \in S /\ Head(os) \in OrderSet
           /\ \A r \in S \ {Head(os)} : Before(side, Head(os), r)
           /\ ListOf(Tail(os), side, S \ {Head(os)})
<1> DEFINE n == Len(os)
<1>1. os \in Seq(OrderSet) /\ n \in Nat /\ n # 0 /\ \A k \in 1..n : os[k] \in OrderSet
  BY DEF ListOf
<1>2. /\ Head(os) = os[1] /\ 1 \in 1..n
      /\ Tail(os) \in Seq(OrderSet) /\ Len(Tail(os)) = n - 1
      /\ \A k \in 1..(n - 1) : Tail(os)[k] = os[k + 1]
  BY <1>1
<1>3. /\ \A i, j \in 1..n : i < j => Before(side, os[i], os[j])
      /\ \A k \in 1..n : os[k] \in S
      /\ \A r \in S : \E k \in 1..n : os[k] = r
  BY DEF ListOf
<1> HIDE DEF n
<1>4. \A r \in S \ {os[1]} : Before(side, os[1], r) /\ \E k \in 2..n : os[k] = r
  <2> SUFFICES ASSUME NEW r \in S, r # os[1]
               PROVE  Before(side, os[1], r) /\ \E k \in 2..n : os[k] = r
    OBVIOUS
  <2>1. PICK k \in 1..n : os[k] = r
    BY <1>3
  <2>2. k \in 2..n /\ 1 < k
    BY <1>1, <2>1
  <2> QED BY <1>2, <1>3, <2>1, <2>2
<1>5. \A k \in 2..n : k \in 1..n /\ os[k] \in S \ {os[1]}
  <2> SUFFICES ASSUME NEW k \in 2..n PROVE k \in 1..n /\ os[k] \in S \ {os[1]}
    OBVIOUS
  <2>1. k \in 1..n /\ 1 < k
    BY <1>1
  <2>2. Before(side, os[1], os[k])
    BY <1>2, <1>3, <2>1
  <2> QED BY <1>1, <1>2, <1>3, <2>1, <2>2, BeforeOrder
<1>6. ListOf(Tail(os), side, S \ {os[1]})
  <2>1. \A k \in 1..(n - 1) : k + 1 \in 2..n /\ k + 1 \in 1..n
    BY <1>1
  <2>2. \A k \in 2..n : k - 1 \in 1..(n - 1) /\ (k - 1) + 1 = k
    BY <1>1
  <2>3. \A i, j \in 1..(n - 1) : i < j => i + 1 < j + 1
    OBVIOUS
  <2>4. \A i, j \in 1..(n - 1) : i < j => Before(side, Tail(os)[i], Tail(os)[j])
    BY <1>2, <1>3, <2>1, <2>3
  <2>5. \A i \in 1..(n - 1) : Tail(os)[i] \in S \ {os[1]}
    BY <1>2, <1>5, <2>1
  <2>6. \A r \in S \ {os[1]} : \E i \in 1..(n - 1) : Tail(os)[i] = r
    <3> SUFFICES ASSUME NEW r \in S \ {os[1]} PROVE \E i \in 1..(n - 1) : Tail(os)[i] = r
      OBVIOUS
    <3>1. PICK k \in 2..n : os[k] = r
      BY <1>4
    <3>2. k - 1 \in 1..(n - 1) /\ Tail(os)[k - 1] = os[k]
      BY <1>2, <2>2
    <3> QED BY <3>1, <3>2
  <2> QED BY <1>2, <2>4, <2>5, <2>6 DEF ListOf
<1> QED BY <1>1, <1>2, <1>3, <1>4, <1>6

\* A list has as many orders as there are.
LEMMA ListCount ==
    ASSUME NEW side, NEW S, NEW os, ListOf(os, side, S)
    PROVE  IsFiniteSet(S) /\ Cardinality(S) = Len(os) /\ Len(os) \in Nat
<1>1. os \in Seq(OrderSet) /\ Len(os) \in Nat /\ DOMAIN os = 1..Len(os)
  BY DEF ListOf
<1>2. os \in Bijection(1..Len(os), S)
  <2>1. os \in [1..Len(os) -> S]
    BY <1>1 DEF ListOf
  <2>2. \A i, j \in 1..Len(os) : os[i] = os[j] => i = j
    BY ListOnce
  <2>3. \A r \in S : \E i \in 1..Len(os) : os[i] = r
    BY DEF ListOf
  <2> QED BY <2>1, <2>2, <2>3 DEF Bijection, Injection, Surjection, IsInjective
<1>3. IsFiniteSet(1..Len(os)) /\ Cardinality(1..Len(os)) = Len(os)
  <2>1. \A n \in Nat : IsFiniteSet(1..n) /\ Cardinality(1..n) = n
    BY FS_Interval
  <2> QED BY <1>1, <2>1
<1>4. ExistsBijection(1..Len(os), S)
  BY <1>2 DEF ExistsBijection
<1> QED BY <1>1, <1>3, <1>4, FS_Bijection

-----------------------------------------------------------------------------
(* The orders of a book. *)

SideOf(l) == IF l <= maxPrice THEN 0 ELSE 1
PriceOf(l) == IF l <= maxPrice THEN l ELSE l - (maxPrice + 1)

\* The order that slot s holds.
Ord(b, s) ==
    [id |-> b.oid[s], account |-> b.acct[s], side |-> SideOf(b.lvl[s]),
     price |-> PriceOf(b.lvl[s]), qty |-> b.qty[s]]

Resting(b, side) == {s \in InUse(b) : SideOf(b.lvl[s]) = side}
Orders(b, side) == {Ord(b, s) : s \in Resting(b, side)}

\* Ids are given in the order of acceptance, which is that of the chains, and are
\* less than n; and no order rests at price 0, which the lists do not have.
Ids(b, n) ==
    /\ \A s, t \in InUse(b) : b.oid[s] = b.oid[t] => s = t
    /\ \A s \in InUse(b) : b.oid[s] < n
    /\ \A s \in InUse(b) : b.nxt[s] # 0 => b.oid[s] < b.oid[b.nxt[s]]
    /\ \A s \in InUse(b) : PriceOf(b.lvl[s]) # 0

\* A level is that of its side and price.
LEMMA LevelParts ==
    /\ \A l \in Levels :
          /\ SideOf(l) \in {0, 1} /\ PriceOf(l) \in 0..maxPrice /\ PriceOf(l) \in Nat
          /\ level(SideOf(l), PriceOf(l)) = l
    /\ \A side \in {0, 1}, p \in 0..maxPrice :
          level(side, p) \in Levels /\ SideOf(level(side, p)) = side /\ PriceOf(level(side, p)) = p
<1>1. maxPrice \in Nat
  BY Bounds
<1>2. \A l \in Levels :
          /\ SideOf(l) \in {0, 1} /\ PriceOf(l) \in 0..maxPrice /\ PriceOf(l) \in Nat
          /\ level(SideOf(l), PriceOf(l)) = l
  BY <1>1 DEF Levels, SideOf, PriceOf, level
<1>3. \A p \in 0..maxPrice :
         /\ level(0, p) \in Levels /\ SideOf(level(0, p)) = 0 /\ PriceOf(level(0, p)) = p
         /\ level(1, p) \in Levels /\ SideOf(level(1, p)) = 1 /\ PriceOf(level(1, p)) = p
  BY <1>1 DEF Levels, SideOf, PriceOf, level
<1> QED BY <1>2, <1>3

\* A slot in use holds an order.
LEMMA OrdSet ==
    ASSUME NEW b \in BookSet, NEW s \in InUse(b)
    PROVE  /\ Ord(b, s) \in OrderSet /\ s \in Slots /\ s \in Places /\ b.lvl[s] \in Levels
           /\ Ord(b, s).id = b.oid[s] /\ Ord(b, s).account = b.acct[s]
           /\ Ord(b, s).side = SideOf(b.lvl[s]) /\ Ord(b, s).price = PriceOf(b.lvl[s])
           /\ Ord(b, s).qty = b.qty[s]
<1>1. s \in Slots /\ s \in Places
  BY Bounds DEF InUse
<1>2. b.oid[s] \in Nat /\ b.acct[s] \in Nat /\ b.qty[s] \in Nat /\ b.lvl[s] \in Levels
  BY <1>1 DEF BookSet
<1>3. SideOf(b.lvl[s]) \in {0, 1} /\ PriceOf(b.lvl[s]) \in Nat
  BY <1>2, LevelParts
<1> QED BY <1>1, <1>2, <1>3 DEF Ord, OrderSet

\* Ids grow along a chain.
LEMMA ChainUp ==
    ASSUME NEW b \in BookSet, NEW l, NEW q \in Seq(Places), Linked(b, l, q), NEW n, Ids(b, n)
    PROVE  \A i, j \in 1..Len(q) : i < j => b.oid[q[i]] < b.oid[q[j]]
<1>1. Len(q) \in Nat /\ \A k \in 1..Len(q) : q[k] \in Places /\ q[k] \in Slots /\ q[k] # 0
  <2>1. \A k \in 1..Len(q) : q[k] \in Places
    OBVIOUS
  <2>2. \A x \in Places : x \in Slots /\ x # 0
    BY Bounds
  <2>3. Len(q) \in Nat
    OBVIOUS
  <2> QED BY <2>1, <2>2, <2>3
<1>2. \A k \in 1..Len(q) : q[k] \in InUse(b) /\ b.oid[q[k]] \in Nat
  <2>1. \A k \in 1..Len(q) : b.oid[q[k]] # 0
    BY DEF Linked
  <2> QED BY <1>1, <2>1 DEF InUse, BookSet
<1>3. \A k \in 1..Len(q) : k # Len(q) => b.oid[q[k]] < b.oid[q[k + 1]]
  <2> SUFFICES ASSUME NEW k \in 1..Len(q), k # Len(q) PROVE b.oid[q[k]] < b.oid[q[k + 1]]
    OBVIOUS
  <2>1. b.nxt[q[k]] = q[k + 1] /\ k + 1 \in 1..Len(q)
    BY <1>1 DEF Linked
  <2>2. b.nxt[q[k]] # 0 /\ q[k] \in InUse(b)
    BY <1>1, <1>2, <2>1
  <2>3. b.oid[q[k]] < b.oid[b.nxt[q[k]]]
    BY <2>2 DEF Ids
  <2> QED BY <2>1, <2>3
<1> DEFINE T == {j \in 0..Len(q) : \A i \in 1..j : i < j => b.oid[q[i]] < b.oid[q[j]]}
<1>4. 0 \in T
  BY <1>1
<1>5. ASSUME NEW j \in 1..Len(q), j - 1 \in T PROVE j \in T
  <2> SUFFICES ASSUME NEW i \in 1..j, i < j PROVE b.oid[q[i]] < b.oid[q[j]]
    BY <1>1
  <2>1. j - 1 \in 1..Len(q) /\ j - 1 # Len(q) /\ (j - 1) + 1 = j /\ i \in 1..(j - 1)
    BY <1>1
  <2>2. b.oid[q[j - 1]] < b.oid[q[j]]
    BY <1>3, <2>1
  <2>3. CASE i = j - 1
    BY <2>2, <2>3
  <2>4. CASE i < j - 1
    <3>1. b.oid[q[i]] < b.oid[q[j - 1]]
      BY <1>5, <2>1, <2>4
    <3>2. b.oid[q[i]] \in Nat /\ b.oid[q[j - 1]] \in Nat /\ b.oid[q[j]] \in Nat
      <4>1. i \in 1..Len(q)
        BY <1>1
      <4> QED BY <1>2, <2>1, <4>1
    <3> QED BY <2>2, <3>1, <3>2
  <2> QED BY <2>1, <2>3, <2>4
<1>6. 0..Len(q) \subseteq T
  <2> HIDE DEF T
  <2> QED BY <1>1, <1>4, <1>5, Along
<1>7. ASSUME NEW i \in 1..Len(q), NEW j \in 1..Len(q), i < j
      PROVE  b.oid[q[i]] < b.oid[q[j]]
  <2>1. j \in 0..Len(q) /\ i \in 1..j
    BY <1>1, <1>7
  <2> QED BY <1>6, <1>7, <2>1
<1> QED BY <1>7

\* The orders of a level are listed from its chain.
LEMMA LevelOrdersIs ==
    ASSUME NEW b \in BookSet, NEW c \in Chains, ChainsOK(b, c), NEW n, Ids(b, n),
           NEW side \in {0, 1}, NEW p \in 1..maxPrice
    PROVE  /\ ListOf(levelOrders(b, side, p), side, {o \in Orders(b, side) : o.price = p})
           /\ Len(levelOrders(b, side, p)) = Len(c[level(side, p)])
           /\ \A k \in 1..Len(c[level(side, p)]) :
                 levelOrders(b, side, p)[k] = Ord(b, c[level(side, p)][k])
<1> DEFINE lv == level(side, p)
           q == c[lv]
           os == levelOrders(b, side, p)
<1>1. lv \in Levels /\ SideOf(lv) = side /\ PriceOf(lv) = p
  <2>1. p \in 0..maxPrice
    BY Bounds
  <2> QED BY <2>1, LevelParts
<1> HIDE DEF lv
<1>2. q \in Seq(Places) /\ Linked(b, lv, q)
  BY <1>1 DEF Chains, ChainsOK
<1>3. levelSlots(b, lv) = q
  BY <1>1, <1>2, LevelSlots
<1> HIDE DEF q
<1>4. Len(q) \in Nat /\ DOMAIN q = 1..Len(q)
  BY <1>2
<1>5. \A k \in 1..Len(q) : q[k] \in InUse(b) /\ b.lvl[q[k]] = lv
  BY <1>2 DEF Linked, InUse
<1>6. os = [k \in 1..Len(q) |-> Ord(b, q[k])]
  <2>1. os = [k \in DOMAIN q |->
                [id |-> b.oid[q[k]], account |-> b.acct[q[k]], side |-> side,
                 price |-> p, qty |-> b.qty[q[k]]]]
    BY <1>3 DEF levelOrders, lv
  <2>2. \A k \in 1..Len(q) :
           [id |-> b.oid[q[k]], account |-> b.acct[q[k]], side |-> side,
            price |-> p, qty |-> b.qty[q[k]]] = Ord(b, q[k])
    BY <1>1, <1>5 DEF Ord
  <2> QED BY <1>4, <2>1, <2>2
<1> HIDE DEF os
<1>7. /\ os \in Seq(OrderSet) /\ Len(os) = Len(q)
      /\ \A k \in 1..Len(q) : os[k] = Ord(b, q[k])
  <2>1. \A k \in 1..Len(q) : Ord(b, q[k]) \in OrderSet
    BY <1>5, OrdSet
  <2>2. os \in [1..Len(q) -> OrderSet]
    BY <1>6, <2>1
  <2> QED BY <1>4, <1>6, <2>2
<1>8. ASSUME NEW i \in 1..Len(q), NEW j \in 1..Len(q), i < j
      PROVE  Before(side, os[i], os[j])
  <2>1. b.oid[q[i]] < b.oid[q[j]]
    BY <1>2, <1>8, ChainUp
  <2>2. os[i].id = b.oid[q[i]] /\ os[j].id = b.oid[q[j]] /\ os[i].price = p /\ os[j].price = p
    <3>1. \A k \in 1..Len(q) : Ord(b, q[k]).id = b.oid[q[k]] /\ Ord(b, q[k]).price = p
      BY <1>1, <1>5, OrdSet
    <3> QED BY <1>7, <3>1
  <2> QED BY <2>1, <2>2 DEF Before
<1>9. ASSUME NEW k \in 1..Len(q)
      PROVE  os[k] \in {o \in Orders(b, side) : o.price = p}
  <2>1. q[k] \in Resting(b, side) /\ os[k] = Ord(b, q[k]) /\ Ord(b, q[k]).price = p
    BY <1>1, <1>5, <1>7 DEF Ord, Resting
  <2> QED BY <2>1 DEF Orders
<1>10. ASSUME NEW o \in Orders(b, side), o.price = p
       PROVE  \E k \in 1..Len(q) : os[k] = o
  <2>1. PICK s \in InUse(b) : o = Ord(b, s) /\ SideOf(b.lvl[s]) = side
    BY DEF Orders, Resting
  <2>2. b.lvl[s] \in Levels /\ PriceOf(b.lvl[s]) = p
    BY <1>10, <2>1, OrdSet
  <2>3. b.lvl[s] = lv
    BY <2>1, <2>2, LevelParts DEF lv
  <2>4. PICK k \in 1..Len(q) : q[k] = s
    BY <2>3 DEF ChainsOK, On, q
  <2> QED BY <1>7, <2>1, <2>4
<1>11. ListOf(os, side, {o \in Orders(b, side) : o.price = p})
  BY <1>7, <1>8, <1>9, <1>10 DEF ListOf
<1> QED BY <1>7, <1>11 DEF os, q, lv

\* The lists of the refinement have the orders of the book in priority order.
LEMMA SideOrdersIs ==
    ASSUME NEW b, BookOK(b), NEW n, Ids(b, n), NEW side \in {0, 1}
    PROVE  ListOf(sideOrders(b, side), side, Orders(b, side))
<1>1. b \in BookSet /\ maxPrice \in Nat
  BY Bounds DEF BookOK
<1>2. PICK c \in Chains : ChainsOK(b, c)
  BY DEF BookOK
<1> DEFINE UpTo(p) == {o \in Orders(b, side) : o.price \in 1..p}
           lo(p) == levelOrders(b, side, p)
           N == maxPrice
           G == [p \in 1..N |-> [v \in Seq(OrderSet) |->
                   IF side = 0 THEN lo(p) \o v ELSE v \o lo(p)]]
           Loop(f) == f = [p \in 0..N |->
                             IF p = 0 THEN <<>>
                             ELSE IF side = 0 THEN lo(p) \o f[p - 1] ELSE f[p - 1] \o lo(p)]
<1>3. \A p \in 1..N : ListOf(lo(p), side, {o \in Orders(b, side) : o.price = p})
  BY <1>1, <1>2, LevelOrdersIs
<1>4. \A p \in 1..N : lo(p) \in Seq(OrderSet)
  BY <1>3 DEF ListOf
<1>5. \E f : Loop(f)
  <2> HIDE DEF lo
  <2>1. G \in [1..N -> [Seq(OrderSet) -> Seq(OrderSet)]]
    <3>1. ASSUME NEW p \in 1..N, NEW v \in Seq(OrderSet)
          PROVE  (IF side = 0 THEN lo(p) \o v ELSE v \o lo(p)) \in Seq(OrderSet)
      <4>1. lo(p) \in Seq(OrderSet)
        BY <1>4
      <4>2. lo(p) \o v \in Seq(OrderSet) /\ v \o lo(p) \in Seq(OrderSet)
        BY <4>1
      <4> QED BY <4>2
    <3> QED BY <3>1
  <2>2. <<>> \in Seq(OrderSet)
    OBVIOUS
  <2>3. PICK f \in [0..N -> Seq(OrderSet)] : IsLoopAt(f, N, <<>>, G)
    <3> HIDE DEF G
    <3> QED BY <1>1, <2>1, <2>2, LoopAt
  <2>4. \A k \in 1..N : \A v \in Seq(OrderSet) :
           G[k][v] = IF side = 0 THEN lo(k) \o v ELSE v \o lo(k)
    OBVIOUS
  <2>5. \A k \in 0..N : f[k] = IF k = 0 THEN <<>> ELSE G[k][f[k - 1]]
    <3> HIDE DEF G
    <3> QED BY <2>3 DEF IsLoopAt
  <2>6. \A k \in 0..N : k = 0 \/ (k \in 1..N /\ f[k - 1] \in Seq(OrderSet))
    BY <1>1
  <2>7. \A k \in 0..N :
           f[k] = IF k = 0 THEN <<>>
                  ELSE IF side = 0 THEN lo(k) \o f[k - 1] ELSE f[k - 1] \o lo(k)
    <3> HIDE DEF G
    <3> QED BY <2>4, <2>5, <2>6
  <2>8. Loop(f)
    BY <2>3, <2>7 DEF IsLoopAt
  <2> QED BY <2>8
<1>6. PICK f : Loop(f) /\ sideOrders(b, side) = f[N]
  BY <1>5 DEF sideOrders
<1>7. /\ f[0] = <<>>
      /\ \A p \in 1..N : f[p] = IF side = 0 THEN lo(p) \o f[p - 1] ELSE f[p - 1] \o lo(p)
  <2>1. 0 \in 0..N /\ \A p \in 1..N : p \in 0..N /\ p # 0
    BY <1>1
  <2> HIDE DEF lo, N
  <2> QED BY <1>6, <2>1
<1>8. \A o \in Orders(b, side) : o.price \in 1..N
  <2> SUFFICES ASSUME NEW s \in Resting(b, side) PROVE Ord(b, s).price \in 1..N
    BY DEF Orders
  <2>1. s \in InUse(b)
    BY DEF Resting
  <2>2. Ord(b, s).price = PriceOf(b.lvl[s]) /\ b.lvl[s] \in Levels
    BY <1>1, <2>1, OrdSet
  <2>3. PriceOf(b.lvl[s]) # 0 /\ PriceOf(b.lvl[s]) \in 0..N
    BY <2>1, <2>2, LevelParts DEF Ids
  <2> QED BY <1>1, <2>2, <2>3
<1> HIDE DEF lo
<1> DEFINE T == {p \in 0..N : ListOf(f[p], side, UpTo(p))}
<1>9. 0 \in T
  <2>1. UpTo(0) = {} /\ 0 \in 0..N
    BY <1>1
  <2> HIDE DEF UpTo, N
  <2> QED BY <1>7, <2>1, ListNone
<1>10. ASSUME NEW p \in 1..N, p - 1 \in T PROVE p \in T
  <2> DEFINE P == {o \in Orders(b, side) : o.price = p}
  <2>1. p \in 0..N /\ ListOf(f[p - 1], side, UpTo(p - 1)) /\ ListOf(lo(p), side, P)
    BY <1>1, <1>3, <1>10
  <2>2. UpTo(p) = UpTo(p - 1) \cup P /\ UpTo(p) = P \cup UpTo(p - 1)
    <3>1. \A k : k \in 1..p <=> k \in 1..(p - 1) \/ k = p
      BY <1>1
    <3> QED BY <3>1
  <2>3. \A x \in UpTo(p - 1), y \in P : x.price < y.price
    OBVIOUS
  <2>4. CASE side = 0
    <3>1. \A x \in P, y \in UpTo(p - 1) : Before(side, x, y)
      BY <2>3, <2>4 DEF Before
    <3> HIDE DEF UpTo, P
    <3>2. ListOf(lo(p) \o f[p - 1], side, P \cup UpTo(p - 1))
      BY <2>1, <3>1, ListConcat
    <3> QED BY <1>7, <2>1, <2>2, <2>4, <3>2
  <2>5. CASE side = 1
    <3>1. \A x \in UpTo(p - 1), y \in P : Before(side, x, y)
      BY <2>3, <2>5 DEF Before
    <3> HIDE DEF UpTo, P
    <3>2. ListOf(f[p - 1] \o lo(p), side, UpTo(p - 1) \cup P)
      BY <2>1, <3>1, ListConcat
    <3>3. f[p] = f[p - 1] \o lo(p)
      BY <1>7, <2>5
    <3> QED BY <2>1, <2>2, <3>2, <3>3
  <2> QED BY <2>4, <2>5
<1>11. N \in T
  <2>1. 0..N \subseteq T
    <3> HIDE DEF T, N
    <3> QED BY <1>1, <1>9, <1>10, Along DEF N
  <2>2. N \in 0..N
    BY <1>1
  <2> HIDE DEF T
  <2> QED BY <2>1, <2>2
<1>12. UpTo(N) = Orders(b, side)
  BY <1>8
<1> QED BY <1>6, <1>11, <1>12

\* The lists have as many orders as the count says.
LEMMA CountIs ==
    ASSUME NEW b, BookOK(b), NEW n, Ids(b, n)
    PROVE  b.count = Len(sideOrders(b, 0)) + Len(sideOrders(b, 1))
<1>1. b \in BookSet /\ b.count = Cardinality(InUse(b)) /\ IsFiniteSet(InUse(b))
  BY UseFinite DEF BookOK
<1>2. ASSUME NEW side \in {0, 1}
      PROVE  /\ IsFiniteSet(Resting(b, side))
             /\ Cardinality(Resting(b, side)) = Len(sideOrders(b, side))
             /\ Len(sideOrders(b, side)) \in Nat
  <2>1. IsFiniteSet(Resting(b, side))
    BY <1>1, FS_Subset DEF Resting
  <2> DEFINE f == [s \in Resting(b, side) |-> Ord(b, s)]
  <2>2. f \in Bijection(Resting(b, side), Orders(b, side))
    <3>1. f \in [Resting(b, side) -> Orders(b, side)]
      BY DEF Orders
    <3>2. \A s, t \in Resting(b, side) : f[s] = f[t] => s = t
      <4> SUFFICES ASSUME NEW s \in Resting(b, side), NEW t \in Resting(b, side), f[s] = f[t]
                   PROVE  s = t
        OBVIOUS
      <4>1. s \in InUse(b) /\ t \in InUse(b) /\ Ord(b, s).id = Ord(b, t).id
        BY DEF Resting
      <4>2. b.oid[s] = b.oid[t]
        BY <4>1 DEF Ord
      <4> QED BY <4>1, <4>2 DEF Ids
    <3>3. \A o \in Orders(b, side) : \E s \in Resting(b, side) : f[s] = o
      BY DEF Orders
    <3> HIDE DEF f
    <3> QED BY <3>1, <3>2, <3>3 DEF Bijection, Injection, Surjection, IsInjective
  <2>3. ExistsBijection(Resting(b, side), Orders(b, side))
    BY <2>2 DEF ExistsBijection
  <2>4. Cardinality(Orders(b, side)) = Cardinality(Resting(b, side))
    BY <2>1, <2>3, FS_Bijection
  <2>5. ListOf(sideOrders(b, side), side, Orders(b, side))
    BY SideOrdersIs
  <2> QED BY <2>1, <2>4, <2>5, ListCount
<1>3. InUse(b) = Resting(b, 0) \cup Resting(b, 1) /\ Resting(b, 0) \cap Resting(b, 1) = {}
  <2>1. \A s \in InUse(b) : SideOf(b.lvl[s]) \in {0, 1}
    BY DEF SideOf
  <2> QED BY <2>1 DEF Resting
<1>4. Cardinality(Resting(b, 0) \cap Resting(b, 1)) = 0
  BY <1>3, FS_EmptySet
<1>5. Cardinality(Resting(b, 0) \cup Resting(b, 1))
        = Cardinality(Resting(b, 0)) + Cardinality(Resting(b, 1))
            - Cardinality(Resting(b, 0) \cap Resting(b, 1))
  BY <1>2, FS_Union
<1>6. PICK i \in Nat : i = Len(sideOrders(b, 0)) /\ i = Cardinality(Resting(b, 0))
  BY <1>2
<1>7. PICK j \in Nat : j = Len(sideOrders(b, 1)) /\ j = Cardinality(Resting(b, 1))
  BY <1>2
<1>8. b.count = i + j - 0
  BY <1>1, <1>3, <1>4, <1>5, <1>6, <1>7
<1> QED BY <1>6, <1>7, <1>8

-----------------------------------------------------------------------------
(* What the operations do to the orders. *)

\* The order of a slot leaves the book, and no other order changes.
LEMMA UnlinkOrders ==
    ASSUME NEW b, BookOK(b), NEW n, Ids(b, n), NEW c \in Chains, ChainsOK(b, c),
           NEW lv \in Levels, NEW i \in 1..Len(c[lv]), NEW s, s = c[lv][i],
           NEW b2, b2 = unlink(b, lv, Prior(c[lv], i), s)
    PROVE  /\ Ids(b2, n) /\ s \in InUse(b) /\ b.lvl[s] = lv
           /\ \A side \in {0, 1} : Orders(b2, side) = Orders(b, side) \ {Ord(b, s)}
<1> DEFINE q == c[lv]
           pr == Prior(q, i)
<1>1. b \in BookSet /\ b.count = Cardinality(InUse(b))
  BY DEF BookOK
<1>2. q \in Seq(Places) /\ Linked(b, lv, q) /\ i \in 1..Len(q) /\ Len(q) \in Nat
  BY DEF Chains, ChainsOK
<1>3. s \in InUse(b) /\ b.lvl[s] = lv /\ s \in Places
  BY <1>2 DEF Linked, InUse
<1>4. b.count # 0
  BY <1>1, <1>3, UseFinite, FS_EmptySet
<1>5. pr \in Slots /\ (i # 1 => pr = q[i - 1]) /\ (i = 1 => pr = 0)
  <2>1. i # 1 => i - 1 \in 1..Len(q)
    BY <1>2
  <2>2. \A k \in 1..Len(q) : q[k] \in Slots
    <3>1. \A k \in 1..Len(q) : q[k] \in Places
      BY <1>2
    <3> QED BY <3>1, Bounds
  <2>3. 0 \in Slots
    BY Bounds
  <2> HIDE DEF q
  <2> QED BY <1>2, <2>1, <2>2, <2>3 DEF Prior
<1> HIDE DEF q, pr
<1>6. Unlinked(b2, b, lv, pr, s)
  BY <1>1, <1>3, <1>4, <1>5, UnlinkFields DEF q, pr
<1>7. b2.acct = b.acct /\ b2.qty = b.qty
  BY <1>1 DEF unlink, BookSet
<1>8. s \in Slots /\ b.oid \in [Slots -> Nat] /\ b.nxt \in [Slots -> Slots]
  BY <1>1, <1>3, Bounds DEF BookSet
<1>9. /\ \A t \in Slots : b2.oid[t] = IF t = s THEN 0 ELSE b.oid[t]
      /\ \A t \in Slots : b2.nxt[t] = IF t = pr /\ pr # 0 THEN b.nxt[s] ELSE b.nxt[t]
      /\ b2.lvl = b.lvl
  BY <1>6, <1>8 DEF Unlinked
<1>10. InUse(b2) = InUse(b) \ {s}
  <2>1. \A t \in Places : b2.oid[t] = IF t = s THEN 0 ELSE b.oid[t]
    <3>1. \A t \in Places : t \in Slots
      BY Bounds
    <3> QED BY <1>9, <3>1
  <2> QED BY <2>1 DEF InUse
<1>11. \A t \in InUse(b) : t \in Slots /\ t # 0 /\ b.nxt[t] \in Slots /\ b.oid[t] \in Nat
  BY <1>8, Bounds DEF InUse
<1>12. \A t \in InUse(b2) : Ord(b2, t) = Ord(b, t)
  BY <1>7, <1>9, <1>10, <1>11 DEF Ord
\* Only the slot before s is linked to it.
<1>13. ASSUME NEW t \in InUse(b), b.nxt[t] = s PROVE t = pr
  <2>1. PICK l : l = b.lvl[t]
    OBVIOUS
  <2>2. l \in Levels
    BY <1>1, <1>11, <2>1 DEF BookSet
  <2>3. PICK d : d = c[l]
    OBVIOUS
  <2>4. d \in Seq(Places) /\ Linked(b, l, d) /\ Len(d) \in Nat
    BY <2>2, <2>3 DEF Chains, ChainsOK
  <2>5. PICK k \in 1..Len(d) : d[k] = t
    BY <2>1, <2>3 DEF ChainsOK, On
  <2>6. s # 0
    BY <1>3, Bounds
  <2>7. k # Len(d) /\ d[k + 1] = s
    BY <1>13, <2>4, <2>5, <2>6 DEF Linked
  <2>8. k + 1 \in 1..Len(d)
    BY <2>4, <2>7
  <2>9. l = lv
    BY <1>3, <2>4, <2>7, <2>8 DEF Linked
  <2>10. d = q
    BY <2>3, <2>9 DEF q
  <2>11. k + 1 = i
    <3>1. q[i] = s
      BY DEF q
    <3> QED BY <1>2, <2>7, <2>8, <2>10, <3>1 DEF Linked
  <2>12. i # 1 /\ i - 1 = k
    BY <2>4, <2>5, <2>11
  <2> QED BY <1>5, <2>5, <2>10, <2>12
<1>14. pr # 0 => pr \in InUse(b) /\ b.nxt[pr] = s
  <2> SUFFICES ASSUME pr # 0 PROVE pr \in InUse(b) /\ b.nxt[pr] = s
    OBVIOUS
  <2>1. i - 1 \in 1..Len(q) /\ i - 1 # Len(q) /\ (i - 1) + 1 = i /\ pr = q[i - 1]
    BY <1>2, <1>5
  <2>2. b.nxt[pr] = q[i] /\ b.oid[pr] # 0 /\ pr \in Places
    BY <1>2, <2>1 DEF Linked
  <2> QED BY <2>2 DEF InUse, q
<1>15. ASSUME NEW t \in InUse(b2), b2.nxt[t] # 0 PROVE b2.oid[t] < b2.oid[b2.nxt[t]]
  <2>1. t \in InUse(b) /\ t # s /\ b2.oid[t] = b.oid[t]
    BY <1>9, <1>10, <1>11
  <2>2. \A u, v \in InUse(b) : b.nxt[u] = v /\ v # 0 => b.oid[u] < b.oid[v]
    BY DEF Ids
  <2>3. CASE t = pr
    <3>1. b2.nxt[t] = b.nxt[s] /\ b.nxt[s] # 0
      BY <1>9, <1>11, <1>15, <2>1, <2>3
    <3>2. b.nxt[pr] = s /\ b.oid[pr] < b.oid[s]
      BY <1>3, <1>11, <1>14, <2>1, <2>2, <2>3
    <3>3. b.oid[s] < b.oid[b.nxt[s]]
      BY <1>3, <3>1 DEF Ids
    <3>4. b.oid[s] \in Nat /\ b.oid[t] \in Nat /\ b.nxt[s] \in Slots
      BY <1>3, <1>11, <2>1
    <3>5. b.nxt[s] # s
      BY <3>3, <3>4
    <3>6. b2.oid[b.nxt[s]] = b.oid[b.nxt[s]] /\ b.oid[b.nxt[s]] \in Nat
      BY <1>8, <1>9, <3>4, <3>5
    <3> QED BY <2>1, <2>3, <3>1, <3>2, <3>3, <3>4, <3>6
  <2>4. CASE t # pr
    <3>1. b2.nxt[t] = b.nxt[t]
      BY <1>9, <1>11, <2>1, <2>4
    <3>2. b.nxt[t] # s /\ b.nxt[t] \in Slots
      BY <1>11, <1>13, <2>1, <2>4
    <3>3. b2.oid[b.nxt[t]] = b.oid[b.nxt[t]]
      BY <1>9, <3>2
    <3>4. b.oid[t] < b.oid[b.nxt[t]]
      BY <1>15, <2>1, <3>1 DEF Ids
    <3> QED BY <2>1, <3>1, <3>3, <3>4
  <2> QED BY <2>3, <2>4
<1>16. Ids(b2, n)
  <2>1. \A t \in InUse(b2) : t \in InUse(b) /\ b2.oid[t] = b.oid[t] /\ b2.lvl[t] = b.lvl[t]
    BY <1>9, <1>10, <1>11
  <2>2. \A t, u \in InUse(b2) : b2.oid[t] = b2.oid[u] => t = u
    BY <2>1 DEF Ids
  <2>3. \A t \in InUse(b2) : b2.oid[t] < n /\ PriceOf(b2.lvl[t]) # 0
    BY <2>1 DEF Ids
  <2> QED BY <1>15, <2>2, <2>3 DEF Ids
<1>17. ASSUME NEW side \in {0, 1} PROVE Orders(b2, side) = Orders(b, side) \ {Ord(b, s)}
  <2>1. Resting(b2, side) = Resting(b, side) \ {s}
    BY <1>9, <1>10 DEF Resting
  <2>2. \A t \in InUse(b) : Ord(b, t) = Ord(b, s) => t = s
    <3> SUFFICES ASSUME NEW t \in InUse(b), Ord(b, t).id = Ord(b, s).id PROVE t = s
      OBVIOUS
    <3>1. b.oid[t] = b.oid[s]
      BY DEF Ord
    <3> QED BY <1>3, <3>1 DEF Ids
  <2>3. Resting(b, side) \subseteq InUse(b) /\ Resting(b2, side) \subseteq InUse(b2)
    BY DEF Resting
  <2> QED BY <1>12, <2>1, <2>2, <2>3 DEF Orders
<1> QED BY <1>3, <1>16, <1>17

\* An order comes to the book, and no other order changes.
LEMMA PlaceOrders ==
    ASSUME NEW b, BookOK(b), b.count < capacity,
           NEW side \in {0, 1}, NEW price \in 1..maxPrice,
           NEW id \in Nat, Ids(b, id), id # 0, NEW account \in Nat, NEW qty \in Nat,
           NEW b2, b2 = place(b, side, price, id, account, qty)
    PROVE  /\ Ids(b2, id + 1)
           /\ \A sd \in {0, 1} :
                 Orders(b2, sd) = IF sd = side
                                  THEN Orders(b, sd) \cup {Lists!Order(id, account, side, price, qty)}
                                  ELSE Orders(b, sd)
<1> DEFINE lv == level(side, price)
           s == freeSlot(b.oid)
<1>1. PICK c \in Chains : ChainsOK(b, c)
  BY DEF BookOK
<1>2. b \in BookSet /\ b.count = Cardinality(InUse(b))
  BY DEF BookOK
<1>3. lv \in Levels /\ SideOf(lv) = side /\ PriceOf(lv) = price /\ price \in 0..maxPrice /\ price # 0
  <2>1. price \in 0..maxPrice /\ price # 0
    BY Bounds
  <2> QED BY <2>1, LevelParts
<1>4. s \in Places /\ b.oid[s] = 0 /\ s \in Slots
  <2>1. Cardinality(InUse(b)) # slots
    BY <1>2, UseFinite, Bounds DEF capacity
  <2>2. Cardinality(Places) = slots
    BY FS_Interval, Bounds DEF Places
  <2>3. InUse(b) # Places
    BY <2>1, <2>2
  <2>4. PICK free \in Places : b.oid[free] = 0
    BY <2>3 DEF InUse
  <2> QED BY <2>4, FreeSlot, Bounds
<1> HIDE DEF s
<1>5. Placed(b2, b, lv, s, id)
  BY <1>2, <1>3, <1>4, PlaceFields DEF s
<1>6. b2.acct = [b.acct EXCEPT ![s] = account] /\ b2.qty = [b.qty EXCEPT ![s] = qty]
  BY <1>2 DEF place, BookSet, s
<1> HIDE DEF lv
<1>7. /\ b.oid \in [Slots -> Nat] /\ b.acct \in [Slots -> Nat] /\ b.qty \in [Slots -> Nat]
      /\ b.lvl \in [Slots -> Levels] /\ b.nxt \in [Slots -> Slots]
      /\ b.head \in [Levels -> Slots] /\ b.tail \in [Levels -> Slots]
  BY <1>2 DEF BookSet
<1>8. /\ \A t \in Slots : t # s => /\ b2.oid[t] = b.oid[t] /\ b2.lvl[t] = b.lvl[t]
                                   /\ b2.acct[t] = b.acct[t] /\ b2.qty[t] = b.qty[t]
      /\ b2.oid[s] = id /\ b2.lvl[s] = lv /\ b2.acct[s] = account /\ b2.qty[s] = qty
  BY <1>4, <1>5, <1>6, <1>7 DEF Placed
<1>9. InUse(b2) = InUse(b) \cup {s} /\ s \notin InUse(b)
  BY <1>4, <1>8, Bounds DEF InUse
<1>10. \A t \in InUse(b) : t \in Slots /\ t # 0 /\ t # s /\ b.nxt[t] \in Slots /\ b.oid[t] \in Nat
  BY <1>7, <1>9, Bounds DEF InUse
<1>11. b2.nxt[s] = 0
  <2> DEFINE linked == IF b.head[lv] = 0 THEN b.nxt ELSE [b.nxt EXCEPT ![b.tail[lv]] = s]
  <2>1. linked \in [Slots -> Slots] /\ b2.nxt = [linked EXCEPT ![s] = 0]
    BY <1>4, <1>5, <1>7 DEF Placed
  <2> HIDE DEF linked
  <2> QED BY <1>4, <2>1
<1>12. \A t \in InUse(b) : b2.nxt[t] = b.nxt[t] \/ b2.nxt[t] = s
  <2> DEFINE linked == IF b.head[lv] = 0 THEN b.nxt ELSE [b.nxt EXCEPT ![b.tail[lv]] = s]
  <2>1. linked \in [Slots -> Slots] /\ b2.nxt = [linked EXCEPT ![s] = 0]
    BY <1>4, <1>5, <1>7 DEF Placed
  <2>2. \A t \in Slots : linked[t] = b.nxt[t] \/ linked[t] = s
    BY <1>7
  <2> HIDE DEF linked
  <2>3. \A t \in Slots : t # s => b2.nxt[t] = linked[t]
    BY <2>1
  <2> QED BY <1>10, <2>2, <2>3
\* A slot that is linked to a slot in use is not linked to the free one.
<1>13. ASSUME NEW t \in InUse(b), b.nxt[t] # 0 PROVE b.nxt[t] \in InUse(b)
  <2>1. PICK l : l = b.lvl[t]
    OBVIOUS
  <2>2. l \in Levels
    BY <1>7, <1>10, <2>1
  <2>3. PICK d : d = c[l]
    OBVIOUS
  <2>4. d \in Seq(Places) /\ Linked(b, l, d) /\ Len(d) \in Nat
    BY <1>1, <2>2, <2>3 DEF Chains, ChainsOK
  <2>5. PICK k \in 1..Len(d) : d[k] = t
    BY <1>1, <2>1, <2>3 DEF ChainsOK, On
  <2>6. k # Len(d) /\ b.nxt[t] = d[k + 1]
    BY <1>13, <2>4, <2>5 DEF Linked
  <2>7. k + 1 \in 1..Len(d)
    BY <2>4, <2>6
  <2>8. d[k + 1] \in Places /\ b.oid[d[k + 1]] # 0
    BY <2>4, <2>7 DEF Linked
  <2> QED BY <2>6, <2>8 DEF InUse
<1>14. ASSUME NEW t \in InUse(b2), b2.nxt[t] # 0 PROVE b2.oid[t] < b2.oid[b2.nxt[t]]
  <2>1. t \in InUse(b) /\ b2.oid[t] = b.oid[t] /\ b.oid[t] < id
    BY <1>8, <1>9, <1>10, <1>11, <1>14 DEF Ids
  <2>2. CASE b2.nxt[t] = s
    BY <1>8, <2>1, <2>2
  <2>3. CASE b2.nxt[t] # s
    <3>1. b2.nxt[t] = b.nxt[t] /\ b.nxt[t] \in InUse(b)
      BY <1>12, <1>13, <1>14, <2>1, <2>3
    <3>2. b2.oid[b.nxt[t]] = b.oid[b.nxt[t]]
      BY <1>8, <1>10, <3>1
    <3>3. b.oid[t] < b.oid[b.nxt[t]]
      BY <1>14, <2>1, <3>1 DEF Ids
    <3> QED BY <2>1, <3>1, <3>2, <3>3
  <2> QED BY <2>2, <2>3
<1>15. Ids(b2, id + 1)
  <2>1. \A t \in InUse(b) : /\ b2.oid[t] = b.oid[t] /\ b2.lvl[t] = b.lvl[t] /\ b.oid[t] \in Nat
                            /\ b.oid[t] < id /\ PriceOf(b.lvl[t]) # 0
    BY <1>8, <1>10 DEF Ids
  <2>2. \A t, u \in InUse(b2) : b2.oid[t] = b2.oid[u] => t = u
    <3>1. \A t, u \in InUse(b) : b.oid[t] = b.oid[u] => t = u
      BY DEF Ids
    <3>2. \A t \in InUse(b) : b2.oid[t] # id
      BY <2>1
    <3> QED BY <1>8, <1>9, <2>1, <3>1, <3>2
  <2>3. \A t \in InUse(b2) : b2.oid[t] < id + 1
    <3>1. \A t \in InUse(b) : b.oid[t] < id + 1
      BY <2>1
    <3> QED BY <1>8, <1>9, <2>1, <3>1
  <2>4. \A t \in InUse(b2) : PriceOf(b2.lvl[t]) # 0
    BY <1>3, <1>8, <1>9, <2>1
  <2> QED BY <1>14, <2>2, <2>3, <2>4 DEF Ids
<1>16. /\ \A t \in InUse(b) : Ord(b2, t) = Ord(b, t)
       /\ Ord(b2, s) = Lists!Order(id, account, side, price, qty)
  BY <1>3, <1>8, <1>10 DEF Ord, Lists!Order
<1>17. ASSUME NEW sd \in {0, 1}
       PROVE  Orders(b2, sd) = IF sd = side
                               THEN Orders(b, sd) \cup {Lists!Order(id, account, side, price, qty)}
                               ELSE Orders(b, sd)
  <2>1. Resting(b2, sd) = IF sd = side THEN Resting(b, sd) \cup {s} ELSE Resting(b, sd)
    BY <1>3, <1>8, <1>9, <1>10 DEF Resting
  <2>2. \A t \in Resting(b, sd) : Ord(b2, t) = Ord(b, t)
    BY <1>16 DEF Resting
  <2>3. CASE sd = side
    BY <1>16, <2>1, <2>2, <2>3 DEF Orders
  <2>4. CASE sd # side
    BY <2>1, <2>2, <2>4 DEF Orders
  <2> QED BY <2>3, <2>4
<1> QED BY <1>15, <1>17

\* An order has another quantity, and no other order changes.
LEMMA QuantityOrders ==
    ASSUME NEW b, BookOK(b), NEW n, Ids(b, n), NEW s \in InUse(b), NEW x \in Nat,
           NEW b2, b2 = Requantified(b, s, x)
    PROVE  /\ Ids(b2, n)
           /\ \A side \in {0, 1} :
                 Orders(b2, side) =
                    {IF o.id = b.oid[s] THEN [o EXCEPT !.qty = x] ELSE o : o \in Orders(b, side)}
<1>1. b \in BookSet
  BY DEF BookOK
<1>2. s \in Slots /\ b.qty \in [Slots -> Nat]
  BY <1>1, OrdSet DEF BookSet
<1>3. /\ b2.oid = b.oid /\ b2.lvl = b.lvl /\ b2.nxt = b.nxt /\ b2.acct = b.acct
      /\ b2.qty = [b.qty EXCEPT ![s] = x]
  BY <1>1 DEF BookSet, Requantified
<1>4. InUse(b2) = InUse(b)
  BY <1>3 DEF InUse
<1>5. Ids(b2, n)
  BY <1>3, <1>4 DEF Ids
<1>6. ASSUME NEW side \in {0, 1}
      PROVE  Orders(b2, side) =
               {IF o.id = b.oid[s] THEN [o EXCEPT !.qty = x] ELSE o : o \in Orders(b, side)}
  <2>1. Resting(b2, side) = Resting(b, side)
    BY <1>3, <1>4 DEF Resting
  <2>2. ASSUME NEW t \in Resting(b, side)
        PROVE  Ord(b2, t) = IF Ord(b, t).id = b.oid[s] THEN [Ord(b, t) EXCEPT !.qty = x]
                            ELSE Ord(b, t)
    <3>1. t \in InUse(b) /\ t \in Slots /\ Ord(b, t).id = b.oid[t]
      BY <1>1, OrdSet DEF Resting
    <3>2. b.oid[t] = b.oid[s] <=> t = s
      BY <3>1 DEF Ids
    <3>3. b2.qty[t] = IF t = s THEN x ELSE b.qty[t]
      BY <1>2, <1>3, <3>1
    <3> QED BY <1>3, <3>1, <3>2, <3>3 DEF Ord
  <2> QED BY <2>1, <2>2 DEF Orders
<1> QED BY <1>5, <1>6

-----------------------------------------------------------------------------
(* What the queries of the book give. *)

\* The head of a level is the slot whose order was accepted first.
LEMMA HeadSlot ==
    ASSUME NEW b \in BookSet, NEW c \in Chains, ChainsOK(b, c), NEW n, Ids(b, n),
           NEW l \in Levels, NEW s, s = b.head[l]
    PROVE  /\ s = 0 => \A t \in InUse(b) : b.lvl[t] # l
           /\ s # 0 => /\ s \in InUse(b) /\ b.lvl[s] = l /\ 1 \in 1..Len(c[l]) /\ c[l][1] = s
                       /\ \A t \in InUse(b) : b.lvl[t] = l => t = s \/ b.oid[s] < b.oid[t]
<1>1. PICK q : q = c[l]
  OBVIOUS
<1>2. q \in Seq(Places) /\ Linked(b, l, q) /\ Len(q) \in Nat
  BY <1>1 DEF Chains, ChainsOK
<1>3. s = IF Len(q) = 0 THEN 0 ELSE q[1]
  BY <1>2 DEF Linked
<1>4. \A t \in InUse(b) : b.lvl[t] = l => \E k \in 1..Len(q) : q[k] = t
  BY <1>1 DEF ChainsOK, On
<1>5. \A k \in 1..Len(q) : q[k] \in Places /\ q[k] # 0 /\ b.oid[q[k]] # 0 /\ b.lvl[q[k]] = l
  <2>1. \A k \in 1..Len(q) : q[k] \in Places
    BY <1>2
  <2>2. \A x \in Places : x # 0
    BY Bounds
  <2> QED BY <1>2, <2>1, <2>2 DEF Linked
<1>6. CASE Len(q) = 0
  BY <1>2, <1>3, <1>4, <1>6
<1>7. CASE Len(q) # 0
  <2>1. 1 \in 1..Len(q) /\ s = q[1]
    BY <1>2, <1>3, <1>7
  <2>2. s # 0 /\ s \in InUse(b) /\ b.lvl[s] = l
    BY <1>5, <2>1 DEF InUse
  <2>3. ASSUME NEW t \in InUse(b), b.lvl[t] = l PROVE t = s \/ b.oid[s] < b.oid[t]
    <3>1. PICK k \in 1..Len(q) : q[k] = t
      BY <1>4, <2>3
    <3>2. k = 1 \/ 1 < k
      OBVIOUS
    <3>3. \A i, j \in 1..Len(q) : i < j => b.oid[q[i]] < b.oid[q[j]]
      BY <1>2, ChainUp
    <3> QED BY <2>1, <3>1, <3>2, <3>3
  <2> QED BY <1>1, <2>1, <2>2, <2>3
<1> QED BY <1>6, <1>7

\* The price p is no worse than the price r.
NoWorse(side, p, r) == IF side = 0 THEN r <= p ELSE p <= r

\* The head of the best level is the first order of the list.
LEMMA BestHead ==
    ASSUME NEW b, BookOK(b), NEW n, Ids(b, n), NEW side \in {0, 1}, NEW p \in 1..maxPrice,
           NEW s, s = b.head[level(side, p)], s # 0,
           \A t \in Resting(b, side) : NoWorse(side, p, PriceOf(b.lvl[t]))
    PROVE  /\ sideOrders(b, side) # <<>> /\ Head(sideOrders(b, side)) = Ord(b, s)
           /\ s \in Resting(b, side) /\ Ord(b, s).price = p
           /\ \A r \in Orders(b, side) : r # Ord(b, s) => Before(side, Ord(b, s), r)
<1>1. PICK c \in Chains : b \in BookSet /\ ChainsOK(b, c)
  BY DEF BookOK
<1>2. PICK l : l = level(side, p)
  OBVIOUS
<1>3. l \in Levels /\ SideOf(l) = side /\ PriceOf(l) = p /\ maxPrice \in Nat
  <2>1. p \in 0..maxPrice
    BY Bounds
  <2> QED BY <1>2, <2>1, LevelParts, Bounds
<1>4. /\ s \in InUse(b) /\ b.lvl[s] = l
      /\ \A t \in InUse(b) : b.lvl[t] = l => t = s \/ b.oid[s] < b.oid[t]
  BY <1>1, <1>2, <1>3, HeadSlot
<1>5. /\ s \in Resting(b, side) /\ Ord(b, s) \in Orders(b, side) /\ Ord(b, s).price = p
      /\ Ord(b, s).id = b.oid[s]
  BY <1>3, <1>4 DEF Resting, Orders, Ord
<1>6. ASSUME NEW t \in Resting(b, side), Ord(b, t) # Ord(b, s)
      PROVE  Before(side, Ord(b, s), Ord(b, t))
  <2>1. /\ t \in InUse(b) /\ b.lvl[t] \in Levels /\ SideOf(b.lvl[t]) = side
        /\ Ord(b, t).price = PriceOf(b.lvl[t]) /\ Ord(b, t).id = b.oid[t]
        /\ PriceOf(b.lvl[t]) \in Nat
    BY <1>1, OrdSet, LevelParts DEF Resting
  <2>2. CASE PriceOf(b.lvl[t]) = p
    <3>1. b.lvl[t] = l
      BY <1>2, <2>1, <2>2, LevelParts
    <3>2. b.oid[s] < b.oid[t]
      BY <1>4, <1>6, <2>1, <3>1
    <3> QED BY <1>5, <2>1, <2>2, <3>2 DEF Before
  <2>3. CASE PriceOf(b.lvl[t]) # p
    <3>1. IF side = 0 THEN PriceOf(b.lvl[t]) <= p ELSE p <= PriceOf(b.lvl[t])
      BY DEF NoWorse
    <3>2. IF side = 0 THEN PriceOf(b.lvl[t]) < p ELSE p < PriceOf(b.lvl[t])
      BY <2>1, <2>3, <3>1
    <3> QED BY <1>5, <2>1, <3>2 DEF Before
  <2> QED BY <2>2, <2>3
<1>7. \A r \in Orders(b, side) : r # Ord(b, s) => Before(side, Ord(b, s), r)
  BY <1>6 DEF Orders
<1>8. sideOrders(b, side) # <<>> /\ Head(sideOrders(b, side)) = Ord(b, s)
  <2>1. ListOf(sideOrders(b, side), side, Orders(b, side))
    BY SideOrdersIs
  <2> QED BY <1>5, <1>7, <2>1, ListHead
<1> QED BY <1>5, <1>7, <1>8

\* The best price of a side with no order is 0; that of a side with orders is that
\* of a level whose head is first, and no order has a better one.
LEMMA BestLevel ==
    ASSUME NEW b, BookOK(b), NEW n, Ids(b, n), NEW side \in {0, 1}, NEW p, p = bestPrice(b, side)
    PROVE  \/ p = 0 /\ Resting(b, side) = {}
           \/ /\ p \in 1..maxPrice /\ b.head[level(side, p)] # 0
              /\ \A t \in Resting(b, side) : NoWorse(side, p, PriceOf(b.lvl[t]))
<1>1. b \in BookSet /\ maxPrice \in Nat /\ bandFuel = maxPrice
  BY Bounds DEF BookOK, bandFuel
<1>2. PICK c \in Chains : ChainsOK(b, c)
  BY DEF BookOK
<1> DEFINE Empty(r) == b.head[level(side, r)] = 0
\* A level without a head has no order.
<1>3. \A t \in Resting(b, side) : /\ PriceOf(b.lvl[t]) \in 1..maxPrice
                                  /\ ~Empty(PriceOf(b.lvl[t]))
  <2> SUFFICES ASSUME NEW t \in Resting(b, side)
               PROVE  PriceOf(b.lvl[t]) \in 1..maxPrice /\ ~Empty(PriceOf(b.lvl[t]))
    OBVIOUS
  <2>1. t \in InUse(b) /\ SideOf(b.lvl[t]) = side
    BY DEF Resting
  <2>2. b.lvl[t] \in Levels
    BY <1>1, <2>1, OrdSet
  <2>3. level(side, PriceOf(b.lvl[t])) = b.lvl[t] /\ PriceOf(b.lvl[t]) \in 0..maxPrice
    BY <2>1, <2>2, LevelParts
  <2>4. PriceOf(b.lvl[t]) # 0
    BY <2>1 DEF Ids
  <2>5. b.head[b.lvl[t]] # 0
    BY <1>1, <1>2, <2>1, <2>2, HeadSlot
  <2> QED BY <1>1, <2>3, <2>4, <2>5
<1>4. CASE side = 0
  <2> DEFINE G == [r \in Nat |-> IF r # 0 /\ b.head[level(0, r)] = 0 THEN r - 1 ELSE r]
             Loop(f) == f = [k \in 0..maxPrice |->
                               IF k = 0 THEN maxPrice
                               ELSE IF f[k - 1] # 0 /\ b.head[level(0, f[k - 1])] = 0
                               THEN f[k - 1] - 1 ELSE f[k - 1]]
  <2>1. \E f : Loop(f)
    <3>1. G \in [Nat -> Nat]
      <4>1. \A r \in Nat : r # 0 => r - 1 \in Nat
        OBVIOUS
      <4> QED BY <4>1
    <3>2. PICK f \in [0..maxPrice -> Nat] : IsLoop(f, maxPrice, maxPrice, G)
      <4> HIDE DEF G
      <4> QED BY <1>1, <3>1, LoopExists
    <3>3. \A k \in 0..maxPrice : k = 0 \/ f[k - 1] \in Nat
      BY <1>1
    <3>4. \A k \in 0..maxPrice : f[k] = IF k = 0 THEN maxPrice ELSE G[f[k - 1]]
      <4> HIDE DEF G
      <4> QED BY <3>2 DEF IsLoop
    <3>5. \A r \in Nat : G[r] = IF r # 0 /\ b.head[level(0, r)] = 0 THEN r - 1 ELSE r
      OBVIOUS
    <3>6. \A k \in 0..maxPrice :
             f[k] = IF k = 0 THEN maxPrice
                    ELSE IF f[k - 1] # 0 /\ b.head[level(0, f[k - 1])] = 0
                    THEN f[k - 1] - 1 ELSE f[k - 1]
      <4> HIDE DEF G
      <4> QED BY <3>3, <3>4, <3>5
    <3>7. Loop(f)
      BY <3>2, <3>6
    <3> QED BY <3>7
  <2>2. PICK f : Loop(f) /\ p = f[maxPrice]
    BY <1>1, <1>4, <2>1 DEF bestPrice, repeatWhile
  <2> DEFINE T == {k \in 0..maxPrice :
                     /\ f[k] \in 0..maxPrice
                     /\ f[k] = 0 \/ ~Empty(f[k]) \/ f[k] = maxPrice - k
                     /\ \A r \in 1..maxPrice : f[k] < r => Empty(r)}
  <2>3. 0 \in T
    BY <1>1, <2>2
  <2>4. ASSUME NEW k \in 1..maxPrice, k - 1 \in T PROVE k \in T
    <3>1. k \in 0..maxPrice /\ k # 0
      BY <1>1
    <3>2. f[k] = IF f[k - 1] # 0 /\ Empty(f[k - 1]) THEN f[k - 1] - 1 ELSE f[k - 1]
      BY <1>4, <2>2, <3>1
    <3>3. PICK r : r = f[k - 1]
      OBVIOUS
    <3>4. /\ r \in 0..maxPrice /\ (r = 0 \/ ~Empty(r) \/ r = maxPrice - (k - 1))
          /\ \A x \in 1..maxPrice : r < x => Empty(x)
      BY <2>4, <3>3
    <3>5. f[k] = IF r # 0 /\ Empty(r) THEN r - 1 ELSE r
      BY <3>2, <3>3
    <3> HIDE DEF Empty
    <3> QED BY <1>1, <3>1, <3>4, <3>5
  <2>5. 0..maxPrice \subseteq T
    <3> HIDE DEF T
    <3> QED BY <1>1, <2>3, <2>4, Along
  <2>6. maxPrice \in T
    <3> HIDE DEF T
    <3> QED BY <1>1, <2>5
  <2>7. /\ p \in 0..maxPrice /\ (p = 0 \/ ~Empty(p))
        /\ \A r \in 1..maxPrice : p < r => Empty(r)
    <3>1. maxPrice - maxPrice = 0
      BY <1>1
    <3> HIDE DEF Empty
    <3> QED BY <2>2, <2>6, <3>1
  <2>8. \A t \in Resting(b, side) : NoWorse(side, p, PriceOf(b.lvl[t]))
    <3> HIDE DEF Empty
    <3> QED BY <1>1, <1>3, <1>4, <2>7 DEF NoWorse
  <2>9. p = 0 => Resting(b, side) = {}
    <3> HIDE DEF Empty
    <3> QED BY <1>1, <1>3, <2>7
  <2> QED BY <1>1, <2>7, <2>8, <2>9
<1>5. CASE side = 1
  <2> DEFINE G == [r \in Nat |-> IF r <= maxPrice /\ b.head[level(1, r)] = 0 THEN r + 1 ELSE r]
             Loop(f) == f = [k \in 0..maxPrice |->
                               IF k = 0 THEN 1
                               ELSE IF f[k - 1] <= maxPrice /\ b.head[level(1, f[k - 1])] = 0
                               THEN f[k - 1] + 1 ELSE f[k - 1]]
  <2>1. \E f : Loop(f)
    <3>1. G \in [Nat -> Nat]
      OBVIOUS
    <3>2. PICK f \in [0..maxPrice -> Nat] : IsLoop(f, maxPrice, 1, G)
      <4> HIDE DEF G
      <4> QED BY <1>1, <3>1, LoopExists
    <3>3. \A k \in 0..maxPrice : k = 0 \/ f[k - 1] \in Nat
      BY <1>1
    <3>4. \A k \in 0..maxPrice : f[k] = IF k = 0 THEN 1 ELSE G[f[k - 1]]
      <4> HIDE DEF G
      <4> QED BY <3>2 DEF IsLoop
    <3>5. \A r \in Nat : G[r] = IF r <= maxPrice /\ b.head[level(1, r)] = 0 THEN r + 1 ELSE r
      OBVIOUS
    <3>6. \A k \in 0..maxPrice :
             f[k] = IF k = 0 THEN 1
                    ELSE IF f[k - 1] <= maxPrice /\ b.head[level(1, f[k - 1])] = 0
                    THEN f[k - 1] + 1 ELSE f[k - 1]
      <4> HIDE DEF G
      <4> QED BY <3>3, <3>4, <3>5
    <3>7. Loop(f)
      BY <3>2, <3>6
    <3> QED BY <3>7
  <2>2. PICK f : Loop(f) /\ p = IF f[maxPrice] <= maxPrice THEN f[maxPrice] ELSE 0
    <3>1. side # 0
      BY <1>5
    <3>2. bestPrice(b, side) =
            LET q == (CHOOSE f : Loop(f))[maxPrice] IN IF q <= maxPrice THEN q ELSE 0
      BY <1>1, <3>1 DEF bestPrice, repeatWhile
    <3> HIDE DEF Loop
    <3> QED BY <2>1, <3>2
  <2> DEFINE T == {k \in 0..maxPrice :
                     /\ f[k] \in 1..(maxPrice + 1)
                     /\ f[k] = maxPrice + 1 \/ ~Empty(f[k]) \/ f[k] = k + 1
                     /\ \A r \in 1..maxPrice : r < f[k] => Empty(r)}
  <2>3. 0 \in T
    BY <1>1, <2>2
  <2>4. ASSUME NEW k \in 1..maxPrice, k - 1 \in T PROVE k \in T
    <3>1. k \in 0..maxPrice /\ k # 0
      BY <1>1
    <3>2. f[k] = IF f[k - 1] <= maxPrice /\ Empty(f[k - 1]) THEN f[k - 1] + 1 ELSE f[k - 1]
      BY <1>5, <2>2, <3>1
    <3>3. PICK r : r = f[k - 1]
      OBVIOUS
    <3>4. /\ r \in 1..(maxPrice + 1) /\ (r = maxPrice + 1 \/ ~Empty(r) \/ r = (k - 1) + 1)
          /\ \A x \in 1..maxPrice : x < r => Empty(x)
      BY <2>4, <3>3
    <3>5. f[k] = IF r <= maxPrice /\ Empty(r) THEN r + 1 ELSE r
      BY <3>2, <3>3
    <3> HIDE DEF Empty
    <3> QED BY <1>1, <3>1, <3>4, <3>5
  <2>5. 0..maxPrice \subseteq T
    <3> HIDE DEF T
    <3> QED BY <1>1, <2>3, <2>4, Along
  <2>6. maxPrice \in T
    <3> HIDE DEF T
    <3> QED BY <1>1, <2>5
  <2>7. /\ f[maxPrice] \in 1..(maxPrice + 1)
        /\ f[maxPrice] = maxPrice + 1 \/ ~Empty(f[maxPrice])
        /\ \A r \in 1..maxPrice : r < f[maxPrice] => Empty(r)
    <3> HIDE DEF Empty
    <3> QED BY <2>6
  <2> HIDE DEF Empty
  <2>8. \A t \in Resting(b, side) : /\ ~(PriceOf(b.lvl[t]) < f[maxPrice])
                                    /\ PriceOf(b.lvl[t]) \in 1..maxPrice
    BY <1>3, <2>7
  <2>9. CASE f[maxPrice] <= maxPrice
    <3>1. p = f[maxPrice] /\ p \in 1..maxPrice /\ ~Empty(p)
      BY <1>1, <2>2, <2>7, <2>9
    <3>2. \A t \in Resting(b, side) : NoWorse(side, p, PriceOf(b.lvl[t]))
      BY <1>1, <1>5, <2>8, <3>1 DEF NoWorse
    <3> QED BY <3>1, <3>2 DEF Empty
  <2>10. CASE ~(f[maxPrice] <= maxPrice)
    <3>1. p = 0 /\ f[maxPrice] = maxPrice + 1
      BY <1>1, <2>2, <2>7, <2>10
    <3>2. Resting(b, side) = {}
      BY <1>1, <2>8, <3>1
    <3> QED BY <3>1, <3>2
  <2> QED BY <2>9, <2>10
<1> QED BY <1>4, <1>5

\* The best price is that of the list.
LEMMA BestPriceIs ==
    ASSUME NEW b, BookOK(b), NEW n, Ids(b, n), NEW side \in {0, 1}
    PROVE  /\ bestPrice(b, side) = Lists!bestPrice(sideOrders(b, side))
           /\ bestPrice(b, side) = 0 <=> sideOrders(b, side) = <<>>
<1>1. PICK p : p = bestPrice(b, side)
  OBVIOUS
<1>2. ListOf(sideOrders(b, side), side, Orders(b, side))
  BY SideOrdersIs
<1>3. CASE p = 0 /\ Resting(b, side) = {}
  <2>1. Orders(b, side) = {}
    BY <1>3 DEF Orders
  <2>2. sideOrders(b, side) = <<>>
    BY <1>2, <2>1, ListNone, OneList
  <2> QED BY <1>1, <1>3, <2>2 DEF Lists!bestPrice
<1>4. CASE /\ p \in 1..maxPrice /\ b.head[level(side, p)] # 0
           /\ \A t \in Resting(b, side) : NoWorse(side, p, PriceOf(b.lvl[t]))
  <2>1. PICK s : s = b.head[level(side, p)]
    OBVIOUS
  <2>2. /\ sideOrders(b, side) # <<>> /\ Head(sideOrders(b, side)) = Ord(b, s)
        /\ Ord(b, s).price = p
    BY <1>4, <2>1, BestHead
  <2>3. p # 0
    BY <1>4
  <2> QED BY <1>1, <2>2, <2>3 DEF Lists!bestPrice
<1> QED BY <1>1, <1>3, <1>4, BestLevel

\* The quantity of the best level is that of the orders at the best price.
LEMMA BestQtyIs ==
    ASSUME NEW b, BookOK(b), NEW n, Ids(b, n), NEW side \in {0, 1},
           NEW p, p = bestPrice(b, side), p # 0
    PROVE  levelQty(b, level(side, p)) = Lists!bestQty(sideOrders(b, side))
<1>1. PICK c \in Chains : b \in BookSet /\ ChainsOK(b, c)
  BY DEF BookOK
<1>2. /\ p \in 1..maxPrice /\ b.head[level(side, p)] # 0
      /\ \A t \in Resting(b, side) : NoWorse(side, p, PriceOf(b.lvl[t]))
  BY BestLevel
<1>3. PICK l : l = level(side, p)
  OBVIOUS
<1>4. PICK q : q = c[l]
  OBVIOUS
<1>5. l \in Levels /\ maxPrice \in Nat /\ p \in Nat
  <2>1. p \in 0..maxPrice
    BY <1>2, Bounds
  <2> QED BY <1>2, <1>3, <2>1, LevelParts, Bounds
<1>6. q \in Seq(Places) /\ Linked(b, l, q) /\ Len(q) \in Nat /\ Len(q) <= slots
  <2>1. q \in Seq(Places) /\ Linked(b, l, q)
    BY <1>1, <1>4, <1>5 DEF Chains, ChainsOK
  <2> QED BY <2>1, ShortChain
<1>7. PICK os : os = sideOrders(b, side)
  OBVIOUS
<1>8. ListOf(os, side, Orders(b, side))
  BY <1>7, SideOrdersIs
<1>9. PICK lo : lo = levelOrders(b, side, p)
  OBVIOUS
<1> DEFINE At == {o \in Orders(b, side) : o.price = p}
<1>10. /\ ListOf(lo, side, At) /\ Len(lo) = Len(q)
       /\ \A k \in 1..Len(q) : lo[k] = Ord(b, q[k])
  BY <1>1, <1>2, <1>3, <1>4, <1>9, LevelOrdersIs
<1>11. \A x \in At, y \in Orders(b, side) \ At : Before(side, x, y)
  <2> SUFFICES ASSUME NEW x \in At, NEW t \in Resting(b, side), Ord(b, t).price # p
               PROVE  Before(side, x, Ord(b, t))
    BY DEF Orders
  <2>1. t \in InUse(b) /\ Ord(b, t).price = PriceOf(b.lvl[t]) /\ Ord(b, t).price \in Nat
    BY <1>1, OrdSet DEF Resting, OrderSet
  <2>2. NoWorse(side, p, Ord(b, t).price)
    BY <1>2, <2>1
  <2> QED BY <1>5, <2>1, <2>2 DEF NoWorse, Before
<1>12. \A k \in 1..Len(q) : k \in 1..Len(os) /\ os[k] = lo[k]
  <2>1. At \subseteq Orders(b, side)
    OBVIOUS
  <2> HIDE DEF At
  <2> QED BY <1>8, <1>10, <1>11, <2>1, ListAgrees
<1>13. Len(os) \in Nat /\ \A k \in 1..Len(os) : os[k] \in OrderSet /\ os[k].qty \in Nat
  <2>1. Len(os) \in Nat /\ \A k \in 1..Len(os) : os[k] \in OrderSet
    BY <1>8 DEF ListOf
  <2>2. \A o \in OrderSet : o.qty \in Nat
    BY DEF OrderSet
  <2> QED BY <2>1, <2>2
<1>14. Len(q) <= Len(os)
  BY <1>6, <1>12, <1>13
\* The orders at the best price are the first ones.
<1>15. \A k \in 1..Len(os) : os[k].price = p <=> k <= Len(q)
  <2> SUFFICES ASSUME NEW k \in 1..Len(os) PROVE os[k].price = p <=> k <= Len(q)
    OBVIOUS
  <2>1. CASE k <= Len(q)
    <3>1. k \in 1..Len(q)
      BY <1>6, <2>1
    <3>2. lo[k] \in At
      BY <1>10, <3>1 DEF ListOf
    <3> QED BY <1>12, <2>1, <3>1, <3>2
  <2>2. ASSUME os[k].price = p PROVE k <= Len(q)
    <3>1. os[k] \in At
      BY <1>8, <2>2 DEF ListOf
    <3>2. PICK j \in 1..Len(q) : lo[j] = os[k]
      BY <1>10, <3>1 DEF ListOf
    <3>3. j = k
      BY <1>8, <1>12, <3>2, ListOnce
    <3> QED BY <1>6, <3>3
  <2> QED BY <2>1, <2>2
<1>16. Lists!bestPrice(os) = p
  BY <1>7, BestPriceIs
\* The sum of the list.
<1> DEFINE GS == [k \in 1..Len(os) |-> [v \in Nat |->
                    IF os[k].price = p THEN v + os[k].qty ELSE v]]
           Sum(f) == f = [k \in 0..Len(os) |->
                            IF k = 0 THEN 0
                            ELSE IF os[k].price = p THEN f[k - 1] + os[k].qty ELSE f[k - 1]]
<1>17. \E f \in [0..Len(os) -> Nat] : Sum(f)
  <2>1. GS \in [1..Len(os) -> [Nat -> Nat]]
    BY <1>13
  <2>2. PICK f \in [0..Len(os) -> Nat] : IsLoopAt(f, Len(os), 0, GS)
    <3> HIDE DEF GS
    <3> QED BY <1>13, <2>1, LoopAt
  <2>3. \A k \in 0..Len(os) : f[k] = IF k = 0 THEN 0 ELSE GS[k][f[k - 1]]
    <3> HIDE DEF GS
    <3> QED BY <2>2 DEF IsLoopAt
  <2>4. \A k \in 1..Len(os) : \A v \in Nat :
           GS[k][v] = IF os[k].price = p THEN v + os[k].qty ELSE v
    OBVIOUS
  <2>5. \A k \in 0..Len(os) : k = 0 \/ (k \in 1..Len(os) /\ f[k - 1] \in Nat)
    BY <1>13
  <2>6. \A k \in 0..Len(os) :
           f[k] = IF k = 0 THEN 0
                  ELSE IF os[k].price = p THEN f[k - 1] + os[k].qty ELSE f[k - 1]
    <3> HIDE DEF GS
    <3> QED BY <2>3, <2>4, <2>5
  <2> QED BY <2>2, <2>6
<1>18. PICK sum \in [0..Len(os) -> Nat] : Sum(sum) /\ Lists!bestQty(os) = sum[Len(os)]
  <2>1. Lists!bestQty(os) = (CHOOSE f : Sum(f))[Len(os)]
    <3>1. Lists!bestQty(os)
            = LET f == CHOOSE f : f = [k \in 0..Len(os) |->
                        IF k = 0 THEN 0
                        ELSE IF os[k].price = Lists!bestPrice(os) THEN f[k - 1] + os[k].qty
                        ELSE f[k - 1]]
              IN f[Len(os)]
      BY DEF Lists!bestQty
    <3> QED BY <1>16, <3>1
  <2>2. Sum(CHOOSE f : Sum(f))
    <3> HIDE DEF Sum
    <3> QED BY <1>17
  <2>3. PICK f \in [0..Len(os) -> Nat] : Sum(f)
    BY <1>17
  <2>4. PICK g : g = CHOOSE h : Sum(h)
    OBVIOUS
  <2>5. Sum(g) /\ Lists!bestQty(os) = g[Len(os)]
    <3> HIDE DEF Sum
    <3> QED BY <2>1, <2>2, <2>4
  <2> DEFINE U == {k \in 0..Len(os) : g[k] \in Nat}
  <2>6. 0 \in U
    BY <1>13, <2>5
  <2>7. ASSUME NEW k \in 1..Len(os), k - 1 \in U PROVE k \in U
    <3>1. k \in 0..Len(os) /\ k # 0 /\ g[k - 1] \in Nat /\ os[k].qty \in Nat
      BY <1>13, <2>7
    <3>2. g[k] = IF os[k].price = p THEN g[k - 1] + os[k].qty ELSE g[k - 1]
      BY <2>5, <3>1
    <3> QED BY <3>1, <3>2
  <2>8. 0..Len(os) \subseteq U
    <3> HIDE DEF U, Sum
    <3> QED BY <1>13, <2>6, <2>7, Along
  <2>9. g \in [0..Len(os) -> Nat]
    BY <2>5, <2>8
  <2> HIDE DEF Sum, U
  <2> QED BY <2>5, <2>9
<1>19. /\ sum[0] = 0
       /\ \A k \in 1..Len(q) : sum[k] = sum[k - 1] + b.qty[q[k]]
       /\ \A k \in 1..Len(os) : k > Len(q) => sum[k] = sum[k - 1]
  <2>1. \A k \in 1..Len(os) : sum[k] = IF os[k].price = p THEN sum[k - 1] + os[k].qty ELSE sum[k - 1]
    <3>1. \A k \in 1..Len(os) : k \in 0..Len(os) /\ k # 0
      BY <1>13
    <3> QED BY <1>18, <3>1
  <2>2. \A k \in 1..Len(q) : os[k].qty = b.qty[q[k]] /\ k <= Len(q) /\ k \in 1..Len(os)
    <3>1. \A k \in 1..Len(q) : Ord(b, q[k]).qty = b.qty[q[k]]
      BY DEF Ord
    <3> QED BY <1>6, <1>10, <1>12, <3>1
  <2>3. sum[0] = 0
    BY <1>13, <1>18
  <2>4. \A k \in 1..Len(q) : sum[k] = sum[k - 1] + b.qty[q[k]]
    BY <1>15, <2>1, <2>2
  <2>5. \A k \in 1..Len(os) : k > Len(q) => ~(k <= Len(q))
    BY <1>6
  <2> QED BY <1>15, <2>1, <2>3, <2>4, <2>5
<1> HIDE DEF Sum
<1>20. sum[Len(os)] = sum[Len(q)]
  <2> DEFINE U == {k \in 0..Len(os) : k > Len(q) => sum[k] = sum[Len(q)]}
  <2>1. 0 \in U
    BY <1>6, <1>13
  <2>2. ASSUME NEW k \in 1..Len(os), k - 1 \in U PROVE k \in U
    <3>1. CASE k > Len(q)
      <4>1. sum[k] = sum[k - 1]
        BY <1>19, <3>1
      <4>2. k - 1 = Len(q) \/ k - 1 > Len(q)
        BY <1>6, <3>1
      <4> QED BY <1>13, <2>2, <4>1, <4>2
    <3>2. CASE ~(k > Len(q))
      BY <1>13, <3>2
    <3> QED BY <3>1, <3>2
  <2>3. 0..Len(os) \subseteq U
    <3> HIDE DEF U
    <3> QED BY <1>13, <2>1, <2>2, Along
  <2>4. Len(os) = Len(q) \/ Len(os) > Len(q)
    BY <1>6, <1>13, <1>14
  <2> QED BY <1>13, <2>3, <2>4
\* The sum along the chain.
<1>21. /\ b.nxt \in [Slots -> Slots] /\ b.qty \in [Slots -> Nat] /\ b.head \in [Levels -> Slots]
       /\ chainFuel = slots /\ slots \in Nat
  BY <1>1, Bounds DEF BookSet, chainFuel
<1> DEFINE Run == Slots \X Nat
           x == <<b.head[l], 0>>
           G == [st \in Run |-> IF st[1] # 0 THEN <<b.nxt[st[1]], st[2] + b.qty[st[1]]>> ELSE st]
           Loop(f) == f = [k \in 0..slots |->
                             IF k = 0 THEN <<b.head[l], 0>>
                             ELSE IF f[k - 1][1] # 0
                             THEN <<b.nxt[f[k - 1][1]], f[k - 1][2] + b.qty[f[k - 1][1]]>>
                             ELSE f[k - 1]]
<1>22. \E f : Loop(f)
  <2>1. x \in Run
    BY <1>5, <1>21
  <2>2. G \in [Run -> Run]
    <3>1. ASSUME NEW st \in Run
          PROVE  <<b.nxt[st[1]], st[2] + b.qty[st[1]]>> \in Run
      BY <1>21
    <3> QED BY <3>1
  <2>3. \A st \in Run : G[st] = IF st[1] # 0 THEN <<b.nxt[st[1]], st[2] + b.qty[st[1]]>> ELSE st
    OBVIOUS
  <2>4. PICK f \in [0..slots -> Run] : IsLoop(f, slots, x, G)
    <3> HIDE DEF G, x, Run
    <3> QED BY <1>21, <2>1, <2>2, LoopExists
  <2>5. \A k \in 0..slots : f[k] = IF k = 0 THEN x ELSE G[f[k - 1]]
    <3> HIDE DEF G, x
    <3> QED BY <2>4 DEF IsLoop
  <2>6. \A k \in 0..slots : k = 0 \/ f[k - 1] \in Run
    <3> HIDE DEF Run
    <3> QED BY <1>21, <2>4
  <2>7. \A k \in 0..slots :
           f[k] = IF k = 0 THEN <<b.head[l], 0>>
                  ELSE IF f[k - 1][1] # 0
                  THEN <<b.nxt[f[k - 1][1]], f[k - 1][2] + b.qty[f[k - 1][1]]>>
                  ELSE f[k - 1]
    <3> HIDE DEF G, Run
    <3> QED BY <2>3, <2>5, <2>6
  <2>8. Loop(f)
    BY <2>4, <2>7
  <2> QED BY <2>8
<1>23. PICK f : Loop(f) /\ levelQty(b, l) = f[slots][2]
  <2>1. levelQty(b, l) = (CHOOSE f : Loop(f))[slots][2]
    BY <1>21 DEF levelQty, repeatWhile
  <2> HIDE DEF Loop
  <2> QED BY <1>22, <2>1
<1>24. /\ f[0] = <<b.head[l], 0>>
       /\ \A k \in 1..slots : f[k] = IF f[k - 1][1] # 0
                                     THEN <<b.nxt[f[k - 1][1]], f[k - 1][2] + b.qty[f[k - 1][1]]>>
                                     ELSE f[k - 1]
  <2>1. 0 \in 0..slots /\ \A k \in 1..slots : k \in 0..slots /\ k # 0
    BY <1>21
  <2> QED BY <1>23, <2>1
<1>25. /\ b.head[l] = IF Len(q) = 0 THEN 0 ELSE q[1]
       /\ \A k \in 1..Len(q) : b.nxt[q[k]] = IF k = Len(q) THEN 0 ELSE q[k + 1]
       /\ \A k \in 1..Len(q) : q[k] # 0
  <2>1. \A k \in 1..Len(q) : q[k] \in Places
    BY <1>6
  <2>2. \A k \in Places : k # 0
    BY Bounds
  <2> QED BY <1>6, <2>1, <2>2 DEF Linked
<1> HIDE DEF Loop, G, Run, x, At, GS
<1> DEFINE U == {k \in 0..slots :
                   f[k] = IF k < Len(q) THEN <<q[k + 1], sum[k]>> ELSE <<0, sum[Len(q)]>>}
<1>26. 0 \in U
  <2>1. CASE Len(q) = 0
    BY <1>19, <1>21, <1>24, <1>25, <2>1
  <2>2. CASE Len(q) # 0
    <3>1. 0 < Len(q) /\ 0 + 1 = 1 /\ 0 \in 0..slots
      BY <1>6, <1>21, <2>2
    <3>2. f[0] = <<q[1], sum[0]>>
      BY <1>19, <1>24, <1>25, <2>2
    <3> QED BY <3>1, <3>2
  <2> QED BY <2>1, <2>2
<1>27. ASSUME NEW k \in 1..slots, k - 1 \in U PROVE k \in U
  <2>1. k \in 0..slots /\ k \in Nat
    BY <1>21
  <2>2. f[k - 1] = IF k - 1 < Len(q) THEN <<q[(k - 1) + 1], sum[k - 1]>> ELSE <<0, sum[Len(q)]>>
    BY <1>27
  <2>3. CASE k - 1 < Len(q)
    <3>1. k \in 1..Len(q) /\ (k - 1) + 1 = k
      BY <1>6, <2>1, <2>3
    <3>2. f[k - 1] = <<q[k], sum[k - 1]>> /\ q[k] # 0
      BY <1>25, <2>2, <2>3, <3>1
    <3>3. f[k] = <<b.nxt[q[k]], sum[k - 1] + b.qty[q[k]]>>
      <4>1. f[k - 1][1] = q[k] /\ f[k - 1][2] = sum[k - 1]
        BY <3>2
      <4> QED BY <1>24, <3>2, <4>1
    <3>4. f[k] = <<b.nxt[q[k]], sum[k]>>
      BY <1>19, <3>1, <3>3
    <3>5. CASE k = Len(q)
      <4>1. ~(k < Len(q))
        BY <1>6, <3>5
      <4>2. b.nxt[q[k]] = 0
        BY <1>25, <3>1, <3>5
      <4> QED BY <2>1, <3>4, <3>5, <4>1, <4>2
    <3>6. CASE k # Len(q)
      <4>1. k < Len(q) /\ b.nxt[q[k]] = q[k + 1]
        BY <1>6, <1>25, <3>1, <3>6
      <4> QED BY <2>1, <3>4, <4>1
    <3> QED BY <3>5, <3>6
  <2>4. CASE ~(k - 1 < Len(q))
    <3>1. ~(k < Len(q)) /\ f[k - 1] = <<0, sum[Len(q)]>>
      BY <1>6, <2>1, <2>2, <2>4
    <3>2. f[k] = f[k - 1]
      <4>1. f[k - 1][1] = 0
        BY <3>1
      <4> QED BY <1>24, <4>1
    <3> QED BY <2>1, <3>1, <3>2
  <2> QED BY <2>3, <2>4
<1>28. slots \in U
  <2>1. 0..slots \subseteq U
    <3> HIDE DEF U
    <3> QED BY <1>21, <1>26, <1>27, Along
  <2>2. slots \in 0..slots
    BY <1>21
  <2> HIDE DEF U
  <2> QED BY <2>1, <2>2
<1>29. f[slots] = <<0, sum[Len(q)]>>
  <2>1. ~(slots < Len(q))
    BY <1>6, <1>21
  <2> QED BY <1>28, <2>1
<1> QED BY <1>3, <1>7, <1>18, <1>20, <1>23, <1>29

\* findSlot finds the order that the lists have under the id.
LEMMA FoundIs ==
    ASSUME BookOK(book), NEW n, Ids(book, n), NEW id, NEW s, s = findSlot(book.oid, id)
    PROVE  /\ s = 0 => Lists!Found(id) = {}
           /\ s # 0 => /\ Lists!Found(id) # {} /\ Lists!find(id) = Ord(book, s)
                       /\ s \in InUse(book) /\ book.oid[s] = id
<1> DEFINE bids == sideOrders(book, 0)
           asks == sideOrders(book, 1)
           all == bids \o asks
<1>1. book \in BookSet
  BY DEF BookOK
<1>2. ListOf(bids, 0, Orders(book, 0)) /\ ListOf(asks, 1, Orders(book, 1))
  BY SideOrdersIs
<1> HIDE DEF bids, asks
<1>3. bids \in Seq(OrderSet) /\ asks \in Seq(OrderSet) /\ Len(bids) \in Nat /\ Len(asks) \in Nat
  BY <1>2 DEF ListOf
<1>4. /\ DOMAIN all = 1..(Len(bids) + Len(asks))
      /\ \A k \in 1..(Len(bids) + Len(asks)) :
            all[k] = IF k <= Len(bids) THEN bids[k] ELSE asks[k - Len(bids)]
  BY <1>3
<1>5. Lists!Resting = all
  BY DEF Lists!Resting, bids, asks
<1> HIDE DEF all
<1>6. ASSUME NEW k \in DOMAIN all PROVE \E t \in InUse(book) : all[k] = Ord(book, t)
  <2>1. all[k] \in Orders(book, 0) \/ all[k] \in Orders(book, 1)
    <3>1. CASE k <= Len(bids)
      <4>1. k \in 1..Len(bids) /\ all[k] = bids[k]
        BY <1>3, <1>4, <3>1
      <4> QED BY <1>2, <4>1 DEF ListOf
    <3>2. CASE ~(k <= Len(bids))
      <4>1. k - Len(bids) \in 1..Len(asks) /\ all[k] = asks[k - Len(bids)]
        BY <1>3, <1>4, <3>2
      <4> QED BY <1>2, <4>1 DEF ListOf
    <3> QED BY <3>1, <3>2
  <2> QED BY <2>1 DEF Orders, Resting
<1>7. ASSUME NEW t \in InUse(book) PROVE \E k \in DOMAIN all : all[k] = Ord(book, t)
  <2>1. SideOf(book.lvl[t]) \in {0, 1}
    BY DEF SideOf
  <2>2. CASE SideOf(book.lvl[t]) = 0
    <3>1. Ord(book, t) \in Orders(book, 0)
      BY <2>2 DEF Orders, Resting
    <3>2. PICK k \in 1..Len(bids) : bids[k] = Ord(book, t)
      BY <1>2, <3>1 DEF ListOf
    <3>3. k \in DOMAIN all /\ all[k] = bids[k]
      BY <1>3, <1>4, <3>2
    <3> QED BY <3>2, <3>3
  <2>3. CASE SideOf(book.lvl[t]) = 1
    <3>1. Ord(book, t) \in Orders(book, 1)
      BY <2>3 DEF Orders, Resting
    <3>2. PICK k \in 1..Len(asks) : asks[k] = Ord(book, t)
      BY <1>2, <3>1 DEF ListOf
    <3>3. k + Len(bids) \in DOMAIN all /\ ~(k + Len(bids) <= Len(bids)) /\ (k + Len(bids)) - Len(bids) = k
      BY <1>3, <1>4
    <3>4. all[k + Len(bids)] = asks[k]
      BY <1>4, <3>3
    <3> QED BY <3>2, <3>3, <3>4
  <2> QED BY <2>1, <2>2, <2>3
<1>8. /\ s # 0 => s \in Places /\ book.oid[s] = id /\ id # 0
      /\ s = 0 => id = 0 \/ \A t \in Places : book.oid[t] # id
  BY FindSlot
<1>9. \A t \in InUse(book) : Ord(book, t).id = book.oid[t] /\ book.oid[t] # 0 /\ t \in Places
  BY DEF InUse, Ord
<1>10. Lists!Found(id) = {k \in DOMAIN all : all[k].id = id}
  BY <1>5 DEF Lists!Found
<1>11. CASE s = 0
  BY <1>6, <1>8, <1>9, <1>10, <1>11
<1>12. CASE s # 0
  <2>1. s \in InUse(book) /\ book.oid[s] = id
    BY <1>8, <1>12 DEF InUse
  <2>2. Lists!Found(id) # {}
    BY <1>7, <1>9, <1>10, <2>1
  <2>3. ASSUME NEW k \in Lists!Found(id) PROVE all[k] = Ord(book, s)
    <3>1. k \in DOMAIN all /\ all[k].id = id
      BY <1>10
    <3>2. PICK t \in InUse(book) : all[k] = Ord(book, t)
      BY <1>6, <3>1
    <3>3. book.oid[t] = book.oid[s]
      BY <1>9, <2>1, <3>1, <3>2
    <3> QED BY <2>1, <3>2, <3>3 DEF Ids
  <2>4. Lists!find(id) = all[CHOOSE k \in Lists!Found(id) : TRUE]
    BY <1>5 DEF Lists!find
  <2>5. (CHOOSE k \in Lists!Found(id) : TRUE) \in Lists!Found(id)
    BY <2>2
  <2> QED BY <1>12, <2>1, <2>2, <2>3, <2>4, <2>5
<1> QED BY <1>11, <1>12

-----------------------------------------------------------------------------
(* Matching in the lists. *)

FillSet == [others : Seq(OrderSet), trades : Seq(Seq(Nat)), remaining : Nat, selfTrade : BOOLEAN]

\* Matching that does not trade with the first order.
Stopped(os, q, self) ==
    [others |-> os, trades |-> <<>>, remaining |-> q, selfTrade |-> self]

\* What an order takes from the resting order m, and the event of it.
Lesser(u, v) == IF u <= v THEN u ELSE v
Taken(q, m) == Lesser(q, m.qty)
TradeOf(m, taker, x) == <<3, m.id, taker, m.price, x, m.account, m.qty - x>>

\* r is matching the quantity q with the first order m of os, x of it in the event
\* trade, when m can be taken; rest is matching with the orders behind m.
TakingOf(r, account, q, os, m, x, trade, rest) ==
    /\ m.account = account => r = Stopped(os, q, TRUE)
    /\ m.account # account /\ x = m.qty =>
          /\ r.others = rest[q - x].others
          /\ r.trades = <<trade>> \o rest[q - x].trades
          /\ r.remaining = rest[q - x].remaining
          /\ r.selfTrade = rest[q - x].selfTrade
    /\ m.account # account /\ x # m.qty =>
          r = [others |-> <<[m EXCEPT !.qty = m.qty - x]>> \o Tail(os),
               trades |-> <<trade>>, remaining |-> q - x, selfTrade |-> FALSE]

Taking(r, taker, account, q, os, rest) ==
    TakingOf(r, account, q, os, Head(os), Taken(q, Head(os)),
             TradeOf(Head(os), taker, Taken(q, Head(os))), rest)

\* Matching can take the first order of os.
Takes(side, limit, q, os) == os # <<>> /\ q # 0 /\ acceptable(side, limit, Head(os).price)

\* What matching with the first order gives, and that it is a result of matching.
LEMMA MatchFirst ==
    ASSUME NEW taker \in Nat, NEW account, NEW side, NEW limit, NEW qty \in Nat,
           NEW q \in 0..qty, NEW os \in Seq(OrderSet), NEW rest,
           os = <<>> \/ rest \in [0..qty -> FillSet],
           NEW r, r = Lists!matchFirst(taker, account, side, limit, q, os, rest)
    PROVE  /\ r \in FillSet
           /\ ~Takes(side, limit, q, os) => r = Stopped(os, q, FALSE)
           /\ Takes(side, limit, q, os) => Taking(r, taker, account, q, os, rest)
<1>a. PICK m : m = Head(os)
  OBVIOUS
<1>b. PICK x : x = Taken(q, m)
  OBVIOUS
<1>c. PICK trade : trade = TradeOf(m, taker, x)
  OBVIOUS
<1> DEFINE y == rest[q - x]
           stop == os = <<>> \/ q = 0 \/ ~acceptable(side, limit, m.price)
<1>d. Takes(side, limit, q, os) <=> ~stop
  BY <1>a DEF Takes
<1>e. TakingOf(r, account, q, os, m, x, trade, rest) <=> Taking(r, taker, account, q, os, rest)
  BY <1>a, <1>b, <1>c DEF Taking
<1>1. Lists!acceptable(side, limit, m.price) <=> acceptable(side, limit, m.price)
  BY DEF Lists!acceptable, acceptable, Lists!Buy
<1>2. r = IF stop THEN Stopped(os, q, FALSE)
          ELSE IF m.account = account THEN Stopped(os, q, TRUE)
          ELSE IF x = m.qty THEN [y EXCEPT !.trades = <<trade>> \o @]
          ELSE [others |-> <<[m EXCEPT !.qty = @ - x]>> \o Tail(os),
                trades |-> <<trade>>, remaining |-> q - x, selfTrade |-> FALSE]
  BY <1>1, <1>a, <1>b, <1>c DEF Lists!matchFirst, Lists!Trade, Stopped, Taken, Lesser, TradeOf
<1>3. q \in Nat
  OBVIOUS
<1>4. Stopped(os, q, FALSE) \in FillSet /\ Stopped(os, q, TRUE) \in FillSet
  <2>1. <<>> \in Seq(Seq(Nat))
    OBVIOUS
  <2> QED BY <1>3, <2>1 DEF Stopped, FillSet
<1> HIDE DEF stop
<1>5. CASE stop
  BY <1>2, <1>4, <1>5, <1>d
<1>6. CASE ~stop
  <2>1. os # <<>> /\ m \in OrderSet /\ Tail(os) \in Seq(OrderSet) /\ rest \in [0..qty -> FillSet]
    BY <1>6, <1>a DEF stop
  <2>2. m.id \in Nat /\ m.price \in Nat /\ m.qty \in Nat /\ m.account \in Nat
    BY <2>1 DEF OrderSet
  <2>3. x \in Nat /\ x <= m.qty /\ x <= q /\ m.qty - x \in Nat /\ q - x \in 0..qty /\ q - x \in Nat
    BY <1>3, <1>b, <2>2 DEF Taken, Lesser
  <2>4. trade \in Seq(Nat)
    BY <1>c, <2>2, <2>3 DEF TradeOf
  <2>5. y \in FillSet
    BY <2>1, <2>3
  <2> HIDE DEF y
  <2>6. CASE m.account = account
    <3>1. r = Stopped(os, q, TRUE)
      BY <1>2, <1>6, <2>6
    <3> QED BY <1>4, <1>6, <1>d, <1>e, <2>6, <3>1 DEF TakingOf
  <2>7. CASE m.account # account /\ x = m.qty
    <3>1. r = [y EXCEPT !.trades = <<trade>> \o y.trades]
      BY <1>2, <1>6, <2>7
    <3>2. /\ y.others \in Seq(OrderSet) /\ y.trades \in Seq(Seq(Nat)) /\ y.remaining \in Nat
          /\ y.selfTrade \in BOOLEAN
      BY <2>5 DEF FillSet
    <3>3. r = [others |-> y.others, trades |-> <<trade>> \o y.trades, remaining |-> y.remaining,
               selfTrade |-> y.selfTrade]
      BY <2>5, <3>1 DEF FillSet
    <3>4. <<trade>> \o y.trades \in Seq(Seq(Nat))
      BY <2>4, <3>2
    <3>5. r \in FillSet
      BY <3>2, <3>3, <3>4 DEF FillSet
    <3>6. /\ r.others = y.others /\ r.trades = <<trade>> \o y.trades
          /\ r.remaining = y.remaining /\ r.selfTrade = y.selfTrade
      BY <3>3
    <3>7. ~(m.account = account) /\ ~(m.account # account /\ x # m.qty)
      BY <2>7
    <3> HIDE <3>1, <3>2, <3>3, <3>4
    <3>8. TakingOf(r, account, q, os, m, x, trade, rest)
      BY <3>6, <3>7, Zenon DEF y, TakingOf
    <3> QED BY <1>6, <1>d, <1>e, <3>5, <3>8
  <2>8. CASE m.account # account /\ x # m.qty
    <3>1. r = [others |-> <<[m EXCEPT !.qty = m.qty - x]>> \o Tail(os),
               trades |-> <<trade>>, remaining |-> q - x, selfTrade |-> FALSE]
      BY <1>2, <1>6, <2>8
    <3>2. [m EXCEPT !.qty = m.qty - x] \in OrderSet
      BY <2>1, <2>3 DEF OrderSet
    <3>3. <<[m EXCEPT !.qty = m.qty - x]>> \o Tail(os) \in Seq(OrderSet)
      BY <2>1, <3>2
    <3>4. <<trade>> \in Seq(Seq(Nat))
      BY <2>4
    <3>5. r \in FillSet
      BY <2>3, <3>1, <3>3, <3>4 DEF FillSet
    <3>6. TakingOf(r, account, q, os, m, x, trade, rest)
      BY <2>8, <3>1 DEF TakingOf
    <3> QED BY <1>6, <1>d, <1>e, <3>5, <3>6
  <2> QED BY <2>6, <2>7, <2>8
<1> QED BY <1>5, <1>6

\* The last k orders of a list.
Back(os, k) == SubSeq(os, Len(os) - k + 1, Len(os))

\* The last k orders are the first of them and the last k - 1.
LEMMA BackTail ==
    ASSUME NEW os \in Seq(OrderSet), NEW k \in 0..Len(os)
    PROVE  /\ Back(os, k) \in Seq(OrderSet) /\ Len(Back(os, k)) = k
           /\ k = 0 <=> Back(os, k) = <<>>
           /\ k # 0 => Tail(Back(os, k)) = Back(os, k - 1)
           /\ Back(os, Len(os)) = os
<1>1. Len(os) \in Nat /\ k \in Nat /\ k <= Len(os)
  OBVIOUS
<1>2. /\ Back(os, k) \in Seq(OrderSet) /\ Len(Back(os, k)) = k
      /\ \A i \in 1..k : Back(os, k)[i] = os[Len(os) - k + i]
  BY <1>1 DEF Back
<1>3. k = 0 <=> Back(os, k) = <<>>
  BY <1>2
<1>4. k # 0 => Tail(Back(os, k)) = Back(os, k - 1)
  <2> SUFFICES ASSUME k # 0 PROVE Tail(Back(os, k)) = Back(os, k - 1)
    OBVIOUS
  <2>1. /\ Back(os, k - 1) \in Seq(OrderSet) /\ Len(Back(os, k - 1)) = k - 1
        /\ \A i \in 1..(k - 1) : Back(os, k - 1)[i] = os[Len(os) - (k - 1) + i]
    BY <1>1 DEF Back
  <2>2. /\ Tail(Back(os, k)) \in Seq(OrderSet) /\ Len(Tail(Back(os, k))) = k - 1
        /\ \A i \in 1..(k - 1) : Tail(Back(os, k))[i] = Back(os, k)[i + 1]
    BY <1>1, <1>2
  <2>3. \A i \in 1..(k - 1) : Tail(Back(os, k))[i] = Back(os, k - 1)[i]
    <3> SUFFICES ASSUME NEW i \in 1..(k - 1) PROVE Tail(Back(os, k))[i] = Back(os, k - 1)[i]
      OBVIOUS
    <3>1. i + 1 \in 1..k /\ Len(os) - k + (i + 1) = Len(os) - (k - 1) + i
      BY <1>1
    <3> QED BY <1>2, <2>1, <2>2, <3>1
  <2> QED BY <2>1, <2>2, <2>3, SeqEqual
<1>5. Back(os, Len(os)) = os
  BY <1>1 DEF Back
<1> QED BY <1>2, <1>3, <1>4, <1>5

\* f[k][q] is matching the quantity q with the last k orders of os.
Fills(f, taker, account, side, limit, qty, os) ==
    /\ f \in [0..Len(os) -> [0..qty -> FillSet]]
    /\ \A k \in 0..Len(os), q \in 0..qty :
          f[k][q] = Lists!matchFirst(taker, account, side, limit, q, Back(os, k),
                                     IF k = 0 THEN <<>> ELSE f[k - 1])

FillBy(f, taker, account, side, limit, qty, os) ==
    /\ Fills(f, taker, account, side, limit, qty, os)
    /\ Lists!fill(taker, account, side, limit, qty, os) = f[Len(os)][qty]

\* The function of fill exists.
LEMMA FillIs ==
    ASSUME NEW taker \in Nat, NEW account, NEW side, NEW limit, NEW qty \in Nat,
           NEW os \in Seq(OrderSet)
    PROVE  \E f : FillBy(f, taker, account, side, limit, qty, os)
<1> DEFINE N == Len(os)
           S == [0..qty -> FillSet]
           V(q, k, v) == Lists!matchFirst(taker, account, side, limit, q, Back(os, k), v)
           x == [q \in 0..qty |-> V(q, 0, <<>>)]
           G == [k \in 1..N |-> [v \in S |-> [q \in 0..qty |-> V(q, k, v)]]]
           Loop(f) == f = [k \in 0..N |->
                             [q \in 0..qty |-> V(q, k, IF k = 0 THEN <<>> ELSE f[k - 1])]]
<1>1. N \in Nat
  OBVIOUS
<1>2. x \in S
  <2>1. \A q \in 0..qty : V(q, 0, <<>>) \in FillSet
    <3>1. Back(os, 0) = <<>> /\ Back(os, 0) \in Seq(OrderSet)
      BY <1>1, BackTail
    <3> QED BY <3>1, MatchFirst
  <2> HIDE DEF V
  <2> QED BY <2>1
<1>3. G \in [1..N -> [S -> S]]
  <2>1. ASSUME NEW k \in 1..N, NEW v \in S, NEW q \in 0..qty PROVE V(q, k, v) \in FillSet
    <3>1. Back(os, k) \in Seq(OrderSet)
      BY BackTail
    <3> QED BY <3>1, MatchFirst
  <2> HIDE DEF V
  <2> QED BY <2>1
<1>4. PICK f \in [0..N -> S] : IsLoopAt(f, N, x, G)
  <2> HIDE DEF G, S, x, N
  <2> QED BY <1>1, <1>2, <1>3, LoopAt
<1>5. \A k \in 0..N : f[k] = [q \in 0..qty |-> V(q, k, IF k = 0 THEN <<>> ELSE f[k - 1])]
  <2> SUFFICES ASSUME NEW k \in 0..N
               PROVE  f[k] = [q \in 0..qty |-> V(q, k, IF k = 0 THEN <<>> ELSE f[k - 1])]
    OBVIOUS
  <2>1. f[k] = IF k = 0 THEN x ELSE G[k][f[k - 1]]
    <3> HIDE DEF G, x, N
    <3> QED BY <1>4 DEF IsLoopAt
  <2>2. CASE k = 0
    <3> HIDE DEF V, G
    <3> QED BY <2>1, <2>2
  <2>3. CASE k # 0
    <3>0. k \in 1..N /\ k - 1 \in 0..N
      <4> HIDE DEF N
      <4> QED BY <1>1, <2>3
    <3>1. k \in 1..N /\ f[k - 1] \in S
      <4> HIDE DEF N, S
      <4> QED BY <1>4, <3>0
    <3>2. G[k][f[k - 1]] = [q \in 0..qty |-> V(q, k, f[k - 1])]
      <4> HIDE DEF V, S
      <4> QED BY <3>1
    <3> HIDE DEF V, G
    <3> QED BY <2>1, <2>3, <3>2
  <2> QED BY <2>2, <2>3
<1>6. Loop(f)
  <2> HIDE DEF V, N, S
  <2> QED BY <1>4, <1>5
\* Whatever function of fill is chosen, it is this one.
<1>7. PICK g : Loop(g) /\ Lists!fill(taker, account, side, limit, qty, os) = g[N][qty]
  <2>1. Lists!fill(taker, account, side, limit, qty, os) = (CHOOSE g : Loop(g))[N][qty]
    BY DEF Lists!fill, Back
  <2> HIDE DEF Loop
  <2> QED BY <1>6, <2>1
<1> DEFINE T == {k \in 0..N : g[k] = f[k]}
<1>8. 0 \in T
  <2>1. 0 \in 0..N
    BY <1>1
  <2>2. g[0] = [q \in 0..qty |-> V(q, 0, <<>>)]
    <3> HIDE DEF V, N
    <3> QED BY <1>7, <2>1
  <2>3. f[0] = [q \in 0..qty |-> V(q, 0, <<>>)]
    <3> HIDE DEF V, N
    <3> QED BY <1>6, <2>1
  <2> HIDE DEF V, N
  <2> QED BY <2>1, <2>2, <2>3
<1>9. ASSUME NEW k \in 1..N, k - 1 \in T PROVE k \in T
  <2>1. k \in 0..N /\ k # 0 /\ g[k - 1] = f[k - 1]
    BY <1>1, <1>9
  <2>2. g[k] = [q \in 0..qty |-> V(q, k, g[k - 1])]
    <3> HIDE DEF V, N
    <3> QED BY <1>7, <2>1
  <2>3. f[k] = [q \in 0..qty |-> V(q, k, f[k - 1])]
    <3> HIDE DEF V, N
    <3> QED BY <1>6, <2>1
  <2> HIDE DEF V, N
  <2> QED BY <2>1, <2>2, <2>3
<1>10. 0..N \subseteq T
  <2> HIDE DEF T, N
  <2> QED BY <1>1, <1>8, <1>9, Along
<1>11. g[N][qty] = f[N][qty]
  <2>1. N \in 0..N
    BY <1>1
  <2> HIDE DEF N
  <2> QED BY <1>10, <2>1
<1>12. \A k \in 0..N, q \in 0..qty : f[k][q] = V(q, k, IF k = 0 THEN <<>> ELSE f[k - 1])
  <2> HIDE DEF V, N
  <2> QED BY <1>5
<1>13. Fills(f, taker, account, side, limit, qty, os)
  BY <1>4, <1>12 DEF Fills
<1> QED BY <1>7, <1>11, <1>13 DEF FillBy

-----------------------------------------------------------------------------
(* The orders that matching meets. *)

\* No order of the side has a better price than p.
NoneBetter(b, side, p) == \A o \in Orders(b, side) : NoWorse(side, p, o.price)

\* An order has its id to itself, and its side.
LEMMA OrderIds ==
    ASSUME NEW b \in BookSet, NEW n, Ids(b, n), NEW s \in InUse(b), NEW side \in {0, 1},
           NEW o \in Orders(b, side)
    PROVE  /\ o.side = side /\ o \in OrderSet
           /\ o.id = b.oid[s] <=> o = Ord(b, s)
<1>1. PICK t \in Resting(b, side) : o = Ord(b, t)
  BY DEF Orders
<1>2. t \in InUse(b) /\ SideOf(b.lvl[t]) = side
  BY DEF Resting
<1>3. /\ o \in OrderSet /\ o.id = b.oid[t] /\ o.side = side
      /\ Ord(b, s).id = b.oid[s]
  BY <1>1, <1>2, OrdSet
<1>4. b.oid[t] = b.oid[s] => t = s
  BY <1>2 DEF Ids
<1> QED BY <1>1, <1>3, <1>4

\* At a price where no order rests, matching moves on, and passes none by.
LEMMA NextPrice ==
    ASSUME NEW b, BookOK(b), NEW n, Ids(b, n), NEW side \in {0, 1}, NEW p \in 1..maxPrice,
           NoneBetter(b, side, p), b.head[level(side, p)] = 0
    PROVE  NoneBetter(b, side, IF side = 1 THEN p + 1 ELSE p - 1)
<1>1. b \in BookSet /\ maxPrice \in Nat
  BY Bounds DEF BookOK
<1>2. PICK c \in Chains : ChainsOK(b, c)
  BY DEF BookOK
<1>3. p \in 0..maxPrice /\ level(side, p) \in Levels
  BY <1>1, LevelParts
<1>4. \A t \in InUse(b) : b.lvl[t] # level(side, p)
  BY <1>1, <1>2, <1>3, HeadSlot
<1>5. ASSUME NEW o \in Orders(b, side)
      PROVE  NoWorse(side, IF side = 1 THEN p + 1 ELSE p - 1, o.price)
  <2>1. PICK t \in Resting(b, side) : o = Ord(b, t)
    BY DEF Orders
  <2>2. t \in InUse(b) /\ SideOf(b.lvl[t]) = side
    BY DEF Resting
  <2>3. b.lvl[t] \in Levels /\ o.price = PriceOf(b.lvl[t])
    BY <1>1, <2>1, <2>2, OrdSet
  <2>4. o.price # p /\ o.price \in Nat
    BY <1>4, <2>2, <2>3, LevelParts
  <2>5. NoWorse(side, p, o.price)
    BY DEF NoneBetter
  <2> QED BY <1>1, <2>4, <2>5 DEF NoWorse
<1> QED BY <1>5 DEF NoneBetter

\* The head of the level is the first order of the list.
LEMMA FirstHead ==
    ASSUME NEW b, BookOK(b), NEW n, Ids(b, n), NEW side \in {0, 1}, NEW p \in 1..maxPrice,
           NoneBetter(b, side, p), NEW s, s = b.head[level(side, p)], s # 0
    PROVE  /\ sideOrders(b, side) # <<>> /\ Head(sideOrders(b, side)) = Ord(b, s)
           /\ s \in InUse(b) /\ Ord(b, s) \in Orders(b, side) /\ Ord(b, s).price = p
           /\ \A r \in Orders(b, side) : r # Ord(b, s) => Before(side, Ord(b, s), r)
<1>1. b \in BookSet
  BY DEF BookOK
<1>2. ASSUME NEW t \in Resting(b, side) PROVE NoWorse(side, p, PriceOf(b.lvl[t]))
  <2>1. Ord(b, t) \in Orders(b, side) /\ t \in InUse(b)
    BY DEF Orders, Resting
  <2>2. Ord(b, t).price = PriceOf(b.lvl[t])
    BY <1>1, <2>1, OrdSet
  <2> QED BY <2>1, <2>2 DEF NoneBetter
<1>3. /\ sideOrders(b, side) # <<>> /\ Head(sideOrders(b, side)) = Ord(b, s)
      /\ s \in Resting(b, side) /\ Ord(b, s).price = p
      /\ \A r \in Orders(b, side) : r # Ord(b, s) => Before(side, Ord(b, s), r)
  BY <1>2, BestHead
<1> QED BY <1>3 DEF Resting, Orders

\* A first order that is traded away leaves the rest of the list.
LEMMA TakenHead ==
    ASSUME NEW b, BookOK(b), NEW n, Ids(b, n), NEW side \in {0, 1}, NEW p \in 1..maxPrice,
           NoneBetter(b, side, p), NEW s, s = b.head[level(side, p)], s # 0,
           NEW b2, b2 = unlink(b, level(side, p), 0, s)
    PROVE  /\ BookOK(b2) /\ Ids(b2, n) /\ b2.nextId = b.nextId
           /\ Orders(b2, 1 - side) = Orders(b, 1 - side)
           /\ sideOrders(b2, side) = Tail(sideOrders(b, side))
           /\ NoneBetter(b2, side, p)
<1>1. b \in BookSet /\ maxPrice \in Nat /\ b.count = Cardinality(InUse(b))
  BY Bounds DEF BookOK
<1>2. PICK c \in Chains : ChainsOK(b, c)
  BY DEF BookOK
<1>3. PICK lv : lv = level(side, p)
  OBVIOUS
<1>4. lv \in Levels
  BY <1>1, <1>3, LevelParts
<1>5. s \in InUse(b) /\ 1 \in 1..Len(c[lv]) /\ c[lv][1] = s
  BY <1>1, <1>2, <1>3, <1>4, HeadSlot
<1>6. Prior(c[lv], 1) = 0
  BY DEF Prior
<1>7. b2 = unlink(b, lv, Prior(c[lv], 1), c[lv][1]) /\ b2 = unlink(b, lv, Prior(c[lv], 1), s)
  BY <1>3, <1>5, <1>6
<1>8. BookOK(b2) /\ b2.nextId = b.nextId
  BY <1>1, <1>2, <1>4, <1>5, <1>7, UnlinkKeeps
<1>9. Ids(b2, n) /\ \A sd \in {0, 1} : Orders(b2, sd) = Orders(b, sd) \ {Ord(b, s)}
  BY <1>2, <1>4, <1>5, <1>7, UnlinkOrders
<1>10. /\ sideOrders(b, side) # <<>> /\ Head(sideOrders(b, side)) = Ord(b, s)
       /\ Ord(b, s) \in Orders(b, side)
  BY FirstHead
<1>11. 1 - side \in {0, 1} /\ 1 - side # side
  OBVIOUS
<1>12. Orders(b2, 1 - side) = Orders(b, 1 - side)
  <2>1. Ord(b, s).side = side
    BY <1>1, <1>5, <1>10, OrderIds
  <2>2. \A o \in Orders(b, 1 - side) : o.side = 1 - side
    BY <1>1, <1>5, <1>11, OrderIds
  <2> QED BY <1>9, <1>11, <2>1, <2>2
<1>13. sideOrders(b2, side) = Tail(sideOrders(b, side))
  <2>1. ListOf(sideOrders(b, side), side, Orders(b, side))
    BY SideOrdersIs
  <2>2. ListOf(Tail(sideOrders(b, side)), side, Orders(b, side) \ {Ord(b, s)})
    BY <1>10, <2>1, ListTail
  <2>3. ListOf(sideOrders(b2, side), side, Orders(b2, side))
    BY <1>8, <1>9, SideOrdersIs
  <2>4. Orders(b2, side) = Orders(b, side) \ {Ord(b, s)}
    BY <1>9
  <2>5. ListOf(sideOrders(b2, side), side, Orders(b, side) \ {Ord(b, s)})
    BY <2>3, <2>4
  <2> QED BY <2>2, <2>5, OneList
<1>14. NoneBetter(b2, side, p)
  BY <1>9 DEF NoneBetter
<1> QED BY <1>8, <1>9, <1>12, <1>13, <1>14

\* b2 is b after the first order of a side at its best price, p, gets the quantity x.
PartTaken(b, n, side, p, s, x, b2) ==
    /\ BookOK(b) /\ Ids(b, n) /\ side \in {0, 1} /\ p \in 1..maxPrice /\ NoneBetter(b, side, p)
    /\ s = b.head[level(side, p)] /\ s # 0 /\ x \in Nat /\ b2 = Requantified(b, s, x)

\* The order in s, the first of the side, stays the first, with the quantity x.
PartLeft(b, n, side, s, x, b2) ==
    /\ Ids(b2, n) /\ Orders(b2, 1 - side) = Orders(b, 1 - side)
    /\ sideOrders(b2, side) = <<[Ord(b, s) EXCEPT !.qty = x]>> \o Tail(sideOrders(b, side))

\* A first order that is traded in part.
LEMMA PartHead ==
    ASSUME NEW b, NEW n, NEW side, NEW p, NEW s, NEW x, NEW b2,
           PartTaken(b, n, side, p, s, x, b2)
    PROVE  PartLeft(b, n, side, s, x, b2)
<1>0. /\ BookOK(b) /\ Ids(b, n) /\ side \in {0, 1} /\ p \in 1..maxPrice /\ NoneBetter(b, side, p)
      /\ s = b.head[level(side, p)] /\ s # 0 /\ x \in Nat /\ b2 = Requantified(b, s, x)
  BY DEF PartTaken
<1>1. b \in BookSet /\ 1 - side \in {0, 1} /\ 1 - side # side
  BY <1>0 DEF BookOK
<1>2. BookOK(b2) /\ b2.nextId = b.nextId
  BY <1>0, QuantityKeeps
<1>3. /\ sideOrders(b, side) # <<>> /\ Head(sideOrders(b, side)) = Ord(b, s)
      /\ s \in InUse(b) /\ Ord(b, s) \in Orders(b, side)
      /\ \A r \in Orders(b, side) : r # Ord(b, s) => Before(side, Ord(b, s), r)
  BY <1>0, FirstHead
<1>4. /\ Ids(b2, n)
      /\ \A sd \in {0, 1} :
            Orders(b2, sd) =
               {IF o.id = b.oid[s] THEN [o EXCEPT !.qty = x] ELSE o : o \in Orders(b, sd)}
  BY <1>0, <1>3, QuantityOrders
<1>5. PICK h : h = Ord(b, s)
  OBVIOUS
<1>6. h \in Orders(b, side) /\ h \in OrderSet /\ h.side = side /\ h.id = b.oid[s]
  BY <1>0, <1>1, <1>3, <1>5, OrderIds, OrdSet
<1>7. PICK h2 : h2 = [h EXCEPT !.qty = x]
  OBVIOUS
<1>8. h2 \in OrderSet /\ h2.price = h.price /\ h2.id = h.id
  BY <1>0, <1>6, <1>7 DEF OrderSet
<1>9. Orders(b2, 1 - side) = Orders(b, 1 - side)
  <2>1. \A o \in Orders(b, 1 - side) : o.id # b.oid[s]
    <3>1. \A o \in Orders(b, 1 - side) : o.side = 1 - side /\ (o.id = b.oid[s] <=> o = h)
      BY <1>0, <1>1, <1>3, <1>5, OrderIds
    <3> QED BY <1>0, <1>1, <1>6, <3>1
  <2>2. PICK S : S = Orders(b, 1 - side)
    OBVIOUS
  <2>3. Orders(b2, 1 - side) = {IF o.id = b.oid[s] THEN [o EXCEPT !.qty = x] ELSE o : o \in S}
    BY <1>1, <1>4, <2>2
  <2>4. Orders(b2, 1 - side) = {o : o \in S}
    BY <2>1, <2>2, <2>3
  <2> QED BY <2>2, <2>4
<1>10. Orders(b2, side) = {h2} \cup (Orders(b, side) \ {h})
  <2>1. \A o \in Orders(b, side) : o.id = b.oid[s] <=> o = h
    BY <1>0, <1>1, <1>3, <1>5, OrderIds
  <2> QED BY <1>0, <1>4, <1>6, <1>7, <2>1
<1>11. ListOf(sideOrders(b, side), side, Orders(b, side))
  BY <1>0, SideOrdersIs
<1>12. ListOf(Tail(sideOrders(b, side)), side, Orders(b, side) \ {h})
  BY <1>0, <1>3, <1>5, <1>11, ListTail
<1>13. ListOf(<<h2>>, side, {h2})
  BY <1>0, <1>8, ListSingle
<1>14. \A u \in {h2}, r \in Orders(b, side) \ {h} : Before(side, u, r)
  <2> SUFFICES ASSUME NEW r \in Orders(b, side) \ {h} PROVE Before(side, h2, r)
    OBVIOUS
  <2>1. Before(side, h, r)
    BY <1>0, <1>3, <1>5
  <2> QED BY <1>0, <1>8, <2>1 DEF Before
<1>15. ListOf(<<h2>> \o Tail(sideOrders(b, side)), side, {h2} \cup (Orders(b, side) \ {h}))
  BY <1>0, <1>12, <1>13, <1>14, ListConcat
<1>16. ListOf(sideOrders(b2, side), side, Orders(b2, side))
  BY <1>0, <1>2, <1>4, SideOrdersIs
<1>17. sideOrders(b2, side) = <<h2>> \o Tail(sideOrders(b, side))
  BY <1>0, <1>10, <1>15, <1>16, OneList
<1> QED BY <1>4, <1>5, <1>7, <1>9, <1>17 DEF PartLeft

\* F, which begins with the events ev, is what g gives after the events es.
Remains(F, ev, es, g) ==
    /\ F.others = g.others /\ F.remaining = g.remaining /\ F.selfTrade = g.selfTrade
    /\ ev \o F.trades = es \o g.trades

\* The prices that matching has not come to.
Away(m, side) == IF side = 0 THEN m.price - 1 ELSE maxPrice - m.price

\* After k rounds matching is at the last j orders of os, the other ones were
\* traded away, and F is what is left of matching.
Running(m, k, j, side, limit, os, f, qty, ev, F) ==
    /\ m.rem \in 0..qty /\ ~m.selfTrade /\ (side = 0 => m.price # 0)
    /\ sideOrders(m.book, 1 - side) = Back(os, j)
    /\ NoneBetter(m.book, 1 - side, m.price)
    /\ Remains(F, ev, m.out, f[j][m.rem])
    /\ More(m, side, limit) => k = Away(m, side) + (Len(os) - j)

\* Matching gave F.
Done(m, side, ev, F) ==
    /\ F.others = sideOrders(m.book, 1 - side) /\ F.remaining = m.rem
    /\ F.selfTrade = m.selfTrade /\ ev \o F.trades = m.out

\* The two ways of matching agree after k rounds, and leave the orders of the
\* own side as they are.
Follows(m, k, side, limit, n, mine, os, f, qty, ev, F) ==
    /\ Ids(m.book, n) /\ Orders(m.book, side) = mine
    /\ \/ \E j \in 0..Len(os) : Running(m, k, j, side, limit, os, f, qty, ev, F)
       \/ ~More(m, side, limit) /\ Done(m, side, ev, F)

\* Matching that goes on is within the band.
LEMMA MoreIn ==
    ASSUME NEW side \in {0, 1}, NEW limit \in Limits(side), NEW id,
           NEW m \in Matchings(side, id), More(m, side, limit)
    PROVE  /\ m.price # 0 => m.price \in 1..maxPrice
           /\ side = 1 => m.price # 0
           /\ m.book \in BookSet /\ BookOK(m.book) /\ m.book.nextId = id
           /\ m.out \in Seq(Seq(Nat)) /\ m.price \in Nat /\ m.rem \in Nat /\ m.rem # 0
           /\ ~m.selfTrade /\ acceptable(side, limit, m.price) /\ maxPrice \in Nat
           /\ m = [book |-> m.book, out |-> m.out, price |-> m.price, rem |-> m.rem,
                   selfTrade |-> FALSE]
<1>1. /\ m.book \in BookSet /\ BookOK(m.book) /\ m.book.nextId = id
      /\ m.out \in Seq(Seq(Nat)) /\ m.price \in Nat /\ m.rem \in Nat
      /\ m.selfTrade \in BOOLEAN /\ (side = 1 => m.price <= maxPrice)
      /\ m = [book |-> m.book, out |-> m.out, price |-> m.price, rem |-> m.rem,
              selfTrade |-> m.selfTrade]
  BY DEF Matchings, GoodBooks
<1>2. m.rem # 0 /\ ~m.selfTrade /\ acceptable(side, limit, m.price)
  BY DEF More
<1>3. maxPrice \in Nat /\ m.price <= maxPrice
  BY <1>1, <1>2, Bounds DEF acceptable, Limits
<1>4. side = 1 => m.price # 0
  BY <1>2 DEF acceptable, Limits
<1> QED BY <1>1, <1>2, <1>3, <1>4

\* The first of the last j orders can be taken for the quantity q.
Facing(taker, account, side, limit, qty, os, f, j, q, h, x, t, g) ==
    /\ taker \in Nat /\ qty \in Nat /\ os \in Seq(OrderSet)
    /\ Fills(f, taker, account, side, limit, qty, os)
    /\ j \in 0..Len(os) /\ q \in 0..qty /\ q # 0
    /\ h \in OrderSet /\ Back(os, j) # <<>> /\ Head(Back(os, j)) = h
    /\ acceptable(side, limit, h.price)
    /\ x = Taken(q, h) /\ t = TradeOf(h, taker, x) /\ g = f[j][q]

\* What matching with the last j orders then gives.
LEMMA FirstOf ==
    ASSUME NEW taker, NEW account, NEW side, NEW limit, NEW qty, NEW os, NEW f, NEW j, NEW q,
           NEW h, NEW x, NEW t, NEW g,
           Facing(taker, account, side, limit, qty, os, f, j, q, h, x, t, g)
    PROVE  /\ j - 1 \in 0..Len(os) /\ q - x \in 0..qty /\ f[j - 1][q - x] \in FillSet
           /\ TakingOf(g, account, q, Back(os, j), h, x, t, f[j - 1])
<1>0. /\ taker \in Nat /\ qty \in Nat /\ os \in Seq(OrderSet)
      /\ Fills(f, taker, account, side, limit, qty, os)
      /\ j \in 0..Len(os) /\ q \in 0..qty /\ q # 0
      /\ h \in OrderSet /\ Back(os, j) # <<>> /\ Head(Back(os, j)) = h
      /\ acceptable(side, limit, h.price)
      /\ x = Taken(q, h) /\ t = TradeOf(h, taker, x) /\ g = f[j][q]
  BY DEF Facing
<1>1. Len(os) \in Nat /\ h.qty \in Nat
  BY <1>0 DEF OrderSet
<1>2. j # 0 /\ Back(os, j) \in Seq(OrderSet)
  BY <1>0, BackTail
<1>3. j - 1 \in 0..Len(os) /\ j \in 0..Len(os)
  BY <1>0, <1>1, <1>2
<1>4. x \in Nat /\ x <= q /\ q - x \in 0..qty
  BY <1>0, <1>1 DEF Taken, Lesser
<1>5. f[j - 1] \in [0..qty -> FillSet]
  BY <1>0, <1>3 DEF Fills
<1>6. g = Lists!matchFirst(taker, account, side, limit, q, Back(os, j), f[j - 1])
  BY <1>0, <1>2, <1>3 DEF Fills
<1>7. PICK ps : ps = Back(os, j)
  OBVIOUS
<1>8. PICK rest : rest = f[j - 1]
  OBVIOUS
<1>9. /\ ps \in Seq(OrderSet) /\ rest \in [0..qty -> FillSet] /\ ps # <<>> /\ Head(ps) = h
      /\ g = Lists!matchFirst(taker, account, side, limit, q, ps, rest)
  BY <1>0, <1>2, <1>5, <1>6, <1>7, <1>8
<1>10. Takes(side, limit, q, ps)
  BY <1>0, <1>9 DEF Takes
<1>11. Taking(g, taker, account, q, ps, rest)
  BY <1>0, <1>9, <1>10, MatchFirst
<1>12. TakingOf(g, account, q, ps, h, x, t, rest)
  BY <1>0, <1>9, <1>11 DEF Taking
<1>13. f[j - 1][q - x] \in FillSet
  BY <1>0, <1>4, <1>5
<1> QED BY <1>3, <1>4, <1>7, <1>8, <1>12, <1>13, Zenon

\* Events one by one, or together.
LEMMA EventConcat ==
    ASSUME NEW u \in Seq(Seq(Nat)), NEW t \in Seq(Nat), NEW v \in Seq(Seq(Nat))
    PROVE  /\ u \o <<>> = u /\ u \o <<t>> = Append(u, t)
           /\ u \o (<<t>> \o v) = Append(u, t) \o v
           /\ Append(u, t) \in Seq(Seq(Nat))
<1>1. /\ Len(u) \in Nat /\ Len(v) \in Nat /\ <<t>> \in Seq(Seq(Nat)) /\ Len(<<t>>) = 1 /\ <<t>>[1] = t
      /\ <<t>> \o v \in Seq(Seq(Nat)) /\ Append(u, t) \in Seq(Seq(Nat))
  OBVIOUS
<1>2. u \o <<>> = u
  OBVIOUS
<1>3. u \o <<t>> = Append(u, t)
  OBVIOUS
<1>4. u \o (<<t>> \o v) = (u \o <<t>>) \o v
  <2> DEFINE lhs == u \o (<<t>> \o v)
             rhs == (u \o <<t>>) \o v
  <2>1. /\ lhs \in Seq(Seq(Nat)) /\ rhs \in Seq(Seq(Nat))
        /\ Len(lhs) = Len(u) + 1 + Len(v) /\ Len(rhs) = Len(u) + 1 + Len(v)
    BY <1>1
  <2>2. ASSUME NEW i \in 1..(Len(u) + 1 + Len(v)) PROVE lhs[i] = rhs[i]
    <3>1. CASE i <= Len(u)
      BY <1>1, <3>1
    <3>2. CASE i = Len(u) + 1
      BY <1>1, <3>2
    <3>3. CASE i > Len(u) + 1
      BY <1>1, <3>3
    <3> QED BY <1>1, <3>1, <3>2, <3>3
  <2> HIDE DEF lhs, rhs
  <2>3. lhs = rhs
    BY <2>1, <2>2, SeqEqual
  <2> QED BY <2>3 DEF lhs, rhs
<1> QED BY <1>1, <1>2, <1>3, <1>4

\* Matching goes on after k rounds, and the two ways of matching agree.
Round(side, limit, id, taker, account, m, n, os, qty, f, F, ev, k, j) ==
    /\ side \in {0, 1} /\ limit \in Limits(side) /\ taker \in Nat
    /\ m \in Matchings(side, id) /\ More(m, side, limit) /\ Ids(m.book, n)
    /\ os \in Seq(OrderSet) /\ qty \in Nat /\ Fills(f, taker, account, side, limit, qty, os)
    /\ k \in Nat /\ j \in 0..Len(os)
    /\ Running(m, k, j, side, limit, os, f, qty, ev, F)

\* m2 is m after a round that finds the slot s at the level lv, with the quantity mq
\* of which x is traded.
SteppedBy(m2, taker, account, side, m, lv, s, mq, x) ==
    /\ s = 0 =>
          m2 = [book |-> m.book, out |-> m.out,
                price |-> IF side = 0 THEN m.price + 1 ELSE m.price - 1,
                rem |-> m.rem, selfTrade |-> FALSE]
    /\ s # 0 /\ m.book.acct[s] = account =>
          m2 = [book |-> m.book, out |-> m.out, price |-> m.price, rem |-> m.rem,
                selfTrade |-> TRUE]
    /\ s # 0 /\ m.book.acct[s] # account =>
          m2 = [book |-> IF x = mq THEN unlink(m.book, lv, 0, s)
                         ELSE Requantified(m.book, s, mq - x),
                out |-> Append(m.out, <<3, m.book.oid[s], taker, m.price, x,
                                        m.book.acct[s], mq - x>>),
                price |-> m.price, rem |-> m.rem - x, selfTrade |-> FALSE]

Stepped(m2, taker, account, side, m) ==
    \E lv, s, mq, x :
       /\ lv = level(1 - side, m.price) /\ s = m.book.head[lv] /\ mq = m.book.qty[s]
       /\ x = Lesser(m.rem, mq)
       /\ SteppedBy(m2, taker, account, side, m, lv, s, mq, x)

\* What a round of matching does.
LEMMA StepIs ==
    ASSUME NEW m, m = [book |-> m.book, out |-> m.out, price |-> m.price, rem |-> m.rem,
                       selfTrade |-> FALSE],
           NEW side, NEW taker, NEW account
    PROVE  Stepped(matchStep(taker, account, side, m), taker, account, side, m)
<1>s. PICK m2 : m2 = matchStep(taker, account, side, m)
  OBVIOUS
<1>l. PICK lv : lv = level(1 - side, m.price)
  OBVIOUS
<1>h. PICK s : s = m.book.head[lv]
  OBVIOUS
<1>q. PICK mq : mq = m.book.qty[s]
  OBVIOUS
<1>x. PICK x : x = Lesser(m.rem, mq)
  OBVIOUS
<1>1. PICK b, o, p, r : b = m.book /\ o = m.out /\ p = m.price /\ r = m.rem
  OBVIOUS
<1>2. m = [book |-> b, out |-> o, price |-> p, rem |-> r, selfTrade |-> FALSE]
  BY <1>1
<1>3. lv = level(1 - side, p) /\ s = b.head[lv] /\ mq = b.qty[s] /\ x = IF r <= mq THEN r ELSE mq
  BY <1>1, <1>l, <1>h, <1>q, <1>x DEF Lesser
<1>4. ASSUME s = 0 PROVE SteppedBy(m2, taker, account, side, m, lv, s, mq, x)
  <2>1. m2 = [m EXCEPT !.price = IF side = 0 THEN @ + 1 ELSE @ - 1]
    BY <1>s, <1>l, <1>h, <1>4, Zenon DEF matchStep
  <2>2. PICK v : v = IF side = 0 THEN p + 1 ELSE p - 1
    OBVIOUS
  <2>3. m2 = [m EXCEPT !.price = v]
    BY <1>1, <2>1, <2>2
  <2>4. m2 = [book |-> b, out |-> o, price |-> v, rem |-> r, selfTrade |-> FALSE]
    BY <1>2, <2>3
  <2> QED BY <1>1, <1>4, <2>2, <2>4 DEF SteppedBy
<1>5. ASSUME s # 0 /\ b.acct[s] = account PROVE SteppedBy(m2, taker, account, side, m, lv, s, mq, x)
  <2>1. m2 = [m EXCEPT !.selfTrade = TRUE]
    BY <1>s, <1>l, <1>h, <1>1, <1>5, Zenon DEF matchStep
  <2>2. m2 = [book |-> b, out |-> o, price |-> p, rem |-> r, selfTrade |-> TRUE]
    BY <1>2, <2>1
  <2> QED BY <1>1, <1>5, <2>2 DEF SteppedBy
<1>6. ASSUME s # 0 /\ b.acct[s] # account PROVE SteppedBy(m2, taker, account, side, m, lv, s, mq, x)
  <2>1. PICK nb : nb = IF x = mq THEN unlink(b, lv, 0, s) ELSE [b EXCEPT !.qty[s] = mq - x]
    OBVIOUS
  <2>2. PICK t : t = <<3, b.oid[s], taker, p, x, b.acct[s], mq - x>>
    OBVIOUS
  <2>3. m2 = [m EXCEPT !.book = nb, !.out = Append(@, t), !.rem = @ - x]
    <3>1. m.book = b /\ m.price = p /\ m.rem = r /\ s = b.head[level(1 - side, p)]
      BY <1>1, <1>3
    <3>2. m2 = [m EXCEPT
                  !.book = IF x = mq THEN unlink(b, lv, 0, s) ELSE [b EXCEPT !.qty[s] = mq - x],
                  !.out = Append(@, <<3, b.oid[s], taker, p, x, b.acct[s], mq - x>>),
                  !.rem = @ - x]
      BY <1>s, <1>3, <1>6, <3>1, Zenon DEF matchStep
    <3> QED BY <2>1, <2>2, <3>2
  <2>4. m2 = [book |-> nb, out |-> Append(o, t), price |-> p, rem |-> r - x, selfTrade |-> FALSE]
    BY <1>2, <2>3
  <2>5. nb = IF x = mq THEN unlink(b, lv, 0, s) ELSE Requantified(b, s, mq - x)
    BY <2>1 DEF Requantified
  <2> QED BY <1>1, <1>6, <2>2, <2>4, <2>5 DEF SteppedBy
<1>7. SteppedBy(m2, taker, account, side, m, lv, s, mq, x)
  BY <1>1, <1>4, <1>5, <1>6
<1> QED BY <1>s, <1>l, <1>h, <1>q, <1>x, <1>7 DEF Stepped

\* A round of matching that finds no order at its price.
LEMMA RoundMoves ==
    ASSUME NEW side, NEW limit, NEW id, NEW taker, NEW account, NEW m, NEW n, NEW os, NEW qty,
           NEW f, NEW F, NEW ev, NEW k, NEW j,
           Round(side, limit, id, taker, account, m, n, os, qty, f, F, ev, k, j),
           m.book.head[level(1 - side, m.price)] = 0,
           NEW m2, m2 = matchStep(taker, account, side, m)
    PROVE  /\ m2.book = m.book
           /\ Running(m2, k + 1, j, side, limit, os, f, qty, ev, F)
<1>0. /\ side \in {0, 1} /\ limit \in Limits(side) /\ m \in Matchings(side, id)
      /\ More(m, side, limit) /\ Ids(m.book, n) /\ Len(os) \in Nat /\ k \in Nat
      /\ j \in 0..Len(os) /\ Running(m, k, j, side, limit, os, f, qty, ev, F)
  BY DEF Round
<1>1. /\ m.price # 0 => m.price \in 1..maxPrice
      /\ side = 1 => m.price # 0
      /\ BookOK(m.book) /\ m.price \in Nat /\ ~m.selfTrade /\ maxPrice \in Nat
      /\ m = [book |-> m.book, out |-> m.out, price |-> m.price, rem |-> m.rem,
              selfTrade |-> FALSE]
  BY <1>0, MoreIn
<1>2. /\ m.rem \in 0..qty /\ (side = 0 => m.price # 0)
      /\ sideOrders(m.book, 1 - side) = Back(os, j)
      /\ NoneBetter(m.book, 1 - side, m.price)
      /\ Remains(F, ev, m.out, f[j][m.rem])
      /\ k = Away(m, side) + (Len(os) - j)
  BY <1>0 DEF Running
<1>3. m.price \in 1..maxPrice /\ 1 - side \in {0, 1} /\ (1 - side = 1 <=> side = 0)
  BY <1>0, <1>1, <1>2
<1>4. PICK p : p = IF side = 0 THEN m.price + 1 ELSE m.price - 1
  OBVIOUS
<1>5. m2 = [book |-> m.book, out |-> m.out, price |-> p, rem |-> m.rem, selfTrade |-> FALSE]
  <2>1. Stepped(m2, taker, account, side, m)
    BY <1>1, StepIs
  <2> QED BY <1>4, <2>1 DEF Stepped, SteppedBy
<1>6. NoneBetter(m.book, 1 - side, p)
  <2>1. NoneBetter(m.book, 1 - side, IF 1 - side = 1 THEN m.price + 1 ELSE m.price - 1)
    BY <1>0, <1>1, <1>2, <1>3, NextPrice
  <2> QED BY <1>3, <1>4, <2>1
<1>7. /\ m2.book = m.book /\ m2.out = m.out /\ m2.price = p /\ m2.rem = m.rem /\ ~m2.selfTrade
  BY <1>5
<1>8. k + 1 = Away(m2, side) + (Len(os) - j) /\ (side = 0 => p # 0)
  <2>1. CASE side = 0
    BY <1>1, <1>2, <1>3, <1>4, <1>7, <1>0, <2>1 DEF Away
  <2>2. CASE side = 1
    BY <1>1, <1>2, <1>3, <1>4, <1>7, <1>0, <2>2 DEF Away
  <2> QED BY <1>0, <2>1, <2>2
<1> QED BY <1>2, <1>6, <1>7, <1>8 DEF Running

\* Matching meets the order h of the slot s and takes x of it in the event t, and g
\* is matching with the last j orders, which h is the first of.
Met(side, taker, account, m, os, qty, f, j, s, h, x, t, g) ==
    /\ s = m.book.head[level(1 - side, m.price)] /\ h = Ord(m.book, s)
    /\ m.price \in 1..maxPrice /\ s \in InUse(m.book) /\ s \in Slots /\ 1 - side \in {0, 1}
    /\ h \in OrderSet /\ h.qty = m.book.qty[s] /\ h.account = m.book.acct[s]
    /\ t = <<3, m.book.oid[s], taker, m.price, x, m.book.acct[s], h.qty - x>>
    /\ t \in Seq(Nat) /\ x \in Nat /\ h.qty - x \in Nat /\ m.rem - x \in 0..qty
    /\ x = Lesser(m.rem, h.qty)
    /\ j - 1 \in 0..Len(os) /\ f[j - 1][m.rem - x] \in FillSet
    /\ Tail(Back(os, j)) = Back(os, j - 1)
    /\ TakingOf(g, account, m.rem, Back(os, j), h, x, t, f[j - 1])

\* What matching that goes on finds first at its price, and what F is then.
LEMMA RoundFirst ==
    ASSUME NEW side, NEW limit, NEW id, NEW taker, NEW account, NEW m, NEW n, NEW os, NEW qty,
           NEW f, NEW F, NEW ev, NEW k, NEW j,
           Round(side, limit, id, taker, account, m, n, os, qty, f, F, ev, k, j),
           m.book.head[level(1 - side, m.price)] # 0
    PROVE  \E s, h, x, t :
              Met(side, taker, account, m, os, qty, f, j, s, h, x, t, f[j][m.rem])
<1>s. PICK s : s = m.book.head[level(1 - side, m.price)]
  OBVIOUS
<1>h. PICK h : h = Ord(m.book, s)
  OBVIOUS
<1>x. PICK x : x = Taken(m.rem, h)
  OBVIOUS
<1>t. PICK t : t = TradeOf(h, taker, x)
  OBVIOUS
<1>g. PICK g : g = f[j][m.rem]
  OBVIOUS
<1>0. /\ side \in {0, 1} /\ limit \in Limits(side) /\ taker \in Nat
      /\ m \in Matchings(side, id) /\ More(m, side, limit) /\ Ids(m.book, n)
      /\ os \in Seq(OrderSet) /\ qty \in Nat /\ Fills(f, taker, account, side, limit, qty, os)
      /\ k \in Nat /\ j \in 0..Len(os)
      /\ Running(m, k, j, side, limit, os, f, qty, ev, F)
  BY DEF Round
<1>1. /\ m.price # 0 => m.price \in 1..maxPrice
      /\ side = 1 => m.price # 0
      /\ m.book \in BookSet /\ BookOK(m.book) /\ m.rem \in Nat /\ m.rem # 0
      /\ acceptable(side, limit, m.price)
  BY <1>0, <1>0, MoreIn
<1>2. /\ m.rem \in 0..qty /\ (side = 0 => m.price # 0)
      /\ sideOrders(m.book, 1 - side) = Back(os, j)
      /\ NoneBetter(m.book, 1 - side, m.price)
  BY <1>0, <1>0 DEF Running
<1>3. m.price \in 1..maxPrice /\ 1 - side \in {0, 1}
  BY <1>0, <1>1, <1>2
<1>4. /\ Back(os, j) # <<>> /\ Head(Back(os, j)) = h
      /\ s \in InUse(m.book) /\ h.price = m.price
  BY <1>0, <1>s, <1>h, <1>1, <1>2, <1>3, FirstHead
<1>5. /\ h \in OrderSet /\ s \in Slots /\ h.id = m.book.oid[s] /\ h.account = m.book.acct[s]
      /\ h.qty = m.book.qty[s]
  BY <1>0, <1>h, <1>1, <1>4, OrdSet
<1>6. /\ h.id \in Nat /\ h.price \in Nat /\ h.qty \in Nat /\ h.account \in Nat
  BY <1>0, <1>5 DEF OrderSet
<1>7. x = IF m.rem <= h.qty THEN m.rem ELSE h.qty
  BY <1>x DEF Taken, Lesser
<1>8. x \in Nat /\ h.qty - x \in Nat
  BY <1>0, <1>1, <1>6, <1>7
<1>9. t = <<3, m.book.oid[s], taker, m.price, x, m.book.acct[s], h.qty - x>>
  BY <1>0, <1>t, <1>4, <1>5 DEF TradeOf
<1>10. t \in Seq(Nat)
  BY <1>0, <1>t, <1>6, <1>8 DEF TradeOf
<1>11. j # 0 /\ Tail(Back(os, j)) = Back(os, j - 1)
  BY <1>0, <1>4, BackTail
<1>12. PICK q : q = m.rem
  OBVIOUS
<1>13. q \in 0..qty /\ q # 0 /\ acceptable(side, limit, h.price)
  BY <1>0, <1>1, <1>2, <1>4, <1>12
<1>14. /\ j - 1 \in 0..Len(os) /\ q - x \in 0..qty /\ f[j - 1][q - x] \in FillSet
       /\ TakingOf(g, account, q, Back(os, j), h, x, t, f[j - 1])
  <2>1. /\ Back(os, j) # <<>> /\ Head(Back(os, j)) = h /\ h \in OrderSet
        /\ x = Taken(q, h) /\ t = TradeOf(h, taker, x) /\ g = f[j][q]
    BY <1>0, <1>x, <1>t, <1>g, <1>4, <1>5, <1>12
  <2>2. /\ taker \in Nat /\ qty \in Nat /\ os \in Seq(OrderSet) /\ j \in 0..Len(os)
        /\ Fills(f, taker, account, side, limit, qty, os)
    BY <1>0
  <2>3. Facing(taker, account, side, limit, qty, os, f, j, q, h, x, t, g)
    BY <1>13, <2>1, <2>2 DEF Facing
  <2> QED BY <2>3, FirstOf
<1>15. x = Lesser(m.rem, h.qty)
  BY <1>x DEF Taken
<1>16. Met(side, taker, account, m, os, qty, f, j, s, h, x, t, g)
  BY <1>s, <1>h, <1>3, <1>4, <1>5, <1>8, <1>9, <1>10, <1>11, <1>12, <1>14, <1>15 DEF Met
<1> QED BY <1>g, <1>16

\* The two ways of matching still agree after a round.
LEMMA RoundFollows ==
    ASSUME NEW side \in {0, 1}, NEW limit \in Limits(side), NEW id, NEW taker \in Nat, NEW account,
           NEW m \in Matchings(side, id), More(m, side, limit),
           NEW n, NEW mine, NEW os \in Seq(OrderSet), NEW qty \in Nat, NEW f,
           Fills(f, taker, account, side, limit, qty, os), NEW F, NEW ev, NEW k \in Nat,
           Follows(m, k, side, limit, n, mine, os, f, qty, ev, F),
           NEW m2, m2 = matchStep(taker, account, side, m)
    PROVE  Follows(m2, k + 1, side, limit, n, mine, os, f, qty, ev, F)
<1>1. Ids(m.book, n) /\ Orders(m.book, side) = mine
  BY DEF Follows
<1>2. PICK j \in 0..Len(os) : Running(m, k, j, side, limit, os, f, qty, ev, F)
  BY DEF Follows
<1>c. Round(side, limit, id, taker, account, m, n, os, qty, f, F, ev, k, j)
  BY <1>1, <1>2 DEF Round
<1>3. PICK lv : lv = level(1 - side, m.price)
  OBVIOUS
<1>4. PICK s : s = m.book.head[lv]
  OBVIOUS
<1>5. CASE s = 0
  <2>1. m2.book = m.book /\ Running(m2, k + 1, j, side, limit, os, f, qty, ev, F)
    <3>1. m.book.head[level(1 - side, m.price)] = 0
      BY <1>3, <1>4, <1>5
    <3> QED BY <1>c, <3>1, RoundMoves
  <2> QED BY <1>1, <2>1 DEF Follows
<1>6. CASE s # 0
  <2>1. PICK g : g = f[j][m.rem]
    OBVIOUS
  <2>2. PICK s1, h, x, t : Met(side, taker, account, m, os, qty, f, j, s1, h, x, t, g)
    <3>1. m.book.head[level(1 - side, m.price)] # 0
      BY <1>3, <1>4, <1>6
    <3>2. \E s1, h, x, t : Met(side, taker, account, m, os, qty, f, j, s1, h, x, t, f[j][m.rem])
      BY <1>c, <3>1, RoundFirst
    <3> QED BY <2>1, <3>2
  <2>3. s1 = s /\ h = Ord(m.book, s)
    BY <1>3, <1>4, <2>2 DEF Met
  <2>4. x = Lesser(m.rem, h.qty)
    BY <2>2 DEF Met
  <2>5. /\ m.price \in 1..maxPrice /\ s \in InUse(m.book) /\ s \in Slots /\ 1 - side \in {0, 1}
        /\ h \in OrderSet /\ h.qty = m.book.qty[s] /\ h.account = m.book.acct[s]
        /\ t = <<3, m.book.oid[s], taker, m.price, x, m.book.acct[s], h.qty - x>>
        /\ t \in Seq(Nat) /\ x \in Nat /\ h.qty - x \in Nat /\ m.rem - x \in 0..qty
        /\ x = IF m.rem <= h.qty THEN m.rem ELSE h.qty
        /\ j - 1 \in 0..Len(os) /\ f[j - 1][m.rem - x] \in FillSet
        /\ Tail(Back(os, j)) = Back(os, j - 1)
        /\ TakingOf(g, account, m.rem, Back(os, j), h, x, t, f[j - 1])
    BY <2>2, <2>3 DEF Met, Lesser
  <2>6. /\ m.book \in BookSet /\ BookOK(m.book) /\ m.out \in Seq(Seq(Nat)) /\ m.rem \in Nat
        /\ m.rem # 0 /\ m = [book |-> m.book, out |-> m.out, price |-> m.price, rem |-> m.rem,
                             selfTrade |-> FALSE]
    BY MoreIn
  <2>7. /\ sideOrders(m.book, 1 - side) = Back(os, j)
        /\ NoneBetter(m.book, 1 - side, m.price)
        /\ Remains(F, ev, m.out, g)
        /\ k = Away(m, side) + (Len(os) - j)
    BY <1>2, <2>1 DEF Running
  <2>8. PICK mq : mq = m.book.qty[s]
    OBVIOUS
  <2>9. /\ m.book.acct[s] = account =>
              m2 = [book |-> m.book, out |-> m.out, price |-> m.price, rem |-> m.rem,
                    selfTrade |-> TRUE]
        /\ m.book.acct[s] # account =>
              m2 = [book |-> IF x = mq THEN unlink(m.book, lv, 0, s)
                             ELSE Requantified(m.book, s, mq - x),
                    out |-> Append(m.out, <<3, m.book.oid[s], taker, m.price, x,
                                            m.book.acct[s], mq - x>>),
                    price |-> m.price, rem |-> m.rem - x, selfTrade |-> FALSE]
    <3>1. x = Lesser(m.rem, mq)
      BY <2>4, <2>5, <2>8
    <3>2. Stepped(m2, taker, account, side, m)
      BY <2>6, StepIs
    <3>3. SteppedBy(m2, taker, account, side, m, lv, s, mq, x)
      BY <1>3, <1>4, <2>8, <3>1, <3>2 DEF Stepped
    <3> QED BY <1>6, <3>3, Zenon DEF SteppedBy
  \* An order of the same account stops it.
  <2>10. CASE h.account = account
    <3>1. /\ m2.book = m.book /\ m2.out = m.out /\ m2.rem = m.rem /\ m2.selfTrade = TRUE
      BY <2>5, <2>9, <2>10
    <3>2. g = Stopped(Back(os, j), m.rem, TRUE)
      BY <2>5, <2>10 DEF TakingOf
    <3>3. g.others = Back(os, j) /\ g.trades = <<>> /\ g.remaining = m.rem /\ g.selfTrade = TRUE
      BY <3>2 DEF Stopped
    <3>4. m.out \o <<>> = m.out
      BY <2>6
    <3>5. Done(m2, side, ev, F) /\ ~More(m2, side, limit)
      BY <2>7, <3>1, <3>3, <3>4 DEF Done, Remains, More
    <3> QED BY <1>1, <3>1, <3>5 DEF Follows
  \* An order that is traded away leaves the list.
  <2>11. CASE h.account # account /\ x = h.qty
    <3>1. PICK nb : nb = unlink(m.book, lv, 0, s)
      OBVIOUS
    <3>2. m2 = [book |-> nb, out |-> Append(m.out, t), price |-> m.price, rem |-> m.rem - x,
                selfTrade |-> FALSE]
      BY <2>5, <2>8, <2>9, <2>11, <3>1
    <3>3. /\ m2.book = nb /\ m2.out = Append(m.out, t) /\ m2.price = m.price
          /\ m2.rem = m.rem - x /\ m2.selfTrade = FALSE
      BY <3>2
    <3>4. /\ Ids(nb, n) /\ Orders(nb, 1 - (1 - side)) = Orders(m.book, 1 - (1 - side))
          /\ sideOrders(nb, 1 - side) = Tail(sideOrders(m.book, 1 - side))
          /\ NoneBetter(nb, 1 - side, m.price)
      <4>1. PICK b, o, p : b = m.book /\ o = 1 - side /\ p = m.price
        OBVIOUS
      <4>2. /\ BookOK(b) /\ Ids(b, n) /\ o \in {0, 1} /\ p \in 1..maxPrice /\ NoneBetter(b, o, p)
            /\ s = b.head[level(o, p)] /\ s # 0 /\ nb = unlink(b, level(o, p), 0, s)
        BY <1>1, <1>3, <1>4, <1>6, <2>5, <2>6, <2>7, <3>1, <4>1
      <4>3. /\ Ids(nb, n) /\ Orders(nb, 1 - o) = Orders(b, 1 - o)
            /\ sideOrders(nb, o) = Tail(sideOrders(b, o)) /\ NoneBetter(nb, o, p)
        BY <4>2, TakenHead
      <4> QED BY <4>1, <4>3
    <3>5. 1 - (1 - side) = side
      OBVIOUS
    <3>6. PICK g2 : g2 = f[j - 1][m.rem - x]
      OBVIOUS
    <3>7. Remains(F, ev, m2.out, f[j - 1][m2.rem])
      <4>1. /\ g.others = g2.others /\ g.trades = <<t>> \o g2.trades
            /\ g.remaining = g2.remaining /\ g.selfTrade = g2.selfTrade
        BY <2>5, <2>11, <3>6 DEF TakingOf
      <4>2. g2.trades \in Seq(Seq(Nat))
        BY <2>5, <3>6 DEF FillSet
      <4>3. m.out \o (<<t>> \o g2.trades) = Append(m.out, t) \o g2.trades
        <5>1. PICK u, v : u = m.out /\ v = g2.trades
          OBVIOUS
        <5>2. u \in Seq(Seq(Nat)) /\ v \in Seq(Seq(Nat)) /\ t \in Seq(Nat)
          BY <2>5, <2>6, <4>2, <5>1
        <5>3. u \o (<<t>> \o v) = Append(u, t) \o v
          BY <5>2, EventConcat
        <5> QED BY <5>1, <5>3
      <4> QED BY <2>7, <3>3, <3>6, <4>1, <4>3 DEF Remains
    <3>8. k + 1 = Away(m2, side) + (Len(os) - (j - 1))
      <4>1. Away(m2, side) = Away(m, side)
        BY <3>3 DEF Away
      <4>2. Away(m, side) \in Nat
        <5>1. PICK p : p = m.price
          OBVIOUS
        <5>2. p \in 1..maxPrice /\ maxPrice \in Nat
          BY <2>5, <5>1, Bounds
        <5>3. p - 1 \in Nat /\ maxPrice - p \in Nat
          BY <5>2
        <5> QED BY <5>1, <5>3 DEF Away
      <4>3. PICK d : d = Away(m, side)
        OBVIOUS
      <4>4. Len(os) \in Nat /\ j \in Nat
        BY <1>2
      <4>5. d \in Nat /\ k = d + (Len(os) - j)
        BY <2>7, <4>2, <4>3
      <4> HIDE <4>2
      <4> QED BY <4>1, <4>3, <4>4, <4>5
    <3>9. sideOrders(m2.book, 1 - side) = Back(os, j - 1) /\ NoneBetter(m2.book, 1 - side, m2.price)
      BY <2>5, <2>7, <3>3, <3>4
    <3>10. m2.rem \in 0..qty
      BY <2>5, <3>3
    <3>13. m.price # 0
      <4>1. PICK p : p = m.price
        OBVIOUS
      <4>2. p \in 1..maxPrice
        BY <2>5, <4>1
      <4>3. p # 0
        BY <4>2, Bounds
      <4> QED BY <4>1, <4>3
    <3>11. Running(m2, k + 1, j - 1, side, limit, os, f, qty, ev, F)
      BY <3>3, <3>7, <3>8, <3>9, <3>10, <3>13 DEF Running
    <3>12. Ids(m2.book, n) /\ Orders(m2.book, side) = mine
      BY <1>1, <3>3, <3>4, <3>5
    <3> QED BY <2>5, <3>11, <3>12 DEF Follows
  \* An order that is traded in part is the last one.
  <2>12. CASE h.account # account /\ x # h.qty
    <3>1. PICK nb : nb = Requantified(m.book, s, h.qty - x)
      OBVIOUS
    <3>2. m2 = [book |-> nb, out |-> Append(m.out, t), price |-> m.price, rem |-> m.rem - x,
                selfTrade |-> FALSE]
      BY <2>5, <2>8, <2>9, <2>12, <3>1
    <3>3. /\ m2.book = nb /\ m2.out = Append(m.out, t) /\ m2.price = m.price
          /\ m2.rem = m.rem - x /\ m2.selfTrade = FALSE
      BY <3>2
    <3>4. /\ Ids(nb, n) /\ Orders(nb, 1 - (1 - side)) = Orders(m.book, 1 - (1 - side))
          /\ sideOrders(nb, 1 - side) =
                <<[h EXCEPT !.qty = h.qty - x]>> \o Tail(sideOrders(m.book, 1 - side))
      <4>1. PICK b, o, p, y : b = m.book /\ o = 1 - side /\ p = m.price /\ y = h.qty - x
        OBVIOUS
      <4>2. /\ BookOK(b) /\ Ids(b, n) /\ o \in {0, 1} /\ p \in 1..maxPrice /\ NoneBetter(b, o, p)
            /\ s = b.head[level(o, p)] /\ s # 0 /\ y \in Nat /\ nb = Requantified(b, s, y)
        BY <1>1, <1>3, <1>4, <1>6, <2>5, <2>6, <2>7, <3>1, <4>1
      <4>3. PartTaken(b, n, o, p, s, y, nb)
        BY <4>2 DEF PartTaken
      <4>4. PartLeft(b, n, o, s, y, nb)
        BY <4>3, PartHead
      <4>5. /\ Ids(nb, n) /\ Orders(nb, 1 - o) = Orders(b, 1 - o)
            /\ sideOrders(nb, o) = <<[Ord(b, s) EXCEPT !.qty = y]>> \o Tail(sideOrders(b, o))
        BY <4>4 DEF PartLeft
      <4> QED BY <2>3, <4>1, <4>5
    <3>5. 1 - (1 - side) = side
      OBVIOUS
    <3>6. x = m.rem /\ m.rem - x = 0
      BY <2>5, <2>6, <2>12
    <3>7. g = [others |-> <<[h EXCEPT !.qty = h.qty - x]>> \o Tail(Back(os, j)),
               trades |-> <<t>>, remaining |-> m.rem - x, selfTrade |-> FALSE]
      BY <2>5, <2>12 DEF TakingOf
    <3>8. /\ g.others = <<[h EXCEPT !.qty = h.qty - x]>> \o Tail(Back(os, j))
          /\ g.trades = <<t>> /\ g.remaining = m.rem - x /\ g.selfTrade = FALSE
      BY <3>7
    <3>9. m.out \o <<t>> = Append(m.out, t)
      <4>1. PICK u : u = m.out
        OBVIOUS
      <4>2. u \in Seq(Seq(Nat)) /\ t \in Seq(Nat) /\ <<>> \in Seq(Seq(Nat))
        BY <2>5, <2>6, <4>1
      <4>3. u \o <<t>> = Append(u, t)
        BY <4>2, EventConcat
      <4> QED BY <4>1, <4>3
    <3>10. Done(m2, side, ev, F)
      BY <2>7, <3>3, <3>4, <3>8, <3>9 DEF Done, Remains
    <3>11. ~More(m2, side, limit)
      BY <3>3, <3>6 DEF More
    <3>12. Ids(m2.book, n) /\ Orders(m2.book, side) = mine
      BY <1>1, <3>3, <3>4, <3>5
    <3> QED BY <3>10, <3>11, <3>12 DEF Follows
  <2> QED BY <2>10, <2>11, <2>12
<1> QED BY <1>5, <1>6

\* Matching that has stopped has given what the lists give.
LEMMA StopsDone ==
    ASSUME NEW side \in {0, 1}, NEW limit \in Limits(side), NEW id, NEW taker \in Nat, NEW account,
           NEW m \in Matchings(side, id), ~More(m, side, limit),
           NEW n, NEW mine, NEW os \in Seq(OrderSet), NEW qty \in Nat, NEW f,
           Fills(f, taker, account, side, limit, qty, os), NEW F, NEW ev, NEW k,
           Follows(m, k, side, limit, n, mine, os, f, qty, ev, F)
    PROVE  Done(m, side, ev, F)
<1>1. CASE Done(m, side, ev, F)
  BY <1>1
<1>2. ASSUME NEW j \in 0..Len(os), Running(m, k, j, side, limit, os, f, qty, ev, F)
      PROVE  Done(m, side, ev, F)
  <2>1. PICK ps, q, g, p : ps = Back(os, j) /\ q = m.rem /\ g = f[j][m.rem] /\ p = m.price
    OBVIOUS
  <2>2. /\ q \in 0..qty /\ ~m.selfTrade /\ sideOrders(m.book, 1 - side) = ps
        /\ NoneBetter(m.book, 1 - side, p) /\ Remains(F, ev, m.out, g)
    BY <1>2, <2>1 DEF Running
  <2>3. ps \in Seq(OrderSet) /\ (j = 0 <=> ps = <<>>) /\ Len(os) \in Nat
    BY <1>2, <2>1, BackTail
  <2>4. m.book \in BookSet /\ BookOK(m.book) /\ m.out \in Seq(Seq(Nat)) /\ m.selfTrade \in BOOLEAN
        /\ p \in Nat
    BY <2>1 DEF Matchings, GoodBooks
  <2>5. Ids(m.book, n)
    BY DEF Follows
  <2>6. ~Takes(side, limit, q, ps)
    <3> SUFFICES ASSUME ps # <<>>, q # 0, acceptable(side, limit, Head(ps).price) PROVE FALSE
      BY DEF Takes
    <3>1. ~acceptable(side, limit, p)
      BY <2>1, <2>2 DEF More
    <3>2. 1 - side \in {0, 1}
      OBVIOUS
    <3>3. ListOf(ps, 1 - side, Orders(m.book, 1 - side))
      BY <2>2, <2>4, <2>5, <3>2, SideOrdersIs
    <3>4. Head(ps) \in Orders(m.book, 1 - side) /\ Head(ps) \in OrderSet
      BY <3>3, ListTail
    <3>5. NoWorse(1 - side, p, Head(ps).price) /\ Head(ps).price \in Nat
      BY <2>2, <3>4 DEF NoneBetter, OrderSet
    <3>6. PICK r : r = Head(ps).price
      OBVIOUS
    <3>7. limit \in Nat
      BY Bounds DEF Limits
    <3>8. r \in Nat /\ NoWorse(1 - side, p, r) /\ acceptable(side, limit, r)
      BY <3>5, <3>6
    <3>9. CASE side = 0
      BY <2>4, <3>1, <3>7, <3>8, <3>9 DEF NoWorse, acceptable
    <3>10. CASE side = 1
      BY <2>4, <3>1, <3>7, <3>8, <3>10 DEF NoWorse, acceptable
    <3> QED BY <3>9, <3>10
  <2>7. g = Stopped(ps, q, FALSE)
    <3>1. PICK rest : rest = IF j = 0 THEN <<>> ELSE f[j - 1]
      OBVIOUS
    <3>2. ps = <<>> \/ rest \in [0..qty -> FillSet]
      <4>1. CASE j = 0
        BY <2>3, <4>1
      <4>2. CASE j # 0
        <5>1. j - 1 \in 0..Len(os)
          BY <1>2, <2>3, <4>2
        <5> QED BY <3>1, <4>2, <5>1 DEF Fills
      <4> QED BY <4>1, <4>2
    <3>3. g = Lists!matchFirst(taker, account, side, limit, q, ps, rest)
      BY <1>2, <2>1, <2>2, <3>1 DEF Fills
    <3>4. q \in 0..qty /\ ps \in Seq(OrderSet)
      BY <2>2, <2>3
    <3> HIDE <2>1, <2>2, <2>3, <2>4, <2>5, <3>1
    <3>5. CASE ps = <<>>
      BY <3>3, <3>5 DEF Lists!matchFirst, Stopped
    <3>6. CASE rest \in [0..qty -> FillSet]
      BY <2>6, <3>3, <3>4, <3>6, MatchFirst
    <3> QED BY <3>2, <3>5, <3>6
  <2>8. /\ g.others = ps /\ g.trades = <<>> /\ g.remaining = q /\ g.selfTrade = FALSE
    BY <2>7 DEF Stopped
  <2>9. m.out \o <<>> = m.out
    BY <2>4
  <2> QED BY <2>1, <2>2, <2>4, <2>8, <2>9 DEF Done, Remains
<1> QED BY <1>1, <1>2 DEF Follows

\* From the book b matching came to m, and matching in the lists gives F.
Agreed(m, F, side, id, n, b, events) ==
    /\ m \in Matchings(side, id) /\ Ids(m.book, n)
    /\ Orders(m.book, side) = Orders(b, side)
    /\ Done(m, side, events, F)

\* Matching in the book gives what matching in the lists gives.
LEMMA FillAgrees ==
    ASSUME NEW side \in {0, 1}, NEW limit \in Limits(side), NEW id, NEW taker \in Nat,
           NEW account, NEW b \in GoodBooks(id), NEW events \in Seq(Seq(Nat)), NEW q \in Nat,
           NEW n, Ids(b, n)
    PROVE  Agreed(fill(b, events, taker, account, side, limit, q),
                  Lists!fill(taker, account, side, limit, q, sideOrders(b, 1 - side)),
                  side, id, n, b, events)
<1> DEFINE S == Matchings(side, id)
           mine == Orders(b, side)
           x == [book |-> b, out |-> events, price |-> IF side = 0 THEN 1 ELSE maxPrice,
                 rem |-> q, selfTrade |-> FALSE]
           G == [m \in S |-> IF More(m, side, limit) THEN matchStep(taker, account, side, m)
                             ELSE m]
           Loop(w) == w = [k \in 0..matchFuel |->
                             IF k = 0 THEN x
                             ELSE IF More(w[k - 1], side, limit)
                             THEN matchStep(taker, account, side, w[k - 1]) ELSE w[k - 1]]
<1>1. matchFuel \in Nat /\ maxPrice \in Nat /\ slots \in Nat
  BY Bounds DEF matchFuel
<1>2. x \in S
  BY Bounds DEF Matchings
<1>3. \A m \in S : More(m, side, limit) => matchStep(taker, account, side, m) \in S
  BY MatchKeeps
<1>4. G \in [S -> S]
  <2> HIDE DEF S
  <2> QED BY <1>3
<1>5. \A m \in S : G[m] = IF More(m, side, limit) THEN matchStep(taker, account, side, m) ELSE m
  OBVIOUS
<1>6. BookOK(b) /\ b \in BookSet /\ 1 - side \in {0, 1}
  BY DEF GoodBooks
<1>7. PICK os : os = sideOrders(b, 1 - side)
  OBVIOUS
<1>8. ListOf(os, 1 - side, Orders(b, 1 - side))
  BY <1>6, <1>7, SideOrdersIs
<1>9. os \in Seq(OrderSet) /\ Len(os) \in Nat
  BY <1>8 DEF ListOf
<1>10. PICK f : /\ Fills(f, taker, account, side, limit, q, os)
                /\ Lists!fill(taker, account, side, limit, q, os) = f[Len(os)][q]
  <2>1. PICK f : FillBy(f, taker, account, side, limit, q, os)
    BY <1>9, FillIs
  <2> QED BY <2>1 DEF FillBy
<1>11. PICK F : F = f[Len(os)][q]
  OBVIOUS
\* At first all orders are there.
<1>12. Follows(x, 0, side, limit, n, mine, os, f, q, events, F)
  <2>1. /\ x.book = b /\ x.out = events /\ x.price = (IF side = 0 THEN 1 ELSE maxPrice)
        /\ x.rem = q /\ x.selfTrade = FALSE
    OBVIOUS
  <2> HIDE DEF x
  <2>2. Len(os) \in 0..Len(os) /\ Back(os, Len(os)) = os
    BY <1>9, BackTail
  <2>3. NoneBetter(b, 1 - side, x.price)
    <3> SUFFICES ASSUME NEW o \in Orders(b, 1 - side) PROVE NoWorse(1 - side, x.price, o.price)
      BY DEF NoneBetter
    <3>1. PICK t \in InUse(b) : o = Ord(b, t)
      BY DEF Orders, Resting
    <3>2. o.price = PriceOf(b.lvl[t]) /\ b.lvl[t] \in Levels /\ PriceOf(b.lvl[t]) # 0
      BY <1>6, <3>1, OrdSet DEF Ids
    <3>3. o.price \in 0..maxPrice /\ o.price # 0
      BY <3>2, LevelParts
    <3>4. PICK p, r : p = x.price /\ r = o.price
      OBVIOUS
    <3>5. p = (IF side = 0 THEN 1 ELSE maxPrice) /\ r \in 0..maxPrice /\ r # 0
      BY <2>1, <3>3, <3>4
    <3>6. NoWorse(1 - side, p, r)
      BY <1>1, <3>5 DEF NoWorse
    <3> QED BY <3>4, <3>6
  <2>4. Away(x, side) = 0
    BY <1>1, <2>1 DEF Away
  <2>5. 0 = Away(x, side) + (Len(os) - Len(os))
    BY <1>9, <2>4
  <2>6. Remains(F, events, events, f[Len(os)][q])
    BY <1>11 DEF Remains
  <2>7. Running(x, 0, Len(os), side, limit, os, f, q, events, F)
    <3>1. q \in 0..q /\ (side = 0 => x.price # 0)
      BY <2>1
    <3> QED BY <1>7, <2>1, <2>2, <2>3, <2>5, <2>6, <3>1 DEF Running
  <2> QED BY <2>1, <2>2, <2>7 DEF Follows
<1> HIDE DEF G, S, x, mine
<1>13. \E w : Loop(w)
  <2>1. PICK w \in [0..matchFuel -> S] : IsLoop(w, matchFuel, x, G)
    BY <1>1, <1>2, <1>4, LoopExists
  <2>2. \A k \in 0..matchFuel : k = 0 \/ (k - 1 \in 0..matchFuel /\ w[k - 1] \in S)
    BY <1>1, <2>1
  <2>3. \A k \in 0..matchFuel : w[k] = IF k = 0 THEN x ELSE G[w[k - 1]]
    BY <2>1 DEF IsLoop
  <2>4. \A k \in 0..matchFuel :
           w[k] = IF k = 0 THEN x
                  ELSE IF More(w[k - 1], side, limit)
                  THEN matchStep(taker, account, side, w[k - 1]) ELSE w[k - 1]
    BY <1>5, <2>2, <2>3
  <2>5. Loop(w)
    BY <2>1, <2>4
  <2> QED BY <2>5
<1>14. PICK w : Loop(w) /\ fill(b, events, taker, account, side, limit, q) = w[matchFuel]
  BY <1>13 DEF fill, repeatWhile, More, x
<1> DEFINE T == {k \in 0..matchFuel :
                   w[k] \in S /\ Follows(w[k], k, side, limit, n, mine, os, f, q, events, F)}
<1>15. 0..matchFuel \subseteq T
  <2>1. 0 \in T
    BY <1>1, <1>2, <1>12, <1>14
  <2>2. ASSUME NEW k \in 1..matchFuel, k - 1 \in T PROVE k \in T
    <3>1. /\ k \in 0..matchFuel /\ k # 0 /\ k - 1 \in Nat /\ w[k - 1] \in S
          /\ Follows(w[k - 1], k - 1, side, limit, n, mine, os, f, q, events, F)
      BY <1>1, <2>2
    <3>2. w[k] = IF More(w[k - 1], side, limit)
                 THEN matchStep(taker, account, side, w[k - 1]) ELSE w[k - 1]
      BY <1>14, <3>1
    <3>3. PICK m, h : m = w[k - 1] /\ h = k - 1
      OBVIOUS
    <3>4. /\ h \in Nat /\ m \in S /\ h + 1 = k
          /\ Follows(m, h, side, limit, n, mine, os, f, q, events, F)
      BY <3>1, <3>3
    <3> HIDE DEF T
    <3>5. CASE More(m, side, limit)
      <4>1. PICK m2 : m2 = matchStep(taker, account, side, m)
        OBVIOUS
      <4>2. Follows(m2, h + 1, side, limit, n, mine, os, f, q, events, F)
        BY <1>9, <1>10, <3>4, <3>5, <4>1, RoundFollows DEF S
      <4>3. m2 \in S
        BY <1>3, <3>4, <3>5, <4>1
      <4>4. w[k] = m2
        BY <3>2, <3>3, <3>5, <4>1
      <4> QED BY <3>1, <3>4, <4>2, <4>3, <4>4 DEF T
    <3>6. CASE ~More(m, side, limit)
      <4>1. w[k] = m
        BY <3>2, <3>3, <3>6
      <4>2. Follows(m, k, side, limit, n, mine, os, f, q, events, F)
        BY <3>4, <3>6 DEF Follows, Running
      <4> QED BY <3>1, <3>4, <4>1, <4>2 DEF T
    <3> QED BY <3>5, <3>6
  <2> HIDE DEF T
  <2> QED BY <1>1, <2>1, <2>2, Along
<1>16. PICK m : m = w[matchFuel]
  OBVIOUS
<1>17. m \in S /\ Follows(m, matchFuel, side, limit, n, mine, os, f, q, events, F)
  BY <1>1, <1>15, <1>16
<1> HIDE DEF T, Loop
\* There are no more rounds than prices and orders.
<1>18. ~More(m, side, limit)
  <2> SUFFICES ASSUME More(m, side, limit) PROVE FALSE
    OBVIOUS
  <2>1. PICK j \in 0..Len(os) : Running(m, matchFuel, j, side, limit, os, f, q, events, F)
    BY <1>17 DEF Follows
  <2>2. matchFuel = Away(m, side) + (Len(os) - j)
    BY <2>1 DEF Running
  <2>3. m.price \in Nat /\ (m.price # 0 => m.price \in 1..maxPrice)
    BY <1>17, MoreIn DEF S
  <2>4. PICK d : d = Away(m, side)
    OBVIOUS
  <2>5. d <= maxPrice /\ d \in Int
    <3>1. PICK p : p = m.price
      OBVIOUS
    <3>2. d = IF side = 0 THEN p - 1 ELSE maxPrice - p
      BY <2>4, <3>1 DEF Away
    <3>3. p \in Nat /\ p <= maxPrice
      BY <1>1, <2>3, <3>1
    <3> QED BY <1>1, <3>2, <3>3
  <2>6. Len(os) <= slots
    <3>1. b.count = Cardinality(InUse(b)) /\ b.count <= slots /\ b.count \in Nat
      BY <1>6, UseFinite DEF BookOK
    <3>2. Len(sideOrders(b, 0)) \in Nat /\ Len(sideOrders(b, 1)) \in Nat
      <4>1. ListOf(sideOrders(b, 0), 0, Orders(b, 0)) /\ ListOf(sideOrders(b, 1), 1, Orders(b, 1))
        BY <1>6, SideOrdersIs
      <4> QED BY <4>1 DEF ListOf
    <3>3. b.count = Len(sideOrders(b, 0)) + Len(sideOrders(b, 1))
      BY <1>6, CountIs
    <3>4. os = sideOrders(b, 0) \/ os = sideOrders(b, 1)
      BY <1>7
    <3> QED BY <1>1, <3>1, <3>2, <3>3, <3>4
  <2>7. maxPrice + slots + 1 = d + (Len(os) - j) /\ j \in Nat
    BY <1>9, <2>1, <2>2, <2>4 DEF matchFuel
  <2> HIDE <2>1, <2>2, <2>3, <2>4
  <2> QED BY <1>1, <1>9, <2>5, <2>6, <2>7
<1>19. Done(m, side, events, F)
  BY <1>9, <1>10, <1>17, <1>18, StopsDone DEF S
<1>20. Ids(m.book, n) /\ Orders(m.book, side) = mine
  BY <1>17 DEF Follows
<1>21. F = Lists!fill(taker, account, side, limit, q, sideOrders(b, 1 - side))
  BY <1>7, <1>10, <1>11
<1> QED BY <1>14, <1>16, <1>17, <1>19, <1>20, <1>21 DEF S, mine, Agreed

-----------------------------------------------------------------------------
(* Commands. *)

\* Books with the same orders have the same list.
LEMMA SameOrders ==
    ASSUME NEW b, BookOK(b), NEW n, Ids(b, n), NEW d, BookOK(d), NEW k, Ids(d, k),
           NEW side \in {0, 1}, Orders(d, side) = Orders(b, side)
    PROVE  sideOrders(d, side) = sideOrders(b, side)
<1>1. ListOf(sideOrders(b, side), side, Orders(b, side))
  BY SideOrdersIs
<1>2. ListOf(sideOrders(d, side), side, Orders(d, side))
  BY SideOrdersIs
<1>3. ListOf(sideOrders(d, side), side, Orders(b, side))
  BY <1>2
<1> QED BY <1>1, <1>3, OneList

\* The next id says nothing of the orders.
LEMMA NextIdOrders ==
    ASSUME NEW b, BookOK(b), NEW n, Ids(b, n), NEW id \in Nat, NEW d, d = [b EXCEPT !.nextId = id]
    PROVE  /\ Ids(d, n) /\ BookOK(d) /\ d.nextId = id
           /\ \A side \in {0, 1} : /\ Orders(d, side) = Orders(b, side)
                                   /\ sideOrders(d, side) = sideOrders(b, side)
<1>1. BookOK(d) /\ d.nextId = id
  BY NextIdKeeps
<1>2. b \in BookSet
  BY DEF BookOK
<1>3. /\ d.oid = b.oid /\ d.acct = b.acct /\ d.qty = b.qty /\ d.lvl = b.lvl /\ d.nxt = b.nxt
  BY <1>2 DEF BookSet
<1>4. InUse(d) = InUse(b)
  BY <1>3 DEF InUse
<1>5. Ids(d, n)
  BY <1>3, <1>4 DEF Ids
<1>6. \A side : Orders(d, side) = Orders(b, side)
  BY <1>3, <1>4 DEF Orders, Resting, Ord
<1>7. \A side \in {0, 1} : sideOrders(d, side) = sideOrders(b, side)
  BY <1>1, <1>5, <1>6, SameOrders
<1> QED BY <1>1, <1>5, <1>6, <1>7

\* Later ids are greater ones.
LEMMA LaterIds ==
    ASSUME NEW b \in BookSet, NEW n \in Nat, Ids(b, n) PROVE Ids(b, n + 1)
<1>1. \A s \in InUse(b) : b.oid[s] \in Nat
  BY Bounds DEF BookSet, InUse
<1>2. \A s \in InUse(b) : b.oid[s] < n + 1
  BY <1>1 DEF Ids
<1> QED BY <1>2 DEF Ids

\* An order that rests has its place in the list of its side, and no other list
\* changes.
LEMMA PlaceAgrees ==
    ASSUME NEW b, BookOK(b), b.count < capacity,
           NEW side \in {0, 1}, NEW price \in 1..maxPrice,
           NEW id \in Nat, Ids(b, id), id # 0, NEW account \in Nat, NEW qty \in Nat,
           NEW d, d = place(b, side, price, id, account, qty)
    PROVE  /\ BookOK(d) /\ d.nextId = b.nextId /\ Ids(d, id + 1)
           /\ sideOrders(d, side) =
                 Lists!place(Lists!Order(id, account, side, price, qty), sideOrders(b, side))
           /\ sideOrders(d, 1 - side) = sideOrders(b, 1 - side)
<1>1. b \in BookSet /\ maxPrice \in Nat /\ price \in 0..maxPrice /\ price \in Nat
  BY Bounds DEF BookOK
<1>2. BookOK(d) /\ d.nextId = b.nextId
  <2>1. price \in 0..maxPrice
    BY <1>1
  <2> QED BY <2>1, PlaceKeeps
<1>3. PICK o : o = Lists!Order(id, account, side, price, qty)
  OBVIOUS
<1>4. /\ Ids(d, id + 1)
      /\ \A sd \in {0, 1} :
            Orders(d, sd) = IF sd = side THEN Orders(b, sd) \cup {o} ELSE Orders(b, sd)
  BY <1>3, PlaceOrders
<1>5. o \in OrderSet /\ o.side = side /\ o.id = id
  BY <1>1, <1>3 DEF Lists!Order, OrderSet
<1>6. ASSUME NEW r \in Orders(b, side) PROVE r.id < o.id
  <2>1. PICK t \in InUse(b) : r = Ord(b, t)
    BY DEF Orders, Resting
  <2>2. r.id = b.oid[t] /\ b.oid[t] < id
    BY <1>1, <2>1, OrdSet DEF Ids
  <2> QED BY <1>5, <2>2
<1>7. ListOf(sideOrders(b, side), side, Orders(b, side))
  BY SideOrdersIs
<1>8. ListOf(Lists!place(o, sideOrders(b, side)), side, Orders(b, side) \cup {o})
  BY <1>5, <1>6, <1>7, ListPlace
<1>9. ListOf(sideOrders(d, side), side, Orders(b, side) \cup {o})
  <2>1. ListOf(sideOrders(d, side), side, Orders(d, side))
    BY <1>2, <1>4, SideOrdersIs
  <2>2. Orders(d, side) = Orders(b, side) \cup {o}
    BY <1>4
  <2> QED BY <2>1, <2>2
<1>10. sideOrders(d, side) = Lists!place(o, sideOrders(b, side))
  BY <1>8, <1>9, OneList
<1>11. sideOrders(d, 1 - side) = sideOrders(b, 1 - side)
  <2>1. PICK sd : sd = 1 - side
    OBVIOUS
  <2>2. sd \in {0, 1} /\ sd # side
    BY <2>1
  <2>3. Orders(d, sd) = Orders(b, sd)
    BY <1>4, <2>2
  <2> QED BY <1>2, <1>4, <2>1, <2>2, <2>3, SameOrders
<1> QED BY <1>2, <1>3, <1>4, <1>10, <1>11

\* A book that a command leaves keeps the ids, and its lists are these.
Leaves(d, n, bids, asks) ==
    /\ Ids(d, n) /\ d.nextId = n /\ sideOrders(d, 0) = bids /\ sideOrders(d, 1) = asks

\* An accepted order matches, rests or is cancelled as in the lists.
LEMMA SubmitAgrees ==
    ASSUME BookInv, Ids(book, book.nextId),
           NEW side \in {0, 1}, NEW limit \in Limits(side), NEW q \in Nat,
           NEW account \in Nat, NEW tag \in Nat, NEW tif,
           tif # 1 => limit \in 1..maxPrice,
           submit(side, limit, q, account, tag, tif)
    PROVE  Ids(book', (book').nextId) /\ Lists!submit(side, limit, q, account, tag, tif)
<1>1. PICK id : id = book.nextId
  OBVIOUS
<1>2. /\ BookOK(book) /\ book \in BookSet /\ id \in Nat /\ id # 0 /\ Ids(book, id)
      /\ id + 1 \in Nat
  BY <1>1 DEF BookInv, BookOK, BookSet
<1>3. PICK b0 : b0 = [book EXCEPT !.nextId = id + 1]
  OBVIOUS
<1>4. /\ Ids(b0, id) /\ BookOK(b0) /\ b0.nextId = id + 1
      /\ \A sd \in {0, 1} : /\ Orders(b0, sd) = Orders(book, sd)
                            /\ sideOrders(b0, sd) = sideOrders(book, sd)
  <2>1. PICK b : b = book
    OBVIOUS
  <2>2. BookOK(b) /\ Ids(b, id) /\ b0 = [b EXCEPT !.nextId = id + 1]
    BY <1>2, <1>3, <2>1
  <2>3. /\ Ids(b0, id) /\ BookOK(b0) /\ b0.nextId = id + 1
        /\ \A sd \in {0, 1} : /\ Orders(b0, sd) = Orders(b, sd)
                              /\ sideOrders(b0, sd) = sideOrders(b, sd)
    BY <1>2, <2>2, NextIdOrders
  <2> QED BY <2>1, <2>3
<1>5. PICK events : events = <<<<1, id, tag, 0, 0, 0, 0>>>>
  OBVIOUS
<1>6. events \in Seq(Seq(Nat)) /\ events = <<Lists!Accepted(id, tag)>>
  <2>1. <<1, id, tag, 0, 0, 0, 0>> \in Seq(Nat)
    BY <1>2
  <2> QED BY <1>5, <2>1 DEF Lists!Accepted
<1>7. PICK m : m = fill(b0, events, id, account, side, limit, q)
  OBVIOUS
<1>8. PICK sd, os, own : /\ sd = 1 - side /\ os = sideOrders(book, 1 - side)
                         /\ own = sideOrders(book, side)
  OBVIOUS
<1>9. sd \in {0, 1} /\ sd # side /\ os = sideOrders(b0, 1 - side) /\ own = sideOrders(b0, side)
  BY <1>4, <1>8
<1>10. PICK F : F = Lists!fill(id, account, side, limit, q, os)
  OBVIOUS
<1>11. /\ m \in Matchings(side, id + 1) /\ Ids(m.book, id)
       /\ Orders(m.book, side) = Orders(b0, side) /\ Done(m, side, events, F)
  <2>1. b0 \in GoodBooks(id + 1)
    BY <1>4 DEF GoodBooks, BookOK
  <2>2. id + 1 \in Nat /\ id \in Nat /\ events \in Seq(Seq(Nat)) /\ Ids(b0, id)
    BY <1>2, <1>4, <1>6
  <2>3. Agreed(fill(b0, events, id, account, side, limit, q),
               Lists!fill(id, account, side, limit, q, sideOrders(b0, 1 - side)),
               side, id + 1, id, b0, events)
    BY <2>1, <2>2, FillAgrees
  <2>4. Agreed(m, F, side, id + 1, id, b0, events)
    BY <1>7, <1>9, <1>10, <2>3
  <2> QED BY <2>4 DEF Agreed
<1>12. PICK mb, rem, self, mo : mb = m.book /\ rem = m.rem /\ self = m.selfTrade /\ mo = m.out
  OBVIOUS
<1>13. /\ BookOK(mb) /\ mb \in BookSet /\ mb.nextId = id + 1 /\ rem \in Nat /\ self \in BOOLEAN
       /\ mo \in Seq(Seq(Nat)) /\ Ids(mb, id)
  BY <1>11, <1>12 DEF Matchings, GoodBooks
<1>14. /\ F.others = sideOrders(mb, sd) /\ F.remaining = rem /\ F.selfTrade = self
       /\ events \o F.trades = mo
  BY <1>8, <1>11, <1>12 DEF Done
<1>15. own = sideOrders(mb, side)
  BY <1>4, <1>9, <1>11, <1>12, <1>13, SameOrders
<1>16. mb.count = Len(F.others) + Len(own)
  <2>1. mb.count = Len(sideOrders(mb, 0)) + Len(sideOrders(mb, 1))
    BY <1>13, CountIs
  <2>2. Len(sideOrders(mb, 0)) \in Nat /\ Len(sideOrders(mb, 1)) \in Nat
    <3>1. ListOf(sideOrders(mb, 0), 0, Orders(mb, 0)) /\ ListOf(sideOrders(mb, 1), 1, Orders(mb, 1))
      BY <1>13, SideOrdersIs
    <3> QED BY <3>1 DEF ListOf
  <2>3. CASE side = 0
    BY <1>8, <1>14, <1>15, <2>1, <2>2, <2>3
  <2>4. CASE side = 1
    BY <1>8, <1>14, <1>15, <2>1, <2>2, <2>4
  <2> QED BY <2>3, <2>4
<1>17. PICK nb, no : nb = book' /\ no = out'
  OBVIOUS
<1>18. PICK full, rests, reason :
          /\ full = (mb.count >= capacity)
          /\ rests = (rem # 0 /\ ~self /\ tif # 1 /\ ~full)
          /\ reason = IF self THEN 3 ELSE IF tif = 1 THEN 2 ELSE 4
  OBVIOUS
<1>19. mb.count \in Nat /\ capacity \in Nat /\ (~full <=> mb.count < capacity)
  <2>1. mb.count \in Nat /\ capacity \in Nat
    BY <1>13, BookAssumption DEF BookSet, capacity
  <2>2. PICK c : c = mb.count
    OBVIOUS
  <2>3. c \in Nat /\ (c >= capacity <=> ~(c < capacity))
    BY <2>1, <2>2
  <2>4. full <=> c >= capacity
    BY <1>18, <2>2
  <2> QED BY <2>1, <2>2, <2>3, <2>4, Zenon
\* What the program does.
<1>20. /\ id <= MaxId
       /\ rests => nb = place(mb, side, limit, id, account, rem) /\ no = mo
       /\ ~rests => nb = mb /\ no = IF rem = 0 THEN mo
                                    ELSE Append(mo, <<4, id, rem, reason, 0, 0, 0>>)
  <2>1. submit(side, limit, q, account, tag, tif)
    OBVIOUS
  <2>2. m.rem = rem /\ m.selfTrade = self /\ m.book = mb /\ m.out = mo
    BY <1>12
  <2>3. m = fill([book EXCEPT !.nextId = book.nextId + 1], <<<<1, book.nextId, tag, 0, 0, 0, 0>>>>,
                 book.nextId, account, side, limit, q)
    BY <1>1, <1>3, <1>5, <1>7
  <2>4. /\ book.nextId <= MaxId
        /\ IF m.rem = 0 THEN Becomes(m.book, m.out)
           ELSE IF m.selfTrade
           THEN Becomes(m.book, Append(m.out, <<4, book.nextId, m.rem, 3, 0, 0, 0>>))
           ELSE IF tif = 1
           THEN Becomes(m.book, Append(m.out, <<4, book.nextId, m.rem, 2, 0, 0, 0>>))
           ELSE IF m.book.count < capacity
           THEN Becomes(place(m.book, side, limit, book.nextId, account, m.rem), m.out)
           ELSE Becomes(m.book, Append(m.out, <<4, book.nextId, m.rem, 4, 0, 0, 0>>))
    BY <2>1, <2>3 DEF submit
  <2>5. /\ id <= MaxId
        /\ IF rem = 0 THEN Becomes(mb, mo)
           ELSE IF self THEN Becomes(mb, Append(mo, <<4, id, rem, 3, 0, 0, 0>>))
           ELSE IF tif = 1 THEN Becomes(mb, Append(mo, <<4, id, rem, 2, 0, 0, 0>>))
           ELSE IF mb.count < capacity
           THEN Becomes(place(mb, side, limit, id, account, rem), mo)
           ELSE Becomes(mb, Append(mo, <<4, id, rem, 4, 0, 0, 0>>))
    BY <1>1, <2>2, <2>4
  <2> QED BY <1>13, <1>17, <1>18, <1>19, <2>5 DEF Becomes
\* What the lists then are.
<1>21. /\ Ids(nb, id + 1) /\ nb.nextId = id + 1
       /\ sideOrders(nb, side) =
             IF rests THEN Lists!place(Lists!Order(id, account, side, limit, rem), own) ELSE own
       /\ sideOrders(nb, sd) = F.others
  <2>1. CASE rests
    <3>1. rests <=> (rem # 0 /\ ~self /\ tif # 1 /\ ~full)
      BY <1>18
    <3>2. limit \in 1..maxPrice /\ mb.count < capacity
      BY <1>19, <2>1, <3>1
    <3>3. nb = place(mb, side, limit, id, account, rem)
      BY <1>20, <2>1
    <3>4. /\ nb.nextId = mb.nextId /\ Ids(nb, id + 1)
          /\ sideOrders(nb, side) =
                Lists!place(Lists!Order(id, account, side, limit, rem), sideOrders(mb, side))
          /\ sideOrders(nb, 1 - side) = sideOrders(mb, 1 - side)
      BY <1>2, <1>13, <3>2, <3>3, PlaceAgrees
    <3> QED BY <1>8, <1>13, <1>14, <1>15, <2>1, <3>4
  <2>2. CASE ~rests
    <3>1. nb = mb
      BY <1>20, <2>2
    <3>2. Ids(mb, id + 1)
      BY <1>2, <1>13, LaterIds
    <3> QED BY <1>13, <1>14, <1>15, <2>2, <3>1, <3>2
  <2> QED BY <2>1, <2>2
<1>22. Lists!opposite(side) = os /\ Lists!same(side) = own
  <2>1. CASE side = 0
    BY <1>8, <2>1 DEF Lists!opposite, Lists!same, Lists!Buy
  <2>2. CASE side = 1
    BY <1>8, <2>2 DEF Lists!opposite, Lists!same, Lists!Buy
  <2> QED BY <2>1, <2>2
<1>23. Lists!Sides(side, sideOrders(nb, side), sideOrders(nb, sd))
  <2>1. CASE side = 0
    BY <1>8, <1>17, <2>1 DEF Lists!Sides, Lists!Buy
  <2>2. CASE side = 1
    BY <1>8, <1>17, <2>2 DEF Lists!Sides, Lists!Buy
  <2> QED BY <2>1, <2>2
<1>24. Lists!Sides(side, IF rests THEN Lists!place(Lists!Order(id, account, side, limit, rem), own)
                         ELSE own, F.others)
  BY <1>21, <1>23
<1>25. no = IF rem = 0 \/ rests THEN events \o F.trades
            ELSE Append(events \o F.trades, Lists!Cancelled(id, rem, reason))
  <2>1. rests => rem # 0
    BY <1>18
  <2>2. Lists!Cancelled(id, rem, reason) = <<4, id, rem, reason, 0, 0, 0>>
    BY DEF Lists!Cancelled
  <2> QED BY <1>14, <1>20, <2>1, <2>2
<1>26. (book').nextId = id + 1 /\ no = out'
  BY <1>17, <1>21
<1>27. Lists!submit(side, limit, q, account, tag, tif)
  <2>1. Lists!fill(book.nextId, account, side, limit, q, Lists!opposite(side)) = F
    BY <1>1, <1>10, <1>22
  <2>2. Len(F.others) + Len(Lists!same(side)) >= capacity <=> full
    BY <1>16, <1>18, <1>22
  <2>3. F.remaining # 0 /\ ~F.selfTrade /\ tif # 1 /\ ~full <=> rests
    BY <1>14, <1>18
  <2>4. reason = IF F.selfTrade THEN 3 ELSE IF tif = 1 THEN 2 ELSE 4
    BY <1>14, <1>18
  <2>5. events = <<Lists!Accepted(book.nextId, tag)>>
    BY <1>1, <1>6
  <2> QED BY <1>1, <1>14, <1>20, <1>22, <1>24, <1>25, <1>26, <2>1, <2>2, <2>3, <2>4, <2>5
          DEF Lists!submit
<1> QED BY <1>17, <1>21, <1>26, <1>27

\* A cancelled order leaves the lists.
LEMMA CancelAgrees ==
    ASSUME BookInv, Ids(book, book.nextId), NEW id, NEW s, s = findSlot(book.oid, id), s # 0,
           cancel(id, s)
    PROVE  /\ Leaves(book', book.nextId, Lists!remove(sideOrders(book, 0), id),
                     Lists!remove(sideOrders(book, 1), id))
           /\ out' = <<Lists!Cancelled(id, Lists!find(id).qty, 1)>>
<1>1. PICK b, n, nb : b = book /\ n = book.nextId /\ nb = book'
  OBVIOUS
<1>2. BookOK(b) /\ b \in BookSet /\ b.count = Cardinality(InUse(b)) /\ Ids(b, n) /\ b.nextId = n
  BY <1>1 DEF BookInv, BookOK
<1>3. s \in InUse(b) /\ b.oid[s] = id /\ Lists!find(id) = Ord(b, s)
  <2>1. BookOK(book) /\ Ids(book, n)
    BY <1>1, <1>2
  <2>2. Lists!find(id) = Ord(book, s) /\ s \in InUse(book) /\ book.oid[s] = id
    BY <2>1, FoundIs
  <2> QED BY <1>1, <2>2
<1>4. PICK c \in Chains : ChainsOK(b, c)
  BY <1>2 DEF BookOK
<1>5. PICK lv : lv = b.lvl[s]
  OBVIOUS
<1>6. s \in Places /\ lv \in Levels
  BY <1>2, <1>3, <1>5, OrdSet
<1>7. PICK i \in 1..Len(c[lv]) : c[lv][i] = s
  BY <1>3, <1>4, <1>5 DEF ChainsOK, On
<1>8. PICK q : q = c[lv]
  OBVIOUS
<1>9. q \in Seq(Places) /\ Linked(b, lv, q)
  BY <1>4, <1>6, <1>8 DEF Chains, ChainsOK
<1>10. predecessor(b, lv, s) = Prior(q, i)
  <2>1. i \in 1..Len(q) /\ s = q[i]
    BY <1>7, <1>8
  <2>2. predecessor(b, lv, q[i]) = Prior(q, i)
    BY <1>2, <1>6, <1>9, <2>1, PredecessorIs
  <2> QED BY <2>1, <2>2
<1>11. nb = unlink(b, lv, Prior(c[lv], i), s) /\ out' = <<<<4, id, b.qty[s], 1, 0, 0, 0>>>>
  BY <1>1, <1>5, <1>8, <1>10 DEF cancel, Becomes
<1>12. BookOK(nb) /\ nb.nextId = n
  <2>1. nb = unlink(b, lv, Prior(c[lv], i), c[lv][i])
    BY <1>7, <1>11
  <2>2. BookOK(nb) /\ nb.nextId = b.nextId
    BY <1>2, <1>4, <1>6, <1>7, <2>1, UnlinkKeeps
  <2> QED BY <1>2, <2>2
<1>13. Ids(nb, n) /\ \A side \in {0, 1} : Orders(nb, side) = Orders(b, side) \ {Ord(b, s)}
  <2>1. s = c[lv][i]
    BY <1>7
  <2> QED BY <1>2, <1>4, <1>6, <1>7, <1>11, <2>1, UnlinkOrders
<1>14. ASSUME NEW side \in {0, 1}
       PROVE  sideOrders(nb, side) = Lists!remove(sideOrders(b, side), id)
  <2>1. ListOf(sideOrders(b, side), side, Orders(b, side))
    BY <1>2, SideOrdersIs
  <2>2. ListOf(Lists!remove(sideOrders(b, side), id), side, {o \in Orders(b, side) : o.id # id})
    BY <2>1, ListRemove
  <2>3. {o \in Orders(b, side) : o.id # id} = Orders(nb, side)
    <3>1. \A o \in Orders(b, side) : o.id = id <=> o = Ord(b, s)
      BY <1>2, <1>3, OrderIds
    <3> QED BY <1>13, <3>1
  <2>4. ListOf(sideOrders(nb, side), side, Orders(nb, side))
    BY <1>12, <1>13, SideOrdersIs
  <2>5. ListOf(Lists!remove(sideOrders(b, side), id), side, Orders(nb, side))
    BY <2>2, <2>3
  <2> QED BY <2>4, <2>5, OneList
<1>15. Leaves(nb, n, Lists!remove(sideOrders(b, 0), id), Lists!remove(sideOrders(b, 1), id))
  BY <1>12, <1>13, <1>14 DEF Leaves
<1>16. Lists!find(id).qty = b.qty[s]
  BY <1>2, <1>3, OrdSet
<1> QED BY <1>1, <1>11, <1>15, <1>16 DEF Lists!Cancelled

\* A reduced order keeps its place.
LEMMA ReduceAgrees ==
    ASSUME BookInv, Ids(book, book.nextId), NEW id, NEW s, s = findSlot(book.oid, id), s # 0,
           NEW q \in Nat, reduce(id, s, q)
    PROVE  /\ Leaves(book', book.nextId, Lists!setQty(sideOrders(book, 0), id, q),
                     Lists!setQty(sideOrders(book, 1), id, q))
           /\ out' = <<Lists!Reduced(id, q)>>
<1>1. PICK b, n, nb : b = book /\ n = book.nextId /\ nb = book'
  OBVIOUS
<1>2. BookOK(b) /\ b \in BookSet /\ Ids(b, n) /\ b.nextId = n
  BY <1>1 DEF BookInv, BookOK
<1>3. s \in InUse(b) /\ b.oid[s] = id
  <2>1. BookOK(book) /\ Ids(book, n)
    BY <1>1, <1>2
  <2>2. s \in InUse(book) /\ book.oid[s] = id
    BY <2>1, FoundIs
  <2> QED BY <1>1, <2>2
<1>4. nb = Requantified(b, s, q) /\ out' = <<<<5, id, q, 0, 0, 0, 0>>>>
  BY <1>1 DEF reduce, Becomes, Requantified
<1>5. BookOK(nb) /\ nb.nextId = n
  <2>1. BookOK(nb) /\ nb.nextId = b.nextId
    BY <1>2, <1>4, QuantityKeeps
  <2> QED BY <1>2, <2>1
<1>6. /\ Ids(nb, n)
      /\ \A side \in {0, 1} :
            Orders(nb, side) =
               {IF o.id = b.oid[s] THEN [o EXCEPT !.qty = q] ELSE o : o \in Orders(b, side)}
  BY <1>2, <1>3, <1>4, QuantityOrders
<1>7. ASSUME NEW side \in {0, 1}
      PROVE  sideOrders(nb, side) = Lists!setQty(sideOrders(b, side), id, q)
  <2>1. ListOf(sideOrders(b, side), side, Orders(b, side))
    BY <1>2, SideOrdersIs
  <2>2. ListOf(Lists!setQty(sideOrders(b, side), id, q), side,
               {IF o.id = id THEN [o EXCEPT !.qty = q] ELSE o : o \in Orders(b, side)})
    BY <2>1, ListSetQty
  <2>3. ListOf(sideOrders(nb, side), side, Orders(nb, side))
    BY <1>5, <1>6, SideOrdersIs
  <2>4. Orders(nb, side) = {IF o.id = id THEN [o EXCEPT !.qty = q] ELSE o : o \in Orders(b, side)}
    BY <1>3, <1>6
  <2>5. ListOf(Lists!setQty(sideOrders(b, side), id, q), side, Orders(nb, side))
    BY <2>2, <2>4
  <2> QED BY <2>3, <2>5, OneList
<1>8. Leaves(nb, n, Lists!setQty(sideOrders(b, 0), id, q), Lists!setQty(sideOrders(b, 1), id, q))
  BY <1>5, <1>6, <1>7 DEF Leaves
<1> QED BY <1>1, <1>4, <1>8 DEF Lists!Reduced

\* A post-only order crosses the book when it crosses the lists.
LEMMA CrossesAgrees ==
    ASSUME BookInv, Ids(book, book.nextId), NEW side \in {0, 1}, NEW price
    PROVE  crosses(book, side, price) <=> Lists!crosses(side, price)
<1>1. PICK b, n, sd, os : b = book /\ n = book.nextId /\ sd = 1 - side /\ os = sideOrders(b, sd)
  OBVIOUS
<1>2. BookOK(b) /\ Ids(b, n) /\ sd \in {0, 1}
  BY <1>1 DEF BookInv
<1>3. PICK p : p = bestPrice(b, sd)
  OBVIOUS
<1>4. p = Lists!bestPrice(os) /\ (p = 0 <=> os = <<>>)
  BY <1>1, <1>2, <1>3, BestPriceIs
<1>5. Lists!opposite(side) = os
  <2>1. CASE side = 0
    BY <1>1, <2>1 DEF Lists!opposite, Lists!Buy
  <2>2. CASE side = 1
    BY <1>1, <2>2 DEF Lists!opposite, Lists!Buy
  <2> QED BY <2>1, <2>2
<1>6. os # <<>> => p = Head(os).price
  BY <1>4 DEF Lists!bestPrice
<1>7. crosses(book, side, price) <=> p # 0 /\ acceptable(side, price, p)
  BY <1>1, <1>3 DEF crosses
<1>8. Lists!crosses(side, price) <=> os # <<>> /\ acceptable(side, price, Head(os).price)
  BY <1>5 DEF Lists!crosses, Lists!acceptable, acceptable, Lists!Buy
<1> QED BY <1>4, <1>6, <1>7, <1>8

\* What a refused command does.
LEMMA RejectAgrees ==
    ASSUME BookInv, Ids(book, book.nextId), NEW kind, NEW ref, NEW reason,
           reject(kind, ref, reason)
    PROVE  Ids(book', (book').nextId) /\ Lists!reject(kind, ref, reason)
<1>1. book' = book /\ out' = <<<<2, kind, ref, reason, 0, 0, 0>>>>
  BY DEF reject, Becomes
<1> QED BY <1>1 DEF Lists!reject, Lists!Rejected

\* A cancelled or reduced order is that of the lists.
LEMMA FoundAgrees ==
    ASSUME BookInv, Ids(book, book.nextId), NEW id, NEW s, s = findSlot(book.oid, id)
    PROVE  /\ s = 0 <=> Lists!Found(id) = {}
           /\ s # 0 => /\ Lists!find(id).account = book.acct[s]
                       /\ Lists!find(id).qty = book.qty[s]
<1>1. BookOK(book) /\ book \in BookSet
  BY DEF BookInv, BookOK
<1>2. PICK n : n = book.nextId
  OBVIOUS
<1>3. Ids(book, n)
  BY <1>2
<1>4. /\ s = 0 => Lists!Found(id) = {}
      /\ s # 0 => /\ Lists!Found(id) # {} /\ Lists!find(id) = Ord(book, s)
                  /\ s \in InUse(book) /\ book.oid[s] = id
  BY <1>1, <1>3, FoundIs
<1>5. Ord(book, s).account = book.acct[s] /\ Ord(book, s).qty = book.qty[s]
  BY DEF Ord
<1> QED BY <1>4, <1>5

\* A word that is no more than 1 is a side.
LEMMA SideWord == ASSUME NEW w \in Nat, ~(w > 1) PROVE w \in {0, 1}
OBVIOUS

\* A word in a range.
LEMMA WordIn == ASSUME NEW w \in Nat, NEW n \in Nat, inRange(1, n, w) PROVE w \in 1..n
BY DEF inRange

\* The limit of a market order.
LEMMA EdgeIn ==
    ASSUME NEW side \in {0, 1}, NEW edge, edge = IF side = 0 THEN maxPrice ELSE 1
    PROVE  edge \in Limits(side)
<1>1. CASE side = 0
  BY <1>1, Bounds DEF Limits
<1>2. CASE side = 1
  BY <1>2 DEF Limits
<1> QED BY <1>1, <1>2

\* An order at a limit.
LEMMA LimitAgrees ==
    ASSUME BookInv, Ids(book, book.nextId), NEW r \in Seq(Nat), ~(Len(r) < 7), LimitCommand(r)
    PROVE  Ids(book', (book').nextId) /\ Lists!limit(r)
<1>1. r[2] \in Nat /\ r[3] \in Nat /\ r[4] \in Nat /\ r[5] \in Nat /\ r[6] \in Nat /\ r[7] \in Nat
  <2>1. \A i \in 1..7 : r[i] \in Nat
    OBVIOUS
  <2> QED BY <2>1
<1>2. maxPrice \in Nat /\ maxQty \in Nat
  BY BookAssumption
<1>3. PICK side, price, q, account, tag, tif :
         /\ side = r[2] /\ price = r[3] /\ q = r[4] /\ account = r[5] /\ tag = r[6] /\ tif = r[7]
  OBVIOUS
<1>4. /\ inRange(1, maxPrice, price) <=> Lists!inRange(maxPrice, price)
      /\ inRange(1, maxQty, q) <=> Lists!inRange(maxQty, q)
  BY DEF inRange, Lists!inRange
<1>5. IF side > 1 THEN reject(1, tag, 3)
      ELSE IF tif > 2 THEN reject(1, tag, 4)
      ELSE IF ~inRange(1, maxPrice, price) THEN reject(1, tag, 5)
      ELSE IF ~inRange(1, maxQty, q) THEN reject(1, tag, 6)
      ELSE IF tif = 2 /\ crosses(book, side, price) THEN reject(1, tag, 9)
      ELSE submit(side, price, q, account, tag, tif)
  BY <1>3 DEF LimitCommand
<1>6. Lists!limit(r) <=>
         IF side > 1 THEN Lists!reject(1, tag, 3)
         ELSE IF tif > 2 THEN Lists!reject(1, tag, 4)
         ELSE IF ~Lists!inRange(maxPrice, price) THEN Lists!reject(1, tag, 5)
         ELSE IF ~Lists!inRange(maxQty, q) THEN Lists!reject(1, tag, 6)
         ELSE IF tif = 2 /\ Lists!crosses(side, price) THEN Lists!reject(1, tag, 9)
         ELSE Lists!submit(side, price, q, account, tag, tif)
  BY <1>3 DEF Lists!limit
<1>7. ~(side > 1) => side \in {0, 1}
  BY <1>1, <1>3, SideWord
<1>8. side \in {0, 1} => (crosses(book, side, price) <=> Lists!crosses(side, price))
  BY CrossesAgrees
<1>9. ASSUME side \in {0, 1}, inRange(1, maxPrice, price), submit(side, price, q, account, tag, tif)
      PROVE  Ids(book', (book').nextId) /\ Lists!submit(side, price, q, account, tag, tif)
  <2>1. price \in 1..maxPrice
    BY <1>1, <1>2, <1>3, <1>9, WordIn
  <2>2. price \in Limits(side)
    BY <1>2, <2>1 DEF Limits
  <2>3. q \in Nat /\ account \in Nat /\ tag \in Nat
    BY <1>1, <1>3
  <2> QED BY <1>9, <2>1, <2>2, <2>3, SubmitAgrees
<1>10. \A k, ref, reason : reject(k, ref, reason) =>
          Ids(book', (book').nextId) /\ Lists!reject(k, ref, reason)
  BY RejectAgrees
<1> QED BY <1>4, <1>5, <1>6, <1>7, <1>8, <1>9, <1>10

\* An order at any price.
LEMMA MarketAgrees ==
    ASSUME BookInv, Ids(book, book.nextId), NEW r \in Seq(Nat), ~(Len(r) < 7), MarketCommand(r)
    PROVE  Ids(book', (book').nextId) /\ Lists!market(r)
<1>1. r[2] \in Nat /\ r[3] \in Nat /\ r[4] \in Nat /\ r[5] \in Nat
  <2>1. \A i \in 1..7 : r[i] \in Nat
    OBVIOUS
  <2> QED BY <2>1
<1>2. PICK side, q, account, tag, edge :
         /\ side = r[2] /\ q = r[3] /\ account = r[4] /\ tag = r[5]
         /\ edge = IF r[2] = 0 THEN maxPrice ELSE 1
  OBVIOUS
<1>3. inRange(1, maxQty, q) <=> Lists!inRange(maxQty, q)
  BY DEF inRange, Lists!inRange
<1>4. IF side > 1 THEN reject(2, tag, 3)
      ELSE IF ~inRange(1, maxQty, q) THEN reject(2, tag, 6)
      ELSE submit(side, edge, q, account, tag, 1)
  BY <1>2 DEF MarketCommand
<1>5. Lists!market(r) <=>
         IF side > 1 THEN Lists!reject(2, tag, 3)
         ELSE IF ~Lists!inRange(maxQty, q) THEN Lists!reject(2, tag, 6)
         ELSE Lists!submit(side, edge, q, account, tag, 1)
  BY <1>2 DEF Lists!market, Lists!Buy
<1>6. ~(side > 1) => side \in {0, 1}
  BY <1>1, <1>2, SideWord
<1>7. ASSUME side \in {0, 1}, submit(side, edge, q, account, tag, 1)
      PROVE  Ids(book', (book').nextId) /\ Lists!submit(side, edge, q, account, tag, 1)
  <2>1. edge \in Limits(side)
    <3>1. edge = IF side = 0 THEN maxPrice ELSE 1
      BY <1>2
    <3> QED BY <1>7, <3>1, EdgeIn
  <2>2. q \in Nat /\ account \in Nat /\ tag \in Nat
    BY <1>1, <1>2
  <2>3. PICK tif : tif = 1
    OBVIOUS
  <2>4. submit(side, edge, q, account, tag, tif) /\ (tif # 1 => edge \in 1..maxPrice)
    BY <1>7, <2>3
  <2>5. Ids(book', (book').nextId) /\ Lists!submit(side, edge, q, account, tag, tif)
    BY <1>7, <2>1, <2>2, <2>4, SubmitAgrees
  <2> QED BY <2>3, <2>5
<1>8. \A k, ref, reason : reject(k, ref, reason) =>
         Ids(book', (book').nextId) /\ Lists!reject(k, ref, reason)
  BY RejectAgrees
<1> QED BY <1>3, <1>4, <1>5, <1>6, <1>7, <1>8

\* A cancel.
LEMMA CancelCommandAgrees ==
    ASSUME BookInv, Ids(book, book.nextId), NEW r \in Seq(Nat), ~(Len(r) < 7), CancelCommand(r)
    PROVE  Ids(book', (book').nextId) /\ Lists!cancel(r)
<1>1. PICK id, s : id = r[2] /\ s = findSlot(book.oid, id)
  OBVIOUS
<1>2. /\ s = 0 <=> Lists!Found(id) = {}
      /\ s # 0 => Lists!find(id).account = book.acct[s]
  BY <1>1, FoundAgrees
<1>3. IF s = 0 THEN reject(3, id, 7)
      ELSE IF book.acct[s] # r[3] THEN reject(3, id, 8)
      ELSE cancel(id, s)
  BY <1>1 DEF CancelCommand
<1>4. Lists!cancel(r) <=>
         IF Lists!Found(id) = {} THEN Lists!reject(3, id, 7)
         ELSE IF Lists!find(id).account # r[3] THEN Lists!reject(3, id, 8)
         ELSE /\ sideOrders(book', 0) = Lists!remove(sideOrders(book, 0), id)
              /\ sideOrders(book', 1) = Lists!remove(sideOrders(book, 1), id)
              /\ out' = <<Lists!Cancelled(id, Lists!find(id).qty, 1)>>
              /\ (book').nextId = book.nextId
  BY <1>1 DEF Lists!cancel
<1>5. \A k, ref, reason : reject(k, ref, reason) =>
         Ids(book', (book').nextId) /\ Lists!reject(k, ref, reason)
  BY RejectAgrees
<1>6. CASE s = 0
  BY <1>2, <1>3, <1>4, <1>5, <1>6
<1>7. CASE s # 0 /\ book.acct[s] # r[3]
  BY <1>2, <1>3, <1>4, <1>5, <1>7
<1>8. CASE s # 0 /\ book.acct[s] = r[3]
  <2>1. cancel(id, s)
    BY <1>3, <1>8
  <2>2. /\ Leaves(book', book.nextId, Lists!remove(sideOrders(book, 0), id),
                  Lists!remove(sideOrders(book, 1), id))
        /\ out' = <<Lists!Cancelled(id, Lists!find(id).qty, 1)>>
    BY <1>1, <1>8, <2>1, CancelAgrees
  <2>3. /\ Ids(book', book.nextId) /\ (book').nextId = book.nextId
        /\ sideOrders(book', 0) = Lists!remove(sideOrders(book, 0), id)
        /\ sideOrders(book', 1) = Lists!remove(sideOrders(book, 1), id)
    BY <2>2 DEF Leaves
  <2> QED BY <1>2, <1>4, <1>8, <2>2, <2>3
<1> QED BY <1>6, <1>7, <1>8

\* A reduce.
LEMMA ReduceCommandAgrees ==
    ASSUME BookInv, Ids(book, book.nextId), NEW r \in Seq(Nat), ~(Len(r) < 7), ReduceCommand(r)
    PROVE  Ids(book', (book').nextId) /\ Lists!reduce(r)
<1>1. PICK id, s, q : id = r[2] /\ s = findSlot(book.oid, id) /\ q = r[4]
  OBVIOUS
<1>2. /\ s = 0 <=> Lists!Found(id) = {}
      /\ s # 0 => Lists!find(id).account = book.acct[s] /\ Lists!find(id).qty = book.qty[s]
  BY <1>1, FoundAgrees
<1>3. IF s = 0 THEN reject(4, id, 7)
      ELSE IF book.acct[s] # r[3] THEN reject(4, id, 8)
      ELSE IF ~inRange(1, maxQty, q) THEN reject(4, id, 6)
      ELSE IF book.qty[s] <= q THEN reject(4, id, 10)
      ELSE reduce(id, s, q)
  BY <1>1 DEF ReduceCommand
<1>4. Lists!reduce(r) <=>
         IF Lists!Found(id) = {} THEN Lists!reject(4, id, 7)
         ELSE IF Lists!find(id).account # r[3] THEN Lists!reject(4, id, 8)
         ELSE IF ~Lists!inRange(maxQty, q) THEN Lists!reject(4, id, 6)
         ELSE IF Lists!find(id).qty <= q THEN Lists!reject(4, id, 10)
         ELSE /\ sideOrders(book', 0) = Lists!setQty(sideOrders(book, 0), id, q)
              /\ sideOrders(book', 1) = Lists!setQty(sideOrders(book, 1), id, q)
              /\ out' = <<Lists!Reduced(id, q)>>
              /\ (book').nextId = book.nextId
  BY <1>1 DEF Lists!reduce
<1>5. \A k, ref, reason : reject(k, ref, reason) =>
         Ids(book', (book').nextId) /\ Lists!reject(k, ref, reason)
  BY RejectAgrees
<1>6. inRange(1, maxQty, q) <=> Lists!inRange(maxQty, q)
  BY DEF inRange, Lists!inRange
<1>7. ASSUME s # 0, reduce(id, s, q)
      PROVE  /\ Ids(book', (book').nextId) /\ (book').nextId = book.nextId
             /\ sideOrders(book', 0) = Lists!setQty(sideOrders(book, 0), id, q)
             /\ sideOrders(book', 1) = Lists!setQty(sideOrders(book, 1), id, q)
             /\ out' = <<Lists!Reduced(id, q)>>
  <2>1. q \in Nat
    <3>1. \A i \in 1..7 : r[i] \in Nat
      OBVIOUS
    <3> QED BY <1>1, <3>1
  <2>2. /\ Leaves(book', book.nextId, Lists!setQty(sideOrders(book, 0), id, q),
                  Lists!setQty(sideOrders(book, 1), id, q))
        /\ out' = <<Lists!Reduced(id, q)>>
    BY <1>1, <1>7, <2>1, ReduceAgrees
  <2>3. /\ Ids(book', book.nextId) /\ (book').nextId = book.nextId
        /\ sideOrders(book', 0) = Lists!setQty(sideOrders(book, 0), id, q)
        /\ sideOrders(book', 1) = Lists!setQty(sideOrders(book, 1), id, q)
    BY <2>2 DEF Leaves
  <2> QED BY <2>2, <2>3
<1>8. CASE s = 0
  BY <1>2, <1>3, <1>4, <1>5, <1>8
<1>9. CASE s # 0
  BY <1>2, <1>3, <1>4, <1>5, <1>6, <1>7, <1>9
<1> QED BY <1>8, <1>9

\* Every record does what it does to the lists.
LEMMA StepAgrees ==
    ASSUME BookInv, Ids(book, book.nextId), NEW r \in Commands, step(r)
    PROVE  Ids(book', (book').nextId) /\ Lists!step(r)
<1>1. r \in Seq(Nat) /\ Len(r) \in Nat /\ Len(r) <= 7
  BY BookAssumption, RecordAssumption
<1>2. \A k, ref, reason : reject(k, ref, reason) =>
         Ids(book', (book').nextId) /\ Lists!reject(k, ref, reason)
  BY RejectAgrees
<1>3. CASE Len(r) < 7
  <2>1. reject(0, 0, 1)
    BY <1>3 DEF step
  <2>2. PICK n : n = Len(r)
    OBVIOUS
  <2>3. n \in Nat /\ n < 7
    BY <1>1, <1>3, <2>2
  <2>4. n # 7
    BY <2>3
  <2>5. Len(r) # 7
    BY <2>2, <2>4
  <2> QED BY <1>2, <2>1, <2>5 DEF Lists!step
<1>4. CASE ~(Len(r) < 7)
  <2>9. PICK n : n = Len(r)
    OBVIOUS
  <2>8. n \in Nat /\ n <= 7 /\ ~(n < 7)
    BY <1>1, <1>4, <2>9
  <2>10. n = 7
    BY <2>8
  <2>1. Len(r) = 7
    BY <2>9, <2>10
  <2>2. PICK k : k = r[1]
    OBVIOUS
  <2>3. CASE k = 1
    <3>1. LimitCommand(r)
      BY <1>4, <2>2, <2>3 DEF step
    <3>2. Ids(book', (book').nextId) /\ Lists!limit(r)
      BY <1>1, <1>4, <3>1, LimitAgrees
    <3> QED BY <2>1, <2>2, <2>3, <3>2 DEF Lists!step
  <2>4. CASE k = 2
    <3>1. MarketCommand(r)
      BY <1>4, <2>2, <2>4 DEF step
    <3>2. Ids(book', (book').nextId) /\ Lists!market(r)
      BY <1>1, <1>4, <3>1, MarketAgrees
    <3> QED BY <2>1, <2>2, <2>4, <3>2 DEF Lists!step
  <2>5. CASE k = 3
    <3>1. CancelCommand(r)
      BY <1>4, <2>2, <2>5 DEF step
    <3>2. Ids(book', (book').nextId) /\ Lists!cancel(r)
      BY <1>1, <1>4, <3>1, CancelCommandAgrees
    <3> QED BY <2>1, <2>2, <2>5, <3>2 DEF Lists!step
  <2>6. CASE k = 4
    <3>1. ReduceCommand(r)
      BY <1>4, <2>2, <2>6 DEF step
    <3>2. Ids(book', (book').nextId) /\ Lists!reduce(r)
      BY <1>1, <1>4, <3>1, ReduceCommandAgrees
    <3> QED BY <2>1, <2>2, <2>6, <3>2 DEF Lists!step
  <2>7. CASE k # 1 /\ k # 2 /\ k # 3 /\ k # 4
    <3>1. reject(r[1], 0, 2)
      BY <1>4, <2>2, <2>7 DEF step
    <3>2. Ids(book', (book').nextId) /\ Lists!reject(r[1], 0, 2)
      BY <1>2, <3>1
    <3> QED BY <2>1, <2>2, <2>7, <3>2 DEF Lists!step
  <2> QED BY <2>3, <2>4, <2>5, <2>6, <2>7
<1> QED BY <1>3, <1>4

\* The quantity at the best price of no orders.
LEMMA NoQty == Lists!bestQty(<<>>) = 0
<1> DEFINE Sum(f, v) == f = [k \in 0..0 |->
                           IF k = 0 THEN 0
                           ELSE IF <<>>[k].price = v THEN f[k - 1] + <<>>[k].qty ELSE f[k - 1]]
<1>1. PICK v : v = Lists!bestPrice(<<>>)
  OBVIOUS
<1>2. \E f : Sum(f, v)
  <2>1. PICK f : f = [k \in 0..0 |-> 0]
    OBVIOUS
  <2>2. Sum(f, v)
    BY <2>1
  <2> QED BY <2>2
<1>3. Lists!bestQty(<<>>) = (CHOOSE f : Sum(f, v))[0]
  BY <1>1 DEF Lists!bestQty
<1>4. PICK g : g = (CHOOSE f : Sum(f, v))
  OBVIOUS
<1>5. Sum(g, v)
  BY <1>2, <1>4
<1>6. g[0] = 0
  BY <1>5
<1> QED BY <1>3, <1>4, <1>6

\* The query of the top gives the best prices and quantities of the lists.
LEMMA TopAgrees ==
    ASSUME BookInv, Ids(book, book.nextId), top
    PROVE  Ids(book', (book').nextId) /\ Lists!top
<1>1. BookOK(book) /\ book' = book
  BY DEF BookInv, top
<1>2. PICK bp : bp = bestPrice(book, 0)
  OBVIOUS
<1>3. PICK ap : ap = bestPrice(book, 1)
  OBVIOUS
<1>4. out' = <<bp, IF bp = 0 THEN 0 ELSE levelQty(book, level(0, bp)),
               ap, IF ap = 0 THEN 0 ELSE levelQty(book, level(1, ap))>>
  BY <1>2, <1>3 DEF top
<1>5. /\ bp = Lists!bestPrice(sideOrders(book, 0))
      /\ bp = 0 <=> sideOrders(book, 0) = <<>>
  BY <1>1, <1>2, BestPriceIs
<1>6. /\ ap = Lists!bestPrice(sideOrders(book, 1))
      /\ ap = 0 <=> sideOrders(book, 1) = <<>>
  BY <1>1, <1>3, BestPriceIs
<1>7. (IF bp = 0 THEN 0 ELSE levelQty(book, level(0, bp))) = Lists!bestQty(sideOrders(book, 0))
  <2>1. CASE bp = 0
    BY <1>5, <2>1, NoQty
  <2>2. CASE bp # 0
    <3>1. levelQty(book, level(0, bp)) = Lists!bestQty(sideOrders(book, 0))
      BY <1>1, <1>2, <2>2, BestQtyIs
    <3> QED BY <2>2, <3>1
  <2> QED BY <2>1, <2>2
<1>8. (IF ap = 0 THEN 0 ELSE levelQty(book, level(1, ap))) = Lists!bestQty(sideOrders(book, 1))
  <2>1. CASE ap = 0
    BY <1>6, <2>1, NoQty
  <2>2. CASE ap # 0
    <3>1. levelQty(book, level(1, ap)) = Lists!bestQty(sideOrders(book, 1))
      BY <1>1, <1>3, <2>2, BestQtyIs
    <3> QED BY <2>2, <3>1
  <2> QED BY <2>1, <2>2
<1>9. /\ sideOrders(book', 0) = sideOrders(book, 0) /\ sideOrders(book', 1) = sideOrders(book, 1)
      /\ (book').nextId = book.nextId /\ Ids(book', (book').nextId)
  BY <1>1
<1>10. out' = <<Lists!bestPrice(sideOrders(book, 0)), Lists!bestQty(sideOrders(book, 0)),
                Lists!bestPrice(sideOrders(book, 1)), Lists!bestQty(sideOrders(book, 1))>>
  BY <1>4, <1>5, <1>6, <1>7, <1>8
<1> QED BY <1>9, <1>10 DEF Lists!top

\* The empty arrays stand for the empty lists.
LEMMA ListsStart == Init => Ids(book, book.nextId) /\ Lists!Init
<1> SUFFICES ASSUME Init PROVE Ids(book, book.nextId) /\ Lists!Init
  OBVIOUS
<1>1. BookOK(book) /\ book = init /\ command = <<>> /\ out = <<>>
  BY BookStarts DEF Init, BookInv
<1>2. InUse(book) = {}
  BY <1>1, Bounds DEF InUse, init
<1>3. Ids(book, book.nextId)
  BY <1>2 DEF Ids
<1>4. ASSUME NEW side \in {0, 1} PROVE sideOrders(book, side) = <<>>
  <2>1. Orders(book, side) = {}
    BY <1>2 DEF Orders, Resting
  <2>2. ListOf(sideOrders(book, side), side, {})
    BY <1>1, <1>3, <2>1, SideOrdersIs
  <2> QED BY <2>2, ListNone, OneList
<1>5. book.nextId = 1
  BY <1>1 DEF init
<1> QED BY <1>1, <1>3, <1>4, <1>5 DEF Lists!Init

\* Each step does the same to the arrays and to the lists.
LEMMA ListsKeep ==
    BookInv /\ Ids(book, book.nextId) /\ [Next]_vars
       => Ids(book, book.nextId)' /\ [Lists!Next]_Lists!vars
<1> SUFFICES ASSUME BookInv, Ids(book, book.nextId), [Next]_vars
             PROVE  Ids(book', (book').nextId) /\ [Lists!Next]_Lists!vars
  OBVIOUS
<1>1. CASE UNCHANGED vars
  <2>1. book' = book /\ command' = command /\ out' = out
    BY <1>1 DEF vars
  <2>2. sideOrders(book', 0) = sideOrders(book, 0) /\ sideOrders(book', 1) = sideOrders(book, 1)
    BY <2>1
  <2>3. UNCHANGED Lists!vars
    BY <2>1, <2>2 DEF Lists!vars
  <2> QED BY <2>1, <2>3
<1>2. ASSUME NEW r \in Commands, command' = r, step(r)
      PROVE  Ids(book', (book').nextId) /\ Lists!Next
  <2>1. Ids(book', (book').nextId) /\ Lists!step(r)
    BY <1>2, StepAgrees
  <2> QED BY <1>2, <2>1 DEF Lists!Next
<1>3. ASSUME command' = <<>>, top
      PROVE  Ids(book', (book').nextId) /\ Lists!Next
  <2>1. Ids(book', (book').nextId) /\ Lists!top
    BY <1>3, TopAgrees
  <2> QED BY <1>3, <2>1 DEF Lists!Next
<1> QED BY <1>1, <1>2, <1>3 DEF Next

\* The compiled book implements the book of lists, whatever the numbers of slots,
\* prices and orders and whatever commands come: the same books, the same events
\* and the same tops, command by command.
THEOREM ListsImplemented == Spec => ImplementsLists
<1>1. Init => BookInv /\ Ids(book, book.nextId) /\ Lists!Init
  BY BookStarts, ListsStart
<1>2. BookInv /\ [Next]_vars => BookInv'
  BY BookKeeps
<1>3. BookInv /\ Ids(book, book.nextId) /\ [Next]_vars
         => Ids(book, book.nextId)' /\ [Lists!Next]_Lists!vars
  BY ListsKeep
<1> QED BY <1>1, <1>2, <1>3, PTL DEF Spec, ImplementsLists, Lists!Spec
=============================================================================
