------------------------------ MODULE OrderBook -----------------------------
(***************************************************************************)
(* The compiled order book of Demos/OrderBook/Program.lean.  Slots of five *)
(* arrays hold the resting orders; the orders of one side at one price are *)
(* a chain of slots in the order of acceptance, whose ends a level holds.  *)
(* Loops run on fuel, a bound after which they stop wherever they are.     *)
(***************************************************************************)
EXTENDS Naturals, Sequences, FiniteSets, SequencesExt

CONSTANTS Commands,   \* the records a stream is made of
          slots,      \* slots, and capacity
          maxPrice,   \* maxPrice
          maxQty,     \* maxQty
          MaxId       \* bound of the model: orders that a stream accepts

\* Words are natural numbers, as in the book of lists.
ASSUME BookAssumption ==
    /\ Commands \subseteq Seq(Nat)
    /\ slots \in Nat /\ maxPrice \in Nat /\ maxQty \in Nat /\ MaxId \in Nat

VARIABLES book,      \* the arrays of Book
          command,   \* the last record, or <<>> for the query of the top
          out        \* its events, or the top

vars == <<book, command, out>>

capacity == slots
slotFuel == slots
chainFuel == slots
bandFuel == maxPrice
matchFuel == maxPrice + slots + 1

Slots == 0..slots
Levels == 0..(2 * maxPrice + 1)

\* The empty book.
init == [oid |-> [s \in Slots |-> 0], acct |-> [s \in Slots |-> 0],
         qty |-> [s \in Slots |-> 0], lvl |-> [s \in Slots |-> 0],
         nxt |-> [s \in Slots |-> 0],
         head |-> [l \in Levels |-> 0], tail |-> [l \in Levels |-> 0],
         nextId |-> 1, count |-> 0]

Init == book = init /\ command = <<>> /\ out = <<>>

\* LeanExe.repeatWhile: at most `fuel` rounds.
repeatWhile(fuel, start, more(_), round(_)) ==
    LET after[n \in 0..fuel] ==
          IF n = 0 THEN start
          ELSE IF more(after[n - 1]) THEN round(after[n - 1]) ELSE after[n - 1]
    IN after[fuel]

level(side, price) == side * (maxPrice + 1) + price
inRange(lo, hi, w) == lo <= w /\ w <= hi
acceptable(side, limit, price) == IF side = 0 THEN price <= limit ELSE limit <= price

-----------------------------------------------------------------------------
(* Searches. *)

findSlot(oid, id) ==
    IF id = 0 THEN 0
    ELSE LET s == repeatWhile(slotFuel, 1, LAMBDA t : t <= slots /\ oid[t] # id, LAMBDA t : t + 1)
         IN IF s <= slots THEN s ELSE 0

freeSlot(oid) == repeatWhile(slotFuel, 1, LAMBDA s : oid[s] # 0, LAMBDA s : s + 1)

\* The slot before s in its chain, or 0 when s is the first.
predecessor(b, lv, s) ==
    IF b.head[lv] = s THEN 0
    ELSE repeatWhile(chainFuel, b.head[lv], LAMBDA t : t # 0 /\ b.nxt[t] # s, LAMBDA t : b.nxt[t])

bestPrice(b, side) ==
    IF side = 0
    THEN repeatWhile(bandFuel, maxPrice, LAMBDA p : p # 0 /\ b.head[level(0, p)] = 0, LAMBDA p : p - 1)
    ELSE LET p == repeatWhile(bandFuel, 1, LAMBDA q : q <= maxPrice /\ b.head[level(1, q)] = 0,
                              LAMBDA q : q + 1)
         IN IF p <= maxPrice THEN p ELSE 0

levelQty(b, lv) ==
    repeatWhile(chainFuel, <<b.head[lv], 0>>, LAMBDA st : st[1] # 0,
                LAMBDA st : <<b.nxt[st[1]], st[2] + b.qty[st[1]]>>)[2]

top ==
    LET qty(side, p) == IF p = 0 THEN 0 ELSE levelQty(book, level(side, p))
        bp == bestPrice(book, 0)
        ap == bestPrice(book, 1)
    IN /\ out' = <<bp, qty(0, bp), ap, qty(1, ap)>>
       /\ UNCHANGED book

crosses(b, side, price) ==
    LET p == bestPrice(b, 1 - side) IN p # 0 /\ acceptable(side, price, p)

-----------------------------------------------------------------------------
(* Chains. *)

unlink_tail(b, lv, pr, s) ==
    [b EXCEPT !.oid[s] = 0,
              !.nxt = IF pr = 0 THEN @ ELSE [@ EXCEPT ![pr] = b.nxt[s]],
              !.head[lv] = IF pr = 0 THEN b.nxt[s] ELSE @,
              !.count = @ - 1]

\* The order of slot s leaves the chain of its level, behind slot pr.
unlink(b, lv, pr, s) ==
    [b EXCEPT !.oid[s] = 0,
              !.nxt = IF pr = 0 THEN @ ELSE [@ EXCEPT ![pr] = b.nxt[s]],
              !.head[lv] = IF pr = 0 THEN b.nxt[s] ELSE @,
              !.tail[lv] = IF @ = s THEN pr ELSE @,
              !.count = @ - 1]

\* An order in the first free slot, at the end of the chain of its level.
place(b, side, price, id, account, q) ==
    LET s == freeSlot(b.oid)
        lv == level(side, price)
        h == b.head[lv]
        linked == IF h = 0 THEN b.nxt ELSE [b.nxt EXCEPT ![b.tail[lv]] = s]
    IN [b EXCEPT !.oid[s] = id, !.acct[s] = account, !.qty[s] = q, !.lvl[s] = lv,
                 !.nxt = [linked EXCEPT ![s] = 0],
                 !.head[lv] = IF h = 0 THEN s ELSE h,
                 !.tail[lv] = s,
                 !.count = @ + 1]

-----------------------------------------------------------------------------
(* Matching. *)

\* A round moves to the next worse price, stops at an order of the same account,
\* or trades with the first order of the level.
matchStep(taker, account, side, m) ==
    LET b == m.book
        lv == level(1 - side, m.price)
        s == b.head[lv]
        mq == b.qty[s]
        q == IF m.rem <= mq THEN m.rem ELSE mq
    IN IF s = 0 THEN [m EXCEPT !.price = IF side = 0 THEN @ + 1 ELSE @ - 1]
       ELSE IF b.acct[s] = account THEN [m EXCEPT !.selfTrade = TRUE]
       ELSE [m EXCEPT
               !.book = IF q = mq THEN unlink(b, lv, 0, s) ELSE [b EXCEPT !.qty[s] = mq - q],
               !.out = Append(@, <<3, b.oid[s], taker, m.price, q, b.acct[s], mq - q>>),
               !.rem = @ - q]

fill(b, events, taker, account, side, limit, q) ==
    repeatWhile(matchFuel,
        [book |-> b, out |-> events, price |-> IF side = 0 THEN 1 ELSE maxPrice,
         rem |-> q, selfTrade |-> FALSE],
        LAMBDA m : m.rem # 0 /\ ~m.selfTrade /\ acceptable(side, limit, m.price),
        LAMBDA m : matchStep(taker, account, side, m))

Becomes(b, events) == book' = b /\ out' = events

submit_before(side, limit, q, account, tag, tif) ==
    LET id == book.nextId
        m == fill([book EXCEPT !.nextId = id + 1], <<<<1, id, tag, 0, 0, 0, 0>>>>,
                  id, account, side, limit, q)
        cancelled(reason) == Becomes(m.book, Append(m.out, <<4, id, m.rem, reason, 0, 0, 0>>))
    IN /\ id <= MaxId
       /\ IF m.rem = 0 THEN Becomes(m.book, m.out)
          ELSE IF m.selfTrade THEN cancelled(3)
          ELSE IF tif = 1 THEN cancelled(2)
          ELSE IF book.count < capacity
          THEN Becomes(place(m.book, side, limit, id, account, m.rem), m.out)
          ELSE cancelled(4)

\* An accepted order.  The capacity counts the orders that rest after matching.
submit(side, limit, q, account, tag, tif) ==
    LET id == book.nextId
        m == fill([book EXCEPT !.nextId = id + 1], <<<<1, id, tag, 0, 0, 0, 0>>>>,
                  id, account, side, limit, q)
        cancelled(reason) == Becomes(m.book, Append(m.out, <<4, id, m.rem, reason, 0, 0, 0>>))
    IN /\ id <= MaxId
       /\ IF m.rem = 0 THEN Becomes(m.book, m.out)
          ELSE IF m.selfTrade THEN cancelled(3)
          ELSE IF tif = 1 THEN cancelled(2)
          ELSE IF m.book.count < capacity
          THEN Becomes(place(m.book, side, limit, id, account, m.rem), m.out)
          ELSE cancelled(4)

-----------------------------------------------------------------------------
(* Commands. *)

cancel(id, s) ==
    LET lv == book.lvl[s]
    IN Becomes(unlink(book, lv, predecessor(book, lv, s), s), <<<<4, id, book.qty[s], 1, 0, 0, 0>>>>)

reduce(id, s, q) == Becomes([book EXCEPT !.qty[s] = q], <<<<5, id, q, 0, 0, 0, 0>>>>)

reject(kind, ref, reason) == Becomes(book, <<<<2, kind, ref, reason, 0, 0, 0>>>>)

LimitCommand(r) ==
    LET side == r[2] price == r[3] q == r[4] tag == r[6] tif == r[7]
    IN IF side > 1 THEN reject(1, tag, 3)
       ELSE IF tif > 2 THEN reject(1, tag, 4)
       ELSE IF ~inRange(1, maxPrice, price) THEN reject(1, tag, 5)
       ELSE IF ~inRange(1, maxQty, q) THEN reject(1, tag, 6)
       ELSE IF tif = 2 /\ crosses(book, side, price) THEN reject(1, tag, 9)
       ELSE submit(side, price, q, r[5], tag, tif)

MarketCommand(r) ==
    LET side == r[2] q == r[3] tag == r[5]
    IN IF side > 1 THEN reject(2, tag, 3)
       ELSE IF ~inRange(1, maxQty, q) THEN reject(2, tag, 6)
       ELSE submit(side, IF side = 0 THEN maxPrice ELSE 1, q, r[4], tag, 1)

CancelCommand(r) ==
    LET id == r[2] s == findSlot(book.oid, id)
    IN IF s = 0 THEN reject(3, id, 7)
       ELSE IF book.acct[s] # r[3] THEN reject(3, id, 8)
       ELSE cancel(id, s)

ReduceCommand(r) ==
    LET id == r[2] q == r[4] s == findSlot(book.oid, id)
    IN IF s = 0 THEN reject(4, id, 7)
       ELSE IF book.acct[s] # r[3] THEN reject(4, id, 8)
       ELSE IF ~inRange(1, maxQty, q) THEN reject(4, id, 6)
       ELSE IF book.qty[s] <= q THEN reject(4, id, 10)
       ELSE reduce(id, s, q)

step(r) ==
    IF Len(r) < 7 THEN reject(0, 0, 1)
    ELSE CASE r[1] = 1 -> LimitCommand(r)
           [] r[1] = 2 -> MarketCommand(r)
           [] r[1] = 3 -> CancelCommand(r)
           [] r[1] = 4 -> ReduceCommand(r)
           [] OTHER -> reject(r[1], 0, 2)

Next == \/ \E r \in Commands : command' = r /\ step(r)
        \/ command' = <<>> /\ top

\* The last record and its events say nothing of what comes next.
View == book

Spec == Init /\ [][Next]_vars

-----------------------------------------------------------------------------
(* Properties. *)

\* The slots of the chain from slot s, read for at most `fuel` slots
\* (Invariant.lean).
slotsFrom(b, fuel, s) ==
    LET from[n \in 0..fuel] ==
          [t \in Slots |->
             IF n = 0 \/ t = 0 THEN <<>> ELSE <<t>> \o from[n - 1][b.nxt[t]]]
    IN from[fuel][s]

levelSlots(b, l) == slotsFrom(b, slots + 1, b.head[l])

\* What Invariant.lean requires of the arrays: each chain is a list of distinct
\* slots of its level that ends at the level's tail, and the slots in use are the
\* slots of the chains, as many as the count says.  No slot is lost to the book,
\* which no query would show before the book is full.
ChainsHoldSlots ==
    LET chain == [l \in Levels |-> levelSlots(book, l)]
        used == {s \in 1..slots : book.oid[s] # 0}
        on == [l \in Levels |-> ToSet(chain[l])]
    IN /\ \A l \in Levels :
             /\ IsInjective(chain[l])
             /\ \A s \in on[l] : book.lvl[s] = l
             /\ book.tail[l] = (IF chain[l] = <<>> THEN 0 ELSE Last(chain[l]))
       /\ used = UNION {on[l] : l \in Levels}
       /\ book.count = Cardinality(used)
=============================================================================
