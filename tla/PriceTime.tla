------------------------------ MODULE PriceTime -----------------------------
(***************************************************************************)
(* The order book that Demos/OrderBook/Spec.lean describes: two lists of   *)
(* resting orders in priority order, and a command that is a function of   *)
(* the book and its record.  Commands and events are records of seven      *)
(* words.                                                                  *)
(***************************************************************************)
EXTENDS Naturals, Sequences

CONSTANTS Commands,   \* the records a stream is made of
          Capacity,   \* capacity
          MaxPrice,   \* maxPrice
          MaxQty,     \* maxQty
          MaxId       \* bound of the model: orders that a stream accepts

VARIABLES bids,     \* orders to buy, best first
          asks,     \* orders to sell, best first
          nextId,   \* the id of the next accepted order
          command,  \* the last record, or <<>> for the query of the top
          out       \* the events of the last command, or the top of the book

vars == <<bids, asks, nextId, command, out>>

Buy == 0
Sell == 1

Order(id, account, side, price, qty) ==
    [id |-> id, account |-> account, side |-> side, price |-> price, qty |-> qty]

Init == bids = <<>> /\ asks = <<>> /\ nextId = 1 /\ command = <<>> /\ out = <<>>

\* An order on `side` with a limit takes a resting order at `price`.
acceptable(side, limit, price) == IF side = Buy THEN price <= limit ELSE limit <= price
asGood(side, p, q) == IF side = Buy THEN q <= p ELSE p <= q

\* `o` before the first order whose price is worse than its own, or else last.
place(o, os) ==
    LET worse == {k \in 1..Len(os) : ~asGood(o.side, os[k].price, o.price)}
        at == CHOOSE k \in worse \cup {Len(os) + 1} :
                 \A j \in worse \cup {Len(os) + 1} : k <= j
    IN [k \in 1..(Len(os) + 1) |->
          IF k < at THEN os[k] ELSE IF k = at THEN o ELSE os[k - 1]]

Accepted(id, tag) == <<1, id, tag, 0, 0, 0, 0>>
Rejected(kind, ref, reason) == <<2, kind, ref, reason, 0, 0, 0>>
Trade(maker, taker, q) ==
    <<3, maker.id, taker, maker.price, q, maker.account, maker.qty - q>>
Cancelled(id, remaining, reason) == <<4, id, remaining, reason, 0, 0, 0>>
Reduced(id, qty) == <<5, id, qty, 0, 0, 0, 0>>

\* Matching with the first order m of `os`; `rest` is matching with those behind it.
matchFirst(taker, account, side, limit, qty, os, rest) ==
    LET m == Head(os)
        q == IF qty <= m.qty THEN qty ELSE m.qty
        r == rest[qty - q]
    IN IF os = <<>> \/ qty = 0 \/ ~acceptable(side, limit, m.price)
       THEN [others |-> os, trades |-> <<>>, remaining |-> qty, selfTrade |-> FALSE]
       ELSE IF m.account = account
       THEN [others |-> os, trades |-> <<>>, remaining |-> qty, selfTrade |-> TRUE]
       ELSE IF q = m.qty
       THEN [r EXCEPT !.trades = <<Trade(m, taker, q)>> \o @]
       ELSE [others |-> <<[m EXCEPT !.qty = @ - q]>> \o Tail(os),
             trades |-> <<Trade(m, taker, q)>>, remaining |-> qty - q, selfTrade |-> FALSE]

\* Matching with the orders `os` of the other side, first order first: `last[n]`
\* is matching with the last n of them.
fill(taker, account, side, limit, qty, os) ==
    LET last[n \in 0..Len(os)] ==
          [q \in 0..qty |->
             matchFirst(taker, account, side, limit, q, SubSeq(os, Len(os) - n + 1, Len(os)),
                        IF n = 0 THEN <<>> ELSE last[n - 1])]
    IN last[Len(os)][qty]

opposite(side) == IF side = Buy THEN asks ELSE bids

\* The two lists after a command left `others` opposite an order, and `mine` on
\* its side.
Sides(side, mine, others) ==
    IF side = Buy THEN bids' = mine /\ asks' = others
                  ELSE bids' = others /\ asks' = mine

same(side) == IF side = Buy THEN bids ELSE asks

\* An accepted order: what is left of it is cancelled for self-trade prevention,
\* cancelled for IOC, rests, or is cancelled because the book is full.
submit(side, limit, qty, account, tag, tif) ==
    LET id == nextId
        f == fill(id, account, side, limit, qty, opposite(side))
        events == <<Accepted(id, tag)>> \o f.trades
        full == Len(f.others) + Len(same(side)) >= Capacity
        rests == f.remaining # 0 /\ ~f.selfTrade /\ tif # 1 /\ ~full
        reason == IF f.selfTrade THEN 3 ELSE IF tif = 1 THEN 2 ELSE 4
    IN /\ nextId <= MaxId
       /\ nextId' = id + 1
       /\ Sides(side,
                IF rests THEN place(Order(id, account, side, limit, f.remaining), same(side))
                ELSE same(side),
                f.others)
       /\ out' = IF f.remaining = 0 \/ rests THEN events
                 ELSE Append(events, Cancelled(id, f.remaining, reason))

reject(kind, ref, reason) ==
    /\ out' = <<Rejected(kind, ref, reason)>>
    /\ UNCHANGED <<bids, asks, nextId>>

crosses(side, price) ==
    LET os == opposite(side) IN os # <<>> /\ acceptable(side, price, Head(os).price)

inRange(hi, w) == 1 <= w /\ w <= hi

\* limit: side, price, quantity, account, client tag, time in force.
limit(r) ==
    IF r[2] > 1 THEN reject(1, r[6], 3)
    ELSE IF r[7] > 2 THEN reject(1, r[6], 4)
    ELSE IF ~inRange(MaxPrice, r[3]) THEN reject(1, r[6], 5)
    ELSE IF ~inRange(MaxQty, r[4]) THEN reject(1, r[6], 6)
    ELSE IF r[7] = 2 /\ crosses(r[2], r[3]) THEN reject(1, r[6], 9)
    ELSE submit(r[2], r[3], r[4], r[5], r[6], r[7])

\* market: side, quantity, account, client tag.
market(r) ==
    IF r[2] > 1 THEN reject(2, r[5], 3)
    ELSE IF ~inRange(MaxQty, r[3]) THEN reject(2, r[5], 6)
    ELSE submit(r[2], IF r[2] = Buy THEN MaxPrice ELSE 1, r[3], r[4], r[5], 1)

Resting == bids \o asks
Found(id) == {k \in DOMAIN Resting : Resting[k].id = id}
find(id) == Resting[CHOOSE k \in Found(id) : TRUE]

\* The orders of `os` that do not have the id.
remove(os, id) ==
    LET kept[n \in 0..Len(os)] ==
          IF n = 0 THEN <<>>
          ELSE IF os[n].id = id THEN kept[n - 1] ELSE Append(kept[n - 1], os[n])
    IN kept[Len(os)]

\* cancel: order id, account.
cancel(r) ==
    IF Found(r[2]) = {} THEN reject(3, r[2], 7)
    ELSE IF find(r[2]).account # r[3] THEN reject(3, r[2], 8)
    ELSE /\ bids' = remove(bids, r[2]) /\ asks' = remove(asks, r[2])
         /\ out' = <<Cancelled(r[2], find(r[2]).qty, 1)>>
         /\ UNCHANGED nextId

setQty(os, id, qty) ==
    [k \in DOMAIN os |-> IF os[k].id = id THEN [os[k] EXCEPT !.qty = qty] ELSE os[k]]

\* reduce: order id, account, new quantity; the order keeps its place.
reduce(r) ==
    IF Found(r[2]) = {} THEN reject(4, r[2], 7)
    ELSE IF find(r[2]).account # r[3] THEN reject(4, r[2], 8)
    ELSE IF ~inRange(MaxQty, r[4]) THEN reject(4, r[2], 6)
    ELSE IF find(r[2]).qty <= r[4] THEN reject(4, r[2], 10)
    ELSE /\ bids' = setQty(bids, r[2], r[4]) /\ asks' = setQty(asks, r[2], r[4])
         /\ out' = <<Reduced(r[2], r[4])>>
         /\ UNCHANGED nextId

step(r) ==
    IF Len(r) # 7 THEN reject(0, 0, 1)
    ELSE CASE r[1] = 1 -> limit(r)
           [] r[1] = 2 -> market(r)
           [] r[1] = 3 -> cancel(r)
           [] r[1] = 4 -> reduce(r)
           [] OTHER -> reject(r[1], 0, 2)

bestPrice(os) == IF os = <<>> THEN 0 ELSE Head(os).price

\* The quantities of the orders at the best price, added up.
bestQty(os) ==
    LET sum[n \in 0..Len(os)] ==
          IF n = 0 THEN 0
          ELSE IF os[n].price = bestPrice(os) THEN sum[n - 1] + os[n].qty ELSE sum[n - 1]
    IN sum[Len(os)]

\* The query of the top of the book.
top == /\ out' = <<bestPrice(bids), bestQty(bids), bestPrice(asks), bestQty(asks)>>
       /\ UNCHANGED <<bids, asks, nextId>>

Next == \/ \E r \in Commands : command' = r /\ step(r)
        \/ command' = <<>> /\ top

Spec == Init /\ [][Next]_vars
=============================================================================
