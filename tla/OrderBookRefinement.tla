------------------------- MODULE OrderBookRefinement ------------------------
(***************************************************************************)
(* The compiled order book implements the book of lists of PriceTime: the  *)
(* lists are the chains of the levels, read from the best price.           *)
(***************************************************************************)
EXTENDS OrderBook

\* A stream is cut into records of at most seven words.
ASSUME RecordAssumption == \A r \in Commands : Len(r) <= 7

\* The orders of a level (Abstract.lean).
levelOrders(b, side, price) ==
    LET ss == levelSlots(b, level(side, price))
    IN [k \in DOMAIN ss |->
          [id |-> b.oid[ss[k]], account |-> b.acct[ss[k]], side |-> side,
           price |-> price, qty |-> b.qty[ss[k]]]]

\* The levels of a side, best first: `upTo[p]` has those of the prices 1 to p.
sideOrders(b, side) ==
    LET upTo[p \in 0..maxPrice] ==
          IF p = 0 THEN <<>>
          ELSE IF side = 0 THEN levelOrders(b, side, p) \o upTo[p - 1]
          ELSE upTo[p - 1] \o levelOrders(b, side, p)
    IN upTo[maxPrice]

\* The book of lists that the arrays stand for (Abstract.lean, toSpec).
Lists == INSTANCE PriceTime WITH
            Capacity <- capacity, MaxPrice <- maxPrice, MaxQty <- maxQty,
            bids <- sideOrders(book, 0), asks <- sideOrders(book, 1), nextId <- book.nextId

\* Every command gives the book and the events of the book of lists: price-time
\* priority over cancels in the middle of a chain and slots used again, trades
\* before a self-trade stop, and a slot that matching frees for the remainder.
ImplementsLists == Lists!Spec
=============================================================================
