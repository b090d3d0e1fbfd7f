----------------------------- MODULE MCOrderBook ----------------------------
(***************************************************************************)
(* A small instance of the order book for TLC.                             *)
(***************************************************************************)
EXTENDS OrderBookRefinement, TLC

Tag == 5

Limit(side, price, q, account, tif) == <<1, side, price, q, account, Tag, tif>>

\* Orders that may rest: account 1 on both sides and account 2 to sell.  The
\* others do not rest, so that one account is enough for them; the largest
\* quantity is more than a full book of the smallest orders holds.
MCCommands ==
    {Limit(who[1], price, q, who[2], 0) :
        who \in {<<0, 1>>, <<1, 1>>, <<1, 2>>}, price \in 1..maxPrice, q \in 1..2}
    \cup {Limit(side, price, maxQty, 2, 1) : side \in 0..1, price \in 1..maxPrice}
    \cup {Limit(side, price, 1, 1, 2) : side \in 0..1, price \in 1..maxPrice}
    \cup {Limit(2, 1, 1, 1, 0), Limit(0, 1, 1, 1, 3), Limit(0, 0, 1, 1, 0),
          Limit(1, maxPrice + 1, 1, 1, 0), Limit(0, 1, 0, 1, 0), Limit(0, 1, maxQty + 1, 1, 0)}
    \cup {<<2, side, maxQty, 1, Tag, 0, 0>> : side \in 0..2}
    \cup {<<2, 0, 0, 1, Tag, 0, 0>>, <<2, 1, maxQty + 1, 1, Tag, 0, 0>>}
    \cup {<<3, id, account, 0, 0, 0, 0>> : id \in 0..MaxId, account \in 1..2}
    \cup {<<4, id, account, 1, 0, 0, 0>> : id \in 1..MaxId, account \in 1..2}
    \cup {<<4, 1, 1, q, 0, 0, 0>> : q \in {0, 2, maxQty + 1}}
    \cup {<<4, 0, 1, 1, 0, 0, 0>>, <<7, 0, 0, 0, 0, 0, 0>>, <<1, 0, 1>>}
=============================================================================
