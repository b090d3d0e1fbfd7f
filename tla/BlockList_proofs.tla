--------------------------- MODULE BlockList_proofs -------------------------
(***************************************************************************)
(* The heap of BlockList is a row of blocks without gaps or overlaps, for   *)
(* every size of header, memory and request.                               *)
(***************************************************************************)
EXTENDS BlockList, TLAPS

Inv == BlocksIn /\ Separate /\ Tiled /\ Merged

\* What holds of a block wherever it is.
LEMMA Shape ==
  ASSUME Inv, NEW b \in Blocks
  PROVE  /\ b = Block(b.root, b.cap)
         /\ b.root \in Nat /\ b.cap \in Nat
         /\ Start(b) \in Int /\ End(b) \in Int
         /\ Start(b) < b.root /\ b.root < End(b)
         /\ Base <= Start(b) /\ End(b) <= top
BY BlockAssumption DEF Inv, BlocksIn, Start, End

\* Two blocks with a word in common are one block.
LEMMA Same ==
  ASSUME Inv, NEW b \in Blocks, NEW c \in Blocks,
         Start(b) < End(c), Start(c) < End(b)
  PROVE  b = c
<1>1. ~Apart(b, c)
  BY Shape DEF Apart
<1> QED BY <1>1 DEF Inv, Separate

\* A block's fields are what it was made from.
LEMMA BlockFields ==
  ASSUME NEW r, NEW c
  PROVE  Block(r, c).root = r /\ Block(r, c).cap = c
BY DEF Block

\* A free block taken whole becomes live where it is (unlinkFirstFit).
LEMMA WholeKeeps ==
  ASSUME Inv, NEW need \in Needs, NEW b \in free, AllocateWhole(b, need)
  PROVE  Inv'
<1>1. Blocks' = Blocks /\ top' = top /\ free' \subseteq free
  BY DEF AllocateWhole, Blocks
<1>2. BlocksIn'
  BY <1>1 DEF Inv, BlocksIn, Start, End
<1>3. Separate'
  <2>1. free' \cap live' = {}
    BY DEF Inv, Separate, AllocateWhole
  <2>2. \A x, y \in Blocks' : x # y => Apart(x, y)'
    BY <1>1 DEF Inv, Separate, Apart, Start, End
  <2> QED BY <2>1, <2>2 DEF Separate
<1>4. Tiled'
  BY <1>1 DEF Inv, Tiled, Start, End
<1>5. Merged'
  BY <1>1 DEF Inv, Merged, Start, End
<1> QED BY <1>2, <1>3, <1>4, <1>5 DEF Inv

\* A split gives two blocks that fill the old one (shrinkFirstFit).
LEMMA UpperKeeps ==
  ASSUME Inv, NEW need \in Needs, NEW b \in free, AllocateUpper(b, need)
  PROVE  Inv'
<1> DEFINE lo == Block(b.root, b.cap - need - Header)
           hi == Block(b.root + b.cap - need, need)
<1>1. free' = (free \ {b}) \cup {lo} /\ live' = live \cup {hi} /\ top' = top
  BY DEF AllocateUpper
<1>2. need \in Nat \ {0} /\ Header \in Nat \ {0} /\ b.cap - need >= Header + 1
  BY BlockAssumption DEF AllocateUpper, Splits
<1>3. b \in Blocks /\ b \notin live
  BY DEF Blocks, Inv, Separate
<1>4. b.root \in Nat /\ b.cap \in Nat /\ Base <= Start(b) /\ End(b) <= top
      /\ Start(b) \in Int /\ End(b) \in Int
  BY <1>3, Shape
<1>5. /\ Start(lo) = Start(b) /\ End(lo) = Start(hi) /\ End(hi) = End(b)
      /\ Start(b) < End(lo) /\ End(lo) < End(b)
      /\ End(lo) \in Int
  BY <1>2, <1>4 DEF Start, End, Block
<1>6. Blocks' = (Blocks \ {b}) \cup {lo, hi}
  BY <1>1, <1>3 DEF Blocks
<1>7. \A c \in Blocks \ {b} : Apart(c, b)
  BY <1>3 DEF Inv, Separate
<1>8. \A c \in Blocks \ {b} : Apart(c, lo) /\ Apart(lo, c) /\ Apart(c, hi) /\ Apart(hi, c)
  <2> SUFFICES ASSUME NEW c \in Blocks \ {b}
               PROVE  Apart(c, lo) /\ Apart(lo, c) /\ Apart(c, hi) /\ Apart(hi, c)
    OBVIOUS
  <2>1. Start(c) \in Int /\ End(c) \in Int /\ Start(c) < End(c)
    BY Shape
  <2> HIDE DEF lo, hi
  <2> QED BY <1>4, <1>5, <1>7, <2>1 DEF Apart
<1>9. Apart(lo, hi) /\ Apart(hi, lo)
  <2> HIDE DEF lo, hi
  <2> QED BY <1>4, <1>5 DEF Apart
<1>10. BlocksIn'
  <2>1. /\ lo = Block(lo.root, lo.cap) /\ lo.root \in Nat /\ lo.cap \in Nat \ {0}
        /\ hi = Block(hi.root, hi.cap) /\ hi.root \in Nat /\ hi.cap \in Nat \ {0}
    BY <1>2, <1>4 DEF Block
  <2>2. Base <= Start(lo) /\ End(lo) <= top /\ Base <= Start(hi) /\ End(hi) <= top
    <3>1. top \in Int /\ Base \in Int
      BY BlockAssumption DEF Inv, BlocksIn
    <3> HIDE DEF lo, hi
    <3> QED BY <1>4, <1>5, <3>1
  <2>3. top \in Base..Limit
    BY DEF Inv, BlocksIn
  <2>4. ASSUME NEW c \in Blocks'
        PROVE  /\ c = Block(c.root, c.cap) /\ c.root \in Nat /\ c.cap \in Nat \ {0}
               /\ Base <= Start(c) /\ End(c) <= top
    <3> HIDE DEF lo, hi
    <3> QED BY <1>6, <2>1, <2>2 DEF Inv, BlocksIn
  <2> QED BY <1>1, <2>3, <2>4 DEF BlocksIn, Start, End, Block
<1>11. Separate'
  <2>1. lo \notin live /\ hi \notin free /\ lo # hi
    <3>1. Start(lo) < End(lo) /\ Start(hi) < End(hi) /\ Start(lo) # Start(hi)
      <4> HIDE DEF lo, hi
      <4> QED BY <1>4, <1>5
    <3>2. lo \in Blocks => lo = b
      <4> HIDE DEF lo, hi
      <4> QED BY <1>3, <1>4, <1>5, <3>1, Same
    <3>3. hi \in Blocks => hi = b
      <4> HIDE DEF lo, hi
      <4> QED BY <1>3, <1>4, <1>5, <3>1, Same
    <3>4. hi # b
      <4> HIDE DEF lo, hi
      <4> QED BY <1>4, <1>5
    <3> HIDE DEF lo, hi
    <3> QED BY <1>3, <3>1, <3>2, <3>3, <3>4 DEF Blocks
  <2>2. free' \cap live' = {}
    <3> HIDE DEF lo, hi
    <3> QED BY <1>1, <2>1 DEF Inv, Separate
  <2>3. \A x, y \in Blocks' : x # y => Apart(x, y)
    <3> HIDE DEF lo, hi
    <3> QED BY <1>6, <1>8, <1>9 DEF Inv, Separate
  <2> QED BY <2>2, <2>3 DEF Separate, Apart, Start, End
<1>12. Tiled'
  <2> SUFFICES ASSUME NEW a \in Base..(top - 1)
               PROVE  \E c \in Blocks' : Start(c) <= a /\ a < End(c)
    BY <1>1 DEF Tiled, Start, End
  <2>1. PICK c \in Blocks : Start(c) <= a /\ a < End(c)
    BY DEF Inv, Tiled
  <2>2. CASE c # b
    <3> HIDE DEF lo, hi
    <3> QED BY <1>6, <2>1, <2>2
  <2>3. CASE c = b
    <3>1. a \in Int
      BY BlockAssumption DEF Inv, BlocksIn
    <3> HIDE DEF lo, hi
    <3>2. CASE a < End(lo)
      BY <1>5, <1>6, <2>1, <2>3, <3>2
    <3>3. CASE ~(a < End(lo))
      BY <1>4, <1>5, <1>6, <2>1, <2>3, <3>1, <3>3
    <3> QED BY <3>2, <3>3
  <2> QED BY <2>2, <2>3
<1>13. Merged'
  <2> SUFFICES ASSUME NEW c \in free', NEW d \in free', End(c) = Start(d)
               PROVE  FALSE
    BY DEF Merged, Start, End
  <2>1. CASE c # lo /\ d # lo
    <3> HIDE DEF lo, hi
    <3> QED BY <1>1, <2>1 DEF Inv, Merged
  <2>2. CASE d = lo /\ c # lo
    <3> HIDE DEF lo, hi
    <3> QED BY <1>1, <1>5, <2>2 DEF Inv, Merged
  <2>3. CASE c = lo /\ d # lo
    <3>1. d \in Blocks \ {b}
      <4> HIDE DEF lo, hi
      <4> QED BY <1>1, <2>3 DEF Blocks
    <3>2. Start(d) \in Int /\ End(d) \in Int /\ Start(d) < End(d)
      BY <3>1, Shape
    <3>3. End(d) <= Start(b) \/ End(b) <= Start(d)
      BY <1>7, <3>1 DEF Apart
    <3>4. Start(d) = End(lo)
      BY <2>3
    <3> HIDE DEF lo, hi
    <3> QED BY <1>4, <1>5, <3>2, <3>3, <3>4
  <2>4. CASE c = lo /\ d = lo
    <3> HIDE DEF lo, hi
    <3> QED BY <1>4, <1>5, <2>4
  <2> QED BY <2>1, <2>2, <2>3, <2>4
<1> QED BY <1>10, <1>11, <1>12, <1>13 DEF Inv

\* A block from the top begins where the others end (the bump path).
LEMMA TopKeeps ==
  ASSUME Inv, NEW need \in Needs, AllocateTop(need)
  PROVE  Inv'
<1> DEFINE new == Block(top + Header, need)
<1>1. /\ top' = top + Header + need /\ top' \in Base..Limit
      /\ live' = live \cup {new} /\ free' = free
      /\ need \in Nat \ {0} /\ Header \in Nat \ {0} /\ top \in Nat /\ Base \in Nat
      /\ Base <= top
  BY BlockAssumption DEF AllocateTop, Inv, BlocksIn
<1>2. /\ Start(new) = top /\ End(new) = top' /\ Start(new) < End(new)
      /\ new.root \in Nat /\ new.cap = need
  BY <1>1 DEF Start, End, Block
<1>3. Blocks' = Blocks \cup {new}
  BY <1>1 DEF Blocks
<1>4. \A c \in Blocks : Start(c) \in Int /\ End(c) \in Int /\ Start(c) < End(c) /\ End(c) <= top
  BY Shape
<1>5. new \notin Blocks
  BY <1>1, <1>2, <1>4
<1>6. \A c \in Blocks : Apart(c, new) /\ Apart(new, c)
  BY <1>2, <1>4 DEF Apart
<1>7. BlocksIn'
  <2>1. ASSUME NEW c \in Blocks'
        PROVE  /\ c = Block(c.root, c.cap) /\ c.root \in Nat /\ c.cap \in Nat \ {0}
               /\ Base <= Start(c) /\ End(c) <= top'
    <3>1. CASE c \in Blocks
      <4>1. /\ c = Block(c.root, c.cap) /\ c.root \in Nat /\ c.cap \in Nat \ {0}
            /\ Base <= Start(c)
        BY <3>1 DEF Inv, BlocksIn
      <4>2. End(c) <= top'
        <5> HIDE DEF new
        <5> QED BY <1>1, <1>4, <3>1
      <4> QED BY <4>1, <4>2
    <3>2. CASE c = new
      <4>1. new = Block(new.root, new.cap)
        BY BlockFields
      <4> HIDE DEF new
      <4> QED BY <1>1, <1>2, <3>2, <4>1
    <3> QED BY <1>3, <3>1, <3>2
  <2> QED BY <1>1, <2>1 DEF BlocksIn, Start, End, Block
<1>8. Separate'
  <2>1. free' \cap live' = {}
    <3> HIDE DEF new
    <3> QED BY <1>1, <1>5 DEF Inv, Separate, Blocks
  <2>2. \A x, y \in Blocks' : x # y => Apart(x, y)
    <3> HIDE DEF new
    <3> QED BY <1>3, <1>6 DEF Inv, Separate
  <2> QED BY <2>1, <2>2 DEF Separate, Apart, Start, End
<1>9. Tiled'
  <2> SUFFICES ASSUME NEW a \in Base..(top' - 1)
               PROVE  \E c \in Blocks' : Start(c) <= a /\ a < End(c)
    BY DEF Tiled, Start, End
  <2>1. CASE a \in Base..(top - 1)
    BY <1>3, <2>1 DEF Inv, Tiled
  <2>2. CASE a \notin Base..(top - 1)
    <3> HIDE DEF new
    <3> QED BY <1>1, <1>2, <1>3, <2>2
  <2> QED BY <2>1, <2>2
<1>10. Merged'
  BY <1>1 DEF Inv, Merged, Start, End
<1> QED BY <1>7, <1>8, <1>9, <1>10 DEF Inv

\* A live block has at most one free neighbour on either side.
LEMMA Neighbours ==
  ASSUME Inv, NEW b \in live
  PROVE  /\ Below(b) = {} \/ Below(b) = {First(b)}
         /\ Above(b) = {} \/ Above(b) = {Last(b)}
         /\ First(b) \in Blocks /\ Last(b) \in Blocks
         /\ End(First(b)) = Start(b) \/ First(b) = b
         /\ Start(Last(b)) = End(b) \/ Last(b) = b
<1>1. \A c, d \in Below(b) : c = d
  <2> SUFFICES ASSUME NEW c \in Below(b), NEW d \in Below(b) PROVE c = d
    OBVIOUS
  <2>1. c \in Blocks /\ d \in Blocks /\ End(c) = End(d)
    BY DEF Below, Blocks
  <2> QED BY <2>1, Shape, Same
<1>2. \A c, d \in Above(b) : c = d
  <2> SUFFICES ASSUME NEW c \in Above(b), NEW d \in Above(b) PROVE c = d
    OBVIOUS
  <2>1. c \in Blocks /\ d \in Blocks /\ Start(c) = Start(d)
    BY DEF Above, Blocks
  <2> QED BY <2>1, Shape, Same
<1>3. /\ Below(b) # {} => First(b) \in Below(b)
      /\ Below(b) = {} => First(b) = b
      /\ Above(b) # {} => Last(b) \in Above(b)
      /\ Above(b) = {} => Last(b) = b
  BY DEF First, Last
<1>4. Below(b) \subseteq Blocks /\ Above(b) \subseteq Blocks /\ b \in Blocks
  BY DEF Below, Above, Blocks
<1>5. /\ \A c \in Below(b) : End(c) = Start(b)
      /\ \A c \in Above(b) : Start(c) = End(b)
  BY DEF Below, Above
<1> QED BY <1>1, <1>2, <1>3, <1>4, <1>5

\* A freed block joined to its neighbours is one block in their place
\* (insertFree with its two joinNodes).
LEMMA FreeKeeps ==
  ASSUME Inv, NEW b \in live, Free(b)
  PROVE  Inv'
<1> DEFINE lo == First(b)
           hi == Last(b)
           m == Block(lo.root, End(hi) - lo.root)
           gone == Below(b) \cup Above(b) \cup {b}
<1>1. /\ live' = live \ {b} /\ top' = top
      /\ free' = (free \ (Below(b) \cup Above(b))) \cup {m}
  BY DEF Free
<1>2. b \in Blocks /\ b \notin free /\ lo \in Blocks /\ hi \in Blocks
  BY Neighbours DEF Blocks, Inv, Separate
<1>3. /\ End(lo) = Start(b) \/ lo = b
      /\ Start(hi) = End(b) \/ hi = b
      /\ Below(b) = {} \/ Below(b) = {lo}
      /\ Above(b) = {} \/ Above(b) = {hi}
  BY Neighbours
<1>4. \A c \in Blocks : /\ c.root \in Nat /\ Start(c) \in Int /\ End(c) \in Int
                         /\ Start(c) < c.root /\ c.root < End(c)
                         /\ Base <= Start(c) /\ End(c) <= top
  BY Shape
<1>5. Start(lo) <= Start(b) /\ End(b) <= End(hi) /\ lo.root < End(hi)
  <2> HIDE DEF lo, hi
  <2> QED BY <1>2, <1>3, <1>4
<1>6. Start(m) = Start(lo) /\ End(m) = End(hi) /\ m.root = lo.root
      /\ m.cap \in Nat \ {0} /\ m = Block(m.root, m.cap)
  <2>1. m.root = lo.root /\ m.cap = End(hi) - lo.root
    <3> HIDE DEF lo, hi
    <3> QED BY BlockFields
  <2>2. Start(m) = Start(lo) /\ m = Block(m.root, m.cap)
    <3> HIDE DEF lo, hi
    <3> QED BY <2>1 DEF Start
  <2>3. lo.root \in Int /\ End(hi) \in Int
    BY <1>2, <1>4
  <2>4. End(m) = m.root + m.cap
    BY DEF End
  <2> HIDE DEF m, lo, hi
  <2> QED BY <1>5, <2>1, <2>2, <2>3, <2>4
<1>7. Blocks' = (Blocks \ gone) \cup {m}
  <2>1. live \cap (Below(b) \cup Above(b)) = {}
    BY DEF Inv, Separate, Below, Above
  <2> HIDE DEF m
  <2> QED BY <1>1, <1>2, <2>1 DEF Blocks
<1>8. \A c \in Blocks \ gone : Apart(c, m) /\ Apart(m, c)
  <2> SUFFICES ASSUME NEW c \in Blocks, c \notin gone
               PROVE  Apart(c, m) /\ Apart(m, c)
    OBVIOUS
  <2>1. c # b /\ c # lo /\ c # hi
    BY <1>2, <1>3, Neighbours DEF First, Last
  <2>2. Apart(c, b) /\ Apart(c, lo) /\ Apart(c, hi)
    BY <1>2, <2>1 DEF Inv, Separate
  <2>3. Start(c) < End(c) /\ Start(c) \in Int /\ End(c) \in Int
    BY <1>4
  <2>4. End(c) <= Start(lo) \/ End(hi) <= Start(c)
    <3> HIDE DEF lo, hi
    <3> QED BY <1>2, <1>3, <1>4, <2>2, <2>3 DEF Apart
  <2> HIDE DEF m, lo, hi
  <2> QED BY <1>6, <2>4 DEF Apart
<1>9. BlocksIn'
  <2>1. Base <= Start(m) /\ End(m) <= top /\ m.root \in Nat
    <3> HIDE DEF m, lo, hi
    <3> QED BY <1>2, <1>4, <1>6
  <2>2. top' \in Base..Limit
    BY <1>1 DEF Inv, BlocksIn
  <2>3. ASSUME NEW c \in Blocks'
        PROVE  /\ c = Block(c.root, c.cap) /\ c.root \in Nat /\ c.cap \in Nat \ {0}
               /\ Base <= Start(c) /\ End(c) <= top
    <3> HIDE DEF m
    <3> QED BY <1>6, <1>7, <2>1 DEF Inv, BlocksIn
  <2> QED BY <1>1, <2>2, <2>3 DEF BlocksIn, Start, End, Block
<1>10. Separate'
  <2>1. m \notin live \ {b}
    <3> SUFFICES ASSUME m \in live, m # b PROVE FALSE
      OBVIOUS
    <3>1. m \in Blocks
      BY DEF Blocks
    <3>2. Start(m) < End(b) /\ Start(b) < End(m)
      <4> HIDE DEF m, lo, hi
      <4> QED BY <1>2, <1>4, <1>5, <1>6
    <3> HIDE DEF m
    <3> QED BY <1>2, <3>1, <3>2, Same
  <2>2. free' \cap live' = {}
    <3> HIDE DEF m
    <3> QED BY <1>1, <2>1 DEF Inv, Separate
  <2>3. \A x, y \in Blocks' : x # y => Apart(x, y)
    <3> HIDE DEF m, gone
    <3> QED BY <1>7, <1>8 DEF Inv, Separate
  <2> QED BY <2>2, <2>3 DEF Separate, Apart, Start, End
<1>11. Tiled'
  <2> SUFFICES ASSUME NEW a \in Base..(top - 1)
               PROVE  \E c \in Blocks' : Start(c) <= a /\ a < End(c)
    BY <1>1 DEF Tiled, Start, End
  <2>1. PICK c \in Blocks : Start(c) <= a /\ a < End(c)
    BY DEF Inv, Tiled
  <2>2. CASE c \notin gone
    <3> HIDE DEF m, gone
    <3> QED BY <1>7, <2>1, <2>2
  <2>3. CASE c \in gone
    <3>1. a \in Int
      BY BlockAssumption DEF Inv, BlocksIn
    <3>2. c = b \/ c = lo \/ c = hi
      BY <1>3, <2>3
    <3>3. Start(lo) <= Start(c) /\ End(c) <= End(hi)
      <4> HIDE DEF lo, hi
      <4> QED BY <1>2, <1>3, <1>4, <1>5, <3>2
    <3>4. Start(m) <= a /\ a < End(m)
      <4> HIDE DEF m, lo, hi
      <4> QED BY <1>2, <1>4, <1>6, <2>1, <3>1, <3>3
    <3> HIDE DEF m, gone
    <3> QED BY <1>7, <3>4
  <2> QED BY <2>2, <2>3
<1>12. Merged'
  <2>1. \A c \in free' : c = m \/ (c \in free /\ c \notin gone /\ c \in Blocks)
    <3> HIDE DEF m
    <3> QED BY <1>1, <1>2 DEF Blocks
  <2>2. \A c \in free : c \notin gone => End(c) # Start(m)
    <3> SUFFICES ASSUME NEW c \in free, c \notin gone, End(c) = Start(m)
                 PROVE  FALSE
      OBVIOUS
    <3>1. End(c) = Start(lo)
      <4> HIDE DEF m
      <4> QED BY <1>6
    <3>2. CASE lo = b
      BY <3>1, <3>2 DEF Below
    <3>3. CASE lo # b
      <4>1. lo \in free
        BY <1>3, <3>3, Neighbours DEF First, Below
      <4> QED BY <3>1, <4>1 DEF Inv, Merged
    <3> QED BY <3>2, <3>3
  <2>3. \A c \in free : c \notin gone => Start(c) # End(m)
    <3> SUFFICES ASSUME NEW c \in free, c \notin gone, Start(c) = End(m)
                 PROVE  FALSE
      OBVIOUS
    <3>1. Start(c) = End(hi)
      <4> HIDE DEF m
      <4> QED BY <1>6
    <3>2. CASE hi = b
      BY <3>1, <3>2 DEF Above
    <3>3. CASE hi # b
      <4>1. hi \in free
        BY <1>3, <3>3, Neighbours DEF Last, Above
      <4> QED BY <3>1, <4>1 DEF Inv, Merged
    <3> QED BY <3>2, <3>3
  <2>4. Start(m) # End(m)
    <3> HIDE DEF m, lo, hi
    <3> QED BY <1>2, <1>4, <1>5, <1>6
  <2>5. \A c, d \in free' : End(c) # Start(d)
    <3> HIDE DEF m, gone
    <3> QED BY <2>1, <2>2, <2>3, <2>4 DEF Inv, Merged
  <2> QED BY <2>5 DEF Merged, Start, End
<1> QED BY <1>9, <1>10, <1>11, <1>12 DEF Inv

\* An empty heap is such a row.
LEMMA InitInv == Init => Inv
BY BlockAssumption DEF Init, Inv, BlocksIn, Separate, Tiled, Merged, Blocks

\* Every step keeps the row, and so does a step that changes nothing.
LEMMA StepInv == Inv /\ [Next]_vars => Inv'
<1> SUFFICES ASSUME Inv, [Next]_vars PROVE Inv'
  OBVIOUS
<1>1. CASE UNCHANGED vars
  BY <1>1 DEF vars, Inv, BlocksIn, Separate, Tiled, Merged, Blocks, Apart, Start, End
<1>2. ASSUME NEW need \in Needs, AllocateTop(need) PROVE Inv'
  BY <1>2, TopKeeps
<1>3. ASSUME NEW need \in Needs, NEW b \in free, AllocateWhole(b, need) PROVE Inv'
  BY <1>3, WholeKeeps
<1>4. ASSUME NEW need \in Needs, NEW b \in free, AllocateUpper(b, need) PROVE Inv'
  BY <1>4, UpperKeeps
<1>5. ASSUME NEW b \in live, Free(b) PROVE Inv'
  BY <1>5, FreeKeeps
<1> QED BY <1>1, <1>2, <1>3, <1>4, <1>5 DEF Next

\* The heap stays a row of blocks.
LEMMA RowInv == Spec => []Inv
BY InitInv, StepInv, PTL DEF Spec

\* Every block has its header and at least a word inside the allocated memory.
THEOREM BlocksInside == Spec => []BlocksIn
<1>1. Inv => BlocksIn
  BY DEF Inv
<1> QED BY <1>1, RowInv, PTL

\* No allocation, split or merge makes two blocks share a word.
THEOREM NoOverlap == Spec => []Separate
<1>1. Inv => Separate
  BY DEF Inv
<1> QED BY <1>1, RowInv, PTL

\* No allocation, split or merge loses a word of memory.
THEOREM NoLostWord == Spec => []Tiled
<1>1. Inv => Tiled
  BY DEF Inv
<1> QED BY <1>1, RowInv, PTL

\* After every release the free neighbours are one block.
THEOREM NoFreeNeighbours == Spec => []Merged
<1>1. Inv => Merged
  BY DEF Inv
<1> QED BY <1>1, RowInv, PTL
=============================================================================
