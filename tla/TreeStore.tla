------------------------------ MODULE TreeStore -----------------------------
(***************************************************************************)
(* What the memory of a compiled program promises the program: a variable   *)
(* that owns an object holds a value of its own, an array, a tree or the    *)
(* detached header of a matched record.  Values are whole: nothing done     *)
(* with one variable changes the value of another, whatever is allocated,   *)
(* freed or copied meanwhile.  (Holds and NodeOwned in                      *)
(* LeanExe/Pipeline/Implements.lean state so for one call.)                 *)
(***************************************************************************)
EXTENDS Integers

CONSTANTS Width,    \* the slots of a record
          Children, \* the slots that hold children
          Words,    \* what the other slots and arrays hold
          Lengths   \* the lengths of arrays

VARIABLE store      \* the value of each owned object

Null == <<>>
Array(length, word) == <<"array", [i \in 1..length |-> word]>>
Tree(slots) == <<"tree", slots>>
Detached == <<"header">>

IsTree(value) == value[1] = "tree"
Handles == DOMAIN store
Trees == {h \in Handles : IsTree(store[h])}

Init == store = <<>>

\* The objects that a step adds.  What they are called does not matter.
Fresh == DOMAIN store' \ Handles

With(h, value) == [k \in Handles \cup {h} |-> IF k = h THEN value ELSE store[k]]
Without(hs) == [k \in Handles \ hs |-> store[k]]

NewArray(h, length, word) == store' = With(h, Array(length, word))

\* What the slots f of a record stand for: children by their handles, or 0.
Slots(f) == [i \in 0..(Width - 1) |->
                IF i \notin Children THEN f[i] ELSE IF f[i] = 0 THEN Null ELSE store[f[i]]]

\* Each child becomes part of the new value, and has no other owner.
Fields == {f \in [0..(Width - 1) -> Words \cup Trees \cup {0}] :
              /\ \A i \in 0..(Width - 1) :
                    f[i] \in IF i \in Children THEN Trees \cup {0} ELSE Words
              /\ \A i, j \in Children : f[i] = f[j] /\ f[i] # 0 => i = j}
Moved(f) == {f[i] : i \in Children} \ {0}

NewTree(h, f) ==
    store' = [k \in (Handles \ Moved(f)) \cup {h} |-> IF k = h THEN Tree(Slots(f)) ELSE store[k]]

\* A matched tree leaves its header and its children.
Match(h) ==
    /\ IsTree(store[h])
    /\ LET slots == store[h][2]
           there == {i \in Children : slots[i] # Null}
       IN \E at \in [there -> Fresh] :
             /\ \A i, j \in there : at[i] = at[j] => i = j
             /\ store' = [k \in Handles \cup {at[i] : i \in there} |->
                            IF k = h THEN Detached
                            ELSE IF k \in Handles THEN store[k]
                            ELSE slots[CHOOSE i \in there : at[i] = k]]

Copy(h, new) ==
    /\ store[h] = Detached \/ IsTree(store[h])
    /\ store' = With(new, store[h])

Release(h) == store' = Without({h})

\* Each operation changes the store.
Next ==
    /\ store' # store
    /\ \/ \E h \in Fresh :
             \/ \E length \in Lengths, word \in Words : NewArray(h, length, word)
             \/ \E f \in Fields : NewTree(h, f)
             \/ \E from \in Handles : Copy(from, h)
       \/ \E h \in Handles : \/ Match(h)
                             \/ Release(h)
                             \/ store[h] = Detached /\ \E f \in Fields : NewTree(h, f)

Spec == Init /\ [][Next]_store
=============================================================================
