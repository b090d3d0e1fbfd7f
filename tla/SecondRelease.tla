--------------------------- MODULE SecondRelease ----------------------------
(***************************************************************************)
(* A host that keeps pointers after their objects were released, and calls *)
(* `release` with one of them again.                                       *)
(***************************************************************************)
EXTENDS RuntimeHeap

VARIABLES stale,   \* pointers of freed objects, whose headers no object covers since
          reused   \* pointers of freed objects, whose headers some object has covered

hostVars == <<vars, stale, reused>>

\* The words of an object's header, and all of a block's words.
HeaderOf(ptr) == (ptr - Header)..(ptr - 1)
WordsOf(m, ptr) == (ptr - Header)..(ptr + m[CapacityAt(ptr)] - 1)

\* The pointers a step leaves stale: it may free some and cover others.
Remember ==
    LET gone == stale \cup (blocks \ blocks')
        over == {p \in gone : \E b \in blocks' \ blocks :
                                 HeaderOf(p) \cap WordsOf(mem', b) # {}}
    IN /\ stale' = gone \ over
       /\ reused' = reused \cup over

HostInit == Init /\ stale = {} /\ reused = {}

\* The program, if it owns an object there now, is not told.
ReleaseAgain(ptr) == CallRelease(ptr, owned) /\ Remember

ReleaseStale == \E ptr \in stale : ReleaseAgain(ptr)
ReleaseAny == \E ptr \in stale \cup reused : ReleaseAgain(ptr)

\* A host that forgets a pointer when its memory is reused.
HostSpec == HostInit /\ [][(Next /\ Remember) \/ ReleaseStale]_hostVars

\* A host that never forgets.
AnyHostSpec == HostInit /\ [][(Next /\ Remember) \/ ReleaseAny]_hostVars

-----------------------------------------------------------------------------
\* While no object has taken the memory of a freed one, whatever merging, splitting
\* and releasing went on around it, `release` of its pointer traps.
StaleTraps == [][ReleaseStale => pc' = "trapped"]_hostVars

\* "a second release of one pointer traps" (docs/verified-manual.md:546).
SecondReleaseTraps == [][ReleaseAny => pc' = "trapped"]_hostVars
=============================================================================
