---------------------------- MODULE MCEnergySite ----------------------------
(***************************************************************************)
(* Small instances of the energy site for TLC.                             *)
(***************************************************************************)
EXTENDS EnergySite

Proposal(l, h, loads, pvs) ==
    [loadLow |-> loads[1], loadHigh |-> loads[2], pvLow |-> pvs[1],
     pvHigh |-> pvs[2], low |-> l, high |-> h]

\* Two commands that differ, on a site whose load and PV stand still.
MCCommands == {Proposal(-1, 1, <<0, 0>>, <<0, 0>>),
               Proposal(0, 1, <<0, 0>>, <<0, 0>>)}

\* Charge, discharge, or follow, for loads and PV that may move.
MCPlans == {Proposal(-1, -1, <<0, 1>>, <<0, 0>>),
            Proposal(1, 1, <<0, 0>>, <<0, 1>>),
            Proposal(-1, 1, <<0, 1>>, <<0, 1>>)}

MCFallback == -1

\* What the read-back protects from when readings are fresh, and what the age of
\* the last change protects from when they may be old.
MCRegimes ==
    {[faults |-> {"wrong clocks", "lost messages", "lost record"}, seconds |-> 8],
     [faults |-> {"old readings"}, seconds |-> 7]}

MCNoFaults == {[faults |-> {}, seconds |-> 5]}
MCOldAndWrong == {[faults |-> {"old readings", "wrong clocks"}, seconds |-> 7]}
=============================================================================
