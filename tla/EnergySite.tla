----------------------------- MODULE EnergySite -----------------------------
(***************************************************************************)
(* The gateway of EnergyGateway with what it works between: the sender of  *)
(* its records, which measures the site and reads the inverter back, and   *)
(* the inverter, which applies commands, returns to fallback by itself     *)
(* when a command's revert timeout passes, and moves battery power.  The   *)
(* sender, the inverter and the site are not code of the repository: they  *)
(* are the assumptions A1 to A7 of energy-controller-plan.md as actions,   *)
(* played in the tests by tests/baremetal/uart_gateway.py.                 *)
(*                                                                         *)
(* The clock of the records is the time of the model.                      *)
(***************************************************************************)
EXTENDS EnergyGateway, Sequences

CONSTANTS Proposals,     \* what the optimizer proposes
          Loads, Pvs,    \* load and PV output of the site
          Energies,      \* stored energy at the start
          Regimes        \* what may go wrong in a run and how long it lasts

\* Records that hold earlier measurements, records with a wrong clock, messages
\* to the inverter that are lost, and a record that is lost.
Faults == {"old readings", "wrong clocks", "lost messages", "lost record"}

ASSUME SiteAssumption ==
    /\ \A r \in Regimes : /\ r.faults \subseteq Faults
                          /\ r.seconds \in 0..TimeBound - 1
    /\ Loads \subseteq Nat /\ Pvs \subseteq Nat /\ Energies \subseteq Int
    /\ Proposals \subseteq [loadLow : Nat, loadHigh : Nat, pvLow : Nat, pvHigh : Nat,
                             low : Int, high : Int]

VARIABLES regime,     \* of this run: which faults happen, and the bound of its length
          now,        \* seconds since the start
          sequence,   \* the sequence number of the next record
          sent,       \* whether a record was sent in this second
          reading,    \* measurements the sender holds
          channel,    \* messages on their way to the inverter, oldest first
          applied,    \* the state the inverter applies
          power, load, pv, energy,
          snapshot,   \* the last accepted snapshot
          kept        \* whether its assumptions have held since

site == <<power, load, pv, energy>>
vars == <<gateway, output, regime, now, sequence, sent, reading, channel, applied,
          site, snapshot, kept>>

Fallback == [mode |-> "fallback", low |-> 0, high |-> 0]
State(x) == [mode |-> x.mode, low |-> x.low, high |-> x.high]

\* The inverter in fallback: no revert timeout runs, and no command of the
\* time `at` is in force.
Reverted == [mode |-> "fallback", low |-> 0, high |-> 0, until |-> 0, at |-> 0]

----------------------------------------------------------------------------
(* The sender of the records. *)

\* What the sender measures now.  The inverter reports the state it applies.
Reading ==
    [measured |-> now, power |-> power, load |-> load, pv |-> pv,
     energyLow |-> energy, energyHigh |-> energy, readMode |-> applied.mode,
     readLow |-> applied.low, readHigh |-> applied.high]

Measure ==
    /\ "old readings" \in regime.faults
    /\ reading' = Reading
    /\ UNCHANGED <<gateway, output, regime, now, sequence, sent, channel, applied, site,
                   snapshot, kept>>

\* A record without a proposal holds zeros in its place.
NoProposalWords == [loadLow |-> 0, loadHigh |-> 0, pvLow |-> 0, pvHigh |-> 0,
                    low |-> 0, high |-> 0]

Record(r, p, c) ==
    [seq |-> sequence, clock |-> c, measured |-> r.measured,
     power |-> r.power, load |-> r.load, pv |-> r.pv,
     energyLow |-> r.energyLow, energyHigh |-> r.energyHigh,
     readMode |-> r.readMode, readLow |-> r.readLow, readHigh |-> r.readHigh,
     proposal |-> p # NoProposalWords,
     loadLow |-> p.loadLow, loadHigh |-> p.loadHigh,
     pvLow |-> p.pvLow, pvHigh |-> p.pvHigh, low |-> p.low, high |-> p.high]

\* A clock below the largest the gateway has seen, and one out of range.
WrongClocks == {TimeBound} \cup (Nat \cap {gateway.clock - 1})

Readings == {Reading} \cup (IF "old readings" \in regime.faults THEN {reading} ELSE {})
Clocks == {now} \cup (IF "wrong clocks" \in regime.faults THEN WrongClocks ELSE {})
Records ==
    {Record(r, p, c) :
        r \in Readings, p \in Proposals \cup {NoProposalWords}, c \in Clocks}

\* The interval in which battery power stays once the state x has settled.
IntervalLow(x) ==
    IF x.mode = "fallback" THEN FallbackLow ELSE x.low - Tolerance
IntervalHigh(x) ==
    IF x.mode = "fallback" THEN FallbackHigh ELSE x.high + Tolerance

\* A4: load l and PV output v lie in the intervals of s.
InIntervals(s, l, v) ==
    /\ s.loadLow <= l /\ l <= s.loadHigh
    /\ s.pvLow <= v /\ v <= s.pvHigh

\* The tick that reads the record i; what it answers goes to the inverter.
\* The recorded state of a snapshot and whether the assumptions hold at its
\* time are noted for the properties.
ReadRecord(i) ==
    /\ ~sent /\ sent' = TRUE
    /\ sequence' = sequence + 1
    /\ Tick(i)
    /\ channel' = IF output' = Nothing THEN channel
                  ELSE Append(channel, [message |-> output', at |-> now])
    /\ IF output'.kind = "command"
       THEN /\ snapshot' = [taken |-> TRUE, time |-> now,
                            before |-> State(TickStart(i)),
                            command |-> State(gateway'),
                            energyLow |-> i.energyLow,
                            energyHigh |-> i.energyHigh,
                            loadLow |-> i.loadLow, loadHigh |-> i.loadHigh,
                            pvLow |-> i.pvLow, pvHigh |-> i.pvHigh]
            /\ kept' = (/\ i.energyLow <= energy /\ energy <= i.energyHigh
                        /\ IntervalLow(TickStart(i)) <= power
                        /\ power <= IntervalHigh(TickStart(i))
                        /\ InIntervals(i, load, pv))
       ELSE UNCHANGED <<snapshot, kept>>
    /\ UNCHANGED <<regime, now, reading, applied, site>>

\* Bytes of a record are lost, and the gateway never reads it.
LoseRecord ==
    /\ "lost record" \in regime.faults
    /\ ~sent /\ sent' = TRUE
    /\ sequence = gateway.seq
    /\ sequence' = sequence + 1
    /\ UNCHANGED <<gateway, output, regime, now, reading, channel, applied, site,
                   snapshot, kept>>

----------------------------------------------------------------------------
(* The inverter and the site. *)

\* The revert timeout counts from the time the inverter applies the command.
Apply ==
    /\ channel # <<>>
    /\ channel' = Tail(channel)
    /\ LET m == Head(channel).message
       IN applied' = IF m.kind = "fallback" THEN Reverted
                     ELSE [mode |-> "command", low |-> m.low, high |-> m.high,
                           until |-> now + m.revert, at |-> Head(channel).at]
    /\ UNCHANGED <<gateway, output, regime, now, sequence, sent, reading, site, snapshot,
                   kept>>

Lose ==
    /\ "lost messages" \in regime.faults /\ channel # <<>>
    /\ channel' = Tail(channel)
    /\ UNCHANGED <<gateway, output, regime, now, sequence, sent, reading, applied, site,
                   snapshot, kept>>

\* What battery power p may do to stored energy in a second, in whole units: at an
\* efficiency between Eta and 1, and with a loss of at most LossMax.
LeastRate(p) ==
    -(IF p < 0 THEN ((-p) * Million) \div Eta ELSE ((-p) * Eta) \div Million) - LossMax
Rates(p) == LeastRate(p)..p

\* A second passes.  Within Tau of its sending a message has been applied or
\* lost.  Battery power stays between its value, zero, and the ends of the
\* interval of the applied state.
Second ==
    /\ now < regime.seconds
    /\ \A k \in 1..Len(channel) : now + 1 < channel[k].at + Tau
    /\ now' = now + 1
    /\ sent' = FALSE
    /\ applied' = IF applied.mode = "command" /\ applied.until <= now + 1
                  THEN Reverted ELSE applied
    /\ \E r \in Rates(power) : energy' = energy + r
    /\ power' \in Min({power, 0, IntervalLow(applied)})
                    .. Max({power, 0, IntervalHigh(applied)})
    /\ load' \in Loads
    /\ pv' \in Pvs
    /\ kept' = (kept /\ InIntervals(snapshot, load', pv'))
    /\ UNCHANGED <<gateway, output, regime, sequence, reading, channel, snapshot>>

Init ==
    /\ GatewayInit
    /\ regime \in Regimes
    /\ now = 0
    /\ sequence = 0
    /\ sent = FALSE
    /\ channel = <<>>
    /\ applied = Reverted
    /\ power = 0
    /\ load \in Loads
    /\ pv \in Pvs
    /\ energy \in Energies
    /\ reading = Reading
    /\ snapshot = [taken |-> FALSE, time |-> 0, before |-> Fallback,
                   command |-> Fallback, energyLow |-> 0, energyHigh |-> 0,
                   loadLow |-> 0, loadHigh |-> 0, pvLow |-> 0, pvHigh |-> 0]
    /\ kept = FALSE

Next ==
    \/ Measure
    \/ \E i \in Records : ReadRecord(i)
    \/ LoseRecord
    \/ Apply
    \/ Lose
    \/ Second

Spec == Init /\ [][Next]_vars
----------------------------------------------------------------------------
(* Type correctness: the recorded state, the state the inverter applies and *)
(* the messages between them keep the shapes Demos/Energy/Gateway.lean      *)
(* gives them.                                                              *)
TypeOK ==
    /\ gateway.mode \in Modes /\ applied.mode \in Modes
    /\ gateway.status \in {"accepted", "rejected"}
    /\ gateway.window \in BOOLEAN /\ gateway.started \in BOOLEAN
    /\ gateway.seq \in Nat /\ sequence \in Nat
    /\ gateway.clock \in 0..regime.seconds /\ gateway.changed \in 0..gateway.clock
    /\ \A k \in 1..Len(channel) :
          channel[k].message.kind \in {"command", "fallback"} /\ channel[k].at \in 0..now
    /\ now \in 0..regime.seconds
    /\ kept \in BOOLEAN /\ sent \in BOOLEAN

(* OperatesIn.states: from an accepted snapshot to the next one, the        *)
(* inverter applies the state the snapshot records, the command authorized  *)
(* from it, or fallback, although it applies what the gateway sends up to   *)
(* Tau later and returns to fallback on its own clock.  A command older     *)
(* than the snapshot's can no longer arrive.  Gateway.lean settles this     *)
(* with `changed + tau <= c` and the read-back.                             *)
AppliesKnownState ==
    snapshot.taken =>
        State(applied) \in {snapshot.before, snapshot.command, Fallback}

(* Rule 1 of energy-controller-plan.md: "Take a snapshot only after the last *)
(* change of state has completed, at least tau seconds after it."  When a   *)
(* proposal becomes a snapshot, no message under way still changes the      *)
(* state the inverter applies.  Gateway.lean dates each change, and a       *)
(* request made for a record with a wrong clock at the largest clock seen.  *)
Requested(m) ==
    IF m.kind = "fallback" THEN Fallback
    ELSE [mode |-> "command", low |-> m.low, high |-> m.high]
SnapshotAfterChange ==
    [][snapshot' # snapshot =>
          \A k \in 1..Len(channel) :
              Requested(channel[k].message) = State(applied)]_vars

(* Each accepted command ends within its window even when no record reaches *)
(* the gateway any more: the inverter applies a command only before the end *)
(* of the window of the snapshot that authorized it.  The revert timeout of *)
(* Gateway.lean and the expiry of Fields.lean leave room for the delivery.  *)
CommandEndsInWindow ==
    applied.mode = "command" => now < applied.at + Window

(* WithinOrFallback of Spec.lean: while the assumptions of the last         *)
(* snapshot hold, stored energy and grid power stay within the site's       *)
(* limits, or within what an immediate return to fallback at the snapshot   *)
(* would have admitted.  It joins the tests of the authorizer, the rules of *)
(* the gateway and the delays of the inverter, over consecutive windows.    *)
FallbackDrain(t) == ((-FallbackLow) * t * Million) \div Eta + LossMax * t
WithinOrFallback ==
    snapshot.taken /\ kept /\ now <= snapshot.time + Window =>
        LET t == now - snapshot.time
            grid == load + power - pv
        IN /\ energy >= Min({Floor, snapshot.energyLow - FallbackDrain(t)})
           /\ energy <= Max({Ceiling, snapshot.energyHigh + FallbackHigh * t})
           /\ grid >= Min({-ExportCap,
                           snapshot.loadLow + FallbackLow - snapshot.pvHigh})
           /\ grid <= Max({ImportCap,
                           snapshot.loadHigh + FallbackHigh - snapshot.pvLow})
=============================================================================
