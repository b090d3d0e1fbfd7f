--------------------------- MODULE EnergyGateway ---------------------------
(***************************************************************************)
(* The gateway of the energy controller (Demos/Energy/Gateway.lean) and    *)
(* the authorizer it calls (Demos/Energy/Fields.lean): a machine that      *)
(* reads one record a tick and answers with nothing, a command for the     *)
(* inverter, or a request to return to fallback.                           *)
(*                                                                         *)
(* Powers are in watts, positive for charging: the word of a power p is    *)
(* p + offset, which keeps order and differences.  The bounds on times,    *)
(* energies and powers keep every sum and product of the code far below    *)
(* 2^64, so the words of the model do not wrap.  Of a rejection the model  *)
(* keeps that it happened, and not which of the tests failed.              *)
(*                                                                         *)
(* A definition whose name ends in an underscore and a word is a mutation  *)
(* of the definition after it: the bug a property must find.               *)
(***************************************************************************)
EXTENDS Integers, FiniteSetsExt

CONSTANTS \* the site's profile, Prof
          Floor, Ceiling,              \* of stored energy
          ChargeMax, DischargeMax,     \* of the limits of a command
          ImportCap, ExportCap,        \* of grid power
          Eta,                         \* least efficiency, in parts of Million
          LossMax,                     \* greatest auxiliary loss
          Tolerance,                   \* of battery power about the limits
          FallbackLow, FallbackHigh,   \* battery power in fallback
          Tau,                         \* transition time
          Window,                      \* length of a window
          \* the bounds of the program
          Million, StaleBound, TimeBound, EnergyBound, PowerBound

\* ProfileValid of Words.lean, as far as the gateway relies on it.
ASSUME ProfileAssumption ==
    /\ {Floor, Ceiling, ChargeMax, DischargeMax, ImportCap, ExportCap, LossMax,
        Tolerance, Tau, Window, StaleBound, TimeBound, EnergyBound,
        PowerBound} \subseteq Nat
    /\ FallbackLow \in Int /\ FallbackHigh \in Int
    /\ FallbackLow <= 0 /\ 0 <= FallbackHigh
    /\ Eta \in Nat \ {0} /\ Million \in Nat /\ Eta <= Million
    /\ 2 * Tau < Window
    /\ 0 < Tau /\ 0 < TimeBound

VARIABLES gateway,   \* GwState
          output     \* GwOut of the last record, without the sequence number it echoes

Modes == {"command", "fallback"}

----------------------------------------------------------------------------
(* The authorizer. *)

PowerOk(w) == -PowerBound <= w /\ w <= PowerBound

RangeOk(s) ==
    /\ s.time < TimeBound
    /\ \A e \in {s.energyLow, s.energyHigh} : e <= EnergyBound
    /\ \A w \in {s.inForceLow, s.inForceHigh, s.low, s.high} : PowerOk(w)
    /\ \A w \in {s.loadLow, s.loadHigh, s.pvLow, s.pvHigh} : w <= PowerBound

OrderOk(s) ==
    /\ s.energyLow <= s.energyHigh
    /\ s.inForceLow <= s.inForceHigh
    /\ s.loadLow <= s.loadHigh
    /\ s.pvLow <= s.pvHigh
    /\ s.low <= s.high

LimitOk(s) == -DischargeMax <= s.low /\ s.high <= ChargeMax

\* The ends of the interval of the state in force.
InForceLow(s) ==
    IF s.mode = "fallback" THEN FallbackLow ELSE s.inForceLow - Tolerance
InForceHigh(s) ==
    IF s.mode = "fallback" THEN FallbackHigh ELSE s.inForceHigh + Tolerance

\* The ends of B, where battery power stays in the window: the state in force,
\* the proposed limits, and fallback.
LowB_proposed(s) == Min({s.low - Tolerance, FallbackLow})
LowB(s) == Min({InForceLow(s), s.low - Tolerance, FallbackLow})
HighB(s) == Max({InForceHigh(s), s.high + Tolerance, FallbackHigh})

\* The energy that leaves over a window at the power b, rounded up, and the
\* energy that arrives.
LowDrain(b) ==
    ((-b) * Window * Million + Eta - 1) \div Eta + LossMax * Window
HighGain(b) == b * Window

ExportOk(s, b) == s.pvHigh <= s.loadLow + b + ExportCap
FloorOk(s, b) == Floor + LowDrain(b) <= s.energyLow
ImportOk(s, b) == s.loadHigh + b <= ImportCap + s.pvLow
CeilingOk(s, b) == s.energyHigh + HighGain(b) <= Ceiling

\* A side that reaches no further than fallback needs no test.
Accepts(s) ==
    /\ RangeOk(s) /\ OrderOk(s) /\ LimitOk(s)
    /\ LowB(s) < FallbackLow => ExportOk(s, LowB(s)) /\ FloorOk(s, LowB(s))
    /\ FallbackHigh < HighB(s) => ImportOk(s, HighB(s)) /\ CeilingOk(s, HighB(s))

----------------------------------------------------------------------------
(* A tick of the gateway with the record i. *)

\* The state after a request to return to fallback at the time t.
FallbackAt(g, t) ==
    [g EXCEPT !.mode = "fallback", !.low = 0, !.high = 0, !.expiry = 0,
              !.changed = t, !.window = FALSE]

\* A command whose expiry has passed became fallback then; its window goes on.
Expire_early(g, c) ==
    IF g.mode = "command" /\ g.expiry <= c + Tau
    THEN FallbackAt(g, g.expiry) ELSE g
Expire(g, c) ==
    IF g.mode = "command" /\ g.expiry <= c
    THEN [FallbackAt(g, g.expiry) EXCEPT !.window = g.window] ELSE g

\* The record's clock, or the largest clock seen when that is older or the
\* record's clock is out of range.
TickClock(i) ==
    IF i.clock < gateway.clock \/ TimeBound <= i.clock
    THEN gateway.clock ELSE i.clock

\* The state in which the tick decides.
TickStart(i) ==
    Expire([gateway EXCEPT !.seq = @ + 1, !.clock = TickClock(i),
                           !.started = TRUE],
           TickClock(i))

Faulty(i) ==
    \/ ~gateway.started
    \/ i.seq # gateway.seq
    \/ i.clock < gateway.clock
    \/ TimeBound <= i.clock
    \/ i.clock < i.measured
    \/ StaleBound < i.clock - i.measured

\* The limits are not compared in fallback.
ReadBackOk_mode(g, i) == i.readMode = g.mode
ReadBackOk(g, i) ==
    /\ i.readMode = g.mode
    /\ g.mode = "command" => i.readLow = g.low /\ i.readHigh = g.high

PowerIn(g, w) ==
    IF g.mode = "fallback" THEN FallbackLow <= w /\ w <= FallbackHigh
    ELSE g.low - Tolerance <= w /\ w <= g.high + Tolerance

LeavesWindow(g, i, c) ==
    /\ g.window
    /\ c < g.windowEnd
    /\ \/ i.load < g.loadLow \/ g.loadHigh < i.load
       \/ i.pv < g.pvLow \/ g.pvHigh < i.pv
       \/ i.power < g.bLow \/ g.bHigh < i.power

\* The last change of state is at least Tau old.
Settled_soon(g, c) == g.changed <= c
Settled(g, c) == g.changed + Tau <= c

SnapOf(g, i, c) ==
    [time |-> c, energyLow |-> i.energyLow, energyHigh |-> i.energyHigh,
     mode |-> g.mode, inForceLow |-> g.low, inForceHigh |-> g.high,
     loadLow |-> i.loadLow, loadHigh |-> i.loadHigh,
     pvLow |-> i.pvLow, pvHigh |-> i.pvHigh, low |-> i.low, high |-> i.high]

Nothing == [kind |-> "nothing"]

\* The record is faulty, measurements leave the window in force, or the inverter
\* reports another state than the recorded one though it had time to change.
MustFallBack(i) ==
    LET g == TickStart(i)
        c == TickClock(i)
    IN \/ Faulty(i)
       \/ LeavesWindow(g, i, c)
       \/ ~ReadBackOk(g, i) /\ Settled(g, c)

RequestFallback(i) ==
    /\ MustFallBack(i)
    /\ gateway' = FallbackAt(TickStart(i), TickClock(i))
    /\ output' = [kind |-> "fallback"]

\* The proposal of the record becomes a snapshot.
TakesSnapshot(i) ==
    LET g == TickStart(i)
    IN /\ ~MustFallBack(i)
       /\ i.proposal
       /\ ReadBackOk(g, i)
       /\ PowerIn(g, i.power)
       /\ Settled(g, TickClock(i))

\* The command's revert timeout counts from the clock of the tick; the command
\* expires one transition time before its window ends.
Expiry_window(c) == c + Window
Expiry(c) == c + Window - Tau

Command(i) ==
    LET c == TickClock(i)
        s == SnapOf(TickStart(i), i, c)
    IN /\ TakesSnapshot(i)
       /\ Accepts(s)
       /\ gateway' = [TickStart(i) EXCEPT
              !.mode = "command", !.low = s.low, !.high = s.high,
              !.expiry = Expiry(c), !.changed = c,
              !.window = TRUE, !.windowEnd = c + Window,
              !.bLow = LowB(s), !.bHigh = HighB(s),
              !.loadLow = i.loadLow, !.loadHigh = i.loadHigh,
              !.pvLow = i.pvLow, !.pvHigh = i.pvHigh, !.status = "accepted"]
       /\ output' = [kind |-> "command", low |-> s.low, high |-> s.high,
                     revert |-> Expiry(c) - c]

Reject(i) ==
    /\ TakesSnapshot(i)
    /\ ~Accepts(SnapOf(TickStart(i), i, TickClock(i)))
    /\ gateway' = [TickStart(i) EXCEPT !.status = "rejected"]
    /\ output' = Nothing

NoProposal(i) ==
    /\ ~MustFallBack(i) /\ ~TakesSnapshot(i)
    /\ gateway' = TickStart(i)
    /\ output' = Nothing

Tick(i) == RequestFallback(i) \/ Command(i) \/ Reject(i) \/ NoProposal(i)

\* gw0: no tick yet, fallback recorded.
GatewayInit ==
    /\ gateway = [seq |-> 0, clock |-> 0, started |-> FALSE,
                  mode |-> "fallback", low |-> 0, high |-> 0, expiry |-> 0,
                  changed |-> 0, window |-> FALSE, windowEnd |-> 0,
                  bLow |-> 0, bHigh |-> 0, loadLow |-> 0, loadHigh |-> 0,
                  pvLow |-> 0, pvHigh |-> 0, status |-> "accepted"]
    /\ output = Nothing
=============================================================================
