-------------------------- MODULE EnergySite_proofs --------------------------
(***************************************************************************)
(* The gateway and the inverter for every profile, every set of proposals  *)
(* and every run: an accepted command ends within its window, the inverter *)
(* applies only states the last snapshot reckoned with, and, while the     *)
(* assumptions of an accepted snapshot hold, stored energy and grid power  *)
(* stay within the limits or within what an immediate return to fallback   *)
(* admits.                                                                 *)
(***************************************************************************)
EXTENDS EnergySite, TLAPS

GatewayRecords ==
    [seq : Nat, clock : Nat, started : BOOLEAN, mode : Modes, low : Int, high : Int,
     expiry : Nat, changed : Nat, window : BOOLEAN, windowEnd : Nat,
     bLow : Int, bHigh : Int, loadLow : Nat, loadHigh : Nat, pvLow : Nat,
     pvHigh : Nat, status : {"accepted", "rejected"}]

Commands == [kind : {"command"}, low : Int, high : Int, revert : {Window - Tau}]
Messages == [message : Commands \cup {[kind |-> "fallback"]}, at : Nat]

AppliedStates == [mode : Modes, low : Int, high : Int, until : Nat, at : Nat]

Typed ==
    /\ gateway \in GatewayRecords
    /\ channel \in Seq(Messages)
    /\ applied \in AppliedStates
    /\ regime \in Regimes
    /\ now \in Nat /\ now <= regime.seconds
    /\ sequence \in Nat
    /\ sent \in BOOLEAN /\ kept \in BOOLEAN

\* The recorded state is dated on a clock that does not run ahead, and a
\* recorded command expires one transition time before its window ends.
Dated ==
    /\ gateway.changed <= gateway.clock /\ gateway.clock <= now
    /\ gateway.mode = "command" => gateway.expiry = gateway.changed + Window - Tau
    /\ gateway.mode = "fallback" => gateway.low = 0 /\ gateway.high = 0

\* A message is under way for less than Tau, and no command was sent after the
\* last change of the recorded state.
UnderWay ==
    \A k \in 1..Len(channel) :
        /\ channel[k].at <= now /\ now < channel[k].at + Tau
        /\ channel[k].message.kind = "command" => channel[k].at <= gateway.changed

\* The inverter's own clock ends a command before its window does.
Reverting ==
    /\ applied.mode = "command" => /\ applied.until <= applied.at + Window
                                   /\ now < applied.until
    /\ applied.mode = "fallback" => applied.low = 0 /\ applied.high = 0

\* The inductive invariant.
SiteInv == Typed /\ Dated /\ UnderWay /\ Reverting

-----------------------------------------------------------------------------
(* Operators of the gateway. *)

\* The numbers the steps below reckon with.
LEMMA Numbers ==
    ASSUME SiteInv
    PROVE  /\ Tau \in Nat /\ 0 < Tau /\ Window \in Nat /\ 2 * Tau < Window
           /\ Window - Tau \in Nat
           /\ TimeBound \in Nat /\ regime.seconds \in Nat
           /\ now \in Nat /\ now <= regime.seconds /\ now < TimeBound
           /\ gateway \in GatewayRecords
           /\ gateway.clock \in Nat /\ gateway.changed \in Nat /\ gateway.expiry \in Nat
           /\ gateway.changed <= gateway.clock /\ gateway.clock <= now
<1>1. Tau \in Nat /\ 0 < Tau /\ Window \in Nat /\ 2 * Tau < Window /\ TimeBound \in Nat
  BY ProfileAssumption
<1>2. now \in Nat /\ now <= regime.seconds /\ regime \in Regimes /\ gateway \in GatewayRecords
  BY DEF SiteInv, Typed
<1>3. regime.seconds \in 0..TimeBound - 1
  BY <1>2, SiteAssumption
<1>4. gateway.changed <= gateway.clock /\ gateway.clock <= now
  BY DEF SiteInv, Dated
<1>5. gateway.clock \in Nat /\ gateway.changed \in Nat /\ gateway.expiry \in Nat
  BY <1>2 DEF GatewayRecords
<1> QED BY <1>1, <1>2, <1>3, <1>4, <1>5

\* The least and the greatest of three powers.
LEMMA MinOfThree ==
    ASSUME NEW a \in Int, NEW b \in Int, NEW c \in Int
    PROVE  /\ Min({a, b, c}) \in {a, b, c}
           /\ Min({a, b, c}) <= a /\ Min({a, b, c}) <= b /\ Min({a, b, c}) <= c
<1>1. \E x \in {a, b, c} : \A y \in {a, b, c} : x <= y
  <2>1. CASE a <= b /\ a <= c  BY <2>1
  <2>2. CASE b <= a /\ b <= c  BY <2>2
  <2>3. CASE c <= a /\ c <= b  BY <2>3
  <2> QED BY <2>1, <2>2, <2>3
<1> QED BY <1>1 DEF Min

\* The greatest of three numbers is one of them and bounds them.
LEMMA MaxOfThree ==
    ASSUME NEW a \in Int, NEW b \in Int, NEW c \in Int
    PROVE  /\ Max({a, b, c}) \in {a, b, c}
           /\ a <= Max({a, b, c}) /\ b <= Max({a, b, c}) /\ c <= Max({a, b, c})
<1>1. \E x \in {a, b, c} : \A y \in {a, b, c} : x >= y
  <2>1. CASE b <= a /\ c <= a  BY <2>1
  <2>2. CASE a <= b /\ c <= b  BY <2>2
  <2>3. CASE a <= c /\ b <= c  BY <2>3
  <2> QED BY <2>1, <2>2, <2>3
<1> QED BY <1>1 DEF Max

\* The ends of B reach at least as far as the state in force, the proposed
\* limits and fallback.
LEMMA IntervalB ==
    ASSUME NEW s,
           s.mode \in Modes, s.inForceLow \in Int, s.inForceHigh \in Int,
           s.low \in Int, s.high \in Int
    PROVE  /\ LowB(s) \in Int /\ HighB(s) \in Int
           /\ LowB(s) <= InForceLow(s) /\ InForceHigh(s) <= HighB(s)
           /\ LowB(s) <= s.low - Tolerance /\ s.high + Tolerance <= HighB(s)
           /\ LowB(s) <= FallbackLow /\ FallbackHigh <= HighB(s)
<1>1. /\ InForceLow(s) \in Int /\ InForceHigh(s) \in Int
      /\ s.low - Tolerance \in Int /\ s.high + Tolerance \in Int
      /\ FallbackLow \in Int /\ FallbackHigh \in Int
  BY ProfileAssumption DEF InForceLow, InForceHigh
<1>2. /\ LowB(s) = Min({InForceLow(s), s.low - Tolerance, FallbackLow})
      /\ HighB(s) = Max({InForceHigh(s), s.high + Tolerance, FallbackHigh})
  BY DEF LowB, HighB
<1>3. LowB(s) \in {InForceLow(s), s.low - Tolerance, FallbackLow}
  BY <1>1, <1>2, MinOfThree
<1>4. HighB(s) \in {InForceHigh(s), s.high + Tolerance, FallbackHigh}
  BY <1>1, <1>2, MaxOfThree
<1>5. /\ LowB(s) <= InForceLow(s) /\ LowB(s) <= s.low - Tolerance
      /\ LowB(s) <= FallbackLow
  BY <1>1, MinOfThree, Zenon DEF LowB
<1>6. /\ InForceHigh(s) <= HighB(s) /\ s.high + Tolerance <= HighB(s)
      /\ FallbackHigh <= HighB(s)
  BY <1>1, MaxOfThree, Zenon DEF HighB
<1> QED BY <1>1, <1>3, <1>4, <1>5, <1>6

\* What the sender puts in a record.  Its clock is the time, one below the
\* largest the gateway has seen, or one out of range.
LEMMA RecordParts ==
    ASSUME NEW i \in Records
    PROVE  \E r, p, c :
              /\ i = Record(r, p, c)
              /\ r = Reading \/ ("old readings" \in regime.faults /\ r = reading)
              /\ p \in Proposals \cup {NoProposalWords}
              /\ c = now \/ ("wrong clocks" \in regime.faults /\ c \in WrongClocks)
<1>1. PICK r \in Readings, p \in Proposals \cup {NoProposalWords}, c \in Clocks :
         i = Record(r, p, c)
  BY DEF Records
<1>2. r = Reading \/ ("old readings" \in regime.faults /\ r = reading)
  BY Zenon DEF Readings
<1>3. c = now \/ ("wrong clocks" \in regime.faults /\ c \in WrongClocks)
  BY Zenon DEF Clocks
<1> QED BY <1>1, <1>2, <1>3, Zenon

\* What a record from the UART holds.
LEMMA RecordWords ==
    ASSUME NEW i \in Records
    PROVE  /\ i.clock \in {now, TimeBound, gateway.clock - 1}
           /\ i.loadLow \in Nat /\ i.loadHigh \in Nat
           /\ i.pvLow \in Nat /\ i.pvHigh \in Nat
           /\ i.low \in Int /\ i.high \in Int
<1>1. PICK r, p, c : /\ i = Record(r, p, c)
                     /\ p \in Proposals \cup {NoProposalWords}
                     /\ c = now \/ c \in WrongClocks
  BY RecordParts, Zenon
<1>2. p \in [loadLow : Nat, loadHigh : Nat, pvLow : Nat, pvHigh : Nat, low : Int, high : Int]
  <2>1. NoProposalWords \in
          [loadLow : Nat, loadHigh : Nat, pvLow : Nat, pvHigh : Nat, low : Int, high : Int]
    BY DEF NoProposalWords
  <2> QED BY <1>1, <2>1, SiteAssumption
<1>3. c \in {now, TimeBound, gateway.clock - 1}
  BY <1>1 DEF WrongClocks
<1>4. /\ i.clock = c /\ i.low = p.low /\ i.high = p.high
      /\ i.loadLow = p.loadLow /\ i.loadHigh = p.loadHigh
      /\ i.pvLow = p.pvLow /\ i.pvHigh = p.pvHigh
  BY <1>1 DEF Record
<1> QED BY <1>2, <1>3, <1>4

\* Without wrong clocks a record holds the time, and without old readings what
\* the inverter applies.
LEMMA RecordFaults ==
    ASSUME NEW i \in Records
    PROVE  /\ "wrong clocks" \notin regime.faults => i.clock = now
           /\ "old readings" \notin regime.faults =>
                 /\ i.readMode = applied.mode
                 /\ i.readLow = applied.low /\ i.readHigh = applied.high
<1>1. PICK r, p, c :
         /\ i = Record(r, p, c)
         /\ r = Reading \/ ("old readings" \in regime.faults /\ r = reading)
         /\ p \in Proposals \cup {NoProposalWords}
         /\ c = now \/ ("wrong clocks" \in regime.faults /\ c \in WrongClocks)
  BY RecordParts
<1>2. /\ i.clock = c /\ i.readMode = r.readMode
      /\ i.readLow = r.readLow /\ i.readHigh = r.readHigh
  BY <1>1 DEF Record
<1>3. /\ Reading.readMode = applied.mode
      /\ Reading.readLow = applied.low /\ Reading.readHigh = applied.high
  BY DEF Reading
<1> QED BY <1>1, <1>2, <1>3, Zenon

\* The state in which a tick decides: the recorded state, or fallback from the
\* expiry of the recorded command on.
LEMMA TickStartShape ==
    ASSUME SiteInv, NEW i \in Records
    PROVE  LET g == TickStart(i)
               c == TickClock(i)
           IN /\ c \in Nat /\ gateway.clock <= c /\ c <= now
              /\ ~Faulty(i) => c = now
              /\ g \in GatewayRecords
              /\ g.clock = c /\ g.changed <= c /\ gateway.changed <= g.changed
              /\ g.mode = "fallback" => g.low = 0 /\ g.high = 0
              /\ \/ /\ g.mode = gateway.mode /\ State(g) = State(gateway)
                    /\ g.changed = gateway.changed /\ g.expiry = gateway.expiry
                    /\ g.mode = "command" => c < g.expiry
                 \/ /\ gateway.mode = "command" /\ g.mode = "fallback"
                    /\ g.changed = gateway.expiry
<1> DEFINE g == TickStart(i)
           c == TickClock(i)
           h == [gateway EXCEPT !.seq = @ + 1, !.clock = c, !.started = TRUE]
<1>1. /\ gateway \in GatewayRecords
      /\ gateway.mode = "command" => gateway.expiry = gateway.changed + Window - Tau
      /\ gateway.mode = "fallback" => gateway.low = 0 /\ gateway.high = 0
  BY DEF SiteInv, Typed, Dated
<1>2. c \in Nat /\ gateway.clock <= c /\ c <= now
  BY Numbers, RecordWords DEF TickClock
<1>3. ~Faulty(i) => c = now
  BY Numbers, RecordWords DEF TickClock, Faulty
<1> HIDE DEF c
<1>4. /\ h \in GatewayRecords /\ h.clock = c /\ h.mode = gateway.mode
      /\ h.low = gateway.low /\ h.high = gateway.high
      /\ h.changed = gateway.changed /\ h.expiry = gateway.expiry
  <2>1. gateway.seq + 1 \in Nat
    BY <1>1 DEF GatewayRecords
  <2> QED BY <1>1, <1>2, <2>1, Zenon DEF GatewayRecords
<1>5. g = Expire(h, c)
  BY DEF TickStart, c
<1> HIDE DEF h, g
<1>6. CASE h.mode = "command" /\ h.expiry <= c
  <2>1. g = [FallbackAt(h, h.expiry) EXCEPT !.window = h.window]
    BY <1>5, <1>6 DEF Expire
  <2>2. /\ g \in GatewayRecords /\ g.clock = c /\ g.mode = "fallback"
        /\ g.low = 0 /\ g.high = 0 /\ g.changed = gateway.expiry
    <3>1. h.expiry \in Nat  BY <1>4, Numbers
    <3>2. 0 \in Nat /\ 0 \in Int /\ "fallback" \in Modes
      BY DEF Modes
    <3>3. g \in GatewayRecords
      BY <1>4, <2>1, <3>1, <3>2, Zenon DEF GatewayRecords, FallbackAt
    <3>4. /\ g.clock = h.clock /\ g.mode = "fallback"
          /\ g.low = 0 /\ g.high = 0 /\ g.changed = h.expiry
      BY <1>4, <2>1, Zenon DEF GatewayRecords, FallbackAt
    <3> QED BY <1>4, <3>3, <3>4
  <2>3. gateway.changed <= gateway.expiry
    BY <1>1, <1>4, <1>6, Numbers
  <2> QED BY <1>2, <1>3, <1>4, <1>6, <2>2, <2>3 DEF c, g
<1>7. CASE ~(h.mode = "command" /\ h.expiry <= c)
  <2>1. g = h
    BY <1>5, <1>7 DEF Expire
  <2>2. g.mode = "command" => c < g.expiry
    BY <1>2, <1>4, <1>7, <2>1, Numbers
  <2>3. State(g) = State(gateway)
    BY <1>4, <2>1 DEF State
  <2>4. g.changed <= c
    BY <1>2, <1>4, <2>1, Numbers
  <2> QED BY <1>1, <1>2, <1>3, <1>4, <2>1, <2>2, <2>3, <2>4, Numbers DEF c, g
<1> QED BY <1>6, <1>7

\* What a tick leaves recorded and what it answers: nothing, a request to return
\* to fallback, or the command it recorded at the time of the tick.
LEMMA TickResult ==
    ASSUME SiteInv, NEW i \in Records, Tick(i)
    PROVE  /\ gateway' \in GatewayRecords
           /\ gateway'.clock = TickClock(i) /\ gateway'.changed <= gateway'.clock
           /\ gateway.changed <= gateway'.changed
           /\ gateway'.mode = "command" =>
                 gateway'.expiry = gateway'.changed + Window - Tau
           /\ gateway'.mode = "fallback" => gateway'.low = 0 /\ gateway'.high = 0
           /\ \/ /\ output' = Nothing
                 /\ gateway'.mode = TickStart(i).mode
                 /\ State(gateway') = State(TickStart(i))
                 /\ gateway'.changed = TickStart(i).changed
                 /\ gateway'.expiry = TickStart(i).expiry
              \/ /\ output' = [kind |-> "fallback"] /\ gateway'.mode = "fallback"
                 /\ gateway'.changed = TickClock(i)
              \/ /\ output' \in Commands /\ gateway'.mode = "command"
                 /\ State(gateway') = Requested(output')
                 /\ gateway'.low = i.low /\ gateway'.high = i.high
                 /\ gateway'.changed = now /\ TickClock(i) = now
                 /\ TakesSnapshot(i) /\ Accepts(SnapOf(TickStart(i), i, now))
<1> DEFINE g == TickStart(i)
           c == TickClock(i)
           s == SnapOf(g, i, c)
<1>1. /\ c \in Nat /\ gateway.clock <= c /\ c <= now
      /\ ~Faulty(i) => c = now
      /\ g \in GatewayRecords
      /\ g.clock = c /\ g.changed <= c /\ gateway.changed <= g.changed
      /\ g.mode = "fallback" => g.low = 0 /\ g.high = 0
      /\ g.mode = "command" => g.expiry = g.changed + Window - Tau
  BY TickStartShape DEF SiteInv, Dated
<1>2. now \in Nat /\ gateway \in GatewayRecords
  BY DEF SiteInv, Typed
<1> HIDE DEF g, c
<1>3. CASE RequestFallback(i)
  <2>1. gateway' = FallbackAt(g, c) /\ output' = [kind |-> "fallback"]
    BY <1>3 DEF RequestFallback, g, c
  <2>2. /\ gateway' \in GatewayRecords /\ gateway'.clock = c /\ gateway'.changed = c
        /\ gateway'.mode = "fallback" /\ gateway'.low = 0 /\ gateway'.high = 0
    <3>1. 0 \in Nat /\ 0 \in Int /\ "fallback" \in Modes
      BY DEF Modes
    <3> QED BY <1>1, <2>1, <3>1, Zenon DEF FallbackAt, GatewayRecords
  <2> QED BY <1>1, <1>2, <2>1, <2>2 DEF g, c, GatewayRecords
<1>4. CASE Command(i)
  <2>1. /\ TakesSnapshot(i) /\ Accepts(s)
        /\ gateway' = [g EXCEPT
              !.mode = "command", !.low = s.low, !.high = s.high,
              !.expiry = Expiry(c), !.changed = c,
              !.window = TRUE, !.windowEnd = c + Window,
              !.bLow = LowB(s), !.bHigh = HighB(s),
              !.loadLow = i.loadLow, !.loadHigh = i.loadHigh,
              !.pvLow = i.pvLow, !.pvHigh = i.pvHigh, !.status = "accepted"]
        /\ output' = [kind |-> "command", low |-> s.low, high |-> s.high,
                      revert |-> Expiry(c) - c]
    BY <1>4, Zenon DEF Command, g, c
  <2>2. c = now
    BY <1>1, <2>1 DEF TakesSnapshot, MustFallBack
  <2>3. /\ s.mode \in Modes /\ s.inForceLow \in Int /\ s.inForceHigh \in Int
        /\ s.low \in Int /\ s.high \in Int /\ s.low = i.low /\ s.high = i.high
    BY <1>1, RecordWords DEF SnapOf, GatewayRecords
  <2>4. LowB(s) \in Int /\ HighB(s) \in Int
    BY <2>3, IntervalB
  <2>5. Expiry(c) \in Nat /\ c + Window \in Nat /\ Expiry(c) - c = Window - Tau
    BY <1>1, ProfileAssumption DEF Expiry
  <2> HIDE DEF s
  <2>6. gateway' \in GatewayRecords
    <3>1. "command" \in Modes
      BY DEF Modes
    <3> DEFINE h == [g EXCEPT !.mode = "command", !.low = s.low, !.high = s.high,
                              !.expiry = Expiry(c), !.changed = c,
                              !.window = TRUE, !.windowEnd = c + Window]
    <3>2. h \in GatewayRecords
      BY <1>1, <2>3, <2>5, <3>1, Zenon DEF GatewayRecords
    <3> HIDE DEF h
    <3>3. [h EXCEPT !.bLow = LowB(s), !.bHigh = HighB(s),
                    !.loadLow = i.loadLow, !.loadHigh = i.loadHigh,
                    !.pvLow = i.pvLow, !.pvHigh = i.pvHigh,
                    !.status = "accepted"] \in GatewayRecords
      BY <2>4, <3>2, RecordWords, Zenon DEF GatewayRecords
    <3> QED BY <2>1, <3>3, Zenon DEF h
  <2>7. /\ gateway'.clock = c /\ gateway'.changed = c /\ gateway'.mode = "command"
        /\ gateway'.expiry = Expiry(c) /\ gateway'.low = s.low /\ gateway'.high = s.high
    BY <1>1, <2>1 DEF GatewayRecords
  <2>8. output' \in Commands /\ State(gateway') = Requested(output')
    BY <2>1, <2>3, <2>5, <2>7 DEF Commands, State, Requested
  <2>9. gateway.changed <= c
    BY <1>1, <1>2 DEF GatewayRecords
  <2> QED BY <1>1, <2>1, <2>2, <2>3, <2>5, <2>6, <2>7, <2>8, <2>9 DEF g, c, s, Expiry
<1>5. CASE Reject(i) \/ NoProposal(i)
  <2>1. /\ gateway' = [g EXCEPT !.status = "rejected"] \/ gateway' = g
        /\ output' = Nothing
    BY <1>5 DEF Reject, NoProposal, g
  <2>2. /\ gateway' \in GatewayRecords /\ gateway'.clock = g.clock
        /\ gateway'.changed = g.changed /\ gateway'.mode = g.mode
        /\ gateway'.expiry = g.expiry /\ gateway'.low = g.low /\ gateway'.high = g.high
    BY <1>1, <2>1 DEF GatewayRecords
  <2> QED BY <1>1, <1>2, <2>1, <2>2 DEF g, c, State, GatewayRecords
<1> QED BY <1>3, <1>4, <1>5 DEF Tick

\* A record that becomes a snapshot finds no command under way: the last change
\* of the recorded state is old enough for each to have been applied or lost.
LEMMA NoCommandUnderWay ==
    ASSUME SiteInv, NEW i \in Records,
           TakesSnapshot(i), NEW k \in 1..Len(channel)
    PROVE  channel[k].message.kind # "command"
<1>1. TickStart(i).changed + Tau <= now
  BY TickStartShape DEF TakesSnapshot, MustFallBack, Settled
<1>2. TickStart(i) \in GatewayRecords /\ gateway.changed <= TickStart(i).changed
  BY TickStartShape
<1>3. channel[k] \in Messages /\ gateway \in GatewayRecords /\ now \in Nat
  BY DEF SiteInv, Typed
<1>4. now < channel[k].at + Tau /\ (channel[k].message.kind = "command" =>
                                       channel[k].at <= gateway.changed)
  BY DEF SiteInv, UnderWay
<1>5. /\ channel[k].at \in Nat /\ TickStart(i).changed \in Nat /\ gateway.changed \in Nat
  BY <1>2, <1>3 DEF GatewayRecords, Messages
<1>6. ~(channel[k].at <= gateway.changed)
  <2> now \in Nat /\ Tau \in Nat
    BY Numbers
  <2> QED BY <1>1, <1>2, <1>4, <1>5
<1> QED BY <1>4, <1>6, Zenon

-----------------------------------------------------------------------------
(* The inductive invariant. *)

\* The site begins with the invariant.
LEMMA Initially == ASSUME Init PROVE SiteInv
<1>1. gateway \in GatewayRecords
  BY DEF Init, GatewayInit, GatewayRecords, Modes
<1>2. applied \in AppliedStates
  BY DEF Init, Reverted, AppliedStates, Modes
<1>3. channel \in Seq(Messages) /\ regime \in Regimes /\ now = 0 /\ sequence = 0
      /\ sent = FALSE /\ kept = FALSE /\ Len(channel) = 0
  BY DEF Init
<1>4. 0 <= regime.seconds
  BY <1>3, SiteAssumption
<1>5. Typed
  BY <1>1, <1>2, <1>3, <1>4 DEF Typed
<1>6. Dated
  BY <1>3 DEF Init, GatewayInit, Dated
<1>7. UnderWay
  BY <1>3 DEF UnderWay
<1>8. Reverting
  BY DEF Init, Reverted, Reverting
<1> QED BY <1>5, <1>6, <1>7, <1>8 DEF SiteInv

\* The messages that stay in the channel when its head leaves it.
LEMMA TailUnderWay ==
    ASSUME SiteInv, channel # <<>>
    PROVE  /\ Tail(channel) \in Seq(Messages)
           /\ Len(Tail(channel)) = Len(channel) - 1 /\ Len(channel) \in Nat \ {0}
           /\ \A k \in 1..Len(Tail(channel)) :
                 k + 1 \in 1..Len(channel) /\ Tail(channel)[k] = channel[k + 1]
           /\ Head(channel) = channel[1] /\ channel[1] \in Messages
           /\ IF Tail(channel) = <<>> THEN Len(channel) = 1
              ELSE /\ Len(Tail(channel)) \in 1..Len(Tail(channel))
                   /\ Tail(channel)[Len(Tail(channel))] = channel[Len(channel)]
<1>1. channel \in Seq(Messages)
  BY DEF SiteInv, Typed
<1>2. /\ Tail(channel) \in Seq(Messages)
      /\ Len(Tail(channel)) = Len(channel) - 1 /\ Len(channel) \in Nat \ {0}
      /\ \A k \in 1..Len(Tail(channel)) :
            k + 1 \in 1..Len(channel) /\ Tail(channel)[k] = channel[k + 1]
      /\ Head(channel) = channel[1] /\ channel[1] \in Messages
  BY <1>1
<1>3. CASE Tail(channel) = <<>>
  BY <1>2, <1>3
<1>4. CASE Tail(channel) # <<>>
  <2>1. Len(Tail(channel)) # 0
    BY <1>2, <1>4
  <2> QED BY <1>2, <1>4, <2>1
<1> QED BY <1>2, <1>3, <1>4

\* The channel after a tick: as it was, or longer by its answer.
LEMMA ChannelAfterTick ==
    ASSUME SiteInv, NEW i \in Records, ReadRecord(i)
    PROVE  \/ output' = Nothing /\ channel' = channel
           \/ LET m == [message |-> output', at |-> now]
              IN /\ output' # Nothing /\ m \in Messages
                 /\ channel' \in Seq(Messages) /\ Len(channel') = Len(channel) + 1
                 /\ Len(channel) \in Nat
                 /\ channel'[Len(channel')] = m
                 /\ \A k \in 1..Len(channel') : \/ channel'[k] = m /\ k = Len(channel')
                                                \/ k \in 1..Len(channel) /\ channel'[k] = channel[k]
<1> DEFINE m == [message |-> output', at |-> now]
<1>1. CASE output' = Nothing
  BY <1>1 DEF ReadRecord
<1>2. CASE output' # Nothing
  <2>1. output' \in Commands \cup {[kind |-> "fallback"]}
    BY <1>2, TickResult DEF ReadRecord
  <2>2. m \in Messages /\ channel \in Seq(Messages)
    BY <2>1 DEF Messages, SiteInv, Typed
  <2>3. channel' = Append(channel, m)
    BY <1>2 DEF ReadRecord
  <2> QED BY <1>2, <2>2, <2>3
<1> QED BY <1>1, <1>2

\* A tick of the gateway keeps the invariant.
LEMMA ReadPreserves ==
    ASSUME SiteInv, NEW i \in Records, ReadRecord(i)
    PROVE  SiteInv'
<1> DEFINE m == [message |-> output', at |-> now]
<1>1. /\ sent' = TRUE /\ sequence' = sequence + 1 /\ Tick(i)
      /\ UNCHANGED <<regime, now, applied>>
  BY DEF ReadRecord
<1>2. kept' \in BOOLEAN
  BY DEF ReadRecord, SiteInv, Typed
<1>3. Typed'
  BY <1>1, <1>2, TickResult, ChannelAfterTick DEF SiteInv, Typed
<1>4. TickClock(i) <= now
  BY TickStartShape
<1>5. Dated'
  BY <1>1, <1>4, TickResult DEF Dated
<1>6. UnderWay'
  <2> SUFFICES ASSUME NEW k \in 1..Len(channel')
               PROVE  /\ channel'[k].at <= now /\ now < channel'[k].at + Tau
                      /\ channel'[k].message.kind = "command" =>
                            channel'[k].at <= gateway'.changed
    BY <1>1 DEF UnderWay
  <2>1. CASE k \in 1..Len(channel) /\ channel'[k] = channel[k]
    <3>1. /\ channel[k].at <= now /\ now < channel[k].at + Tau
          /\ channel[k].message.kind = "command" => channel[k].at <= gateway.changed
      BY <2>1 DEF SiteInv, UnderWay
    <3>2. gateway.changed <= gateway'.changed
      BY <1>1, TickResult
    <3>3. channel[k].at \in Nat /\ gateway.changed \in Nat
      <4>1. channel[k] \in Messages
        BY <2>1 DEF SiteInv, Typed
      <4> QED BY <4>1, Numbers DEF Messages
    <3>4. gateway'.changed \in Nat
      BY <1>1, TickResult DEF GatewayRecords
    <3>5. channel[k].message.kind = "command" => channel[k].at <= gateway'.changed
      <4>1. channel[k].at <= gateway.changed => channel[k].at <= gateway'.changed
        BY <3>2, <3>3, <3>4
      <4> QED BY <3>1, <4>1, Zenon
    <3> QED BY <2>1, <3>1, <3>5, Zenon
  <2>2. CASE channel'[k] = m /\ output' # Nothing
    <3>1. output'.kind = "command" => gateway'.changed = now
      BY <1>1, <2>2, TickResult
    <3>2. now \in Nat /\ Tau \in Nat /\ 0 < Tau
      BY ProfileAssumption DEF SiteInv, Typed
    <3> QED BY <2>2, <3>1, <3>2
  <2> QED BY <2>1, <2>2, ChannelAfterTick
<1>7. Reverting'
  BY <1>1 DEF SiteInv, Reverting
<1> QED BY <1>3, <1>5, <1>6, <1>7 DEF SiteInv

\* The inverter's taking of a message keeps the invariant.
LEMMA ApplyPreserves ==
    ASSUME SiteInv, Apply PROVE SiteInv'
<1> DEFINE h == Head(channel)
<1>1. /\ channel # <<>> /\ channel' = Tail(channel)
      /\ UNCHANGED <<gateway, regime, now, sequence, sent, kept>>
      /\ applied' = IF h.message.kind = "fallback" THEN Reverted
                    ELSE [mode |-> "command", low |-> h.message.low, high |-> h.message.high,
                          until |-> now + h.message.revert, at |-> h.at]
  BY DEF Apply
<1>2. h \in Messages /\ h.at <= now /\ now < h.at + Tau
  BY <1>1, TailUnderWay DEF SiteInv, UnderWay
<1>3. now \in Nat /\ Window - Tau \in Nat /\ Tau < Window - Tau /\ Tau \in Nat /\ Window \in Nat
  BY Numbers
<1>4. applied' \in AppliedStates /\ Reverting'
  <2>1. CASE h.message.kind = "fallback"
    BY <1>1, <2>1 DEF Reverted, AppliedStates, Modes, Reverting
  <2>2. CASE h.message \in Commands
    <3>1. h.message.kind = "command" /\ h.message.revert = Window - Tau
          /\ h.message.low \in Int /\ h.message.high \in Int /\ h.at \in Nat
      BY <1>2, <2>2 DEF Commands, Messages
    <3>2. applied' = [mode |-> "command", low |-> h.message.low, high |-> h.message.high,
                      until |-> now + (Window - Tau), at |-> h.at]
      BY <1>1, <3>1
    <3> HIDE DEF h
    <3>3. applied' \in AppliedStates
      BY <1>3, <3>1, <3>2 DEF AppliedStates, Modes
    <3>4. now + (Window - Tau) <= h.at + Window /\ now < now + (Window - Tau)
      BY <1>2, <1>3, <3>1
    <3> QED BY <1>1, <3>2, <3>3, <3>4 DEF Reverting
  <2> QED BY <1>2, <2>1, <2>2 DEF Messages
<1>5. Typed'
  BY <1>1, <1>4, TailUnderWay DEF SiteInv, Typed
<1>6. UnderWay'
  BY <1>1, TailUnderWay DEF SiteInv, UnderWay
<1> QED BY <1>1, <1>4, <1>5, <1>6 DEF SiteInv, Dated

\* The loss of a message keeps the invariant.
LEMMA LosePreserves ==
    ASSUME SiteInv, Lose PROVE SiteInv'
<1>1. /\ channel # <<>> /\ channel' = Tail(channel)
      /\ UNCHANGED <<gateway, regime, now, sequence, sent, applied, kept>>
  BY DEF Lose
<1>2. Typed'
  BY <1>1, TailUnderWay DEF SiteInv, Typed
<1>3. UnderWay'
  BY <1>1, TailUnderWay DEF SiteInv, UnderWay
<1> QED BY <1>1, <1>2, <1>3 DEF SiteInv, Dated, Reverting

\* The passing of a second keeps the invariant.
LEMMA SecondPreserves ==
    ASSUME SiteInv, Second PROVE SiteInv'
<1>1. /\ now < regime.seconds /\ now' = now + 1 /\ sent' = FALSE
      /\ \A k \in 1..Len(channel) : now + 1 < channel[k].at + Tau
      /\ applied' = IF applied.mode = "command" /\ applied.until <= now + 1
                    THEN Reverted ELSE applied
      /\ UNCHANGED <<gateway, regime, sequence, channel>>
  BY DEF Second
<1>2. kept' \in BOOLEAN
  BY DEF Second, SiteInv, Typed
<1>3. now \in Nat /\ regime.seconds \in Nat /\ applied \in AppliedStates
  BY SiteAssumption DEF SiteInv, Typed
<1>4. applied' \in AppliedStates /\ Reverting'
  BY <1>1, <1>3 DEF SiteInv, Reverting, Reverted, AppliedStates, Modes
<1>5. Typed'
  <2>1. now' \in Nat /\ now' <= regime.seconds
    BY <1>1, <1>3
  <2> QED BY <1>1, <1>2, <1>4, <2>1, Zenon DEF SiteInv, Typed
<1>6. Dated'
  BY <1>1, <1>3 DEF SiteInv, Typed, Dated, GatewayRecords
<1>7. UnderWay'
  <2> SUFFICES ASSUME NEW k \in 1..Len(channel)
               PROVE  /\ channel[k].at <= now + 1 /\ now + 1 < channel[k].at + Tau
                      /\ channel[k].message.kind = "command" => channel[k].at <= gateway.changed
    BY <1>1 DEF UnderWay
  <2>1. channel[k] \in Messages
    BY DEF SiteInv, Typed
  <2> QED BY <1>1, <1>3, <2>1 DEF SiteInv, UnderWay, Messages
<1> QED BY <1>4, <1>5, <1>6, <1>7 DEF SiteInv

\* Every step of the site keeps the invariant.
LEMMA StepPreserves ==
    ASSUME SiteInv, [Next]_vars PROVE SiteInv'
<1>1. CASE Measure \/ LoseRecord \/ UNCHANGED vars
  <2>1. /\ UNCHANGED <<gateway, channel, applied, regime, now, kept>>
        /\ sequence' \in {sequence, sequence + 1} /\ sent' \in {sent, TRUE}
    BY <1>1 DEF Measure, LoseRecord, vars
  <2>2. sequence' \in Nat /\ sent' \in BOOLEAN
    <3>1. sequence \in Nat /\ sent \in BOOLEAN
      BY Zenon DEF SiteInv, Typed
    <3>2. sequence' \in Nat
      BY <2>1, <3>1
    <3>3. sent' \in BOOLEAN
      BY <2>1, <3>1, Zenon
    <3> QED BY <3>2, <3>3
  <2>3. Typed'
    BY <2>1, <2>2, Zenon DEF SiteInv, Typed
  <2> QED BY <2>1, <2>3, Zenon DEF SiteInv, Dated, UnderWay, Reverting
<1>2. CASE \E i \in Records : ReadRecord(i)
  BY <1>2, ReadPreserves
<1>3. CASE Apply  BY <1>3, ApplyPreserves
<1>4. CASE Lose  BY <1>4, LosePreserves
<1>5. CASE Second  BY <1>5, SecondPreserves
<1> QED BY <1>1, <1>2, <1>3, <1>4, <1>5 DEF Next

\* The inductive invariant of the site holds.
THEOREM Invariance == Spec => []SiteInv
<1>1. Init => SiteInv
  BY Initially
<1>2. SiteInv /\ [Next]_vars => SiteInv'
  BY StepPreserves
<1> QED BY <1>1, <1>2, PTL DEF Spec

\* The recorded state, the state the inverter applies and the messages between
\* them keep their shapes, and no clock of the gateway's runs ahead.
THEOREM TypeCorrect == Spec => []TypeOK
<1>1. SiteInv => TypeOK
  <2> SUFFICES ASSUME SiteInv PROVE TypeOK
    OBVIOUS
  <2>1. regime.seconds \in Nat
    BY SiteAssumption DEF SiteInv, Typed
  <2>2. ASSUME NEW k \in 1..Len(channel)
        PROVE  channel[k].message.kind \in {"command", "fallback"} /\ channel[k].at \in 0..now
    <3>1. channel[k] \in Messages /\ channel[k].at <= now /\ now \in Nat
      BY DEF SiteInv, Typed, UnderWay
    <3> QED BY <3>1 DEF Messages, Commands
  <2>3. gateway \in GatewayRecords /\ applied \in AppliedStates
    BY DEF SiteInv, Typed
  <2>4. /\ gateway.mode \in Modes
        /\ gateway.status \in {"accepted", "rejected"}
        /\ gateway.window \in BOOLEAN /\ gateway.started \in BOOLEAN
        /\ gateway.seq \in Nat /\ gateway.clock \in Nat /\ gateway.changed \in Nat
    BY <2>3, Zenon DEF GatewayRecords
  <2>5. applied.mode \in Modes
    BY <2>3, Zenon DEF AppliedStates
  <2>6. /\ sequence \in Nat /\ sent \in BOOLEAN /\ kept \in BOOLEAN
        /\ now \in Nat /\ now <= regime.seconds
        /\ gateway.changed <= gateway.clock /\ gateway.clock <= now
    BY DEF SiteInv, Typed, Dated
  <2>7. /\ gateway.clock \in 0..regime.seconds /\ gateway.changed \in 0..gateway.clock
        /\ now \in 0..regime.seconds
    BY <2>1, <2>4, <2>6
  <2> QED BY <2>2, <2>4, <2>5, <2>6, <2>7, Zenon DEF TypeOK
<1> QED BY <1>1, Invariance, PTL

\* An accepted command ends before its window does, whatever is lost, late or
\* wrongly dated and even when no record reaches the gateway any more: the
\* revert timeout and the expiry of Fields.lean leave room for every delivery.
THEOREM CommandsEnd == Spec => []CommandEndsInWindow
<1>1. SiteInv => CommandEndsInWindow
  <2> SUFFICES ASSUME SiteInv, applied.mode = "command" PROVE now < applied.at + Window
    BY DEF CommandEndsInWindow
  <2>1. applied.until <= applied.at + Window /\ now < applied.until
    BY DEF SiteInv, Reverting
  <2>2. applied.until \in Nat /\ applied.at \in Nat /\ now \in Nat /\ Window \in Nat
    BY Numbers DEF SiteInv, Typed, AppliedStates
  <2> QED BY <2>1, <2>2
<1> QED BY <1>1, Invariance, PTL

-----------------------------------------------------------------------------
(* The states the inverter applies. *)

Fresh == "old readings" \notin regime.faults
RightClocks == "wrong clocks" \notin regime.faults
Delivered == "lost messages" \notin regime.faults

\* When the last message under way requests fallback, fallback is recorded; and
\* with the right clocks no message was sent after the last recorded change.
Requests ==
    /\ channel # <<>> /\ channel[Len(channel)].message.kind = "fallback" =>
          gateway.mode = "fallback"
    /\ RightClocks =>
          \A k \in 1..Len(channel) : channel[k].at <= gateway.changed

\* Where the last message under way, or else the applied state, is a command, it
\* is the recorded one, or the record expired and the command ends less than Tau
\* after its expiry.
Following ==
    /\ channel # <<>> =>
          LET m == channel[Len(channel)]
          IN m.message.kind = "command" =>
                \/ /\ gateway.mode = "command" /\ State(gateway) = Requested(m.message)
                   /\ m.at + Window - Tau <= gateway.expiry
                \/ /\ gateway.mode = "fallback"
                   /\ m.at + Window - Tau <= gateway.changed
    /\ channel = <<>> /\ applied.mode = "command" =>
          \/ /\ gateway.mode = "command" /\ State(gateway) = State(applied)
             /\ applied.until < gateway.expiry + Tau
          \/ /\ gateway.mode = "fallback"
             /\ applied.until < gateway.changed + Tau

\* From a snapshot on, the applied state and each command under way are states
\* it reckoned with.
Reckoned ==
    snapshot.taken =>
        /\ State(applied) \in {snapshot.before, snapshot.command, Fallback}
        /\ \A k \in 1..Len(channel) :
              channel[k].message.kind = "command" =>
                  Requested(channel[k].message) = snapshot.command

StatesInv ==
    /\ Requests
    /\ RightClocks /\ Delivered => Following
    /\ Fresh \/ (RightClocks /\ Delivered) => Reckoned

\* Every state in which the inverter may end up from a message.
LEMMA Applied ==
    ASSUME SiteInv, Apply
    PROVE  /\ channel # <<>> /\ channel' = Tail(channel)
           /\ UNCHANGED <<gateway, regime, now, snapshot>>
           /\ channel[1] \in Messages /\ now < channel[1].at + Tau
           /\ State(applied') = Requested(channel[1].message)
           /\ channel[1].message.kind = "fallback" => applied'.mode = "fallback"
           /\ channel[1].message.kind = "command" => applied'.until = now + (Window - Tau)
<1>1. /\ channel # <<>> /\ channel' = Tail(channel)
      /\ UNCHANGED <<gateway, regime, now, snapshot>>
      /\ applied' = IF Head(channel).message.kind = "fallback" THEN Reverted
                    ELSE [mode |-> "command", low |-> Head(channel).message.low,
                          high |-> Head(channel).message.high,
                          until |-> now + Head(channel).message.revert,
                          at |-> Head(channel).at]
  BY DEF Apply
<1>2. /\ Head(channel) = channel[1] /\ channel[1] \in Messages /\ 1 \in 1..Len(channel)
  BY <1>1, TailUnderWay
<1>3. now < channel[1].at + Tau
  BY <1>2 DEF SiteInv, UnderWay
<1>4. CASE channel[1].message.kind = "fallback"
  <2>1. applied' = Reverted
    BY <1>1, <1>2, <1>4
  <2>2. State(applied') = Fallback /\ applied'.mode = "fallback"
    BY <2>1 DEF State, Reverted, Fallback
  <2> QED BY <1>1, <1>2, <1>3, <1>4, <2>2 DEF Requested
<1>5. CASE channel[1].message.kind # "fallback"
  <2>1. channel[1].message.revert = Window - Tau /\ channel[1].message.kind = "command"
    BY <1>2, <1>5 DEF Messages, Commands
  <2>2. applied' = [mode |-> "command", low |-> channel[1].message.low,
                    high |-> channel[1].message.high,
                    until |-> now + (Window - Tau), at |-> channel[1].at]
    BY <1>1, <1>2, <1>5, <2>1
  <2>3. State(applied') = Requested(channel[1].message)
    BY <1>5, <2>2 DEF State, Requested
  <2>4. applied'.until = now + (Window - Tau)
    BY <2>2
  <2> QED BY <1>1, <1>2, <1>3, <1>5, <2>3, <2>4
<1> QED BY <1>4, <1>5

\* Time and the inverter's revert change no message and nothing that is recorded.
LEMMA Elapsed ==
    ASSUME Second
    PROVE  /\ UNCHANGED <<gateway, channel, regime, snapshot>>
           /\ applied' = applied \/ (applied' = Reverted /\ State(applied') = Fallback)
BY DEF Second, State, Reverted, Fallback

\* With the right clocks a tick is dated at the time, and so is what it requests.
LEMMA RightlyDated ==
    ASSUME SiteInv, NEW i \in Records, ReadRecord(i), RightClocks, output' # Nothing
    PROVE  gateway'.changed = now
<1>1. i.clock = now
  BY RecordFaults DEF RightClocks
<1>2. TickClock(i) = now
  BY <1>1, Numbers DEF TickClock
<1>3. Tick(i)
  BY DEF ReadRecord
<1> QED BY <1>2, <1>3, TickResult

\* After a tick the newest message and the gateway's record still agree.
LEMMA ReadRequests ==
    ASSUME SiteInv, Requests, NEW i \in Records, ReadRecord(i) PROVE Requests'
<1> DEFINE m == [message |-> output', at |-> now]
<1>1. /\ Tick(i) /\ UNCHANGED <<regime, now>>
  BY DEF ReadRecord
<1>2. CASE output' = Nothing /\ channel' = channel
  <2>1. gateway.mode = "fallback" => gateway'.mode = "fallback"
    <3>1. gateway'.mode = TickStart(i).mode
      BY <1>1, <1>2, TickResult, Zenon DEF Nothing, Commands
    <3>2. gateway.mode = "fallback" => TickStart(i).mode = "fallback"
      BY TickStartShape
    <3> QED BY <3>1, <3>2
  <2>2. gateway'.changed \in Nat /\ gateway.changed <= gateway'.changed /\ gateway.changed \in Nat
    BY <1>1, TickResult, Numbers DEF GatewayRecords
  <2>3. ASSUME RightClocks, NEW k \in 1..Len(channel)
        PROVE  channel[k].at <= gateway'.changed
    <3>1. channel[k].at <= gateway.changed
      BY <2>3 DEF Requests
    <3>2. channel[k] \in Messages
      BY DEF SiteInv, Typed
    <3>3. channel[k].at \in Nat
      BY <3>2 DEF Messages
    <3> QED BY <2>2, <3>1, <3>3
  <2> QED BY <1>1, <1>2, <2>1, <2>3, Zenon DEF Requests, RightClocks
<1>3. CASE /\ output' # Nothing /\ m \in Messages
           /\ channel' \in Seq(Messages) /\ Len(channel') = Len(channel) + 1
           /\ Len(channel) \in Nat
           /\ channel'[Len(channel')] = m
           /\ \A k \in 1..Len(channel') : \/ channel'[k] = m /\ k = Len(channel')
                                          \/ k \in 1..Len(channel) /\ channel'[k] = channel[k]
  <2>1. m.message.kind = "fallback" => gateway'.mode = "fallback"
    BY <1>1, <1>3, TickResult DEF Commands
  <2>2. ASSUME RightClocks, NEW k \in 1..Len(channel')
        PROVE  channel'[k].at <= gateway'.changed
    <3>1. gateway'.changed = now /\ now \in Nat
      BY <1>3, <2>2, RightlyDated, Numbers
    <3>2. \A j \in 1..Len(channel) : channel[j].at <= now
      BY DEF SiteInv, UnderWay
    <3>3. channel'[k] = m \/ (k \in 1..Len(channel) /\ channel'[k] = channel[k])
      BY <1>3
    <3>4. m.at <= now
      BY <3>1
    <3> HIDE DEF m
    <3> QED BY <3>1, <3>2, <3>3, <3>4
  <2> QED BY <1>1, <1>3, <2>1, <2>2, Zenon DEF Requests, RightClocks
<1> QED BY <1>2, <1>3, ChannelAfterTick

\* Every step keeps the newest message and the gateway's record in agreement.
LEMMA RequestsKept ==
    ASSUME SiteInv, Requests, [Next]_vars PROVE Requests'
<1>1. CASE Measure \/ LoseRecord \/ Second \/ UNCHANGED vars
  <2>1. UNCHANGED <<gateway, channel, regime>>
    BY <1>1, Elapsed DEF Measure, LoseRecord, vars
  <2> QED BY <2>1, Zenon DEF Requests, RightClocks
<1>2. CASE \E i \in Records : ReadRecord(i)
  BY <1>2, ReadRequests
<1>3. CASE Apply \/ Lose
  <2>1. /\ channel # <<>> /\ channel' = Tail(channel)
        /\ UNCHANGED <<gateway, regime>>
    BY <1>3 DEF Apply, Lose
  <2>2. channel' # <<>> => channel'[Len(channel')] = channel[Len(channel)]
    BY <2>1, TailUnderWay
  <2>3. \A k \in 1..Len(channel') : k + 1 \in 1..Len(channel) /\ channel'[k] = channel[k + 1]
    BY <2>1, TailUnderWay
  <2> QED BY <2>1, <2>2, <2>3, Zenon DEF Requests, RightClocks
<1> QED BY <1>1, <1>2, <1>3 DEF Next

\* What a tick that answers nothing leaves: the recorded state, or fallback from
\* the expiry of the recorded command on.
LEMMA QuietTick ==
    ASSUME SiteInv, NEW i \in Records, Tick(i), output' = Nothing
    PROVE  \/ /\ gateway'.mode = gateway.mode /\ State(gateway') = State(gateway)
              /\ gateway'.changed = gateway.changed /\ gateway'.expiry = gateway.expiry
           \/ /\ gateway.mode = "command" /\ gateway'.mode = "fallback"
              /\ gateway'.changed = gateway.expiry
<1>1. /\ gateway'.mode = TickStart(i).mode
      /\ State(gateway') = State(TickStart(i))
      /\ gateway'.changed = TickStart(i).changed
      /\ gateway'.expiry = TickStart(i).expiry
  BY TickResult, Zenon DEF Nothing, Commands
<1>2. \/ /\ TickStart(i).mode = gateway.mode /\ State(TickStart(i)) = State(gateway)
         /\ TickStart(i).changed = gateway.changed /\ TickStart(i).expiry = gateway.expiry
      \/ /\ gateway.mode = "command" /\ TickStart(i).mode = "fallback"
         /\ TickStart(i).changed = gateway.expiry
  BY TickStartShape, Zenon
<1> QED BY <1>1, <1>2, Zenon

\* After a tick a newest message that is a command is the gateway's request, or the
\* gateway is in fallback.
LEMMA ReadFollows ==
    ASSUME SiteInv, RightClocks, Following, NEW i \in Records, ReadRecord(i) PROVE Following'
<1> DEFINE m == [message |-> output', at |-> now]
<1>1. Tick(i) /\ UNCHANGED <<now, applied>>
  BY DEF ReadRecord
<1>2. CASE output' = Nothing /\ channel' = channel
  <2>1. CASE /\ gateway'.mode = gateway.mode /\ State(gateway') = State(gateway)
             /\ gateway'.changed = gateway.changed /\ gateway'.expiry = gateway.expiry
    BY <1>1, <1>2, <2>1, Zenon DEF Following
  <2>2. CASE /\ gateway.mode = "command" /\ gateway'.mode = "fallback"
             /\ gateway'.changed = gateway.expiry
    <3>1. gateway.mode # "fallback"
      BY <2>2
    <3> QED BY <1>1, <1>2, <2>2, <3>1, Zenon DEF Following
  <2> QED BY <1>1, <1>2, <2>1, <2>2, QuietTick
<1>3. CASE /\ output' # Nothing /\ m \in Messages
           /\ channel' \in Seq(Messages) /\ Len(channel') = Len(channel) + 1
           /\ Len(channel) \in Nat
           /\ channel'[Len(channel')] = m
  <2>1. channel' # <<>>
    BY <1>3
  <2>2. m.message.kind = "command" =>
           /\ gateway'.mode = "command" /\ State(gateway') = Requested(m.message)
           /\ m.at + Window - Tau <= gateway'.expiry
    <3>1. CASE output' = [kind |-> "fallback"]
      BY <3>1
    <3>2. CASE /\ output' \in Commands /\ gateway'.mode = "command"
               /\ State(gateway') = Requested(output') /\ gateway'.changed = now
      <4>1. gateway'.expiry = now + Window - Tau
        BY <1>1, <3>2, TickResult
      <4> QED BY <3>2, <4>1, Numbers
    <3> QED BY <1>1, <1>3, <3>1, <3>2, TickResult
  <2> HIDE DEF m
  <2> QED BY <1>3, <2>1, <2>2, Zenon DEF Following
<1> QED BY <1>2, <1>3, ChannelAfterTick

\* Taking the oldest message leaves the newest, or the inverter with it.
LEMMA ApplyFollows ==
    ASSUME SiteInv, Following, Apply PROVE Following'
<1>1. /\ channel # <<>> /\ channel' = Tail(channel)
      /\ UNCHANGED <<gateway, regime, now, snapshot>>
      /\ channel[1] \in Messages /\ now < channel[1].at + Tau
      /\ State(applied') = Requested(channel[1].message)
      /\ channel[1].message.kind = "fallback" => applied'.mode = "fallback"
      /\ channel[1].message.kind = "command" => applied'.until = now + (Window - Tau)
  BY Applied
<1>2. CASE Tail(channel) # <<>>
  <2>1. channel'[Len(channel')] = channel[Len(channel)]
    BY <1>1, <1>2, TailUnderWay
  <2> QED BY <1>1, <1>2, <2>1, Zenon DEF Following
<1>3. CASE Tail(channel) = <<>>
  <2>1. Len(channel) = 1
    BY <1>1, <1>3, TailUnderWay
  <2>2. SUFFICES ASSUME applied'.mode = "command"
                 PROVE  \/ /\ gateway.mode = "command" /\ State(gateway) = State(applied')
                           /\ applied'.until < gateway.expiry + Tau
                        \/ /\ gateway.mode = "fallback"
                           /\ applied'.until < gateway.changed + Tau
    BY <1>1, <1>3 DEF Following
  <2>3. channel[1].message.kind = "command"
    BY <1>1, <2>2 DEF Messages, Commands
  <2>4. \/ /\ gateway.mode = "command" /\ State(gateway) = Requested(channel[1].message)
           /\ channel[1].at + Window - Tau <= gateway.expiry
        \/ /\ gateway.mode = "fallback"
           /\ channel[1].at + Window - Tau <= gateway.changed
    BY <1>1, <2>1, <2>3, Zenon DEF Following
  <2>5. /\ channel[1].at \in Nat /\ now \in Nat /\ Tau \in Nat /\ Window \in Nat
        /\ gateway.expiry \in Nat /\ gateway.changed \in Nat
    BY <1>1, Numbers DEF Messages
  <2>6. \A t \in Nat : channel[1].at + Window - Tau <= t => applied'.until < t + Tau
    BY <1>1, <2>3, <2>5
  <2> QED BY <1>1, <2>4, <2>5, <2>6
<1> QED BY <1>2, <1>3

\* Where nothing is lost, every step keeps what Following says.
LEMMA FollowingKept ==
    ASSUME SiteInv, RightClocks, Delivered, Following, [Next]_vars PROVE Following'
<1>1. CASE Measure \/ LoseRecord \/ UNCHANGED vars
  <2>1. UNCHANGED <<gateway, channel, applied>>
    BY <1>1 DEF Measure, LoseRecord, vars
  <2> QED BY <2>1, Zenon DEF Following
<1>2. CASE Second
  <2>1. /\ UNCHANGED <<gateway, channel>>
        /\ applied' = applied \/ applied'.mode # "command"
    BY <1>2, Elapsed DEF Reverted
  <2> QED BY <2>1, Zenon DEF Following
<1>3. CASE \E i \in Records : ReadRecord(i)
  BY <1>3, ReadFollows
<1>4. CASE Apply
  BY <1>4, ApplyFollows
<1>5. CASE Lose
  BY <1>5, Zenon DEF Lose, Delivered
<1> QED BY <1>1, <1>2, <1>3, <1>4, <1>5 DEF Next

\* A proposal becomes a snapshot only when the inverter applies the state the
\* gateway holds for recorded, or fallback: a fresh read-back says so, and without
\* one the age of the last change does, if clocks are right and nothing is lost.
LEMMA KnownAtSnapshot ==
    ASSUME SiteInv, StatesInv, NEW i \in Records, TakesSnapshot(i),
           Fresh \/ (RightClocks /\ Delivered)
    PROVE  State(applied) \in {State(TickStart(i)), Fallback}
<1> DEFINE g == TickStart(i)
<1>1. ReadBackOk(g, i) /\ g.changed + Tau <= now
  BY TickStartShape DEF TakesSnapshot, MustFallBack, Settled
<1>2. applied.mode = "fallback" => State(applied) = Fallback
  BY DEF SiteInv, Reverting, State, Fallback
<1>3. applied.mode = "command" \/ applied.mode = "fallback"
  BY DEF SiteInv, Typed, AppliedStates, Modes
<1>4. CASE Fresh
  <2>1. /\ i.readMode = applied.mode
        /\ i.readLow = applied.low /\ i.readHigh = applied.high
    BY <1>4, RecordFaults, Zenon DEF Fresh
  <2>2. applied.mode = "command" => State(applied) = State(g)
    BY <1>1, <2>1 DEF ReadBackOk, State
  <2> QED BY <1>2, <1>3, <2>2, Zenon
<1>5. CASE RightClocks /\ Delivered /\ applied.mode = "command"
  <2>1. gateway.changed <= g.changed /\ g.changed \in Nat /\ gateway.changed \in Nat
    BY TickStartShape, Numbers DEF GatewayRecords
  <2>2. channel = <<>>
    <3> SUFFICES ASSUME channel # <<>> PROVE FALSE
      OBVIOUS
    <3>1. 1 \in 1..Len(channel) /\ channel[1] \in Messages
      BY TailUnderWay
    <3>2. channel[1].at <= gateway.changed
      BY <1>5, <3>1, Zenon DEF StatesInv, Requests
    <3>3. now < channel[1].at + Tau
      BY <3>1 DEF SiteInv, UnderWay
    <3>4. channel[1].at \in Nat
      BY <3>1 DEF Messages
    <3>5. now \in Nat /\ Tau \in Nat
      BY Numbers
    <3> QED BY <1>1, <2>1, <3>2, <3>3, <3>4, <3>5
  <2>3. \/ /\ gateway.mode = "command" /\ State(gateway) = State(applied)
           /\ applied.until < gateway.expiry + Tau
        \/ /\ gateway.mode = "fallback"
           /\ applied.until < gateway.changed + Tau
    BY <1>5, <2>2, Zenon DEF StatesInv, Following
  <2>4. now < applied.until /\ applied.until \in Nat
    BY <1>5 DEF SiteInv, Typed, Reverting, AppliedStates
  <2>5. \A t \in Nat : t = g.changed => ~(applied.until < t + Tau)
    BY <1>1, <2>1, <2>4, Numbers
  <2>6. gateway.expiry \in Nat /\ gateway.changed \in Nat
    BY Numbers
  <2>7. CASE g.mode = gateway.mode /\ State(g) = State(gateway) /\ g.changed = gateway.changed
    BY <2>3, <2>5, <2>6, <2>7, Zenon
  <2>8. CASE gateway.mode = "command" /\ g.changed = gateway.expiry
    BY <2>3, <2>5, <2>6, <2>8
  <2> HIDE DEF g
  <2> QED BY <2>7, <2>8, TickStartShape, Zenon DEF g
<1> QED BY <1>2, <1>3, <1>4, <1>5, Zenon

\* A tick leaves under way only what the last snapshot reckoned with.
LEMMA ReadReckoned ==
    ASSUME SiteInv, StatesInv, Fresh \/ (RightClocks /\ Delivered),
           NEW i \in Records, ReadRecord(i)
    PROVE  Reckoned'
<1> DEFINE m == [message |-> output', at |-> now]
<1>1. Tick(i) /\ applied' = applied
  BY DEF ReadRecord
<1>2. Reckoned
  BY Zenon DEF StatesInv
<1>3. CASE output'.kind = "command"
  <2>1. /\ TakesSnapshot(i) /\ State(gateway') = Requested(output')
    BY <1>1, <1>3, TickResult DEF Nothing
  <2>2. /\ snapshot'.before = State(TickStart(i))
        /\ snapshot'.command = State(gateway')
    BY <1>3 DEF ReadRecord
  <2>3. State(applied') \in {snapshot'.before, snapshot'.command, Fallback}
    BY <1>1, <2>1, <2>2, KnownAtSnapshot, Zenon
  <2>4. output' # Nothing
    BY <1>3 DEF Nothing
  <2>5. \A k \in 1..Len(channel') : \/ channel'[k] = m
                                    \/ k \in 1..Len(channel) /\ channel'[k] = channel[k]
    BY <2>4, ChannelAfterTick, Zenon
  <2>6. \A k \in 1..Len(channel) : channel[k].message.kind # "command"
    BY <2>1, NoCommandUnderWay
  <2>7. Requested(m.message) = snapshot'.command
    BY <2>1, <2>2
  <2> HIDE DEF m
  <2> QED BY <2>3, <2>5, <2>6, <2>7, Zenon DEF Reckoned
<1>4. CASE output'.kind # "command"
  <2>1. snapshot' = snapshot
    BY <1>4 DEF ReadRecord
  <2>2. \A k \in 1..Len(channel') : \/ channel'[k].message.kind # "command"
                                    \/ k \in 1..Len(channel) /\ channel'[k] = channel[k]
    <3>1. m.message.kind # "command"
      BY <1>4
    <3> HIDE DEF m
    <3> QED BY <3>1, ChannelAfterTick, Zenon DEF m
  <2> QED BY <1>1, <1>2, <2>1, <2>2, Zenon DEF Reckoned
<1> QED BY <1>3, <1>4

\* Every step leaves under way only what the last snapshot reckoned with.
LEMMA ReckonedKept ==
    ASSUME SiteInv, StatesInv, Fresh \/ (RightClocks /\ Delivered), [Next]_vars
    PROVE  Reckoned'
<1>1. Reckoned
  BY Zenon DEF StatesInv
<1>2. CASE Measure \/ LoseRecord \/ UNCHANGED vars
  <2>1. UNCHANGED <<channel, applied, snapshot>>
    BY <1>2 DEF Measure, LoseRecord, vars
  <2> QED BY <1>1, <2>1, Zenon DEF Reckoned
<1>3. CASE Second
  BY <1>1, <1>3, Elapsed, Zenon DEF Reckoned
<1>4. CASE \E i \in Records : ReadRecord(i)
  BY <1>4, ReadReckoned
<1>5. CASE Apply
  <2>1. /\ channel # <<>> /\ channel' = Tail(channel) /\ snapshot' = snapshot
        /\ State(applied') = Requested(channel[1].message) /\ channel[1] \in Messages
    BY <1>5, Applied
  <2>2. \/ Requested(channel[1].message) = Fallback
        \/ channel[1].message.kind = "command" /\ 1 \in 1..Len(channel)
    BY <2>1, TailUnderWay DEF Messages, Commands, Requested
  <2>3. \A k \in 1..Len(channel') : k + 1 \in 1..Len(channel) /\ channel'[k] = channel[k + 1]
    BY <2>1, TailUnderWay
  <2> QED BY <1>1, <2>1, <2>2, <2>3, Zenon DEF Reckoned
<1>6. CASE Lose
  <2>1. channel # <<>> /\ channel' = Tail(channel) /\ UNCHANGED <<applied, snapshot>>
    BY <1>6 DEF Lose
  <2>2. \A k \in 1..Len(channel') : k + 1 \in 1..Len(channel) /\ channel'[k] = channel[k + 1]
    BY <2>1, TailUnderWay
  <2> QED BY <1>1, <2>1, <2>2, Zenon DEF Reckoned
<1> QED BY <1>2, <1>3, <1>4, <1>5, <1>6 DEF Next

\* The regime is chosen once.
LEMMA SameRegime ==
    ASSUME [Next]_vars PROVE regime' = regime
BY DEF Next, Measure, ReadRecord, LoseRecord, Apply, Lose, Second, vars

\* What the gateway has reckoned with, and what the inverter can still apply, agree.
THEOREM StatesInvariance == Spec => []StatesInv
<1>1. Init => StatesInv
  <2> SUFFICES ASSUME Init PROVE StatesInv
    OBVIOUS
  <2>1. channel = <<>> /\ applied.mode = "fallback" /\ snapshot.taken = FALSE
    BY DEF Init, Reverted
  <2>2. Len(channel) = 0
    BY <2>1
  <2>3. Requests
    BY <2>1, <2>2 DEF Requests
  <2> QED BY <2>1, <2>3 DEF StatesInv, Following, Reckoned
<1>2. SiteInv /\ StatesInv /\ [Next]_vars => StatesInv'
  <2> SUFFICES ASSUME SiteInv, StatesInv, [Next]_vars PROVE StatesInv'
    OBVIOUS
  <2>1. /\ Fresh' <=> Fresh
        /\ RightClocks' <=> RightClocks
        /\ Delivered' <=> Delivered
    BY SameRegime, Zenon DEF Fresh, RightClocks, Delivered
  <2>2. Requests'
    BY RequestsKept, Zenon DEF StatesInv
  <2>3. RightClocks /\ Delivered => Following'
    BY FollowingKept, Zenon DEF StatesInv
  <2>4. Fresh \/ (RightClocks /\ Delivered) => Reckoned'
    BY ReckonedKept, Zenon
  <2> QED BY <2>1, <2>2, <2>3, <2>4, Zenon DEF StatesInv
<1> QED BY <1>1, <1>2, Invariance, PTL DEF Spec

\* Where readings may be old, clocks are right and no message is lost (A7 of
\* energy-controller-plan.md).
FreshOrDelivered ==
    \A r \in Regimes :
        "old readings" \in r.faults =>
            "wrong clocks" \notin r.faults /\ "lost messages" \notin r.faults

\* From an accepted snapshot to the next one, the inverter applies the recorded
\* state, the command authorized from it, or fallback: OperatesIn.states, from
\* `changed + tau <= c` and the read-back of Gateway.lean.
THEOREM KnownStates ==
    ASSUME FreshOrDelivered PROVE Spec => []AppliesKnownState
<1>1. SiteInv /\ StatesInv => AppliesKnownState
  <2> SUFFICES ASSUME SiteInv, StatesInv PROVE AppliesKnownState
    OBVIOUS
  <2>1. regime \in Regimes
    BY DEF SiteInv, Typed
  <2>2. Fresh \/ (RightClocks /\ Delivered)
    BY <2>1, FreshOrDelivered, Zenon DEF FreshOrDelivered, Fresh, RightClocks, Delivered
  <2> QED BY <2>2, Zenon DEF StatesInv, Reckoned, AppliesKnownState
<1> QED BY <1>1, Invariance, StatesInvariance, PTL

FreshOrRightClocks ==
    \A r \in Regimes : "old readings" \notin r.faults \/ "wrong clocks" \notin r.faults

\* Rule 1 of energy-controller-plan.md, where readings are fresh or clocks are
\* right: at a snapshot no message under way still changes the state the inverter
\* applies.  With neither, the rule fails.
THEOREM NoChangeUnderWay ==
    ASSUME FreshOrRightClocks PROVE Spec => SnapshotAfterChange
<1> DEFINE Quiet == snapshot' # snapshot =>
                       \A k \in 1..Len(channel) :
                           Requested(channel[k].message) = State(applied)
<1>1. SiteInv /\ StatesInv /\ [Next]_vars => [Quiet]_vars
  <2> SUFFICES ASSUME SiteInv, StatesInv, Next, snapshot' # snapshot,
                      NEW k \in 1..Len(channel)
               PROVE  Requested(channel[k].message) = State(applied)
    BY DEF vars
  <2>1. PICK i \in Records : ReadRecord(i)
    BY DEF Next, Measure, LoseRecord, Apply, Lose, Second
  <2>2. Tick(i) /\ output'.kind = "command"
    BY <2>1 DEF ReadRecord
  <2>3. TakesSnapshot(i)
    BY <2>2, TickResult DEF Nothing
  <2>4. channel[k] \in Messages
    BY DEF SiteInv, Typed
  <2>5. \A j \in 1..Len(channel) : channel[j].message.kind = "fallback"
    <3> SUFFICES ASSUME NEW j \in 1..Len(channel) PROVE channel[j].message.kind = "fallback"
      OBVIOUS
    <3>1. channel[j] \in Messages
      BY DEF SiteInv, Typed
    <3> QED BY <2>3, <3>1, NoCommandUnderWay DEF Messages, Commands
  <2>6. channel # <<>> /\ Len(channel) \in 1..Len(channel)
    BY DEF SiteInv, Typed
  <2>7. gateway.mode = "fallback"
    BY <2>5, <2>6, Zenon DEF StatesInv, Requests
  <2>8. TickStart(i).mode = "fallback" /\ TickStart(i).changed = gateway.changed
    BY <2>7, TickStartShape
  <2>9. CASE Fresh
    <3>1. applied.mode = "fallback"
      BY <2>3, <2>8, <2>9, RecordFaults, Zenon DEF TakesSnapshot, ReadBackOk, Fresh
    <3>2. State(applied) = Fallback
      BY <3>1 DEF SiteInv, Reverting, State, Fallback
    <3> QED BY <2>5, <3>2 DEF Requested
  <2>10. CASE RightClocks
    <3>1. channel[k].at <= gateway.changed
      BY <2>10, Zenon DEF StatesInv, Requests
    <3>2. gateway.changed + Tau <= now
      BY <2>3, <2>8, TickStartShape DEF TakesSnapshot, MustFallBack, Settled
    <3>3. now < channel[k].at + Tau /\ channel[k].at \in Nat
      BY <2>4 DEF SiteInv, UnderWay, Messages
    <3>4. now \in Nat /\ Tau \in Nat /\ gateway.changed \in Nat
      BY Numbers
    <3> QED BY <3>1, <3>2, <3>3, <3>4
  <2>11. Fresh \/ RightClocks
    <3>1. regime \in Regimes
      BY DEF SiteInv, Typed
    <3> QED BY <3>1, FreshOrRightClocks, Zenon DEF FreshOrRightClocks, Fresh, RightClocks
  <2> QED BY <2>9, <2>10, <2>11
<1> QED BY <1>1, Invariance, StatesInvariance, PTL DEF Spec, SnapshotAfterChange

-----------------------------------------------------------------------------
(* Arithmetic. *)

\* The numbers of a profile and their signs.
LEMMA ProfileNumbers ==
    /\ {Floor, Ceiling, ChargeMax, DischargeMax, ImportCap, ExportCap, LossMax,
        Tolerance, Tau, Window} \subseteq Nat
    /\ FallbackLow \in Int /\ FallbackHigh \in Int
    /\ FallbackLow <= 0 /\ 0 <= FallbackHigh
    /\ Eta \in Nat /\ 0 < Eta /\ Million \in Nat /\ Eta <= Million /\ 0 < Million
BY ProfileAssumption

\* The quotient and the remainder of a division.
LEMMA Division ==
    ASSUME NEW x \in Int, NEW d \in Nat, 0 < d
    PROVE  /\ x \div d \in Int
           /\ d * (x \div d) <= x /\ x < d * (x \div d) + d
BY SMT

\* A product with a natural number keeps the order.
LEMMA ProductOrder ==
    ASSUME NEW a \in Int, NEW b \in Int, NEW c \in Nat, a <= b
    PROVE  a * c <= b * c
BY SMT

\* A factor cancels, with less than one factor to spare.
LEMMA Cancel ==
    ASSUME NEW d \in Nat, 0 < d, NEW a \in Int, NEW b \in Int, d * a < d * b + d
    PROVE  a <= b
BY SMT

\* One second more adds one power.
LEMMA Successor ==
    ASSUME NEW t \in Nat, NEW a \in Int
    PROVE  (t + 1) * a = t * a + a
BY SMT

\* The order of factors does not matter.
LEMMA Associate ==
    ASSUME NEW a \in Int, NEW b \in Int, NEW c \in Int
    PROVE  a * b * c = (a * c) * b
BY SMT

\* A window whose drain at the power b fits above the floor keeps the floor, t
\* seconds into it.
LEMMA FloorKept ==
    ASSUME NEW b \in Int, b <= 0, NEW t \in Nat, t <= Window,
           NEW e \in Int, NEW low \in Int,
           t * (b * Million - LossMax * Eta) <= Eta * (e - low),
           Floor + LowDrain(b) <= low
    PROVE  Floor <= e
<1> DEFINE P == (-b) * Million
           R == P + LossMax * Eta
           D == (P * Window + Eta - 1) \div Eta
<1>1. P \in Nat /\ R \in Nat /\ b * Million - LossMax * Eta = -R
  BY ProfileNumbers, SMT
<1>2. LowDrain(b) = D + LossMax * Window
  <2>1. (-b) * Window * Million = P * Window
    BY ProfileNumbers, Associate
  <2> QED BY <2>1 DEF LowDrain
<1> HIDE DEF P
<1>3. D \in Int /\ P * Window <= Eta * D
  <2>1. P * Window + Eta - 1 \in Int
    BY <1>1, ProfileNumbers
  <2>2. D \in Int /\ P * Window + Eta - 1 < Eta * D + Eta
    BY <2>1, Division, ProfileNumbers
  <2>3. P * Window \in Int /\ Eta * D \in Int
    BY <1>1, <2>2, ProfileNumbers
  <2> HIDE DEF D
  <2> QED BY <2>2, <2>3, ProfileNumbers
<1>4. t * R <= Window * R
  BY <1>1, ProductOrder, ProfileNumbers
<1>5. Window * R = P * Window + Eta * (LossMax * Window)
  BY <1>1, ProfileNumbers, SMT
<1>6. t * (-R) = -(t * R) /\ t * R \in Int
  BY <1>1, SMT
<1> HIDE DEF D, R
<1>7. Eta * Floor <= Eta * e
  <2>1. Eta * (e - low) = Eta * e - Eta * low /\ Eta * e \in Int /\ Eta * low \in Int
    BY ProfileNumbers, SMT
  <2>2. Eta * (Floor + (D + LossMax * Window)) <= Eta * low
    BY <1>2, <1>3, ProfileNumbers, SMT
  <2>3. Eta * (Floor + (D + LossMax * Window)) =
          Eta * Floor + (Eta * D + Eta * (LossMax * Window))
    BY <1>3, ProfileNumbers, SMT
  <2>4. /\ Eta * Floor \in Int /\ Eta * D \in Int /\ Eta * (LossMax * Window) \in Int
        /\ P * Window \in Int
    BY <1>1, <1>3, ProfileNumbers, SMT
  <2> QED BY <1>1, <1>3, <1>4, <1>5, <1>6, <2>1, <2>2, <2>3, <2>4
<1> QED BY <1>7, Cancel, ProfileNumbers

\* A site that fallback drains keeps what fallback leaves.
LEMMA FallbackKept ==
    ASSUME NEW t \in Nat, NEW e \in Int, NEW low \in Int,
           t * (FallbackLow * Million - LossMax * Eta) <= Eta * (e - low)
    PROVE  FallbackDrain(t) \in Int /\ low - FallbackDrain(t) <= e
<1> DEFINE P == (-FallbackLow) * Million
           D == (P * t) \div Eta
<1>1. P \in Nat /\ FallbackLow * Million - LossMax * Eta = -(P + LossMax * Eta)
  BY ProfileNumbers, SMT
<1>2. FallbackDrain(t) = D + LossMax * t
  <2>1. (-FallbackLow) * t * Million = P * t
    BY ProfileNumbers, Associate
  <2> QED BY <2>1 DEF FallbackDrain
<1> HIDE DEF P
<1>3. D \in Int /\ P * t \in Int /\ P * t < Eta * D + Eta
  BY <1>1, Division, ProfileNumbers
<1> HIDE DEF D
<1>4. t * (-(P + LossMax * Eta)) = -(P * t) - Eta * (LossMax * t)
  BY <1>1, ProfileNumbers, SMT
<1>5. Eta * (e - low) = Eta * e - Eta * low
  BY ProfileNumbers, SMT
<1>6. Eta * (low - (D + LossMax * t)) = Eta * low - Eta * D - Eta * (LossMax * t)
  BY <1>3, ProfileNumbers, SMT
<1>7. /\ Eta * e \in Int /\ Eta * low \in Int /\ Eta * D \in Int
      /\ Eta * (LossMax * t) \in Int /\ low - (D + LossMax * t) \in Int
      /\ D + LossMax * t \in Int
  BY <1>3, ProfileNumbers, SMT
<1>8. Eta * (low - (D + LossMax * t)) < Eta * e + Eta
  BY <1>1, <1>3, <1>4, <1>5, <1>6, <1>7, ProfileNumbers
<1> QED BY <1>2, <1>7, <1>8, Cancel, ProfileNumbers

\* Energy that rises no faster than the authorizer reckons stays below the ceiling.
LEMMA CeilingKept ==
    ASSUME NEW b \in Int, 0 <= b, NEW t \in Nat, t <= Window,
           NEW e \in Int, NEW high \in Int,
           e - high <= t * b, high + HighGain(b) <= Ceiling
    PROVE  e <= Ceiling
<1>1. t * b <= Window * b
  BY ProductOrder, ProfileNumbers
<1>2. HighGain(b) = Window * b /\ t * b \in Int /\ Window * b \in Int
  BY ProfileNumbers, SMT DEF HighGain
<1> QED BY <1>1, <1>2, ProfileNumbers

\* What a second may do to stored energy while power lies between two ends.
LEMMA RateBounds ==
    ASSUME NEW low \in Int, low <= 0, NEW high \in Int, 0 <= high,
           NEW p \in Int, low <= p, p <= high, NEW r \in Rates(p)
    PROVE  /\ r \in Int /\ r <= high
           /\ low * Million - LossMax * Eta <= Eta * r
<1>1. CASE p < 0
  <2> DEFINE D == ((-p) * Million) \div Eta
  <2>1. D \in Int /\ Eta * D <= (-p) * Million
    BY Division, ProfileNumbers, SMT
  <2>2. LeastRate(p) = -D - LossMax
    BY <1>1 DEF LeastRate
  <2> HIDE DEF D
  <2>3. r \in Int /\ -D - LossMax <= r /\ r <= p
    BY <2>1, <2>2, ProfileNumbers DEF Rates
  <2>4. Eta * (-D - LossMax) <= Eta * r
    BY <2>1, <2>3, ProfileNumbers, SMT
  <2>5. Eta * (-D - LossMax) = -(Eta * D) - LossMax * Eta
    BY <2>1, ProfileNumbers, SMT
  <2>6. low * Million <= p * Million /\ (-p) * Million = -(p * Million)
    BY ProductOrder, ProfileNumbers, SMT
  <2>7. /\ Eta * D \in Int /\ Eta * r \in Int /\ LossMax * Eta \in Int
        /\ p * Million \in Int /\ low * Million \in Int
    BY <2>1, <2>3, ProfileNumbers, SMT
  <2> QED BY <2>1, <2>3, <2>4, <2>5, <2>6, <2>7
<1>2. CASE ~(p < 0)
  <2> DEFINE D == ((-p) * Eta) \div Million
  <2>1. (-p) * Eta \in Int /\ (-p) * Eta <= 0
    BY <1>2, ProfileNumbers, SMT
  <2>2. D \in Int /\ Million * D <= 0
    BY <2>1, Division, ProfileNumbers
  <2>3. LeastRate(p) = -D - LossMax
    BY <1>2 DEF LeastRate
  <2> HIDE DEF D
  <2>4. D <= 0
    BY <2>2, ProfileNumbers, SMT
  <2>5. r \in Int /\ -LossMax <= r /\ r <= p
    BY <2>2, <2>3, <2>4, ProfileNumbers DEF Rates
  <2>6. -(LossMax * Eta) <= Eta * r
    BY <2>5, ProfileNumbers, SMT
  <2>7. low * Million <= 0
    BY ProfileNumbers, SMT
  <2>8. LossMax * Eta \in Int /\ low * Million \in Int /\ Eta * r \in Int
    BY <2>5, ProfileNumbers, SMT
  <2> QED BY <2>5, <2>6, <2>7, <2>8
<1> QED BY <1>1, <1>2

-----------------------------------------------------------------------------
(* The window of the last snapshot. *)

SnapshotTyped ==
    /\ snapshot.time \in Nat /\ snapshot.time <= now
    /\ snapshot.energyLow \in Int /\ snapshot.energyHigh \in Int
    /\ snapshot.loadLow \in Nat /\ snapshot.loadHigh \in Nat
    /\ snapshot.pvLow \in Nat /\ snapshot.pvHigh \in Nat
    /\ \A x \in {snapshot.before, snapshot.command} : x.low \in Int /\ x.high \in Int

SiteTyped ==
    /\ power \in Int /\ energy \in Int /\ load \in Nat /\ pv \in Nat
    /\ reading.energyLow \in Int /\ reading.energyHigh \in Int
    /\ SnapshotTyped

\* Where battery power stays in the window: the ends of B.
WindowLow ==
    Min({IntervalLow(snapshot.before), IntervalLow(snapshot.command), FallbackLow})
WindowHigh ==
    Max({IntervalHigh(snapshot.before), IntervalHigh(snapshot.command), FallbackHigh})

\* The tests that the last snapshot passed.
Authorized ==
    /\ WindowLow < FallbackLow =>
          ExportOk(snapshot, WindowLow) /\ FloorOk(snapshot, WindowLow)
    /\ FallbackHigh < WindowHigh =>
          ImportOk(snapshot, WindowHigh) /\ CeilingOk(snapshot, WindowHigh)

\* How far stored energy may have come in the time since the snapshot.
Trajectory ==
    LET t == now - snapshot.time
    IN /\ WindowLow <= power /\ power <= WindowHigh
       /\ InIntervals(snapshot, load, pv)
       /\ t * (WindowLow * Million - LossMax * Eta) <= Eta * (energy - snapshot.energyLow)
       /\ energy - snapshot.energyHigh <= t * WindowHigh

WindowInv ==
    /\ SiteTyped
    /\ snapshot.taken => Authorized
    /\ (Fresh \/ (RightClocks /\ Delivered)) /\ snapshot.taken /\ kept => Trajectory

\* The extreme powers of a window bound every state that may be applied in it.
LEMMA WindowEnds ==
    ASSUME SnapshotTyped
    PROVE  /\ WindowLow \in Int /\ WindowLow <= 0 /\ WindowLow <= FallbackLow
           /\ WindowLow = FallbackLow \/ WindowLow < FallbackLow
           /\ WindowHigh \in Int /\ 0 <= WindowHigh /\ FallbackHigh <= WindowHigh
           /\ WindowHigh = FallbackHigh \/ FallbackHigh < WindowHigh
           /\ \A x : State(x) \in {snapshot.before, snapshot.command, Fallback} =>
                 /\ IntervalLow(x) \in Int /\ WindowLow <= IntervalLow(x)
                 /\ IntervalHigh(x) \in Int /\ IntervalHigh(x) <= WindowHigh
<1>1. \A x \in {snapshot.before, snapshot.command} :
         IntervalLow(x) \in Int /\ IntervalHigh(x) \in Int
  BY ProfileNumbers DEF SnapshotTyped, IntervalLow, IntervalHigh
<1>2. /\ WindowLow \in {IntervalLow(snapshot.before), IntervalLow(snapshot.command), FallbackLow}
      /\ WindowLow <= IntervalLow(snapshot.before)
      /\ WindowLow <= IntervalLow(snapshot.command) /\ WindowLow <= FallbackLow
  BY <1>1, MinOfThree, ProfileNumbers, Zenon DEF WindowLow
<1>3. /\ WindowHigh \in {IntervalHigh(snapshot.before), IntervalHigh(snapshot.command), FallbackHigh}
      /\ IntervalHigh(snapshot.before) <= WindowHigh
      /\ IntervalHigh(snapshot.command) <= WindowHigh /\ FallbackHigh <= WindowHigh
  BY <1>1, MaxOfThree, ProfileNumbers, Zenon DEF WindowHigh
<1>4. WindowLow \in Int /\ WindowHigh \in Int
  BY <1>1, <1>2, <1>3, ProfileNumbers
<1>5. ASSUME NEW x, State(x) \in {snapshot.before, snapshot.command, Fallback}
      PROVE  /\ IntervalLow(x) \in Int /\ WindowLow <= IntervalLow(x)
             /\ IntervalHigh(x) \in Int /\ IntervalHigh(x) <= WindowHigh
  <2>1. IntervalLow(State(x)) = IntervalLow(x) /\ IntervalHigh(State(x)) = IntervalHigh(x)
    BY DEF IntervalLow, IntervalHigh, State
  <2>2. IntervalLow(Fallback) = FallbackLow /\ IntervalHigh(Fallback) = FallbackHigh
    BY DEF IntervalLow, IntervalHigh, Fallback
  <2> QED BY <1>1, <1>2, <1>3, <1>5, <2>1, <2>2, ProfileNumbers, Zenon
<1>6. WindowLow <= 0 /\ 0 <= WindowHigh
  BY <1>2, <1>3, <1>4, ProfileNumbers
<1>7. /\ WindowLow = FallbackLow \/ WindowLow < FallbackLow
      /\ WindowHigh = FallbackHigh \/ FallbackHigh < WindowHigh
  BY <1>2, <1>3, <1>4, ProfileNumbers
<1> QED BY <1>2, <1>3, <1>4, <1>5, <1>6, <1>7, Zenon

\* A step that leaves the site, the snapshot and the time alone.
LEMMA WindowStill ==
    ASSUME WindowInv, UNCHANGED <<site, snapshot, kept, now, regime>>,
           reading' = reading \/ reading' = Reading
    PROVE  WindowInv'
<1>1. /\ UNCHANGED <<power, load, pv, energy>>
      /\ reading'.energyLow \in Int /\ reading'.energyHigh \in Int
  BY DEF site, Reading, WindowInv, SiteTyped
<1>2. SiteTyped'
  BY <1>1, Zenon DEF WindowInv, SiteTyped, SnapshotTyped
<1>3. snapshot'.taken => Authorized'
  BY Zenon DEF WindowInv, Authorized, WindowLow, WindowHigh
<1>4. (Fresh' \/ (RightClocks' /\ Delivered')) /\ snapshot'.taken /\ kept' => Trajectory'
  BY <1>1, Zenon DEF WindowInv, Trajectory, WindowLow, WindowHigh, Fresh, RightClocks, Delivered
<1> QED BY <1>2, <1>3, <1>4 DEF WindowInv

\* The site as the sender measures it.
LEMMA RecordEnergies ==
    ASSUME SiteTyped, NEW i \in Records
    PROVE  i.energyLow \in Int /\ i.energyHigh \in Int
<1>1. PICK r, p, c :
         /\ i = Record(r, p, c)
         /\ r = Reading \/ ("old readings" \in regime.faults /\ r = reading)
         /\ p \in Proposals \cup {NoProposalWords}
         /\ c = now \/ ("wrong clocks" \in regime.faults /\ c \in WrongClocks)
  BY RecordParts
<1>2. i.energyLow = r.energyLow /\ i.energyHigh = r.energyHigh
  BY <1>1 DEF Record
<1>3. Reading.energyLow = energy /\ Reading.energyHigh = energy
  BY DEF Reading
<1> QED BY <1>1, <1>2, <1>3 DEF SiteTyped

\* An accepted snapshot opens a window with what the authorizer tested.
LEMMA SnapshotOpens ==
    ASSUME SiteInv, WindowInv, NEW i \in Records, ReadRecord(i), output'.kind = "command"
    PROVE  WindowInv'
<1> DEFINE g == TickStart(i)
           s == SnapOf(g, i, now)
<1>1. /\ Tick(i) /\ UNCHANGED <<regime, now, reading, site>>
      /\ snapshot' = [taken |-> TRUE, time |-> now, before |-> State(g),
                      command |-> State(gateway'),
                      energyLow |-> i.energyLow, energyHigh |-> i.energyHigh,
                      loadLow |-> i.loadLow, loadHigh |-> i.loadHigh,
                      pvLow |-> i.pvLow, pvHigh |-> i.pvHigh]
  BY DEF ReadRecord
<1>2. kept' => /\ i.energyLow <= energy /\ energy <= i.energyHigh
               /\ IntervalLow(g) <= power /\ power <= IntervalHigh(g)
               /\ InIntervals(i, load, pv)
  BY Zenon DEF ReadRecord
<1>3. /\ gateway'.mode = "command" /\ gateway'.low = i.low /\ gateway'.high = i.high
      /\ Accepts(s)
  BY <1>1, TickResult DEF Nothing
<1>4. /\ g \in GatewayRecords /\ g.mode \in Modes /\ g.low \in Int /\ g.high \in Int
  BY TickStartShape DEF GatewayRecords
<1>5. /\ i.energyLow \in Int /\ i.energyHigh \in Int
      /\ i.loadLow \in Nat /\ i.loadHigh \in Nat /\ i.pvLow \in Nat /\ i.pvHigh \in Nat
      /\ i.low \in Int /\ i.high \in Int
  BY RecordWords, RecordEnergies DEF WindowInv
<1>6. /\ snapshot'.taken = TRUE /\ snapshot'.time = now
      /\ snapshot'.before = State(g) /\ snapshot'.command = State(gateway')
      /\ snapshot'.energyLow = i.energyLow /\ snapshot'.energyHigh = i.energyHigh
      /\ snapshot'.loadLow = i.loadLow /\ snapshot'.loadHigh = i.loadHigh
      /\ snapshot'.pvLow = i.pvLow /\ snapshot'.pvHigh = i.pvHigh
  BY <1>1
<1>7. /\ State(g).low = g.low /\ State(g).high = g.high
      /\ State(gateway').low = i.low /\ State(gateway').high = i.high
  BY <1>3 DEF State
<1> HIDE DEF g
<1>8. SnapshotTyped'
  <2>1. now \in Nat /\ now' = now
    BY <1>1, Numbers
  <2> QED BY <1>4, <1>5, <1>6, <1>7, <2>1 DEF SnapshotTyped
<1>9. UNCHANGED <<power, energy, load, pv>>
  BY <1>1 DEF site
<1>10. SiteTyped'
  BY <1>1, <1>8, <1>9, Zenon DEF SiteTyped, WindowInv
<1>11. WindowLow' = LowB(s) /\ WindowHigh' = HighB(s)
  <2>1. /\ IntervalLow(State(g)) = InForceLow(s) /\ IntervalHigh(State(g)) = InForceHigh(s)
    BY <1>4 DEF State, IntervalLow, IntervalHigh, SnapOf, InForceLow, InForceHigh
  <2>2. /\ IntervalLow(State(gateway')) = s.low - Tolerance
        /\ IntervalHigh(State(gateway')) = s.high + Tolerance
    BY <1>3 DEF State, IntervalLow, IntervalHigh, SnapOf
  <2> HIDE DEF s
  <2> QED BY <1>6, <2>1, <2>2, Zenon DEF WindowLow, WindowHigh, LowB, HighB
<1>12. Authorized'
  <2>1. /\ s.pvHigh = i.pvHigh /\ s.pvLow = i.pvLow
        /\ s.loadHigh = i.loadHigh /\ s.loadLow = i.loadLow
        /\ s.energyHigh = i.energyHigh /\ s.energyLow = i.energyLow
    BY DEF SnapOf
  <2> HIDE DEF s
  <2>2. /\ LowB(s) < FallbackLow => ExportOk(s, LowB(s)) /\ FloorOk(s, LowB(s))
        /\ FallbackHigh < HighB(s) => ImportOk(s, HighB(s)) /\ CeilingOk(s, HighB(s))
    BY <1>3, Zenon DEF Accepts
  <2> QED BY <1>6, <1>11, <2>1, <2>2, Zenon
          DEF Authorized, ExportOk, FloorOk, ImportOk, CeilingOk
<1>13. kept' => Trajectory'
  <2> SUFFICES ASSUME kept' PROVE Trajectory'
    OBVIOUS
  <2>1. /\ WindowLow' \in Int /\ WindowLow' <= IntervalLow(g)
        /\ WindowHigh' \in Int /\ IntervalHigh(g) <= WindowHigh'
        /\ IntervalLow(g) \in Int /\ IntervalHigh(g) \in Int
    <3>1. s.mode \in Modes /\ s.inForceLow \in Int /\ s.inForceHigh \in Int
          /\ s.low \in Int /\ s.high \in Int
      BY <1>4, <1>5 DEF SnapOf
    <3>2. InForceLow(s) = IntervalLow(g) /\ InForceHigh(s) = IntervalHigh(g)
      BY DEF IntervalLow, IntervalHigh, SnapOf, InForceLow, InForceHigh
    <3>3. IntervalLow(g) \in Int /\ IntervalHigh(g) \in Int
      BY <1>4, ProfileNumbers DEF IntervalLow, IntervalHigh
    <3> HIDE DEF s
    <3>4. /\ LowB(s) \in Int /\ HighB(s) \in Int
          /\ LowB(s) <= InForceLow(s) /\ InForceHigh(s) <= HighB(s)
      BY <3>1, IntervalB
    <3> QED BY <1>11, <3>2, <3>3, <3>4, Zenon
  <2>2. power \in Int /\ energy \in Int
    BY DEF WindowInv, SiteTyped
  <2>3. WindowLow' <= power' /\ power' <= WindowHigh'
    BY <1>2, <1>9, <2>1, <2>2
  <2>4. InIntervals(snapshot', load', pv')
    BY <1>2, <1>6, <1>9, Zenon DEF InIntervals
  <2>5. now' - snapshot'.time = 0
    BY <1>1, <1>6, Numbers
  <2>6. 0 <= Eta * (energy' - snapshot'.energyLow) /\ energy' - snapshot'.energyHigh <= 0
    <3>1. 0 <= energy - i.energyLow /\ energy - i.energyLow \in Int /\ energy - i.energyHigh <= 0
      BY <1>2, <1>5, <2>2
    <3>2. \A x \in Int : 0 <= x => 0 <= Eta * x
      BY ProfileNumbers, SMT
    <3> QED BY <1>6, <1>9, <3>1, <3>2
  <2>7. 0 * (WindowLow' * Million - LossMax * Eta) = 0 /\ 0 * WindowHigh' = 0
    <3>1. WindowLow' * Million - LossMax * Eta \in Int
      BY <2>1, ProfileNumbers, SMT
    <3>2. \A x \in Int : 0 * x = 0
      BY SMT
    <3> QED BY <2>1, <3>1, <3>2, Zenon
  <2> QED BY <2>3, <2>4, <2>5, <2>6, <2>7, Zenon DEF Trajectory
<1> QED BY <1>10, <1>12, <1>13, Zenon DEF WindowInv

\* A second of the window: the rates between its ends add up.
LEMMA SecondMoves ==
    ASSUME SiteInv, StatesInv, WindowInv, Second
    PROVE  WindowInv'
<1>1. /\ now' = now + 1 /\ UNCHANGED <<regime, reading, snapshot>>
      /\ load' \in Loads /\ pv' \in Pvs
      /\ kept' => kept /\ InIntervals(snapshot, load', pv')
  BY DEF Second
<1>2. PICK r \in Rates(power) : energy' = energy + r
  BY DEF Second
<1>3. /\ power \in Int /\ energy \in Int /\ now \in Nat /\ SnapshotTyped
      /\ snapshot.time \in Nat /\ snapshot.time <= now
      /\ snapshot.energyLow \in Int /\ snapshot.energyHigh \in Int
  BY Numbers DEF WindowInv, SiteTyped, SnapshotTyped
<1>4. IntervalLow(applied) \in Int /\ IntervalHigh(applied) \in Int
  <2>1. applied.low \in Int /\ applied.high \in Int
    BY DEF SiteInv, Typed, AppliedStates
  <2> QED BY <2>1, ProfileNumbers DEF IntervalLow, IntervalHigh
<1> DEFINE least == Min({power, 0, IntervalLow(applied)})
           most == Max({power, 0, IntervalHigh(applied)})
<1>5. /\ least \in Int /\ least \in {power, 0, IntervalLow(applied)}
      /\ most \in Int /\ most \in {power, 0, IntervalHigh(applied)}
  <2>1. least \in {power, 0, IntervalLow(applied)}
    BY <1>3, <1>4, 0 \in Int, MinOfThree, Zenon
  <2>2. most \in {power, 0, IntervalHigh(applied)}
    BY <1>3, <1>4, 0 \in Int, MaxOfThree, Zenon
  <2> QED BY <1>3, <1>4, <2>1, <2>2
<1>6. power' \in Int /\ least <= power' /\ power' <= most
  <2>1. power' \in least..most
    BY DEF Second
  <2> HIDE DEF least, most
  <2> QED BY <1>5, <2>1
<1> HIDE DEF least, most
<1>7. r \in Int
  <2>1. LeastRate(power) \in Int
    BY <1>3, ProfileNumbers, Division, SMT DEF LeastRate
  <2> QED BY <1>3, <2>1 DEF Rates
<1>8. SiteTyped'
  <2>1. energy' \in Int /\ load' \in Nat /\ pv' \in Nat
    BY <1>1, <1>2, <1>3, <1>7, SiteAssumption
  <2>2. SnapshotTyped'
    <3>1. now <= now'
      BY <1>1, <1>3
    <3>2. snapshot.time <= now'
      BY <1>1, <1>3
    <3> QED BY <1>1, <1>3, <3>2, Zenon DEF SnapshotTyped
  <2> QED BY <1>1, <1>6, <2>1, <2>2, Zenon DEF WindowInv, SiteTyped
<1>9. snapshot'.taken => Authorized'
  BY <1>1, Zenon DEF WindowInv, Authorized, WindowLow, WindowHigh
<1>10. ASSUME Fresh \/ (RightClocks /\ Delivered), snapshot.taken, kept'
       PROVE  Trajectory'
  <2> DEFINE t == now - snapshot.time
             R == WindowLow * Million - LossMax * Eta
  <2>1. /\ WindowLow <= power /\ power <= WindowHigh
        /\ t * R <= Eta * (energy - snapshot.energyLow)
        /\ energy - snapshot.energyHigh <= t * WindowHigh
    BY <1>1, <1>10, Zenon DEF WindowInv, Trajectory
  <2>2. InIntervals(snapshot', load', pv')
    BY <1>1, <1>10, Zenon DEF InIntervals
  <2>3. State(applied) \in {snapshot.before, snapshot.command, Fallback}
    BY <1>10, Zenon DEF StatesInv, Reckoned
  <2>4. /\ WindowLow \in Int /\ WindowLow <= 0 /\ WindowHigh \in Int /\ 0 <= WindowHigh
        /\ WindowLow <= IntervalLow(applied) /\ IntervalHigh(applied) <= WindowHigh
    BY <1>3, <2>3, WindowEnds
  <2>5. WindowLow' = WindowLow /\ WindowHigh' = WindowHigh
    BY <1>1, Zenon DEF WindowLow, WindowHigh
  <2>6. WindowLow' <= power' /\ power' <= WindowHigh'
    <3>1. WindowLow <= least /\ most <= WindowHigh
      BY <1>5, <2>1, <2>4, Zenon
    <3> QED BY <1>5, <1>6, <2>4, <2>5, <3>1
  <2>7. r <= WindowHigh /\ R <= Eta * r
    BY <1>3, <2>1, <2>4, RateBounds
  <2>8. t \in Nat /\ now' - snapshot'.time = t + 1
    BY <1>1, <1>3
  <2>9. R \in Int
    BY <2>4, ProfileNumbers, SMT
  <2> HIDE DEF t, R
  <2>10. (t + 1) * R <= Eta * (energy' - snapshot'.energyLow)
    <3> DEFINE e == energy - snapshot.energyLow
    <3>1. e \in Int /\ energy' - snapshot'.energyLow = e + r
      BY <1>1, <1>2, <1>3, <1>7
    <3>2. t * R <= Eta * e
      BY <2>1
    <3> HIDE DEF e
    <3>3. (t + 1) * R = t * R + R
      BY <2>8, <2>9, Successor
    <3>4. Eta * (e + r) = Eta * e + Eta * r
      BY <1>7, <3>1, ProfileNumbers, SMT
    <3>5. t * R \in Int /\ Eta * e \in Int /\ Eta * r \in Int
      BY <1>7, <2>8, <2>9, <3>1, ProfileNumbers, SMT
    <3> QED BY <2>7, <2>9, <3>1, <3>2, <3>3, <3>4, <3>5
  <2>11. energy' - snapshot'.energyHigh <= (t + 1) * WindowHigh
    <3>1. (t + 1) * WindowHigh = t * WindowHigh + WindowHigh
      BY <2>4, <2>8, Successor
    <3>2. t * WindowHigh \in Int
      BY <2>4, <2>8, SMT
    <3> QED BY <1>1, <1>2, <1>3, <1>7, <2>1, <2>4, <2>7, <3>1, <3>2
  <2> QED BY <2>2, <2>5, <2>6, <2>8, <2>10, <2>11, Zenon DEF Trajectory, R
<1>11. (Fresh' \/ (RightClocks' /\ Delivered')) /\ snapshot'.taken /\ kept' => Trajectory'
  BY <1>1, <1>10, Zenon DEF Fresh, RightClocks, Delivered
<1> QED BY <1>8, <1>9, <1>11, Zenon DEF WindowInv

\* Every step keeps the trajectory within what the window allows.
LEMMA WindowStep ==
    ASSUME SiteInv, StatesInv, WindowInv, [Next]_vars
    PROVE  WindowInv'
<1>1. CASE Second
  BY <1>1, SecondMoves
<1>2. CASE \E i \in Records : ReadRecord(i)
  <2> PICK i \in Records : ReadRecord(i)
    BY <1>2
  <2>1. CASE output'.kind = "command"
    BY <2>1, SnapshotOpens
  <2>2. CASE output'.kind # "command"
    <3>1. UNCHANGED <<site, snapshot, kept, now, regime>> /\ reading' = reading
      BY <2>2 DEF ReadRecord
    <3> QED BY <3>1, WindowStill
  <2> QED BY <2>1, <2>2
<1>3. CASE Measure \/ LoseRecord \/ Apply \/ Lose \/ UNCHANGED vars
  <2>1. /\ UNCHANGED <<site, snapshot, kept, now, regime>>
        /\ reading' = reading \/ reading' = Reading
    BY <1>3 DEF Measure, LoseRecord, Apply, Lose, vars
  <2> QED BY <2>1, WindowStill
<1> QED BY <1>1, <1>2, <1>3 DEF Next

\* There is no window at first.
LEMMA WindowInitially == ASSUME Init PROVE WindowInv
<1>1. /\ now = 0 /\ power = 0 /\ load \in Loads /\ pv \in Pvs /\ energy \in Energies
      /\ reading = Reading
      /\ snapshot = [taken |-> FALSE, time |-> 0, before |-> Fallback,
                     command |-> Fallback, energyLow |-> 0, energyHigh |-> 0,
                     loadLow |-> 0, loadHigh |-> 0, pvLow |-> 0, pvHigh |-> 0]
  BY DEF Init
<1>2. energy \in Int /\ load \in Nat /\ pv \in Nat
  BY <1>1, SiteAssumption
<1>3. reading.energyLow = energy /\ reading.energyHigh = energy
  BY <1>1 DEF Reading
<1>4. SnapshotTyped
  BY <1>1 DEF SnapshotTyped, Fallback
<1>5. SiteTyped
  BY <1>1, <1>2, <1>3, <1>4 DEF SiteTyped
<1>6. ~snapshot.taken
  BY <1>1
<1> QED BY <1>5, <1>6 DEF WindowInv

\* The trajectory of a window, for every profile and every run.
THEOREM WindowInvariance == Spec => []WindowInv
<1>1. Init => WindowInv
  BY WindowInitially
<1>2. SiteInv /\ StatesInv /\ WindowInv /\ [Next]_vars => WindowInv'
  BY WindowStep
<1> QED BY <1>1, <1>2, Invariance, StatesInvariance, PTL DEF Spec

\* The ends of two.
LEMMA MinOfTwo ==
    ASSUME NEW a \in Int, NEW b \in Int, NEW x \in Int, a <= x \/ b <= x
    PROVE  x >= Min({a, b})
<1>1. \E y \in {a, b} : \A z \in {a, b} : y <= z
  <2>1. CASE a <= b  BY <2>1
  <2>2. CASE b <= a  BY <2>2
  <2> QED BY <2>1, <2>2
<1> QED BY <1>1 DEF Min

\* What is at most one of two numbers is at most the greater.
LEMMA MaxOfTwo ==
    ASSUME NEW a \in Int, NEW b \in Int, NEW x \in Int, x <= a \/ x <= b
    PROVE  x <= Max({a, b})
<1>1. \E y \in {a, b} : \A z \in {a, b} : y >= z
  <2>1. CASE a <= b  BY <2>1
  <2>2. CASE b <= a  BY <2>2
  <2> QED BY <2>1, <2>2
<1> QED BY <1>1 DEF Max

\* Within a window grid power keeps to its limits, or to those of the fallback.
LEMMA GridWithin ==
    ASSUME SiteInv, WindowInv, Trajectory, Authorized
    PROVE  LET grid == load + power - pv
           IN /\ grid >= Min({-ExportCap, snapshot.loadLow + FallbackLow - snapshot.pvHigh})
              /\ grid <= Max({ImportCap, snapshot.loadHigh + FallbackHigh - snapshot.pvLow})
<1> DEFINE grid == load + power - pv
           low == snapshot.loadLow + FallbackLow - snapshot.pvHigh
           high == snapshot.loadHigh + FallbackHigh - snapshot.pvLow
<1>1. /\ load \in Nat /\ pv \in Nat /\ power \in Int /\ SnapshotTyped
      /\ snapshot.loadLow \in Nat /\ snapshot.loadHigh \in Nat
      /\ snapshot.pvLow \in Nat /\ snapshot.pvHigh \in Nat
  BY DEF WindowInv, SiteTyped, SnapshotTyped
<1>2. /\ WindowLow <= power /\ power <= WindowHigh
      /\ snapshot.loadLow <= load /\ load <= snapshot.loadHigh
      /\ snapshot.pvLow <= pv /\ pv <= snapshot.pvHigh
  BY DEF Trajectory, InIntervals
<1>3. /\ WindowLow \in Int /\ WindowHigh \in Int
      /\ WindowLow = FallbackLow \/ WindowLow < FallbackLow
      /\ WindowHigh = FallbackHigh \/ FallbackHigh < WindowHigh
  BY <1>1, WindowEnds
<1>4. /\ WindowLow < FallbackLow => snapshot.pvHigh <= snapshot.loadLow + WindowLow + ExportCap
      /\ FallbackHigh < WindowHigh =>
            snapshot.loadHigh + WindowHigh <= ImportCap + snapshot.pvLow
  BY DEF Authorized, ExportOk, ImportOk
<1>5. /\ grid \in Int /\ low \in Int /\ high \in Int
      /\ -ExportCap \in Int /\ ImportCap \in Int
      /\ FallbackLow \in Int /\ FallbackHigh \in Int
  BY <1>1, ProfileNumbers
<1>6. low <= grid \/ -ExportCap <= grid
  <2>1. CASE WindowLow = FallbackLow
    BY <1>1, <1>2, <1>5, <2>1
  <2>2. CASE WindowLow < FallbackLow
    <3>1. snapshot.pvHigh <= snapshot.loadLow + WindowLow + ExportCap
      BY <1>4, <2>2
    <3>2. ExportCap \in Nat
      BY ProfileNumbers
    <3> QED BY <1>1, <1>2, <1>3, <3>1, <3>2
  <2> QED BY <1>3, <2>1, <2>2
<1>7. grid <= high \/ grid <= ImportCap
  <2>1. CASE WindowHigh = FallbackHigh
    BY <1>1, <1>2, <1>5, <2>1
  <2>2. CASE FallbackHigh < WindowHigh
    BY <1>1, <1>2, <1>3, <1>4, <1>5, <2>2
  <2> QED BY <1>3, <2>1, <2>2
<1> HIDE DEF grid, low, high
<1>8. grid >= Min({-ExportCap, low})
  BY <1>5, <1>6, MinOfTwo
<1>9. grid <= Max({ImportCap, high})
  BY <1>5, <1>7, MaxOfTwo
<1> QED BY <1>8, <1>9 DEF grid, low, high

\* Within a window stored energy keeps to its limits, or to those of the fallback.
LEMMA EnergyWithin ==
    ASSUME SiteInv, WindowInv, Trajectory, Authorized, now <= snapshot.time + Window
    PROVE  LET t == now - snapshot.time
           IN /\ energy >= Min({Floor, snapshot.energyLow - FallbackDrain(t)})
              /\ energy <= Max({Ceiling, snapshot.energyHigh + FallbackHigh * t})
<1> DEFINE t == now - snapshot.time
           high == snapshot.energyHigh + FallbackHigh * t
<1>1. /\ energy \in Int /\ SnapshotTyped /\ now \in Nat
      /\ snapshot.time \in Nat /\ snapshot.time <= now
      /\ snapshot.energyLow \in Int /\ snapshot.energyHigh \in Int
  BY Numbers DEF WindowInv, SiteTyped, SnapshotTyped
<1>2. t \in Nat /\ t <= Window
  BY <1>1, ProfileNumbers
<1>3. /\ t * (WindowLow * Million - LossMax * Eta) <= Eta * (energy - snapshot.energyLow)
      /\ energy - snapshot.energyHigh <= t * WindowHigh
  BY DEF Trajectory
<1> HIDE DEF t
<1>4. /\ WindowLow \in Int /\ WindowLow <= 0 /\ WindowHigh \in Int /\ 0 <= WindowHigh
      /\ WindowLow = FallbackLow \/ WindowLow < FallbackLow
      /\ WindowHigh = FallbackHigh \/ FallbackHigh < WindowHigh
  BY <1>1, WindowEnds
<1>5. /\ WindowLow < FallbackLow => Floor + LowDrain(WindowLow) <= snapshot.energyLow
      /\ FallbackHigh < WindowHigh => snapshot.energyHigh + HighGain(WindowHigh) <= Ceiling
  BY DEF Authorized, FloorOk, CeilingOk
<1>6. Floor <= energy \/ snapshot.energyLow - FallbackDrain(t) <= energy
  <2>1. CASE WindowLow = FallbackLow
    BY <1>1, <1>2, <1>3, <2>1, FallbackKept
  <2>2. CASE WindowLow < FallbackLow
    BY <1>1, <1>2, <1>3, <1>4, <1>5, <2>2, FloorKept
  <2> QED BY <1>4, <2>1, <2>2
<1>7. energy <= high \/ energy <= Ceiling
  <2>1. CASE WindowHigh = FallbackHigh
    <3>1. t * FallbackHigh = FallbackHigh * t /\ t * FallbackHigh \in Int
      BY <1>2, ProfileNumbers, SMT
    <3> QED BY <1>1, <1>3, <2>1, <3>1
  <2>2. CASE FallbackHigh < WindowHigh
    BY <1>1, <1>2, <1>3, <1>4, <1>5, <2>2, CeilingKept
  <2> QED BY <1>4, <2>1, <2>2
<1>8. energy >= Min({Floor, snapshot.energyLow - FallbackDrain(t)})
  <2>1. FallbackDrain(t) \in Int
    <3>1. ((-FallbackLow) * t * Million) \in Int
      BY <1>2, ProfileNumbers, SMT
    <3>2. LossMax * t \in Int
      BY <1>2, ProfileNumbers, SMT
    <3> QED BY <3>1, <3>2, Division, ProfileNumbers DEF FallbackDrain
  <2>2. Floor \in Int /\ snapshot.energyLow - FallbackDrain(t) \in Int
    BY <1>1, <2>1, ProfileNumbers
  <2> QED BY <1>1, <1>6, <2>2, MinOfTwo
<1>9. energy <= Max({Ceiling, high})
  <2>1. Ceiling \in Int /\ high \in Int
    <3>1. FallbackHigh * t \in Int
      BY <1>2, ProfileNumbers, SMT
    <3> QED BY <1>1, <3>1, ProfileNumbers
  <2> HIDE DEF high
  <2> QED BY <1>1, <1>7, <2>1, MaxOfTwo
<1> QED BY <1>8, <1>9 DEF t, high

\* WithinOrFallback of Spec.lean: while the assumptions of the last accepted
\* snapshot hold, stored energy and grid power stay within the site's limits, or
\* within what an immediate return to fallback would have admitted; for every
\* profile, where readings are fresh or clocks are right and messages arrive.
THEOREM WithinBounds ==
    ASSUME FreshOrDelivered PROVE Spec => []WithinOrFallback
<1>1. SiteInv /\ WindowInv => WithinOrFallback
  <2> SUFFICES ASSUME SiteInv, WindowInv, snapshot.taken, kept, now <= snapshot.time + Window
               PROVE  LET t == now - snapshot.time
                          grid == load + power - pv
                      IN /\ energy >= Min({Floor, snapshot.energyLow - FallbackDrain(t)})
                         /\ energy <= Max({Ceiling, snapshot.energyHigh + FallbackHigh * t})
                         /\ grid >= Min({-ExportCap,
                                         snapshot.loadLow + FallbackLow - snapshot.pvHigh})
                         /\ grid <= Max({ImportCap,
                                         snapshot.loadHigh + FallbackHigh - snapshot.pvLow})
    BY DEF WithinOrFallback
  <2>1. regime \in Regimes
    BY DEF SiteInv, Typed
  <2>2. Fresh \/ (RightClocks /\ Delivered)
    BY <2>1, FreshOrDelivered, Zenon DEF FreshOrDelivered, Fresh, RightClocks, Delivered
  <2>3. Trajectory /\ Authorized
    BY <2>2, Zenon DEF WindowInv
  <2> QED BY <2>3, GridWithin, EnergyWithin
<1> QED BY <1>1, Invariance, WindowInvariance, PTL

=============================================================================
