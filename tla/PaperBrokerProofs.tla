------------------------- MODULE PaperBrokerProofs -------------------------
(***************************************************************************)
(* What holds of the paper broker for every number of symbols, every       *)
(* configuration and every run, of the panel that proposes its trades, of  *)
(* the funding clock that charges it for every schedule of the exchange    *)
(* and of the supervisor that restarts it, proved with TLAPS.              *)
(***************************************************************************)
EXTENDS PaperBroker, Panel, FundingClock, Supervisor, SumTheorems, FiniteSetTheorems, TLAPS

-----------------------------------------------------------------------------
(* Types of the values the actions build *)

(* A side is worth +1 or -1, so products with it stay linear. *)
LEMMA DirValue == \A side : Dir(side) \in {-1, 1}
  BY DEF Dir

LEMMA DirTimes == \A side : \A x \in Int : Dir(side) * x \in Int
  BY DEF Dir

(* A filled order becomes a well-formed position. *)
LEMMA NewPositionType ==
  ASSUME NEW o \in Order, NEW price \in Int, NEW im \in Nat, NEW fee \in Nat
  PROVE  NewPosition(o, price, im, fee) \in Position
<1>1. Dir(o.side) * StopDist \in Int
  BY BrokerAssumption, DirTimes
<1>2. o.id \in Ids /\ o.side \in Side
  BY DEF Order
<1>3. price - Dir(o.side) * StopDist \in Int /\ 0 \in Int /\ FALSE \in BOOLEAN
  BY <1>1
<1>4. QED
  BY <1>2, <1>3, BrokerAssumption DEF NewPosition, Position

(* The stop manageStop computes is a price, and the position stays one. *)
LEMMA ManageStopType ==
  ASSUME NEW p \in Position, NEW price \in Int
  PROVE  /\ ManageStop(p, price) \in Position
         /\ ManageStop(p, price).id = p.id
         /\ ManageStop(p, price).fee = p.fee
         /\ ManageStop(p, price).funding = p.funding
         /\ ManageStop(p, price).side = p.side
<1> DEFINE best == Better(p.side, price, p.best)
<1>1. p.best \in Int /\ p.entry \in Int /\ p.stop \in Int
  BY DEF Position
<1>2. best \in Int
  BY <1>1 DEF Better
<1>3. Candidate(p, best) \in Int
  <2>1. /\ Dir(p.side) * FeeCushion \in Int
        /\ Dir(p.side) * TrailDist \in Int
    BY BrokerAssumption, DirTimes
  <2>2. /\ p.entry + Dir(p.side) * FeeCushion \in Int
        /\ best - Dir(p.side) * TrailDist \in Int
    BY <1>1, <1>2, <2>1
  <2>3. QED
    BY <2>2 DEF Candidate, Better
<1>4. [p EXCEPT !.best = best] \in Position
  BY <1>2 DEF Position
<1>5. [p EXCEPT !.best = best, !.stop = Candidate(p, best), !.moved = TRUE] \in Position
  BY <1>2, <1>3 DEF Position
<1> HIDE DEF best
<1>6. \/ ManageStop(p, price) = p
      \/ ManageStop(p, price) = [p EXCEPT !.best = best]
      \/ ManageStop(p, price) =
            [p EXCEPT !.best = best, !.stop = Candidate(p, best), !.moved = TRUE]
  BY DEF ManageStop, best
<1>7. QED
  BY <1>4, <1>5, <1>6 DEF Position

(* A closed position becomes a well-formed trade, and its ledger credit is
   an amount. *)
LEMMA ClosedTradeType ==
  ASSUME NEW p \in Position, NEW reason \in Reason, NEW gross \in Int, NEW fee \in Nat
  PROVE  /\ ClosedTrade(p, reason, gross, fee) \in Trade
         /\ CloseCredit(p, reason, gross, fee) \in Int
         /\ ClosedTrade(p, reason, gross, fee).pnl =
               CloseCredit(p, reason, gross, fee) - (p.fee + p.funding)
<1>1. p.fee \in Nat /\ p.funding \in Int /\ p.im \in Nat
  BY DEF Position
<1>2. /\ p.fee + fee \in Nat /\ -p.im \in Int
      /\ gross - (p.fee + fee) - p.funding \in Int
      /\ -p.im + p.fee + p.funding \in Int /\ gross - fee \in Int
  BY <1>1
<1>3. CloseCredit(p, reason, gross, fee) \in Int
  BY <1>2 DEF CloseCredit
<1>4. ClosedTrade(p, reason, gross, fee) \in Trade
  BY <1>1, <1>2 DEF ClosedTrade, Trade
<1>5. ClosedTrade(p, reason, gross, fee).pnl =
               CloseCredit(p, reason, gross, fee) - (p.fee + p.funding)
  BY <1>1, <1>2 DEF ClosedTrade, CloseCredit
<1>6. QED
  BY <1>3, <1>4, <1>5

(* A corrected trade is a trade whose PnL moved by the correction. *)
LEMMA CorrectedType ==
  ASSUME NEW t \in Trade \cup {None}, NEW delta \in Int
  PROVE  /\ Corrected(t, delta) \in Trade \cup {None}
         /\ t = None <=> Corrected(t, delta) = None
         /\ t # None => Corrected(t, delta).pnl = t.pnl - delta
<1>1. CASE t = None
  BY <1>1 DEF Corrected
<1>2. CASE t # None
  <2>1. t \in Trade /\ t.funding + delta \in Int /\ t.pnl - delta \in Int
    BY <1>2 DEF Trade
  <2>2. [t EXCEPT !.funding = @ + delta, !.pnl = @ - delta] \in Trade
    BY <2>1 DEF Trade
  <2>3. QED
    BY <1>2, <2>1, <2>2, NoneAssumption DEF Corrected, Trade
<1>3. QED
  BY <1>1, <1>2

-----------------------------------------------------------------------------
(* Type correctness, action by action *)

LEMMA InitType == Init => TypeOK
<1> SUFFICES ASSUME Init PROVE TypeOK
  OBVIOUS
<1>1. /\ positions \in [Symbols -> Position \cup {None}]
      /\ pending \in [Symbols -> Order \cup {None}]
  BY DEF Init
<1>2. cooldowns \in [Symbols -> Nat] /\ marked \subseteq Symbols
  BY DEF Init
<1>3. closed \in [Ids -> Trade \cup {None}]
  BY DEF Init
<1>4. events \in [1..MaxFundings -> FundingEvent \cup {None}]
  BY DEF Init
<1>5. realizedPnl \in Int /\ nextId \in Nat
  BY DEF Init
<1>6. halted \in BOOLEAN
  BY DEF Init
<1>7. posted \in [Ids -> Int]
  BY DEF Init
<1>8. QED
  BY <1>1, <1>2, <1>3, <1>4, <1>5, <1>6, <1>7 DEF TypeOK

LEMMA ProposalType ==
  ASSUME TypeOK, NEW s \in Symbols, NEW side \in Side,
         NEW mode \in {"passive", "taker"}, NEW latency \in 1..Latency,
         OnProposal(s, side, mode, latency)
  PROVE  TypeOK'
<1>1. [id |-> nextId, side |-> side, mode |-> mode, ready |-> latency,
       rest |-> IF mode = "passive" THEN latency + RestTime ELSE 0] \in Order
  BY BrokerAssumption DEF Order, OnProposal
<1>2. pending' \in [Symbols -> Order \cup {None}]
  BY <1>1 DEF OnProposal, TypeOK
<1>3. nextId' \in Nat
  BY DEF OnProposal, TypeOK
<1>4. QED
  BY <1>2, <1>3 DEF OnProposal, TypeOK

(* What a processed order can do to positions and ledger. *)
LEMMA TryFillType ==
  ASSUME TypeOK, NEW s \in Symbols, pending[s] # None, NEW fee \in Nat,
         TryFill(s, fee)
  PROVE  /\ positions' \in [Symbols -> Position \cup {None}]
         /\ realizedPnl' \in Int
         /\ posted' \in [Ids -> Int]
<1>1. CASE Refuse
  BY <1>1 DEF Refuse, TypeOK
<1>2. CASE \E price \in Prices, im \in Margins : Fill(s, pending[s], price, im, fee)
  <2>1. PICK price \in Prices, im \in Margins : Fill(s, pending[s], price, im, fee)
    BY <1>2
  <2>2. price \in Int /\ im \in Nat
    BY BrokerAssumption
  <2>3. pending[s] \in Order /\ pending[s].id \in Ids
    BY DEF TypeOK, Order
  <2>4. NewPosition(pending[s], price, im, fee) \in Position
    BY <2>2, <2>3, NewPositionType
  <2>5. positions' \in [Symbols -> Position \cup {None}]
    BY <2>1, <2>4 DEF Fill, TypeOK
  <2>6. realizedPnl' \in Int /\ posted' \in [Ids -> Int]
    BY <2>1, <2>3 DEF Fill, TypeOK
  <2>7. QED
    BY <2>5, <2>6
<1>3. QED
  BY <1>1, <1>2 DEF TryFill

LEMMA ProcessType ==
  ASSUME TypeOK, NEW s \in Symbols,
         ProcessTaker(s) \/ ProcessCrossed(s) \/ ProcessExpired(s)
  PROVE  TypeOK'
<1>1. pending[s] # None
  BY DEF ProcessTaker, ProcessCrossed, ProcessExpired, Dequeue
<1>2. /\ positions' \in [Symbols -> Position \cup {None}]
      /\ realizedPnl' \in Int
      /\ posted' \in [Ids -> Int]
  <2>1. ASSUME Refuse
        PROVE  /\ positions' \in [Symbols -> Position \cup {None}]
               /\ realizedPnl' \in Int
               /\ posted' \in [Ids -> Int]
    BY <2>1 DEF Refuse, TypeOK
  <2>2. Refuse \/ TryFill(s, TakerFee) \/ TryFill(s, MakerFee)
    BY DEF ProcessTaker, ProcessCrossed, ProcessExpired
  <2>3. QED
    BY <1>1, <2>1, <2>2, TryFillType, BrokerAssumption
<1>3. /\ pending' = [pending EXCEPT ![s] = None]
      /\ UNCHANGED <<cooldowns, marked, closed, events, halted, nextId>>
  BY DEF ProcessTaker, ProcessCrossed, ProcessExpired, Dequeue
<1>4. pending' \in [Symbols -> Order \cup {None}]
  BY <1>3 DEF TypeOK
<1>5. QED
  BY <1>2, <1>3, <1>4 DEF TypeOK

LEMMA CloseType ==
  ASSUME TypeOK, NEW s \in Symbols, NEW p \in Position, NEW exit \in Int,
         NEW reason \in Reason, ClosePosition(s, p, exit, reason),
         marked' \subseteq Symbols
  PROVE  TypeOK'
<1> DEFINE gross   == Dir(p.side) * (exit - p.entry)
           exitFee == IF reason = "TP" /\ TpAsLimit THEN MakerFee ELSE TakerFee
           credit  == CloseCredit(p, reason, gross, exitFee)
           trade   == ClosedTrade(p, reason, gross, exitFee)
<1>1. p.id \in Ids /\ p.entry \in Int /\ exit - p.entry \in Int
  BY DEF Position
<1>2. gross \in Int /\ exitFee \in Nat
  BY <1>1, DirTimes, BrokerAssumption
<1> HIDE DEF gross, exitFee
<1>3. credit \in Int /\ trade \in Trade
  BY <1>2, ClosedTradeType
<1> HIDE DEF credit, trade
<1>4. /\ realizedPnl' = realizedPnl + credit
      /\ posted' = [posted EXCEPT ![p.id] = @ + credit]
      /\ closed' = [closed EXCEPT ![p.id] = trade]
      /\ positions' = [positions EXCEPT ![s] = None]
      /\ cooldowns' = [cooldowns EXCEPT ![s] = IF CoolsOff(trade) THEN Cooldown ELSE @]
      /\ halted' = (halted \/ realizedPnl' <= -MaxDrawdown)
      /\ UNCHANGED <<pending, events, nextId>>
  BY DEF ClosePosition, gross, exitFee, credit, trade
<1>5. realizedPnl' \in Int /\ posted' \in [Ids -> Int]
  BY <1>1, <1>3, <1>4 DEF TypeOK
<1>6. closed' \in [Ids -> Trade \cup {None}]
  BY <1>3, <1>4 DEF TypeOK
<1>7. positions' \in [Symbols -> Position \cup {None}]
  BY <1>4 DEF TypeOK
<1>8. cooldowns' \in [Symbols -> Nat]
  BY <1>4, BrokerAssumption DEF TypeOK
<1>9. halted' \in BOOLEAN
  BY <1>4
<1>10. QED
  BY <1>4, <1>5, <1>6, <1>7, <1>8, <1>9 DEF TypeOK

LEMMA MarkPriceType ==
  ASSUME TypeOK, NEW s \in Symbols, NEW price \in Prices, NEW mark \in Prices,
         NEW exit \in Prices, MarkPrice(s, price, mark, exit)
  PROVE  TypeOK'
<1>1. marked' \subseteq Symbols
  BY DEF MarkPrice, TypeOK
<1>2. CASE positions[s] = None
  BY <1>1, <1>2 DEF MarkPrice, TypeOK
<1>3. CASE positions[s] # None
  <2> DEFINE p == positions[s]
             q == ManageStop(p, price)
  <2>1. p \in Position /\ price \in Int /\ exit \in Int
    BY <1>3, BrokerAssumption DEF TypeOK
  <2>2. q \in Position
    BY <2>1, ManageStopType
  <2>3. Liq(p) \in Int /\ Target(p) \in Int
    BY <2>1, DirTimes, BrokerAssumption DEF Liq, Target, Position
  <2>4. \/ \E r \in Reason, x \in Int : ClosePosition(s, p, x, r)
        \/ \E r \in Reason, x \in Int : ClosePosition(s, q, x, r)
        \/ /\ positions' = [positions EXCEPT ![s] = q]
           /\ UNCHANGED <<pending, cooldowns, closed, events,
                          realizedPnl, halted, nextId, posted>>
    <3>1. \/ ClosePosition(s, p, Liq(p), "LIQ")
          \/ ClosePosition(s, q, exit, "TRAIL")
          \/ ClosePosition(s, q, exit, "SL")
          \/ ClosePosition(s, q, Target(p), "TP")
          \/ ClosePosition(s, q, exit, "TP")
          \/ /\ positions' = [positions EXCEPT ![s] = q]
             /\ UNCHANGED <<pending, cooldowns, closed, events,
                            realizedPnl, halted, nextId, posted>>
      BY <1>3 DEF MarkPrice
    <3>2. {"LIQ", "TRAIL", "SL", "TP"} \subseteq Reason
      BY DEF Reason
    <3> HIDE DEF p, q
    <3>3. QED
      BY <2>1, <2>3, <3>1, <3>2
  <2> HIDE DEF p, q
  <2>5. CASE \/ \E r \in Reason, x \in Int : ClosePosition(s, p, x, r)
             \/ \E r \in Reason, x \in Int : ClosePosition(s, q, x, r)
    BY <1>1, <2>1, <2>2, <2>5, CloseType
  <2>6. CASE /\ positions' = [positions EXCEPT ![s] = q]
             /\ UNCHANGED <<pending, cooldowns, closed, events,
                            realizedPnl, halted, nextId, posted>>
    BY <1>1, <2>2, <2>6 DEF TypeOK
  <2>7. QED
    BY <2>4, <2>5, <2>6
<1>4. QED
  BY <1>2, <1>3

LEMMA SweepType ==
  ASSUME TypeOK, NEW s \in Symbols, NEW exit \in Prices,
         ManageOpen(s, exit) \/ CloseManually(s, exit)
  PROVE  TypeOK'
<1>1. positions[s] \in Position /\ exit \in Int /\ marked' \subseteq Symbols
  BY BrokerAssumption DEF ManageOpen, CloseManually, TypeOK
<1>2. \E r \in Reason : ClosePosition(s, positions[s], exit, r)
  <2>1. {"TIME", "CARRY", "MANUAL"} \subseteq Reason
    BY DEF Reason
  <2>2. QED
    BY <2>1 DEF ManageOpen, CloseManually
<1>3. QED
  BY <1>1, <1>2, CloseType

LEMMA SettleType ==
  ASSUME TypeOK, NEW s \in Symbols, NEW n \in 1..MaxFundings,
         NEW fee \in FundingFees, NEW final \in BOOLEAN,
         SettleFundingBoundary(s, n, fee, final)
  PROVE  TypeOK'
<1>1. positions[s] \in Position /\ fee \in Int
  BY BrokerAssumption DEF SettleFundingBoundary, TypeOK
<1>2. positions[s].id \in Ids /\ positions[s].funding + fee \in Int
  BY <1>1 DEF Position
<1>3. [positions[s] EXCEPT !.funding = @ + fee] \in Position
  BY <1>1, <1>2 DEF Position
<1>4. positions' \in [Symbols -> Position \cup {None}]
  BY <1>3 DEF SettleFundingBoundary, TypeOK
<1>5. realizedPnl' \in Int /\ posted' \in [Ids -> Int]
  BY <1>1, <1>2 DEF SettleFundingBoundary, TypeOK
<1>6. events' \in [1..MaxFundings -> FundingEvent \cup {None}]
  <2>1. [id |-> positions[s].id, amount |-> fee, settled |-> final] \in FundingEvent
    BY <1>1, <1>2 DEF FundingEvent
  <2>2. QED
    BY <2>1 DEF SettleFundingBoundary, TypeOK
<1>7. QED
  BY <1>4, <1>5, <1>6 DEF SettleFundingBoundary, TypeOK

LEMMA ReconcileType ==
  ASSUME TypeOK, NEW n \in 1..MaxFundings, NEW fee \in FundingFees,
         ReconcileSettledFunding(n, fee)
  PROVE  TypeOK'
<1> DEFINE id == events[n].id
           delta == fee - events[n].amount
<1>1. events[n] \in FundingEvent
  BY DEF ReconcileSettledFunding, TypeOK
<1>2. id \in Ids /\ delta \in Int /\ fee \in Int
  BY <1>1, BrokerAssumption DEF FundingEvent
<1> HIDE DEF id, delta
<1>3. /\ events' = [events EXCEPT ![n].amount = fee, ![n].settled = TRUE]
      /\ realizedPnl' = realizedPnl - delta
      /\ posted' = [posted EXCEPT ![id] = @ - delta]
      /\ positions' = [s \in Symbols |->
             IF s \in OpenAs(id) THEN [positions[s] EXCEPT !.funding = @ + delta]
                                 ELSE positions[s]]
      /\ closed' \in {closed, [closed EXCEPT ![id] = Corrected(@, delta)]}
      /\ UNCHANGED <<pending, cooldowns, marked, halted, nextId>>
  BY DEF ReconcileSettledFunding, id, delta
<1>4. events' \in [1..MaxFundings -> FundingEvent \cup {None}]
  <2>1. [events[n] EXCEPT !.amount = fee, !.settled = TRUE] \in FundingEvent
    BY <1>1, <1>2 DEF FundingEvent
  <2>2. QED
    BY <1>3, <2>1 DEF TypeOK
<1>5. realizedPnl' \in Int /\ posted' \in [Ids -> Int]
  BY <1>2, <1>3 DEF TypeOK
<1>6. positions' \in [Symbols -> Position \cup {None}]
  <2>1. ASSUME NEW s \in OpenAs(id)
        PROVE  [positions[s] EXCEPT !.funding = @ + delta] \in Position
    <3>1. positions[s] \in Position
      BY DEF OpenAs, Held, TypeOK
    <3>2. positions[s].funding + delta \in Int
      BY <1>2, <3>1 DEF Position
    <3>3. QED
      BY <3>1, <3>2 DEF Position
  <2>2. QED
    BY <1>3, <2>1 DEF TypeOK
<1>7. closed' \in [Ids -> Trade \cup {None}]
  <2>1. Corrected(closed[id], delta) \in Trade \cup {None}
    BY <1>2, CorrectedType DEF TypeOK
  <2>2. QED
    BY <1>2, <1>3, <2>1 DEF TypeOK
<1>8. QED
  BY <1>3, <1>4, <1>5, <1>6, <1>7 DEF TypeOK

LEMMA TickType ==
  ASSUME TypeOK, Tick
  PROVE  TypeOK'
<1>1. \A t \in Nat : Countdown(t) \in Nat
  BY DEF Countdown
<1>2. positions' \in [Symbols -> Position \cup {None}]
  <2>1. ASSUME NEW s \in Symbols, positions[s] # None
        PROVE  [positions[s] EXCEPT !.hold = Countdown(@)] \in Position
    BY <1>1, <2>1 DEF TypeOK, Position
  <2>2. QED
    BY <2>1 DEF Tick
<1>3. pending' \in [Symbols -> Order \cup {None}]
  <2>1. ASSUME NEW s \in Symbols, pending[s] # None
        PROVE  [pending[s] EXCEPT !.ready = Countdown(@), !.rest = Countdown(@)] \in Order
    BY <1>1, <2>1 DEF TypeOK, Order
  <2>2. QED
    BY <2>1 DEF Tick
<1>4. cooldowns' \in [Symbols -> Nat]
  BY <1>1 DEF Tick, TypeOK
<1>5. QED
  BY <1>2, <1>3, <1>4 DEF Tick, TypeOK

LEMMA ResetType ==
  ASSUME TypeOK, Reset
  PROVE  TypeOK'
<1>1. positions' \in [Symbols -> Position \cup {None}]
  BY DEF Reset
<1>2. pending' \in [Symbols -> Order \cup {None}] /\ cooldowns' \in [Symbols -> Nat]
  BY DEF Reset
<1>3. closed' \in [Ids -> Trade \cup {None}] /\ posted' \in [Ids -> Int]
  BY DEF Reset
<1>4. events' \in [1..MaxFundings -> FundingEvent \cup {None}] /\ realizedPnl' \in Int
  BY DEF Reset
<1>5. halted' \in BOOLEAN
  BY DEF Reset
<1>6. marked' \subseteq Symbols /\ nextId' \in Nat
  BY DEF Reset, TypeOK
<1>7. QED
  BY <1>1, <1>2, <1>3, <1>4, <1>5, <1>6 DEF TypeOK

LEMMA NextType ==
  ASSUME TypeOK, [Next]_vars
  PROVE  TypeOK'
<1>1. CASE \E s \in Symbols : Step(s)
  BY <1>1, ProposalType, ProcessType, MarkPriceType, SweepType, SettleType DEF Step
<1>2. CASE \E n \in 1..MaxFundings, fee \in FundingFees : ReconcileSettledFunding(n, fee)
  BY <1>2, ReconcileType
<1>3. CASE Tick
  BY <1>3, TickType
<1>4. CASE Reset
  BY <1>4, ResetType
<1>5. CASE UNCHANGED vars
  BY <1>5 DEF vars, TypeOK
<1>6. QED
  BY <1>1, <1>2, <1>3, <1>4, <1>5 DEF Next

(* The broker's variables keep their types in every run. *)
THEOREM TypeCorrect == Spec => []TypeOK
  BY InitType, NextType, PTL DEF Spec

-----------------------------------------------------------------------------
(* The shapes a step can have, seen from the exposure it creates.  Every   *)
(* action has one of them, and the exposure invariants only need these.    *)

SameOutside(s) == \A t \in Symbols \ {s} : /\ positions'[t] = positions[t]
                                           /\ pending'[t] = pending[t]
                                           /\ cooldowns'[t] = cooldowns[t]

Enters(s, side) ==
    /\ ~halted /\ ~halted'
    /\ positions[s] = None /\ positions'[s] = None
    /\ pending[s] = None /\ pending'[s] # None /\ pending'[s].side = side
    /\ cooldowns[s] = 0 /\ cooldowns'[s] = 0
    /\ Cardinality(SlotsUsed) < MaxPositions
    /\ Cardinality(SameSide(side)) < MaxSameSide
    /\ SameOutside(s)

Fills(s) ==
    /\ ~halted /\ ~halted'
    /\ positions[s] = None /\ positions'[s] # None
    /\ pending[s] # None /\ pending'[s] = None
    /\ positions'[s].side = pending[s].side
    /\ cooldowns'[s] = cooldowns[s]
    /\ SameOutside(s)

Drops(s) ==
    /\ halted' = halted
    /\ positions'[s] = positions[s]
    /\ pending'[s] = None
    /\ cooldowns'[s] = cooldowns[s]
    /\ SameOutside(s)

Closes(s) ==
    /\ halted => halted'
    /\ positions[s] # None /\ positions'[s] = None
    /\ pending'[s] = pending[s]
    /\ SameOutside(s)

Keeps ==
    /\ halted' = halted
    /\ \A t \in Symbols :
          /\ positions'[t] = None <=> positions[t] = None
          /\ positions[t] # None => positions'[t].side = positions[t].side
          /\ pending'[t] = None <=> pending[t] = None
          /\ pending[t] # None => pending'[t].side = pending[t].side
          /\ cooldowns'[t] > 0 => cooldowns[t] > 0

Wipes == \A t \in Symbols : /\ positions'[t] = None
                            /\ pending'[t] = None
                            /\ cooldowns'[t] = 0

Shaped ==
    \/ \E s \in Symbols : \/ \E side \in Side : Enters(s, side)
                          \/ Fills(s) \/ Drops(s) \/ Closes(s)
    \/ Keeps
    \/ Wipes

(* What onProposal counts bounds what it protects. *)
LEMMA UnionBound ==
  ASSUME NEW S, NEW T, IsFiniteSet(S), IsFiniteSet(T),
         NEW m, Cardinality(S) + Cardinality(T) < m, m \in Nat
  PROVE  Cardinality(S \cup T) < m
<1>1. /\ Cardinality(S \cup T) =
            Cardinality(S) + Cardinality(T) - Cardinality(S \cap T)
      /\ IsFiniteSet(S \cap T)
  BY FS_Union, FS_Intersection
<1>2. /\ Cardinality(S) \in Nat /\ Cardinality(T) \in Nat
      /\ Cardinality(S \cap T) \in Nat
  BY <1>1, FS_CardinalityType
<1>3. QED
  BY <1>1, <1>2

LEMMA FreeRoom ==
  /\ SlotFree => Cardinality(SlotsUsed) < MaxPositions
  /\ \A side : SideFree(side) => Cardinality(SameSide(side)) < MaxSameSide
<1>1. /\ IsFiniteSet(Held) /\ IsFiniteSet(InFlight)
      /\ \A side : IsFiniteSet(HeldOn(side)) /\ IsFiniteSet(InFlightOn(side))
  <2>1. /\ Held \subseteq Symbols /\ InFlight \subseteq Symbols
        /\ \A side : HeldOn(side) \subseteq Symbols /\ InFlightOn(side) \subseteq Symbols
    BY DEF Held, InFlight, HeldOn, InFlightOn
  <2>2. QED
    BY <2>1, FS_Subset, BrokerAssumption
<1>2. MaxPositions \in Nat /\ MaxSameSide \in Nat
  BY BrokerAssumption
<1>3. SlotFree => Cardinality(SlotsUsed) < MaxPositions
  BY <1>1, <1>2, UnionBound DEF SlotFree, SlotsUsed
<1>4. ASSUME NEW side, SideFree(side)
      PROVE  Cardinality(SameSide(side)) < MaxSameSide
  BY <1>1, <1>2, <1>4, UnionBound DEF SideFree, SameSide
<1>5. QED
  BY <1>3, <1>4

LEMMA ProposalShape ==
  ASSUME TypeOK, NEW s \in Symbols, NEW side \in Side,
         NEW mode \in {"passive", "taker"}, NEW latency \in 1..Latency,
         OnProposal(s, side, mode, latency)
  PROVE  Enters(s, side)
<1> DEFINE o == [id |-> nextId, side |-> side, mode |-> mode, ready |-> latency,
                 rest |-> IF mode = "passive" THEN latency + RestTime ELSE 0]
<1>1. o \in Order /\ o # None /\ o.side = side
  BY BrokerAssumption, NoneAssumption DEF Order, OnProposal
<1> HIDE DEF o
<1>2. pending' = [pending EXCEPT ![s] = o]
  BY DEF OnProposal, o
<1>3. pending'[s] = o /\ \A t \in Symbols \ {s} : pending'[t] = pending[t]
  BY <1>2 DEF TypeOK
<1>4. cooldowns[s] = 0
  BY DEF OnProposal, Cooling, TypeOK
<1>5. ~halted /\ ~halted'
  BY DEF OnProposal
<1>6. QED
  BY <1>1, <1>3, <1>4, <1>5, FreeRoom DEF OnProposal, Exposed, Enters, SameOutside

LEMMA ProcessShape ==
  ASSUME TypeOK, NEW s \in Symbols,
         ProcessTaker(s) \/ ProcessCrossed(s) \/ ProcessExpired(s)
  PROVE  Fills(s) \/ Drops(s)
<1>1. /\ pending[s] # None
      /\ pending' = [pending EXCEPT ![s] = None]
      /\ cooldowns' = cooldowns
  BY DEF ProcessTaker, ProcessCrossed, ProcessExpired, Dequeue
<1>2. halted' = halted
  BY DEF ProcessTaker, ProcessCrossed, ProcessExpired, Dequeue
<1>3. pending'[s] = None /\ \A t \in Symbols \ {s} : pending'[t] = pending[t]
  BY <1>1 DEF TypeOK
<1>4. \/ Refuse
      \/ \E fee \in Nat, price \in Prices, im \in Margins :
            Fill(s, pending[s], price, im, fee)
  BY BrokerAssumption DEF ProcessTaker, ProcessCrossed, ProcessExpired, TryFill
<1>5. CASE Refuse
  BY <1>1, <1>2, <1>3, <1>5 DEF Refuse, Drops, SameOutside
<1>6. ASSUME NEW fee \in Nat, NEW price \in Prices, NEW im \in Margins,
             Fill(s, pending[s], price, im, fee)
      PROVE  Fills(s)
  <2> DEFINE p == NewPosition(pending[s], price, im, fee)
  <2>1. pending[s] \in Order
    BY <1>1 DEF TypeOK
  <2>2. p \in Position /\ p # None
    BY <2>1, NewPositionType, BrokerAssumption, NoneAssumption
  <2>3. p.side = pending[s].side
    BY DEF NewPosition
  <2> HIDE DEF p
  <2>4. positions' = [positions EXCEPT ![s] = p]
    BY <1>6 DEF Fill, p
  <2>5. positions'[s] = p /\ \A t \in Symbols \ {s} : positions'[t] = positions[t]
    BY <2>4 DEF TypeOK
  <2>6. positions[s] = None /\ ~halted
    BY <1>6 DEF Fill, MayFill
  <2>7. QED
    BY <1>1, <1>2, <1>3, <2>2, <2>3, <2>5, <2>6 DEF Fills, SameOutside
<1>7. QED
  BY <1>4, <1>5, <1>6

LEMMA CloseShape ==
  ASSUME TypeOK, NEW s \in Symbols, NEW p, NEW exit, NEW reason,
         positions[s] # None, ClosePosition(s, p, exit, reason)
  PROVE  Closes(s)
<1>1. /\ positions' = [positions EXCEPT ![s] = None]
      /\ pending' = pending
      /\ \E c : cooldowns' = [cooldowns EXCEPT ![s] = c]
  BY DEF ClosePosition
<1>2. halted => halted'
  BY DEF ClosePosition
<1>3. QED
  BY <1>1, <1>2 DEF Closes, SameOutside, TypeOK

LEMMA MarkPriceShape ==
  ASSUME TypeOK, NEW s \in Symbols, NEW price \in Prices, NEW mark \in Prices,
         NEW exit \in Prices, MarkPrice(s, price, mark, exit)
  PROVE  Closes(s) \/ Keeps
<1>1. CASE positions[s] = None
  BY <1>1 DEF MarkPrice, Keeps
<1>2. CASE positions[s] # None
  <2> DEFINE q == ManageStop(positions[s], price)
  <2>1. \/ \E p, x, r : ClosePosition(s, p, x, r)
        \/ positions' = [positions EXCEPT ![s] = q]
           /\ UNCHANGED <<pending, cooldowns, halted>>
    BY <1>2 DEF MarkPrice
  <2>2. q \in Position /\ q.side = positions[s].side /\ q # None
    BY <1>2, ManageStopType, BrokerAssumption, NoneAssumption DEF TypeOK
  <2> HIDE DEF q
  <2>3. CASE positions' = [positions EXCEPT ![s] = q]
             /\ UNCHANGED <<pending, cooldowns, halted>>
    BY <1>2, <2>2, <2>3 DEF Keeps, TypeOK
  <2>4. QED
    BY <1>2, <2>1, <2>3, CloseShape
<1>3. QED
  BY <1>1, <1>2

LEMMA ChargeShape ==
  ASSUME TypeOK,
         \/ \E s \in Symbols, n \in 1..MaxFundings, fee \in FundingFees,
               final \in BOOLEAN : SettleFundingBoundary(s, n, fee, final)
         \/ \E n \in 1..MaxFundings, fee \in FundingFees : ReconcileSettledFunding(n, fee)
  PROVE  Keeps
<1>1. \A p \in Position : \A f \in Int : [p EXCEPT !.funding = f] # None
  <2>1. \A p \in Position : \A f \in Int : [p EXCEPT !.funding = f] \in Position
    BY DEF Position
  <2>2. QED
    BY <2>1, NoneAssumption
<1>2. /\ UNCHANGED <<pending, cooldowns>>
      /\ halted' = halted
  BY DEF SettleFundingBoundary, ReconcileSettledFunding
<1>3. \A t \in Symbols : positions[t] = None => positions'[t] = None
  BY DEF SettleFundingBoundary, ReconcileSettledFunding, TypeOK, OpenAs, Held
<1>4. ASSUME NEW t \in Symbols, positions[t] # None
      PROVE  positions'[t] # None /\ positions'[t].side = positions[t].side
  <2>1. positions[t] \in Position /\ positions[t].funding \in Int
    BY <1>4 DEF TypeOK, Position
  <2>2. \/ positions'[t] = positions[t]
        \/ \E f \in Int : positions'[t] = [positions[t] EXCEPT !.funding = f]
    <3>1. CASE \E s \in Symbols, n \in 1..MaxFundings, fee \in FundingFees,
                 final \in BOOLEAN : SettleFundingBoundary(s, n, fee, final)
      <4>1. PICK s \in Symbols, n \in 1..MaxFundings, fee \in FundingFees,
                 final \in BOOLEAN : SettleFundingBoundary(s, n, fee, final)
        BY <3>1
      <4>2. positions[t].funding + fee \in Int
        BY <2>1, BrokerAssumption
      <4>3. QED
        BY <4>1, <4>2 DEF SettleFundingBoundary, TypeOK
    <3>2. CASE \E n \in 1..MaxFundings, fee \in FundingFees : ReconcileSettledFunding(n, fee)
      <4>1. PICK n \in 1..MaxFundings, fee \in FundingFees : ReconcileSettledFunding(n, fee)
        BY <3>2
      <4>2. events[n] \in FundingEvent
        BY <4>1 DEF ReconcileSettledFunding, TypeOK
      <4>3. positions[t].funding + (fee - events[n].amount) \in Int
        BY <2>1, <4>2, BrokerAssumption DEF FundingEvent
      <4>4. QED
        BY <4>1, <4>3 DEF ReconcileSettledFunding
    <3>3. QED
      BY <3>1, <3>2
  <2>3. QED
    BY <1>1, <1>4, <2>1, <2>2 DEF Position
<1>5. QED
  BY <1>2, <1>3, <1>4 DEF Keeps

LEMMA TickShape ==
  ASSUME TypeOK, Tick
  PROVE  Keeps
<1>1. halted' = halted
  BY DEF Tick
<1>2. ASSUME NEW t \in Symbols
      PROVE  cooldowns'[t] > 0 => cooldowns[t] > 0
  <2>1. cooldowns[t] \in Nat /\ cooldowns'[t] = Countdown(cooldowns[t])
    BY DEF Tick, TypeOK
  <2>2. QED
    BY <2>1 DEF Countdown
<1>3. ASSUME NEW t \in Symbols
      PROVE  /\ positions'[t] = None <=> positions[t] = None
             /\ positions[t] # None => positions'[t].side = positions[t].side
  <2>1. CASE positions[t] = None
    BY <2>1 DEF Tick
  <2>2. CASE positions[t] # None
    <3>1. positions[t] \in Position
      BY <2>2 DEF TypeOK
    <3>2. positions'[t] = [positions[t] EXCEPT !.hold = Countdown(@)]
      BY <2>2 DEF Tick
    <3>3. positions'[t] \in Position /\ positions'[t].side = positions[t].side
      BY <3>1, <3>2 DEF Position, Countdown
    <3>4. QED
      BY <2>2, <3>3, NoneAssumption
  <2>3. QED
    BY <2>1, <2>2
<1>4. ASSUME NEW t \in Symbols
      PROVE  /\ pending'[t] = None <=> pending[t] = None
             /\ pending[t] # None => pending'[t].side = pending[t].side
  <2>1. CASE pending[t] = None
    BY <2>1 DEF Tick
  <2>2. CASE pending[t] # None
    <3>1. pending[t] \in Order
      BY <2>2 DEF TypeOK
    <3>2. pending'[t] = [pending[t] EXCEPT !.ready = Countdown(@), !.rest = Countdown(@)]
      BY <2>2 DEF Tick
    <3>3. Countdown(pending[t].ready) \in Nat /\ Countdown(pending[t].rest) \in Nat
      BY <3>1 DEF Order, Countdown
    <3>4. pending'[t] \in Order /\ pending'[t].side = pending[t].side
      BY <3>1, <3>2, <3>3 DEF Order
    <3>5. QED
      BY <2>2, <3>4, NoneAssumption
  <2>3. QED
    BY <2>1, <2>2
<1>5. QED
  BY <1>1, <1>2, <1>3, <1>4 DEF Keeps

(* Every step of the broker has one of the shapes. *)
LEMMA NextShape ==
  ASSUME TypeOK, [Next]_vars
  PROVE  Shaped
<1>1. CASE \E s \in Symbols : Step(s)
  <2>1. PICK s \in Symbols : Step(s)
    BY <1>1
  <2>2. CASE \E side \in Side, mode \in {"passive", "taker"}, latency \in 1..Latency :
               OnProposal(s, side, mode, latency)
    BY <2>2, ProposalShape DEF Shaped
  <2>3. CASE ProcessTaker(s) \/ ProcessCrossed(s) \/ ProcessExpired(s)
    BY <2>3, ProcessShape DEF Shaped
  <2>4. CASE \E price, mark, exit \in Prices : MarkPrice(s, price, mark, exit)
    BY <2>4, MarkPriceShape DEF Shaped
  <2>5. CASE \E exit \in Prices : ManageOpen(s, exit) \/ CloseManually(s, exit)
    <3>1. positions[s] # None /\ \E p, x, r : ClosePosition(s, p, x, r)
      BY <2>5 DEF ManageOpen, CloseManually
    <3>2. QED
      BY <3>1, CloseShape DEF Shaped
  <2>6. CASE \E n \in 1..MaxFundings, fee \in FundingFees, final \in BOOLEAN :
               SettleFundingBoundary(s, n, fee, final)
    BY <2>6, ChargeShape DEF Shaped
  <2>7. QED
    BY <2>1, <2>2, <2>3, <2>4, <2>5, <2>6 DEF Step
<1>2. CASE \E n \in 1..MaxFundings, fee \in FundingFees : ReconcileSettledFunding(n, fee)
  BY <1>2, ChargeShape DEF Shaped
<1>3. CASE Tick
  BY <1>3, TickShape DEF Shaped
<1>4. CASE Reset
  BY <1>4 DEF Reset, Shaped, Wipes
<1>5. CASE UNCHANGED vars
  <2>1. halted' = halted
    BY <1>5 DEF vars
  <2>2. QED
    BY <1>5, <2>1 DEF vars, Shaped, Keeps
<1>6. QED
  BY <1>1, <1>2, <1>3, <1>4, <1>5 DEF Next

-----------------------------------------------------------------------------
(* One exposure per symbol, and none on a symbol that is cooling off *)

ExposureInv == TypeOK /\ OneExposure /\ CoolingIsFlat

LEMMA ExposureStep ==
  ASSUME ExposureInv, [Next]_vars
  PROVE  ExposureInv'
<1>1. TypeOK'
  BY NextType DEF ExposureInv
<1>2. Shaped
  BY NextShape DEF ExposureInv
<1>3. ASSUME NEW t \in Symbols
      PROVE  /\ positions'[t] = None \/ pending'[t] = None
             /\ cooldowns'[t] > 0 => positions'[t] = None /\ pending'[t] = None
  <2>1. /\ positions[t] = None \/ pending[t] = None
        /\ cooldowns[t] > 0 => positions[t] = None /\ pending[t] = None
    BY DEF ExposureInv, OneExposure, CoolingIsFlat, Exposed
  <2>2. CASE \E s \in Symbols : \/ \E side \in Side : Enters(s, side)
                               \/ Fills(s) \/ Drops(s) \/ Closes(s)
    BY <2>1, <2>2 DEF Enters, Fills, Drops, Closes, SameOutside
  <2>3. CASE Keeps
    BY <2>1, <2>3 DEF Keeps
  <2>4. CASE Wipes
    BY <2>4 DEF Wipes
  <2>5. QED
    BY <1>2, <2>2, <2>3, <2>4 DEF Shaped
<1>4. QED
  BY <1>1, <1>3 DEF ExposureInv, OneExposure, CoolingIsFlat, Exposed

LEMMA ExposureInit == Init => ExposureInv
<1>1. Init => OneExposure /\ CoolingIsFlat
  BY DEF Init, OneExposure, CoolingIsFlat, Exposed
<1>2. QED
  BY <1>1, InitType DEF ExposureInv

LEMMA ExposureInvariant == Spec => []ExposureInv
  BY ExposureInit, ExposureStep, PTL DEF Spec

(* A symbol never has a position and an order in flight together. *)
THEOREM ExposureIsSingle == Spec => []OneExposure
<1>1. ExposureInv => OneExposure
  BY DEF ExposureInv
<1>2. QED
  BY <1>1, ExposureInvariant, PTL

(* No order placed before a stop-out survives into the cooldown. *)
THEOREM CooldownHolds == Spec => []CoolingIsFlat
<1>1. ExposureInv => CoolingIsFlat
  BY DEF ExposureInv
<1>2. QED
  BY <1>1, ExposureInvariant, PTL

-----------------------------------------------------------------------------
(* The slot cap and the side cap *)

CapInv == SlotCap /\ SideCap

LEMMA FiniteSlots == IsFiniteSet(SlotsUsed) /\ \A side : IsFiniteSet(SameSide(side))
<1>1. SlotsUsed \subseteq Symbols /\ \A side : SameSide(side) \subseteq Symbols
  BY DEF SlotsUsed, SameSide, HeldOn, InFlightOn, Held, InFlight
<1>2. QED
  BY <1>1, FS_Subset, BrokerAssumption

(* A step adds at most the one slot it had room for, or adds none. *)
LEMMA SlotStep ==
  ASSUME Shaped
  PROVE  \/ /\ SlotsUsed' \subseteq SlotsUsed
            /\ \A side \in Side : SameSide(side)' \subseteq SameSide(side)
         \/ \E s \in Symbols, side \in Side :
              /\ Cardinality(SlotsUsed) < MaxPositions
              /\ Cardinality(SameSide(side)) < MaxSameSide
              /\ SlotsUsed' \subseteq SlotsUsed \cup {s}
              /\ SameSide(side)' \subseteq SameSide(side) \cup {s}
              /\ \A other \in Side \ {side} : SameSide(other)' \subseteq SameSide(other)
<1>1. ASSUME NEW s \in Symbols, NEW side \in Side, Enters(s, side)
      PROVE  /\ Cardinality(SlotsUsed) < MaxPositions
             /\ Cardinality(SameSide(side)) < MaxSameSide
             /\ SlotsUsed' \subseteq SlotsUsed \cup {s}
             /\ SameSide(side)' \subseteq SameSide(side) \cup {s}
             /\ \A other \in Side \ {side} : SameSide(other)' \subseteq SameSide(other)
  BY <1>1 DEF Enters, SameOutside, SlotsUsed, SameSide, HeldOn, InFlightOn, Held, InFlight
<1>2. ASSUME NEW s \in Symbols, Fills(s) \/ Drops(s) \/ Closes(s)
      PROVE  /\ SlotsUsed' \subseteq SlotsUsed
             /\ \A side \in Side : SameSide(side)' \subseteq SameSide(side)
  BY <1>2 DEF Fills, Drops, Closes, SameOutside, SlotsUsed, SameSide, HeldOn, InFlightOn, Held, InFlight
<1>3. ASSUME Keeps \/ Wipes
      PROVE  /\ SlotsUsed' \subseteq SlotsUsed
             /\ \A side \in Side : SameSide(side)' \subseteq SameSide(side)
  BY <1>3 DEF Keeps, Wipes, SlotsUsed, SameSide, HeldOn, InFlightOn, Held, InFlight
<1>4. QED
  BY <1>1, <1>2, <1>3 DEF Shaped

LEMMA GrowByOne ==
  ASSUME NEW S, NEW T, NEW x, IsFiniteSet(S), T \subseteq S \cup {x},
         NEW m \in Nat, Cardinality(S) < m
  PROVE  Cardinality(T) <= m
<1>1. /\ IsFiniteSet(S \cup {x}) /\ Cardinality(S) \in Nat
      /\ Cardinality(S \cup {x}) <= Cardinality(S) + 1
  BY FS_AddElement, FS_CardinalityType
<1>2. Cardinality(T) <= Cardinality(S \cup {x}) /\ Cardinality(T) \in Nat
  BY <1>1, FS_Subset, FS_CardinalityType
<1>3. Cardinality(S \cup {x}) \in Nat
  BY <1>1, FS_CardinalityType
<1>4. QED
  BY <1>1, <1>2, <1>3

LEMMA Shrink ==
  ASSUME NEW S, NEW T, IsFiniteSet(S), T \subseteq S,
         NEW m \in Nat, Cardinality(S) <= m
  PROVE  Cardinality(T) <= m
<1>1. Cardinality(T) <= Cardinality(S) /\ IsFiniteSet(T)
  BY FS_Subset
<1>2. Cardinality(S) \in Nat /\ Cardinality(T) \in Nat
  BY <1>1, FS_CardinalityType
<1>3. QED
  BY <1>1, <1>2

LEMMA CapStep ==
  ASSUME TypeOK, CapInv, [Next]_vars
  PROVE  CapInv'
<1>1. MaxPositions \in Nat /\ MaxSameSide \in Nat
  BY BrokerAssumption
<1>2. Shaped
  BY NextShape
<1>3. CASE /\ SlotsUsed' \subseteq SlotsUsed
           /\ \A side \in Side : SameSide(side)' \subseteq SameSide(side)
  BY <1>1, <1>3, FiniteSlots, Shrink DEF CapInv, SlotCap, SideCap
<1>4. ASSUME NEW s \in Symbols, NEW side \in Side,
             Cardinality(SlotsUsed) < MaxPositions,
             Cardinality(SameSide(side)) < MaxSameSide,
             SlotsUsed' \subseteq SlotsUsed \cup {s},
             SameSide(side)' \subseteq SameSide(side) \cup {s},
             \A other \in Side \ {side} : SameSide(other)' \subseteq SameSide(other)
      PROVE  CapInv'
  <2>1. Cardinality(SlotsUsed') <= MaxPositions
    BY <1>1, <1>4, FiniteSlots, GrowByOne
  <2>2. Cardinality(SameSide(side)') <= MaxSameSide
    BY <1>1, <1>4, FiniteSlots, GrowByOne
  <2>3. ASSUME NEW other \in Side \ {side}
        PROVE  Cardinality(SameSide(other)') <= MaxSameSide
    BY <1>1, <1>4, FiniteSlots, Shrink DEF CapInv, SideCap
  <2>4. QED
    BY <2>1, <2>2, <2>3 DEF CapInv, SlotCap, SideCap
<1>5. QED
  BY <1>2, <1>3, <1>4, SlotStep

LEMMA CapInit == Init => CapInv
<1>1. Init => SlotsUsed = {} /\ \A side : SameSide(side) = {}
  BY DEF Init, SlotsUsed, SameSide, HeldOn, InFlightOn, Held, InFlight
<1>2. QED
  BY <1>1, FS_EmptySet, BrokerAssumption DEF CapInv, SlotCap, SideCap

LEMMA CapInvariant == Spec => []CapInv
  BY CapInit, CapStep, TypeCorrect, PTL DEF Spec

(* However many signals arrive while orders are in flight, no more than
   maxPositions positions are ever open. *)
THEOREM SlotCapHolds == Spec => []SlotCap
<1>1. CapInv => SlotCap
  BY DEF CapInv
<1>2. QED
  BY <1>1, CapInvariant, PTL

(* ... and no more than maxSameSide of them face the same way. *)
THEOREM SideCapHolds == Spec => []SideCap
<1>1. CapInv => SideCap
  BY DEF CapInv
<1>2. QED
  BY <1>1, CapInvariant, PTL

-----------------------------------------------------------------------------
(* The halt *)

LEMMA HaltStep ==
  ASSUME TypeOK, [Next]_vars, halted
  PROVE  /\ \A s \in Symbols :
               /\ pending'[s] # None => pending[s] # None
               /\ positions'[s] # None => positions[s] # None
         /\ ~halted' => SlotsUsed' = {}
<1>1. CASE \E s \in Symbols : \/ \E side \in Side : Enters(s, side)
                             \/ Fills(s) \/ Drops(s) \/ Closes(s)
  BY <1>1 DEF Enters, Fills, Drops, Closes, SameOutside
<1>2. CASE Keeps
  BY <1>2 DEF Keeps
<1>3. CASE Wipes
  BY <1>3 DEF Wipes, SlotsUsed, Held, InFlight
<1>4. QED
  BY <1>1, <1>2, <1>3, NextShape DEF Shaped

(* Once halted, exposure only shrinks until a reset empties the book. *)
THEOREM HaltHolds == Spec => HaltFreezesExposure
<1>1. TypeOK /\ [Next]_vars =>
        [halted =>
           /\ \A s \in Symbols :
                 /\ pending'[s] # None => pending[s] # None
                 /\ positions'[s] # None => positions[s] # None
           /\ ~halted' => SlotsUsed' = {}]_vars
  BY HaltStep
<1>2. QED
  BY <1>1, TypeCorrect, PTL DEF Spec, HaltFreezesExposure

-----------------------------------------------------------------------------
(* The ledger, trade by trade.  TradesMatchPostings is not inductive on its *)
(* own: a posting must never land on somebody else's trade, so the          *)
(* invariant also says who may use an id and when.                          *)

Uses(s, i) == \/ positions[s] # None /\ positions[s].id = i
              \/ pending[s] # None /\ pending[s].id = i

UsedIdsAreLive == \A s \in Symbols, i \in Ids :
    Uses(s, i) => i < nextId /\ closed[i] = None
IdsAreUnique == \A s, t \in Symbols, i \in Ids : Uses(s, i) /\ Uses(t, i) => s = t
FutureIdsAreBlank == \A i \in Ids : i >= nextId => closed[i] = None /\ posted[i] = 0
OrdersCostNothing == \A s \in InFlight : posted[pending[s].id] = 0
EventsHaveTrades == \A n \in 1..MaxFundings : events[n] # None =>
    \/ closed[events[n].id] # None
    \/ \E s \in Held : positions[s].id = events[n].id

LedgerInv == /\ TypeOK /\ OneExposure
             /\ UsedIdsAreLive /\ IdsAreUnique /\ FutureIdsAreBlank
             /\ OrdersCostNothing /\ EventsHaveTrades
             /\ TradesMatchPostings

(* The conjuncts of the invariant a step may disturb *)
TradeInv == /\ UsedIdsAreLive /\ IdsAreUnique /\ FutureIdsAreBlank
            /\ OrdersCostNothing /\ EventsHaveTrades
            /\ TradesMatchPostings

(* A new order takes a fresh id, for which nothing was ever posted. *)
LEMMA ProposalLedger ==
  ASSUME LedgerInv, NEW s \in Symbols, NEW side \in Side,
         NEW mode \in {"passive", "taker"}, NEW latency \in 1..Latency,
         OnProposal(s, side, mode, latency)
  PROVE  TradeInv'
<1> USE DEF LedgerInv, TradeInv
<1> DEFINE o == [id |-> nextId, side |-> side, mode |-> mode, ready |-> latency,
                 rest |-> IF mode = "passive" THEN latency + RestTime ELSE 0]
<1>1. o \in Order /\ o # None /\ o.id = nextId /\ nextId \in Ids /\ nextId \in Nat
  BY BrokerAssumption, NoneAssumption DEF Order, OnProposal, TypeOK
<1> HIDE DEF o
<1>2. pending' = [pending EXCEPT ![s] = o] /\ nextId' = nextId + 1
  BY DEF OnProposal, o
<1>3. pending'[s] = o /\ \A t \in Symbols \ {s} : pending'[t] = pending[t]
  BY <1>2 DEF TypeOK
<1>4. UNCHANGED <<positions, closed, events, posted>> /\ positions[s] = None /\ pending[s] = None
  BY DEF OnProposal, Exposed
<1>5. \A t \in Symbols, i \in Ids : Uses(t, i)' => (t = s /\ i = nextId) \/ Uses(t, i)
  BY <1>1, <1>3, <1>4 DEF Uses
<1>6. \A t \in Symbols : ~Uses(t, nextId)
  BY <1>1 DEF UsedIdsAreLive
<1>7. \A i \in Ids : i < nextId => i < nextId'
  BY <1>1, <1>2 DEF Ids
<1>8. UsedIdsAreLive'
  <2>1. nextId < nextId' /\ closed[nextId] = None
    BY <1>1, <1>2 DEF FutureIdsAreBlank
  <2>2. \A t \in Symbols, i \in Ids : Uses(t, i) => i < nextId' /\ closed[i] = None
    BY <1>7 DEF UsedIdsAreLive
  <2>3. QED
    BY <1>4, <1>5, <2>1, <2>2 DEF UsedIdsAreLive
<1>9. IdsAreUnique'
  BY <1>5, <1>6 DEF IdsAreUnique
<1>10. FutureIdsAreBlank'
  <2>1. \A i \in Ids : i >= nextId' => i >= nextId
    BY <1>1, <1>2 DEF Ids
  <2>2. QED
    BY <1>4, <2>1 DEF FutureIdsAreBlank
<1>11. OrdersCostNothing'
  BY <1>1, <1>3, <1>4 DEF OrdersCostNothing, FutureIdsAreBlank, InFlight
<1>12. EventsHaveTrades' /\ TradesMatchPostings'
  BY <1>4 DEF EventsHaveTrades, TradesMatchPostings, Held
<1>13. QED
  BY <1>8, <1>9, <1>10, <1>11, <1>12

(* An order that leaves the queue unfilled leaves no trace. *)
LEMMA RefuseLedger ==
  ASSUME LedgerInv, NEW s \in Symbols, pending' = [pending EXCEPT ![s] = None],
         UNCHANGED <<positions, closed, events, nextId, posted>>
  PROVE  TradeInv'
<1> USE DEF LedgerInv, TradeInv
<1>1. \A t \in Symbols : pending'[t] # None => pending'[t] = pending[t] /\ pending[t] # None
  BY DEF TypeOK
<1>2. \A t \in Symbols, i \in Ids : Uses(t, i)' => Uses(t, i)
  BY <1>1 DEF Uses
<1>3. UsedIdsAreLive' /\ IdsAreUnique'
  BY <1>2 DEF UsedIdsAreLive, IdsAreUnique
<1>4. FutureIdsAreBlank' /\ EventsHaveTrades' /\ TradesMatchPostings'
  BY DEF FutureIdsAreBlank, EventsHaveTrades, TradesMatchPostings, Held
<1>5. OrdersCostNothing'
  BY <1>1 DEF OrdersCostNothing, InFlight
<1>6. QED
  BY <1>3, <1>4, <1>5

(* A fill moves the id from the order to the position and posts its fee. *)
LEMMA FillLedger ==
  ASSUME LedgerInv, NEW s \in Symbols, pending[s] # None, NEW fee \in Nat,
         NEW price \in Prices, NEW im \in Margins,
         Fill(s, pending[s], price, im, fee),
         pending' = [pending EXCEPT ![s] = None],
         UNCHANGED <<closed, events, nextId>>
  PROVE  TradeInv'
<1> USE DEF LedgerInv, TradeInv
<1> DEFINE o == pending[s]
           p == NewPosition(o, price, im, fee)
<1>1. o \in Order /\ o.id \in Ids
  BY DEF TypeOK, Order
<1>2. p \in Position /\ p # None
  BY <1>1, NewPositionType, BrokerAssumption, NoneAssumption
<1>3. p.id = o.id /\ p.fee = fee /\ p.funding = 0
  BY DEF NewPosition
<1>4. /\ positions' = [positions EXCEPT ![s] = p]
      /\ posted' = [posted EXCEPT ![o.id] = @ - fee]
      /\ positions[s] = None
  BY DEF Fill, MayFill
<1> HIDE DEF p
<1>5. /\ positions'[s] = p /\ pending'[s] = None
      /\ \A t \in Symbols \ {s} : positions'[t] = positions[t] /\ pending'[t] = pending[t]
  BY <1>4 DEF TypeOK
<1>6. Uses(s, o.id) /\ \A t \in Symbols \ {s} : ~Uses(t, o.id)
  BY <1>1 DEF Uses, IdsAreUnique
<1>7. \A t \in Symbols, i \in Ids : Uses(t, i)' => Uses(t, i)
  BY <1>3, <1>5 DEF Uses
<1>8. posted'[o.id] = -fee /\ \A i \in Ids \ {o.id} : posted'[i] = posted[i]
  BY <1>1, <1>4 DEF TypeOK, OrdersCostNothing, InFlight
<1>9. UsedIdsAreLive' /\ IdsAreUnique'
  BY <1>7 DEF UsedIdsAreLive, IdsAreUnique
<1>10. FutureIdsAreBlank'
  <2>1. o.id < nextId /\ o.id \in Nat /\ nextId \in Nat
    BY <1>1, <1>6 DEF UsedIdsAreLive, Ids, TypeOK
  <2>2. QED
    BY <1>8, <2>1 DEF FutureIdsAreBlank
<1>11. OrdersCostNothing'
  <2>1. ASSUME NEW t \in Symbols, pending'[t] # None
        PROVE  posted'[pending'[t].id] = 0
    <3>1. t # s /\ pending'[t] = pending[t] /\ t \in InFlight
      BY <1>5, <2>1 DEF InFlight
    <3>2. pending[t].id \in Ids /\ pending[t].id # o.id
      BY <1>6, <3>1 DEF TypeOK, Order, Uses, InFlight
    <3>3. QED
      BY <1>8, <3>1, <3>2 DEF OrdersCostNothing
  <2>2. QED
    BY <2>1 DEF OrdersCostNothing, InFlight
<1>12. EventsHaveTrades'
  BY <1>2, <1>4, <1>5 DEF EventsHaveTrades, Held
<1>13. TradesMatchPostings'
  <2>1. closed[o.id] = None
    BY <1>1, <1>6 DEF UsedIdsAreLive
  <2>2. ASSUME NEW t \in Symbols, positions'[t] # None
        PROVE  posted'[positions'[t].id] = -(positions'[t].fee + positions'[t].funding)
    <3>1. CASE t = s
      BY <1>3, <1>5, <1>8, <3>1
    <3>2. CASE t # s
      <4>1. positions'[t] = positions[t] /\ t \in Held
        BY <1>5, <2>2, <3>2 DEF Held
      <4>2. positions[t].id \in Ids /\ positions[t].id # o.id
        BY <1>6, <3>2, <4>1 DEF TypeOK, Position, Uses, Held
      <4>3. QED
        BY <1>8, <4>1, <4>2 DEF TradesMatchPostings
    <3>3. QED
      BY <3>1, <3>2
  <2>3. QED
    BY <1>8, <2>1, <2>2 DEF TradesMatchPostings, Held
<1>14. QED
  BY <1>9, <1>10, <1>11, <1>12, <1>13

LEMMA ProcessLedger ==
  ASSUME LedgerInv, NEW s \in Symbols,
         ProcessTaker(s) \/ ProcessCrossed(s) \/ ProcessExpired(s)
  PROVE  TradeInv'
<1>1. /\ pending[s] # None
      /\ pending' = [pending EXCEPT ![s] = None]
      /\ UNCHANGED <<closed, events, nextId>>
  BY DEF ProcessTaker, ProcessCrossed, ProcessExpired, Dequeue
<1>2. \/ Refuse
      \/ \E fee \in Nat, price \in Prices, im \in Margins :
            Fill(s, pending[s], price, im, fee)
  BY BrokerAssumption DEF ProcessTaker, ProcessCrossed, ProcessExpired, TryFill
<1>3. CASE Refuse
  BY <1>1, <1>3, RefuseLedger DEF Refuse
<1>4. QED
  BY <1>1, <1>2, <1>3, FillLedger

(* A close posts exactly what makes the trade's net PnL its postings. *)
LEMMA CloseLedger ==
  ASSUME LedgerInv, NEW s \in Symbols, positions[s] # None,
         NEW p \in Position, p.id = positions[s].id,
         p.fee = positions[s].fee, p.funding = positions[s].funding,
         NEW exit \in Int, NEW reason \in Reason, ClosePosition(s, p, exit, reason)
  PROVE  TradeInv'
<1> USE DEF LedgerInv, TradeInv
<1> DEFINE gross   == Dir(p.side) * (exit - p.entry)
           exitFee == IF reason = "TP" /\ TpAsLimit THEN MakerFee ELSE TakerFee
           credit  == CloseCredit(p, reason, gross, exitFee)
           trade   == ClosedTrade(p, reason, gross, exitFee)
<1>1. p.id \in Ids /\ exit - p.entry \in Int
  BY DEF Position
<1>2. gross \in Int /\ exitFee \in Nat
  BY <1>1, DirTimes, BrokerAssumption
<1> HIDE DEF gross, exitFee
<1>3. credit \in Int /\ trade \in Trade /\ trade.pnl = credit - (p.fee + p.funding)
  BY <1>2, ClosedTradeType
<1> HIDE DEF credit, trade
<1>4. /\ posted' = [posted EXCEPT ![p.id] = @ + credit]
      /\ closed' = [closed EXCEPT ![p.id] = trade]
      /\ positions' = [positions EXCEPT ![s] = None]
      /\ UNCHANGED <<pending, events, nextId>>
  BY DEF ClosePosition, gross, exitFee, credit, trade
<1>5. /\ positions'[s] = None /\ pending[s] = None
      /\ \A t \in Symbols \ {s} : positions'[t] = positions[t]
  BY <1>4 DEF TypeOK, OneExposure
<1>6. Uses(s, p.id) /\ \A t \in Symbols \ {s} : ~Uses(t, p.id)
  BY <1>1 DEF Uses, IdsAreUnique
<1>7. \A t \in Symbols, i \in Ids : Uses(t, i)' => Uses(t, i) /\ i # p.id
  BY <1>4, <1>5, <1>6 DEF Uses
<1>8. /\ trade # None /\ closed'[p.id] = trade
      /\ posted'[p.id] = posted[p.id] + credit
      /\ \A i \in Ids \ {p.id} : posted'[i] = posted[i] /\ closed'[i] = closed[i]
  BY <1>1, <1>3, <1>4, NoneAssumption DEF TypeOK
<1>9. UsedIdsAreLive' /\ IdsAreUnique'
  BY <1>4, <1>7, <1>8 DEF UsedIdsAreLive, IdsAreUnique
<1>10. FutureIdsAreBlank'
  <2>1. p.id < nextId /\ p.id \in Nat /\ nextId \in Nat
    BY <1>1, <1>6 DEF UsedIdsAreLive, Ids, TypeOK
  <2>2. QED
    BY <1>4, <1>8, <2>1 DEF FutureIdsAreBlank
<1>11. OrdersCostNothing'
  <2>1. ASSUME NEW t \in Symbols, pending[t] # None
        PROVE  pending[t].id \in Ids \ {p.id}
    <3>1. t # s /\ pending[t] \in Order
      BY <1>5, <2>1 DEF TypeOK
    <3>2. QED
      BY <1>6, <2>1, <3>1 DEF Order, Uses
  <2>2. QED
    BY <1>4, <1>8, <2>1 DEF OrdersCostNothing, InFlight
<1>12. EventsHaveTrades'
  <2>1. ASSUME NEW n \in 1..MaxFundings, events[n] # None
        PROVE  \/ closed'[events[n].id] # None
               \/ \E t \in Symbols : positions'[t] # None /\ positions'[t].id = events[n].id
    <3>1. events[n].id \in Ids
      BY <2>1 DEF TypeOK, FundingEvent
    <3>2. CASE events[n].id = p.id
      BY <1>8, <3>2
    <3>3. CASE events[n].id # p.id
      <4>1. \/ closed[events[n].id] # None
            \/ \E t \in Symbols : positions[t] # None /\ positions[t].id = events[n].id
        BY <2>1 DEF EventsHaveTrades, Held
      <4>2. QED
        BY <1>5, <1>8, <3>1, <3>3, <4>1
    <3>4. QED
      BY <3>2, <3>3
  <2>2. QED
    BY <1>4, <2>1 DEF EventsHaveTrades, Held
<1>13. TradesMatchPostings'
  <2>1. posted'[p.id] = trade.pnl
    <3>1. posted[p.id] = -(p.fee + p.funding)
      BY DEF TradesMatchPostings, Held
    <3>2. p.fee \in Int /\ p.funding \in Int
      BY DEF Position
    <3>3. QED
      BY <1>3, <1>8, <3>1, <3>2
  <2>2. ASSUME NEW t \in Symbols, positions'[t] # None
        PROVE  posted'[positions'[t].id] = -(positions'[t].fee + positions'[t].funding)
    <3>1. t # s /\ positions'[t] = positions[t] /\ t \in Held
      BY <1>5, <2>2 DEF Held
    <3>2. positions[t].id \in Ids /\ positions[t].id # p.id
      BY <1>6, <3>1 DEF TypeOK, Position, Uses, Held
    <3>3. QED
      BY <1>8, <3>1, <3>2 DEF TradesMatchPostings
  <2>3. QED
    BY <1>8, <2>1, <2>2 DEF TradesMatchPostings, Held
<1>14. QED
  BY <1>9, <1>10, <1>11, <1>12, <1>13

(* A step that leaves ids, charges and postings alone keeps the invariant. *)
LEMMA QuietLedger ==
  ASSUME LedgerInv,
         UNCHANGED <<closed, events, nextId, posted>>,
         \A t \in Symbols : /\ positions'[t] = None <=> positions[t] = None
                            /\ pending'[t] = None <=> pending[t] = None,
         \A t \in Held : /\ positions'[t].id = positions[t].id
                         /\ positions'[t].fee = positions[t].fee
                         /\ positions'[t].funding = positions[t].funding,
         \A t \in InFlight : pending'[t].id = pending[t].id
  PROVE  TradeInv'
<1> USE DEF LedgerInv, TradeInv
<1>1. \A t \in Symbols, i \in Ids : Uses(t, i)' => Uses(t, i)
  BY DEF Uses, Held, InFlight
<1>2. UsedIdsAreLive' /\ IdsAreUnique'
  BY <1>1 DEF UsedIdsAreLive, IdsAreUnique
<1>3. FutureIdsAreBlank'
  BY DEF FutureIdsAreBlank
<1>4. OrdersCostNothing'
  BY DEF OrdersCostNothing, InFlight
<1>5. EventsHaveTrades'
  BY DEF EventsHaveTrades, Held
<1>6. TradesMatchPostings'
  BY DEF TradesMatchPostings, Held
<1>7. QED
  BY <1>2, <1>3, <1>4, <1>5, <1>6

LEMMA MarkPriceLedger ==
  ASSUME LedgerInv, NEW s \in Symbols, NEW price \in Prices, NEW mark \in Prices,
         NEW exit \in Prices, MarkPrice(s, price, mark, exit)
  PROVE  TradeInv'
<1>1. CASE positions[s] = None
  BY <1>1, QuietLedger DEF MarkPrice
<1>2. CASE positions[s] # None
  <2> DEFINE p == positions[s]
             q == ManageStop(p, price)
  <2>1. p \in Position /\ price \in Int /\ exit \in Int
    BY <1>2, BrokerAssumption DEF LedgerInv, TypeOK
  <2>2. /\ q \in Position /\ q.id = p.id /\ q.fee = p.fee /\ q.funding = p.funding
        /\ q # None
    BY <2>1, ManageStopType, NoneAssumption
  <2>3. Liq(p) \in Int /\ Target(p) \in Int
    BY <2>1, DirTimes, BrokerAssumption DEF Liq, Target, Position
  <2>4. \/ ClosePosition(s, p, Liq(p), "LIQ")
        \/ ClosePosition(s, q, exit, "TRAIL")
        \/ ClosePosition(s, q, exit, "SL")
        \/ ClosePosition(s, q, Target(p), "TP")
        \/ ClosePosition(s, q, exit, "TP")
        \/ /\ positions' = [positions EXCEPT ![s] = q]
           /\ UNCHANGED <<pending, closed, events, nextId, posted>>
    BY <1>2 DEF MarkPrice
  <2>5. {"LIQ", "TRAIL", "SL", "TP"} \subseteq Reason
    BY DEF Reason
  <2>6. p.id = positions[s].id /\ p.fee = positions[s].fee /\ p.funding = positions[s].funding
    OBVIOUS
  <2> HIDE DEF p, q
  <2>7. CASE \/ ClosePosition(s, p, Liq(p), "LIQ")
             \/ ClosePosition(s, q, exit, "TRAIL")
             \/ ClosePosition(s, q, exit, "SL")
             \/ ClosePosition(s, q, Target(p), "TP")
             \/ ClosePosition(s, q, exit, "TP")
    BY <1>2, <2>1, <2>2, <2>3, <2>5, <2>6, <2>7, CloseLedger
  <2>8. CASE /\ positions' = [positions EXCEPT ![s] = q]
             /\ UNCHANGED <<pending, closed, events, nextId, posted>>
    <3>1. positions'[s] = q /\ \A t \in Symbols \ {s} : positions'[t] = positions[t]
      BY <2>8 DEF LedgerInv, TypeOK
    <3>2. \A t \in Symbols : /\ positions'[t] = None <=> positions[t] = None
                             /\ pending'[t] = None <=> pending[t] = None
      BY <1>2, <2>2, <2>8, <3>1
    <3>3. \A t \in Held : /\ positions'[t].id = positions[t].id
                          /\ positions'[t].fee = positions[t].fee
                          /\ positions'[t].funding = positions[t].funding
      BY <2>2, <2>6, <3>1 DEF Held
    <3>4. \A t \in InFlight : pending'[t].id = pending[t].id
      BY <2>8
    <3>5. QED
      BY <2>8, <3>2, <3>3, <3>4, QuietLedger
  <2>9. QED
    BY <2>4, <2>7, <2>8
<1>3. QED
  BY <1>1, <1>2

LEMMA SweepLedger ==
  ASSUME LedgerInv, NEW s \in Symbols, NEW exit \in Prices,
         ManageOpen(s, exit) \/ CloseManually(s, exit)
  PROVE  TradeInv'
<1>1. positions[s] # None /\ positions[s] \in Position /\ exit \in Int
  BY BrokerAssumption DEF ManageOpen, CloseManually, LedgerInv, TypeOK
<1>2. \E r \in Reason : ClosePosition(s, positions[s], exit, r)
  <2>1. {"TIME", "CARRY", "MANUAL"} \subseteq Reason
    BY DEF Reason
  <2>2. QED
    BY <2>1 DEF ManageOpen, CloseManually
<1>3. QED
  BY <1>1, <1>2, CloseLedger

(* A charge to an open position is posted for that position alone. *)
LEMMA ChargeLedger ==
  ASSUME LedgerInv, NEW s \in Symbols, positions[s] # None, NEW amount \in Int,
         positions' = [positions EXCEPT ![s] = [positions[s] EXCEPT !.funding = @ + amount]],
         posted' = [posted EXCEPT ![positions[s].id] = @ - amount],
         UNCHANGED <<pending, closed, nextId>>,
         \A n \in 1..MaxFundings : events'[n] # None =>
             \/ events[n] # None /\ events'[n].id = events[n].id
             \/ events'[n].id = positions[s].id
  PROVE  TradeInv'
<1> USE DEF LedgerInv, TradeInv
<1> DEFINE p == positions[s]
           q == [p EXCEPT !.funding = @ + amount]
<1>1. /\ p \in Position /\ p.id \in Ids
      /\ p.fee \in Int /\ p.funding \in Int /\ p.funding + amount \in Int
  BY DEF TypeOK, Position
<1>2. /\ q \in Position /\ q.id = p.id /\ q.fee = p.fee
      /\ q.funding = p.funding + amount /\ q # None
  BY <1>1, NoneAssumption DEF Position
<1>3. positions' = [positions EXCEPT ![s] = q]
  OBVIOUS
<1> HIDE DEF q
<1>4. positions'[s] = q /\ \A t \in Symbols \ {s} : positions'[t] = positions[t]
  BY <1>3 DEF TypeOK
<1>5. Uses(s, p.id) /\ \A t \in Symbols \ {s} : ~Uses(t, p.id)
  BY <1>1 DEF Uses, IdsAreUnique
<1>6. \A t \in Symbols, i \in Ids : Uses(t, i)' => Uses(t, i)
  BY <1>2, <1>4 DEF Uses
<1>7. /\ posted'[p.id] = posted[p.id] - amount
      /\ \A i \in Ids \ {p.id} : posted'[i] = posted[i]
  BY <1>1 DEF TypeOK
<1>8. UsedIdsAreLive' /\ IdsAreUnique'
  BY <1>6 DEF UsedIdsAreLive, IdsAreUnique
<1>9. FutureIdsAreBlank'
  <2>1. p.id < nextId /\ p.id \in Nat /\ nextId \in Nat
    BY <1>1, <1>5 DEF UsedIdsAreLive, Ids, TypeOK
  <2>2. QED
    BY <1>7, <2>1 DEF FutureIdsAreBlank
<1>10. OrdersCostNothing'
  <2>1. ASSUME NEW t \in Symbols, pending[t] # None
        PROVE  pending[t].id \in Ids \ {p.id}
    <3>1. t # s /\ pending[t] \in Order
      BY <2>1 DEF TypeOK, OneExposure
    <3>2. QED
      BY <1>5, <2>1, <3>1 DEF Order, Uses
  <2>2. QED
    BY <1>7, <2>1 DEF OrdersCostNothing, InFlight
<1>11. EventsHaveTrades'
  <2>1. \A t \in Held : positions'[t] # None /\ positions'[t].id = positions[t].id
    BY <1>2, <1>4 DEF Held
  <2>2. s \in Held
    BY DEF Held
  <2>3. QED
    BY <2>1, <2>2 DEF EventsHaveTrades, Held
<1>12. TradesMatchPostings'
  <2>1. closed[p.id] = None
    BY <1>1, <1>5 DEF UsedIdsAreLive
  <2>2. \A i \in Ids : closed'[i] # None => closed'[i].pnl = posted'[i]
    BY <1>7, <2>1 DEF TradesMatchPostings
  <2>3. posted'[q.id] = -(q.fee + q.funding)
    <3>1. posted[p.id] = -(p.fee + p.funding)
      BY DEF TradesMatchPostings, Held
    <3>2. QED
      BY <1>1, <1>2, <1>7, <3>1
  <2>4. ASSUME NEW t \in Symbols \ {s}, positions'[t] # None
        PROVE  posted'[positions'[t].id] = -(positions'[t].fee + positions'[t].funding)
    <3>1. positions'[t] = positions[t] /\ t \in Held
      BY <1>4, <2>4 DEF Held
    <3>2. positions[t].id \in Ids /\ positions[t].id # p.id
      BY <1>5, <3>1 DEF TypeOK, Position, Uses, Held
    <3>3. QED
      BY <1>7, <3>1, <3>2 DEF TradesMatchPostings
  <2>5. QED
    BY <1>4, <2>2, <2>3, <2>4 DEF TradesMatchPostings, Held
<1>13. QED
  BY <1>8, <1>9, <1>10, <1>11, <1>12

LEMMA SettleLedger ==
  ASSUME LedgerInv, NEW s \in Symbols, NEW n \in 1..MaxFundings,
         NEW fee \in FundingFees, NEW final \in BOOLEAN,
         SettleFundingBoundary(s, n, fee, final)
  PROVE  TradeInv'
<1>1. fee \in Int /\ positions[s] # None
  BY BrokerAssumption DEF SettleFundingBoundary
<1>2. /\ positions' = [positions EXCEPT ![s] = [positions[s] EXCEPT !.funding = @ + fee]]
      /\ posted' = [posted EXCEPT ![positions[s].id] = @ - fee]
      /\ UNCHANGED <<pending, closed, nextId>>
  BY DEF SettleFundingBoundary, LedgerInv, TypeOK
<1>3. \A m \in 1..MaxFundings : events'[m] # None =>
             \/ events[m] # None /\ events'[m].id = events[m].id
             \/ events'[m].id = positions[s].id
  BY DEF SettleFundingBoundary, LedgerInv, TypeOK
<1>4. QED
  BY <1>1, <1>2, <1>3, ChargeLedger

(* A correction lands on the open position, or on the closed trade. *)
LEMMA ReconcileLedger ==
  ASSUME LedgerInv, NEW n \in 1..MaxFundings, NEW corrected \in FundingFees,
         ReconcileSettledFunding(n, corrected)
  PROVE  TradeInv'
<1> DEFINE id == events[n].id
           delta == corrected - events[n].amount
<1>1. events[n] \in FundingEvent
  BY DEF ReconcileSettledFunding, LedgerInv, TypeOK
<1>2. id \in Ids /\ delta \in Int /\ corrected \in Int
  BY <1>1, BrokerAssumption DEF FundingEvent
<1> HIDE DEF delta
<1>3. /\ events' = [events EXCEPT ![n].amount = corrected, ![n].settled = TRUE]
      /\ posted' = [posted EXCEPT ![id] = @ - delta]
      /\ positions' = [s \in Symbols |->
             IF s \in OpenAs(id) THEN [positions[s] EXCEPT !.funding = @ + delta]
                                 ELSE positions[s]]
      /\ closed' = IF OpenAs(id) # {} THEN closed
                   ELSE [closed EXCEPT ![id] = Corrected(@, delta)]
      /\ UNCHANGED <<pending, nextId>> /\ events[n] # None
  BY DEF ReconcileSettledFunding, delta
<1>4. \A m \in 1..MaxFundings : events'[m] # None =>
          events[m] # None /\ events'[m].id = events[m].id
  <2>1. \A m \in 1..MaxFundings \ {n} : events'[m] = events[m]
    BY <1>3 DEF LedgerInv, TypeOK
  <2>2. events'[n] = [events[n] EXCEPT !.amount = corrected, !.settled = TRUE]
    BY <1>3 DEF LedgerInv, TypeOK
  <2>3. events'[n].id = id
    BY <1>1, <2>2 DEF FundingEvent
  <2>4. QED
    BY <1>3, <2>1, <2>3
<1>5. CASE OpenAs(id) # {}
  <2>1. PICK s \in Symbols : positions[s] # None /\ positions[s].id = id
    BY <1>5 DEF OpenAs, Held
  <2>2. OpenAs(id) = {s}
    BY <1>2, <2>1 DEF OpenAs, Held, LedgerInv, IdsAreUnique, Uses
  <2>3. positions' = [positions EXCEPT ![s] = [positions[s] EXCEPT !.funding = @ + delta]]
    BY <1>3, <2>2 DEF LedgerInv, TypeOK
  <2>4. /\ posted' = [posted EXCEPT ![positions[s].id] = @ - delta]
        /\ UNCHANGED <<pending, closed, nextId>>
    BY <1>3, <1>5, <2>1
  <2>5. \A m \in 1..MaxFundings : events'[m] # None =>
             \/ events[m] # None /\ events'[m].id = events[m].id
             \/ events'[m].id = positions[s].id
    BY <1>4
  <2>6. delta \in Int /\ positions[s] # None
    BY <1>2, <2>1
  <2> HIDE DEF id
  <2>7. QED
    BY <2>3, <2>4, <2>5, <2>6, ChargeLedger
<1>6. CASE OpenAs(id) = {}
  <2> USE DEF LedgerInv, TradeInv
  <2>1. /\ positions' = positions
        /\ closed' = [closed EXCEPT ![id] = Corrected(@, delta)]
    BY <1>3, <1>6 DEF TypeOK
  <2>2. closed[id] # None
    BY <1>3, <1>6 DEF EventsHaveTrades, OpenAs
  <2>3. closed[id] \in Trade \cup {None}
    BY <1>2 DEF TypeOK
  <2>4. /\ closed'[id] # None /\ closed'[id].pnl = closed[id].pnl - delta
        /\ \A i \in Ids \ {id} : closed'[i] = closed[i]
    BY <1>2, <2>1, <2>2, <2>3, CorrectedType DEF TypeOK
  <2>5. /\ posted'[id] = posted[id] - delta
        /\ \A i \in Ids \ {id} : posted'[i] = posted[i]
    BY <1>2, <1>3 DEF TypeOK
  <2> HIDE DEF id
  <2>6. \A t \in Symbols : ~Uses(t, id)
    BY <1>2, <2>2 DEF UsedIdsAreLive
  <2>7. \A t \in Symbols, i \in Ids : Uses(t, i)' => Uses(t, i) /\ i # id
    BY <1>3, <2>1, <2>6 DEF Uses
  <2>8. UsedIdsAreLive' /\ IdsAreUnique'
    BY <1>3, <2>4, <2>7 DEF UsedIdsAreLive, IdsAreUnique
  <2>9. FutureIdsAreBlank'
    BY <1>2, <1>3, <2>2, <2>4, <2>5 DEF FutureIdsAreBlank
  <2>10. OrdersCostNothing'
    <3>1. ASSUME NEW t \in Symbols, pending[t] # None
          PROVE  pending[t].id \in Ids \ {id}
      BY <2>6, <3>1 DEF TypeOK, Order, Uses
    <3>2. QED
      BY <1>3, <2>5, <3>1 DEF OrdersCostNothing, InFlight
  <2>11. EventsHaveTrades'
    <3>1. ASSUME NEW m \in 1..MaxFundings, events'[m] # None
          PROVE  \/ closed'[events'[m].id] # None
                 \/ \E s \in Held : positions[s].id = events'[m].id
      <4>1. events[m] # None /\ events'[m].id = events[m].id /\ events[m].id \in Ids
        BY <1>4, <3>1 DEF TypeOK, FundingEvent
      <4>2. QED
        BY <2>4, <4>1 DEF EventsHaveTrades
    <3>2. QED
      BY <2>1, <3>1 DEF EventsHaveTrades, Held
  <2>12. TradesMatchPostings'
    <3>1. closed'[id].pnl = posted'[id]
      BY <1>2, <2>2, <2>4, <2>5 DEF TradesMatchPostings
    <3>2. ASSUME NEW t \in Symbols, positions[t] # None
          PROVE  positions[t].id \in Ids \ {id}
      BY <2>6, <3>2 DEF TypeOK, Position, Uses
    <3>3. QED
      BY <2>1, <2>4, <2>5, <3>1, <3>2 DEF TradesMatchPostings, Held
  <2>13. QED
    BY <2>8, <2>9, <2>10, <2>11, <2>12
<1>7. QED
  BY <1>5, <1>6

LEMMA TickLedger ==
  ASSUME LedgerInv, Tick
  PROVE  TradeInv'
<1>1. Keeps
  BY TickShape DEF LedgerInv
<1>2. \A t \in Symbols : /\ positions'[t] = None <=> positions[t] = None
                         /\ pending'[t] = None <=> pending[t] = None
  BY <1>1 DEF Keeps
<1>3. ASSUME NEW t \in Held
      PROVE  /\ positions'[t].id = positions[t].id
             /\ positions'[t].fee = positions[t].fee
             /\ positions'[t].funding = positions[t].funding
  <2>1. positions'[t] = [positions[t] EXCEPT !.hold = Countdown(@)]
    BY DEF Tick, Held
  <2>2. positions[t] \in Position
    BY DEF LedgerInv, TypeOK, Held
  <2>3. QED
    BY <2>1, <2>2 DEF Position
<1>4. ASSUME NEW t \in InFlight
      PROVE  pending'[t].id = pending[t].id
  <2>1. pending'[t] = [pending[t] EXCEPT !.ready = Countdown(@), !.rest = Countdown(@)]
    BY DEF Tick, InFlight
  <2>2. pending[t] \in Order
    BY DEF LedgerInv, TypeOK, InFlight
  <2>3. QED
    BY <2>1, <2>2 DEF Order
<1>5. UNCHANGED <<closed, events, nextId, posted>>
  BY DEF Tick
<1>6. QED
  BY <1>2, <1>3, <1>4, <1>5, QuietLedger

LEMMA ResetLedger ==
  ASSUME Reset
  PROVE  TradeInv'
<1>1. \A t \in Symbols : positions'[t] = None /\ pending'[t] = None
  BY DEF Reset
<1>2. \A i \in Ids : closed'[i] = None /\ posted'[i] = 0
  BY DEF Reset
<1>3. \A n \in 1..MaxFundings : events'[n] = None
  BY DEF Reset
<1>4. QED
  BY <1>1, <1>2, <1>3 DEF TradeInv, UsedIdsAreLive, IdsAreUnique, FutureIdsAreBlank,
     OrdersCostNothing, EventsHaveTrades, TradesMatchPostings, Uses, Held, InFlight

LEMMA LedgerStep ==
  ASSUME LedgerInv, CoolingIsFlat, [Next]_vars
  PROVE  LedgerInv'
<1>1. TypeOK' /\ OneExposure'
  BY ExposureStep DEF LedgerInv, ExposureInv
<1>2. TradeInv'
  <2>1. CASE \E s \in Symbols : Step(s)
    BY <2>1, ProposalLedger, ProcessLedger, MarkPriceLedger, SweepLedger,
       SettleLedger DEF Step
  <2>2. CASE \E n \in 1..MaxFundings, fee \in FundingFees : ReconcileSettledFunding(n, fee)
    BY <2>2, ReconcileLedger
  <2>3. CASE Tick
    BY <2>3, TickLedger
  <2>4. CASE Reset
    BY <2>4, ResetLedger
  <2>5. CASE UNCHANGED vars
    BY <2>5, QuietLedger DEF vars
  <2>6. QED
    BY <2>1, <2>2, <2>3, <2>4, <2>5 DEF Next
<1>3. QED
  BY <1>1, <1>2 DEF LedgerInv, TradeInv

LEMMA LedgerInit == Init => LedgerInv
<1> SUFFICES ASSUME Init PROVE LedgerInv
  OBVIOUS
<1>1. TypeOK /\ OneExposure
  BY ExposureInit DEF ExposureInv
<1>2. /\ \A s \in Symbols : positions[s] = None /\ pending[s] = None
      /\ \A i \in Ids : closed[i] = None /\ posted[i] = 0
      /\ \A n \in 1..MaxFundings : events[n] = None
  BY DEF Init
<1>3. QED
  BY <1>1, <1>2 DEF LedgerInv, UsedIdsAreLive, IdsAreUnique, FutureIdsAreBlank,
     OrdersCostNothing, EventsHaveTrades, TradesMatchPostings, Uses, Held, InFlight

(* Whatever mix of fills, closes, liquidations, provisional funding and late
   corrections: a trade's net PnL is what the ledger was posted for it. *)
THEOREM PostingsMatch == Spec => []TradesMatchPostings
<1>1. Spec => []LedgerInv
  BY LedgerInit, LedgerStep, CooldownHolds, PTL DEF Spec
<1>2. LedgerInv => TradesMatchPostings
  BY DEF LedgerInv
<1>3. QED
  BY <1>1, <1>2, PTL

-----------------------------------------------------------------------------
(* The ledger, summed up.  With ids that are nobody else's, a step moves    *)
(* the trade of one id and the charges of one symbol, and the two sums with *)
(* them.                                                                    *)

Balanced == LedgerInv /\ LedgerIdentity

LEMMA LedgerSums ==
  ASSUME TypeOK
  PROVE  /\ IsFiniteSet(Ids) /\ IsFiniteSet(Symbols)
         /\ [i \in Ids |-> TradePnl(i)] \in [Ids -> Int]
         /\ [s \in Symbols |-> Charges(s)] \in [Symbols -> Int]
         /\ SumFunction([i \in Ids |-> TradePnl(i)]) \in Int
         /\ SumFunction([s \in Symbols |-> Charges(s)]) \in Int
         /\ realizedPnl \in Int
<1>1. IsFiniteSet(Ids) /\ IsFiniteSet(Symbols)
  BY FS_Interval, BrokerAssumption DEF Ids
<1>2. ASSUME NEW i \in Ids PROVE TradePnl(i) \in Int
  BY DEF TypeOK, Trade, TradePnl
<1>3. ASSUME NEW s \in Symbols PROVE Charges(s) \in Int
  <2>1. positions[s] # None => positions[s].fee \in Nat /\ positions[s].funding \in Int
    BY DEF TypeOK, Position
  <2> QED
    BY <2>1 DEF Charges
<1>4. /\ [i \in Ids |-> TradePnl(i)] \in [Ids -> Int]
      /\ [s \in Symbols |-> Charges(s)] \in [Symbols -> Int]
  BY <1>2, <1>3
<1>5. /\ SumFunction([i \in Ids |-> TradePnl(i)]) \in Int
      /\ SumFunction([s \in Symbols |-> Charges(s)]) \in Int
  BY <1>1, <1>4, SumInt
<1> QED
  BY <1>1, <1>4, <1>5 DEF TypeOK

(* No trade changes but that of one id. *)
LEMMA TradesMove ==
  ASSUME TypeOK, TypeOK', NEW i \in Ids, \A j \in Ids \ {i} : closed'[j] = closed[j]
  PROVE  SumFunction([j \in Ids |-> TradePnl(j)])' =
            SumFunction([j \in Ids |-> TradePnl(j)]) - TradePnl(i) + TradePnl(i)'
<1> DEFINE f == [j \in Ids |-> TradePnl(j)]
           e == [j \in Ids |-> TradePnl(j)']
<1>1. IsFiniteSet(Ids) /\ f \in [Ids -> Int] /\ e \in [Ids -> Int]
  <2>1. ASSUME NEW j \in Ids PROVE TradePnl(j)' \in Int
    BY DEF TypeOK, Trade, TradePnl
  <2> QED
    BY <2>1, LedgerSums
<1>2. \A j \in Ids \ {i} : e[j] = f[j]
  BY DEF TradePnl
<1>3. f[i] = TradePnl(i) /\ e[i] = TradePnl(i)'
  OBVIOUS
<1>4. SumFunction(f)' = SumFunction(e)
  OBVIOUS
<1> HIDE DEF f, e
<1>5. SumFunction(e) = SumFunction(f) - f[i] + e[i]
  BY <1>1, <1>2, SumExcept
<1> QED
  BY <1>3, <1>4, <1>5 DEF f, e

(* No charges change but those on one symbol. *)
LEMMA ChargesMove ==
  ASSUME TypeOK, TypeOK', NEW s \in Symbols, \A t \in Symbols \ {s} : Charges(t)' = Charges(t)
  PROVE  SumFunction([t \in Symbols |-> Charges(t)])' =
            SumFunction([t \in Symbols |-> Charges(t)]) - Charges(s) + Charges(s)'
<1> DEFINE f == [t \in Symbols |-> Charges(t)]
           e == [t \in Symbols |-> Charges(t)']
<1>1. IsFiniteSet(Symbols) /\ f \in [Symbols -> Int] /\ e \in [Symbols -> Int]
  <2>1. ASSUME NEW t \in Symbols PROVE Charges(t)' \in Int
    <3>1. positions'[t] # None => positions'[t].fee \in Nat /\ positions'[t].funding \in Int
      BY DEF TypeOK, Position
    <3> QED
      BY <3>1 DEF Charges
  <2> QED
    BY <2>1, LedgerSums
<1>2. \A t \in Symbols \ {s} : e[t] = f[t]
  OBVIOUS
<1>3. f[s] = Charges(s) /\ e[s] = Charges(s)'
  OBVIOUS
<1>4. SumFunction(f)' = SumFunction(e)
  OBVIOUS
<1> HIDE DEF f, e
<1>5. SumFunction(e) = SumFunction(f) - f[s] + e[s]
  BY <1>1, <1>2, SumExcept
<1> QED
  BY <1>3, <1>4, <1>5 DEF f, e

(* The two sums stay as they are when no trade and no charge changes. *)
LEMMA TradesRest ==
  ASSUME \A j \in Ids : TradePnl(j)' = TradePnl(j)
  PROVE  SumFunction([j \in Ids |-> TradePnl(j)])' = SumFunction([j \in Ids |-> TradePnl(j)])
<1>1. [j \in Ids |-> TradePnl(j)]' = [j \in Ids |-> TradePnl(j)]
  OBVIOUS
<1> QED
  BY <1>1

LEMMA ChargesRest ==
  ASSUME \A t \in Symbols : Charges(t)' = Charges(t)
  PROVE  SumFunction([t \in Symbols |-> Charges(t)])' = SumFunction([t \in Symbols |-> Charges(t)])
<1>1. [t \in Symbols |-> Charges(t)]' = [t \in Symbols |-> Charges(t)]
  OBVIOUS
<1> QED
  BY <1>1

(* The charges on one symbol grow by what the ledger is debited. *)
LEMMA ChargeBalance ==
  ASSUME TypeOK, TypeOK', LedgerIdentity, NEW s \in Symbols, NEW amount \in Int,
         \A t \in Symbols \ {s} : positions'[t] = positions[t],
         Charges(s)' = Charges(s) + amount, Charges(s) \in Int,
         closed' = closed, realizedPnl' = realizedPnl - amount
  PROVE  LedgerIdentity'
<1> DEFINE Trades == SumFunction([i \in Ids |-> TradePnl(i)])
           Costs  == SumFunction([t \in Symbols |-> Charges(t)])
<1>1. Trades' = Trades
  BY TradesRest DEF TradePnl
<1>2. \A t \in Symbols \ {s} : Charges(t)' = Charges(t)
  BY DEF Charges
<1>3. Costs' = Costs - Charges(s) + Charges(s)'
  BY <1>2, ChargesMove
<1>4. Trades \in Int /\ Costs \in Int /\ realizedPnl \in Int
  BY LedgerSums
<1>5. realizedPnl = Trades - Costs
  BY DEF LedgerIdentity
<1>6. (realizedPnl = Trades - Costs)' <=> LedgerIdentity'
  BY DEF LedgerIdentity
<1> HIDE DEF Trades, Costs
<1> QED
  BY <1>1, <1>3, <1>4, <1>5, <1>6

(* Nothing that counts changes. *)
LEMMA QuietBalance ==
  ASSUME LedgerIdentity, UNCHANGED <<closed, realizedPnl>>,
         \A t \in Symbols : Charges(t)' = Charges(t)
  PROVE  LedgerIdentity'
<1>1. \A i \in Ids : TradePnl(i)' = TradePnl(i)
  BY DEF TradePnl
<1> QED
  BY <1>1, TradesRest, ChargesRest DEF LedgerIdentity

LEMMA ProcessBalance ==
  ASSUME Balanced, TypeOK', NEW s \in Symbols,
         ProcessTaker(s) \/ ProcessCrossed(s) \/ ProcessExpired(s)
  PROVE  LedgerIdentity'
<1> USE DEF Balanced, LedgerInv
<1>1. pending[s] # None /\ UNCHANGED <<closed, events, nextId>>
  BY DEF ProcessTaker, ProcessCrossed, ProcessExpired, Dequeue
<1>2. \/ Refuse
      \/ \E fee \in Nat, price \in Prices, im \in Margins :
            Fill(s, pending[s], price, im, fee)
  BY BrokerAssumption DEF ProcessTaker, ProcessCrossed, ProcessExpired, TryFill
<1>3. CASE Refuse
  <2>1. \A t \in Symbols : Charges(t)' = Charges(t)
    BY <1>3 DEF Refuse, Charges
  <2> QED
    BY <1>1, <1>3, <2>1, QuietBalance DEF Refuse
<1>4. ASSUME NEW fee \in Nat, NEW price \in Prices, NEW im \in Margins,
             Fill(s, pending[s], price, im, fee)
      PROVE  LedgerIdentity'
  <2> DEFINE p == NewPosition(pending[s], price, im, fee)
  <2>1. p # None /\ p.fee = fee /\ p.funding = 0
    BY <1>1, NewPositionType, BrokerAssumption, NoneAssumption DEF TypeOK, NewPosition
  <2>2. /\ positions' = [positions EXCEPT ![s] = p] /\ positions[s] = None
        /\ realizedPnl' = realizedPnl - fee
    BY <1>4 DEF Fill, MayFill
  <2> HIDE DEF p
  <2>3. positions'[s] = p /\ \A t \in Symbols \ {s} : positions'[t] = positions[t]
    BY <2>2 DEF TypeOK
  <2>4. Charges(s) = 0 /\ Charges(s)' = Charges(s) + fee
    BY <2>1, <2>2, <2>3 DEF Charges
  <2> QED
    BY <1>1, <2>2, <2>3, <2>4, ChargeBalance
<1> QED
  BY <1>2, <1>3, <1>4

(* A close turns the charges on the position into the net PnL of its trade. *)
LEMMA CloseBalance ==
  ASSUME Balanced, TypeOK', NEW s \in Symbols, positions[s] # None,
         NEW p \in Position, p.id = positions[s].id,
         p.fee = positions[s].fee, p.funding = positions[s].funding,
         NEW exit \in Int, NEW reason \in Reason, ClosePosition(s, p, exit, reason)
  PROVE  LedgerIdentity'
<1> USE DEF Balanced, LedgerInv
<1> DEFINE gross   == Dir(p.side) * (exit - p.entry)
           exitFee == IF reason = "TP" /\ TpAsLimit THEN MakerFee ELSE TakerFee
           credit  == CloseCredit(p, reason, gross, exitFee)
           trade   == ClosedTrade(p, reason, gross, exitFee)
           Trades  == SumFunction([i \in Ids |-> TradePnl(i)])
           Costs   == SumFunction([t \in Symbols |-> Charges(t)])
<1>1. p.id \in Ids /\ exit - p.entry \in Int /\ p.fee \in Nat /\ p.funding \in Int
  BY DEF Position
<1>2. gross \in Int /\ exitFee \in Nat
  BY <1>1, DirTimes, BrokerAssumption
<1> HIDE DEF gross, exitFee
<1>3. credit \in Int /\ trade \in Trade /\ trade.pnl = credit - (p.fee + p.funding)
  BY <1>2, ClosedTradeType
<1> HIDE DEF credit, trade
<1>4. /\ realizedPnl' = realizedPnl + credit
      /\ closed' = [closed EXCEPT ![p.id] = trade]
      /\ positions' = [positions EXCEPT ![s] = None]
  BY DEF ClosePosition, gross, exitFee, credit, trade
<1>5. /\ positions'[s] = None /\ \A t \in Symbols \ {s} : positions'[t] = positions[t]
      /\ closed'[p.id] = trade /\ \A i \in Ids \ {p.id} : closed'[i] = closed[i]
  BY <1>1, <1>4 DEF TypeOK
<1>6. TradePnl(p.id) = 0 /\ TradePnl(p.id)' = trade.pnl
  <2>1. Uses(s, p.id)
    BY DEF Uses
  <2>2. closed[p.id] = None /\ trade # None
    BY <1>1, <1>3, <2>1, NoneAssumption DEF UsedIdsAreLive
  <2> QED
    BY <1>5, <2>2 DEF TradePnl
<1>7. Charges(s) = p.fee + p.funding /\ Charges(s)' = 0
  BY <1>5 DEF Charges
<1>8. Trades' = Trades - TradePnl(p.id) + TradePnl(p.id)'
  BY <1>1, <1>5, TradesMove
<1>9. Costs' = Costs - Charges(s) + Charges(s)'
  <2>1. \A t \in Symbols \ {s} : Charges(t)' = Charges(t)
    BY <1>5 DEF Charges
  <2> QED
    BY <2>1, ChargesMove
<1>10. Trades \in Int /\ Costs \in Int /\ realizedPnl \in Int
  BY LedgerSums
<1>11. realizedPnl = Trades - Costs
  BY DEF LedgerIdentity
<1>12. (realizedPnl = Trades - Costs)' <=> LedgerIdentity'
  BY DEF LedgerIdentity
<1> HIDE DEF Trades, Costs
<1> QED
  BY <1>1, <1>3, <1>4, <1>6, <1>7, <1>8, <1>9, <1>10, <1>11, <1>12

LEMMA MarkPriceBalance ==
  ASSUME Balanced, TypeOK', NEW s \in Symbols, NEW price \in Prices, NEW mark \in Prices,
         NEW exit \in Prices, MarkPrice(s, price, mark, exit)
  PROVE  LedgerIdentity'
<1> USE DEF Balanced, LedgerInv
<1>1. CASE positions[s] = None
  <2>1. UNCHANGED <<positions, closed, realizedPnl>>
    BY <1>1 DEF MarkPrice
  <2>2. \A t \in Symbols : Charges(t)' = Charges(t)
    BY <2>1 DEF Charges
  <2> QED
    BY <2>1, <2>2, QuietBalance
<1>2. CASE positions[s] # None
  <2> DEFINE p == positions[s]
             q == ManageStop(p, price)
  <2>1. p \in Position /\ price \in Int /\ exit \in Int
    BY <1>2, BrokerAssumption DEF TypeOK
  <2>2. /\ q \in Position /\ q.id = p.id /\ q.fee = p.fee /\ q.funding = p.funding
        /\ q # None
    BY <2>1, ManageStopType, NoneAssumption
  <2>3. Liq(p) \in Int /\ Target(p) \in Int
    BY <2>1, DirTimes, BrokerAssumption DEF Liq, Target, Position
  <2>4. \/ ClosePosition(s, p, Liq(p), "LIQ")
        \/ ClosePosition(s, q, exit, "TRAIL")
        \/ ClosePosition(s, q, exit, "SL")
        \/ ClosePosition(s, q, Target(p), "TP")
        \/ ClosePosition(s, q, exit, "TP")
        \/ /\ positions' = [positions EXCEPT ![s] = q]
           /\ UNCHANGED <<closed, realizedPnl>>
    BY <1>2 DEF MarkPrice
  <2>5. {"LIQ", "TRAIL", "SL", "TP"} \subseteq Reason
    BY DEF Reason
  <2>6. p.id = positions[s].id /\ p.fee = positions[s].fee /\ p.funding = positions[s].funding
    OBVIOUS
  <2> HIDE DEF p, q
  <2>7. CASE \/ ClosePosition(s, p, Liq(p), "LIQ")
             \/ ClosePosition(s, q, exit, "TRAIL")
             \/ ClosePosition(s, q, exit, "SL")
             \/ ClosePosition(s, q, Target(p), "TP")
             \/ ClosePosition(s, q, exit, "TP")
    BY <1>2, <2>1, <2>2, <2>3, <2>5, <2>6, <2>7, CloseBalance
  <2>8. CASE /\ positions' = [positions EXCEPT ![s] = q]
             /\ UNCHANGED <<closed, realizedPnl>>
    <3>1. positions'[s] = q /\ \A t \in Symbols \ {s} : positions'[t] = positions[t]
      BY <2>8 DEF TypeOK
    <3>2. \A t \in Symbols : Charges(t)' = Charges(t)
      BY <1>2, <2>2, <2>6, <3>1 DEF Charges
    <3> QED
      BY <2>8, <3>2, QuietBalance
  <2> QED
    BY <2>4, <2>7, <2>8
<1> QED
  BY <1>1, <1>2

LEMMA SweepBalance ==
  ASSUME Balanced, TypeOK', NEW s \in Symbols, NEW exit \in Prices,
         ManageOpen(s, exit) \/ CloseManually(s, exit)
  PROVE  LedgerIdentity'
<1>1. positions[s] # None /\ positions[s] \in Position /\ exit \in Int
  BY BrokerAssumption DEF ManageOpen, CloseManually, Balanced, LedgerInv, TypeOK
<1>2. \E r \in Reason : ClosePosition(s, positions[s], exit, r)
  <2>1. {"TIME", "CARRY", "MANUAL"} \subseteq Reason
    BY DEF Reason
  <2> QED
    BY <2>1 DEF ManageOpen, CloseManually
<1> QED
  BY <1>1, <1>2, CloseBalance

LEMMA SettleBalance ==
  ASSUME Balanced, TypeOK', NEW s \in Symbols, NEW n \in 1..MaxFundings,
         NEW fee \in FundingFees, NEW final \in BOOLEAN,
         SettleFundingBoundary(s, n, fee, final)
  PROVE  LedgerIdentity'
<1> USE DEF Balanced, LedgerInv
<1> DEFINE q == [positions[s] EXCEPT !.funding = @ + fee]
<1>1. fee \in Int /\ positions[s] # None /\ positions[s] \in Position
  BY BrokerAssumption DEF SettleFundingBoundary, TypeOK
<1>2. positions[s].fee \in Nat /\ positions[s].funding \in Int /\ positions[s].funding + fee \in Int
  BY <1>1 DEF Position
<1>3. q \in Position /\ q # None /\ q.fee = positions[s].fee /\ q.funding = positions[s].funding + fee
  BY <1>1, <1>2, NoneAssumption DEF Position
<1>4. positions' = [positions EXCEPT ![s] = q]
  BY DEF SettleFundingBoundary, TypeOK
<1> HIDE DEF q
<1>5. positions'[s] = q /\ \A t \in Symbols \ {s} : positions'[t] = positions[t]
  BY <1>4 DEF TypeOK
<1>6. Charges(s) \in Int /\ Charges(s)' = Charges(s) + fee
  BY <1>1, <1>2, <1>3, <1>5 DEF Charges
<1>7. closed' = closed /\ realizedPnl' = realizedPnl - fee
  BY DEF SettleFundingBoundary
<1> QED
  BY <1>1, <1>5, <1>6, <1>7, ChargeBalance

LEMMA ReconcileBalance ==
  ASSUME Balanced, TypeOK', NEW n \in 1..MaxFundings, NEW corrected \in FundingFees,
         ReconcileSettledFunding(n, corrected)
  PROVE  LedgerIdentity'
<1> USE DEF Balanced, LedgerInv
<1> DEFINE id == events[n].id
           delta == corrected - events[n].amount
<1>1. events[n] \in FundingEvent
  BY DEF ReconcileSettledFunding, TypeOK
<1>2. id \in Ids /\ delta \in Int
  BY <1>1, BrokerAssumption DEF FundingEvent
<1> HIDE DEF delta
<1>3. /\ realizedPnl' = realizedPnl - delta
      /\ positions' = [s \in Symbols |->
             IF s \in OpenAs(id) THEN [positions[s] EXCEPT !.funding = @ + delta]
                                 ELSE positions[s]]
      /\ closed' = IF OpenAs(id) # {} THEN closed
                   ELSE [closed EXCEPT ![id] = Corrected(@, delta)]
      /\ events[n] # None
  BY DEF ReconcileSettledFunding, delta
<1>4. CASE OpenAs(id) # {}
  <2>1. PICK s \in Symbols : positions[s] # None /\ positions[s].id = id
    BY <1>4 DEF OpenAs, Held
  <2>2. OpenAs(id) = {s}
    BY <1>2, <2>1 DEF OpenAs, Held, IdsAreUnique, Uses
  <2> DEFINE q == [positions[s] EXCEPT !.funding = @ + delta]
  <2>3. positions'[s] = q /\ \A t \in Symbols \ {s} : positions'[t] = positions[t]
    BY <1>3, <2>2
  <2>4. positions[s] \in Position
    BY <2>1 DEF TypeOK
  <2>5. /\ positions[s].fee \in Nat /\ positions[s].funding \in Int
        /\ positions[s].funding + delta \in Int
    BY <1>2, <2>4 DEF Position
  <2>6. /\ q \in Position /\ q # None /\ q.fee = positions[s].fee
        /\ q.funding = positions[s].funding + delta
    BY <2>4, <2>5, NoneAssumption DEF Position
  <2> HIDE DEF q, id
  <2>7. Charges(s) \in Int /\ Charges(s)' = Charges(s) + delta
    BY <1>2, <2>1, <2>3, <2>5, <2>6 DEF Charges
  <2> QED
    BY <1>2, <1>3, <1>4, <2>3, <2>7, ChargeBalance
<1>5. CASE OpenAs(id) = {}
  <2> DEFINE Trades == SumFunction([i \in Ids |-> TradePnl(i)])
             Costs  == SumFunction([t \in Symbols |-> Charges(t)])
  <2>1. /\ positions' = positions
        /\ closed' = [closed EXCEPT ![id] = Corrected(@, delta)]
    BY <1>3, <1>5 DEF TypeOK
  <2>2. closed[id] # None
    BY <1>3, <1>5 DEF EventsHaveTrades, OpenAs
  <2>3. closed[id] \in Trade \cup {None} /\ closed[id].pnl \in Int
    BY <1>2, <2>2 DEF TypeOK, Trade
  <2>4. /\ closed'[id] # None /\ closed'[id].pnl = closed[id].pnl - delta
        /\ \A i \in Ids \ {id} : closed'[i] = closed[i]
    BY <1>2, <2>1, <2>2, <2>3, CorrectedType DEF TypeOK
  <2> HIDE DEF id
  <2>i. PICK i \in Ids : i = id
    BY <1>2
  <2>5. TradePnl(i) = closed[i].pnl /\ TradePnl(i)' = TradePnl(i) - delta
    BY <2>i, <2>2, <2>4 DEF TradePnl
  <2>6. Trades' = Trades - TradePnl(i) + TradePnl(i)'
    BY <2>i, <2>4, TradesMove
  <2>7. Costs' = Costs
    <3>1. \A t \in Symbols : Charges(t)' = Charges(t)
      BY <2>1 DEF Charges
    <3> QED
      BY <3>1, ChargesRest
  <2>8. Trades \in Int /\ Costs \in Int /\ realizedPnl \in Int
    BY LedgerSums
  <2>9. realizedPnl = Trades - Costs
    BY DEF LedgerIdentity
  <2>10. (realizedPnl = Trades - Costs)' <=> LedgerIdentity'
    BY DEF LedgerIdentity
  <2> HIDE DEF Trades, Costs
  <2> QED
    BY <1>2, <1>3, <2>i, <2>3, <2>5, <2>6, <2>7, <2>8, <2>9, <2>10
<1> QED
  BY <1>4, <1>5

LEMMA TickBalance ==
  ASSUME Balanced, Tick
  PROVE  LedgerIdentity'
<1> USE DEF Balanced, LedgerInv
<1>1. ASSUME NEW t \in Symbols PROVE Charges(t)' = Charges(t)
  <2>1. CASE positions[t] = None
    BY <2>1 DEF Tick, Charges
  <2>2. CASE positions[t] # None
    <3> DEFINE q == [positions[t] EXCEPT !.hold = Countdown(@)]
    <3>1. positions[t] \in Position /\ positions[t].hold \in Nat
      BY <2>2 DEF TypeOK, Position
    <3>2. Countdown(positions[t].hold) \in Nat
      BY <3>1 DEF Countdown
    <3>3. q \in Position /\ q # None /\ q.fee = positions[t].fee /\ q.funding = positions[t].funding
      BY <3>1, <3>2, NoneAssumption DEF Position
    <3>4. positions'[t] = q
      BY <2>2 DEF Tick
    <3> HIDE DEF q
    <3> QED
      BY <2>2, <3>3, <3>4 DEF Charges
  <2> QED
    BY <2>1, <2>2
<1> QED
  BY <1>1, QuietBalance DEF Tick

(* An empty book on an empty ledger. *)
LEMMA EmptyBalance ==
  ASSUME closed = [i \in Ids |-> None], positions = [s \in Symbols |-> None], realizedPnl = 0
  PROVE  LedgerIdentity
<1>1. IsFiniteSet(Ids) /\ IsFiniteSet(Symbols)
  BY FS_Interval, BrokerAssumption DEF Ids
<1>2. [i \in Ids |-> TradePnl(i)] = [i \in Ids |-> 0]
  BY DEF TradePnl
<1>3. [s \in Symbols |-> Charges(s)] = [s \in Symbols |-> 0]
  BY DEF Charges
<1>4. SumFunction([i \in Ids |-> 0]) = 0 /\ SumFunction([s \in Symbols |-> 0]) = 0
  BY <1>1, SumZero
<1> QED
  BY <1>2, <1>3, <1>4 DEF LedgerIdentity

LEMMA ResetBalance ==
  ASSUME Reset
  PROVE  LedgerIdentity'
<1>1. IsFiniteSet(Ids) /\ IsFiniteSet(Symbols)
  BY FS_Interval, BrokerAssumption DEF Ids
<1>2. /\ closed' = [i \in Ids |-> None] /\ positions' = [s \in Symbols |-> None]
      /\ realizedPnl' = 0
  BY DEF Reset
<1>3. [i \in Ids |-> TradePnl(i)]' = [i \in Ids |-> 0]
  BY <1>2 DEF TradePnl
<1>4. [s \in Symbols |-> Charges(s)]' = [s \in Symbols |-> 0]
  BY <1>2 DEF Charges
<1>5. SumFunction([i \in Ids |-> 0]) = 0 /\ SumFunction([s \in Symbols |-> 0]) = 0
  BY <1>1, SumZero
<1> QED
  BY <1>2, <1>3, <1>4, <1>5 DEF LedgerIdentity

LEMMA BalanceStep ==
  ASSUME Balanced, CoolingIsFlat, [Next]_vars
  PROVE  Balanced'
<1>1. LedgerInv' /\ TypeOK'
  BY LedgerStep DEF Balanced, LedgerInv
<1>2. LedgerIdentity'
  <2>1. CASE \E s \in Symbols : Step(s)
    <3>1. PICK s \in Symbols : Step(s)
      BY <2>1
    <3>2. ASSUME NEW side \in Side, NEW mode \in {"passive", "taker"}, NEW latency \in 1..Latency,
                 OnProposal(s, side, mode, latency)
          PROVE  LedgerIdentity'
      <4>1. UNCHANGED <<positions, closed, realizedPnl>>
        BY <3>2 DEF OnProposal
      <4>2. \A t \in Symbols : Charges(t)' = Charges(t)
        BY <4>1 DEF Charges
      <4> QED
        BY <4>1, <4>2, QuietBalance DEF Balanced
    <3> QED
      BY <1>1, <3>1, <3>2, ProcessBalance, MarkPriceBalance, SweepBalance, SettleBalance DEF Step
  <2>2. CASE \E n \in 1..MaxFundings, fee \in FundingFees : ReconcileSettledFunding(n, fee)
    BY <1>1, <2>2, ReconcileBalance
  <2>3. CASE Tick
    BY <2>3, TickBalance
  <2>4. CASE Reset
    BY <2>4, ResetBalance
  <2>5. CASE UNCHANGED vars
    <3>1. UNCHANGED <<positions, closed, realizedPnl>>
      BY <2>5 DEF vars
    <3>2. \A t \in Symbols : Charges(t)' = Charges(t)
      BY <3>1 DEF Charges
    <3> QED
      BY <3>1, <3>2, QuietBalance DEF Balanced
  <2> QED
    BY <2>1, <2>2, <2>3, <2>4, <2>5 DEF Next
<1> QED
  BY <1>1, <1>2 DEF Balanced

(* The account's realized PnL is the net PnL of its closed trades less what the open
   positions have been charged, for any number of symbols and trades. *)
THEOREM LedgerBalances == Spec => []LedgerIdentity
<1>1. Init => Balanced
  <2>1. Init => LedgerIdentity
    BY EmptyBalance DEF Init
  <2> QED
    BY <2>1, LedgerInit DEF Balanced
<1>2. Spec => []Balanced
  BY <1>1, BalanceStep, CooldownHolds, PTL DEF Spec
<1>3. Balanced => LedgerIdentity
  BY DEF Balanced
<1> QED
  BY <1>2, <1>3, PTL

-----------------------------------------------------------------------------
(* The arithmetic of a trade *)

Nets(t) == (t # None /\ t.reason # "LIQ") => t.pnl = t.gross - t.fees - t.funding

(* A closed trade is written netted, and a correction keeps it so. *)
LEMMA ClosedTradeNets ==
  ASSUME NEW p \in Position, NEW reason \in Reason, NEW gross \in Int, NEW fee \in Nat
  PROVE  Nets(ClosedTrade(p, reason, gross, fee))
<1>1. p.fee \in Nat /\ p.funding \in Int
  BY DEF Position
<1> QED
  BY <1>1 DEF ClosedTrade, Nets

LEMMA CorrectedNets ==
  ASSUME NEW t \in Trade \cup {None}, NEW delta \in Int, Nets(t)
  PROVE  Nets(Corrected(t, delta))
<1>1. CASE t = None
  BY <1>1 DEF Corrected, Nets
<1>2. CASE t # None
  <2>1. /\ t \in Trade /\ t.funding \in Int /\ t.pnl \in Int /\ t.gross \in Int /\ t.fees \in Nat
    BY <1>2 DEF Trade
  <2>2. /\ Corrected(t, delta).reason = t.reason /\ Corrected(t, delta).gross = t.gross
        /\ Corrected(t, delta).fees = t.fees
        /\ Corrected(t, delta).funding = t.funding + delta
        /\ Corrected(t, delta).pnl = t.pnl - delta
    BY <1>2, <2>1 DEF Corrected, Trade
  <2> QED
    BY <1>2, <2>1, <2>2 DEF Nets
<1> QED
  BY <1>1, <1>2

(* Every trade on record is there already, netted when it is written, or corrected. *)
LEMMA CloseNets ==
  ASSUME TypeOK, TradeNets, NEW s, NEW p \in Position, NEW exit \in Int, NEW reason \in Reason,
         ClosePosition(s, p, exit, reason)
  PROVE  TradeNets'
<1> DEFINE gross   == Dir(p.side) * (exit - p.entry)
           exitFee == IF reason = "TP" /\ TpAsLimit THEN MakerFee ELSE TakerFee
           trade   == ClosedTrade(p, reason, gross, exitFee)
<1>1. p.id \in Ids /\ exit - p.entry \in Int
  BY DEF Position
<1>2. gross \in Int /\ exitFee \in Nat
  BY <1>1, DirTimes, BrokerAssumption
<1> HIDE DEF gross, exitFee
<1>3. Nets(trade)
  BY <1>2, ClosedTradeNets
<1> HIDE DEF trade
<1>4. closed' = [closed EXCEPT ![p.id] = trade]
  BY DEF ClosePosition, gross, exitFee, trade
<1>5. \A i \in Ids : closed'[i] = trade \/ closed'[i] = closed[i]
  BY <1>4 DEF TypeOK
<1> QED
  BY <1>3, <1>5 DEF TradeNets, Nets

LEMMA NetsStep ==
  ASSUME TypeOK, TradeNets, [Next]_vars
  PROVE  TradeNets'
<1>1. CASE closed' = closed
  BY <1>1 DEF TradeNets
<1>2. CASE \E s \in Symbols, price, mark, exit \in Prices : MarkPrice(s, price, mark, exit)
  <2>1. PICK s \in Symbols, price \in Prices, mark \in Prices, exit \in Prices :
             MarkPrice(s, price, mark, exit)
    BY <1>2
  <2>2. CASE positions[s] = None
    BY <1>1, <2>1, <2>2 DEF MarkPrice
  <2>3. CASE positions[s] # None
    <3> DEFINE p == positions[s]
               q == ManageStop(p, price)
    <3>1. p \in Position /\ q \in Position /\ exit \in Int
      BY <2>3, ManageStopType, BrokerAssumption DEF TypeOK
    <3>2. Liq(p) \in Int /\ Target(p) \in Int
      BY <3>1, DirTimes, BrokerAssumption DEF Liq, Target, Position
    <3>3. \/ ClosePosition(s, p, Liq(p), "LIQ")
          \/ ClosePosition(s, q, exit, "TRAIL")
          \/ ClosePosition(s, q, exit, "SL")
          \/ ClosePosition(s, q, Target(p), "TP")
          \/ ClosePosition(s, q, exit, "TP")
          \/ closed' = closed
      BY <2>1, <2>3 DEF MarkPrice
    <3>4. {"LIQ", "TRAIL", "SL", "TP"} \subseteq Reason
      BY DEF Reason
    <3> HIDE DEF p, q
    <3> QED
      BY <1>1, <3>1, <3>2, <3>3, <3>4, CloseNets
  <2> QED
    BY <2>2, <2>3
<1>3. CASE \E s \in Symbols, exit \in Prices : ManageOpen(s, exit) \/ CloseManually(s, exit)
  <2>1. PICK s \in Symbols, exit \in Prices : ManageOpen(s, exit) \/ CloseManually(s, exit)
    BY <1>3
  <2>2. positions[s] \in Position /\ exit \in Int
    BY <2>1, BrokerAssumption DEF ManageOpen, CloseManually, TypeOK
  <2>3. {"TIME", "CARRY", "MANUAL"} \subseteq Reason
    BY DEF Reason
  <2>4. \E r \in Reason : ClosePosition(s, positions[s], exit, r)
    BY <2>1, <2>3 DEF ManageOpen, CloseManually
  <2> QED
    BY <2>2, <2>4, CloseNets
<1>4. CASE \E n \in 1..MaxFundings, fee \in FundingFees : ReconcileSettledFunding(n, fee)
  <2>1. PICK n \in 1..MaxFundings, fee \in FundingFees : ReconcileSettledFunding(n, fee)
    BY <1>4
  <2> DEFINE id == events[n].id
             delta == fee - events[n].amount
  <2>2. events[n] \in FundingEvent
    BY <2>1 DEF ReconcileSettledFunding, TypeOK
  <2>3. id \in Ids /\ delta \in Int
    BY <2>2, BrokerAssumption DEF FundingEvent
  <2>4. closed' = closed \/ closed' = [closed EXCEPT ![id] = Corrected(@, delta)]
    BY <2>1 DEF ReconcileSettledFunding
  <2> HIDE DEF id, delta
  <2>5. \A i \in Ids : closed'[i] \in {closed[i], Corrected(closed[i], delta)}
    BY <2>4 DEF TypeOK
  <2>6. \A i \in Ids : closed[i] \in Trade \cup {None} /\ Nets(closed[i])
    BY DEF TypeOK, TradeNets, Nets
  <2>7. \A i \in Ids : Nets(closed'[i])
    BY <2>3, <2>5, <2>6, CorrectedNets
  <2> QED
    BY <2>7 DEF TradeNets, Nets
<1>5. CASE Reset
  BY <1>5 DEF Reset, TradeNets
<1>6. CASE UNCHANGED vars
  BY <1>1, <1>6 DEF vars
<1>7. CASE Tick
  BY <1>1, <1>7 DEF Tick
<1>8. CASE \E s \in Symbols, side \in Side, mode \in {"passive", "taker"}, latency \in 1..Latency :
              OnProposal(s, side, mode, latency)
  BY <1>1, <1>8 DEF OnProposal
<1>9. CASE \E s \in Symbols : ProcessTaker(s) \/ ProcessCrossed(s) \/ ProcessExpired(s)
  BY <1>1, <1>9 DEF ProcessTaker, ProcessCrossed, ProcessExpired, Dequeue
<1>10. CASE \E s \in Symbols, n \in 1..MaxFundings, fee \in FundingFees, final \in BOOLEAN :
              SettleFundingBoundary(s, n, fee, final)
  BY <1>1, <1>10 DEF SettleFundingBoundary
<1> QED
  BY <1>2, <1>3, <1>4, <1>5, <1>6, <1>7, <1>8, <1>9, <1>10 DEF Next, Step

(* Net is gross less fees less funding, for every trade but a liquidated one, also after the
   late correction of its funding. *)
THEOREM TradesNet == Spec => []TradeNets
<1>1. Init => TradeNets
  BY DEF Init, TradeNets
<1> QED
  BY <1>1, NetsStep, TypeCorrect, PTL DEF Spec

-----------------------------------------------------------------------------
(* What a run checks as one property *)

(* Slots, one exposure for a symbol, none on a symbol that cools down: for every run. *)
THEOREM ExposureHolds == Spec => []ExposureOK
<1>1. SlotCap /\ OneExposure /\ CoolingIsFlat => ExposureOK
  BY DEF ExposureOK
<1> QED
  BY <1>1, SlotCapHolds, ExposureIsSingle, CooldownHolds, PTL

(* The book is well formed, keeps its cap per side, and shows trade by trade what was
   posted to the ledger, for every run. *)
THEOREM PostingsHold == Spec => []PostingsOK
<1>1. TypeOK /\ SideCap /\ TradesMatchPostings /\ TradeNets => PostingsOK
  BY DEF PostingsOK
<1> QED
  BY <1>1, TypeCorrect, SideCapHolds, PostingsMatch, TradesNet, PTL

-----------------------------------------------------------------------------
(* The ratchet *)

Ratchets(s) == (s \in Held /\ s \in Held' /\ positions'[s].id = positions[s].id) =>
    AtOrBeyond(positions[s].side, positions'[s].stop, positions[s].stop)

LEMMA AtItself == ASSUME NEW side, NEW a \in Int PROVE AtOrBeyond(side, a, a)
  BY DEF AtOrBeyond, Dir

(* The stop manageStop sets is at the old one or beyond it. *)
LEMMA ManageStopRatchets ==
  ASSUME NEW p \in Position, NEW price \in Int
  PROVE  AtOrBeyond(p.side, ManageStop(p, price).stop, p.stop)
<1> DEFINE best == Better(p.side, price, p.best)
<1>1. p.best \in Int /\ p.entry \in Int /\ p.stop \in Int /\ price \in Int
  BY DEF Position
<1>2. best \in Int
  BY <1>1 DEF Better
<1>3. Candidate(p, best) \in Int
  <2>1. Dir(p.side) * FeeCushion \in Int /\ Dir(p.side) * TrailDist \in Int
    BY BrokerAssumption, DirTimes
  <2>2. /\ p.entry + Dir(p.side) * FeeCushion \in Int
        /\ best - Dir(p.side) * TrailDist \in Int
    BY <1>1, <1>2, <2>1
  <2> QED
    BY <2>2 DEF Candidate, Better
<1> HIDE DEF best
<1>4. \/ ManageStop(p, price).stop = p.stop
      \/ /\ ~AtOrBeyond(p.side, p.stop, Candidate(p, best))
         /\ ManageStop(p, price).stop = Candidate(p, best)
  BY DEF ManageStop, MovesStop, best, Position
<1>5. \A a, b \in Int : ~AtOrBeyond(p.side, a, b) => AtOrBeyond(p.side, b, a)
  BY DEF AtOrBeyond, Dir
<1> QED
  BY <1>1, <1>3, <1>4, <1>5, AtItself

(* A position that keeps its stop is no concern. *)
LEMMA KeptStop ==
  ASSUME TypeOK, NEW s \in Symbols,
         positions[s] # None /\ positions'[s] # None => positions'[s].stop = positions[s].stop
  PROVE  Ratchets(s)
<1>1. positions[s] # None => positions[s].stop \in Int
  BY DEF TypeOK, Position
<1> QED
  BY <1>1, AtItself DEF Ratchets, Held

LEMMA RatchetStep ==
  ASSUME TypeOK, TypeOK', [Next]_vars, NEW s \in Symbols
  PROVE  Ratchets(s)
<1>1. CASE positions'[s] = positions[s] \/ positions[s] = None \/ positions'[s] = None
  BY <1>1, KeptStop
<1>2. CASE \E t \in Symbols, price, mark, exit \in Prices : MarkPrice(t, price, mark, exit)
  <2>1. PICK t \in Symbols, price \in Prices, mark \in Prices, exit \in Prices :
             MarkPrice(t, price, mark, exit)
    BY <1>2
  <2>2. \/ positions' = [positions EXCEPT ![t] = None] \/ positions' = positions
        \/ positions' = [positions EXCEPT ![t] = ManageStop(positions[t], price)]
    BY <2>1 DEF MarkPrice, ClosePosition
  <2>3. \/ positions'[s] = None \/ positions'[s] = positions[s]
        \/ positions'[s] = ManageStop(positions[s], price)
    BY <2>2 DEF TypeOK
  <2>4. CASE positions'[s] = ManageStop(positions[s], price) /\ positions[s] # None
    <3>1. positions[s] \in Position /\ price \in Int
      BY <2>4, BrokerAssumption DEF TypeOK
    <3> QED
      BY <2>4, <3>1, ManageStopRatchets DEF Ratchets
  <2> QED
    BY <1>1, <2>3, <2>4
<1>3. CASE \E t \in Symbols, exit \in Prices : ManageOpen(t, exit) \/ CloseManually(t, exit)
  <2>1. \E t \in Symbols : positions' = [positions EXCEPT ![t] = None]
    BY <1>3 DEF ManageOpen, CloseManually, ClosePosition
  <2> QED
    BY <1>1, <2>1 DEF TypeOK
<1>4. CASE \E t \in Symbols, n \in 1..MaxFundings, fee \in FundingFees, final \in BOOLEAN :
              SettleFundingBoundary(t, n, fee, final)
  <2>1. PICK t \in Symbols, fee \in FundingFees :
             positions' = [positions EXCEPT ![t].funding = @ + fee]
    BY <1>4 DEF SettleFundingBoundary
  <2>2. positions'[s] = positions[s] \/ positions'[s] = [positions[s] EXCEPT !.funding = @ + fee]
    BY <2>1 DEF TypeOK
  <2>3. positions[s] # None => positions[s] \in Position
    BY DEF TypeOK
  <2>4. positions[s] # None => positions'[s].stop = positions[s].stop
    BY <2>2, <2>3 DEF Position
  <2> QED
    BY <2>4, KeptStop
<1>5. CASE \E n \in 1..MaxFundings, fee \in FundingFees : ReconcileSettledFunding(n, fee)
  <2>1. PICK delta : positions'[s] \in {positions[s], [positions[s] EXCEPT !.funding = @ + delta]}
    BY <1>5 DEF ReconcileSettledFunding
  <2>2. positions[s] # None => positions[s] \in Position
    BY DEF TypeOK
  <2>3. positions[s] # None => positions'[s].stop = positions[s].stop
    BY <2>1, <2>2 DEF Position
  <2> QED
    BY <2>3, KeptStop
<1>6. CASE Tick
  <2>1. positions[s] # None => positions[s] \in Position
    BY DEF TypeOK
  <2>2. positions[s] # None => positions'[s] = [positions[s] EXCEPT !.hold = Countdown(@)]
    BY <1>6 DEF Tick
  <2>3. positions[s] # None => positions'[s].stop = positions[s].stop
    BY <2>1, <2>2 DEF Position
  <2> QED
    BY <2>3, KeptStop
<1>7. CASE Reset
  BY <1>1, <1>7 DEF Reset
<1>8. CASE UNCHANGED vars
  BY <1>1, <1>8 DEF vars
<1>9. CASE \E t \in Symbols, side \in Side, mode \in {"passive", "taker"}, latency \in 1..Latency :
              OnProposal(t, side, mode, latency)
  BY <1>1, <1>9 DEF OnProposal
<1>10. CASE \E t \in Symbols : ProcessTaker(t) \/ ProcessCrossed(t) \/ ProcessExpired(t)
  <2>1. PICK t \in Symbols : ProcessTaker(t) \/ ProcessCrossed(t) \/ ProcessExpired(t)
    BY <1>10
  <2>2. \/ positions' = positions
        \/ positions[t] = None /\ \E p : positions' = [positions EXCEPT ![t] = p]
    BY <2>1 DEF ProcessTaker, ProcessCrossed, ProcessExpired, TryFill, Refuse, Fill, MayFill
  <2>3. positions'[s] = positions[s] \/ positions[s] = None
    BY <2>2 DEF TypeOK
  <2> QED
    BY <1>1, <2>3
<1> QED
  BY <1>2, <1>3, <1>4, <1>5, <1>6, <1>7, <1>8, <1>9, <1>10 DEF Next, Step

(* The stop of a position only ever moves in its favour, whatever prices arrive. *)
THEOREM StopsRatchet == Spec => StopRatchets
<1>1. TypeOK /\ TypeOK' /\ [Next]_vars =>
        [\A s \in Symbols :
            (s \in Held /\ s \in Held' /\ positions'[s].id = positions[s].id) =>
               AtOrBeyond(positions[s].side, positions'[s].stop, positions[s].stop)]_vars
  BY RatchetStep DEF Ratchets
<1> QED
  BY <1>1, TypeCorrect, PTL DEF Spec, StopRatchets

-----------------------------------------------------------------------------
(* The funding clock *)

(* What has happened lies behind, and settlements are published in order *)
Behind ==
    /\ time \in Instants /\ due \in Int /\ holds \in 0..MaxHolds
    /\ watermark <= time /\ opened <= time
    /\ \A t \in settled \cup toReplay : t <= time
    /\ \A t \in settled, u \in published : t < u => t \in published
    /\ \A c \in charges : c.hold <= holds

(* A replay that a true clock began has every settlement of the position up to its own
   last one, unless it is charged *)
Replays ==
    hold # 0 /\ trusted =>
        /\ opened <= watermark
        /\ \A t \in toReplay : opened < t =>
              /\ t \in settled
              /\ \A u \in settled : opened < u /\ u < t => u \in Charged \cup toReplay

FundingInv == FundingOK /\ Behind /\ Replays

LEMMA ClockConstants ==
  /\ Periods \subseteq Nat \ {0} /\ DefaultPeriod \in Nat \ {0} /\ WalkCap \in Nat \ {0}
  /\ MaxClock \in Nat /\ MaxHolds \in Nat
  BY FundingAssumption

LEMMA LeastOf ==
  ASSUME NEW S, S \subseteq Nat, S # {}
  PROVE  Min(S) \in S /\ \A x \in S : Min(S) <= x
  BY LeastNatural DEF Min

LEMMA GreatestOf ==
  ASSUME NEW n \in Nat, NEW S, S \subseteq 0..n, S # {}
  PROVE  Max(S) \in S /\ \A x \in S : x <= Max(S)
<1> DEFINE T == {n - x : x \in S}
<1>1. T \subseteq Nat /\ T # {}
  <2>1. \A x \in S : n - x \in Nat
    OBVIOUS
  <2> QED BY <2>1
<1>2. PICK m \in T : \A k \in T : m <= k
  BY <1>1, LeastNatural
<1>3. PICK g \in S : m = n - g
  OBVIOUS
<1>4. ASSUME NEW x \in S PROVE g >= x
  <2>1. n - x \in T
    OBVIOUS
  <2>2. n - g <= n - x
    BY <1>2, <1>3, <2>1
  <2> QED BY <1>3, <2>2
<1>5. \A x \in S : x \in Int
  OBVIOUS
<1>6. Max(S) \in S /\ \A x \in S : Max(S) >= x
  BY <1>4 DEF Max
<1> QED BY <1>5, <1>6

LEMMA OfTwo ==
  ASSUME NEW a \in Int, NEW b \in Int
  PROVE  /\ Max({a, b}) = IF a >= b THEN a ELSE b
         /\ Min({a, b}) = IF a <= b THEN a ELSE b
  BY DEF Max, Min

LEMMA Division ==
  ASSUME NEW n \in Int, NEW d \in Nat \ {0}
  PROVE  \E q \in Int, r \in 0..(d - 1) : n \div d = q /\ n % d = r /\ n = d * q + r
<1>1. n \div d \in Int /\ n % d \in 0..(d - 1) /\ n = d * (n \div d) + (n % d)
  OBVIOUS
<1> QED BY <1>1

(* A multiple that is more is more times *)
LEMMA MoreTimes ==
  ASSUME NEW d \in Nat \ {0}, NEW m \in Int, NEW k \in Int, d * m < d * k
  PROVE  m < k
<1>1. SUFFICES ASSUME k <= m PROVE d * k <= d * m
  OBVIOUS
<1>2. PICK j \in Nat : m = k + j
  BY <1>1
<1>3. d * j \in Nat
  OBVIOUS
<1>4. d * m = d * k + d * j
  BY <1>2
<1> QED BY <1>3, <1>4

LEMMA CeilIs ==
  ASSUME NEW n \in Int, NEW d \in Nat \ {0}
  PROVE  CeilDiv(n, d) \in Int /\ n <= d * CeilDiv(n, d) /\ d * CeilDiv(n, d) < n + d
<1>1. PICK q \in Int, r \in 0..(d - 1) : (-n) \div d = q /\ -n = d * q + r
  <2>1. PICK x \in Int : x = -n
    OBVIOUS
  <2>2. \E q \in Int, r \in 0..(d - 1) : x \div d = q /\ x % d = r /\ x = d * q + r
    BY Division
  <2> QED BY <2>1, <2>2
<1>2. CeilDiv(n, d) = -q
  BY <1>1 DEF CeilDiv
<1>3. d * (-q) = -(d * q) /\ d * q \in Int
  OBVIOUS
<1> QED BY <1>1, <1>2, <1>3

(* The walk back from the anchor ends at or before the charge, within a period of it *)
LEMMA WalkBack ==
  ASSUME NEW a \in Int, NEW w \in Int, NEW d \in Nat \ {0}
  PROVE  \E b \in Nat : /\ Max({CeilDiv(a - w, d), 0}) = b
                        /\ a - d * b <= w
                        /\ a > w => w - d < a - d * b
                        /\ a <= w => b = 0
<1> DEFINE c == CeilDiv(a - w, d)
<1>1. c \in Int /\ a - w <= d * c /\ d * c < a - w + d
  BY CeilIs
<1> HIDE DEF c
<1>2. Max({c, 0}) = IF c >= 0 THEN c ELSE 0
  BY <1>1, OfTwo
<1>3. CASE a > w
  <2>1. d * 0 < d * c
    BY <1>1, <1>3
  <2>2. c > 0
    BY <1>1, <2>1, MoreTimes
  <2> QED BY <1>1, <1>2, <1>3, <2>2 DEF c
<1>4. CASE a <= w
  <2>1. d * c < d * 1
    BY <1>1, <1>4
  <2>2. c < 1
    BY <1>1, <2>1, MoreTimes
  <2>3. Max({c, 0}) = 0
    BY <1>1, <1>2, <2>2
  <2>4. d * 0 = 0
    OBVIOUS
  <2> QED BY <1>4, <2>3, <2>4 DEF c
<1> QED BY <1>3, <1>4

(* Where the walk from the last charge begins *)
LEMMA FirstOfGrid ==
  ASSUME NEW w \in Nat, anchor # Unknown, anchor \in Nat, interval \in Nat \ {0}
  PROVE  \E q \in Int : /\ FirstStep(w) = anchor + interval * q /\ FirstStep(w) >= 0
                        /\ w - anchor < (WalkCap + 2) * interval =>
                              w < FirstStep(w) /\ FirstStep(w) - interval <= w
<1> DEFINE back == Max({CeilDiv(anchor - w, interval), 0})
           start == anchor - back * interval
           ahead == IF start > w THEN 0 ELSE (w - start) \div interval + 1
           few == Min({ahead, WalkCap + 2})
<1>1. back \in Nat /\ anchor - interval * back <= w /\ (anchor > w => w - interval < anchor - interval * back)
      /\ (anchor <= w => back = 0)
  <2>1. PICK b \in Nat : /\ Max({CeilDiv(anchor - w, interval), 0}) = b
                         /\ anchor - interval * b <= w
                         /\ anchor > w => w - interval < anchor - interval * b
                         /\ anchor <= w => b = 0
    BY WalkBack
  <2> QED BY <2>1
<1>2. FirstStep(w) = start + few * interval
  BY DEF FirstStep
<1> HIDE DEF back
<1>3. start \in Int /\ start <= w /\ start = anchor - interval * back /\ (anchor > w => w - interval < start)
      /\ (anchor <= w => start = anchor)
  BY <1>1
<1> HIDE DEF start
<1>4. PICK q \in Int, r \in 0..(interval - 1) : (w - start) \div interval = q /\ w - start = interval * q + r
  <2>1. PICK x \in Int : x = w - start
    BY <1>3
  <2>2. \E q \in Int, r \in 0..(interval - 1) : x \div interval = q /\ x % interval = r /\ x = interval * q + r
    BY Division
  <2> QED BY <2>1, <2>2
<1>5. q >= 0
  <2>1. interval * (-1) < interval * q
    BY <1>3, <1>4
  <2>2. -1 < q
    BY <1>4, <2>1, MoreTimes
  <2> QED BY <1>4, <2>2
<1>6. ahead = q + 1
  BY <1>3, <1>4
<1> HIDE DEF ahead
<1>7. few \in Nat /\ few >= 1 /\ few = IF q + 1 <= WalkCap + 2 THEN q + 1 ELSE WalkCap + 2
  <2>1. ahead \in Int /\ WalkCap + 2 \in Int /\ WalkCap \in Nat
    BY <1>4, <1>6, ClockConstants
  <2>2. few = IF ahead <= WalkCap + 2 THEN ahead ELSE WalkCap + 2
    BY <2>1, OfTwo
  <2> HIDE DEF few
  <2> QED BY <1>4, <1>5, <1>6, <2>1, <2>2
<1> HIDE DEF few
<1>8. PICK m \in Nat : few = m + 1
  BY <1>7
<1>9. FirstStep(w) = anchor + interval * (few - back) /\ FirstStep(w) = start + interval + interval * m
      /\ interval * m \in Nat
  BY <1>1, <1>2, <1>3, <1>7, <1>8
<1>10. FirstStep(w) >= 0
  BY <1>3, <1>9
<1>11. ASSUME w - anchor < (WalkCap + 2) * interval
       PROVE  w < FirstStep(w) /\ FirstStep(w) - interval <= w
  <2>1. few = q + 1
    <3>1. SUFFICES ASSUME q >= WalkCap + 2 PROVE FALSE
      BY <1>4, <1>7, ClockConstants
    <3>2. CASE anchor > w
      <4>1. interval * q < interval * 1
        BY <1>3, <1>4, <3>2
      <4>2. q < 1
        BY <1>4, <4>1, MoreTimes
      <4> QED BY <3>1, <4>2, <1>4, ClockConstants
    <3>3. CASE anchor <= w
      <4>1. interval * q < interval * (WalkCap + 2)
        BY <1>3, <1>4, <1>11, <3>3, ClockConstants
      <4>2. q < WalkCap + 2
        BY <1>4, <4>1, MoreTimes, ClockConstants
      <4> QED BY <3>1, <4>2, <1>4, ClockConstants
    <3> QED BY <3>2, <3>3
  <2>2. m = q
    BY <1>4, <1>8, <2>1
  <2> QED BY <1>3, <1>4, <1>9, <2>2
<1>12. few - back \in Int
  BY <1>1, <1>7
<1> QED BY <1>9, <1>10, <1>11, <1>12

(* On the fallback grid *)
LEMMA FirstOfFallback ==
  ASSUME NEW w \in Nat, anchor = Unknown, interval \in Nat \ {0}
  PROVE  FirstStep(w) \in Int /\ FirstStep(w) >= 0
<1>1. PICK q \in Int, r \in 0..(interval - 1) : w \div interval = q /\ w = interval * q + r
  BY Division
<1>2. interval * (-1) < interval * q
  BY <1>1
<1>3. -1 < q
  BY <1>1, <1>2, MoreTimes
<1>4. q * interval \in Nat
  BY <1>1, <1>3
<1>5. FirstStep(w) = q * interval + interval
  BY <1>1 DEF FirstStep, LastBoundary
<1> QED BY <1>4, <1>5

LEMMA Periodic ==
  ASSUME FundingInv
  PROVE  /\ interval \in Nat \ {0} /\ period \in Nat \ {0} /\ time \in 0..MaxClock /\ Instants = 0..MaxClock
         /\ watermark \in 0..time /\ opened \in 0..time
         /\ anchor # Unknown => anchor \in Nat
  BY ClockConstants DEF FundingInv, FundingOK, FundingTypeOK, Behind, Instants

(* What is charged lies in the past *)
LEMMA BoundariesPast ==
  ASSUME FundingInv
  PROVE  Boundaries(watermark) \subseteq 0..time
<1>1. FirstStep(watermark) \in Int /\ FirstStep(watermark) >= 0
  <2>1. watermark \in Nat /\ interval \in Nat \ {0} /\ (anchor # Unknown => anchor \in Nat)
    BY Periodic, ClockConstants
  <2>2. CASE anchor = Unknown
    BY <2>1, <2>2, FirstOfFallback
  <2>3. CASE anchor # Unknown
    <3>1. PICK q \in Int : FirstStep(watermark) = anchor + interval * q /\ FirstStep(watermark) >= 0
      BY <2>1, <2>3, FirstOfGrid
    <3> QED BY <2>1, <2>3, <3>1
  <2> QED BY <2>2, <2>3
<1>2. ASSUME NEW k \in 0..(WalkCap - 1), FirstStep(watermark) + k * interval <= time
      PROVE  FirstStep(watermark) + k * interval \in 0..time
  <2>1. k \in Nat /\ interval \in Nat /\ time \in Nat
    BY Periodic, ClockConstants
  <2>2. k * interval \in Nat
    BY <2>1
  <2> QED BY <1>1, <1>2, <2>1, <2>2
<1> QED BY <1>2 DEF Boundaries

(* A true clock walks through the settlements since the last charge, in order *)
LEMMA BoundariesTrue ==
  ASSUME FundingInv, TrueClock
  PROVE  /\ \A t \in Boundaries(watermark) : t \in settled /\ watermark < t
         /\ \A t \in Boundaries(watermark), u \in settled :
               watermark < u /\ u < t => u \in Boundaries(watermark)
<1>1. /\ watermark \in Nat /\ interval \in Nat \ {0} /\ anchor \in Nat /\ time \in Nat /\ WalkCap \in Nat
      /\ anchor # Unknown /\ watermark - anchor < (WalkCap + 2) * interval
      /\ \A t \in (watermark + 1)..time : t \in settled <=> (t - anchor) % interval = 0
      /\ \A t \in settled : t <= time /\ t \in Nat
  BY Periodic, ClockConstants DEF TrueClock, FundingInv, FundingOK, FundingTypeOK, Behind
<1>2. PICK q \in Int : /\ FirstStep(watermark) = anchor + interval * q
                       /\ watermark < FirstStep(watermark) /\ FirstStep(watermark) - interval <= watermark
  BY <1>1, FirstOfGrid
<1>3. PICK first \in Int : first = FirstStep(watermark)
  BY <1>1, <1>2
<1>4. ASSUME NEW t \in Boundaries(watermark)
      PROVE  \E k \in 0..(WalkCap - 1) : t = first + k * interval /\ t \in (watermark + 1)..time
  <2>1. PICK k \in 0..(WalkCap - 1) : t = first + k * interval /\ t <= time
    BY <1>3 DEF Boundaries
  <2>2. k * interval \in Nat
    BY <1>1
  <2> QED BY <1>1, <1>2, <1>3, <2>1, <2>2
<1>5. ASSUME NEW t \in Boundaries(watermark) PROVE t \in settled /\ watermark < t
  <2>1. PICK k \in 0..(WalkCap - 1) : t = first + k * interval /\ t \in (watermark + 1)..time
    BY <1>4
  <2>2. PICK m \in Int : m = q + k
    BY <1>1
  <2>3. t - anchor = m * interval
    BY <1>1, <1>2, <1>3, <2>1, <2>2
  <2>4. (t - anchor) % interval = 0
    <3>1. PICK x \in Int : x = t - anchor
      BY <1>1, <2>1
    <3>2. x = m * interval
      BY <2>3, <3>1
    <3>3. x % interval = 0
      BY <1>1, <3>2
    <3> QED BY <3>1, <3>3
  <2> QED BY <1>1, <2>1, <2>4
<1>6. ASSUME NEW t \in Boundaries(watermark), NEW u \in settled, watermark < u, u < t
      PROVE  u \in Boundaries(watermark)
  <2>1. PICK k \in 0..(WalkCap - 1) : t = first + k * interval /\ t \in (watermark + 1)..time
    BY <1>4
  <2>2. u \in (watermark + 1)..time
    BY <1>1, <1>6
  <2>3. PICK m \in Int : u - anchor = m * interval
    <3>1. PICK x \in Int : x = u - anchor
      BY <1>1, <2>2
    <3>2. x % interval = 0
      BY <1>1, <2>2, <3>1
    <3>3. PICK n \in Int, r \in 0..(interval - 1) : x % interval = r /\ x = interval * n + r
      BY <1>1, Division
    <3>4. x = n * interval
      BY <1>1, <3>2, <3>3
    <3> QED BY <3>1, <3>4
  <2>4. PICK j \in Int : j = m - q
    BY <1>2, <2>3
  <2>5. u = first + j * interval
    BY <1>1, <1>2, <1>3, <2>2, <2>3, <2>4
  <2>6. PICK v \in Int : v = interval * j
    BY <1>1
  <2>7. u = first + v
    BY <1>1, <2>5, <2>6
  <2>8. -1 < j
    <3>1. interval * (-1) < v
      BY <1>1, <1>2, <1>3, <1>6, <2>2, <2>7
    <3> QED BY <1>1, <2>6, <3>1, MoreTimes
  <2>9. j < k
    <3>1. v < interval * k
      BY <1>1, <1>3, <1>6, <2>1, <2>2, <2>7
    <3> QED BY <1>1, <2>6, <3>1, MoreTimes
  <2>10. j \in 0..(WalkCap - 1) /\ u <= time /\ ~(time <= watermark)
    BY <1>1, <2>2, <2>8, <2>9, <2>1
  <2> QED BY <1>3, <2>5, <2>10 DEF Boundaries
<1> QED BY <1>5, <1>6

(* What a pass of charges does to the position it charges *)
LEMMA Settling ==
  ASSUME FundingInv, NEW B, B \subseteq 0..time, B # {}, NEW kind \in {"settled", "provisional"},
         SettleAll(B, kind), hold # 0, hold' = hold, holds' = holds
  PROVE  /\ charges' \subseteq [hold : 1..MaxHolds, at : Instants, source : {"settled", "provisional"}]
         /\ \A c, d \in charges' : c.at = d.at => c = d
         /\ \A c \in charges' : c.hold <= holds'
         /\ \A c \in charges' : c \in charges \/ (c.at \in B /\ c.source = kind)
         /\ Charged' = Charged \cup B
         /\ ChargesOf(hold)' \subseteq ChargesOf(hold) \cup B
         /\ watermark' \in 0..time
         /\ (\A t \in B : t <= watermark => t \in Charged) =>
                watermark' >= watermark /\ (watermark' # watermark => watermark' \in B)
<1> DEFINE new == Unsettled(B)
<1>1. new = {t \in B : \A c \in charges : c.at # t}
  BY DEF Unsettled
<1>2. charges' = charges \cup [hold : {hold}, at : new, source : {kind}]
  BY DEF SettleAll
<1>3. watermark' = Reached(B, new)
  BY DEF SettleAll
<1> HIDE DEF new
<1>4. /\ charges \subseteq [hold : 1..MaxHolds, at : Instants, source : {"settled", "provisional"}]
      /\ \A c, d \in charges : c.at = d.at => c = d
      /\ \A c \in charges : c.hold <= holds
      /\ hold \in 1..MaxHolds /\ hold <= holds /\ holds \in Nat
  BY ClockConstants DEF FundingInv, FundingOK, FundingTypeOK, Behind
<1>5. /\ time \in 0..MaxClock /\ Instants = 0..MaxClock /\ watermark \in 0..time /\ MaxClock \in Nat
  BY Periodic, ClockConstants
<1>6. \A c \in [hold : {hold}, at : new, source : {kind}] :
         c.hold = hold /\ c.at \in new /\ c.source = kind /\ c = [hold |-> hold, at |-> c.at, source |-> kind]
  OBVIOUS
<1>7. B \subseteq Instants /\ new \subseteq B
  BY <1>1, <1>5
<1>8. charges' \subseteq [hold : 1..MaxHolds, at : Instants, source : {"settled", "provisional"}]
  BY <1>2, <1>4, <1>7
<1>9. \A c, d \in charges' : c.at = d.at => c = d
  BY <1>1, <1>2, <1>4, <1>6
<1>10. \A c \in charges' : c.hold <= holds' /\ (c \in charges \/ (c.at \in B /\ c.source = kind))
  BY <1>2, <1>4, <1>6, <1>7
<1>11. Charged' = Charged \cup B
  <2>1. ASSUME NEW t \in new PROVE t \in Charged'
    <3>1. [hold |-> hold, at |-> t, source |-> kind] \in charges'
      BY <1>2
    <3> QED BY <3>1 DEF Charged
  <2>2. \A t \in B : t \in new \/ t \in Charged
    BY <1>1 DEF Charged
  <2>3. Charged \subseteq Charged'
    BY <1>2 DEF Charged
  <2>4. Charged' \subseteq Charged \cup B
    BY <1>2, <1>6, <1>7 DEF Charged
  <2> QED BY <2>1, <2>2, <2>3, <2>4
<1>12. ChargesOf(hold)' \subseteq ChargesOf(hold) \cup B
  BY <1>10 DEF ChargesOf
<1>13. watermark' \in 0..time
  <2>1. B \cup {watermark} \subseteq 0..time /\ time \in Nat
    BY <1>5
  <2>2. Max(B) \in B
    BY <2>1, GreatestOf
  <2>3. Max(B \cup {watermark}) \in B \cup {watermark}
    BY <2>1, GreatestOf
  <2> QED BY <1>3, <2>1, <2>2, <2>3 DEF Reached
<1>14. ASSUME \A t \in B : t <= watermark => t \in Charged
       PROVE  watermark' >= watermark /\ (watermark' # watermark => watermark' \in B)
  <2>1. B \cup {watermark} \subseteq 0..time /\ time \in Nat /\ watermark \in Nat
    BY <1>5
  <2>2. Max(B) \in B /\ \A x \in B : x <= Max(B)
    BY <2>1, GreatestOf
  <2>3. Max(B \cup {watermark}) \in B \cup {watermark} /\ watermark <= Max(B \cup {watermark})
    BY <2>1, GreatestOf
  <2>4. CASE new = {}
    BY <1>3, <2>1, <2>3, <2>4 DEF Reached
  <2>5. CASE new # {}
    <3>1. PICK t \in new : TRUE
      BY <2>5
    <3>2. t \in B /\ t \notin Charged
      BY <1>1, <3>1 DEF Charged
    <3>3. t > watermark /\ t <= Max(B) /\ t \in Nat /\ Max(B) \in Nat
      <4>1. \A x \in B : x \in Nat
        BY <2>1
      <4>2. t \in Nat /\ Max(B) \in Nat /\ t <= Max(B)
        BY <4>1, <2>2, <3>2
      <4>3. ~(t <= watermark)
        BY <1>14, <3>2
      <4> QED BY <2>1, <4>2, <4>3
    <3> QED BY <1>3, <2>1, <2>2, <2>5, <3>3 DEF Reached
  <2> QED BY <2>4, <2>5
<1> QED BY <1>8, <1>9, <1>10, <1>11, <1>12, <1>13, <1>14

LEMMA FundingStart ==
  ASSUME FundingInit
  PROVE  FundingInv
<1>1. /\ time = 0 /\ period \in Periods /\ due \in 1..period /\ settled = {} /\ published = {}
      /\ interval = DefaultPeriod /\ anchor = Unknown /\ toReplay = {}
      /\ hold = 0 /\ holds = 0 /\ opened = 0 /\ watermark = 0 /\ charges = {}
  BY DEF FundingInit
<1>2. Instants = 0..MaxClock /\ period \in Nat
  BY <1>1, ClockConstants DEF Instants
<1>3. FundingTypeOK
  BY <1>1, <1>2, ClockConstants DEF FundingTypeOK
<1>4. Behind
  BY <1>1, <1>2, ClockConstants DEF Behind
<1> QED BY <1>1, <1>3, <1>4 DEF FundingInv, FundingOK, ChargedExactly, SettledIsPublished, Replays

(* Nothing moves but what no conjunct is about *)
LEMMA SameBook ==
  ASSUME FundingInv, UNCHANGED <<hold, holds, opened, watermark, charges, trusted, settled, time>>,
         toReplay' = toReplay \/ toReplay' = {}
  PROVE  /\ ChargedExactly' /\ Replays'
         /\ published' = published => SettledIsPublished' /\ (due' \in Int => Behind')
<1>1. ChargesOf(hold)' = ChargesOf(hold) /\ Charged' = Charged
  BY DEF ChargesOf, Charged
<1>2. ChargedExactly'
  BY <1>1 DEF FundingInv, FundingOK, ChargedExactly
<1>3. Replays'
  BY <1>1 DEF FundingInv, Replays
<1>4. published' = published => SettledIsPublished' /\ (due' \in Int => Behind')
  BY DEF FundingInv, FundingOK, SettledIsPublished, Behind, Instants
<1> QED BY <1>2, <1>3, <1>4

LEMMA TickKeeps ==
  ASSUME FundingInv, FundingTick
  PROVE  FundingInv'
<1>1. /\ time < MaxClock /\ time' = time + 1 /\ UNCHANGED <<clockVars, bootVars, bookVars>>
      /\ IF time' # due THEN UNCHANGED exchangeVars
         ELSE settled' = settled \cup {due} /\ period' \in Periods /\ due' = due + period' /\ published' = published
  BY DEF FundingTick
<1>2. /\ UNCHANGED <<interval, anchor, toReplay, hold, holds, opened, watermark, charges, trusted, published>>
  BY <1>1 DEF clockVars, bootVars, bookVars, exchangeVars
<1>3. time \in 0..MaxClock /\ watermark \in 0..time /\ opened \in 0..time /\ Instants = 0..MaxClock /\ MaxClock \in Nat
  BY Periodic, ClockConstants
<1>4. time' \in Instants /\ due > time /\ due <= time + period /\ due \in Int /\ \A p \in Periods : p \in Nat \ {0}
  BY <1>1, <1>3, ClockConstants DEF FundingInv, FundingOK, FundingTypeOK, Behind
<1>5. /\ settled \subseteq settled' /\ settled' \subseteq settled \cup {time'} /\ due' \in Int
      /\ due' > time' /\ due' <= time' + period' /\ period' \in Periods /\ due <= due'
  <2>1. CASE time' # due
    BY <1>1, <1>3, <1>4, <2>1 DEF exchangeVars, FundingInv, FundingOK, FundingTypeOK
  <2>2. CASE time' = due
    BY <1>1, <1>3, <1>4, <2>2
  <2> QED BY <2>1, <2>2
<1>6. FundingTypeOK'
  <2>1. anchor' = Unknown \/ anchor' \in 1..due'
    BY <1>2, <1>4, <1>5 DEF FundingInv, FundingOK, FundingTypeOK
  <2> QED BY <1>2, <1>4, <1>5, <2>1 DEF FundingInv, FundingOK, FundingTypeOK, Instants
<1>7. Charged' = Charged /\ ChargesOf(hold)' = ChargesOf(hold)
  BY <1>2 DEF Charged, ChargesOf
<1>8. ~(time' <= watermark) /\ \A t \in settled \cup toReplay : t <= time /\ t \in Nat
  <2>1. settled \cup toReplay \subseteq Instants /\ \A t \in settled \cup toReplay : t <= time
    BY DEF FundingInv, FundingOK, FundingTypeOK, Behind
  <2> QED BY <1>1, <1>3, <2>1
<1>9. ChargedExactly'
  BY <1>2, <1>5, <1>7, <1>8 DEF FundingInv, FundingOK, ChargedExactly
<1>10. Behind'
  <2>1. \A t \in settled' \cup toReplay' : t <= time'
    BY <1>1, <1>2, <1>3, <1>5, <1>8
  <2>2. \A t \in settled', u \in published' : t < u => t \in published'
    <3>1. SUFFICES ASSUME NEW u \in published, time' < u PROVE FALSE
      BY <1>2, <1>5 DEF FundingInv, Behind
    <3>2. u \in settled
      BY <3>1 DEF FundingInv, FundingOK, FundingTypeOK
    <3> QED BY <1>1, <1>3, <1>8, <3>1, <3>2
  <2>3. watermark' <= time' /\ opened' <= time'
    BY <1>1, <1>2, <1>3
  <2> QED BY <1>2, <1>4, <1>5, <2>1, <2>2, <2>3 DEF FundingInv, Behind, Instants
<1>11. Replays'
  <2>1. SUFFICES ASSUME hold # 0, trusted, NEW t \in toReplay, opened < t
                 PROVE  /\ t \in settled'
                        /\ \A u \in settled' : opened < u /\ u < t => u \in Charged \cup toReplay
    BY <1>2, <1>7 DEF FundingInv, Replays
  <2>2. t \in settled /\ \A u \in settled : opened < u /\ u < t => u \in Charged \cup toReplay
    BY <2>1 DEF FundingInv, Replays
  <2>3. ~(time' < t)
    BY <1>1, <1>3, <1>8
  <2> QED BY <1>5, <2>2, <2>3
<1>12. SettledIsPublished'
  BY <1>2 DEF FundingInv, FundingOK, SettledIsPublished
<1> QED BY <1>6, <1>9, <1>10, <1>11, <1>12 DEF FundingInv, FundingOK

LEMMA PublishKeeps ==
  ASSUME FundingInv, Publish
  PROVE  FundingInv'
<1>1. /\ settled # published /\ published' = published \cup {Min(settled \ published)}
      /\ UNCHANGED <<time, due, period, settled, interval, anchor, toReplay, hold, holds, opened, watermark,
                     charges, trusted>>
  BY DEF Publish, clockVars, bootVars, bookVars
<1>2. settled \subseteq Nat /\ published \subseteq settled
  BY ClockConstants DEF FundingInv, FundingOK, FundingTypeOK, Instants
<1>3. PICK m \in settled \ published : published' = published \cup {m} /\ \A t \in settled \ published : m <= t
  <2>1. settled \ published \subseteq Nat /\ settled \ published # {}
    BY <1>1, <1>2
  <2> QED BY <1>1, <2>1, LeastOf
<1>4. ChargedExactly' /\ Replays'
  BY <1>1, SameBook
<1>5. FundingTypeOK'
  BY <1>1, <1>3 DEF FundingInv, FundingOK, FundingTypeOK, Instants
<1>6. SettledIsPublished'
  BY <1>1, <1>3 DEF FundingInv, FundingOK, SettledIsPublished
<1>7. \A t \in settled, u \in published' : t < u => t \in published'
  <2>1. \A t \in settled : t < m => t \in published
    BY <1>2, <1>3
  <2> QED BY <1>3, <2>1 DEF FundingInv, Behind
<1>8. Behind'
  BY <1>1, <1>7 DEF FundingInv, Behind, Instants
<1> QED BY <1>4, <1>5, <1>6, <1>8 DEF FundingInv, FundingOK

LEMMA OpenKeeps ==
  ASSUME FundingInv, OpenHold
  PROVE  FundingInv'
<1>1. /\ hold = 0 /\ holds < MaxHolds /\ holds' = holds + 1 /\ hold' = holds' /\ opened' = time /\ watermark' = time
      /\ UNCHANGED <<time, due, period, settled, published, interval, anchor, toReplay, charges>>
  BY DEF OpenHold, exchangeVars, clockVars, bootVars
<1>2. time \in 0..MaxClock /\ Instants = 0..MaxClock /\ MaxClock \in Nat /\ holds \in 0..MaxHolds /\ MaxHolds \in Nat
  BY Periodic, ClockConstants DEF FundingInv, Behind
<1>3. FundingTypeOK'
  BY <1>1, <1>2 DEF FundingInv, FundingOK, FundingTypeOK, Instants
<1>4. ChargesOf(hold)' = {}
  <2>1. \A c \in charges : c.hold <= holds /\ c.hold \in Nat
    BY ClockConstants DEF FundingInv, FundingOK, FundingTypeOK, Behind
  <2>2. \A c \in charges : c.hold # holds + 1
    BY <1>2, <2>1
  <2> QED BY <1>1, <2>2 DEF ChargesOf
<1>5. \A t \in settled \cup toReplay : t <= time /\ t \in Nat
  BY DEF FundingInv, FundingOK, FundingTypeOK, Behind, Instants
<1>6. ChargedExactly'
  BY <1>1, <1>2, <1>4, <1>5 DEF ChargedExactly
<1>7. SettledIsPublished'
  BY <1>1 DEF FundingInv, FundingOK, SettledIsPublished
<1>8. Behind'
  <2>1. \A c \in charges : c.hold <= holds + 1
    BY <1>2, ClockConstants DEF FundingInv, FundingOK, FundingTypeOK, Behind
  <2> QED BY <1>1, <1>2, <2>1 DEF FundingInv, Behind, Instants
<1>9. Replays'
  BY <1>1, <1>2, <1>5 DEF Replays
<1> QED BY <1>3, <1>6, <1>7, <1>8, <1>9 DEF FundingInv, FundingOK

LEMMA CloseKeeps ==
  ASSUME FundingInv, CloseHold
  PROVE  FundingInv'
<1>1. /\ hold' = 0 /\ opened' = 0 /\ watermark' = 0
      /\ UNCHANGED <<time, due, period, settled, published, interval, anchor, toReplay, charges, holds>>
  BY DEF CloseHold, exchangeVars, clockVars, bootVars
<1>2. time \in 0..MaxClock /\ Instants = 0..MaxClock /\ MaxClock \in Nat /\ holds \in 0..MaxHolds /\ MaxHolds \in Nat
  BY Periodic, ClockConstants DEF FundingInv, Behind
<1>3. FundingTypeOK'
  BY <1>1, <1>2 DEF FundingInv, FundingOK, FundingTypeOK, Instants
<1>4. Behind'
  BY <1>1, <1>2 DEF FundingInv, Behind, Instants
<1> QED BY <1>1, <1>3, <1>4 DEF FundingInv, FundingOK, ChargedExactly, SettledIsPublished, Replays

(* What a true clock has not yet charged lies after the watermark *)
LEMMA AccrueKeeps ==
  ASSUME FundingInv, AccrueFunding
  PROVE  FundingInv'
<1> DEFINE B == Boundaries(watermark)
<1>1. /\ hold # 0 /\ B # {} /\ SettleAll(B, "provisional") /\ trusted' = (trusted /\ TrueClock)
      /\ UNCHANGED <<time, due, period, settled, published, interval, anchor, toReplay, hold, holds, opened>>
  BY DEF AccrueFunding, exchangeVars, clockVars, bootVars
<1>2. B \subseteq 0..time
  BY BoundariesPast
<1>3. TrueClock => /\ \A t \in B : t \in settled /\ watermark < t
                   /\ \A t \in B, u \in settled : watermark < u /\ u < t => u \in B
  BY BoundariesTrue
<1> HIDE DEF B
<1>4. /\ charges' \subseteq [hold : 1..MaxHolds, at : Instants, source : {"settled", "provisional"}]
      /\ \A c, d \in charges' : c.at = d.at => c = d
      /\ \A c \in charges' : c.hold <= holds'
      /\ \A c \in charges' : c \in charges \/ (c.at \in B /\ c.source = "provisional")
      /\ Charged' = Charged \cup B
      /\ ChargesOf(hold)' \subseteq ChargesOf(hold) \cup B
      /\ watermark' \in 0..time
      /\ (\A t \in B : t <= watermark => t \in Charged) =>
             watermark' >= watermark /\ (watermark' # watermark => watermark' \in B)
  BY <1>1, <1>2, Settling
<1>5. /\ time \in 0..MaxClock /\ Instants = 0..MaxClock /\ MaxClock \in Nat /\ watermark \in Nat /\ opened \in Nat
      /\ \A t \in settled : t \in Nat
  BY Periodic, ClockConstants DEF FundingInv, FundingOK, FundingTypeOK
<1>6. FundingTypeOK'
  BY <1>1, <1>4, <1>5 DEF FundingInv, FundingOK, FundingTypeOK, Instants
<1>7. Behind'
  BY <1>1, <1>4, <1>5 DEF FundingInv, Behind, Instants
<1>8. SettledIsPublished'
  BY <1>1, <1>4 DEF FundingInv, FundingOK, SettledIsPublished
<1>9. ASSUME trusted' PROVE opened <= watermark /\ watermark <= watermark' /\ (watermark' # watermark => watermark' \in B)
  <2>1. trusted /\ TrueClock
    BY <1>1, <1>9
  <2>2. \A t \in B : ~(t <= watermark)
    BY <1>2, <1>3, <1>5, <2>1
  <2> QED BY <1>1, <1>4, <2>1, <2>2 DEF FundingInv, Replays
<1>10. ChargedExactly'
  <2>1. SUFFICES ASSUME trusted'
                 PROVE  /\ ChargesOf(hold)' \subseteq {t \in settled : opened < t}
                        /\ {t \in settled : opened < t /\ t <= watermark'} \subseteq Charged'
    BY <1>1 DEF ChargedExactly
  <2>2. trusted /\ TrueClock
    BY <1>1, <2>1
  <2>3. \A t \in B : t \in settled /\ opened < t
    BY <1>2, <1>3, <1>5, <1>9, <2>1, <2>2
  <2>4. ChargesOf(hold)' \subseteq {t \in settled : opened < t}
    BY <1>1, <1>4, <2>2, <2>3 DEF FundingInv, FundingOK, ChargedExactly
  <2>5. ASSUME NEW t \in settled, opened < t, t <= watermark' PROVE t \in Charged'
    <3>1. CASE t <= watermark
      BY <1>1, <1>4, <2>2, <2>5, <3>1 DEF FundingInv, FundingOK, ChargedExactly
    <3>2. CASE watermark < t
      <4>1. watermark' \in B /\ watermark' \in Nat
        BY <1>4, <1>5, <1>9, <2>1, <2>5, <3>2
      <4>2. t = watermark' \/ t < watermark'
        BY <1>5, <2>5, <4>1
      <4> QED BY <1>3, <1>4, <2>2, <3>2, <4>1, <4>2
    <3> QED BY <1>5, <3>1, <3>2
  <2> QED BY <2>4, <2>5
<1>11. Replays'
  <2>1. SUFFICES ASSUME trusted'
                 PROVE  /\ opened <= watermark'
                        /\ \A t \in toReplay : opened < t =>
                             /\ t \in settled
                             /\ \A u \in settled : opened < u /\ u < t => u \in Charged' \cup toReplay
    BY <1>1 DEF Replays
  <2>2. trusted
    BY <1>1, <2>1
  <2>3. opened <= watermark'
    BY <1>4, <1>5, <1>9, <2>1
  <2> QED BY <1>1, <1>4, <2>2, <2>3 DEF FundingInv, Replays
<1> QED BY <1>6, <1>7, <1>8, <1>10, <1>11 DEF FundingInv, FundingOK

(* Clock and start-up: what they know is not what was charged *)
LEMMA ClockKeeps ==
  ASSUME FundingInv,
         PollIntervals \/ PollTickers \/ (\E ok \in BOOLEAN : BootIntervals(ok) \/ BootTickers(ok))
  PROVE  FundingInv'
<1>1. /\ UNCHANGED <<time, due, period, settled, published, toReplay, hold, holds, opened, watermark, charges, trusted>>
      /\ interval' \in {interval, period} /\ anchor' \in {anchor, due}
  BY DEF PollIntervals, PollTickers, BootIntervals, BootTickers, exchangeVars, bookVars, bootVars
<1>2. ChargedExactly' /\ Replays' /\ SettledIsPublished' /\ Behind'
  BY <1>1, SameBook DEF FundingInv, Behind
<1>3. due \in 1..due
  BY ClockConstants DEF FundingInv, FundingOK, FundingTypeOK, Behind, Instants
<1>4. FundingTypeOK'
  BY <1>1, <1>3 DEF FundingInv, FundingOK, FundingTypeOK, Instants
<1> QED BY <1>2, <1>4 DEF FundingInv, FundingOK

LEMMA ReadKeeps ==
  ASSUME FundingInv, RecoverRead
  PROVE  FundingInv'
<1>1. /\ toReplay' = IF hold = 0 THEN {} ELSE Boundaries(watermark)
      /\ trusted' = (trusted /\ (toReplay' = {} \/ TrueClock))
      /\ UNCHANGED <<time, due, period, settled, published, interval, anchor, hold, holds, opened, watermark, charges>>
  BY DEF RecoverRead, exchangeVars, clockVars
<1>2. /\ toReplay' \subseteq 0..time /\ time \in 0..MaxClock /\ Instants = 0..MaxClock /\ MaxClock \in Nat
      /\ watermark \in Nat /\ opened \in Nat /\ \A t \in settled : t \in Nat
  BY <1>1, BoundariesPast, Periodic, ClockConstants DEF FundingInv, FundingOK, FundingTypeOK
<1>3. FundingTypeOK'
  BY <1>1, <1>2 DEF FundingInv, FundingOK, FundingTypeOK, Instants
<1>4. Behind'
  BY <1>1, <1>2 DEF FundingInv, Behind, Instants
<1>5. SettledIsPublished'
  BY <1>1 DEF FundingInv, FundingOK, SettledIsPublished
<1>6. Charged' = Charged /\ ChargesOf(hold)' = ChargesOf(hold)
  BY <1>1 DEF Charged, ChargesOf
<1>7. ChargedExactly'
  BY <1>1, <1>6 DEF FundingInv, FundingOK, ChargedExactly
<1>8. Replays'
  <2>1. SUFFICES ASSUME hold # 0, trusted'
                 PROVE  /\ opened <= watermark
                        /\ \A t \in toReplay' : opened < t =>
                             /\ t \in settled
                             /\ \A u \in settled : opened < u /\ u < t => u \in Charged \cup toReplay'
    BY <1>1, <1>6 DEF Replays
  <2>2. trusted /\ opened <= watermark
    BY <1>1, <2>1 DEF FundingInv, Replays
  <2>3. ASSUME NEW t \in toReplay', opened < t
        PROVE  t \in settled /\ \A u \in settled : opened < u /\ u < t => u \in Charged \cup toReplay'
    <3>1. toReplay' = Boundaries(watermark) /\ TrueClock
      BY <1>1, <2>1, <2>3
    <3>2. t \in settled /\ \A u \in settled : watermark < u /\ u < t => u \in toReplay'
      BY <2>3, <3>1, BoundariesTrue
    <3>3. \A u \in settled : opened < u /\ u <= watermark => u \in Charged
      BY <2>1, <2>2 DEF FundingInv, FundingOK, ChargedExactly
    <3>4. \A u \in settled : u <= watermark \/ watermark < u
      BY <1>2
    <3> QED BY <3>2, <3>3, <3>4
  <2> QED BY <2>2, <2>3
<1> QED BY <1>3, <1>4, <1>5, <1>7, <1>8 DEF FundingInv, FundingOK

LEMMA ReplayKeeps ==
  ASSUME FundingInv, NEW ok \in BOOLEAN, RecoverReplay(ok)
  PROVE  /\ FundingInv'
         /\ hold # 0 /\ trusted => watermark' >= watermark
<1> DEFINE B == IF ok /\ hold # 0 THEN {t \in Replayable : opened < t} ELSE {}
<1>1. /\ toReplay' = {} /\ IF B = {} THEN UNCHANGED <<charges, watermark>> ELSE SettleAll(B, "settled")
      /\ UNCHANGED <<time, due, period, settled, published, interval, anchor, hold, holds, opened, trusted>>
  BY DEF RecoverReplay, exchangeVars, clockVars
<1>2. /\ B \subseteq 0..time /\ \A t \in B : t \in toReplay /\ t \in published /\ opened < t /\ hold # 0
      /\ \A t \in toReplay : t \in published /\ opened < t /\ B # {} => t \in B
      /\ time \in 0..MaxClock /\ Instants = 0..MaxClock /\ MaxClock \in Nat /\ watermark \in Nat /\ opened \in Nat
      /\ \A t \in settled : t \in Nat
  <2>1. \A t \in toReplay : t \in 0..time
    BY Periodic, ClockConstants DEF FundingInv, FundingOK, FundingTypeOK, Behind, Instants
  <2> QED BY <2>1, Periodic, ClockConstants DEF Replayable, FundingInv, FundingOK, FundingTypeOK
<1> HIDE DEF B
<1>3. CASE B = {}
  <2>1. UNCHANGED <<charges, watermark>>
    BY <1>1, <1>3
  <2>2. ChargedExactly' /\ Replays' /\ SettledIsPublished' /\ Behind'
    BY <1>1, <2>1, SameBook DEF FundingInv, Behind
  <2>3. FundingTypeOK'
    BY <1>1, <2>1 DEF FundingInv, FundingOK, FundingTypeOK, Instants
  <2> QED BY <1>2, <2>1, <2>2, <2>3 DEF FundingInv, FundingOK
<1>4. CASE B # {}
  <2>1. hold # 0 /\ SettleAll(B, "settled")
    BY <1>1, <1>2, <1>4
  <2>2. /\ charges' \subseteq [hold : 1..MaxHolds, at : Instants, source : {"settled", "provisional"}]
        /\ \A c, d \in charges' : c.at = d.at => c = d
        /\ \A c \in charges' : c.hold <= holds'
        /\ \A c \in charges' : c \in charges \/ (c.at \in B /\ c.source = "settled")
        /\ Charged' = Charged \cup B
        /\ ChargesOf(hold)' \subseteq ChargesOf(hold) \cup B
        /\ watermark' \in 0..time
        /\ (\A t \in B : t <= watermark => t \in Charged) =>
               watermark' >= watermark /\ (watermark' # watermark => watermark' \in B)
    BY <1>1, <1>2, <1>4, <2>1, Settling
  <2>3. FundingTypeOK'
    BY <1>1, <1>2, <2>2 DEF FundingInv, FundingOK, FundingTypeOK, Instants
  <2>4. Behind'
    BY <1>1, <1>2, <2>2 DEF FundingInv, Behind, Instants
  <2>5. SettledIsPublished'
    BY <1>1, <1>2, <2>2 DEF FundingInv, FundingOK, SettledIsPublished
  <2>6. ASSUME trusted
        PROVE  /\ opened <= watermark /\ watermark' >= watermark /\ (watermark' # watermark => watermark' \in B)
               /\ \A t \in B : t \in settled /\ opened < t
               /\ \A t \in B, u \in settled : opened < u /\ u < t => u \in Charged \cup B
    <3>1. /\ opened <= watermark
          /\ \A t \in toReplay : opened < t =>
               t \in settled /\ \A u \in settled : opened < u /\ u < t => u \in Charged \cup toReplay
      BY <2>1, <2>6 DEF FundingInv, Replays
    <3>2. \A t \in B : t <= watermark => t \in Charged
      BY <1>2, <2>1, <2>6, <3>1 DEF FundingInv, FundingOK, ChargedExactly
    <3>3. \A t \in B, u \in settled : u < t => u \in published
      BY <1>2 DEF FundingInv, Behind
    <3>4. \A t \in B, u \in settled : opened < u /\ u < t => u \in Charged \cup B
      BY <1>2, <1>4, <3>1, <3>3
    <3> QED BY <1>2, <2>2, <3>1, <3>2, <3>4
  <2>7. ChargedExactly'
    <3>1. SUFFICES ASSUME trusted
                   PROVE  /\ ChargesOf(hold)' \subseteq {t \in settled : opened < t}
                          /\ {t \in settled : opened < t /\ t <= watermark'} \subseteq Charged'
      BY <1>1, <2>1 DEF ChargedExactly
    <3>2. ChargesOf(hold)' \subseteq {t \in settled : opened < t}
      BY <1>1, <2>1, <2>2, <2>6, <3>1 DEF FundingInv, FundingOK, ChargedExactly
    <3>3. ASSUME NEW t \in settled, opened < t, t <= watermark' PROVE t \in Charged'
      <4>1. CASE t <= watermark
        BY <2>1, <2>2, <3>1, <3>3, <4>1 DEF FundingInv, FundingOK, ChargedExactly
      <4>2. CASE watermark < t
        <5>1. watermark' \in B /\ watermark' \in Nat
          BY <1>2, <2>2, <2>6, <3>1, <3>3, <4>2
        <5>2. t = watermark' \/ t < watermark'
          BY <1>2, <3>3, <5>1
        <5> QED BY <2>2, <2>6, <3>1, <3>3, <5>1, <5>2
      <4> QED BY <1>2, <4>1, <4>2
    <3> QED BY <3>2, <3>3
  <2>8. Replays'
    <3>1. trusted => opened <= watermark'
      BY <1>2, <2>2, <2>6
    <3> QED BY <1>1, <3>1 DEF Replays
  <2> QED BY <2>3, <2>4, <2>5, <2>6, <2>7, <2>8 DEF FundingInv, FundingOK
<1> QED BY <1>3, <1>4

LEMMA ReconcileKeeps ==
  ASSUME FundingInv, ReconcileSettled
  PROVE  FundingInv'
<1> DEFINE sure == {c \in Provisional : c.at \in published}
<1>1. /\ charges' = (charges \ sure) \cup {Final(c) : c \in sure}
      /\ UNCHANGED <<time, due, period, settled, published, interval, anchor, toReplay, hold, holds, opened,
                     watermark, trusted>>
  BY DEF ReconcileSettled, exchangeVars, clockVars, bootVars
<1>2. /\ charges \subseteq [hold : 1..MaxHolds, at : Instants, source : {"settled", "provisional"}]
      /\ \A c, d \in charges : c.at = d.at => c = d
      /\ \A c \in charges : c.hold <= holds /\ (c.source = "settled" => c.at \in published)
      /\ sure \subseteq charges /\ \A c \in sure : c.at \in published
  BY DEF FundingInv, FundingOK, FundingTypeOK, Behind, SettledIsPublished, Provisional
<1> HIDE DEF sure
<1>3. \A c \in sure : /\ Final(c) \in [hold : 1..MaxHolds, at : Instants, source : {"settled", "provisional"}]
                      /\ Final(c).hold = c.hold /\ Final(c).at = c.at /\ Final(c).source = "settled"
  BY <1>2 DEF Final
<1>4. \A d \in charges' : \E c \in charges : /\ d.hold = c.hold /\ d.at = c.at /\ d = IF c \in sure THEN Final(c) ELSE c
  BY <1>1, <1>2, <1>3
<1>5. \A c \in charges : (IF c \in sure THEN Final(c) ELSE c) \in charges'
  BY <1>1, <1>2
<1>6. /\ charges' \subseteq [hold : 1..MaxHolds, at : Instants, source : {"settled", "provisional"}]
      /\ \A c, d \in charges' : c.at = d.at => c = d
  <2>1. charges' \subseteq [hold : 1..MaxHolds, at : Instants, source : {"settled", "provisional"}]
    BY <1>1, <1>2, <1>3
  <2>2. ASSUME NEW c \in charges', NEW d \in charges', c.at = d.at PROVE c = d
    <3>1. PICK x \in charges : c.at = x.at /\ c = IF x \in sure THEN Final(x) ELSE x
      BY <1>4
    <3>2. PICK y \in charges : d.at = y.at /\ d = IF y \in sure THEN Final(y) ELSE y
      BY <1>4
    <3>3. x = y
      BY <1>2, <2>2, <3>1, <3>2
    <3> QED BY <3>1, <3>2, <3>3
  <2> QED BY <2>1, <2>2
<1>7. \A c \in charges' : c.hold <= holds /\ (c.source = "settled" => c.at \in published)
  BY <1>1, <1>2, <1>3
<1>8. Charged' = Charged
  <2>1. ASSUME NEW c \in charges PROVE c.at \in Charged'
    <3>1. (IF c \in sure THEN Final(c) ELSE c).at = c.at
      BY <1>3
    <3> QED BY <1>5, <3>1 DEF Charged
  <2>2. Charged' \subseteq Charged
    BY <1>4 DEF Charged
  <2> QED BY <2>1, <2>2 DEF Charged
<1>9. ChargesOf(hold)' \subseteq ChargesOf(hold)
  BY <1>1, <1>4 DEF ChargesOf
<1>10. FundingTypeOK'
  BY <1>1, <1>6 DEF FundingInv, FundingOK, FundingTypeOK, Instants
<1>11. ChargedExactly' /\ SettledIsPublished'
  BY <1>1, <1>7, <1>8, <1>9 DEF FundingInv, FundingOK, ChargedExactly, SettledIsPublished
<1>12. Behind' /\ Replays'
  BY <1>1, <1>7, <1>8 DEF FundingInv, Behind, Replays, Instants
<1> QED BY <1>10, <1>11, <1>12 DEF FundingInv, FundingOK

(* After a restart the position is replayed from its opening *)
LEMMA RestartKeeps ==
  ASSUME FundingInv, Restart
  PROVE  FundingInv'
<1>1. /\ toReplay' = {} /\ interval' = DefaultPeriod /\ anchor' = Unknown /\ watermark' = opened
      /\ UNCHANGED <<time, due, period, settled, published, hold, holds, opened, charges, trusted>>
  BY DEF Restart, exchangeVars
<1>2. opened \in Nat /\ \A t \in settled : t \in Nat
  BY Periodic DEF FundingInv, FundingOK, FundingTypeOK, Instants
<1>3. Charged' = Charged /\ ChargesOf(hold)' = ChargesOf(hold)
  BY <1>1 DEF Charged, ChargesOf
<1>4. FundingTypeOK'
  BY <1>1 DEF FundingInv, FundingOK, FundingTypeOK, Instants
<1>5. ChargedExactly' /\ SettledIsPublished'
  BY <1>1, <1>2, <1>3 DEF FundingInv, FundingOK, ChargedExactly, SettledIsPublished
<1>6. Behind' /\ Replays'
  BY <1>1, <1>2 DEF FundingInv, Behind, Replays, Instants
<1> QED BY <1>4, <1>5, <1>6 DEF FundingInv, FundingOK

LEMMA FundingStutters ==
  ASSUME FundingInv, UNCHANGED fundingVars
  PROVE  FundingInv'
  BY DEF fundingVars, exchangeVars, clockVars, bootVars, bookVars, FundingInv, FundingOK, FundingTypeOK,
         ChargedExactly, SettledIsPublished, Behind, Replays, Charged, ChargesOf, Instants

(* Every action *)
LEMMA FundingStep == FundingInv /\ [FundingNext]_fundingVars => FundingInv'
<1> SUFFICES ASSUME FundingInv, [FundingNext]_fundingVars PROVE FundingInv'
  OBVIOUS
<1>1. CASE UNCHANGED fundingVars
  BY <1>1, FundingStutters
<1>2. CASE FundingTick \/ Publish \/ OpenHold \/ CloseHold \/ AccrueFunding
  BY <1>2, TickKeeps, PublishKeeps, OpenKeeps, CloseKeeps, AccrueKeeps
<1>3. CASE PollIntervals \/ PollTickers \/ (\E ok \in BOOLEAN : BootIntervals(ok) \/ BootTickers(ok))
  BY <1>3, ClockKeeps
<1>4. CASE RecoverRead \/ ReconcileSettled \/ Restart
  BY <1>4, ReadKeeps, ReconcileKeeps, RestartKeeps
<1>5. CASE \E ok \in BOOLEAN : RecoverReplay(ok)
  BY <1>5, ReplayKeeps
<1> QED BY <1>1, <1>2, <1>3, <1>4, <1>5 DEF FundingNext

(* Every settlement of a position is charged once, up to its watermark and with the
   published rate, as long as the clock knew the schedule, across restarts and replays. *)
THEOREM FundingHolds == FundingSpec => []FundingOK
<1>1. FundingInv => FundingOK
  BY DEF FundingInv
<1> QED BY <1>1, FundingStart, FundingStep, PTL DEF FundingSpec

Counting == reboots \in Nat

LEMMA RebootsCount ==
  /\ FundingInit => Counting
  /\ Counting /\ [FundingNext]_fundingVars => Counting'
<1>1. FundingInit => Counting
  BY DEF FundingInit, Counting
<1>2. ASSUME Counting, [FundingNext]_fundingVars PROVE Counting'
  <2>1. reboots' = reboots \/ reboots' = reboots + 1
    BY <1>2 DEF FundingNext, fundingVars, bootVars, FundingTick, Publish, OpenHold, CloseHold, AccrueFunding,
                PollIntervals, PollTickers, BootIntervals, BootTickers, RecoverRead, RecoverReplay,
                ReconcileSettled, Restart
  <2> QED BY <1>2, <2>1 DEF Counting
<1> QED BY <1>1, <1>2

(* An accrual whose clock is true charges what lies after the watermark *)
LEMMA AccrueForward ==
  ASSUME FundingInv, AccrueFunding, trusted'
  PROVE  watermark' >= watermark
<1>1. /\ hold # 0 /\ Boundaries(watermark) # {} /\ SettleAll(Boundaries(watermark), "provisional")
      /\ TrueClock /\ hold' = hold /\ holds' = holds
  BY DEF AccrueFunding
<1>2. PICK B : B = Boundaries(watermark)
  OBVIOUS
<1>3. /\ B \subseteq 0..time /\ B # {} /\ SettleAll(B, "provisional") /\ hold # 0 /\ hold' = hold /\ holds' = holds
      /\ \A t \in B : watermark < t
  BY <1>1, <1>2, BoundariesPast, BoundariesTrue
<1>4. \A t \in B : ~(t <= watermark)
  BY <1>3, Periodic
<1> QED BY <1>3, <1>4, Settling

LEMMA ForwardStep ==
  FundingInv /\ Counting /\ [FundingNext]_fundingVars =>
     (hold # 0 /\ hold' = hold /\ reboots' = reboots /\ trusted' => watermark' >= watermark)
<1> SUFFICES ASSUME FundingInv, Counting, [FundingNext]_fundingVars, hold # 0, hold' = hold, reboots' = reboots, trusted'
             PROVE  watermark' >= watermark
  OBVIOUS
<1>0. watermark \in Nat
  BY Periodic
<1>1. CASE watermark' = watermark
  BY <1>0, <1>1
<1>2. CASE AccrueFunding
  BY <1>2, AccrueForward
<1>3. CASE \E ok \in BOOLEAN : RecoverReplay(ok)
  <2>1. trusted' = trusted
    BY <1>3 DEF RecoverReplay
  <2> QED BY <1>3, <2>1, ReplayKeeps
<1>4. ~OpenHold /\ ~CloseHold /\ ~Restart
  <2>1. /\ OpenHold => hold = 0
        /\ CloseHold => hold # 0 /\ hold' = 0
        /\ Restart => reboots' = reboots + 1
    BY DEF OpenHold, CloseHold, Restart
  <2>2. reboots + 1 # reboots
    BY DEF Counting
  <2> QED BY <2>1, <2>2
<1>5. watermark' = watermark \/ AccrueFunding \/ \E ok \in BOOLEAN : RecoverReplay(ok)
  BY <1>4 DEF FundingNext, fundingVars, bookVars, FundingTick, Publish,
              PollIntervals, PollTickers, BootIntervals, BootTickers, RecoverRead, ReconcileSettled
<1> QED BY <1>1, <1>2, <1>3, <1>5

(* While a process runs with a clock that knows the schedule, the watermark of an open
   position does not go back, late replays of a start-up included. *)
THEOREM WatermarksAdvance == FundingSpec => WatermarkForward
  BY FundingStart, FundingStep, RebootsCount, ForwardStep, PTL DEF FundingSpec, WatermarkForward

-----------------------------------------------------------------------------
(* The container (Supervisor) *)

(* What a stop needs to be respected: beside the types, a container that is  *)
(* not stopping has no child past its restarts.                              *)
SupervisorInv ==
    /\ SupervisorTypeOK
    /\ stopping = "no" => \A c \in Children : recent[c] <= MaxRestarts

LEMMA NoneRestarted ==
    /\ Children # {} /\ MaxRestarts \in Nat
    /\ [c \in Children |-> 0] \in [Children -> 0..(MaxRestarts + 1)]
    /\ \A c \in Children : [d \in Children |-> 0][c] <= MaxRestarts
BY SupervisorAssumption DEF SupervisorAssumption

(* A child's exit (supervisor.mjs, on exit) keeps the counts within their    *)
(* range, and holds the container up only while a child is left.             *)
LEMMA ExitsKeep ==
    ASSUME SupervisorInv, NEW c \in Children, container = "up", Exits(c),
           health' \in {"starting", "running", "halted", "stopped"},
           ticks' = ticks, shutting' = shutting, haltStored' = haltStored, feedDead' = feedDead
    PROVE  SupervisorInv'
<1> USE SupervisorAssumption DEF SupervisorInv, SupervisorTypeOK
<1>1. CASE stopping # "no"
    BY <1>1 DEF Exits
<1>2. CASE stopping = "no"
    <2> DEFINE count == [recent EXCEPT ![c] = @ + 1]
    <2>1. recent' = count /\ alive' = alive \ {c}
        BY <1>2 DEF Exits
    <2>2. count \in [Children -> 0..(MaxRestarts + 1)]
        BY <1>2
    <2>3. \A d \in Children : d # c => count[d] <= MaxRestarts
        BY <1>2
    <2>4. waiting' \subseteq Children \ alive'
        BY <1>2, <2>1 DEF Exits
    <2>5. stopping' \in {"no", "failed"} /\ container' \in {"up", "exit0"}
        BY <1>2 DEF Exits
    <2>6. container' = "up" /\ stopping' = "no" => alive' # {}
        BY <1>2, <2>5 DEF Exits, LoopHeld
    <2>7. stopping' = "no" => count[c] <= MaxRestarts
        BY <1>2, <2>1, <2>2 DEF Exits, CrashLooping
    <2>8. stopping' = "no" => \A d \in Children : recent'[d] <= MaxRestarts
        BY <2>1, <2>3, <2>7
    <2> HIDE DEF count
    <2>9. QED
        BY <2>1, <2>2, <2>4, <2>5, <2>6, <2>8
<1>3. QED
    BY <1>1, <1>2

LEMMA SupervisorStep == SupervisorInv /\ [SupervisorNext]_supervisorVars => SupervisorInv'
<1> SUFFICES ASSUME SupervisorInv, [SupervisorNext]_supervisorVars PROVE SupervisorInv'
    OBVIOUS
<1> USE SupervisorAssumption DEF SupervisorInv, SupervisorTypeOK, runnerVars, countVars
<1>1. ASSUME NEW c \in Children, StartAgain(c) PROVE SupervisorInv'
    BY <1>1 DEF StartAgain, MayStart, Fresh
<1>2. ASSUME NEW c \in Children, WindowPasses(c) PROVE SupervisorInv'
    BY <1>2 DEF WindowPasses
<1>3. ASSUME NEW c \in Children, Crash(c) PROVE SupervisorInv'
    BY <1>3, ExitsKeep DEF Crash
<1>4. CASE Terminate
    BY <1>4 DEF Terminate
<1>5. CASE Ends
    BY <1>5 DEF Ends
<1>6. CASE DockerRestarts
    BY <1>6, NoneRestarted DEF DockerRestarts, Fresh
<1>7. CASE PriceTick
    BY <1>7 DEF PriceTick, RunnerOnly
<1>8. CASE FeedDies
    BY <1>8 DEF FeedDies, RunnerOnly
<1>9. CASE FeedReturnsLater
    BY <1>9 DEF FeedReturnsLater, RunnerOnly
<1>10. CASE Silent
    BY <1>10 DEF Silent, RunnerOnly
<1>11. CASE Snapshot
    BY <1>11 DEF Snapshot, RunnerOnly
<1>12. CASE Halts
    BY <1>12 DEF Halts, RunnerOnly
<1>13. CASE StallExit
    BY <1>13, ExitsKeep DEF StallExit, Running
<1>14. CASE ShutDown
    BY <1>14 DEF ShutDown, RunnerOnly
<1>15. CASE ShutDownEnds
    BY <1>15, ExitsKeep DEF ShutDownEnds, Running
<1>16. CASE UNCHANGED supervisorVars
    BY <1>16 DEF supervisorVars
<1>17. QED
    BY <1>1, <1>2, <1>3, <1>4, <1>5, <1>6, <1>7, <1>8, <1>9, <1>10, <1>11, <1>12, <1>13,
       <1>14, <1>15, <1>16 DEF SupervisorNext

(* The counts of restarts stay within their window, a container that is not  *)
(* stopping has a child alive, and one that is stopping starts none: the     *)
(* restart timer set before the stop finds it (supervisor.mjs).              *)
THEOREM StopStands == SupervisorSpec => StopIsRespected
<1>1. SupervisorInit => SupervisorInv
    BY SupervisorAssumption, NoneRestarted DEF SupervisorInit, SupervisorInv, SupervisorTypeOK
<1>2. SupervisorInv => SupervisorTypeOK
    BY DEF SupervisorInv
<1>3. [SupervisorNext]_supervisorVars =>
        [container = "up" /\ container' = "up" /\ stopping # "no" => alive' \subseteq alive]_supervisorVars
    <2> SUFFICES ASSUME SupervisorNext, container = "up", stopping # "no" PROVE alive' \subseteq alive
        BY DEF SupervisorNext
    <2>1. \A c \in Children : ~(StartAgain(c) /\ ~(alive' \subseteq alive))
        BY DEF StartAgain, MayStart
    <2>2. \A c \in Children : WindowPasses(c) \/ Crash(c) => alive' \subseteq alive
        BY DEF WindowPasses, Crash, Exits
    <2>3. Terminate \/ Ends => alive' \subseteq alive
        BY DEF Terminate, Ends
    <2>4. ~DockerRestarts
        BY DEF DockerRestarts
    <2>5. PriceTick \/ FeedDies \/ FeedReturnsLater \/ Silent \/ Snapshot \/ Halts \/ ShutDown
            => alive' \subseteq alive
        BY DEF PriceTick, FeedDies, FeedReturnsLater, Silent, Snapshot, Halts, ShutDown, RunnerOnly
    <2>6. StallExit \/ ShutDownEnds => alive' \subseteq alive
        BY DEF StallExit, ShutDownEnds, Exits
    <2>7. QED
        BY <2>1, <2>2, <2>3, <2>4, <2>5, <2>6 DEF SupervisorNext
<1>4. QED
    BY <1>1, <1>2, <1>3, SupervisorStep, PTL DEF SupervisorSpec, StopIsRespected, NoStartWhileStopping

-----------------------------------------------------------------------------
(* The panel of the swarm *)

Panels == [Voices -> -100..100]

(* What the panel has said is what the voices, the market and the lessons    *)
(* that stand would say again.                                               *)
PanelInv ==
    /\ samples \in 0..RingSize
    /\ market \in [style : Styles, strength : 0..100]
    /\ market.style \in {"trend", "breakout"} => market.strength >= 25
    /\ voice \in Panels /\ \A a \in Voices : voice[a] # 0 => Heard(samples, a)
    /\ taught \in [Voices -> Nat] /\ \A a \in Voices : taught[a] \in 1..(2 * BaseWeights[a])
    /\ lastEval \in 0..MaxTradeTime
    /\ proposed = NoProposal \/ (Loud(voice) /\ proposed = Combine(voice) /\ lastEval > 0)

LEMMA Products ==
  ASSUME NEW x \in Int, NEW y \in Int, NEW m \in Nat, NEW n \in Nat, 0 <= x, x <= m, 0 <= y, y <= n
  PROVE  0 <= x * y /\ x * y <= m * n
<1>1. x * y <= m * y
  OBVIOUS
<1>2. m * y <= m * n
  OBVIOUS
<1>3. 0 <= x * y
  OBVIOUS
<1> QED
  BY <1>1, <1>2, <1>3

LEMMA Hundredths ==
  ASSUME NEW k \in Int
  PROVE  /\ k \div 100 \in Int /\ 100 * (k \div 100) <= k /\ k < 100 * (k \div 100) + 100
OBVIOUS

LEMMA ClampRange == \A p \in Int : Clamp01(p) \in 0..100
BY DEF Clamp01

LEMMA VoiceRange ==
  ASSUME NEW v \in Panels, NEW a \in Voices
  PROVE  v[a] \in Int /\ -100 <= v[a] /\ v[a] <= 100
BY DEF Panels

Weighed(x, s) == (x * s) \div 100

(* A voice counts for at most its share, on its side. *)
LEMMA VoiceInShare ==
  ASSUME NEW v \in Int, -100 <= v, v <= 100, NEW s \in Nat
  PROVE  LET k == Weighed(v, s) IN
         /\ k \in Int /\ -s <= k /\ k <= s
         /\ (v >= 0 => k >= 0) /\ (v <= 0 => k <= 0) /\ (v = 0 => k = 0)
<1>1. PICK p \in Int : p = v * s
  OBVIOUS
<1>2. v >= 0 => 0 <= p /\ p <= 100 * s
  <2>1. ASSUME v >= 0 PROVE 0 <= v * s /\ v * s <= 100 * s
    BY <2>1, Products
  <2> QED
    BY <1>1, <2>1
<1>3. v <= 0 => p <= 0 /\ -(100 * s) <= p
  <2>1. ASSUME v <= 0 PROVE v * s <= 0 /\ -(100 * s) <= v * s
    <3>1. PICK u \in Int : u = -v
      OBVIOUS
    <3>2. 0 <= u * s /\ u * s <= 100 * s
      BY <2>1, <3>1, Products
    <3>3. v * s = -(u * s)
      BY <3>1
    <3> QED
      BY <3>2, <3>3
  <2> QED
    BY <1>1, <2>1
<1>4. v = 0 => p = 0
  BY <1>1
<1>5. /\ p \div 100 \in Int /\ -s <= p \div 100 /\ p \div 100 <= s
      /\ (v >= 0 => p \div 100 >= 0) /\ (v <= 0 => p \div 100 <= 0) /\ (v = 0 => p \div 100 = 0)
  BY <1>2, <1>3, <1>4, Hundredths
<1>6. Weighed(v, s) = p \div 100
  BY <1>1 DEF Weighed
<1> QED
  BY <1>5, <1>6

LEMMA TargetRange ==
  ASSUME NEW st \in Styles, NEW a \in Voices
  PROVE  /\ Targets[st][a] \in 0..140
         /\ a = "MeanRev" /\ st \in {"trend", "breakout"} => Targets[st][a] = 0
BY DEF Targets, Styles, Voices

LEMMA GateRange ==
  ASSUME PanelInv, NEW a \in Voices
  PROVE  /\ Gate(market, a) \in 0..14000
         /\ a = "MeanRev" /\ market.style \in {"trend", "breakout"} => Gate(market, a) <= 4000
<1>1. PICK c \in 0..100 : c = Clamp01(35 + market.strength)
  BY ClampRange DEF PanelInv
<1>2. PICK g \in 0..140 : g = Targets[market.style][a]
  BY TargetRange DEF PanelInv
<1>3. Gate(market, a) = 10000 + (g - 100) * c
  BY <1>1, <1>2 DEF Gate
<1>4. 0 <= g * c /\ g * c <= 140 * c
  OBVIOUS
<1>5. (g - 100) * c = g * c - 100 * c
  OBVIOUS
<1>6. PICK k \in Int : k = g * c
  OBVIOUS
<1>7. Gate(market, a) = 10000 + k - 100 * c
  BY <1>3, <1>5, <1>6
<1>8. Gate(market, a) \in 0..14000
  BY <1>4, <1>6, <1>7
<1>9. ASSUME a = "MeanRev", market.style \in {"trend", "breakout"} PROVE Gate(market, a) <= 4000
  <2>1. g = 0
    BY <1>2, <1>9, TargetRange DEF PanelInv
  <2>2. c >= 60
    BY <1>1, <1>9 DEF PanelInv, Clamp01
  <2>3. k = 0
    BY <1>6, <2>1
  <2> QED
    BY <1>7, <2>2, <2>3
<1> QED
  BY <1>8, <1>9

LEMMA ShareRange ==
  ASSUME PanelInv, NEW a \in Voices
  PROVE  /\ Share(a) \in 0..30800
         /\ /\ a = "MeanRev" /\ market.style \in {"trend", "breakout"} /\ taught[a] <= 140
            => Share(a) <= 5600
<1>1. PICK w \in 1..220 : w = taught[a]
  BY DEF PanelInv, Voices, BaseWeights
<1>2. PICK g \in 0..14000 : g = Gate(market, a)
  BY GateRange
<1>3. PICK k \in Int : k = w * g
  OBVIOUS
<1>4. Share(a) = k \div 100
  BY <1>1, <1>2, <1>3 DEF Share
<1>5. 0 <= k /\ k <= 220 * 14000
  BY <1>3, Products
<1>6. Share(a) \in 0..30800
  BY <1>4, <1>5, Hundredths
<1>7. ASSUME a = "MeanRev", market.style \in {"trend", "breakout"}, taught[a] <= 140
      PROVE  Share(a) <= 5600
  <2>1. g <= 4000 /\ w <= 140
    BY <1>1, <1>2, <1>7, GateRange
  <2>2. w \in Int /\ g \in Int /\ 0 <= w /\ w <= 140 /\ 0 <= g /\ g <= 4000
    BY <2>1
  <2>3. w * g <= 140 * 4000
    BY <2>2, Products
  <2>4. k <= 140 * 4000
    BY <1>3, <2>3
  <2> QED
    BY <1>4, <2>4, Hundredths
<1> QED
  BY <1>6, <1>7

(* Each voice of a panel v is within its share, on its side *)
LEMMA Panelled ==
  ASSUME PanelInv, NEW v \in Panels, NEW a \in Voices
  PROVE  /\ Speaks(v, a) \in Int /\ Share(a) \in 0..30800
         /\ -Share(a) <= Speaks(v, a) /\ Speaks(v, a) <= Share(a)
         /\ (v[a] >= 0 => Speaks(v, a) >= 0)
         /\ (v[a] <= 0 => Speaks(v, a) <= 0)
         /\ (v[a] = 0 => Speaks(v, a) = 0)
<1>1. PICK s \in 0..30800 : s = Share(a)
  BY ShareRange
<1>2. PICK x \in Int : x = v[a] /\ -100 <= x /\ x <= 100
  BY VoiceRange
<1>3. Speaks(v, a) = Weighed(x, s)
  BY <1>1, <1>2 DEF Speaks, Weighed
<1>4. s \in Nat /\ x \in Int /\ -100 <= x /\ x <= 100
  BY <1>2
<1>5. /\ Weighed(x, s) \in Int /\ -s <= Weighed(x, s) /\ Weighed(x, s) <= s
      /\ (x >= 0 => Weighed(x, s) >= 0) /\ (x <= 0 => Weighed(x, s) <= 0)
      /\ (x = 0 => Weighed(x, s) = 0)
  BY <1>4, VoiceInShare
<1>6. PICK k \in Int : k = Weighed(x, s)
  BY <1>5
<1>7. Speaks(v, a) = k /\ v[a] = x /\ Share(a) = s
  BY <1>1, <1>2, <1>3, <1>6
<1>8. /\ -s <= k /\ k <= s
      /\ (x >= 0 => k >= 0) /\ (x <= 0 => k <= 0) /\ (x = 0 => k = 0)
  BY <1>5, <1>6
<1> QED
  BY <1>7, <1>8

LEMMA Sums ==
  ASSUME NEW v
  PROVE  /\ NetVoice(v) = Speaks(v, "Trend") + Speaks(v, "MeanRev") + Speaks(v, "Breakout") + Speaks(v, "Meme")
         /\ Whole(v) = Share("Trend") + Share("MeanRev") + Share("Breakout") + Share("Meme")
BY DEF NetVoice, Whole, Sum_

LEMMA WholeRange ==
  ASSUME PanelInv, NEW v \in Panels
  PROVE  /\ NetVoice(v) \in Int /\ Whole(v) \in Nat /\ Whole(v) <= 123200
         /\ Magnitude(NetVoice(v)) \in Nat /\ Magnitude(NetVoice(v)) <= Whole(v)
<1>1. "Trend" \in Voices /\ "MeanRev" \in Voices /\ "Breakout" \in Voices /\ "Meme" \in Voices
  BY DEF Voices
<1>2. \A a \in Voices : /\ Speaks(v, a) \in Int /\ Share(a) \in Nat /\ Share(a) <= 30800
                         /\ -Share(a) <= Speaks(v, a) /\ Speaks(v, a) <= Share(a)
  <2>1. ASSUME NEW a \in Voices
        PROVE  /\ Speaks(v, a) \in Int /\ Share(a) \in Nat /\ Share(a) <= 30800
               /\ -Share(a) <= Speaks(v, a) /\ Speaks(v, a) <= Share(a)
    <3>1. PICK s \in 0..30800 : s = Share(a)
      BY Panelled
    <3>2. s \in Nat /\ s <= 30800
      OBVIOUS
    <3> QED
      BY <3>1, <3>2, Panelled
  <2> QED
    BY <2>1
<1>3. PICK s1 \in Nat : s1 = Share("Trend") /\ s1 <= 30800
  BY <1>1, <1>2
<1>4. PICK s2 \in Nat : s2 = Share("MeanRev") /\ s2 <= 30800
  BY <1>1, <1>2
<1>5. PICK s3 \in Nat : s3 = Share("Breakout") /\ s3 <= 30800
  BY <1>1, <1>2
<1>6. PICK s4 \in Nat : s4 = Share("Meme") /\ s4 <= 30800
  BY <1>1, <1>2
<1>7. PICK k1 \in Int : k1 = Speaks(v, "Trend") /\ -s1 <= k1 /\ k1 <= s1
  BY <1>1, <1>2, <1>3
<1>8. PICK k2 \in Int : k2 = Speaks(v, "MeanRev") /\ -s2 <= k2 /\ k2 <= s2
  BY <1>1, <1>2, <1>4
<1>9. PICK k3 \in Int : k3 = Speaks(v, "Breakout") /\ -s3 <= k3 /\ k3 <= s3
  BY <1>1, <1>2, <1>5
<1>10. PICK k4 \in Int : k4 = Speaks(v, "Meme") /\ -s4 <= k4 /\ k4 <= s4
  BY <1>1, <1>2, <1>6
<1>11. NetVoice(v) = k1 + k2 + k3 + k4 /\ Whole(v) = s1 + s2 + s3 + s4
  BY <1>3, <1>4, <1>5, <1>6, <1>7, <1>8, <1>9, <1>10, Sums
<1>12. PICK n \in Int, w \in Nat : n = NetVoice(v) /\ w = Whole(v) /\ -w <= n /\ n <= w /\ w <= 123200
  BY <1>3, <1>4, <1>5, <1>6, <1>7, <1>8, <1>9, <1>10, <1>11
<1> QED
  BY <1>12 DEF Magnitude

LEMMA Quotient ==
  ASSUME NEW n \in Nat, NEW w \in Nat, w > 0
  PROVE  /\ n \div w \in Nat /\ (n \div w) * w <= n /\ n < (n \div w) * w + w
OBVIOUS

LEMMA QuotientGrows ==
  ASSUME NEW m \in Nat, NEW n \in Nat, NEW w \in Nat, m <= n, w > 0
  PROVE  m \div w <= n \div w
<1>1. PICK q \in Nat : q = m \div w /\ q * w <= m
  BY Quotient
<1>2. PICK r \in Nat : r = n \div w /\ n < r * w + w
  BY Quotient
<1>3. q * w < (r + 1) * w
  BY <1>1, <1>2
<1>4. ASSUME q >= r + 1 PROVE FALSE
  <2>1. q * w >= (r + 1) * w
    BY <1>4
  <2> QED
    BY <2>1, <1>3
<1> QED
  BY <1>1, <1>2, <1>4

LEMMA AtLeastOne ==
  ASSUME NEW w \in Nat, w > 0
  PROVE  Max({w, 1}) = w
BY DEF Max

(* What a proposal is sure of: above a half, and never above certainty. *)
LEMMA CertaintyRange ==
  ASSUME PanelInv, NEW v \in Panels, Loud(v)
  PROVE  Certainty(v) \in Int /\ 5001 <= Certainty(v) /\ Certainty(v) <= 10000
<1>1. PICK m \in Nat : m = Magnitude(NetVoice(v))
  BY WholeRange
<1>2. PICK w \in Nat : w = Whole(v)
  BY WholeRange
<1>3. m > 6000 /\ m <= w /\ w <= 123200
  BY <1>1, <1>2, WholeRange DEF Loud
<1>4. Max({w, 1}) = w /\ w > 0
  BY <1>3, AtLeastOne
<1>5. Certainty(v) = 5000 + (5000 * m) \div w
  BY <1>1, <1>2, <1>4 DEF Certainty
<1>6. PICK n \in Nat : n = 5000 * m
  OBVIOUS
<1>7. PICK k \in Nat : k = n \div w /\ k * w <= n /\ n < k * w + w
  BY <1>4, Quotient
<1>8. k >= 1
  <2>1. ASSUME k = 0 PROVE FALSE
    <3>1. k * w = 0
      BY <2>1
    <3> QED
      BY <1>3, <1>6, <1>7, <3>1
  <2> QED
    BY <2>1
<1>9. k <= 5000
  <2>1. n <= 5000 * w
    BY <1>3, <1>6
  <2>2. ASSUME k >= 5001 PROVE FALSE
    <3>1. k * w >= 5001 * w
      BY <2>2
    <3> QED
      BY <1>4, <1>7, <2>1, <3>1
  <2> QED
    BY <2>2
<1> QED
  BY <1>5, <1>6, <1>7, <1>8, <1>9

LEMMA CertaintyGrows ==
  ASSUME PanelInv, NEW v \in Panels, NEW u \in Panels,
         Whole(u) = Whole(v), Whole(v) > 0, Magnitude(NetVoice(u)) <= Magnitude(NetVoice(v))
  PROVE  Certainty(u) <= Certainty(v)
<1>1. PICK m \in Nat : m = Magnitude(NetVoice(u))
  BY WholeRange
<1>2. PICK n \in Nat : n = Magnitude(NetVoice(v)) /\ m <= n
  BY <1>1, WholeRange
<1>3. PICK w \in Nat : w = Whole(v) /\ w > 0
  BY WholeRange
<1>4. Max({w, 1}) = w
  BY <1>3, AtLeastOne
<1>5. PICK x \in Nat, y \in Nat : x = 5000 * m /\ y = 5000 * n /\ x <= y
  BY <1>2
<1>6. Certainty(u) = 5000 + x \div w /\ Certainty(v) = 5000 + y \div w
  BY <1>1, <1>2, <1>3, <1>4, <1>5 DEF Certainty
<1>7. PICK q \in Nat : q = x \div w
  BY <1>3, Quotient
<1>8. PICK r \in Nat : r = y \div w
  BY <1>3, Quotient
<1>9. q <= r
  BY <1>3, <1>5, <1>7, <1>8, QuotientGrows
<1> QED
  BY <1>6, <1>7, <1>8, <1>9

(* Without the voice of a the panel's net loses what a said, and its whole is the same. *)
LEMMA Silenced ==
  ASSUME PanelInv, NEW v \in Panels, NEW a \in Voices,
         NEW u, u = [v EXCEPT ![a] = 0]
  PROVE  /\ u \in Panels /\ Whole(u) = Whole(v)
         /\ NetVoice(u) = NetVoice(v) - Speaks(v, a)
<1>1. u \in Panels /\ u[a] = 0 /\ \A b \in Voices : b # a => u[b] = v[b]
  BY DEF Panels
<1>2. \A b \in Voices : b # a => Speaks(u, b) = Speaks(v, b)
  BY <1>1 DEF Speaks
<1>3. Speaks(u, a) = 0
  <2>1. PICK s \in 0..30800 : s = Share(a)
    BY ShareRange
  <2>2. Speaks(u, a) = (0 * s) \div 100
    BY <1>1, <2>1 DEF Speaks
  <2> QED
    BY <2>2
<1>4. Voices = {"Trend", "MeanRev", "Breakout", "Meme"}
  BY DEF Voices
<1>5. \A b \in Voices : Speaks(v, b) \in Int
  BY Panelled
<1>6. PICK k1 \in Int : k1 = Speaks(v, "Trend")
  BY <1>4, <1>5
<1>7. PICK k2 \in Int : k2 = Speaks(v, "MeanRev")
  BY <1>4, <1>5
<1>8. PICK k3 \in Int : k3 = Speaks(v, "Breakout")
  BY <1>4, <1>5
<1>9. PICK k4 \in Int : k4 = Speaks(v, "Meme")
  BY <1>4, <1>5
<1>10. NetVoice(v) = k1 + k2 + k3 + k4
  BY <1>6, <1>7, <1>8, <1>9, Sums
<1>11. Whole(u) = Whole(v)
  BY Sums
<1>12. CASE a = "Trend"
  <2>1. NetVoice(u) = 0 + k2 + k3 + k4
    BY <1>2, <1>3, <1>4, <1>7, <1>8, <1>9, <1>12, Sums
  <2> QED
    BY <1>1, <1>6, <1>10, <1>11, <1>12, <2>1
<1>13. CASE a = "MeanRev"
  <2>1. NetVoice(u) = k1 + 0 + k3 + k4
    BY <1>2, <1>3, <1>4, <1>6, <1>8, <1>9, <1>13, Sums
  <2> QED
    BY <1>1, <1>7, <1>10, <1>11, <1>13, <2>1
<1>14. CASE a = "Breakout"
  <2>1. NetVoice(u) = k1 + k2 + 0 + k4
    BY <1>2, <1>3, <1>4, <1>6, <1>7, <1>9, <1>14, Sums
  <2> QED
    BY <1>1, <1>8, <1>10, <1>11, <1>14, <2>1
<1>15. CASE a = "Meme"
  <2>1. NetVoice(u) = k1 + k2 + k3 + 0
    BY <1>2, <1>3, <1>4, <1>6, <1>7, <1>8, <1>15, Sums
  <2> QED
    BY <1>1, <1>9, <1>10, <1>11, <1>15, <2>1
<1> QED
  BY <1>4, <1>12, <1>13, <1>14, <1>15

(* A proposal is on the side of the net, and as certain as the panel that stands. *)
LEMMA ProposalIs ==
  ASSUME PanelInv, proposed # NoProposal
  PROVE  /\ Loud(voice) /\ voice \in Panels /\ lastEval > 0
         /\ proposed.confidence = Certainty(voice)
         /\ proposed.side = IF NetVoice(voice) > 0 THEN "BUY" ELSE "SELL"
BY DEF PanelInv, Combine

LEMMA TypeFollows ==
  ASSUME PanelInv
  PROVE  PanelTypeOK
<1>1. ASSUME proposed # NoProposal PROVE proposed.confidence \in 5001..10000 /\ lastEval > 0
  <2>1. Loud(voice) /\ voice \in Panels
    BY <1>1, ProposalIs
  <2>2. Certainty(voice) \in Int /\ 5001 <= Certainty(voice) /\ Certainty(voice) <= 10000
    BY <2>1, CertaintyRange
  <2>3. proposed.confidence = Certainty(voice) /\ lastEval > 0
    BY <1>1, ProposalIs
  <2> QED
    BY <2>2, <2>3
<1>2. market.style \in Styles /\ market.strength \in 0..100
  BY DEF PanelInv
<1>3. \A a \in Voices : voice[a] \in -100..100
  BY DEF PanelInv, Panels
<1> QED
  BY <1>1, <1>2, <1>3 DEF PanelInv, PanelTypeOK

(* A fade has at most 56 points of the 60 a proposal needs. *)
LEMMA FadeFollows ==
  ASSUME PanelInv
  PROVE  FadeNeverLeads
<1> SUFFICES ASSUME proposed # NoProposal, market.style \in {"trend", "breakout"}, taught["MeanRev"] <= 140,
                    ~ \E a \in Voices \ {"MeanRev"} : Agrees(a)
             PROVE  FALSE
  BY DEF FadeNeverLeads
<1>1. /\ "Trend" \in Voices /\ "Breakout" \in Voices /\ "Meme" \in Voices /\ "MeanRev" \in Voices
      /\ voice \in Panels /\ Loud(voice)
  BY ProposalIs DEF Voices
<1>2. \A a \in Voices : voice[a] \in Int
  BY <1>1, VoiceRange
<1>3. PICK k1 \in Int : k1 = Speaks(voice, "Trend")
  BY <1>1, Panelled
<1>4. PICK k2 \in Int : k2 = Speaks(voice, "MeanRev")
  BY <1>1, Panelled
<1>5. PICK k3 \in Int : k3 = Speaks(voice, "Breakout")
  BY <1>1, Panelled
<1>6. PICK k4 \in Int : k4 = Speaks(voice, "Meme")
  BY <1>1, Panelled
<1>7. NetVoice(voice) = k1 + k2 + k3 + k4
  BY <1>3, <1>4, <1>5, <1>6, Sums
<1>8. -5600 <= k2 /\ k2 <= 5600
  <2>1. PICK s \in 0..30800 : s = Share("MeanRev")
    BY <1>1, ShareRange
  <2>2. s <= 5600
    BY <1>1, <2>1, ShareRange
  <2> QED
    BY <1>1, <1>4, <2>1, <2>2, Panelled
<1>9. CASE NetVoice(voice) > 0
  <2>1. voice["Trend"] <= 0 /\ voice["Breakout"] <= 0 /\ voice["Meme"] <= 0
    <3>1. proposed.side = "BUY"
      BY <1>9, ProposalIs
    <3>2. ~ Agrees("Trend") /\ ~ Agrees("Breakout") /\ ~ Agrees("Meme")
      BY <1>1
    <3> QED
      BY <1>1, <1>2, <3>1, <3>2 DEF Agrees
  <2>2. k1 <= 0 /\ k3 <= 0 /\ k4 <= 0
    BY <1>1, <1>3, <1>5, <1>6, <2>1, Panelled
  <2>3. NetVoice(voice) <= 5600
    BY <1>7, <1>8, <2>2
  <2> QED
    BY <1>1, <1>7, <1>9, <2>3 DEF Loud, Magnitude
<1>10. CASE ~ (NetVoice(voice) > 0)
  <2>1. voice["Trend"] >= 0 /\ voice["Breakout"] >= 0 /\ voice["Meme"] >= 0
    <3>1. proposed.side # "BUY"
      BY <1>10, ProposalIs
    <3>2. ~ Agrees("Trend") /\ ~ Agrees("Breakout") /\ ~ Agrees("Meme")
      BY <1>1
    <3> QED
      BY <1>1, <1>2, <3>1, <3>2 DEF Agrees
  <2>2. k1 >= 0 /\ k3 >= 0 /\ k4 >= 0
    BY <1>1, <1>3, <1>5, <1>6, <2>1, Panelled
  <2>3. NetVoice(voice) >= -5600
    BY <1>7, <1>8, <2>2
  <2> QED
    BY <1>1, <1>7, <1>10, <2>3 DEF Loud, Magnitude
<1> QED
  BY <1>9, <1>10

LEMMA CertaintyIsWhole ==
  ASSUME PanelInv, NEW v \in Panels, Whole(v) > 0
  PROVE  Certainty(v) \in Int
<1>1. PICK m \in Nat : m = Magnitude(NetVoice(v))
  BY WholeRange
<1>2. PICK w \in Nat : w = Whole(v) /\ w > 0
  BY WholeRange
<1>3. PICK p \in Nat : p = 5000 * m
  OBVIOUS
<1>4. Certainty(v) = 5000 + p \div w
  BY <1>1, <1>2, <1>3, AtLeastOne DEF Certainty
<1>5. p \div w \in Int
  BY <1>2, Quotient
<1> QED
  BY <1>4, <1>5

LEMMA SupportFollows ==
  ASSUME PanelInv
  PROVE  SupportRaises
<1> SUFFICES ASSUME proposed # NoProposal, NEW a \in Voices, NEW u, u = [voice EXCEPT ![a] = 0],
                    (NetVoice(u) > 0) = (proposed.side = "BUY")
             PROVE  IF Agrees(a) THEN Certainty(u) <= proposed.confidence
                    ELSE Certainty(u) >= proposed.confidence
  BY DEF SupportRaises
<1>1. /\ Loud(voice) /\ voice \in Panels /\ proposed.confidence = Certainty(voice)
      /\ proposed.side = IF NetVoice(voice) > 0 THEN "BUY" ELSE "SELL"
  BY ProposalIs
<1>2. /\ u \in Panels /\ Whole(u) = Whole(voice)
      /\ NetVoice(u) = NetVoice(voice) - Speaks(voice, a)
  BY <1>1, Silenced
<1>3. PICK x \in Int : x = voice[a]
  BY <1>1, VoiceRange
<1>4. PICK k \in Int : k = Speaks(voice, a) /\ (x >= 0 => k >= 0) /\ (x <= 0 => k <= 0)
  BY <1>1, <1>3, Panelled
<1>5. PICK n \in Int : n = NetVoice(voice)
  BY <1>1, WholeRange
<1>6. Whole(voice) > 0
  <2>1. PICK w \in Nat : w = Whole(voice)
    BY <1>1, WholeRange
  <2>2. PICK m \in Nat : m = Magnitude(NetVoice(voice)) /\ m <= w /\ m > 6000
    BY <1>1, <2>1, WholeRange DEF Loud
  <2> QED
    BY <2>1, <2>2
<1>7. PICK o \in Int : o = NetVoice(u) /\ o = n - k
  BY <1>2, <1>4, <1>5
<1>8. /\ Magnitude(o) <= Magnitude(n) => Certainty(u) <= Certainty(voice)
      /\ Magnitude(n) <= Magnitude(o) => Certainty(voice) <= Certainty(u)
  BY <1>1, <1>2, <1>5, <1>6, <1>7, CertaintyGrows
<1>9. PICK c \in Int : c = Certainty(voice)
  BY <1>1, CertaintyRange
<1>10. PICK d \in Int : d = Certainty(u)
  BY <1>2, <1>6, CertaintyIsWhole
<1>11. CASE n > 0
  <2>1. proposed.side = "BUY" /\ o > 0
    BY <1>1, <1>5, <1>7, <1>11
  <2>2. Agrees(a) <=> x > 0
    BY <1>3, <2>1 DEF Agrees
  <2>3. CASE x > 0
    <3>1. Magnitude(o) <= Magnitude(n)
      BY <1>4, <1>7, <1>11, <2>1, <2>3 DEF Magnitude
    <3> QED
      BY <1>1, <1>8, <2>2, <2>3, <3>1
  <2>4. CASE ~ (x > 0)
    <3>1. Magnitude(n) <= Magnitude(o)
      BY <1>4, <1>7, <1>11, <2>1, <2>4 DEF Magnitude
    <3>2. c <= d
      BY <1>8, <1>9, <1>10, <3>1
    <3> QED
      BY <1>1, <1>9, <1>10, <2>2, <2>4, <3>2
  <2> QED
    BY <2>3, <2>4
<1>12. CASE ~ (n > 0)
  <2>1. proposed.side = "SELL" /\ ~ (o > 0)
    BY <1>1, <1>5, <1>7, <1>12
  <2>2. Agrees(a) <=> x < 0
    BY <1>3, <2>1 DEF Agrees
  <2>3. CASE x < 0
    <3>1. Magnitude(o) <= Magnitude(n)
      BY <1>4, <1>7, <1>12, <2>1, <2>3 DEF Magnitude
    <3> QED
      BY <1>1, <1>8, <2>2, <2>3, <3>1
  <2>4. CASE ~ (x < 0)
    <3>1. Magnitude(n) <= Magnitude(o)
      BY <1>4, <1>7, <1>12, <2>1, <2>4 DEF Magnitude
    <3>2. c <= d
      BY <1>8, <1>9, <1>10, <3>1
    <3> QED
      BY <1>1, <1>9, <1>10, <2>2, <2>4, <3>2
  <2> QED
    BY <2>3, <2>4
<1> QED
  BY <1>11, <1>12

LEMMA MaxOfThree ==
  ASSUME NEW x \in Int, NEW y \in Int, NEW z \in Int
  PROVE  /\ Max({x, y, z}) \in {x, y, z}
         /\ x <= Max({x, y, z}) /\ y <= Max({x, y, z}) /\ z <= Max({x, y, z})
<1>1. \E k \in {x, y, z} : \A l \in {x, y, z} : k >= l
  <2>1. CASE x >= y /\ x >= z
    BY <2>1
  <2>2. CASE y >= x /\ y >= z
    BY <2>2
  <2>3. CASE z >= x /\ z >= y
    BY <2>3
  <2> QED
    BY <2>1, <2>2, <2>3
<1> QED
  BY <1>1 DEF Max

(* The scores of a window are percentages. *)
LEMMA ScoreRange ==
  ASSUME PanelAssumption, NEW f \in Features
  PROVE  TrendScore(f) \in 0..100 /\ BreakoutScore(f) \in 0..100 /\ RevertScore(f) \in 0..100
<1> USE DEF Features
<1>1. PICK e \in Int : e = f.efficiency
  <2>1. \A z \in Efficiencies : z \in Int
    BY DEF PanelAssumption
  <2>2. f.efficiency \in Efficiencies
    OBVIOUS
  <2>3. f.efficiency \in Int
    BY <2>1, <2>2
  <2> QED
    BY <2>3
<1>2. PICK u \in Int : u = f.autocorr
  <2>1. \A z \in Autocorrs : z \in Int
    BY DEF PanelAssumption
  <2>2. f.autocorr \in Autocorrs
    OBVIOUS
  <2>3. f.autocorr \in Int
    BY <2>1, <2>2
  <2> QED
    BY <2>3
<1>3. PICK x \in Int, r \in Int, l \in Int : x = f.expansion /\ r = f.reach /\ l = f.vol
  BY DEF PanelAssumption
<1> HIDE DEF Features
<1>4. TrendScore(f) \in 0..100
  <2>1. PICK p \in 0..100 : p = Clamp01(((e - 30) * 100) \div 40)
    BY ClampRange
  <2>2. PICK q \in 0..100 : q = Clamp01(50 + 4 * u)
    BY ClampRange
  <2>3. TrendScore(f) = (p * q) \div 100
    BY <1>1, <1>2, <2>1, <2>2 DEF TrendScore
  <2>4. PICK k \in Int : k = p * q /\ 0 <= k /\ k <= 100 * 100
    BY Products
  <2> QED
    BY <2>3, <2>4, Hundredths
<1>5. BreakoutScore(f) \in 0..100
  <2>1. PICK p \in 0..100 : p = Clamp01(r)
    BY ClampRange
  <2>2. PICK q \in 0..100 : q = Clamp01(((x - 90) * 100) \div 60)
    BY ClampRange
  <2>3. BreakoutScore(f) = (p * q) \div 100
    BY <1>3, <2>1, <2>2 DEF BreakoutScore
  <2>4. PICK k \in Int : k = p * q /\ 0 <= k /\ k <= 100 * 100
    BY Products
  <2> QED
    BY <2>3, <2>4, Hundredths
<1>6. RevertScore(f) \in 0..100
  <2>1. PICK p \in 0..100 : p = Clamp01((-u * 100) \div 35)
    BY ClampRange
  <2>2. PICK q \in 0..100 : q = Clamp01(((35 - e) * 100) \div 30)
    BY ClampRange
  <2>3. PICK v \in 0..100 : v = Clamp01((l * 100) \div 8)
    BY ClampRange
  <2>4. RevertScore(f) = (p * q * v) \div 10000
    BY <1>1, <1>2, <1>3, <2>1, <2>2, <2>3 DEF RevertScore
  <2>5. PICK k \in Int : k = p * q /\ 0 <= k /\ k <= 100 * 100
    BY Products
  <2>6. PICK n \in Int : n = k * v /\ 0 <= n /\ n <= 10000 * 100
    BY <2>5, Products
  <2>7. RevertScore(f) = n \div 10000
    BY <2>4, <2>5, <2>6
  <2>8. n \div 10000 \in Int /\ 10000 * (n \div 10000) <= n /\ n < 10000 * (n \div 10000) + 10000
    OBVIOUS
  <2>9. PICK d \in Int : d = n \div 10000
    BY <2>8
  <2> QED
    BY <2>6, <2>7, <2>8, <2>9
<1> QED
  BY <1>4, <1>5, <1>6

LEMMA ReadRange ==
  ASSUME PanelAssumption, NEW m \in Reads
  PROVE  /\ m \in [style : Styles, strength : 0..100]
         /\ m.style \in {"trend", "breakout"} => m.strength >= 25
<1>1. PICK f \in Features : m = Read(f)
  BY DEF Reads
<1>2. PICK t \in 0..100, b \in 0..100, r \in 0..100 :
        t = TrendScore(f) /\ b = BreakoutScore(f) /\ r = RevertScore(f)
  BY ScoreRange
<1>3. PICK k \in 0..100 : k = Max({t, b, r})
  <2>1. t \in Int /\ b \in Int /\ r \in Int
    OBVIOUS
  <2>2. Max({t, b, r}) \in {t, b, r}
    BY <2>1, MaxOfThree
  <2> QED
    BY <2>2
<1>4. m = [style |-> IF k >= 25 THEN IF t = k THEN "trend" ELSE IF b = k THEN "breakout" ELSE "meanRevert"
                    ELSE "chop", strength |-> k]
  BY <1>1, <1>2, <1>3 DEF Read
<1> QED
  BY <1>4 DEF Styles

LEMMA SaysRange == \A a \in Voices : Says(a) \subseteq -100..100
BY DEF Voices, Says

LEMMA PanelStarts ==
  ASSUME PanelAssumption, PanelInit
  PROVE  PanelInv
<1>1. BaseWeights \in [Voices -> Nat] /\ \A a \in Voices : BaseWeights[a] \in 1..(2 * BaseWeights[a])
  BY DEF BaseWeights, Voices
<1>2. 0 \in 0..RingSize /\ 0 \in 0..MaxTradeTime
  BY DEF PanelAssumption
<1>3. market \in [style : Styles, strength : 0..100] /\ market.style = "chop"
  BY DEF PanelInit, Unread, Styles
<1>4. voice \in Panels /\ \A a \in Voices : voice[a] = 0
  BY DEF PanelInit, Panels
<1> QED
  BY <1>1, <1>2, <1>3, <1>4 DEF PanelInit, PanelInv

LEMMA WindowGrows ==
  ASSUME NEW n \in 0..RingSize, RingSize \in Nat
  PROVE  Min({n + 1, RingSize}) \in 0..RingSize /\ n <= Min({n + 1, RingSize})
<1>1. \E k \in {n + 1, RingSize} : \A l \in {n + 1, RingSize} : k <= l
  <2>1. CASE n + 1 <= RingSize
    BY <2>1
  <2>2. CASE RingSize <= n + 1
    BY <2>2
  <2> QED
    BY <2>1, <2>2
<1>2. Min({n + 1, RingSize}) \in {n + 1, RingSize} /\ Min({n + 1, RingSize}) <= n + 1 /\ Min({n + 1, RingSize}) <= RingSize
  BY <1>1 DEF Min
<1> QED
  BY <1>2

(* What a trade moves is again a window, a read and four voices. *)
LEMMA TradeMoves ==
  ASSUME PanelAssumption, PanelInv, samples' = Min({samples + 1, RingSize}), Moved(samples')
  PROVE  /\ samples' \in 0..RingSize
         /\ market' \in [style : Styles, strength : 0..100]
         /\ market'.style \in {"trend", "breakout"} => market'.strength >= 25
         /\ voice' \in Panels /\ \A a \in Voices : voice'[a] # 0 => Heard(samples', a)
<1>1. samples' \in 0..RingSize /\ samples <= samples'
  BY WindowGrows DEF PanelInv, PanelAssumption
<1>2. \A a \in Voices : MinSamples[a] \in Int
  BY DEF PanelAssumption
<1>3. \A a \in Voices : Heard(samples, a) => Heard(samples', a)
  BY <1>1, <1>2 DEF Heard, PanelInv
<1>4. \A a \in Voices : voice[a] # 0 => Heard(samples', a)
  BY <1>3 DEF PanelInv
<1>5. CASE UNCHANGED <<market, voice>>
  BY <1>1, <1>4, <1>5 DEF PanelInv
<1>6. CASE market' \in Reads /\ UNCHANGED voice
  <2>1. /\ market' \in [style : Styles, strength : 0..100]
        /\ market'.style \in {"trend", "breakout"} => market'.strength >= 25
    BY <1>6, ReadRange
  <2> QED
    BY <1>1, <1>4, <1>6, <2>1 DEF PanelInv
<1>7. ASSUME NEW a \in Voices, Heard(samples', a), NEW s \in Says(a), voice' = [voice EXCEPT ![a] = s],
             UNCHANGED market
      PROVE  /\ market' \in [style : Styles, strength : 0..100]
             /\ market'.style \in {"trend", "breakout"} => market'.strength >= 25
             /\ voice' \in Panels /\ \A b \in Voices : voice'[b] # 0 => Heard(samples', b)
  <2>1. s \in -100..100
    BY <1>7, SaysRange
  <2>2. voice \in Panels
    BY DEF PanelInv
  <2>3. voice' \in Panels /\ \A b \in Voices : b # a => voice'[b] = voice[b]
    BY <1>7, <2>1, <2>2 DEF Panels
  <2> QED
    BY <1>4, <1>7, <2>3 DEF PanelInv
<1> QED
  BY <1>1, <1>5, <1>6, <1>7 DEF Moved

LEMMA PanelSteps ==
  ASSUME PanelAssumption, PanelInv, [PanelNext]_panelVars
  PROVE  PanelInv'
<1>1. ASSUME NEW t \in 1..MaxTradeTime, HandleTrade(t) PROVE PanelInv'
  <2>1. /\ samples' \in 0..RingSize
        /\ market' \in [style : Styles, strength : 0..100]
        /\ market'.style \in {"trend", "breakout"} => market'.strength >= 25
        /\ voice' \in Panels /\ \A a \in Voices : voice'[a] # 0 => Heard(samples', a)
    BY <1>1, TradeMoves DEF HandleTrade
  <2>2. taught' = taught
    BY <1>1 DEF HandleTrade
  <2>3. lastEval' \in 0..MaxTradeTime
    BY <1>1 DEF HandleTrade, PanelInv, PanelAssumption
  <2>4. proposed' = NoProposal \/ (Loud(voice)' /\ proposed' = Combine(voice)' /\ lastEval' > 0)
    <3>1. CASE t - lastEval < EvalInterval
      BY <1>1, <3>1 DEF HandleTrade
    <3>2. CASE ~ (t - lastEval < EvalInterval)
      <4>1. proposed' = Combine(voice)' /\ lastEval' = t /\ t > 0
        BY <1>1, <3>2 DEF HandleTrade, PanelAssumption
      <4>2. CASE Loud(voice)'
        BY <4>1, <4>2
      <4>3. CASE ~ Loud(voice)'
        <5>1. Combine(voice)' = NoProposal
          BY <4>3 DEF Combine, NoProposal
        <5> QED
          BY <4>1, <5>1
      <4> QED
        BY <4>2, <4>3
    <3> QED
      BY <3>1, <3>2
  <2> QED
    BY <2>1, <2>2, <2>3, <2>4 DEF PanelInv, Heard, NoProposal
<1>2. ASSUME NEW lesson \in Lessons, Teach(lesson) PROVE PanelInv'
  <2>1. taught' \in [Voices -> Nat] /\ \A a \in Voices : taught'[a] \in 1..(2 * BaseWeights[a])
    BY <1>2 DEF Teach, PanelAssumption
  <2>2. proposed' = NoProposal /\ UNCHANGED <<samples, market, voice, lastEval>>
    BY <1>2 DEF Teach, NoProposal
  <2> QED
    BY <2>1, <2>2 DEF PanelInv, Heard, NoProposal
<1>3. CASE UNCHANGED panelVars
  BY <1>3 DEF panelVars, PanelInv, Heard, NoProposal, Loud, Combine, Certainty, Magnitude, NetVoice, Whole,
              Sum_, Speaks, Share, Gate
<1> QED
  BY <1>1, <1>2, <1>3 DEF PanelNext

(* In a trend or a breakout the fading agent alone carries no trade, and no agent that agrees *)
(* makes a proposal less certain, whatever the windows, the lessons and the interval are.     *)
THEOREM PanelHolds == PanelSpec => []PanelOK
<1>1. PanelInit => PanelInv
  BY PanelStarts, PanelAssumption
<1>2. PanelInv /\ [PanelNext]_panelVars => PanelInv'
  BY PanelSteps, PanelAssumption
<1>3. PanelInv => PanelOK
  BY TypeFollows, FadeFollows, SupportFollows DEF PanelOK
<1> QED
  BY <1>1, <1>2, <1>3, PTL DEF PanelSpec

=============================================================================
