---------------------------- MODULE PaperBroker ----------------------------
(***************************************************************************)
(* The paper broker (src/src/lib/paper-broker.ts): orders in flight, open  *)
(* positions, the realized-PnL ledger, funding charges and their later     *)
(* correction, post-stop cooldowns and the drawdown halt.                  *)
(*                                                                         *)
(* Abstractions.  Prices, margins and fees are small integers and every    *)
(* position has size 1, so gross PnL is a price difference.  The checks of *)
(* tryFill that look only at the book, the filters or the signal (no-book, *)
(* thin-book, signal-stale, min-qty, slippage ...) can reject any fill, so *)
(* they are one nondeterministic rejection; the checks that read broker    *)
(* state (halted, position present, margin) are kept.  The cost gate and   *)
(* the confidence threshold only ever reject a proposal, which then        *)
(* changes telemetry alone: a rejected proposal is a stuttering step.      *)
(* Absolute times are kept as the time that remains (ready, rest, hold,    *)
(* cooldowns), and Tick lets one unit pass.                                *)
(***************************************************************************)
EXTENDS Integers, FiniteSets, Functions

CONSTANTS
    Symbols,          \* traded symbols
    None,             \* no order, position or trade
    Prices,           \* prices at which orders fill and ticks print
    Margins,          \* initial margins a fill may need
    FundingFees,      \* amounts one funding settlement may charge (< 0: received)
    StartingBalance,  \* cfg.startingBalance
    MaxPositions,     \* cfg.maxPositions
    MaxSameSide,      \* cfg.maxSameSide
    UsageNum,         \* cfg.maxMarginUsage = UsageNum / UsageDen
    UsageDen,
    MaxDrawdown,      \* cfg.maxDailyDrawdown * cfg.startingBalance
    TakerFee,         \* fee of a taker entry or exit
    MakerFee,         \* fee of a maker entry or exit
    TpAsLimit,        \* cfg.takeProfitAsLimit
    ChaseOnExpiry,    \* cfg.passiveChaseOnExpiry
    StopDist,         \* entry to initial stop: one R
    TargetDist,       \* entry to take profit, also the reward
    LiqDist,          \* entry to liquidation price
    BreakevenDist,    \* cfg.breakevenAtR * R
    TrailStartDist,   \* cfg.trailStartR * R
    TrailDist,        \* cfg.trailDistanceR * R
    FeeCushion,       \* round-trip taker fee added to the breakeven stop
    CarryBudget,      \* cfg.maxFundingShareOfReward * reward
    Latency,          \* largest signal-to-fill latency, in ticks
    RestTime,         \* cfg.passiveMaxWaitMs
    MaxHold,          \* cfg.maxHoldMs
    Cooldown,         \* cfg.cooldownAfterStopMs
    MaxOrders,        \* bound: proposals accepted in a behaviour
    MaxFundings       \* bound: funding settlements in a behaviour

Side == {"BUY", "SELL"}
Ids  == 1..MaxOrders
Dir(side) == IF side = "BUY" THEN 1 ELSE -1

ASSUME BrokerAssumption ==
    /\ IsFiniteSet(Symbols)
    /\ Prices \subseteq Int /\ Margins \subseteq Nat /\ FundingFees \subseteq Int
    /\ StartingBalance \in Nat /\ MaxPositions \in Nat /\ MaxSameSide \in Nat
    /\ UsageNum \in Nat /\ UsageDen \in Nat /\ MaxDrawdown \in Nat
    /\ TakerFee \in Nat /\ MakerFee \in Nat
    /\ StopDist \in Nat /\ TargetDist \in Nat /\ LiqDist \in Nat
    /\ BreakevenDist \in Nat /\ TrailStartDist \in Nat /\ TrailDist \in Nat
    /\ FeeCushion \in Nat /\ CarryBudget \in Nat
    /\ Latency \in Nat /\ RestTime \in Nat /\ MaxHold \in Nat /\ Cooldown \in Nat
    /\ MaxOrders \in Nat /\ MaxFundings \in Nat
    /\ Latency > 0
    /\ TpAsLimit \in BOOLEAN /\ ChaseOnExpiry \in BOOLEAN

VARIABLES
    positions,    \* symbol -> open position or None
    pending,      \* symbol -> order in flight or None
    cooldowns,    \* symbol -> time until new entries are allowed again
    marked,       \* symbols whose price has been seen (markFor is not null)
    closed,       \* order id -> closed trade or None
    events,       \* funding settlements charged
    realizedPnl,  \* the pnlLedger accumulator
    halted,       \* the drawdown halt
    nextId,       \* id of the next accepted proposal
    posted        \* history: order id -> sum posted to realizedPnl for it

vars == <<positions, pending, cooldowns, marked, closed, events,
          realizedPnl, halted, nextId, posted>>

Order == [id : Ids, side : Side, mode : {"passive", "taker"},
          ready : Nat, rest : Nat]

Position == [id : Ids, side : Side, entry : Int, im : Nat, fee : Nat,
             funding : Int, stop : Int, best : Int, moved : BOOLEAN, hold : Nat]

Reason == {"LIQ", "SL", "TRAIL", "TP", "TIME", "CARRY", "MANUAL"}

Trade == [reason : Reason, im : Nat, gross : Int, fees : Nat,
          funding : Int, pnl : Int]

FundingEvent == [id : Ids, amount : Int, settled : BOOLEAN]

ASSUME NoneAssumption == None \notin Order \cup Position \cup Trade \cup FundingEvent

Held     == {s \in Symbols : positions[s] # None}
InFlight == {s \in Symbols : pending[s] # None}

Init ==
    /\ positions = [s \in Symbols |-> None]
    /\ pending   = [s \in Symbols |-> None]
    /\ cooldowns = [s \in Symbols |-> 0]
    /\ marked = {}
    /\ closed = [i \in Ids |-> None]
    /\ events = [n \in 1..MaxFundings |-> None]
    /\ realizedPnl = 0
    /\ halted = FALSE
    /\ nextId = 1
    /\ posted = [i \in Ids |-> 0]

-----------------------------------------------------------------------------
(* Portfolio limits *)

SlotsUsed == Held \cup InFlight
HeldOn(side)     == {s \in Held : positions[s].side = side}
InFlightOn(side) == {s \in InFlight : pending[s].side = side}
SameSide(side)   == HeldOn(side) \cup InFlightOn(side)

SlotFree_PositionsOnly == Cardinality(Held) < MaxPositions
SlotFree == Cardinality(Held) + Cardinality(InFlight) < MaxPositions

SideFree(side) ==
    Cardinality(HeldOn(side)) + Cardinality(InFlightOn(side)) < MaxSameSide

Equity == StartingBalance + realizedPnl
Margin(s)  == IF positions[s] = None THEN 0 ELSE positions[s].im
UsedMargin == SumFunction([s \in Symbols |-> Margin(s)])

AffordsMargin(im, fee) == UsageDen * (UsedMargin + im + fee) <= UsageNum * Equity

-----------------------------------------------------------------------------
(* Entries *)

Exposed(s) == positions[s] # None \/ pending[s] # None

Cooling(s) == cooldowns[s] > 0

(* A signal becomes a pending order unless a portfolio limit refuses it. *)
OnProposal(s, side, mode, latency) ==
    /\ ~halted
    /\ ~Exposed(s)
    /\ nextId \in Ids
    /\ SlotFree
    /\ ~Cooling(s)
    /\ SideFree(side)
    /\ pending' = [pending EXCEPT ![s] =
           [id |-> nextId, side |-> side, mode |-> mode, ready |-> latency,
            rest |-> IF mode = "passive" THEN latency + RestTime ELSE 0]]
    /\ nextId' = nextId + 1
    /\ UNCHANGED <<positions, cooldowns, marked, closed, events, realizedPnl,
                   halted, posted>>

NewPosition(o, price, im, fee) ==
    [id |-> o.id, side |-> o.side, entry |-> price, im |-> im, fee |-> fee,
     funding |-> 0, stop |-> price - Dir(o.side) * StopDist, best |-> price,
     moved |-> FALSE, hold |-> MaxHold]

(* tryFill, once processPending has taken the order off the queue: refused,
   or filled, which charges the entry fee at once. *)
Refuse == UNCHANGED <<positions, realizedPnl, posted>>

MayFill_NoHaltCheck(s) == positions[s] = None
MayFill(s) == ~halted /\ positions[s] = None

Fill(s, o, price, im, fee) ==
    /\ MayFill(s)
    /\ AffordsMargin(im, fee)
    /\ positions' = [positions EXCEPT ![s] = NewPosition(o, price, im, fee)]
    /\ realizedPnl' = realizedPnl - fee
    /\ posted' = [posted EXCEPT ![o.id] = @ - fee]

TryFill(s, fee) ==
    \/ Refuse
    \/ \E price \in Prices, im \in Margins : Fill(s, pending[s], price, im, fee)

(* processPending, for one order whose latency has elapsed *)
Dequeue(s, mode) ==
    /\ pending[s] # None
    /\ pending[s].mode = mode
    /\ pending[s].ready = 0
    /\ pending' = [pending EXCEPT ![s] = None]
    /\ UNCHANGED <<cooldowns, marked, closed, events, halted, nextId>>

Expired(o) == o.rest = 0

ProcessTaker(s) == Dequeue(s, "taker") /\ TryFill(s, TakerFee)

ProcessCrossed(s) ==    \* the book has crossed the resting limit
    Dequeue(s, "passive") /\ TryFill(s, MakerFee)

ProcessExpired(s) ==    \* it never did: chase as a taker, or give up
    /\ Dequeue(s, "passive")
    /\ Expired(pending[s])
    /\ IF ChaseOnExpiry THEN TryFill(s, TakerFee) ELSE Refuse

-----------------------------------------------------------------------------
(* Exits *)

Liq(p)    == p.entry - Dir(p.side) * LiqDist
Target(p) == p.entry + Dir(p.side) * TargetDist

(* Is price a at b or beyond it, in the direction that favours the side? *)
AtOrBeyond(side, a, b) == Dir(side) * (a - b) >= 0
Better(side, a, b) == IF AtOrBeyond(side, a, b) THEN a ELSE b

(* The stop manageStop asks for: breakeven plus fees, then trailing. *)
Candidate(p, best) ==
    LET even == p.entry + Dir(p.side) * FeeCushion
    IN  IF Dir(p.side) * (best - p.entry) >= TrailStartDist
        THEN Better(p.side, even, best - Dir(p.side) * TrailDist)
        ELSE even

MovesStop(p, best) ==
    /\ Dir(p.side) * (best - p.entry) >= BreakevenDist
    /\ ~AtOrBeyond(p.side, p.stop, Candidate(p, best))

ManageStop_FollowsLast(p, price) ==
    IF Dir(p.side) * (price - p.entry) >= BreakevenDist
    THEN [p EXCEPT !.best = price, !.stop = Candidate(p, price), !.moved = TRUE]
    ELSE [p EXCEPT !.best = price]
ManageStop(p, price) ==
    LET best == Better(p.side, price, p.best)
    IN  IF StopDist = 0 THEN p
        ELSE IF MovesStop(p, best)
             THEN [p EXCEPT !.best = best, !.stop = Candidate(p, best), !.moved = TRUE]
             ELSE [p EXCEPT !.best = best]

CloseCredit_KeepsCharges(p, reason, gross, exitFee) ==
    IF reason = "LIQ" THEN -p.im ELSE gross - exitFee
(* What a close adds to the ledger.  The entry fee and the funding were
   deducted when they were charged, so a liquidation gives them back. *)
CloseCredit(p, reason, gross, exitFee) ==
    IF reason = "LIQ" THEN -p.im + p.fee + p.funding ELSE gross - exitFee

ClosedTrade(p, reason, gross, exitFee) ==
    LET fees == p.fee + exitFee
    IN  [reason |-> reason, im |-> p.im, gross |-> gross, fees |-> fees,
         funding |-> p.funding,
         pnl |-> IF reason = "LIQ" THEN -p.im ELSE gross - fees - p.funding]

CoolsOff(t) == t.reason \in {"SL", "LIQ"} \/ (t.reason = "TRAIL" /\ t.pnl < 0)

ClosePosition(s, p, exit, reason) ==
    LET gross   == Dir(p.side) * (exit - p.entry)
        exitFee == IF reason = "TP" /\ TpAsLimit THEN MakerFee ELSE TakerFee
        credit  == CloseCredit(p, reason, gross, exitFee)
        trade   == ClosedTrade(p, reason, gross, exitFee)
    IN  /\ realizedPnl' = realizedPnl + credit
        /\ posted' = [posted EXCEPT ![p.id] = @ + credit]
        /\ closed' = [closed EXCEPT ![p.id] = trade]
        /\ positions' = [positions EXCEPT ![s] = None]
        /\ cooldowns' = [cooldowns EXCEPT ![s] = IF CoolsOff(trade) THEN Cooldown ELSE @]
        /\ halted' = (halted \/ realizedPnl' <= -MaxDrawdown)
        /\ UNCHANGED <<pending, events, nextId>>

(* markPrice: liquidation on the mark first, then the ratchet, then the stop
   and the target on the last price. *)
MarkPrice(s, price, mark, exit) ==
    /\ marked' = marked \cup {s}
    /\ IF positions[s] = None
       THEN UNCHANGED <<positions, pending, cooldowns, closed, events,
                        realizedPnl, halted, nextId, posted>>
       ELSE LET p == positions[s]
                q == ManageStop(p, price)
                liquidated == AtOrBeyond(p.side, Liq(p), mark)
                stopped    == AtOrBeyond(p.side, q.stop, price)
                onTarget   == AtOrBeyond(p.side, price, Target(p))
            IN  \/ /\ liquidated
                   /\ ClosePosition(s, p, Liq(p), "LIQ")
                \/ /\ ~liquidated /\ stopped
                   /\ ClosePosition(s, q, exit, IF q.moved THEN "TRAIL" ELSE "SL")
                \/ /\ ~liquidated /\ ~stopped /\ onTarget
                   /\ ClosePosition(s, q, IF TpAsLimit THEN Target(p) ELSE exit, "TP")
                \/ /\ ~liquidated /\ ~stopped /\ ~onTarget
                   /\ positions' = [positions EXCEPT ![s] = q]
                   /\ UNCHANGED <<pending, cooldowns, closed, events,
                                  realizedPnl, halted, nextId, posted>>

OutOfTime_Never(p) == p.hold < 0
OutOfTime(p) == p.hold = 0

(* manageOpen, for one position: out of time, or out of carry budget *)
ManageOpen(s, exit) ==
    /\ positions[s] # None
    /\ s \in marked
    /\ \/ /\ OutOfTime(positions[s])
          /\ ClosePosition(s, positions[s], exit, "TIME")
       \/ /\ ~OutOfTime(positions[s])
          /\ TargetDist > 0
          /\ positions[s].funding >= CarryBudget
          /\ ClosePosition(s, positions[s], exit, "CARRY")
    /\ UNCHANGED marked

(* closeAll, for one position; an order in flight stays in flight. *)
CloseManually(s, exit) ==
    /\ positions[s] # None
    /\ ClosePosition(s, positions[s], exit, "MANUAL")
    /\ UNCHANGED marked

-----------------------------------------------------------------------------
(* Funding *)

(* settleFundingBoundary: charge one settlement to an open position, at a
   provisional rate or at the settled one. *)
SettleFundingBoundary(s, n, fee, settled) ==
    /\ positions[s] # None
    /\ events[n] = None
    /\ \A m \in 1..(n - 1) : events[m] # None
    /\ positions' = [positions EXCEPT ![s].funding = @ + fee]
    /\ realizedPnl' = realizedPnl - fee
    /\ posted' = [posted EXCEPT ![positions[s].id] = @ - fee]
    /\ events' = [events EXCEPT ![n] =
           [id |-> positions[s].id, amount |-> fee, settled |-> settled]]
    /\ UNCHANGED <<pending, cooldowns, marked, closed, halted, nextId>>

OpenAs(id) == {s \in Held : positions[s].id = id}

Corrected_FundingOnly(t, delta) ==
    IF t = None THEN None ELSE [t EXCEPT !.funding = @ + delta]
(* A closed trade after a late correction of its funding *)
Corrected(t, delta) ==
    IF t = None THEN None
    ELSE [t EXCEPT !.funding = @ + delta, !.pnl = @ - delta]

(* reconcileSettledFunding: book the difference to the settled rate once, on
   the open position or on the closed trade it became. *)
ReconcileSettledFunding(n, corrected) ==
    /\ events[n] # None
    /\ ~events[n].settled
    /\ LET id    == events[n].id
           delta == corrected - events[n].amount
       IN  /\ events' = [events EXCEPT ![n].amount = corrected, ![n].settled = TRUE]
           /\ realizedPnl' = realizedPnl - delta
           /\ posted' = [posted EXCEPT ![id] = @ - delta]
           /\ positions' = [s \in Symbols |->
                  IF s \in OpenAs(id) THEN [positions[s] EXCEPT !.funding = @ + delta]
                                      ELSE positions[s]]
           /\ closed' = IF OpenAs(id) # {} THEN closed
                        ELSE [closed EXCEPT ![id] = Corrected(@, delta)]
    /\ UNCHANGED <<pending, cooldowns, marked, halted, nextId>>

-----------------------------------------------------------------------------
(* Time and the operator *)

Countdown(t) == IF t > 0 THEN t - 1 ELSE 0

Tick ==
    /\ pending' = [s \in Symbols |-> IF pending[s] = None THEN None
           ELSE [pending[s] EXCEPT !.ready = Countdown(@), !.rest = Countdown(@)]]
    /\ positions' = [s \in Symbols |-> IF positions[s] = None THEN None
           ELSE [positions[s] EXCEPT !.hold = Countdown(@)]]
    /\ cooldowns' = [s \in Symbols |-> Countdown(cooldowns[s])]
    /\ UNCHANGED <<marked, closed, events, realizedPnl, halted, nextId, posted>>

Reset ==
    /\ positions' = [s \in Symbols |-> None]
    /\ pending'   = [s \in Symbols |-> None]
    /\ cooldowns' = [s \in Symbols |-> 0]
    /\ closed' = [i \in Ids |-> None]
    /\ events' = [n \in 1..MaxFundings |-> None]
    /\ realizedPnl' = 0
    /\ halted' = FALSE
    /\ posted' = [i \in Ids |-> 0]
    /\ UNCHANGED <<marked, nextId>>

-----------------------------------------------------------------------------
Step(s) ==
    \/ \E side \in Side, mode \in {"passive", "taker"}, latency \in 1..Latency :
           OnProposal(s, side, mode, latency)
    \/ ProcessTaker(s)
    \/ ProcessCrossed(s)
    \/ ProcessExpired(s)
    \/ \E price, mark, exit \in Prices : MarkPrice(s, price, mark, exit)
    \/ \E exit \in Prices : ManageOpen(s, exit)
    \/ \E exit \in Prices : CloseManually(s, exit)
    \/ \E n \in 1..MaxFundings, fee \in FundingFees, settled \in BOOLEAN :
           SettleFundingBoundary(s, n, fee, settled)

Next ==
    \/ \E s \in Symbols : Step(s)
    \/ \E n \in 1..MaxFundings, fee \in FundingFees : ReconcileSettledFunding(n, fee)
    \/ Tick
    \/ Reset

Spec == Init /\ [][Next]_vars

(* The 100 ms match loop, the 500 ms snapshot loop and the clock never stop;
   ticks, signals, funding and the operator promise nothing. *)
Fairness ==
    /\ WF_vars(Tick)
    /\ \A s \in Symbols :
          /\ WF_vars(ProcessTaker(s))
          /\ WF_vars(ProcessExpired(s))
          /\ WF_vars(\E exit \in Prices : ManageOpen(s, exit))

FairSpec == Spec /\ Fairness

-----------------------------------------------------------------------------
(* Properties *)

(* Every variable has its type. *)
TypeOK ==
    /\ positions \in [Symbols -> Position \cup {None}]
    /\ pending \in [Symbols -> Order \cup {None}]
    /\ cooldowns \in [Symbols -> Nat]
    /\ marked \subseteq Symbols
    /\ closed \in [Ids -> Trade \cup {None}]
    /\ events \in [1..MaxFundings -> FundingEvent \cup {None}]
    /\ realizedPnl \in Int
    /\ halted \in BOOLEAN
    /\ nextId \in Nat
    /\ posted \in [Ids -> Int]

(* Orders in flight count against the slot limit, so a burst of signals that
   all fill later can never open more than maxPositions positions, although
   tryFill does not look at the limit again. *)
SlotCap == Cardinality(SlotsUsed) <= MaxPositions

(* Likewise for positions and orders that face the same way. *)
SideCap == \A side \in Side : Cardinality(SameSide(side)) <= MaxSameSide

(* A symbol has a position or an order in flight, never both. *)
OneExposure == \A s \in Symbols : positions[s] = None \/ pending[s] = None

(* Nothing is open or in flight on a symbol that is cooling off after a
   stop-out: no order placed before the stop-out survives it. *)
CoolingIsFlat == \A s \in Symbols : cooldowns[s] > 0 => ~Exposed(s)

(* What a closed trade brought in, and what an open position has been charged. *)
TradePnl(i) == IF closed[i] = None THEN 0 ELSE closed[i].pnl
Charges(s) == IF positions[s] = None THEN 0 ELSE positions[s].fee + positions[s].funding

(* The account's realized PnL is the net PnL of the closed trades less what
   the open positions have been charged, whatever mix of fills, liquidations,
   provisional funding and corrections led there. *)
LedgerIdentity ==
    realizedPnl = SumFunction([i \in Ids |-> TradePnl(i)])
                      - SumFunction([s \in Symbols |-> Charges(s)])

(* Trade by trade: the net PnL of a closed trade, and the charges of an open
   one, are exactly what the ledger was posted for it. *)
TradesMatchPostings ==
    /\ \A i \in Ids : closed[i] # None => closed[i].pnl = posted[i]
    /\ \A s \in Held : posted[positions[s].id] =
                           -(positions[s].fee + positions[s].funding)

(* net = gross - fees - funding, for every trade but a liquidated one, also
   when the settled rate arrives after the close. *)
TradeNets == \A i \in Ids :
    (closed[i] # None /\ closed[i].reason # "LIQ") =>
        closed[i].pnl = closed[i].gross - closed[i].fees - closed[i].funding

(* "the trader's loss is the posted margin regardless" *)
LiquidationLosesMargin == \A i \in Ids :
    (closed[i] # None /\ closed[i].reason = "LIQ") => closed[i].pnl = -closed[i].im

(* While halted, exposure only shrinks, even for orders that were in flight
   when the halt hit, and only a reset that empties the book lifts the halt. *)
HaltFreezesExposure == [][halted =>
    /\ \A s \in Symbols :
          /\ pending'[s] # None => pending[s] # None
          /\ positions'[s] # None => positions[s] # None
    /\ ~halted' => SlotsUsed' = {}]_vars

(* A stop only ever moves in the position's favour. *)
StopRatchets == [][\A s \in Symbols :
    (s \in Held /\ s \in Held' /\ positions'[s].id = positions[s].id) =>
        AtOrBeyond(positions[s].side, positions'[s].stop, positions[s].stop)]_vars

(* Every order in flight is filled, refused or withdrawn in the end. *)
OrdersResolve == \A s \in Symbols : pending[s] # None ~> pending[s] = None

(* Every position with a known price is closed in the end: maxHoldMs. *)
PositionsClose == \A s \in Symbols :
    (positions[s] # None /\ s \in marked) ~> positions[s] = None

(* What is open or on its way in never exceeds the slots, is one per symbol, and is none
   on a symbol that cools down (submit, processPending, closePosition). *)
ExposureOK == SlotCap /\ OneExposure /\ CoolingIsFlat

(* The book is well formed and keeps its cap per side, and each trade, open or closed, shows
   what the ledger was posted for it, whatever was charged or corrected in between
   (accrueFunding, reconcileSettledFunding, closePosition). *)
PostingsOK == TypeOK /\ SideCap /\ TradesMatchPostings /\ TradeNets

(* Nothing stays in the book for ever: an order is filled or given up, a position is closed. *)
ExposureEnds == OrdersResolve /\ PositionsClose

=============================================================================
