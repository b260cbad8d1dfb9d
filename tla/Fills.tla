------------------------------- MODULE Fills -------------------------------
(***************************************************************************)
(* What an order costs (microstructure.ts, math/perp.ts, math/rounding.ts  *)
(* and tryFill, markPrice, resolveExitPrice and closePosition of           *)
(* paper-broker.ts): the size the book can absorb, the walk through its    *)
(* levels, slippage, brackets, the liquidation price and what a close      *)
(* pays, for one symbol under the running configuration (flat brackets,    *)
(* market exits, no ratchet; PaperBroker has the other exits).             *)
(*                                                                         *)
(* Abstractions.  Prices are whole ticks and sizes whole lots; rates are   *)
(* basis points and money is counted in 1 / Bps of a tick times a lot, so  *)
(* that fees are whole.  The square root in the impact of a fill without a *)
(* book is one of Impacts.  The margin budget is in PaperBroker.           *)
(***************************************************************************)
EXTENDS Integers, Sequences, FiniteSets, FiniteSetsExt

CONSTANTS
    Books,             \* order books: [bids, asks] of <<price, size>>, best first
    Lasts, MarkPrices, \* prices that print, and that the exchange marks at
    Risks,             \* riskPerTrade times conviction, in bps of equity
    Impacts,           \* impact of a fill that no book prices, in bps
    Balance,           \* cfg.startingBalance
    Slots,             \* cfg.maxPositions
    Bps,               \* basis points in one
    StopBps, TargetBps,             \* cfg.slPct, cfg.tpPct
    BaseLeverage,                   \* cfg.leverage
    FeeBps,                         \* cfg.takerFeeRate
    MaxImpact, DepthPart,           \* cfg.maxImpactBps; 1 / cfg.maxDepthFraction
    MaxAdverse, MaxSlip, MaxSpread, \* gates of an entry, in bps
    HalfSpread,                     \* cfg.fallbackSpreadBps / 2
    MinLots,                        \* minOrderQty
    Tiers,                          \* risk limits: [upTo, mmr, leverage], in order
    Blank,                          \* no book, mark, order, position or trade
    MaxFills                        \* bound: positions opened

Sides == {"BUY", "SELL"}
Sign(side) == IF side = "BUY" THEN 1 ELSE -1
Opposite(side) == IF side = "BUY" THEN "SELL" ELSE "BUY"
Levels(book, side) == IF side = "BUY" THEN book.asks ELSE book.bids
Touch(book, side) == Levels(book, side)[1][1]
PricesOf(levels) == {levels[i][1] : i \in DOMAIN levels}

(* A side of a book is not empty, and its best level is the first *)
Depths == Seq((Nat \ {0}) \X (Nat \ {0})) \ {<<>>}
IsBook(book) ==
    /\ book \in [bids : Depths, asks : Depths] /\ Touch(book, "SELL") <= Touch(book, "BUY")
    /\ \A side \in Sides : \A price \in PricesOf(Levels(book, side)) :
          Sign(side) * (price - Touch(book, side)) >= 0

(* Half a tick is less than the brackets *)
Resolved(price) == 2 * price * StopBps > Bps /\ 2 * price * TargetBps > Bps

Holdings == [side : Sides, entry : Nat, size : Nat, signal : Lasts, stop : Int, target : Int,
             risk : [leverage : Nat, margin : Int, liquidation : Int], from : Books]

ASSUME FillsAssumption ==
    /\ {Balance, Slots, Bps, StopBps, TargetBps, BaseLeverage, FeeBps, DepthPart} \subseteq Nat \ {0}
    /\ {MaxImpact, MaxAdverse, MaxSlip, MaxSpread, HalfSpread, MinLots, MaxFills} \subseteq Nat
    /\ Lasts \cup MarkPrices \cup Risks \subseteq Nat \ {0} /\ Impacts \subseteq Nat
    /\ Tiers \in Seq([upTo : Nat, mmr : Nat, leverage : Nat \ {0}]) \ {<<>>} /\ BaseLeverage <= Bps
    /\ \A book \in Books : /\ IsBook(book)
                           /\ \A side \in Sides : \A price \in PricesOf(Levels(book, side)) : Resolved(price)
    /\ Blank \notin Books \cup Holdings

VARIABLES depth,     \* market.book
          last,      \* the last print
          markNow,   \* market.mark
          ordered,   \* the order in flight: [side, signal, risk]
          held,      \* the position
          dealt,     \* the last closed trade: [reason, pnl]
          earned,    \* realizedPnl, times Bps
          fills

fillVars == <<depth, last, markNow, ordered, held, dealt, earned, fills>>

FillsInit ==
    /\ depth \in Books /\ last \in Lasts
    /\ markNow = Blank /\ ordered = Blank /\ held = Blank /\ dealt = Blank
    /\ earned = 0 /\ fills = 0

Nearest(num, den) == (2 * num + den) \div (2 * den)      \* Math.round of num / den

----------------------------------------------------------------------------
(* The book *)

Visible(levels) ==
    LET upTo[n \in 0..Len(levels)] == IF n = 0 THEN 0 ELSE upTo[n - 1] + levels[n][2]
    IN  upTo[Len(levels)]

(* walkBook *)
Take(qty, w, level) ==
    LET take == Min({qty - w.filled, level[2]})
    IN  [filled |-> w.filled + take, cost |-> w.cost + take * level[1]]
Walk(levels, qty) ==
    LET upTo[n \in 0..Len(levels)] ==
            IF n = 0 THEN [filled |-> 0, cost |-> 0] ELSE Take(qty, upTo[n - 1], levels[n])
    IN  upTo[Len(levels)]
Average(w) == Nearest(w.cost, w.filled)                  \* avgPrice, then roundPrice

(* maxExecutableQty.  An average beyond limit / Bps is worse than the impact allows;
   of the level that would bring it there, Room is what still may be taken. *)
Limit(book, side) == Touch(book, side) * (Bps + Sign(side) * MaxImpact)
Inside(side, cost, qty, limit) == Sign(side) * (cost * Bps - limit * qty) <= 0
Room(side, price, w, limit) ==
    LET spare == Sign(side) * (limit * w.qty - w.cost * Bps)
        excess == Sign(side) * (price * Bps - limit)
    IN  IF excess > 0 THEN Max({0, spare \div excess}) ELSE 0
TakeAll(side, limit, w, level) ==
    LET qty == w.qty + level[2]  cost == w.cost + level[1] * level[2]
    IN  IF w.stop THEN w
        ELSE IF Inside(side, cost, qty, limit) THEN [w EXCEPT !.qty = qty, !.cost = cost]
        ELSE [w EXCEPT !.qty = @ + Min({level[2], Room(side, level[1], w, limit)}), !.stop = TRUE]

MaxExecutable_AnyImpact(book, side) == Visible(Levels(book, side)) \div DepthPart
MaxExecutable(book, side) ==
    LET levels == Levels(book, side)
        upTo[n \in 0..Len(levels)] ==
            IF n = 0 THEN [qty |-> 0, cost |-> 0, stop |-> FALSE]
            ELSE TakeAll(side, Limit(book, side), upTo[n - 1], levels[n])
    IN  Min({upTo[Len(levels)].qty, Visible(levels) \div DepthPart})

(* slippageBps(..) > bound, with the sign that the code gives it: minus the move of
   price against reference in the direction of the side *)
Exceeds(reference, price, side, bound) ==
    -(Sign(side) * (price - reference) * Bps) > bound * reference
WideBook(book) ==
    LET ask == Touch(book, "BUY")  bid == Touch(book, "SELL")
    IN  2 * (ask - bid) * Bps > MaxSpread * (ask + bid)
(* The mid is half of bid + ask, so both sides are doubled *)
Stale(book, o) ==
    Exceeds(2 * o.signal, Touch(book, "BUY") + Touch(book, "SELL"), o.side, MaxAdverse)

----------------------------------------------------------------------------
(* The position *)

TierOf(notional) ==
    LET i == Min({j \in DOMAIN Tiers : j = Len(Tiers) \/ notional <= Tiers[j].upTo}) IN Tiers[i]
Liquidation_LongForBoth(entry, side, leverage, mmr) ==
    entry * (Bps - (Bps \div leverage - mmr - FeeBps))

(* The price of liquidation, times Bps *)
Liquidation(entry, side, leverage, mmr) ==
    entry * (Bps - Sign(side) * (Bps \div leverage - mmr - FeeBps))
Bracket(entry, side, move) == Nearest(entry * (Bps + Sign(side) * move), Bps)
Levered(side, entry, size, leverage) ==
    LET notional == entry * size IN
    [leverage |-> leverage, margin |-> (notional * Bps) \div leverage,
     liquidation |-> Liquidation(entry, side, leverage, TierOf(notional).mmr)]
NewHolding(o, entry, size) ==
    [side |-> o.side, entry |-> entry, size |-> size, signal |-> o.signal,
     stop |-> Bracket(entry, o.side, -StopBps), target |-> Bracket(entry, o.side, TargetBps),
     risk |-> Levered(o.side, entry, size, Min({BaseLeverage, TierOf(entry * size).leverage})),
     from |-> depth]                      \* history: the book that it was filled from

EquityNow == Balance + earned \div Bps
(* What the risk of the trade and the slot of the account ask for *)
Requested(o, touch) ==
    Min({(EquityNow * o.risk) \div (touch * StopBps), ((EquityNow \div Slots) * BaseLeverage) \div touch})

(* The size of the order, or 0 when one of the gates of tryFill rejects it *)
Sized(o) ==
    IF depth = Blank THEN 0
    ELSE IF WideBook(depth) \/ Stale(depth, o) THEN 0
    ELSE LET lots == Min({Requested(o, Touch(depth, o.side)), MaxExecutable(depth, o.side)})
         IN  IF lots <= 0 \/ lots < MinLots THEN 0 ELSE lots

(* A proposal at the last price, while the symbol is neither held nor ordered *)
Propose(side, risk) ==
    /\ ordered = Blank /\ held = Blank /\ fills < MaxFills
    /\ ordered' = [side |-> side, signal |-> last, risk |-> risk]
    /\ UNCHANGED <<depth, last, markNow, held, dealt, earned, fills>>

(* tryFill.  The branch of a partial fill is unreachable (see EntriesFitTheBook). *)
FillNow ==
    /\ ordered # Blank
    /\ LET size == Sized(ordered)
           entry == Average(Walk(Levels(depth, ordered.side), size))
       IN  IF size = 0 \/ Exceeds(ordered.signal, entry, ordered.side, MaxSlip)
           THEN UNCHANGED <<held, earned, fills>>
           ELSE /\ held' = NewHolding(ordered, entry, size)
                /\ earned' = earned - entry * size * FeeBps
                /\ fills' = fills + 1
    /\ ordered' = Blank
    /\ UNCHANGED <<depth, last, markNow, dealt>>

(* resolveExitPrice: the book as far as it goes, else the trigger and an adverse move *)
ExitPrices(p, trigger) ==
    LET side == Opposite(p.side)
        w == IF depth = Blank THEN [filled |-> 0, cost |-> 0] ELSE Walk(Levels(depth, side), p.size)
    IN  IF w.filled > 0 THEN {Average(w)}
        ELSE {Bracket(trigger, side, HalfSpread + impact) : impact \in Impacts}

(* closePosition *)
NetOf(p, exit) == Sign(p.side) * (exit - p.entry) * p.size * Bps - (p.entry + exit) * p.size * FeeBps
Settle(reason, exit) ==
    /\ held' = Blank
    /\ IF reason = "LIQ"
       THEN /\ dealt' = [reason |-> reason, pnl |-> -held.risk.margin, from |-> held.from]
            /\ earned' = earned - held.risk.margin + held.entry * held.size * FeeBps
       ELSE /\ dealt' = [reason |-> reason, pnl |-> NetOf(held, exit), from |-> held.from]
            /\ earned' = earned + NetOf(held, exit) + held.entry * held.size * FeeBps

Liquidated(p, price) == Sign(p.side) * (price * Bps - p.risk.liquidation) <= 0
Stopped(p, price) == Sign(p.side) * (price - p.stop) <= 0
OnTarget(p, price) == Sign(p.side) * (price - p.target) >= 0

(* markPrice *)
PricePrints(price) ==
    /\ last' = price
    /\ IF held = Blank THEN UNCHANGED <<held, dealt, earned>>
       ELSE IF Liquidated(held, IF markNow = Blank THEN price ELSE markNow) THEN Settle("LIQ", price)
       ELSE IF Stopped(held, price) THEN \E exit \in ExitPrices(held, held.stop) : Settle("SL", exit)
       ELSE IF OnTarget(held, price) THEN \E exit \in ExitPrices(held, held.target) : Settle("TP", exit)
       ELSE UNCHANGED <<held, dealt, earned>>
    /\ UNCHANGED <<depth, markNow, ordered, fills>>

(* The time limit, the carry limit and a close by hand, at the mark *)
CloseNow ==
    /\ held # Blank
    /\ \E exit \in ExitPrices(held, IF markNow = Blank THEN last ELSE markNow) : Settle("TIME", exit)
    /\ UNCHANGED <<depth, last, markNow, ordered, fills>>

(* The feed: the book of a symbol is replaced, or none is fresh enough to serve *)
Quote(book) ==
    /\ depth' = book /\ depth' # depth
    /\ UNCHANGED <<last, markNow, ordered, held, dealt, earned, fills>>
MarkPrints(price) ==
    /\ markNow' = price /\ markNow' # markNow
    /\ UNCHANGED <<depth, last, ordered, held, dealt, earned, fills>>

(* A new process hydrates the row, which has entry, size and brackets but neither the
   leverage nor what follows from it, and no order survives *)
Rehydrate ==
    /\ held # Blank
    /\ held' = [held EXCEPT !.risk = Levered(held.side, held.entry, held.size, BaseLeverage)]
    /\ ordered' = Blank
    /\ UNCHANGED <<depth, last, markNow, dealt, earned, fills>>

FillsNext ==
    \/ \E side \in Sides, risk \in Risks : Propose(side, risk)
    \/ FillNow
    \/ \E price \in Lasts : PricePrints(price)
    \/ CloseNow
    \/ \E book \in Books \cup {Blank} : Quote(book)
    \/ \E price \in MarkPrices : MarkPrints(price)
    \/ Rehydrate

----------------------------------------------------------------------------

(* Every size the book was asked for is whole and positive, brackets lie on their sides
   of the entry, and an order is gone once it is filled (tryFill, processPending). *)
FillsTypeOK ==
    /\ depth \in Books \cup {Blank} /\ last \in Lasts /\ markNow \in MarkPrices \cup {Blank}
    /\ ordered = Blank \/ ordered \in [side : Sides, signal : Lasts, risk : Risks]
    /\ held # Blank => /\ ordered = Blank
                       /\ held.size \in Nat \ {0} /\ held.entry \in Nat \ {0} /\ held.from \in Books
                       /\ Sign(held.side) * (held.entry - held.stop) > 0
                       /\ Sign(held.side) * (held.target - held.entry) > 0
                       /\ held.risk.margin > 0 /\ held.risk.margin <= held.entry * held.size * Bps
    /\ dealt # Blank => dealt.reason \in {"LIQ", "SL", "TP", "TIME"} /\ dealt.pnl \in Int
    /\ earned \in Int /\ fills \in 0..MaxFills

(* Under the settings of the run a position is stopped before it is liquidated, also
   after a restart that works the liquidation price out again without the leverage of
   the fill: what goes wrong costs the stop, not the margin (tryFill, hydrate).  No code
   compares cfg.slPct with cfg.leverage, so other settings may break it. *)
StopBeforeLiquidation ==
    held # Blank => Sign(held.side) * (held.stop * Bps - held.risk.liquidation) > 0

(* An entry is filled in full by the book it was sized against, takes no more than its
   part of what that shows, and pays on average no more than the allowed impact over the
   touch, give or take the rounding to a tick (maxExecutableQty with walkBook). *)
EntriesFitTheBook ==
    [][held = Blank /\ held' # Blank =>
          LET levels == Levels(depth, held'.side) IN
          /\ Walk(levels, held'.size).filled = held'.size
          /\ held'.size * DepthPart <= Visible(levels)
          /\ 2 * Sign(held'.side) * (held'.entry * Bps - Limit(depth, held'.side)) <= Bps]_fillVars

(* Going in and out on one book never pays: a close other than a liquidation that walks
   the book the entry walked loses spread, impact and both fees (resolveExitPrice, netPnl). *)
RoundTripCosts ==
    [][held # Blank /\ held' = Blank /\ dealt'.reason # "LIQ" /\ depth = held.from
          => dealt'.pnl < 0]_fillVars

(* "Reject entries whose modelled/actual entry slippage exceeds this, in bps." (the
   comment at maxEntrySlipBps in PaperConfig): refuted, slippageBps has the other sign. *)
EntrySlipCapped ==
    held # Blank =>
       Sign(held.side) * (held.entry - held.signal) * Bps <= MaxSlip * held.signal

(* A restart leaves what the position risks as it is (hydrate: "Restore a persisted
   account so the engine survives reloads."): refuted, the row has no leverage. *)
RestartKeepsRisk == [][held # Blank /\ held' # Blank => held'.risk = held.risk]_fillVars

FillsSpec == FillsInit /\ [][FillsNext]_fillVars

(* A fill fits the book it is taken from, its brackets lie on their sides of it, and its way
   in and out costs at least the fees and the spread. *)
FillsHold == []FillsTypeOK /\ EntriesFitTheBook /\ RoundTripCosts

=============================================================================
