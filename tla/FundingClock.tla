---------------------------- MODULE FundingClock ----------------------------
(***************************************************************************)
(* When funding is charged: the clock fed from the exchange                *)
(* (funding-clock.ts, math/perp.ts), the start-up, polling and             *)
(* reconciliation of engine-runtime.ts, and the broker's charge of one     *)
(* settlement, for one symbol whose positions follow one another.          *)
(*                                                                         *)
(* Abstractions.  Rates are not numbers: a charge is provisional (the rate *)
(* of the ticker or the default) or settled; the settled rates the clock   *)
(* keeps are of boundaries already charged and are left out.  What a       *)
(* charge leaves in the database survives a restart whole; TradeStore has  *)
(* the writes.  The exchange publishes settlements in order and changes a  *)
(* contract's period at a settlement.                                      *)
(***************************************************************************)
EXTENDS Integers, FiniteSets, FiniteSetsExt

CONSTANTS
    Periods,        \* settlement periods of the exchange
    DefaultPeriod,  \* DEFAULT_FUNDING_INTERVAL_MS
    WalkCap,        \* cap of boundariesBetween
    MaxClock, MaxRecuts, MaxHolds, MaxReboots,   \* bounds
    Unknown

ASSUME FundingAssumption ==
    /\ Periods \subseteq Nat \ {0} /\ DefaultPeriod \in Nat \ {0}
    /\ WalkCap \in Nat \ {0}
    /\ {MaxClock, MaxRecuts, MaxHolds, MaxReboots} \subseteq Nat

VARIABLES
    time,
    due, period, cuts,      \* the exchange: next settlement, period, its changes
    settled, published,         \* settlements, and those in history-fund-rate
    interval, anchor,           \* the clock: period and next settlement it knows
    boot, toReplay, reboots,        \* the start-up: step, boundaries to replay
    hold, opened, watermark,    \* the position: 0 for none; openedAt, lastFundingAt
    holds,
    charges,                     \* charges: [hold, at, source]
    inMemory,                     \* the times charged that this process has events of
    trusted                     \* history: each charge of the position came from a true clock

exchangeVars == <<due, period, cuts, settled, published>>
bookVars == <<hold, holds, opened, watermark, charges, inMemory, trusted>>
clockVars == <<interval, anchor>>
bootVars == <<boot, toReplay, reboots>>
fundingVars == <<time, exchangeVars, clockVars, bootVars, bookVars>>

Instants == 0..MaxClock

FundingInit ==
    /\ time = 0
    /\ period \in Periods /\ due \in 1..period
    /\ cuts = 0 /\ settled = {} /\ published = {}
    /\ interval = DefaultPeriod /\ anchor = Unknown
    /\ boot = "intervals" /\ toReplay = {} /\ reboots = 0
    /\ hold = 0 /\ holds = 0 /\ opened = 0 /\ watermark = 0
    /\ charges = {} /\ inMemory = {} /\ trusted = TRUE

-----------------------------------------------------------------------------
(* The exchange *)

FundingTick ==
    /\ time < MaxClock
    /\ time' = time + 1
    /\ IF time' # due THEN UNCHANGED exchangeVars
       ELSE /\ settled' = settled \cup {due}
            /\ period' \in Periods
            /\ due' = due + period'
            /\ cuts' = IF period' = period THEN cuts ELSE cuts + 1
            /\ cuts' <= MaxRecuts
            /\ UNCHANGED published
    /\ UNCHANGED <<clockVars, bootVars, bookVars>>

Publish ==
    /\ settled # published
    /\ published' = published \cup {Min(settled \ published)}
    /\ UNCHANGED <<time, due, period, cuts, settled, clockVars, bootVars, bookVars>>

-----------------------------------------------------------------------------
(* boundariesBetween: settlements after `after`, up to now *)

CeilDiv(n, d) == -((-n) \div d)

(* lastFundingBoundary: the fallback grid *)
LastBoundary(t) == (t \div interval) * interval

FirstStep_Inclusive(after) ==
    IF anchor = Unknown THEN LastBoundary(after) + interval
    ELSE LET back == Max({CeilDiv(anchor - after, interval), 0})
             start == anchor - back * interval
             ahead == IF start > after THEN 0 ELSE (after - start) \div interval
         IN start + Min({ahead, WalkCap + 2}) * interval

FirstStep_Ahead(after) == IF anchor = Unknown THEN LastBoundary(after) + interval ELSE anchor

FirstStep(after) ==
    IF anchor = Unknown THEN LastBoundary(after) + interval
    ELSE LET back == Max({CeilDiv(anchor - after, interval), 0})
             start == anchor - back * interval
             ahead == IF start > after THEN 0 ELSE (after - start) \div interval + 1
         IN start + Min({ahead, WalkCap + 2}) * interval

Boundaries(after) ==
    IF time <= after THEN {}
    ELSE {t \in {FirstStep(after) + k * interval : k \in 0..(WalkCap - 1)} : t <= time}

-----------------------------------------------------------------------------
(* The broker *)

OpenHold ==
    /\ hold = 0 /\ holds < MaxHolds
    /\ holds' = holds + 1 /\ hold' = holds'
    /\ opened' = time /\ watermark' = time /\ trusted' = TRUE
    /\ UNCHANGED <<time, exchangeVars, clockVars, bootVars, charges, inMemory>>

CloseHold ==
    /\ hold # 0
    /\ hold' = 0 /\ opened' = 0 /\ watermark' = 0 /\ trusted' = TRUE
    /\ UNCHANGED <<time, exchangeVars, clockVars, bootVars, holds, charges, inMemory>>

Unsettled(boundaries) == boundaries \ {c.at : c \in charges}

(* One already charged (settledBoundaries) moves the watermark forward only *)
Reached(boundaries, new) ==
    IF new = {} THEN Max(boundaries \cup {watermark}) ELSE Max(boundaries)

(* settleFundingBoundary, of the boundaries of a pass oldest first *)
SettleAll(boundaries, source) ==
    LET new == Unsettled(boundaries) IN
    /\ charges' = charges \cup [hold : {hold}, at : new, source : {source}]
    /\ watermark' = Reached(boundaries, new)
    /\ inMemory' = inMemory \cup new

(* The grid of the clock has the settlements since the last charge and no
   others, and is not too old to walk from *)
TrueClock ==
    /\ anchor # Unknown
    /\ \A t \in (watermark + 1)..time : t \in settled <=> (t - anchor) % interval = 0
    /\ watermark - anchor < (WalkCap + 2) * interval

(* accrueFunding, at every snapshot *)
AccrueFunding ==
    /\ hold # 0
    /\ Boundaries(watermark) # {}
    /\ SettleAll(Boundaries(watermark), "provisional")
    /\ trusted' = (trusted /\ TrueClock)
    /\ UNCHANGED <<time, exchangeVars, clockVars, bootVars, hold, holds, opened>>

-----------------------------------------------------------------------------
(* The runtime *)

(* loadFundingIntervals, loadFunding: what they read replaces what was known.
   The timers first fire minutes after the start-up *)
PollIntervals ==
    /\ boot = "done" /\ interval # period
    /\ interval' = period
    /\ UNCHANGED <<time, exchangeVars, anchor, bootVars, bookVars>>

PollTickers ==
    /\ boot = "done" /\ anchor # due
    /\ anchor' = due
    /\ UNCHANGED <<time, exchangeVars, interval, bootVars, bookVars>>

(* start: intervals, tickers, replay; a step that fails is passed over *)
BootIntervals(ok) ==
    /\ boot = "intervals"
    /\ boot' = "tickers"
    /\ interval' = IF ok THEN period ELSE interval
    /\ UNCHANGED <<time, exchangeVars, anchor, toReplay, reboots, bookVars>>

BootTickers(ok) ==
    /\ boot = "tickers"
    /\ boot' = "recover"
    /\ anchor' = IF ok THEN due ELSE anchor
    /\ UNCHANGED <<time, exchangeVars, interval, toReplay, reboots, bookVars>>

(* recoverMissedFunding: the boundaries, the request, the charges *)
RecoverRead ==
    /\ boot = "recover"
    /\ toReplay' = IF hold = 0 THEN {} ELSE Boundaries(watermark)
    /\ boot' = IF toReplay' = {} THEN "done" ELSE "replay"
    /\ trusted' = (trusted /\ (toReplay' = {} \/ TrueClock))
    /\ UNCHANGED <<time, exchangeVars, clockVars, reboots, hold, holds, opened, watermark, charges, inMemory>>

Replayable == toReplay \cap published

RecoverReplay(ok) ==
    /\ boot = "replay"
    /\ boot' = "done" /\ toReplay' = {}
    /\ LET found == IF ok /\ hold # 0 THEN {t \in Replayable : opened < t} ELSE {} IN
       IF found = {} THEN UNCHANGED <<charges, watermark, inMemory>> ELSE SettleAll(found, "settled")
    /\ UNCHANGED <<time, exchangeVars, clockVars, reboots, hold, holds, opened, trusted>>

Provisional == {c \in charges : c.source = "provisional" /\ c.at \in inMemory}
Final(c) == [c EXCEPT !.source = "settled"]

(* reconcileFunding *)
ReconcileSettled ==
    LET sure == {c \in Provisional : c.at \in published} IN
    /\ sure # {}
    /\ charges' = (charges \ sure) \cup {Final(c) : c \in sure}
    /\ UNCHANGED <<time, exchangeVars, clockVars, bootVars, hold, holds, opened, watermark, inMemory, trusted>>

(* A new process: the rows give back the position without its watermark and
   the boundaries charged *)
Restart ==
    /\ reboots < MaxReboots
    /\ reboots' = reboots + 1 /\ boot' = "intervals" /\ toReplay' = {}
    /\ interval' = DefaultPeriod /\ anchor' = Unknown
    /\ watermark' = opened /\ inMemory' = {}
    /\ UNCHANGED <<time, exchangeVars, hold, holds, opened, charges, trusted>>

FundingNext ==
    \/ FundingTick \/ Publish
    \/ OpenHold \/ CloseHold \/ AccrueFunding
    \/ PollIntervals \/ PollTickers
    \/ \E ok \in BOOLEAN : BootIntervals(ok) \/ BootTickers(ok) \/ RecoverReplay(ok)
    \/ RecoverRead \/ ReconcileSettled \/ Restart

FundingSpec == FundingInit /\ [][FundingNext]_fundingVars

-----------------------------------------------------------------------------

FundingTypeOK ==
    /\ due > time /\ due <= time + period /\ period \in Periods
    /\ published \subseteq settled /\ settled \subseteq Instants
    /\ interval \in Periods \cup {DefaultPeriod} /\ (anchor = Unknown \/ anchor \in 1..due)
    /\ toReplay \subseteq Instants
    /\ hold \in 0..holds /\ watermark \in Instants /\ opened \in Instants
    /\ charges \subseteq [hold : 1..MaxHolds, at : Instants, source : {"settled", "provisional"}]
    /\ \A c, d \in charges : c.at = d.at => c = d

Charged == {c.at : c \in charges}
ChargesOf(h) == {c.at : c \in {d \in charges : d.hold = h}}

(* A position whose charges came from a clock that knew the schedule has paid
   every settlement after its opening up to the watermark, and nothing else,
   across restarts that replay from the opening. *)
ChargedExactly ==
    hold # 0 /\ trusted =>
        /\ ChargesOf(hold) \subseteq {t \in settled : opened < t}
        /\ {t \in settled : opened < t /\ t <= watermark} \subseteq Charged

(* A charge called settled has the rate of a published settlement. *)
SettledIsPublished == \A c \in charges : c.source = "settled" => c.at \in published

(* With such a clock the watermark goes back only with a restart or a close. *)
WatermarkForward ==
    [][hold # 0 /\ hold' = hold /\ reboots' = reboots /\ trusted' => watermark' >= watermark]_fundingVars

Uncharged == {t \in settled : opened < t} \ Charged

(* The settlements of an open position are charged, unless an uncertain clock
   decided. *)
SettlementCharged ==
    (hold # 0 /\ Uncharged # {}) ~> (hold = 0 \/ Uncharged = {} \/ ~trusted)

(* The provisional charges of this process are settled once published. *)
ProvisionalSettles ==
    (\E c \in Provisional : c.at \in published) ~> (\A c \in Provisional : c.at \notin published)

(* funding-clock.ts:3, engine-runtime.ts:637-639: the exchange decides when
   funding settles, and the first schedule the clock holds is its own. *)
ChargesAreSettlements == Charged \subseteq settled

(* Every settlement is charged once, with the rate that was published for it, across
   restarts and late answers of the exchange. *)
FundingOK == FundingTypeOK /\ ChargedExactly /\ SettledIsPublished

(* The watermark does not go back, and what is owed is charged and settled in the end. *)
FundingFlows == WatermarkForward /\ SettlementCharged /\ ProvisionalSettles

=============================================================================
