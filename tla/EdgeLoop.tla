------------------------------ MODULE EdgeLoop ------------------------------
(* The learning loop: swarm.ts lets the agents vote, the trades that come of it are
   closed and reported by edge_report (schema.sql), edge-model.ts derives the agents'
   weights, the entry threshold and the suppressed symbols, and those decide the next
   vote.  Percentages are integers, weights are per mille; an agent votes -10..10. *)
EXTENDS Integers, FiniteSets, FiniteSetsExt, Functions, Bags
CONSTANTS Agents, TradedSymbols,
          BaseWeight,        \* BASE_AGENT_WEIGHTS
          Votes,             \* what an agent may say: side and confidence in tenths
          Gates,             \* regime reads: the multiplier of each agent, in percent
          Outcomes,          \* of a trade: [net, gross]
          BaseConfidence,    \* DEFAULT_PAPER_CONFIG.minConfidence, in percent
          VoteThreshold,     \* 0.6, as per mille times tenths
          MinSample,         \* MIN_BUCKET_SAMPLE
          CalibrationSample, \* MIN_CONFIDENCE_CALIBRATION_SAMPLE
          SymbolSample,      \* 4
          MaxTrades, MaxOpenTrades, MaxSaves, MaxDeploys, MaxRestarts   \* bounds

ASSUME EdgeAssumption ==
    /\ BaseWeight \in [Agents -> Nat] /\ IsFiniteSet(Agents)
    /\ \A a \in Agents : BaseWeight[a] >= 100
    /\ Gates \subseteq [Agents -> Nat] /\ Votes \subseteq -10..10
    /\ BaseConfidence \in 0..90 /\ VoteThreshold \in Nat
    /\ MaxOpenTrades \in Nat /\ MaxSaves \in Nat /\ MaxDeploys \in Nat
    /\ \A o \in Outcomes : o.net \in Int /\ o.gross \in Int
    /\ MinSample \in Nat \ {0} /\ CalibrationSample \in Nat /\ CalibrationSample >= MinSample /\ SymbolSample \in Nat \ {0}

VARIABLES open,      \* the broker's trades
          saving,    \* closes whose saveCloseTrade is under way: [trade, step, report]
          closed,    \* the closed rows of paper_trades, a bag
          learned,   \* what deriveEdge said last
          weights,   \* AGENT_WEIGHTS
          epoch,     \* STRATEGY_EPOCH of the code that runs; the older ones teach too
          overlapped,\* two saves were under way at one time, or one was cut short
          trades, restarts

edgeVars == <<open, saving, closed, learned, weights, epoch, overlapped, trades, restarts>>

Buckets == 0..4
Clamp(v, low, high) == IF v < low THEN low ELSE IF v > high THEN high ELSE v
Abs(v) == IF v < 0 THEN -v ELSE v

----------------------------------------------------------------------------
(* edge_report: how many trades of a kind, how many won, and their sums *)
Total(report, Of(_), Is(_)) ==
    SumFunction([t \in {u \in BagToSet(report) : Is(u)} |-> report[t] * Of(t)])
Row(report, Is(_)) ==
    [trades |-> Total(report, LAMBDA t : 1, Is),
     wins |-> Total(report, LAMBDA t : IF t.out.net > 0 THEN 1 ELSE 0, Is),
     net |-> Total(report, LAMBDA t : t.out.net, Is),
     gross |-> Total(report, LAMBDA t : t.out.gross, Is)]

(* The Wilson interval of the win rate lies on one side of one half (z = 1.96) *)
Proven(row) == 10000 * (2 * row.wins - row.trades) * (2 * row.wins - row.trades) > 38416 * row.trades

(* scale, in per mille.  The expectancies have the signs of the sums. *)
Factor(row) ==
    LET byWins == Clamp((2000 * row.wins) \div row.trades, 200, 2000)
        charged == IF row.gross > 0 /\ row.net <= 0 THEN byWins \div 2 ELSE byWins
        paid == IF row.net > 0 THEN (charged * 11) \div 10 ELSE charged
    IN  IF Proven(row) \/ row.trades >= 2 * MinSample THEN paid
        ELSE 1000 + ((paid - 1000) * row.trades) \div (2 * MinSample)
Scaled_AtOnce(row, base) ==
    IF row.trades = 0 THEN base ELSE (base * Clamp(Factor(row), 150, 2000)) \div 1000
Scaled(row, base) ==
    IF row.trades < MinSample THEN base ELSE (base * Clamp(Factor(row), 150, 2000)) \div 1000

AgentRow(report, a) == Row(report, LAMBDA t : a \in t.agents)
SymbolRow(report, s) == Row(report, LAMBDA t : t.symbol = s)
BucketRow(report, e, b) == Row(report, LAMBDA t : t.epoch = e /\ t.bucket = b)
Sample(report) == Total(report, LAMBDA t : 1, LAMBDA t : TRUE)
EpochSample(report, e) == Total(report, LAMBDA t : 1, LAMBDA t : t.epoch = e)

(* The lowest bucket of the running epoch that pays *)
CalibratedFloor(report, e) ==
    LET good == {b \in Buckets : /\ BucketRow(report, e, b).trades >= MinSample
                                 /\ BucketRow(report, e, b).net > 0}
    IN  IF EpochSample(report, e) < CalibrationSample \/ good = {} THEN BaseConfidence
        ELSE Max({BaseConfidence, 50 + 10 * Min(good)})

Suppressed(report) ==
    {s \in TradedSymbols :
        LET row == SymbolRow(report, s)
        IN  row.trades >= SymbolSample /\ row.net < 0 /\ 10 * row.wins < 4 * row.trades}
CostSuppressed(report) ==
    {s \in TradedSymbols \ Suppressed(report) :
        LET row == SymbolRow(report, s)
        IN  row.trades >= SymbolSample /\ row.gross > 0 /\ row.net <= 0}

DeriveEdge(report, e) ==
    [weights |-> [a \in Agents |-> Scaled(AgentRow(report, a), BaseWeight[a])],
     suppressed |-> Suppressed(report) \cup CostSuppressed(report),
     floor |-> CalibratedFloor(report, e),
     sample |-> Sample(report)]

----------------------------------------------------------------------------
(* combine: the vote, weighed by what was learned and by the regime *)
Weight(a, gate) == (weights[a] * gate[a]) \div 100
Net(vote, gate) == SumFunction([a \in Agents |-> vote[a] * Weight(a, gate)])
Panel(gate) == SumFunction([a \in Agents |-> Weight(a, gate)])
Passes(vote, gate) == Abs(Net(vote, gate)) > VoteThreshold
Confidence(vote, gate) == 50 + (50 * Abs(Net(vote, gate))) \div (10 * Panel(gate))
ConfBucket(confidence) == Clamp((confidence - 50) \div 10, 0, 4)
(* Every agent that said the side of the trade, gated out or not, is graded on it *)
Sided(vote, gate) == {a \in Agents : vote[a] * Net(vote, gate) > 0}

EdgeInit ==
    /\ open = {} /\ saving = {} /\ closed = EmptyBag /\ epoch = 1 /\ overlapped = FALSE
    /\ learned = DeriveEdge(EmptyBag, 1) /\ weights = BaseWeight
    /\ trades = 0 /\ restarts = 0

(* onProposal: suppressed symbols and confidences below the floor are not traded *)
Propose(s, vote, gate) ==
    /\ trades < MaxTrades /\ Cardinality(open) < MaxOpenTrades
    /\ Passes(vote, gate)
    /\ s \notin learned.suppressed /\ Confidence(vote, gate) >= learned.floor
    /\ \A t \in open : t.symbol # s
    /\ open' = open \cup {[no |-> trades, symbol |-> s, agents |-> Sided(vote, gate), epoch |-> epoch,
                           bucket |-> ConfBucket(Confidence(vote, gate))]}
    /\ trades' = trades + 1
    /\ UNCHANGED <<saving, closed, learned, weights, epoch, overlapped, restarts>>

CloseTrade(t, out) ==
    /\ t \in open /\ Cardinality(saving) < MaxSaves
    /\ open' = open \ {t}
    /\ saving' = saving \cup {[trade |-> [symbol |-> t.symbol, agents |-> t.agents, epoch |-> t.epoch,
                                          bucket |-> t.bucket, out |-> out],
                               no |-> t.no, step |-> "update"]}
    /\ overlapped' = (overlapped \/ saving # {})
    /\ UNCHANGED <<closed, learned, weights, epoch, trades, restarts>>

(* persistCloseTrade: UPDATE of the row, then the report *)
UpdateTrade(w) ==
    /\ w \in saving /\ w.step = "update"
    /\ closed' = closed (+) SetToBag({w.trade})
    /\ saving' = (saving \ {w}) \cup {[w EXCEPT !.step = "report"]}
    /\ UNCHANGED <<open, learned, weights, epoch, overlapped, trades, restarts>>

ReadReport(w) ==
    /\ w \in saving /\ w.step = "report"
    /\ saving' = (saving \ {w}) \cup {[trade |-> w.trade, no |-> w.no, step |-> "answer", report |-> closed]}
    /\ UNCHANGED <<open, closed, learned, weights, epoch, overlapped, trades, restarts>>

(* onReportUpdate: whatever answers last is learned; setAgentWeights *)
Learn(report) ==
    /\ learned' = DeriveEdge(report, epoch)
    /\ weights' = learned'.weights

ReportUpdate(w) ==
    /\ w \in saving /\ w.step = "answer"
    /\ Learn(w.report)
    /\ saving' = saving \ {w}
    /\ UNCHANGED <<open, closed, epoch, overlapped, trades, restarts>>

(* A save that fails is reported and forgotten *)
SaveFails(w) ==
    /\ w \in saving
    /\ saving' = saving \ {w} /\ overlapped' = TRUE
    /\ UNCHANGED <<open, closed, learned, weights, epoch, trades, restarts>>

(* The runner starts again, perhaps with new rules: the boot report is learned *)
BootLearned(e) ==
    /\ restarts < MaxRestarts /\ restarts' = restarts + 1
    /\ e \in {epoch, epoch + 1} /\ e <= 1 + MaxDeploys
    /\ epoch' = e
    /\ learned' = DeriveEdge(closed, e) /\ weights' = learned'.weights
    /\ saving' = {} /\ overlapped' = FALSE
    /\ UNCHANGED <<open, closed, trades>>

EdgeNext ==
    \/ \E s \in TradedSymbols, vote \in [Agents -> Votes], gate \in Gates : Propose(s, vote, gate)
    \/ \E t \in open, out \in Outcomes : CloseTrade(t, out)
    \/ \E w \in saving : UpdateTrade(w) \/ ReadReport(w) \/ ReportUpdate(w) \/ SaveFails(w)
    \/ \E e \in 1..(1 + MaxDeploys) : BootLearned(e)

EdgeSpec == EdgeInit /\ [][EdgeNext]_edgeVars

----------------------------------------------------------------------------
EdgeTypeOK ==
    /\ \A t \in open : t.symbol \in TradedSymbols /\ t.agents \subseteq Agents /\ t.bucket \in Buckets
    /\ learned.suppressed \subseteq TradedSymbols /\ learned.floor \in BaseConfidence..90
    /\ weights \in [Agents -> Nat] /\ epoch \in 1..(1 + MaxDeploys)
    /\ Sample(closed) <= trades

(* The threshold is raised only to where the running rules have traded, often enough
   and lately enough to say so: never to a confidence of a retired scale. *)
FloorIsMeasured ==
    learned.floor > BaseConfidence =>
       /\ EpochSample(closed, epoch) >= CalibrationSample
       /\ \E b \in Buckets : 50 + 10 * b = learned.floor /\ BucketRow(closed, epoch, b).trades >= MinSample

(* An agent is weighed otherwise than it began only on its own trades, enough of
   them, and never silenced or more than doubled. *)
WeightsAreEarned ==
    \A a \in Agents :
       /\ weights[a] # BaseWeight[a] => AgentRow(closed, a).trades >= MinSample
       /\ weights[a] > 0 /\ 100 * weights[a] >= 14 * BaseWeight[a] /\ weights[a] <= 2 * BaseWeight[a]

(* Saves one at a time leave nothing unlearned: what steers the votes is what the
   rows say. *)
LearnedIsCurrent == saving = {} /\ ~overlapped => learned = DeriveEdge(closed, epoch) /\ weights = learned.weights

(* A symbol that has been proven to lose is not traded again in the run that learned it. *)
SuppressedStaysOut == [][\A t \in open' \ open : t.symbol \notin Suppressed(closed) \/ saving # {} \/ overlapped]_edgeVars

(* Refuted, see README: overlapping saves may leave an older report learned;
   an agent that loses money on a good win rate is amplified; a silent panel or a
   suppressed market leaves nothing to trade, and nothing to learn otherwise from. *)
LastReportLearned == saving = {} => learned = DeriveEdge(closed, epoch)
LosersDamped == \A a \in Agents : AgentRow(closed, a).net < 0 /\ saving = {} => weights[a] <= BaseWeight[a]
TradingGoesOn ==
    \E s \in TradedSymbols \ learned.suppressed, vote \in [Agents -> -10..10], gate \in Gates :
       Passes(vote, gate) /\ Confidence(vote, gate) >= learned.floor

(* What the engine learns rests on enough trades of the running rules, follows the rows, and
   keeps a symbol that lost out of the market. *)
LearningIsSound ==
    [](EdgeTypeOK /\ FloorIsMeasured /\ WeightsAreEarned /\ LearnedIsCurrent) /\ SuppressedStaysOut

=============================================================================
