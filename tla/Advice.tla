-------------------------------- MODULE Advice --------------------------------
(***************************************************************************)
(* The suggested confidence gate (ShadowBook.getStats, shadow-book.ts):    *)
(* what the real trades earned and what the proposals would have earned    *)
(* that only the gate refused, swept over a ladder of thresholds; the      *)
(* panel advises the best of those with enough evidence.                   *)
(*                                                                         *)
(* Confidences are in percent and results in whole basis points.  Both     *)
(* lists of closed trades are capped, and a restart reads them back with   *)
(* the same caps.  The metric is the default one, the mean result.         *)
(***************************************************************************)
EXTENDS Integers, Sequences, FiniteSets, FiniteSetsExt, Functions

CONSTANTS
    Ladder,           \* SWEEP_THRESHOLDS, ascending
    Confidences, Earned, Reasons,   \* bounds: of a trade
    MinPool, MinPerThreshold,   \* minSamplesForRecommendation, minTradesPerThreshold
    MaxReal, MaxShadows,  \* 200 in paper-broker.ts; maxClosed
    NoAdvice

ASSUME AdviceAssumption ==
    /\ Ladder \in Seq(Nat) /\ \A i, j \in DOMAIN Ladder : i < j => Ladder[i] < Ladder[j]
    /\ Confidences \subseteq 0..100 /\ Earned \subseteq Int
    /\ "confidence" \in Reasons
    /\ {MinPool, MinPerThreshold, MaxReal, MaxShadows} \subseteq Nat \ {0}
    /\ NoAdvice \notin Nat \cup [threshold : Nat, trades : Nat, sum : Int]

VARIABLES real,     \* the broker's closed trades, oldest first
          shadows   \* the closed shadow trades, oldest first
adviceVars == <<real, shadows>>

----------------------------------------------------------------------------
(* getStats *)

(* The shadow trades that a threshold decides *)
ByTheGate == {i \in DOMAIN shadows : shadows[i].reason = "confidence"}
PoolSize == Len(real) + Cardinality(ByTheGate)

RealFrom(threshold) == {i \in DOMAIN real : real[i].confidence >= threshold}
RefusedFrom(threshold) == {i \in ByTheGate : shadows[i].confidence >= threshold}

SweepRow(threshold) ==
    LET traded == RealFrom(threshold)  refused == RefusedFrom(threshold)
    IN  [threshold |-> threshold, trades |-> Cardinality(traded) + Cardinality(refused),
         sum |-> SumFunction([i \in traded |-> real[i].bps]) + SumFunction([i \in refused |-> shadows[i].bps])]

(* By how much the mean of one row is above that of another *)
Lead(a, b) == a.sum * b.trades - b.sum * a.trades

Better_Fewer(row, current) ==
    \/ Lead(row, current) > 0
    \/ Lead(row, current) = 0 /\ row.trades < current.trades
(* A tie goes to the row with more trades, then to the stricter threshold *)
Better(row, current) ==
    \/ Lead(row, current) > 0
    \/ Lead(row, current) = 0 /\ row.trades > current.trades
    \/ Lead(row, current) = 0 /\ row.trades = current.trades /\ row.threshold > current.threshold

Supported(row) == row.trades >= MinPerThreshold

(* The best so far, row by row, of those that have the evidence *)
BestOf[n \in 0..Len(Ladder)] ==
    IF n = 0 THEN NoAdvice
    ELSE LET row == SweepRow(Ladder[n])  current == BestOf[n - 1]
         IN  IF Supported(row) /\ (current = NoAdvice \/ Better(row, current)) THEN row ELSE current
Best == IF PoolSize < MinPool THEN NoAdvice ELSE BestOf[Len(Ladder)]

recommendedThreshold == LET best == Best IN IF best = NoAdvice THEN NoAdvice ELSE best.threshold
samplesToTrust == Max({0, MinPool - PoolSize})

----------------------------------------------------------------------------

AdviceInit == real = <<>> /\ shadows = <<>>

(* A new trade comes last, and the oldest of a full list falls off *)
Kept(list, trade, cap) ==
    LET longer == Append(list, trade) IN IF Len(longer) > cap THEN Tail(longer) ELSE longer

(* closePosition *)
RealClosed(confidence, bps) ==
    /\ real' = Kept(real, [confidence |-> confidence, bps |-> bps], MaxReal)
    /\ UNCHANGED shadows

(* settle, of ShadowBook *)
ShadowClosed(reason, confidence, bps) ==
    /\ shadows' = Kept(shadows, [reason |-> reason, confidence |-> confidence, bps |-> bps], MaxShadows)
    /\ UNCHANGED real

(* An account is reset: the broker forgets its trades, the shadow book keeps its own *)
ForgetReal == real # <<>> /\ real' = <<>> /\ UNCHANGED shadows

AdviceNext ==
    \/ \E c \in Confidences, b \in Earned :
          RealClosed(c, b) \/ \E r \in Reasons : ShadowClosed(r, c, b)
    \/ ForgetReal

----------------------------------------------------------------------------

Samples(threshold) == Cardinality(RealFrom(threshold)) + Cardinality(RefusedFrom(threshold))

AdviceTypeOK ==
    /\ Len(real) <= MaxReal /\ Len(shadows) <= MaxShadows
    /\ recommendedThreshold \in Range(Ladder) \cup {NoAdvice}
    /\ recommendedThreshold # NoAdvice => samplesToTrust = 0 /\ Samples(recommendedThreshold) >= MinPerThreshold

Judged == {t \in Range(Ladder) : Samples(t) >= MinPerThreshold}

(* The walk up the ladder finds a threshold that no other with enough trades beats: none
   has a higher mean, none as high a mean and more trades, none as much of both and is
   stricter (getStats, reduce and its tie-break). *)
AdviceIsBest ==
    LET best == Best
    IN  best # NoAdvice =>
        \A other \in {SweepRow(t) : t \in Judged} :
            /\ Lead(best, other) >= 0
            /\ Lead(best, other) = 0 => best.trades >= other.trades
            /\ Lead(best, other) = 0 /\ best.trades = other.trades => best.threshold >= other.threshold

Grown == Len(shadows') > Len(shadows) \/ Len(real') > Len(real)
Newest == IF shadows' # shadows THEN shadows'[Len(shadows')] ELSE real'[Len(real')]

(* "A confidence threshold cannot make a halt, suppression rule, margin refusal or
   observer-mode trade executable": such a trade changes the advice only by pushing an
   older one off a full list. *)
OnlyTheGateIsJudged ==
    [][Len(shadows') > Len(shadows) /\ Newest.reason # "confidence"
         => recommendedThreshold' = recommendedThreshold]_adviceVars

AddsWin ==
    /\ Grown /\ (real' # real \/ Newest.reason = "confidence")
    /\ LET best == Best
       IN  /\ best # NoAdvice /\ Newest.confidence >= best.threshold
           /\ Newest.bps * best.trades > best.sum

(* A result above the mean of the suggested gate, from a trade that the gate lets pass,
   never lowers the gate: what was refused below it gains no more from it. *)
WinsNeverLoosen ==
    [][AddsWin => recommendedThreshold' >= recommendedThreshold]_adviceVars

(* ShadowPanel says "N more samples needed" while there is no advice: refuted, with
   N = 0, when the samples are there and none passes the lowest of the ladder often enough. *)
SamplesBringAdvice == samplesToTrust = 0 => recommendedThreshold # NoAdvice

AdviceSpec == AdviceInit /\ [][AdviceNext]_adviceVars

(* The advised gate is the best of the ladder, is judged by what the gate alone decided, and
   is never lowered by a result that speaks for it. *)
AdviceIsSound == [](AdviceTypeOK /\ AdviceIsBest) /\ OnlyTheGateIsJudged /\ WinsNeverLoosen

=============================================================================
