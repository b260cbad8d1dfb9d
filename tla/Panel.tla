-------------------------------- MODULE Panel --------------------------------
(***************************************************************************)
(* From a trade of the exchange to a proposal (swarm.ts handleTrade and    *)
(* combine, regime.ts): the window fills, the market is read, each agent   *)
(* speaks, and the voices are weighed by the regime and by what the edge   *)
(* model taught.                                                           *)
(*                                                                         *)
(* Confidences, gates and learned weights are in percent.  Prices are      *)
(* abstracted to what is computed from them: the features of the regime    *)
(* read and the verdict of each agent, at the ends of the range that the   *)
(* agent's formula has.  Buying and selling are mirror images, so Trend    *)
(* buys or is silent.  A trade moves one of them at a time, which reaches  *)
(* every combination.                                                      *)
(***************************************************************************)
EXTENDS Integers, FiniteSetsExt

CONSTANTS
    Efficiencies, Autocorrs, Expansions, Reaches, Vols,  \* features: what a window may show
    Lessons,      \* what setAgentWeights may be given
    MinSamples,   \* per agent, and for the regime: the trades it needs to speak
    RingSize,
    EvalInterval, MaxTradeTime

Voices == {"Trend", "MeanRev", "Breakout", "Meme"}
Styles == {"trend", "breakout", "meanRevert", "chop"}
BaseWeights == [a \in Voices |-> CASE a = "Trend" -> 100 [] a = "MeanRev" -> 80
                                   [] a = "Breakout" -> 90 [] a = "Meme" -> 110]

ASSUME PanelAssumption ==
    /\ Efficiencies \subseteq 0..100 /\ Autocorrs \subseteq -100..100
    /\ Expansions \cup Reaches \cup Vols \subseteq Nat
    /\ \A l \in Lessons : \A a \in Voices : l[a] \in 1..(2 * BaseWeights[a])   \* the factor of deriveEdge
    /\ \A l \in Lessons : l \in [Voices -> Nat]
    /\ RingSize \in Nat /\ MinSamples \in [Voices \cup {"regime"} -> 1..RingSize]
    /\ EvalInterval \in Nat \ {0} /\ MaxTradeTime \in Nat

VARIABLES samples,   \* trades in the window
          market,    \* the regime read of the window: [style, strength]
          voice,     \* per agent its side and confidence: -100..100
          taught,    \* AGENT_WEIGHTS
          lastEval,  \* exchange time of the last evaluation, 0 before
          proposed   \* what the last trade led to

panelVars == <<samples, market, voice, taught, lastEval, proposed>>

Clamp01(p) == IF p <= 0 THEN 0 ELSE IF p >= 100 THEN 100 ELSE p
Magnitude(v) == IF v < 0 THEN -v ELSE v

----------------------------------------------------------------------------
(* detectRegime: the largest score names the style, a tie goes to the first *)

TrendScore(f) == (Clamp01(((f.efficiency - 30) * 100) \div 40) * Clamp01(50 + 4 * f.autocorr)) \div 100
BreakoutScore(f) == (Clamp01(f.reach) * Clamp01(((f.expansion - 90) * 100) \div 60)) \div 100
RevertScore(f) ==
    (Clamp01((-f.autocorr * 100) \div 35) * Clamp01(((35 - f.efficiency) * 100) \div 30)
        * Clamp01((f.vol * 100) \div 8)) \div 10000

Read(f) ==
    LET t == TrendScore(f)
        b == BreakoutScore(f)
        r == RevertScore(f)
        best == Max({t, b, r})
        style == IF t = best THEN "trend" ELSE IF b = best THEN "breakout" ELSE "meanRevert"
    IN  [style |-> IF best >= 25 THEN style ELSE "chop", strength |-> best]

Unread == [style |-> "chop", strength |-> 0]
Features == [efficiency : Efficiencies, autocorr : Autocorrs, expansion : Expansions,
             reach : Reaches, vol : Vols]
Reads == {Read(f) : f \in Features}

(* REGIME_AGENT_GATES *)
Targets ==
    [trend      |-> [Trend |-> 130, MeanRev |-> 0,   Breakout |-> 100, Meme |-> 100],
     meanRevert |-> [Trend |-> 20,  MeanRev |-> 130, Breakout |-> 30,  Meme |-> 60],
     breakout   |-> [Trend |-> 100, MeanRev |-> 0,   Breakout |-> 140, Meme |-> 120],
     chop       |-> [Trend |-> 30,  MeanRev |-> 40,  Breakout |-> 30,  Meme |-> 50]]

(* agentGate, in hundredths of a percent; a weak read moves the panel a little *)
Gate_Unread(m, a) == 100 * 100
Gate(m, a) == 100 * 100 + (Targets[m.style][a] - 100) * Clamp01(35 + m.strength)

----------------------------------------------------------------------------
(* What an agent says once it has its samples: the least and the most confidence *)

Says(a) == CASE a = "Trend" -> {0, 25, 100}
             [] a = "MeanRev" -> {-100, -67, 0, 67, 100}
             [] a = "Breakout" -> {-100, -1, 0, 1, 100}
             [] a = "Meme" -> {-100, -42, 0, 42, 100}

(* Outside the window is away from its mean: a fade is never on the side of a breakout *)
Coherent(v) == v["MeanRev"] * v["Breakout"] <= 0

----------------------------------------------------------------------------
(* combine *)

Share(a) == (taught[a] * Gate(market, a)) \div 100
Speaks(v, a) == (v[a] * Share(a)) \div 100
Sum_(f(_)) == f("Trend") + f("MeanRev") + f("Breakout") + f("Meme")

NetVoice(v) == Sum_(LAMBDA a : Speaks(v, a))
Whole(v) == Sum_(Share)

Loud(v) == Magnitude(NetVoice(v)) > 6000
Certainty(v) == 5000 + (5000 * Magnitude(NetVoice(v))) \div Max({Whole(v), 1})

NoProposal == [side |-> "none", confidence |-> 0]
Combine(v) == IF Loud(v) THEN [side |-> IF NetVoice(v) > 0 THEN "BUY" ELSE "SELL",
                               confidence |-> Certainty(v)]
              ELSE NoProposal

Heard(n, a) == n >= MinSamples[a]

PanelInit ==
    /\ samples = 0 /\ market = Unread /\ voice = [a \in Voices |-> 0]
    /\ taught = BaseWeights /\ lastEval = 0 /\ proposed = NoProposal

Moved(n) ==
    \/ UNCHANGED <<market, voice>>
    \/ Heard(n, "regime") /\ market' \in Reads /\ UNCHANGED voice
    \/ /\ \E a \in Voices : Heard(n, a) /\ \E s \in Says(a) : voice' = [voice EXCEPT ![a] = s]
       /\ Coherent(voice') /\ UNCHANGED market

(* handleTrade: every trade moves the window, one per interval of exchange time is judged *)
HandleTrade(t) ==
    /\ UNCHANGED taught
    /\ samples' = Min({samples + 1, RingSize})
    /\ Moved(samples')
    /\ IF t - lastEval < EvalInterval THEN proposed' = NoProposal /\ UNCHANGED lastEval
       ELSE lastEval' = t /\ proposed' = Combine(voice)'

(* setAgentWeights, when the runtime has read the edge report *)
Teach(lesson) ==
    /\ taught' = lesson /\ taught' # taught
    /\ proposed' = NoProposal
    /\ UNCHANGED <<samples, market, voice, lastEval>>

PanelNext ==
    \/ \E t \in 1..MaxTradeTime : HandleTrade(t)
    \/ \E lesson \in Lessons : Teach(lesson)

----------------------------------------------------------------------------

PanelTypeOK ==
    /\ samples \in 0..RingSize
    /\ market.style \in Styles /\ market.strength \in 0..100
    /\ \A a \in Voices : voice[a] \in -100..100 /\ (voice[a] # 0 => Heard(samples, a))
    /\ lastEval \in 0..MaxTradeTime
    /\ proposed # NoProposal => proposed.confidence \in 5001..10000 /\ lastEval > 0

Agrees(a) == IF proposed.side = "BUY" THEN voice[a] > 0 ELSE voice[a] < 0

(* "A clean impulse: follow it, never fade it." (regime.ts): in a trend or a breakout no
   proposal has MeanRev alone on its side, down to the weakest read that bears the name,
   unless the edge model has nearly doubled its weight. *)
FadeNeverLeads ==
    proposed # NoProposal /\ market.style \in {"trend", "breakout"} /\ taught["MeanRev"] <= 140
        => \E a \in Voices \ {"MeanRev"} : Agrees(a)

(* "keeps the number monotone in conviction" (swarm.ts): without an agent that agrees the
   same side would not be more certain, and without one that dissents not less, whatever
   the regime and the learned weights have done to the panel. *)
SupportRaises ==
    proposed # NoProposal =>
        \A a \in Voices :
            LET without == [voice EXCEPT ![a] = 0]
            IN  (NetVoice(without) > 0) = (proposed.side = "BUY") =>
                    IF Agrees(a) THEN Certainty(without) <= proposed.confidence
                    ELSE Certainty(without) >= proposed.confidence

(* "No structure: only the volume-shock agent is allowed a (small) voice." (regime.ts):
   refuted, a read of no structure is blended towards the whole panel, and Trend, MeanRev
   or Breakout alone is loud enough. *)
ChopIsQuiet ==
    proposed # NoProposal /\ market.style = "chop" => Agrees("Meme")

PanelSpec == PanelInit /\ [][PanelNext]_panelVars

(* In a trend or a breakout the fading agent alone carries no trade, and no agent that agrees
   makes a proposal less certain (combine in swarm.ts, agentGate). *)
PanelOK == PanelTypeOK /\ FadeNeverLeads /\ SupportRaises

=============================================================================
