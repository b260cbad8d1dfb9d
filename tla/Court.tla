-------------------------------- MODULE Court --------------------------------
(***************************************************************************)
(* The Signal Court (src/src/lib/court): sessions of the runner, of the    *)
(* script and of two builds at once re-judge one hypothesis on the closed  *)
(* trades, append verdicts, and retire a convicted hypothesis whose edge   *)
(* has faded.                                                              *)
(*                                                                         *)
(* Abstractions.  A trade is the instant of its close and its net result.  *)
(* Confidence bounds are the sums they are bounds of; the placebo and the  *)
(* deflation, which look at episodes and at the other hypotheses, hold or  *)
(* fail freely at each judgement.  The deviation and the calibrated        *)
(* threshold of the decay watch are the constant Alarm.  The clock moves   *)
(* with each close and each row, so that no two instants are equal.        *)
(***************************************************************************)
EXTENDS Integers, Sequences, FiniteSetsExt

CONSTANTS
    Sessions,       \* sessions of the runner that may overlap
    Scripts,        \* runs of scripts/court.ts --write
    Rulebooks,      \* digests of the claim and the rules, one per build
    Results,        \* bound: net results of a trade
    MinTrades, Folds, MinPositiveFolds,
    MinTested, MinLive, Alarm,
    Window,         \* the last closes the signal replay still loads
    Casts,          \* bound: the parties that sit in one behaviour
    MaxCloses,      \* bound: trades closed, by cast
    MaxInFlight,    \* bound: closes whose write has not landed
    MaxVerdicts,    \* bound: rows of court_verdicts
    MaxAborts,      \* bound: sessions that fail, or fail to read the court's state
    Build,          \* the digest each party carries
    NoRules, Never

ASSUME CourtAssumption ==
    /\ Results \subseteq Int
    /\ {MinTrades, Folds, MinPositiveFolds, MinTested, MinLive, Window} \subseteq Nat \ {0}
    /\ {Alarm, MaxInFlight, MaxVerdicts, MaxAborts} \subseteq Nat
    /\ Casts \subseteq SUBSET (Sessions \cup Scripts) /\ MaxCloses \in [Casts -> Nat]
    /\ Build \in [Sessions \cup Scripts -> Rulebooks]
    /\ NoRules \notin Rulebooks /\ Never \notin Int

VARIABLES
    cast,
    rolling,    \* the docket of the hypothesis: the rolling replay, or the whole history
    now,
    trades,     \* closed trades, no two at one instant: [at, net, landed]
    registry,   \* the registered digest, or NoRules
    verdicts,   \* court_verdicts: [verdict, at, digest, by, knows], by judged_at
    session,    \* per session: [step, state, fresh, fades, knows]
    aborts

courtVars == <<cast, rolling, now, trades, registry, verdicts, session, aborts>>

Sitting == Sessions \cup Scripts

NoState == [since |-> Never, retired |-> Never]
Idle == [step |-> "idle", state |-> NoState, fresh |-> "NOT PROVEN",
         fades |-> FALSE, knows |-> 0]

CourtInit ==
    /\ cast \in Casts
    /\ rolling \in {FALSE, Window < MaxCloses[cast]}   \* else the same docket
    /\ now = 1
    /\ trades = {}
    /\ registry = NoRules
    /\ verdicts = <<>>
    /\ session = [s \in Sitting |-> Idle]
    /\ aborts = 0

-----------------------------------------------------------------------------
(* The charges *)

Total(q) == MapThenSumSet(LAMBDA t : t.net, q)
Place(q, t) == Cardinality({u \in q : u.at <= t.at})
Cut(q) == (Cardinality(q) * 3) \div 5
Holdout(q) == {t \in q : Place(q, t) > Cut(q)}
Fold(q, f) == {t \in q : /\ ((f - 1) * Cardinality(q)) \div Folds < Place(q, t)
                         /\ Place(q, t) <= (f * Cardinality(q)) \div Folds}
PositiveFolds(q) == Cardinality({f \in 1..Folds : Total(Fold(q, f)) > 0})
Trimmed(q) == Total(q) - Max({t.net : t \in q})
Wins(q) == Total({t \in q : t.net > 0})
Losses(q) == -Total({t \in q : t.net < 0})

Charges(q) ==
    /\ Cardinality(q) >= MinTrades
    /\ Total(q) > 0
    /\ Total(Holdout(q)) > 0
    /\ PositiveFolds(q) >= MinPositiveFolds
    /\ Trimmed(q) > 0
    /\ 10 * Wins(q) >= 13 * Losses(q)

Verdict(q, skilled) == IF Charges(q) /\ skilled THEN "CONVICTED" ELSE "NOT PROVEN"

-----------------------------------------------------------------------------
(* Parole *)

Run(q) == {i \in DOMAIN q : \A j \in i..Len(q) : q[j].verdict = "CONVICTED"}
Retirements(q) == {q[i].at : i \in {j \in DOMAIN q : q[j].verdict = "RETIRED"}}
Latest(times) == Max(times)

(* courtState *)
CourtState(q) ==
    [since   |-> IF Run(q) = {} THEN Never ELSE q[Min(Run(q))].at,
     retired |-> IF Retirements(q) = {} THEN Never ELSE Latest(Retirements(q))]

(* restartAfterRetirement *)
AfterRetirement_All(q, state) == q
AfterRetirement(q, state) ==
    {t \in q : state.retired = Never \/ t.at > state.retired}

Tested(q, since) == {t \in q : t.at < since}
Live(q, since) == {t \in q : t.at >= since}

(* DecayWatch.update: the one-sided CUSUM against half of the tested mean is
   over the threshold just when some run of live trades that ends there is;
   scaled by twice the number of tested trades to stay in the integers *)
Shortfall(tested, run) ==
    MapThenSumSet(LAMBDA t : Total(tested) - 2 * Cardinality(tested) * t.net, run)
RunOf(live, from, to) == {t \in live : from.at <= t.at /\ t.at <= to.at}

Watch(tested, live) ==
    \E from, to \in live :
        /\ Place(live, to) >= MinLive
        /\ Shortfall(tested, RunOf(live, from, to)) > 2 * Cardinality(tested) * Alarm

Faded(q, since) ==
    /\ since # Never
    /\ Cardinality(Tested(q, since)) >= MinTested
    /\ Watch(Tested(q, since), Live(q, since))

-----------------------------------------------------------------------------
(* Evidence *)

Landed == {t \in trades : t.landed}

Close(net) ==
    /\ Cardinality(trades) < MaxCloses[cast] /\ Cardinality(trades \ Landed) < MaxInFlight
    /\ trades' = trades \cup {[at |-> now, net |-> net, landed |-> FALSE]}
    /\ now' = now + 1
    /\ UNCHANGED <<cast, rolling, registry, verdicts, session, aborts>>

LandClose(t) ==
    /\ ~t.landed
    /\ trades' = (trades \ {t}) \cup {[t EXCEPT !.landed = TRUE]}
    /\ UNCHANGED <<cast, rolling, now, registry, verdicts, session, aborts>>

Loaded == {t \in Landed : rolling => Place(Landed, t) > Cardinality(Landed) - Window}

-----------------------------------------------------------------------------
(* A session *)

(* loadCourtState: a read that fails is an empty state, and the session goes on
   with it; the script has no such step and judges the whole history *)
Begin(s, read) ==
    /\ session[s].step = "idle"
    /\ ~read => s \in Sessions /\ aborts < MaxAborts
    /\ aborts' = IF read THEN aborts ELSE aborts + 1
    /\ session' = [session EXCEPT ![s] = [Idle EXCEPT !.step = "begun",
                      !.state = IF read /\ s \in Sessions THEN CourtState(verdicts) ELSE NoState,
                      !.knows = IF read THEN Cardinality(Retirements(verdicts)) ELSE 0]]
    /\ UNCHANGED <<cast, rolling, now, trades, registry, verdicts>>

(* recordVerdicts, ON CONFLICT (id) DO NOTHING *)
Enter(old, rules) == IF old = NoRules THEN rules ELSE old

(* judgeTrades or runSignalReplay, parole on what was loaded, and the entry of
   the hypothesis in the registry *)
Judge(s, skilled) ==
    /\ session[s].step = "begun"
    /\ LET seen == AfterRetirement(Loaded, session[s].state) IN
       \/ /\ Loaded = {}
          /\ session' = [session EXCEPT ![s] = Idle]
          /\ UNCHANGED registry
       \/ /\ Loaded # {}
          /\ session' = [session EXCEPT ![s] = [@ EXCEPT !.step = "judged", !.state = NoState,
                !.fresh = Verdict(seen, skilled), !.fades = Faded(seen, session[s].state.since)]]
          /\ registry' = Enter(registry, Build[s])
    /\ UNCHANGED <<cast, rolling, now, trades, verdicts, aborts>>

(* recordVerdicts: the digest read back decides; a row that repeats the last
   one changes nothing that is read from the history and is left out *)
Row(s, verdict) ==
    [verdict |-> verdict, at |-> now, digest |-> Build[s],
     by |-> IF s \in Scripts THEN "script" ELSE "runner", knows |-> session[s].knows]

Accepted(s) == registry = Build[s]
Repeats(verdict) == verdicts # <<>> /\ verdicts[Len(verdicts)].verdict = verdict /\ verdict # "RETIRED"

Write(s, verdict) ==
    \/ (~Accepted(s) \/ Repeats(verdict)) /\ UNCHANGED <<verdicts, now>>
    \/ /\ Accepted(s) /\ ~Repeats(verdict) /\ Len(verdicts) < MaxVerdicts
       /\ verdicts' = Append(verdicts, Row(s, verdict))
       /\ now' = now + 1

RecordVerdict_Convictions(s) ==
    /\ session[s].step = "judged"
    /\ IF session[s].fresh = "CONVICTED" THEN Write(s, "CONVICTED") ELSE UNCHANGED <<verdicts, now>>
    /\ session' = [session EXCEPT ![s] = IF s \in Sessions /\ session[s].fades
                                        THEN [@ EXCEPT !.step = "recorded"] ELSE Idle]
    /\ UNCHANGED <<cast, rolling, trades, registry, aborts>>
RecordVerdict(s) ==
    /\ session[s].step = "judged"
    /\ Write(s, session[s].fresh)
    /\ session' = [session EXCEPT ![s] = IF s \in Sessions /\ session[s].fades
                                        THEN [@ EXCEPT !.step = "recorded"] ELSE Idle]
    /\ UNCHANGED <<cast, rolling, trades, registry, aborts>>

(* retirementVerdict, written after the fresh verdict *)
Retire(s) ==
    /\ session[s].step = "recorded"
    /\ Write(s, "RETIRED")
    /\ session' = [session EXCEPT ![s] = Idle]
    /\ UNCHANGED <<cast, rolling, trades, registry, aborts>>

(* A failed call or the end of the process: the next session retries *)
Abort(s) ==
    /\ session[s].step \notin {"idle", "begun"} /\ aborts < MaxAborts
    /\ aborts' = aborts + 1
    /\ session' = [session EXCEPT ![s] = Idle]
    /\ UNCHANGED <<cast, rolling, now, trades, registry, verdicts>>

Sit(s) == \/ \E read \in BOOLEAN : Begin(s, read)
          \/ \E skilled \in BOOLEAN : Judge(s, skilled)
          \/ RecordVerdict(s) \/ Retire(s)

CourtNext ==
    \/ \E net \in Results : Close(net)
    \/ \E t \in trades : LandClose(t)
    \/ \E s \in cast : Sit(s) \/ Abort(s)

CourtSpec == CourtInit /\ [][CourtNext]_courtVars

-----------------------------------------------------------------------------

Instants == 0..(MaxCloses[cast] + MaxVerdicts + 1)
Words == {"CONVICTED", "NOT PROVEN", "RETIRED"}
CourtTrades == [at : Instants, net : Results, landed : BOOLEAN]
States == [since : Instants \cup {Never}, retired : Instants \cup {Never}]

CourtTypeOK ==
    /\ now \in Instants
    /\ trades \subseteq CourtTrades /\ Cardinality(trades) <= MaxCloses[cast]
    /\ registry \in Rulebooks \cup {NoRules}
    /\ verdicts \in Seq([verdict : Words, at : Instants, digest : Rulebooks,
                         by : {"runner", "script"}, knows : 0..MaxVerdicts])
    /\ Len(verdicts) <= MaxVerdicts
    /\ session \in [Sitting ->
          [step : {"idle", "begun", "judged", "recorded"},
           state : States, fresh : Words \ {"RETIRED"}, fades : BOOLEAN, knows : 0..MaxVerdicts]]

(* Every verdict stands under the digest its hypothesis was registered with,
   also when two builds with different rules register it at once. *)
OneRulebook == \A i \in DOMAIN verdicts : verdicts[i].digest = registry

ClosedBetween(from, to) == {at \in {t.at : t \in trades} : from < at /\ at < to}

(* A session of the runner that has read a retirement convicts again only on enough
   trades closed since it.  One that began before, or whose read of the court's state
   failed, may still convict on the trades that have just failed. *)
FreshEvidence ==
    \A i, j \in DOMAIN verdicts :
        LET old == verdicts[i]  new == verdicts[j] IN
        old.verdict = "RETIRED" /\ new.verdict = "CONVICTED" /\ new.by = "runner"
        /\ Cardinality(Retirements(SubSeq(verdicts, 1, i))) <= new.knows =>
            Cardinality(ClosedBetween(old.at, new.at)) >= MinTrades

(* No hypothesis is retired on the trades it was convicted on: enough were
   closed before a conviction and enough since. *)
RetiredOnLiveTrades ==
    \A i \in DOMAIN verdicts : verdicts[i].verdict = "RETIRED" =>
        \E j \in 1..(i - 1) :
            /\ verdicts[j].verdict = "CONVICTED"
            /\ Cardinality(ClosedBetween(0, verdicts[j].at)) >= MinTested
            /\ Cardinality(ClosedBetween(verdicts[j].at, verdicts[i].at)) >= MinLive

(* buildBoard *)
Surfaced == verdicts # <<>> /\ verdicts[Len(verdicts)].verdict = "CONVICTED"

Standing == Charges(AfterRetirement(Loaded, CourtState(verdicts)))

(* What the board surfaces is judged again: a conviction the evidence no longer
   supports does not stay the latest word while a build with the
   registered rules holds sessions. *)
StaleConvictionEnds ==
    Surfaced /\ (\E s \in cast \cap Sessions : Build[s] = registry) /\ ~Standing
        ~> ~Surfaced \/ Standing \/ Len(verdicts) = MaxVerdicts

(* parole.ts:7-8: "Only trades closed after retirement can convict it again";
   refuted by a session that began before the retirement or failed to read it. *)
NoFlipBack ==
    \A i, j \in DOMAIN verdicts :
        verdicts[i].verdict = "RETIRED" /\ verdicts[j].verdict = "CONVICTED" /\ i < j =>
            Cardinality(ClosedBetween(verdicts[i].at, verdicts[j].at)) >= MinTrades

(* A verdict is given on one rulebook and on trades of its own, and a retirement
   on live ones. *)
CourtOK == CourtTypeOK /\ OneRulebook /\ FreshEvidence /\ RetiredOnLiveTrades

=============================================================================
