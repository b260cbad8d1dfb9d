------------------------------- MODULE Replay -------------------------------
(***************************************************************************)
(* Candle replay (src/src/lib/court/replay.ts, maker.ts) and the sessions  *)
(* that store the mirror of each closed shadow trade                       *)
(* (snapshot.server.ts) from candles fetched and cached by day             *)
(* (candles.server.ts).                                                    *)
(*                                                                         *)
(* Abstractions.  Prices are counted from the entry, which is the limit of *)
(* the maker order as well.  A minute has PerMinute quotes, so the current *)
(* candle is seen half done; the position was opened in the minute before  *)
(* the first.  Costs are constants of each leg and are left out.           *)
(***************************************************************************)
EXTENDS Integers, Sequences, FiniteSets, SequencesExt, FiniteSetsExt

CONSTANTS
    Prices,         \* bound: prices of a quote
    PerMinute,      \* bound: quotes of a minute
    StopAt, TargetAt,   \* distance of the brackets
    Through,        \* throughBps
    FillWindow,     \* fillWindowMs, in minutes
    Hold,           \* maxHoldMs, in minutes
    Day, Grace,     \* minutes of a cached day, and until it counts as closed
    Minutes,        \* bound: minutes of the feed
    Mirrorers,      \* court sessions that may overlap
    MaxFailures,    \* bound: downloads that fail
    Nothing

ASSUME ReplayAssumption ==
    /\ Prices \subseteq Int
    /\ {PerMinute, StopAt, TargetAt, FillWindow, Hold, Day, Minutes} \subseteq Nat \ {0}
    /\ {Through, Grace, MaxFailures} \subseteq Nat
    /\ FillWindow <= Hold /\ Hold > 1 /\ StopAt <= TargetAt
    /\ Nothing \notin [h : Prices, l : Prices, c : Prices, n : 1..PerMinute]

VARIABLES
    candles,    \* the closed candles
    current,    \* the candle of the current minute, [h, l, c, n quotes], or Nothing
    side,       \* the direction of the shadow trade
    done,       \* the shadow trade is closed
    mirror,     \* its row in court_shadow_mirror, or Nothing
    fetched,    \* per session: the row it is about to insert, or Nothing
    cache,      \* the cached days: [day, candles]
    failures

replayVars == <<candles, current, side, done, mirror, fetched, cache, failures>>

ReplayInit ==
    /\ candles = <<>> /\ current = Nothing
    /\ side \in {1, -1}
    /\ done = FALSE
    /\ mirror = Nothing
    /\ fetched = [s \in Mirrorers |-> Nothing]
    /\ cache = {}
    /\ failures = 0

-----------------------------------------------------------------------------
(* Candles *)

First(p) == [h |-> p, l |-> p, c |-> p, n |-> 1]
Extended(k, p) == [h |-> Max({k.h, p}), l |-> Min({k.l, p}), c |-> p, n |-> k.n + 1]

(* The candle of the current minute is served half done *)
Served == IF current = Nothing THEN candles ELSE Append(candles, current)

HitStop(dir, k) == IF dir > 0 THEN k.l <= -StopAt ELSE k.h >= StopAt
HitTarget(dir, k) == IF dir > 0 THEN k.h >= TargetAt ELSE k.l <= -TargetAt
FilledThrough(dir, k) == IF dir > 0 THEN k.l < -Through ELSE k.h > Through
TargetThrough(dir, k) == IF dir > 0 THEN k.h > TargetAt + Through ELSE k.l < -TargetAt - Through

FirstOf(hits) == IF hits = {} THEN 0 ELSE Min(hits)
Within(last, q) == IF last < Len(q) THEN last ELSE Len(q)

Result(reason, gross, at) == [reason |-> reason, gross |-> gross, at |-> at]
Stopped(i) == Result("stop", -StopAt, i)

(* At the first hit, the stop first; no time exit before a candle beyond the
   last of the holding window is there *)
Decide(dir, hits, last, q) ==
    IF hits # {} THEN IF HitStop(dir, q[FirstOf(hits)]) THEN Stopped(FirstOf(hits))
                      ELSE Result("target", TargetAt, FirstOf(hits))
    ELSE IF Len(q) > last THEN Result("time", dir * q[last].c, last)
    ELSE Nothing

(* walk, from candle start *)
WalkFrom(dir, start, last, q) ==
    Decide(dir, {n \in start..Within(last, q) : HitStop(dir, q[n]) \/ HitTarget(dir, q[n])}, last, q)

Walk(dir, q) == WalkFrom(dir, 1, Hold, q)

(* makerLeg: filled by a trade through the limit within the window; stop but
   not target on the candle of the fill; target only when traded through *)
Fill(dir, q) == FirstOf({n \in 1..Within(FillWindow, q) : FilledThrough(dir, q[n])})
Unfilled == Result("unfilled", 0, 0)

AfterFill(dir, f, q) ==
    LET last == f + Hold - 1 IN
    IF HitStop(dir, q[f]) THEN Stopped(f)
    ELSE Decide(dir, {n \in (f + 1)..Within(last, q) : HitStop(dir, q[n]) \/ TargetThrough(dir, q[n])}, last, q)

MakerLeg(dir, q) ==
    IF Fill(dir, q) # 0 THEN AfterFill(dir, Fill(dir, q), q)
    ELSE IF Len(q) >= FillWindow THEN Unfilled
    ELSE Nothing

(* replaySignal: judged when the trade and its mirror are decided *)
ReplaySignal(dir, q) ==
    IF Walk(dir, q) = Nothing \/ Walk(-dir, q) = Nothing THEN Nothing
    ELSE [real |-> Walk(dir, q).gross, mirror |-> Walk(-dir, q).gross]

(* replayMaker: an order that was not filled is no trade; a mirror that was
   not filled has neither gain nor cost *)
ReplayMaker(dir, q) ==
    IF MakerLeg(dir, q) \in {Nothing, Unfilled} THEN MakerLeg(dir, q)
    ELSE IF MakerLeg(-dir, q) = Nothing THEN Nothing
    ELSE [real |-> MakerLeg(dir, q).gross, mirror |-> MakerLeg(-dir, q).gross]

(* runMakerComparison, of a signal for each side: the trades it judges, and of
   the resting orders those whose fate is known and those that were filled *)
Sides == {1, -1}
Tried(q) == {dir \in Sides : ReplayMaker(dir, q) # Nothing}
Filled(q) == {dir \in Tried(q) : ReplayMaker(dir, q) # Unfilled}
Compared(q) ==
    {<<"taker", dir, ReplaySignal(dir, q)>> : dir \in {d \in Sides : ReplaySignal(d, q) # Nothing}}
        \cup {<<"maker", dir, ReplayMaker(dir, q)>> : dir \in Filled(q)}

(* mirrorGrossBps: the opposite trade from the same entry *)
Opposite_Same(dir) == dir
Opposite(dir) == -dir
MirrorGross(q) == LET r == Walk(Opposite(side), q) IN IF r = Nothing THEN Nothing ELSE r.gross

-----------------------------------------------------------------------------
(* The feed *)

Quote(p) ==
    LET k == IF current = Nothing THEN First(p) ELSE Extended(current, p) IN
    /\ Len(candles) < Minutes
    /\ candles' = IF k.n = PerMinute THEN Append(candles, k) ELSE candles
    /\ current' = IF k.n = PerMinute THEN Nothing ELSE k
    /\ UNCHANGED <<side, done, mirror, fetched, cache, failures>>

CloseShadow ==
    /\ ~done /\ Served # <<>>
    /\ done' = TRUE
    /\ UNCHANGED <<candles, current, side, mirror, fetched, cache, failures>>

(* candleSource: closed days from the cache, the rest from the exchange; a day
   is cached once it has been closed for a while *)
DayOf(i) == (i - 1) \div Day
Cached(d) == {e \in cache : e.day = d}
Get == [i \in DOMAIN Served |->
          IF Cached(DayOf(i)) = {} THEN Served[i]
          ELSE (CHOOSE e \in Cached(DayOf(i)) : TRUE).candles[i - DayOf(i) * Day]]

Immutable(d) == (d + 1) * Day + Grace <= Len(candles)

Downloaded == {[day |-> d, candles |-> SubSeq(Served, d * Day + 1, (d + 1) * Day)] :
                  d \in {x \in 0..DayOf(Len(Served)) : Immutable(x) /\ Cached(x) = {}}}

-----------------------------------------------------------------------------
(* mirrorShadowTrades *)

(* loadShadowNeedingMirror, then the candles: an undecided trade is left for
   the next session, a failed download counts as decided *)
Fetch(s) ==
    /\ done /\ mirror = Nothing /\ fetched[s] = Nothing
    /\ \/ /\ MirrorGross(Get) # Nothing
          /\ fetched' = [fetched EXCEPT ![s] = [ok |-> TRUE, gross |-> MirrorGross(Get)]]
          /\ cache' = cache \cup Downloaded
          /\ UNCHANGED failures
       \/ /\ MirrorGross(Get) = Nothing /\ Downloaded # {}
          /\ cache' = cache \cup Downloaded
          /\ UNCHANGED <<fetched, failures>>
       \/ /\ failures < MaxFailures
          /\ failures' = failures + 1
          /\ fetched' = [fetched EXCEPT ![s] = [ok |-> FALSE, gross |-> 0]]
          /\ UNCHANGED cache
    /\ UNCHANGED <<candles, current, side, done, mirror>>

(* saveShadowMirrors, ON CONFLICT DO NOTHING *)
Keep(old, new) == IF old = Nothing THEN new ELSE old

Save(s) ==
    /\ fetched[s] # Nothing
    /\ mirror' = Keep(mirror, fetched[s])
    /\ fetched' = [fetched EXCEPT ![s] = Nothing]
    /\ UNCHANGED <<candles, current, side, done, cache, failures>>

(* loadShadowTrades: the join, NULL when the trade has no mirror or none that
   could be replayed *)
Flipped == IF mirror = Nothing THEN Nothing ELSE IF mirror.ok THEN mirror.gross ELSE Nothing

ReplayNext ==
    \/ \E p \in Prices : Quote(p)
    \/ CloseShadow
    \/ \E s \in Mirrorers : Fetch(s) \/ Save(s)

ReplaySpec == ReplayInit /\ [][ReplayNext]_replayVars

-----------------------------------------------------------------------------

Candles == [h : Prices, l : Prices, c : Prices, n : 1..PerMinute]
Grosses == Prices \cup {-p : p \in Prices} \cup {-StopAt, TargetAt, 0}

ReplayTypeOK ==
    /\ candles \in Seq(Candles) /\ Len(candles) <= Minutes /\ current \in Candles \cup {Nothing}
    /\ mirror \in [ok : BOOLEAN, gross : Grosses] \cup {Nothing}
    /\ fetched \in [Mirrorers -> [ok : BOOLEAN, gross : Grosses] \cup {Nothing}]
    /\ \A e \in cache : Len(e.candles) <= Day

(* An outcome decided on closed candles stays when more candles arrive, for the
   taker, the maker and the order that was not filled: a comparison of entries
   run later judges the same trades alike, and counts the same orders filled. *)
OutcomeFinal ==
    [][candles' # candles =>
          /\ \A dir \in Sides :
                /\ Walk(dir, candles) # Nothing => Walk(dir, candles') = Walk(dir, candles)
                /\ MakerLeg(dir, candles) # Nothing => MakerLeg(dir, candles') = MakerLeg(dir, candles)
          /\ Compared(candles) \subseteq Compared(candles')
          /\ Tried(candles) \subseteq Tried(candles')
          /\ Filled(candles) = Filled(candles') \cap Tried(candles)]_replayVars

(* A trade and its mirror never both gain: the placebo has no free lunch. *)
NeverBothGain ==
    LET r == ReplaySignal(side, candles) IN
    r # Nothing => ~(r.real > 0 /\ r.mirror > 0)

(* The maker leg never beats a taker who got the limit price at the fill, but by
   what a close may lie beyond a target that was not traded through. *)
MakerNeverBetter ==
    LET f == Fill(side, candles) IN
    f # 0 /\ MakerLeg(side, candles) # Nothing =>
        MakerLeg(side, candles).gross <= WalkFrom(side, f, f + Hold - 1, candles).gross + Through

(* A cached day never holds a candle that was still moving. *)
CacheIsClosed ==
    \A e \in cache : \A i \in 1..Day :
        /\ i \in DOMAIN e.candles /\ e.day * Day + i \in DOMAIN candles
        /\ e.candles[i] = candles[e.day * Day + i]

(* What the court reads is the mirror's own result, or better than it when the
   last candle was still moving: the placebo is never helped. *)
MirrorNeverWorse ==
    LET final == Walk(-side, candles) IN
    Flipped # Nothing /\ final # Nothing => Flipped >= final.gross

(* Every closed shadow trade is mirrored once its window has passed. *)
MirrorArrives == done ~> mirror # Nothing

(* The replay never flatters: not both sides gain, a resting entry is never better than the
   quote, the candles are of closed days, and an outcome, once it comes, is final. *)
ReplayIsHonest ==
    /\ [](ReplayTypeOK /\ NeverBothGain /\ MakerNeverBetter /\ CacheIsClosed /\ MirrorNeverWorse)
    /\ OutcomeFinal /\ MirrorArrives

=============================================================================
