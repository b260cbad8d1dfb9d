----------------------------- MODULE DeskProofs -----------------------------
(***************************************************************************)
(* The mirror of the paper book (BinanceMirror) never turns a position     *)
(* around and protects the first position of a symbol, for any symbols,    *)
(* trades, stop moves and failures: MirrorOK from the inductive MirrorInv. *)
(* The live traders of the dashboard (LiveTrade) account for every trade   *)
(* and every position without a stop: LiveOK from the inductive LiveInv.   *)
(* The price feed they follow (Swarm) keeps one socket for each chunk and  *)
(* never reports more feeds than it has: the inductive SwarmInv.           *)
(* The order-book feed (DepthFeed) shows whole books only, and an open     *)
(* socket is sent the hot symbols: the inductive DepthInv.                 *)
(***************************************************************************)
EXTENDS BinanceMirror, LiveTrade, Swarm, DepthFeed, SumTheorems, FiniteSetTheorems, TLAPS

Rec == [phase : {"idle", "next", "stop", "record", "positions", "sweep", "close"},
        snapshot : SUBSET Ids, left : SUBSET Ids, cur : Ids \cup Symbols \cup {None},
        seen : [Symbols -> Int], todo : SUBSET Symbols]
Venue == [net : Int, resting : SUBSET Ids, stop : 0..(MaxMoves + 1)]

MirrorTypes == TypeOK /\ rec \in Rec

TradesOf(s) == {id \in Traded : SymbolOf(id) = s}
Faces(id, n) == IF id \in Shorts THEN n < 0 ELSE n > 0
Faced(s, n) == n # 0 => \E id \in TradesOf(s) : Faces(id, n)

(* What the exchange holds of a symbol comes from a trade of that symbol *)
Owned(s, v) ==
    /\ v.resting \subseteq TradesOf(s)
    /\ v.stop # 0 => TradesOf(s) # {}
    /\ Faced(s, v.net)

(* Every task works on a trade that was dealt, and a sweep on a position it has seen *)
Dealt ==
    /\ \A s \in Symbols : book[s] # None => book[s] \in TradesOf(s)
    /\ \A id \in Ids : opening[id] # "none" \/ closing[id].phase # "none" \/ mirrors[id] # None
                          => id \in Traded
    /\ rec.snapshot \subseteq Traded /\ rec.left \subseteq Traded
    /\ rec.phase \in {"stop", "record"} => rec.cur \in Traded
    /\ rec.phase = "close" => rec.cur \in Symbols /\ rec.seen[rec.cur] # 0
    /\ \A s \in rec.todo : rec.seen[s] # 0
    /\ \A s \in Symbols : Faced(s, rec.seen[s])

OnExchange == \A s \in Symbols : Owned(s, venue[s])

Only(s, id) == TradesOf(s) = {id}

AtWork(s, id) ==
    \/ opening[id] = "stop"
    \/ rec.phase = "stop" /\ rec.cur = id
    \/ rec.phase = "close" /\ rec.cur = s

(* The only trade of a symbol, when nothing has failed: it is entered once, and without a
   stop only while a task is about to place one or to close the position *)
OneTrade(s, id) ==
    /\ venue[s].net \in {0, Side(id)} /\ rec.seen[s] \in {0, Side(id)}
    /\ opening[id] \in {"prepare", "market"} => venue[s].net = 0 /\ venue[s].resting = {}
    /\ opening[id] \in {"prepare", "market", "acked"} => mirrors[id] = None
    /\ id \in venue[s].resting => venue[s].net = 0 /\ opening[id] = "acked"
    /\ mirrors[id] # None /\ venue[s].net # 0 /\ venue[s].stop = 0 => AtWork(s, id)

FirstTrade == troubles = 0 => \A s \in Symbols, id \in Ids : Only(s, id) => OneTrade(s, id)

MirrorInv == MirrorTypes /\ Dealt /\ OnExchange /\ FirstTrade

-----------------------------------------------------------------------------
LEMMA SideValue == \A id : Side(id) \in Int /\ Side(id) \in {-1, 1} /\ -Side(id) \in {-1, 1}
<1> TAKE id
<1>1. CASE id \in Shorts
  <2>1. Side(id) = -1
    BY <1>1 DEF Side
  <2>2. \A x \in Int : x + 1 = 0 => -x = 1
    OBVIOUS
  <2>3. Side(id) \in Int /\ Side(id) + 1 = 0
    BY <2>1
  <2> QED BY <2>1, <2>2, <2>3
<1>2. CASE id \notin Shorts
  <2>1. Side(id) = 1
    BY <1>2 DEF Side
  <2> QED BY <2>1
<1> QED BY <1>1, <1>2

LEMMA SmallerOf ==
  ASSUME NEW x \in Int, NEW y \in Int
  PROVE  Min({x, y}) = IF x <= y THEN x ELSE y
  BY DEF Min

LEMMA VenueTypes ==
  ASSUME NEW v \in Venue
  PROVE  /\ Cancelled(v) \in Venue
         /\ \A side \in {-1, 1} : Entered(v, side) \in Venue
         /\ \A id \in Ids : [v EXCEPT !.resting = @ \cup {id}] \in Venue
         /\ \A stop \in 0..(MaxMoves + 1) : [v EXCEPT !.stop = stop] \in Venue
<1>1. Cancelled(v) \in Venue
  <2>1. 0 \in 0..(MaxMoves + 1) /\ {} \in SUBSET Ids
    BY MirrorAssumption
  <2> QED BY <2>1 DEF Cancelled, Venue
<1>2. \A side \in {-1, 1} : Entered(v, side) \in Venue
  BY DEF Entered, Venue
<1>3. \A id \in Ids : [v EXCEPT !.resting = @ \cup {id}] \in Venue
  BY DEF Venue
<1>4. \A stop \in 0..(MaxMoves + 1) : [v EXCEPT !.stop = stop] \in Venue
  BY DEF Venue
<1> QED BY <1>1, <1>2, <1>3, <1>4

(* A reduce-only order leaves less of the position, or nothing, and never turns it around *)
LEMMA Reducing ==
  ASSUME NEW v \in Venue, NEW side \in {-1, 1}, NEW qty \in Nat
  PROVE  /\ Reduced(v, side, qty) \in Venue
         /\ Reduced(v, side, qty).resting = v.resting
         /\ Reduced(v, side, qty).stop = v.stop
         /\ v.net = 0 => Reduced(v, side, qty).net = 0
         /\ v.net > 0 => Reduced(v, side, qty).net \in 0..v.net
         /\ v.net < 0 => -Reduced(v, side, qty).net \in 0..-v.net
         /\ v.net = -side /\ qty = 1 => Reduced(v, side, qty).net = 0
<1> DEFINE n == v.net  m == Magnitude(n)
<1>1. n \in Int /\ m \in Nat /\ (n >= 0 => m = n) /\ (n <= 0 => m = -n)
  BY DEF Venue, Magnitude
<1>2. Min({qty, m}) = IF qty <= m THEN qty ELSE m
  BY <1>1, SmallerOf
<1>3. CASE n * side >= 0
  <2>1. Reduced(v, side, qty) = v
    BY <1>3 DEF Reduced
  <2>2. ~(n = -side)
    BY <1>1, <1>3
  <2> QED BY <1>1, <2>1, <2>2
<1>4. CASE ~(n * side >= 0)
  <2> DEFINE w == [v EXCEPT !.net = n + side * Min({qty, m})]
  <2>1. Reduced(v, side, qty) = w
    BY <1>4 DEF Reduced
  <2>2. w.net = n + side * (IF qty <= m THEN qty ELSE m) /\ w.resting = v.resting /\ w.stop = v.stop
    BY <1>2 DEF Venue
  <2>3. (side = 1 /\ n < 0) \/ (side = -1 /\ n > 0)
    BY <1>1, <1>4
  <2>4. w.net \in Int
    BY <1>1, <2>2, <2>3
  <2>5. w \in Venue
    BY <2>4, <2>2, <1>2 DEF Venue
  <2>6. CASE side = 1 /\ n < 0
    <3>1. w.net = n + (IF qty <= m THEN qty ELSE m)
      BY <2>6, <2>2, <1>1
    <3> QED BY <1>1, <2>1, <2>2, <2>5, <2>6, <3>1
  <2>7. CASE side = -1 /\ n > 0
    <3>1. w.net = n - (IF qty <= m THEN qty ELSE m)
      BY <2>7, <2>2, <1>1
    <3> QED BY <1>1, <2>1, <2>2, <2>5, <2>7, <3>1
  <2> QED BY <2>3, <2>6, <2>7
<1> QED BY <1>3, <1>4

(* What a request leaves behind *)
LEMMA Requests ==
  ASSUME venue \in [Symbols -> Venue], troubles \in 0..MaxTroubles,
         NEW s \in Symbols, NEW after \in Venue, NEW ok \in BOOLEAN, Call(s, after, ok)
  PROVE  /\ venue' \in [Symbols -> Venue] /\ troubles' \in 0..MaxTroubles
         /\ \A t \in Symbols : venue'[t] = venue[t] \/ (t = s /\ venue'[t] = after)
         /\ troubles' = 0 => ok /\ troubles = 0 /\ venue' = [venue EXCEPT ![s] = after]
<1>1. CASE ok
  BY <1>1 DEF Call
<1>2. CASE ~ok
  <2>1. troubles' = troubles + 1 /\ troubles' \in 1..MaxTroubles
    BY <1>2, MirrorAssumption DEF Call
  <2>2. venue' = venue \/ venue' = [venue EXCEPT ![s] = after]
    BY <1>2 DEF Call
  <2> QED BY <2>1, <2>2, MirrorAssumption
<1> QED BY <1>1, <1>2

LEMMA OwnedCall ==
  ASSUME venue \in [Symbols -> Venue], troubles \in 0..MaxTroubles, OnExchange, UNCHANGED trade,
         NEW s \in Symbols, NEW after \in Venue, NEW ok \in BOOLEAN, Call(s, after, ok),
         Owned(s, after)
  PROVE  OnExchange'
<1>1. \A t \in Symbols : venue'[t] = venue[t] \/ (t = s /\ venue'[t] = after)
  BY Requests
<1>2. \A t \in Symbols : Owned(t, venue[t])
  BY DEF OnExchange
<1>3. \A t \in Symbols : Owned(t, venue'[t])
  BY <1>1, <1>2
<1> QED BY <1>3 DEF OnExchange, Owned, Faced, TradesOf, Traded, SymbolOf

LEMMA OwnedAfter ==
  ASSUME NEW s, NEW v \in Venue, Owned(s, v)
  PROVE  /\ Owned(s, Cancelled(v))
         /\ \A id \in TradesOf(s) : Owned(s, [v EXCEPT !.resting = @ \cup {id}])
         /\ \A id \in TradesOf(s), stop \in 0..(MaxMoves + 1) : Owned(s, [v EXCEPT !.stop = stop])
         /\ \A id \in TradesOf(s) : Owned(s, Entered(v, Side(id)))
         /\ \A side \in {-1, 1}, qty \in Nat : Owned(s, Reduced(v, side, qty))
<1>1. Owned(s, Cancelled(v)) /\ \A id \in TradesOf(s) : Owned(s, [v EXCEPT !.resting = @ \cup {id}])
  BY DEF Owned, Cancelled, Venue
<1>2. \A id \in TradesOf(s), stop \in 0..(MaxMoves + 1) : Owned(s, [v EXCEPT !.stop = stop])
  BY DEF Owned, Venue
<1>3. ASSUME NEW id \in TradesOf(s) PROVE Owned(s, Entered(v, Side(id)))
  <2>1. v.net \in Int /\ Entered(v, Side(id)).net = v.net + Side(id)
    BY DEF Entered, Venue
  <2>2. Entered(v, Side(id)).resting = v.resting /\ Entered(v, Side(id)).stop = v.stop
    BY DEF Entered, Venue
  <2>3. Faced(s, v.net + Side(id))
    BY <2>1 DEF Faced, Faces, Owned, Side
  <2> QED BY <2>1, <2>2, <2>3 DEF Owned
<1>4. ASSUME NEW side \in {-1, 1}, NEW qty \in Nat PROVE Owned(s, Reduced(v, side, qty))
  <2>1. v.net \in Int
    BY DEF Venue
  <2> DEFINE n == Reduced(v, side, qty).net
  <2>2. /\ v.net = 0 => n = 0
        /\ v.net > 0 => n \in 0..v.net
        /\ v.net < 0 => -n \in 0..-v.net
        /\ n \in Int
    BY Reducing DEF Venue
  <2> HIDE DEF n
  <2>3. Faced(s, v.net)
    BY DEF Owned
  <2>4. Faced(s, n)
    BY <2>1, <2>2, <2>3 DEF Faced, Faces
  <2>5. Faced(s, Reduced(v, side, qty).net)
    BY <2>4 DEF n
  <2> QED BY <2>5, Reducing DEF Owned
<1> QED BY <1>1, <1>2, <1>3, <1>4

-----------------------------------------------------------------------------
(* What the invariant says of one trade and its symbol *)

LEMMA OfTrade ==
  ASSUME MirrorInv, NEW id \in Traded
  PROVE  /\ SymbolOf(id) \in Symbols /\ id \in TradesOf(SymbolOf(id)) /\ id \in Ids
         /\ trade[id].stop \in 1..(MaxMoves + 1)
         /\ venue[SymbolOf(id)] \in Venue /\ Owned(SymbolOf(id), venue[SymbolOf(id)])
<1>1. trade[id] \in [symbol : Symbols, stop : 1..(MaxMoves + 1)]
  BY DEF MirrorInv, MirrorTypes, TypeOK, Traded
<1> QED BY <1>1 DEF MirrorInv, MirrorTypes, TypeOK, Traded, SymbolOf, TradesOf, Venue, OnExchange

LEMMA OfSymbol ==
  ASSUME MirrorInv, NEW s \in Symbols
  PROVE  venue[s] \in Venue /\ Owned(s, venue[s])
  BY DEF MirrorInv, MirrorTypes, TypeOK, Venue, OnExchange

LEMMA SameTrades ==
  ASSUME UNCHANGED trade
  PROVE  /\ Traded' = Traded
         /\ \A s : TradesOf(s)' = TradesOf(s)
         /\ \A s, n : Faced(s, n)' = Faced(s, n)
         /\ \A s, id : Only(s, id)' = Only(s, id)
         /\ \A s, v : Owned(s, v)' = Owned(s, v)
  BY DEF Traded, SymbolOf, TradesOf, Faced, Only, Owned

(* A task's request about the symbol of its trade *)
LEMMA Requested ==
  ASSUME MirrorInv, UNCHANGED trade, NEW s \in Symbols, NEW after \in Venue, NEW ok \in BOOLEAN,
         Call(s, after, ok), Owned(s, after)
  PROVE  /\ OnExchange'
         /\ venue' \in [Symbols -> Venue] /\ troubles' \in 0..MaxTroubles
         /\ troubles' = 0 => ok /\ troubles = 0 /\ venue' = [venue EXCEPT ![s] = after]
<1>1. venue \in [Symbols -> Venue] /\ troubles \in 0..MaxTroubles /\ OnExchange
  BY DEF MirrorInv, MirrorTypes, TypeOK, Venue
<1> QED BY <1>1, Requests, OwnedCall

-----------------------------------------------------------------------------
(* mirrorOpen *)

LEMMA TrackStep == ASSUME MirrorInv, NEW id \in Ids, Track(id) PROVE MirrorInv'
<1> DEFINE s == SymbolOf(id)
<1>1. opening[id] = "acked" /\ id \in Traded /\ UNCHANGED <<paper, closing, rec, armed, control>>
  BY DEF Track, Resume, OnlyOpening, MirrorInv, Dealt
<1>2. s \in Symbols /\ id \in TradesOf(s) /\ venue[s] \in Venue /\ Owned(s, venue[s])
  BY <1>1, OfTrade
<1>3. PICK ok \in BOOLEAN : Call(s, Cancelled(venue[s]), ok) /\ Goto(id, IF ok THEN "stop" ELSE "none")
  BY DEF Track
<1>4. Cancelled(venue[s]) \in Venue /\ Owned(s, Cancelled(venue[s]))
  BY <1>2, VenueTypes, OwnedAfter
<1>5. /\ OnExchange'
      /\ venue' \in [Symbols -> Venue] /\ troubles' \in 0..MaxTroubles
      /\ troubles' = 0 => ok /\ troubles = 0 /\ venue' = [venue EXCEPT ![s] = Cancelled(venue[s])]
  BY <1>1, <1>2, <1>3, <1>4, Requested DEF paper
<1>6. mirrors' = [mirrors EXCEPT ![id] = 0] /\ opening' = [opening EXCEPT ![id] = IF ok THEN "stop" ELSE "none"]
  BY <1>3 DEF Track, Goto
<1>7. MirrorTypes'
  BY <1>1, <1>5, <1>6, MirrorAssumption DEF MirrorInv, MirrorTypes, TypeOK, Phase, paper, Venue, Rec
<1>8. Dealt'
  BY <1>1, <1>6, SameTrades DEF MirrorInv, MirrorTypes, TypeOK, Dealt, paper
<1>9. FirstTrade'
  <2> SUFFICES ASSUME troubles' = 0, NEW t \in Symbols, NEW i \in Ids, Only(t, i)' PROVE OneTrade(t, i)'
    BY DEF FirstTrade
  <2>1. Only(t, i) /\ OneTrade(t, i)
    BY <1>1, <1>5, SameTrades DEF paper, MirrorInv, FirstTrade
  <2>2. t = s <=> i = id
    BY <1>1, <1>2, <2>1 DEF Only, TradesOf
  <2>3. Cancelled(venue[s]).net = venue[s].net /\ Cancelled(venue[s]).resting = {}
    BY <1>2 DEF Cancelled, Venue
  <2>4. venue'[t].net = venue[t].net /\ (t # s => venue'[t] = venue[t]) /\ (t = s => venue'[t].resting = {})
    BY <1>5, <2>3 DEF MirrorInv, MirrorTypes, TypeOK
  <2> QED BY <1>1, <1>5, <1>6, <2>1, <2>2, <2>4 DEF OneTrade, AtWork, MirrorInv, MirrorTypes, TypeOK
<1> QED BY <1>5, <1>7, <1>8, <1>9 DEF MirrorInv

(* An entry at the market: the first one of an only trade *)
LEMMA MarketStep ==
  ASSUME MirrorInv, NEW id \in Ids, opening[id] \in {"prepare", "market"}, MarketOrder(id),
         OnlyOpening, UNCHANGED mirrors
  PROVE  MirrorInv'
<1> DEFINE s == SymbolOf(id)  after == Entered(venue[s], Side(id))
<1>1. id \in Traded /\ UNCHANGED <<paper, closing, rec, armed, control>>
  BY DEF OnlyOpening, MirrorInv, Dealt
<1>2. s \in Symbols /\ id \in TradesOf(s) /\ venue[s] \in Venue /\ Owned(s, venue[s])
  BY <1>1, OfTrade
<1>3. PICK ok \in BOOLEAN : Call(s, after, ok) /\ Goto(id, IF ok THEN "acked" ELSE "none")
  BY DEF MarketOrder
<1>4. after \in Venue /\ Owned(s, after)
  BY <1>2, VenueTypes, OwnedAfter, SideValue
<1>5. /\ OnExchange'
      /\ venue' \in [Symbols -> Venue] /\ troubles' \in 0..MaxTroubles
      /\ troubles' = 0 => ok /\ troubles = 0 /\ venue' = [venue EXCEPT ![s] = after]
  BY <1>1, <1>2, <1>3, <1>4, Requested DEF paper
<1>6. opening' = [opening EXCEPT ![id] = IF ok THEN "acked" ELSE "none"]
  BY <1>3 DEF Goto
<1>7. MirrorTypes'
  BY <1>1, <1>5, <1>6, MirrorAssumption DEF MirrorInv, MirrorTypes, TypeOK, Phase, paper, Venue, Rec
<1>8. Dealt'
  BY <1>1, <1>6, SameTrades DEF MirrorInv, MirrorTypes, TypeOK, Dealt, paper
<1>9. FirstTrade'
  <2> SUFFICES ASSUME troubles' = 0, NEW t \in Symbols, NEW i \in Ids, Only(t, i)' PROVE OneTrade(t, i)'
    BY DEF FirstTrade
  <2>1. Only(t, i) /\ OneTrade(t, i)
    BY <1>1, <1>5, SameTrades DEF paper, MirrorInv, FirstTrade
  <2>2. t = s <=> i = id
    BY <1>1, <1>2, <2>1 DEF Only, TradesOf
  <2>3. after.net = venue[s].net + Side(id) /\ after.resting = venue[s].resting /\ after.stop = venue[s].stop
    BY <1>2 DEF Entered, Venue
  <2>4. (t # s => venue'[t] = venue[t]) /\ (t = s => venue'[t] = after)
    BY <1>5 DEF MirrorInv, MirrorTypes, TypeOK
  <2>5. Side(id) \in Int
    BY SideValue
  <2> QED BY <1>1, <1>5, <1>6, <2>1, <2>2, <2>3, <2>4, <2>5 DEF OneTrade, AtWork, MirrorInv, MirrorTypes, TypeOK
<1> QED BY <1>5, <1>7, <1>8, <1>9 DEF MirrorInv

(* Only the place in mirrorOpen changes *)
LEMMA GotoStep ==
  ASSUME MirrorInv, NEW id \in Traded, NEW phase \in {"none", "market"}, Goto(id, phase),
         opening[id] \in {"prepare", "market"},
         OnlyOpening, UNCHANGED <<mirrors, venue>>,
         UNCHANGED troubles \/ (troubles < MaxTroubles /\ troubles' = troubles + 1)
  PROVE  MirrorInv'
<1>1. opening' = [opening EXCEPT ![id] = phase] /\ UNCHANGED <<paper, closing, rec, armed, control>>
  BY DEF Goto, OnlyOpening
<1>2. troubles' \in 0..MaxTroubles /\ (troubles' = 0 => UNCHANGED troubles)
  BY MirrorAssumption DEF MirrorInv, MirrorTypes, TypeOK
<1>3. MirrorTypes'
  BY <1>1, <1>2 DEF MirrorInv, MirrorTypes, TypeOK, Phase, paper, Rec
<1>4. Dealt' /\ OnExchange'
  BY <1>1, SameTrades DEF MirrorInv, MirrorTypes, TypeOK, Dealt, OnExchange, paper
<1>5. FirstTrade'
  <2> SUFFICES ASSUME troubles' = 0, NEW t \in Symbols, NEW i \in Ids, Only(t, i)' PROVE OneTrade(t, i)'
    BY DEF FirstTrade
  <2>1. Only(t, i) /\ OneTrade(t, i) /\ UNCHANGED troubles
    BY <1>1, <1>2, SameTrades DEF paper, MirrorInv, FirstTrade
  <2>2. opening' \in [Ids -> Phase] /\ opening'[i] = IF i = id THEN phase ELSE opening[i]
    BY <1>1 DEF MirrorInv, MirrorTypes, TypeOK, Phase
  <2> QED BY <1>1, <2>1, <2>2 DEF OneTrade, AtWork
<1> QED BY <1>3, <1>4, <1>5 DEF MirrorInv

LEMMA SubmitStep == ASSUME MirrorInv, NEW id \in Ids, Submit(id) PROVE MirrorInv'
<1> DEFINE s == SymbolOf(id)  after == [venue[s] EXCEPT !.resting = @ \cup {id}]
<1>1. /\ opening[id] = "prepare" /\ id \in Traded /\ UNCHANGED mirrors
      /\ OnlyOpening /\ UNCHANGED <<paper, closing, rec, armed, control>>
  BY DEF Submit, Resume, OnlyOpening, MirrorInv, Dealt
<1>2. CASE troubles < MaxTroubles /\ troubles' = troubles + 1 /\ Goto(id, "none") /\ UNCHANGED venue
  BY <1>1, <1>2, GotoStep
<1>3. CASE MarketOrder(id)
  BY <1>1, <1>3, MarketStep
<1>4. CASE Goto(id, "market") /\ UNCHANGED <<venue, troubles>>
  BY <1>1, <1>4, GotoStep
<1>5. CASE \E ok \in BOOLEAN : Call(s, after, ok) /\ Goto(id, IF ok THEN "acked" ELSE "market")
  <2>2. s \in Symbols /\ id \in TradesOf(s) /\ venue[s] \in Venue /\ Owned(s, venue[s])
    BY <1>1, OfTrade
  <2>3. PICK ok \in BOOLEAN : Call(s, after, ok) /\ Goto(id, IF ok THEN "acked" ELSE "market")
    BY <1>5
  <2>4. after \in Venue /\ Owned(s, after)
    BY <2>2, VenueTypes, OwnedAfter
  <2>5. /\ OnExchange'
        /\ venue' \in [Symbols -> Venue] /\ troubles' \in 0..MaxTroubles
        /\ troubles' = 0 => ok /\ troubles = 0 /\ venue' = [venue EXCEPT ![s] = after]
    BY <1>1, <2>2, <2>3, <2>4, Requested DEF paper
  <2>6. opening' = [opening EXCEPT ![id] = IF ok THEN "acked" ELSE "market"]
    BY <2>3 DEF Goto
  <2>7. MirrorTypes'
    BY <1>1, <2>5, <2>6, MirrorAssumption DEF MirrorInv, MirrorTypes, TypeOK, Phase, paper, Venue, Rec
  <2>8. Dealt'
    BY <1>1, <2>6, SameTrades DEF MirrorInv, MirrorTypes, TypeOK, Dealt, paper
  <2>9. FirstTrade'
    <3> SUFFICES ASSUME troubles' = 0, NEW t \in Symbols, NEW i \in Ids, Only(t, i)' PROVE OneTrade(t, i)'
      BY DEF FirstTrade
    <3>1. Only(t, i) /\ OneTrade(t, i)
      BY <1>1, <2>5, SameTrades DEF paper, MirrorInv, FirstTrade
    <3>2. t = s <=> i = id
      BY <1>1, <2>2, <3>1 DEF Only, TradesOf
    <3>3. after.net = venue[s].net /\ after.stop = venue[s].stop
      BY <2>2 DEF Venue
    <3>4. (t # s => venue'[t] = venue[t]) /\ (t = s => venue'[t] = after)
      BY <2>5 DEF MirrorInv, MirrorTypes, TypeOK
    <3> QED BY <1>1, <2>5, <2>6, <3>1, <3>2, <3>3, <3>4 DEF OneTrade, AtWork, MirrorInv, MirrorTypes, TypeOK
  <2> QED BY <2>5, <2>7, <2>8, <2>9 DEF MirrorInv
<1> QED BY <1>2, <1>3, <1>4, <1>5 DEF Submit

LEMMA FallbackStep == ASSUME MirrorInv, NEW id \in Ids, Fallback(id) PROVE MirrorInv'
<1>1. opening[id] = "market" /\ id \in Traded /\ UNCHANGED mirrors /\ OnlyOpening
  BY DEF Fallback, Resume, MirrorInv, Dealt
<1>2. CASE Goto(id, "none") /\ UNCHANGED <<venue, troubles>>
  BY <1>1, <1>2, GotoStep
<1>3. CASE MarketOrder(id)
  BY <1>1, <1>3, MarketStep
<1> QED BY <1>2, <1>3 DEF Fallback

(* syncBrackets places the stop, for mirrorOpen or for reconcile *)
LEMMA BracketCall ==
  ASSUME MirrorInv, UNCHANGED trade, NEW id \in Traded, NEW ok \in BOOLEAN, PlaceBrackets(id, ok)
  PROVE  /\ OnExchange'
         /\ venue' \in [Symbols -> Venue] /\ troubles' \in 0..MaxTroubles
         /\ troubles' = 0 =>
              /\ ok /\ troubles = 0
              /\ \A t \in Symbols :
                    /\ venue'[t].net = venue[t].net /\ venue'[t].resting = venue[t].resting
                    /\ t # SymbolOf(id) => venue'[t] = venue[t]
                    /\ t = SymbolOf(id) => venue'[t].stop # 0
<1> DEFINE s == SymbolOf(id)  after == [venue[s] EXCEPT !.stop = trade[id].stop]
<1>1. s \in Symbols /\ id \in TradesOf(s) /\ venue[s] \in Venue /\ Owned(s, venue[s])
  BY OfTrade
<1>2. trade[id].stop \in 0..(MaxMoves + 1) /\ trade[id].stop # 0
  BY OfTrade, MirrorAssumption
<1>3. after \in Venue /\ Owned(s, after)
  BY <1>1, <1>2, VenueTypes, OwnedAfter
<1>4. /\ OnExchange'
      /\ venue' \in [Symbols -> Venue] /\ troubles' \in 0..MaxTroubles
      /\ troubles' = 0 => ok /\ troubles = 0 /\ venue' = [venue EXCEPT ![s] = after]
  BY <1>1, <1>3, Requested DEF PlaceBrackets
<1>5. after.net = venue[s].net /\ after.resting = venue[s].resting /\ after.stop = trade[id].stop
  BY <1>1 DEF Venue
<1> QED BY <1>1, <1>2, <1>4, <1>5 DEF MirrorInv, MirrorTypes, TypeOK

LEMMA OpenBracketsStep == ASSUME MirrorInv, NEW id \in Ids, OpenBrackets(id) PROVE MirrorInv'
<1>1. opening[id] = "stop" /\ id \in Traded /\ UNCHANGED <<paper, mirrors, closing, rec, armed, control>>
  BY DEF OpenBrackets, Resume, OnlyOpening, MirrorInv, Dealt
<1>3. PICK ok \in BOOLEAN : PlaceBrackets(id, ok) /\ Goto(id, IF ok THEN "record" ELSE "none")
  BY DEF OpenBrackets
<1>5. /\ OnExchange'
      /\ venue' \in [Symbols -> Venue] /\ troubles' \in 0..MaxTroubles
      /\ troubles' = 0 =>
           /\ ok /\ troubles = 0
           /\ \A t \in Symbols :
                 /\ venue'[t].net = venue[t].net /\ venue'[t].resting = venue[t].resting
                 /\ t # SymbolOf(id) => venue'[t] = venue[t]
                 /\ t = SymbolOf(id) => venue'[t].stop # 0
  BY <1>1, <1>3, BracketCall DEF paper
<1>6. opening' = [opening EXCEPT ![id] = IF ok THEN "record" ELSE "none"]
  BY <1>3 DEF Goto
<1>7. MirrorTypes'
  BY <1>1, <1>5, <1>6, MirrorAssumption DEF MirrorInv, MirrorTypes, TypeOK, Phase, paper, Venue, Rec
<1>8. Dealt'
  BY <1>1, <1>6, SameTrades DEF MirrorInv, MirrorTypes, TypeOK, Dealt, paper
<1>9. FirstTrade'
  <2> SUFFICES ASSUME troubles' = 0, NEW t \in Symbols, NEW i \in Ids, Only(t, i)' PROVE OneTrade(t, i)'
    BY DEF FirstTrade
  <2>1. Only(t, i) /\ OneTrade(t, i)
    BY <1>1, <1>5, SameTrades DEF paper, MirrorInv, FirstTrade
  <2>2. t = SymbolOf(id) <=> i = id
    BY <1>1, OfTrade, <2>1 DEF Only, TradesOf
  <2> QED BY <1>1, <1>5, <1>6, <2>1, <2>2 DEF OneTrade, AtWork, MirrorInv, MirrorTypes, TypeOK
<1> QED BY <1>5, <1>7, <1>8, <1>9 DEF MirrorInv

(* What was pushed is recorded *)
LEMMA RecordTypes ==
  ASSUME MirrorInv, NEW id \in Traded, RecordPushed(id)
  PROVE  /\ mirrors' \in [Ids -> 0..(MaxMoves + 1) \cup {None}]
         /\ \A i \in Ids : mirrors'[i] = None <=> mirrors[i] = None
<1>1. trade[id].stop \in 0..(MaxMoves + 1) /\ id \in Ids
  BY OfTrade, MirrorAssumption
<1>2. mirrors \in [Ids -> 0..(MaxMoves + 1) \cup {None}]
  BY DEF MirrorInv, MirrorTypes, TypeOK
<1> HIDE DEF MirrorInv
<1>3. mirrors' = [mirrors EXCEPT ![id] = IF mirrors[id] = None THEN None ELSE trade[id].stop]
  BY DEF RecordPushed
<1>4. None \notin 0..(MaxMoves + 1)
  BY MirrorAssumption
<1> QED BY <1>1, <1>2, <1>3, <1>4

LEMMA OpenRecordStep == ASSUME MirrorInv, NEW id \in Ids, OpenRecord(id) PROVE MirrorInv'
<1>1. opening[id] = "record" /\ id \in Traded /\ RecordPushed(id)
  BY DEF OpenRecord, Resume, MirrorInv, Dealt
<1>2. UNCHANGED <<paper, closing, rec, armed, control, venue, troubles>>
  BY DEF OpenRecord, OnlyOpening
<1>3. opening' = [opening EXCEPT ![id] = "none"]
  BY DEF OpenRecord, Goto
<1>4. /\ mirrors' \in [Ids -> 0..(MaxMoves + 1) \cup {None}]
      /\ \A i \in Ids : mirrors'[i] = None <=> mirrors[i] = None
  BY <1>1, RecordTypes
<1>7. MirrorTypes'
  BY <1>2, <1>3, <1>4 DEF MirrorInv, MirrorTypes, TypeOK, Phase, paper, Rec
<1>8. Dealt' /\ OnExchange'
  BY <1>2, <1>3, <1>4, SameTrades DEF MirrorInv, MirrorTypes, TypeOK, Dealt, OnExchange, paper
<1>9. FirstTrade'
  <2> SUFFICES ASSUME troubles' = 0, NEW t \in Symbols, NEW i \in Ids, Only(t, i)' PROVE OneTrade(t, i)'
    BY DEF FirstTrade
  <2>1. Only(t, i) /\ OneTrade(t, i)
    BY <1>2, SameTrades DEF paper, MirrorInv, FirstTrade
  <2> QED BY <1>1, <1>2, <1>3, <1>4, <2>1 DEF OneTrade, AtWork, MirrorInv, MirrorTypes, TypeOK
<1> QED BY <1>7, <1>8, <1>9 DEF MirrorInv

-----------------------------------------------------------------------------
(* mirrorClose *)

LEMMA ReadLiveStep == ASSUME MirrorInv, NEW id \in Ids, ReadLive(id) PROVE MirrorInv'
<1> DEFINE live == Magnitude(venue[SymbolOf(id)].net)
<1>1. closing[id].phase = "read" /\ id \in Traded
  BY DEF ReadLive, MirrorInv, Dealt
<1>2. UNCHANGED <<paper, mirrors, opening, rec, armed, control, venue, troubles>>
  BY DEF ReadLive
<1>3. live \in Nat
  BY <1>1, OfTrade DEF Venue, Magnitude
<1>4. closing' = [closing EXCEPT ![id] = IF live = 0 THEN NotClosing ELSE [phase |-> "reduce", qty |-> live]]
  BY DEF ReadLive
<1>7. MirrorTypes'
  BY <1>2, <1>3, <1>4 DEF MirrorInv, MirrorTypes, TypeOK, paper, Rec, NotClosing
<1>8. Dealt' /\ OnExchange'
  BY <1>1, <1>2, <1>4, SameTrades DEF MirrorInv, MirrorTypes, TypeOK, Dealt, OnExchange, paper, NotClosing
<1>9. FirstTrade'
  BY <1>2, SameTrades DEF MirrorInv, FirstTrade, OneTrade, AtWork, paper
<1> QED BY <1>7, <1>8, <1>9 DEF MirrorInv

LEMMA CloseMarketStep == ASSUME MirrorInv, NEW id \in Ids, CloseMarket(id) PROVE MirrorInv'
<1> DEFINE s == SymbolOf(id)  after == Reduced(venue[s], -Side(id), closing[id].qty)
<1>1. closing[id].phase = "reduce" /\ id \in Traded /\ closing[id].qty \in Nat
  BY DEF CloseMarket, MirrorInv, Dealt, MirrorTypes, TypeOK
<1>2. UNCHANGED <<paper, mirrors, opening, rec, armed, control>>
  BY DEF CloseMarket
<1>3. s \in Symbols /\ id \in TradesOf(s) /\ venue[s] \in Venue /\ Owned(s, venue[s])
  BY <1>1, OfTrade
<1>4. PICK ok \in BOOLEAN : Call(s, after, ok)
  BY DEF CloseMarket
<1>5. after \in Venue /\ Owned(s, after)
  BY <1>1, <1>3, OwnedAfter, Reducing, SideValue
<1>6. /\ OnExchange'
      /\ venue' \in [Symbols -> Venue] /\ troubles' \in 0..MaxTroubles
      /\ troubles' = 0 => ok /\ troubles = 0 /\ venue' = [venue EXCEPT ![s] = after]
  BY <1>2, <1>3, <1>4, <1>5, Requested DEF paper
<1>7. closing' = [closing EXCEPT ![id] = NotClosing]
  BY DEF CloseMarket
<1>8. MirrorTypes'
  BY <1>2, <1>6, <1>7, MirrorAssumption DEF MirrorInv, MirrorTypes, TypeOK, paper, Venue, Rec, NotClosing
<1>9. Dealt'
  BY <1>1, <1>2, <1>7, SameTrades DEF MirrorInv, MirrorTypes, TypeOK, Dealt, paper, NotClosing
<1>10. FirstTrade'
  <2> SUFFICES ASSUME troubles' = 0, NEW t \in Symbols, NEW i \in Ids, Only(t, i)' PROVE OneTrade(t, i)'
    BY DEF FirstTrade
  <2>1. Only(t, i) /\ OneTrade(t, i)
    BY <1>2, <1>6, SameTrades DEF paper, MirrorInv, FirstTrade
  <2>2. t = s <=> i = id
    BY <1>1, <1>3, <2>1 DEF Only, TradesOf
  <2>3. (t # s => venue'[t] = venue[t]) /\ (t = s => venue'[t] = after)
    BY <1>6 DEF MirrorInv, MirrorTypes, TypeOK
  <2>4. after.resting = venue[s].resting /\ after.stop = venue[s].stop
    <3>1. -Side(id) \in {-1, 1}
      BY SideValue
    <3> QED BY <1>1, <1>3, <3>1, Reducing
  <2>5. ASSUME t = s PROVE after.net \in {0, venue[s].net}
    <3>1. venue[s].net \in {-1, 0, 1}
      BY <2>1, <2>2, <2>5, SideValue DEF OneTrade
    <3>2. -Side(id) \in {-1, 1}
      BY SideValue
    <3>3. /\ venue[s].net = 0 => after.net = 0
          /\ venue[s].net > 0 => after.net \in 0..venue[s].net
          /\ venue[s].net < 0 => -after.net \in 0..-venue[s].net
          /\ after.net \in Int
      BY <1>1, <1>3, <3>2, Reducing DEF Venue
    <3> HIDE DEF after
    <3> QED BY <3>1, <3>3
  <2> QED BY <1>1, <1>2, <2>1, <2>2, <2>3, <2>4, <2>5 DEF OneTrade, AtWork
<1> QED BY <1>6, <1>8, <1>9, <1>10 DEF MirrorInv

-----------------------------------------------------------------------------
(* reconcile *)

(* A request to cancel, by a pass that will place the stop again or close the position *)
LEMMA CancelCall ==
  ASSUME MirrorInv, UNCHANGED trade, NEW s \in Symbols, NEW ok \in BOOLEAN,
         Call(s, Cancelled(venue[s]), ok)
  PROVE  /\ OnExchange'
         /\ venue' \in [Symbols -> Venue] /\ troubles' \in 0..MaxTroubles
         /\ troubles' = 0 =>
              /\ ok /\ troubles = 0
              /\ \A t \in Symbols :
                    /\ venue'[t].net = venue[t].net
                    /\ t # s => venue'[t] = venue[t]
                    /\ t = s => venue'[t].resting = {}
<1>1. venue[s] \in Venue /\ Owned(s, venue[s])
  BY OfSymbol
<1>2. Cancelled(venue[s]) \in Venue /\ Owned(s, Cancelled(venue[s]))
  BY <1>1, VenueTypes, OwnedAfter
<1>3. /\ OnExchange'
      /\ venue' \in [Symbols -> Venue] /\ troubles' \in 0..MaxTroubles
      /\ troubles' = 0 => ok /\ troubles = 0 /\ venue' = [venue EXCEPT ![s] = Cancelled(venue[s])]
  BY <1>2, Requested
<1>4. Cancelled(venue[s]).net = venue[s].net /\ Cancelled(venue[s]).resting = {}
  BY <1>1 DEF Cancelled, Venue
<1> QED BY <1>3, <1>4 DEF MirrorInv, MirrorTypes, TypeOK

LEMMA LoopStep ==
  ASSUME MirrorInv, NEW snapshot \in SUBSET Traded, NEW left \in SUBSET Traded,
         rec.phase \in {"idle", "next"}, Loop(snapshot, left), OnlyReconcile, UNCHANGED mirrors
  PROVE  MirrorInv'
<1> USE DEF paper
<1>1. UNCHANGED <<paper, mirrors, opening, closing, armed, control>> /\ Traded \subseteq Ids
  BY DEF OnlyReconcile, Traded
<1>2. ASSUME NEW id \in left, NEW ok \in BOOLEAN, Call(SymbolOf(id), Cancelled(venue[SymbolOf(id)]), ok),
             rec' = [Idle EXCEPT !.phase = IF ok THEN "stop" ELSE "next",
                                 !.snapshot = snapshot, !.left = left \ {id},
                                 !.cur = IF ok THEN id ELSE None]
      PROVE  MirrorInv'
  <2> DEFINE s == SymbolOf(id)
  <2>1. s \in Symbols /\ id \in TradesOf(s) /\ id \in Traded
    BY OfTrade
  <2>2. /\ OnExchange'
        /\ venue' \in [Symbols -> Venue] /\ troubles' \in 0..MaxTroubles
        /\ troubles' = 0 =>
             /\ ok /\ troubles = 0
             /\ \A t \in Symbols :
                   /\ venue'[t].net = venue[t].net
                   /\ t # s => venue'[t] = venue[t]
                   /\ t = s => venue'[t].resting = {}
    BY <1>1, <1>2, <2>1, CancelCall
  <2>3. /\ rec' \in Rec /\ rec'.seen = [t \in Symbols |-> 0] /\ rec'.todo = {}
        /\ rec'.snapshot \subseteq Traded /\ rec'.left \subseteq Traded
        /\ rec'.phase = (IF ok THEN "stop" ELSE "next") /\ rec'.cur = (IF ok THEN id ELSE None)
    <3> DEFINE r == [phase |-> IF ok THEN "stop" ELSE "next", snapshot |-> snapshot,
                     left |-> left \ {id}, cur |-> IF ok THEN id ELSE None,
                     seen |-> [t \in Symbols |-> 0], todo |-> {}]
    <3>1. rec' = r
      BY <1>2 DEF Idle
    <3>2. r \in Rec
      BY <1>1, <2>1 DEF Rec
    <3> QED BY <3>1, <3>2
  <2>4. MirrorTypes'
    <3>1. /\ rec'.phase \in {"idle", "next", "stop", "record", "positions", "sweep", "close"}
          /\ rec'.snapshot \subseteq Ids /\ rec'.left \subseteq Ids /\ rec'.todo \subseteq Symbols
          /\ rec'.cur \in Ids \cup Symbols \cup {None} /\ rec'.seen \in [Symbols -> Int]
      BY <2>3 DEF Rec
    <3>2. venue' \in [Symbols -> Venue] /\ troubles' \in 0..MaxTroubles
      BY <2>2
    <3> QED BY <1>1, <2>3, <3>1, <3>2 DEF MirrorInv, MirrorTypes, TypeOK, Venue
  <2>5. Dealt'
    BY <1>1, <2>1, <2>3, SameTrades DEF MirrorInv, Dealt, Faced
  <2>6. FirstTrade'
    <3> SUFFICES ASSUME troubles' = 0, NEW t \in Symbols, NEW i \in Ids, Only(t, i)' PROVE OneTrade(t, i)'
      BY DEF FirstTrade
    <3>1. Only(t, i) /\ OneTrade(t, i)
      BY <1>1, <2>2, SameTrades DEF MirrorInv, FirstTrade
    <3>2. t = s => i = id
      BY <2>1, <3>1 DEF Only
    <3> QED BY <1>1, <2>2, <2>3, <3>1, <3>2 DEF OneTrade, AtWork
  <2> QED BY <2>2, <2>4, <2>5, <2>6 DEF MirrorInv
<1>3. ASSUME rec' = [Idle EXCEPT !.phase = "positions", !.snapshot = snapshot,
                                 !.seen = [s \in Symbols |-> venue[s].net]],
             UNCHANGED <<venue, troubles>>
      PROVE  MirrorInv'
  <2>1. \A s \in Symbols : venue[s].net \in Int
    BY OfSymbol DEF Venue
  <2>2. /\ rec' \in Rec /\ rec'.todo = {} /\ rec'.phase = "positions"
        /\ rec'.seen = [s \in Symbols |-> venue[s].net]
        /\ rec'.snapshot \subseteq Traded /\ rec'.left \subseteq Traded
    BY <1>1, <1>3, <2>1 DEF Rec, Idle
  <2>3. MirrorTypes' /\ OnExchange'
    <3>1. /\ rec'.phase \in {"idle", "next", "stop", "record", "positions", "sweep", "close"}
          /\ rec'.snapshot \subseteq Ids /\ rec'.left \subseteq Ids /\ rec'.todo \subseteq Symbols
          /\ rec'.cur \in Ids \cup Symbols \cup {None} /\ rec'.seen \in [Symbols -> Int]
      BY <2>2 DEF Rec
    <3>2. MirrorTypes'
      BY <1>1, <1>3, <2>2, <3>1 DEF MirrorInv, MirrorTypes, TypeOK
    <3> QED BY <1>1, <1>3, <3>2, SameTrades DEF MirrorInv, OnExchange
  <2>4. \A s \in Symbols : Faced(s, rec'.seen[s])
    BY <2>2, OfSymbol DEF Owned
  <2>5. Dealt'
    BY <1>1, <2>2, <2>4, SameTrades DEF MirrorInv, Dealt
  <2>6. FirstTrade'
    <3> SUFFICES ASSUME troubles' = 0, NEW t \in Symbols, NEW i \in Ids, Only(t, i)' PROVE OneTrade(t, i)'
      BY DEF FirstTrade
    <3>1. Only(t, i) /\ OneTrade(t, i)
      BY <1>1, <1>3, SameTrades DEF MirrorInv, FirstTrade
    <3> QED BY <1>1, <1>3, <2>2, <3>1 DEF OneTrade, AtWork
  <2> QED BY <2>3, <2>5, <2>6 DEF MirrorInv
<1>4. ASSUME troubles < MaxTroubles, troubles' = troubles + 1, rec' = Idle, UNCHANGED venue
      PROVE  MirrorInv'
  <2>1. troubles' \in 0..MaxTroubles /\ troubles' # 0
    BY <1>4, MirrorAssumption DEF MirrorInv, MirrorTypes, TypeOK
  <2>2. rec' \in Rec /\ rec'.todo = {} /\ rec'.phase = "idle" /\ rec'.seen = [s \in Symbols |-> 0]
        /\ rec'.snapshot = {} /\ rec'.left = {}
    BY <1>4 DEF Rec, Idle
  <2>3. MirrorTypes' /\ OnExchange'
    BY <1>1, <1>4, <2>1, <2>2, SameTrades DEF MirrorInv, MirrorTypes, TypeOK, OnExchange, Rec
  <2>4. Dealt'
    BY <1>1, <2>2, SameTrades DEF MirrorInv, Dealt, Faced
  <2> QED BY <2>1, <2>3, <2>4 DEF MirrorInv, FirstTrade
<1> QED BY <1>2, <1>3, <1>4 DEF Loop

LEMMA ReconcileStep == ASSUME MirrorInv, Reconcile PROVE MirrorInv'
<1>1. HeldIds \in SUBSET Traded
  BY DEF HeldIds, MirrorInv, Dealt, TradesOf
<1> QED BY <1>1, LoopStep DEF Reconcile

LEMMA RecNextStep == ASSUME MirrorInv, RecNext PROVE MirrorInv'
<1>1. rec.snapshot \in SUBSET Traded /\ rec.left \in SUBSET Traded
  BY DEF MirrorInv, Dealt
<1> QED BY <1>1, LoopStep DEF RecNext

LEMMA RecBracketsStep == ASSUME MirrorInv, RecBrackets PROVE MirrorInv'
<1> DEFINE id == rec.cur
<1>1. rec.phase = "stop" /\ id \in Traded /\ rec \in Rec
  BY DEF RecBrackets, MirrorInv, MirrorTypes, Dealt
<1>2. UNCHANGED <<book, trade, mirrors, opening, closing, armed, control>>
  BY DEF RecBrackets, OnlyReconcile, paper
<1>3. PICK ok \in BOOLEAN : /\ PlaceBrackets(id, ok)
                            /\ rec' = [rec EXCEPT !.phase = IF ok THEN "record" ELSE "next"]
  BY DEF RecBrackets
<1>4. /\ OnExchange'
      /\ venue' \in [Symbols -> Venue] /\ troubles' \in 0..MaxTroubles
      /\ troubles' = 0 =>
           /\ ok /\ troubles = 0
           /\ \A t \in Symbols :
                 /\ venue'[t].net = venue[t].net /\ venue'[t].resting = venue[t].resting
                 /\ t # SymbolOf(id) => venue'[t] = venue[t]
                 /\ t = SymbolOf(id) => venue'[t].stop # 0
  BY <1>1, <1>2, <1>3, BracketCall
<1>5. /\ rec' \in Rec /\ rec'.seen = rec.seen /\ rec'.todo = rec.todo /\ rec'.cur = rec.cur
      /\ rec'.snapshot = rec.snapshot /\ rec'.left = rec.left
      /\ rec'.phase = IF ok THEN "record" ELSE "next"
  BY <1>1, <1>3 DEF Rec
<1>6. MirrorTypes'
  <2>1. /\ rec'.phase \in {"idle", "next", "stop", "record", "positions", "sweep", "close"}
        /\ rec'.snapshot \subseteq Ids /\ rec'.left \subseteq Ids /\ rec'.todo \subseteq Symbols
        /\ rec'.cur \in Ids \cup Symbols \cup {None} /\ rec'.seen \in [Symbols -> Int]
    BY <1>5 DEF Rec
  <2>2. venue' \in [Symbols -> Venue] /\ troubles' \in 0..MaxTroubles
    BY <1>4
  <2> QED BY <1>2, <1>5, <2>1, <2>2 DEF MirrorInv, MirrorTypes, TypeOK, Venue
<1>7. Dealt'
  BY <1>1, <1>2, <1>5, SameTrades DEF MirrorInv, Dealt
<1>8. FirstTrade'
  <2> SUFFICES ASSUME troubles' = 0, NEW t \in Symbols, NEW i \in Ids, Only(t, i)' PROVE OneTrade(t, i)'
    BY DEF FirstTrade
  <2>1. Only(t, i) /\ OneTrade(t, i)
    BY <1>2, <1>4, SameTrades DEF MirrorInv, FirstTrade
  <2>2. t = SymbolOf(id) <=> i = id
    BY <1>1, OfTrade, <2>1 DEF Only, TradesOf
  <2> QED BY <1>1, <1>2, <1>4, <1>5, <2>1, <2>2 DEF OneTrade, AtWork
<1> QED BY <1>4, <1>6, <1>7, <1>8 DEF MirrorInv

LEMMA RecRecordStep == ASSUME MirrorInv, RecRecord PROVE MirrorInv'
<1>1. rec.phase = "record" /\ rec.cur \in Traded /\ rec \in Rec /\ RecordPushed(rec.cur)
  BY DEF RecRecord, MirrorInv, MirrorTypes, Dealt
<1>2. UNCHANGED <<book, trade, opening, closing, armed, control, venue, troubles>>
  BY DEF RecRecord, OnlyReconcile, paper
<1>3. /\ mirrors' \in [Ids -> 0..(MaxMoves + 1) \cup {None}]
      /\ \A i \in Ids : mirrors'[i] = None <=> mirrors[i] = None
  BY <1>1, RecordTypes
<1>4. rec' = [rec EXCEPT !.phase = "next", !.cur = None]
  BY DEF RecRecord
<1>5. /\ rec' \in Rec /\ rec'.seen = rec.seen /\ rec'.todo = rec.todo
      /\ rec'.snapshot = rec.snapshot /\ rec'.left = rec.left
      /\ rec'.phase = "next"
  BY <1>1, <1>4 DEF Rec
<1>6. MirrorTypes'
  BY <1>2, <1>3, <1>5 DEF MirrorInv, MirrorTypes, TypeOK, Rec
<1>7. Dealt' /\ OnExchange'
  BY <1>1, <1>2, <1>3, <1>5, SameTrades DEF MirrorInv, Dealt, OnExchange
<1>8. FirstTrade'
  <2> SUFFICES ASSUME troubles' = 0, NEW t \in Symbols, NEW i \in Ids, Only(t, i)' PROVE OneTrade(t, i)'
    BY DEF FirstTrade
  <2>1. Only(t, i) /\ OneTrade(t, i)
    BY <1>2, SameTrades DEF MirrorInv, FirstTrade
  <2> QED BY <1>1, <1>2, <1>3, <1>5, <2>1 DEF OneTrade, AtWork
<1> QED BY <1>6, <1>7, <1>8 DEF MirrorInv

LEMMA SweepStep ==
  ASSUME MirrorInv, rec.phase \in {"positions", "sweep"}, NEW todo \in SUBSET Symbols,
         \A s \in todo : rec.seen[s] # 0, Sweep(todo, rec.seen), OnlyReconcile, UNCHANGED mirrors
  PROVE  MirrorInv'
<1>1. UNCHANGED <<book, trade, mirrors, opening, closing, armed, control>> /\ rec.seen \in [Symbols -> Int]
  BY DEF OnlyReconcile, paper, MirrorInv, MirrorTypes, TypeOK
<1>2. CASE todo = {} /\ rec' = Idle /\ UNCHANGED <<venue, troubles>>
  <2>1. rec' \in Rec /\ rec'.todo = {} /\ rec'.phase = "idle" /\ rec'.seen = [s \in Symbols |-> 0]
        /\ rec'.snapshot = {} /\ rec'.left = {}
    BY <1>2 DEF Rec, Idle
  <2>2. MirrorTypes' /\ OnExchange'
    <3>1. /\ rec'.phase \in {"idle", "next", "stop", "record", "positions", "sweep", "close"}
          /\ rec'.snapshot \subseteq Ids /\ rec'.left \subseteq Ids /\ rec'.todo \subseteq Symbols
          /\ rec'.cur \in Ids \cup Symbols \cup {None} /\ rec'.seen \in [Symbols -> Int]
      BY <2>1 DEF Rec
    <3> QED BY <1>1, <1>2, <2>1, <3>1, SameTrades DEF MirrorInv, MirrorTypes, TypeOK, OnExchange
  <2>3. Dealt'
    BY <1>1, <2>1, SameTrades DEF MirrorInv, Dealt, Faced
  <2>4. FirstTrade'
    <3> SUFFICES ASSUME troubles' = 0, NEW t \in Symbols, NEW i \in Ids, Only(t, i)' PROVE OneTrade(t, i)'
      BY DEF FirstTrade
    <3>1. Only(t, i) /\ OneTrade(t, i)
      BY <1>1, <1>2, SameTrades DEF MirrorInv, FirstTrade
    <3> QED BY <1>1, <1>2, <2>1, <3>1 DEF OneTrade, AtWork
  <2> QED BY <2>2, <2>3, <2>4 DEF MirrorInv
<1>3. ASSUME NEW s \in todo, NEW ok \in BOOLEAN, Call(s, Cancelled(venue[s]), ok),
             rec' = [Idle EXCEPT !.phase = IF ok THEN "close" ELSE "sweep",
                                 !.todo = todo \ {s}, !.seen = rec.seen,
                                 !.cur = IF ok THEN s ELSE None]
      PROVE  MirrorInv'
  <2>2. /\ OnExchange'
        /\ venue' \in [Symbols -> Venue] /\ troubles' \in 0..MaxTroubles
        /\ troubles' = 0 =>
             /\ ok /\ troubles = 0
             /\ \A t \in Symbols :
                   /\ venue'[t].net = venue[t].net
                   /\ t # s => venue'[t] = venue[t]
                   /\ t = s => venue'[t].resting = {}
    BY <1>1, <1>3, CancelCall
  <2>3. /\ rec' \in Rec /\ rec'.seen = rec.seen /\ rec'.todo = todo \ {s}
        /\ rec'.snapshot = {} /\ rec'.left = {}
        /\ rec'.phase = (IF ok THEN "close" ELSE "sweep") /\ rec'.cur = (IF ok THEN s ELSE None)
    <3> DEFINE r == [phase |-> IF ok THEN "close" ELSE "sweep", snapshot |-> {}, left |-> {},
                     cur |-> IF ok THEN s ELSE None, seen |-> rec.seen, todo |-> todo \ {s}]
    <3>1. rec' = r
      BY <1>3 DEF Idle
    <3>2. r \in Rec
      BY <1>1 DEF Rec
    <3> QED BY <3>1, <3>2
  <2>4. MirrorTypes'
    <3>1. /\ rec'.phase \in {"idle", "next", "stop", "record", "positions", "sweep", "close"}
          /\ rec'.snapshot \subseteq Ids /\ rec'.left \subseteq Ids /\ rec'.todo \subseteq Symbols
          /\ rec'.cur \in Ids \cup Symbols \cup {None} /\ rec'.seen \in [Symbols -> Int]
      BY <2>3 DEF Rec
    <3>2. venue' \in [Symbols -> Venue] /\ troubles' \in 0..MaxTroubles
      BY <2>2
    <3> QED BY <1>1, <2>3, <3>1, <3>2 DEF MirrorInv, MirrorTypes, TypeOK, Venue
  <2>5. Dealt'
    BY <1>1, <2>3, SameTrades DEF MirrorInv, Dealt
  <2>6. FirstTrade'
    <3> SUFFICES ASSUME troubles' = 0, NEW t \in Symbols, NEW i \in Ids, Only(t, i)' PROVE OneTrade(t, i)'
      BY DEF FirstTrade
    <3>1. Only(t, i) /\ OneTrade(t, i)
      BY <1>1, <2>2, SameTrades DEF MirrorInv, FirstTrade
    <3> QED BY <1>1, <2>2, <2>3, <3>1 DEF OneTrade, AtWork
  <2> QED BY <2>2, <2>4, <2>5, <2>6 DEF MirrorInv
<1> QED BY <1>2, <1>3 DEF Sweep

LEMMA RecOrphansStep == ASSUME MirrorInv, RecOrphans PROVE MirrorInv'
<1> DEFINE todo == {s \in Symbols : rec.seen[s] # 0} \ Known(rec.snapshot)
<1>1. todo \in SUBSET Symbols /\ \A s \in todo : rec.seen[s] # 0
  OBVIOUS
<1>2. rec.phase = "positions" /\ Sweep(todo, rec.seen) /\ OnlyReconcile /\ UNCHANGED mirrors
  BY DEF RecOrphans
<1> HIDE DEF todo
<1> QED BY <1>1, <1>2, SweepStep

LEMMA RecSweepStep == ASSUME MirrorInv, RecSweep PROVE MirrorInv'
<1>1. rec.todo \in SUBSET Symbols /\ \A s \in rec.todo : rec.seen[s] # 0
  BY DEF MirrorInv, MirrorTypes, TypeOK, Dealt
<1> QED BY <1>1, SweepStep DEF RecSweep

LEMMA RecCloseStep == ASSUME MirrorInv, RecClose PROVE MirrorInv'
<1> DEFINE s == rec.cur  qty == rec.seen[s]  side == IF qty > 0 THEN -1 ELSE 1
           after == Reduced(venue[s], side, Magnitude(qty))
<1>1. rec.phase = "close" /\ s \in Symbols /\ qty \in Int /\ rec \in Rec
  BY DEF RecClose, MirrorInv, MirrorTypes, TypeOK, Dealt
<1>2. UNCHANGED <<book, trade, mirrors, opening, closing, armed, control>>
  BY DEF RecClose, OnlyReconcile, paper
<1>3. venue[s] \in Venue /\ Owned(s, venue[s])
  BY <1>1, OfSymbol
<1>4. PICK ok \in BOOLEAN : Call(s, after, ok)
  BY DEF RecClose
<1>5. side \in {-1, 1} /\ Magnitude(qty) \in Nat
  BY <1>1 DEF Magnitude
<1>6. after \in Venue /\ Owned(s, after)
  BY <1>3, <1>5, OwnedAfter, Reducing
<1>7. /\ OnExchange'
      /\ venue' \in [Symbols -> Venue] /\ troubles' \in 0..MaxTroubles
      /\ troubles' = 0 => ok /\ troubles = 0 /\ venue' = [venue EXCEPT ![s] = after]
  BY <1>1, <1>2, <1>4, <1>6, Requested
<1>8. rec' = [rec EXCEPT !.phase = "sweep", !.cur = None]
  BY DEF RecClose
<1>9. /\ rec' \in Rec /\ rec'.seen = rec.seen /\ rec'.todo = rec.todo
      /\ rec'.snapshot = rec.snapshot /\ rec'.left = rec.left
      /\ rec'.phase = "sweep"
  BY <1>1, <1>8 DEF Rec
<1>10. MirrorTypes'
  <2>1. /\ rec'.phase \in {"idle", "next", "stop", "record", "positions", "sweep", "close"}
        /\ rec'.snapshot \subseteq Ids /\ rec'.left \subseteq Ids /\ rec'.todo \subseteq Symbols
        /\ rec'.cur \in Ids \cup Symbols \cup {None} /\ rec'.seen \in [Symbols -> Int]
    BY <1>9 DEF Rec
  <2>2. venue' \in [Symbols -> Venue] /\ troubles' \in 0..MaxTroubles
    BY <1>7
  <2> QED BY <1>2, <1>9, <2>1, <2>2 DEF MirrorInv, MirrorTypes, TypeOK, Venue
<1>11. Dealt'
  BY <1>1, <1>2, <1>9, SameTrades DEF MirrorInv, Dealt
<1>12. FirstTrade'
  <2> SUFFICES ASSUME troubles' = 0, NEW t \in Symbols, NEW i \in Ids, Only(t, i)' PROVE OneTrade(t, i)'
    BY DEF FirstTrade
  <2>1. Only(t, i) /\ OneTrade(t, i)
    BY <1>2, <1>7, SameTrades DEF MirrorInv, FirstTrade
  <2>2. (t # s => venue'[t] = venue[t]) /\ (t = s => venue'[t] = after)
    BY <1>7 DEF MirrorInv, MirrorTypes, TypeOK
  <2>3. after.resting = venue[s].resting
    BY <1>3, <1>5, Reducing
  <2>4. ASSUME t = s PROVE after.net = 0
    <3>1. qty # 0 /\ qty = Side(i) /\ Side(i) \in {-1, 1}
      BY <1>1, <2>1, <2>4, SideValue DEF MirrorInv, Dealt, OneTrade
    <3>2. side = -qty /\ Magnitude(qty) = 1
      BY <1>1, <3>1 DEF Magnitude
    <3>3. venue[s].net = 0 \/ venue[s].net = -side
      BY <2>1, <2>4, <3>1, <3>2 DEF OneTrade
    <3> QED BY <1>3, <1>5, <3>2, <3>3, Reducing
  <2> QED BY <1>1, <1>2, <1>9, <2>1, <2>2, <2>3, <2>4 DEF OneTrade, AtWork
<1> QED BY <1>7, <1>10, <1>11, <1>12 DEF MirrorInv

-----------------------------------------------------------------------------
(* The exchange *)

LEMMA FillRestingStep ==
  ASSUME MirrorInv, NEW s \in Symbols, NEW id \in Ids, FillResting(s, id)
  PROVE  MirrorInv'
<1> DEFINE v == venue[s]  entered == Entered(v, Side(id))
           after == [entered EXCEPT !.resting = v.resting \ {id}]
<1>1. v \in Venue /\ Owned(s, v) /\ id \in v.resting /\ id \in TradesOf(s)
  BY OfSymbol DEF FillResting, Owned
<1>2. UNCHANGED <<paper, mirrors, opening, closing, rec, armed, control, troubles>>
      /\ venue' = [venue EXCEPT ![s] = after]
  BY DEF FillResting
<1>3. Entered(v, Side(id)) \in Venue /\ Owned(s, Entered(v, Side(id)))
  BY <1>1, VenueTypes, OwnedAfter, SideValue
<1>4. after.net = v.net + Side(id) /\ after.resting = v.resting \ {id} /\ after.stop = v.stop
  BY <1>1 DEF Entered, Venue
<1>5. after \in Venue
  <2>1. v.resting \ {id} \in SUBSET Ids
    BY <1>1 DEF Venue
  <2>2. \A w \in Venue, ids \in SUBSET Ids : [w EXCEPT !.resting = ids] \in Venue
    BY DEF Venue
  <2> QED BY <1>3, <2>1, <2>2
<1>6. Entered(v, Side(id)).net = after.net /\ Entered(v, Side(id)).stop = after.stop
      /\ Entered(v, Side(id)).resting = v.resting
  BY <1>1, <1>4 DEF Entered, Venue
<1>7. Owned(s, after)
  BY <1>3, <1>4, <1>6 DEF Owned
<1> HIDE DEF after
<1>8. venue' \in [Symbols -> Venue] /\ venue \in [Symbols -> Venue]
  BY <1>2, <1>5 DEF MirrorInv, MirrorTypes, TypeOK, Venue
<1>9. \A t \in Symbols : venue'[t] = IF t = s THEN after ELSE venue[t]
  BY <1>2, <1>8
<1>10. MirrorTypes'
  BY <1>2, <1>8 DEF MirrorInv, MirrorTypes, TypeOK, paper, Venue
<1>11. Dealt'
  BY <1>2, SameTrades DEF MirrorInv, Dealt, paper
<1>12. OnExchange'
  <2>1. \A t \in Symbols : Owned(t, venue'[t])
    BY <1>7, <1>9 DEF MirrorInv, OnExchange
  <2> QED BY <1>2, <2>1, SameTrades DEF OnExchange, paper
<1>13. FirstTrade'
  <2> SUFFICES ASSUME troubles' = 0, NEW t \in Symbols, NEW i \in Ids, Only(t, i)' PROVE OneTrade(t, i)'
    BY DEF FirstTrade
  <2>1. Only(t, i) /\ OneTrade(t, i)
    BY <1>2, SameTrades DEF MirrorInv, FirstTrade, paper
  <2>2. CASE t # s
    BY <1>2, <1>9, <2>1, <2>2 DEF OneTrade, AtWork, paper
  <2>3. CASE t = s
    <3>1. i = id /\ v.net = 0 /\ opening[id] = "acked" /\ mirrors[id] = None
      BY <1>1, <2>1, <2>3 DEF Only, OneTrade
    <3>2. after.net = Side(id) /\ id \notin after.resting
      BY <1>4, <3>1, SideValue
    <3> QED BY <1>2, <1>9, <2>1, <2>3, <3>1, <3>2 DEF OneTrade, AtWork, paper
  <2> QED BY <2>2, <2>3
<1> QED BY <1>10, <1>11, <1>12, <1>13 DEF MirrorInv

LEMMA ClosedOut ==
  ASSUME NEW v \in Venue
  PROVE  LET w == [v EXCEPT !.net = 0, !.stop = 0]
         IN  w.net = 0 /\ w.resting = v.resting /\ w.stop = 0 /\ w \in Venue
<1> DEFINE w == [v EXCEPT !.net = 0, !.stop = 0]
<1>1. 0 \in 0..(MaxMoves + 1) /\ 0 \in Int
  BY MirrorAssumption
<1>2. w.net = 0 /\ w.stop = 0
  BY DEF Venue
<1>3. w.resting = v.resting
  BY DEF Venue
<1>4. w = [net |-> 0, resting |-> v.resting, stop |-> 0]
  <2>1. [v EXCEPT !.net = 0] = [net |-> 0, resting |-> v.resting, stop |-> v.stop]
    BY DEF Venue
  <2>2. w = [[v EXCEPT !.net = 0] EXCEPT !.stop = 0]
    OBVIOUS
  <2>3. \A x, y : [[net |-> 0, resting |-> x, stop |-> y] EXCEPT !.stop = 0]
                      = [net |-> 0, resting |-> x, stop |-> 0]
    OBVIOUS
  <2> HIDE DEF w
  <2> QED BY <2>1, <2>2, <2>3
<1>5. v.resting \in SUBSET Ids
  BY DEF Venue
<1>6. w \in Venue
  BY <1>1, <1>4, <1>5 DEF Venue
<1> QED BY <1>2, <1>3, <1>6

LEMMA TriggerStep == ASSUME MirrorInv, NEW s \in Symbols, Trigger(s) PROVE MirrorInv'
<1> DEFINE v == venue[s]  after == [v EXCEPT !.net = 0, !.stop = 0]
<1>1. v \in Venue /\ Owned(s, v)
  BY OfSymbol
<1>2. UNCHANGED <<paper, mirrors, opening, closing, rec, armed, control, troubles>>
      /\ venue' = [venue EXCEPT ![s] = after]
  BY DEF Trigger, MirrorInv, MirrorTypes, TypeOK
<1>3. after.net = 0 /\ after.resting = v.resting /\ after.stop = 0 /\ after \in Venue
  BY <1>1, ClosedOut
<1>4. Owned(s, after)
  BY <1>1, <1>3 DEF Owned, Faced
<1> HIDE DEF after
<1>5. venue' \in [Symbols -> Venue] /\ venue \in [Symbols -> Venue]
  BY <1>2, <1>3 DEF MirrorInv, MirrorTypes, TypeOK, Venue
<1>6. \A t \in Symbols : venue'[t] = IF t = s THEN after ELSE venue[t]
  BY <1>2, <1>5
<1>7. MirrorTypes'
  BY <1>2, <1>5 DEF MirrorInv, MirrorTypes, TypeOK, paper, Venue
<1>8. Dealt'
  BY <1>2, SameTrades DEF MirrorInv, Dealt, paper
<1>9. OnExchange'
  <2>1. \A t \in Symbols : Owned(t, venue'[t])
    BY <1>4, <1>6 DEF MirrorInv, OnExchange
  <2> QED BY <1>2, <2>1, SameTrades DEF OnExchange, paper
<1>10. FirstTrade'
  <2> SUFFICES ASSUME troubles' = 0, NEW t \in Symbols, NEW i \in Ids, Only(t, i)' PROVE OneTrade(t, i)'
    BY DEF FirstTrade
  <2>1. Only(t, i) /\ OneTrade(t, i)
    BY <1>2, SameTrades DEF MirrorInv, FirstTrade, paper
  <2> QED BY <1>2, <1>3, <1>6, <2>1 DEF OneTrade, AtWork, paper
<1> QED BY <1>7, <1>8, <1>9, <1>10 DEF MirrorInv

-----------------------------------------------------------------------------
(* The paper broker *)

LEMMA PaperOpenStep ==
  ASSUME MirrorInv, NEW s \in Symbols, NEW id \in Ids, PaperOpen(s, id)
  PROVE  MirrorInv'
<1>1. /\ trade[id] = None /\ id \notin Traded /\ book[s] = None
      /\ book' = [book EXCEPT ![s] = id]
      /\ trade' = [trade EXCEPT ![id] = [symbol |-> s, stop |-> 1]]
      /\ UNCHANGED <<mirrors, closing, rec, armed, control, venue, troubles>>
  BY DEF PaperOpen, Traded
<1>2. PICK phase \in {"prepare", "none"} : opening' = [opening EXCEPT ![id] = phase]
  BY DEF PaperOpen
<1>3. [symbol |-> s, stop |-> 1] \in [symbol : Symbols, stop : 1..(MaxMoves + 1)]
  BY MirrorAssumption
<1>4. None \notin [symbol : Symbols, stop : 1..(MaxMoves + 1)]
  BY MirrorAssumption
<1>5. /\ trade \in [Ids -> [symbol : Symbols, stop : 1..(MaxMoves + 1)] \cup {None}]
      /\ book \in [Symbols -> Ids \cup {None}] /\ opening \in [Ids -> Phase]
  BY DEF MirrorInv, MirrorTypes, TypeOK
<1>6. MirrorTypes'
  <2>1. trade' \in [Ids -> [symbol : Symbols, stop : 1..(MaxMoves + 1)] \cup {None}]
    BY <1>1, <1>3, <1>5
  <2>2. book' \in [Symbols -> Ids \cup {None}] /\ opening' \in [Ids -> Phase]
    BY <1>1, <1>2, <1>5 DEF Phase
  <2> QED BY <1>1, <2>1, <2>2 DEF MirrorInv, MirrorTypes, TypeOK
<1>7. trade'[id] = [symbol |-> s, stop |-> 1] /\ \A i \in Ids \ {id} : trade'[i] = trade[i]
  BY <1>1, <1>5
<1>8. Traded' = Traded \cup {id} /\ \A i \in Traded : SymbolOf(i)' = SymbolOf(i)
  <2>1. trade'[id] # None
    BY <1>3, <1>4, <1>7
  <2> QED BY <1>1, <1>7, <2>1 DEF Traded, SymbolOf
<1>9. SymbolOf(id)' = s
  BY <1>7 DEF SymbolOf
<1>10. TradesOf(s)' = TradesOf(s) \cup {id} /\ \A t \in Symbols \ {s} : TradesOf(t)' = TradesOf(t)
  BY <1>1, <1>8, <1>9 DEF TradesOf
<1>11. \A t \in Symbols : TradesOf(t) \subseteq TradesOf(t)'
  BY <1>10
<1>12. \A t \in Symbols : \A n : Faced(t, n) => Faced(t, n)'
  BY <1>11 DEF Faced
<1>13. Dealt'
  <2>1. \A t \in Symbols : book'[t] # None => book'[t] \in TradesOf(t)'
    BY <1>1, <1>5, <1>10 DEF MirrorInv, Dealt
  <2>2. \A i \in Ids : (opening'[i] # "none" \/ closing'[i].phase # "none" \/ mirrors'[i] # None)
                           => i \in Traded'
    BY <1>1, <1>2, <1>5, <1>8 DEF MirrorInv, Dealt
  <2>3. rec.snapshot \subseteq Traded' /\ rec.left \subseteq Traded'
        /\ (rec.phase \in {"stop", "record"} => rec.cur \in Traded')
    BY <1>8 DEF MirrorInv, Dealt
  <2>4. \A t \in Symbols : Faced(t, rec.seen[t])'
    BY <1>1, <1>12 DEF MirrorInv, Dealt, Faced
  <2> QED BY <1>1, <2>1, <2>2, <2>3, <2>4 DEF MirrorInv, Dealt
<1>14. OnExchange'
  <2>1. \A t \in Symbols : Owned(t, venue[t])
    BY DEF MirrorInv, OnExchange
  <2>2. \A t \in Symbols : Faced(t, venue[t].net)'
    BY <1>1, <1>12, <2>1 DEF Owned, Faced
  <2> QED BY <1>1, <1>11, <2>1, <2>2 DEF OnExchange, Owned
<1>15. FirstTrade'
  <2> SUFFICES ASSUME troubles' = 0, NEW t \in Symbols, NEW i \in Ids, Only(t, i)' PROVE OneTrade(t, i)'
    BY DEF FirstTrade
  <2>1. CASE t # s
    <3>1. Only(t, i) /\ OneTrade(t, i)
      BY <1>1, <1>10, <2>1 DEF MirrorInv, FirstTrade, Only
    <3>2. i # id
      BY <1>1, <3>1 DEF Only, TradesOf
    <3> QED BY <1>1, <1>2, <1>5, <3>1, <3>2 DEF OneTrade, AtWork
  <2>2. CASE t = s
    <3>1. i = id /\ TradesOf(s) = {}
      BY <1>1, <1>10, <2>2 DEF Only, TradesOf
    <3>2. venue[s].net = 0 /\ venue[s].resting = {} /\ rec.seen[s] = 0
      BY <3>1 DEF MirrorInv, OnExchange, Owned, Faced, Dealt
    <3>3. mirrors[id] = None
      BY <1>1 DEF MirrorInv, Dealt
    <3> QED BY <1>1, <2>2, <3>1, <3>2, <3>3 DEF OneTrade
  <2> QED BY <2>1, <2>2
<1> QED BY <1>6, <1>13, <1>14, <1>15 DEF MirrorInv

LEMMA PaperMoveStopStep == ASSUME MirrorInv, NEW s \in Symbols, PaperMoveStop(s) PROVE MirrorInv'
<1> DEFINE id == book[s]
<1>1. id \in Traded /\ trade[id].stop <= MaxMoves
      /\ trade' = [trade EXCEPT ![id].stop = @ + 1]
      /\ UNCHANGED <<book, mirrors, opening, closing, rec, armed, control, venue, troubles>>
  BY DEF PaperMoveStop, MirrorInv, Dealt, TradesOf
<1>2. trade \in [Ids -> [symbol : Symbols, stop : 1..(MaxMoves + 1)] \cup {None}]
  BY DEF MirrorInv, MirrorTypes, TypeOK
<1>3. trade[id] \in [symbol : Symbols, stop : 1..(MaxMoves + 1)] /\ id \in Ids
  BY <1>1, <1>2 DEF Traded
<1>4. trade'[id] \in [symbol : Symbols, stop : 1..(MaxMoves + 1)] /\ trade'[id].symbol = trade[id].symbol
  <2>1. trade'[id] = [trade[id] EXCEPT !.stop = trade[id].stop + 1]
    BY <1>1, <1>2, <1>3
  <2>2. trade[id].stop + 1 \in 1..(MaxMoves + 1)
    BY <1>1, <1>3, MirrorAssumption
  <2> QED BY <1>3, <2>1, <2>2
<1>5. \A i \in Ids \ {id} : trade'[i] = trade[i]
  BY <1>1, <1>2
<1>6. trade' \in [Ids -> [symbol : Symbols, stop : 1..(MaxMoves + 1)] \cup {None}]
  BY <1>1, <1>2, <1>4, <1>5
<1>7. trade'[id] # None /\ trade[id] # None
  BY <1>3, <1>4, MirrorAssumption
<1>8. Traded' = Traded /\ \A i \in Traded : SymbolOf(i)' = SymbolOf(i)
  BY <1>4, <1>5, <1>7 DEF Traded, SymbolOf
<1>9. \A t : TradesOf(t)' = TradesOf(t)
  BY <1>8 DEF TradesOf
<1>10. MirrorTypes'
  BY <1>1, <1>6 DEF MirrorInv, MirrorTypes, TypeOK
<1>11. Dealt' /\ OnExchange'
  BY <1>1, <1>8, <1>9 DEF MirrorInv, Dealt, OnExchange, Owned, Faced
<1>12. FirstTrade'
  BY <1>1, <1>9 DEF MirrorInv, FirstTrade, Only, OneTrade, AtWork
<1> QED BY <1>10, <1>11, <1>12 DEF MirrorInv

LEMMA PaperCloseStep == ASSUME MirrorInv, NEW s \in Symbols, PaperClose(s) PROVE MirrorInv'
<1> DEFINE id == book[s]
<1>1. id \in Ids /\ id \in TradesOf(s) /\ id \in Traded
      /\ book' = [book EXCEPT ![s] = None] /\ UNCHANGED <<trade, opening, rec, armed, control>>
  BY DEF PaperClose, MirrorInv, MirrorTypes, TypeOK, Dealt, TradesOf
<1>2. book' \in [Symbols -> Ids \cup {None}] /\ \A t \in Symbols : book'[t] \in {book[t], None}
  BY <1>1 DEF MirrorInv, MirrorTypes, TypeOK
<1>3. CASE UNCHANGED <<mirrors, closing, venue, troubles>>
  <2>1. MirrorTypes'
    BY <1>1, <1>2, <1>3 DEF MirrorInv, MirrorTypes, TypeOK
  <2>2. Dealt' /\ OnExchange'
    BY <1>1, <1>2, <1>3, SameTrades DEF MirrorInv, Dealt, OnExchange
  <2>3. FirstTrade'
    BY <1>1, <1>3, SameTrades DEF MirrorInv, FirstTrade, OneTrade, AtWork
  <2> QED BY <2>1, <2>2, <2>3 DEF MirrorInv
<1>4. ASSUME NEW ok \in BOOLEAN, mirrors' = [mirrors EXCEPT ![id] = None],
             Call(s, Cancelled(venue[s]), ok),
             closing' = [closing EXCEPT ![id] =
                            IF ok THEN [phase |-> "read", qty |-> 0] ELSE NotClosing]
      PROVE  MirrorInv'
  <2>1. /\ OnExchange'
        /\ venue' \in [Symbols -> Venue] /\ troubles' \in 0..MaxTroubles
        /\ troubles' = 0 =>
             /\ ok /\ troubles = 0
             /\ \A t \in Symbols :
                   /\ venue'[t].net = venue[t].net
                   /\ t # s => venue'[t] = venue[t]
                   /\ t = s => venue'[t].resting = {}
    BY <1>1, <1>4, CancelCall
  <2>2. /\ closing' \in [Ids -> [phase : {"none", "read", "reduce"}, qty : Nat]]
        /\ \A i \in Ids \ {id} : closing'[i] = closing[i]
    BY <1>1, <1>4 DEF MirrorInv, MirrorTypes, TypeOK, NotClosing
  <2>3. /\ mirrors' \in [Ids -> 0..(MaxMoves + 1) \cup {None}]
        /\ \A i \in Ids : mirrors'[i] \in {mirrors[i], None}
        /\ mirrors'[id] = None
    BY <1>1, <1>4 DEF MirrorInv, MirrorTypes, TypeOK
  <2>4. MirrorTypes'
    BY <1>1, <1>2, <2>1, <2>2, <2>3 DEF MirrorInv, MirrorTypes, TypeOK, Venue
  <2>5. Dealt'
    BY <1>1, <1>2, <2>2, <2>3, SameTrades DEF MirrorInv, Dealt
  <2>6. FirstTrade'
    <3> SUFFICES ASSUME troubles' = 0, NEW t \in Symbols, NEW i \in Ids, Only(t, i)' PROVE OneTrade(t, i)'
      BY DEF FirstTrade
    <3>1. Only(t, i) /\ OneTrade(t, i)
      BY <1>1, <2>1, SameTrades DEF MirrorInv, FirstTrade
    <3>2. t = s => i = id
      BY <1>1, <3>1 DEF Only
    <3> QED BY <1>1, <2>1, <2>3, <3>1, <3>2 DEF OneTrade, AtWork
  <2> QED BY <2>1, <2>4, <2>5, <2>6 DEF MirrorInv
<1> QED BY <1>3, <1>4 DEF PaperClose

-----------------------------------------------------------------------------
(* The control plane and restarts *)

LEMMA ControlStep == ASSUME MirrorInv, RefreshControl \/ ControlUnread \/ Switch PROVE MirrorInv'
<1>1. UNCHANGED <<book, trade, mirrors, opening, closing, rec, venue>>
      /\ armed' \in BOOLEAN /\ control' \in BOOLEAN
  BY DEF RefreshControl, ControlUnread, Switch, paper, MirrorInv, MirrorTypes, TypeOK
<1>2. troubles' \in 0..MaxTroubles /\ (troubles' = 0 => troubles = 0)
  BY MirrorAssumption DEF RefreshControl, ControlUnread, Switch, MirrorInv, MirrorTypes, TypeOK
<1>3. MirrorTypes'
  BY <1>1, <1>2 DEF MirrorInv, MirrorTypes, TypeOK
<1>4. Dealt' /\ OnExchange'
  BY <1>1, SameTrades DEF MirrorInv, Dealt, OnExchange
<1>5. FirstTrade'
  BY <1>1, <1>2, SameTrades DEF MirrorInv, FirstTrade, OneTrade, AtWork
<1> QED BY <1>3, <1>4, <1>5 DEF MirrorInv

LEMMA IdleTypes == /\ Idle \in Rec /\ Idle.phase = "idle" /\ Idle.seen = [s \in Symbols |-> 0]
                   /\ Idle.snapshot = {} /\ Idle.left = {} /\ Idle.todo = {} /\ Idle.cur = None
  BY DEF Idle, Rec

LEMMA RestartStep == ASSUME MirrorInv, Restart PROVE MirrorInv'
<1>1. /\ mirrors' = [i \in Ids |-> None] /\ opening' = [i \in Ids |-> "none"]
      /\ closing' = [i \in Ids |-> NotClosing] /\ rec' = Idle /\ armed' = FALSE
      /\ UNCHANGED <<book, trade, control, venue>>
  BY DEF Restart, paper
<1>2. troubles' \in 0..MaxTroubles /\ troubles' # 0
  BY MirrorAssumption DEF Restart, MirrorInv, MirrorTypes, TypeOK
<1>3. MirrorTypes'
  BY <1>1, <1>2, IdleTypes DEF MirrorInv, MirrorTypes, TypeOK, Rec, Phase, NotClosing
<1>4. Dealt'
  BY <1>1, IdleTypes, SameTrades DEF MirrorInv, Dealt, NotClosing, Faced
<1>5. OnExchange'
  BY <1>1, SameTrades DEF MirrorInv, OnExchange
<1> QED BY <1>2, <1>3, <1>4, <1>5 DEF MirrorInv, FirstTrade

-----------------------------------------------------------------------------
LEMMA MirrorStart == Init => MirrorInv
<1> SUFFICES ASSUME Init PROVE MirrorInv
  OBVIOUS
<1>1. Traded = {} /\ \A s : TradesOf(s) = {}
  BY DEF Init, Traded, TradesOf
<1>2. MirrorTypes
  <2>1. [net |-> 0, resting |-> {}, stop |-> 0] \in [net : Int, resting : SUBSET Ids, stop : 0..(MaxMoves + 1)]
    BY MirrorAssumption
  <2>2. /\ Idle.phase \in {"idle", "next", "stop", "record", "positions", "sweep", "close"}
        /\ Idle.snapshot \subseteq Ids /\ Idle.left \subseteq Ids /\ Idle.todo \subseteq Symbols
        /\ Idle.cur \in Ids \cup Symbols \cup {None} /\ Idle.seen \in [Symbols -> Int]
        /\ Idle \in Rec
    BY IdleTypes
  <2>3. NotClosing \in [phase : {"none", "read", "reduce"}, qty : Nat]
    BY DEF NotClosing
  <2>4. 0 \in 0..MaxTroubles
    BY MirrorAssumption
  <2> QED BY <2>1, <2>2, <2>3, <2>4 DEF Init, MirrorTypes, TypeOK, Phase
<1>3. Dealt
  BY IdleTypes DEF Init, Dealt, NotClosing, Faced
<1>4. OnExchange
  BY DEF Init, OnExchange, Owned, Faced
<1>5. FirstTrade
  BY <1>1 DEF FirstTrade, Only
<1> QED BY <1>2, <1>3, <1>4, <1>5 DEF MirrorInv

LEMMA MirrorStep == MirrorInv /\ [Next]_vars => MirrorInv'
<1> SUFFICES ASSUME MirrorInv, [Next]_vars PROVE MirrorInv'
  OBVIOUS
<1>1. CASE \E s \in Symbols :
              \/ \E id \in Ids : PaperOpen(s, id)
              \/ PaperMoveStop(s)
              \/ PaperClose(s)
              \/ Trigger(s)
              \/ \E id \in Ids : FillResting(s, id)
  BY <1>1, PaperOpenStep, PaperMoveStopStep, PaperCloseStep, TriggerStep, FillRestingStep
<1>2. CASE \E id \in Ids : OpenTask(id) \/ CloseTask(id)
  BY <1>2, SubmitStep, FallbackStep, TrackStep, OpenBracketsStep, OpenRecordStep, ReadLiveStep,
     CloseMarketStep DEF OpenTask, CloseTask
<1>3. CASE ReconcileTask
  BY <1>3, ReconcileStep, RecBracketsStep, RecRecordStep, RecNextStep, RecOrphansStep, RecCloseStep,
     RecSweepStep DEF ReconcileTask
<1>4. CASE RefreshControl \/ ControlUnread \/ Switch
  BY <1>4, ControlStep
<1>5. CASE Restart
  BY <1>5, RestartStep
<1>6. CASE UNCHANGED vars
  <2>1. UNCHANGED <<book, trade, mirrors, opening, closing, rec, armed, control, venue, troubles>>
    BY <1>6 DEF vars, paper
  <2> QED BY <2>1, SameTrades
          DEF MirrorInv, MirrorTypes, TypeOK, Dealt, OnExchange, FirstTrade, OneTrade, AtWork
<1> QED BY <1>1, <1>2, <1>3, <1>4, <1>5, <1>6 DEF Next

LEMMA MirrorSafe == MirrorInv => MirrorOK
<1> SUFFICES ASSUME MirrorInv PROVE MirrorOK
  OBVIOUS
<1>1. TypeOK
  BY DEF MirrorInv, MirrorTypes
<1>2. NoReversal
  <2> SUFFICES ASSUME NEW s \in Symbols, venue[s].net # 0
               PROVE  \E id \in Traded : SymbolOf(id) = s /\ Side(id) * venue[s].net > 0
    BY DEF NoReversal
  <2>1. PICK id \in TradesOf(s) : Faces(id, venue[s].net)
    BY OfSymbol DEF Owned, Faced
  <2>2. venue[s].net \in Int
    BY OfSymbol DEF Venue
  <2>3. CASE id \in Shorts
    <3>1. Side(id) = -1 /\ venue[s].net < 0
      BY <2>1, <2>3 DEF Side, Faces
    <3>2. \A n \in Int : n < 0 => -1 * n > 0
      OBVIOUS
    <3>3. Side(id) * venue[s].net > 0
      BY <2>2, <3>1, <3>2
    <3> QED BY <3>3 DEF TradesOf
  <2>4. CASE id \notin Shorts
    <3>1. Side(id) = 1 /\ venue[s].net > 0
      BY <2>1, <2>4 DEF Side, Faces
    <3> QED BY <2>2, <3>1 DEF TradesOf
  <2> QED BY <2>3, <2>4
<1>3. Protected
  <2> SUFFICES ASSUME NEW s \in Symbols, troubles = 0, Quiet(s), TradesOf(s) = {book[s]},
                      venue[s].net # 0, mirrors[book[s]] # None
               PROVE  venue[s].stop # 0
    BY DEF Protected, TradesOf
  <2>1. book[s] \in Ids /\ Only(s, book[s])
    BY DEF Only, TradesOf, Traded
  <2>2. OneTrade(s, book[s])
    BY <2>1 DEF MirrorInv, FirstTrade
  <2>3. rec.phase = "idle" /\ opening[book[s]] = "none"
    BY IdleTypes DEF Quiet, TradesOf
  <2> QED BY <2>2, <2>3 DEF OneTrade, AtWork
<1> QED BY <1>1, <1>2, <1>3 DEF MirrorOK

(* However the tasks, the reconcile passes, lost replies and restarts interleave, the exchange
   never faces a way no paper trade of the symbol faced, and the first position of a symbol is
   not left without its brackets: see MirrorOK. *)
THEOREM MirrorHolds == Spec => []MirrorOK
<1> QED BY MirrorStart, MirrorStep, MirrorSafe, PTL DEF Spec

-----------------------------------------------------------------------------
(* Live trading *)

Polls == [status : Statuses, known : 0..Cardinality(LiveSymbols), rows : SUBSET (ExitIds \cup {0}),
          since : 0..MaxExits]

Underway == {s \in LiveSymbols : placing[s] # NoCall}
At(s, steps) == placing[s] # NoCall /\ placing[s].step \in steps
Clicking(c, steps) == clicks[c] # NoCall /\ clicks[c].step \in steps

TabTypes ==
    /\ provider \in {"bybit", "binance"} /\ mode \in BOOLEAN /\ ready \in BOOLEAN /\ probed \in BOOLEAN
    /\ known \in Nat /\ streak \in Nat /\ entries \in 0..MaxEntries /\ faults \in Nat
    /\ poll \in Polls \cup {NoPoll}
    /\ placing \in [LiveSymbols -> Placements \cup {NoCall}]

(* What was submitted is under way, has failed, or has become known or a row *)
Counted ==
    LET n == Cardinality(Underway) IN
    /\ streak + n <= entries
    /\ known + n <= entries + Cardinality(LiveSymbols)
    /\ Len(liveRows) + n <= entries
    /\ streak + n < FailureLimit + Cardinality(LiveSymbols)
    /\ mode => streak < FailureLimit

TabInv == TabTypes /\ Counted

(* A position is as large as the entries that reached the exchange allow; without a stop
   it belongs to the placement that opened it *)
Explained(s) ==
    /\ LET n == IF At(s, {"entry"}) THEN entries - 1 ELSE entries IN position[s] \in -n..n
    /\ s \in stops \cup bared => position[s] # 0
    /\ position[s] # 0 /\ s \notin stops \cup bared =>
          At(s, {"protect", "rollback"}) /\ position[s] = placing[s].side
    /\ provider = "bybit" => s \notin bared /\ ~At(s, {"protect", "rollback"})

SiteInv ==
    /\ position \in [LiveSymbols -> Int] /\ stops \subseteq LiveSymbols /\ bared \subseteq LiveSymbols
    /\ \A s \in LiveSymbols : Explained(s)

Exits == [symbol : LiveSymbols, pnl : Pnls]

BookTypes ==
    /\ exits \in Seq(Exits) /\ Len(exits) <= MaxExits
    /\ clicks \in [Closers -> Closes \cup {NoCall}]
    /\ liveRows \in Seq(Trades) /\ realized \in Int /\ torn \in BOOLEAN

(* A close carries the exit it made and a row that is there *)
Carries(c) ==
    /\ Clicking(c, {"order"}) => clicks[c].size # 0
    /\ Clicking(c, {"cancel"}) => provider = "binance" /\ (clicks[c].size # 0 => clicks[c].exit \in DOMAIN exits)
    /\ Clicking(c, {"select", "update", "credit"}) => clicks[c].exit \in DOMAIN exits
    /\ Clicking(c, {"update"}) => clicks[c].row \in DOMAIN liveRows

Due == [c \in Closers |-> IF Clicking(c, {"credit"}) THEN exits[clicks[c].exit].pnl ELSE 0]
Pnl == [i \in DOMAIN liveRows |-> liveRows[i].pnl]

(* The account is behind its rows by what closes have yet to credit *)
Booked == ~torn => realized + SumFunction(Due) = SumFunction(Pnl)

BookInv ==
    /\ BookTypes /\ Booked
    /\ \A c \in Closers : Carries(c)
    /\ \A i \in DOMAIN liveRows : liveRows[i].status = "open" => liveRows[i].pnl = 0

PollFits == poll # NoPoll => poll.since <= Len(exits)

LiveInv == TabInv /\ SiteInv /\ BookInv /\ PollFits

-----------------------------------------------------------------------------
LEMMA Finite == /\ IsFiniteSet(LiveSymbols) /\ IsFiniteSet(Closers) /\ Cardinality(LiveSymbols) \in Nat
                /\ MaxEntries \in Nat /\ MaxExits \in Nat /\ MaxFaults \in Nat /\ FailureLimit \in Nat /\ FailureLimit > 0
                /\ NoCall \notin Placements /\ NoCall \notin Closes
  BY LiveAssumption, FS_CardinalityType

(* A placement that starts or ends is one more or one less under way *)
LEMMA Inflight ==
  ASSUME NEW s \in LiveSymbols, \A t \in LiveSymbols \ {s} : placing'[t] = placing[t]
  PROVE  /\ Cardinality(Underway) \in 0..Cardinality(LiveSymbols)
         /\ Cardinality(Underway') \in 0..Cardinality(LiveSymbols)
         /\ placing[s] = NoCall /\ placing'[s] # NoCall => Cardinality(Underway') = Cardinality(Underway) + 1
         /\ placing[s] # NoCall /\ placing'[s] = NoCall => Cardinality(Underway') = Cardinality(Underway) - 1
         /\ (placing[s] = NoCall <=> placing'[s] = NoCall) => Underway' = Underway
<1>1. /\ Underway \in SUBSET LiveSymbols /\ Underway' \in SUBSET LiveSymbols
      /\ placing[s] = NoCall /\ placing'[s] # NoCall => Underway' = Underway \cup {s} /\ s \notin Underway
      /\ placing[s] # NoCall /\ placing'[s] = NoCall => Underway' = Underway \ {s} /\ s \in Underway
      /\ (placing[s] = NoCall <=> placing'[s] = NoCall) => Underway' = Underway
  BY DEF Underway
<1>2. /\ IsFiniteSet(Underway) /\ Cardinality(Underway) <= Cardinality(LiveSymbols)
      /\ IsFiniteSet(Underway') /\ Cardinality(Underway') <= Cardinality(LiveSymbols)
  BY <1>1, Finite, FS_Subset
<1>3. Cardinality(Underway) \in Nat /\ Cardinality(Underway') \in Nat /\ Cardinality(LiveSymbols) \in Nat
  BY <1>2, Finite, FS_CardinalityType
<1>4. Cardinality(Underway \cup {s}) = IF s \in Underway THEN Cardinality(Underway) ELSE Cardinality(Underway) + 1
  BY <1>2, FS_AddElement
<1>5. Cardinality(Underway \ {s}) = IF s \in Underway THEN Cardinality(Underway) - 1 ELSE Cardinality(Underway)
  BY <1>2, FS_RemoveElement
<1> DEFINE n == Cardinality(Underway)  m == Cardinality(Underway')
<1>6. placing[s] = NoCall /\ placing'[s] # NoCall => m = n + 1
  BY <1>1, <1>4
<1>7. placing[s] # NoCall /\ placing'[s] = NoCall => m = n - 1
  BY <1>1, <1>5
<1>8. n \in 0..Cardinality(LiveSymbols) /\ m \in 0..Cardinality(LiveSymbols)
  <2> HIDE DEF n, m
  <2> QED BY <1>2, <1>3 DEF n, m
<1> QED BY <1>1, <1>6, <1>7, <1>8

LEMMA HeldCount == Cardinality(Held) \in 0..Cardinality(LiveSymbols)
<1>1. Held \in SUBSET LiveSymbols
  BY DEF Held
<1>2. IsFiniteSet(Held) /\ Cardinality(Held) <= Cardinality(LiveSymbols)
  BY <1>1, Finite, FS_Subset
<1> QED BY <1>2, Finite, FS_CardinalityType

(* A set laid out as a sequence: all of it, and nothing twice *)
LEMMA LaidOut ==
  ASSUME NEW S, IsFiniteSet(S)
  PROVE  /\ SetToSeq(S) \in Seq(S) /\ Len(SetToSeq(S)) = Cardinality(S)
         /\ Range(SetToSeq(S)) = S
<1> DEFINE n == Cardinality(S)  q == SetToSeq(S)
<1>1. n \in Nat /\ ExistsBijection(1..n, S)
  BY FS_CardinalityType
<1>2. \E f \in [1..n -> S] : IsInjective(f)
  BY <1>1 DEF ExistsBijection, Bijection, Injection, IsInjective
<1>3. q \in [1..n -> S] /\ IsInjective(q)
  BY <1>2 DEF SetToSeq
<1>4. q \in Injection(1..n, S)
  BY <1>3 DEF Injection, IsInjective
<1>5. IsFiniteSet(1..n) /\ Cardinality(1..n) = n
  BY <1>1, FS_Interval
<1>6. q \in Surjection(1..n, S)
  BY <1>4, <1>5, FS_Injection
<1>7. Range(q) = S
  BY <1>3, <1>6 DEF Range, Surjection
<1>8. q \in Seq(S) /\ Len(q) = n
  <2> HIDE DEF q
  <2> QED BY <1>1, <1>3
<1> QED BY <1>7, <1>8

-----------------------------------------------------------------------------
(* The tab: what it counts *)

LEMMA Numbers ==
  ASSUME LiveInv
  PROVE  /\ Cardinality(Underway) \in Nat /\ Cardinality(Underway) <= Cardinality(LiveSymbols)
         /\ Len(liveRows) \in Nat /\ known \in Nat /\ streak \in Nat /\ entries \in Nat
<1>1. Underway \in SUBSET LiveSymbols
  BY DEF Underway
<1>2. IsFiniteSet(Underway) /\ Cardinality(Underway) <= Cardinality(LiveSymbols)
  BY <1>1, Finite, FS_Subset
<1>3. Cardinality(Underway) \in Nat
  BY <1>2, FS_CardinalityType
<1>4. entries \in Nat
  BY Finite DEF LiveInv, TabInv, TabTypes
<1> QED BY <1>2, <1>3, <1>4 DEF LiveInv, TabInv, TabTypes, BookInv, BookTypes

LEMMA CountedKept ==
  ASSUME LiveInv, UNCHANGED <<placing, entries, streak>>, mode' => mode,
         known' = known \/ known' \in 0..Cardinality(LiveSymbols), Len(liveRows') = Len(liveRows)
  PROVE  Counted'
<1> DEFINE n == Cardinality(Underway)
<1>1. Cardinality(Underway') = n
  BY DEF Underway
<1>2. n \in Nat /\ streak \in Nat /\ entries \in Nat /\ known \in Nat /\ Cardinality(LiveSymbols) \in Nat
  BY Numbers, Finite
<1>3. Counted
  BY DEF LiveInv, TabInv
<1> HIDE DEF n
<1>4. known' + n <= entries + Cardinality(LiveSymbols)
  BY <1>2, <1>3 DEF Counted, n
<1>5. mode' => streak' < FailureLimit
  BY <1>3 DEF Counted
<1> QED BY <1>1, <1>2, <1>3, <1>4, <1>5 DEF Counted, n

LEMMA TabKept ==
  ASSUME LiveInv, UNCHANGED <<provider, mode, ready, probed, known, streak, poll, placing, entries>>,
         faults' \in Nat, Len(liveRows') = Len(liveRows)
  PROVE  TabInv'
<1>1. Counted'
  BY CountedKept
<1>2. TabTypes'
  BY DEF LiveInv, TabInv, TabTypes
<1> QED BY <1>1, <1>2 DEF TabInv

LEMMA FaultCounts ==
  ASSUME LiveInv, Fault \/ UNCHANGED faults
  PROVE  faults' \in Nat
  BY DEF LiveInv, TabInv, TabTypes, Fault

LEMMA ArmTab == ASSUME LiveInv, Arm \/ Disarm PROVE TabInv'
<1>1. CASE Arm
  <2> DEFINE n == Cardinality(Underway)
  <2>1. Cardinality(Underway') = n
    BY <1>1 DEF Arm, Underway
  <2>2. Counted' /\ TabTypes'
    <3>1. n \in Nat /\ streak \in Nat /\ entries \in Nat /\ known \in Nat /\ Cardinality(LiveSymbols) \in Nat
      BY Numbers, Finite
    <3>2. Counted /\ streak' = 0 /\ known' = known /\ entries' = entries /\ liveRows' = liveRows
      BY <1>1 DEF LiveInv, TabInv, Arm, storeVars
    <3>3. FailureLimit \in Nat /\ 0 < FailureLimit
      BY Finite
    <3> HIDE DEF n
    <3>4. Counted'
      BY <2>1, <3>1, <3>2, <3>3 DEF Counted, n
    <3>5. TabTypes'
      BY <1>1 DEF LiveInv, TabInv, TabTypes, Arm
    <3> QED BY <3>4, <3>5
  <2> QED BY <2>2 DEF TabInv
<1>2. CASE Disarm
  <2>1. Counted'
    <3>1. UNCHANGED <<placing, entries, streak, known>> /\ ~mode' /\ liveRows' = liveRows
      BY <1>2 DEF Disarm, storeVars
    <3> QED BY <3>1, CountedKept
  <2>2. TabTypes'
    BY <1>2 DEF LiveInv, TabInv, TabTypes, Disarm
  <2> QED BY <2>1, <2>2 DEF TabInv
<1> QED BY <1>1, <1>2

LEMMA RowsNamed == ASSUME LiveInv PROVE Recorded \subseteq ExitIds \cup {0}
<1>1. \A i \in DOMAIN liveRows : liveRows[i] \in Trades
  BY DEF LiveInv, BookInv, BookTypes
<1>2. \A r \in Trades : r.exit \in ExitIds \cup {0}
  BY DEF Trades
<1> QED BY <1>1, <1>2 DEF Recorded, Range

LEMMA PollRowsTab ==
  ASSUME LiveInv, NEW status \in Statuses, NEW failed \in SUBSET RowReads, PollRows(status, failed)
  PROVE  TabInv'
<1>1. Counted'
  <2>1. UNCHANGED <<placing, entries, streak, known, mode, liveRows>>
    BY DEF PollRows, storeVars
  <2> QED BY <2>1, CountedKept
<1> DEFINE n == IF mode THEN HeldRead(failed) ELSE 0
<1>2. poll' \in Polls
  <2>1. n \in 0..Cardinality(LiveSymbols)
    BY HeldCount, Finite DEF HeldRead
  <2>2. RowsRead(failed) \in SUBSET (ExitIds \cup {0})
    BY RowsNamed DEF RowsRead
  <2>3. Len(exits) \in 0..MaxExits
    BY Finite DEF LiveInv, BookInv, BookTypes
  <2>4. poll' = [status |-> status, known |-> n, rows |-> RowsRead(failed), since |-> Len(exits)]
    BY DEF PollRows
  <2> HIDE DEF n
  <2> QED BY <2>1, <2>2, <2>3, <2>4 DEF Polls
<1>3. faults' \in Nat
  BY FaultCounts DEF PollRows, Reading
<1>4. TabTypes'
  BY <1>2, <1>3 DEF LiveInv, TabInv, TabTypes, PollRows
<1> QED BY <1>1, <1>4 DEF TabInv

LEMMA PollExitsTab == ASSUME LiveInv, NEW failed \in SUBSET ExitReads, PollExits(failed) PROVE TabInv'
<1>1. poll \in Polls
  BY DEF LiveInv, TabInv, TabTypes, PollExits
<1>2. known' = known \/ known' = poll.known
  BY DEF PollExits
<1>3. poll.known \in 0..Cardinality(LiveSymbols) /\ poll.known \in Nat
  BY <1>1, Finite DEF Polls
<1>4. ready' \in BOOLEAN /\ probed' \in BOOLEAN /\ mode' \in BOOLEAN /\ (mode' => mode)
  <2>1. ready' \in BOOLEAN /\ probed' \in BOOLEAN
    BY DEF PollExits
  <2>2. mode' = mode \/ mode' = (mode /\ ready')
    BY DEF PollExits
  <2> QED BY <2>1, <2>2 DEF LiveInv, TabInv, TabTypes
<1>5. Counted'
  <2>1. UNCHANGED <<placing, entries, streak, liveRows>>
    BY DEF PollExits, storeVars
  <2>2. known' = known \/ known' \in 0..Cardinality(LiveSymbols)
    BY <1>2, <1>3
  <2> QED BY <1>4, <2>1, <2>2, CountedKept
<1>6. known' \in Nat
  BY <1>2, <1>3 DEF LiveInv, TabInv, TabTypes
<1>7. faults' \in Nat
  BY FaultCounts DEF PollExits, Reading
<1>8. TabTypes'
  BY <1>4, <1>6, <1>7 DEF LiveInv, TabInv, TabTypes, PollExits
<1> QED BY <1>5, <1>8 DEF TabInv

LEMMA SubmitTab ==
  ASSUME LiveInv, NEW s \in LiveSymbols, NEW side \in {1, -1}, SubmitEntry(s, side)
  PROVE  TabInv'
<1> DEFINE new == [side |-> side, step |-> "entry"]
<1>1. new \in Placements /\ new # NoCall
  BY Finite DEF Placements, Pnls
<1>2. placing' = [placing EXCEPT ![s] = new]
  BY DEF SubmitEntry
<1> HIDE DEF new
<1>3. /\ placing' \in [LiveSymbols -> Placements \cup {NoCall}]
      /\ placing'[s] = new /\ \A t \in LiveSymbols \ {s} : placing'[t] = placing[t]
  BY <1>1, <1>2 DEF LiveInv, TabInv, TabTypes
<1>4. placing[s] = NoCall /\ mode
  BY DEF SubmitEntry, Gate
<1> DEFINE n == Cardinality(Underway)  m == Cardinality(Underway')
<1>5. m = n + 1 /\ m <= Cardinality(LiveSymbols) /\ m \in Nat
  BY <1>1, <1>3, <1>4, Inflight, Finite
<1>6. entries' = entries + 1 /\ entries' <= MaxEntries /\ entries' \in 0..MaxEntries
  BY Finite DEF SubmitEntry, LiveInv, TabInv, TabTypes
<1>7. UNCHANGED <<provider, mode, ready, probed, known, streak, poll, faults, liveRows>>
  BY DEF SubmitEntry, tabVars, storeVars
<1>8. Counted'
  <2>1. /\ n \in Nat /\ streak \in Nat /\ entries \in Nat /\ known \in Nat /\ Len(liveRows) \in Nat
        /\ Cardinality(LiveSymbols) \in Nat /\ FailureLimit \in Nat
    BY Numbers, Finite
  <2>2. Counted
    BY DEF LiveInv, TabInv
  <2>3. streak < FailureLimit
    BY <1>4, <2>2 DEF Counted
  <2> HIDE DEF n, m
  <2>4. /\ streak + n <= entries /\ known + n <= entries + Cardinality(LiveSymbols) /\ Len(liveRows) + n <= entries
    BY <2>2 DEF Counted, n
  <2>5. streak' + m <= entries' /\ known' + m <= entries' + Cardinality(LiveSymbols) /\ Len(liveRows') + m <= entries'
    BY <1>5, <1>6, <1>7, <2>1, <2>4
  <2>6. streak' + m < FailureLimit + Cardinality(LiveSymbols)
    BY <1>5, <1>7, <2>1, <2>3
  <2> QED BY <1>7, <2>3, <2>5, <2>6 DEF Counted, m
<1>9. TabTypes'
  BY <1>3, <1>6, <1>7 DEF LiveInv, TabInv, TabTypes
<1> QED BY <1>8, <1>9 DEF TabInv

LEMMA Ongoing ==
  ASSUME LiveInv, NEW s \in LiveSymbols, placing[s] # NoCall,
         NEW step \in {"entry", "protect", "persist", "rollback"}, placing' = [placing EXCEPT ![s].step = step]
  PROVE  /\ placing' \in [LiveSymbols -> Placements \cup {NoCall}]
         /\ placing'[s] # NoCall /\ placing'[s].step = step /\ placing'[s].side = placing[s].side
         /\ \A t \in LiveSymbols \ {s} : placing'[t] = placing[t]
<1> DEFINE p == placing[s]  q == [p EXCEPT !.step = step]
<1>1. placing \in [LiveSymbols -> Placements \cup {NoCall}] /\ p \in Placements
  BY DEF LiveInv, TabInv, TabTypes
<1>2. q \in Placements /\ q.step = step /\ q.side = p.side
  BY <1>1 DEF Placements
<1>3. q # NoCall
  BY <1>2, Finite
<1>4. placing' = [placing EXCEPT ![s] = q]
  BY <1>1
<1> HIDE DEF q, p
<1>5. placing'[s] = q /\ \A t \in LiveSymbols \ {s} : placing'[t] = placing[t]
  BY <1>1, <1>4
<1>6. placing' \in [LiveSymbols -> Placements \cup {NoCall}]
  BY <1>1, <1>2, <1>4
<1> QED BY <1>2, <1>3, <1>5, <1>6 DEF p

LEMMA Ended ==
  ASSUME LiveInv, NEW s \in LiveSymbols, placing[s] # NoCall, placing' = [placing EXCEPT ![s] = NoCall]
  PROVE  /\ placing' \in [LiveSymbols -> Placements \cup {NoCall}]
         /\ placing'[s] = NoCall /\ \A t \in LiveSymbols \ {s} : placing'[t] = placing[t]
         /\ Cardinality(Underway') = Cardinality(Underway) - 1
         /\ Cardinality(Underway) \in Nat /\ Cardinality(Underway') \in Nat
<1>1. /\ placing' \in [LiveSymbols -> Placements \cup {NoCall}]
      /\ placing'[s] = NoCall /\ \A t \in LiveSymbols \ {s} : placing'[t] = placing[t]
  BY DEF LiveInv, TabInv, TabTypes
<1>2. /\ Cardinality(Underway') = Cardinality(Underway) - 1
      /\ Cardinality(Underway) \in 0..Cardinality(LiveSymbols) /\ Cardinality(Underway') \in 0..Cardinality(LiveSymbols)
  BY <1>1, Inflight
<1> QED BY <1>1, <1>2, Finite

LEMMA ToTab ==
  ASSUME LiveInv, NEW s \in LiveSymbols, placing[s] # NoCall,
         NEW step \in {"entry", "protect", "persist", "rollback"}, To(s, step),
         UNCHANGED <<provider, entries>>, faults' \in Nat, Len(liveRows') = Len(liveRows)
  PROVE  TabInv'
<1>1. /\ placing' \in [LiveSymbols -> Placements \cup {NoCall}]
      /\ placing'[s] # NoCall /\ \A t \in LiveSymbols \ {s} : placing'[t] = placing[t]
  BY Ongoing DEF To
<1>2. Underway' = Underway
  BY <1>1, Inflight
<1>3. UNCHANGED <<mode, ready, probed, known, streak, poll>>
  BY DEF To, tabVars
<1>4. Counted'
  <2>1. Counted
    BY DEF LiveInv, TabInv
  <2> QED BY <1>2, <1>3, <2>1 DEF Counted
<1>5. TabTypes'
  BY <1>1, <1>3 DEF LiveInv, TabInv, TabTypes
<1> QED BY <1>4, <1>5 DEF TabInv

LEMMA FailedTab ==
  ASSUME LiveInv, NEW s \in LiveSymbols, placing[s] # NoCall, Failed(s),
         UNCHANGED <<provider, entries>>, faults' \in Nat, Len(liveRows') = Len(liveRows)
  PROVE  TabInv'
<1> DEFINE n == Cardinality(Underway)  m == Cardinality(Underway')
<1>1. placing' \in [LiveSymbols -> Placements \cup {NoCall}] /\ m = n - 1 /\ n \in Nat /\ m \in Nat
  BY Ended DEF Failed
<1>2. streak' = streak + 1 /\ UNCHANGED <<probed, known>>
  BY DEF Failed
<1> DEFINE trip == streak' >= FailureLimit
<1>3. mode' = (mode /\ ~trip) /\ ready' = (ready /\ ~trip) /\ (poll' = NoPoll \/ poll' = poll)
  BY DEF Failed
<1>4. ~trip => streak' < FailureLimit
  BY <1>2, Finite, Numbers
<1> HIDE DEF trip
<1>5. mode' \in BOOLEAN /\ ready' \in BOOLEAN /\ poll' \in Polls \cup {NoPoll}
  BY <1>3 DEF LiveInv, TabInv, TabTypes
<1>6. mode' => streak' < FailureLimit
  BY <1>3, <1>4
<1>7. Counted'
  <2>1. /\ streak \in Nat /\ entries \in Nat /\ known \in Nat /\ Len(liveRows) \in Nat
        /\ Cardinality(LiveSymbols) \in Nat /\ FailureLimit \in Nat
    BY Numbers, Finite
  <2>2. /\ streak + n <= entries /\ known + n <= entries + Cardinality(LiveSymbols) /\ Len(liveRows) + n <= entries
        /\ streak + n < FailureLimit + Cardinality(LiveSymbols)
    BY DEF LiveInv, TabInv, Counted
  <2> HIDE DEF n, m
  <2>3. /\ streak' + m <= entries' /\ known' + m <= entries' + Cardinality(LiveSymbols)
        /\ Len(liveRows') + m <= entries' /\ streak' + m < FailureLimit + Cardinality(LiveSymbols)
    BY <1>1, <1>2, <2>1, <2>2
  <2> QED BY <1>6, <2>3 DEF Counted, m
<1>8. TabTypes'
  <2>1. streak' \in Nat
    BY <1>2, Numbers
  <2> QED BY <1>1, <1>2, <1>5, <2>1 DEF LiveInv, TabInv, TabTypes
<1> QED BY <1>7, <1>8 DEF TabInv

LEMMA FilledTab ==
  ASSUME LiveInv, NEW s \in LiveSymbols, placing[s] # NoCall, Filled(s),
         UNCHANGED <<provider, entries, faults>>, Len(liveRows') = Len(liveRows) + 1
  PROVE  TabInv'
<1> DEFINE n == Cardinality(Underway)  m == Cardinality(Underway')
<1>1. placing' \in [LiveSymbols -> Placements \cup {NoCall}] /\ m = n - 1 /\ n \in Nat /\ m \in Nat
  BY Ended DEF Filled
<1>2. streak' = 0 /\ known' = known + 1 /\ UNCHANGED <<mode, ready, probed, poll>>
  BY DEF Filled
<1>3. Counted'
  <2>1. /\ streak \in Nat /\ entries \in Nat /\ known \in Nat /\ Len(liveRows) \in Nat
        /\ Cardinality(LiveSymbols) \in Nat /\ FailureLimit \in Nat /\ 0 < FailureLimit
    BY Numbers, Finite
  <2>2. /\ streak + n <= entries /\ known + n <= entries + Cardinality(LiveSymbols) /\ Len(liveRows) + n <= entries
        /\ streak + n < FailureLimit + Cardinality(LiveSymbols)
    BY DEF LiveInv, TabInv, Counted
  <2> HIDE DEF n, m
  <2>3. /\ streak' + m <= entries' /\ known' + m <= entries' + Cardinality(LiveSymbols)
        /\ Len(liveRows') + m <= entries' /\ streak' + m < FailureLimit + Cardinality(LiveSymbols)
        /\ streak' < FailureLimit
    BY <1>1, <1>2, <2>1, <2>2
  <2> QED BY <2>3 DEF Counted, m
<1>4. TabTypes'
  <2>1. streak' \in Nat /\ known' \in Nat
    BY <1>2, Numbers
  <2> QED BY <1>1, <1>2, <2>1 DEF LiveInv, TabInv, TabTypes
<1> QED BY <1>3, <1>4 DEF TabInv

LEMMA PlacementTab == ASSUME LiveInv, NEW s \in LiveSymbols, Placement(s) PROVE TabInv'
<1>1. faults' \in Nat /\ placing[s] # NoCall /\ UNCHANGED <<provider, entries>>
  <2>1. Fault \/ UNCHANGED faults
    BY DEF Placement, Entry, Protect, Persist, Rollback
  <2> QED BY <2>1, FaultCounts DEF Placement, Entry, Protect, Persist, Rollback
<1>2. CASE Entry(s)
  <2>1. liveRows' = liveRows
    BY <1>2 DEF Entry, storeVars
  <2>2. Failed(s) \/ To(s, "persist") \/ To(s, "protect")
    BY <1>2 DEF Entry
  <2> QED BY <1>1, <2>1, <2>2, FailedTab, ToTab
<1>3. CASE Protect(s)
  <2>1. liveRows' = liveRows
    BY <1>3 DEF Protect, storeVars
  <2>2. Failed(s) \/ To(s, "persist") \/ To(s, "rollback")
    BY <1>3 DEF Protect
  <2> QED BY <1>1, <2>1, <2>2, FailedTab, ToTab
<1>4. CASE Persist(s)
  <2>1. CASE liveRows' = liveRows /\ (Failed(s) \/ To(s, "rollback"))
    BY <1>1, <2>1, FailedTab, ToTab
  <2> DEFINE new == [symbol |-> s, status |-> "open", exit |-> 0, pnl |-> 0]
  <2>2. CASE liveRows' = Append(liveRows, new) /\ Filled(s) /\ UNCHANGED faults
    <3>1. Len(liveRows') = Len(liveRows) + 1
      <4> HIDE DEF new
      <4> QED BY <2>2 DEF LiveInv, BookInv, BookTypes
    <3> QED BY <1>1, <2>2, <3>1, FilledTab
  <2> QED BY <1>4, <2>1, <2>2 DEF Persist
<1>5. CASE Rollback(s)
  <2>1. liveRows' = liveRows /\ Failed(s)
    BY <1>5 DEF Rollback, storeVars
  <2> QED BY <1>1, <2>1, FailedTab
<1> QED BY <1>2, <1>3, <1>4, <1>5 DEF Placement

LEMMA CloseTab ==
  ASSUME LiveInv, NEW c \in Closers, CloseCall(c) \/ Interrupt(c) \/ \E s \in LiveSymbols : ReadPosition(c, s)
  PROVE  TabInv'
<1>1. CASE \E failed \in SUBSET (RowReads \cup ExitReads) : Refresh(c, failed)
  <2>1. PICK failed \in SUBSET (RowReads \cup ExitReads) : Refresh(c, failed)
    BY <1>1
  <2>2. known' \in 0..Cardinality(LiveSymbols)
    BY <2>1, HeldCount, Finite DEF Refresh, HeldRead
  <2>3. UNCHANGED <<provider, mode, ready, probed, streak, poll, placing, entries, liveRows>>
    BY <2>1 DEF Refresh, storeVars
  <2>4. Counted'
    BY <2>2, <2>3, CountedKept
  <2>5. faults' \in Nat /\ known' \in Nat
    BY <2>1, <2>2, FaultCounts, Finite DEF Refresh, Reading
  <2>6. TabTypes'
    BY <2>3, <2>5 DEF LiveInv, TabInv, TabTypes
  <2> QED BY <2>4, <2>6 DEF TabInv
<1>2. CASE Interrupt(c)
  <2>1. UNCHANGED <<provider, mode, ready, probed, known, streak, poll, placing, entries, liveRows>>
    BY <1>2 DEF Interrupt, tabVars
  <2>2. faults' \in Nat
    BY <1>2, FaultCounts DEF Interrupt
  <2> QED BY <2>1, <2>2, TabKept
<1>3. CASE UpdateRow(c)
  <2>1. UNCHANGED <<provider, mode, ready, probed, known, streak, poll, placing, entries, faults>>
    BY <1>3 DEF UpdateRow, tabVars
  <2>2. Len(liveRows') = Len(liveRows)
    BY <1>3 DEF UpdateRow, LiveInv, BookInv, BookTypes
  <2>3. faults' \in Nat
    BY <2>1, FaultCounts
  <2> QED BY <2>1, <2>2, <2>3, TabKept
<1>4. CASE CloseOrder(c) \/ CancelAll(c) \/ SelectRow(c) \/ Credit(c) \/ \E s \in LiveSymbols : ReadPosition(c, s)
  <2>1. UNCHANGED <<provider, mode, ready, probed, known, streak, poll, placing, entries, faults, liveRows>>
    BY <1>4 DEF CloseOrder, CancelAll, SelectRow, Credit, ReadPosition, tabVars, storeVars
  <2>2. faults' \in Nat
    BY <2>1, FaultCounts
  <2> QED BY <2>1, <2>2, TabKept
<1> QED BY <1>1, <1>2, <1>3, <1>4 DEF CloseCall

LEMMA TabStep == ASSUME LiveInv, LiveNext PROVE TabInv'
<1>1. CASE Arm \/ Disarm
  BY <1>1, ArmTab
<1>2. CASE \E failed \in SUBSET ExitReads : PollExits(failed)
  BY <1>2, PollExitsTab
<1>3. CASE \E status \in Statuses, failed \in SUBSET RowReads : PollRows(status, failed)
  BY <1>3, PollRowsTab
<1>4. CASE \E s \in LiveSymbols : StopFires(s)
  <2>1. UNCHANGED <<provider, mode, ready, probed, known, streak, poll, placing, entries, faults, liveRows>>
    BY <1>4 DEF StopFires, tabVars, storeVars
  <2>2. faults' \in Nat
    BY <2>1, FaultCounts
  <2> QED BY <2>1, <2>2, TabKept
<1>5. CASE \E s \in LiveSymbols : Placement(s)
  BY <1>5, PlacementTab
<1>6. CASE \E s \in LiveSymbols, side \in {1, -1} : SubmitEntry(s, side)
  BY <1>6, SubmitTab
<1>7. CASE \E c \in Closers : CloseCall(c) \/ Interrupt(c) \/ \E s \in LiveSymbols : ReadPosition(c, s)
  BY <1>7, CloseTab
<1> QED BY <1>1, <1>2, <1>3, <1>4, <1>5, <1>6, <1>7 DEF LiveNext

-----------------------------------------------------------------------------
(* The exchange: a position without a stop is accounted for *)

LEMMA SiteKept ==
  ASSUME LiveInv, UNCHANGED <<provider, placing, position, stops, bared, entries>>
  PROVE  SiteInv'
  BY DEF LiveInv, SiteInv, Explained, At

LEMMA SiteAt ==
  ASSUME LiveInv, NEW s \in LiveSymbols, provider' = provider, entries' = entries \/ entries' = entries + 1,
         position' \in [LiveSymbols -> Int], stops' \subseteq LiveSymbols, bared' \subseteq LiveSymbols,
         \A t \in LiveSymbols \ {s} : /\ placing'[t] = placing[t] /\ position'[t] = position[t]
                                      /\ (t \in stops' <=> t \in stops) /\ (t \in bared' <=> t \in bared),
         Explained(s)'
  PROVE  SiteInv'
<1>1. ASSUME NEW t \in LiveSymbols, t # s PROVE Explained(t)'
  <2>1. Explained(t) /\ position[t] \in Int
    BY DEF LiveInv, SiteInv
  <2>2. /\ placing'[t] = placing[t] /\ position'[t] = position[t]
        /\ (t \in stops' <=> t \in stops) /\ (t \in bared' <=> t \in bared)
    BY <1>1
  <2> DEFINE n == IF At(t, {"entry"}) THEN entries - 1 ELSE entries
             m == IF At(t, {"entry"})' THEN entries' - 1 ELSE entries'
  <2>3. At(t, {"entry"})' = At(t, {"entry"}) /\ At(t, {"protect", "rollback"})' = At(t, {"protect", "rollback"})
    BY <2>2 DEF At
  <2>4. n \in Int /\ m \in Int /\ n <= m
    BY <2>3, Numbers
  <2>5. position[t] \in -n..n
    BY <2>1 DEF Explained
  <2>6. position'[t] \in -m..m
    <3> HIDE DEF n, m
    <3> QED BY <2>1, <2>2, <2>4, <2>5
  <2> QED BY <2>1, <2>2, <2>3, <2>6 DEF Explained
<1>2. \A t \in LiveSymbols : Explained(t)'
  BY <1>1
<1> QED BY <1>2 DEF SiteInv

(* What the invariant says of one symbol *)
LEMMA SiteFacts ==
  ASSUME LiveInv, NEW s \in LiveSymbols
  PROVE  /\ position \in [LiveSymbols -> Int] /\ position[s] \in Int /\ entries \in Nat
         /\ stops \subseteq LiveSymbols /\ bared \subseteq LiveSymbols
         /\ position[s] \in -entries..entries
         /\ At(s, {"entry"}) => position[s] \in -(entries - 1)..(entries - 1)
         /\ s \in stops \cup bared => position[s] # 0
         /\ position[s] # 0 /\ s \notin stops \cup bared =>
               At(s, {"protect", "rollback"}) /\ position[s] = placing[s].side
         /\ provider = "bybit" => s \notin bared /\ ~At(s, {"protect", "rollback"})
         /\ placing[s] # NoCall => placing[s] \in Placements /\ placing[s].side \in {1, -1}
<1>1. Explained(s) /\ position \in [LiveSymbols -> Int] /\ stops \subseteq LiveSymbols /\ bared \subseteq LiveSymbols
  BY DEF LiveInv, SiteInv
<1>2. position[s] \in Int /\ entries \in Nat
  BY <1>1, Numbers
<1>3. At(s, {"entry"}) => position[s] \in -(entries - 1)..(entries - 1)
  BY <1>1 DEF Explained
<1>4. ~At(s, {"entry"}) => position[s] \in -entries..entries
  BY <1>1 DEF Explained
<1>5. position[s] \in -entries..entries
  BY <1>2, <1>3, <1>4
<1>6. placing[s] # NoCall => placing[s] \in Placements
  BY DEF LiveInv, TabInv, TabTypes
<1>7. \A p \in Placements : p.side \in {1, -1}
  BY DEF Placements, Pnls
<1>8. /\ s \in stops \cup bared => position[s] # 0
      /\ position[s] # 0 /\ s \notin stops \cup bared =>
            At(s, {"protect", "rollback"}) /\ position[s] = placing[s].side
      /\ provider = "bybit" => s \notin bared /\ ~At(s, {"protect", "rollback"})
  BY <1>1 DEF Explained
<1> QED BY <1>1, <1>2, <1>3, <1>5, <1>6, <1>7, <1>8

(* A position that is gone leaves nothing to account for *)
LEMMA SiteFlat ==
  ASSUME LiveInv, NEW s \in LiveSymbols, UNCHANGED <<provider, placing, entries>>, Flatten(s)
  PROVE  SiteInv'
<1>1. position' = [position EXCEPT ![s] = 0] /\ stops' = stops \ {s} /\ bared' = bared \ {s}
  BY DEF Flatten
<1>2. position' \in [LiveSymbols -> Int] /\ position'[s] = 0 /\ \A t \in LiveSymbols \ {s} : position'[t] = position[t]
  BY <1>1, SiteFacts
<1>3. Explained(s)'
  <2> DEFINE n == IF At(s, {"entry"}) THEN entries - 1 ELSE entries
  <2>1. position[s] \in -n..n /\ n \in Int /\ position[s] \in Int
    BY SiteFacts DEF LiveInv, SiteInv, Explained
  <2>2. 0 \in -n..n
    <3> HIDE DEF n
    <3> QED BY <2>1
  <2>3. At(s, {"entry"})' = At(s, {"entry"}) /\ At(s, {"protect", "rollback"})' = At(s, {"protect", "rollback"})
    BY DEF At
  <2>4. provider = "bybit" => ~At(s, {"protect", "rollback"})
    BY SiteFacts
  <2> QED BY <1>1, <1>2, <2>2, <2>3, <2>4 DEF Explained
<1>4. stops' \subseteq LiveSymbols /\ bared' \subseteq LiveSymbols
  BY <1>1, SiteFacts
<1> QED BY <1>1, <1>2, <1>3, <1>4, SiteAt

LEMMA SubmitSite ==
  ASSUME LiveInv, NEW s \in LiveSymbols, NEW side \in {1, -1}, SubmitEntry(s, side)
  PROVE  SiteInv'
<1> DEFINE new == [side |-> side, step |-> "entry"]
<1>1. new \in Placements /\ new # NoCall /\ new.step = "entry"
  BY Finite DEF Placements, Pnls
<1>2. placing' = [placing EXCEPT ![s] = new] /\ placing[s] = NoCall
  BY DEF SubmitEntry, Gate
<1> HIDE DEF new
<1>3. placing'[s] = new /\ \A t \in LiveSymbols \ {s} : placing'[t] = placing[t]
  BY <1>2 DEF LiveInv, TabInv, TabTypes
<1>4. UNCHANGED <<provider, position, stops, bared>> /\ entries' = entries + 1
  BY DEF SubmitEntry, venueVars
<1>5. Explained(s)'
  <2>1. At(s, {"entry"})' /\ ~At(s, {"protect", "rollback"})'
    BY <1>1, <1>3 DEF At
  <2>2. ~At(s, {"protect", "rollback"})
    BY <1>2 DEF At
  <2>3. entries' - 1 = entries /\ position[s] \in -entries..entries
    BY <1>4, SiteFacts
  <2>4. position'[s] \in -(entries' - 1)..(entries' - 1)
    BY <1>4, <2>3
  <2> QED BY <1>4, <2>1, <2>2, <2>4, SiteFacts DEF Explained
<1> QED BY <1>3, <1>4, <1>5, SiteFacts, SiteAt

(* An order of a placement that is at its entry, answered or not *)
LEMMA EntrySite == ASSUME LiveInv, NEW s \in LiveSymbols, Entry(s) PROVE SiteInv'
<1> DEFINE p == position[s]  side == placing[s].side
<1>1. /\ At(s, {"entry"}) /\ ~At(s, {"protect", "rollback"}) /\ placing[s] # NoCall
      /\ UNCHANGED <<provider, entries>>
  BY DEF Entry, At
<1>2. /\ p \in Int /\ entries \in Nat /\ side \in {1, -1} /\ p \in -(entries - 1)..(entries - 1)
      /\ (s \in stops \cup bared <=> p # 0) /\ (provider = "bybit" => s \notin bared)
      /\ position \in [LiveSymbols -> Int] /\ stops \subseteq LiveSymbols /\ bared \subseteq LiveSymbols
  BY <1>1, SiteFacts
<1>3. p + side \in Int /\ p + side \in -entries..entries /\ p \in -entries..entries
  BY <1>2
<1>4. ASSUME position' = [position EXCEPT ![s] = @ + side]
      PROVE  /\ position' \in [LiveSymbols -> Int] /\ position'[s] = p + side
             /\ \A t \in LiveSymbols \ {s} : position'[t] = position[t]
  BY <1>2, <1>4
<1>5. provider \in {"bybit", "binance"}
  BY DEF LiveInv, TabInv, TabTypes
<1>6. CASE Order(s, side, Protects) /\ To(s, IF provider = "bybit" THEN "persist" ELSE "protect")
  <2> DEFINE step == IF provider = "bybit" THEN "persist" ELSE "protect"
  <2>1. step \in {"entry", "protect", "persist", "rollback"} /\ placing' = [placing EXCEPT ![s].step = step]
    BY <1>6 DEF To
  <2>2. /\ placing'[s] # NoCall /\ placing'[s].step = step /\ placing'[s].side = side
        /\ \A t \in LiveSymbols \ {s} : placing'[t] = placing[t]
    <3> HIDE DEF step
    <3> QED BY <1>1, <2>1, Ongoing
  <2>3. position' = [position EXCEPT ![s] = @ + side]
    BY <1>6 DEF Order
  <2>4. /\ stops' = IF p + side = 0 THEN stops \ {s} ELSE IF Protects THEN stops \cup {s} ELSE stops
        /\ bared' = IF p + side = 0 \/ Protects THEN bared \ {s} ELSE bared
    BY <1>6 DEF Order
  <2>5. /\ position' \in [LiveSymbols -> Int] /\ position'[s] = p + side
        /\ \A t \in LiveSymbols \ {s} : position'[t] = position[t]
    BY <1>4, <2>3
  <2>6. ~At(s, {"entry"})' /\ (At(s, {"protect", "rollback"})' <=> provider = "binance")
    BY <1>5, <2>2 DEF At
  <2>7. Explained(s)'
    <3>1. CASE p + side = 0
      BY <1>1, <1>2, <1>3, <1>5, <2>4, <2>5, <2>6, <3>1 DEF Explained
    <3>2. CASE p + side # 0 /\ provider = "bybit"
      BY <1>1, <1>2, <1>3, <2>4, <2>5, <2>6, <3>2 DEF Explained, Protects
    <3>3. CASE p + side # 0 /\ provider = "binance"
      <4>1. stops' = stops /\ bared' = bared
        BY <2>4, <3>3 DEF Protects
      <4>2. p = 0 => p + side = side
        BY <1>2
      <4> QED BY <1>1, <1>2, <1>3, <2>2, <2>5, <2>6, <3>3, <4>1, <4>2 DEF Explained
    <3> QED BY <1>5, <3>1, <3>2, <3>3
  <2>8. /\ stops' \subseteq LiveSymbols /\ bared' \subseteq LiveSymbols
        /\ \A t \in LiveSymbols \ {s} : (t \in stops' <=> t \in stops) /\ (t \in bared' <=> t \in bared)
    BY <1>2, <2>4
  <2> QED BY <1>1, <2>2, <2>5, <2>7, <2>8, SiteAt
<1>7. CASE Failed(s) /\ (UNCHANGED venueVars \/ Lost(s))
  <2>1. /\ placing'[s] = NoCall /\ \A t \in LiveSymbols \ {s} : placing'[t] = placing[t]
    BY <1>1, <1>7, Ended DEF Failed
  <2>2. ~At(s, {"entry"})' /\ ~At(s, {"protect", "rollback"})'
    BY <2>1 DEF At
  <2>3. CASE UNCHANGED venueVars
    <3>1. UNCHANGED <<position, stops, bared>>
      BY <2>3 DEF venueVars
    <3>2. Explained(s)'
      BY <1>1, <1>2, <1>3, <2>2, <3>1 DEF Explained
    <3> QED BY <1>1, <1>2, <2>1, <3>1, <3>2, SiteAt
  <2>4. CASE Lost(s)
    <3>1. position' = [position EXCEPT ![s] = @ + side]
      BY <2>4 DEF Lost
    <3>2. /\ position' \in [LiveSymbols -> Int] /\ position'[s] = p + side
          /\ \A t \in LiveSymbols \ {s} : position'[t] = position[t]
      BY <1>4, <3>1
    <3>3. /\ stops' = IF p + side = 0 THEN stops \ {s} ELSE IF Protects THEN stops \cup {s} ELSE stops
          /\ bared' = IF p + side = 0 \/ s \in stops' THEN bared \ {s} ELSE bared \cup {s}
      BY <2>4, <3>2 DEF Lost
    <3>4. Explained(s)'
      <4>1. p + side # 0 /\ provider = "bybit" => s \in stops'
        BY <3>3 DEF Protects
      <4> QED BY <1>1, <1>2, <1>3, <2>2, <3>2, <3>3, <4>1 DEF Explained
    <3>5. /\ stops' \subseteq LiveSymbols /\ bared' \subseteq LiveSymbols
          /\ \A t \in LiveSymbols \ {s} : (t \in stops' <=> t \in stops) /\ (t \in bared' <=> t \in bared)
      BY <1>2, <3>3
    <3> QED BY <1>1, <2>1, <3>2, <3>4, <3>5, SiteAt
  <2> QED BY <1>7, <2>3, <2>4
<1> QED BY <1>6, <1>7 DEF Entry

LEMMA MovedTo ==
  ASSUME LiveInv, NEW s \in LiveSymbols, placing[s] # NoCall,
         NEW step \in {"entry", "protect", "persist", "rollback"}, To(s, step)
  PROVE  /\ \A t \in LiveSymbols \ {s} : placing'[t] = placing[t]
         /\ placing'[s].side = placing[s].side
         /\ At(s, {"entry"})' <=> step = "entry"
         /\ At(s, {"protect", "rollback"})' <=> step \in {"protect", "rollback"}
<1>1. placing' = [placing EXCEPT ![s].step = step]
  BY DEF To
<1>2. /\ placing'[s] # NoCall /\ placing'[s].step = step /\ placing'[s].side = placing[s].side
      /\ \A t \in LiveSymbols \ {s} : placing'[t] = placing[t]
  BY <1>1, Ongoing
<1> QED BY <1>2 DEF At

LEMMA MovedOut ==
  ASSUME LiveInv, NEW s \in LiveSymbols, placing[s] # NoCall, Failed(s) \/ Filled(s)
  PROVE  /\ \A t \in LiveSymbols \ {s} : placing'[t] = placing[t]
         /\ ~At(s, {"entry"})' /\ ~At(s, {"protect", "rollback"})'
<1>1. placing' = [placing EXCEPT ![s] = NoCall]
  BY DEF Failed, Filled
<1>2. placing'[s] = NoCall /\ \A t \in LiveSymbols \ {s} : placing'[t] = placing[t]
  BY <1>1, Ended
<1> QED BY <1>2 DEF At

LEMMA BareSite ==
  ASSUME LiveInv, NEW s \in LiveSymbols, placing[s] # NoCall, At(s, {"protect", "rollback"}),
         UNCHANGED <<provider, entries>>, Failed(s), Bare(s)
  PROVE  SiteInv'
<1>1. UNCHANGED <<position, stops>> /\ bared' = IF s \in Held \ stops THEN bared \cup {s} ELSE bared
  BY DEF Bare
<1>2. s \in Held <=> position[s] # 0
  BY DEF Held
<1>3. Explained(s)'
  BY <1>1, <1>2, MovedOut, SiteFacts DEF Explained
<1>4. bared' \subseteq LiveSymbols /\ \A t \in LiveSymbols \ {s} : t \in bared' <=> t \in bared
  BY <1>1, SiteFacts
<1> QED BY <1>1, <1>3, <1>4, MovedOut, SiteFacts, SiteAt

LEMMA SignOf ==
  ASSUME NEW n \in Int
  PROVE  /\ Signed(n) = IF n > 0 THEN 1 ELSE IF n < 0 THEN -1 ELSE 0
         /\ Signed(n) \in {-1, 0, 1} /\ -Signed(n) \in {-1, 0, 1} /\ (Signed(n) = 0 <=> n = 0)
         /\ n \in {1, -1} => Signed(n) = n
         /\ n # 0 => -Signed(n) \in {1, -1}
<1>1. CASE n > 0
  BY <1>1 DEF Signed
<1>2. CASE n < 0
  <2>1. Signed(n) = -1 /\ n # 1 /\ Signed(n) + 1 = 0 /\ Signed(n) \in Int
    BY <1>2 DEF Signed
  <2>2. \A x \in Int : x + 1 = 0 => -x = 1
    OBVIOUS
  <2>3. -Signed(n) = 1
    BY <2>1, <2>2
  <2> QED BY <1>2, <2>1, <2>3
<1>3. CASE n = 0
  <2>1. Signed(n) = 0 /\ \A x \in Int : x = 0 => -x = 0
    BY <1>3 DEF Signed
  <2>2. -Signed(n) = 0 /\ Signed(n) = 0 /\ ~(n > 0) /\ ~(n < 0) /\ n \notin {1, -1}
    BY <1>3, <2>1
  <2> HIDE DEF Signed
  <2> QED BY <1>3, <2>2
<1> QED BY <1>1, <1>2, <1>3

LEMMA ProtectSite == ASSUME LiveInv, NEW s \in LiveSymbols, Protect(s) PROVE SiteInv'
<1>1. /\ At(s, {"protect", "rollback"}) /\ placing[s] # NoCall /\ ~At(s, {"entry"})
      /\ UNCHANGED <<provider, entries>>
  BY DEF Protect, At
<1>2. provider # "bybit" /\ position[s] \in Int /\ placing[s].side \in {1, -1}
  BY <1>1, SiteFacts
<1>3. CASE /\ Signed(position[s]) = placing[s].side /\ To(s, "persist")
           /\ stops' = stops \cup {s} /\ bared' = bared \ {s} /\ UNCHANGED <<position, exits>>
  <2>1. ~At(s, {"entry"})' /\ position[s] # 0
    BY <1>1, <1>2, <1>3, MovedTo, SignOf
  <2>2. Explained(s)'
    BY <1>1, <1>2, <1>3, <2>1, SiteFacts DEF Explained
  <2> QED BY <1>1, <1>3, <2>2, MovedTo, SiteFacts, SiteAt
<1>4. CASE To(s, "rollback") /\ UNCHANGED venueVars
  <2>1. UNCHANGED <<position, stops, bared>>
    BY <1>4 DEF venueVars
  <2>2. ~At(s, {"entry"})' /\ At(s, {"protect", "rollback"})' /\ placing'[s].side = placing[s].side
    BY <1>1, <1>4, MovedTo
  <2>3. Explained(s)'
    BY <1>1, <1>2, <2>1, <2>2, SiteFacts DEF Explained
  <2> QED BY <1>1, <1>4, <2>1, <2>3, MovedTo, SiteFacts, SiteAt
<1>5. CASE Failed(s) /\ Bare(s)
  BY <1>1, <1>5, BareSite
<1> QED BY <1>3, <1>4, <1>5 DEF Protect

LEMMA PersistSite == ASSUME LiveInv, NEW s \in LiveSymbols, Persist(s) PROVE SiteInv'
<1>1. /\ ~At(s, {"protect", "rollback"}) /\ placing[s] # NoCall /\ ~At(s, {"entry"})
      /\ UNCHANGED <<provider, entries, position, stops, bared>>
  BY DEF Persist, At, venueVars
<1>2. CASE Failed(s) \/ Filled(s)
  <2>1. Explained(s)'
    BY <1>1, <1>2, MovedOut, SiteFacts DEF Explained
  <2> QED BY <1>1, <1>2, <2>1, MovedOut, SiteFacts, SiteAt
<1>3. CASE provider = "binance" /\ To(s, "rollback")
  <2>1. Explained(s)'
    BY <1>1, <1>3, MovedTo, SiteFacts DEF Explained
  <2> QED BY <1>1, <1>3, <2>1, MovedTo, SiteFacts, SiteAt
<1> QED BY <1>2, <1>3 DEF Persist

LEMMA RollbackSite == ASSUME LiveInv, NEW s \in LiveSymbols, Rollback(s) PROVE SiteInv'
<1> DEFINE p == position[s]  side == placing[s].side
<1>1. /\ At(s, {"protect", "rollback"}) /\ placing[s] # NoCall /\ ~At(s, {"entry"})
      /\ UNCHANGED <<provider, entries>> /\ Failed(s)
  BY DEF Rollback, At
<1>2. provider # "bybit" /\ p \in Int /\ side \in {1, -1} /\ p \in -entries..entries /\ entries \in Nat
  BY <1>1, SiteFacts
<1>3. CASE Undoes(s) /\ Order(s, -side, FALSE)
  <2>1. Signed(p) = side
    BY <1>3 DEF Undoes
  <2>2. p + (-side) \in -entries..entries /\ p # 0 /\ (p + (-side) = 0 <=> p = side) /\ p + (-side) \in Int
    BY <1>2, <2>1, SignOf
  <2>3. /\ position' = [position EXCEPT ![s] = @ + (-side)]
        /\ stops' = IF p + (-side) = 0 THEN stops \ {s} ELSE stops
        /\ bared' = IF p + (-side) = 0 THEN bared \ {s} ELSE bared
    BY <1>3 DEF Order
  <2>4. /\ position' \in [LiveSymbols -> Int] /\ position'[s] = p + (-side)
        /\ \A t \in LiveSymbols \ {s} : position'[t] = position[t]
    BY <2>2, <2>3, SiteFacts
  <2>5. p + (-side) # 0 => s \in stops \cup bared
    BY <2>2, SiteFacts
  <2>6. Explained(s)'
    BY <1>1, <1>2, <2>2, <2>3, <2>4, <2>5, MovedOut DEF Explained
  <2>7. /\ stops' \subseteq LiveSymbols /\ bared' \subseteq LiveSymbols
        /\ \A t \in LiveSymbols \ {s} : (t \in stops' <=> t \in stops) /\ (t \in bared' <=> t \in bared)
    BY <2>3, SiteFacts
  <2> QED BY <1>1, <2>4, <2>6, <2>7, MovedOut, SiteAt
<1>4. CASE ~Undoes(s) /\ UNCHANGED <<venueVars, faults>>
  <2>1. UNCHANGED <<position, stops, bared>>
    BY <1>4 DEF venueVars
  <2>2. p # 0 => s \in stops \cup bared
    <3>1. p # side
      BY <1>2, <1>4, SignOf DEF Undoes
    <3> QED BY <3>1, SiteFacts
  <2>3. Explained(s)'
    BY <1>1, <1>2, <2>1, <2>2, MovedOut, SiteFacts DEF Explained
  <2> QED BY <1>1, <2>1, <2>3, MovedOut, SiteFacts, SiteAt
<1>5. CASE Bare(s)
  BY <1>1, <1>5, BareSite
<1> QED BY <1>3, <1>4, <1>5 DEF Rollback

(* A close takes part of a position that may stand bare only when it takes all of it *)
LEMMA CloseOrderSite == ASSUME LiveInv, NEW c \in Closers, CloseOrder(c) PROVE SiteInv'
<1>1. clicks[c] \in Closes /\ UNCHANGED <<provider, placing, entries>>
  BY DEF LiveInv, BookInv, BookTypes, CloseOrder
<1>2. clicks[c].symbol \in LiveSymbols /\ clicks[c].size \in Int
  BY <1>1, Finite DEF Closes
<1> PICK s \in LiveSymbols, size \in Int : s = clicks[c].symbol /\ size = clicks[c].size
  BY <1>2
<1> DEFINE p == position[s]  rest == p - size
<1>3. UNCHANGED venueVars \/ Flatten(s) \/
        (/\ Signed(p) = Signed(size) /\ ~(rest * Signed(size) <= 0)
         /\ position' = [position EXCEPT ![s] = rest] /\ UNCHANGED <<stops, bared>>)
  BY DEF CloseOrder
<1>4. size # 0
  BY DEF CloseOrder, LiveInv, BookInv, Carries, Clicking
<1>5. CASE UNCHANGED venueVars
  BY <1>1, <1>5, SiteKept DEF venueVars
<1>6. CASE Flatten(s)
  BY <1>1, <1>2, <1>6, SiteFlat
<1>7. CASE /\ Signed(p) = Signed(size) /\ ~(rest * Signed(size) <= 0)
           /\ position' = [position EXCEPT ![s] = rest] /\ UNCHANGED <<stops, bared>>
  <2>1. p \in Int /\ entries \in Nat /\ p \in -entries..entries
    BY <1>2, SiteFacts
  <2>2. (size > 0 /\ p > 0 /\ rest > 0) \/ (size < 0 /\ p < 0 /\ rest < 0)
    <3>1. CASE size > 0
      <4>1. Signed(size) = 1 /\ p > 0 /\ rest \in Int
        BY <1>2, <1>7, <2>1, <3>1 DEF Signed
      <4> QED BY <1>7, <3>1, <4>1
    <3>2. CASE size < 0
      <4>1. Signed(size) = -1 /\ p < 0 /\ rest \in Int
        BY <1>2, <1>7, <2>1, <3>2 DEF Signed
      <4> QED BY <1>7, <3>2, <4>1
    <3> QED BY <1>2, <1>4, <3>1, <3>2
  <2>3. rest # 0 /\ rest \in Int /\ p # 0 /\ p # 1 /\ p # -1
    BY <1>2, <2>1, <2>2
  <2>4. \A n \in Int : p \in -n..n => rest \in -n..n
    BY <1>2, <2>1, <2>2
  <2>5. s \in stops \cup bared
    <3>1. At(s, {"protect", "rollback"}) => placing[s] # NoCall
      BY DEF At
    <3> QED BY <2>3, <3>1, SiteFacts
  <2>6. /\ position' \in [LiveSymbols -> Int] /\ position'[s] = rest
        /\ \A t \in LiveSymbols \ {s} : position'[t] = position[t]
    BY <1>2, <1>7, <2>3, SiteFacts
  <2>7. Explained(s)'
    <3>1. At(s, {"entry"})' = At(s, {"entry"}) /\ At(s, {"protect", "rollback"})' = At(s, {"protect", "rollback"})
      BY <1>1 DEF At
    <3>2. Explained(s)
      BY <1>2 DEF LiveInv, SiteInv
    <3> DEFINE n == IF At(s, {"entry"}) THEN entries - 1 ELSE entries
    <3>3. p \in -n..n /\ n \in Int
      BY <2>1, <3>2 DEF Explained
    <3>4. rest \in -n..n
      <4> HIDE DEF n, rest
      <4> QED BY <2>4, <3>3
    <3>5. position'[s] # 0 /\ position'[s] \in -n..n
      BY <2>3, <2>6, <3>4
    <3> QED BY <1>1, <1>7, <2>3, <2>5, <2>6, <3>1, <3>2, <3>5 DEF Explained
  <2> QED BY <1>1, <1>2, <1>7, <2>6, <2>7, SiteFacts, SiteAt
<1> QED BY <1>3, <1>5, <1>6, <1>7

LEMMA CancelSite == ASSUME LiveInv, NEW c \in Closers, CancelAll(c) PROVE SiteInv'
<1>1. clicks[c] \in Closes /\ UNCHANGED <<provider, placing, entries, position>>
  BY DEF LiveInv, BookInv, BookTypes, CancelAll
<1>2. clicks[c].symbol \in LiveSymbols
  BY <1>1 DEF Closes
<1> PICK s \in LiveSymbols : s = clicks[c].symbol
  BY <1>2
<1>3. stops' = stops \ {s} /\ bared' = IF s \in Held THEN bared \cup {s} ELSE bared
  BY DEF CancelAll
<1>4. provider # "bybit"
  BY DEF CancelAll, LiveInv, BookInv, Carries, Clicking
<1>5. s \in Held <=> position[s] # 0
  BY <1>2 DEF Held
<1>6. Explained(s)'
  <2>1. Explained(s)
    BY <1>2 DEF LiveInv, SiteInv
  <2>2. s \in bared' <=> position[s] # 0
    BY <1>2, <1>3, <1>5, SiteFacts
  <2>3. At(s, {"entry"})' = At(s, {"entry"})
    BY <1>1 DEF At
  <2> QED BY <1>1, <1>3, <1>4, <2>1, <2>2, <2>3 DEF Explained
<1>7. /\ stops' \subseteq LiveSymbols /\ bared' \subseteq LiveSymbols
      /\ \A t \in LiveSymbols \ {s} : (t \in stops' <=> t \in stops) /\ (t \in bared' <=> t \in bared)
  BY <1>2, <1>3, SiteFacts
<1> QED BY <1>1, <1>2, <1>6, <1>7, SiteFacts, SiteAt

LEMMA SiteStep == ASSUME LiveInv, LiveNext PROVE SiteInv'
<1>1. CASE \/ Arm \/ Disarm \/ \E failed \in SUBSET ExitReads : PollExits(failed)
           \/ \E status \in Statuses, failed \in SUBSET RowReads : PollRows(status, failed)
           \/ \E c \in Closers : \/ SelectRow(c) \/ UpdateRow(c) \/ Credit(c) \/ Interrupt(c)
                                 \/ \E failed \in SUBSET (RowReads \cup ExitReads) : Refresh(c, failed)
                                 \/ \E s \in LiveSymbols : ReadPosition(c, s)
  <2>1. UNCHANGED <<provider, placing, position, stops, bared, entries>>
    BY <1>1 DEF Arm, Disarm, PollExits, PollRows, SelectRow, UpdateRow, Credit, Interrupt, Refresh,
                ReadPosition, venueVars
  <2> QED BY <2>1, SiteKept
<1>2. CASE \E s \in LiveSymbols : StopFires(s)
  <2>1. PICK s \in LiveSymbols : Flatten(s) /\ UNCHANGED <<provider, placing, entries>>
    BY <1>2 DEF StopFires
  <2> QED BY <2>1, SiteFlat
<1>3. CASE \E s \in LiveSymbols : Placement(s)
  BY <1>3, EntrySite, ProtectSite, PersistSite, RollbackSite DEF Placement
<1>4. CASE \E s \in LiveSymbols, side \in {1, -1} : SubmitEntry(s, side)
  BY <1>4, SubmitSite
<1>5. CASE \E c \in Closers : CloseOrder(c) \/ CancelAll(c)
  BY <1>5, CloseOrderSite, CancelSite
<1> QED BY <1>1, <1>2, <1>3, <1>4, <1>5 DEF LiveNext, CloseCall

-----------------------------------------------------------------------------
(* The books: rows, account, and the closes that write them *)

(* The exchange's list of exits only gets longer *)
Grows ==
    /\ exits' \in Seq(Exits) /\ Len(exits') <= MaxExits
    /\ \A i \in DOMAIN exits : i \in DOMAIN exits' /\ exits'[i] = exits[i]

LEMMA ExitsStay == ASSUME LiveInv, exits' = exits PROVE Grows
  BY DEF LiveInv, BookInv, BookTypes, Grows

LEMMA ExitsGrow ==
  ASSUME LiveInv, NEW s \in LiveSymbols, NEW pnl \in Pnls, Len(exits) < MaxExits,
         exits' = Append(exits, [symbol |-> s, pnl |-> pnl])
  PROVE  /\ Grows /\ Len(exits) + 1 \in DOMAIN exits' /\ Len(exits) + 1 \in ExitIds
         /\ exits'[Len(exits) + 1].pnl = pnl
<1> DEFINE e == [symbol |-> s, pnl |-> pnl]
<1>1. e \in Exits /\ e.pnl = pnl
  BY DEF Exits
<1>2. exits \in Seq(Exits) /\ Len(exits) \in Nat /\ exits' = Append(exits, e) /\ MaxExits \in Nat
  BY Finite DEF LiveInv, BookInv, BookTypes
<1> HIDE DEF e
<1>3. /\ exits' \in Seq(Exits) /\ Len(exits') = Len(exits) + 1 /\ DOMAIN exits' = 1..(Len(exits) + 1)
      /\ exits'[Len(exits) + 1] = e
      /\ \A i \in DOMAIN exits : i \in DOMAIN exits' /\ exits'[i] = exits[i]
  BY <1>1, <1>2
<1>4. Len(exits) + 1 \in ExitIds /\ Len(exits) + 1 \in 1..(Len(exits) + 1) /\ Len(exits) + 1 <= MaxExits
  BY <1>2 DEF ExitIds
<1> QED BY <1>1, <1>3, <1>4 DEF Grows

LEMMA FlattenGrows ==
  ASSUME LiveInv, NEW s \in LiveSymbols, position[s] # 0, Len(exits) < MaxExits, Flatten(s)
  PROVE  /\ Grows /\ Len(exits) + 1 \in DOMAIN exits' /\ Len(exits) + 1 \in ExitIds
<1>1. -Signed(position[s]) \in Pnls
  BY SiteFacts, SignOf DEF Pnls
<1> QED BY <1>1, ExitsGrow DEF Flatten

LEMMA RowFacts ==
  ASSUME LiveInv
  PROVE  /\ liveRows \in Seq(Trades) /\ Len(liveRows) \in Nat /\ DOMAIN liveRows = 1..Len(liveRows)
         /\ IsFiniteSet(DOMAIN liveRows)
         /\ \A i \in DOMAIN liveRows : liveRows[i] \in Trades /\ liveRows[i].pnl \in Int
         /\ Pnl \in [DOMAIN liveRows -> Int] /\ SumFunction(Pnl) \in Int
<1>1. liveRows \in Seq(Trades) /\ Len(liveRows) \in Nat /\ DOMAIN liveRows = 1..Len(liveRows)
  BY DEF LiveInv, BookInv, BookTypes
<1>2. IsFiniteSet(DOMAIN liveRows)
  BY <1>1, FS_Interval
<1>3. \A r \in Trades : r.pnl \in Int
  BY DEF Trades, Pnls
<1>4. \A i \in DOMAIN liveRows : liveRows[i] \in Trades /\ liveRows[i].pnl \in Int
  BY <1>1, <1>3
<1>5. Pnl \in [DOMAIN liveRows -> Int]
  BY <1>4 DEF Pnl
<1>6. SumFunction(Pnl) \in Int
  BY <1>2, <1>5, SumInt
<1> QED BY <1>1, <1>2, <1>4, <1>5, <1>6

LEMMA ClickFacts ==
  ASSUME LiveInv, NEW c \in Closers
  PROVE  /\ clicks \in [Closers -> Closes \cup {NoCall}] /\ Carries(c)
         /\ clicks[c] # NoCall => /\ clicks[c] \in Closes /\ clicks[c].symbol \in LiveSymbols
                                  /\ clicks[c].size \in Int /\ clicks[c].row \in 0..MaxEntries
         /\ \A i \in DOMAIN exits : exits[i].pnl \in Pnls /\ exits[i].pnl \in Int /\ i \in ExitIds
         /\ Due \in [Closers -> Int] /\ SumFunction(Due) \in Int
<1>1. clicks \in [Closers -> Closes \cup {NoCall}] /\ \A d \in Closers : Carries(d)
  BY DEF LiveInv, BookInv, BookTypes
<1>2. \A q \in Closes : q.symbol \in LiveSymbols /\ q.size \in Int /\ q.row \in 0..MaxEntries
  BY Finite DEF Closes
<1>3. \A i \in DOMAIN exits : exits[i].pnl \in Pnls /\ exits[i].pnl \in Int /\ i \in ExitIds
  <2>1. exits \in Seq(Exits) /\ Len(exits) <= MaxExits /\ MaxExits \in Nat
    BY Finite DEF LiveInv, BookInv, BookTypes
  <2>2. \A e \in Exits : e.pnl \in Pnls /\ e.pnl \in Int
    BY DEF Exits, Pnls
  <2> QED BY <2>1, <2>2 DEF ExitIds
<1>4. ASSUME NEW d \in Closers, Clicking(d, {"credit"}) PROVE exits[clicks[d].exit].pnl \in Int
  <2>1. clicks[d].exit \in DOMAIN exits
    BY <1>1, <1>4 DEF Carries, Clicking
  <2> QED BY <1>3, <2>1
<1>5. Due \in [Closers -> Int]
  BY <1>4 DEF Due
<1>6. SumFunction(Due) \in Int
  BY <1>5, Finite, SumInt
<1> QED BY <1>1, <1>2, <1>3, <1>5, <1>6

LEMMA DueOf ==
  ASSUME LiveInv, Grows, NEW d \in Closers, clicks'[d] = clicks[d]
  PROVE  Due'[d] = Due[d] /\ Due'[d] = IF Clicking(d, {"credit"}) THEN exits[clicks[d].exit].pnl ELSE 0
<1>1. Due[d] = IF Clicking(d, {"credit"}) THEN exits[clicks[d].exit].pnl ELSE 0
  BY DEF Due
<1>2. Due'[d] = IF Clicking(d, {"credit"})' THEN exits'[clicks[d].exit].pnl ELSE 0
  BY DEF Due
<1>3. Clicking(d, {"credit"})' = Clicking(d, {"credit"})
  BY DEF Clicking
<1>4. Clicking(d, {"credit"}) => exits'[clicks[d].exit] = exits[clicks[d].exit]
  BY ClickFacts DEF Carries, Clicking, Grows
<1> QED BY <1>1, <1>2, <1>3, <1>4

LEMMA ClosesSum ==
  ASSUME NEW c \in Closers, NEW f \in [Closers -> Int], NEW e \in [Closers -> Int],
         \A d \in Closers \ {c} : e[d] = f[d]
  PROVE  SumFunction(e) = SumFunction(f) - f[c] + e[c]
  BY Finite, SumExcept

LEMMA Balance ==
  ASSUME NEW r \in Int, NEW q \in Int, NEW a \in Int, NEW b \in Int, NEW u \in Int, NEW v \in Int, NEW x \in Int,
         r + a = b, (q - r) + (v - u) = x - b
  PROVE  q + (a - u + v) = x
  OBVIOUS

(* One close moves: what it has due changes by what the account and the rows gain *)
LEMMA OneClose ==
  ASSUME LiveInv, NEW c \in Closers, Grows, provider' = provider,
         clicks' \in [Closers -> Closes \cup {NoCall}], \A d \in Closers \ {c} : clicks'[d] = clicks[d],
         liveRows' \in Seq(Trades), Len(liveRows') = Len(liveRows), realized' \in Int, torn' \in BOOLEAN,
         Carries(c)', \A i \in DOMAIN liveRows' : liveRows'[i].status = "open" => liveRows'[i].pnl = 0,
         SumFunction(Pnl)' \in Int, Due'[c] \in Int,
         ~torn' => ~torn /\ (realized' - realized) + (Due'[c] - Due[c]) = SumFunction(Pnl)' - SumFunction(Pnl)
  PROVE  BookInv'
<1>1. BookTypes'
  BY DEF BookTypes, Grows
<1>2. ASSUME NEW d \in Closers, d # c PROVE Carries(d)'
  <2>1. clicks'[d] = clicks[d] /\ Carries(d) /\ DOMAIN liveRows' = DOMAIN liveRows
    BY <1>2, ClickFacts, RowFacts
  <2> QED BY <2>1 DEF Carries, Clicking, Grows
<1>3. \A d \in Closers : Carries(d)'
  BY <1>2
<1>4. \A d \in Closers \ {c} : Due'[d] = Due[d]
  BY DueOf
<1>5. Due \in [Closers -> Int] /\ SumFunction(Due) \in Int
  BY ClickFacts
<1>6. Due' \in [Closers -> Int]
  <2>1. \A d \in Closers : Due'[d] \in Int
    BY <1>4, <1>5
  <2>2. Due' = [d \in Closers |-> Due'[d]]
    BY DEF Due
  <2> HIDE DEF Due
  <2> QED BY <2>1, <2>2
<1>7. SumFunction(Due') = SumFunction(Due) - Due[c] + Due'[c]
  <2>1. PICK f \in [Closers -> Int], e \in [Closers -> Int] : f = Due /\ e = Due'
    BY <1>5, <1>6
  <2>2. IsFiniteSet(Closers) /\ \A d \in Closers \ {c} : e[d] = f[d]
    BY <1>4, <2>1, Finite
  <2>3. SumFunction(e) = SumFunction(f) - f[c] + e[c]
    BY <2>2, ClosesSum
  <2> QED BY <2>1, <2>3
<1>8. Booked'
  <2> DEFINE a == SumFunction(Due)  b == SumFunction(Pnl)  x == SumFunction(Pnl)'  u == Due[c]  v == Due'[c]
  <2>1. a \in Int /\ b \in Int /\ x \in Int /\ u \in Int /\ v \in Int /\ realized \in Int /\ realized' \in Int
    BY <1>5, RowFacts DEF LiveInv, BookInv, BookTypes
  <2>2. ~torn' => realized + a = b
    BY DEF LiveInv, BookInv, Booked
  <2>3. ~torn' => (realized' - realized) + (v - u) = x - b
    OBVIOUS
  <2>4. SumFunction(Due)' = a - u + v
    BY <1>7
  <2> HIDE DEF a, b, x, u, v
  <2>5. ASSUME ~torn' PROVE realized' + (a - u + v) = x
    <3>1. realized + a = b /\ (realized' - realized) + (v - u) = x - b
      BY <2>2, <2>3, <2>5
    <3>2. PICK r \in Int, q \in Int, k \in Int, m \in Int, y \in Int, z \in Int, w \in Int :
            r = realized /\ q = realized' /\ k = a /\ m = b /\ y = u /\ z = v /\ w = x
      BY <2>1
    <3>3. r + k = m /\ (q - r) + (z - y) = w - m
      BY <3>1, <3>2
    <3>4. q + (k - y + z) = w
      BY <3>3, Balance
    <3> QED BY <3>2, <3>4
  <2>6. ~torn' => realized' + SumFunction(Due)' = SumFunction(Pnl)'
    BY <2>4, <2>5 DEF x
  <2> QED BY <2>6 DEF Booked
<1> QED BY <1>1, <1>3, <1>8 DEF BookInv

(* Nothing but the exits changes *)
LEMMA BookKept ==
  ASSUME LiveInv, Grows, UNCHANGED <<provider, clicks, liveRows, realized, torn>>
  PROVE  BookInv'
<1>1. BookTypes' /\ \A i \in DOMAIN liveRows' : liveRows'[i].status = "open" => liveRows'[i].pnl = 0
  BY DEF LiveInv, BookInv, BookTypes, Grows
<1>2. \A d \in Closers : Carries(d)'
  BY DEF LiveInv, BookInv, Carries, Clicking, Grows
<1>3. Due' = Due
  <2>1. \A d \in Closers : Due'[d] = Due[d]
    BY DueOf
  <2>2. Due' = [d \in Closers |-> Due'[d]] /\ Due = [d \in Closers |-> Due[d]]
    BY DEF Due
  <2> HIDE DEF Due
  <2> QED BY <2>1, <2>2
<1>4. SumFunction(Due)' = SumFunction(Due) /\ SumFunction(Pnl)' = SumFunction(Pnl)
  BY <1>3 DEF Pnl
<1>5. Booked'
  BY <1>4 DEF LiveInv, BookInv, Booked
<1> QED BY <1>1, <1>2, <1>5 DEF BookInv

ClickSteps == {"order", "cancel", "select", "update", "credit", "refresh"}

LEMMA Stepped ==
  ASSUME LiveInv, NEW c \in Closers, clicks[c] # NoCall, NEW step \in ClickSteps, Step(c, step)
  PROVE  /\ clicks' \in [Closers -> Closes \cup {NoCall}] /\ \A d \in Closers \ {c} : clicks'[d] = clicks[d]
         /\ clicks'[c] # NoCall /\ clicks'[c].step = step
         /\ clicks'[c].size = clicks[c].size /\ clicks'[c].exit = clicks[c].exit /\ clicks'[c].row = clicks[c].row
<1> DEFINE p == clicks[c]  q == [p EXCEPT !.step = step]
<1>1. clicks \in [Closers -> Closes \cup {NoCall}] /\ p \in Closes
  BY ClickFacts
<1>2. q \in Closes /\ q.step = step /\ q.size = p.size /\ q.exit = p.exit /\ q.row = p.row
  BY <1>1 DEF Closes, ClickSteps
<1>3. q # NoCall
  BY <1>2, Finite
<1>4. clicks' = [clicks EXCEPT ![c] = q]
  BY <1>1 DEF Step
<1> HIDE DEF q, p
<1>5. clicks'[c] = q /\ \A d \in Closers \ {c} : clicks'[d] = clicks[d]
  BY <1>1, <1>4
<1>6. clicks' \in [Closers -> Closes \cup {NoCall}]
  BY <1>1, <1>2, <1>4
<1> QED BY <1>2, <1>3, <1>5, <1>6 DEF p

LEMMA Returned ==
  ASSUME LiveInv, NEW c \in Closers, Return(c)
  PROVE  /\ clicks' \in [Closers -> Closes \cup {NoCall}] /\ \A d \in Closers \ {c} : clicks'[d] = clicks[d]
         /\ Carries(c)' /\ Due'[c] = 0
<1>1. clicks \in [Closers -> Closes \cup {NoCall}]
  BY ClickFacts
<1>2. /\ clicks' \in [Closers -> Closes \cup {NoCall}] /\ \A d \in Closers \ {c} : clicks'[d] = clicks[d]
      /\ clicks'[c] = NoCall
  BY <1>1 DEF Return
<1>3. \A steps : ~Clicking(c, steps)'
  BY <1>2 DEF Clicking
<1>4. Due'[c] = 0
  BY <1>3 DEF Due
<1> QED BY <1>2, <1>3, <1>4 DEF Carries

(* A close that moves neither a row nor the account *)
LEMMA QuietClose ==
  ASSUME LiveInv, NEW c \in Closers, Grows, UNCHANGED <<provider, liveRows, realized>>,
         clicks' \in [Closers -> Closes \cup {NoCall}], \A d \in Closers \ {c} : clicks'[d] = clicks[d],
         Carries(c)', torn' \in BOOLEAN, Due'[c] \in Int, ~torn' => ~torn /\ Due'[c] = Due[c]
  PROVE  BookInv'
<1>1. /\ liveRows' \in Seq(Trades) /\ realized' \in Int
      /\ \A i \in DOMAIN liveRows' : liveRows'[i].status = "open" => liveRows'[i].pnl = 0
  BY DEF LiveInv, BookInv, BookTypes
<1>2. SumFunction(Pnl)' = SumFunction(Pnl) /\ SumFunction(Pnl)' \in Int
  BY RowFacts DEF Pnl
<1>3. ASSUME ~torn'
      PROVE  ~torn /\ (realized' - realized) + (Due'[c] - Due[c]) = SumFunction(Pnl)' - SumFunction(Pnl)
  <2>1. PICK x \in Int, y \in Int, z \in Int : x = realized /\ y = Due[c] /\ z = SumFunction(Pnl)
    BY <1>1, RowFacts, ClickFacts
  <2>2. (x - x) + (y - y) = z - z
    OBVIOUS
  <2> QED BY <1>2, <1>3, <2>1, <2>2
<1> QED BY <1>1, <1>2, <1>3, OneClose

LEMMA ReadPositionBook ==
  ASSUME LiveInv, NEW c \in Closers, NEW s \in LiveSymbols, ReadPosition(c, s)
  PROVE  BookInv'
<1> DEFINE order == [symbol |-> s, size |-> position[s], step |-> "order", exit |-> 0, row |-> 0]
           cancel == [symbol |-> s, size |-> 0, step |-> "cancel", exit |-> 0, row |-> 0]
<1>1. position[s] \in -MaxEntries..MaxEntries /\ 0 \in -MaxEntries..MaxEntries /\ 0 \in 0..MaxEntries
  <2>1. position[s] \in -entries..entries /\ entries \in 0..MaxEntries /\ position[s] \in Int
    BY SiteFacts DEF LiveInv, TabInv, TabTypes
  <2> QED BY <2>1, Finite
<1>2. order \in Closes /\ cancel \in Closes
  BY <1>1 DEF Closes
<1>3. PICK q \in Closes : /\ clicks' = [clicks EXCEPT ![c] = q] /\ q.step \in {"order", "cancel"}
                          /\ q.step = "order" => q.size # 0
                          /\ q.step = "cancel" => q.size = 0 /\ provider = "binance"
  <2>1. CASE position[s] # 0 /\ clicks' = [clicks EXCEPT ![c] = order]
    BY <1>2, <2>1
  <2>2. CASE provider = "binance" /\ clicks' = [clicks EXCEPT ![c] = cancel]
    BY <1>2, <2>2
  <2> QED BY <2>1, <2>2 DEF ReadPosition
<1> HIDE DEF order, cancel
<1>4. clicks[c] = NoCall /\ exits' = exits /\ UNCHANGED <<provider, liveRows, realized, torn>>
  BY DEF ReadPosition, venueVars, storeVars
<1>5. /\ clicks' \in [Closers -> Closes \cup {NoCall}] /\ \A d \in Closers \ {c} : clicks'[d] = clicks[d]
      /\ clicks'[c] = q
  BY <1>3, ClickFacts
<1>6. q # NoCall
  BY Finite
<1>7. Carries(c)'
  BY <1>3, <1>4, <1>5, <1>6 DEF Carries, Clicking
<1>8. Due'[c] = 0 /\ Due[c] = 0
  BY <1>3, <1>4, <1>5 DEF Due, Clicking
<1>9. torn' \in BOOLEAN
  BY <1>4 DEF LiveInv, BookInv, BookTypes
<1> QED BY <1>4, <1>5, <1>7, <1>8, <1>9, ExitsStay, QuietClose

LEMMA CloseOrderGrows == ASSUME LiveInv, NEW c \in Closers, CloseOrder(c) PROVE Grows
<1>1. clicks[c] # NoCall /\ clicks[c].step = "order"
  BY DEF CloseOrder
<1>2. clicks[c].symbol \in LiveSymbols /\ clicks[c].size \in Int /\ clicks[c].size # 0
  BY <1>1, ClickFacts DEF Carries, Clicking
<1> PICK s \in LiveSymbols, size \in Int : s = clicks[c].symbol /\ size = clicks[c].size /\ size # 0
  BY <1>2
<1>3. CASE UNCHANGED venueVars
  BY <1>3, ExitsStay DEF venueVars
<1>4. CASE /\ Signed(position[s]) = Signed(size) /\ Len(exits) < MaxExits
           /\ Flatten(s) \/ exits' = Append(exits, [symbol |-> s, pnl |-> -Signed(size)])
  <2>1. position[s] # 0 /\ -Signed(size) \in Pnls
    BY <1>4, SiteFacts, SignOf DEF Pnls
  <2> QED BY <1>4, <2>1, FlattenGrows, ExitsGrow
<1> QED BY <1>3, <1>4 DEF CloseOrder

LEMMA CloseOrderBook == ASSUME LiveInv, NEW c \in Closers, CloseOrder(c) PROVE BookInv'
<1>1. clicks[c] # NoCall /\ clicks[c].step = "order" /\ UNCHANGED <<provider, liveRows, realized, torn>>
  BY DEF CloseOrder, storeVars
<1>2. clicks[c] \in Closes /\ clicks[c].symbol \in LiveSymbols /\ clicks[c].size \in Int /\ clicks[c].size # 0
  BY <1>1, ClickFacts DEF Carries, Clicking
<1> PICK s \in LiveSymbols, size \in Int : s = clicks[c].symbol /\ size = clicks[c].size /\ size # 0
  BY <1>2
<1>3. Due[c] = 0 /\ torn' \in BOOLEAN
  BY <1>1 DEF Due, Clicking, LiveInv, BookInv, BookTypes
<1> DEFINE step == IF provider = "binance" THEN "cancel" ELSE "select"
           p == clicks[c]  q == [p EXCEPT !.exit = Len(exits) + 1, !.step = step]
<1>4. CASE Return(c) /\ UNCHANGED venueVars
  <2>1. Grows
    BY <1>4, ExitsStay DEF venueVars
  <2> QED BY <1>1, <1>3, <1>4, <2>1, Returned, QuietClose
<1>5. CASE /\ Signed(position[s]) = Signed(size) /\ Len(exits) < MaxExits
           /\ Flatten(s) \/ exits' = Append(exits, [symbol |-> s, pnl |-> -Signed(size)])
           /\ clicks' = [clicks EXCEPT ![c] = q]
  <2>1. Grows /\ Len(exits) + 1 \in DOMAIN exits' /\ Len(exits) + 1 \in ExitIds
    <3>1. position[s] # 0 /\ -Signed(size) \in Pnls
      BY <1>5, SiteFacts, SignOf DEF Pnls
    <3> QED BY <1>5, <3>1, FlattenGrows, ExitsGrow
  <2>2. q \in Closes /\ q.step = step /\ q.exit = Len(exits) + 1
    BY <1>2, <2>1 DEF Closes
  <2>3. step \in {"cancel", "select"} /\ (step = "cancel" => provider = "binance")
    OBVIOUS
  <2>4. q # NoCall
    BY <2>2, Finite
  <2> HIDE DEF q, step
  <2>5. /\ clicks' \in [Closers -> Closes \cup {NoCall}] /\ \A d \in Closers \ {c} : clicks'[d] = clicks[d]
        /\ clicks'[c] = q
    BY <1>5, <2>2, ClickFacts
  <2>6. Carries(c)'
    BY <1>1, <2>1, <2>2, <2>3, <2>5 DEF Carries, Clicking
  <2>7. Due'[c] = 0
    BY <2>2, <2>3, <2>5 DEF Due, Clicking
  <2> QED BY <1>1, <1>3, <2>1, <2>5, <2>6, <2>7, QuietClose
<1>6. clicks' = [clicks EXCEPT ![c].exit = Len(exits) + 1, ![c].step = step] => clicks' = [clicks EXCEPT ![c] = q]
  BY ClickFacts
<1> QED BY <1>4, <1>5, <1>6 DEF CloseOrder

LEMMA CancelBook == ASSUME LiveInv, NEW c \in Closers, CancelAll(c) PROVE BookInv'
<1> DEFINE step == IF clicks[c].size = 0 THEN "refresh" ELSE "select"
<1>1. /\ clicks[c] # NoCall /\ clicks[c].step = "cancel" /\ UNCHANGED <<provider, exits, liveRows, realized, torn>>
      /\ Step(c, step) /\ step \in ClickSteps
  BY DEF CancelAll, storeVars, ClickSteps
<1>2. clicks[c].size # 0 => clicks[c].exit \in DOMAIN exits
  BY <1>1, ClickFacts DEF Carries, Clicking
<1>3. step \in {"refresh", "select"} /\ (step = "select" => clicks[c].exit \in DOMAIN exits)
  BY <1>2
<1>4. Grows /\ torn' \in BOOLEAN /\ Due[c] = 0
  BY <1>1, ExitsStay DEF Due, Clicking, LiveInv, BookInv, BookTypes
<1> HIDE DEF step
<1>5. /\ clicks' \in [Closers -> Closes \cup {NoCall}] /\ \A d \in Closers \ {c} : clicks'[d] = clicks[d]
      /\ clicks'[c] # NoCall /\ clicks'[c].step = step /\ clicks'[c].exit = clicks[c].exit
  BY <1>1, Stepped
<1>6. Carries(c)' /\ Due'[c] = 0
  BY <1>1, <1>3, <1>5 DEF Carries, Clicking, Due
<1> QED BY <1>1, <1>4, <1>5, <1>6, QuietClose

(* The newest of a set of rows is one of them *)
LEMMA NewestRow ==
  ASSUME LiveInv, NEW rows, rows \subseteq DOMAIN liveRows, rows # {}
  PROVE  Max(rows) \in rows
<1>1. IsFiniteSet(rows) /\ rows \subseteq Nat
  BY RowFacts, FS_Subset
<1> DEFINE Bound == {n \in 0..Len(liveRows) : \E x \in rows : x = Len(liveRows) - n}
<1>2. Bound \subseteq Nat /\ Bound # {} /\ Len(liveRows) \in Nat
  <2>1. PICK x \in rows : x \in 1..Len(liveRows)
    BY RowFacts
  <2>2. Len(liveRows) - x \in Bound
    BY <2>1, RowFacts
  <2> QED BY <2>2, RowFacts
<1>3. PICK n \in Bound : \A m \in Bound : n <= m
  <2> HIDE DEF Bound
  <2> QED BY <1>2, LeastNatural
<1>4. PICK x \in rows : x = Len(liveRows) - n
  OBVIOUS
<1>5. ASSUME NEW y \in rows PROVE y <= x
  <2>1. y \in 1..Len(liveRows) /\ Len(liveRows) - y \in Bound
    BY RowFacts
  <2>2. n <= Len(liveRows) - y
    <3> HIDE DEF Bound
    <3> QED BY <1>3, <2>1
  <2>3. n \in Nat
    BY <1>2
  <2> QED BY <1>2, <1>4, <2>1, <2>2, <2>3
<1>6. \E z \in rows : \A y \in rows : y <= z
  BY <1>5
<1>7. \E z \in rows : \A y \in rows : z >= y
  <2>1. \A u, v \in rows : u <= v => v >= u
    BY <1>1
  <2> QED BY <1>6, <2>1
<1> QED BY <1>7 DEF Max

LEMMA SelectBook == ASSUME LiveInv, NEW c \in Closers, SelectRow(c) PROVE BookInv'
<1>1. /\ clicks[c] # NoCall /\ clicks[c].step = "select"
      /\ UNCHANGED <<provider, exits, liveRows, realized, torn>>
  BY DEF SelectRow, venueVars, storeVars
<1>2. clicks[c] \in Closes /\ clicks[c].exit \in DOMAIN exits
  BY <1>1, ClickFacts DEF Carries, Clicking
<1>3. Grows /\ torn' \in BOOLEAN /\ Due[c] = 0
  BY <1>1, ExitsStay DEF Due, Clicking, LiveInv, BookInv, BookTypes
<1> DEFINE p == clicks[c]  open == OpenRows(p.symbol)
<1>4. \E q \in Closes : /\ clicks' = [clicks EXCEPT ![c] = q] /\ q.exit = p.exit
                        /\ q.step = "refresh" \/ (q.step = "update" /\ q.row \in DOMAIN liveRows)
  <2>1. CASE open = {}
    <3> DEFINE q == [p EXCEPT !.step = "refresh"]
    <3>1. q \in Closes /\ q.step = "refresh" /\ q.exit = p.exit
      BY <1>2 DEF Closes
    <3>2. clicks' = [clicks EXCEPT ![c] = q]
      BY <2>1, ClickFacts DEF SelectRow, WithoutRow
    <3> QED BY <3>1, <3>2
  <2>2. CASE open # {}
    <3> DEFINE i == Max(open)  q == [p EXCEPT !.row = i, !.step = "update"]
    <3>1. i \in DOMAIN liveRows
      <4>1. open \subseteq DOMAIN liveRows
        BY DEF OpenRows
      <4> HIDE DEF open
      <4> QED BY <2>2, <4>1, NewestRow
    <3>2. i \in 0..MaxEntries
      <4>1. Len(liveRows) <= entries
        BY Numbers DEF LiveInv, TabInv, Counted
      <4>2. entries \in 0..MaxEntries
        BY DEF LiveInv, TabInv, TabTypes
      <4> HIDE DEF i
      <4> QED BY <3>1, <4>1, <4>2, RowFacts, Finite
    <3>3. clicks' = [clicks EXCEPT ![c] = q]
      BY <2>2, ClickFacts DEF SelectRow
    <3> HIDE DEF i
    <3>4. q \in Closes /\ q.step = "update" /\ q.exit = p.exit /\ q.row = i
      BY <1>2, <3>2 DEF Closes
    <3> QED BY <3>1, <3>3, <3>4
  <2> QED BY <2>1, <2>2
<1>5. PICK q \in Closes : /\ clicks' = [clicks EXCEPT ![c] = q] /\ q.exit = p.exit
                          /\ q.step = "refresh" \/ (q.step = "update" /\ q.row \in DOMAIN liveRows)
  BY <1>4
<1>6. /\ clicks' \in [Closers -> Closes \cup {NoCall}] /\ \A d \in Closers \ {c} : clicks'[d] = clicks[d]
      /\ clicks'[c] = q
  BY <1>5, ClickFacts
<1>7. Carries(c)'
  BY <1>1, <1>2, <1>5, <1>6 DEF Carries, Clicking
<1>8. Due'[c] = 0
  BY <1>5, <1>6 DEF Due, Clicking
<1> QED BY <1>1, <1>3, <1>6, <1>7, <1>8, QuietClose

(* The row takes the exit's profit, and the account still has it to come *)
LEMMA UpdateBook == ASSUME LiveInv, NEW c \in Closers, UpdateRow(c) PROVE BookInv'
<1>1. /\ clicks[c] # NoCall /\ clicks[c].step = "update" /\ Step(c, "credit")
      /\ UNCHANGED <<provider, exits, realized>>
  BY DEF UpdateRow, venueVars
<1>2. clicks[c] \in Closes /\ clicks[c].exit \in DOMAIN exits /\ clicks[c].row \in DOMAIN liveRows
  BY <1>1, ClickFacts DEF Carries, Clicking
<1> PICK i \in DOMAIN liveRows, x \in DOMAIN exits : i = clicks[c].row /\ x = clicks[c].exit
  BY <1>2
<1> PICK pnl \in Int : pnl = exits[x].pnl
  BY ClickFacts
<1>3. pnl \in Pnls /\ x \in ExitIds
  BY ClickFacts
<1> DEFINE old == liveRows[i]  new == [old EXCEPT !.status = "closed", !.exit = x, !.pnl = pnl]
<1>4. old \in Trades
  BY RowFacts
<1>5. new \in Trades /\ new.status = "closed" /\ new.pnl = pnl
  BY <1>3, <1>4 DEF Trades
<1>6. liveRows' = [liveRows EXCEPT ![i] = new] /\ torn' = (torn \/ old.status = "closed")
  BY <1>4 DEF UpdateRow
<1>7. Grows /\ realized' \in Int /\ Due[c] = 0
  BY <1>1, ExitsStay DEF Due, Clicking, LiveInv, BookInv, BookTypes
<1>8. torn' \in BOOLEAN
  BY <1>6 DEF LiveInv, BookInv, BookTypes
<1>9. old.status # "closed" => old.pnl = 0
  <2>1. old.status \in {"open", "closed"}
    BY <1>4 DEF Trades
  <2> QED BY <2>1 DEF LiveInv, BookInv
<1>10. \A j \in DOMAIN liveRows : liveRows[j].status = "open" => liveRows[j].pnl = 0
  BY DEF LiveInv, BookInv
<1> HIDE DEF new
<1>11. /\ liveRows' \in Seq(Trades) /\ Len(liveRows') = Len(liveRows) /\ DOMAIN liveRows' = DOMAIN liveRows
       /\ liveRows'[i] = new /\ \A j \in DOMAIN liveRows \ {i} : liveRows'[j] = liveRows[j]
  BY <1>5, <1>6, RowFacts
<1>12. \A j \in DOMAIN liveRows' : liveRows'[j].status = "open" => liveRows'[j].pnl = 0
  BY <1>5, <1>10, <1>11
<1>13. SumFunction(Pnl)' = SumFunction(Pnl) - old.pnl + pnl /\ SumFunction(Pnl) \in Int /\ old.pnl \in Int
  <2>1. PICK f : f = Pnl
    OBVIOUS
  <2>2. PICK e : e = Pnl'
    OBVIOUS
  <2>3. f \in [DOMAIN liveRows -> Int] /\ f[i] = old.pnl /\ old.pnl \in Int
    BY <2>1, RowFacts DEF Pnl
  <2>4. e = [j \in DOMAIN liveRows |-> liveRows'[j].pnl]
    BY <1>11, <2>2 DEF Pnl
  <2>5. \A j \in DOMAIN liveRows : liveRows'[j].pnl \in Int
    BY <1>5, <1>11, RowFacts
  <2>6. e \in [DOMAIN liveRows -> Int] /\ e[i] = pnl
    BY <1>5, <1>11, <2>4, <2>5
  <2>7. \A j \in DOMAIN liveRows \ {i} : e[j] = f[j]
    BY <1>11, <2>1, <2>4 DEF Pnl
  <2>8. SumFunction(e) = SumFunction(f) - f[i] + e[i]
    <3>1. IsFiniteSet(DOMAIN liveRows)
      BY RowFacts
    <3> QED BY <2>3, <2>6, <2>7, <3>1, SumExcept
  <2>9. SumFunction(Pnl)' = SumFunction(e) /\ SumFunction(Pnl) = SumFunction(f)
    BY <2>1, <2>2
  <2> QED BY <2>3, <2>6, <2>8, <2>9, RowFacts
<1>14. /\ clicks' \in [Closers -> Closes \cup {NoCall}] /\ \A d \in Closers \ {c} : clicks'[d] = clicks[d]
       /\ clicks'[c] # NoCall /\ clicks'[c].step = "credit" /\ clicks'[c].exit = x
  BY <1>1, Stepped DEF ClickSteps
<1>15. Due'[c] = pnl
  BY <1>1, <1>14 DEF Due, Clicking
<1>16. Carries(c)'
  BY <1>1, <1>14 DEF Carries, Clicking
<1>17. ASSUME ~torn'
       PROVE  ~torn /\ (realized' - realized) + (Due'[c] - Due[c]) = SumFunction(Pnl)' - SumFunction(Pnl)
  <2>1. ~torn /\ old.pnl = 0
    BY <1>6, <1>9, <1>17
  <2>2. PICK r \in Int, b \in Int : r = realized /\ b = SumFunction(Pnl)
    BY <1>1, <1>7, <1>13
  <2>3. SumFunction(Pnl)' = b - 0 + pnl
    BY <1>13, <2>1, <2>2
  <2>4. (r - r) + (pnl - 0) = (b - 0 + pnl) - b
    OBVIOUS
  <2> QED BY <1>1, <1>7, <1>15, <2>1, <2>2, <2>3, <2>4
<1>18. SumFunction(Pnl)' \in Int
  BY <1>13
<1> QED BY <1>1, <1>7, <1>8, <1>11, <1>12, <1>14, <1>15, <1>16, <1>17, <1>18, OneClose

LEMMA CreditBook == ASSUME LiveInv, NEW c \in Closers, Credit(c) PROVE BookInv'
<1>1. /\ clicks[c] # NoCall /\ clicks[c].step = "credit" /\ Step(c, "refresh")
      /\ UNCHANGED <<provider, exits, liveRows, torn>> /\ realized' = realized + exits[clicks[c].exit].pnl
  BY DEF Credit, venueVars
<1>2. clicks[c].exit \in DOMAIN exits
  BY <1>1, ClickFacts DEF Carries, Clicking
<1> PICK pnl \in Int : pnl = exits[clicks[c].exit].pnl
  BY <1>2, ClickFacts
<1>3. Grows /\ Due[c] = pnl
  BY <1>1, ExitsStay DEF Due, Clicking
<1>4. /\ realized \in Int /\ torn' \in BOOLEAN /\ liveRows' \in Seq(Trades) /\ Len(liveRows') = Len(liveRows)
      /\ \A i \in DOMAIN liveRows' : liveRows'[i].status = "open" => liveRows'[i].pnl = 0
  BY <1>1 DEF LiveInv, BookInv, BookTypes
<1>5. realized' \in Int /\ realized' = realized + pnl
  BY <1>1, <1>4
<1>6. /\ clicks' \in [Closers -> Closes \cup {NoCall}] /\ \A d \in Closers \ {c} : clicks'[d] = clicks[d]
      /\ clicks'[c] # NoCall /\ clicks'[c].step = "refresh"
  BY <1>1, Stepped DEF ClickSteps
<1>7. Carries(c)' /\ Due'[c] = 0
  BY <1>6 DEF Carries, Clicking, Due
<1>8. SumFunction(Pnl)' = SumFunction(Pnl) /\ SumFunction(Pnl)' \in Int
  BY <1>1, RowFacts DEF Pnl
<1>9. ASSUME ~torn'
      PROVE  ~torn /\ (realized' - realized) + (Due'[c] - Due[c]) = SumFunction(Pnl)' - SumFunction(Pnl)
  <2>1. PICK r \in Int, b \in Int : r = realized /\ b = SumFunction(Pnl)
    BY <1>4, RowFacts
  <2>2. ((r + pnl) - r) + (0 - pnl) = b - b
    OBVIOUS
  <2> QED BY <1>1, <1>3, <1>5, <1>7, <1>8, <1>9, <2>1, <2>2
<1> QED BY <1>1, <1>3, <1>4, <1>5, <1>6, <1>7, <1>8, <1>9, OneClose

LEMMA ReturnBook ==
  ASSUME LiveInv, NEW c \in Closers, Interrupt(c) \/ \E failed \in SUBSET (RowReads \cup ExitReads) : Refresh(c, failed)
  PROVE  BookInv'
<1>1. Return(c) /\ clicks[c] # NoCall /\ UNCHANGED <<provider, exits, liveRows, realized>>
  BY DEF Interrupt, Refresh, venueVars, storeVars
<1>2. torn' = (torn \/ clicks[c].step = "credit") \/ (torn' = torn /\ clicks[c].step # "credit")
  BY DEF Interrupt, Refresh, storeVars
<1>3. torn' \in BOOLEAN
  BY <1>2 DEF LiveInv, BookInv, BookTypes
<1>4. ~torn' => ~torn /\ Due[c] = 0
  BY <1>2 DEF Due, Clicking
<1>5. Grows
  BY <1>1, ExitsStay
<1> QED BY <1>1, <1>3, <1>4, <1>5, Returned, QuietClose

(* A zero at the end of a sequence adds nothing *)
LEMMA LongerSum ==
  ASSUME NEW n \in Nat, NEW f \in [1..n -> Int], NEW e \in [1..(n + 1) -> Int], \A i \in 1..n : e[i] = f[i],
         e[n + 1] = 0
  PROVE  SumFunction(e) = SumFunction(f) + 0
  BY SumLonger

(* A new row has no profit yet *)
LEMMA AppendBook ==
  ASSUME LiveInv, NEW s \in LiveSymbols, UNCHANGED <<provider, exits, clicks, realized, torn>>,
         liveRows' = Append(liveRows, [symbol |-> s, status |-> "open", exit |-> 0, pnl |-> 0])
  PROVE  BookInv'
<1> DEFINE new == [symbol |-> s, status |-> "open", exit |-> 0, pnl |-> 0]  n == Len(liveRows)
<1>1. new \in Trades /\ new.pnl = 0
  BY DEF Trades
<1>2. liveRows' = Append(liveRows, new)
  OBVIOUS
<1> HIDE DEF new
<1>3. /\ liveRows' \in Seq(Trades) /\ Len(liveRows') = n + 1 /\ DOMAIN liveRows' = 1..(n + 1)
      /\ liveRows'[n + 1] = new /\ \A i \in DOMAIN liveRows : liveRows'[i] = liveRows[i]
      /\ DOMAIN liveRows' = DOMAIN liveRows \cup {n + 1} /\ n + 1 \notin DOMAIN liveRows
  BY <1>1, <1>2, RowFacts
<1>4. BookTypes'
  BY <1>3 DEF LiveInv, BookInv, BookTypes
<1>5. \A i \in DOMAIN liveRows' : liveRows'[i].status = "open" => liveRows'[i].pnl = 0
  <2>1. \A i \in DOMAIN liveRows : liveRows[i].status = "open" => liveRows[i].pnl = 0
    BY DEF LiveInv, BookInv
  <2> QED BY <1>1, <1>3, <2>1
<1>6. \A c \in Closers : Carries(c)'
  <2>1. \A c \in Closers : Carries(c)
    BY ClickFacts
  <2> QED BY <1>3, <2>1 DEF Carries, Clicking
<1>7. SumFunction(Pnl)' = SumFunction(Pnl)
  <2>1. PICK f : f = Pnl
    OBVIOUS
  <2>2. PICK e : e = Pnl'
    OBVIOUS
  <2>3. f \in [DOMAIN liveRows -> Int] /\ \A i \in DOMAIN liveRows : f[i] = liveRows[i].pnl /\ liveRows[i].pnl \in Int
    BY <2>1, RowFacts DEF Pnl
  <2>4. e = [i \in 1..(n + 1) |-> liveRows'[i].pnl]
    BY <1>3, <2>2 DEF Pnl
  <2>5. \A i \in DOMAIN liveRows : liveRows'[i].pnl = f[i]
    BY <1>3, <2>3
  <2>6. liveRows'[n + 1].pnl = 0
    BY <1>1, <1>3
  <2>7. /\ e \in [1..(n + 1) -> Int] /\ e[n + 1] = 0 /\ f \in [1..n -> Int] /\ n \in Nat
        /\ \A i \in 1..n : e[i] = f[i]
    <3>1. n \in Nat /\ DOMAIN liveRows = 1..n
      BY RowFacts
    <3>2. \A i \in 1..n : liveRows'[i].pnl = f[i] /\ f[i] \in Int
      BY <2>3, <2>5, <3>1
    <3> HIDE DEF n
    <3>3. \A i \in 1..(n + 1) : i \in 1..n \/ i = n + 1
      BY <3>1
    <3>4. \A i \in 1..(n + 1) : e[i] = liveRows'[i].pnl /\ e[i] \in Int
      <4> SUFFICES ASSUME NEW i \in 1..(n + 1) PROVE e[i] = liveRows'[i].pnl /\ e[i] \in Int
        OBVIOUS
      <4>4. i \in 1..n \/ i = n + 1
        BY <3>3
      <4>1. e[i] = liveRows'[i].pnl
        BY <2>4
      <4>2. CASE i \in 1..n
        BY <3>2, <4>1, <4>2
      <4>3. CASE i = n + 1
        <5>1. e[i] = 0
          BY <2>6, <4>1, <4>3
        <5>2. 0 \in Int
          OBVIOUS
        <5>3. e[i] \in Int
          BY <5>1, <5>2, Zenon
        <5> QED BY <4>1, <5>3, Zenon
      <4> QED BY <4>4, <4>2, <4>3
    <3>5. 1..n \subseteq 1..(n + 1) /\ n + 1 \in 1..(n + 1)
      BY <3>1
    <3>6. e \in [1..(n + 1) -> Int]
      BY <2>4, <3>4
    <3> QED BY <2>3, <2>6, <3>1, <3>2, <3>4, <3>5, <3>6
  <2>8. SumFunction(e) = SumFunction(f) + 0
    <3>1. PICK k \in Nat : k = n
      BY <2>7
    <3>2. /\ e \in [1..(k + 1) -> Int] /\ e[k + 1] = 0 /\ f \in [1..k -> Int] /\ \A i \in 1..k : e[i] = f[i]
      BY <2>7, <3>1
    <3> QED BY <3>2, LongerSum
  <2>9. SumFunction(Pnl)' = SumFunction(e) /\ SumFunction(Pnl) = SumFunction(f)
    BY <2>1, <2>2
  <2> QED BY <2>8, <2>9, RowFacts
<1>8. SumFunction(Due)' = SumFunction(Due)
  BY DEF Due, Clicking
<1>9. Booked'
  BY <1>7, <1>8 DEF LiveInv, BookInv, Booked
<1> QED BY <1>4, <1>5, <1>6, <1>9 DEF BookInv

LEMMA PlacementGrows == ASSUME LiveInv, NEW s \in LiveSymbols, Placement(s) PROVE Grows
<1> DEFINE side == placing[s].side
<1>1. side \in Pnls /\ -side \in Pnls
  <2>1. side \in {1, -1}
    BY SiteFacts DEF Placement, Entry, Protect, Persist, Rollback
  <2>2. side \in Int /\ (side # 1 => side + 1 = 0) /\ \A x \in Int : x + 1 = 0 => -x = 1
    BY <2>1
  <2>3. -side \in {1, -1}
    BY <2>1, <2>2
  <2> QED BY <2>1, <2>3 DEF Pnls
<1>2. \/ exits' = exits
      \/ Len(exits') <= MaxExits /\ exits' = Append(exits, [symbol |-> s, pnl |-> side])
      \/ Len(exits) < MaxExits /\ exits' = Append(exits, [symbol |-> s, pnl |-> -side])
  <2>1. CASE Entry(s)
    BY <2>1 DEF Entry, Order, Lost, venueVars
  <2>2. CASE Protect(s) \/ Persist(s)
    BY <2>2 DEF Protect, Persist, Bare, venueVars
  <2>3. CASE Rollback(s)
    BY <2>3 DEF Rollback, Order, Bare, venueVars
  <2> QED BY <2>1, <2>2, <2>3 DEF Placement
<1> HIDE DEF side
<1>3. CASE Len(exits') <= MaxExits /\ exits' = Append(exits, [symbol |-> s, pnl |-> side])
  <2>1. exits \in Seq(Exits) /\ MaxExits \in Nat
    BY Finite DEF LiveInv, BookInv, BookTypes
  <2>2. Len(exits') = Len(exits) + 1 /\ Len(exits) \in Nat
    BY <1>3, <2>1
  <2>3. Len(exits) < MaxExits
    BY <1>3, <2>1, <2>2
  <2> QED BY <1>1, <1>3, <2>3, ExitsGrow
<1> QED BY <1>1, <1>2, <1>3, ExitsStay, ExitsGrow

LEMMA PlacementBook == ASSUME LiveInv, NEW s \in LiveSymbols, Placement(s) PROVE BookInv'
<1>1. placing[s] # NoCall /\ UNCHANGED <<provider, clicks, realized, torn>>
  BY DEF Placement, Entry, Protect, Persist, Rollback, storeVars
<1>2. CASE liveRows' = liveRows
  BY <1>1, <1>2, PlacementGrows, BookKept
<1>3. CASE /\ exits' = exits
           /\ liveRows' = Append(liveRows, [symbol |-> s, status |-> "open", exit |-> 0, pnl |-> 0])
  BY <1>1, <1>3, AppendBook
<1>4. CASE Persist(s)
  BY <1>2, <1>3, <1>4 DEF Persist, venueVars
<1>5. CASE Entry(s) \/ Protect(s) \/ Rollback(s)
  BY <1>2, <1>5 DEF Entry, Protect, Rollback, storeVars
<1> QED BY <1>4, <1>5 DEF Placement

LEMMA StopGrows == ASSUME LiveInv, NEW s \in LiveSymbols, StopFires(s) PROVE Grows
<1>1. position[s] # 0
  BY SiteFacts DEF StopFires
<1> QED BY <1>1, FlattenGrows DEF StopFires

LEMMA BookStep == ASSUME LiveInv, LiveNext PROVE BookInv'
<1>1. CASE \/ Arm \/ Disarm \/ \E failed \in SUBSET ExitReads : PollExits(failed)
           \/ \E status \in Statuses, failed \in SUBSET RowReads : PollRows(status, failed)
           \/ \E s \in LiveSymbols, side \in {1, -1} : SubmitEntry(s, side)
  <2>1. UNCHANGED <<provider, clicks, exits, liveRows, realized, torn>>
    BY <1>1 DEF Arm, Disarm, PollExits, PollRows, SubmitEntry, venueVars, storeVars
  <2> QED BY <2>1, ExitsStay, BookKept
<1>2. CASE \E s \in LiveSymbols : StopFires(s)
  <2>1. UNCHANGED <<provider, clicks, liveRows, realized, torn>>
    BY <1>2 DEF StopFires, storeVars
  <2> QED BY <1>2, <2>1, StopGrows, BookKept
<1>3. CASE \E s \in LiveSymbols : Placement(s)
  BY <1>3, PlacementBook
<1>4. CASE \E c \in Closers : CloseCall(c) \/ Interrupt(c) \/ \E s \in LiveSymbols : ReadPosition(c, s)
  BY <1>4, CloseOrderBook, CancelBook, SelectBook, UpdateBook, CreditBook, ReturnBook, ReadPositionBook DEF CloseCall
<1> QED BY <1>1, <1>2, <1>3, <1>4 DEF LiveNext

(* What a poll has read of the exits is still there when it answers *)
LEMMA PollStep == ASSUME LiveInv, LiveNext PROVE PollFits'
<1>1. CASE \E status \in Statuses, failed \in SUBSET RowReads : PollRows(status, failed)
  <2>1. exits' = exits /\ poll'.since = Len(exits)
    BY <1>1 DEF PollRows, venueVars
  <2>2. exits \in Seq(Exits)
    BY DEF LiveInv, BookInv, BookTypes
  <2>3. Len(exits) \in Nat /\ Len(exits) <= Len(exits)
    BY <2>2
  <2> QED BY <2>1, <2>3 DEF PollFits
<1>2. CASE Arm \/ Disarm \/ \E failed \in SUBSET ExitReads : PollExits(failed)
  BY <1>2 DEF Arm, Disarm, PollExits, PollFits
<1>3. ASSUME Grows, poll' = poll \/ poll' = NoPoll PROVE PollFits'
  <2>1. CASE poll' = NoPoll
    BY <2>1 DEF PollFits
  <2>2. CASE poll' = poll /\ poll # NoPoll
    <3>1. poll \in Polls /\ poll.since <= Len(exits)
      BY <2>2 DEF LiveInv, TabInv, TabTypes, PollFits
    <3>2. poll.since \in 0..MaxExits
      BY <3>1 DEF Polls
    <3>3. Len(exits) \in Nat /\ Len(exits') \in Nat /\ Len(exits) <= Len(exits')
      <4>1. /\ exits \in Seq(Exits) /\ exits' \in Seq(Exits)
            /\ \A i \in DOMAIN exits : i \in DOMAIN exits'
        BY <1>3 DEF Grows, LiveInv, BookInv, BookTypes
      <4>2. Len(exits) \in Nat /\ DOMAIN exits = 1..Len(exits) /\ Len(exits') \in Nat /\ DOMAIN exits' = 1..Len(exits')
        BY <4>1
      <4>3. Len(exits) # 0 => Len(exits) \in 1..Len(exits')
        BY <4>1, <4>2
      <4> QED BY <4>2, <4>3
    <3> QED BY <2>2, <3>1, <3>2, <3>3, Finite DEF PollFits
  <2> QED BY <1>3, <2>1, <2>2
<1>4. CASE \E s \in LiveSymbols : StopFires(s)
  BY <1>3, <1>4, StopGrows DEF StopFires, tabVars
<1>5. CASE \E s \in LiveSymbols : Placement(s)
  <2>1. poll' = poll \/ poll' = NoPoll
    BY <1>5 DEF Placement, Entry, Protect, Persist, Rollback, To, Failed, Filled, tabVars
  <2> QED BY <1>3, <1>5, <2>1, PlacementGrows
<1>6. CASE \/ \E s \in LiveSymbols, side \in {1, -1} : SubmitEntry(s, side)
           \/ \E c \in Closers : \/ CancelAll(c) \/ SelectRow(c) \/ UpdateRow(c) \/ Credit(c) \/ Interrupt(c)
                                 \/ \E failed \in SUBSET (RowReads \cup ExitReads) : Refresh(c, failed)
                                 \/ \E s \in LiveSymbols : ReadPosition(c, s)
  <2>1. exits' = exits /\ poll' = poll
    BY <1>6 DEF SubmitEntry, CancelAll, SelectRow, UpdateRow, Credit, Interrupt, Refresh, ReadPosition,
                tabVars, venueVars
  <2> QED BY <1>3, <2>1, ExitsStay
<1>7. CASE \E c \in Closers : CloseOrder(c)
  BY <1>3, <1>7, CloseOrderGrows DEF CloseOrder, tabVars
<1> QED BY <1>1, <1>2, <1>4, <1>5, <1>6, <1>7 DEF LiveNext, CloseCall

-----------------------------------------------------------------------------
LEMMA LiveStart == LiveInit => LiveInv
<1> SUFFICES ASSUME LiveInit PROVE LiveInv
  OBVIOUS
<1>1. Underway = {} /\ Cardinality(Underway) = 0
  BY FS_EmptySet DEF LiveInit, Underway
<1>2. TabInv
  <2>1. TabTypes
    <3>1. provider \in {"bybit", "binance"} /\ mode = FALSE /\ ready = FALSE /\ probed = FALSE
      BY DEF LiveInit
    <3>2. known = 0 /\ streak = 0 /\ entries = 0 /\ faults = 0 /\ poll = NoPoll
      BY DEF LiveInit
    <3>3. placing \in [LiveSymbols -> Placements \cup {NoCall}]
      BY DEF LiveInit
    <3>4. entries \in 0..MaxEntries
      BY <3>2, Finite
    <3> QED BY <3>1, <3>2, <3>3, <3>4 DEF TabTypes
  <2>2. Counted
    BY <1>1, Finite DEF LiveInit, Counted
  <2> QED BY <2>1, <2>2 DEF TabInv
<1>3. SiteInv
  BY DEF LiveInit, SiteInv, Explained, At
<1>4. BookInv
  <2>1. BookTypes
    <3>1. exits \in Seq(Exits) /\ Len(exits) = 0 /\ liveRows \in Seq(Trades) /\ realized = 0
      BY DEF LiveInit
    <3>4. torn = FALSE
      BY DEF LiveInit
    <3>2. clicks \in [Closers -> Closes \cup {NoCall}]
      BY DEF LiveInit
    <3>3. Len(exits) <= MaxExits /\ realized \in Int
      BY <3>1, Finite
    <3>5. torn \in BOOLEAN
      BY <3>4
    <3> QED BY <3>1, <3>2, <3>3, <3>5, Zenon DEF BookTypes
  <2>2. Due = [c \in Closers |-> 0]
    BY DEF LiveInit, Due, Clicking
  <2>3. SumFunction(Due) = 0
    BY <2>2, Finite, SumZero
  <2>4. Pnl = [i \in {} |-> 0]
    BY DEF LiveInit, Pnl
  <2>5. SumFunction(Pnl) = 0
    BY <2>4, FS_EmptySet, SumZero
  <2>6. Booked
    BY <2>3, <2>5 DEF LiveInit, Booked
  <2>7. \A c \in Closers : Carries(c)
    BY DEF LiveInit, Carries, Clicking
  <2> QED BY <2>1, <2>6, <2>7 DEF LiveInit, BookInv
<1> QED BY <1>2, <1>3, <1>4 DEF LiveInit, LiveInv, PollFits

LEMMA LiveStep == LiveInv /\ [LiveNext]_liveVars => LiveInv'
<1> SUFFICES ASSUME LiveInv, [LiveNext]_liveVars PROVE LiveInv'
  OBVIOUS
<1>1. CASE LiveNext
  BY <1>1, TabStep, SiteStep, BookStep, PollStep DEF LiveInv
<1>2. CASE UNCHANGED liveVars
  <2>1. UNCHANGED <<provider, mode, ready, probed, known, streak, poll, placing, entries, faults>>
    BY <1>2 DEF liveVars, tabVars
  <2>2. UNCHANGED <<position, stops, bared, exits, clicks, liveRows, realized, torn>>
    BY <1>2 DEF liveVars, venueVars, storeVars
  <2>3. TabInv'
    <3>1. faults' \in Nat
      BY <2>1, FaultCounts
    <3> QED BY <2>1, <2>2, <3>1, TabKept
  <2>4. SiteInv'
    BY <2>1, <2>2, SiteKept
  <2>5. BookInv'
    BY <2>1, <2>2, ExitsStay, BookKept
  <2>6. PollFits'
    BY <2>1, <2>2 DEF LiveInv, PollFits
  <2> QED BY <2>3, <2>4, <2>5, <2>6 DEF LiveInv
<1> QED BY <1>1, <1>2


(* A history made of two sets that have nothing in common shows each of their elements once *)
LEMMA Joined ==
  ASSUME NEW S, NEW T, IsFiniteSet(S), IsFiniteSet(T), S \cap T = {}
  PROVE  /\ Range(SetToSeq(S) \o SetToSeq(T)) = S \cup T
         /\ Len(SetToSeq(S) \o SetToSeq(T)) = Cardinality(S \cup T)
<1> DEFINE p == SetToSeq(S)  q == SetToSeq(T)  r == p \o q
<1>1. /\ p \in Seq(S) /\ Len(p) = Cardinality(S) /\ Range(p) = S
      /\ q \in Seq(T) /\ Len(q) = Cardinality(T) /\ Range(q) = T
  BY LaidOut
<1> HIDE DEF p, q
<1>2. p \in Seq(S \cup T) /\ q \in Seq(S \cup T)
  BY <1>1
<1>3. /\ DOMAIN r = 1..(Len(p) + Len(q)) /\ Len(r) = Len(p) + Len(q) /\ Len(p) \in Nat /\ Len(q) \in Nat
      /\ DOMAIN p = 1..Len(p) /\ DOMAIN q = 1..Len(q)
      /\ \A i \in 1..Len(p) : r[i] = p[i]
      /\ \A i \in 1..Len(q) : r[Len(p) + i] = q[i]
  BY <1>2
<1> HIDE DEF r
<1>4. ASSUME NEW x \in S \cup T PROVE x \in Range(r)
  <2>1. CASE x \in S
    <3>1. PICK i \in DOMAIN p : p[i] = x
      BY <1>1, <2>1 DEF Range
    <3>2. i \in DOMAIN r /\ r[i] = x
      BY <1>3, <3>1
    <3> QED BY <3>2 DEF Range
  <2>2. CASE x \in T
    <3>1. PICK i \in DOMAIN q : q[i] = x
      BY <1>1, <2>2 DEF Range
    <3>2. Len(p) + i \in DOMAIN r /\ r[Len(p) + i] = x
      BY <1>3, <3>1
    <3> QED BY <3>2 DEF Range
  <2> QED BY <2>1, <2>2
<1>5. ASSUME NEW i \in DOMAIN r PROVE r[i] \in S \cup T
  <2>1. CASE i \in 1..Len(p)
    BY <1>1, <1>3, <2>1
  <2>2. CASE i \notin 1..Len(p)
    <3>1. i - Len(p) \in 1..Len(q) /\ Len(p) + (i - Len(p)) = i
      BY <1>3, <2>2
    <3>2. r[i] = q[i - Len(p)]
      BY <1>3, <3>1
    <3> QED BY <1>1, <1>3, <3>1, <3>2
  <2> QED BY <2>1, <2>2
<1>6. Range(r) = S \cup T
  BY <1>4, <1>5 DEF Range
<1>7. Cardinality(S \cup T) = Cardinality(S) + Cardinality(T)
  <2>1. Cardinality(S \cup T) = Cardinality(S) + Cardinality(T) - Cardinality(S \cap T)
    BY FS_Union
  <2>2. Cardinality(S \cap T) = 0 /\ Cardinality(S) \in Nat /\ Cardinality(T) \in Nat
    BY FS_EmptySet, FS_CardinalityType
  <2> QED BY <2>1, <2>2
<1> QED BY <1>1, <1>3, <1>6, <1>7 DEF r, p, q

LEMMA HistoryShown == ASSUME LiveInv PROVE HistoryOnce
<1> SUFFICES ASSUME provider = "bybit", poll # NoPoll, NEW reached \in BOOLEAN
             PROVE  LET shown == History(poll.rows, reached) IN
                    /\ Len(shown) = Cardinality(Range(shown))
                    /\ poll.rows \subseteq Range(shown)
                    /\ reached => (1..poll.since) \cap Listed \subseteq Range(shown)
  BY DEF HistoryOnce
<1> DEFINE rows == poll.rows  shown == History(rows, reached)
           rest == IF reached THEN Unlisted(rows) ELSE {}
<1>1. poll \in Polls /\ rows \subseteq ExitIds \cup {0}
  BY DEF LiveInv, TabInv, TabTypes, Polls
<1>2. IsFiniteSet(rows)
  <2>1. IsFiniteSet(ExitIds)
    BY Finite, FS_Interval DEF ExitIds
  <2>2. IsFiniteSet(ExitIds \cup {0})
    BY <2>1, FS_AddElement
  <2> QED BY <1>1, <2>2, FS_Subset
<1>3. IsFiniteSet(rest) /\ rows \cap rest = {} /\ (reached => Listed \subseteq rows \cup rest)
  <2>1. exits \in Seq(Exits) /\ Len(exits) \in Nat /\ DOMAIN exits = 1..Len(exits)
    BY DEF LiveInv, BookInv, BookTypes
  <2>2. IsFiniteSet(DOMAIN exits)
    BY <2>1, FS_Interval
  <2>3. rest \subseteq DOMAIN exits
    BY DEF Unlisted, Listed
  <2>4. rows \cap rest = {} /\ (reached => Listed \subseteq rows \cup rest)
    BY DEF Unlisted
  <2> QED BY <2>2, <2>3, <2>4, FS_Subset
<1>4. shown = SetToSeq(rows) \o SetToSeq(rest)
  <2>1. CASE reached
    BY <2>1 DEF History
  <2>2. CASE ~reached
    <3>1. SetToSeq({}) = <<>>
      BY LaidOut, FS_EmptySet
    <3> QED BY <2>2, <3>1 DEF History
  <2> QED BY <2>1, <2>2
<1>5. Range(shown) = rows \cup rest /\ Len(shown) = Cardinality(rows \cup rest)
  <2> HIDE DEF rows, rest
  <2> QED BY <1>2, <1>3, <1>4, Joined
<1> QED BY <1>3, <1>5

LEMMA LiveSafe == ASSUME LiveInv PROVE LiveOK
<1>1. LiveTypeOK
  <2>1. /\ mode \in BOOLEAN /\ ready \in BOOLEAN /\ probed \in BOOLEAN /\ torn \in BOOLEAN
    BY DEF LiveInv, TabInv, TabTypes, BookInv, BookTypes
  <2>2. known \in 0..(MaxEntries + Cardinality(LiveSymbols)) /\ streak \in 0..MaxEntries
    <3>1. /\ streak + Cardinality(Underway) <= entries /\ entries \in 0..MaxEntries
          /\ known + Cardinality(Underway) <= entries + Cardinality(LiveSymbols)
      BY DEF LiveInv, TabInv, TabTypes, Counted
    <3>2. Cardinality(Underway) \in Nat /\ known \in Nat /\ streak \in Nat /\ entries \in Nat
      BY Numbers
    <3> QED BY <3>1, <3>2, Finite
  <2>3. position \in [LiveSymbols -> -MaxEntries..MaxEntries]
    <3>1. ASSUME NEW s \in LiveSymbols PROVE position[s] \in -MaxEntries..MaxEntries
      <4>1. position[s] \in -entries..entries /\ entries \in 0..MaxEntries /\ position[s] \in Int
        BY SiteFacts DEF LiveInv, TabInv, TabTypes
      <4> QED BY <4>1, Finite
    <3>2. position \in [LiveSymbols -> Int]
      BY DEF LiveInv, SiteInv
    <3> QED BY <3>1, <3>2
  <2>4. stops \subseteq Held /\ bared \subseteq Held
    BY DEF LiveInv, SiteInv, Explained, Held
  <2>5. placing \in [LiveSymbols -> Placements \cup {NoCall}] /\ clicks \in [Closers -> Closes \cup {NoCall}]
    BY DEF LiveInv, TabInv, TabTypes, BookInv, BookTypes
  <2>6. exits \in Seq([symbol : LiveSymbols, pnl : Pnls]) /\ Len(exits) <= MaxExits /\ liveRows \in Seq(Trades)
    BY DEF LiveInv, BookInv, BookTypes, Exits
  <2> QED BY <2>1, <2>2, <2>3, <2>4, <2>5, <2>6 DEF LiveTypeOK
<1>2. Guarded
  <2> SUFFICES ASSUME NEW s \in Held \ stops
               PROVE  provider = "binance" /\ (placing[s] # NoCall \/ s \in bared)
    BY DEF Guarded
  <2>1. s \in LiveSymbols /\ position[s] # 0
    BY DEF Held
  <2>2. provider \in {"bybit", "binance"}
    BY DEF LiveInv, TabInv, TabTypes
  <2> QED BY <2>1, <2>2, SiteFacts DEF At
<1>3. AccountOfRows
  <2> SUFFICES ASSUME ~torn, \A c \in Closers : clicks[c] # NoCall => clicks[c].step # "credit"
               PROVE  realized = SumFunction(Pnl)
    BY DEF AccountOfRows, Pnl
  <2>1. Due = [c \in Closers |-> 0]
    BY DEF Due, Clicking
  <2>2. SumFunction(Due) = 0
    BY <2>1, Finite, SumZero
  <2>3. realized + SumFunction(Due) = SumFunction(Pnl) /\ realized \in Int
    BY DEF LiveInv, BookInv, Booked, BookTypes
  <2>4. SumFunction(Pnl) \in Int
    BY RowFacts
  <2>5. PICK r \in Int, z, x \in Int : r = realized /\ z = SumFunction(Due) /\ x = SumFunction(Pnl)
    BY <2>2, <2>3, <2>4
  <2>6. r + z = x /\ z = 0
    BY <2>2, <2>3, <2>5
  <2>7. r = x
    BY <2>6
  <2> QED BY <2>5, <2>7
<1>4. BreakerBounds
  <2>1. streak + Cardinality(Underway) < FailureLimit + Cardinality(LiveSymbols)
    BY DEF LiveInv, TabInv, Counted
  <2> QED BY <2>1, Numbers, Finite DEF BreakerBounds
<1>5. HistoryOnce
  BY HistoryShown
<1> QED BY <1>1, <1>2, <1>3, <1>4, <1>5 DEF LiveOK

(* Live trading keeps its books and its stops: a position stands bare only where a running
   placement or a lost answer explains it, the account is the sum of its closed rows, failures
   in a row stop the tab, and Bybit's history shows no exit twice, and every exit that a row it
   read or the exchange's page has; for any symbols, any number of overlapping closes, and any
   failed reads and calls. *)
THEOREM LiveHolds == TradingSpec => []LiveOK
<1>1. LiveInit => LiveInv
  BY LiveStart
<1>2. LiveInv /\ [LiveNext]_liveVars => LiveInv'
  BY LiveStep
<1>3. LiveInv => LiveOK
  BY LiveSafe
<1> QED BY <1>1, <1>2, <1>3, PTL DEF TradingSpec

-----------------------------------------------------------------------------
(* The sockets of the price feed *)

(* A chunk whose reconnect is pending has no socket, one whose socket has not *)
(* opened is not shown as open.                                               *)
SwarmInv ==
    /\ SwarmTypeOK /\ OneSocketPerChunk /\ NeverOverReports
    /\ \A k \in Chunks : timer[k] => socket[k] = "none"
    /\ \A k \in Chunks : socket[k] \in {"connecting", "hung"} => seen[k] = "connecting"

LEMMA InSocketsFinite ==
  ASSUME SwarmAssumption
  PROVE  IsFiniteSet(InSockets) /\ Cardinality(InSockets) \in Nat /\ Cardinality(InSockets) <= Cardinality(Chunks)
         /\ Cardinality(Chunks) \in Nat
<1>1. InSockets \subseteq Chunks
  BY DEF InSockets
<1> QED
  BY <1>1, FS_Subset, FS_CardinalityType DEF SwarmAssumption

LEMMA LessIs ==
  ASSUME NEW n \in Nat, connected \in Nat
  PROVE  /\ Less(n) \in Nat /\ Less(n) <= connected
         /\ \A m \in Nat : connected <= m + n => Less(n) <= m
<1>1. PICK d \in Int : d = connected - n
  OBVIOUS
<1>2. Max({0, d}) = IF d >= 0 THEN d ELSE 0
  BY DEF Max
<1>3. Less(n) = IF d >= 0 THEN d ELSE 0
  BY <1>1, <1>2 DEF Less
<1> QED
  BY <1>1, <1>3

LEMMA SwarmStarts == SwarmAssumption /\ SwarmInit => SwarmInv
<1> SUFFICES ASSUME SwarmAssumption, SwarmInit PROVE SwarmInv
  OBVIOUS
<1>1. connected = 0 /\ 0 <= Cardinality(InSockets) /\ 0 \in 0..Cardinality(Chunks)
  BY InSocketsFinite DEF SwarmInit
<1> QED
  BY <1>1 DEF SwarmInit, SwarmInv, SwarmTypeOK, OneSocketPerChunk, NeverOverReports, Sockets, SwarmAssumption

(* What the network does to a socket that is there *)
LEMMA FailsKeep ==
  ASSUME SwarmAssumption, SwarmInv, NEW k \in Chunks, NEW from, NEW to, Fails(k, from, to),
         to \in {"hung", "mute", "torn"}, from \subseteq Sockets \ {"none"}, to = "hung" => from \subseteq {"connecting"}
  PROVE  SwarmInv'
<1>1. /\ socket' = [socket EXCEPT ![k] = to] /\ socket[k] \in from /\ drops' = drops + 1 /\ drops < MaxDrops
      /\ UNCHANGED <<orphans, seen, fresh, heard, timer, connected, swarmStopped>>
  BY DEF Fails
<1>2. socket \in [Chunks -> Sockets] /\ to \in Sockets /\ socket[k] # "none" /\ to # "none"
  BY <1>1 DEF SwarmInv, SwarmTypeOK, Sockets
<1>3. socket'[k] = to /\ \A c \in Chunks : c # k => socket'[c] = socket[c]
  BY <1>1, <1>2
<1>4. socket' \in [Chunks -> Sockets]
  BY <1>1, <1>2
<1>5. ~swarmStopped
  BY <1>2 DEF SwarmInv, SwarmTypeOK
<1>6. InSockets' = InSockets
  BY <1>1, <1>2, <1>3 DEF InSockets
<1>7. drops' \in 0..MaxDrops
  BY <1>1 DEF SwarmInv, SwarmTypeOK, SwarmAssumption
<1>8. SwarmTypeOK'
  BY <1>1, <1>4, <1>5, <1>7 DEF SwarmInv, SwarmTypeOK
<1>9. \A c \in Chunks : timer'[c] => socket'[c] = "none"
  BY <1>1, <1>2, <1>3 DEF SwarmInv
<1>10. \A c \in Chunks : socket'[c] \in {"connecting", "hung"} => seen'[c] = "connecting"
  BY <1>1, <1>3 DEF SwarmInv
<1> QED
  BY <1>1, <1>6, <1>8, <1>9, <1>10 DEF SwarmInv, OneSocketPerChunk, NeverOverReports

LEMMA OnOpenKeeps ==
  ASSUME SwarmAssumption, SwarmInv, NEW k \in Chunks, OnOpen(k)
  PROVE  SwarmInv'
<1>1. /\ socket[k] = "connecting" /\ socket' = [socket EXCEPT ![k] = "open"] /\ seen' = [seen EXCEPT ![k] = "open"]
      /\ connected' = connected + 1 /\ fresh' = [fresh EXCEPT ![k] = heard[k] => @]
      /\ UNCHANGED <<orphans, heard, timer, swarmStopped, drops>>
  BY DEF OnOpen
<1>2. socket \in [Chunks -> Sockets] /\ seen \in [Chunks -> {"connecting", "open", "closed"}]
      /\ fresh \in [Chunks -> BOOLEAN]
  BY DEF SwarmInv, SwarmTypeOK
<1>3. /\ socket' \in [Chunks -> Sockets] /\ socket'[k] = "open" /\ \A c \in Chunks : c # k => socket'[c] = socket[c]
      /\ seen' \in [Chunks -> {"connecting", "open", "closed"}] /\ seen'[k] = "open"
      /\ \A c \in Chunks : c # k => seen'[c] = seen[c]
      /\ fresh' \in [Chunks -> BOOLEAN]
  BY <1>1, <1>2 DEF Sockets
<1>4. k \notin InSockets /\ InSockets' = InSockets \cup {k}
  BY <1>1, <1>3 DEF InSockets, SwarmInv
<1>5. Cardinality(InSockets') = Cardinality(InSockets) + 1
  BY <1>4, InSocketsFinite, FS_AddElement
<1>6. Cardinality(InSockets') <= Cardinality(Chunks) /\ Cardinality(InSockets) \in Nat /\ Cardinality(Chunks) \in Nat
  <2>1. InSockets' \subseteq Chunks
    BY DEF InSockets
  <2> QED
    BY <2>1, InSocketsFinite, FS_Subset DEF SwarmAssumption
<1>7. connected \in Nat /\ connected <= Cardinality(InSockets)
  BY InSocketsFinite DEF SwarmInv, SwarmTypeOK, NeverOverReports
<1>8. connected' \in 0..Cardinality(Chunks) /\ connected' <= Cardinality(InSockets')
  BY <1>1, <1>5, <1>6, <1>7
<1>9. ~swarmStopped
  BY <1>1 DEF SwarmInv, SwarmTypeOK
<1>10. SwarmTypeOK'
  BY <1>1, <1>3, <1>8, <1>9 DEF SwarmInv, SwarmTypeOK
<1>11. \A c \in Chunks : timer'[c] => socket'[c] = "none"
  BY <1>1, <1>3 DEF SwarmInv
<1>12. \A c \in Chunks : socket'[c] \in {"connecting", "hung"} => seen'[c] = "connecting"
  BY <1>1, <1>3 DEF SwarmInv
<1> QED
  BY <1>1, <1>8, <1>10, <1>11, <1>12 DEF SwarmInv, OneSocketPerChunk, NeverOverReports

LEMMA OnCloseKeeps ==
  ASSUME SwarmAssumption, SwarmInv, NEW k \in Chunks, OnClose(k)
  PROVE  SwarmInv'
<1>1. /\ socket[k] # "none" /\ socket' = [socket EXCEPT ![k] = "none"] /\ seen' = [seen EXCEPT ![k] = "closed"]
      /\ connected' = Less(1) /\ timer' = [timer EXCEPT ![k] = TRUE] /\ drops < MaxDrops /\ drops' = drops + 1
      /\ UNCHANGED <<orphans, fresh, heard, swarmStopped>>
  BY DEF OnClose
<1>2. socket \in [Chunks -> Sockets] /\ seen \in [Chunks -> {"connecting", "open", "closed"}]
      /\ timer \in [Chunks -> BOOLEAN]
  BY DEF SwarmInv, SwarmTypeOK
<1>3. /\ socket' \in [Chunks -> Sockets] /\ socket'[k] = "none" /\ \A c \in Chunks : c # k => socket'[c] = socket[c]
      /\ seen' \in [Chunks -> {"connecting", "open", "closed"}]
      /\ \A c \in Chunks : c # k => seen'[c] = seen[c]
      /\ timer' \in [Chunks -> BOOLEAN] /\ \A c \in Chunks : c # k => timer'[c] = timer[c]
  BY <1>1, <1>2 DEF Sockets
<1>4. InSockets' = InSockets \ {k}
  BY <1>3 DEF InSockets
<1>5. /\ Cardinality(InSockets') \in Nat /\ Cardinality(InSockets) <= Cardinality(InSockets') + 1
      /\ Cardinality(InSockets) \in Nat
  <2>1. IsFiniteSet(InSockets) /\ IsFiniteSet(InSockets \ {k})
    BY InSocketsFinite, FS_RemoveElement
  <2>2. PICK x \in Nat, y \in Nat : x = Cardinality(InSockets) /\ y = Cardinality(InSockets \ {k})
    BY <2>1, FS_CardinalityType
  <2>3. y = x - 1 \/ y = x
    BY <2>1, <2>2, FS_RemoveElement
  <2>4. Cardinality(InSockets') = y
    BY <1>4, <2>2
  <2> QED
    BY <2>2, <2>3, <2>4
<1>6. connected \in Nat /\ connected <= Cardinality(InSockets) /\ connected <= Cardinality(Chunks)
  BY InSocketsFinite DEF SwarmInv, SwarmTypeOK, NeverOverReports
<1>7. connected' <= Cardinality(InSockets') /\ connected' \in Nat /\ connected' <= connected
  BY <1>1, <1>5, <1>6, LessIs
<1>8. connected' \in 0..Cardinality(Chunks)
  BY <1>6, <1>7, InSocketsFinite
<1>9. ~swarmStopped
  BY <1>1 DEF SwarmInv, SwarmTypeOK
<1>10. drops' \in 0..MaxDrops
  BY <1>1 DEF SwarmInv, SwarmTypeOK, SwarmAssumption
<1>11. SwarmTypeOK'
  BY <1>1, <1>3, <1>8, <1>9, <1>10 DEF SwarmInv, SwarmTypeOK
<1>12. \A c \in Chunks : timer'[c] => socket'[c] = "none"
  BY <1>3 DEF SwarmInv
<1>13. \A c \in Chunks : socket'[c] \in {"connecting", "hung"} => seen'[c] = "connecting"
  BY <1>3 DEF SwarmInv
<1> QED
  BY <1>1, <1>7, <1>11, <1>12, <1>13 DEF SwarmInv, OneSocketPerChunk, NeverOverReports

(* A reconnect fires only where there is no socket: nothing is orphaned. *)
LEMMA ReconnectKeeps ==
  ASSUME SwarmAssumption, SwarmInv, NEW k \in Chunks, ReconnectTimer(k)
  PROVE  SwarmInv'
<1>1. /\ timer[k] /\ timer' = [timer EXCEPT ![k] = FALSE]
      /\ socket' = [c \in Chunks |-> IF c = k THEN "connecting" ELSE socket[c]]
      /\ seen' = [c \in Chunks |-> IF c = k THEN "connecting" ELSE seen[c]]
      /\ orphans' = [orphans EXCEPT ![k] = @ \cup ({socket[k]} \ {"none", "torn"})]
      /\ UNCHANGED <<fresh, heard, connected, swarmStopped, drops>>
  BY DEF ReconnectTimer, OpenSockets
<1>2. socket[k] = "none" /\ ~swarmStopped
  BY <1>1 DEF SwarmInv, SwarmTypeOK
<1>3. /\ socket \in [Chunks -> Sockets] /\ seen \in [Chunks -> {"connecting", "open", "closed"}]
      /\ timer \in [Chunks -> BOOLEAN] /\ orphans \in [Chunks -> SUBSET Sockets]
  BY DEF SwarmInv, SwarmTypeOK
<1>4. orphans' = orphans
  BY <1>1, <1>2, <1>3
<1>5. /\ socket' \in [Chunks -> Sockets] /\ seen' \in [Chunks -> {"connecting", "open", "closed"}]
      /\ timer' \in [Chunks -> BOOLEAN]
      /\ ~timer'[k] /\ \A c \in Chunks : c # k => timer'[c] = timer[c] /\ socket'[c] = socket[c] /\ seen'[c] = seen[c]
      /\ seen'[k] = "connecting"
  BY <1>1, <1>3 DEF Sockets
<1>6. InSockets' = InSockets
  BY <1>2, <1>5 DEF InSockets
<1>7. SwarmTypeOK'
  BY <1>1, <1>2, <1>4, <1>5 DEF SwarmInv, SwarmTypeOK
<1>8. \A c \in Chunks : timer'[c] => socket'[c] = "none"
  BY <1>5 DEF SwarmInv
<1>9. \A c \in Chunks : socket'[c] \in {"connecting", "hung"} => seen'[c] = "connecting"
  BY <1>5 DEF SwarmInv
<1> QED
  BY <1>1, <1>4, <1>6, <1>7, <1>8, <1>9 DEF SwarmInv, OneSocketPerChunk, NeverOverReports

LEMMA SweepKeeps ==
  ASSUME SwarmAssumption, SwarmInv, SweepChunks
  PROVE  SwarmInv'
<1> DEFINE broken == {k \in Chunks : Broken(k)}
<1>1. /\ ~swarmStopped
      /\ socket' = [k \in Chunks |-> IF k \in broken THEN "connecting" ELSE socket[k]]
      /\ seen' = [k \in Chunks |-> IF k \in broken THEN "connecting" ELSE seen[k]]
      /\ connected' = Retired(broken)
      /\ UNCHANGED <<orphans, fresh, heard, timer, swarmStopped, drops>>
  BY DEF SweepChunks, OpenSockets
<1>2. \A k \in broken : ~timer[k]
  BY DEF Broken
<1> HIDE DEF broken
<1>3. socket \in [Chunks -> Sockets] /\ seen \in [Chunks -> {"connecting", "open", "closed"}]
  BY DEF SwarmInv, SwarmTypeOK
<1>4. /\ socket' \in [Chunks -> Sockets] /\ seen' \in [Chunks -> {"connecting", "open", "closed"}]
      /\ \A c \in Chunks : c \in broken => socket'[c] = "connecting" /\ seen'[c] = "connecting"
      /\ \A c \in Chunks : c \notin broken => socket'[c] = socket[c] /\ seen'[c] = seen[c]
  BY <1>1, <1>3 DEF Sockets
<1>5. InSockets' = InSockets \ broken
  BY <1>4 DEF InSockets
<1>6. /\ IsFiniteSet(broken \cap InSockets) /\ Cardinality(broken \cap InSockets) \in Nat
      /\ Cardinality(InSockets) = Cardinality(InSockets') + Cardinality(broken \cap InSockets)
      /\ Cardinality(InSockets') \in Nat /\ Cardinality(InSockets) \in Nat
  <2>1. IsFiniteSet(InSockets)
    BY InSocketsFinite
  <2>2. broken \cap InSockets = InSockets \cap broken /\ InSockets \cap broken \subseteq InSockets
    OBVIOUS
  <2>3. IsFiniteSet(InSockets \cap broken)
    BY <2>1, <2>2, FS_Subset
  <2>4. InSockets \ broken \subseteq InSockets
    OBVIOUS
  <2>5. IsFiniteSet(InSockets \ broken)
    BY <2>1, <2>4, FS_Subset
  <2>6. PICK x \in Nat, y \in Nat, z \in Nat :
           /\ x = Cardinality(InSockets) /\ y = Cardinality(InSockets \ broken)
           /\ z = Cardinality(InSockets \cap broken)
    BY <2>1, <2>3, <2>5, FS_CardinalityType
  <2>7. y = x - z
    <3>1. IsFiniteSet(broken)
      BY FS_Subset DEF SwarmAssumption, broken
    <3> QED
      BY <2>1, <2>6, <3>1, FS_Difference
  <2>8. Cardinality(broken \cap InSockets) = z /\ IsFiniteSet(broken \cap InSockets)
    BY <2>2, <2>3, <2>6
  <2>9. Cardinality(InSockets') = y
    BY <1>5, <2>6
  <2> HIDE DEF InSockets
  <2> QED
    BY <2>6, <2>7, <2>8, <2>9
<1>7. connected \in Nat /\ connected <= Cardinality(InSockets) /\ connected <= Cardinality(Chunks)
  BY InSocketsFinite DEF SwarmInv, SwarmTypeOK, NeverOverReports
<1>8. connected' <= Cardinality(InSockets') /\ connected' \in Nat /\ connected' <= connected
  BY <1>1, <1>6, <1>7, LessIs DEF Retired
<1>9. connected' \in 0..Cardinality(Chunks)
  BY <1>7, <1>8, InSocketsFinite
<1>10. SwarmTypeOK'
  BY <1>1, <1>4, <1>9 DEF SwarmInv, SwarmTypeOK
<1>11. \A c \in Chunks : timer'[c] => socket'[c] = "none"
  BY <1>1, <1>2, <1>4 DEF SwarmInv
<1>12. \A c \in Chunks : socket'[c] \in {"connecting", "hung"} => seen'[c] = "connecting"
  BY <1>4 DEF SwarmInv
<1> QED
  BY <1>1, <1>8, <1>10, <1>11, <1>12 DEF SwarmInv, OneSocketPerChunk, NeverOverReports

LEMMA StopKeeps ==
  ASSUME SwarmAssumption, SwarmInv, StopSwarm
  PROVE  SwarmInv'
<1>1. /\ swarmStopped' = TRUE /\ orphans' = [k \in Chunks |-> orphans[k] \cup ({socket[k]} \cap {"connecting", "hung"})]
      /\ socket' = [k \in Chunks |-> "none"] /\ timer' = [k \in Chunks |-> FALSE] /\ connected' = 0
      /\ UNCHANGED <<seen, fresh, heard, drops>>
  BY DEF StopSwarm
<1>2. socket' \in [Chunks -> Sockets] /\ orphans' \in [Chunks -> SUBSET Sockets] /\ timer' \in [Chunks -> BOOLEAN]
  BY <1>1 DEF SwarmInv, SwarmTypeOK, Sockets
<1>3. \A k \in Chunks : socket'[k] = "none" /\ ~timer'[k]
  BY <1>1
<1>4. InSockets' = {}
  BY <1>3 DEF InSockets
<1>5. connected' <= Cardinality(InSockets') /\ connected' \in 0..Cardinality(Chunks)
  BY <1>1, <1>4, FS_EmptySet, InSocketsFinite
<1>6. SwarmTypeOK'
  BY <1>1, <1>2, <1>3, <1>5 DEF SwarmInv, SwarmTypeOK
<1> QED
  BY <1>1, <1>3, <1>5, <1>6 DEF SwarmInv, OneSocketPerChunk, NeverOverReports

LEMMA OrphansKeep ==
  ASSUME SwarmAssumption, SwarmInv, NEW k \in Chunks, OrphanOpens(k) \/ OrphanHangs(k) \/ OrphanCloses(k)
  PROVE  SwarmInv'
<1>1. /\ UNCHANGED <<socket, seen, fresh, heard, timer, connected, swarmStopped>>
      /\ drops' \in 0..MaxDrops
  BY DEF OrphanOpens, OrphanHangs, OrphanCloses, SwarmInv, SwarmTypeOK, SwarmAssumption
<1>2. orphans \in [Chunks -> SUBSET Sockets] /\ orphans[k] # {}
  BY DEF OrphanOpens, OrphanHangs, OrphanCloses, SwarmInv, SwarmTypeOK
<1>3. swarmStopped
  BY <1>2 DEF SwarmInv, OneSocketPerChunk
<1>4. orphans' \in [Chunks -> SUBSET Sockets]
  BY <1>2 DEF OrphanOpens, OrphanHangs, OrphanCloses, Sockets
<1>5. InSockets' = InSockets
  BY <1>1 DEF InSockets
<1> QED
  BY <1>1, <1>3, <1>4, <1>5 DEF SwarmInv, SwarmTypeOK, OneSocketPerChunk, NeverOverReports

LEMMA SwarmSteps == SwarmAssumption /\ SwarmInv /\ [SwarmNext]_swarmVars => SwarmInv'
<1> SUFFICES ASSUME SwarmAssumption, SwarmInv, [SwarmNext]_swarmVars PROVE SwarmInv'
  OBVIOUS
<1>1. ASSUME NEW k \in Chunks, Hangs(k) \/ GoesMute(k) \/ TornDown(k) PROVE SwarmInv'
  BY <1>1, FailsKeep DEF Hangs, GoesMute, TornDown, Sockets
<1>2. ASSUME NEW k \in Chunks, Silence(k) PROVE SwarmInv'
  BY <1>2 DEF Silence, SwarmInv, SwarmTypeOK, OneSocketPerChunk, NeverOverReports, InSockets
<1>3. CASE SweepChunks
  BY <1>3, SweepKeeps
<1>4. CASE StopSwarm
  BY <1>4, StopKeeps
<1>5. ASSUME NEW k \in Chunks, OnOpen(k) PROVE SwarmInv'
  BY <1>5, OnOpenKeeps
<1>6. ASSUME NEW k \in Chunks, OrphanOpens(k) \/ OrphanHangs(k) \/ OrphanCloses(k) PROVE SwarmInv'
  BY <1>6, OrphansKeep
<1>7. ASSUME NEW k \in Chunks, OnMessage(k) PROVE SwarmInv'
  BY <1>7 DEF OnMessage, SwarmInv, SwarmTypeOK, OneSocketPerChunk, NeverOverReports, InSockets
<1>8. ASSUME NEW k \in Chunks, OnClose(k) PROVE SwarmInv'
  BY <1>8, OnCloseKeeps
<1>9. ASSUME NEW k \in Chunks, ReconnectTimer(k) PROVE SwarmInv'
  BY <1>9, ReconnectKeeps
<1>10. CASE UNCHANGED swarmVars
  BY <1>10 DEF swarmVars, SwarmInv, SwarmTypeOK, OneSocketPerChunk, NeverOverReports, InSockets
<1> QED
  BY <1>1, <1>2, <1>3, <1>4, <1>5, <1>6, <1>7, <1>8, <1>9, <1>10 DEF SwarmNext, Network

(* One socket per chunk, and never more feeds shown than there are, for any number of chunks *)
(* and whatever the network does.                                                            *)
THEOREM SocketsHold == SwarmSpec => [](SwarmTypeOK /\ OneSocketPerChunk /\ NeverOverReports)
<1>1. SwarmInit => SwarmInv
  BY SwarmStarts, SwarmAssumption
<1>2. SwarmInv /\ [SwarmNext]_swarmVars => SwarmInv'
  BY SwarmSteps, SwarmAssumption
<1>3. SwarmInv => SwarmTypeOK /\ OneSocketPerChunk /\ NeverOverReports
  BY DEF SwarmInv
<1> QED
  BY <1>1, <1>2, <1>3, PTL DEF SwarmSpec

-----------------------------------------------------------------------------
(* The order-book feed.  Between the frames i and j there is none of the symbol *)
Apart(q, s, i, j) == \A k \in 1..Len(q) : i < k /\ k < j => q[k].symbol # s

(* The book of a symbol, the frames under way and the book of the exchange are of one
   sequence of versions: a delta is the version after the frame, or the book, before it *)
InOrder(q, s, shown, latest) ==
    /\ \A j \in 1..Len(q) : q[j].symbol = s /\ q[j].type = "delta" =>
          /\ \A i \in 1..Len(q) : i < j /\ q[i].symbol = s /\ Apart(q, s, i, j) =>
                q[i].version + 1 = q[j].version
          /\ Apart(q, s, 0, j) /\ shown # 0 => shown + 1 = q[j].version
    /\ \A i \in 1..Len(q) : q[i].symbol = s /\ Apart(q, s, i, Len(q) + 1) => q[i].version = latest
    /\ Apart(q, s, 0, Len(q) + 1) /\ shown # 0 => shown = latest

Frames == [symbol : DepthSymbols, type : {"snapshot", "delta", "restart"}, version : 1..MaxVersions]

LEMMA OrderEmpty ==
  ASSUME NEW s, NEW latest
  PROVE  InOrder(<<>>, s, 0, latest)
  BY DEF InOrder

LEMMA OrderZero ==
  ASSUME NEW q, NEW s, NEW shown, NEW latest, InOrder(q, s, shown, latest)
  PROVE  InOrder(q, s, 0, latest)
  BY DEF InOrder

(* What is put at the end of the line *)
LEMMA JoinFacts ==
  ASSUME NEW q \in Seq(Frames), NEW w \in Seq(Frames), NEW s
  PROVE  /\ Len(q) \in Nat /\ Len(w) \in Nat /\ q \o w \in Seq(Frames) /\ Len(q \o w) = Len(q) + Len(w)
         /\ \A k \in 1..Len(q) : (q \o w)[k] = q[k]
         /\ \A k \in 1..Len(w) : (q \o w)[Len(q) + k] = w[k]
         /\ \A i \in Nat, j \in 1..Len(q) : Apart(q \o w, s, i, j) => Apart(q, s, i, j)
         /\ \A i \in Nat : Apart(q \o w, s, i, Len(q \o w) + 1) => Apart(q, s, i, Len(q) + 1)
<1>1. /\ Len(q) \in Nat /\ Len(w) \in Nat /\ q \o w \in Seq(Frames) /\ Len(q \o w) = Len(q) + Len(w)
      /\ \A k \in 1..Len(q) : (q \o w)[k] = q[k]
      /\ \A k \in 1..Len(w) : (q \o w)[Len(q) + k] = w[k]
  OBVIOUS
<1>2. \A k \in 1..Len(q) : k \in 1..Len(q \o w) /\ k < Len(q \o w) + 1
  BY <1>1
<1> QED BY <1>1, <1>2 DEF Apart

(* Snapshots of the version the exchange has *)
LEMMA OrderJoins ==
  ASSUME NEW q \in Seq(Frames), NEW w \in Seq(Frames), NEW s, NEW shown, NEW latest,
         InOrder(q, s, shown, latest),
         \A k \in 1..Len(w) : w[k].type # "delta" /\ (w[k].symbol = s => w[k].version = latest)
  PROVE  InOrder(q \o w, s, shown, latest)
<1> DEFINE r == q \o w
<1>1. /\ Len(q) \in Nat /\ Len(w) \in Nat /\ r \in Seq(Frames) /\ Len(r) = Len(q) + Len(w)
      /\ \A k \in 1..Len(q) : r[k] = q[k]
      /\ \A k \in 1..Len(w) : r[Len(q) + k] = w[k]
      /\ \A i \in Nat, j \in 1..Len(q) : Apart(r, s, i, j) => Apart(q, s, i, j)
      /\ \A i \in Nat : Apart(r, s, i, Len(r) + 1) => Apart(q, s, i, Len(q) + 1)
  BY JoinFacts
<1> HIDE DEF r
<1>2. \A k \in 1..Len(r) : k \in 1..Len(q) \/ \E m \in 1..Len(w) : k = Len(q) + m
  <2> TAKE k \in 1..Len(r)
  <2>1. k \in 1..Len(q) \/ (k - Len(q) \in 1..Len(w) /\ k = Len(q) + (k - Len(q)))
    BY <1>1
  <2> QED BY <2>1
<1>3. ASSUME NEW j \in 1..Len(r), r[j].symbol = s, r[j].type = "delta"
      PROVE  /\ \A i \in 1..Len(r) : i < j /\ r[i].symbol = s /\ Apart(r, s, i, j) =>
                    r[i].version + 1 = r[j].version
             /\ Apart(r, s, 0, j) /\ shown # 0 => shown + 1 = r[j].version
  <2>1. j \in 1..Len(q)
    BY <1>1, <1>2, <1>3
  <2>2. \A i \in 1..Len(r) : i < j => i \in 1..Len(q) /\ i \in Nat
    BY <1>1, <2>1
  <2>3. q[j].symbol = s /\ q[j].type = "delta" /\ r[j] = q[j]
    BY <1>1, <1>3, <2>1
  <2>4. 0 \in Nat
    OBVIOUS
  <2> QED BY <1>1, <2>1, <2>2, <2>3, <2>4 DEF InOrder
<1>4. ASSUME NEW i \in 1..Len(r), r[i].symbol = s, Apart(r, s, i, Len(r) + 1)
      PROVE  r[i].version = latest
  <2>1. CASE i \in 1..Len(q)
    <3>1. Apart(q, s, i, Len(q) + 1) /\ r[i] = q[i]
      BY <1>1, <1>4, <2>1
    <3> QED BY <1>4, <2>1, <3>1 DEF InOrder
  <2>2. CASE i \notin 1..Len(q)
    BY <1>1, <1>2, <1>4, <2>2
  <2> QED BY <2>1, <2>2
<1>5. ASSUME Apart(r, s, 0, Len(r) + 1), shown # 0 PROVE shown = latest
  <2>1. 0 \in Nat
    OBVIOUS
  <2> QED BY <1>1, <1>5, <2>1 DEF InOrder
<1>6. InOrder(r, s, shown, latest)
  BY <1>3, <1>4, <1>5 DEF InOrder
<1> QED BY <1>6 DEF r

(* The next delta *)
LEMMA OrderDelta ==
  ASSUME NEW q \in Seq(Frames), NEW f \in Frames, NEW s, NEW shown, NEW latest,
         InOrder(q, s, shown, latest), f.symbol = s => f.version = latest + 1
  PROVE  InOrder(Append(q, f), s, shown, IF f.symbol = s THEN latest + 1 ELSE latest)
<1> DEFINE r == Append(q, f)
           n == Len(q) + 1
<1>1. /\ Len(q) \in Nat /\ Len(r) = n /\ r[n] = f /\ \A k \in 1..Len(q) : r[k] = q[k]
  OBVIOUS
<1>2. \A k \in 1..n : k \in 1..Len(q) \/ k = n
  BY <1>1
<1>3. /\ \A i \in Nat, j \in 1..n : Apart(r, s, i, j) => Apart(q, s, i, j)
      /\ \A i \in Nat : Apart(r, s, i, n + 1) => Apart(q, s, i, n)
  <2>1. \A k \in 1..Len(q) : k \in 1..Len(r) /\ k < n /\ k < n + 1
    BY <1>1
  <2> QED BY <1>1, <2>1 DEF Apart
<1>4. \A i \in Nat : i < n /\ Apart(r, s, i, n + 1) => f.symbol # s
  <2>1. n \in 1..Len(r) /\ n < n + 1
    BY <1>1
  <2> QED BY <1>1, <2>1 DEF Apart
<1> HIDE DEF r
<1>5. ASSUME NEW j \in 1..n, r[j].symbol = s, r[j].type = "delta"
      PROVE  /\ \A i \in 1..n : i < j /\ r[i].symbol = s /\ Apart(r, s, i, j) =>
                    r[i].version + 1 = r[j].version
             /\ Apart(r, s, 0, j) /\ shown # 0 => shown + 1 = r[j].version
  <2>1. \A i \in 1..n : i < j => i \in 1..Len(q) /\ i \in Nat /\ r[i] = q[i]
    BY <1>1
  <2>2. 0 \in Nat
    OBVIOUS
  <2>3. CASE j \in 1..Len(q)
    BY <1>1, <1>3, <1>5, <2>1, <2>2, <2>3 DEF InOrder
  <2>4. CASE j = n
    <3>1. f.symbol = s /\ r[j].version = latest + 1
      BY <1>1, <1>5, <2>4
    <3>2. ASSUME NEW i \in 1..n, i < j, r[i].symbol = s, Apart(r, s, i, j)
          PROVE  r[i].version = latest
      BY <1>3, <2>1, <2>4, <3>2 DEF InOrder
    <3>3. Apart(r, s, 0, j) /\ shown # 0 => shown = latest
      BY <1>3, <2>2, <2>4 DEF InOrder
    <3> QED BY <3>1, <3>2, <3>3
  <2> QED BY <1>2, <2>3, <2>4
<1>6. ASSUME NEW i \in 1..n, r[i].symbol = s, Apart(r, s, i, n + 1)
      PROVE  r[i].version = IF f.symbol = s THEN latest + 1 ELSE latest
  <2>1. CASE i = n
    BY <1>1, <1>6, <2>1
  <2>2. CASE i # n
    <3>1. i \in 1..Len(q) /\ i \in Nat /\ i < n /\ r[i] = q[i]
      BY <1>1, <2>2
    <3>2. f.symbol # s /\ Apart(q, s, i, n)
      BY <1>3, <1>4, <1>6, <3>1
    <3> QED BY <1>6, <3>1, <3>2 DEF InOrder
  <2> QED BY <2>1, <2>2
<1>7. ASSUME Apart(r, s, 0, n + 1), shown # 0
      PROVE  shown = IF f.symbol = s THEN latest + 1 ELSE latest
  <2>1. 0 \in Nat /\ 0 < n
    BY <1>1
  <2>2. f.symbol # s /\ Apart(q, s, 0, n)
    BY <1>3, <1>4, <1>7, <2>1
  <2> QED BY <1>7, <2>2 DEF InOrder
<1>8. InOrder(r, s, shown, IF f.symbol = s THEN latest + 1 ELSE latest)
  BY <1>1, <1>5, <1>6, <1>7 DEF InOrder
<1> QED BY <1>8 DEF r

(* The frame at the head arrives *)
LEMMA OrderTail ==
  ASSUME NEW q \in Seq(Frames), q # <<>>, NEW s, NEW shown, NEW latest, InOrder(q, s, shown, latest),
         NEW next, IF Head(q).symbol = s THEN next \in {0, Head(q).version} ELSE next = shown
  PROVE  InOrder(Tail(q), s, next, latest)
<1> DEFINE r == Tail(q)
<1>1. /\ Len(q) \in Nat /\ Len(q) > 0 /\ Len(r) \in Nat /\ Len(r) + 1 = Len(q) /\ Head(q) = q[1]
      /\ \A k \in 1..Len(r) : r[k] = q[k + 1] /\ k + 1 \in 1..Len(q)
  OBVIOUS
<1> HIDE DEF r
<1>2. \A k \in 1..Len(q) : k = 1 \/ (k - 1 \in 1..Len(r) /\ q[k] = r[k - 1])
  BY <1>1
<1>3. ASSUME NEW i \in Nat, NEW j \in Nat, Apart(r, s, i, j) PROVE Apart(q, s, i + 1, j + 1)
  <2> SUFFICES ASSUME NEW k \in 1..Len(q), i + 1 < k, k < j + 1 PROVE q[k].symbol # s
    BY DEF Apart
  <2>1. k - 1 \in 1..Len(r) /\ i < k - 1 /\ k - 1 < j /\ q[k] = r[k - 1]
    BY <1>2
  <2> QED BY <1>3, <2>1 DEF Apart
<1>4. ASSUME NEW j \in Nat, Apart(q, s, 1, j), q[1].symbol # s PROVE Apart(q, s, 0, j)
  <2>1. \A k \in 1..Len(q) : 0 < k => 1 < k \/ k = 1
    BY <1>1
  <2> QED BY <1>4, <2>1 DEF Apart
<1>5. ASSUME NEW j \in 1..Len(r), r[j].symbol = s, r[j].type = "delta"
      PROVE  /\ \A i \in 1..Len(r) : i < j /\ r[i].symbol = s /\ Apart(r, s, i, j) =>
                    r[i].version + 1 = r[j].version
             /\ Apart(r, s, 0, j) /\ next # 0 => next + 1 = r[j].version
  <2>1. j \in Nat /\ j + 1 \in Nat /\ 0 \in Nat /\ 0 + 1 = 1 /\ r[j] = q[j + 1] /\ j + 1 \in 1..Len(q) /\ 1 < j + 1
    BY <1>1
  <2>2. ASSUME NEW i \in 1..Len(r), i < j, r[i].symbol = s, Apart(r, s, i, j)
        PROVE  r[i].version + 1 = r[j].version
    <3>1. i \in Nat /\ i + 1 \in 1..Len(q) /\ i + 1 < j + 1 /\ r[i] = q[i + 1]
      BY <1>1, <2>1, <2>2
    <3>2. Apart(q, s, i + 1, j + 1)
      BY <1>3, <2>1, <2>2, <3>1
    <3> QED BY <1>5, <2>1, <2>2, <3>1, <3>2 DEF InOrder
  <2>3. ASSUME Apart(r, s, 0, j), next # 0 PROVE next + 1 = r[j].version
    <3>1. Apart(q, s, 1, j + 1)
      BY <1>3, <2>1, <2>3
    <3>2. CASE q[1].symbol = s
      <4>1. next = q[1].version /\ 1 \in 1..Len(q)
        BY <1>1, <2>3, <3>2
      <4> QED BY <1>5, <2>1, <3>1, <3>2, <4>1 DEF InOrder
    <3>3. CASE q[1].symbol # s
      <4>1. next = shown /\ Apart(q, s, 0, j + 1)
        BY <1>1, <1>4, <2>1, <3>1, <3>3
      <4> QED BY <1>5, <2>1, <2>3, <4>1 DEF InOrder
    <3> QED BY <3>2, <3>3
  <2> QED BY <2>2, <2>3
<1>6. ASSUME NEW i \in 1..Len(r), r[i].symbol = s, Apart(r, s, i, Len(r) + 1)
      PROVE  r[i].version = latest
  <2>1. i \in Nat /\ i + 1 \in 1..Len(q) /\ r[i] = q[i + 1] /\ Len(r) + 1 \in Nat /\ (Len(r) + 1) + 1 = Len(q) + 1
    <3>1. i \in Nat /\ i + 1 \in 1..Len(q) /\ r[i] = q[i + 1]
      BY <1>1
    <3>2. Len(r) + 1 \in Nat /\ (Len(r) + 1) + 1 = Len(q) + 1
      BY <1>1
    <3> QED BY <3>1, <3>2
  <2>2. Apart(q, s, i + 1, Len(q) + 1)
    BY <1>3, <1>6, <2>1
  <2> QED BY <1>6, <2>1, <2>2 DEF InOrder
<1>7. ASSUME Apart(r, s, 0, Len(r) + 1), next # 0 PROVE next = latest
  <2>1. 0 \in Nat /\ 0 + 1 = 1 /\ Len(r) + 1 \in Nat /\ (Len(r) + 1) + 1 = Len(q) + 1 /\ Len(q) + 1 \in Nat
        /\ 1 \in 1..Len(q)
    BY <1>1
  <2>2. Apart(q, s, 1, Len(q) + 1)
    BY <1>3, <1>7, <2>1
  <2>3. CASE q[1].symbol = s
    <3>1. next = q[1].version
      BY <1>1, <1>7, <2>3
    <3> QED BY <2>1, <2>2, <2>3, <3>1 DEF InOrder
  <2>4. CASE q[1].symbol # s
    <3>1. next = shown /\ Apart(q, s, 0, Len(q) + 1)
      BY <1>1, <1>4, <2>1, <2>2, <2>4
    <3> QED BY <1>7, <3>1 DEF InOrder
  <2> QED BY <2>3, <2>4
<1>8. InOrder(r, s, next, latest)
  BY <1>5, <1>6, <1>7 DEF InOrder
<1> QED BY <1>8 DEF r

LEMMA SetToSeqIn ==
  ASSUME NEW S, IsFiniteSet(S)
  PROVE  SetToSeq(S) \in Seq(S)
<1>1. Cardinality(S) \in Nat /\ ExistsBijection(1..Cardinality(S), S)
  BY FS_CardinalityType
<1>2. \E f \in [1..Cardinality(S) -> S] : IsInjective(f)
  BY <1>1 DEF ExistsBijection, Bijection, Injection
<1>3. SetToSeq(S) \in [1..Cardinality(S) -> S]
  BY <1>2 DEF SetToSeq
<1> QED BY <1>1, <1>3

-----------------------------------------------------------------------------
(* Steps *)

LEMMA DepthFacts ==
  /\ MaxTracked \in Nat /\ MaxVersions \in Nat /\ MaxVersions > 0
  /\ \A S : S \subseteq DepthSymbols => IsFiniteSet(S)
  BY DepthAssumption, FS_Subset DEF DepthAssumption

LEMMA NoBooksIn == NoBooks \in [DepthSymbols -> 0..MaxVersions] /\ \A s \in DepthSymbols : NoBooks[s] = 0
  BY DepthFacts DEF NoBooks

(* What the invariant says of types *)
Typed ==
    /\ ws \in {"none", "connecting", "hung", "open", "mute", "torn"}
    /\ reconnect \in {"null", "armed", "fired"}
    /\ flag \in BOOLEAN /\ lively \in BOOLEAN /\ spoke \in BOOLEAN /\ depthStopped \in BOOLEAN
    /\ tracked \subseteq DepthSymbols /\ Cardinality(tracked) <= MaxTracked
    /\ flag => subscribed = tracked
    /\ raw \in [DepthSymbols -> 0..MaxVersions] /\ version \in [DepthSymbols -> 1..MaxVersions]
    /\ inFlight \in Seq(Frames)

DepthInv ==
    /\ Typed /\ whole \in [DepthSymbols -> BOOLEAN]
    /\ BookWhole /\ ServesTheHotSet
    /\ ws \in {"open", "mute"} => flag
    /\ ws \in {"none", "connecting", "hung"} => inFlight = <<>> /\ serving = {}
    /\ ws \in {"connecting", "hung"} => raw = NoBooks
    /\ reconnect = "armed" => ws = "torn" /\ inFlight = <<>> /\ serving = {} /\ raw = NoBooks
    /\ depthStopped => ws = "none" /\ reconnect = "null"
    /\ ws = "open" => \A s \in DepthSymbols : InOrder(inFlight, s, raw[s], version[s])

LEMMA TypedIs == Typed => DepthTypeOK
  BY DEF DepthTypeOK, Typed, Frames

LEMMA FrameIn ==
  ASSUME NEW s \in DepthSymbols, NEW t \in {"snapshot", "delta", "restart"}, NEW n \in 1..MaxVersions
  PROVE  /\ Frame(s, t, n) \in Frames /\ Frame(s, t, n).symbol = s /\ Frame(s, t, n).type = t
         /\ Frame(s, t, n).version = n
  BY DEF Frame, Frames

(* The snapshots that answer a subscription *)
Snapshots(add) == SetToSeq({Frame(s, "snapshot", version[s]) : s \in add})

LEMMA SnapshotsFit ==
  ASSUME version \in [DepthSymbols -> 1..MaxVersions], NEW add, add \subseteq DepthSymbols
  PROVE  /\ Snapshots(add) \in Seq(Frames)
         /\ \A k \in 1..Len(Snapshots(add)), s \in DepthSymbols :
               /\ Snapshots(add)[k].type # "delta"
               /\ Snapshots(add)[k].symbol = s => Snapshots(add)[k].version = version[s]
<1> DEFINE S == {Frame(s, "snapshot", version[s]) : s \in add}
           w == SetToSeq(S)
<1>1. IsFiniteSet(S)
  <2>1. IsFiniteSet(add)
    BY DepthFacts
  <2>2. [s \in add |-> Frame(s, "snapshot", version[s])] \in Surjection(add, S)
    BY DEF Surjection
  <2> QED BY <2>1, <2>2, FS_Surjection DEF ExistsSurjection
<1>2. w \in Seq(S)
  BY <1>1, SetToSeqIn
<1>3. \A f \in S : f \in Frames /\ f.type = "snapshot" /\ f.symbol \in add /\ f.version = version[f.symbol]
  <2> TAKE f \in S
  <2>1. PICK s \in add : f = Frame(s, "snapshot", version[s])
    OBVIOUS
  <2>2. s \in DepthSymbols /\ version[s] \in 1..MaxVersions
    OBVIOUS
  <2> QED BY <2>1, <2>2, FrameIn
<1>4. Snapshots(add) = w
  BY DEF Snapshots
<1> HIDE DEF S, w
<1>5. \A k \in 1..Len(w) : w[k] \in S
  BY <1>2
<1>6. w \in Seq(Frames)
  BY <1>2, <1>3
<1>7. \A k \in 1..Len(w), s \in DepthSymbols :
         w[k].type # "delta" /\ (w[k].symbol = s => w[k].version = version[s])
  <2> TAKE k \in 1..Len(w), s \in DepthSymbols
  <2>1. w[k].type = "snapshot" /\ w[k].version = version[w[k].symbol]
    BY <1>3, <1>5
  <2> QED BY <2>1
<1> QED BY <1>4, <1>6, <1>7

LEMMA DepthStarts == DepthInit => DepthInv
<1> SUFFICES ASSUME DepthInit PROVE DepthInv
  OBVIOUS
<1>1. Typed
  <2>1. IsFiniteSet({}) /\ Cardinality({}) = 0
    BY FS_EmptySet
  <2>2. raw \in [DepthSymbols -> 0..MaxVersions] /\ version \in [DepthSymbols -> 1..MaxVersions]
    BY NoBooksIn, DepthFacts DEF DepthInit
  <2>3. inFlight \in Seq(Frames)
    BY DEF DepthInit
  <2>4. tracked \subseteq DepthSymbols /\ Cardinality(tracked) <= MaxTracked
    BY <2>1, DepthFacts DEF DepthInit
  <2>5. flag \in BOOLEAN /\ lively \in BOOLEAN /\ spoke \in BOOLEAN /\ depthStopped \in BOOLEAN /\ ~flag
    BY DEF DepthInit
  <2> QED BY <2>2, <2>3, <2>4, <2>5 DEF DepthInit, Typed
<1>2. whole \in [DepthSymbols -> BOOLEAN]
  BY DEF DepthInit
<1>3. BookWhole /\ ServesTheHotSet /\ raw = NoBooks
  BY NoBooksIn DEF DepthInit, BookWhole, ServesTheHotSet
<1> QED BY <1>1, <1>2, <1>3 DEF DepthInit, DepthInv

(* What the exchange puts on the line *)
LEMMA ChangesKeeps ==
  ASSUME DepthInv, NEW s \in DepthSymbols, Changes(s)
  PROVE  DepthInv'
<1>1. Typed /\ ws = "open" /\ flag /\ serving = tracked
  BY DEF DepthInv, Changes, ServesTheHotSet
<1>2. /\ UNCHANGED <<ws, flag, reconnect, lively, spoke, tracked, subscribed, raw, whole, serving, depthStopped, faultsLeft>>
      /\ version' = [version EXCEPT ![s] = @ + 1] /\ version[s] < MaxVersions
      /\ inFlight' = Append(inFlight, Frame(s, "delta", version'[s]))
  BY DEF Changes, socketVars, depthBooks
<1>3. version' \in [DepthSymbols -> 1..MaxVersions] /\ version'[s] = version[s] + 1
      /\ \A t \in DepthSymbols : version'[t] = IF t = s THEN version[t] + 1 ELSE version[t]
  BY <1>1, <1>2, DepthFacts DEF Typed
<1>4. PICK f \in Frames : f = Frame(s, "delta", version'[s]) /\ f.symbol = s /\ f.version = version[s] + 1
  BY <1>3, FrameIn
<1>5. inFlight' = Append(inFlight, f) /\ inFlight \in Seq(Frames) /\ inFlight' \in Seq(Frames)
  BY <1>1, <1>2, <1>4 DEF Typed
<1>6. \A t \in DepthSymbols : InOrder(inFlight', t, raw[t], version'[t])
  <2> TAKE t \in DepthSymbols
  <2>1. InOrder(inFlight, t, raw[t], version[t])
    BY <1>1 DEF DepthInv
  <2>2. InOrder(Append(inFlight, f), t, raw[t], IF f.symbol = t THEN version[t] + 1 ELSE version[t])
    BY <1>4, <1>5, <2>1, OrderDelta
  <2> QED BY <1>3, <1>4, <1>5, <2>2
<1>7. Typed'
  BY <1>1, <1>2, <1>3, <1>5 DEF Typed
<1> QED BY <1>1, <1>2, <1>6, <1>7 DEF DepthInv, BookWhole, ServesTheHotSet

LEMMA RestartKeeps ==
  ASSUME DepthInv, NEW s \in DepthSymbols, ServiceRestarts(s)
  PROVE  DepthInv'
<1>1. Typed /\ ws = "open" /\ flag
  BY DEF DepthInv, ServiceRestarts
<1>2. UNCHANGED <<ws, flag, reconnect, lively, spoke, tracked, subscribed, raw, whole, serving, version, depthStopped>>
  BY DEF ServiceRestarts, socketVars, depthBooks
<1>3. PICK w : w = <<Frame(s, "restart", version[s]), Frame(s, "snapshot", version[s])>>
  OBVIOUS
<1>4. version[s] \in 1..MaxVersions
  BY <1>1 DEF Typed
<1>5. w \in Seq(Frames) /\ \A k \in 1..Len(w) : w[k].type # "delta" /\ w[k].symbol = s /\ w[k].version = version[s]
  <2>1. Len(w) = 2 /\ w[1] = Frame(s, "restart", version[s]) /\ w[2] = Frame(s, "snapshot", version[s])
    BY <1>3
  <2>2. \A k \in 1..2 : k = 1 \/ k = 2
    OBVIOUS
  <2>3. w \in Seq(Frames)
    BY <1>3, <1>4, FrameIn
  <2> QED BY <1>4, <2>1, <2>2, <2>3, FrameIn
<1>6. inFlight' = inFlight \o w /\ inFlight \in Seq(Frames) /\ inFlight' \in Seq(Frames)
  BY <1>1, <1>3, <1>5 DEF Typed, ServiceRestarts
<1>7. \A t \in DepthSymbols : InOrder(inFlight', t, raw[t], version[t])
  <2> TAKE t \in DepthSymbols
  <2>1. InOrder(inFlight, t, raw[t], version[t])
    BY <1>1 DEF DepthInv
  <2>2. \A k \in 1..Len(w) : w[k].type # "delta" /\ (w[k].symbol = t => w[k].version = version[t])
    BY <1>5
  <2>3. InOrder(inFlight \o w, t, raw[t], version[t])
    BY <1>5, <1>6, <2>1, <2>2, OrderJoins
  <2> QED BY <1>6, <2>3
<1>8. Typed'
  BY <1>1, <1>2, <1>6 DEF Typed
<1> QED BY <1>1, <1>2, <1>7, <1>8 DEF DepthInv, BookWhole, ServesTheHotSet

(* What a call to the exchange does to the line *)
LEMMA SendsKeeps ==
  ASSUME DepthInv, NEW add, NEW remove, add \subseteq DepthSymbols, Sends(add, remove),
         ws' = "open" => \A s \in DepthSymbols : InOrder(inFlight, s, raw'[s], version[s])
  PROVE  /\ version' = version /\ inFlight' \in Seq(Frames)
         /\ ws' = "open" => \A s \in DepthSymbols : InOrder(inFlight', s, raw'[s], version'[s])
         /\ ws' # "open" => inFlight' = inFlight
<1>1. Typed
  BY DEF DepthInv
<1>2. version' = version /\ inFlight' = (IF ws' = "open" THEN inFlight \o Snapshots(add) ELSE inFlight)
  BY DEF Sends, Snapshots
<1>3. inFlight \in Seq(Frames) /\ Snapshots(add) \in Seq(Frames)
  BY <1>1, SnapshotsFit DEF Typed
<1>4. ASSUME ws' = "open", NEW s \in DepthSymbols PROVE InOrder(inFlight', s, raw'[s], version'[s])
  <2>1. InOrder(inFlight, s, raw'[s], version[s])
    BY <1>4
  <2>2. \A k \in 1..Len(Snapshots(add)) :
           /\ Snapshots(add)[k].type # "delta"
           /\ Snapshots(add)[k].symbol = s => Snapshots(add)[k].version = version[s]
    BY <1>1, <1>4, SnapshotsFit DEF Typed
  <2>3. InOrder(inFlight \o Snapshots(add), s, raw'[s], version[s])
    BY <1>3, <2>1, <2>2, OrderJoins
  <2> QED BY <1>2, <1>4, <2>3
<1> QED BY <1>2, <1>3, <1>4

LEMMA TrackKeeps ==
  ASSUME DepthInv, NEW next \in SUBSET DepthSymbols, TrackHot(next)
  PROVE  DepthInv'
<1> DEFINE remove == (tracked \ next) \cap subscribed
           add == (next \ tracked) \ (subscribed \ remove)
<1>1. Typed
  BY DEF DepthInv
<1>2. /\ UNCHANGED <<ws, flag, reconnect, lively, spoke, whole, depthStopped>>
      /\ tracked' = next /\ Cardinality(next) <= MaxTracked /\ ~depthStopped
      /\ subscribed' = (subscribed \ remove) \cup add
      /\ raw' = [s \in DepthSymbols |-> IF s \in remove THEN 0 ELSE raw[s]]
      /\ Sends(add, remove)
      /\ serving' = (IF ws' = "open" THEN (serving \ remove) \cup add ELSE serving)
  BY DEF TrackHot, Dropped, Sends, socketVars
<1>3. add \subseteq DepthSymbols /\ next \subseteq DepthSymbols
  OBVIOUS
<1>4. flag => subscribed = tracked /\ subscribed' = next /\ add = next \ tracked /\ remove = tracked \ next
  BY <1>1, <1>2 DEF Typed
<1> HIDE DEF add, remove
<1>5. raw' \in [DepthSymbols -> 0..MaxVersions]
      /\ \A s \in DepthSymbols : raw'[s] = 0 \/ raw'[s] = raw[s]
  BY <1>1, <1>2, DepthFacts DEF Typed
<1>6. ws' = "open" => \A s \in DepthSymbols : InOrder(inFlight, s, raw'[s], version[s])
  <2> SUFFICES ASSUME ws' = "open", NEW s \in DepthSymbols PROVE InOrder(inFlight, s, raw'[s], version[s])
    OBVIOUS
  <2>1. InOrder(inFlight, s, raw[s], version[s])
    BY <1>2 DEF DepthInv
  <2> QED BY <1>5, <2>1, OrderZero
<1>7. /\ version' = version /\ inFlight' \in Seq(Frames)
      /\ ws' = "open" => \A s \in DepthSymbols : InOrder(inFlight', s, raw'[s], version'[s])
      /\ ws' # "open" => inFlight' = inFlight
  BY <1>2, <1>3, <1>6, SendsKeeps
<1>8. Typed'
  BY <1>1, <1>2, <1>3, <1>4, <1>5, <1>7 DEF Typed
<1>9. BookWhole'
  BY <1>2, <1>5 DEF DepthInv, BookWhole
<1>10. ServesTheHotSet'
  <2>1. ws = "open" => flag /\ serving = tracked
    BY DEF DepthInv, ServesTheHotSet
  <2> QED BY <1>2, <1>4, <2>1 DEF ServesTheHotSet
<1>11. raw = NoBooks => raw' = NoBooks
  <2> SUFFICES ASSUME raw = NoBooks PROVE raw' = NoBooks
    OBVIOUS
  <2>1. \A s \in DepthSymbols : raw'[s] = 0
    BY <1>5, NoBooksIn
  <2> QED BY <1>2, <2>1 DEF NoBooks
<1> QED BY <1>2, <1>7, <1>8, <1>9, <1>10, <1>11 DEF DepthInv

LEMMA OpenKeeps ==
  ASSUME DepthInv, OnOpenDepth
  PROVE  DepthInv'
<1>1. Typed /\ ws = "connecting" /\ ~depthStopped /\ reconnect # "armed"
      /\ inFlight = <<>> /\ serving = {} /\ raw = NoBooks
  BY DEF DepthInv, OnOpenDepth
<1>2. /\ UNCHANGED <<reconnect, lively, spoke, tracked, raw, whole, depthStopped>>
      /\ ws' = "open" /\ flag' = TRUE /\ subscribed' = tracked /\ Sends(tracked, {})
      /\ serving' = (serving \ {}) \cup tracked
  BY DEF OnOpenDepth, Resubscribes, Sends, depthBooks
<1>3. \A s \in DepthSymbols : InOrder(inFlight, s, raw'[s], version[s])
  BY <1>1, <1>2, OrderEmpty, NoBooksIn
<1>4. tracked \subseteq DepthSymbols
  BY <1>1 DEF Typed
<1>5. /\ version' = version /\ inFlight' \in Seq(Frames)
      /\ \A s \in DepthSymbols : InOrder(inFlight', s, raw'[s], version'[s])
  BY <1>2, <1>3, <1>4, SendsKeeps
<1>6. Typed'
  BY <1>1, <1>2, <1>5 DEF Typed
<1>7. BookWhole' /\ ServesTheHotSet'
  BY <1>1, <1>2 DEF DepthInv, BookWhole, ServesTheHotSet
<1> QED BY <1>1, <1>2, <1>5, <1>6, <1>7 DEF DepthInv

(* The socket goes, and with it the books *)
LEMMA ClearKeeps ==
  ASSUME DepthInv, Clears, Forgets, ws' \in {"connecting", "torn"}, ~depthStopped,
         UNCHANGED <<lively, spoke, tracked, depthStopped>>,
         reconnect' \in {"null", "armed", "fired"}, reconnect' = "armed" => ws' = "torn"
  PROVE  DepthInv'
<1>1. Typed
  BY DEF DepthInv
<1>2. /\ flag' = FALSE /\ subscribed' = {} /\ raw' = NoBooks /\ whole' = whole
      /\ serving' = {} /\ inFlight' = <<>> /\ version' = version
  BY DEF Clears, Forgets
<1>3. Typed'
  <2>1. inFlight' \in Seq(Frames) /\ raw' \in [DepthSymbols -> 0..MaxVersions]
    BY <1>2, NoBooksIn
  <2> QED BY <1>1, <1>2, <2>1 DEF Typed
<1>4. BookWhole' /\ ServesTheHotSet'
  BY <1>2, NoBooksIn DEF BookWhole, ServesTheHotSet
<1> QED BY <1>2, <1>3, <1>4 DEF DepthInv

LEMMA FeedStopKeeps ==
  ASSUME DepthInv, StopDepth
  PROVE  DepthInv'
<1>1. Typed
  BY DEF DepthInv
<1>2. /\ UNCHANGED <<lively, spoke, tracked, raw, whole, version>>
      /\ depthStopped' = TRUE /\ ws' = "none" /\ flag' = FALSE /\ reconnect' = "null" /\ subscribed' = {}
      /\ serving' = {} /\ inFlight' = <<>>
  BY DEF StopDepth, Forgets, depthBooks
<1>3. Typed'
  <2>1. inFlight' \in Seq(Frames)
    BY <1>2
  <2> QED BY <1>1, <1>2, <2>1 DEF Typed
<1>4. BookWhole' /\ ServesTheHotSet'
  BY <1>2 DEF DepthInv, BookWhole, ServesTheHotSet
<1> QED BY <1>2, <1>3, <1>4 DEF DepthInv

(* A frame arrives: a delta is applied only to the version before it *)
LEMMA ReceiveKeeps ==
  ASSUME DepthInv, Receive
  PROVE  DepthInv'
<1>1. Typed /\ ws = "open" /\ inFlight # <<>> /\ inFlight \in Seq(Frames)
  BY DEF DepthInv, Receive, Typed
<1>2. PICK f : f = Head(inFlight)
  OBVIOUS
<1>3. f \in Frames /\ f = inFlight[1] /\ Len(inFlight) \in Nat /\ 1 \in 1..Len(inFlight) /\ Tail(inFlight) \in Seq(Frames)
  BY <1>1, <1>2
<1>4. f.symbol \in DepthSymbols /\ f.type \in {"snapshot", "delta", "restart"} /\ f.version \in 1..MaxVersions
  BY <1>3 DEF Frames
<1>5. /\ UNCHANGED <<ws, flag, reconnect, tracked, subscribed, serving, version, depthStopped>>
      /\ lively' = TRUE /\ spoke' = TRUE /\ inFlight' = Tail(inFlight)
      /\ raw' = [raw EXCEPT ![f.symbol] =
                     IF Applies(f) THEN f.version ELSE IF f.type = "restart" THEN 0 ELSE raw[f.symbol]]
      /\ whole' = [whole EXCEPT ![f.symbol] =
                       IF f.type = "snapshot" THEN TRUE
                       ELSE IF Applies(f) THEN whole[f.symbol] /\ raw[f.symbol] + 1 = f.version
                       ELSE whole[f.symbol]]
  BY <1>2 DEF Receive
<1>6. raw \in [DepthSymbols -> 0..MaxVersions]
  BY <1>1 DEF Typed
<1>7. \A s \in DepthSymbols : InOrder(inFlight, s, raw[s], version[s])
  BY <1>1 DEF DepthInv
<1>8. raw'[f.symbol] \in {0, f.version} /\ raw' \in [DepthSymbols -> 0..MaxVersions]
      /\ \A s \in DepthSymbols : s # f.symbol => raw'[s] = raw[s]
  <2>1. ~Applies(f) /\ f.type # "restart" => raw[f.symbol] = 0
    BY <1>4 DEF Applies
  <2>2. f.version \in 0..MaxVersions /\ 0 \in 0..MaxVersions
    BY <1>4, DepthFacts
  <2> QED BY <1>4, <1>5, <1>6, <2>1, <2>2
<1>9. \A s \in DepthSymbols : InOrder(inFlight', s, raw'[s], version'[s])
  <2> TAKE s \in DepthSymbols
  <2>1. IF f.symbol = s THEN raw'[s] \in {0, f.version} ELSE raw'[s] = raw[s]
    BY <1>8
  <2>2. InOrder(Tail(inFlight), s, raw'[s], version[s])
    BY <1>1, <1>2, <1>7, <2>1, OrderTail
  <2> QED BY <1>5, <2>2
<1>10. f.type = "delta" /\ raw[f.symbol] # 0 => raw[f.symbol] + 1 = f.version
  <2>1. Apart(inFlight, f.symbol, 0, 1)
    <3>1. \A k \in 1..Len(inFlight) : ~(0 < k /\ k < 1)
      BY <1>3
    <3> QED BY <3>1 DEF Apart
  <2> QED BY <1>3, <1>4, <1>7, <2>1 DEF InOrder
<1>11. whole' \in [DepthSymbols -> BOOLEAN]
      /\ whole'[f.symbol] = (IF f.type = "snapshot" THEN TRUE
                             ELSE IF Applies(f) THEN whole[f.symbol] /\ raw[f.symbol] + 1 = f.version
                             ELSE whole[f.symbol])
      /\ \A s \in DepthSymbols : s # f.symbol => whole'[s] = whole[s]
  <2>1. whole \in [DepthSymbols -> BOOLEAN]
    BY DEF DepthInv
  <2> QED BY <1>4, <1>5, <2>1
<1>12. BookWhole'
  <2> SUFFICES ASSUME NEW s \in DepthSymbols, raw'[s] # 0 PROVE whole'[s]
    BY DEF BookWhole
  <2>1. raw[s] # 0 => whole[s]
    BY DEF DepthInv, BookWhole
  <2>2. CASE s # f.symbol
    BY <1>8, <1>11, <2>1, <2>2
  <2>3. CASE s = f.symbol
    <3>1. CASE f.type = "snapshot"
      BY <1>11, <2>3, <3>1
    <3>2. CASE f.type = "delta"
      <4>1. raw[s] # 0
        <5> SUFFICES ASSUME raw[s] = 0 PROVE FALSE
          OBVIOUS
        <5>1. ~Applies(f)
          BY <2>3, <3>2 DEF Applies
        <5>2. raw'[s] = raw[s]
          BY <1>4, <1>5, <1>6, <2>3, <3>2, <5>1
        <5> QED BY <5>2
      <4>2. Applies(f)
        BY <2>3, <3>2, <4>1 DEF Applies
      <4>3. raw[f.symbol] + 1 = f.version /\ whole[f.symbol]
        BY <1>10, <2>1, <2>3, <3>2, <4>1
      <4> QED BY <1>11, <2>3, <3>2, <4>2, <4>3
    <3>3. CASE f.type = "restart"
      <4>1. ~Applies(f)
        BY <3>3 DEF Applies
      <4>2. raw'[s] = 0
        BY <1>4, <1>5, <1>6, <2>3, <3>3, <4>1
      <4> QED BY <4>2
    <3> QED BY <1>4, <3>1, <3>2, <3>3
  <2> QED BY <2>2, <2>3
<1>13. Typed'
  BY <1>1, <1>3, <1>5, <1>8 DEF Typed
<1>14. ServesTheHotSet' /\ reconnect' # "armed" /\ ~depthStopped'
  BY <1>1, <1>5 DEF DepthInv, ServesTheHotSet
<1>15. ws' = "open" /\ flag'
  BY <1>1, <1>5 DEF DepthInv
<1> QED BY <1>9, <1>11, <1>12, <1>13, <1>14, <1>15 DEF DepthInv

(* The line breaks, in silence or not *)
LEMMA BreaksKeeps ==
  ASSUME DepthInv, DepthFaults
  PROVE  DepthInv'
<1>1. /\ UNCHANGED <<flag, reconnect, lively, spoke, tracked, subscribed, raw, whole, serving, version, inFlight, depthStopped>>
      /\ ws \in {"connecting", "hung", "open", "mute"}
      /\ \/ ws' = "torn" \/ (ws = "connecting" /\ ws' = "hung") \/ (ws = "open" /\ ws' = "mute")
  BY DEF DepthFaults, Breaks, depthBooks, depthVenue
<1>2. Typed' /\ BookWhole' /\ ServesTheHotSet'
  BY <1>1 DEF DepthInv, Typed, BookWhole, ServesTheHotSet
<1>3. reconnect' # "armed" /\ ~depthStopped'
  BY <1>1 DEF DepthInv
<1> QED BY <1>1, <1>2, <1>3, NoBooksIn DEF DepthInv

LEMMA FiresKeeps ==
  ASSUME DepthInv, ReconnectFires
  PROVE  DepthInv'
<1>1. /\ UNCHANGED <<flag, lively, spoke, tracked, subscribed, raw, whole, serving, version, inFlight, depthStopped>>
      /\ reconnect = "armed" /\ reconnect' = "fired" /\ ws' = "connecting"
  BY DEF ReconnectFires, depthBooks, depthVenue
<1>2. Typed' /\ BookWhole' /\ ServesTheHotSet'
  BY <1>1 DEF DepthInv, Typed, BookWhole, ServesTheHotSet
<1>3. inFlight' = <<>> /\ serving' = {} /\ raw' = NoBooks /\ ~depthStopped'
  BY <1>1 DEF DepthInv
<1> QED BY <1>1, <1>2, <1>3 DEF DepthInv

(* Steps that change no more than when the socket was last heard *)
LEMMA HeardKeeps ==
  ASSUME DepthInv, lively' \in BOOLEAN, spoke' \in BOOLEAN,
         UNCHANGED <<ws, flag, reconnect, tracked, subscribed, raw, whole, serving, version, inFlight, depthStopped>>
  PROVE  DepthInv'
<1>1. Typed' /\ BookWhole' /\ ServesTheHotSet'
  BY DEF DepthInv, Typed, BookWhole, ServesTheHotSet
<1> QED BY <1>1 DEF DepthInv

LEMMA DepthStep == DepthInv /\ [DepthNext]_depthVars => DepthInv'
<1> SUFFICES ASSUME DepthInv, [DepthNext]_depthVars PROVE DepthInv'
  OBVIOUS
<1>1. Typed
  BY DEF DepthInv
<1>2. ASSUME NEW s \in DepthSymbols, Changes(s) \/ ServiceRestarts(s) PROVE DepthInv'
  BY <1>2, ChangesKeeps, RestartKeeps
<1>3. ASSUME NEW next \in SUBSET DepthSymbols, TrackHot(next) PROVE DepthInv'
  BY <1>3, TrackKeeps
<1>4. CASE FallsSilent
  <2>1. lively' = FALSE /\ spoke' = spoke
        /\ UNCHANGED <<ws, flag, reconnect, tracked, subscribed, raw, whole, serving, version, inFlight, depthStopped>>
    BY <1>4 DEF FallsSilent, depthBooks, depthVenue
  <2> QED BY <1>1, <2>1, HeardKeeps DEF Typed
<1>5. CASE OtherFrame
  <2>1. lively' = TRUE /\ spoke' = TRUE
        /\ UNCHANGED <<ws, flag, reconnect, tracked, subscribed, raw, whole, serving, version, inFlight, depthStopped>>
    BY <1>5 DEF OtherFrame, depthBooks, depthVenue
  <2> QED BY <2>1, HeardKeeps
<1>6. CASE UNCHANGED depthVars
  <2>1. UNCHANGED <<ws, flag, reconnect, lively, spoke, tracked, subscribed, raw, whole, serving, version, inFlight, depthStopped>>
    BY <1>6 DEF depthVars, socketVars, depthBooks, depthVenue
  <2> QED BY <1>1, <2>1, HeardKeeps DEF Typed
<1>7. CASE OnCloseDepth
  <2>1. /\ Clears /\ Forgets /\ UNCHANGED <<lively, spoke, tracked, depthStopped>>
        /\ ws # "none" /\ ws' = "torn" /\ reconnect' = "armed"
    BY <1>7 DEF OnCloseDepth
  <2>2. ~depthStopped
    BY <2>1 DEF DepthInv
  <2> QED BY <2>1, <2>2, ClearKeeps
<1>8. CASE Watchdog
  <2>1. /\ Clears /\ Forgets /\ UNCHANGED <<lively, spoke, tracked, depthStopped>>
        /\ ws' = "connecting" /\ reconnect' = "null" /\ ~depthStopped
    BY <1>8 DEF Watchdog
  <2> QED BY <2>1, ClearKeeps
<1> QED BY <1>2, <1>3, <1>4, <1>5, <1>6, <1>7, <1>8, BreaksKeeps, OpenKeeps, FiresKeeps, FeedStopKeeps, ReceiveKeeps DEF DepthNext

(* A book that is served is a snapshot and every delta since, and an open socket is served
   exactly the hot set, through restarts of the exchange, breaks, reconnects and changes
   of the hot set in any order. *)
THEOREM BooksAreWhole == DepthFeedSpec => [](DepthTypeOK /\ BookWhole /\ ServesTheHotSet)
<1>1. DepthInit => DepthInv
  BY DepthStarts
<1>2. DepthInv /\ [DepthNext]_depthVars => DepthInv'
  BY DepthStep
<1>3. DepthInv => DepthTypeOK /\ BookWhole /\ ServesTheHotSet
  BY TypedIs DEF DepthInv
<1> QED BY <1>1, <1>2, <1>3, PTL DEF DepthFeedSpec

=============================================================================
