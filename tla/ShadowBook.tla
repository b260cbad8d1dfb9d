----------------------------- MODULE ShadowBook -----------------------------
(***************************************************************************)
(* The counterfactual book (src/src/lib/shadow-book.ts): proposals that    *)
(* were not traded are opened virtually, marked by the ticks of the        *)
(* engine, closed at stop, target or time limit, and written row by row    *)
(* (src/src/lib/db/edge-store.server.ts) so that a restart resumes them.   *)
(*                                                                         *)
(* Abstractions.  Every trade is long and its prices are counted from its  *)
(* own entry, with stop and target at an equal distance.  Costs and        *)
(* excursions are functions of entry, exit and times and are left out.     *)
(* Writes are in flight until they land, in any order.                     *)
(***************************************************************************)
EXTENDS Integers, Sequences, FiniteSets, FiniteSetsExt, Functions

CONSTANTS
    Symbols,
    Moves,          \* bound: prices of a tick, counted from the entry
    Bracket,        \* distance of stop and target
    MaxHold,        \* maxHoldMs, in ticks of the clock
    MaxOpen, MaxClosed,
    Horizon,        \* bound: last instant of the clock
    MaxTrades,      \* bound: trades recorded
    MaxBoots,       \* bound: starts of the process
    MaxLost,        \* bound: writes that fail
    NoTrade, NoExit

(* validateConfig: a book of another configuration is never constructed *)
ValidConfig == {Bracket, MaxHold, MaxOpen, MaxClosed} \subseteq Nat \ {0}

Ids == [time : 0..Horizon, seq : 1..MaxTrades]
Resolutions == [price : Int, at : 0..Horizon, reason : {"TP", "SL", "TIME"}]
Exits == Resolutions \cup {NoExit}
ShadowTrades == [id : Ids, symbol : Symbols, openedAt : 0..Horizon,
                 last : Int, markedAt : 0..Horizon, exit : Exits]

ASSUME ShadowAssumption ==
    /\ IsFiniteSet(Symbols) /\ Moves \subseteq Int /\ ValidConfig
    /\ {Horizon, MaxTrades, MaxBoots, MaxLost} \subseteq Nat
    /\ NoTrade \notin ShadowTrades /\ NoExit \notin Resolutions

VARIABLES
    clock,
    open,       \* the open trade of each symbol, or NoTrade
    closed,     \* the closed trades, oldest first
    seq,
    book,       \* "up", "down" or "booting"
    rows,       \* shadow_trades: the rows, at most one per id
    outbox,     \* writes in flight: [status, trade]
    boots, lost, recorded,
    adopted     \* history: a boot read the rows while writes were in flight

bookVars == <<clock, open, closed, seq, book, rows, outbox, boots, lost, recorded, adopted>>

OpenTrades == {open[s] : s \in Symbols} \ {NoTrade}

BookInit ==
    /\ clock = 0
    /\ open = [s \in Symbols |-> NoTrade]
    /\ closed = <<>>
    /\ seq = 0
    /\ book = "up"
    /\ rows = {}
    /\ outbox = {}
    /\ boots = 1 /\ lost = 0 /\ recorded = 0
    /\ adopted = FALSE

Expires(t) == t.openedAt + MaxHold

Clock ==
    /\ clock < Horizon /\ clock' = clock + 1
    /\ book' = IF book = "down" THEN "booting" ELSE book   \* a restart takes time
    /\ UNCHANGED <<open, closed, seq, rows, outbox, boots, lost, recorded, adopted>>

-----------------------------------------------------------------------------
(* The book *)

NewId(time) == [time |-> time, seq |-> seq + 1]

(* record: one open trade per symbol, at most MaxOpen; onOpen issues the write *)
Record(s) ==
    /\ book = "up" /\ recorded < MaxTrades
    /\ recorded' = recorded + 1
    /\ open[s] = NoTrade
    /\ Cardinality(OpenTrades) < MaxOpen
    /\ LET t == [id |-> NewId(clock), symbol |-> s, openedAt |-> clock, last |-> 0,
                 markedAt |-> clock, exit |-> NoExit] IN
       /\ open' = [open EXCEPT ![s] = t]
       /\ outbox' = outbox \cup {[status |-> "open", trade |-> t]}
    /\ seq' = seq + 1
    /\ UNCHANGED <<clock, closed, book, rows, boots, lost, adopted>>

Exit(price, time, reason) == [price |-> price, at |-> time, reason |-> reason]

ClosedTrade(t, x) ==
    [t EXCEPT !.exit = x, !.last = x.price, !.markedAt = IF x.at > @ THEN x.at ELSE @]

(* A list of the set by a key; members with the same one come in any order *)
Listed(set, Key(_)) ==
    {q \in [1..Cardinality(set) -> set] :
        Range(q) = set /\ \A i, j \in DOMAIN q : i < j => Key(q[i]) <= Key(q[j])}

LastOf(q, n) == SubSeq(q, (IF Len(q) > n THEN Len(q) - n ELSE 0) + 1, Len(q))

(* close: out of open, into closed, the oldest beyond MaxClosed forgotten;
   onClose issues the write *)
Closes(set) ==
    /\ open' = [s \in Symbols |-> IF \E t \in set : t.symbol = s THEN NoTrade ELSE open[s]]
    /\ \E in \in Listed(set, LAMBDA t : 0) : closed' = LastOf(closed \o in, MaxClosed)
    /\ outbox' = outbox \cup {[status |-> "closed", trade |-> t] : t \in set}

(* mark: a tick after the time limit proves neither stop nor target *)
Outcome(t, price, time) ==
    IF time > Expires(t) THEN Exit(t.last, Expires(t), "TIME")
    ELSE IF price >= Bracket THEN Exit(Bracket, time, "TP")
    ELSE IF price <= -Bracket THEN Exit(-Bracket, time, "SL")
    ELSE IF time = Expires(t) THEN Exit(price, time, "TIME")
    ELSE NoExit

(* The tick's time is the exchange's: it may be late, never early *)
Mark(s, price, time) ==
    /\ book = "up" /\ open[s] # NoTrade
    /\ time >= open[s].openedAt /\ time >= open[s].markedAt
    /\ LET t == open[s]  x == Outcome(t, price, time) IN
       \/ /\ x # NoExit
          /\ Closes({ClosedTrade(IF time > Expires(t) THEN t
                                 ELSE [t EXCEPT !.last = price, !.markedAt = time], x)})
       \/ /\ x = NoExit
          /\ open' = [open EXCEPT ![s] = [@ EXCEPT !.last = price, !.markedAt = time]]
          /\ UNCHANGED <<closed, outbox>>
    /\ UNCHANGED <<clock, seq, book, rows, boots, lost, recorded, adopted>>

Overdue == {t \in OpenTrades : clock >= Expires(t)}

(* sweep, with the snapshot interval *)
Sweep ==
    /\ book = "up" /\ Overdue # {}
    /\ Closes({ClosedTrade(t, Exit(t.last, Expires(t), "TIME")) : t \in Overdue})
    /\ UNCHANGED <<clock, seq, book, rows, boots, lost, recorded, adopted>>

-----------------------------------------------------------------------------
(* The rows *)

RowOf(id) == {r \in rows : r.trade.id = id}

(* persistShadowOpen: a conflicting row keeps its status and its result *)
OpenUpsert_Reopen(old, t) == [status |-> "open", trade |-> t]
OpenUpsert(old, t) == [old EXCEPT !.trade = [@ EXCEPT !.last = t.last, !.markedAt = t.markedAt]]

(* persistShadowClose: a conflicting row takes the new result *)
Land(w) ==
    LET old == RowOf(w.trade.id)
        new == IF w.status = "open" THEN {OpenUpsert(r, w.trade) : r \in old} ELSE {w} IN
    /\ rows' = (rows \ old) \cup (IF old = {} THEN {w} ELSE new)
    /\ outbox' = outbox \ {w}
    /\ UNCHANGED <<clock, open, closed, seq, book, boots, lost, recorded, adopted>>

Lose(w) ==
    /\ lost < MaxLost
    /\ lost' = lost + 1
    /\ outbox' = outbox \ {w}
    /\ UNCHANGED <<clock, open, closed, seq, book, rows, boots, recorded, adopted>>

Crash ==
    /\ book = "up" /\ boots < MaxBoots /\ clock < Horizon
    /\ book' = "down"
    /\ open' = [s \in Symbols |-> NoTrade]
    /\ closed' = <<>> /\ seq' = 0
    /\ UNCHANGED <<clock, rows, outbox, boots, lost, recorded, adopted>>

Trades(status) == {r.trade : r \in {q \in rows : q.status = status}}

LargestSeq(set) == CHOOSE n \in {t.id.seq : t \in set} \cup {0} : \A t \in set : t.id.seq <= n

FirstOfSymbol(q, s) ==
    LET at == {i \in DOMAIN q : q[i].symbol = s} IN IF at = {} THEN NoTrade ELSE q[Min(at)]

(* loadShadowBook and restore: the newest MaxOpen open rows, of one symbol the
   newest; the newest MaxClosed closed rows; the highest number among them *)
Boot ==
    /\ book = "booting"
    /\ \E newest \in Listed(Trades("open"), LAMBDA t : -t.openedAt),
          last \in Listed(Trades("closed"), LAMBDA t : t.exit.at) :
       LET o == SubSeq(newest, 1, IF Len(newest) < MaxOpen THEN Len(newest) ELSE MaxOpen)
           c == LastOf(last, MaxClosed)
       IN  /\ open' = [s \in Symbols |-> FirstOfSymbol(o, s)]
           /\ closed' = c
           /\ seq' = LargestSeq(Range(o) \cup Range(c))
    /\ book' = "up" /\ boots' = boots + 1
    /\ adopted' = (adopted \/ outbox # {})
    /\ UNCHANGED <<clock, rows, outbox, lost, recorded>>

-----------------------------------------------------------------------------

BookNext ==
    \/ Clock \/ Sweep \/ Crash \/ Boot
    \/ \E s \in Symbols : Record(s) \/ \E p \in Moves, late \in {0, 1} : Mark(s, p, clock - late)
    \/ \E w \in outbox : Land(w) \/ Lose(w)

ShadowSpec == BookInit /\ [][BookNext]_bookVars

-----------------------------------------------------------------------------

BookTypeOK ==
    /\ clock \in 0..Horizon /\ seq \in 0..MaxTrades
    /\ open \in [Symbols -> ShadowTrades \cup {NoTrade}]
    /\ closed \in Seq(ShadowTrades) /\ Len(closed) <= MaxClosed
    /\ rows \subseteq [status : {"open", "closed"}, trade : ShadowTrades]
    /\ outbox \subseteq [status : {"open", "closed"}, trade : ShadowTrades]

Everything == Range(closed) \cup OpenTrades \cup {r.trade : r \in rows \cup outbox}

(* No result lies outside the holding window, and a stop or a target is booked
   only for a tick inside it: late ticks and late sweeps change nothing. *)
WindowRespected ==
    \A t \in Everything : t.exit # NoExit =>
        /\ t.openedAt <= t.exit.at /\ t.exit.at <= Expires(t)
        /\ t.exit.reason = "TIME" <=> -Bracket < t.exit.price /\ t.exit.price < Bracket

(* Two trades never share an id, across restarts and however many rows the boot
   did not load. *)
IdsUnique ==
    \A t, u \in Everything : t.id = u.id =>
        t.symbol = u.symbol /\ t.openedAt = u.openedAt

(* A closed row is never open again, also when the write of the opening lands
   after that of the close. *)
ClosedRowStays ==
    [][\A r \in rows : r.status = "closed" =>
          \E q \in rows' : q.trade.id = r.trade.id /\ q.status = "closed"]_bookVars

(* The result of a closed row, which the court takes for evidence, is never
   replaced, unless a boot read the rows while writes were still in flight. *)
OutcomeStands ==
    [][\A r \in rows : r.status = "closed" /\ ~adopted =>
          \E q \in rows' : q.trade.id = r.trade.id /\ q.trade.exit = r.trade.exit]_bookVars

(* Once the writes have landed the open rows are the open trades. *)
RowsFollowBook ==
    book = "up" /\ outbox = {} /\ lost = 0 /\ ~adopted =>
        {t.id : t \in Trades("open")} = {t.id : t \in OpenTrades}

(* A trade of a symbol that stops ticking is closed by the sweep, also across
   restarts. *)
BookResolves ==
    \A s \in Symbols : (open[s] # NoTrade /\ Expires(open[s]) <= Horizon)
                          ~> (open[s] = NoTrade /\ book = "up")

(* A shadow trade has an id of its own, ends within its window, its row follows the book and
   keeps its outcome, and it is resolved in the end. *)
ShadowKeeps ==
    /\ [](BookTypeOK /\ WindowRespected /\ IdsUnique /\ RowsFollowBook)
    /\ ClosedRowStays /\ OutcomeStands /\ BookResolves

=============================================================================
