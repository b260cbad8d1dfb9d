--------------------------- MODULE BinanceMirror ---------------------------
(***************************************************************************)
(* The Binance demo coordinator (src/runner/binance-runtime.ts): every     *)
(* paper position is mirrored onto the futures testnet, its stop follows   *)
(* the broker's, and a reconcile pass closes what the engine does not know.*)
(*                                                                         *)
(* mirrorOpen, mirrorClose and reconcile are tasks that interleave at      *)
(* their awaits.  A task's phase names the call it makes when it resumes.  *)
(* A request takes effect when it is made; its reply comes later and may   *)
(* report a failure, with or without the effect (a lost reply).            *)
(*                                                                         *)
(* Abstractions.  Every order has size 1, stops are numbered in the order  *)
(* the broker moves them, and the stop and the target of a trade, which    *)
(* never moves, are placed by one request; the last one placed counts.     *)
(* The parity ledger and the account probe are left out: nothing depends   *)
(* on them.                                                                *)
(***************************************************************************)
EXTENDS Integers, FiniteSets, FiniteSetsExt

CONSTANTS
    Symbols,
    None,
    MaxIds,       \* bound: paper trades
    MaxMoves,     \* bound: stop moves of a trade
    Shorts,       \* the trades that are short
    Makers,       \* the trades that paper entered as a maker
    MaxTroubles   \* bound: failed or unanswered requests and polls, restarts
                  \* of the runner and flips of the kill switch together

Ids == 1..MaxIds

ASSUME MirrorAssumption ==
    /\ IsFiniteSet(Symbols) /\ None \notin Nat /\ None \notin [symbol : Symbols, stop : 1..(MaxMoves + 1)]
    /\ Shorts \subseteq Ids /\ Makers \subseteq Ids
    /\ MaxIds \in Nat /\ MaxMoves \in Nat /\ MaxTroubles \in Nat

VARIABLES
    book,       \* the paper broker: symbol -> id of the open position or None
    trade,      \* id -> [symbol, stop] or None (it outlives the position)
    mirrors,    \* id -> stop last recorded as pushed (0: none yet), or None
    opening,    \* id -> phase of its mirrorOpen
    closing,    \* id -> phase of its mirrorClose and the quantity it read
    rec,        \* the reconcile pass
    armed,      \* status.armed, as last polled
    control,    \* binance_demo_control.armed in the database
    venue,      \* symbol -> [net, resting, stop] on the exchange
    troubles

paper  == <<book, trade>>
vars == <<paper, mirrors, opening, closing, rec, armed, control, venue, troubles>>

Idle == [phase |-> "idle", snapshot |-> {}, left |-> {}, cur |-> None,
         seen |-> [s \in Symbols |-> 0], todo |-> {}]
NotClosing == [phase |-> "none", qty |-> 0]

Init ==
    /\ book = [s \in Symbols |-> None]
    /\ trade = [i \in Ids |-> None]
    /\ mirrors = [i \in Ids |-> None]
    /\ opening = [i \in Ids |-> "none"]
    /\ closing = [i \in Ids |-> NotClosing]
    /\ rec = Idle
    /\ armed = FALSE /\ control = TRUE
    /\ venue = [s \in Symbols |-> [net |-> 0, resting |-> {}, stop |-> 0]]
    /\ troubles = 0

CanSubmit == armed
Side(id) == IF id \in Shorts THEN -1 ELSE 1
Traded == {id \in Ids : trade[id] # None}
SymbolOf(id) == trade[id].symbol
Tradable == BOOLEAN     \* may executor.normalize find the order too small?
Magnitude(n) == IF n < 0 THEN -n ELSE n

-----------------------------------------------------------------------------
(* The exchange *)

Cancelled(v) == [v EXCEPT !.resting = {}, !.stop = 0]
Entered(v, side) == [v EXCEPT !.net = @ + side]

Reduced_NotReduceOnly(v, side, qty) == [v EXCEPT !.net = @ + side * qty]
(* A reduce-only market order: it closes at most what is open. *)
Reduced(v, side, qty) ==
    IF v.net * side >= 0 THEN v
    ELSE [v EXCEPT !.net = @ + side * Min({qty, Magnitude(@)})]

(* A request that turns a symbol into `after`, and whether it reports success *)
Call(s, after, ok) ==
    \/ /\ ok
       /\ venue' = [venue EXCEPT ![s] = after]
       /\ UNCHANGED troubles
    \/ /\ ~ok
       /\ troubles < MaxTroubles
       /\ troubles' = troubles + 1
       /\ venue' \in {venue, [venue EXCEPT ![s] = after]}

FillResting(s, id) ==
    /\ id \in venue[s].resting
    /\ LET entered == Entered(venue[s], Side(id)) IN
           venue' = [venue EXCEPT ![s] = [entered EXCEPT !.resting = venue[s].resting \ {id}]]
    /\ UNCHANGED <<paper, mirrors, opening, closing, rec, armed, control, troubles>>

Trigger(s) ==     \* a protective order closes the position
    /\ venue[s].net # 0
    /\ venue[s].stop # 0
    /\ venue' = [venue EXCEPT ![s].net = 0, ![s].stop = 0]
    /\ UNCHANGED <<paper, mirrors, opening, closing, rec, armed, control, troubles>>

-----------------------------------------------------------------------------
(* The paper broker and its hooks *)

(* onPaperOpen starts a mirrorOpen. *)
PaperOpen(s, id) ==
    /\ book[s] = None
    /\ trade[id] = None /\ \A j \in 1..(id - 1) : trade[j] # None
    /\ book' = [book EXCEPT ![s] = id]
    /\ trade' = [trade EXCEPT ![id] = [symbol |-> s, stop |-> 1]]
    /\ \E tradable \in Tradable :
          opening' = [opening EXCEPT ![id] = IF CanSubmit /\ tradable THEN "prepare" ELSE "none"]
    /\ UNCHANGED <<mirrors, closing, rec, armed, control, venue, troubles>>

(* The broker moves a stop in the position object that every task shares. *)
PaperMoveStop(s) ==
    /\ book[s] # None
    /\ trade[book[s]].stop <= MaxMoves
    /\ trade' = [trade EXCEPT ![book[s]].stop = @ + 1]
    /\ UNCHANGED <<book, mirrors, opening, closing, rec, armed, control, venue, troubles>>

(* onPaperClose runs mirrorClose up to its first request. *)
PaperClose(s) ==
    /\ book[s] # None
    /\ book' = [book EXCEPT ![s] = None]
    /\ LET id == book[s] IN
           IF CanSubmit /\ mirrors[id] # None
           THEN /\ mirrors' = [mirrors EXCEPT ![id] = None]
                /\ \E ok \in BOOLEAN :
                      /\ Call(s, Cancelled(venue[s]), ok)
                      /\ closing' = [closing EXCEPT ![id] =
                             IF ok THEN [phase |-> "read", qty |-> 0] ELSE NotClosing]
           ELSE UNCHANGED <<mirrors, closing, venue, troubles>>
    /\ UNCHANGED <<trade, opening, rec, armed, control>>

-----------------------------------------------------------------------------
(* mirrorOpen *)

Resume(id, phase) == opening[id] = phase
Goto(id, phase) == opening' = [opening EXCEPT ![id] = phase]
OnlyOpening == UNCHANGED <<paper, closing, rec, armed, control>>

MarketOrder(id) ==
    \E ok \in BOOLEAN :
        /\ Call(SymbolOf(id), Entered(venue[SymbolOf(id)], Side(id)), ok)
        /\ Goto(id, IF ok THEN "acked" ELSE "none")

(* The margin mode is set, or nothing is sent; then the entry order. *)
Submit(id) ==
    /\ Resume(id, "prepare")
    /\ \/ /\ troubles < MaxTroubles
          /\ troubles' = troubles + 1
          /\ Goto(id, "none") /\ UNCHANGED venue
       \/ /\ id \notin Makers
          /\ MarketOrder(id)
       \/ /\ id \in Makers
          /\ \E ok \in BOOLEAN :
                /\ Call(SymbolOf(id), [venue[SymbolOf(id)] EXCEPT !.resting = @ \cup {id}], ok)
                /\ Goto(id, IF ok THEN "acked" ELSE "market")
       \/ /\ id \in Makers     \* it would have crossed: refused
          /\ Goto(id, "market") /\ UNCHANGED <<venue, troubles>>
    /\ OnlyOpening /\ UNCHANGED mirrors

(* The fallback carries the same client order id, which the exchange refuses
   while the first order is open. *)
Fallback(id) ==
    /\ Resume(id, "market")
    /\ IF id \in venue[SymbolOf(id)].resting
       THEN Goto(id, "none") /\ UNCHANGED <<venue, troubles>>
       ELSE MarketOrder(id)
    /\ OnlyOpening /\ UNCHANGED mirrors

(* The acknowledgement is logged: the mirror is set, and syncBrackets begins. *)
Track(id) ==
    /\ Resume(id, "acked")
    /\ mirrors' = [mirrors EXCEPT ![id] = 0]
    /\ \E ok \in BOOLEAN :
          /\ Call(SymbolOf(id), Cancelled(venue[SymbolOf(id)]), ok)
          /\ Goto(id, IF ok THEN "stop" ELSE "none")
    /\ OnlyOpening

(* syncBrackets after its cancelAll, shared by mirrorOpen and reconcile *)
PlaceBrackets(id, ok) ==
    Call(SymbolOf(id), [venue[SymbolOf(id)] EXCEPT !.stop = trade[id].stop], ok)
RecordPushed(id) ==   \* the stop is read again, after the awaits
    mirrors' = [mirrors EXCEPT ![id] = IF @ = None THEN None ELSE trade[id].stop]

OpenBrackets(id) ==
    /\ Resume(id, "stop")
    /\ \E ok \in BOOLEAN : PlaceBrackets(id, ok) /\ Goto(id, IF ok THEN "record" ELSE "none")
    /\ OnlyOpening /\ UNCHANGED mirrors

OpenRecord(id) ==
    /\ Resume(id, "record")
    /\ RecordPushed(id)
    /\ Goto(id, "none")
    /\ OnlyOpening /\ UNCHANGED <<venue, troubles>>

-----------------------------------------------------------------------------
(* mirrorClose, after its cancelAll *)

ReadLive(id) ==
    /\ closing[id].phase = "read"
    /\ LET live == Magnitude(venue[SymbolOf(id)].net) IN
           closing' = [closing EXCEPT ![id] =
               IF live = 0 THEN NotClosing ELSE [phase |-> "reduce", qty |-> live]]
    /\ UNCHANGED <<paper, mirrors, opening, rec, armed, control, venue, troubles>>

CloseMarket(id) ==
    /\ closing[id].phase = "reduce"
    /\ \E ok \in BOOLEAN :
          Call(SymbolOf(id), Reduced(venue[SymbolOf(id)], -Side(id), closing[id].qty), ok)
    /\ closing' = [closing EXCEPT ![id] = NotClosing]
    /\ UNCHANGED <<paper, mirrors, opening, rec, armed, control>>

-----------------------------------------------------------------------------
(* reconcile *)

HeldIds == {book[s] : s \in {t \in Symbols : book[t] # None}}
OnlyReconcile == UNCHANGED <<paper, opening, closing, armed, control>>

NeedsSync(id) == mirrors[id] # None /\ mirrors[id] # trade[id].stop

(* The loop over the snapshot: sync the next position that needs it, or else
   go on to read the exchange's positions. *)
Loop(snapshot, left) ==
    \/ \E id \in left, ok \in BOOLEAN :
          /\ NeedsSync(id)
          /\ Call(SymbolOf(id), Cancelled(venue[SymbolOf(id)]), ok)
          /\ rec' = [Idle EXCEPT !.phase = IF ok THEN "stop" ELSE "next",
                                 !.snapshot = snapshot, !.left = left \ {id},
                                 !.cur = IF ok THEN id ELSE None]
    \/ /\ \A id \in left : ~NeedsSync(id)
       /\ \/ /\ rec' = [Idle EXCEPT !.phase = "positions", !.snapshot = snapshot,
                                    !.seen = [s \in Symbols |-> venue[s].net]]
             /\ UNCHANGED <<venue, troubles>>
          \/ /\ troubles < MaxTroubles
             /\ troubles' = troubles + 1
             /\ rec' = Idle /\ UNCHANGED venue

Reconcile ==
    /\ rec.phase = "idle" /\ CanSubmit
    /\ Loop(HeldIds, HeldIds)
    /\ OnlyReconcile /\ UNCHANGED mirrors

RecBrackets ==
    /\ rec.phase = "stop"
    /\ \E ok \in BOOLEAN :
          /\ PlaceBrackets(rec.cur, ok)
          /\ rec' = [rec EXCEPT !.phase = IF ok THEN "record" ELSE "next"]
    /\ OnlyReconcile /\ UNCHANGED mirrors

RecRecord ==
    /\ rec.phase = "record"
    /\ RecordPushed(rec.cur)
    /\ rec' = [rec EXCEPT !.phase = "next", !.cur = None]
    /\ OnlyReconcile /\ UNCHANGED <<venue, troubles>>

RecNext ==
    /\ rec.phase = "next"
    /\ Loop(rec.snapshot, rec.left)
    /\ OnlyReconcile /\ UNCHANGED mirrors

Known_ByMirror(snapshot) == {SymbolOf(id) : id \in {i \in Ids : mirrors[i] # None}}
(* engineSymbols: the snapshot, and what is mirrored by now *)
Known(snapshot) == {SymbolOf(id) : id \in {i \in snapshot : mirrors[i] # None}}

(* The sweep: cancel the orders of the next orphan, then close it. *)
Sweep(todo, seen) ==
    \/ /\ todo = {}
       /\ rec' = Idle /\ UNCHANGED <<venue, troubles>>
    \/ \E s \in todo, ok \in BOOLEAN :
          /\ Call(s, Cancelled(venue[s]), ok)
          /\ rec' = [Idle EXCEPT !.phase = IF ok THEN "close" ELSE "sweep",
                                 !.todo = todo \ {s}, !.seen = seen,
                                 !.cur = IF ok THEN s ELSE None]

RecOrphans ==
    /\ rec.phase = "positions"
    /\ Sweep({s \in Symbols : rec.seen[s] # 0} \ Known(rec.snapshot), rec.seen)
    /\ OnlyReconcile /\ UNCHANGED mirrors

RecClose ==
    /\ rec.phase = "close"
    /\ LET qty == rec.seen[rec.cur] IN
           \E ok \in BOOLEAN :
               Call(rec.cur, Reduced(venue[rec.cur], IF qty > 0 THEN -1 ELSE 1, Magnitude(qty)), ok)
    /\ rec' = [rec EXCEPT !.phase = "sweep", !.cur = None]
    /\ OnlyReconcile /\ UNCHANGED mirrors

RecSweep ==
    /\ rec.phase = "sweep"
    /\ Sweep(rec.todo, rec.seen)
    /\ OnlyReconcile /\ UNCHANGED mirrors

-----------------------------------------------------------------------------
(* Control plane and restarts *)

RefreshControl ==
    /\ armed # control
    /\ armed' = control
    /\ UNCHANGED <<paper, mirrors, opening, closing, rec, control, venue, troubles>>

(* A query that the database answers with an error has no row: disarmed. *)
ControlUnread ==
    /\ armed /\ troubles < MaxTroubles
    /\ troubles' = troubles + 1
    /\ armed' = FALSE
    /\ UNCHANGED <<paper, mirrors, opening, closing, rec, control, venue>>

Switch ==
    /\ troubles < MaxTroubles
    /\ troubles' = troubles + 1
    /\ control' = ~control
    /\ UNCHANGED <<paper, mirrors, opening, closing, rec, armed, venue>>

(* The runner restarts: paper positions are restored, mirrors are not. *)
Restart ==
    /\ troubles < MaxTroubles
    /\ troubles' = troubles + 1
    /\ mirrors' = [i \in Ids |-> None]
    /\ opening' = [i \in Ids |-> "none"]
    /\ closing' = [i \in Ids |-> NotClosing]
    /\ rec' = Idle /\ armed' = FALSE
    /\ UNCHANGED <<paper, control, venue>>

-----------------------------------------------------------------------------
OpenTask(id) ==
    Submit(id) \/ Fallback(id) \/ Track(id) \/ OpenBrackets(id) \/ OpenRecord(id)
CloseTask(id) == ReadLive(id) \/ CloseMarket(id)
ReconcileTask ==
    Reconcile \/ RecBrackets \/ RecRecord \/ RecNext \/ RecOrphans \/ RecClose \/ RecSweep

Next ==
    \/ \E s \in Symbols :
          \/ \E id \in Ids : PaperOpen(s, id)
          \/ PaperMoveStop(s)
          \/ PaperClose(s)
          \/ Trigger(s)
          \/ \E id \in Ids : FillResting(s, id)
    \/ \E id \in Ids : OpenTask(id) \/ CloseTask(id)
    \/ ReconcileTask
    \/ RefreshControl
    \/ ControlUnread
    \/ Switch
    \/ Restart

Spec == Init /\ [][Next]_vars

(* Every request is answered in the end, and the control and reconcile timers
   keep firing; the paper broker and the exchange promise nothing. *)
Fairness ==
    /\ \A id \in Ids : WF_vars(OpenTask(id)) /\ WF_vars(CloseTask(id))
    /\ WF_vars(ReconcileTask)
    /\ WF_vars(RefreshControl)

FairSpec == Spec /\ Fairness

-----------------------------------------------------------------------------
(* Properties *)

Phase == {"none", "prepare", "market", "acked", "stop", "record"}

(* Every variable has its type. *)
TypeOK ==
    /\ book \in [Symbols -> Ids \cup {None}]
    /\ trade \in [Ids -> [symbol : Symbols, stop : 1..(MaxMoves + 1)] \cup {None}]
    /\ mirrors \in [Ids -> 0..(MaxMoves + 1) \cup {None}]
    /\ opening \in [Ids -> Phase]
    /\ closing \in [Ids -> [phase : {"none", "read", "reduce"}, qty : Nat]]
    /\ rec.phase \in {"idle", "next", "stop", "record", "positions", "sweep", "close"}
    /\ rec.snapshot \subseteq Ids /\ rec.left \subseteq Ids /\ rec.todo \subseteq Symbols
    /\ rec.cur \in Ids \cup Symbols \cup {None}
    /\ rec.seen \in [Symbols -> Int]
    /\ venue \in [Symbols -> [net : Int, resting : SUBSET Ids, stop : 0..(MaxMoves + 1)]]
    /\ armed \in BOOLEAN /\ control \in BOOLEAN
    /\ troubles \in 0..MaxTroubles

(* However many closers race for one position (the paper close, the orphan
   sweep, a protective order), the exchange never ends up facing a way no
   paper trade of the symbol ever faced. *)
NoReversal == \A s \in Symbols : venue[s].net # 0 =>
    \E id \in Traded : SymbolOf(id) = s /\ Side(id) * venue[s].net > 0

Quiet(s) ==
    /\ rec = Idle
    /\ \A id \in Traded : SymbolOf(id) = s =>
           opening[id] = "none" /\ closing[id] = NotClosing

(* When no task is under way and nothing went wrong, the first position of a
   symbol has its protective orders on the exchange, however the bracket syncs
   of its mirrorOpen and of the reconcile passes overlapped.  (A later trade
   of the symbol can lose them to a sweep that began before it was mirrored.) *)
Protected == \A s \in Symbols :
    (/\ troubles = 0 /\ Quiet(s)
     /\ {id \in Traded : SymbolOf(id) = s} = {book[s]}
     /\ venue[s].net # 0 /\ mirrors[book[s]] # None)
    => venue[s].stop # 0

(* Once paper stays flat on a symbol and the switch stays on, so does the
   exchange, in spite of failed requests, lost replies, restarts and entries
   that were still under way when paper closed. *)
FlatInTheEnd == \A s \in Symbols :
    <>[](book[s] = None /\ armed) => <>[](venue[s].net = 0)

(* "Bracket prices last pushed to the exchange" *)
RecordedIsPushed == \A s \in Symbols :
    (Quiet(s) /\ book[s] # None /\ venue[s].stop # 0 /\ mirrors[book[s]] # None)
    => venue[s].stop = mirrors[book[s]]

(* The mirror never turns a position around and never leaves one without its brackets. *)
MirrorOK == TypeOK /\ NoReversal /\ Protected

=============================================================================
