------------------------------ MODULE LiveTrade ------------------------------
(***************************************************************************)
(* Live trading from the dashboard: the tab that submits proposals and     *)
(* polls the venue (dashboard.tsx), the server functions that place and    *)
(* close trades on Bybit or Binance (bybit-trader.functions.ts,            *)
(* live-trader.functions.ts) and their rows (db/live-store.server.ts).     *)
(*                                                                         *)
(* Abstractions.  Every order has size one.  The trailing exit is part of  *)
(* the protective stop.  The cooldown of a symbol is time, which the model *)
(* has none of.  The exchange, modelled from the calls made to it, drops   *)
(* the stops of a position with the position.  Exits are numbered in       *)
(* order; the number stands for the id of the closing order.  The 200      *)
(* closed rows a history reads are all there are.                          *)
(***************************************************************************)
EXTENDS Integers, Sequences, FiniteSets, SequencesExt, FiniteSetsExt, Functions

CONSTANTS
    LiveSymbols,
    Closers,        \* clicks on Close that may overlap
    LiveCap,        \* LIVE_MAX_POSITIONS
    FailureLimit,   \* LIVE_FAILURE_LIMIT
    HistoryPage,    \* closed-pnl: the exits of one answer, the newest
    MaxEntries,     \* bound: placements
    MaxExits,       \* bound: exits of the exchange
    MaxFaults,      \* bound: refused, lost and interrupted calls
    NoCall, NoPoll

Pnls == {1, -1}
ExitIds == 1..MaxExits
Placements == [side : Pnls, step : {"entry", "protect", "persist", "rollback"}]
Closes == [symbol : LiveSymbols, size : -MaxEntries..MaxEntries,
           step : {"order", "cancel", "select", "update", "credit", "refresh"},
           exit : ExitIds \cup {0}, row : 0..MaxEntries]
Trades == [symbol : LiveSymbols, status : {"open", "closed"}, exit : ExitIds \cup {0}, pnl : Pnls \cup {0}]

ASSUME LiveAssumption ==
    /\ IsFiniteSet(LiveSymbols) /\ IsFiniteSet(Closers)
    /\ NoCall \notin Placements \cup Closes
    /\ {LiveCap, FailureLimit, HistoryPage} \subseteq Nat \ {0}
    /\ {MaxEntries, MaxExits, MaxFaults} \subseteq Nat

VARIABLES
    provider,
    mode, ready,    \* the tab: armed; its last probe succeeded
    probed,         \* the status it shows, which the breaker leaves
    known, streak,  \* positions it knows of, failures in a row
    poll,       \* the poll in flight
    view,       \* the exits in the history the tab shows
    placing,    \* per symbol: the placement in flight, [side, step]
    clicks,    \* per click: the close in flight
    position,   \* the exchange: signed size of each symbol
    stops,      \* symbols whose position has a stop
    exits,      \* closed-pnl of the exchange, oldest first: [symbol, pnl]
    liveRows,   \* live_trades, oldest first: [symbol, status, exit, pnl]
    realized,   \* live_accounts.realized_pnl
    entries, faults,
    bared,      \* history: positions whose stop a failed rollback or a stale close took
    torn        \* history: a close was interrupted or overlapped in the database

tabVars == <<mode, ready, probed, known, streak, poll, view>>
venueVars == <<position, stops, exits, bared>>
storeVars == <<liveRows, realized, torn>>
liveVars == <<provider, tabVars, placing, clicks, venueVars, storeVars, entries, faults>>

LiveInit ==
    /\ provider \in {"bybit", "binance"}
    /\ mode = FALSE /\ ready = FALSE /\ probed = FALSE /\ known = 0 /\ streak = 0
    /\ poll = NoPoll
    /\ view = {}
    /\ placing = [s \in LiveSymbols |-> NoCall]
    /\ clicks = [c \in Closers |-> NoCall]
    /\ position = [s \in LiveSymbols |-> 0]
    /\ stops = {} /\ exits = <<>> /\ bared = {}
    /\ liveRows = <<>> /\ realized = 0 /\ torn = FALSE
    /\ entries = 0 /\ faults = 0

Held == {s \in LiveSymbols : position[s] # 0}
Signed(n) == IF n > 0 THEN 1 ELSE IF n < 0 THEN -1 ELSE 0

Fault == faults < MaxFaults /\ faults' = faults + 1

-----------------------------------------------------------------------------
(* The exchange *)

(* An order of size one: it opens, adds to, or closes; a stop comes with it or
   stays with the position *)
Order(s, side, protected) ==
    /\ position' = [position EXCEPT ![s] = @ + side]
    /\ exits' = IF position[s] * side < 0 THEN Append(exits, [symbol |-> s, pnl |-> side]) ELSE exits
    /\ stops' = IF position[s] + side = 0 THEN stops \ {s}
                ELSE IF protected THEN stops \cup {s} ELSE stops
    /\ bared' = IF position[s] + side = 0 \/ protected THEN bared \ {s} ELSE bared

Flatten(s) ==
    /\ position' = [position EXCEPT ![s] = 0]
    /\ exits' = Append(exits, [symbol |-> s, pnl |-> -Signed(position[s])])
    /\ stops' = stops \ {s} /\ bared' = bared \ {s}

StopFires(s) ==
    /\ s \in stops /\ Len(exits) < MaxExits
    /\ Flatten(s)
    /\ UNCHANGED <<provider, tabVars, placing, clicks, storeVars, entries, faults>>

-----------------------------------------------------------------------------
(* The tab *)

Arm ==
    /\ ~mode /\ probed
    /\ mode' = TRUE /\ streak' = 0 /\ poll' = NoPoll
    /\ UNCHANGED <<provider, ready, probed, known, view, placing, clicks, venueVars, storeVars, entries, faults>>

Disarm ==
    /\ mode
    /\ mode' = FALSE /\ poll' = NoPoll
    /\ UNCHANGED <<provider, ready, probed, known, streak, view, placing, clicks, venueVars, storeVars, entries, faults>>

Gate(s) == mode /\ ready /\ known < LiveCap /\ placing[s] = NoCall

(* onProposal, submitLiveTrade up to the call *)
SubmitEntry(s, side) ==
    /\ entries < MaxEntries
    /\ Gate(s)
    /\ entries' = entries + 1
    /\ placing' = [placing EXCEPT ![s] = [side |-> side, step |-> "entry"]]
    /\ UNCHANGED <<provider, tabVars, clicks, venueVars, storeVars, faults>>

Filled(s) ==
    /\ placing' = [placing EXCEPT ![s] = NoCall]
    /\ streak' = 0 /\ known' = known + 1
    /\ UNCHANGED <<mode, ready, probed, poll, view>>

(* submitLiveTrade, catch: the circuit breaker *)
Failed(s) ==
    /\ placing' = [placing EXCEPT ![s] = NoCall]
    /\ streak' = streak + 1
    /\ LET trip == streak' >= FailureLimit IN
       /\ mode' = (mode /\ ~trip) /\ ready' = (ready /\ ~trip)
       /\ poll' = IF mode /\ trip THEN NoPoll ELSE poll
    /\ UNCHANGED <<probed, known, view>>

Recorded == {r.exit : r \in {q \in Range(liveRows) : q.status = "closed"}}

(* The reads of a poll and of a close's refresh that may fail: the positions, the
   recorded rows, the exits of Bybit, and the call for the history as a whole *)
RowReads == {"positions", "rows"}
ExitReads == {"exits", "call"}

Reading(failed) ==
    /\ "exits" \in failed => provider = "bybit"
    /\ IF failed # {} THEN Fault ELSE UNCHANGED faults
RowsRead(failed) == IF "rows" \in failed THEN {} ELSE Recorded
HeldRead(failed) == IF "positions" \in failed THEN 0 ELSE Cardinality(Held)

(* load: status, positions and rows, the positions empty when the mode is off
   or their request fails; exits after the rows *)
PollRows(status, failed) ==
    /\ poll = NoPoll
    /\ poll' = [status |-> status, known |-> IF mode THEN HeldRead(failed) ELSE 0,
                rows |-> RowsRead(failed), since |-> Len(exits)]
    /\ IF status # "ready" THEN Fault ELSE Reading(failed)
    /\ UNCHANGED <<provider, mode, ready, probed, known, streak, view, placing, clicks, venueVars, storeVars, entries>>

Listed == {n \in DOMAIN exits : n > Len(exits) - HistoryPage}
Unlisted(rows) == Listed \ rows

History_Rows(rows, reached) == SetToSeq(rows)

(* getBybitHistory: the rows, and the exits of the exchange that no row has if it
   can be reached; getLiveHistory: the rows *)
History(rows, reached) ==
    SetToSeq(rows) \o (IF provider = "bybit" /\ reached THEN SetToSeq(Unlisted(rows)) ELSE <<>>)

Shown(rows, failed) == IF "call" \in failed THEN {} ELSE Range(History(rows, "exits" \notin failed))

(* The rest of load: a status that failed to arrive changes nothing but the
   readiness, a call for the history that did shows none *)
PollExits(failed) ==
    /\ poll # NoPoll
    /\ poll' = NoPoll
    /\ ready' = (poll.status = "ready") /\ probed' = ready'
    /\ IF poll.status = "thrown"
       THEN failed = {} /\ UNCHANGED <<mode, known, view>>
       ELSE /\ mode' = (mode /\ ready')
            /\ known' = poll.known
            /\ view' = Shown(poll.rows, failed)
    /\ Reading(failed)
    /\ UNCHANGED <<provider, streak, placing, clicks, venueVars, storeVars, entries>>

-----------------------------------------------------------------------------
(* placeBybitTrade, placeLiveTrade *)

To(s, step) == placing' = [placing EXCEPT ![s].step = step] /\ UNCHANGED tabVars

Protects == provider = "bybit"     \* the stop is part of Bybit's entry order

(* The order arrives, its answer does not *)
Lost(s) ==
    LET side == placing[s].side IN
    /\ position' = [position EXCEPT ![s] = @ + side]
    /\ exits' = IF position[s] * side < 0 THEN Append(exits, [symbol |-> s, pnl |-> side]) ELSE exits
    /\ stops' = IF position'[s] = 0 THEN stops \ {s} ELSE IF Protects THEN stops \cup {s} ELSE stops
    /\ bared' = IF position'[s] = 0 \/ s \in stops' THEN bared \ {s} ELSE bared \cup {s}

Entry(s) ==
    /\ placing[s] # NoCall /\ placing[s].step = "entry"
    /\ \/ /\ Order(s, placing[s].side, Protects)
          /\ To(s, IF provider = "bybit" THEN "persist" ELSE "protect")
          /\ UNCHANGED faults
       \/ Fault /\ Failed(s) /\ UNCHANGED venueVars
       \/ Fault /\ Failed(s) /\ Lost(s)
    /\ Len(exits') <= MaxExits
    /\ UNCHANGED <<provider, clicks, storeVars, entries>>

Bare(s) ==
    /\ bared' = IF s \in Held \ stops THEN bared \cup {s} ELSE bared
    /\ UNCHANGED <<position, stops, exits>>

(* Binance: stop and trailing stop, refused without a position to protect *)
Protect(s) ==
    /\ placing[s] # NoCall /\ placing[s].step = "protect"
    /\ \/ /\ Signed(position[s]) = placing[s].side
          /\ stops' = stops \cup {s} /\ bared' = bared \ {s}
          /\ To(s, "persist")
          /\ UNCHANGED <<faults, position, exits>>
       \/ /\ Signed(position[s]) # placing[s].side
          /\ To(s, "rollback")
          /\ UNCHANGED <<faults, venueVars>>
       \/ Fault /\ To(s, "rollback") /\ UNCHANGED venueVars
       \/ Fault /\ Failed(s) /\ Bare(s)      \* the function is cut off
    /\ UNCHANGED <<provider, clicks, storeVars, entries>>

(* persistLiveOpenTrade *)
Persist(s) ==
    /\ placing[s] # NoCall /\ placing[s].step = "persist"
    /\ \/ /\ liveRows' = Append(liveRows, [symbol |-> s, status |-> "open", exit |-> 0, pnl |-> 0])
          /\ Filled(s)
          /\ UNCHANGED faults
       \/ /\ Fault
          /\ IF provider = "binance" THEN To(s, "rollback") ELSE Failed(s)
          /\ UNCHANGED liveRows
    /\ UNCHANGED <<provider, clicks, venueVars, realized, torn, entries>>

Undoes(s) == Signed(position[s]) = placing[s].side     \* reduceOnly

(* Binance, catch: close the entry, best effort *)
Rollback(s) ==
    /\ placing[s] # NoCall /\ placing[s].step = "rollback"
    /\ \/ /\ Undoes(s) /\ Len(exits) < MaxExits
          /\ Order(s, -placing[s].side, FALSE)
          /\ UNCHANGED faults
       \/ ~Undoes(s) /\ UNCHANGED <<venueVars, faults>>
       \/ Fault /\ Bare(s)
    /\ Failed(s)
    /\ UNCHANGED <<provider, clicks, storeVars, entries>>

-----------------------------------------------------------------------------
(* closeBybitPosition, closeLivePosition *)

Step(c, step) == clicks' = [clicks EXCEPT ![c].step = step]
Return(c) == clicks' = [clicks EXCEPT ![c] = NoCall]

ReadPosition(c, s) ==
    /\ clicks[c] = NoCall /\ known > 0     \* the tab lists what it knows of
    /\ \/ /\ position[s] # 0
          /\ clicks' = [clicks EXCEPT ![c] = [symbol |-> s, size |-> position[s], step |-> "order",
                                                exit |-> 0, row |-> 0]]
       \/ /\ position[s] = 0 /\ provider = "binance"
          /\ clicks' = [clicks EXCEPT ![c] = [symbol |-> s, size |-> 0, step |-> "cancel",
                                                exit |-> 0, row |-> 0]]
    /\ UNCHANGED <<provider, tabVars, placing, venueVars, storeVars, entries, faults>>

(* The size read, reduceOnly: at most what is there *)
CloseOrder(c) ==
    /\ clicks[c] # NoCall /\ clicks[c].step = "order"
    /\ LET s == clicks[c].symbol  size == clicks[c].size
           rest == position[s] - size IN
       \/ /\ Signed(position[s]) # Signed(size)
          /\ Return(c)
          /\ UNCHANGED venueVars
       \/ /\ Signed(position[s]) = Signed(size) /\ Len(exits) < MaxExits
          /\ IF rest * Signed(size) <= 0 THEN Flatten(s)
             ELSE /\ position' = [position EXCEPT ![s] = rest]
                  /\ exits' = Append(exits, [symbol |-> s, pnl |-> -Signed(size)])
                  /\ UNCHANGED <<stops, bared>>
          /\ clicks' = [clicks EXCEPT ![c].exit = Len(exits) + 1,
                            ![c].step = IF provider = "binance" THEN "cancel" ELSE "select"]
    /\ UNCHANGED <<provider, tabVars, placing, storeVars, entries, faults>>

(* Binance: every open order of the symbol *)
CancelAll(c) ==
    /\ clicks[c] # NoCall /\ clicks[c].step = "cancel"
    /\ LET s == clicks[c].symbol IN
       /\ stops' = stops \ {s}
       /\ bared' = IF s \in Held THEN bared \cup {s} ELSE bared
    /\ Step(c, IF clicks[c].size = 0 THEN "refresh" ELSE "select")
    /\ UNCHANGED <<provider, tabVars, placing, position, exits, storeVars, entries, faults>>

OpenRows(s) == {i \in DOMAIN liveRows : liveRows[i].symbol = s /\ liveRows[i].status = "open"}

WithoutRow_Credits == "credit"
WithoutRow == "refresh"

(* persistLiveCloseTrade: the newest open row, the row, the account *)
SelectRow(c) ==
    /\ clicks[c] # NoCall /\ clicks[c].step = "select"
    /\ LET open == OpenRows(clicks[c].symbol) IN
       clicks' = [clicks EXCEPT ![c] =
          IF open = {} THEN [@ EXCEPT !.step = WithoutRow] ELSE [@ EXCEPT !.row = Max(open), !.step = "update"]]
    /\ UNCHANGED <<provider, tabVars, placing, venueVars, storeVars, entries, faults>>

UpdateRow(c) ==
    /\ clicks[c] # NoCall /\ clicks[c].step = "update"
    /\ LET i == clicks[c].row IN
       /\ liveRows' = [liveRows EXCEPT ![i].status = "closed", ![i].exit = clicks[c].exit,
                                       ![i].pnl = exits[clicks[c].exit].pnl]
       /\ torn' = (torn \/ liveRows[i].status = "closed")
    /\ Step(c, "credit")
    /\ UNCHANGED <<provider, tabVars, placing, venueVars, realized, entries, faults>>

Credit(c) ==
    /\ clicks[c] # NoCall /\ clicks[c].step = "credit"
    /\ realized' = realized + exits[clicks[c].exit].pnl
    /\ Step(c, "refresh")
    /\ UNCHANGED <<provider, tabVars, placing, venueVars, liveRows, torn, entries, faults>>

(* handleCloseLive: the tab asks for the positions and the history *)
Refresh(c, failed) ==
    /\ clicks[c] # NoCall /\ clicks[c].step = "refresh"
    /\ known' = HeldRead(failed)
    /\ view' = Shown(RowsRead(failed), failed)
    /\ Reading(failed)
    /\ Return(c)
    /\ UNCHANGED <<provider, mode, ready, probed, streak, poll, placing, venueVars, storeVars, entries>>

(* A request that fails or a function that is cut off *)
Interrupt(c) ==
    /\ clicks[c] # NoCall /\ clicks[c].step # "refresh"
    /\ Fault
    /\ torn' = (torn \/ clicks[c].step = "credit")
    /\ Return(c)
    /\ UNCHANGED <<provider, tabVars, placing, venueVars, liveRows, realized, entries>>

-----------------------------------------------------------------------------

Placement(s) == Entry(s) \/ Protect(s) \/ Persist(s) \/ Rollback(s)
CloseCall(c) == CloseOrder(c) \/ CancelAll(c) \/ SelectRow(c) \/ UpdateRow(c) \/ Credit(c)
    \/ \E failed \in SUBSET (RowReads \cup ExitReads) : Refresh(c, failed)

Probes == {"ready", "error"}
Statuses == Probes \cup {"thrown"}

LiveNext ==
    \/ Arm \/ Disarm
    \/ \E failed \in SUBSET ExitReads : PollExits(failed)
    \/ \E status \in Statuses, failed \in SUBSET RowReads : PollRows(status, failed)
    \/ \E s \in LiveSymbols :
          \/ StopFires(s) \/ Placement(s)
          \/ \E side \in {1, -1} : SubmitEntry(s, side)
          \/ \E c \in Closers : ReadPosition(c, s)
    \/ \E c \in Closers : CloseCall(c) \/ Interrupt(c)

TradingSpec == LiveInit /\ [][LiveNext]_liveVars

-----------------------------------------------------------------------------

LiveTypeOK ==
    /\ {mode, ready, probed, torn} \subseteq BOOLEAN
    /\ known \in 0..(MaxEntries + Cardinality(LiveSymbols)) /\ streak \in 0..MaxEntries
    /\ placing \in [LiveSymbols -> Placements \cup {NoCall}]
    /\ clicks \in [Closers -> Closes \cup {NoCall}]
    /\ position \in [LiveSymbols -> -MaxEntries..MaxEntries]
    /\ stops \subseteq Held /\ bared \subseteq Held
    /\ exits \in Seq([symbol : LiveSymbols, pnl : Pnls]) /\ Len(exits) <= MaxExits
    /\ liveRows \in Seq(Trades)

(* A position stands without a stop only on Binance, while its placement runs,
   after an entry or a rollback whose call was lost, or after a close that had
   read another size. *)
Guarded ==
    \A s \in Held \ stops :
        provider = "binance" /\ (placing[s] # NoCall \/ s \in bared)

(* The account's profit is that of its closed rows once no close is between the
   two, unless one was interrupted there or two met on one row. *)
AccountOfRows ==
    ~torn /\ (\A c \in Closers : clicks[c] # NoCall => clicks[c].step # "credit") =>
        realized = SumFunction([i \in DOMAIN liveRows |-> liveRows[i].pnl])

(* Consecutive failures stop the tab: what was in flight may still fail. *)
BreakerBounds == streak < FailureLimit + Cardinality(LiveSymbols)

(* Bybit's history shows no exit twice and every exit it read a row of, whatever
   rows land while it reads.  If the exchange answers, it shows every exit of the
   page that the exchange knew when the poll began, also when the rows were not
   read; if it does not, the exits that have no row are missing. *)
HistoryOnce ==
    provider = "bybit" /\ poll # NoPoll =>
        \A reached \in BOOLEAN :
            LET shown == History(poll.rows, reached) IN
            /\ Len(shown) = Cardinality(Range(shown))
            /\ poll.rows \subseteq Range(shown)
            /\ reached => (1..poll.since) \cap Listed \subseteq Range(shown)

(* An exit on the exchange reaches the history, also when no row records it. *)
HistoryCatchesUp ==
    \A n \in ExitIds :
        provider = "bybit" /\ n \in DOMAIN exits ~> n \in view

(* dashboard.tsx:454, 475-476: a burst of proposals cannot blow past the cap. *)
CapHolds == Cardinality(Held) <= LiveCap

(* A position stands bare only where a placement or a lost answer explains it, the account
   is the sum of its closed rows, failures in a row stop the tab, and the history shows no exit
   twice and leaves out none that its reads returned. *)
LiveOK == LiveTypeOK /\ Guarded /\ AccountOfRows /\ BreakerBounds /\ HistoryOnce

=============================================================================
